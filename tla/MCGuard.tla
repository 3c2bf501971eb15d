-------------------------------- MODULE MCGuard --------------------------------
(* A model-checking instance of Guard. *)
EXTENDS Guard

CONSTANTS a1, a2

Method(method) == [NoLine EXCEPT !.method = method]
Call(tool, approval, action) ==
  [Method("tools/call") EXCEPT !.tool = tool, !.approval = approval, !.action = action]

\* A line of each kind, and the calls of each tool with good and bad arguments.
MCLines ==
  {[NoLine EXCEPT !.kind = "garbage"]} \cup {Method(method) : method \in Methods}
  \cup {Call("review_pending", None, "other"), Call("show_summary", a1, "other"),
        Call("decide_approval", None, "block"),
        Call("decide_approval", a1, "other")}
  \cup {Call("decide_approval", a1, action) : action \in Action}
================================================================================
