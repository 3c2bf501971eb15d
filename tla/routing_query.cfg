SPECIFICATION Spec
CONSTANTS
  Protocols = {openai, gemini}
  Ids = {i1, i2}
  Runtimes = {codex}
  Bases = {b1, b2}
  Words = {chat}
  None = None
SYMMETRY Symmetry
INVARIANT QueryIsKept
