---------------------------- MODULE EventsProofs ----------------------------
(***************************************************************************)
(* What TLAPS proves of Events, for every set of posts, every window and   *)
(* every limit.                                                            *)
(***************************************************************************)
EXTENDS Events, FiniteSetTheorems, SequenceTheorems, WellFoundedInduction, TLAPS

-----------------------------------------------------------------------------
(* What allow() does to the deque of one key. *)

LEMMA LeastNumber ==
  ASSUME NEW set \in SUBSET Nat, set # {}
  PROVE  \E i \in set : \A j \in set : i <= j
<1>1. PICK i \in set : \A j \in set : <<j, i>> \notin OpToRel(<, Nat)
  BY WFMin, NatLessThanWellFounded, Zenon
<1>2. \A j \in set : ~(j < i)
  BY <1>1 DEF OpToRel
<1>. QED  BY <1>2

\* The number of entries that are popped is the one the loop stops at.
LEMMA PoppedStops ==
  ASSUME NEW times \in Seq(Nat), NEW now \in Nat
  PROVE  /\ Popped(times, now) \in 0 .. Len(times)
         /\ \A i \in 1 .. Popped(times, now) : Gone(times[i], now)
         /\ Popped(times, now) < Len(times) => ~Gone(times[Popped(times, now) + 1], now)
<1>. DEFINE stops == {n \in 0 .. Len(times) : n < Len(times) => ~Gone(times[n + 1], now)}
<1>1. stops \in SUBSET Nat /\ Len(times) \in stops
  OBVIOUS
<1>2. PICK n \in stops : \A m \in stops : n <= m
  BY <1>1, LeastNumber
<1>. HIDE DEF stops
<1>3. \A i \in 1 .. n : Gone(times[i], now)
  <2>1. SUFFICES ASSUME NEW i \in 1 .. n  PROVE  Gone(times[i], now)
    OBVIOUS
  <2>2. n \in 0 .. Len(times)
    BY <1>2 DEF stops
  <2>3. i - 1 \in 0 .. Len(times) /\ i - 1 < n /\ (i - 1) + 1 = i
    BY <2>2
  <2>4. i - 1 \notin stops
    BY <1>2, <2>2, <2>3
  <2>5. Gone(times[(i - 1) + 1], now)
    BY <2>3, <2>4 DEF stops
  <2>. QED  BY <2>3, <2>5
<1>4. \E k \in 0 .. Len(times) :
        /\ \A i \in 1 .. k : Gone(times[i], now)
        /\ k < Len(times) => ~Gone(times[k + 1], now)
  BY <1>2, <1>3 DEF stops
<1>. QED  BY <1>4 DEF Popped

Drops(deque, recent, n, now) ==
  /\ Len(recent) = Len(deque) - n
  /\ \A j \in 1 .. Len(recent) : recent[j] = deque[n + j]
  /\ \A i \in 1 .. n : Gone(deque[i], now)
  /\ n < Len(deque) => ~Gone(deque[n + 1], now)

\* What is left is a suffix, and the loop stopped before its first entry.
LEMMA RecentIsASuffix ==
  ASSUME NEW times \in Seq(Nat), NEW now \in Nat
  PROVE  /\ Recent(times, now) \in Seq(Nat)
         /\ \E n \in 0 .. Len(times) : Drops(times, Recent(times, now), n, now)
<1>1. PICK n \in 0 .. Len(times) :
        /\ n = Popped(times, now)
        /\ \A i \in 1 .. n : Gone(times[i], now)
        /\ n < Len(times) => ~Gone(times[n + 1], now)
  BY PoppedStops
<1>2. Recent(times, now) = SubSeq(times, n + 1, Len(times))
  BY <1>1 DEF Recent
<1>3. /\ SubSeq(times, n + 1, Len(times)) \in Seq(Nat)
      /\ Len(SubSeq(times, n + 1, Len(times))) = Len(times) - n
      /\ \A j \in 1 .. Len(times) - n : SubSeq(times, n + 1, Len(times))[j] = times[n + j]
  OBVIOUS
<1>4. Drops(times, SubSeq(times, n + 1, Len(times)), n, now)
  BY <1>1, <1>3 DEF Drops
<1>. QED  BY <1>2, <1>3, <1>4

-----------------------------------------------------------------------------
(* The invariant of one key: its admissions are in order of time, its deque *)
(* is their last part, and what the deque has forgotten is out of the       *)
(* window.                                                                  *)

InOrder(adm, now) ==
  /\ \A i, j \in 1 .. Len(adm) : i <= j => adm[i] <= adm[j]
  /\ \A i \in 1 .. Len(adm) : adm[i] <= now

IsTheWindow(adm, deque, now) ==
  /\ Len(deque) <= Len(adm)
  /\ \A j \in 1 .. Len(deque) : deque[j] = adm[(Len(adm) - Len(deque)) + j]
  /\ \A i \in 1 .. Len(adm) - Len(deque) : now - adm[i] >= Window

Spaced(adm) ==
  \A i \in 1 .. Len(adm) : i + Limit \in 1 .. Len(adm) => adm[i + Limit] - adm[i] >= Window

KeyInv(adm, deque, now) ==
  /\ InOrder(adm, now)
  /\ Len(deque) <= Limit
  /\ IsTheWindow(adm, deque, now)
  /\ Spaced(adm)

LEMMA TickKeepsKey ==
  ASSUME NEW adm \in Seq(Nat), NEW deque \in Seq(Nat), NEW now \in Nat,
         KeyInv(adm, deque, now)
  PROVE  KeyInv(adm, deque, now + 1)
<1>1. \A i \in 1 .. Len(adm) : adm[i] \in Nat /\ adm[i] <= now + 1
  BY DEF KeyInv, InOrder
<1>2. InOrder(adm, now + 1)
  BY <1>1 DEF KeyInv, InOrder
<1>3. IsTheWindow(adm, deque, now + 1)
  <2>1. ASSUME NEW i \in 1 .. Len(adm) - Len(deque)
        PROVE  (now + 1) - adm[i] >= Window
    <3>1. i \in 1 .. Len(adm) /\ now - adm[i] >= Window
      BY DEF KeyInv, IsTheWindow
    <3>. QED  BY <1>1, <3>1, EventsAssumption
  <2>. QED  BY <2>1 DEF KeyInv, IsTheWindow
<1>. QED  BY <1>2, <1>3 DEF KeyInv

\* The same in terms of places alone: a admissions, of which the deque holds
\* the last d, and n of these are popped.
Before(a, d, n, adm, deque, recent, now) ==
  /\ n <= d /\ d <= a
  /\ \A i \in 1 .. a : adm[i] \in Nat
  /\ \A i, j \in 1 .. a : i <= j => adm[i] <= adm[j]
  /\ \A j \in 1 .. d : deque[j] = adm[(a - d) + j]
  /\ \A i \in 1 .. a - d : now - adm[i] >= Window
  /\ \A j \in 1 .. d - n : recent[j] = deque[n + j]
  /\ \A i \in 1 .. n : Gone(deque[i], now)
  /\ n < d => ~Gone(deque[n + 1], now)

After(a, d, n, adm, recent, now) ==
  /\ \A j \in 1 .. d - n : recent[j] = adm[(a - (d - n)) + j]
  /\ \A i \in 1 .. a - (d - n) : now - adm[i] >= Window
  /\ \A j \in 1 .. d - n : now - adm[(a - (d - n)) + j] < Window

LEMMA Places ==
  ASSUME NEW a \in Nat, NEW d \in Nat, NEW n \in Nat,
         NEW adm, NEW deque, NEW recent, NEW now \in Nat,
         Before(a, d, n, adm, deque, recent, now)
  PROVE  After(a, d, n, adm, recent, now)
<1>. USE DEF Before
<1>1. ASSUME NEW j \in 1 .. d - n
      PROVE  recent[j] = adm[(a - (d - n)) + j]
  <2>1. n + j \in 1 .. d /\ (a - d) + (n + j) = (a - (d - n)) + j
    OBVIOUS
  <2>2. deque[n + j] = adm[(a - d) + (n + j)]
    BY <2>1
  <2>. QED  BY <2>1, <2>2
<1>2. ASSUME NEW i \in 1 .. a - (d - n)
      PROVE  now - adm[i] >= Window
  <2>1. CASE i <= a - d
    BY <2>1
  <2>2. CASE i > a - d
    <3>1. i - (a - d) \in 1 .. n /\ i - (a - d) \in 1 .. d /\ (a - d) + (i - (a - d)) = i
      BY <2>2
    <3>2. Gone(deque[i - (a - d)], now)
      BY <3>1
    <3>3. deque[i - (a - d)] = adm[i]
      BY <3>1
    <3>. QED  BY <3>2, <3>3 DEF Gone
  <2>. QED  BY <2>1, <2>2
<1>3. ASSUME NEW j \in 1 .. d - n
      PROVE  now - adm[(a - (d - n)) + j] < Window
  <2>. DEFINE x == (a - d) + (n + 1)
              y == (a - (d - n)) + j
  <2>1. n < d /\ n + 1 \in 1 .. d
    OBVIOUS
  <2>2. deque[n + 1] = adm[x]
    BY <2>1
  <2>3. ~Gone(adm[x], now)
    BY <2>1, <2>2
  <2>4. x \in 1 .. a /\ y \in 1 .. a /\ x <= y
    OBVIOUS
  <2>. HIDE DEF x, y
  <2>5. adm[x] <= adm[y] /\ adm[x] \in Nat /\ adm[y] \in Nat
    BY <2>4
  <2>6. now - adm[x] < Window
    BY <2>3, <2>5, EventsAssumption DEF Gone
  <2>7. now - adm[y] < Window
    BY <2>5, <2>6, EventsAssumption
  <2>. QED  BY <2>7 DEF y
<1>. QED  BY <1>1, <1>2, <1>3 DEF After

LEMMA PopKeepsKey ==
  ASSUME NEW adm \in Seq(Nat), NEW deque \in Seq(Nat), NEW now \in Nat,
         KeyInv(adm, deque, now)
  PROVE  /\ Recent(deque, now) \in Seq(Nat)
         /\ KeyInv(adm, Recent(deque, now), now)
         /\ \A j \in 1 .. Len(Recent(deque, now)) :
              now - adm[(Len(adm) - Len(Recent(deque, now))) + j] < Window
<1>1. /\ Recent(deque, now) \in Seq(Nat)
      /\ \E n \in 0 .. Len(deque) : Drops(deque, Recent(deque, now), n, now)
  BY RecentIsASuffix
<1>2. PICK recent \in Seq(Nat) : recent = Recent(deque, now)
  BY <1>1
<1>3. PICK n \in 0 .. Len(deque) : Drops(deque, recent, n, now)
  BY <1>1, <1>2
<1>4. /\ Len(adm) \in Nat /\ Len(deque) \in Nat /\ n \in Nat
      /\ n <= Len(deque) /\ Len(deque) <= Len(adm)
  BY DEF KeyInv, IsTheWindow
<1>5. Len(recent) = Len(deque) - n
  BY <1>3 DEF Drops
<1>6. /\ \A i \in 1 .. Len(adm) : adm[i] \in Nat
      /\ \A i, j \in 1 .. Len(adm) : i <= j => adm[i] <= adm[j]
      /\ \A j \in 1 .. Len(deque) : deque[j] = adm[(Len(adm) - Len(deque)) + j]
      /\ \A i \in 1 .. Len(adm) - Len(deque) : now - adm[i] >= Window
  BY DEF KeyInv, InOrder, IsTheWindow
<1>7. /\ \A j \in 1 .. Len(deque) - n : recent[j] = deque[n + j]
      /\ \A i \in 1 .. n : Gone(deque[i], now)
      /\ n < Len(deque) => ~Gone(deque[n + 1], now)
  BY <1>3, <1>5 DEF Drops
<1>8. Before(Len(adm), Len(deque), n, adm, deque, recent, now)
  BY <1>4, <1>6, <1>7 DEF Before
<1>9. After(Len(adm), Len(deque), n, adm, recent, now)
  BY <1>4, <1>8, Places, Zenon
<1>10. Len(recent) <= Len(adm) /\ Len(recent) <= Limit
  BY <1>4, <1>5, EventsAssumption DEF KeyInv
<1>11. KeyInv(adm, recent, now)
  BY <1>5, <1>9, <1>10 DEF KeyInv, IsTheWindow, After
<1>12. \A j \in 1 .. Len(recent) : now - adm[(Len(adm) - Len(recent)) + j] < Window
  BY <1>5, <1>9 DEF After
<1>. QED  BY <1>2, <1>11, <1>12

\* With room in the deque, the new admission is a window after the one Limit
\* places before it: that one has been forgotten.
LEMMA AdmitKeepsKey ==
  ASSUME NEW adm \in Seq(Nat), NEW deque \in Seq(Nat), NEW now \in Nat,
         KeyInv(adm, deque, now), Len(deque) < Limit
  PROVE  KeyInv(Append(adm, now), Append(deque, now), now)
<1>. DEFINE a == Append(adm, now)
            d == Append(deque, now)
<1>1. /\ a \in Seq(Nat) /\ Len(a) = Len(adm) + 1
      /\ \A i \in 1 .. Len(adm) : a[i] = adm[i]
      /\ a[Len(adm) + 1] = now
  OBVIOUS
<1>2. /\ d \in Seq(Nat) /\ Len(d) = Len(deque) + 1
      /\ \A i \in 1 .. Len(deque) : d[i] = deque[i]
      /\ d[Len(deque) + 1] = now
  OBVIOUS
<1>3. Len(deque) <= Len(adm)
  BY DEF KeyInv, IsTheWindow
<1>4. \A i \in 1 .. Len(adm) : adm[i] \in Nat
  OBVIOUS
<1>5. Len(adm) \in Nat /\ Len(deque) \in Nat
  OBVIOUS
<1>. HIDE DEF a, d
<1>6. InOrder(a, now)
  <2>1. ASSUME NEW i \in 1 .. Len(a)  PROVE  a[i] <= now
    <3>1. CASE i \in 1 .. Len(adm)
      BY <1>1, <3>1 DEF KeyInv, InOrder
    <3>2. CASE i = Len(adm) + 1
      BY <1>1, <3>2
    <3>. QED  BY <1>1, <1>5, <3>1, <3>2
  <2>2. ASSUME NEW i \in 1 .. Len(a), NEW j \in 1 .. Len(a), i <= j
        PROVE  a[i] <= a[j]
    <3>1. CASE j \in 1 .. Len(adm)
      <4>1. i \in 1 .. Len(adm)
        BY <2>2, <3>1
      <4>. QED  BY <1>1, <2>2, <3>1, <4>1 DEF KeyInv, InOrder
    <3>2. CASE j = Len(adm) + 1
      BY <1>1, <2>1, <3>2
    <3>. QED  BY <1>1, <1>5, <3>1, <3>2
  <2>. QED  BY <2>1, <2>2 DEF InOrder
<1>7. Len(d) <= Limit
  BY <1>2, <1>5, EventsAssumption
<1>8. IsTheWindow(a, d, now)
  <2>1. Len(d) <= Len(a) /\ Len(a) - Len(d) = Len(adm) - Len(deque)
    BY <1>1, <1>2, <1>3, <1>5
  <2>2. ASSUME NEW j \in 1 .. Len(d)
        PROVE  d[j] = a[(Len(a) - Len(d)) + j]
    <3>1. CASE j \in 1 .. Len(deque)
      <4>1. deque[j] = adm[(Len(adm) - Len(deque)) + j]
        BY <3>1 DEF KeyInv, IsTheWindow
      <4>2. (Len(adm) - Len(deque)) + j \in 1 .. Len(adm)
        BY <1>3, <1>5, <3>1
      <4>. QED  BY <1>1, <1>2, <2>1, <3>1, <4>1, <4>2
    <3>2. CASE j = Len(deque) + 1
      <4>1. (Len(a) - Len(d)) + j = Len(adm) + 1
        BY <1>5, <2>1, <3>2
      <4>. QED  BY <1>1, <1>2, <3>2, <4>1
    <3>. QED  BY <1>2, <1>5, <3>1, <3>2
  <2>3. ASSUME NEW i \in 1 .. Len(a) - Len(d)
        PROVE  now - a[i] >= Window
    <3>1. i \in 1 .. Len(adm) - Len(deque) /\ i \in 1 .. Len(adm)
      BY <1>3, <1>5, <2>1
    <3>2. now - adm[i] >= Window
      BY <3>1 DEF KeyInv, IsTheWindow
    <3>. QED  BY <1>1, <3>1, <3>2
  <2>. QED  BY <2>1, <2>2, <2>3 DEF IsTheWindow
<1>9. Spaced(a)
  <2>1. SUFFICES ASSUME NEW i \in 1 .. Len(a), i + Limit \in 1 .. Len(a)
                 PROVE  a[i + Limit] - a[i] >= Window
    BY DEF Spaced
  <2>2. i \in 1 .. Len(adm)
    BY <1>1, <1>5, <2>1, EventsAssumption
  <2>3. CASE i + Limit \in 1 .. Len(adm)
    BY <1>1, <2>2, <2>3 DEF KeyInv, Spaced
  <2>4. CASE i + Limit = Len(adm) + 1
    <3>1. i \in 1 .. Len(adm) - Len(deque)
      BY <1>3, <1>5, <2>2, <2>4, EventsAssumption
    <3>2. now - adm[i] >= Window
      BY <3>1 DEF KeyInv, IsTheWindow
    <3>. QED  BY <1>1, <2>2, <2>4, <3>2
  <2>5. i + Limit \in 1 .. Len(adm) \/ i + Limit = Len(adm) + 1
    BY <1>1, <1>5, <2>1
  <2>. QED  BY <2>3, <2>4, <2>5
<1>. QED  BY <1>6, <1>7, <1>8, <1>9 DEF KeyInv, a, d

LEMMA EmptyKey ==
  ASSUME NEW now \in Nat
  PROVE  KeyInv(<<>>, <<>>, now)
BY EventsAssumption DEF KeyInv, InOrder, IsTheWindow, Spaced

LEMMA RecentIsOf ==
  ASSUME NEW S, NEW times \in Seq(S), times \in Seq(Nat), NEW now \in Nat
  PROVE  Recent(times, now) \in Seq(S)
<1>1. PICK n \in 0 .. Len(times) : n = Popped(times, now)
  BY PoppedStops
<1>2. SubSeq(times, n + 1, Len(times)) \in Seq(S)
  OBVIOUS
<1>. QED  BY <1>1, <1>2 DEF Recent

-----------------------------------------------------------------------------
(* The inductive invariant. *)

Windows == \A k \in Keys : KeyInv(admissions[k], recent_events[k], clock)

\* A post is answered last, and one whose row is in waits for its answer.
Rows ==
  \A p \in Posts :
    /\ answer[p] # "none" => pc[p] = "done"
    /\ pc[p] = "stored" => p \in events

Inv == TypeOK /\ Windows /\ Rows /\ AnswersMatchTheTable

LEMMA InitInv == Init => Inv
<1>. SUFFICES ASSUME Init  PROVE Inv
  OBVIOUS
<1>1. TypeOK
  BY EventsAssumption DEF Init, TypeOK
<1>2. Windows
  BY EmptyKey DEF Init, Windows
<1>3. Rows /\ AnswersMatchTheTable
  BY DEF Init, Rows, AnswersMatchTheTable
<1>. QED  BY <1>1, <1>2, <1>3 DEF Inv

LEMMA KeyIsAKey ==
  ASSUME TypeOK, NEW p \in Posts
  PROVE  Key(p) \in Keys
BY DEF TypeOK, Key, Keys

\* What allow() makes of the deque of key k, and what it does then.
AllowDoes(p, k, recent) ==
  /\ KeyInv(admissions[k], recent, clock)
  /\ \A j \in 1 .. Len(recent) :
       clock - admissions[k][(Len(admissions[k]) - Len(recent)) + j] < Window
  /\ pc[p] = "limit"
  /\ arrived' = [arrived EXCEPT ![p] = 0]
  /\ UNCHANGED <<form, events, clock, crashes>>
  /\ IF Full(recent)
     THEN /\ recent_events' = [recent_events EXCEPT ![k] = recent]
          /\ Answer(p, "rate_limited") /\ UNCHANGED admissions
     ELSE /\ recent_events' = [recent_events EXCEPT ![k] = Append(recent, clock)]
          /\ pc' = [pc EXCEPT ![p] = "persist"] /\ UNCHANGED answer
          /\ admissions' = [admissions EXCEPT ![k] = Append(@, clock)]

LEMMA KeyTypes ==
  ASSUME Inv, NEW k \in Keys
  PROVE  /\ clock \in 0 .. LastClock /\ clock \in Nat /\ LastClock \in Nat
         /\ recent_events[k] \in Seq(0 .. LastClock) /\ recent_events[k] \in Seq(Nat)
         /\ admissions[k] \in Seq(0 .. LastClock) /\ admissions[k] \in Seq(Nat)
         /\ KeyInv(admissions[k], recent_events[k], clock)
<1>1. recent_events[k] \in Seq(0 .. LastClock) /\ admissions[k] \in Seq(0 .. LastClock)
  BY DEF Inv, TypeOK
<1>2. clock \in 0 .. LastClock
  BY DEF Inv, TypeOK
<1>3. KeyInv(admissions[k], recent_events[k], clock)
  BY DEF Inv, Windows
<1>. QED  BY <1>1, <1>2, <1>3, EventsAssumption

LEMMA AllowPrunes ==
  ASSUME Inv, NEW p \in Posts, Allow(p)
  PROVE  \E recent \in Seq(0 .. LastClock) : AllowDoes(p, Key(p), recent)
<1>1. PICK k \in Keys : k = Key(p)
  BY KeyIsAKey DEF Inv
<1>2. PICK recent \in Seq(0 .. LastClock) : recent = Recent(recent_events[k], clock)
  BY <1>1, KeyTypes, RecentIsOf
<1>3. /\ KeyInv(admissions[k], recent, clock)
      /\ \A j \in 1 .. Len(recent) :
           clock - admissions[k][(Len(admissions[k]) - Len(recent)) + j] < Window
  BY <1>1, <1>2, KeyTypes, PopKeepsKey
<1>4. AllowDoes(p, k, recent)
  BY <1>1, <1>2, <1>3 DEF Allow, Now, AllowDoes
<1>. QED  BY <1>1, <1>4

LEMMA AllowStep ==
  ASSUME Inv, NEW p \in Posts, Allow(p)
  PROVE  Inv'
<1>. USE DEF Inv
<1>1. PICK k \in Keys : k = Key(p)
  BY KeyIsAKey
<1>2. /\ clock \in 0 .. LastClock /\ clock \in Nat /\ LastClock \in Nat
      /\ admissions[k] \in Seq(0 .. LastClock) /\ admissions[k] \in Seq(Nat)
  BY KeyTypes
<1>3. PICK recent \in Seq(0 .. LastClock) : AllowDoes(p, k, recent)
  BY <1>1, AllowPrunes
<1>4. KeyInv(admissions[k], recent, clock)
  BY <1>3 DEF AllowDoes
<1>5. /\ pc[p] = "limit"
      /\ arrived' = [arrived EXCEPT ![p] = 0]
      /\ UNCHANGED <<form, events, clock, crashes>>
      /\ IF Full(recent)
         THEN /\ recent_events' = [recent_events EXCEPT ![k] = recent]
              /\ Answer(p, "rate_limited") /\ UNCHANGED admissions
         ELSE /\ recent_events' = [recent_events EXCEPT ![k] = Append(recent, clock)]
              /\ pc' = [pc EXCEPT ![p] = "persist"] /\ UNCHANGED answer
              /\ admissions' = [admissions EXCEPT ![k] = Append(@, clock)]
  BY <1>3 DEF AllowDoes
<1>6. PICK window : window = recent_events'[k]
  OBVIOUS
<1>7. PICK times : times = admissions'[k]
  OBVIOUS
<1>8. /\ window \in Seq(0 .. LastClock) /\ times \in Seq(0 .. LastClock)
      /\ KeyInv(times, window, clock) /\ Len(window) <= Limit
      /\ recent_events' = [recent_events EXCEPT ![k] = window]
      /\ admissions' = [admissions EXCEPT ![k] = times]
  <2>0. k \in DOMAIN recent_events /\ k \in DOMAIN admissions
        /\ admissions = [admissions EXCEPT ![k] = admissions[k]]
    BY DEF TypeOK
  <2>1. CASE Full(recent)
    <3>1. window = recent /\ times = admissions[k]
      BY <1>5, <1>6, <1>7, <2>0, <2>1
    <3>2. KeyInv(times, window, clock)
      BY <1>4, <3>1
    <3>3. Len(window) <= Limit
      BY <3>2 DEF KeyInv
    <3>4. recent_events' = [recent_events EXCEPT ![k] = window]
      BY <1>5, <2>1, <3>1
    <3>5. admissions' = [admissions EXCEPT ![k] = times]
      BY <1>5, <2>0, <2>1, <3>1
    <3>. QED  BY <1>2, <1>3, <3>1, <3>2, <3>3, <3>4, <3>5
  <2>2. CASE ~Full(recent)
    <3>1. window = Append(recent, clock) /\ times = Append(admissions[k], clock)
      BY <1>5, <1>6, <1>7, <2>0, <2>2
    <3>2. Len(recent) < Limit /\ recent \in Seq(Nat)
      BY <1>2, <1>3, <2>2, EventsAssumption DEF Full
    <3>3. KeyInv(Append(admissions[k], clock), Append(recent, clock), clock)
      BY <1>2, <1>4, <3>2, AdmitKeepsKey
    <3>4. Len(window) <= Limit
      BY <3>1, <3>3 DEF KeyInv
    <3>5. window \in Seq(0 .. LastClock) /\ times \in Seq(0 .. LastClock)
      BY <1>2, <1>3, <3>1
    <3>6. recent_events' = [recent_events EXCEPT ![k] = window]
      BY <1>5, <2>2, <3>1
    <3>7. admissions' = [admissions EXCEPT ![k] = times]
      BY <1>5, <2>2, <3>1
    <3>. QED  BY <3>1, <3>3, <3>4, <3>5, <3>6, <3>7
  <2>. QED  BY <2>1, <2>2
<1>9. TypeOK'
  <2>1. recent_events' \in [Keys -> Seq(0 .. LastClock)]
    BY <1>8 DEF TypeOK
  <2>2. \A l \in Keys : Len(recent_events'[l]) <= Limit
    BY <1>8 DEF TypeOK
  <2>3. admissions' \in [Keys -> Seq(0 .. LastClock)]
    BY <1>8 DEF TypeOK
  <2>4. arrived' \in [Posts -> 0 .. LastClock]
    BY <1>5, EventsAssumption DEF TypeOK
  <2>5. /\ pc' \in [Posts -> {"idle", "limit", "persist", "stored", "done", "crashed"}]
        /\ answer' \in [Posts -> {"none", "unauthorized", "rate_limited", "accepted",
                                 "persistence_failed"}]
    BY <1>5 DEF TypeOK, Answer
  <2>. QED  BY <1>5, <2>1, <2>2, <2>3, <2>4, <2>5 DEF TypeOK
<1>10. Windows'
  <2>1. SUFFICES ASSUME NEW l \in Keys
                 PROVE  KeyInv(admissions'[l], recent_events'[l], clock')
    BY DEF Windows
  <2>2. CASE l = k
    BY <1>5, <1>6, <1>7, <1>8, <2>2
  <2>3. CASE l # k
    <3>1. admissions'[l] = admissions[l] /\ recent_events'[l] = recent_events[l]
      BY <1>8, <2>3 DEF TypeOK
    <3>. QED  BY <1>5, <3>1 DEF Windows
  <2>. QED  BY <2>2, <2>3
<1>11. Rows' /\ AnswersMatchTheTable'
  BY <1>5 DEF TypeOK, Answer, Rows, AnswersMatchTheTable
<1>. QED  BY <1>9, <1>10, <1>11

LEMMA StepInv == Inv /\ [Next]_vars => Inv'
<1>. SUFFICES ASSUME Inv, [Next]_vars  PROVE Inv'
  OBVIOUS
<1>. USE DEF Inv
<1>1. ASSUME NEW p \in Posts, NEW authorized \in BOOLEAN, Authorize(p, authorized)
      PROVE  Inv'
  <2>1. TypeOK'
    BY <1>1 DEF Authorize, Answer, TypeOK
  <2>2. Windows'
    BY <1>1 DEF Authorize, Windows
  <2>3. Rows' /\ AnswersMatchTheTable'
    BY <1>1 DEF Authorize, Answer, TypeOK, Rows, AnswersMatchTheTable
  <2>. QED  BY <2>1, <2>2, <2>3
<1>2. ASSUME NEW p \in Posts, Allow(p)
      PROVE  Inv'
  BY <1>2, AllowStep
<1>3. ASSUME NEW p \in Posts, Persist(p)
      PROVE  Inv'
  <2>1. TypeOK'
    BY <1>3 DEF Persist, InsertEvent, TypeOK
  <2>2. Windows'
    BY <1>3 DEF Persist, Windows
  <2>3. Rows' /\ AnswersMatchTheTable'
    BY <1>3 DEF Persist, InsertEvent, TypeOK, Rows, AnswersMatchTheTable
  <2>. QED  BY <2>1, <2>2, <2>3
<1>4. ASSUME NEW p \in Posts, PersistFails(p)
      PROVE  Inv'
  <2>1. TypeOK'
    BY <1>4 DEF PersistFails, Answer, TypeOK
  <2>2. Windows'
    BY <1>4 DEF PersistFails, Windows
  <2>3. Rows' /\ AnswersMatchTheTable'
    BY <1>4 DEF PersistFails, Answer, TypeOK, Rows, AnswersMatchTheTable
  <2>. QED  BY <2>1, <2>2, <2>3
<1>5. ASSUME NEW p \in Posts, Accepted(p)
      PROVE  Inv'
  <2>1. TypeOK'
    BY <1>5 DEF Accepted, Answer, TypeOK
  <2>2. Windows'
    BY <1>5 DEF Accepted, Windows
  <2>3. Rows' /\ AnswersMatchTheTable'
    BY <1>5 DEF Accepted, Answer, TypeOK, Rows, AnswersMatchTheTable
  <2>. QED  BY <2>1, <2>2, <2>3
<1>6. ASSUME Tick  PROVE Inv'
  <2>1. TypeOK'
    BY <1>6, EventsAssumption DEF Tick, TypeOK
  <2>2. Windows'
    <3>1. SUFFICES ASSUME NEW k \in Keys
                   PROVE  KeyInv(admissions'[k], recent_events'[k], clock')
      BY DEF Windows
    <3>2. /\ admissions[k] \in Seq(Nat) /\ recent_events[k] \in Seq(Nat)
          /\ clock \in Nat /\ KeyInv(admissions[k], recent_events[k], clock)
      <4>1. recent_events[k] \in Seq(0 .. LastClock) /\ admissions[k] \in Seq(0 .. LastClock)
        BY DEF TypeOK
      <4>2. clock \in 0 .. LastClock
        BY DEF TypeOK
      <4>. QED  BY <4>1, <4>2, EventsAssumption DEF Windows
    <3>3. KeyInv(admissions[k], recent_events[k], clock + 1)
      BY <3>2, TickKeepsKey
    <3>. QED  BY <1>6, <3>3 DEF Tick
  <2>3. Rows' /\ AnswersMatchTheTable'
    BY <1>6 DEF Tick, Rows, AnswersMatchTheTable
  <2>. QED  BY <2>1, <2>2, <2>3
<1>7. ASSUME CrashAndRestart  PROVE Inv'
  <2>1. TypeOK'
    <3>1. /\ recent_events' \in [Keys -> Seq(0 .. LastClock)]
          /\ \A k \in Keys : Len(recent_events'[k]) <= Limit
          /\ admissions' \in [Keys -> Seq(0 .. LastClock)]
      BY <1>7, EventsAssumption DEF CrashAndRestart
    <3>. QED  BY <1>7, <3>1, EventsAssumption DEF CrashAndRestart, TypeOK
  <2>2. Windows'
    <3>1. clock \in Nat
      BY EventsAssumption DEF TypeOK
    <3>. QED  BY <1>7, <3>1, EmptyKey DEF CrashAndRestart, Windows
  <2>3. Rows' /\ AnswersMatchTheTable'
    BY <1>7 DEF CrashAndRestart, TypeOK, Rows, AnswersMatchTheTable
  <2>. QED  BY <2>1, <2>2, <2>3
<1>8. CASE UNCHANGED vars
  BY <1>8 DEF vars, TypeOK, Windows, Rows, AnswersMatchTheTable
<1>. QED
  BY <1>1, <1>2, <1>3, <1>4, <1>5, <1>6, <1>7, <1>8 DEF Next, Post

THEOREM InvHolds == Spec => []Inv
BY InitInv, StepInv, PTL DEF Spec

-----------------------------------------------------------------------------
(* The properties. *)

\* The variables keep their types, and no deque outgrows the limit.
THEOREM TypeCorrect == Spec => []TypeOK
<1>1. Inv => TypeOK
  BY DEF Inv
<1>. QED  BY <1>1, InvHolds, PTL

LEMMA SuffixIs ==
  ASSUME NEW S, NEW a \in Seq(S), NEW m \in 0 .. Len(a)
  PROVE  /\ SubSeq(a, m + 1, Len(a)) \in Seq(S)
         /\ Len(SubSeq(a, m + 1, Len(a))) = Len(a) - m
         /\ \A j \in 1 .. Len(a) - m : SubSeq(a, m + 1, Len(a))[j] = a[m + j]
OBVIOUS

\* The deque of a key is the window: what allow() keeps are the last
\* admissions, and what it has dropped has left the window for good.
THEOREM DequesAreWindows == Spec => []DequeIsTheWindow
<1>1. Inv => DequeIsTheWindow
  <2>. SUFFICES ASSUME Inv, NEW k \in Keys
                PROVE  LET forgotten == Len(admissions[k]) - Len(recent_events[k])
                       IN  /\ forgotten >= 0
                           /\ recent_events[k] =
                                SubSeq(admissions[k], forgotten + 1, Len(admissions[k]))
                           /\ \A i \in 1 .. forgotten : clock - admissions[k][i] >= Window
    BY DEF DequeIsTheWindow
  <2>. DEFINE adm == admissions[k]
              deque == recent_events[k]
              f == Len(adm) - Len(deque)
  <2>1. adm \in Seq(0 .. LastClock) /\ deque \in Seq(0 .. LastClock)
    BY DEF Inv, TypeOK
  <2>2. IsTheWindow(adm, deque, clock)
    BY DEF Inv, Windows, KeyInv
  <2>. HIDE DEF adm, deque
  <2>3. f \in 0 .. Len(adm) /\ Len(adm) - f = Len(deque)
    BY <2>1, <2>2 DEF IsTheWindow
  <2>4. /\ SubSeq(adm, f + 1, Len(adm)) \in Seq(0 .. LastClock)
        /\ Len(SubSeq(adm, f + 1, Len(adm))) = Len(deque)
        /\ \A j \in 1 .. Len(deque) : SubSeq(adm, f + 1, Len(adm))[j] = adm[f + j]
    BY <2>1, <2>3, SuffixIs
  <2>5. deque = SubSeq(adm, f + 1, Len(adm))
    <3>1. \A j \in 1 .. Len(deque) : deque[j] = SubSeq(adm, f + 1, Len(adm))[j]
      BY <2>2, <2>4 DEF IsTheWindow
    <3>. QED  BY <2>1, <2>4, <3>1
  <2>6. \A i \in 1 .. f : clock - adm[i] >= Window
    BY <2>2 DEF IsTheWindow
  <2>7. f >= 0
    BY <2>1, <2>3
  <2>. QED  BY <2>5, <2>6, <2>7, Zenon DEF adm, deque
<1>. QED  BY <1>1, InvHolds, PTL

\* No key is let through more than Limit times in a window.
THEOREM RateHolds == Spec => []RateIsBounded
<1>1. Inv => RateIsBounded
  <2>. SUFFICES ASSUME Inv, NEW k \in Keys, NEW i \in DOMAIN admissions[k],
                       i + Limit \in DOMAIN admissions[k]
                PROVE  admissions[k][i + Limit] - admissions[k][i] >= Window
    BY DEF RateIsBounded
  <2>1. DOMAIN admissions[k] = 1 .. Len(admissions[k])
    BY DEF Inv, TypeOK
  <2>2. Spaced(admissions[k])
    BY DEF Inv, Windows, KeyInv
  <2>. QED  BY <2>1, <2>2 DEF Spaced
<1>. QED  BY <1>1, InvHolds, PTL

\* What a post is answered agrees with the table.
THEOREM AnswersAgree == Spec => []AnswersMatchTheTable
<1>1. Inv => AnswersMatchTheTable
  BY DEF Inv
<1>. QED  BY <1>1, InvHolds, PTL

-----------------------------------------------------------------------------
(* The abstract specification is implemented. *)

\* A pruned deque holds exactly the admissions in the window.
LEMMA DequeCounts ==
  ASSUME NEW adm \in Seq(Nat), NEW deque \in Seq(Nat), NEW now \in Nat,
         KeyInv(adm, deque, now),
         \A j \in 1 .. Len(deque) : now - adm[(Len(adm) - Len(deque)) + j] < Window
  PROVE  Cardinality({i \in DOMAIN adm : now - adm[i] < Window}) = Len(deque)
<1>1. PICK n \in Nat : n = Len(adm)
  OBVIOUS
<1>2. PICK r \in Nat : r = Len(deque)
  OBVIOUS
<1>3. r <= n /\ DOMAIN adm = 1 .. n
  BY <1>1, <1>2 DEF KeyInv, IsTheWindow
<1>. DEFINE near == {i \in 1 .. n : now - adm[i] < Window}
<1>4. ASSUME NEW i \in (n - r) + 1 .. n
      PROVE  i \in near
  <2>1. i - (n - r) \in 1 .. r /\ (n - r) + (i - (n - r)) = i /\ i \in 1 .. n
    BY <1>3
  <2>2. now - adm[(n - r) + (i - (n - r))] < Window
    BY <1>1, <1>2, <2>1
  <2>. QED  BY <2>1, <2>2
<1>5. ASSUME NEW i \in near
      PROVE  i \in (n - r) + 1 .. n
  <2>1. \A j \in 1 .. n - r : now - adm[j] >= Window
    BY <1>1, <1>2 DEF KeyInv, IsTheWindow
  <2>2. adm[i] \in Nat /\ i \in 1 .. n
    BY <1>1
  <2>3. i \notin 1 .. n - r
    BY <2>1, <2>2, EventsAssumption
  <2>. QED  BY <1>3, <2>2, <2>3
<1>. HIDE DEF near
<1>6. near = (n - r) + 1 .. n
  BY <1>4, <1>5
<1>7. Cardinality((n - r) + 1 .. n) = r
  BY <1>3, FS_Interval
<1>8. near = {i \in DOMAIN adm : now - adm[i] < Window}
  BY <1>3 DEF near
<1>. QED  BY <1>2, <1>6, <1>7, <1>8

\* The state a step of a post leads to is the abstract one; no other post moves.
LEMMA OthersStand ==
  ASSUME TypeOK, NEW p \in Posts, NEW to, pc' = [pc EXCEPT ![p] = to],
         \A q \in Posts : q # p => answer'[q] = answer[q]
  PROVE  \A q \in Posts : q # p => StateOf(q)' = StateOf(q)
BY DEF TypeOK, StateOf

LEMMA Moves ==
  ASSUME TypeOK, NEW p \in Posts, NEW from, NEW to,
         StateOf(p) = from, StateOf(p)' = to,
         \A q \in Posts : q # p => StateOf(q)' = StateOf(q)
  PROVE  Service!Move(p, from, to)
BY DEF Service!Move

LEMMA KeysStand ==
  ASSUME UNCHANGED form
  PROVE  [p \in Posts |-> Key(p)]' = [p \in Posts |-> Key(p)]
BY DEF Key

LEMMA InitService == Init => Service!Init
BY DEF Init, Service!Init, StateOf, Key, Keys

\* Being let in or refused is decided as the window over all admissions says.
LEMMA AllowService ==
  ASSUME Inv, NEW p \in Posts, Allow(p)
  PROVE  Service!Admit(p) \/ Service!Refuse(p)
<1>1. PICK k \in Keys : k = Key(p)
  BY KeyIsAKey DEF Inv
<1>2. PICK recent \in Seq(0 .. LastClock) : AllowDoes(p, k, recent)
  BY <1>1, AllowPrunes
<1>3. clock \in Nat /\ recent \in Seq(Nat) /\ admissions[k] \in Seq(Nat)
  BY <1>2, KeyTypes
<1>4. Service!InWindow(k) = Len(recent)
  <2>1. KeyInv(admissions[k], recent, clock)
    BY <1>2 DEF AllowDoes
  <2>2. \A j \in 1 .. Len(recent) :
          clock - admissions[k][(Len(admissions[k]) - Len(recent)) + j] < Window
    BY <1>2 DEF AllowDoes
  <2>3. Cardinality({i \in DOMAIN admissions[k] : clock - admissions[k][i] < Window}) = Len(recent)
    BY <1>3, <2>1, <2>2, DequeCounts
  <2>. QED  BY <2>3, Zenon DEF Service!InWindow, Service!Cardinality, Service!IsFiniteSet, Cardinality, IsFiniteSet
<1>5. [q \in Posts |-> Key(q)]' = [q \in Posts |-> Key(q)] /\ [q \in Posts |-> Key(q)][p] = k
  BY <1>1, <1>2, KeysStand DEF AllowDoes
<1>6. /\ pc[p] = "limit" /\ StateOf(p) = "waiting"
      /\ UNCHANGED <<form, events, clock>>
  BY <1>2 DEF AllowDoes, StateOf
<1>7. TypeOK
  BY DEF Inv
<1>8. CASE Full(recent)
  <2>1. /\ pc' = [pc EXCEPT ![p] = "done"]
        /\ answer' = [answer EXCEPT ![p] = "rate_limited"]
        /\ UNCHANGED admissions
    BY <1>2, <1>8 DEF AllowDoes, Answer
  <2>2. StateOf(p)' = "rate_limited"
    BY <1>7, <2>1 DEF StateOf, TypeOK
  <2>3. Service!Move(p, "waiting", "rate_limited")
    BY <1>6, <1>7, <2>1, <2>2, OthersStand, Moves DEF TypeOK
  <2>4. Service!InWindow(k) >= Limit
    BY <1>4, <1>8 DEF Full
  <2>. QED  BY <1>5, <1>6, <2>1, <2>3, <2>4 DEF Service!Refuse
<1>9. CASE ~Full(recent)
  <2>1. /\ pc' = [pc EXCEPT ![p] = "persist"] /\ UNCHANGED answer
        /\ admissions' = [admissions EXCEPT ![k] = Append(@, clock)]
    BY <1>2, <1>9 DEF AllowDoes
  <2>2. StateOf(p)' = "admitted"
    BY <1>7, <2>1 DEF StateOf, TypeOK
  <2>3. Service!Move(p, "waiting", "admitted")
    BY <1>6, <1>7, <2>1, <2>2, OthersStand, Moves DEF TypeOK
  <2>4. Service!InWindow(k) < Limit
    BY <1>3, <1>4, <1>9, EventsAssumption DEF Full
  <2>. QED  BY <1>5, <1>6, <2>1, <2>3, <2>4 DEF Service!Admit
<1>. QED  BY <1>8, <1>9

LEMMA CrashService ==
  ASSUME Inv, CrashAndRestart
  PROVE  Service!Restart
<1>. DEFINE unheard == {p \in Posts : pc[p] = "limit"}
<1>1. unheard \in SUBSET {p \in Posts : [q \in Posts |-> StateOf(q)][p] = "waiting"}
  BY DEF StateOf
<1>2. ASSUME NEW p \in Posts
      PROVE  StateOf(p)' = IF p \in unheard \/ StateOf(p) \in {"admitted", "stored"}
                           THEN "lost" ELSE StateOf(p)
  <2>1. pc[p] \in {"idle", "limit", "persist", "stored", "done", "crashed"}
    BY DEF Inv, TypeOK
  <2>2. answer'[p] = answer[p] /\ answer[p] \notin {"admitted", "stored"}
    BY DEF Inv, TypeOK, CrashAndRestart
  <2>3. pc'[p] = IF pc[p] \in {"limit", "persist", "stored"} THEN "crashed" ELSE pc[p]
    BY DEF CrashAndRestart
  <2>. QED  BY <2>1, <2>2, <2>3 DEF StateOf
<1>3. [p \in Posts |-> StateOf(p)]' =
        [p \in Posts |-> IF p \in unheard \/ [q \in Posts |-> StateOf(q)][p] \in {"admitted", "stored"}
                         THEN "lost" ELSE [q \in Posts |-> StateOf(q)][p]]
  BY <1>2
<1>4. /\ admissions' = [k \in Keys |-> <<>>]
      /\ UNCHANGED <<form, events, clock>>
  BY DEF CrashAndRestart
<1>. HIDE DEF unheard
<1>. QED  BY <1>1, <1>3, <1>4, KeysStand DEF Service!Restart

LEMMA StepService == Inv /\ [Next]_vars => [Service!Next]_(Service!vars)
<1>. SUFFICES ASSUME Inv, [Next]_vars  PROVE [Service!Next]_(Service!vars)
  OBVIOUS
<1>0. TypeOK
  BY DEF Inv
<1>1. ASSUME NEW p \in Posts, NEW authorized \in BOOLEAN, Authorize(p, authorized)
      PROVE  Service!TurnAway(p) \/ UNCHANGED Service!vars
  <2>1. UNCHANGED <<form, events, clock, admissions>> /\ pc[p] = "idle"
    BY <1>1 DEF Authorize
  <2>2. CASE authorized
    <3>1. pc' = [pc EXCEPT ![p] = "limit"] /\ UNCHANGED answer
      BY <1>1, <2>2 DEF Authorize
    <3>2. \A q \in Posts : StateOf(q)' = StateOf(q)
      BY <1>0, <2>1, <3>1 DEF StateOf, TypeOK
    <3>. QED  BY <2>1, <3>2, KeysStand DEF Service!vars
  <2>3. CASE ~authorized
    <3>1. /\ pc' = [pc EXCEPT ![p] = "done"]
          /\ answer' = [answer EXCEPT ![p] = "unauthorized"]
      BY <1>1, <2>3 DEF Authorize, Answer
    <3>2. StateOf(p) = "waiting" /\ StateOf(p)' = "unauthorized"
      BY <1>0, <2>1, <3>1 DEF StateOf, TypeOK
    <3>3. Service!Move(p, "waiting", "unauthorized")
      BY <1>0, <3>1, <3>2, OthersStand, Moves DEF TypeOK
    <3>. QED  BY <2>1, <3>3, KeysStand DEF Service!TurnAway
  <2>. QED  BY <2>2, <2>3
<1>2. ASSUME NEW p \in Posts, Allow(p)
      PROVE  Service!Admit(p) \/ Service!Refuse(p)
  BY <1>2, AllowService
<1>3. ASSUME NEW p \in Posts, Persist(p)
      PROVE  Service!Store(p)
  <2>1. /\ pc[p] = "persist" /\ pc' = [pc EXCEPT ![p] = "stored"]
        /\ events' = events \cup {p} /\ UNCHANGED <<form, answer, clock, admissions>>
    BY <1>3 DEF Persist, InsertEvent
  <2>2. StateOf(p) = "admitted" /\ StateOf(p)' = "stored"
    BY <1>0, <2>1 DEF StateOf, TypeOK
  <2>3. Service!Move(p, "admitted", "stored")
    BY <1>0, <2>1, <2>2, OthersStand, Moves
  <2>. QED  BY <2>1, <2>3, KeysStand DEF Service!Store
<1>4. ASSUME NEW p \in Posts, PersistFails(p)
      PROVE  Service!Apologise(p)
  <2>1. /\ pc[p] = "persist" /\ pc' = [pc EXCEPT ![p] = "done"]
        /\ answer' = [answer EXCEPT ![p] = "persistence_failed"]
        /\ UNCHANGED <<form, events, clock, admissions>>
    BY <1>4 DEF PersistFails, Answer
  <2>2. StateOf(p) = "admitted" /\ StateOf(p)' = "persistence_failed"
    BY <1>0, <2>1 DEF StateOf, TypeOK
  <2>3. Service!Move(p, "admitted", "persistence_failed")
    BY <1>0, <2>1, <2>2, OthersStand, Moves DEF TypeOK
  <2>. QED  BY <2>1, <2>3, KeysStand DEF Service!Apologise
<1>5. ASSUME NEW p \in Posts, Accepted(p)
      PROVE  Service!Confirm(p)
  <2>1. /\ pc[p] = "stored" /\ pc' = [pc EXCEPT ![p] = "done"]
        /\ answer' = [answer EXCEPT ![p] = "accepted"]
        /\ UNCHANGED <<form, events, clock, admissions>>
    BY <1>5 DEF Accepted, Answer
  <2>2. StateOf(p) = "stored" /\ StateOf(p)' = "accepted"
    BY <1>0, <2>1 DEF StateOf, TypeOK
  <2>3. Service!Move(p, "stored", "accepted")
    BY <1>0, <2>1, <2>2, OthersStand, Moves DEF TypeOK
  <2>. QED  BY <2>1, <2>3, KeysStand DEF Service!Confirm
<1>6. ASSUME Tick  PROVE Service!Tick
  <2>1. clock' = clock + 1 /\ UNCHANGED <<pc, form, answer, events, admissions>>
    BY <1>6 DEF Tick
  <2>2. \A q \in Posts : StateOf(q)' = StateOf(q)
    BY <2>1 DEF StateOf
  <2>. QED  BY <2>1, <2>2, KeysStand DEF Service!Tick
<1>7. ASSUME CrashAndRestart  PROVE Service!Restart
  BY <1>7, CrashService
<1>8. CASE UNCHANGED vars
  <2>1. UNCHANGED <<pc, form, answer, events, clock, admissions>>
    BY <1>8 DEF vars
  <2>2. \A q \in Posts : StateOf(q)' = StateOf(q)
    BY <2>1 DEF StateOf
  <2>. QED  BY <2>1, <2>2, KeysStand DEF Service!vars
<1>. QED
  BY <1>1, <1>2, <1>3, <1>4, <1>5, <1>6, <1>7, <1>8 DEF Next, Post, Service!Next

\* The limiter decides as a window over everything it ever let in would, and
\* the table and the answers follow its decisions.
THEOREM TheWindowIsKept == Spec => KeepsTheWindow
BY InitService, StepService, InvHolds, PTL DEF Spec, Service!Spec, KeepsTheWindow
=============================================================================
