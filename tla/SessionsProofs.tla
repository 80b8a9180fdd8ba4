---------------------------- MODULE SessionsProofs ----------------------------
(***************************************************************************)
(* Proofs about Sessions: its types, that live monitoring is refused no    *)
(* slot while nothing else uses the real client, and that every routing    *)
(* setting sends every task to an endpoint that is served.                 *)
(*                                                                         *)
(* The types rest on two balances: inference_in_flight is what waits,      *)
(* calls or raised, and the free slots and those held are all the slots.   *)
(***************************************************************************)
EXTENDS Sessions, FiniteSetTheorems, WellFoundedInduction, TLAPS

\* inference_in_flight counts the jobs of the pool, the calls that raised, and the
\* job whose submission ended the process loop.
Counted(s) ==
  ses[s].count = ses[s].waiting + ses[s].calling + ses[s].raised
                 + (IF ses[s].loop = "dead" THEN 1 ELSE 0)

\* A session that was not started has no loop and no jobs, and only the real client calls.
Proper(s) ==
  /\ ses[s].status = "unborn" => /\ ses[s].loop = "ended"
                                 /\ ses[s].waiting = 0 /\ ses[s].calling = 0
  /\ ses[s].calling > 0 => ses[s].client = "real"

\* The slots the sessions hold, each by its session and its place.
Calls == { c \in Session \X (1..Slots) : c[2] <= ses[c[1]].calling }

\* The slots the two live threads and the runs hold.
Held(t) == IF live[t] = "calling" THEN 1 ELSE 0
Benched == IF bench = None THEN 0 ELSE bench

SlotsKept == free + Cardinality(Calls) + Held("session") + Held("worker") + Benched = Slots

IInv == TypeOK /\ (\A s \in Session : Counted(s) /\ Proper(s)) /\ SlotsKept

----------------------------------------------------------------------------
(* Constants and operators *)

LEMMA Bounds ==
  /\ BatchMax \in Nat /\ Cap \in Nat /\ Pool \in Nat /\ Slots \in Nat /\ MaxRaised \in Nat
  /\ BatchMax > 0 /\ Cap > 0 /\ Pool > 0 /\ Slots >= 2
BY SessionsAssumption

LEMMA SessionNumbers == Session \subseteq Nat \ {0} /\ IsFiniteSet(Session)
<1>1. Cardinality(Session) \in Nat
  BY SessionsAssumption, FS_CardinalityType
<1>2. 1..Cardinality(Session) \subseteq Nat \ {0}
  BY <1>1
<1>3. QED
  BY <1>2, SessionsAssumption

\* The next session to start is one.
LEMMA MinInside ==
  ASSUME NEW S \in SUBSET Nat, S # {}
  PROVE  Min(S) \in S
<1> DEFINE Less == { n \in Nat \X Nat : n[1] < n[2] }
<1>1. IsWellFoundedOn(Less, Nat)
  BY NatLessThanWellFounded DEF OpToRel
<1>2. PICK x \in S : \A y \in S : <<y, x>> \notin Less
  <2> HIDE DEF Less
  <2>1. QED
    BY <1>1, WFMin
<1>3. ASSUME NEW y \in S PROVE x <= y
  <2>1. x \in Nat /\ y \in Nat /\ <<y, x>> \in Nat \X Nat
    OBVIOUS
  <2>2. ~(y < x)
    BY <1>2, <2>1
  <2>3. QED
    BY <2>1, <2>2
<1>4. QED
  BY <1>3 DEF Min

----------------------------------------------------------------------------
(* The slots that sessions hold *)

LEMMA CallsFinite ==
  /\ IsFiniteSet(Calls) /\ Cardinality(Calls) \in Nat
  /\ IsFiniteSet(Calls') /\ Cardinality(Calls') \in Nat
<1>1. IsFiniteSet(Session \X (1..Slots))
  <2>1. IsFiniteSet(1..Slots)
    BY Bounds, FS_Interval
  <2>2. QED
    BY <2>1, SessionNumbers, FS_Product
<1>2. Calls \subseteq Session \X (1..Slots) /\ Calls' \subseteq Session \X (1..Slots)
  BY DEF Calls
<1>3. QED
  BY <1>1, <1>2, FS_Subset, FS_CardinalityType

Share(s, n) == {s} \X (1..n)
Apart(s) == { c \in Session \X (1..Slots) : c[1] # s /\ c[2] <= ses[c[1]].calling }

LEMMA SharesAdd ==
  ASSUME NEW s \in Session, NEW n \in 0..Slots
  PROVE  /\ Cardinality(Apart(s)) \in Nat
         /\ Cardinality(Apart(s) \union Share(s, n)) = Cardinality(Apart(s)) + n
<1>1. IsFiniteSet(Apart(s)) /\ Cardinality(Apart(s)) \in Nat
  <2>1. IsFiniteSet(1..Slots)
    BY Bounds, FS_Interval
  <2>2. IsFiniteSet(Session \X (1..Slots))
    BY <2>1, SessionNumbers, FS_Product
  <2>3. Apart(s) \subseteq Session \X (1..Slots)
    BY DEF Apart
  <2>4. QED
    BY <2>2, <2>3, FS_Subset, FS_CardinalityType
<1>2. n \in Nat
  BY Bounds
<1>3. IsFiniteSet(1..n) /\ Cardinality(1..n) = n
  BY <1>2, FS_Interval
<1>4. IsFiniteSet(Share(s, n)) /\ Cardinality(Share(s, n)) = n
  <2>1. IsFiniteSet({s}) /\ Cardinality({s}) = 1
    BY FS_Singleton
  <2>2. IsFiniteSet(Share(s, n)) /\ Cardinality(Share(s, n)) = 1 * n
    BY <1>3, <2>1, FS_Product DEF Share
  <2>3. QED
    BY <1>2, <2>2
<1>5. Cardinality(Apart(s) \cap Share(s, n)) = 0
  <2>1. Apart(s) \cap Share(s, n) = {}
    BY DEF Apart, Share
  <2>2. QED
    BY <2>1, FS_EmptySet
<1>6. Cardinality(Apart(s) \union Share(s, n))
        = Cardinality(Apart(s)) + Cardinality(Share(s, n)) - Cardinality(Apart(s) \cap Share(s, n))
  BY <1>1, <1>4, FS_Union
<1>7. QED
  BY <1>1, <1>2, <1>4, <1>5, <1>6

\* The fields of one session.
LEMMA Fields ==
  ASSUME TypeOK, NEW s \in Session
  PROVE  /\ ses[s] \in SessionState
         /\ ses[s].status \in {"unborn", "running", "stopped"} /\ ses[s].client \in {"mock", "real"}
         /\ ses[s].loop \in {"top", "tasks", "ended", "dead"}
         /\ ses[s].left \in 0..BatchMax /\ ses[s].left \in Nat
         /\ ses[s].count \in 0..Cap /\ ses[s].count \in Nat
         /\ ses[s].waiting \in 0..Cap /\ ses[s].waiting \in Nat
         /\ ses[s].calling \in 0..Slots /\ ses[s].calling \in Nat
         /\ ses[s].raised \in 0..MaxRaised /\ ses[s].raised \in Nat
BY Bounds DEF TypeOK, SessionState

LEMMA CallsByOne ==
  ASSUME TypeOK, NEW s \in Session
  PROVE  Cardinality(Calls) = Cardinality(Apart(s)) + ses[s].calling
<1>1. ses[s].calling \in 0..Slots /\ ses[s].calling \in Nat
  BY Fields
<1>2. Calls = Apart(s) \union Share(s, ses[s].calling)
  BY <1>1, Bounds DEF Calls, Apart, Share
<1>3. QED
  BY <1>1, <1>2, SharesAdd

LEMMA CallsAfter ==
  ASSUME TypeOK, NEW s \in Session, NEW x \in SessionState, ses' = [ses EXCEPT ![s] = x]
  PROVE  Cardinality(Calls') = Cardinality(Apart(s)) + x.calling
<1>1. ses'[s] = x /\ \A t \in Session \ {s} : ses'[t] = ses[t]
  BY DEF TypeOK
<1>2. x.calling \in 0..Slots /\ x.calling \in Nat
  BY Bounds DEF SessionState
<1>3. Calls' = Apart(s) \union Share(s, x.calling)
  BY <1>1, <1>2, Bounds DEF Calls, Apart, Share
<1>4. QED
  BY <1>2, <1>3, SharesAdd

\* The numbers behind the slots.
LEMMA SlotNumbers ==
  ASSUME TypeOK
  PROVE  /\ free \in 0..Slots /\ free \in Nat /\ Cardinality(Calls) \in Nat
         /\ Held("session") \in {0, 1} /\ Held("worker") \in {0, 1} /\ Benched \in Nat
BY Bounds, CallsFinite DEF TypeOK, Held, Benched, None

----------------------------------------------------------------------------
(* One session's steps *)

\* What a step of session s makes of it is a session again, and its slots balance.
Sane(s, x) ==
  /\ x \in SessionState
  /\ x.count = x.waiting + x.calling + x.raised + (IF x.loop = "dead" THEN 1 ELSE 0)
  /\ x.status = ses[s].status /\ x.client = ses[s].client /\ x.status # "unborn"
  /\ x.calling > 0 => x.client = "real"

LEMMA OneChanges ==
  ASSUME IInv, NEW s \in Session, NEW x, Sane(s, x), ses' = [ses EXCEPT ![s] = x],
         free' \in Nat, free' + x.calling = free + ses[s].calling,
         UNCHANGED <<current, globals, live, bench>>
  PROVE  IInv'
<1> DEFINE c == Cardinality(Calls)  d == Cardinality(Calls')  a == Cardinality(Apart(s))
           m == ses[s].calling  n == x.calling  f == free'
           k == Held("session") + Held("worker") + Benched
<1>1. TypeOK /\ x \in SessionState
  BY DEF IInv, Sane
<1>2. c = a + m /\ d = a + n /\ a \in Nat /\ m \in Nat /\ n \in Nat /\ c \in Nat /\ d \in Nat
  <2>1. 0 \in 0..Slots
    BY Bounds
  <2>2. a \in Nat
    BY <2>1, SharesAdd
  <2>3. c = a + m /\ d = a + n
    BY <1>1, CallsByOne, CallsAfter
  <2>4. m \in Nat /\ n \in Nat
    BY <1>1, Fields, Bounds DEF SessionState
  <2>5. c \in Nat /\ d \in Nat
    BY CallsFinite
  <2>6. QED
    BY <2>2, <2>3, <2>4, <2>5
<1>3. k \in Nat /\ free \in Nat /\ free + c + k = Slots /\ f \in Nat /\ f + n = free + m
  BY <1>1, SlotNumbers DEF IInv, SlotsKept
<1>4. f + d + k = Slots /\ f \in 0..Slots
  <2> HIDE DEF c, d, a, m, n, f, k
  <2>1. QED
    BY <1>2, <1>3, Bounds
<1>5. UNCHANGED <<Held("session"), Held("worker"), Benched>>
  BY DEF Held, Benched
<1>6. SlotsKept'
  <2>1. free' + d + Held("session") + Held("worker") + Benched = Slots
    <3>1. Held("session") \in Nat /\ Held("worker") \in Nat /\ Benched \in Nat
      BY <1>1, SlotNumbers
    <3> DEFINE h == Held("session")  w == Held("worker")  e == Benched
    <3>2. f + d + (h + w + e) = Slots /\ f \in Nat /\ d \in Nat
      BY <1>2, <1>3, <1>4
    <3> HIDE DEF f, d, h, w, e
    <3>3. f + d + h + w + e = Slots
      BY <3>1, <3>2 DEF h, w, e
    <3>4. QED
      BY <3>3 DEF f, d, h, w, e
  <2>2. QED
    BY <1>5, <2>1 DEF SlotsKept
<1>7. TypeOK'
  BY <1>1, <1>4 DEF TypeOK, SessionState, globals
<1>8. ses'[s] = x /\ \A t \in Session \ {s} : ses'[t] = ses[t]
  BY <1>1 DEF TypeOK
<1>9. \A t \in Session : Counted(t)' /\ Proper(t)'
  BY <1>8 DEF IInv, Counted, Proper, Sane
<1>10. QED
  BY <1>6, <1>7, <1>9 DEF IInv

\* The loop's steps, which touch no slot.
LEMMA LoopSane ==
  ASSUME IInv, NEW s \in Session, Process(s)
  PROVE  \E x : Sane(s, x) /\ ses' = [ses EXCEPT ![s] = x] /\ x.calling = ses[s].calling
<1> USE DEF IInv
<1>1. Counted(s) /\ Proper(s)
  OBVIOUS
<1>2. CASE Drain(s)
  <2>1. PICK n \in 0..BatchMax : ses' = [ses EXCEPT ![s].loop = "tasks", ![s].left = n]
    BY <1>2 DEF Drain
  <2> DEFINE x == [ses[s] EXCEPT !.loop = "tasks", !.left = n]
  <2>2. ses' = [ses EXCEPT ![s] = x]
    BY <2>1 DEF TypeOK, SessionState
  <2>3. Sane(s, x) /\ x.calling = ses[s].calling
    BY <1>1, <1>2, Fields DEF Drain, Running, Sane, Counted, Proper, SessionState
  <2>4. QED
    BY <2>2, <2>3
<1>3. CASE Submit(s) /\ Running(s)
  <2> DEFINE x == [ses[s] EXCEPT !.count = @ + 1, !.left = @ - 1, !.waiting = @ + 1]
  <2>1. ses' = [ses EXCEPT ![s] = x] /\ ses[s].left > 0 /\ ses[s].count < Cap /\ ses[s].loop = "tasks"
    BY <1>3 DEF Submit, TypeOK, SessionState
  <2>2. ses[s].waiting <= ses[s].count
    BY <1>1, Fields DEF Counted
  <2>3. x \in SessionState
    <3>1. ses[s].count + 1 \in 0..Cap /\ ses[s].left - 1 \in 0..BatchMax /\ ses[s].waiting + 1 \in 0..Cap
      BY <2>1, <2>2, Fields, Bounds
    <3>2. QED
      BY <3>1, Fields DEF SessionState
  <2>4. Sane(s, x) /\ x.calling = ses[s].calling
    BY <1>1, <1>3, <2>1, <2>3, Fields DEF Running, Sane, Counted, Proper, SessionState
  <2>5. QED
    BY <2>1, <2>4
<1>4. CASE Submit(s) /\ ~Running(s)
  <2> DEFINE x == [ses[s] EXCEPT !.count = @ + 1, !.left = 0, !.loop = "dead"]
  <2>1. ses' = [ses EXCEPT ![s] = x] /\ ses[s].count < Cap /\ ses[s].loop = "tasks"
    BY <1>4 DEF Submit, TypeOK, SessionState
  <2>2. x \in SessionState
    <3>1. ses[s].count + 1 \in 0..Cap /\ 0 \in 0..BatchMax
      BY <2>1, Fields, Bounds
    <3>2. QED
      BY <3>1, Fields DEF SessionState
  <2>3. Sane(s, x) /\ x.calling = ses[s].calling
    BY <1>1, <2>1, <2>2, Fields DEF Sane, Counted, Proper, SessionState
  <2>4. QED
    BY <2>1, <2>3
<1>5. CASE EndBatch(s)
  <2> DEFINE x == [ses[s] EXCEPT !.loop = "top", !.left = 0]
  <2>1. ses' = [ses EXCEPT ![s] = x] /\ ses[s].loop = "tasks"
    BY <1>5 DEF EndBatch, TypeOK, SessionState
  <2>2. x \in SessionState
    <3>1. 0 \in 0..BatchMax
      BY Bounds
    <3>2. QED
      BY <3>1, Fields DEF SessionState
  <2>3. Sane(s, x) /\ x.calling = ses[s].calling
    BY <1>1, <2>1, <2>2, Fields DEF Sane, Counted, Proper, SessionState
  <2>4. QED
    BY <2>1, <2>3
<1>6. CASE LeaveLoop(s)
  <2> DEFINE x == [ses[s] EXCEPT !.loop = "ended"]
  <2>1. ses' = [ses EXCEPT ![s] = x] /\ ses[s].loop = "top" /\ ses[s].status = "stopped"
    BY <1>6 DEF LeaveLoop, TypeOK, SessionState
  <2>2. Sane(s, x) /\ x.calling = ses[s].calling
    BY <1>1, <2>1, Fields, Bounds DEF Sane, Counted, Proper, SessionState
  <2>3. QED
    BY <2>1, <2>2
<1>7. QED
  BY <1>2, <1>3, <1>4, <1>5, <1>6 DEF Process

LEMMA ProcessKeeps ==
  ASSUME IInv, NEW s \in Session, Process(s), UNCHANGED <<current, globals, live, bench>>
  PROVE  IInv'
<1>1. PICK x : Sane(s, x) /\ ses' = [ses EXCEPT ![s] = x] /\ x.calling = ses[s].calling
  BY LoopSane
<1>2. free' = free
  BY DEF Process, Drain, Submit, EndBatch, LeaveLoop
<1>3. free' \in Nat /\ free' + x.calling = free + ses[s].calling
  BY <1>1, <1>2, SlotNumbers DEF IInv
<1>4. QED
  BY <1>1, <1>3, OneChanges

\* A job that waits or calls belongs to a session that was started.
LEMMA JobStarted ==
  ASSUME IInv, NEW s \in Session, ses[s].waiting > 0 \/ ses[s].calling > 0
  PROVE  /\ ses[s].status # "unborn"
         /\ ses[s].waiting + ses[s].calling + ses[s].raised <= ses[s].count
<1>1. Counted(s) /\ Proper(s) /\ TypeOK
  BY DEF IInv
<1>2. QED
  BY <1>1, Fields DEF Counted, Proper

LEMMA WorkSane ==
  ASSUME IInv, NEW s \in Session, Work(s) \/ Raise(s)
  PROVE  \E x : /\ Sane(s, x) /\ ses' = [ses EXCEPT ![s] = x]
                /\ free' \in Nat /\ free' + x.calling = free + ses[s].calling
<1>1. Counted(s) /\ Proper(s) /\ TypeOK /\ free \in Nat
  BY SlotNumbers DEF IInv
<1>2. CASE MockAnswer(s) \/ TimeOut(s)
  <2> DEFINE x == [ses[s] EXCEPT !.waiting = @ - 1, !.count = @ - 1]
  <2>1. ses' = [ses EXCEPT ![s] = x] /\ ses[s].waiting > 0 /\ free' = free
    BY <1>1, <1>2 DEF MockAnswer, TimeOut, Begins, TypeOK, SessionState
  <2>2. ses[s].status # "unborn" /\ ses[s].waiting <= ses[s].count
    BY <1>1, <2>1, JobStarted, Fields
  <2>3. x \in SessionState
    <3>1. ses[s].waiting - 1 \in 0..Cap /\ ses[s].count - 1 \in 0..Cap
      BY <1>1, <2>1, <2>2, Fields, Bounds
    <3>2. QED
      BY <1>1, <3>1, Fields DEF SessionState
  <2>4. Sane(s, x) /\ x.calling = ses[s].calling
    BY <1>1, <2>2, <2>3, Fields DEF Sane, Counted, Proper, SessionState
  <2>5. free' + x.calling = free + ses[s].calling
    BY <2>1, <2>4
  <2>6. QED
    BY <1>1, <2>1, <2>4, <2>5
<1>3. CASE Acquire(s)
  <2> DEFINE x == [ses[s] EXCEPT !.waiting = @ - 1, !.calling = @ + 1]
  <2>1. ses' = [ses EXCEPT ![s] = x] /\ ses[s].waiting > 0 /\ free' = free - 1 /\ free > 0
        /\ ses[s].client = "real"
    BY <1>1, <1>3 DEF Acquire, Begins, TypeOK, SessionState
  <2>2. ses[s].status # "unborn"
    BY <2>1, JobStarted
  <2>3. ses[s].calling < Slots
    <3>1. Cardinality(Calls) = Cardinality(Apart(s)) + ses[s].calling /\ Cardinality(Apart(s)) \in Nat
      BY <1>1, CallsByOne, SharesAdd, Fields
    <3>2. free + Cardinality(Calls) <= Slots
      BY <1>1, SlotNumbers, Bounds DEF IInv, SlotsKept
    <3>3. QED
      BY <1>1, <2>1, <3>1, <3>2, Fields, Bounds
  <2>4. x \in SessionState
    <3>1. ses[s].waiting - 1 \in 0..Cap /\ ses[s].calling + 1 \in 0..Slots
      BY <1>1, <2>1, <2>3, Fields, Bounds
    <3>2. QED
      BY <1>1, <3>1, Fields DEF SessionState
  <2>5. Sane(s, x) /\ x.calling = ses[s].calling + 1
    BY <1>1, <2>1, <2>2, <2>4, Fields DEF Sane, Counted, Proper, SessionState
  <2>6. free' \in Nat /\ free' + x.calling = free + ses[s].calling
    BY <1>1, <2>1, <2>5, Fields
  <2>7. QED
    BY <2>1, <2>5, <2>6
<1>4. CASE Reply(s)
  <2> DEFINE x == [ses[s] EXCEPT !.calling = @ - 1, !.count = @ - 1]
  <2>1. ses' = [ses EXCEPT ![s] = x] /\ ses[s].calling > 0 /\ free' = free + 1
    BY <1>1, <1>4 DEF Reply, TypeOK, SessionState
  <2>2. ses[s].status # "unborn" /\ ses[s].calling <= ses[s].count
    BY <1>1, <2>1, JobStarted, Fields
  <2>3. x \in SessionState
    <3>1. ses[s].calling - 1 \in 0..Slots /\ ses[s].count - 1 \in 0..Cap
      BY <1>1, <2>1, <2>2, Fields, Bounds
    <3>2. QED
      BY <1>1, <3>1, Fields DEF SessionState
  <2>4. Sane(s, x) /\ x.calling = ses[s].calling - 1
    BY <1>1, <2>1, <2>2, <2>3, Fields DEF Sane, Counted, Proper, SessionState
  <2>5. free' \in Nat /\ free' + x.calling = free + ses[s].calling
    BY <1>1, <2>1, <2>4, Fields
  <2>6. QED
    BY <2>1, <2>4, <2>5
<1>5. CASE Raise(s)
  <2> DEFINE x == [ses[s] EXCEPT !.calling = @ - 1, !.raised = @ + 1]
  <2>1. ses' = [ses EXCEPT ![s] = x] /\ ses[s].calling > 0 /\ free' = free + 1
        /\ ses[s].raised < MaxRaised
    BY <1>1, <1>5 DEF Raise, TypeOK, SessionState
  <2>2. ses[s].status # "unborn"
    BY <2>1, JobStarted
  <2>3. x \in SessionState
    <3>1. ses[s].calling - 1 \in 0..Slots /\ ses[s].raised + 1 \in 0..MaxRaised
      BY <1>1, <2>1, Fields, Bounds
    <3>2. QED
      BY <1>1, <3>1, Fields DEF SessionState
  <2>4. Sane(s, x) /\ x.calling = ses[s].calling - 1
    BY <1>1, <2>1, <2>2, <2>3, Fields DEF Sane, Counted, Proper, SessionState
  <2>5. free' \in Nat /\ free' + x.calling = free + ses[s].calling
    BY <1>1, <2>1, <2>4, Fields
  <2>6. QED
    BY <2>1, <2>4, <2>5
<1>6. QED
  BY <1>2, <1>3, <1>4, <1>5 DEF Work

LEMMA WorkKeeps ==
  ASSUME IInv, NEW s \in Session, Work(s) \/ Raise(s), UNCHANGED <<current, globals, live, bench>>
  PROVE  IInv'
BY WorkSane, OneChanges

----------------------------------------------------------------------------
(* The API *)

\* Stopping the current session touches no job and no slot.
LEMMA StoppedSane ==
  ASSUME TypeOK
  PROVE  /\ Stopped(ses) \in [Session -> SessionState]
         /\ \A s \in Session :
              /\ Stopped(ses)[s].status \in {ses[s].status, "stopped"}
              /\ Stopped(ses)[s].client = ses[s].client /\ Stopped(ses)[s].loop = ses[s].loop
              /\ Stopped(ses)[s].count = ses[s].count /\ Stopped(ses)[s].waiting = ses[s].waiting
              /\ Stopped(ses)[s].calling = ses[s].calling /\ Stopped(ses)[s].raised = ses[s].raised
<1>1. ASSUME NEW s \in Session
      PROVE  /\ Stopped(ses)[s] \in SessionState
             /\ Stopped(ses)[s].status \in {ses[s].status, "stopped"}
             /\ Stopped(ses)[s].client = ses[s].client /\ Stopped(ses)[s].loop = ses[s].loop
             /\ Stopped(ses)[s].count = ses[s].count /\ Stopped(ses)[s].waiting = ses[s].waiting
             /\ Stopped(ses)[s].calling = ses[s].calling /\ Stopped(ses)[s].raised = ses[s].raised
  <2>1. ses[s] \in SessionState
    BY DEF TypeOK
  <2>2. Stopped(ses)[s] = IF s = current THEN [ses[s] EXCEPT !.status = "stopped"] ELSE ses[s]
    BY DEF Stopped
  <2>3. QED
    BY <2>1, <2>2 DEF SessionState
<1>2. Stopped(ses) \in [Session -> SessionState]
  BY <1>1 DEF Stopped
<1>3. QED
  BY <1>1, <1>2

\* A step that leaves the calls alone keeps the slots.
LEMMA CallsSame ==
  ASSUME SlotsKept, \A s \in Session : ses'[s].calling = ses[s].calling, UNCHANGED callers
  PROVE  SlotsKept'
BY DEF SlotsKept, Calls, Held, Benched, callers

LEMMA StartKeeps ==
  ASSUME IInv, NEW r \in Request, Start(r)
  PROVE  IInv'
<1> DEFINE s == Min(Unborn)  stop == Stopped(ses)
<1>1. /\ Unborn # {} /\ current' = s
      /\ ses' = [stop EXCEPT ![s].status = "running", ![s].client = r.client, ![s].loop = "top"]
      /\ routingMode' = r.mode /\ routingIndustry' = r.industry
      /\ scoped' = (scoped \/ (r.scoped /\ live["session"] # "none"))
      /\ UNCHANGED callers
  BY DEF Start
<1>2. s \in Session /\ ses[s].status = "unborn"
  <2>1. Unborn \in SUBSET Nat
    BY SessionNumbers DEF Unborn
  <2>2. s \in Unborn
    BY <1>1, <2>1, MinInside
  <2>3. QED
    BY <2>2 DEF Unborn
<1>3. TypeOK /\ \A t \in Session : Counted(t) /\ Proper(t)
  BY DEF IInv
<1> HIDE DEF s, stop
<1>4. /\ stop \in [Session -> SessionState]
      /\ \A t \in Session :
           /\ stop[t].status \in {ses[t].status, "stopped"}
           /\ stop[t].client = ses[t].client /\ stop[t].loop = ses[t].loop
           /\ stop[t].count = ses[t].count /\ stop[t].waiting = ses[t].waiting
           /\ stop[t].calling = ses[t].calling /\ stop[t].raised = ses[t].raised
  BY <1>3, StoppedSane DEF stop
<1>5. r.client \in {"mock", "real"} /\ r.mode \in Mode /\ r.industry \in Industry /\ r.scoped \in BOOLEAN
  BY SessionsAssumption DEF Industry
<1>6. /\ \A t \in Session \ {s} : ses'[t] = stop[t]
      /\ ses'[s] = [stop[s] EXCEPT !.status = "running", !.client = r.client, !.loop = "top"]
  BY <1>1, <1>2, <1>4
<1>7. /\ ses'[s] \in SessionState /\ ses'[s].status = "running" /\ ses'[s].loop = "top"
      /\ ses'[s].count = ses[s].count /\ ses'[s].waiting = ses[s].waiting
      /\ ses'[s].calling = ses[s].calling /\ ses'[s].raised = ses[s].raised
  <2>1. stop[s] \in SessionState
    BY <1>2, <1>4
  <2>2. QED
    BY <1>2, <1>4, <1>5, <1>6, <2>1 DEF SessionState
<1>8. ses' \in [Session -> SessionState]
  BY <1>1, <1>2, <1>4, <1>5, <1>6, <1>7
<1>9. TypeOK'
  BY <1>1, <1>2, <1>3, <1>5, <1>8 DEF TypeOK, SessionState, callers, Industry
<1>10. \A t \in Session : ses'[t].calling = ses[t].calling
  BY <1>4, <1>6, <1>7
<1>11. SlotsKept'
  BY <1>1, <1>10, CallsSame DEF IInv
<1>12. ASSUME NEW t \in Session PROVE Counted(t)' /\ Proper(t)'
  <2>1. CASE t = s
    BY <1>2, <1>3, <1>7, <2>1, Fields DEF Counted, Proper
  <2>2. CASE t # s
    BY <1>3, <1>4, <1>6, <2>2 DEF Counted, Proper
  <2>3. QED
    BY <2>1, <2>2
<1>13. QED
  BY <1>9, <1>11, <1>12 DEF IInv

LEMMA StopKeeps ==
  ASSUME IInv, StopCurrent \/ Reset
  PROVE  IInv'
<1>1. ses' = Stopped(ses) /\ UNCHANGED <<globals, callers>> /\ current' \in {current, 0}
  BY DEF StopCurrent, Reset
<1>2. TypeOK /\ \A t \in Session : Counted(t) /\ Proper(t)
  BY DEF IInv
<1>3. TypeOK'
  BY <1>1, <1>2, StoppedSane DEF TypeOK, SessionState, globals, callers
<1>4. SlotsKept'
  BY <1>1, <1>2, StoppedSane, CallsSame DEF IInv
<1>5. ASSUME NEW t \in Session PROVE Counted(t)' /\ Proper(t)'
  BY <1>1, <1>2, StoppedSane DEF Counted, Proper
<1>6. QED
  BY <1>3, <1>4, <1>5 DEF IInv

----------------------------------------------------------------------------
(* The live threads and the runs *)

LEMMA OthersKeep ==
  ASSUME IInv, Others, UNCHANGED <<current, ses, globals>>
  PROVE  IInv'
<1> DEFINE c == Cardinality(Calls)
<1>1. TypeOK /\ free + c + Held("session") + Held("worker") + Benched = Slots
  BY DEF IInv, SlotsKept
<1>2. /\ free \in Nat /\ c \in Nat /\ Slots \in Nat /\ Held("session") \in {0, 1}
      /\ Held("worker") \in {0, 1} /\ Benched \in Nat
  BY <1>1, SlotNumbers, Bounds
<1>3. Calls' = Calls
  BY DEF Calls
<1>4. DOMAIN live = {"session", "worker"}
  BY <1>1 DEF TypeOK
<1> HIDE DEF c
<1>5. /\ free' + c + Held("session")' + Held("worker")' + Benched' = Slots
      /\ free' \in 0..Slots /\ bench' \in None..Slots
      /\ live' \in [{"session", "worker"} -> {"none", "idle", "calling", "dead"}]
  <2>1. ASSUME NEW t \in DOMAIN live, LiveAcquire(t) \/ LiveReply(t) \/ LiveRaise(t)
        PROVE  /\ free' + Held(t)' = free + Held(t) /\ free' \in Nat
               /\ \A u \in DOMAIN live \ {t} : live'[u] = live[u]
               /\ live' \in [{"session", "worker"} -> {"none", "idle", "calling", "dead"}]
               /\ bench' = bench
    BY <1>1, <1>2, <1>4, <2>1 DEF LiveAcquire, LiveReply, LiveRaise, Held, TypeOK
  <2>2. CASE \E t \in DOMAIN live : LiveAcquire(t) \/ LiveReply(t) \/ LiveRaise(t)
    <3>1. PICK t \in DOMAIN live : LiveAcquire(t) \/ LiveReply(t) \/ LiveRaise(t)
      BY <2>2
    <3>2. Benched' = Benched /\ bench' = bench
      BY <2>1, <3>1 DEF Benched
    <3>3. free' \in Nat /\ Held("session")' \in {0, 1} /\ Held("worker")' \in {0, 1}
      BY <2>1, <3>1 DEF Held
    <3>4. free' + Held("session")' + Held("worker")' = free + Held("session") + Held("worker")
      <4>1. CASE t = "session"
        <5>1. Held("worker")' = Held("worker")
          BY <1>4, <2>1, <3>1, <4>1 DEF Held
        <5>2. QED
          BY <1>2, <2>1, <3>1, <3>3, <4>1, <5>1
      <4>2. CASE t = "worker"
        <5>1. Held("session")' = Held("session")
          BY <1>4, <2>1, <3>1, <4>2 DEF Held
        <5>2. QED
          BY <1>2, <2>1, <3>1, <3>3, <4>2, <5>1
      <4>3. QED
        BY <1>4, <4>1, <4>2
    <3>5. free' + c + Held("session")' + Held("worker")' + Benched' = Slots
      BY <1>1, <1>2, <3>2, <3>3, <3>4 DEF c
    <3>6. free' \in 0..Slots
      BY <1>2, <3>2, <3>3, <3>5
    <3>7. QED
      BY <1>1, <2>1, <3>1, <3>2, <3>5, <3>6 DEF TypeOK
  <2>3. CASE BenchStart \/ BenchAcquire \/ BenchReply
    <3>1. live' = live /\ Held("session")' = Held("session") /\ Held("worker")' = Held("worker")
      BY <2>3 DEF BenchStart, BenchAcquire, BenchReply, Held
    <3>2. bench \in Int /\ bench >= None
      BY <1>1, <1>2 DEF TypeOK, None
    <3>3. free' \in Nat /\ bench' \in Nat /\ free' + bench' = free + Benched /\ Benched' = bench'
      BY <1>2, <2>3, <3>2 DEF BenchStart, BenchAcquire, BenchReply, Benched, None
    <3>4. free' + c + Held("session")' + Held("worker")' + Benched' = Slots
      <4> DEFINE h == Held("session")  w == Held("worker")  e == Benched  f == free'  b == bench'
      <4>1. free + c + h + w + e = Slots
        BY <1>1 DEF c
      <4>2. f + b = free + e /\ f \in Nat /\ b \in Nat
        BY <3>3
      <4>3. h \in Nat /\ w \in Nat /\ e \in Nat
        BY <1>2
      <4> HIDE DEF h, w, e, f, b
      <4>4. f + c + h + w + b = Slots
        BY <1>2, <4>1, <4>2, <4>3
      <4>5. QED
        BY <3>1, <3>3, <4>4 DEF h, w, f, b
    <3>5. free' \in 0..Slots /\ bench' \in None..Slots
      BY <1>2, <3>1, <3>3, <3>4 DEF None
    <3>6. QED
      BY <1>1, <3>1, <3>4, <3>5 DEF TypeOK
  <2>4. QED
    BY <2>2, <2>3 DEF Others
<1>6. SlotsKept'
  BY <1>3, <1>5 DEF SlotsKept, c
<1>7. TypeOK'
  BY <1>1, <1>5 DEF TypeOK, SessionState, globals
<1>8. \A s \in Session : Counted(s)' /\ Proper(s)'
  BY DEF IInv, Counted, Proper
<1>9. QED
  BY <1>6, <1>7, <1>8 DEF IInv

----------------------------------------------------------------------------
(* The invariant *)

LEMMA InitInv == Init => IInv
<1>1. SUFFICES ASSUME Init PROVE IInv
  OBVIOUS
<1> DEFINE unborn == [ status |-> "unborn", client |-> "mock", loop |-> "ended", left |-> 0,
                       count |-> 0, waiting |-> 0, calling |-> 0, raised |-> 0 ]
<1>2. unborn \in SessionState
  <2>1. 0 \in 0..BatchMax /\ 0 \in 0..Cap /\ 0 \in 0..Slots /\ 0 \in 0..MaxRaised
    BY Bounds
  <2>2. QED
    BY <2>1 DEF SessionState
<1>3. ses = [s \in Session |-> unborn] /\ \A s \in Session : ses[s] = unborn
  BY <1>1 DEF Init
<1>4. ses \in [Session -> SessionState]
  <2> HIDE DEF unborn
  <2>1. QED
    BY <1>2, <1>3
<1>5. TypeOK
  <2>1. bench \in None..Slots /\ free \in 0..Slots
    BY <1>1, Bounds DEF Init, None
  <2>2. routingMode \in Mode /\ routingIndustry \in Industry
    BY <1>1 DEF Init, Mode, Industry
  <2>3. QED
    BY <1>1, <1>4, <2>1, <2>2 DEF Init, TypeOK
<1>6. \A s \in Session : Counted(s) /\ Proper(s)
  BY <1>3 DEF Counted, Proper
<1>7. Calls = {}
  BY <1>3, Bounds DEF Calls
<1>8. Held("session") = 0 /\ Held("worker") = 0 /\ Benched = 0 /\ free = Slots
  BY <1>1 DEF Init, Held, Benched
<1>9. SlotsKept
  BY <1>7, <1>8, Bounds, FS_EmptySet DEF SlotsKept
<1>10. QED
  BY <1>5, <1>6, <1>9 DEF IInv

LEMMA InvStep == IInv /\ [Next]_vars => IInv'
<1> SUFFICES ASSUME IInv, [Next]_vars PROVE IInv'
  OBVIOUS
<1>1. CASE API
  BY <1>1, StartKeeps, StopKeeps DEF API
<1>2. CASE Others /\ UNCHANGED <<current, ses, globals>>
  BY <1>2, OthersKeep
<1>3. CASE UNCHANGED vars
  BY <1>3 DEF vars, IInv, TypeOK, SessionState, Counted, Proper, SlotsKept, Calls, Held, Benched
<1>4. ASSUME NEW s \in Session, Process(s) \/ Work(s) \/ Raise(s), UNCHANGED <<current, globals, live, bench>>
      PROVE  IInv'
  BY <1>4, ProcessKeeps, WorkKeeps
<1>5. QED
  BY <1>1, <1>2, <1>3, <1>4 DEF Next

LEMMA InvAlways == Spec => []IInv
BY InitInv, InvStep, PTL DEF Spec

\* Each part of the state is of its type; inference_in_flight stays within the cap,
\* and the free slots within the slots: for any number of sessions, jobs and slots.
THEOREM SessionsTypeCorrect == Spec => []TypeOK
<1>1. IInv => TypeOK
  BY DEF IInv
<1>2. QED
  BY <1>1, InvAlways, PTL

\* "Live monitoring unaffected": as long as no synthetic session and no benchmark
\* ran with the real client, neither live thread finds every slot taken.
THEOREM LiveCorrect == Spec => []LiveRefused
<1>1. IInv => LiveRefused
  <2> SUFFICES ASSUME IInv, NEW t \in DOMAIN live, Refused(t), bench = None,
                      \A s \in Session : ses[s].client # "real"
               PROVE  FALSE
    BY DEF LiveRefused
  <2>1. TypeOK
    BY DEF IInv
  <2>2. ASSUME NEW s \in Session PROVE ses[s].calling = 0
    BY <2>1, Fields DEF IInv, Proper
  <2>3. Calls = {}
    BY <2>2, Bounds DEF Calls
  <2>4. free + Held("session") + Held("worker") = Slots
    BY <2>1, <2>3, FS_EmptySet, SlotNumbers, Bounds DEF IInv, SlotsKept, Benched
  <2>5. t \in {"session", "worker"} /\ Held(t) = 0 /\ free = 0
    BY <2>1 DEF TypeOK, Refused, Held
  <2>6. QED
    BY <2>1, <2>4, <2>5, SlotNumbers, Bounds
<1>2. QED
  BY <1>1, InvAlways, PTL

----------------------------------------------------------------------------
(* Routing *)

LEMMA EntriesServed == \A e \in Entries : e[4] \in Served
<1> DEFINE models == {"granite_350m_cpu_xeon", "granite_2b_cpu_xeon", "granite_8b_cpu_xeon", "granite_41_3b_cpu_xeon",
                     "granite_41_8b_cpu_xeon", "phi3_mini_cpu_xeon"}
<1>1. \A e \in Entries : e[4] \in models
  BY DEF Entries
<1>2. models \subseteq Served
  BY DEF Served, MicroModels
<1>3. QED
  BY <1>1, <1>2

LEMMA FallbackServed == \A type : Fallback(type) \subseteq Served
BY DEF Fallback, MacroModels, MicroModels, Served, Gaudi

\* Without a known preference, the corpora's model or the fallback, for any industry.
LEMMA ByTierServed ==
  ASSUME NEW type, NEW industry, NEW router \in BOOLEAN
  PROVE  ByTier(type, industry, router) \subseteq Served
<1>1. \A b : Lookup(industry, b, Tier(type)) \subseteq Served
  BY EntriesServed DEF Lookup
<1>2. QED
  BY <1>1, FallbackServed DEF ByTier

\* No lane has the one model that is profiled but not served, nor a preference's name.
LEMMA LanesApart ==
  ASSUME NEW p \in LaneRoutes
  PROVE  p # "llama_3_1_70b_q4_xeon" /\ p \notin DOMAIN PreferenceToModel
<1>1. PICK b \in BenchmarkTask : p \in LaneModels[Lane(b)]
  BY DEF LaneRoutes
<1>2. Lane(b) \in DOMAIN Lanes
  BY <1>1 DEF BenchmarkTask, Lane
<1>3. Lane(b) \in {"extraction", "generation", "reasoning", "embedding", "classification"}
  BY <1>2 DEF Lanes
<1>4. p \in {"gemma3_4b_cpu_xeon", "phi3_mini_cpu_xeon", "llama32_1b_cpu_xeon", "mistral_7b_cpu_xeon",
             "nomic_embed_cpu_xeon", "minilm_embed_cpu_xeon", "bge_embed_cpu_xeon"}
  BY <1>1, <1>3 DEF LaneModels
<1>5. QED
  BY <1>4 DEF PreferenceToModel

\* What rotates is a preference with a model of its own; the macro ones are on Gaudi.
LEMMA RotationsServed ==
  /\ \A p \in MicroRotation \union MacroRotation :
       p \in DOMAIN PreferenceToModel /\ PreferenceToModel[p] \in Served
  /\ \A p \in MacroRotation : PreferenceToModel[p] \in Gaudi
<1>1. \A p \in MacroRotation : p \in DOMAIN PreferenceToModel /\ PreferenceToModel[p] \in Gaudi
  BY DEF MacroRotation, PreferenceToModel, Gaudi, MacroModels
<1>2. \A p \in MicroRotation : p \in DOMAIN PreferenceToModel /\ PreferenceToModel[p] \in Served
  BY DEF MicroRotation, PreferenceToModel, Served
<1>3. Gaudi \subseteq Served
  BY DEF Served
<1>4. QED
  BY <1>1, <1>2, <1>3

LEMMA RotationInside ==
  ASSUME NEW f \in Finding
  PROVE  /\ Rotation(f) \subseteq MicroRotation \union MacroRotation
         /\ Severe(f) => Rotation(f) \subseteq MacroRotation
BY DEF Rotation, MacroRotation, Severe

\* Every endpoint is served, whatever the finding, the mode and the industry.
LEMMA EndpointServed ==
  ASSUME NEW f \in Finding, NEW mode \in Mode, NEW industry, NEW router \in BOOLEAN,
         NEW e \in Endpoints(f, mode, industry, router)
  PROVE  /\ e \in Served
         /\ Severe(f) /\ ~router /\ mode = "production" => e \in Gaudi
<1>1. PICK p \in Preferences(f, mode, router) : e \in Resolve(TaskType(f), p, industry, router)
  BY DEF Endpoints
<1>2. p \in (MicroRotation \union MacroRotation) \union LaneRoutes
  BY <1>1, RotationInside DEF Preferences
<1>3. CASE p \in MicroRotation \union MacroRotation
  <2>1. p \in DOMAIN PreferenceToModel /\ PreferenceToModel[p] \in Served
    BY <1>3, RotationsServed
  <2>2. e = PreferenceToModel[p]
    BY <1>1, <2>1 DEF Resolve
  <2>3. Severe(f) /\ ~router /\ mode = "production" => p \in MacroRotation
    BY <1>1, RotationInside DEF Preferences
  <2>4. QED
    BY <2>1, <2>2, <2>3, RotationsServed
<1>4. CASE p \in LaneRoutes /\ p \notin MicroRotation \union MacroRotation
  <2>1. (e \in {p} /\ p \in Profiled) \/ e \in ByTier(TaskType(f), industry, router)
    BY <1>1, <1>4, LanesApart DEF Resolve
  <2>2. p \in Profiled => p \in Served
    BY <1>4, LanesApart DEF Profiled
  <2>3. ~(Severe(f) /\ ~router /\ mode = "production")
    BY <1>1, <1>4, RotationInside DEF Preferences
  <2>4. QED
    BY <2>1, <2>2, <2>3, ByTierServed
<1>5. QED
  BY <1>2, <1>3, <1>4

\* Every endpoint a task may be sent to is one the real client knows, and without the
\* inference router production sends every severe finding to Gaudi: for any industry
\* a request may name.
THEOREM RoutedCorrect == Spec => []Routed
<1>1. TypeOK => Routed
  <2> SUFFICES ASSUME TypeOK PROVE <<routingMode, routingIndustry>> \in RightRoutes
    BY DEF Routed
  <2> DEFINE set == <<routingMode, routingIndustry>>
  <2>1. set \in { <<m, i>> : m \in Mode, i \in Industry } /\ set[1] = routingMode
        /\ set[2] = routingIndustry /\ routingMode \in Mode
    BY DEF TypeOK
  <2>2. \A f \in Finding, router \in BOOLEAN : \A e \in Endpoints(f, set[1], set[2], router) :
          /\ e \in Served
          /\ Severe(f) /\ ~router /\ set[1] = "production" => e \in Gaudi
    BY <2>1, EndpointServed
  <2> HIDE DEF set
  <2>3. set \in RightRoutes
    BY <2>1, <2>2 DEF RightRoutes
  <2>4. QED
    BY <2>3 DEF set
<1>2. QED
  BY <1>1, SessionsTypeCorrect, PTL
=============================================================================
