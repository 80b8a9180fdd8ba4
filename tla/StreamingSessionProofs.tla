------------------------ MODULE StreamingSessionProofs ------------------------
(***************************************************************************)
(* Proofs about StreamingSession: its types, that no signal is counted     *)
(* twice, that the calls in flight are those being made, and that a        *)
(* cooldown is honoured until the watchdog starts a second loop.           *)
(*                                                                         *)
(* The types rest on the count: a buffer holds no more signals than have   *)
(* arrived because what is counted, queued and held never exceeds them.    *)
(***************************************************************************)
EXTENDS StreamingSession, FiniteSetTheorems, TLAPS

\* Loops are started one after the other.
InOrder == \A p \in Born : 1..p \subseteq Born

\* As long as there is one loop, what it took as new is still due when it records it.
StillDue ==
  2 \in Born \/ \A p \in Loop : loop[p].at = "record" =>
                  \A k \in loop[p].batch.new : cool[k] >= Cooldown


----------------------------------------------------------------------------
(* Operators *)

LEMMA MinOfTwo ==
  ASSUME NEW a \in Int, NEW b \in Int
  PROVE  Min({a, b}) = IF a <= b THEN a ELSE b
<1>1. \A y \in {a, b} : (IF a <= b THEN a ELSE b) <= y
  OBVIOUS
<1>2. \A x \in {a, b} : (\A y \in {a, b} : x <= y) => x = IF a <= b THEN a ELSE b
  OBVIOUS
<1>3. QED
  BY <1>1, <1>2 DEF Min

LEMMA MaxOfTwo ==
  ASSUME NEW a \in Int, NEW b \in Int
  PROVE  Max({a, b}) = IF a >= b THEN a ELSE b
<1>1. \A y \in {a, b} : (IF a >= b THEN a ELSE b) >= y
  OBVIOUS
<1>2. \A x \in {a, b} : (\A y \in {a, b} : x >= y) => x = IF a >= b THEN a ELSE b
  OBVIOUS
<1>3. QED
  BY <1>1, <1>2 DEF Max

\* A counter that stops at a limit.
LEMMA Capped ==
  ASSUME NEW m \in Nat, NEW n \in Nat
  PROVE  Min({n, m}) \in 0..m /\ Min({n, m}) <= n /\ (n >= m => Min({n, m}) = m)
BY MinOfTwo

LEMMA LoopNumbers ==
  /\ Loop \subseteq Nat
  /\ \A p \in Loop : p >= 1 /\ (p # 1 => 2 \in Loop /\ 2 \in 1..p)
<1>1. Cardinality(Loop) \in Nat
  BY StreamingAssumption, FS_CardinalityType
<1>2. \A p \in 1..Cardinality(Loop) : p \in Nat /\ p >= 1
                                     /\ (p # 1 => 2 \in 1..Cardinality(Loop) /\ 2 \in 1..p)
  BY <1>1
<1>3. QED
  BY <1>2, StreamingAssumption

----------------------------------------------------------------------------
(* What the loops hold *)

\* The numbers and the batch behind one loop.
LEMMA BatchTyped ==
  ASSUME TypeOK, NEW p \in Loop
  PROVE  /\ loop[p].batch \in Batch /\ loop[p].batch.buffer \in 0..MaxSignals
         /\ loop[p].batch.buffer \in Nat /\ loop[p].batch.new \subseteq Key
         /\ NoBatch \in Batch /\ NoBatch.buffer = 0
BY StreamingAssumption DEF TypeOK, Batch, NoBatch

LEMMA PlacesFinite == IsFiniteSet(Loop \X (1..MaxSignals))
<1>1. IsFiniteSet(1..MaxSignals)
  BY StreamingAssumption, FS_Interval
<1>2. QED
  BY <1>1, StreamingAssumption, FS_Product

LEMMA HeldFinite ==
  /\ IsFiniteSet(Held) /\ Cardinality(Held) \in Nat
  /\ IsFiniteSet(Held') /\ Cardinality(Held') \in Nat
<1>1. IsFiniteSet(Loop \X (1..MaxSignals))
  BY PlacesFinite
<1>2. Held \subseteq Loop \X (1..MaxSignals) /\ Held' \subseteq Loop \X (1..MaxSignals)
  BY DEF Held
<1>3. QED
  BY <1>1, <1>2, FS_Subset, FS_CardinalityType

\* One loop's share of the signals held, and the others'.
Share(p, n) == {p} \X (1..n)
Others(p) == { s \in Loop \X (1..MaxSignals) : s[1] # p /\ s[2] <= loop[s[1]].batch.buffer }

LEMMA SharesAdd ==
  ASSUME NEW p \in Loop, NEW n \in 0..MaxSignals
  PROVE  /\ IsFiniteSet(Others(p)) /\ Cardinality(Others(p)) \in Nat
         /\ Cardinality(Others(p) \union Share(p, n)) = Cardinality(Others(p)) + n
<1>1. IsFiniteSet(Others(p)) /\ Cardinality(Others(p)) \in Nat
  <2>1. IsFiniteSet(Loop \X (1..MaxSignals))
    BY PlacesFinite
  <2>2. Others(p) \subseteq Loop \X (1..MaxSignals)
    BY DEF Others
  <2>3. QED
    BY <2>1, <2>2, FS_Subset, FS_CardinalityType
<1>2. n \in Nat
  BY StreamingAssumption
<1>3. IsFiniteSet(1..n) /\ Cardinality(1..n) = n
  BY <1>2, FS_Interval
<1>4. IsFiniteSet(Share(p, n)) /\ Cardinality(Share(p, n)) = n
  <2>1. IsFiniteSet({p}) /\ Cardinality({p}) = 1
    BY FS_Singleton
  <2>2. IsFiniteSet(Share(p, n)) /\ Cardinality(Share(p, n)) = 1 * n
    BY <1>3, <2>1, FS_Product DEF Share
  <2>3. QED
    BY <1>2, <2>2
<1>5. Others(p) \cap Share(p, n) = {}
  BY DEF Others, Share
<1>6. Cardinality(Others(p) \union Share(p, n))
        = Cardinality(Others(p)) + Cardinality(Share(p, n)) - Cardinality(Others(p) \cap Share(p, n))
  BY <1>1, <1>4, FS_Union
<1>7. Cardinality(Others(p) \cap Share(p, n)) = 0
  BY <1>5, FS_EmptySet
<1>8. QED
  BY <1>1, <1>2, <1>4, <1>6, <1>7

LEMMA HeldByOne ==
  ASSUME TypeOK, NEW p \in Loop
  PROVE  /\ Held = Others(p) \union Share(p, loop[p].batch.buffer)
         /\ Cardinality(Held) = Cardinality(Others(p)) + loop[p].batch.buffer
         /\ loop[p].batch.buffer <= Cardinality(Held)
<1>1. Held = Others(p) \union Share(p, loop[p].batch.buffer)
  BY StreamingAssumption, BatchTyped DEF Held, Others, Share
<1>2. Cardinality(Held) = Cardinality(Others(p)) + loop[p].batch.buffer
      /\ Cardinality(Others(p)) \in Nat
  BY <1>1, BatchTyped, SharesAdd
<1>3. QED
  BY <1>1, <1>2, BatchTyped

\* A loop goes on with a batch: nothing changes but its share.
LEMMA HeldAfter ==
  ASSUME TypeOK, NEW p \in Loop, NEW at, NEW b, b.buffer \in 0..MaxSignals, Goto(p, at, b)
  PROVE  Cardinality(Held') + loop[p].batch.buffer = Cardinality(Held) + b.buffer
<1>1. loop'[p].batch = b /\ \A q \in Loop \ {p} : loop'[q] = loop[q]
  BY DEF Goto, TypeOK
<1>2. b.buffer \in Nat
  BY StreamingAssumption
<1>3. Held' = Others(p) \union Share(p, b.buffer)
  BY <1>1, <1>2, StreamingAssumption DEF Held, Others, Share
<1>4. Cardinality(Held') = Cardinality(Others(p)) + b.buffer
  BY <1>3, SharesAdd
<1>5. QED
  BY <1>2, <1>4, SharesAdd, HeldByOne, BatchTyped

\* A step that takes no signal twice keeps the count.
LEMMA CountKept ==
  ASSUME TypeOK, CountedOnce, NEW p \in Loop, NEW at, NEW b, b.buffer \in 0..MaxSignals,
         Goto(p, at, b), raw' \in Nat, queue' \in Nat, arrived' = arrived,
         raw' + queue' + b.buffer <= raw + queue + loop[p].batch.buffer
  PROVE  CountedOnce'
<1> DEFINE c == Cardinality(Held)  d == Cardinality(Held')  m == loop[p].batch.buffer  n == b.buffer
           r == raw'  q == queue'
<1>1. c \in Nat /\ d \in Nat /\ m \in Nat /\ n \in Nat /\ d + m = c + n
  BY HeldFinite, HeldAfter, BatchTyped, StreamingAssumption
<1>2. raw \in Nat /\ queue \in Nat /\ arrived \in Nat /\ raw + queue + c <= arrived
  BY StreamingAssumption DEF TypeOK, CountedOnce
<1>3. r \in Nat /\ q \in Nat /\ r + q + n <= raw + queue + m
  OBVIOUS
<1>4. r + q + d <= arrived
  <2> HIDE DEF c, d, m, n, r, q
  <2>1. QED
    BY <1>1, <1>2, <1>3
<1>5. QED
  BY <1>4 DEF CountedOnce

----------------------------------------------------------------------------
(* Types and counts *)

\* Where a loop may be.
Place == {"unborn", "top", "batch", "record", "tasks", "totals", "stuck", "exited"}

LEMMA GotoTyped ==
  ASSUME TypeOK, NEW p \in Loop, NEW at \in Place, NEW b \in Batch, Goto(p, at, b)
  PROVE  /\ loop' \in [Loop -> [at : Place, batch : Batch]]
         /\ loop'[p] = [at |-> at, batch |-> b] /\ \A q \in Loop \ {p} : loop'[q] = loop[q]
         /\ b.buffer \in 0..MaxSignals
<1>1. loop \in [Loop -> [at : Place, batch : Batch]]
  BY DEF TypeOK, Place
<1>2. [at |-> at, batch |-> b] \in [at : Place, batch : Batch]
  OBVIOUS
<1>3. QED
  BY <1>1, <1>2 DEF Goto, Batch

\* A step of a loop that adds nothing to what it holds.
LEMMA LoopKept ==
  ASSUME TypeOK, CountedOnce, NEW p \in Loop, NEW at \in Place, NEW b \in Batch, Goto(p, at, b),
         b.buffer <= loop[p].batch.buffer,
         UNCHANGED <<stopped, scoped, arrived, queue, worker, raw, inFlight>>,
         beat' \in 0..Stale + 1, cool' \in [Key -> 0..Cooldown], correlated' \subseteq Key,
         tasks' \in 0..TaskMax, watchdog' \in {"waiting", "due", "exited"}
  PROVE  TypeOK' /\ CountedOnce'
<1>1. loop' \in [Loop -> [at : Place, batch : Batch]] /\ b.buffer \in 0..MaxSignals
  BY GotoTyped
<1>2. TypeOK'
  BY <1>1 DEF TypeOK, Place, Batch
<1>3. raw \in Nat /\ queue \in Nat /\ loop[p].batch.buffer \in Nat /\ b.buffer \in Nat
  BY <1>1, BatchTyped, StreamingAssumption DEF TypeOK
<1>4. raw' \in Nat /\ queue' \in Nat /\ raw' + queue' + b.buffer <= raw + queue + loop[p].batch.buffer
  BY <1>3
<1>5. QED
  BY <1>1, <1>2, <1>4, CountKept

LEMMA DrainCounts ==
  ASSUME TypeOK, CountedOnce, NEW p \in Loop, Drain(p)
  PROVE  TypeOK' /\ CountedOnce'
<1> DEFINE drained == Min({queue, BatchLimit})  old == loop[p].batch.buffer  c == Cardinality(Held)
           b == [NoBatch EXCEPT !.buffer = old + drained]
<1>1. /\ queue \in 0..QueueMax /\ queue \in Nat /\ raw \in Nat /\ arrived \in Nat
      /\ arrived <= MaxSignals /\ BatchLimit \in Nat
  BY StreamingAssumption DEF TypeOK
<1>2. drained \in 0..queue /\ drained \in Nat
  BY <1>1, MinOfTwo
<1>3. old \in Nat /\ c \in Nat /\ old <= c /\ raw + queue + c <= arrived
  BY BatchTyped, HeldFinite, HeldByOne DEF CountedOnce
<1>4. old + drained \in 0..MaxSignals
  <2> HIDE DEF drained, old, c
  <2>1. QED
    BY <1>1, <1>2, <1>3, StreamingAssumption
<1>5. b \in Batch /\ b.buffer = old + drained
  <2> HIDE DEF drained, old
  <2>1. QED
    BY <1>4 DEF NoBatch, Batch
<1>6. PICK at \in {"top", "batch"} : Goto(p, at, b)
  BY DEF Drain
<1>7. /\ queue' = queue - drained /\ beat' = 0
      /\ UNCHANGED <<outside, cool, correlated, tasks, worker, raw, inFlight>>
  BY DEF Drain
<1>8. queue' \in 0..QueueMax /\ queue' \in Nat /\ raw' + queue' + b.buffer <= raw + queue + old
  <2>1. queue' = queue - drained /\ raw' = raw /\ b.buffer = old + drained /\ QueueMax \in Nat
    BY <1>5, <1>7, StreamingAssumption
  <2> HIDE DEF drained, old, b
  <2>2. queue' \in 0..QueueMax /\ queue' \in Nat
    BY <1>1, <1>2, <2>1
  <2>3. QED
    BY <1>1, <1>2, <1>3, <2>1, <2>2
<1> HIDE DEF b
<1>9. loop' \in [Loop -> [at : Place, batch : Batch]]
  BY <1>5, <1>6, GotoTyped DEF Place
<1>10. TypeOK'
  BY <1>7, <1>8, <1>9, StreamingAssumption DEF TypeOK, Place, Batch, outside
<1>11. CountedOnce'
  BY <1>1, <1>4, <1>5, <1>6, <1>7, <1>8, CountKept DEF outside
<1>12. QED
  BY <1>10, <1>11

LEMMA AccountCounts ==
  ASSUME TypeOK, CountedOnce, NEW p \in Loop, Account(p)
  PROVE  TypeOK' /\ CountedOnce'
<1> DEFINE old == loop[p].batch.buffer  c == Cardinality(Held)
<1>1. queue \in Nat /\ raw \in Nat /\ arrived \in Nat /\ arrived <= MaxSignals
  BY StreamingAssumption DEF TypeOK
<1>2. old \in Nat /\ c \in Nat /\ old <= c /\ raw + queue + c <= arrived
  BY BatchTyped, HeldFinite, HeldByOne DEF CountedOnce
<1>3. /\ raw' = raw + old /\ Goto(p, "top", NoBatch)
      /\ UNCHANGED <<outside, queue, beat, cool, correlated, tasks, worker, inFlight>>
  BY DEF Account
<1>4. NoBatch \in Batch /\ NoBatch.buffer = 0 /\ NoBatch.buffer \in 0..MaxSignals
  BY BatchTyped, StreamingAssumption
<1>5. raw' \in 0..MaxSignals /\ raw' \in Nat /\ raw' + queue' + NoBatch.buffer <= raw + queue + old
  <2> HIDE DEF old, c
  <2>1. QED
    BY <1>1, <1>2, <1>3, <1>4, StreamingAssumption
<1>6. loop' \in [Loop -> [at : Place, batch : Batch]]
  BY <1>3, <1>4, GotoTyped DEF Place
<1>7. TypeOK'
  BY <1>3, <1>5, <1>6 DEF TypeOK, Place, Batch, outside
<1>8. CountedOnce'
  BY <1>1, <1>3, <1>4, <1>5, CountKept DEF outside
<1>9. QED
  BY <1>7, <1>8

LEMMA RouteCounts ==
  ASSUME TypeOK, CountedOnce, NEW p \in Loop, Route(p)
  PROVE  TypeOK' /\ CountedOnce'
<1>1. PICK n \in Scoped(loop[p].batch.buffer) :
        \/ n = 0 /\ Goto(p, "top", NoBatch) /\ correlated' = correlated
        \/ \E fresh, old, new \in SUBSET Key :
             /\ correlated' = fresh \union old /\ Goto(p, "record", [buffer |-> n, new |-> new])
  BY DEF Route
<1>2. n \in 0..MaxSignals /\ n <= loop[p].batch.buffer
  BY <1>1, BatchTyped, StreamingAssumption DEF Scoped
<1>3. correlated' \subseteq Key
  BY <1>1 DEF TypeOK
<1>4. PICK at \in Place, b \in Batch : Goto(p, at, b) /\ b.buffer <= loop[p].batch.buffer
  <2>1. CASE Goto(p, "top", NoBatch)
    BY <2>1, BatchTyped DEF Place
  <2>2. ASSUME NEW new \in SUBSET Key, Goto(p, "record", [buffer |-> n, new |-> new])
        PROVE  \E at \in Place, b \in Batch : Goto(p, at, b) /\ b.buffer <= loop[p].batch.buffer
    <3>1. [buffer |-> n, new |-> new] \in Batch /\ "record" \in Place
      BY <1>2 DEF Batch, Place
    <3>2. [buffer |-> n, new |-> new].buffer <= loop[p].batch.buffer
      BY <1>2
    <3>3. QED
      BY <2>2, <3>1, <3>2
  <2>3. QED
    BY <1>1, <2>1, <2>2
<1>5. /\ UNCHANGED <<stopped, scoped, arrived, queue, worker, raw, inFlight>>
      /\ beat' \in 0..Stale + 1 /\ cool' \in [Key -> 0..Cooldown] /\ tasks' \in 0..TaskMax
      /\ watchdog' \in {"waiting", "due", "exited"}
  BY DEF Route, outside, TypeOK
<1>6. QED
  BY <1>3, <1>4, <1>5, LoopKept

\* Every other step of a loop, and a restart.
LEMMA LoopCounts ==
  ASSUME TypeOK, CountedOnce, NEW p \in Loop,
         LeaveLoop(p) \/ Abandon(p) \/ Record(p) \/ CreateTasks(p) \/ Stick(p)
  PROVE  TypeOK' /\ CountedOnce'
<1>1. /\ UNCHANGED <<stopped, scoped, arrived, queue, worker, raw, inFlight>>
      /\ beat' = beat /\ watchdog' = watchdog /\ correlated' = correlated
  BY DEF LeaveLoop, Abandon, Record, CreateTasks, Stick, outside
<1>2. cool' \in [Key -> 0..Cooldown]
  BY StreamingAssumption DEF LeaveLoop, Abandon, Record, CreateTasks, Stick, TypeOK
<1>3. tasks' \in 0..TaskMax
  <2>1. ASSUME NEW n \in Nat PROVE Min({tasks + n, TaskMax}) \in 0..TaskMax
    BY StreamingAssumption, Capped DEF TypeOK
  <2>2. (IF loop[p].batch.new = {} THEN {0} ELSE 0..Enqueued) \subseteq Nat
    BY StreamingAssumption
  <2>3. CreateTasks(p) => tasks' \in 0..TaskMax
    BY <2>1, <2>2 DEF CreateTasks
  <2>4. QED
    BY <2>3 DEF LeaveLoop, Abandon, Record, Stick, TypeOK
<1>4. \E at \in Place, b \in Batch : Goto(p, at, b) /\ b.buffer <= loop[p].batch.buffer
  <2>1. CASE LeaveLoop(p) \/ Abandon(p)
    BY <2>1, BatchTyped DEF LeaveLoop, Abandon, Place
  <2>2. CASE Record(p) \/ CreateTasks(p)
    BY <2>2, BatchTyped DEF Record, CreateTasks, Place
  <2>3. CASE Stick(p)
    <3>1. [NoBatch EXCEPT !.buffer = loop[p].batch.buffer] \in Batch
      BY BatchTyped DEF NoBatch, Batch
    <3>2. [NoBatch EXCEPT !.buffer = loop[p].batch.buffer].buffer <= loop[p].batch.buffer
      BY BatchTyped DEF NoBatch
    <3>3. QED
      BY <2>3, <3>1, <3>2 DEF Stick, Place
  <2>4. QED
    BY <2>1, <2>2, <2>3
<1>5. QED
  BY <1>1, <1>2, <1>3, <1>4, LoopKept DEF TypeOK

\* The steps that leave every loop alone.
LEMMA HeldSame ==
  ASSUME CountedOnce, UNCHANGED <<loop, raw>>, queue' \in Int, arrived' \in Int, TypeOK,
         queue' - queue <= arrived' - arrived
  PROVE  CountedOnce'
<1>1. Held' = Held
  BY DEF Held
<1>2. raw \in Int /\ queue \in Int /\ arrived \in Int
  BY DEF TypeOK
<1> DEFINE c == Cardinality(Held)  q == queue'  a == arrived'
<1>3. raw + q + c <= a
  <2>1. c \in Int /\ q \in Int /\ a \in Int /\ q - queue <= a - arrived /\ raw + queue + c <= arrived
    BY HeldFinite DEF CountedOnce
  <2> HIDE DEF c, q, a
  <2>2. QED
    BY <1>2, <2>1
<1>4. QED
  BY <1>1, <1>3 DEF CountedOnce

LEMMA ArriveCounts ==
  ASSUME TypeOK, CountedOnce, Arrive
  PROVE  TypeOK' /\ CountedOnce'
<1>1. queue \in Nat /\ arrived \in Nat
  BY StreamingAssumption DEF TypeOK
<1>2. /\ arrived' = arrived + 1 /\ arrived < MaxSignals /\ queue' = Min({queue + 1, QueueMax})
      /\ UNCHANGED <<stopped, scoped, loop, beat, cool, correlated, tasks, worker, raw, inFlight, watchdog>>
  BY DEF Arrive
<1>3. queue' \in 0..QueueMax /\ queue' <= queue + 1
  BY <1>1, <1>2, StreamingAssumption, Capped
<1>4. arrived' \in 0..MaxSignals
  BY <1>1, <1>2, StreamingAssumption
<1>5. TypeOK'
  BY <1>2, <1>3, <1>4 DEF TypeOK, Batch
<1>6. CountedOnce'
  BY <1>1, <1>2, <1>3, StreamingAssumption, HeldSame
<1>7. QED
  BY <1>5, <1>6

LEMMA TickCounts ==
  ASSUME TypeOK, CountedOnce, Tick
  PROVE  TypeOK' /\ CountedOnce'
<1>1. beat' \in 0..Stale + 1
  <2>1. beat + 1 \in Nat /\ Stale + 1 \in Nat
    BY StreamingAssumption DEF TypeOK
  <2>2. QED
    BY <2>1, Capped DEF Tick
<1>2. cool' \in [Key -> 0..Cooldown]
  <2>1. ASSUME NEW k \in Key PROVE Min({cool[k] + 1, Cooldown}) \in 0..Cooldown
    <3>1. cool[k] + 1 \in Nat
      BY StreamingAssumption DEF TypeOK
    <3>2. QED
      BY <3>1, StreamingAssumption, Capped
  <2>2. QED
    BY <2>1 DEF Tick
<1>3. /\ UNCHANGED <<stopped, scoped, arrived, queue, loop, correlated, tasks, worker, raw, inFlight>>
      /\ watchdog' \in {"waiting", "due", "exited"}
  BY DEF Tick, TypeOK
<1>4. TypeOK'
  BY <1>1, <1>2, <1>3 DEF TypeOK, Batch
<1>5. QED
  BY <1>3, <1>4, HeldSame DEF TypeOK

LEMMA WatchCounts ==
  ASSUME TypeOK, CountedOnce, Watch
  PROVE  TypeOK' /\ CountedOnce'
<1>1. /\ UNCHANGED <<stopped, scoped, arrived, queue, beat, cool, correlated, tasks, worker, raw, inFlight>>
      /\ watchdog' \in {"waiting", "due", "exited"}
  BY DEF Watch, Restart, Healthy, LeaveWatchdog
<1>2. CASE Restart
  <2>1. PICK p \in Loop : Goto(p, "top", NoBatch)
    BY <1>2 DEF Restart
  <2>2. NoBatch \in Batch /\ NoBatch.buffer <= loop[p].batch.buffer /\ "top" \in Place
    BY BatchTyped DEF Place
  <2>3. QED
    BY <1>1, <2>1, <2>2, LoopKept DEF TypeOK
<1>3. CASE loop' = loop
  BY <1>1, <1>3, HeldSame DEF TypeOK, Batch
<1>4. QED
  BY <1>2, <1>3 DEF Watch, Healthy, LeaveWatchdog

LEMMA InferCounts ==
  ASSUME TypeOK, CountedOnce, InFlightExact, Infer
  PROVE  TypeOK' /\ CountedOnce' /\ InFlightExact'
<1>1. UNCHANGED <<outside, queue, loop, beat, cool, correlated, raw>>
  BY DEF Infer
<1>2. tasks \in Nat /\ tasks <= TaskMax /\ TaskMax \in Nat /\ inFlight \in {0, 1}
  BY StreamingAssumption DEF TypeOK
<1>3. Max({0, inFlight - 1}) = 0
  BY <1>2, MaxOfTwo
<1>4. tasks' \in 0..TaskMax
  BY <1>2 DEF Infer, TakeTask, DeepAnswer, DeepFallBack, Answer, Fed, ErrorAnswer, CallRaises, LeaveWorker
<1>5. InFlightExact' /\ worker' \in {"idle", "deep", "call", "feeding", "exited", "dead"}
  BY <1>2, <1>3 DEF Infer, TakeTask, DeepAnswer, DeepFallBack, Answer, Fed, ErrorAnswer, CallRaises,
     LeaveWorker, InFlightExact
<1>6. inFlight' \in 0..1
  BY <1>5 DEF InFlightExact
<1>7. TypeOK'
  BY <1>1, <1>4, <1>5, <1>6 DEF TypeOK, Batch, outside
<1>8. CountedOnce'
  BY <1>1, HeldSame DEF TypeOK, outside
<1>9. QED
  BY <1>5, <1>7, <1>8

LEMMA CountsInit == Init => TypeOK /\ CountedOnce /\ InFlightExact
<1>1. SUFFICES ASSUME Init PROVE TypeOK /\ CountedOnce /\ InFlightExact
  OBVIOUS
<1>2. NoBatch \in Batch
  BY StreamingAssumption DEF NoBatch, Batch
<1>3. loop \in [Loop -> [at : Place, batch : Batch]]
  BY <1>1, <1>2 DEF Init, Place
<1>4. cool \in [Key -> 0..Cooldown]
  BY <1>1, StreamingAssumption DEF Init
<1>5. TypeOK
  <2>1. /\ arrived \in 0..MaxSignals /\ queue \in 0..QueueMax /\ beat \in 0..Stale + 1
        /\ tasks \in 0..TaskMax /\ raw \in 0..MaxSignals /\ inFlight \in 0..1
    BY <1>1, StreamingAssumption DEF Init
  <2>2. QED
    BY <1>1, <1>3, <1>4, <2>1 DEF Init, TypeOK, Place
<1>6. Held = {}
  BY <1>1, StreamingAssumption DEF Init, Held, NoBatch
<1>7. CountedOnce
  BY <1>1, <1>6, FS_EmptySet DEF Init, CountedOnce
<1>8. QED
  BY <1>1, <1>5, <1>7 DEF Init, InFlightExact

LEMMA CountsStep ==
  TypeOK /\ CountedOnce /\ InFlightExact /\ [Next]_vars => TypeOK' /\ CountedOnce' /\ InFlightExact'
<1> SUFFICES ASSUME TypeOK, CountedOnce, InFlightExact, [Next]_vars
             PROVE  TypeOK' /\ CountedOnce' /\ InFlightExact'
  OBVIOUS
<1>1. CASE Infer
  BY <1>1, InferCounts
<1>2. CASE Arrive
  BY <1>2, ArriveCounts DEF Arrive, InFlightExact
<1>3. CASE Tick
  BY <1>3, TickCounts DEF Tick, InFlightExact
<1>4. CASE Watch
  BY <1>4, WatchCounts DEF Watch, InFlightExact
<1>5. CASE Scope \/ Stop \/ UNCHANGED vars
  <2>1. UNCHANGED <<arrived, queue, loop, beat, cool, correlated, tasks, worker, raw, inFlight, watchdog>>
        /\ stopped' \in BOOLEAN /\ scoped' \in BOOLEAN
    BY <1>5 DEF Scope, Stop, vars, TypeOK
  <2>2. QED
    BY <2>1, HeldSame DEF TypeOK, Batch, InFlightExact
<1>6. ASSUME NEW p \in Loop, Process(p) \/ Abandon(p) \/ Stick(p)
      PROVE  TypeOK' /\ CountedOnce' /\ InFlightExact'
  <2>1. InFlightExact'
    BY <1>6 DEF Process, Drain, LeaveLoop, Route, Record, CreateTasks, Account, Abandon, Stick, InFlightExact
  <2>2. QED
    BY <1>6, <2>1, DrainCounts, AccountCounts, RouteCounts, LoopCounts DEF Process
<1>7. QED
  BY <1>1, <1>2, <1>3, <1>4, <1>5, <1>6 DEF Next

LEMMA CountsAlways == Spec => [](TypeOK /\ CountedOnce /\ InFlightExact)
<1> DEFINE Inv == TypeOK /\ CountedOnce /\ InFlightExact
<1>1. Init => Inv
  BY CountsInit
<1>2. Inv /\ [Next]_vars => Inv'
  BY CountsStep
<1> HIDE DEF Inv
<1>3. QED
  BY <1>1, <1>2, PTL DEF Spec, Inv

\* Each part of the session's state is of its type, whatever the sizes of the queues
\* and however many loops the watchdog starts.
THEOREM SessionTypeCorrect == Spec => []TypeOK
BY CountsAlways, PTL

\* No signal is counted twice: for any number of loops, stuck or not.
THEOREM CountedCorrect == Spec => []CountedOnce
BY CountsAlways, PTL

\* inference_in_flight is 1 exactly while a call is being made, or was when the
\* inference thread died.
THEOREM InFlightCorrect == Spec => []InFlightExact
BY CountsAlways, PTL

----------------------------------------------------------------------------
(* Cooldowns *)

LEMMA OrderInit == Init => InOrder /\ StillDue
<1>1. SUFFICES ASSUME Init PROVE InOrder /\ StillDue
  OBVIOUS
<1>2. Born = {1} /\ \A p \in Loop : loop[p].at # "record"
  BY <1>1, StreamingAssumption DEF Init, Born
<1>3. QED
  BY <1>2 DEF InOrder, StillDue

\* What a loop that has been started does starts no loop.
LEMMA BornKept ==
  ASSUME TypeOK, NEW p \in Loop, loop[p].at # "unborn", NEW at, at # "unborn", NEW b, Goto(p, at, b)
  PROVE  Born' = Born
BY DEF Goto, Born, TypeOK

\* A second loop has been started as soon as any but the first has.
LEMMA SecondBorn ==
  ASSUME InOrder, NEW p \in Born, p # 1
  PROVE  2 \in Born
BY LoopNumbers DEF InOrder, Born

\* A loop goes on from a place other than "record".
LEMMA GotoOrder ==
  ASSUME TypeOK, InOrder, StillDue, NEW p \in Loop, loop[p].at # "unborn",
         NEW at, at # "unborn", NEW b, Goto(p, at, b), UNCHANGED cool,
         at = "record" => \A k \in b.new : cool[k] >= Cooldown
  PROVE  InOrder' /\ StillDue'
<1>1. Born' = Born
  BY BornKept
<1>2. loop'[p] = [at |-> at, batch |-> b] /\ \A q \in Loop \ {p} : loop'[q] = loop[q]
  BY DEF Goto, TypeOK
<1>3. StillDue'
  BY <1>1, <1>2 DEF StillDue
<1>4. QED
  BY <1>1, <1>3 DEF InOrder

LEMMA ProcessOrder ==
  ASSUME TypeOK, InOrder, StillDue, NEW p \in Loop,
         Drain(p) \/ LeaveLoop(p) \/ CreateTasks(p) \/ Account(p) \/ Abandon(p) \/ Stick(p)
  PROVE  InOrder' /\ StillDue'
<1>1. /\ loop[p].at # "unborn" /\ UNCHANGED cool
      /\ \E at \in Place \ {"unborn", "record"}, b \in {loop'[p].batch} : Goto(p, at, b)
  <2>1. \A at, b : Goto(p, at, b) => loop'[p].batch = b
    BY DEF Goto, TypeOK
  <2>2. \E at \in Place \ {"unborn", "record"} : \E b : Goto(p, at, b)
    BY DEF Drain, LeaveLoop, CreateTasks, Account, Abandon, Stick, Place
  <2>3. loop[p].at # "unborn" /\ UNCHANGED cool
    BY DEF Drain, LeaveLoop, CreateTasks, Account, Abandon, Stick
  <2>4. QED
    BY <2>1, <2>2, <2>3
<1>2. QED
  BY <1>1, GotoOrder

LEMMA RouteOrder ==
  ASSUME TypeOK, InOrder, StillDue, NEW p \in Loop, Route(p)
  PROVE  InOrder' /\ StillDue'
<1>1. loop[p].at # "unborn" /\ UNCHANGED cool
  BY DEF Route
<1>2. CASE Goto(p, "top", NoBatch)
  BY <1>1, <1>2, GotoOrder
<1>3. ASSUME NEW n, NEW new \in SUBSET Key, new \subseteq { k \in correlated' : Due(k) },
             Goto(p, "record", [buffer |-> n, new |-> new])
      PROVE  InOrder' /\ StillDue'
  <2>1. \A k \in [buffer |-> n, new |-> new].new : cool[k] >= Cooldown
    BY <1>3 DEF Due
  <2>2. QED
    BY <1>1, <1>3, <2>1, GotoOrder
<1>4. QED
  BY <1>2, <1>3 DEF Route

LEMMA RecordOrder ==
  ASSUME TypeOK, InOrder, StillDue, NEW p \in Loop, Record(p)
  PROVE  InOrder' /\ StillDue'
<1>1. /\ loop[p].at = "record" /\ Goto(p, "tasks", loop[p].batch) /\ p \in Born
      /\ loop'[p].at = "tasks" /\ \A q \in Loop \ {p} : loop'[q] = loop[q]
  BY DEF Record, Goto, TypeOK, Born
<1>2. Born' = Born
  BY <1>1, BornKept
<1>3. ASSUME 2 \notin Born, NEW q \in Loop PROVE loop'[q].at # "record"
  <2>1. p = 1
    BY <1>1, <1>3, SecondBorn
  <2>2. q # 1 => q \notin Born
    BY <1>3, SecondBorn
  <2>3. q # 1 => loop'[q].at = "unborn"
    BY <1>1, <2>1, <2>2 DEF Born
  <2>4. QED
    BY <1>1, <2>1, <2>3
<1>4. QED
  BY <1>2, <1>3 DEF InOrder, StillDue

LEMMA WatchOrder ==
  ASSUME TypeOK, InOrder, StillDue, Watch
  PROVE  InOrder' /\ StillDue'
<1>1. CASE loop' = loop
  BY <1>1 DEF Watch, InOrder, StillDue, Born
<1>2. CASE Restart
  <2>1. PICK p \in Born : Born = 1..p /\ p + 1 \in Loop /\ Goto(p + 1, "top", NoBatch)
    BY <1>2 DEF Restart
  <2>2. p \in Nat /\ p >= 1
    BY LoopNumbers DEF Born
  <2>3. Born' = Born \union {p + 1}
    BY <2>1 DEF Goto, Born, TypeOK
  <2>4. Born' = 1..p + 1
    BY <2>1, <2>2, <2>3
  <2>5. 2 \in Born' /\ \A q \in Born' : 1..q \subseteq Born'
    BY <2>2, <2>4
  <2>6. QED
    BY <2>5 DEF InOrder, StillDue
<1>3. QED
  BY <1>1, <1>2 DEF Watch, Healthy, LeaveWatchdog

LEMMA TickOrder ==
  ASSUME TypeOK, InOrder, StillDue, Tick
  PROVE  InOrder' /\ StillDue'
<1>1. Born' = Born /\ loop' = loop
  BY DEF Tick, Born
<1>2. ASSUME NEW k \in Key, cool[k] >= Cooldown PROVE cool'[k] >= Cooldown
  <2>1. cool[k] + 1 \in Nat /\ cool[k] + 1 >= Cooldown /\ Cooldown \in Nat
    BY <1>2, StreamingAssumption DEF TypeOK
  <2>2. Min({cool[k] + 1, Cooldown}) = Cooldown
    BY <2>1, Capped
  <2>3. QED
    BY <2>1, <2>2 DEF Tick
<1>3. \A p \in Loop : loop[p].batch.new \subseteq Key
  BY BatchTyped
<1>4. StillDue'
  BY <1>1, <1>2, <1>3 DEF StillDue
<1>5. QED
  BY <1>1, <1>4 DEF InOrder

LEMMA OrderStep == TypeOK /\ InOrder /\ StillDue /\ [Next]_vars => InOrder' /\ StillDue'
<1> SUFFICES ASSUME TypeOK, InOrder, StillDue, [Next]_vars PROVE InOrder' /\ StillDue'
  OBVIOUS
<1>1. CASE Arrive \/ Scope \/ Stop \/ Infer \/ UNCHANGED vars
  <2>1. UNCHANGED <<loop, cool>>
    BY <1>1 DEF Arrive, Scope, Stop, Infer, vars
  <2>2. QED
    BY <2>1 DEF InOrder, StillDue, Born
<1>2. ASSUME NEW p \in Loop, Process(p) \/ Abandon(p) \/ Stick(p)
      PROVE  InOrder' /\ StillDue'
  BY <1>2, ProcessOrder, RouteOrder, RecordOrder DEF Process
<1>3. QED
  BY <1>1, <1>2, TickOrder, WatchOrder DEF Next

\* A finding is recorded as new only when its cooldown is over, unless a second loop
\* runs next to the first: for any number of loops, keys and ticks.
THEOREM CooldownCorrect == Spec => CooldownHonoured
<1> DEFINE Step == \A p \in Loop : loop[p].at = "record" /\ loop'[p].at # "record" =>
                     \A k \in loop[p].batch.new : cool[k] >= Cooldown \/ 2 \in Born
           Inv == InOrder /\ StillDue
<1>1. Init => Inv
  BY OrderInit
<1>2. TypeOK /\ Inv /\ [Next]_vars => Inv'
  BY OrderStep
<1>3. Inv => Step
  BY DEF StillDue
<1>4. CooldownHonoured <=> [][Step]_vars
  BY DEF CooldownHonoured
<1> HIDE DEF Inv, Step
<1>5. QED
  BY <1>1, <1>2, <1>3, <1>4, SessionTypeCorrect, PTL DEF Spec
=============================================================================
