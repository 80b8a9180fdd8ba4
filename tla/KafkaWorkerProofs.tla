--------------------------- MODULE KafkaWorkerProofs ---------------------------
(***************************************************************************)
(* Proofs about KafkaWorker: its types, the safety of what Delivery        *)
(* promises, and the two invariants on records lost and given again.       *)
(*                                                                         *)
(* None of them is inductive as it stands.  Placed says how the committed  *)
(* positions, the consumer's and the record in the handler lie; Decodable, *)
(* that no garbled record is fetched; Spared and Charged charge what may   *)
(* still be repeated or lost to the failures and stops so far.             *)
(***************************************************************************)
EXTENDS KafkaWorker, FiniteSetTheorems, TLAPS

USE DEF topic

Shaped ==
  /\ log \in [Partition -> 0..MaxLog]
  /\ committed \in [Partition -> Int] /\ pos \in [Partition -> Int]
  /\ fetched \in [Partition -> Int] /\ reached \in [Partition -> Int]
  /\ member \in BOOLEAN
  /\ thread \in {"none", "connect", "poll", "batch", "handle", "leave", "exited"}
  /\ thread = "handle" <=> current # <<>>
  /\ current \in Record \union {<<>>} /\ skipped \subseteq Record /\ garbled \subseteq Record
  /\ stopping \in {"no", "asked", "closed"}
  /\ handled \in [Record -> Nat]
  /\ boots \in 0..MaxBoots /\ stops \in Nat /\ kills \in Nat
  /\ lapses \in Nat /\ failed \in Nat /\ lapses + failed <= MaxTrouble

\* Where the positions of a partition lie.
Ordered(p) ==
  /\ committed[p] \in None..reached[p]
  /\ 0 <= pos[p] /\ pos[p] <= fetched[p] /\ fetched[p] <= log[p]
  /\ pos[p] <= reached[p] /\ reached[p] <= log[p]

\* One stop, or one kill and one stop, for each life of the process.
Paid ==
  stops + kills + (IF thread = "none" THEN 0 ELSE IF stopping = "no" THEN 2 ELSE 1) <= 2 * boots

\* Only a consumer is a member, and it has committed no more than it yielded; the
\* record in the handler is the last one yielded, and not committed before stop().
Placed ==
  /\ \A p \in Partition : Ordered(p)
  /\ member => HasConsumer
  /\ HasConsumer => \A p \in Partition : committed[p] <= pos[p]
  /\ thread \in {"leave", "exited"} => stopping # "no"
  /\ thread = "handle" => /\ current[2] = pos[current[1]]
                          /\ stopping # "closed" => committed[current[1]] < current[2]

Sound == Shaped /\ Placed /\ Paid

----------------------------------------------------------------------------
(* The two strengthened invariants *)

\* r will be given again where the worker goes on: after its position, or at the
\* next start.
Ahead(r) == r[2] > IF member THEN pos[r[1]] ELSE Start(r[1])

\* r is in the handler, or in the rest of the batch.
Owed(r) ==
  \/ r = current
  \/ /\ thread \in {"batch", "handle"} /\ stopping # "closed"
     /\ pos[r[1]] < r[2] /\ r[2] <= fetched[r[1]]

\* What may give a record again.
Failures == kills + lapses + failed

\* What a failure has cost is charged to it before it shows: a worker that is no
\* member gives the rest of its batch, and those records again when it is back.
Spared(r) ==
  /\ handled[r] <= 1 + Failures
  /\ Owed(r) \/ Ahead(r) => handled[r] <= Failures
  /\ ~member /\ Owed(r) /\ Ahead(r) => handled[r] < Failures

\* Records that are lost, or will be if the worker goes on from where it is.
Lost ==
  { r \in Record : /\ r[2] <= IF member THEN pos[r[1]] ELSE committed[r[1]]
                   /\ handled[r] = 0 /\ r \notin skipped \union {current} }

\* A stop that may still lose a record: the next one yielded, or the one in the
\* handler.
Open ==
  IF \/ stopping = "asked" /\ thread \in {"connect", "poll", "batch", "handle"}
     \/ stopping = "closed" /\ thread = "handle"
  THEN 1 ELSE 0

Charged == Cardinality(Lost) + Open <= stops

IInv == Sound /\ (\A r \in Record : Spared(r)) /\ Charged

----------------------------------------------------------------------------
(* Operators *)

LEMMA MaxOfTwo ==
  ASSUME NEW a \in Int, NEW b \in Int
  PROVE  Max({a, b}) = IF a >= b THEN a ELSE b
<1>1. \A y \in {a, b} : (IF a >= b THEN a ELSE b) >= y
  OBVIOUS
<1>2. \A x \in {a, b} : (\A y \in {a, b} : x >= y) => x = IF a >= b THEN a ELSE b
  OBVIOUS
<1>3. QED
  BY <1>1, <1>2 DEF Max

\* Where a consumer starts, and what it has then given or passed over.
LEMMA StartInside ==
  ASSUME Shaped, NEW p \in Partition, Ordered(p)
  PROVE  /\ Start(p) \in 0..log[p]
         /\ committed[p] <= Start(p)
         /\ committed[p] # None => Start(p) = committed[p]
         /\ Max({reached[p], Start(p)}) \in reached[p]..log[p]
         /\ Max({reached[p], Start(p)}) >= Start(p)
         /\ Max({reached[p], Start(p)}) = IF committed[p] = None THEN log[p] ELSE reached[p]
<1>1. log[p] \in Nat /\ committed[p] \in Int /\ reached[p] \in Int
  BY KafkaWorkerAssumption DEF Shaped
<1>2. Start(p) \in 0..log[p] /\ committed[p] <= Start(p)
      /\ (committed[p] # None => Start(p) = committed[p])
      /\ (committed[p] = None => Start(p) = log[p])
  BY <1>1 DEF Start, Ordered, None
<1>3. Max({reached[p], Start(p)}) = IF reached[p] >= Start(p) THEN reached[p] ELSE Start(p)
  BY <1>1, <1>2, MaxOfTwo
<1>4. QED
  BY <1>1, <1>2, <1>3 DEF Ordered, None

\* The two ways committed changes: not at all, or to the positions of a member.
LEMMA CommitCases ==
  ASSUME Commit \/ UNCHANGED committed
  PROVE  committed' = committed \/ (member /\ committed' = pos)
  BY DEF Commit, Positions

----------------------------------------------------------------------------
(* Sound *)

LEMMA SoundInit == Init => Sound
<1>1. SUFFICES ASSUME Init PROVE Sound
  OBVIOUS
<1> USE <1>1, KafkaWorkerAssumption DEF Init, None
<1>2. /\ log \in [Partition -> 0..MaxLog]
      /\ committed \in [Partition -> Int] /\ pos \in [Partition -> Int]
      /\ fetched \in [Partition -> Int] /\ reached \in [Partition -> Int]
  OBVIOUS
<1>3. handled \in [Record -> Nat]
  OBVIOUS
<1>4. /\ boots \in 0..MaxBoots /\ stops \in Nat /\ kills \in Nat
      /\ lapses \in Nat /\ failed \in Nat /\ lapses + failed <= MaxTrouble
  OBVIOUS
<1>5. thread = "handle" <=> current # <<>>
  OBVIOUS
<1>6. Shaped
  BY <1>2, <1>3, <1>4, <1>5 DEF Shaped
<1>7. Placed
  BY DEF Placed, Ordered, HasConsumer
<1>8. Paid
  BY DEF Paid
<1>9. QED
  BY <1>6, <1>7, <1>8 DEF Sound

LEMMA JoinSound ==
  ASSUME Sound, Join, thread \in {"connect", "poll"}, stopping = "no" \/ thread = "poll",
         stopping # "closed", thread' = "poll",
         UNCHANGED <<topic, current, stopping, handled, counts>>
  PROVE  Sound'
<1> USE DEF Sound, counts
<1>1. /\ pos' = [p \in Partition |-> Start(p)] /\ fetched' = pos'
      /\ reached' = [p \in Partition |-> Max({reached[p], Start(p)})]
      /\ skipped' \subseteq Record /\ member' = TRUE /\ committed' = committed
  BY DEF Join, Shaped
<1>2. \A p \in Partition : /\ Start(p) \in 0..log[p] /\ committed[p] <= Start(p)
                           /\ Max({reached[p], Start(p)}) \in reached[p]..log[p]
                           /\ Max({reached[p], Start(p)}) >= Start(p)
  BY StartInside DEF Placed
<1>3. \A p \in Partition : log[p] \in Nat /\ reached[p] \in Int
  BY KafkaWorkerAssumption DEF Shaped
<1>4. \A p \in Partition : Start(p) \in Int /\ Max({reached[p], Start(p)}) \in Int
  BY <1>2, <1>3
<1>5. pos' \in [Partition -> Int] /\ reached' \in [Partition -> Int]
  BY <1>1, <1>4
<1>6. Shaped'
  BY <1>1, <1>5 DEF Shaped, Record
<1>7. \A p \in Partition : Ordered(p)' /\ committed'[p] <= pos'[p]
  <2>1. ASSUME NEW p \in Partition
        PROVE  /\ pos'[p] = Start(p) /\ fetched'[p] = Start(p) /\ log'[p] = log[p]
               /\ reached'[p] = Max({reached[p], Start(p)}) /\ committed'[p] = committed[p]
    BY <1>1
  <2>2. ASSUME NEW p \in Partition PROVE Ordered(p) /\ committed[p] \in Int
    BY DEF Placed, Shaped
  <2>3. TAKE p \in Partition
  <2>4. PICK st \in Int, top \in Int : st = Start(p) /\ top = Max({reached[p], Start(p)})
    BY <1>4
  <2>5. /\ st \in 0..log[p] /\ committed[p] <= st
        /\ top \in reached[p]..log[p] /\ top >= st
    BY <1>2, <2>4
  <2>6. /\ pos'[p] = st /\ fetched'[p] = st /\ log'[p] = log[p]
        /\ reached'[p] = top /\ committed'[p] = committed[p]
    BY <2>1, <2>4
  <2>7. Ordered(p) /\ committed[p] \in Int /\ log[p] \in Nat /\ reached[p] \in Int
    BY <1>3, <2>2
  <2>8. QED
    BY <2>4, <2>5, <2>6, <2>7 DEF Ordered, None
<1>8. Placed'
  BY <1>1, <1>7 DEF Placed, HasConsumer, Shaped
<1>9. Paid'
  BY DEF Paid
<1>10. QED
  BY <1>6, <1>8, <1>9

\* A close commits the positions of a member or fails, which counts.
LEMMA CloseCases ==
  ASSUME Shaped, Close
  PROVE  /\ member' = FALSE
         /\ failed' \in Nat /\ lapses + failed' <= MaxTrouble
         /\ \/ failed' = failed /\ (member => committed' = pos) /\ (~member => committed' = committed)
            \/ failed' = failed + 1 /\ committed' = committed /\ member
BY KafkaWorkerAssumption DEF Close, Commit, Positions, Shaped

\* What the two closers change, whether there is a consumer to close or not.
Closes ==
  /\ member' = FALSE
  /\ failed' \in Nat /\ lapses + failed' <= MaxTrouble
  /\ \/ failed' = failed /\ (member => committed' = pos) /\ (~member => committed' = committed)
     \/ failed' = failed + 1 /\ committed' = committed /\ member
  /\ UNCHANGED <<topic, pos, fetched, reached, skipped, current, handled, boots, stops, kills, lapses>>

LEMMA ClosersClose ==
  ASSUME Shaped, Placed, Leave \/ CloseStop
  PROVE  Closes
<1>1. UNCHANGED <<topic, pos, fetched, reached, skipped, current, handled, boots, stops, kills, lapses>>
  BY DEF Leave, CloseStop
<1>2. CASE HasConsumer
  BY <1>1, <1>2, CloseCases DEF Leave, CloseStop, Closes
<1>3. CASE ~HasConsumer
  <2>1. ~member /\ member' = FALSE /\ committed' = committed /\ failed' = failed
    BY <1>3 DEF Leave, CloseStop, Placed, Shaped
  <2>2. QED
    BY <1>1, <2>1 DEF Closes, Shaped
<1>4. QED
  BY <1>2, <1>3

\* The steps of the thread and of stop() that leave the positions where they are,
\* and commit them or not.
LEMMA CommittedPlaced ==
  ASSUME Shaped, Placed, committed' = committed \/ (member /\ committed' = pos),
         UNCHANGED <<topic, pos, fetched, reached>>
  PROVE  /\ committed' \in [Partition -> Int]
         /\ \A p \in Partition : Ordered(p)'
         /\ HasConsumer => \A p \in Partition : committed'[p] <= pos'[p]
<1>1. committed' \in [Partition -> Int]
  BY DEF Shaped
<1>2. ASSUME NEW p \in Partition
      PROVE  Ordered(p)' /\ (HasConsumer => committed'[p] <= pos'[p])
  <2>1. committed[p] \in Int /\ pos[p] \in Int /\ fetched[p] \in Int /\ reached[p] \in Int
        /\ log[p] \in Nat
    BY KafkaWorkerAssumption DEF Shaped
  <2>2. Ordered(p) /\ (HasConsumer => committed[p] <= pos[p])
    BY DEF Placed
  <2>3. QED
    BY <2>1, <2>2 DEF Ordered, None
<1>3. QED
  BY <1>1, <1>2

LEMMA PollSound ==
  ASSUME Sound, PollSome \/ PollNone \/ EndBatch
  PROVE  Sound'
<1> USE DEF Sound
<1>1. CASE PollSome
  <2>1. PICK f \in [Partition -> 0..MaxLog] :
          (\A p \in Partition : f[p] \in pos[p]..log[p]) /\ fetched' = f
    BY <1>1 DEF PollSome
  <2>2. committed' = committed \/ (member /\ committed' = pos)
    BY <1>1, CommitCases DEF PollSome
  <2>3. /\ UNCHANGED <<topic, member, pos, reached, skipped, current, stopping, handled, counts>>
        /\ thread = "poll" /\ stopping # "closed" /\ member /\ thread' = "batch"
    BY <1>1 DEF PollSome
  <2>4. \A p \in Partition : f[p] \in Int /\ log[p] \in Nat /\ pos[p] \in Int
                             /\ committed[p] \in Int /\ reached[p] \in Int
    BY KafkaWorkerAssumption DEF Shaped
  <2>5. fetched' \in [Partition -> Int] /\ committed' \in [Partition -> Int]
    BY <2>1, <2>2, <2>4 DEF Shaped
  <2>6. Shaped'
    BY <2>3, <2>5 DEF Shaped, Record, counts
  <2>7. HasConsumer /\ HasConsumer'
    BY <2>3 DEF HasConsumer
  <2>8. \A p \in Partition : Ordered(p)' /\ committed'[p] <= pos'[p]
    BY <2>1, <2>2, <2>3, <2>4, <2>7 DEF Ordered, Placed, None
  <2>9. Placed'
    BY <2>3, <2>7, <2>8 DEF Placed
  <2>10. Paid'
    BY <2>3 DEF Paid, counts
  <2>11. QED
    BY <2>6, <2>9, <2>10
<1>2. CASE PollNone
  <2>1. /\ UNCHANGED <<topic, member, pos, fetched, reached, skipped, thread, current, stopping, handled, counts>>
        /\ thread = "poll" /\ stopping # "closed" /\ member
        /\ committed' = committed \/ (member /\ committed' = pos)
    BY <1>2, CommitCases DEF PollNone
  <2>2. /\ committed' \in [Partition -> Int] /\ \A p \in Partition : Ordered(p)'
        /\ HasConsumer => \A p \in Partition : committed'[p] <= pos'[p]
    BY <2>1, CommittedPlaced
  <2>3. Shaped'
    BY <2>1, <2>2 DEF Shaped, Record, counts
  <2>4. Placed'
    BY <2>1, <2>2 DEF Placed, HasConsumer
  <2>5. Paid'
    BY <2>1 DEF Paid, counts
  <2>6. QED
    BY <2>3, <2>4, <2>5
<1>3. CASE EndBatch
  <2>1. /\ UNCHANGED <<topic, consumer, current, stopping, handled, counts>>
        /\ thread = "batch" /\ thread' = "poll"
    BY <1>3 DEF EndBatch
  <2>2. Shaped'
    BY <2>1 DEF Shaped, Record, counts, consumer
  <2>3. Placed'
    BY <2>1 DEF Placed, HasConsumer, Ordered, consumer
  <2>4. Paid'
    BY <2>1 DEF Paid, counts
  <2>5. QED
    BY <2>2, <2>3, <2>4
<1>4. QED
  BY <1>1, <1>2, <1>3

LEMMA PublishSound ==
  ASSUME Sound, NEW q \in Partition, Publish(q)
  PROVE  Sound'
<1> USE DEF Sound
<1>1. /\ log[q] < MaxLog /\ log' = [log EXCEPT ![q] = @ + 1]
      /\ garbled' = garbled \/ garbled' = garbled \union {<<q, log'[q]>>}
      /\ UNCHANGED <<consumer, thread, current, stopping, handled, counts>>
  BY DEF Publish
<1>2. \A p \in Partition : log[p] \in 0..MaxLog
  BY DEF Shaped
<1>3. log' \in [Partition -> 0..MaxLog] /\ \A p \in Partition : log[p] <= log'[p]
  BY <1>1, <1>2, KafkaWorkerAssumption DEF Shaped
<1>4. Shaped'
  <2>1. <<q, log'[q]>> \in Record
    BY <1>1, <1>2, <1>3, KafkaWorkerAssumption DEF Record
  <2>2. garbled' \subseteq Record
    BY <1>1, <2>1 DEF Shaped
  <2>3. QED
    BY <1>1, <1>3, <2>2 DEF Shaped, Record, counts, consumer
<1>5. ASSUME NEW p \in Partition PROVE Ordered(p)'
  <2>1. /\ committed[p] \in Int /\ pos[p] \in Int /\ fetched[p] \in Int /\ reached[p] \in Int
        /\ log[p] \in Nat /\ log'[p] \in Nat
    BY <1>3, KafkaWorkerAssumption DEF Shaped
  <2>2. Ordered(p)
    BY DEF Placed
  <2>3. QED
    BY <2>1, <2>2, <1>1, <1>3 DEF Ordered, consumer
<1>6. Placed'
  BY <1>1, <1>5 DEF Placed, HasConsumer, consumer
<1>7. Paid'
  BY <1>1 DEF Paid, counts
<1>8. QED
  BY <1>4, <1>6, <1>7

LEMMA BootSound ==
  ASSUME Sound, Boot
  PROVE  Sound'
<1> USE DEF Sound
<1>1. /\ thread = "none" /\ boots < MaxBoots /\ boots' = boots + 1
      /\ thread' = "connect" /\ stopping' = "no"
      /\ UNCHANGED <<topic, consumer, current, handled, stops, kills, lapses, failed>>
  BY DEF Boot
<1>2. Shaped'
  BY <1>1, KafkaWorkerAssumption DEF Shaped, Record, consumer
<1>3. Placed'
  BY <1>1 DEF Placed, HasConsumer, Ordered, consumer
<1>4. Paid'
  BY <1>1 DEF Paid, Shaped
<1>5. QED
  BY <1>2, <1>3, <1>4

LEMMA EndSound ==
  ASSUME Sound, Exit \/ Kill
  PROVE  Sound'
<1> USE DEF Sound
<1>1. /\ thread' = "none" /\ current' = <<>> /\ member' = FALSE /\ stops' = stops
      /\ UNCHANGED <<topic, committed, pos, fetched, reached, skipped, stopping, handled, boots, lapses, failed>>
      /\ thread # "none"
      /\ kills' = kills \/ (kills' = kills + 1 /\ stopping # "closed")
  BY DEF Exit, Kill, End
<1>2. kills' \in Nat /\ current' \in Record \union {<<>>}
  BY <1>1 DEF Shaped
<1>3. Shaped'
  BY <1>1, <1>2 DEF Shaped, Record
<1>4. Placed'
  BY <1>1 DEF Placed, HasConsumer, Ordered
<1>5. Paid'
  BY <1>1 DEF Paid, Shaped
<1>6. QED
  BY <1>3, <1>4, <1>5

LEMMA GiveSound ==
  ASSUME Sound, NEW q \in Partition, Give(q)
  PROVE  Sound'
<1> USE DEF Sound
<1>1. /\ thread = "batch" /\ stopping # "closed" /\ pos[q] < fetched[q]
      /\ pos' = [pos EXCEPT ![q] = @ + 1]
      /\ reached' = [reached EXCEPT ![q] = Max({@, pos'[q]})]
      /\ UNCHANGED <<topic, committed, member, fetched, skipped, stopping, handled, counts>>
  BY DEF Give
<1>2. \/ stopping = "no" /\ thread' = "handle" /\ current' = <<q, pos'[q]>>
      \/ stopping # "no" /\ thread' = "leave" /\ current' = current
  BY DEF Give
<1>3. \A p \in Partition : /\ committed[p] \in Int /\ pos[p] \in Int /\ fetched[p] \in Int
                           /\ reached[p] \in Int /\ log[p] \in 0..MaxLog /\ log[p] \in Nat
  BY KafkaWorkerAssumption DEF Shaped
<1>4. \A p \in Partition : Ordered(p) /\ committed[p] <= pos[p]
  BY <1>1 DEF Placed, HasConsumer
<1>5. pos' \in [Partition -> Int] /\ \A p \in Partition : pos'[p] = IF p = q THEN pos[p] + 1 ELSE pos[p]
  BY <1>1, <1>3 DEF Shaped
<1> DEFINE m == Max({reached[q], pos'[q]})
<1>6. m = (IF reached[q] >= pos'[q] THEN reached[q] ELSE pos'[q]) /\ m \in Int
  BY <1>3, <1>5, MaxOfTwo
<1>7. reached' = [reached EXCEPT ![q] = m]
  BY <1>1
<1> HIDE DEF m
<1>8. /\ reached' \in [Partition -> Int]
      /\ \A p \in Partition : reached'[p] = IF p = q /\ reached[q] < pos'[q] THEN pos'[q] ELSE reached[p]
  BY <1>3, <1>5, <1>6, <1>7 DEF Shaped
<1>9. current' \in Record \union {<<>>} /\ (thread' = "handle" <=> current' # <<>>)
  <2>1. pos'[q] \in 1..MaxLog
    BY <1>1, <1>3, <1>4, <1>5, KafkaWorkerAssumption DEF Ordered
  <2>2. <<q, pos'[q]>> \in Record /\ <<q, pos'[q]>> # <<>>
    BY <2>1 DEF Record
  <2>3. current = <<>>
    BY <1>1 DEF Shaped
  <2>4. QED
    BY <1>1, <1>2, <2>2, <2>3
<1>10. Shaped'
  BY <1>1, <1>2, <1>5, <1>8, <1>9 DEF Shaped, Record, counts
<1>11. ASSUME NEW p \in Partition
      PROVE  Ordered(p)' /\ committed'[p] <= pos'[p]
  <2>1. /\ committed'[p] = committed[p] /\ fetched'[p] = fetched[p] /\ log'[p] = log[p]
        /\ pos'[p] = IF p = q THEN pos[p] + 1 ELSE pos[p]
        /\ reached'[p] = IF p = q /\ reached[p] < pos'[p] THEN pos'[p] ELSE reached[p]
    BY <1>1, <1>5, <1>8
  <2>2. QED
    BY <2>1, <1>1, <1>3, <1>4 DEF Ordered, None
<1>12. thread' = "handle" => /\ current'[2] = pos'[current'[1]]
                             /\ committed'[current'[1]] < current'[2]
  BY <1>1, <1>2, <1>3, <1>4, <1>5
<1>13. Placed'
  BY <1>1, <1>2, <1>11, <1>12 DEF Placed, HasConsumer
<1>14. Paid'
  BY <1>1, <1>2 DEF Paid, counts
<1>15. QED
  BY <1>10, <1>13, <1>14

LEMMA HandleSound ==
  ASSUME Sound, Handle
  PROVE  Sound'
<1> USE DEF Sound
<1>1. /\ thread = "handle" /\ current' = <<>> /\ thread' = "batch"
      /\ handled' = [handled EXCEPT ![current] = @ + 1]
      /\ UNCHANGED <<topic, consumer, stopping, counts>>
  BY DEF Handle
<1>2. current \in Record /\ handled' \in [Record -> Nat]
  BY <1>1 DEF Shaped
<1>3. Shaped'
  BY <1>1, <1>2 DEF Shaped, Record, counts, consumer
<1>4. Placed'
  BY <1>1 DEF Placed, HasConsumer, Ordered, consumer
<1>5. Paid'
  BY <1>1 DEF Paid, counts
<1>6. QED
  BY <1>3, <1>4, <1>5

LEMMA ExpireSound ==
  ASSUME Sound, Expire
  PROVE  Sound'
<1> USE DEF Sound
<1>1. /\ lapses + failed < MaxTrouble /\ lapses' = lapses + 1 /\ member' = FALSE
      /\ UNCHANGED <<topic, committed, pos, fetched, reached, skipped, thread, current, stopping, handled,
                     boots, stops, kills, failed>>
  BY DEF Expire
<1>2. lapses' \in Nat /\ lapses' + failed' <= MaxTrouble
  BY <1>1, KafkaWorkerAssumption DEF Shaped
<1>3. Shaped'
  BY <1>1, <1>2 DEF Shaped, Record
<1>4. Placed'
  BY <1>1 DEF Placed, HasConsumer, Ordered
<1>5. Paid'
  BY <1>1 DEF Paid
<1>6. QED
  BY <1>3, <1>4, <1>5

LEMMA LeaveSound ==
  ASSUME Sound, Leave
  PROVE  Sound'
<1> USE DEF Sound
<1>1. /\ thread \in {"leave", "connect", "poll", "batch"} /\ thread' = "exited" /\ stopping' = stopping
      /\ Closes
      /\ committed' = committed \/ (member /\ committed' = pos)
  BY ClosersClose DEF Leave, Closes
<1>2. stopping # "no"
  BY DEF Leave, Placed
<1>3. /\ committed' \in [Partition -> Int] /\ \A p \in Partition : Ordered(p)'
  BY <1>1, CommittedPlaced DEF Closes
<1>4. Shaped'
  BY <1>1, <1>3 DEF Shaped, Record, Closes
<1>5. Placed'
  BY <1>1, <1>2, <1>3 DEF Placed, HasConsumer, Closes
<1>6. Paid'
  BY <1>1 DEF Paid, Closes
<1>7. QED
  BY <1>4, <1>5, <1>6

LEMMA StopSound ==
  ASSUME Sound, AskStop \/ CloseStop
  PROVE  Sound'
<1> USE DEF Sound
<1>1. CASE AskStop
  <2>1. /\ thread # "none" /\ stopping = "no" /\ stopping' = "asked" /\ stops' = stops + 1
        /\ UNCHANGED <<topic, consumer, thread, current, handled, boots, kills, lapses, failed>>
    BY <1>1 DEF AskStop
  <2>2. Shaped'
    BY <2>1 DEF Shaped, Record, consumer
  <2>3. Placed'
    BY <2>1 DEF Placed, HasConsumer, Ordered, consumer
  <2>4. Paid'
    BY <2>1 DEF Paid, Shaped
  <2>5. QED
    BY <2>2, <2>3, <2>4
<1>2. CASE CloseStop
  <2>1. /\ stopping = "asked" /\ thread # "none" /\ stopping' = "closed" /\ thread' = thread
        /\ Closes
        /\ committed' = committed \/ (member /\ committed' = pos)
    BY <1>2, ClosersClose DEF CloseStop, Closes
  <2>2. /\ committed' \in [Partition -> Int] /\ \A p \in Partition : Ordered(p)'
    BY <2>1, CommittedPlaced DEF Closes
  <2>3. Shaped'
    BY <2>1, <2>2 DEF Shaped, Record, Closes
  <2>4. Placed'
    BY <2>1, <2>2 DEF Placed, HasConsumer, Closes
  <2>5. Paid'
    BY <2>1 DEF Paid, Closes
  <2>6. QED
    BY <2>3, <2>4, <2>5
<1>3. QED
  BY <1>1, <1>2

LEMMA SoundStep == Sound /\ [Next]_vars => Sound'
<1> SUFFICES ASSUME Sound, [Next]_vars PROVE Sound'
  OBVIOUS
<1>1. CASE Connect
  <2>1. /\ Join /\ thread = "connect" /\ stopping = "no" /\ thread' = "poll"
        /\ UNCHANGED <<topic, current, stopping, handled, counts>>
    BY <1>1 DEF Connect
  <2>2. QED
    BY <2>1, JoinSound
<1>2. CASE Rejoin
  <2>1. /\ Join /\ thread = "poll" /\ stopping # "closed" /\ thread' = "poll"
        /\ UNCHANGED <<topic, current, stopping, handled, counts>>
    BY <1>2 DEF Rejoin
  <2>2. QED
    BY <2>1, JoinSound
<1>3. CASE UNCHANGED vars
  <2>1. Shaped'
    BY <1>3 DEF vars, consumer, counts, Sound, Shaped, Record
  <2>2. Placed' /\ Paid'
    BY <1>3 DEF vars, consumer, counts, Sound, Placed, Paid, Ordered, HasConsumer
  <2>3. QED
    BY <2>1, <2>2 DEF Sound
<1>4. QED
  BY <1>1, <1>2, <1>3, PollSound, PublishSound, BootSound, EndSound, GiveSound, HandleSound,
     ExpireSound, LeaveSound, StopSound DEF Next, Work

LEMMA SoundAlways == Spec => []Sound
<1>1. QED
  BY SoundInit, SoundStep, PTL DEF Spec

\* Every variable keeps its type: positions lie where a consumer can be, and stops
\* and kills are bounded by the starts of the process.
THEOREM WorkerTypeCorrect == Spec => []TypeOK
<1>1. Sound => TypeOK
  <2>1. SUFFICES ASSUME Sound PROVE TypeOK
    OBVIOUS
  <2>2. ASSUME NEW p \in Partition
        PROVE  /\ committed[p] \in None..log[p]
               /\ pos[p] \in 0..fetched[p] /\ fetched[p] \in 0..log[p]
               /\ reached[p] \in pos[p]..log[p]
    <3>1. /\ committed[p] \in Int /\ pos[p] \in Int /\ fetched[p] \in Int /\ reached[p] \in Int
          /\ log[p] \in Nat /\ Ordered(p)
      BY <2>1, KafkaWorkerAssumption DEF Sound, Shaped, Placed
    <3>2. QED
      BY <3>1 DEF Ordered, None
  <2>3. stops + kills \in 0..2 * MaxBoots
    BY <2>1, KafkaWorkerAssumption DEF Sound, Shaped, Paid
  <2>4. {lapses, failed, lapses + failed} \subseteq 0..MaxTrouble
    BY <2>1, KafkaWorkerAssumption DEF Sound, Shaped
  <2>5. QED
    BY <2>1, <2>2, <2>3, <2>4 DEF Sound, Shaped, TypeOK
<1>2. QED
  BY <1>1, SoundAlways, PTL

----------------------------------------------------------------------------
(* The safety of Delivery: Init, and a step of Next or a stutter *)

\* No garbled record is among those fetched and not yet yielded.
Decodable == \A r \in garbled : r[2] <= pos[r[1]] \/ r[2] > fetched[r[1]]

LEMMA GarbledNumbers ==
  ASSUME Sound, NEW r \in Record
  PROVE  /\ r[1] \in Partition /\ r[2] \in Nat /\ r = <<r[1], r[2]>>
         /\ pos[r[1]] \in Int /\ fetched[r[1]] \in Int
BY KafkaWorkerAssumption DEF Sound, Shaped, Record

LEMMA DecodableStep == Sound /\ Sound' /\ Decodable /\ [Next]_vars => Decodable'
<1> SUFFICES ASSUME Sound, Sound', Decodable, [Next]_vars PROVE Decodable'
  OBVIOUS
<1>1. garbled \subseteq Record /\ garbled' \subseteq Record
  BY DEF Sound, Shaped
<1>2. ASSUME NEW p \in Partition, Publish(p) PROVE Decodable'
  <2>1. /\ UNCHANGED <<pos, fetched>>
        /\ garbled' = garbled \/ garbled' = garbled \union {<<p, log'[p]>>}
    BY <1>2 DEF Publish, consumer
  <2>2. log'[p] > fetched[p]
    <3>1. log'[p] = log[p] + 1 /\ log[p] \in Nat /\ fetched[p] \in Int /\ fetched[p] <= log[p]
      BY <1>2, KafkaWorkerAssumption DEF Publish, Sound, Shaped, Placed, Ordered
    <3>2. QED
      BY <3>1
  <2>3. QED
    BY <2>1, <2>2 DEF Decodable
<1>3. CASE Connect \/ Rejoin
  <2>1. pos' = fetched' /\ pos' \in [Partition -> Int]
    BY <1>3 DEF Connect, Rejoin, Join, Sound, Shaped
  <2>2. \A r \in garbled' : r[2] \in Nat /\ pos'[r[1]] \in Int
    BY <1>1, <2>1, KafkaWorkerAssumption DEF Record
  <2>3. QED
    BY <2>1, <2>2 DEF Decodable
<1>4. CASE PollSome
  BY <1>4 DEF PollSome, Decodable
<1>5. ASSUME NEW q \in Partition, Give(q) PROVE Decodable'
  <2>1. UNCHANGED <<garbled, fetched>> /\ pos[q] < fetched[q] /\ pos' = [pos EXCEPT ![q] = pos[q] + 1]
    BY <1>5 DEF Give
  <2>2. ASSUME NEW r \in garbled PROVE r[2] <= pos'[r[1]] \/ r[2] > fetched[r[1]]
    <3>1. r \in Record /\ (r[2] <= pos[r[1]] \/ r[2] > fetched[r[1]])
      BY <1>1 DEF Decodable
    <3>2. pos'[r[1]] \in {pos[r[1]], pos[r[1]] + 1}
      BY <2>1, <3>1, GarbledNumbers DEF Sound, Shaped
    <3>3. QED
      BY <3>1, <3>2, GarbledNumbers
  <2>3. QED
    BY <2>1, <2>2 DEF Decodable
<1>6. CASE Boot \/ Exit \/ Kill \/ PollNone \/ EndBatch \/ Handle \/ Expire \/ Leave \/ AskStop
           \/ CloseStop \/ UNCHANGED vars
  <2>1. UNCHANGED <<garbled, pos, fetched>>
    BY <1>6 DEF Boot, Exit, Kill, End, PollNone, EndBatch, Handle, Expire, Leave, AskStop,
                CloseStop, vars, consumer
  <2>2. QED
    BY <2>1 DEF Decodable
<1>7. QED
  BY <1>2, <1>3, <1>4, <1>5, <1>6 DEF Next, Work

LEMMA DeliveryInit == Init => Abstract!Init /\ Decodable
BY DEF Init, Abstract!Init, None, Decodable

\* What Delivery sees of the thread and of stop().
Serves == thread # "none" /\ stopping = "no"
Asked  == thread \in {"connect", "poll", "batch", "handle"} /\ stopping = "asked"

LEMMA StoreStep ==
  ASSUME Shaped, committed' = committed \/ committed' = pos, Placed, UNCHANGED <<topic, reached>>,
         Asked' => Asked
  PROVE  Abstract!Store
<1>1. \A p \in Partition : committed[p] # None => committed'[p] # None
  BY DEF Placed, Ordered, Shaped, None
<1>2. ~(Asked' /\ Serves')
  BY DEF Asked, Serves
<1>3. Asked' \in {FALSE, Asked /\ ~Serves'}
  BY <1>2 DEF Asked, Serves
<1>4. QED
  BY <1>1, <1>3 DEF Abstract!Store, Asked, Serves

LEMMA JoinDelivers ==
  ASSUME Sound, Connect \/ Rejoin
  PROVE  Abstract!Skip
<1> DEFINE ps == { p \in Partition : committed[p] = None }
<1>1. \A p \in Partition :
        Max({reached[p], Start(p)}) = IF committed[p] = None THEN log[p] ELSE reached[p]
  BY StartInside DEF Sound, Placed
<1>2. /\ Join /\ thread \in {"connect", "poll"} /\ thread' = "poll"
      /\ UNCHANGED <<topic, stopping>>
  BY DEF Connect, Rejoin
<1>3. reached' = [p \in Partition |-> IF p \in ps THEN log[p] ELSE reached[p]]
  BY <1>1, <1>2 DEF Join
<1>4. ps \in SUBSET (Partition \ { p \in Partition : committed[p] # None })
  OBVIOUS
<1>5. committed' = committed
  BY <1>2 DEF Join
<1> HIDE DEF ps
<1>6. QED
  BY <1>2, <1>3, <1>4, <1>5 DEF Abstract!Skip

LEMMA GiveDelivers ==
  ASSUME Sound, Decodable, NEW q \in Partition, Give(q)
  PROVE  Abstract!Next
<1>1. /\ reached' = [reached EXCEPT ![q] = Max({reached[q], pos'[q]})] /\ pos'[q] = pos[q] + 1
      /\ pos[q] < fetched[q] /\ UNCHANGED <<topic, committed, stopping>>
      /\ thread = "batch" /\ stopping \in {"no", "asked"}
      /\ stopping = "no" => thread' = "handle"
      /\ stopping = "asked" => thread' = "leave"
  BY DEF Give, Sound, Shaped
<1>2. pos[q] \in Int /\ reached[q] \in Int /\ fetched[q] \in Int /\ log[q] \in Nat /\ Ordered(q)
  BY KafkaWorkerAssumption DEF Sound, Shaped, Placed
<1>3. Max({reached[q], pos'[q]}) = IF reached[q] >= pos'[q] THEN reached[q] ELSE pos'[q]
  BY <1>1, <1>2, MaxOfTwo
<1>4. CASE reached[q] >= pos'[q]
  <2>1. reached' = reached
    BY <1>1, <1>3, <1>4 DEF Sound, Shaped
  <2>2. Asked' => Asked
    BY <1>1 DEF Asked
  <2>3. QED
    BY <1>1, <2>1, <2>2, StoreStep DEF Sound, Abstract!Next
<1>5. CASE reached[q] < pos'[q]
  <2>1. pos'[q] = reached[q] + 1 /\ reached[q] < log[q] /\ reached[q] = pos[q]
    BY <1>1, <1>2, <1>5 DEF Ordered
  <2>2. reached' = [reached EXCEPT ![q] = reached[q] + 1]
    <3>1. Max({reached[q], pos'[q]}) = reached[q] + 1
      BY <1>1, <1>2, <1>3, <1>5, <2>1
    <3>2. QED
      BY <1>1, <3>1
  <2>3. <<q, reached[q] + 1>> \notin garbled
    <3> DEFINE r == <<q, reached[q] + 1>>
    <3>1. r[1] = q /\ r[2] = pos[q] + 1
      BY <2>1
    <3>2. ~(r[2] <= pos[q] \/ r[2] > fetched[q])
      BY <1>1, <1>2, <3>1
    <3> HIDE DEF r
    <3>3. r \notin garbled
      BY <3>1, <3>2 DEF Decodable
    <3>4. QED
      BY <3>3 DEF r
  <2>4. CASE stopping = "no"
    <3>1. Abstract!Give(q)
      BY <1>1, <2>1, <2>2, <2>3, <2>4 DEF Abstract!Give, Abstract!Pass
    <3>2. QED
      BY <3>1 DEF Abstract!Next
  <2>5. CASE stopping = "asked"
    <3>1. Abstract!Drop(q)
      BY <1>1, <2>1, <2>2, <2>3, <2>5 DEF Abstract!Drop, Abstract!Pass
    <3>2. QED
      BY <3>1 DEF Abstract!Next
  <2>6. QED
    BY <1>1, <2>4, <2>5
<1>6. QED
  BY <1>1, <1>2, <1>4, <1>5

LEMMA AskDelivers ==
  ASSUME Sound, AskStop
  PROVE  Abstract!Next
<1>1. /\ thread # "none" /\ stopping = "no" /\ stopping' = "asked" /\ thread' = thread
      /\ UNCHANGED <<topic, reached, committed>>
  BY DEF AskStop, consumer
<1>2. thread \in {"connect", "poll", "batch", "handle"}
  BY <1>1 DEF Sound, Shaped, Placed
<1>3. Abstract!Ask
  BY <1>1, <1>2 DEF Abstract!Ask
<1>4. QED
  BY <1>3 DEF Abstract!Next

LEMMA DeliveryStep == Sound /\ Decodable /\ [Next]_vars => [Abstract!Next]_(Abstract!vars)
<1> SUFFICES ASSUME Sound, Decodable, [Next]_vars PROVE Abstract!Next
  OBVIOUS
<1>1. ASSUME NEW p \in Partition, Publish(p) PROVE Abstract!Next
  <2>1. /\ log[p] < MaxLog /\ log' = [log EXCEPT ![p] = @ + 1]
        /\ \/ UNCHANGED garbled
           \/ Cardinality(garbled) < MaxGarbled /\ garbled' = garbled \union {<<p, log'[p]>>}
        /\ UNCHANGED <<reached, committed, thread, stopping>>
    BY <1>1 DEF Publish, consumer
  <2>2. /\ { q \in Partition : committed'[q] # None } = { q \in Partition : committed[q] # None }
        /\ Serves' = Serves /\ Asked' = Asked
    BY <2>1 DEF Serves, Asked
  <2>3. Abstract!Publish(p)
    BY <2>1, <2>2 DEF Abstract!Publish, Serves, Asked
  <2>4. QED
    BY <2>3 DEF Abstract!Next
<1>2. CASE PollSome \/ PollNone \/ Leave \/ CloseStop
  <2>1. CASE PollSome \/ PollNone
    <3>1. (committed' = committed \/ committed' = pos) /\ UNCHANGED <<topic, reached>> /\ (Asked' => Asked)
      BY <2>1, CommitCases DEF PollSome, PollNone, Asked
    <3>2. Shaped /\ Placed
      BY DEF Sound
    <3>3. Abstract!Store
      BY <3>1, <3>2, StoreStep
    <3>4. QED
      BY <3>3 DEF Abstract!Next
  <2>2. CASE Leave \/ CloseStop
    <3>1. (committed' = committed \/ committed' = pos) /\ UNCHANGED <<topic, reached>>
      BY <2>2, ClosersClose DEF Closes, Sound, Shaped
    <3>2. ~Asked'
      BY <2>2 DEF Leave, CloseStop, Asked
    <3>3. Shaped /\ Placed
      BY DEF Sound
    <3>4. Abstract!Store
      BY <3>1, <3>2, <3>3, StoreStep
    <3>5. QED
      BY <3>4 DEF Abstract!Next
  <2>3. QED
    BY <1>2, <2>1, <2>2
<1>3. CASE Boot \/ Exit \/ Kill \/ EndBatch \/ Handle \/ Expire \/ UNCHANGED vars
  <2>1. UNCHANGED <<topic, reached, committed>> /\ (Asked' => Asked)
    BY <1>3 DEF Boot, Exit, Kill, End, EndBatch, Handle, Expire, vars, consumer, Asked
  <2>2. Abstract!Store
    BY <2>1, StoreStep DEF Sound
  <2>3. QED
    BY <2>2 DEF Abstract!Next
<1>4. CASE Connect \/ Rejoin
  BY <1>4, JoinDelivers DEF Abstract!Next
<1>5. QED
  BY <1>1, <1>2, <1>3, <1>4, GiveDelivers, AskDelivers DEF Next, Work

\* While the worker serves, records are given in order, none is passed over but
\* those from before the group first stored its position, and a garbled one never
\* is; each stop drops at most one.  Every behaviour of the worker is one of
\* Delivery, its liveness apart.
THEOREM DeliveryCorrect == Spec => Abstract!Init /\ [][Abstract!Next]_(Abstract!vars)
<1>1. Sound /\ Sound' /\ Decodable /\ [Next]_vars => Decodable' /\ [Abstract!Next]_(Abstract!vars)
  BY DecodableStep, DeliveryStep
<1>2. QED
  BY <1>1, DeliveryInit, SoundAlways, PTL DEF Spec

----------------------------------------------------------------------------
(* What is given again *)

\* Integers behind one record.
LEMMA RecordNumbers ==
  ASSUME Sound, NEW r \in Record
  PROVE  /\ r[1] \in Partition /\ r[2] \in 1..MaxLog /\ r[2] \in Nat
         /\ committed[r[1]] \in Int /\ pos[r[1]] \in Int /\ fetched[r[1]] \in Int
         /\ log[r[1]] \in Nat /\ Start(r[1]) \in Int
         /\ handled[r] \in Nat /\ Failures \in Nat /\ stops \in Nat
         /\ committed[r[1]] <= Start(r[1])
<1>1. r[1] \in Partition /\ r[2] \in 1..MaxLog /\ r[2] \in Nat
  BY KafkaWorkerAssumption DEF Record
<1>2. Ordered(r[1]) /\ log[r[1]] \in Nat
  BY <1>1, KafkaWorkerAssumption DEF Sound, Placed, Shaped
<1>3. Start(r[1]) \in 0..log[r[1]] /\ committed[r[1]] <= Start(r[1])
  BY <1>1, <1>2, StartInside DEF Sound
<1>4. Start(r[1]) \in Int
  BY <1>2, <1>3
<1>5. QED
  BY <1>1, <1>2, <1>3, <1>4, KafkaWorkerAssumption DEF Sound, Shaped, Failures

LEMMA NoEmptyRecord == <<>> \notin Record
BY DEF Record

\* The record in the handler has been yielded.
LEMMA CurrentYielded ==
  ASSUME Sound, NEW r \in Record, r = current
  PROVE  thread = "handle" /\ r[2] = pos[r[1]]
<1>1. r # <<>>
  BY NoEmptyRecord
<1>2. thread = "handle"
  BY <1>1 DEF Sound, Shaped
<1>3. QED
  BY <1>2 DEF Sound, Placed

\* A step that fails nothing spares r when it handles r or leaves its count alone,
\* and r is due no more than before.
LEMMA SparedKept ==
  ASSUME Sound, NEW r \in Record, Spared(r), handled'[r] = handled[r],
         Failures' \in Nat, Failures' >= Failures,
         Owed(r)' \/ Ahead(r)' => \/ Owed(r) \/ Ahead(r)
                                  \/ Failures' >= Failures + 1,
         ~member' /\ Owed(r)' /\ Ahead(r)' => \/ ~member /\ Owed(r) /\ Ahead(r)
                                              \/ /\ Failures' >= Failures + 1
                                                 /\ Owed(r) \/ Ahead(r)
  PROVE  Spared(r)'
<1> DEFINE h == handled[r]  n == Failures  m == Failures'
<1>1. h \in Nat /\ n \in Nat /\ m \in Nat /\ m >= n /\ handled'[r] = h
  BY RecordNumbers
<1>2. /\ h <= 1 + n
      /\ Owed(r) \/ Ahead(r) => h <= n
      /\ ~member /\ Owed(r) /\ Ahead(r) => h < n
  BY <1>1, RecordNumbers DEF Spared
<1>3. /\ Owed(r)' \/ Ahead(r)' => Owed(r) \/ Ahead(r) \/ m >= n + 1
      /\ ~member' /\ Owed(r)' /\ Ahead(r)' => \/ ~member /\ Owed(r) /\ Ahead(r)
                                              \/ m >= n + 1 /\ (Owed(r) \/ Ahead(r))
  OBVIOUS
<1>4. /\ h <= 1 + m
      /\ Owed(r)' \/ Ahead(r)' => h <= m
      /\ ~member' /\ Owed(r)' /\ Ahead(r)' => h < m
  <2> HIDE DEF h, n, m
  <2>1. /\ h <= 1 + n => h <= 1 + m
        /\ (h <= n => h <= m) /\ (h < n => h < m)
        /\ m >= n + 1 /\ h <= 1 + n => h <= m
        /\ m >= n + 1 /\ h <= n => h < m
    BY <1>1
  <2>2. QED
    BY <1>2, <1>3, <2>1, Zenon
<1>5. QED
  <2>1. /\ handled'[r] <= 1 + Failures'
        /\ Owed(r)' \/ Ahead(r)' => handled'[r] <= Failures'
        /\ ~member' /\ Owed(r)' /\ Ahead(r)' => handled'[r] < Failures'
    BY <1>1, <1>4
  <2>2. QED
    BY <2>1 DEF Spared

LEMMA PollSpared ==
  ASSUME Sound, NEW r \in Record, Spared(r), PollSome \/ PollNone
  PROVE  Spared(r)'
<1>1. /\ UNCHANGED <<pos, handled, Failures, current, log>>
      /\ thread = "poll" /\ member /\ member'
  BY DEF PollSome, PollNone, counts, Failures
<1>2. r # current
  BY <1>1, CurrentYielded
<1>3. Ahead(r)' <=> Ahead(r)
  BY <1>1 DEF Ahead
<1>4. Owed(r)' => Ahead(r)
  BY <1>1, <1>2, RecordNumbers DEF Owed, Ahead
<1>5. QED
  BY <1>1, <1>3, <1>4, SparedKept, RecordNumbers

\* Nothing but the record in the handler is owed once a consumer is closed: a close
\* that commits leaves it behind, one that fails is charged for it.
LEMMA CloseSpared ==
  ASSUME Sound, NEW r \in Record, Spared(r), Leave \/ CloseStop
  PROVE  Spared(r)'
<1>1. Closes
  BY ClosersClose DEF Sound
<1>2. /\ UNCHANGED <<pos, handled, current, log>> /\ member' = FALSE
  BY <1>1 DEF Closes
<1>3. /\ pos[r[1]] \in Int /\ pos[r[1]] # None
      /\ r = current => r[2] = pos[r[1]]
  BY RecordNumbers, CurrentYielded DEF Sound, Placed, Ordered, None
<1>4. Owed(r)' => Owed(r) /\ r = current
  BY <1>2 DEF Leave, CloseStop, Owed
<1>5. CASE failed' = failed /\ member
  <2>1. committed' = pos /\ Failures' = Failures
    BY <1>1, <1>5 DEF Closes, Failures
  <2>2. Ahead(r)' <=> Ahead(r)
    BY <1>2, <1>3, <1>5, <2>1 DEF Ahead, Start
  <2>3. Owed(r)' => ~Ahead(r)'
    BY <1>2, <1>3, <1>4, <2>1, RecordNumbers DEF Ahead, Start
  <2>4. QED
    BY <1>2, <1>4, <2>1, <2>2, <2>3, SparedKept, RecordNumbers
<1>6. CASE failed' = failed /\ ~member
  <2>1. committed' = committed /\ Failures' = Failures
    BY <1>1, <1>6 DEF Closes, Failures, Sound, Shaped
  <2>2. Ahead(r)' <=> Ahead(r)
    BY <1>2, <1>6, <2>1 DEF Ahead, Start
  <2>3. QED
    BY <1>2, <1>4, <1>6, <2>1, <2>2, SparedKept, RecordNumbers
<1>7. CASE failed' = failed + 1
  <2>1. Failures' = Failures + 1
    BY <1>1, <1>7 DEF Closes, Failures, Sound, Shaped
  <2>2. QED
    BY <1>2, <1>4, <2>1, SparedKept, RecordNumbers
<1>8. QED
  BY <1>1, <1>5, <1>6, <1>7 DEF Closes

LEMMA JoinSpared ==
  ASSUME Sound, NEW r \in Record, Spared(r), Connect \/ Rejoin
  PROVE  Spared(r)'
<1>1. /\ thread' = "poll" /\ thread # "handle" /\ member' = TRUE /\ ~member
      /\ UNCHANGED <<committed, log, current, handled, Failures>>
      /\ pos' = [p \in Partition |-> Start(p)]
  BY DEF Failures, Connect, Rejoin, Join, counts, Sound, Placed, HasConsumer
<1>2. Ahead(r)' <=> Ahead(r)
  BY <1>1, RecordNumbers DEF Ahead
<1>3. ~Owed(r)'
  BY <1>1, CurrentYielded DEF Owed
<1>4. QED
  BY <1>1, <1>2, <1>3, SparedKept, RecordNumbers

LEMMA GiveSpared ==
  ASSUME Sound, NEW r \in Record, Spared(r), NEW q \in Partition, Give(q)
  PROVE  Spared(r)'
<1>1. /\ thread = "batch" /\ stopping # "closed" /\ pos[q] < fetched[q]
      /\ pos' = [pos EXCEPT ![q] = @ + 1]
      /\ UNCHANGED <<topic, committed, member, fetched, stopping, handled, Failures>>
      /\ \/ thread' = "handle" /\ current' = <<q, pos'[q]>>
         \/ thread' = "leave" /\ current' = current
  BY DEF Failures, Give, counts
<1>2. /\ pos'[q] = pos[q] + 1 /\ pos[q] \in Int
      /\ \A p \in Partition \ {q} : pos'[p] = pos[p]
  BY <1>1 DEF Sound, Shaped
<1>3. r # current
  BY <1>1, CurrentYielded
<1>4. CASE r[1] # q
  <2>1. pos'[r[1]] = pos[r[1]] /\ r # <<q, pos'[q]>>
    BY <1>2, <1>4, RecordNumbers
  <2>2. (Owed(r)' => Owed(r)) /\ (Ahead(r)' <=> Ahead(r))
    BY <1>1, <1>3, <2>1 DEF Owed, Ahead, Start
  <2>3. QED
    BY <1>1, <2>2, SparedKept, RecordNumbers
<1>5. CASE r[1] = q /\ r[2] # pos[q] + 1
  <2>1. r # <<q, pos'[q]>>
    BY <1>2, <1>5
  <2>2. (Owed(r)' => Owed(r)) /\ (Ahead(r)' => Ahead(r))
    BY <1>1, <1>2, <1>3, <1>5, <2>1, RecordNumbers DEF Owed, Ahead, Start
  <2>3. QED
    BY <1>1, <2>2, SparedKept, RecordNumbers
<1>6. CASE r[1] = q /\ r[2] = pos[q] + 1
  <2>1. Owed(r)
    BY <1>1, <1>2, <1>6, RecordNumbers DEF Owed
  <2>2. ~member => (Ahead(r)' <=> Ahead(r))
    BY <1>1 DEF Ahead, Start
  <2>3. QED
    BY <1>1, <2>1, <2>2, SparedKept, RecordNumbers
<1>7. QED
  BY <1>4, <1>5, <1>6

LEMMA HandleSpared ==
  ASSUME Sound, NEW r \in Record, Spared(r), Handle
  PROVE  Spared(r)'
<1>1. /\ thread = "handle" /\ current' = <<>> /\ thread' = "batch"
      /\ handled' = [handled EXCEPT ![current] = @ + 1]
      /\ UNCHANGED <<topic, committed, member, pos, fetched, stopping, Failures>>
  BY DEF Failures, Handle, consumer, counts
<1>2. current \in Record
  BY <1>1 DEF Sound, Shaped
<1>3. r # <<>>
  BY DEF Record
<1>4. Ahead(r)' <=> Ahead(r)
  BY <1>1 DEF Ahead, Start
<1>5. CASE r # current
  <2>1. handled'[r] = handled[r] /\ (Owed(r)' => Owed(r))
    BY <1>1, <1>2, <1>3, <1>5 DEF Owed, Sound, Shaped
  <2>2. QED
    BY <1>1, <1>4, <2>1, SparedKept, RecordNumbers
<1>6. CASE r = current
  <2>1. handled'[r] = handled[r] + 1
    BY <1>1, <1>6 DEF Sound, Shaped
  <2>2. Owed(r) /\ ~Owed(r)' /\ (member => ~Ahead(r))
    BY <1>1, <1>3, <1>6, CurrentYielded, RecordNumbers DEF Owed, Ahead
  <2>3. QED
    BY <1>1, <1>4, <2>1, <2>2, RecordNumbers DEF Spared
<1>7. QED
  BY <1>5, <1>6

LEMMA FailureSpared ==
  ASSUME Sound, NEW r \in Record, Spared(r), Expire \/ Exit \/ Kill
  PROVE  Spared(r)'
<1>1. handled' = handled /\ log' = log /\ committed' = committed /\ pos' = pos /\ member' = FALSE
      /\ fetched' = fetched
  BY DEF Expire, Exit, Kill, End
<1>2. r # <<>>
  BY DEF Record
<1>3. CASE Expire
  <2>1. Failures' = Failures + 1 /\ member /\ (Owed(r)' => Owed(r))
    BY <1>1, <1>3 DEF Expire, Owed, Failures, Sound, Shaped
  <2>2. QED
    BY <1>1, <2>1, SparedKept, RecordNumbers
<1>4. CASE Exit
  <2>1. ~Owed(r)' /\ ~member /\ Failures' = Failures
    BY <1>2, <1>4 DEF Exit, End, Owed, Failures, Sound, Placed, HasConsumer
  <2>2. Ahead(r)' <=> Ahead(r)
    BY <1>1, <2>1 DEF Ahead, Start
  <2>3. QED
    BY <1>1, <2>1, <2>2, SparedKept, RecordNumbers
<1>5. CASE Kill
  <2>1. ~Owed(r)' /\ Failures' = Failures + 1
    BY <1>2, <1>5 DEF Kill, End, Owed, Failures, Sound, Shaped
  <2>2. QED
    BY <1>1, <2>1, SparedKept, RecordNumbers
<1>6. QED
  BY <1>3, <1>4, <1>5

LEMMA QuietSpared ==
  ASSUME Sound, NEW r \in Record, Spared(r),
         Boot \/ EndBatch \/ AskStop \/ UNCHANGED vars
  PROVE  Spared(r)'
<1>1. /\ UNCHANGED <<topic, committed, member, pos, fetched, current, handled, Failures>>
      /\ thread' = thread \/ thread' \notin {"batch", "handle"}
      /\ stopping' = stopping \/ thread' \notin {"batch", "handle"} \/ stopping # "closed"
  BY DEF Failures, Boot, EndBatch, AskStop, vars, consumer, counts
<1>2. (Owed(r)' => Owed(r)) /\ (Ahead(r)' <=> Ahead(r))
  BY <1>1 DEF Owed, Ahead, Start
<1>3. QED
  BY <1>1, <1>2, SparedKept, RecordNumbers

LEMMA PublishSpared ==
  ASSUME Sound, NEW r \in Record, Spared(r), NEW q \in Partition, Publish(q)
  PROVE  Spared(r)'
<1>1. /\ UNCHANGED <<committed, member, pos, fetched, current, handled, Failures, thread, stopping>>
      /\ log' = [log EXCEPT ![q] = @ + 1]
  BY DEF Failures, Publish, consumer, counts
<1>2. log[r[1]] \in Nat /\ log'[r[1]] \in {log[r[1]], log[r[1]] + 1}
  BY <1>1, RecordNumbers DEF Sound, Shaped
<1>3. Start(r[1]) <= Start(r[1])' /\ Start(r[1])' \in Int
  BY <1>1, <1>2, RecordNumbers DEF Start
<1>4. (Owed(r)' => Owed(r)) /\ (Ahead(r)' => Ahead(r))
  BY <1>1, <1>3, RecordNumbers DEF Owed, Ahead
<1>5. QED
  BY <1>1, <1>4, SparedKept, RecordNumbers

LEMMA SparedInit == Init => \A r \in Record : Spared(r)
<1>1. SUFFICES ASSUME Init, NEW r \in Record PROVE handled[r] = 0 /\ Failures = 0 /\ r # current
                                                  /\ thread = "none"
  BY DEF Spared, Owed, Ahead
<1>2. QED
  <2>1. kills = 0 /\ lapses = 0 /\ failed = 0 /\ thread = "none" /\ handled[r] = 0 /\ current = <<>>
    BY <1>1 DEF Init
  <2>2. QED
    BY <1>1, <2>1 DEF Record, Failures

LEMMA SparedStep ==
  ASSUME Sound, NEW r \in Record, Spared(r), [Next]_vars
  PROVE  Spared(r)'
BY PollSpared, CloseSpared, JoinSpared, GiveSpared, HandleSpared, FailureSpared, QuietSpared, PublishSpared
   DEF Next, Work

\* A record is handled again only after a kill, a membership that lapsed or a close
\* that could not commit, and once for each: for any number of partitions, records
\* and restarts.
THEOREM AgainCorrect == Spec => []AgainOnlyAfterFailure
<1> DEFINE AllSpared == \A r \in Record : Spared(r)
<1>1. Init => AllSpared
  BY SparedInit
<1>2. AllSpared /\ Sound /\ [Next]_vars => AllSpared'
  BY SparedStep
<1>3. AllSpared => AgainOnlyAfterFailure
  BY DEF Spared, Failures, AgainOnlyAfterFailure
<1> HIDE DEF AllSpared
<1>4. QED
  BY <1>1, <1>2, <1>3, SoundAlways, PTL DEF Spec
----------------------------------------------------------------------------
(* What is lost *)

LEMMA RecordFinite == IsFiniteSet(Record)
<1>1. IsFiniteSet(1..MaxLog)
  BY KafkaWorkerAssumption, FS_Interval
<1>2. QED
  BY <1>1, KafkaWorkerAssumption, FS_Product DEF Record

LEMMA LostFinite ==
  /\ IsFiniteSet(Lost) /\ Cardinality(Lost) \in Nat
  /\ IsFiniteSet(Lost') /\ Cardinality(Lost') \in Nat
<1>1. Lost \subseteq Record /\ Lost' \subseteq Record
  BY DEF Lost, Record
<1>2. QED
  BY <1>1, RecordFinite, FS_Subset, FS_CardinalityType

\* A step that loses nothing and opens nothing but the stop it counts.
LEMMA ChargedKept ==
  ASSUME Sound, Charged, Lost' \subseteq Lost, stops' \in Nat, Open' <= Open + (stops' - stops)
  PROVE  Charged'
<1>1. Cardinality(Lost') <= Cardinality(Lost)
  BY LostFinite, FS_Subset
<1>2. Open \in Int /\ Open' \in Int /\ stops \in Int
  BY DEF Open, Sound, Shaped
<1> DEFINE c == Cardinality(Lost)  d == Cardinality(Lost')  o == Open  n == Open'  s == stops  t == stops'
<1>3. d + n <= t
  <2>1. c \in Nat /\ d \in Nat /\ d <= c /\ c + o <= s
    BY <1>1, LostFinite DEF Charged
  <2>2. o \in Int /\ n \in Int /\ s \in Int /\ t \in Int
    BY <1>2
  <2>3. n <= o + (t - s)
    OBVIOUS
  <2> HIDE DEF c, d, o, n, s, t
  <2>4. QED
    BY <2>1, <2>2, <2>3
<1>4. QED
  BY <1>3 DEF Charged

\* A step that loses one record and closes the stop that may lose it.
LEMMA ChargedLoss ==
  ASSUME Sound, Charged, NEW x, Lost' \subseteq Lost \union {x}, Open = 1, Open' = 0, stops' = stops
  PROVE  Charged'
<1>1. IsFiniteSet(Lost \union {x}) /\ Cardinality(Lost \union {x}) \in Nat
  BY LostFinite, FS_AddElement, FS_CardinalityType
<1>2. Cardinality(Lost \union {x}) <= Cardinality(Lost) + 1
  <2>1. Cardinality(Lost \union {x}) = IF x \in Lost THEN Cardinality(Lost) ELSE Cardinality(Lost) + 1
    BY LostFinite, FS_AddElement
  <2>2. QED
    BY <2>1, LostFinite
<1>3. Cardinality(Lost') <= Cardinality(Lost \union {x})
  BY <1>1, FS_Subset
<1>4. stops \in Int
  BY DEF Sound, Shaped
<1>5. QED
  BY <1>1, <1>2, <1>3, <1>4, LostFinite DEF Charged

LEMMA PollCharged ==
  ASSUME Sound, Charged, PollSome \/ PollNone
  PROVE  Charged'
<1>1. /\ UNCHANGED <<pos, handled, skipped, current, stops, stopping>>
      /\ thread = "poll" /\ member /\ member' /\ thread' \in {"poll", "batch"}
  BY DEF PollSome, PollNone, counts
<1>2. Lost' \subseteq Lost
  BY <1>1 DEF Lost
<1>3. Open' = Open
  BY <1>1 DEF Open
<1>4. QED
  BY <1>1, <1>2, <1>3, ChargedKept DEF Sound, Shaped, Open

LEMMA CloseCharged ==
  ASSUME Sound, Charged, Leave \/ CloseStop
  PROVE  Charged'
<1>1. Closes
  BY ClosersClose DEF Sound
<1>2. UNCHANGED <<pos, handled, skipped, current, stops>> /\ member' = FALSE
  BY <1>1 DEF Closes
<1>3. ASSUME NEW r \in Record, r \in Lost' PROVE r \in Lost
  <2>1. r[2] <= committed'[r[1]] /\ handled[r] = 0 /\ r \notin skipped \union {current}
    BY <1>2, <1>3 DEF Lost
  <2>2. committed' = committed \/ (member /\ committed' = pos)
    BY <1>1 DEF Closes, Sound, Shaped
  <2>3. member => committed[r[1]] <= pos[r[1]]
    BY RecordNumbers DEF Sound, Placed
  <2>4. r[2] <= IF member THEN pos[r[1]] ELSE committed[r[1]]
    BY <2>1, <2>2, <2>3, RecordNumbers
  <2>5. QED
    BY <2>1, <2>4 DEF Lost
<1>4. Lost' \subseteq Lost
  BY <1>3 DEF Lost, Record
<1>5. Open' <= Open
  BY DEF Leave, CloseStop, Open
<1>6. QED
  BY <1>2, <1>4, <1>5, ChargedKept DEF Sound, Shaped, Open

LEMMA JoinCharged ==
  ASSUME Sound, Charged, Connect \/ Rejoin
  PROVE  Charged'
<1>1. /\ Join /\ thread' = "poll" /\ ~member
      /\ UNCHANGED <<topic, handled, current, stopping, stops>>
      /\ stopping = "no" \/ thread = "poll"
  BY DEF Connect, Rejoin, counts, Sound, Placed, HasConsumer
<1>2. ASSUME NEW r \in Record, r \in Lost' PROVE r \in Lost
  <2>1. r[1] \in Partition /\ r[2] <= Start(r[1]) /\ handled[r] = 0 /\ r \notin skipped' \union {current}
    BY <1>1, <1>2, RecordNumbers DEF Lost, Join
  <2>2. committed[r[1]] # None
    BY <1>1, <1>2, <2>1 DEF Join, Start
  <2>3. QED
    BY <1>1, <2>1, <2>2 DEF Join, Start, Lost
<1>3. Lost' \subseteq Lost
  BY <1>2 DEF Lost, Record
<1>4. Open' <= Open
  BY <1>1 DEF Open
<1>5. QED
  BY <1>1, <1>3, <1>4, ChargedKept DEF Sound, Shaped, Open

LEMMA GiveCharged ==
  ASSUME Sound, Charged, NEW q \in Partition, Give(q)
  PROVE  Charged'
<1> DEFINE x == <<q, pos[q] + 1>>
<1>1. /\ thread = "batch" /\ stopping # "closed"
      /\ UNCHANGED <<committed, member, skipped, stopping, handled, stops>>
      /\ stopping = "no" => thread' = "handle" /\ current' = <<q, pos'[q]>>
      /\ stopping # "no" => thread' = "leave" /\ current' = current
  BY DEF Give, counts
<1>2. pos'[q] = pos[q] + 1 /\ \A p \in Partition \ {q} : pos'[p] = pos[p]
  BY DEF Give, Sound, Shaped
<1>3. current = <<>>
  BY <1>1 DEF Sound, Shaped
<1>4. ASSUME NEW r \in Record, r \in Lost', r # x PROVE r \in Lost
  <2>1. r[1] \in Partition /\ r[2] \in Nat /\ pos[r[1]] \in Int /\ r = <<r[1], r[2]>>
    BY RecordNumbers DEF Record
  <2>2. r[1] # q \/ r[2] # pos[q] + 1
    BY <1>4, <2>1
  <2>3. member => r[2] <= pos[r[1]]
    BY <1>1, <1>2, <1>4, <2>1, <2>2 DEF Lost
  <2>4. r # current
    BY <1>3, NoEmptyRecord
  <2>5. QED
    BY <1>1, <1>4, <2>3, <2>4 DEF Lost
<1>5. Lost' \subseteq Lost \union {x}
  BY <1>4 DEF Lost, Record
<1>6. CASE stopping = "no"
  <2>1. x \notin Lost'
    BY <1>1, <1>2, <1>6 DEF Lost
  <2>2. Open' <= Open
    BY <1>1, <1>6 DEF Open
  <2>3. Lost' \subseteq Lost
    BY <1>5, <2>1
  <2>4. QED
    BY <1>1, <2>2, <2>3, ChargedKept DEF Sound, Shaped, Open
<1>7. CASE stopping = "asked"
  <2>1. Open = 1 /\ Open' = 0
    BY <1>1, <1>7 DEF Open
  <2>2. QED
    BY <1>1, <1>5, <2>1, ChargedLoss
<1>8. QED
  BY <1>1, <1>6, <1>7 DEF Sound, Shaped

LEMMA HandleCharged ==
  ASSUME Sound, Charged, Handle
  PROVE  Charged'
<1>1. /\ thread = "handle" /\ current' = <<>> /\ thread' = "batch"
      /\ handled' = [handled EXCEPT ![current] = @ + 1]
      /\ UNCHANGED <<committed, member, pos, skipped, stopping, stops>>
  BY DEF Handle, consumer, counts
<1>2. current \in Record /\ handled[current] \in Nat /\ handled'[current] # 0
  BY <1>1 DEF Sound, Shaped
<1>3. ASSUME NEW r \in Record, r \in Lost' PROVE r \in Lost
  <2>1. r # current
    BY <1>2, <1>3 DEF Lost
  <2>2. handled'[r] = handled[r]
    BY <1>1, <2>1 DEF Sound, Shaped
  <2>3. QED
    BY <1>1, <1>3, <2>1, <2>2 DEF Lost
<1>4. Lost' \subseteq Lost
  BY <1>3 DEF Lost, Record
<1>5. Open' <= Open
  BY <1>1 DEF Open
<1>6. QED
  BY <1>1, <1>4, <1>5, ChargedKept DEF Sound, Shaped, Open

LEMMA ExpireCharged ==
  ASSUME Sound, Charged, Expire
  PROVE  Charged'
<1>1. /\ member /\ member' = FALSE
      /\ UNCHANGED <<committed, pos, skipped, handled, current, thread, stopping, stops>>
  BY DEF Expire
<1>2. ASSUME NEW r \in Record, r \in Lost' PROVE r \in Lost
  <2>1. r[2] <= committed[r[1]] /\ committed[r[1]] <= pos[r[1]]
    BY <1>1, <1>2, RecordNumbers DEF Lost, Sound, Placed
  <2>2. r[2] <= pos[r[1]]
    BY <2>1, RecordNumbers
  <2>3. QED
    BY <1>1, <1>2, <2>2 DEF Lost
<1>3. Lost' \subseteq Lost
  BY <1>2 DEF Lost, Record
<1>4. QED
  BY <1>1, <1>3, ChargedKept DEF Sound, Shaped, Open

LEMMA EndCharged ==
  ASSUME Sound, Charged, Exit \/ Kill
  PROVE  Charged'
<1>1. /\ thread' = "none" /\ current' = <<>> /\ member' = FALSE /\ thread # "none"
      /\ UNCHANGED <<committed, pos, skipped, handled, stopping, stops>>
  BY DEF Exit, Kill, End
<1>2. ASSUME NEW r \in Record, r \in Lost', r # current PROVE r \in Lost
  <2>1. r[2] <= committed[r[1]] /\ (member => committed[r[1]] <= pos[r[1]])
    BY <1>1, <1>2, RecordNumbers DEF Lost, Sound, Placed
  <2>2. member => r[2] <= pos[r[1]]
    BY <2>1, RecordNumbers
  <2>3. QED
    BY <1>1, <1>2, <2>1, <2>2 DEF Lost
<1>3. Lost' \subseteq Lost \union {current}
  BY <1>2 DEF Lost, Record
<1>4. Open' = 0
  BY <1>1 DEF Open
<1>5. CASE thread = "handle" /\ stopping = "closed"
  <2>1. Open = 1
    BY <1>5 DEF Open
  <2>2. QED
    BY <1>1, <1>3, <1>4, <2>1, ChargedLoss
<1>6. CASE thread # "handle" \/ stopping # "closed"
  <2>1. current \notin Lost'
    <3>1. SUFFICES ASSUME current \in Lost' PROVE FALSE
      OBVIOUS
    <3>2. current \in Record /\ current[2] <= committed[current[1]]
      BY <1>1, <3>1 DEF Lost, Record
    <3>3. thread = "handle" /\ stopping # "closed" /\ committed[current[1]] < current[2]
      BY <1>6, <3>2, CurrentYielded DEF Sound, Placed
    <3>4. QED
      BY <3>2, <3>3, RecordNumbers
  <2>2. QED
    BY <1>1, <1>3, <1>4, <2>1, ChargedKept DEF Sound, Shaped, Open
<1>7. QED
  BY <1>5, <1>6

LEMMA QuietCharged ==
  ASSUME Sound, Charged,
         Boot \/ EndBatch \/ AskStop \/ (\E q \in Partition : Publish(q)) \/ UNCHANGED vars
  PROVE  Charged'
<1>1. UNCHANGED <<committed, member, pos, skipped, handled, current>>
  BY DEF Boot, EndBatch, AskStop, Publish, vars, consumer
<1>2. Lost' \subseteq Lost
  BY <1>1 DEF Lost
<1>3. CASE AskStop
  <2>1. stops' = stops + 1 /\ stopping = "no"
    BY <1>3 DEF AskStop
  <2>2. Open = 0 /\ Open' <= 1 /\ Open' \in Int
    BY <2>1 DEF Open
  <2>3. stops \in Nat
    BY DEF Sound, Shaped
  <2>4. stops' \in Nat /\ stops' - stops = 1
    BY <2>1, <2>3
  <2>5. Open' <= Open + 1
    BY <2>2
  <2>6. QED
    BY <1>2, <2>4, <2>5, ChargedKept
<1>4. CASE Boot \/ EndBatch \/ (\E q \in Partition : Publish(q)) \/ UNCHANGED vars
  <2>1. stops' = stops /\ Open' <= Open
    BY <1>4 DEF Boot, EndBatch, Publish, vars, counts, Open
  <2>2. QED
    BY <1>2, <2>1, ChargedKept DEF Sound, Shaped, Open
<1>5. QED
  BY <1>3, <1>4

LEMMA ChargedInit == Init => Charged
<1>1. SUFFICES ASSUME Init PROVE Charged
  OBVIOUS
<1>2. Open = 0 /\ stops = 0
  BY <1>1 DEF Init, Open
<1>3. Lost = {}
  BY <1>1, KafkaWorkerAssumption DEF Init, Lost, Record, None
<1>4. QED
  BY <1>2, <1>3, FS_EmptySet DEF Charged

LEMMA ChargedStep == Sound /\ Charged /\ [Next]_vars => Charged'
BY PollCharged, CloseCharged, JoinCharged, GiveCharged, HandleCharged, ExpireCharged, EndCharged, QuietCharged
   DEF Next, Work

\* Each stop loses at most one record, the one it finds in the handler or the one
\* the loop yields and leaves: for any number of partitions, records and restarts.
THEOREM LostCorrect == Spec => []LostAtStops
<1>1. ASSUME Sound, Charged PROVE LostAtStops
  <2> DEFINE Gone == { r \in Record : r[2] <= committed[r[1]] /\ handled[r] = 0
                                      /\ r \notin skipped \union {current} }
  <2>1. ASSUME NEW r \in Gone PROVE r \in Lost
    <3>1. r \in Record /\ (member => committed[r[1]] <= pos[r[1]])
      BY <1>1, <2>1, RecordNumbers DEF Sound, Placed
    <3>2. member => r[2] <= pos[r[1]]
      BY <1>1, <2>1, <3>1, RecordNumbers
    <3>3. QED
      BY <2>1, <3>1, <3>2 DEF Lost
  <2>2. Cardinality(Gone) <= Cardinality(Lost) /\ Cardinality(Gone) \in Nat
    BY <2>1, LostFinite, FS_Subset, FS_CardinalityType
  <2>3. Open \in Nat /\ stops \in Nat
    BY <1>1 DEF Open, Sound, Shaped
  <2>4. Cardinality(Gone) <= stops
    BY <1>1, <2>2, <2>3, LostFinite DEF Charged
  <2>5. QED
    BY <2>4 DEF LostAtStops
<1>2. QED
  BY <1>1, ChargedInit, ChargedStep, SoundAlways, PTL DEF Spec
=============================================================================
