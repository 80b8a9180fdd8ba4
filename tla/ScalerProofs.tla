----------------------------- MODULE ScalerProofs -----------------------------
(***************************************************************************)
(* Proofs about Scaler, for every roster and all thresholds and intervals. *)
(*                                                                         *)
(* The inductive invariant is IInv: a model is loaded or on the list of    *)
(* evicted models and not both, and, as long as no operator forced a move, *)
(* the list is in eviction order with everything on it before everything   *)
(* loaded.  No grade enters the argument: what is evicted or restored      *)
(* depends on loaded and evicted alone, and the grades only decide when.   *)
(***************************************************************************)
EXTENDS Scaler, SequenceTheorems, FiniteSetTheorems, TLAPS

IInv == TypeOK /\ NoModelLost /\ SmallestLast

----------------------------------------------------------------------------
(* Lemmas about the list of evicted models. *)

\* What Append does to a sequence: its length, its entries, what it holds.
LEMMA AppendFacts ==
  ASSUME NEW S, NEW s \in Seq(S), NEW e \in S
  PROVE  /\ Append(s, e) \in Seq(S)
         /\ DOMAIN Append(s, e) = 1..(Len(s) + 1)
         /\ \A x \in DOMAIN s : Append(s, e)[x] = s[x]
         /\ Append(s, e)[Len(s) + 1] = e
         /\ ToSet(Append(s, e)) = ToSet(s) \cup {e}
<1>1. Append(s, e) \in Seq(S) /\ Len(Append(s, e)) = Len(s) + 1
  BY AppendProperties
<1>2. /\ \A x \in 1..Len(s) : Append(s, e)[x] = s[x]
      /\ Append(s, e)[Len(s) + 1] = e
  BY AppendProperties
<1>3. Len(s) \in Nat /\ DOMAIN s = 1..Len(s)
  BY LenProperties
<1>4. DOMAIN Append(s, e) = 1..(Len(s) + 1)
  BY <1>1, LenProperties
<1>5. ToSet(Append(s, e)) = ToSet(s) \cup {e}
  <2>1. ASSUME NEW x \in 1..(Len(s) + 1)
        PROVE  Append(s, e)[x] \in ToSet(s) \cup {e}
    <3>1. CASE x = Len(s) + 1
      BY <3>1, <1>2
    <3>2. CASE x # Len(s) + 1
      <4>1. x \in 1..Len(s)
        BY <3>2, <1>3
      <4> QED  BY <4>1, <1>2, <1>3 DEF ToSet
    <3> QED  BY <3>1, <3>2
  <2>2. ASSUME NEW x \in DOMAIN s
        PROVE  s[x] \in ToSet(Append(s, e))
    <3>1. x \in 1..(Len(s) + 1) /\ Append(s, e)[x] = s[x]
      BY <1>2, <1>3
    <3> QED  BY <3>1, <1>4 DEF ToSet
  <2>3. e \in ToSet(Append(s, e))
    <3>1. Len(s) + 1 \in 1..(Len(s) + 1)
      BY <1>3
    <3> QED  BY <3>1, <1>2, <1>4 DEF ToSet
  <2> QED  BY <2>1, <2>2, <2>3, <1>4 DEF ToSet
<1> QED  BY <1>1, <1>2, <1>3, <1>4, <1>5

\* Appending an entry a sequence does not hold keeps its entries distinct.
LEMMA AppendKeepsDistinct ==
  ASSUME NEW S, NEW s \in Seq(S), NEW e \in S, IsInjective(s), e \notin ToSet(s)
  PROVE  IsInjective(Append(s, e))
<1> DEFINE t == Append(s, e)
<1>1. DOMAIN s = 1..Len(s) /\ Len(s) \in Nat
  BY LenProperties
<1>2. /\ DOMAIN t = 1..(Len(s) + 1)
      /\ \A x \in DOMAIN s : t[x] = s[x]
      /\ t[Len(s) + 1] = e
  BY AppendFacts
<1> HIDE DEF t
<1>3. ASSUME NEW x \in DOMAIN t, NEW y \in DOMAIN t, t[x] = t[y]
      PROVE  x = y
  <2>1. CASE x \in DOMAIN s /\ y \in DOMAIN s
    BY <1>2, <1>3, <2>1 DEF IsInjective
  <2>2. CASE x = Len(s) + 1 /\ y \in DOMAIN s
    BY <1>2, <1>3, <2>2 DEF ToSet
  <2>3. CASE y = Len(s) + 1 /\ x \in DOMAIN s
    BY <1>2, <1>3, <2>3 DEF ToSet
  <2> QED  BY <1>1, <1>2, <2>1, <2>2, <2>3
<1>4. IsInjective(t)
  BY <1>3 DEF IsInjective
<1> QED  BY <1>4 DEF t

\* Without entry n: the entries before it in place, those after it one earlier.
LEMMA RemoveFacts ==
  ASSUME NEW S, NEW s \in Seq(S), NEW n \in DOMAIN s
  PROVE  /\ RemoveAt(s, n) \in Seq(S)
         /\ DOMAIN RemoveAt(s, n) = 1..(Len(s) - 1)
         /\ \A x \in 1..(Len(s) - 1) :
              RemoveAt(s, n)[x] = IF x < n THEN s[x] ELSE s[x + 1]
<1> DEFINE left  == SubSeq(s, 1, n - 1)
           right == SubSeq(s, n + 1, Len(s))
<1>1. Len(s) \in Nat /\ DOMAIN s = 1..Len(s) /\ n \in 1..Len(s)
  BY LenProperties
<1>2. \A x \in 1..Len(s) : s[x] \in S
  BY ElementOfSeq
<1>3. left \in Seq(S) /\ Len(left) = n - 1 /\ \A x \in 1..(n - 1) : left[x] = s[x]
  BY <1>1, <1>2, SubSeqProperties
<1>4. /\ right \in Seq(S)
      /\ Len(right) = Len(s) - n
      /\ \A x \in 1..(Len(s) - n) : right[x] = s[n + x]
  BY <1>1, <1>2, SubSeqProperties
<1>5. RemoveAt(s, n) = left \o right
  BY DEF RemoveAt
<1> HIDE DEF left, right
<1>6. Len(left) + Len(right) = Len(s) - 1 /\ Len(left) = n - 1
  BY <1>1, <1>3, <1>4
<1>7. /\ left \o right \in Seq(S)
      /\ Len(left \o right) = Len(left) + Len(right)
      /\ \A x \in 1..(Len(left) + Len(right)) : (left \o right)[x] =
            IF x <= Len(left) THEN left[x] ELSE right[x - Len(left)]
  BY <1>3, <1>4, ConcatProperties
<1>8. ASSUME NEW x \in 1..(Len(s) - 1)
      PROVE  (left \o right)[x] = IF x < n THEN s[x] ELSE s[x + 1]
  <2>1. (left \o right)[x] = IF x <= n - 1 THEN left[x] ELSE right[x - (n - 1)]
    BY <1>6, <1>7
  <2>2. CASE x < n
    BY <2>1, <2>2, <1>1, <1>3
  <2>3. CASE ~(x < n)
    <3> DEFINE y == x - (n - 1)
    <3>1. y \in 1..(Len(s) - n) /\ n + y = x + 1 /\ ~(x <= n - 1)
      BY <2>3, <1>1
    <3>2. (left \o right)[x] = right[y]
      BY <2>1, <3>1
    <3> HIDE DEF y
    <3> QED  BY <3>1, <3>2, <2>3, <1>4
  <2> QED  BY <2>2, <2>3
<1>9. DOMAIN (left \o right) = 1..(Len(s) - 1)
  BY <1>6, <1>7, LenProperties
<1> QED  BY <1>5, <1>7, <1>8, <1>9

\* Each remaining entry comes from another place of the list, in the same
\* order, and every place but n is the origin of one.
LEMMA RemoveOrigin ==
  ASSUME NEW S, NEW s \in Seq(S), NEW n \in DOMAIN s
  PROVE  \E origin \in [DOMAIN RemoveAt(s, n) -> DOMAIN s \ {n}] :
           /\ \A x \in DOMAIN RemoveAt(s, n) : RemoveAt(s, n)[x] = s[origin[x]]
           /\ \A x, y \in DOMAIN RemoveAt(s, n) : x < y => origin[x] < origin[y]
           /\ \A z \in DOMAIN s \ {n} : \E x \in DOMAIN RemoveAt(s, n) : origin[x] = z
<1> DEFINE t == RemoveAt(s, n)
           origin == [ x \in 1..(Len(s) - 1) |-> IF x < n THEN x ELSE x + 1 ]
<1>1. Len(s) \in Nat /\ DOMAIN s = 1..Len(s) /\ n \in 1..Len(s)
  BY LenProperties
<1>2. DOMAIN t = 1..(Len(s) - 1)
  BY RemoveFacts
<1>3. \A x \in 1..(Len(s) - 1) : t[x] = IF x < n THEN s[x] ELSE s[x + 1]
  BY RemoveFacts
<1> HIDE DEF t
<1>4. origin \in [DOMAIN t -> DOMAIN s \ {n}]
  BY <1>1, <1>2
<1>5. \A x \in DOMAIN t : t[x] = s[origin[x]]
  BY <1>2, <1>3
<1>6. \A x, y \in DOMAIN t : x < y => origin[x] < origin[y]
  BY <1>1, <1>2
<1>7. ASSUME NEW z \in DOMAIN s \ {n}
      PROVE  \E x \in DOMAIN t : origin[x] = z
  <2>1. CASE z < n
    <3>1. z \in DOMAIN t /\ origin[z] = z
      BY <2>1, <1>1, <1>2
    <3> QED  BY <3>1
  <2>2. CASE ~(z < n)
    <3>1. z - 1 \in DOMAIN t /\ origin[z - 1] = z
      BY <2>2, <1>1, <1>2
    <3> QED  BY <3>1
  <2> QED  BY <2>1, <2>2
<1> HIDE DEF origin
<1>8. \E f \in [DOMAIN t -> DOMAIN s \ {n}] :
           /\ \A x \in DOMAIN t : t[x] = s[f[x]]
           /\ \A x, y \in DOMAIN t : x < y => f[x] < f[y]
           /\ \A z \in DOMAIN s \ {n} : \E x \in DOMAIN t : f[x] = z
  BY <1>4, <1>5, <1>6, <1>7
<1> QED  BY <1>8 DEF t

\* Removing an entry of a list of distinct entries removes what it held.
LEMMA RemoveKeepsDistinct ==
  ASSUME NEW S, NEW s \in Seq(S), NEW n \in DOMAIN s, IsInjective(s)
  PROVE  /\ IsInjective(RemoveAt(s, n))
         /\ ToSet(RemoveAt(s, n)) = ToSet(s) \ {s[n]}
<1> DEFINE t == RemoveAt(s, n)
<1>1. PICK origin \in [DOMAIN t -> DOMAIN s \ {n}] :
           /\ \A x \in DOMAIN t : t[x] = s[origin[x]]
           /\ \A x, y \in DOMAIN t : x < y => origin[x] < origin[y]
           /\ \A z \in DOMAIN s \ {n} : \E x \in DOMAIN t : origin[x] = z
  BY RemoveOrigin
<1>2. DOMAIN s \subseteq Int /\ DOMAIN t \subseteq Int
  BY RemoveFacts, LenProperties
<1> HIDE DEF t
<1>3. ASSUME NEW x \in DOMAIN t, NEW y \in DOMAIN t, t[x] = t[y]
      PROVE  x = y
  <2>1. origin[x] = origin[y]
    BY <1>1, <1>3 DEF IsInjective
  <2>2. ~(x < y) /\ ~(y < x)
    BY <2>1, <1>1, <1>2
  <2> QED  BY <2>2, <1>2
<1>4. IsInjective(t)
  BY <1>3 DEF IsInjective
<1>5. ToSet(t) = ToSet(s) \ {s[n]}
  <2>1. ASSUME NEW x \in DOMAIN t
        PROVE  t[x] \in ToSet(s) \ {s[n]}
    BY <1>1 DEF ToSet, IsInjective
  <2>2. ASSUME NEW z \in DOMAIN s, s[z] # s[n]
        PROVE  s[z] \in ToSet(t)
    BY <1>1, <2>2 DEF ToSet
  <2> QED  BY <2>1, <2>2 DEF ToSet
<1> QED  BY <1>4, <1>5 DEF t

\* Popping the last entry is removing it at its place.
LEMMA FrontIsRemoval ==
  ASSUME NEW S, NEW s \in Seq(S), s # << >>
  PROVE  /\ Len(s) \in DOMAIN s
         /\ Last(s) = s[Len(s)]
         /\ Front(s) = RemoveAt(s, Len(s))
<1>1. Len(s) \in Nat \ {0} /\ DOMAIN s = 1..Len(s)
  BY EmptySeq, LenProperties
<1>2. \A x \in 1..Len(s) : s[x] \in S
  BY ElementOfSeq
<1>3. SubSeq(s, 1, Len(s) - 1) \in Seq(S)
  BY <1>1, <1>2, SubSeqProperties
<1>4. SubSeq(s, Len(s) + 1, Len(s)) = << >>
  BY <1>1, SubSeqEmpty
<1>5. RemoveAt(s, Len(s)) = SubSeq(s, 1, Len(s) - 1)
  BY <1>3, <1>4, ConcatEmptySeq DEF RemoveAt
<1> QED  BY <1>1, <1>5 DEF Last, Front

----------------------------------------------------------------------------
(* One model moves. *)

Partition(models, list) ==
  /\ models \in SUBSET Model /\ list \in Seq(Model)
  /\ models \cap ToSet(list) = {}
  /\ models \cup ToSet(list) = Model
  /\ IsInjective(list)

Sorted(models, list) ==
  /\ \A x, y \in DOMAIN list : x < y => Before(list[x], list[y])
  /\ \A x \in DOMAIN list : \A m \in models : Before(list[x], m)

LEMMA InvariantParts ==
  IInv <=> /\ TypeOK
           /\ Partition(loaded, evicted)
           /\ ~forced => Sorted(loaded, evicted)
BY DEF IInv, TypeOK, NoModelLost, SmallestLast, Partition, Sorted

\* Evicting a loaded model keeps the partition, whichever model it is.
LEMMA EvictionPartitions ==
  ASSUME NEW models, NEW list, NEW m \in models, Partition(models, list)
  PROVE  Partition(models \ {m}, Append(list, m))
<1>1. m \in Model /\ list \in Seq(Model) /\ m \notin ToSet(list)
  BY DEF Partition
<1>2. Append(list, m) \in Seq(Model) /\ ToSet(Append(list, m)) = ToSet(list) \cup {m}
  BY <1>1, AppendFacts
<1>3. IsInjective(Append(list, m))
  BY <1>1, AppendKeepsDistinct DEF Partition
<1> QED  BY <1>2, <1>3 DEF Partition

\* Evicting the first of the loaded models keeps the list sorted.
LEMMA EvictionSorts ==
  ASSUME NEW models, NEW list, NEW m \in models,
         Partition(models, list), Sorted(models, list),
         \A n \in models \ {m} : Before(m, n)
  PROVE  Sorted(models \ {m}, Append(list, m))
<1> DEFINE longer == Append(list, m)
<1>1. m \in Model /\ list \in Seq(Model)
  BY DEF Partition
<1>2. Len(list) \in Nat /\ DOMAIN list = 1..Len(list)
  BY <1>1, LenProperties
<1>3. /\ DOMAIN longer = 1..(Len(list) + 1)
      /\ \A x \in DOMAIN list : longer[x] = list[x]
      /\ longer[Len(list) + 1] = m
  BY <1>1, AppendFacts
<1> HIDE DEF longer
<1>4. ASSUME NEW x \in DOMAIN longer, NEW y \in DOMAIN longer, x < y
      PROVE  Before(longer[x], longer[y])
  <2>1. x \in DOMAIN list
    BY <1>2, <1>3, <1>4
  <2>2. CASE y \in DOMAIN list
    BY <1>3, <1>4, <2>1, <2>2 DEF Sorted
  <2>3. CASE y = Len(list) + 1
    BY <1>3, <2>1, <2>3 DEF Sorted
  <2> QED  BY <1>2, <1>3, <2>2, <2>3
<1>5. ASSUME NEW x \in DOMAIN longer, NEW n \in models \ {m}
      PROVE  Before(longer[x], n)
  <2>1. CASE x \in DOMAIN list
    BY <1>3, <2>1 DEF Sorted
  <2>2. CASE x = Len(list) + 1
    BY <1>3, <2>2
  <2> QED  BY <1>2, <1>3, <2>1, <2>2
<1>6. Sorted(models \ {m}, longer)
  BY <1>4, <1>5 DEF Sorted
<1> QED  BY <1>6 DEF longer

\* Restoring an evicted model keeps the partition, wherever it is on the list.
LEMMA RestorationPartitions ==
  ASSUME NEW models, NEW list, NEW n \in DOMAIN list, Partition(models, list)
  PROVE  Partition(models \cup {list[n]}, RemoveAt(list, n))
<1>1. list \in Seq(Model) /\ IsInjective(list)
  BY DEF Partition
<1>2. RemoveAt(list, n) \in Seq(Model)
  BY <1>1, RemoveFacts
<1>3. /\ IsInjective(RemoveAt(list, n))
      /\ ToSet(RemoveAt(list, n)) = ToSet(list) \ {list[n]}
  BY <1>1, RemoveKeepsDistinct
<1>4. list[n] \in ToSet(list)
  BY DEF ToSet
<1> QED  BY <1>2, <1>3, <1>4 DEF Partition

\* Restoring the model evicted last keeps the list sorted.
LEMMA RestorationSorts ==
  ASSUME NEW models, NEW list, list # << >>,
         Partition(models, list), Sorted(models, list)
  PROVE  Sorted(models \cup {Last(list)}, Front(list))
<1> DEFINE n == Len(list)
           shorter == RemoveAt(list, n)
<1>1. list \in Seq(Model)
  BY DEF Partition
<1>2. n \in DOMAIN list /\ Last(list) = list[n] /\ Front(list) = shorter
  BY <1>1, FrontIsRemoval
<1>3. n \in Nat /\ DOMAIN list = 1..n
  BY <1>1, LenProperties
<1>4. DOMAIN shorter = 1..(n - 1)
  BY <1>1, <1>2, RemoveFacts
<1>5. \A x \in 1..(n - 1) : shorter[x] = IF x < n THEN list[x] ELSE list[x + 1]
  BY <1>1, <1>2, RemoveFacts
<1> HIDE DEF n, shorter
<1>6. \A x \in DOMAIN shorter : x \in DOMAIN list /\ x < n /\ shorter[x] = list[x]
  BY <1>3, <1>4, <1>5
<1>7. Sorted(models \cup {list[n]}, shorter)
  BY <1>2, <1>6 DEF Sorted
<1> QED  BY <1>2, <1>7

----------------------------------------------------------------------------
(* The actions. *)

LEMMA InitIInv == Init => IInv
<1> SUFFICES ASSUME Init
             PROVE  IInv
  OBVIOUS
<1>1. TypeOK
  <2>1. 0 \in Nat /\ MinShed \in 0..MinShed /\ MinRestore \in 0..MinRestore
    BY ScalerAssumption
  <2>2. evicted \in Seq(Model)
    BY EmptySeq DEF Init
  <2> QED  BY <2>1, <2>2 DEF Init, TypeOK
<1>2. DOMAIN evicted = {}
  <2>1. evicted \in Seq(Model) /\ Len(evicted) = 0
    BY EmptySeq DEF Init
  <2> QED  BY <2>1, LenProperties
<1>3. Partition(loaded, evicted)
  BY <1>1, <1>2 DEF Partition, Init, ToSet, IsInjective, TypeOK
<1>4. Sorted(loaded, evicted)
  BY <1>2 DEF Sorted
<1> QED  BY <1>1, <1>3, <1>4, InvariantParts

LEMMA EvictNextIInv ==
  ASSUME IInv, EvictNext, UNCHANGED <<restoreAge, measured, forced>>
  PROVE  IInv'
<1>1. PICK m \in loaded : /\ \A n \in loaded \ {m} : Before(m, n)
                         /\ loaded'  = loaded \ {m}
                         /\ evicted' = Append(evicted, m)
                         /\ shedAge' = 0
  BY DEF EvictNext
<1>2. TypeOK /\ Partition(loaded, evicted) /\ (~forced => Sorted(loaded, evicted))
  BY InvariantParts
<1>3. Partition(loaded, evicted)'
  BY <1>1, <1>2, EvictionPartitions
<1>4. (~forced => Sorted(loaded, evicted))'
  BY <1>1, <1>2, EvictionSorts
<1>5. TypeOK'
  <2>1. loaded' \in SUBSET Model /\ evicted' \in Seq(Model)
    BY <1>3 DEF Partition
  <2>2. shedAge' \in 0..MinShed
    BY <1>1, ScalerAssumption
  <2> QED  BY <2>1, <2>2, <1>2 DEF TypeOK
<1> QED  BY <1>3, <1>4, <1>5 DEF IInv, TypeOK, NoModelLost, SmallestLast, Partition, Sorted

LEMMA RestoreNextIInv ==
  ASSUME IInv, RestoreNext, UNCHANGED <<shedAge, measured, forced>>
  PROVE  IInv'
<1>1. TypeOK /\ Partition(loaded, evicted) /\ (~forced => Sorted(loaded, evicted))
  BY InvariantParts
<1>2. /\ Len(evicted) \in DOMAIN evicted
      /\ Last(evicted) = evicted[Len(evicted)]
      /\ Front(evicted) = RemoveAt(evicted, Len(evicted))
  BY FrontIsRemoval DEF RestoreNext, IInv, TypeOK
<1>3. Partition(loaded \cup {Last(evicted)}, Front(evicted))
  BY <1>1, <1>2, RestorationPartitions
<1>4. ~forced => Sorted(loaded \cup {Last(evicted)}, Front(evicted))
  BY <1>1, RestorationSorts DEF RestoreNext
<1>5. Partition(loaded, evicted)' /\ (~forced => Sorted(loaded, evicted))'
  BY <1>3, <1>4 DEF RestoreNext
<1>6. TypeOK'
  <2>1. loaded' \in SUBSET Model /\ evicted' \in Seq(Model)
    BY <1>5 DEF Partition
  <2>2. restoreAge' \in 0..MinRestore
    BY ScalerAssumption DEF RestoreNext
  <2> QED  BY <2>1, <2>2, <1>1 DEF TypeOK
<1> QED  BY <1>5, <1>6 DEF IInv, TypeOK, NoModelLost, SmallestLast, Partition, Sorted

LEMMA ForceEvictIInv ==
  ASSUME IInv, NEW m \in Model, ForceEvict(m)
  PROVE  IInv'
<1>1. TypeOK /\ Partition(loaded, evicted)
  BY InvariantParts
<1>2. m \in loaded /\ loaded' = loaded \ {m} /\ evicted' = Append(evicted, m) /\ forced'
  BY DEF ForceEvict
<1>3. Partition(loaded, evicted)'
  BY <1>1, <1>2, EvictionPartitions
<1>4. TypeOK'
  BY <1>1, <1>3 DEF TypeOK, Partition, ForceEvict
<1> QED  BY <1>2, <1>3, <1>4 DEF IInv, NoModelLost, SmallestLast, Partition

LEMMA ForceRestoreIInv ==
  ASSUME IInv, NEW m \in Model, ForceRestore(m)
  PROVE  IInv'
<1>1. TypeOK /\ Partition(loaded, evicted)
  BY InvariantParts
<1>2. PICK n \in DOMAIN evicted : evicted[n] = m /\ evicted' = RemoveAt(evicted, n)
  BY DEF ForceRestore
<1>3. loaded' = loaded \cup {evicted[n]} /\ forced'
  BY <1>2 DEF ForceRestore
<1>4. Partition(loaded, evicted)'
  BY <1>1, <1>2, <1>3, RestorationPartitions
<1>5. TypeOK'
  BY <1>1, <1>4 DEF TypeOK, Partition, ForceRestore
<1> QED  BY <1>3, <1>4, <1>5 DEF IInv, NoModelLost, SmallestLast, Partition

\* Observations evict, restore or hold; the other actions leave the models be.
LEMMA NextIInv == IInv /\ [Next]_vars => IInv'
<1> SUFFICES ASSUME IInv, [Next]_vars
             PROVE  IInv'
  OBVIOUS
<1> USE DEF vars
<1>1. CASE Observe
  <2>1. CASE RestoreNext /\ UNCHANGED <<shedAge, measured, forced>>
    BY <2>1, RestoreNextIInv
  <2>2. CASE EvictNext /\ UNCHANGED <<restoreAge, measured, forced>>
    BY <2>2, EvictNextIInv
  <2>3. CASE UNCHANGED <<loaded, evicted, shedAge, restoreAge, measured, forced>>
    BY <2>3 DEF IInv, TypeOK, NoModelLost, SmallestLast
  <2> QED  BY <1>1, <2>1, <2>2, <2>3 DEF Observe
<1>2. CASE \E m \in Model : ForceEvict(m)
  BY <1>2, ForceEvictIInv
<1>3. CASE \E m \in Model : ForceRestore(m)
  BY <1>3, ForceRestoreIInv
<1>4. CASE Tick
  <2>1. shedAge' \in 0..MinShed /\ restoreAge' \in 0..MinRestore
    BY <1>4, ScalerAssumption DEF IInv, TypeOK, Tick
  <2> QED  BY <2>1, <1>4 DEF IInv, TypeOK, NoModelLost, SmallestLast, Tick
<1>5. CASE \E reds \in Reds, yellows \in Yellows : Pressure(reds, yellows)
  BY <1>5 DEF IInv, TypeOK, NoModelLost, SmallestLast, Pressure
<1>6. CASE UNCHANGED vars
  BY <1>6 DEF IInv, TypeOK, NoModelLost, SmallestLast
<1> QED  BY <1>1, <1>2, <1>3, <1>4, <1>5, <1>6 DEF Next

----------------------------------------------------------------------------
(* Theorems *)

\* In every reachable state each variable of the scaler has its type.
THEOREM ScalerTypeCorrect == Spec => []TypeOK
<1>1. IInv => TypeOK
  BY DEF IInv
<1> QED  BY <1>1, InitIInv, NextIInv, PTL DEF Spec

\* No mix of observations and forced moves loses a model of the roster, lists
\* one twice, or has one both loaded and evicted.
THEOREM NoModelLostCorrect == Spec => []NoModelLost
<1>1. IInv => NoModelLost
  BY DEF IInv
<1> QED  BY <1>1, InitIInv, NextIInv, PTL DEF Spec

\* While no operator forces a move, the list of evicted models is sorted largest
\* first and its last entry, the next to be restored, is the smallest: for every
\* roster, all thresholds and all intervals.
THEOREM SmallestLastCorrect == Spec => []SmallestLast
<1>1. IInv => SmallestLast
  BY DEF IInv
<1> QED  BY <1>1, InitIInv, NextIInv, PTL DEF Spec

\* The action under the box of Paced.
PacedStep ==
  ~forced' =>
     /\ Cardinality(loaded \ loaded') + Cardinality(loaded' \ loaded) <= 1
     /\ loaded \ loaded' # {} => shedAge = MinShed /\ shedAge' = 0
     /\ loaded' \ loaded # {} => restoreAge = MinRestore /\ restoreAge' = 0

LEMMA SmallDifference ==
  ASSUME NEW m, NEW models, models \subseteq {m}
  PROVE  Cardinality(models) \in 0..1
<1>1. models = {} \/ models = {m}
  OBVIOUS
<1> QED  BY <1>1, FS_EmptySet, FS_Singleton

LEMMA NextPaced == IInv /\ [Next]_vars => PacedStep
<1> SUFFICES ASSUME IInv, [Next]_vars
             PROVE  PacedStep
  OBVIOUS
<1>1. shedAge \in 0..MinShed /\ restoreAge \in 0..MinRestore
  BY DEF IInv, TypeOK
<1>2. MinShed \in Nat /\ MinRestore \in Nat
  BY ScalerAssumption
<1>3. CASE Restoring(ActionFor(measured[1], measured[2])) /\ RestoreNext
  <2>1. restoreAge = MinRestore /\ restoreAge' = 0
    BY <1>1, <1>2, <1>3 DEF Restoring, RestoreNext
  <2>2. loaded \ loaded' = {} /\ loaded' \ loaded \subseteq {Last(evicted)}
    BY <1>3 DEF RestoreNext
  <2>3. Cardinality(loaded \ loaded') = 0 /\ Cardinality(loaded' \ loaded) \in 0..1
    BY <2>2, SmallDifference, FS_EmptySet
  <2>4. Cardinality(loaded \ loaded') + Cardinality(loaded' \ loaded) <= 1
    BY <2>3
  <2> QED  BY <2>1, <2>2, <2>4 DEF PacedStep
<1>4. CASE Shedding(ActionFor(measured[1], measured[2])) /\ EvictNext
  <2>1. PICK m \in loaded : loaded' = loaded \ {m} /\ shedAge' = 0
    BY <1>4 DEF EvictNext
  <2>2. shedAge = MinShed
    BY <1>1, <1>2, <1>4 DEF Shedding
  <2>3. loaded' \ loaded = {} /\ loaded \ loaded' \subseteq {m}
    BY <2>1
  <2>4. Cardinality(loaded' \ loaded) = 0 /\ Cardinality(loaded \ loaded') \in 0..1
    BY <2>3, SmallDifference, FS_EmptySet
  <2>5. Cardinality(loaded \ loaded') + Cardinality(loaded' \ loaded) <= 1
    BY <2>4
  <2> QED  BY <2>1, <2>2, <2>3, <2>5 DEF PacedStep
<1>5. CASE loaded' = loaded
  <2>1. loaded \ loaded' = {} /\ loaded' \ loaded = {}
    BY <1>5
  <2>2. Cardinality(loaded \ loaded') + Cardinality(loaded' \ loaded) <= 1
    BY <2>1, FS_EmptySet
  <2> QED  BY <2>1, <2>2 DEF PacedStep
<1>6. CASE forced'
  BY <1>6 DEF PacedStep
<1> QED
  BY <1>3, <1>4, <1>5, <1>6
  DEF Next, vars, Observe, ForceEvict, ForceRestore, Tick, Pressure

\* Unforced, a step moves at most one model; evictions by pressure are at least
\* MinShed apart and restorations at least MinRestore.
THEOREM PacedCorrect == Spec => Paced
<1>1. [Next]_vars /\ IInv => [PacedStep]_vars
  BY NextPaced
<1> QED  BY <1>1, InitIInv, NextIInv, PTL DEF Spec, Paced, PacedStep

=============================================================================
