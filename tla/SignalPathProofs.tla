-------------------------- MODULE SignalPathProofs --------------------------
(***************************************************************************)
(* Invariance proofs about SignalPath, for any resources, scenes, windows  *)
(* and thresholds: what a dropped signal repeats, when one is kept twice,  *)
(* and that severe signals open incidents.                                 *)
(***************************************************************************)
EXTENDS SignalPath, SequenceTheorems, FiniteSetTheorems, TLAPS

----------------------------------------------------------------------------
(* The types *)

Source   == {"openshift", "alertmanager", "splunk", "webhook", "integration", "injected"}
Emission == [ res : Resource, type : SignalType, at : Nat, source : Source ]
Out      == {"absent", "duplicate", "transient", "dampened", "kept", "noise"}
Outcome  == [ out : Out, at : Int, raced : BOOLEAN ]
Count    == [ path : Path, signal : Nat, at : Int ]

Types == UNION { scene.types[r] : r \in Resource }

Shaped ==
  /\ scene \in Scene /\ clock \in 0..MaxTime
  /\ seen \in [Resource -> SUBSET SignalType]
  /\ emitted \in Seq(Emission)
  /\ busy \in [Path -> [at : Int]]
  /\ fate \in [Path -> Seq(Outcome)]
  /\ DOMAIN deduped = Resource /\ \A r \in Resource : DOMAIN deduped[r] = scene.types[r]
  /\ DOMAIN transient = Resource
  /\ \A r \in Resource : DOMAIN transient[r] = scene.types[r] \intersect TransientTypes
  /\ DOMAIN fired = Types /\ \A t \in Types : fired[t] \subseteq Count
  /\ DOMAIN window = Types
  /\ DOMAIN buffer = Live

\* A path that has tested a signal works on one that was collected, at its own time.
Turns ==
  \A p \in Path : busy[p] # Idle =>
    /\ busy[p].at >= 0 /\ Turn(p) <= Len(emitted)
    /\ p = "session" => busy[p].at = emitted[Turn(p)].at
    /\ p = "worker" => busy[p].at >= emitted[Turn(p)].at /\ Published(emitted[Turn(p)])

\* A signal is counted once by each path that has decided on it.
CountedOnce ==
  \A t \in DOMAIN fired :
    /\ \A f \in fired[t] : f.signal \in 1..Len(fate[f.path])
    /\ \A f, g \in fired[t] : f.path = g.path /\ f.signal = g.signal => f = g

Typed == Shaped /\ TypeOK /\ Turns /\ CountedOnce

----------------------------------------------------------------------------
(* Operators *)

LEMMA Constants ==
  /\ DedupeWindow \in Nat /\ MaxWindow \in Nat /\ TransientWindow \in Nat /\ DampenWindow \in Nat
  /\ DedupeWindow > 0 /\ TransientWindow > 0 /\ DedupeWindow <= MaxWindow
  /\ DampenThreshold \in Nat /\ MinThreshold \in Nat /\ MinThreshold <= DampenThreshold
  /\ MaxTime \in Nat /\ DeepSignals \in Nat /\ Never \in Int /\ Never < 0 /\ Never = -1
BY SignalPathAssumption DEF Never

LEMMA AppendForm ==
  ASSUME NEW S, NEW s \in Seq(S), NEW e \in S
  PROVE  /\ Append(s, e) \in Seq(S)
         /\ Len(s) \in Nat /\ Len(Append(s, e)) = Len(s) + 1
         /\ DOMAIN s = 1..Len(s) /\ DOMAIN Append(s, e) = 1..Len(s) + 1
         /\ \A i \in DOMAIN s : Append(s, e)[i] = s[i]
         /\ Append(s, e)[Len(s) + 1] = e
BY AppendProperties, LenProperties

\* A signal collected, and where the agents keep what they know of its key.
LEMMA EmittedForm ==
  ASSUME Typed, NEW i \in DOMAIN emitted
  PROVE  /\ emitted[i] \in Emission /\ emitted[i].res \in Resource
         /\ emitted[i].type \in scene.types[emitted[i].res]
         /\ emitted[i].type \in Types /\ emitted[i].type \in SignalType
         /\ emitted[i].at \in Nat /\ emitted[i].at <= clock /\ emitted[i].source \in Source
         /\ i \in Nat
<1>1. emitted[i] \in Emission /\ i \in Nat
  BY ElementOfSeq, LenProperties DEF Typed, Shaped
<1>2. emitted[i].type \in scene.types[emitted[i].res] /\ emitted[i].at <= clock
  BY DEF Typed, TypeOK
<1>3. QED
  BY <1>1, <1>2 DEF Emission, Types

LEMMA MemoryForm ==
  ASSUME Typed, NEW r \in Resource, NEW t \in scene.types[r]
  PROVE  /\ deduped[r][t] \in Int /\ deduped[r][t] \in Never..clock
         /\ t \in TransientTypes => transient[r][t] \in Int /\ transient[r][t] \in Never..clock
         /\ t \in Types /\ window[t] \in Nat /\ window[t] >= DedupeWindow /\ window[t] <= MaxWindow
<1>1. t \in Types
  BY DEF Types
<1>2. window[t] \in DedupeWindow..MaxWindow /\ clock \in Nat
  BY <1>1, Constants DEF Typed, Shaped, TypeOK
<1>3. deduped[r][t] \in Never..clock
  BY DEF Typed, TypeOK
<1>4. t \in TransientTypes => transient[r][t] \in Never..clock
  BY DEF Typed, Shaped, TypeOK
<1>5. QED
  BY <1>1, <1>2, <1>3, <1>4, Constants

LEMMA FateForm ==
  ASSUME Typed, NEW p \in Path
  PROVE  /\ fate[p] \in Seq(Outcome) /\ Len(fate[p]) \in Nat /\ DOMAIN fate[p] = 1..Len(fate[p])
         /\ Len(emitted) \in Nat /\ DOMAIN emitted = 1..Len(emitted)
         /\ Len(fate[p]) <= Len(emitted)
         /\ Turn(p) \in Nat /\ Turn(p) = Len(fate[p]) + 1
         /\ \A i \in DOMAIN fate[p] : fate[p][i] \in Outcome /\ i \in DOMAIN emitted
<1>1. fate[p] \in Seq(Outcome) /\ emitted \in Seq(Emission) /\ Len(fate[p]) <= Len(emitted)
  BY DEF Typed, Shaped, TypeOK
<1>2. /\ Len(fate[p]) \in Nat /\ DOMAIN fate[p] = 1..Len(fate[p])
      /\ Len(emitted) \in Nat /\ DOMAIN emitted = 1..Len(emitted)
      /\ \A i \in DOMAIN fate[p] : fate[p][i] \in Outcome
  BY <1>1, LenProperties, ElementOfSeq
<1>3. QED
  BY <1>1, <1>2 DEF Turn

----------------------------------------------------------------------------
(* What each step does *)

\* Path p decides outcome o of its next signal; nothing else is decided.
Gains(p, o) ==
  /\ fate' \in [Path -> Seq(Outcome)]
  /\ \A q \in Path \ {p} : fate'[q] = fate[q]
  /\ Len(fate'[p]) = Turn(p) /\ DOMAIN fate'[p] = 1..Turn(p)
  /\ fate'[p][Turn(p)] = o
  /\ \A j \in DOMAIN fate[p] : fate'[p][j] = fate[p][j]

LEMMA DecideForm ==
  ASSUME Typed, NEW p \in Path, NEW out \in Out, NEW at \in Int, NEW raced \in BOOLEAN,
         Decide(p, out, at, raced)
  PROVE  \E o \in Outcome : o.out = out /\ o.at = at /\ o.raced = raced /\ Gains(p, o)
<1> DEFINE o == [out |-> out, at |-> at, raced |-> raced]
           longer == Append(fate[p], o)
<1>1. o \in Outcome /\ o.out = out /\ o.at = at /\ o.raced = raced
  BY DEF Outcome
<1>2. fate' = [fate EXCEPT ![p] = longer]
  BY DEF Decide
<1> HIDE DEF o
<1>3. fate[p] \in Seq(Outcome) /\ Turn(p) = Len(fate[p]) + 1
  BY FateForm
<1>4. /\ longer \in Seq(Outcome) /\ Len(longer) = Turn(p) /\ DOMAIN longer = 1..Turn(p)
      /\ longer[Turn(p)] = o /\ \A j \in DOMAIN fate[p] : longer[j] = fate[p][j]
  BY <1>1, <1>3, AppendForm
<1> HIDE DEF longer
<1>5. fate \in [Path -> Seq(Outcome)]
  BY DEF Typed, Shaped
<1>6. Gains(p, o)
  BY <1>2, <1>4, <1>5 DEF Gains
<1>7. QED
  BY <1>1, <1>6

LEMMA EmitForm ==
  ASSUME Typed, NEW r \in Resource, NEW t \in scene.types[r], NEW source \in Source,
         Emit(r, t, source)
  PROVE  /\ \E e \in Emission : /\ e.res = r /\ e.type = t /\ e.at = clock /\ e.source = source
                                /\ emitted' = Append(emitted, e)
         /\ Len(emitted) < scene.signals
         /\ UNCHANGED <<scene, clock, busy, fate, agents, buffer>>
<1>1. clock \in Nat /\ t \in SignalType
  BY Constants, SignalPathAssumption DEF Typed, Shaped
<1> DEFINE e == [res |-> r, type |-> t, at |-> clock, source |-> source]
<1>2. e \in Emission /\ e.res = r /\ e.type = t /\ e.at = clock /\ e.source = source
  BY <1>1 DEF Emission
<1>3. emitted' = Append(emitted, e)
  BY DEF Emit
<1> HIDE DEF e
<1>4. QED
  BY <1>2, <1>3 DEF Emit

LEMMA CollectForm ==
  ASSUME Typed, NEW r \in Resource, NEW t \in scene.types[r], Collect(r, t)
  PROVE  /\ \E e \in Emission : /\ e.res = r /\ e.type = t /\ e.at = clock
                                /\ emitted' = Append(emitted, e)
         /\ Len(emitted) < scene.signals
         /\ seen' \in {seen, [seen EXCEPT ![r] = {t}], [seen EXCEPT ![r] = @ \union {t}]}
         /\ UNCHANGED <<scene, clock, busy, fate, agents, buffer>>
<1>1. \E source \in Source : Emit(r, t, source)
  BY DEF Collect, Condition, KubernetesEvent, FiringAlert, FiredSearch, SplunkWebhook,
         IntegrationEvent, InjectSignal, Source
<1>2. seen' \in {seen, [seen EXCEPT ![r] = {t}], [seen EXCEPT ![r] = @ \union {t}]}
  BY DEF Collect, Condition, KubernetesEvent, FiringAlert, FiredSearch, SplunkWebhook,
         IntegrationEvent, InjectSignal
<1>3. QED
  BY <1>1, <1>2, EmitForm

LEMMA IdleForm ==
  ASSUME Typed, NEW p \in Path
  PROVE  /\ busy[p] \in [at : Int] /\ busy[p].at \in Never..clock
         /\ Idle \in [at : Int] /\ Idle.at = Never
         /\ busy[p] # Idle => busy[p].at \in Nat
<1>1. busy[p] \in [at : Int] /\ busy[p].at \in Never..clock
  BY DEF Typed, Shaped, TypeOK
<1>2. Idle \in [at : Int] /\ Idle.at = Never
  BY Constants DEF Idle
<1>3. busy[p] # Idle => busy[p].at >= 0
  BY DEF Typed, Turns
<1>4. QED
  BY <1>1, <1>2, <1>3

LEMMA AbsentForm ==
  ASSUME Typed, NEW p \in Path, Absent(p)
  PROVE  /\ \E o \in Outcome : Gains(p, o) /\ o.out = "absent" /\ o.at = Never /\ ~o.raced
         /\ p # "session" /\ Turn(p) <= Len(emitted) /\ busy[p] = Idle
         /\ UNCHANGED <<scene, clock, seen, emitted, busy, agents, buffer>>
<1>1. PICK raced \in BOOLEAN, at \in Int : raced = FALSE /\ at = Never
  BY Constants
<1>2. Decide(p, "absent", at, raced) /\ "absent" \in Out
  BY <1>1 DEF Absent, Out
<1>3. \E o \in Outcome : o.out = "absent" /\ o.at = at /\ o.raced = raced /\ Gains(p, o)
  BY <1>2, DecideForm
<1>4. QED
  BY <1>1, <1>3 DEF Absent

\* Test finds a duplicate, or notes the time of the signal.
LEMMA TestForm ==
  ASSUME Typed, NEW p \in Path, Test(p)
  PROVE  /\ busy[p] = Idle /\ Turn(p) \in DOMAIN emitted
         /\ \E at \in Nat :
              /\ at <= clock
              /\ p = "session" => at = emitted[Turn(p)].at
              /\ p = "worker" => at >= emitted[Turn(p)].at /\ Published(emitted[Turn(p)])
              /\ p # "session" => at = clock
              /\ \/ /\ Duplicate(emitted[Turn(p)], at) /\ busy' = busy
                    /\ \E o \in Outcome : /\ Gains(p, o) /\ o.out = "duplicate"
                                          /\ o.at = at /\ ~o.raced
                 \/ busy' = [busy EXCEPT ![p] = [at |-> at]] /\ fate' = fate
         /\ UNCHANGED <<scene, clock, seen, emitted, agents, buffer>>
<1>1. Turn(p) \in DOMAIN emitted /\ Turn(p) <= Len(emitted)
  BY FateForm DEF Test
<1>2. emitted[Turn(p)].at \in Nat /\ emitted[Turn(p)].at <= clock /\ clock \in Nat
  BY <1>1, EmittedForm, Constants DEF Typed, Shaped
<1>3. PICK at \in Nat : at = IF p = "session" THEN emitted[Turn(p)].at ELSE clock
  BY <1>2
<1>4. \/ /\ Duplicate(emitted[Turn(p)], at) /\ busy' = busy
         /\ Decide(p, "duplicate", at, FALSE)
      \/ busy' = [busy EXCEPT ![p] = [at |-> at]] /\ fate' = fate
  BY <1>3 DEF Test
<1>5. Decide(p, "duplicate", at, FALSE)
        => \E o \in Outcome : Gains(p, o) /\ o.out = "duplicate" /\ o.at = at /\ ~o.raced
  <2>1. PICK raced \in BOOLEAN : raced = FALSE
    OBVIOUS
  <2>2. "duplicate" \in Out /\ at \in Int
    BY DEF Out
  <2>3. Decide(p, "duplicate", at, raced)
          => \E o \in Outcome : /\ o.out = "duplicate" /\ o.at = at /\ o.raced = raced
                               /\ Gains(p, o)
    BY <2>2, DecideForm
  <2>4. QED
    BY <2>1, <2>3
<1>6. /\ at <= clock /\ (p # "session" => at = clock)
      /\ p = "session" => at = emitted[Turn(p)].at
      /\ p = "worker" => at >= emitted[Turn(p)].at /\ Published(emitted[Turn(p)])
  BY <1>2, <1>3 DEF Test
<1>7. busy[p] = Idle /\ UNCHANGED <<scene, clock, seen, emitted, agents, buffer>>
  BY DEF Test
<1>8. QED
  BY <1>1, <1>4, <1>5, <1>6, <1>7

LEMMA JudgeForm ==
  ASSUME Typed, NEW p \in Path, Judge(p), NEW i, i = Turn(p)
  PROVE  /\ i \in DOMAIN emitted /\ busy[p] # Idle /\ busy[p].at \in Nat
         /\ busy' = [busy EXCEPT ![p] = Idle]
         /\ deduped' = IF emitted[i].source \notin RandomCluster
                       THEN [deduped EXCEPT ![emitted[i].res][emitted[i].type] = busy[p].at]
                       ELSE deduped
         /\ \E o \in Outcome :
              /\ Gains(p, o) /\ o.at = busy[p].at /\ (o.raced <=> Duplicate(emitted[i], busy[p].at))
              /\ \/ /\ o.out = "transient" /\ Transient(emitted[i], busy[p].at)
                    /\ UNCHANGED <<transient, fired, buffer>>
                 \/ /\ o.out \in {"dampened", "kept", "noise"}
                    /\ o.out = "noise" => ~RoutedOn(SeenBy(p, i))
                    /\ fired' = [fired EXCEPT ![emitted[i].type] = Firing(p, emitted[i], busy[p].at)]
                    /\ transient' = IF /\ emitted[i].source \notin RandomCluster
                                       /\ emitted[i].type \in TransientTypes
                                    THEN [transient EXCEPT ![emitted[i].res][emitted[i].type] = busy[p].at]
                                    ELSE transient
                    /\ IF o.out = "kept" THEN Keep(p, i) ELSE UNCHANGED buffer
         /\ UNCHANGED <<scene, clock, seen, emitted, profile>>
<1>1. busy[p] # Idle /\ busy[p].at \in Nat
  BY IdleForm DEF Judge
<1>2. i \in DOMAIN emitted
  BY <1>1, FateForm DEF Typed, Turns
<1> DEFINE raced == Duplicate(emitted[i], busy[p].at)
           out   == IF Cardinality(Firing(p, emitted[i], busy[p].at)) > threshold THEN "dampened"
                    ELSE IF RoutedOn(SeenBy(p, i)) THEN "kept" ELSE "noise"
<1>3. /\ busy' = [busy EXCEPT ![p] = Idle]
      /\ deduped' = IF emitted[i].source \notin RandomCluster
                    THEN [deduped EXCEPT ![emitted[i].res][emitted[i].type] = busy[p].at]
                    ELSE deduped
      /\ UNCHANGED <<scene, clock, seen, emitted, profile>>
  BY DEF Judge
<1>4. raced \in BOOLEAN
  BY DEF Duplicate
<1>5. CASE Transient(emitted[i], busy[p].at)
  <2>1. Decide(p, "transient", busy[p].at, raced) /\ UNCHANGED <<transient, fired, buffer>>
    BY <1>5 DEF Judge
  <2> HIDE DEF raced
  <2>2. "transient" \in Out /\ busy[p].at \in Int
    BY <1>1 DEF Out
  <2>3. \E o \in Outcome : /\ o.out = "transient" /\ o.at = busy[p].at /\ o.raced = raced
                           /\ Gains(p, o)
    BY <1>4, <2>1, <2>2, DecideForm
  <2>4. QED
    BY <1>1, <1>2, <1>3, <1>5, <2>1, <2>3 DEF raced
<1>6. CASE ~Transient(emitted[i], busy[p].at)
  <2>1. /\ Decide(p, out, busy[p].at, raced)
        /\ fired' = [fired EXCEPT ![emitted[i].type] = Firing(p, emitted[i], busy[p].at)]
        /\ transient' = IF /\ emitted[i].source \notin RandomCluster
                           /\ emitted[i].type \in TransientTypes
                        THEN [transient EXCEPT ![emitted[i].res][emitted[i].type] = busy[p].at]
                        ELSE transient
        /\ IF out = "kept" THEN Keep(p, i) ELSE UNCHANGED buffer
    BY <1>6 DEF Judge
  <2>2. /\ out \in {"dampened", "kept", "noise"}
        /\ out = "noise" => ~RoutedOn(SeenBy(p, i))
    OBVIOUS
  <2> HIDE DEF raced, out
  <2>3. out \in Out /\ busy[p].at \in Int
    BY <1>1, <2>2 DEF Out
  <2>4. \E o \in Outcome : o.out = out /\ o.at = busy[p].at /\ o.raced = raced /\ Gains(p, o)
    BY <1>4, <2>1, <2>3, DecideForm
  <2>5. QED
    BY <1>1, <1>2, <1>3, <2>1, <2>2, <2>4 DEF raced
<1>7. QED
  BY <1>5, <1>6

----------------------------------------------------------------------------
(* Types and bounds hold *)

\* Signals counted once by each path are at most as many as paths and signals.
LEMMA CountBound ==
  ASSUME NEW n \in Nat, NEW S, S \subseteq Count, \A f \in S : f.signal \in 1..n,
         \A f, g \in S : f.path = g.path /\ f.signal = g.signal => f = g
  PROVE  IsFiniteSet(S) /\ Cardinality(S) <= 3 * n
<1> DEFINE place == [f \in S |-> <<f.path, f.signal>>]
           T     == Path \X (1..n)
<1>1. place \in [S -> T]
  BY DEF Count
<1>2. \A f, g \in S : place[f] = place[g] => f = g
  OBVIOUS
<1>3. place \in Injection(S, T)
  BY <1>1, <1>2 DEF Injection, IsInjective
<1>4. IsFiniteSet(Path) /\ Cardinality(Path) = 3
  <2>1. IsFiniteSet({"session"}) /\ Cardinality({"session"}) = 1
    BY FS_Singleton
  <2>2. {"session"} \union {"worker"} = Live /\ "worker" \notin {"session"} /\ "replay" \notin Live
    BY DEF Live
  <2>3. IsFiniteSet(Live) /\ Cardinality(Live) = Cardinality({"session"}) + 1
    BY <2>1, <2>2, FS_AddElement, Zenon
  <2>4. IsFiniteSet(Path) /\ Cardinality(Path) = Cardinality(Live) + 1
    BY <2>2, <2>3, FS_AddElement, Zenon DEF Path
  <2>5. QED
    BY <2>1, <2>3, <2>4
<1>5. IsFiniteSet(1..n) /\ Cardinality(1..n) = n
  BY FS_Interval
<1>6. IsFiniteSet(T) /\ Cardinality(T) = 3 * n
  <2>1. IsFiniteSet(T) /\ Cardinality(T) = Cardinality(Path) * Cardinality(1..n)
    BY <1>4, <1>5, FS_Product, Zenon
  <2>2. QED
    BY <1>4, <1>5, <2>1
<1> HIDE DEF place, T
<1>7. QED
  BY <1>3, <1>6, FS_Injection

LEMMA InitTyped == Init => Typed
<1> SUFFICES ASSUME Init PROVE Typed
  OBVIOUS
<1>1. /\ scene \in Scene /\ clock = 0 /\ emitted = << >> /\ DOMAIN emitted = {} /\ Len(emitted) = 0
      /\ \A p \in Path : busy[p] = Idle /\ fate[p] = << >> /\ Len(fate[p]) = 0
      /\ \A r \in Resource : seen[r] = {}
      /\ \A t \in DOMAIN fired : fired[t] = {}
      /\ \A p \in Live : buffer[p] = {}
  BY DEF Init
<1>2. Idle \in [at : Int] /\ Idle.at = Never /\ << >> \in Seq(Emission) /\ << >> \in Seq(Outcome)
  BY Constants DEF Idle
<1>3. Shaped
  <2>1. clock \in 0..MaxTime
    BY <1>1, Constants
  <2>2. seen \in [Resource -> SUBSET SignalType] /\ emitted \in Seq(Emission)
    BY <1>1, <1>2 DEF Init
  <2>3. busy \in [Path -> [at : Int]] /\ fate \in [Path -> Seq(Outcome)]
    BY <1>2 DEF Init
  <2>4. /\ DOMAIN deduped = Resource /\ \A r \in Resource : DOMAIN deduped[r] = scene.types[r]
        /\ DOMAIN transient = Resource
        /\ \A r \in Resource : DOMAIN transient[r] = scene.types[r] \intersect TransientTypes
        /\ DOMAIN fired = Types /\ \A t \in Types : fired[t] \subseteq Count
        /\ DOMAIN window = Types
        /\ DOMAIN buffer = Live
    BY DEF Init, Types
  <2>5. QED
    BY <1>1, <2>1, <2>2, <2>3, <2>4 DEF Shaped
<1>4. TypeOK
  <2>1. clock \in 0..MaxTime /\ Len(emitted) <= scene.signals
    BY <1>1, Constants, SignalPathAssumption
  <2>2. /\ \A r \in Resource : /\ \A t \in DOMAIN transient[r] : transient[r][t] = Never
                               /\ \A t \in scene.types[r] : deduped[r][t] = Never
        /\ \A t \in DOMAIN window : window[t] = DedupeWindow
        /\ threshold = DampenThreshold
    BY DEF Init
  <2>3. /\ Never \in Never..clock /\ DedupeWindow \in DedupeWindow..MaxWindow
        /\ DampenThreshold \in MinThreshold..DampenThreshold
    BY <1>1, Constants
  <2>4. \A t \in DOMAIN fired : Cardinality(fired[t]) <= 3 * Len(emitted)
    <3>1. \A t \in DOMAIN fired : Cardinality(fired[t]) = 0
      BY <1>1, FS_EmptySet
    <3>2. 3 * Len(emitted) = 0
      BY <1>1
    <3>3. QED
      BY <3>1, <3>2
  <2>5. QED
    BY <1>1, <1>2, <2>1, <2>2, <2>3, <2>4 DEF TypeOK
<1>5. Turns /\ CountedOnce
  BY <1>1 DEF Turns, CountedOnce
<1>6. QED
  BY <1>3, <1>4, <1>5 DEF Typed

\* A step adds to what is known and does not change it.
LEMMA HistoryKept ==
  ASSUME Typed, [Next]_vars
  PROVE  /\ scene' = scene /\ clock <= clock'
         /\ emitted' \in Seq(Emission) /\ Len(emitted) <= Len(emitted')
         /\ \A i \in DOMAIN emitted : i \in DOMAIN emitted' /\ emitted'[i] = emitted[i]
         /\ fate' \in [Path -> Seq(Outcome)]
         /\ \A p \in Path : \A i \in DOMAIN fate[p] : i \in DOMAIN fate'[p] /\ fate'[p][i] = fate[p][i]
<1>1. clock \in Nat /\ emitted \in Seq(Emission) /\ Len(emitted) \in Nat
      /\ fate \in [Path -> Seq(Outcome)]
  BY Constants, LenProperties DEF Typed, Shaped
<1>2. CASE Tick \/ Tune \/ UNCHANGED vars
  BY <1>1, <1>2 DEF Tick, Tune, Widen, Lower, untuned, vars
<1>3. ASSUME NEW r \in Resource, NEW t \in scene.types[r], Collect(r, t)
      PROVE  /\ emitted' \in Seq(Emission) /\ Len(emitted) <= Len(emitted')
             /\ \A i \in DOMAIN emitted : i \in DOMAIN emitted' /\ emitted'[i] = emitted[i]
             /\ UNCHANGED <<scene, clock, fate>>
  <2>1. PICK e \in Emission : emitted' = Append(emitted, e)
    BY <1>3, CollectForm
  <2>2. QED
    BY <1>1, <1>3, <2>1, CollectForm, AppendForm
<1>4. ASSUME NEW p \in Path, NEW o, Gains(p, o)
      PROVE  /\ fate' \in [Path -> Seq(Outcome)]
             /\ \A q \in Path : \A i \in DOMAIN fate[q] : i \in DOMAIN fate'[q] /\ fate'[q][i] = fate[q][i]
  <2>1. ASSUME NEW q \in Path, NEW i \in DOMAIN fate[q]
        PROVE  i \in DOMAIN fate'[q] /\ fate'[q][i] = fate[q][i]
    <3>1. CASE q = p
      <4>1. DOMAIN fate[p] = 1..Len(fate[p]) /\ Len(fate[p]) \in Nat /\ Turn(p) = Len(fate[p]) + 1
        BY FateForm
      <4>2. DOMAIN fate'[p] = 1..Turn(p) /\ \A j \in DOMAIN fate[p] : fate'[p][j] = fate[p][j]
        BY <1>4 DEF Gains
      <4>3. i \in 1..Turn(p)
        BY <3>1, <4>1
      <4>4. QED
        BY <3>1, <4>2, <4>3
    <3>2. CASE q # p
      BY <1>4, <3>2 DEF Gains
    <3>3. QED
      BY <3>1, <3>2
  <2>2. QED
    BY <1>4, <2>1 DEF Gains
<1>5. ASSUME NEW p \in Path, Absent(p) \/ Test(p) \/ Judge(p)
      PROVE  fate' = fate \/ \E o \in Outcome : Gains(p, o)
  <2>1. PICK i : i = Turn(p)
    OBVIOUS
  <2>2. QED
    BY <1>5, <2>1, AbsentForm, TestForm, JudgeForm
<1>6. ASSUME NEW p \in Path, Absent(p) \/ Test(p) \/ Judge(p)
      PROVE  UNCHANGED <<scene, clock, emitted>>
  BY <1>6 DEF Absent, Test, Judge
<1>7. ASSUME NEW p \in Path, Absent(p) \/ Test(p) \/ Judge(p)
      PROVE  /\ fate' \in [Path -> Seq(Outcome)]
             /\ \A q \in Path : \A i \in DOMAIN fate[q] : i \in DOMAIN fate'[q] /\ fate'[q][i] = fate[q][i]
  <2>1. CASE fate' = fate
    BY <1>1, <2>1
  <2>2. CASE \E o \in Outcome : Gains(p, o)
    BY <1>4, <2>2
  <2>3. QED
    BY <1>5, <1>7, <2>1, <2>2
<1>8. CASE \E r \in Resource : \E t \in scene.types[r] : Collect(r, t)
  BY <1>1, <1>3, <1>8
<1>9. CASE \E p \in Path : Absent(p) \/ Test(p) \/ Judge(p)
  BY <1>1, <1>6, <1>7, <1>9
<1>10. QED
  BY <1>2, <1>8, <1>9 DEF Next

LEMMA TickTyped ==
  ASSUME Typed, Tick
  PROVE  Typed'
<1>1. /\ UNCHANGED <<scene, seen, emitted, busy, fate, deduped, transient, fired, window, threshold, buffer>>
      /\ clock \in 0..MaxTime /\ clock' = clock + 1 /\ clock < MaxTime
  BY DEF Tick, agents, profile, Typed, Shaped
<1>2. clock' \in 0..MaxTime /\ \A x : x \in Never..clock => x \in Never..clock'
  BY <1>1, Constants
<1>3. Shaped'
  <2>1. Types' = Types
    BY <1>1, <1>2 DEF Types
  <2>2. QED
    BY <1>1, <1>2, <2>1 DEF Typed, Shaped
<1>4. \A i \in DOMAIN emitted : emitted[i].at <= clock'
  BY <1>1, EmittedForm
<1>5. TypeOK'
  <2>1. TypeOK
    BY DEF Typed
  <2>2. QED
    BY <1>1, <1>2, <1>4, <2>1 DEF TypeOK
<1>6. Turns' /\ CountedOnce'
  BY <1>1 DEF Typed, Turns, CountedOnce, Turn, Published
<1>7. QED
  BY <1>3, <1>5, <1>6 DEF Typed

LEMMA CollectTyped ==
  ASSUME Typed, NEW r \in Resource, NEW t \in scene.types[r], Collect(r, t)
  PROVE  Typed'
<1>1. PICK e \in Emission : e.res = r /\ e.type = t /\ e.at = clock /\ emitted' = Append(emitted, e)
  BY CollectForm
<1>2. /\ Len(emitted) < scene.signals
      /\ seen' \in {seen, [seen EXCEPT ![r] = {t}], [seen EXCEPT ![r] = @ \union {t}]}
      /\ UNCHANGED <<scene, clock, busy, fate, deduped, transient, fired, window, threshold, buffer>>
  BY CollectForm DEF agents, profile
<1>3. /\ emitted \in Seq(Emission) /\ emitted' \in Seq(Emission)
      /\ Len(emitted) \in Nat /\ Len(emitted') = Len(emitted) + 1
      /\ DOMAIN emitted = 1..Len(emitted) /\ DOMAIN emitted' = 1..Len(emitted) + 1
      /\ \A i \in DOMAIN emitted : i \in DOMAIN emitted' /\ emitted'[i] = emitted[i]
      /\ emitted'[Len(emitted) + 1] = e
  BY <1>1, AppendForm DEF Typed, Shaped
<1>4. \A i \in DOMAIN emitted' : i \in DOMAIN emitted \/ (i = Len(emitted) + 1 /\ emitted'[i] = e)
  BY <1>3
<1>5. t \in SignalType /\ seen' \in [Resource -> SUBSET SignalType]
      /\ \A q \in Resource : seen'[q] \subseteq scene.types[q]
  <2>1. seen \in [Resource -> SUBSET SignalType] /\ \A q \in Resource : seen[q] \subseteq scene.types[q]
    BY DEF Typed, Shaped, TypeOK
  <2>2. t \in SignalType
    BY SignalPathAssumption DEF Typed, Shaped
  <2>3. QED
    BY <1>2, <2>1, <2>2
<1>6. Shaped'
  <2>1. Types' = Types
    BY <1>2, <1>3, <1>5 DEF Types
  <2>2. QED
    BY <1>2, <1>3, <1>5, <2>1 DEF Typed, Shaped
<1>7. \A i \in DOMAIN emitted' : /\ emitted'[i].type \in scene.types[emitted'[i].res]
                                 /\ emitted'[i].at <= clock
  <2>1. clock <= clock
    BY Constants DEF Typed, Shaped
  <2>2. QED
    BY <1>1, <1>3, <1>4, <2>1, EmittedForm
<1>8. scene.signals \in Nat /\ Len(emitted') <= scene.signals
  BY <1>2, <1>3, SignalPathAssumption DEF Typed, Shaped
<1>9. TypeOK'
  <2>1. \A p \in Path : Len(fate[p]) <= Len(emitted')
    BY <1>3, FateForm
  <2>2. \A q \in DOMAIN fired : Cardinality(fired[q]) <= 3 * Len(emitted')
    <3>1. \A q \in DOMAIN fired : /\ IsFiniteSet(fired[q])
                                  /\ Cardinality(fired[q]) <= 3 * Len(emitted)
      <4>1. ASSUME NEW q \in DOMAIN fired
            PROVE  \A f \in fired[q] : f.signal \in 1..Len(emitted)
        BY FateForm DEF Typed, Shaped, CountedOnce, Count
      <4>2. QED
        BY <1>3, <4>1, CountBound DEF Typed, Shaped, CountedOnce
    <3>2. \A q \in DOMAIN fired : Cardinality(fired[q]) \in Nat
      BY <3>1, FS_CardinalityType
    <3>3. QED
      BY <1>3, <3>1, <3>2
  <2>3. TypeOK
    BY DEF Typed
  <2>4. QED
    BY <1>2, <1>3, <1>5, <1>7, <1>8, <2>1, <2>2, <2>3 DEF TypeOK
<1>10. Turns'
  <2>1. SUFFICES ASSUME NEW p \in Path, busy[p] # Idle
                 PROVE  /\ busy[p].at >= 0 /\ Turn(p) <= Len(emitted')
                        /\ p = "session" => busy[p].at = emitted'[Turn(p)].at
                        /\ p = "worker" => busy[p].at >= emitted'[Turn(p)].at /\ Published(emitted'[Turn(p)])
    BY <1>2 DEF Turns, Turn, Published
  <2>2. Turn(p) \in DOMAIN emitted
    BY <2>1, FateForm DEF Typed, Turns
  <2>3. QED
    BY <1>3, <2>1, <2>2 DEF Typed, Turns
<1>11. CountedOnce'
  BY <1>2 DEF Typed, CountedOnce
<1>12. QED
  BY <1>6, <1>9, <1>10, <1>11 DEF Typed

LEMMA TuneTyped ==
  ASSUME Typed, Tune \/ UNCHANGED vars
  PROVE  Typed'
<1>1. UNCHANGED <<scene, clock, seen, emitted, busy, fate, deduped, transient, fired, buffer>>
  BY DEF Tune, Widen, Lower, untuned, vars
<1>2. DOMAIN window' = Types /\ \A t \in DOMAIN window' : window'[t] \in DedupeWindow..MaxWindow
  <2>1. DOMAIN window = Types /\ \A t \in DOMAIN window : window[t] \in DedupeWindow..MaxWindow
    BY DEF Typed, Shaped, TypeOK
  <2>2. CASE Lower \/ UNCHANGED vars
    BY <2>1, <2>2 DEF Lower, vars
  <2>3. ASSUME NEW t \in DOMAIN window, Widen(t)
        PROVE  DOMAIN window' = Types /\ \A q \in DOMAIN window' : window'[q] \in DedupeWindow..MaxWindow
    <3>1. PICK wider \in DedupeWindow..MaxWindow : window' = [window EXCEPT ![t] = wider]
      <4>1. PICK now : now = window[t]
        OBVIOUS
      <4>2. PICK wider : wider = IF 2 * now < MaxWindow THEN 2 * now ELSE MaxWindow
        OBVIOUS
      <4>3. window' = [window EXCEPT ![t] = wider] /\ wider > now
        BY <2>3, <4>1, <4>2 DEF Widen
      <4>4. now \in DedupeWindow..MaxWindow
        BY <2>1, <4>1
      <4>5. wider \in DedupeWindow..MaxWindow
        BY <4>2, <4>3, <4>4, Constants
      <4>6. QED
        BY <4>3, <4>5
    <3>2. QED
      BY <2>1, <3>1
  <2>4. QED
    BY <2>2, <2>3 DEF Tune
<1>3. threshold' \in MinThreshold..DampenThreshold
  <2>1. threshold \in MinThreshold..DampenThreshold
    BY DEF Typed, TypeOK
  <2>2. CASE Lower
    BY <2>1, <2>2, Constants DEF Lower
  <2>3. CASE ~Lower
    BY <2>1, <2>3 DEF Tune, Widen, vars
  <2>4. QED
    BY <2>2, <2>3
<1>4. Shaped'
  <2>1. Types' = Types
    BY <1>1, <1>2 DEF Types
  <2>2. QED
    BY <1>1, <1>2, <2>1 DEF Typed, Shaped
<1>5. TypeOK'
  <2>1. TypeOK
    BY DEF Typed
  <2>2. QED
    BY <1>1, <1>2, <1>3, <2>1 DEF TypeOK
<1>6. Turns' /\ CountedOnce'
  BY <1>1 DEF Typed, Turns, CountedOnce, Turn, Published
<1>7. QED
  BY <1>4, <1>5, <1>6 DEF Typed

\* A path that decides is done with its signal.
LEMMA GainTyped ==
  ASSUME Typed, NEW p \in Path, NEW o \in Outcome, Gains(p, o), Turn(p) <= Len(emitted),
         UNCHANGED <<scene, clock, seen, emitted>>,
         (busy[p] = Idle /\ busy' = busy) \/ busy' = [busy EXCEPT ![p] = Idle]
  PROVE  /\ fate' \in [Path -> Seq(Outcome)]
         /\ \A q \in Path : /\ Len(fate'[q]) <= Len(emitted')
                            /\ Len(fate[q]) \in Nat /\ Len(fate'[q]) \in Nat
                            /\ Len(fate[q]) <= Len(fate'[q])
         /\ Len(fate'[p]) = Turn(p)
         /\ busy' \in [Path -> [at : Int]] /\ \A q \in Path : busy'[q].at \in Never..clock'
         /\ Turns'
<1>1. /\ fate' \in [Path -> Seq(Outcome)] /\ Len(fate'[p]) = Turn(p)
      /\ \A q \in Path \ {p} : fate'[q] = fate[q]
  BY DEF Gains
<1>2. \A q \in Path : /\ Len(fate'[q]) <= Len(emitted')
                      /\ Len(fate[q]) \in Nat /\ Len(fate'[q]) \in Nat
                      /\ Len(fate[q]) <= Len(fate'[q])
  <2>1. ASSUME NEW q \in Path
        PROVE  /\ Len(fate'[q]) <= Len(emitted')
               /\ Len(fate[q]) \in Nat /\ Len(fate'[q]) \in Nat
               /\ Len(fate[q]) <= Len(fate'[q])
    <3>1. Len(fate[q]) \in Nat /\ Len(fate[q]) <= Len(emitted) /\ Turn(q) = Len(fate[q]) + 1
      BY FateForm
    <3>2. CASE q = p
      BY <1>1, <3>1, <3>2
    <3>3. CASE q # p
      BY <1>1, <3>1, <3>3
    <3>4. QED
      BY <3>2, <3>3
  <2>2. QED
    BY <2>1
<1>3. Idle \in [at : Int] /\ Idle.at = Never /\ Never \in Never..clock
  BY IdleForm, Constants DEF Typed, Shaped
<1>4. busy' \in [Path -> [at : Int]] /\ \A q \in Path : busy'[q].at \in Never..clock'
  BY <1>3, IdleForm DEF Typed, Shaped
<1>5. busy'[p] = Idle /\ \A q \in Path \ {p} : busy'[q] = busy[q] /\ Turn(q)' = Turn(q)
  BY <1>1 DEF Typed, Shaped, Turn
<1>6. Turns'
  BY <1>5 DEF Typed, Turns, Published
<1>7. QED
  BY <1>1, <1>2, <1>4, <1>6

LEMMA AbsentTyped ==
  ASSUME Typed, NEW p \in Path, NEW o \in Outcome, Gains(p, o), Turn(p) <= Len(emitted),
         busy[p] = Idle, UNCHANGED <<scene, clock, seen, emitted, busy, agents, buffer>>
  PROVE  Typed'
<1>1. /\ fate' \in [Path -> Seq(Outcome)]
      /\ \A q \in Path : /\ Len(fate'[q]) <= Len(emitted')
                         /\ Len(fate[q]) \in Nat /\ Len(fate'[q]) \in Nat
                         /\ Len(fate[q]) <= Len(fate'[q])
      /\ busy' \in [Path -> [at : Int]] /\ \A q \in Path : busy'[q].at \in Never..clock'
      /\ Turns'
  BY GainTyped
<1>2. UNCHANGED <<scene, clock, seen, emitted, busy, deduped, transient, fired, window, threshold, buffer>>
  BY DEF agents, profile
<1>3. Shaped'
  <2>1. Types' = Types
    BY <1>2 DEF Types
  <2>2. QED
    BY <1>1, <1>2, <2>1 DEF Typed, Shaped
<1>4. TypeOK'
  BY <1>1, <1>2 DEF Typed, TypeOK
<1>5. CountedOnce'
  <2>1. ASSUME NEW t \in DOMAIN fired, NEW f \in fired[t]
        PROVE  f.signal \in 1..Len(fate'[f.path])
    <3>1. f.signal \in 1..Len(fate[f.path]) /\ f.path \in Path
      BY <2>1 DEF Typed, Shaped, CountedOnce, Count
    <3>2. QED
      BY <1>1, <3>1
  <2>2. QED
    BY <1>2, <2>1 DEF Typed, CountedOnce
<1>6. QED
  BY <1>1, <1>3, <1>4, <1>5 DEF Typed

\* A path that takes up a signal works on it.
LEMMA TakeTyped ==
  ASSUME Typed, NEW p \in Path, NEW at \in Nat, at <= clock, Turn(p) \in DOMAIN emitted,
         p = "session" => at = emitted[Turn(p)].at,
         p = "worker" => at >= emitted[Turn(p)].at /\ Published(emitted[Turn(p)]),
         busy' = [busy EXCEPT ![p] = [at |-> at]],
         UNCHANGED <<scene, clock, seen, emitted, fate, agents, buffer>>
  PROVE  Typed'
<1>1. UNCHANGED <<scene, clock, seen, emitted, fate, deduped, transient, fired, window, threshold, buffer>>
  BY DEF agents, profile
<1>2. busy \in [Path -> [at : Int]] /\ clock \in Nat /\ Turn(p) <= Len(emitted)
  BY Constants, FateForm DEF Typed, Shaped
<1>3. busy' \in [Path -> [at : Int]] /\ busy'[p].at = at
      /\ \A q \in Path \ {p} : busy'[q] = busy[q]
  BY <1>2
<1>4. \A q \in Path : busy'[q].at \in Never..clock
  BY <1>2, <1>3, IdleForm, Constants
<1>5. Shaped'
  <2>1. Types' = Types
    BY <1>1 DEF Types
  <2>2. QED
    BY <1>1, <1>3, <2>1 DEF Typed, Shaped
<1>6. TypeOK'
  BY <1>1, <1>4 DEF Typed, TypeOK
<1>7. Turns'
  BY <1>1, <1>2, <1>3 DEF Typed, Turns, Turn, Published
<1>8. CountedOnce'
  BY <1>1 DEF Typed, CountedOnce
<1>9. QED
  BY <1>5, <1>6, <1>7, <1>8 DEF Typed

LEMMA TestTyped ==
  ASSUME Typed, NEW p \in Path, Test(p)
  PROVE  Typed'
<1>1. PICK at \in Nat :
        /\ at <= clock
        /\ p = "session" => at = emitted[Turn(p)].at
        /\ p = "worker" => at >= emitted[Turn(p)].at /\ Published(emitted[Turn(p)])
        /\ \/ /\ Duplicate(emitted[Turn(p)], at) /\ busy' = busy
              /\ \E o \in Outcome : Gains(p, o) /\ o.out = "duplicate" /\ o.at = at /\ ~o.raced
           \/ busy' = [busy EXCEPT ![p] = [at |-> at]] /\ fate' = fate
  BY TestForm
<1>2. /\ busy[p] = Idle /\ Turn(p) \in DOMAIN emitted /\ Turn(p) <= Len(emitted)
      /\ UNCHANGED <<scene, clock, seen, emitted, agents, buffer>>
  BY TestForm, FateForm
<1>3. CASE busy' = busy /\ \E o \in Outcome : Gains(p, o)
  BY <1>2, <1>3, AbsentTyped
<1>4. CASE busy' = [busy EXCEPT ![p] = [at |-> at]] /\ fate' = fate
  BY <1>1, <1>2, <1>4, TakeTyped
<1>5. QED
  BY <1>1, <1>3, <1>4

\* One entry of a memory by resource and type is replaced.
LEMMA MemorySet ==
  ASSUME NEW old, NEW r \in DOMAIN old, NEW t \in DOMAIN old[r], NEW at, NEW new,
         new = [old EXCEPT ![r][t] = at]
  PROVE  /\ DOMAIN new = DOMAIN old /\ \A q \in DOMAIN old : DOMAIN new[q] = DOMAIN old[q]
         /\ new[r][t] = at
         /\ \A q \in DOMAIN old : \A u \in DOMAIN old[q] : q # r \/ u # t => new[q][u] = old[q][u]
OBVIOUS

\* A buffer gains copies of the signal that is kept, and the session's its own.
LEMMA KeepForm ==
  ASSUME Typed, NEW p \in Path, NEW i, Keep(p, i)
  PROVE  /\ DOMAIN buffer' = Live
         /\ \A q \in Live : /\ buffer[q] \subseteq buffer'[q]
                           /\ \E m : buffer'[q] \subseteq buffer[q] \union {m} /\ m.signal = i
         /\ p = "session" => Member(i, ClusterId(i), p) \in buffer'["session"]
<1> DEFINE ours == IF p = "session" THEN {Member(i, ClusterId(i), p)} ELSE {}
           sent == Member(i, IF p = "session" THEN Unknown ELSE ClusterId(i), p)
<1>1. PICK published \in {{}, {sent}} :
        buffer' = [session |-> buffer.session \union ours, worker |-> buffer.worker \union published]
  BY DEF Keep
<1>2. sent.signal = i /\ Member(i, ClusterId(i), p).signal = i
  BY DEF Member
<1>3. /\ DOMAIN buffer' = Live
      /\ buffer'["session"] = buffer["session"] \union ours
      /\ buffer'["worker"] = buffer["worker"] \union published
  BY <1>1 DEF Live
<1>4. buffer'["worker"] \subseteq buffer["worker"] \union {sent}
  BY <1>1, <1>3
<1>5. buffer'["session"] \subseteq buffer["session"] \union {Member(i, ClusterId(i), p)}
  BY <1>3
<1> HIDE DEF sent
<1>6. QED
  BY <1>2, <1>3, <1>4, <1>5 DEF Live

\* A signal that fires is counted under its own place, with those still in the window.
LEMMA FiringForm ==
  ASSUME Typed, NEW p \in Path, NEW i, i = Turn(p), NEW e, e.type \in Types, NEW at \in Int
  PROVE  \E one \in Count : /\ one.path = p /\ one.signal = i /\ one.at = at
                            /\ one \in Firing(p, e, at)
                            /\ Firing(p, e, at) \subseteq fired[e.type] \union {one}
<1> DEFINE one == [path |-> p, signal |-> i, at |-> at]
<1>1. i \in Nat
  BY FateForm
<1>2. one \in Count /\ one.path = p /\ one.signal = i /\ one.at = at
  BY <1>1 DEF Count
<1>3. one \in Firing(p, e, at) /\ Firing(p, e, at) \subseteq fired[e.type] \union {one}
  BY DEF Firing
<1> HIDE DEF one
<1>4. QED
  BY <1>2, <1>3

LEMMA JudgeTyped ==
  ASSUME Typed, NEW p \in Path, Judge(p)
  PROVE  Typed'
<1>1. PICK i : i = Turn(p)
  OBVIOUS
<1>2. PICK e, at : e = emitted[i] /\ at = busy[p].at /\ at \in Nat
  BY <1>1, JudgeForm
<1>3. i \in DOMAIN emitted /\ i \in Nat /\ i <= Len(emitted) /\ at <= clock
  <2>1. i \in DOMAIN emitted
    BY <1>1, JudgeForm
  <2>2. i \in Nat /\ i <= Len(emitted)
    BY <2>1, FateForm
  <2>3. at \in Never..clock /\ clock \in Nat
    BY <1>2, IdleForm, Constants DEF Typed, Shaped
  <2>4. QED
    BY <2>1, <2>2, <2>3, Constants
<1>4. /\ e.res \in Resource /\ e.type \in scene.types[e.res] /\ e.type \in Types
  BY <1>2, <1>3, EmittedForm
<1>5. /\ UNCHANGED <<scene, clock, seen, emitted, window, threshold>>
      /\ busy' = [busy EXCEPT ![p] = Idle]
  BY <1>1, JudgeForm DEF profile
<1>6. \E o \in Outcome : Gains(p, o)
  BY <1>1, JudgeForm
<1>7. /\ fate' \in [Path -> Seq(Outcome)]
      /\ \A q \in Path : /\ Len(fate'[q]) <= Len(emitted')
                         /\ Len(fate[q]) \in Nat /\ Len(fate'[q]) \in Nat
                         /\ Len(fate[q]) <= Len(fate'[q])
      /\ Len(fate'[p]) = i
      /\ busy' \in [Path -> [at : Int]] /\ \A q \in Path : busy'[q].at \in Never..clock'
      /\ Turns'
  BY <1>1, <1>3, <1>5, <1>6, GainTyped
<1>8. Types' = Types
  BY <1>5 DEF Types
<1>9. clock \in Nat /\ at \in Never..clock
  BY <1>2, <1>3, IdleForm, Constants DEF Typed, Shaped
<1>10. /\ DOMAIN deduped' = Resource
       /\ \A r \in Resource : /\ DOMAIN deduped'[r] = scene.types[r]
                              /\ \A t \in scene.types[r] : deduped'[r][t] \in Never..clock
  <2>1. /\ DOMAIN deduped = Resource
        /\ \A r \in Resource : /\ DOMAIN deduped[r] = scene.types[r]
                               /\ \A t \in scene.types[r] : deduped[r][t] \in Never..clock
    BY DEF Typed, Shaped, TypeOK
  <2>2. deduped' = [deduped EXCEPT ![e.res][e.type] = at] \/ deduped' = deduped
    BY <1>1, <1>2, JudgeForm
  <2>3. CASE deduped' = [deduped EXCEPT ![e.res][e.type] = at]
    BY <1>4, <1>9, <2>1, <2>3, MemorySet
  <2>4. QED
    BY <2>1, <2>2, <2>3
<1>11. /\ DOMAIN transient' = Resource
       /\ \A r \in Resource : /\ DOMAIN transient'[r] = scene.types[r] \intersect TransientTypes
                              /\ \A t \in DOMAIN transient'[r] : transient'[r][t] \in Never..clock
  <2>1. /\ DOMAIN transient = Resource
        /\ \A r \in Resource : /\ DOMAIN transient[r] = scene.types[r] \intersect TransientTypes
                               /\ \A t \in DOMAIN transient[r] : transient[r][t] \in Never..clock
    BY DEF Typed, Shaped, TypeOK
  <2>2. \/ e.type \in TransientTypes /\ transient' = [transient EXCEPT ![e.res][e.type] = at]
        \/ transient' = transient
    BY <1>1, <1>2, JudgeForm
  <2>3. CASE e.type \in TransientTypes /\ transient' = [transient EXCEPT ![e.res][e.type] = at]
    <3>1. e.res \in DOMAIN transient /\ e.type \in DOMAIN transient[e.res]
      BY <1>4, <2>1, <2>3
    <3>2. /\ DOMAIN transient' = Resource
          /\ \A r \in Resource : DOMAIN transient'[r] = DOMAIN transient[r]
          /\ transient'[e.res][e.type] = at
          /\ \A r \in Resource : \A t \in DOMAIN transient[r] :
               r # e.res \/ t # e.type => transient'[r][t] = transient[r][t]
      BY <2>1, <2>3, <3>1, MemorySet
    <3>3. QED
      BY <1>9, <2>1, <3>2
  <2>4. QED
    BY <2>1, <2>2, <2>3
<1>12. /\ DOMAIN fired' = Types /\ \A t \in Types : fired'[t] \subseteq Count
       /\ CountedOnce'
  <2>1. DOMAIN fired = Types /\ \A t \in Types : fired[t] \subseteq Count
    BY DEF Typed, Shaped
  <2>2. \A t \in Types : \A f \in fired[t] : f.path \in Path /\ f.signal \in 1..Len(fate[f.path])
    BY <2>1 DEF Typed, CountedOnce, Count
  <2>3. \A t \in Types : \A f \in fired[t] : f.signal \in 1..Len(fate'[f.path])
    <3>1. \A q \in Path : \A n \in 1..Len(fate[q]) : n \in 1..Len(fate'[q])
      BY <1>7
    <3>2. QED
      BY <2>2, <3>1
  <2>4. \A t \in Types : \A f \in fired[t] : f.path # p \/ f.signal # i
    BY <1>1, <2>2, FateForm
  <2>5. fired' = fired \/ fired' = [fired EXCEPT ![e.type] = Firing(p, e, at)]
    BY <1>1, <1>2, JudgeForm
  <2>6. CASE fired' = fired
    BY <2>1, <2>3, <2>6 DEF Typed, CountedOnce
  <2>7. CASE fired' = [fired EXCEPT ![e.type] = Firing(p, e, at)]
    <3>1. PICK one \in Count : /\ one.path = p /\ one.signal = i
                               /\ Firing(p, e, at) \subseteq fired[e.type] \union {one}
      BY <1>1, <1>2, <1>4, FiringForm
    <3>2. /\ DOMAIN fired' = Types
          /\ \A t \in Types : fired'[t] \subseteq fired[t] \union {one}
      BY <1>4, <2>1, <2>7, <3>1
    <3>3. one.signal \in 1..Len(fate'[one.path])
      <4>1. i \in 1..i
        BY <1>1, FateForm
      <4>2. QED
        BY <1>7, <3>1, <4>1
    <3>4. \A t \in Types : \A f, g \in fired[t] : f.path = g.path /\ f.signal = g.signal => f = g
      BY <2>1 DEF Typed, CountedOnce
    <3>5. ASSUME NEW t \in Types
          PROVE  /\ \A f \in fired'[t] : f.signal \in 1..Len(fate'[f.path])
                 /\ \A f, g \in fired'[t] : f.path = g.path /\ f.signal = g.signal => f = g
      BY <2>3, <2>4, <3>1, <3>2, <3>3, <3>4
    <3>6. QED
      BY <2>1, <3>2, <3>5 DEF CountedOnce
  <2>8. QED
    BY <2>5, <2>6, <2>7
<1>13. DOMAIN buffer' = Live /\ \A q \in Live : \A m \in buffer'[q] : m.signal \in DOMAIN emitted
  <2>1. DOMAIN buffer = Live /\ \A q \in Live : \A m \in buffer[q] : m.signal \in DOMAIN emitted
    BY DEF Typed, Shaped, TypeOK
  <2>2. Keep(p, i) \/ buffer' = buffer
    BY <1>1, JudgeForm
  <2>3. CASE Keep(p, i)
    BY <1>3, <2>1, <2>3, KeepForm
  <2>4. QED
    BY <2>1, <2>2, <2>3
<1>14. \A t \in DOMAIN fired' : Cardinality(fired'[t]) <= 3 * Len(emitted')
  <2>1. ASSUME NEW t \in DOMAIN fired'
        PROVE  \A f \in fired'[t] : f.signal \in 1..Len(emitted')
    BY <1>7, <1>12, <2>1 DEF CountedOnce, Count
  <2>2. Len(emitted') \in Nat
    BY <1>5, FateForm
  <2>3. QED
    BY <1>12, <2>1, <2>2, CountBound DEF CountedOnce
<1>15. Shaped'
  BY <1>5, <1>7, <1>8, <1>10, <1>11, <1>12, <1>13 DEF Typed, Shaped
<1>16. TypeOK'
  BY <1>5, <1>7, <1>10, <1>11, <1>13, <1>14 DEF Typed, TypeOK
<1>17. QED
  BY <1>7, <1>12, <1>15, <1>16 DEF Typed

LEMMA TypedStep == Typed /\ [Next]_vars => Typed'
<1> SUFFICES ASSUME Typed, [Next]_vars PROVE Typed'
  OBVIOUS
<1>1. CASE \E p \in Path : Absent(p)
  BY <1>1, AbsentForm, AbsentTyped
<1>2. CASE \E p \in Path : Test(p)
  BY <1>2, TestTyped
<1>3. CASE \E p \in Path : Judge(p)
  BY <1>3, JudgeTyped
<1>4. CASE \E r \in Resource : \E t \in scene.types[r] : Collect(r, t)
  BY <1>4, CollectTyped
<1>5. CASE Tune \/ UNCHANGED vars
  BY <1>5, TuneTyped
<1>6. QED
  BY <1>1, <1>2, <1>3, <1>4, <1>5, TickTyped DEF Next

LEMMA TypedAlways == Spec => []Typed
BY InitTyped, TypedStep, PTL DEF Spec

\* Every variable stays in its type and bounds: what has been decided was collected,
\* times of the agents' memory are not in the future, a type is counted at most once
\* per path and signal, and tuning stops at the longest window and least threshold.
THEOREM SignalTypeCorrect == Spec => []TypeOK
<1>1. Typed => TypeOK
  BY DEF Typed
<1>2. QED
  BY <1>1, TypedAlways, PTL

----------------------------------------------------------------------------
(* Severe signals dropped as noise *)

LEMMA SevereForm ==
  ASSUME NEW s, Severe(s)
  PROVE  /\ s.type \in Critical \union High
         /\ Severity(s) \in {"critical", "high"} /\ Severity(s) \notin {"info", "low", "medium"}
         /\ s.type \notin {"event_pulled", "event_created", "stargate_stage_passed",
                           "splunk_info_alert", "alert_info", "event_migrationbackoff"}
<1>1. Severity(s) \in {"critical", "high"}
  BY DEF Severe
<1>2. s.type \in Critical \union High
  BY <1>1 DEF Severity
<1>3. QED
  BY <1>1, <1>2 DEF Critical, High

\* What each agent that may remove a severe signal goes by.
LEMMA AgentsSpare ==
  ASSUME NEW s, Severe(s), s.container # "noisy", s.name \notin {"noisy", "account"},
         s.label \notin {"false_positive", "noisy_search"}
  PROVE  /\ {InfraNoise(s), FailureClassifier(s), EventClassifier(s), PodHealth(s), RouteHealth(s),
             PvcHealth(s), NodePressure(s), NamespaceQuota(s), KserveEndpoint(s), KafkaLag(s)}
              \subseteq {"none", "keep", "escalate"}
         /\ {LaunchpadSession(s), StargateEvaluation(s), AppLog(s), AlertAgent(s), SecurityAudit(s),
             Provisioning(s), Network(s)} \subseteq {"none", "keep", "escalate"}
<1>1. /\ Severity(s) \notin {"info", "low", "medium"}
      /\ s.type \notin {"event_pulled", "event_created", "stargate_stage_passed",
                        "splunk_info_alert", "alert_info", "event_migrationbackoff"}
  BY SevereForm
<1>2. InfraNoise(s) = "none"
  BY <1>1 DEF InfraNoise
<1>3. EventClassifier(s) \in {"none", "keep", "escalate"} /\ FailureClassifier(s) = "keep"
  BY <1>1 DEF EventClassifier, FailureClassifier
<1>4. {PodHealth(s), RouteHealth(s), PvcHealth(s)} \subseteq {"none", "keep", "escalate"}
  BY DEF PodHealth, RouteHealth, PvcHealth
<1>5. {NodePressure(s), NamespaceQuota(s), KserveEndpoint(s), KafkaLag(s), LaunchpadSession(s)}
        \subseteq {"none", "keep", "escalate"}
  BY DEF NodePressure, NamespaceQuota, KserveEndpoint, KafkaLag, LaunchpadSession
<1>6. StargateEvaluation(s) \in {"none", "keep", "escalate"}
  BY <1>1 DEF StargateEvaluation
<1>7. AppLog(s) \in {"none", "keep", "escalate"} /\ AlertAgent(s) \in {"none", "keep", "escalate"}
  BY <1>1 DEF AppLog, AlertAgent
<1>8. SecurityAudit(s) \in {"none", "keep", "escalate"}
  BY DEF SecurityAudit
<1>9. Provisioning(s) \in {"none", "keep", "escalate"}
  BY <1>1 DEF Provisioning
<1>10. Network(s) \in {"none", "keep", "escalate"}
  BY <1>1 DEF Network
<1>11. QED
  BY <1>2, <1>3, <1>4, <1>5, <1>6, <1>7, <1>8, <1>9, <1>10

\* The agents remove a severe signal for its component, account or label only.
LEMMA SevereRouted ==
  ASSUME NEW s, Severe(s), ~RoutedOn(s)
  PROVE  \/ s.container = "noisy" \/ s.name \in {"noisy", "account"}
         \/ s.label \in {"false_positive", "noisy_search"}
<1>1. Severity(s) # "info"
  BY SevereForm
<1>2. Outcomes(s) \intersect {"drop", "suppress"} # {}
  BY <1>1 DEF RoutedOn
<1>3. Outcomes(s) \subseteq
        {InfraNoise(s), FailureClassifier(s), EventClassifier(s), PodHealth(s), RouteHealth(s),
         PvcHealth(s), NodePressure(s), NamespaceQuota(s), KserveEndpoint(s), KafkaLag(s),
         LaunchpadSession(s), StargateEvaluation(s), AppLog(s), AlertAgent(s), SecurityAudit(s),
         Provisioning(s), Network(s)}
  BY DEF Outcomes
<1>4. QED
  BY <1>2, <1>3, AgentsSpare

\* A path judged to be noise what the router does not pass on.
Judged == \A p \in Path : \A i \in DOMAIN fate[p] : fate[p][i].out = "noise" => ~RoutedOn(SeenBy(p, i))

LEMMA DecidedForm ==
  ASSUME Typed, [Next]_vars, NEW p \in Path, NEW i \in DOMAIN fate'[p], i \notin DOMAIN fate[p]
  PROVE  /\ i = Turn(p) /\ i \in DOMAIN emitted /\ UNCHANGED <<scene, clock, emitted>>
         /\ Gains(p, fate'[p][i]) /\ fate'[p][i] \in Outcome
         /\ \/ /\ Absent(p) /\ p # "session" /\ busy[p] = Idle
               /\ fate'[p][i].out = "absent" /\ fate'[p][i].at = Never
            \/ /\ Test(p) /\ busy[p] = Idle /\ busy' = busy
               /\ fate'[p][i].out = "duplicate"
               /\ Duplicate(emitted[i], fate'[p][i].at)
               /\ p = "session" => fate'[p][i].at = emitted[i].at
               /\ p # "session" => fate'[p][i].at = clock
            \/ /\ Judge(p) /\ fate'[p][i].at = busy[p].at
               /\ fate'[p][i].raced <=> Duplicate(emitted[i], busy[p].at)
               /\ \/ fate'[p][i].out = "transient" /\ Transient(emitted[i], busy[p].at)
                  \/ fate'[p][i].out \in {"dampened", "kept"}
                  \/ fate'[p][i].out = "noise" /\ ~RoutedOn(SeenBy(p, i))
<1>1. DOMAIN fate[p] = 1..Len(fate[p]) /\ Len(fate[p]) \in Nat /\ Turn(p) = Len(fate[p]) + 1
  BY FateForm
<1>2. ~(Tick \/ Tune \/ UNCHANGED vars)
  BY DEF Tick, Tune, Widen, Lower, untuned, vars
<1>3. ASSUME NEW r \in Resource, NEW t \in scene.types[r], Collect(r, t)
      PROVE  FALSE
  BY <1>3, CollectForm
<1>4. ASSUME NEW q \in Path, NEW o \in Outcome, Gains(q, o)
      PROVE  q = p /\ i = Turn(p) /\ fate'[p][i] = o
  <2>1. q = p
    BY <1>4 DEF Gains
  <2>2. DOMAIN fate'[p] = 1..Turn(p) /\ fate'[p][Turn(p)] = o
    BY <1>4, <2>1 DEF Gains
  <2>3. i = Turn(p)
    BY <1>1, <2>2
  <2>4. QED
    BY <2>1, <2>2, <2>3
<1>5. CASE \E q \in Path : Absent(q)
  <2>1. PICK q \in Path : Absent(q)
    BY <1>5
  <2>2. PICK o \in Outcome : Gains(q, o) /\ o.out = "absent" /\ o.at = Never
    BY <2>1, AbsentForm
  <2>3. q = p /\ i = Turn(p) /\ fate'[p][i] = o
    BY <1>4, <2>2
  <2>4. /\ p # "session" /\ Turn(p) <= Len(emitted) /\ busy[p] = Idle
        /\ UNCHANGED <<scene, clock, emitted>>
    BY <2>1, <2>3, AbsentForm
  <2>5. i \in DOMAIN emitted
    BY <2>3, <2>4, FateForm
  <2>6. QED
    BY <2>1, <2>2, <2>3, <2>4, <2>5
<1>6. CASE \E q \in Path : Test(q)
  <2>1. PICK q \in Path : Test(q)
    BY <1>6
  <2>2. PICK at \in Nat, o \in Outcome :
          /\ Gains(q, o) /\ o.out = "duplicate" /\ o.at = at
          /\ Duplicate(emitted[Turn(q)], at) /\ (busy' = busy \/ fate' = fate)
          /\ q = "session" => at = emitted[Turn(q)].at
          /\ q # "session" => at = clock
    BY <2>1, TestForm
  <2>3. q = p /\ i = Turn(p) /\ fate'[p][i] = o
    BY <1>4, <2>2
  <2>4. busy[p] = Idle /\ i \in DOMAIN emitted /\ UNCHANGED <<scene, clock, emitted>>
    BY <2>1, <2>3, TestForm
  <2>5. QED
    BY <2>1, <2>2, <2>3, <2>4
<1>7. CASE \E q \in Path : Judge(q)
  <2>1. PICK q \in Path : Judge(q)
    BY <1>7
  <2>2. PICK k : k = Turn(q)
    OBVIOUS
  <2>3. PICK o \in Outcome :
          /\ Gains(q, o) /\ o.at = busy[q].at /\ (o.raced <=> Duplicate(emitted[k], busy[q].at))
          /\ \/ o.out = "transient" /\ Transient(emitted[k], busy[q].at)
             \/ o.out \in {"dampened", "kept", "noise"} /\ (o.out = "noise" => ~RoutedOn(SeenBy(q, k)))
    BY <2>1, <2>2, JudgeForm
  <2>4. q = p /\ i = Turn(p) /\ fate'[p][i] = o
    BY <1>4, <2>3
  <2>5. i \in DOMAIN emitted /\ UNCHANGED <<scene, clock, emitted>>
    BY <2>1, <2>2, <2>4, JudgeForm
  <2>6. QED
    BY <2>1, <2>2, <2>3, <2>4, <2>5
<1>8. QED
  BY <1>2, <1>3, <1>5, <1>6, <1>7 DEF Next

LEMMA JudgedStep == Typed /\ Judged /\ [Next]_vars => Judged'
<1> SUFFICES ASSUME Typed, Judged, [Next]_vars, NEW p \in Path, NEW i \in DOMAIN fate'[p],
                    fate'[p][i].out = "noise"
             PROVE  ~RoutedOn(SeenBy(p, i)')
  BY DEF Judged
<1>1. CASE i \in DOMAIN fate[p]
  <2>1. fate[p][i].out = "noise" /\ i \in DOMAIN emitted /\ emitted'[i] = emitted[i] /\ scene' = scene
    BY <1>1, FateForm, HistoryKept
  <2>2. SeenBy(p, i)' = SeenBy(p, i)
    BY <2>1 DEF SeenBy
  <2>3. QED
    BY <1>1, <2>1, <2>2 DEF Judged
<1>2. CASE i \notin DOMAIN fate[p]
  <2>1. ~RoutedOn(SeenBy(p, i)) /\ UNCHANGED <<scene, emitted>>
    BY <1>2, DecidedForm
  <2>2. SeenBy(p, i)' = SeenBy(p, i)
    BY <2>1 DEF SeenBy
  <2>3. QED
    BY <2>1, <2>2
<1>3. QED
  BY <1>1, <1>2

\* A path drops a severe signal for what it says (infra_noise.py, alert_agent.py,
\* app_log_agent.py, security_agent.py) only where it sees a noisy component or account,
\* a false positive or a noisy search; whatever the signal's other data are.
THEOREM NoiseCorrect == Spec => []SevereDroppedAsNoise
<1>1. Init => Judged
  BY DEF Init, Judged
<1>2. Judged => SevereDroppedAsNoise
  BY SevereRouted DEF Judged, SevereDroppedAsNoise
<1>3. QED
  BY <1>1, <1>2, TypedAlways, JudgedStep, PTL DEF Spec

----------------------------------------------------------------------------
(* Severe signals open incidents *)

\* Buffers are finite, and the session's holds what the session kept.
Buffered ==
  /\ \A p \in Live : IsFiniteSet(buffer[p])
  /\ \A i \in DOMAIN fate["session"] :
       Kept("session", i) => Member(i, ClusterId(i), "session") \in buffer["session"]

LEMMA BufferKept ==
  ASSUME Typed, Buffered, [Next]_vars
  PROVE  \A p \in Live : buffer[p] \subseteq buffer'[p] /\ IsFiniteSet(buffer'[p])
<1>1. CASE buffer' = buffer
  BY <1>1 DEF Buffered
<1>2. ASSUME NEW q \in Path, NEW i, Keep(q, i), NEW p \in Live
      PROVE  buffer[p] \subseteq buffer'[p] /\ IsFiniteSet(buffer'[p])
  <2>1. PICK m : buffer'[p] \subseteq buffer[p] \union {m} /\ buffer[p] \subseteq buffer'[p]
    BY <1>2, KeepForm
  <2>2. IsFiniteSet(buffer[p] \union {m})
    BY FS_AddElement DEF Buffered
  <2>3. QED
    BY <2>1, <2>2, FS_Subset
<1>3. ASSUME NEW q \in Path, Judge(q), NEW i, i = Turn(q)
      PROVE  buffer' = buffer \/ Keep(q, i)
  BY <1>3, JudgeForm
<1>4. ASSUME NEW r \in Resource, NEW t \in scene.types[r], Collect(r, t)
      PROVE  buffer' = buffer
  BY <1>4, CollectForm
<1>5. (\E q \in Path : Absent(q) \/ Test(q)) \/ Tick \/ Tune \/ UNCHANGED vars => buffer' = buffer
  BY DEF Absent, Test, Tick, Tune, Widen, Lower, untuned, vars
<1>6. QED
  BY <1>1, <1>2, <1>3, <1>4, <1>5 DEF Next

LEMMA BufferedStep == Typed /\ Buffered /\ [Next]_vars => Buffered'
<1> SUFFICES ASSUME Typed, Buffered, [Next]_vars, NEW i \in DOMAIN fate'["session"], Kept("session", i)'
             PROVE  Member(i, ClusterId(i)', "session") \in buffer'["session"]
  BY BufferKept DEF Buffered, Member
<1>1. "session" \in Path /\ "session" \in Live /\ buffer["session"] \subseteq buffer'["session"]
  BY BufferKept DEF Path, Live
<1>2. CASE i \in DOMAIN fate["session"]
  <2>1. Kept("session", i) /\ emitted'[i] = emitted[i]
    BY <1>1, <1>2, HistoryKept, FateForm DEF Kept
  <2>2. ClusterId(i)' = ClusterId(i)
    BY <2>1 DEF ClusterId
  <2>3. QED
    BY <1>1, <1>2, <2>1, <2>2 DEF Buffered
<1>3. CASE i \notin DOMAIN fate["session"]
  <2>1. Judge("session") /\ i = Turn("session") /\ emitted' = emitted /\ Gains("session", fate'["session"][i])
    BY <1>1, <1>3, DecidedForm DEF Kept
  <2>2. PICK o \in Outcome : /\ Gains("session", o)
                             /\ IF o.out = "kept" THEN Keep("session", i) ELSE o.out # "kept"
    BY <1>1, <2>1, JudgeForm
  <2>3. fate'["session"][i] = o
    BY <2>1, <2>2 DEF Gains
  <2>4. Keep("session", i)
    BY <2>2, <2>3 DEF Kept
  <2>5. ClusterId(i)' = ClusterId(i)
    BY <2>1 DEF ClusterId
  <2>6. QED
    BY <1>1, <2>4, <2>5, KeepForm
<1>4. QED
  BY <1>2, <1>3

\* A finite set in which two members differ has two or more.
LEMMA TwoMembers ==
  ASSUME NEW S, IsFiniteSet(S), NEW a \in S, NEW b \in S, a # b
  PROVE  Cardinality(S) >= 2
<1>1. Cardinality(S) \in Nat
  BY FS_CardinalityType
<1>2. Cardinality(S) # 0
  BY FS_EmptySet
<1>3. Cardinality(S) # 1
  BY FS_Singleton
<1>4. QED
  BY <1>1, <1>2, <1>3

\* Two signals of one cluster that are more than information make a finding.
LEMMA PairFound ==
  ASSUME Buffered, NEW i, NEW j, i # j, NEW c,
         Member(i, c, "session") \in buffer["session"], Member(j, c, "session") \in buffer["session"],
         Severity([type |-> emitted[i].type]) # "info", Severity([type |-> emitted[j].type]) # "info"
  PROVE  \E f \in Found("session") : Member(i, c, "session") \in f.signals
<1> DEFINE a == Member(i, c, "session")  b == Member(j, c, "session")
           all  == buffer["session"]
           loud == { m \in { n \in all : SeverityOf(n) \notin {"info"} } : m.cluster = c }
<1>1. a.signal = i /\ a.cluster = c /\ b.signal = j /\ b.cluster = c /\ a # b
  BY DEF Member
<1>2. SeverityOf(a) # "info" /\ SeverityOf(b) # "info"
  BY <1>1 DEF SeverityOf
<1> HIDE DEF a, b
<1>3. a \in all /\ b \in all
  BY DEF a, b
<1>4. a \in loud /\ b \in loud /\ loud \subseteq all
  BY <1>1, <1>2, <1>3
<1>5. IsFiniteSet(all) /\ IsFiniteSet(loud)
  BY <1>4, FS_Subset DEF Buffered, Live
<1>6. Cardinality(all) >= 2 /\ Cardinality(loud) >= 2
  BY <1>1, <1>3, <1>4, <1>5, TwoMembers
<1>7. Cardinality(all) \in Nat
  BY <1>5, FS_CardinalityType
<1>8. Found("session") = Correlate(all)
  BY <1>6, <1>7 DEF Found
<1> DEFINE f == [type |-> "namespace_correlation", signals |-> loud]
<1>9. f \in Correlate(all)
  <2>1. PICK h : /\ h = loud /\ h \in { { m \in { n \in all : SeverityOf(n) \notin {"info"} } : m.cluster = k.cluster } : k \in all }
    BY <1>1, <1>3
  <2>2. Cardinality(h) >= 2
    BY <1>6, <2>1
  <2> HIDE DEF loud
  <2>3. f = [type |-> "namespace_correlation", signals |-> h]
    BY <2>1
  <2>4. QED
    BY <2>1, <2>2, <2>3 DEF Correlate
<1>10. QED
  BY <1>4, <1>8, <1>9 DEF a

\* A finding with a severe signal has a task whose answer the session lets open an
\* incident.
LEMMA SevereOpens ==
  ASSUME NEW f, NEW m \in f.signals, SeverityOf(m) \in {"critical", "high"}
  PROVE  \E task \in Tasks("session", "session", f) : Opens("session", task)
<1>1. FindingSeverity(f) \in {"critical", "high"}
  BY DEF FindingSeverity
<1>2. PrimaryTask("session", "session", f) \in {"deep_root_cause_analysis", "root_cause_analysis"}
  BY <1>1 DEF PrimaryTask
<1>3. QED
  BY <1>2 DEF Tasks, Opens

\* A severe signal that the session keeps opens an incident once another one of its
\* cluster is kept (streaming_session.py, correlator.py, semantic_router.py): for any
\* signals, clusters and number of signals that make an analysis deep.
THEOREM SevereCorrect == Spec => []KeptSevereOpens
<1>1. Init => Buffered
  BY FS_EmptySet DEF Init, Buffered, Path, Live
<1>2. Typed /\ Buffered => KeptSevereOpens
  <2> SUFFICES ASSUME Typed, Buffered, NEW i \in DOMAIN emitted, NEW j \in DOMAIN emitted, i # j,
                      Kept("session", i), Kept("session", j), ClusterId(i) = ClusterId(j),
                      Severity([type |-> emitted[i].type]) \in {"critical", "high"},
                      Severity([type |-> emitted[j].type]) # "info"
               PROVE  /\ \E f \in Found("session") : \E m \in f.signals : m.signal = i
                      /\ \A f \in Found("session") : (\E m \in f.signals : m.signal = i) =>
                           \E task \in Tasks("session", "session", f) : Opens("session", task)
    BY DEF KeptSevereOpens
  <2>1. PICK c : c = ClusterId(i) /\ c = ClusterId(j)
    OBVIOUS
  <2>2. Member(i, c, "session") \in buffer["session"] /\ Member(j, c, "session") \in buffer["session"]
    BY <2>1 DEF Buffered, Kept
  <2>3. PICK f \in Found("session") : Member(i, c, "session") \in f.signals
    BY <2>2, PairFound
  <2>4. \E g \in Found("session") : \E m \in g.signals : m.signal = i
    BY <2>3 DEF Member
  <2>5. ASSUME NEW g \in Found("session"), NEW m \in g.signals, m.signal = i
        PROVE  \E task \in Tasks("session", "session", g) : Opens("session", task)
    BY <2>5, SevereOpens DEF SeverityOf
  <2>6. QED
    BY <2>4, <2>5
<1>3. QED
  BY <1>1, <1>2, TypedAlways, BufferedStep, PTL DEF Spec

----------------------------------------------------------------------------
(* Dropped signals repeat others *)

Looked  == {"kept", "dampened", "noise", "transient"}
Settled == Looked \ {"transient"}

\* At time at a path decided one of outs for a signal of this key.
Was(outs, r, t, at) ==
  \E q \in Path : \E j \in DOMAIN fate[q] :
    /\ fate[q][j].out \in outs /\ fate[q][j].at = at
    /\ j \in DOMAIN emitted /\ emitted[j].res = r /\ emitted[j].type = t
    /\ emitted[j].source \notin RandomCluster

\* The agents remember the time of a signal of that key, which the transient
\* suppressor's memory holds only of signals that it let pass.
Memory ==
  \A r \in Resource : \A t \in scene.types[r] :
    /\ deduped[r][t] # Never => Was(Looked, r, t, deduped[r][t])
    /\ t \in TransientTypes /\ transient[r][t] # Never => Was(Settled, r, t, transient[r][t])

\* The same, and what p itself decided it decided before signal i.
Before(p, i, r, t, at) ==
  \E q \in Path : \E j \in DOMAIN fate[q] :
    /\ fate[q][j].out \in Settled /\ fate[q][j].at = at
    /\ j \in DOMAIN emitted /\ emitted[j].res = r /\ emitted[j].type = t
    /\ emitted[j].source \notin RandomCluster
    /\ q = p => j < i

\* Suppressed signals have a settled one before; the session looks at each.
Explained ==
  \A p \in Path : \A i \in DOMAIN fate[p] :
    /\ p = "session" => fate[p][i].out # "absent"
    /\ fate[p][i].out = "transient" =>
         /\ emitted[i].type \in TransientTypes /\ emitted[i].source \notin RandomCluster
         /\ \E at \in Int : /\ Before(p, i, emitted[i].res, emitted[i].type, at)
                            /\ fate[p][i].at - at < TransientWindow
    /\ fate[p][i].out = "duplicate" =>
         /\ emitted[i].source \notin RandomCluster
         /\ \E at \in Int : /\ Before(p, i, emitted[i].res, emitted[i].type, at)
                            /\ fate[p][i].at - at < Reach(emitted[i].type)

\* Signals are collected in order, and each path gives them times in that order:
\* the session the collector's, the others the clock's.
Orderly ==
  /\ \A i, j \in DOMAIN emitted : i <= j => emitted[i].at <= emitted[j].at
  /\ \A i \in DOMAIN fate["session"] : fate["session"][i].at = emitted[i].at
  /\ \A p \in Path \ {"session"} : \A i \in DOMAIN fate[p] :
       /\ fate[p][i].at <= clock
       /\ busy[p] # Idle => fate[p][i].at <= busy[p].at
       /\ \A j \in DOMAIN fate[p] :
            j < i /\ fate[p][i].out # "absent" => fate[p][j].at <= fate[p][i].at

LEMMA WasKept ==
  ASSUME Typed, [Next]_vars, NEW outs, NEW r, NEW t, NEW at, Was(outs, r, t, at)
  PROVE  Was(outs, r, t, at)'
<1>1. PICK q, j :
        /\ q \in Path /\ j \in DOMAIN fate[q] /\ fate[q][j].out \in outs /\ fate[q][j].at = at
        /\ j \in DOMAIN emitted /\ emitted[j].res = r /\ emitted[j].type = t
        /\ emitted[j].source \notin RandomCluster
  BY DEF Was
<1>2. /\ j \in DOMAIN fate'[q] /\ fate'[q][j] = fate[q][j]
      /\ j \in DOMAIN emitted' /\ emitted'[j] = emitted[j]
  BY <1>1, HistoryKept
<1>3. QED
  BY <1>1, <1>2 DEF Was

LEMMA BeforeKept ==
  ASSUME Typed, [Next]_vars, NEW p, NEW i, NEW r, NEW t, NEW at, Before(p, i, r, t, at)
  PROVE  Before(p, i, r, t, at)'
<1>1. PICK q, j :
        /\ q \in Path /\ j \in DOMAIN fate[q] /\ fate[q][j].out \in Settled /\ fate[q][j].at = at
        /\ j \in DOMAIN emitted /\ emitted[j].res = r /\ emitted[j].type = t
        /\ emitted[j].source \notin RandomCluster /\ (q = p => j < i)
  BY DEF Before
<1>2. /\ j \in DOMAIN fate'[q] /\ fate'[q][j] = fate[q][j]
      /\ j \in DOMAIN emitted' /\ emitted'[j] = emitted[j]
  BY <1>1, HistoryKept
<1>3. QED
  BY <1>1, <1>2 DEF Before

\* What was settled at all was so before the signal whose turn it is.
LEMMA BeforeTurn ==
  ASSUME Typed, NEW p \in Path, NEW r, NEW t, NEW at, Was(Settled, r, t, at)
  PROVE  Before(p, Turn(p), r, t, at)
<1>1. PICK q, j :
        /\ q \in Path /\ j \in DOMAIN fate[q] /\ fate[q][j].out \in Settled /\ fate[q][j].at = at
        /\ j \in DOMAIN emitted /\ emitted[j].res = r /\ emitted[j].type = t
        /\ emitted[j].source \notin RandomCluster
  BY DEF Was
<1>2. q = p => j < Turn(p)
  BY <1>1, FateForm
<1>3. QED
  BY <1>1, <1>2 DEF Before

\* A path's work begins at the clock's time or ends.
LEMMA BusyCases ==
  ASSUME Typed, [Next]_vars, NEW p \in Path \ {"session"}
  PROVE  busy'[p] = busy[p] \/ busy'[p] = Idle \/ busy'[p].at = clock
<1>1. busy \in [Path -> [at : Int]]
  BY DEF Typed, Shaped
<1>2. ASSUME NEW q \in Path, Test(q)
      PROVE  busy'[p] = busy[p] \/ busy'[p].at = clock
  <2>1. PICK at \in Nat : /\ q # "session" => at = clock
                          /\ busy' = busy \/ busy' = [busy EXCEPT ![q] = [at |-> at]]
    BY <1>2, TestForm
  <2>2. QED
    BY <1>1, <2>1
<1>3. ASSUME NEW q \in Path, Judge(q), NEW i, i = Turn(q)
      PROVE  busy'[p] = busy[p] \/ busy'[p] = Idle
  <2>1. busy' = [busy EXCEPT ![q] = Idle]
    BY <1>3, JudgeForm
  <2>2. QED
    BY <1>1, <2>1
<1>4. ASSUME NEW r \in Resource, NEW t \in scene.types[r], Collect(r, t)
      PROVE  busy' = busy
  BY <1>4, CollectForm
<1>5. (\E q \in Path : Absent(q)) \/ Tick \/ Tune \/ UNCHANGED vars => busy' = busy
  BY DEF Absent, Tick, Tune, Widen, Lower, untuned, vars
<1>6. QED
  BY <1>2, <1>3, <1>4, <1>5 DEF Next

\* What a path decided before one of its signals it had decided by its turn.
LEMMA EarlierForm ==
  ASSUME Typed, [Next]_vars, NEW p \in Path, NEW j \in DOMAIN fate'[p], NEW i,
         i \in DOMAIN fate[p] \/ i = Turn(p), j < i
  PROVE  j \in DOMAIN fate[p]
<1>1. fate'[p] \in Seq(Outcome)
  BY HistoryKept
<1>2. j \in Nat /\ j >= 1
  BY <1>1, LenProperties
<1>3. DOMAIN fate[p] = 1..Len(fate[p]) /\ Len(fate[p]) \in Nat /\ Turn(p) = Len(fate[p]) + 1
  BY FateForm
<1>4. QED
  BY <1>2, <1>3

LEMMA OrderlyStep == Typed /\ Orderly /\ [Next]_vars => Orderly'
<1> SUFFICES ASSUME Typed, Orderly, [Next]_vars PROVE Orderly'
  OBVIOUS
<1>1. clock \in Nat /\ clock' \in Nat /\ clock <= clock'
  <2>1. clock \in Nat
    BY Constants DEF Typed, Shaped
  <2>2. clock' \in Nat
    BY TypedStep, Constants DEF Typed, Shaped
  <2>3. QED
    BY <2>1, <2>2, HistoryKept
<1>2. ASSUME NEW i \in DOMAIN emitted', NEW j \in DOMAIN emitted', i <= j
      PROVE  emitted'[i].at <= emitted'[j].at
  <2>1. CASE emitted' = emitted
    BY <1>2, <2>1 DEF Orderly
  <2>2. ASSUME NEW r \in Resource, NEW t \in scene.types[r], Collect(r, t)
        PROVE  emitted'[i].at <= emitted'[j].at
    <3>1. PICK e \in Emission : e.at = clock /\ emitted' = Append(emitted, e)
      BY <2>2, CollectForm
    <3>2. emitted \in Seq(Emission)
      BY DEF Typed, Shaped
    <3>3. /\ Len(emitted) \in Nat /\ DOMAIN emitted = 1..Len(emitted)
          /\ DOMAIN emitted' = 1..Len(emitted) + 1 /\ emitted'[Len(emitted) + 1] = e
          /\ \A k \in DOMAIN emitted : emitted'[k] = emitted[k]
      BY <3>1, <3>2, AppendForm
    <3>4. PICK last \in Nat : last = Len(emitted) + 1
      BY <3>3
    <3>5. \A k \in DOMAIN emitted' : k \in DOMAIN emitted \/ k = last
      BY <3>3, <3>4
    <3>6. CASE j \in DOMAIN emitted
      <4>1. i \in DOMAIN emitted
        BY <1>2, <3>3, <3>6
      <4>2. QED
        BY <1>2, <3>3, <3>6, <4>1 DEF Orderly
    <3>7. CASE j = last /\ i \in DOMAIN emitted
      BY <3>1, <3>3, <3>4, <3>7, EmittedForm
    <3>8. CASE j = last /\ i = last
      BY <1>1, <3>1, <3>3, <3>4, <3>8
    <3>9. QED
      BY <3>5, <3>6, <3>7, <3>8
  <2>3. (\E p \in Path : Absent(p) \/ Test(p) \/ Judge(p)) \/ Tick \/ Tune \/ UNCHANGED vars
          => emitted' = emitted
    BY DEF Absent, Test, Judge, Tick, Tune, Widen, Lower, untuned, vars
  <2>4. QED
    BY <2>1, <2>2, <2>3 DEF Next
<1>3. ASSUME NEW i \in DOMAIN fate'["session"]
      PROVE  fate'["session"][i].at = emitted'[i].at
  <2>1. "session" \in Path
    BY DEF Path, Live
  <2>2. CASE i \in DOMAIN fate["session"]
    BY <2>1, <2>2, HistoryKept, FateForm DEF Orderly
  <2>3. CASE i \notin DOMAIN fate["session"]
    <3>1. /\ i = Turn("session") /\ emitted' = emitted
          /\ \/ fate'["session"][i].at = emitted[i].at
             \/ Judge("session") /\ fate'["session"][i].at = busy["session"].at
      BY <2>1, <2>3, DecidedForm
    <3>2. Judge("session") => busy["session"].at = emitted[Turn("session")].at
      BY <2>1 DEF Judge, Typed, Turns
    <3>3. QED
      BY <3>1, <3>2
  <2>4. QED
    BY <2>2, <2>3
<1>4. ASSUME NEW p \in Path \ {"session"}, NEW i \in DOMAIN fate'[p]
      PROVE  /\ fate'[p][i].at <= clock'
             /\ busy'[p] # Idle => fate'[p][i].at <= busy'[p].at
             /\ \A j \in DOMAIN fate'[p] :
                  j < i /\ fate'[p][i].out # "absent" => fate'[p][j].at <= fate'[p][i].at
  <2>1. PICK b \in Int : b = busy[p].at /\ b <= clock
    BY <1>1, IdleForm, Constants
  <2>2. \A k \in DOMAIN fate[p] :
          /\ fate'[p][k] = fate[p][k] /\ fate[p][k].at \in Int /\ fate[p][k].at <= clock
          /\ busy[p] # Idle => fate[p][k].at <= b
    BY <2>1, HistoryKept, FateForm DEF Orderly, Outcome
  <2>3. DOMAIN fate[p] = 1..Len(fate[p]) /\ Len(fate[p]) \in Nat /\ Turn(p) = Len(fate[p]) + 1
    BY FateForm
  <2>4. \/ busy'[p] = busy[p]
        \/ busy'[p] = Idle
        \/ busy'[p].at = clock
    BY BusyCases
  <2>5. CASE i \in DOMAIN fate[p]
    <3>1. \A j \in DOMAIN fate'[p] : j < i => j \in DOMAIN fate[p]
      BY <2>5, EarlierForm
    <3>2. \A j \in DOMAIN fate'[p] :
            j < i /\ fate'[p][i].out # "absent" => fate'[p][j].at <= fate'[p][i].at
      BY <2>2, <2>5, <3>1 DEF Orderly
    <3>3. PICK at \in Int : at = fate'[p][i].at /\ at <= clock /\ (busy[p] # Idle => at <= b)
      BY <2>2, <2>5
    <3>4. at <= clock'
      BY <1>1, <3>3
    <3>5. busy'[p] # Idle => at <= busy'[p].at
      BY <2>1, <2>4, <3>3
    <3>6. QED
      BY <3>2, <3>3, <3>4, <3>5
  <2>6. CASE i \notin DOMAIN fate[p]
    <3>1. /\ i = Turn(p) /\ clock' = clock
          /\ \/ fate'[p][i].out = "absent" /\ fate'[p][i].at = Never /\ Absent(p)
             \/ fate'[p][i].at = clock /\ Test(p) /\ busy' = busy /\ busy[p] = Idle
             \/ fate'[p][i].at = b /\ Judge(p)
      BY <2>1, <2>6, DecidedForm
    <3>2. (Absent(p) => busy' = busy /\ busy[p] = Idle)
          /\ (Judge(p) => busy'[p] = Idle /\ busy[p] # Idle)
      <4>1. Absent(p) => busy' = busy /\ busy[p] = Idle
        BY DEF Absent
      <4>2. Judge(p) => busy' = [busy EXCEPT ![p] = Idle] /\ busy[p] # Idle
        BY DEF Judge
      <4>3. busy \in [Path -> [at : Int]]
        BY DEF Typed, Shaped
      <4>4. QED
        BY <4>1, <4>2, <4>3
    <3>3. \A j \in DOMAIN fate'[p] : j < i => j \in DOMAIN fate[p]
      BY <3>1, EarlierForm
    <3>4. QED
      BY <1>1, <2>1, <2>2, <3>1, <3>2, <3>3, Constants
  <2>7. QED
    BY <2>5, <2>6
<1>5. QED
  BY <1>2, <1>3, <1>4 DEF Orderly

LEMMA ReachForm ==
  ASSUME Typed, [Next]_vars, NEW t \in Types
  PROVE  /\ window[t] \in Nat /\ Reach(t) \in Int /\ Reach(t)' \in Int
         /\ window[t] <= Reach(t) /\ 0 < Reach(t) /\ Reach(t) <= Reach(t)'
         /\ t \in TransientTypes => Reach(t) = window[t] + TransientWindow
<1>1. DOMAIN window = Types /\ window[t] \in DedupeWindow..MaxWindow
  BY DEF Typed, Shaped, TypeOK
<1>2. window' = window \/ \E u \in DOMAIN window : Widen(u)
  BY DEF Next, Tick, Collect, Condition, KubernetesEvent, FiringAlert, FiredSearch, SplunkWebhook,
         IntegrationEvent, InjectSignal, Emit, Absent, Test, Judge, Tune, Lower, agents, profile, vars
<1>3. window'[t] \in Int /\ window[t] <= window'[t]
  <2>1. PICK now, later : now = window[t] /\ later = window'[t] /\ now \in DedupeWindow..MaxWindow
    BY <1>1
  <2>2. CASE window' = window
    BY <1>1, <2>2, Constants
  <2>3. ASSUME NEW u \in DOMAIN window, Widen(u)
        PROVE  later \in Int /\ now <= later
    <3>1. PICK wider : wider = (IF 2 * window[u] < MaxWindow THEN 2 * window[u] ELSE MaxWindow)
      OBVIOUS
    <3>2. wider > window[u] /\ window' = [window EXCEPT ![u] = wider]
      BY <2>3, <3>1 DEF Widen
    <3>3. window[u] \in Int
      BY <1>1, Constants DEF Typed, Shaped, TypeOK
    <3>4. wider \in Int
      BY <3>1, <3>3, Constants
    <3>5. CASE u = t
      BY <1>1, <2>1, <3>2, <3>3, <3>4, <3>5, Constants
    <3>6. CASE u # t
      BY <1>1, <2>1, <3>2, <3>6, Constants
    <3>7. QED
      BY <3>5, <3>6
  <2>4. QED
    BY <1>2, <2>1, <2>2, <2>3
<1>4. PICK now, later : now = window[t] /\ later = window'[t] /\ now \in DedupeWindow..MaxWindow
  BY <1>1
<1>5. CASE t \in TransientTypes
  <2>1. Reach(t) = now + TransientWindow /\ Reach(t)' = later + TransientWindow
    BY <1>4, <1>5 DEF Reach
  <2>2. QED
    BY <1>3, <1>4, <2>1, Constants
<1>6. CASE t \notin TransientTypes
  <2>1. Reach(t) = now + 0 /\ Reach(t)' = later + 0
    BY <1>4, <1>6 DEF Reach
  <2>2. QED
    BY <1>3, <1>4, <1>6, <2>1, Constants
<1>7. QED
  BY <1>5, <1>6

LEMMA MemoryStep == Typed /\ Memory /\ [Next]_vars => Memory'
<1> SUFFICES ASSUME Typed, Memory, [Next]_vars PROVE Memory'
  OBVIOUS
<1> SUFFICES ASSUME NEW r \in Resource, NEW t \in scene.types[r]
             PROVE  \A d, s : d = deduped'[r][t] /\ s = transient'[r][t] =>
                      /\ d # Never => Was(Looked, r, t, d)'
                      /\ t \in TransientTypes /\ s # Never => Was(Settled, r, t, s)'
  <2>1. scene' = scene
    BY HistoryKept
  <2>2. QED
    BY <2>1 DEF Memory
<1> TAKE d, s
<1>1. HAVE d = deduped'[r][t] /\ s = transient'[r][t]
<1> DEFINE Held == /\ d # Never => Was(Looked, r, t, d)'
                   /\ t \in TransientTypes /\ s # Never => Was(Settled, r, t, s)'
<1>2. deduped'[r][t] = deduped[r][t] /\ d # Never => Was(Looked, r, t, d)'
  BY <1>1, WasKept DEF Memory
<1>3. transient'[r][t] = transient[r][t] /\ t \in TransientTypes /\ s # Never => Was(Settled, r, t, s)'
  BY <1>1, WasKept DEF Memory
<1>4. CASE deduped' = deduped /\ transient' = transient
  BY <1>1, <1>2, <1>3, <1>4
<1>5. ASSUME NEW p \in Path, Judge(p)
      PROVE  Held
  <2>1. PICK i : i = Turn(p)
    OBVIOUS
  <2>2. PICK e, at : e = emitted[i] /\ at = busy[p].at /\ at \in Nat /\ i \in DOMAIN emitted
    BY <1>5, <2>1, JudgeForm
  <2>3. e.res \in Resource /\ e.type \in scene.types[e.res]
    BY <2>2, EmittedForm
  <2>4. PICK o \in Outcome :
          /\ Gains(p, o) /\ o.at = at
          /\ \/ o.out = "transient" /\ transient' = transient
             \/ /\ o.out \in {"dampened", "kept", "noise"}
                /\ transient' = IF e.source \notin RandomCluster /\ e.type \in TransientTypes
                                THEN [transient EXCEPT ![e.res][e.type] = at] ELSE transient
    <3>1. PICK o \in Outcome :
            /\ Gains(p, o) /\ o.at = busy[p].at
            /\ \/ /\ o.out = "transient" /\ Transient(emitted[i], busy[p].at)
                  /\ UNCHANGED <<transient, fired, buffer>>
               \/ /\ o.out \in {"dampened", "kept", "noise"}
                  /\ o.out = "noise" => ~RoutedOn(SeenBy(p, i))
                  /\ fired' = [fired EXCEPT ![emitted[i].type] = Firing(p, emitted[i], busy[p].at)]
                  /\ transient' = IF /\ emitted[i].source \notin RandomCluster
                                     /\ emitted[i].type \in TransientTypes
                                  THEN [transient EXCEPT ![emitted[i].res][emitted[i].type] = busy[p].at]
                                  ELSE transient
                  /\ IF o.out = "kept" THEN Keep(p, i) ELSE UNCHANGED buffer
      BY <1>5, <2>1, JudgeForm, Zenon
    <3>2. QED
      BY <2>2, <3>1
  <2>5. i \in DOMAIN fate'[p] /\ fate'[p][i] = o
    BY <2>1, <2>4, FateForm DEF Gains
  <2>6. emitted' = emitted
    BY <1>5, <2>1, JudgeForm
  <2>7. e.source \notin RandomCluster /\ e.res = r /\ e.type = t
          => Was({o.out}, r, t, at)'
    BY <2>2, <2>4, <2>5, <2>6 DEF Was
  <2>8. \A outs : o.out \in outs /\ Was({o.out}, r, t, at)' => Was(outs, r, t, at)'
    BY DEF Was
  <2>9. d # Never => Was(Looked, r, t, d)'
    <3>1. deduped' = IF e.source \notin RandomCluster
                     THEN [deduped EXCEPT ![e.res][e.type] = at] ELSE deduped
      BY <1>5, <2>1, <2>2, JudgeForm
    <3>2. e.res \in DOMAIN deduped /\ e.type \in DOMAIN deduped[e.res]
          /\ r \in DOMAIN deduped /\ t \in DOMAIN deduped[r]
      BY <2>3 DEF Typed, Shaped
    <3>3. CASE e.source \notin RandomCluster /\ e.res = r /\ e.type = t
      <4>1. d = at
        BY <1>1, <3>1, <3>2, <3>3, MemorySet
      <4>2. QED
        BY <2>4, <2>7, <2>8, <3>3, <4>1 DEF Looked
    <3>4. CASE ~(e.source \notin RandomCluster /\ e.res = r /\ e.type = t)
      <4>1. deduped'[r][t] = deduped[r][t]
        BY <3>1, <3>2, <3>4, MemorySet
      <4>2. QED
        BY <1>2, <4>1
    <3>5. QED
      BY <3>3, <3>4
  <2>10. t \in TransientTypes /\ s # Never => Was(Settled, r, t, s)'
    <3>1. SUFFICES ASSUME t \in TransientTypes, s # Never PROVE Was(Settled, r, t, s)'
      OBVIOUS
    <3>2. CASE transient' = transient
      BY <1>3, <3>1, <3>2
    <3>3. CASE /\ o.out \in {"dampened", "kept", "noise"}
               /\ e.source \notin RandomCluster /\ e.type \in TransientTypes
               /\ transient' = [transient EXCEPT ![e.res][e.type] = at]
      <4>1. e.res \in DOMAIN transient /\ e.type \in DOMAIN transient[e.res]
            /\ r \in DOMAIN transient /\ t \in DOMAIN transient[r]
        BY <2>3, <3>1, <3>3 DEF Typed, Shaped
      <4>2. CASE e.res = r /\ e.type = t
        <5>1. s = at
          BY <1>1, <3>3, <4>1, <4>2, MemorySet
        <5>2. QED
          BY <2>7, <2>8, <3>3, <4>2, <5>1 DEF Settled, Looked
      <4>3. CASE ~(e.res = r /\ e.type = t)
        <5>1. transient'[r][t] = transient[r][t]
          BY <3>3, <4>1, <4>3, MemorySet
        <5>2. QED
          BY <1>3, <3>1, <5>1
      <4>4. QED
        BY <4>2, <4>3
    <3>4. QED
      BY <2>4, <3>2, <3>3
  <2>11. QED
    BY <1>1, <2>9, <2>10
<1>6. ASSUME NEW q \in Resource, NEW u \in scene.types[q], Collect(q, u)
      PROVE  deduped' = deduped /\ transient' = transient
  BY <1>6, CollectForm DEF agents
<1>7. (\E p \in Path : Absent(p) \/ Test(p)) \/ Tick \/ Tune \/ UNCHANGED vars
        => deduped' = deduped /\ transient' = transient
  BY DEF Absent, Test, Tick, Tune, Widen, Lower, untuned, agents, vars
<1>8. QED
  BY <1>4, <1>5, <1>6, <1>7 DEF Next

\* What the two memories say of a signal that they stop.
LEMMA StoppedForm ==
  ASSUME Typed, [Next]_vars, Memory, Explained, NEW p \in Path, NEW i, i = Turn(p),
         i \in DOMAIN emitted, NEW at \in Int
  PROVE  /\ Transient(emitted[i], at) =>
              /\ emitted[i].type \in TransientTypes /\ emitted[i].source \notin RandomCluster
              /\ \E was \in Int : /\ Before(p, i, emitted[i].res, emitted[i].type, was)
                                  /\ at - was < TransientWindow
         /\ Duplicate(emitted[i], at) =>
              /\ emitted[i].source \notin RandomCluster
              /\ \E was \in Int : /\ Before(p, i, emitted[i].res, emitted[i].type, was)
                                  /\ at - was < Reach(emitted[i].type)
<1>1. PICK r, t : r = emitted[i].res /\ t = emitted[i].type
  OBVIOUS
<1>2. r \in Resource /\ t \in scene.types[r] /\ t \in Types
  BY <1>1, EmittedForm
<1>3. ASSUME Transient(emitted[i], at)
      PROVE  /\ t \in TransientTypes /\ emitted[i].source \notin RandomCluster
             /\ \E was \in Int : Before(p, i, r, t, was) /\ at - was < TransientWindow
  <2>1. /\ t \in TransientTypes /\ emitted[i].source \notin RandomCluster
        /\ transient[r][t] # Never /\ at - transient[r][t] < TransientWindow
    BY <1>1, <1>3 DEF Transient
  <2>2. transient[r][t] \in Int
    BY <1>2, <2>1, MemoryForm
  <2>3. Was(Settled, r, t, transient[r][t])
    BY <1>2, <2>1 DEF Memory
  <2>4. QED
    BY <2>1, <2>2, <2>3, BeforeTurn
<1>4. ASSUME Duplicate(emitted[i], at)
      PROVE  /\ emitted[i].source \notin RandomCluster
             /\ \E was \in Int : Before(p, i, r, t, was) /\ at - was < Reach(t)
  <2>1. PICK d : /\ d = deduped[r][t] /\ d # Never /\ at - d < window[t]
                 /\ emitted[i].source \notin RandomCluster
    BY <1>1, <1>4 DEF Duplicate
  <2>2. d \in Int /\ window[t] \in Nat /\ Reach(t) \in Int /\ window[t] <= Reach(t)
    BY <1>2, <2>1, MemoryForm, ReachForm
  <2>3. Was(Looked, r, t, d)
    BY <1>2, <2>1 DEF Memory
  <2>4. CASE Was(Settled, r, t, d)
    BY <2>1, <2>2, <2>4, BeforeTurn
  <2>5. CASE Was({"transient"}, r, t, d)
    <3>1. PICK q, j : /\ q \in Path /\ j \in DOMAIN fate[q] /\ fate[q][j].out = "transient"
                      /\ fate[q][j].at = d /\ emitted[j].res = r /\ emitted[j].type = t
      BY <2>5 DEF Was
    <3>2. PICK was \in Int : Before(q, j, r, t, was) /\ d - was < TransientWindow
      BY <3>1 DEF Explained
    <3>3. t \in TransientTypes
      BY <3>1 DEF Explained
    <3>4. Reach(t) = window[t] + TransientWindow
      BY <1>2, <3>3, ReachForm
    <3>5. at - was < Reach(t)
      BY <2>1, <2>2, <3>2, <3>4, Constants
    <3>6. Was(Settled, r, t, was)
      BY <3>2 DEF Before, Was
    <3>7. QED
      BY <2>1, <3>2, <3>5, <3>6, BeforeTurn
  <2>6. Was(Settled, r, t, d) \/ Was({"transient"}, r, t, d)
    BY <2>3 DEF Was, Settled
  <2>7. QED
    BY <2>4, <2>5, <2>6
<1>5. QED
  BY <1>1, <1>3, <1>4

LEMMA ExplainedStep == Typed /\ Memory /\ Explained /\ [Next]_vars => Explained'
<1> SUFFICES ASSUME Typed, Memory, Explained, [Next]_vars PROVE Explained'
  OBVIOUS
<1> SUFFICES ASSUME NEW p \in Path, NEW i \in DOMAIN fate'[p]
             PROVE  /\ p = "session" => fate'[p][i].out # "absent"
                    /\ fate'[p][i].out = "transient" =>
                         /\ emitted'[i].type \in TransientTypes /\ emitted'[i].source \notin RandomCluster
                         /\ \E at \in Int : /\ Before(p, i, emitted[i].res, emitted[i].type, at)'
                                            /\ fate'[p][i].at - at < TransientWindow
                    /\ fate'[p][i].out = "duplicate" =>
                         /\ emitted'[i].source \notin RandomCluster
                         /\ \E at \in Int : /\ Before(p, i, emitted[i].res, emitted[i].type, at)'
                                            /\ fate'[p][i].at - at < Reach(emitted[i].type)'
  BY DEF Explained
<1>1. PICK x, e : x = fate'[p][i] /\ e = emitted'[i]
  OBVIOUS
<1>2. /\ i \in DOMAIN emitted /\ emitted[i] = e /\ x.at \in Int
      /\ e.type \in Types
      /\ p = "session" => x.out # "absent"
      /\ x.out = "transient" =>
           /\ e.type \in TransientTypes /\ e.source \notin RandomCluster
           /\ \E at \in Int : Before(p, i, e.res, e.type, at) /\ x.at - at < TransientWindow
      /\ x.out = "duplicate" =>
           /\ e.source \notin RandomCluster
           /\ \E at \in Int : Before(p, i, e.res, e.type, at) /\ x.at - at < Reach(e.type)
  <2>1. CASE i \in DOMAIN fate[p]
    <3>1. x = fate[p][i] /\ i \in DOMAIN emitted /\ emitted[i] = e /\ x \in Outcome
      BY <1>1, <2>1, FateForm, HistoryKept
    <3>2. x.at \in Int /\ e.type \in Types
      BY <3>1, EmittedForm DEF Outcome
    <3>3. QED
      BY <2>1, <3>1, <3>2 DEF Explained
  <2>2. CASE i \notin DOMAIN fate[p]
    <3>1. /\ i = Turn(p) /\ i \in DOMAIN emitted /\ emitted' = emitted /\ x \in Outcome
          /\ \/ x.out = "absent" /\ p # "session"
             \/ x.out = "duplicate" /\ Duplicate(emitted[i], x.at)
             \/ x.out = "transient" /\ Transient(emitted[i], x.at)
             \/ x.out \in {"dampened", "kept", "noise"}
      BY <1>1, <2>2, DecidedForm
    <3>2. x.at \in Int /\ e.type \in Types /\ e = emitted[i]
      BY <1>1, <3>1, EmittedForm DEF Outcome
    <3>3. QED
      BY <3>1, <3>2, StoppedForm
  <2>3. QED
    BY <2>1, <2>2
<1>3. \A at : Before(p, i, e.res, e.type, at) => Before(p, i, e.res, e.type, at)'
  BY BeforeKept
<1>4. Reach(e.type) \in Int /\ Reach(e.type)' \in Int /\ Reach(e.type) <= Reach(e.type)'
  BY <1>2, ReachForm
<1>5. \A at \in Int : x.at - at < Reach(e.type) => x.at - at < Reach(e.type)'
  BY <1>2, <1>4
<1>6. QED
  BY <1>1, <1>2, <1>3, <1>5

\* A signal that neither the session nor the worker keeps repeats, within its type's
\* window and, for the types that the transient suppressor knows, its window, a signal
\* of the same key that was kept, dampened or judged to be noise, before it or by
\* another thread: for any windows, replays, tuning and order of the threads
\* (dedupe.py, transient_suppressor.py).
THEOREM DroppedCorrect == Spec => []DroppedRepeats
<1>1. Init => Memory /\ Explained /\ Orderly
  <2> SUFFICES ASSUME Init PROVE Memory /\ Explained /\ Orderly
    OBVIOUS
  <2>1. \A r \in Resource : /\ \A t \in scene.types[r] : deduped[r][t] = Never
                            /\ \A t \in scene.types[r] : t \in TransientTypes => transient[r][t] = Never
    BY DEF Init
  <2>2. \A p \in Path : DOMAIN fate[p] = {}
    BY DEF Init
  <2>3. DOMAIN emitted = {} /\ "session" \in Path
    BY DEF Init, Path, Live
  <2>4. QED
    BY <2>1, <2>2, <2>3 DEF Memory, Explained, Orderly
<1>2. Typed /\ Explained /\ Orderly /\ [Next]_vars => DroppedRepeats
  <2> SUFFICES ASSUME Typed, Explained, Orderly, [Next]_vars, NEW i \in DOMAIN emitted, Decided(i),
                      \A p \in Live : ~Kept(p, i)
               PROVE  \E p \in Live, q \in Path, j \in DOMAIN emitted :
                        /\ SameKey(i, j) /\ j \in DOMAIN fate[q]
                        /\ fate[q][j].out \in {"kept", "dampened", "noise"}
                        /\ fate[p][i].out # "absent"
                        /\ fate[p][i].at - fate[q][j].at < Reach(emitted[i].type)
                        /\ p = q => j <= i /\ 0 <= fate[p][i].at - fate[q][j].at
    BY DEF DroppedRepeats
  <2>1. PICK x, e, t : x = fate["session"][i] /\ e = emitted[i] /\ t = e.type
    OBVIOUS
  <2>2. "session" \in Live /\ "session" \in Path /\ i \in DOMAIN fate["session"] /\ i \in Nat
    BY EmittedForm DEF Decided, Live, Path
  <2>3. x \in Outcome /\ x.at \in Int /\ x.out # "absent" /\ x.out # "kept"
    BY <2>1, <2>2, FateForm DEF Outcome, Explained, Kept
  <2>4. t \in Types /\ Reach(t) \in Int /\ 0 < Reach(t) /\ window[t] \in Nat
        /\ (t \in TransientTypes => Reach(t) = window[t] + TransientWindow)
    BY <2>1, EmittedForm, ReachForm
  <2>5. CASE x.out \in {"dampened", "noise"}
    <3>1. x.at - x.at < Reach(t) /\ i <= i /\ 0 <= x.at - x.at
      BY <2>2, <2>3, <2>4
    <3>2. SameKey(i, i)
      BY DEF SameKey
    <3>3. QED
      BY <2>1, <2>2, <2>3, <2>5, <3>1, <3>2
  <2>6. CASE x.out \in {"transient", "duplicate"}
    <3>1. /\ e.source \notin RandomCluster
          /\ \E was \in Int : Before("session", i, e.res, t, was) /\ x.at - was < Reach(t)
      <4>1. CASE x.out = "duplicate"
        BY <2>1, <2>2, <4>1 DEF Explained
      <4>2. CASE x.out = "transient"
        <5>1. PICK was \in Int : Before("session", i, e.res, t, was) /\ x.at - was < TransientWindow
          BY <2>1, <2>2, <4>2 DEF Explained
        <5>2. t \in TransientTypes /\ e.source \notin RandomCluster
          BY <2>1, <2>2, <4>2 DEF Explained
        <5>3. TransientWindow <= Reach(t)
          BY <2>4, <5>2, Constants
        <5>4. x.at - was < Reach(t)
          BY <2>3, <2>4, <5>1, <5>3, Constants
        <5>5. QED
          BY <5>1, <5>2, <5>4
      <4>3. QED
        BY <2>6, <4>1, <4>2
    <3>2. PICK was \in Int : Before("session", i, e.res, t, was) /\ x.at - was < Reach(t)
      BY <3>1
    <3>3. PICK q, j : /\ q \in Path /\ j \in DOMAIN fate[q] /\ fate[q][j].out \in Settled
                      /\ fate[q][j].at = was /\ j \in DOMAIN emitted
                      /\ emitted[j].res = e.res /\ emitted[j].type = t
                      /\ emitted[j].source \notin RandomCluster /\ (q = "session" => j < i)
      BY <3>2 DEF Before
    <3>4. SameKey(i, j)
      BY <2>1, <3>1, <3>3 DEF SameKey
    <3>5. fate[q][j].out \in {"kept", "dampened", "noise"}
      BY <3>3 DEF Settled, Looked
    <3>6. q = "session" => j <= i /\ 0 <= x.at - was
      <4>1. j \in Nat
        BY <3>3, EmittedForm
      <4>2. q = "session" => j <= i
        BY <2>2, <3>3, <4>1
      <4>3. PICK first, last : first = emitted[j].at /\ last = emitted[i].at
        OBVIOUS
      <4>4. q = "session" => was = first /\ x.at = last /\ first <= last
        BY <2>1, <2>2, <3>3, <4>2, <4>3 DEF Orderly
      <4>5. QED
        BY <2>3, <3>2, <4>2, <4>4
    <3>7. QED
      BY <2>1, <2>2, <2>3, <3>2, <3>3, <3>4, <3>5, <3>6
  <2>7. QED
    BY <2>3, <2>5, <2>6 DEF Outcome, Out
<1>3. QED
  BY <1>1, <1>2, TypedAlways, MemoryStep, ExplainedStep, OrderlyStep, PTL DEF Spec

----------------------------------------------------------------------------
(* Signals kept twice *)

\* A signal of this key was recorded although another had been since its test.
RacedKey(r, t) ==
  \E q \in Path : \E j \in DOMAIN fate[q] :
    /\ fate[q][j].raced /\ j \in DOMAIN emitted
    /\ emitted[j].res = r /\ emitted[j].type = t /\ emitted[j].source \notin RandomCluster

\* Without such a race the memory of a key rises: it is the latest time recorded.
Rising ==
  \A r \in Resource : \A t \in scene.types[r] : RacedKey(r, t) \/
    \A p \in Path : \A j \in DOMAIN fate[p] :
      /\ fate[p][j].out \in Looked /\ emitted[j].res = r /\ emitted[j].type = t
      /\ emitted[j].source \notin RandomCluster
      => 0 <= fate[p][j].at /\ fate[p][j].at <= deduped[r][t]

\* The session keeps the collector's time, the worker's is not before it.
Times ==
  /\ \A i \in DOMAIN fate["session"] :
       fate["session"][i].out = "kept" => fate["session"][i].at = emitted[i].at
  /\ \A i \in DOMAIN fate["worker"] :
       fate["worker"][i].out = "kept" =>
         fate["worker"][i].at >= emitted[i].at /\ Published(emitted[i])

\* What both paths keep they keep a window apart, or the key has had a race.
KeptApart ==
  \A i \in DOMAIN emitted : Kept("session", i) /\ Kept("worker", i) =>
    \/ RacedKey(emitted[i].res, emitted[i].type)
    \/ fate["worker"][i].at - emitted[i].at >= DedupeWindow

LEMMA RacedKept ==
  ASSUME Typed, [Next]_vars, NEW r, NEW t, RacedKey(r, t)
  PROVE  RacedKey(r, t)'
<1>1. PICK q, j : /\ q \in Path /\ j \in DOMAIN fate[q] /\ fate[q][j].raced /\ j \in DOMAIN emitted
                  /\ emitted[j].res = r /\ emitted[j].type = t
                  /\ emitted[j].source \notin RandomCluster
  BY DEF RacedKey
<1>2. /\ j \in DOMAIN fate'[q] /\ fate'[q][j] = fate[q][j]
      /\ j \in DOMAIN emitted' /\ emitted'[j] = emitted[j]
  BY <1>1, HistoryKept
<1>3. QED
  BY <1>1, <1>2 DEF RacedKey

\* A signal that is recorded without a race is a window after the last one.
LEMMA UnracedForm ==
  ASSUME Typed, NEW p \in Path, NEW i, i = Turn(p), Judge(p),
         NEW r, NEW t, r = emitted[i].res, t = emitted[i].type,
         emitted[i].source \notin RandomCluster, ~RacedKey(r, t)'
  PROVE  /\ deduped[r][t] \in Int /\ busy[p].at \in Nat
         /\ deduped[r][t] = Never \/ busy[p].at - deduped[r][t] >= DedupeWindow
         /\ deduped'[r][t] = busy[p].at
<1>1. PICK o \in Outcome : Gains(p, o) /\ (o.raced <=> Duplicate(emitted[i], busy[p].at))
  BY JudgeForm
<1>2. i \in DOMAIN emitted /\ emitted' = emitted /\ busy[p].at \in Nat
      /\ deduped' = [deduped EXCEPT ![emitted[i].res][emitted[i].type] = busy[p].at]
  BY JudgeForm
<1>3. i \in DOMAIN fate'[p] /\ fate'[p][i] = o
  BY <1>1, FateForm DEF Gains
<1>4. ~o.raced
  BY <1>2, <1>3 DEF RacedKey
<1>5. deduped[r][t] = Never \/ ~(busy[p].at - deduped[r][t] < window[t])
  BY <1>1, <1>4 DEF Duplicate
<1>6. r \in Resource /\ t \in scene.types[r]
  BY <1>2, EmittedForm
<1>7. deduped[r][t] \in Int /\ window[t] \in Nat /\ window[t] >= DedupeWindow
  BY <1>6, MemoryForm
<1>8. deduped'[r][t] = busy[p].at
  BY <1>2, <1>6, MemorySet DEF Typed, Shaped
<1>9. deduped[r][t] = Never \/ busy[p].at - deduped[r][t] >= DedupeWindow
  <2>1. PICK d, w, at : d = deduped[r][t] /\ w = window[t] /\ at = busy[p].at
    OBVIOUS
  <2>2. d = Never \/ ~(at - d < w)
    BY <1>5, <2>1
  <2>3. d \in Int /\ w \in Nat /\ w >= DedupeWindow /\ at \in Nat
    BY <1>2, <1>7, <2>1
  <2>4. d = Never \/ at - d >= DedupeWindow
    BY <2>2, <2>3, Constants
  <2>5. QED
    BY <2>1, <2>4
<1>10. QED
  BY <1>2, <1>7, <1>8, <1>9

LEMMA MemoryRises ==
  ASSUME Typed, [Next]_vars, NEW r \in Resource, NEW t \in scene.types[r], ~RacedKey(r, t)'
  PROVE  deduped[r][t] \in Int /\ deduped'[r][t] \in Int /\ deduped[r][t] <= deduped'[r][t]
<1>1. deduped[r][t] \in Int /\ deduped[r][t] >= Never
  BY MemoryForm, Constants DEF Typed, Shaped
<1>2. CASE deduped' = deduped
  BY <1>1, <1>2
<1>3. ASSUME NEW p \in Path, Judge(p)
      PROVE  deduped'[r][t] \in Int /\ deduped[r][t] <= deduped'[r][t]
  <2>1. PICK i : i = Turn(p)
    OBVIOUS
  <2>2. /\ i \in DOMAIN emitted
        /\ deduped' = IF emitted[i].source \notin RandomCluster
                      THEN [deduped EXCEPT ![emitted[i].res][emitted[i].type] = busy[p].at]
                      ELSE deduped
    BY <1>3, <2>1, JudgeForm
  <2>3. CASE emitted[i].source \notin RandomCluster /\ emitted[i].res = r /\ emitted[i].type = t
    <3>1. /\ busy[p].at \in Nat /\ deduped'[r][t] = busy[p].at
          /\ deduped[r][t] = Never \/ busy[p].at - deduped[r][t] >= DedupeWindow
      BY <1>3, <2>1, <2>3, UnracedForm
    <3>2. PICK d, at : d = deduped[r][t] /\ at = busy[p].at
      OBVIOUS
    <3>3. d \in Int /\ at \in Nat /\ (d = Never \/ at - d >= DedupeWindow)
      BY <1>1, <3>1, <3>2
    <3>4. d <= at
      BY <3>3, Constants
    <3>5. QED
      BY <3>1, <3>2, <3>3, <3>4
  <2>4. CASE ~(emitted[i].source \notin RandomCluster /\ emitted[i].res = r /\ emitted[i].type = t)
    <3>1. r \in DOMAIN deduped /\ t \in DOMAIN deduped[r]
          /\ emitted[i].res \in DOMAIN deduped /\ emitted[i].type \in DOMAIN deduped[emitted[i].res]
      BY <2>2, EmittedForm DEF Typed, Shaped
    <3>2. deduped'[r][t] = deduped[r][t]
      BY <2>2, <2>4, <3>1, MemorySet
    <3>3. QED
      BY <1>1, <3>2
  <2>5. QED
    BY <2>3, <2>4
<1>4. ASSUME NEW q \in Resource, NEW u \in scene.types[q], Collect(q, u)
      PROVE  deduped' = deduped
  BY <1>4, CollectForm DEF agents
<1>5. (\E p \in Path : Absent(p) \/ Test(p)) \/ Tick \/ Tune \/ UNCHANGED vars => deduped' = deduped
  BY DEF Absent, Test, Tick, Tune, Widen, Lower, untuned, agents, vars
<1>6. QED
  BY <1>1, <1>2, <1>3, <1>4, <1>5 DEF Next

LEMMA RisingStep == Typed /\ Rising /\ [Next]_vars => Rising'
<1> SUFFICES ASSUME Typed, Rising, [Next]_vars PROVE Rising'
  OBVIOUS
<1>1. scene' = scene
  BY HistoryKept
<1> SUFFICES ASSUME NEW r \in Resource, NEW t \in scene.types[r], ~RacedKey(r, t)',
                    NEW p \in Path, NEW j \in DOMAIN fate'[p],
                    fate'[p][j].out \in Looked, emitted'[j].res = r, emitted'[j].type = t,
                    emitted'[j].source \notin RandomCluster
             PROVE  0 <= fate'[p][j].at /\ fate'[p][j].at <= deduped'[r][t]
  BY <1>1 DEF Rising
<1>2. ~RacedKey(r, t)
  BY RacedKept
<1>3. PICK d, later : /\ d = deduped[r][t] /\ later = deduped'[r][t]
                      /\ d \in Int /\ later \in Int /\ d <= later
  BY MemoryRises
<1>4. CASE j \in DOMAIN fate[p]
  <2>1. fate'[p][j] = fate[p][j] /\ j \in DOMAIN emitted /\ emitted'[j] = emitted[j]
        /\ fate[p][j] \in Outcome
    BY <1>4, HistoryKept, FateForm
  <2>2. 0 <= fate[p][j].at /\ fate[p][j].at <= d
    BY <1>2, <1>3, <1>4, <2>1 DEF Rising
  <2>3. PICK at : at = fate[p][j].at /\ at \in Int
    BY <2>1 DEF Outcome
  <2>4. at <= later
    BY <1>3, <2>2, <2>3
  <2>5. QED
    BY <1>3, <2>1, <2>2, <2>3, <2>4
<1>5. CASE j \notin DOMAIN fate[p]
  <2>1. Judge(p) /\ fate'[p][j].at = busy[p].at /\ j = Turn(p) /\ emitted' = emitted
    BY <1>5, DecidedForm DEF Looked
  <2>2. deduped'[r][t] = busy[p].at /\ busy[p].at \in Nat
    BY <2>1, UnracedForm
  <2>3. QED
    BY <2>1, <2>2
<1>6. QED
  BY <1>4, <1>5

LEMMA TimesStep == Typed /\ Times /\ [Next]_vars => Times'
<1> SUFFICES ASSUME Typed, Times, [Next]_vars PROVE Times'
  OBVIOUS
<1>1. ASSUME NEW p \in Live, NEW i \in DOMAIN fate'[p], fate'[p][i].out = "kept"
      PROVE  /\ p = "session" => fate'[p][i].at = emitted'[i].at
             /\ p = "worker" => fate'[p][i].at >= emitted'[i].at /\ Published(emitted'[i])
  <2>1. p \in Path
    BY DEF Path
  <2>2. CASE i \in DOMAIN fate[p]
    <3>1. fate'[p][i] = fate[p][i] /\ i \in DOMAIN emitted /\ emitted'[i] = emitted[i]
      BY <2>1, <2>2, HistoryKept, FateForm
    <3>2. QED
      BY <1>1, <2>2, <3>1 DEF Times
  <2>3. CASE i \notin DOMAIN fate[p]
    <3>1. /\ Judge(p) /\ fate'[p][i].at = busy[p].at /\ i = Turn(p) /\ emitted' = emitted
      BY <1>1, <2>1, <2>3, DecidedForm
    <3>2. busy[p] # Idle
      BY <2>1, <3>1, JudgeForm
    <3>3. QED
      BY <2>1, <3>1, <3>2 DEF Typed, Turns
  <2>4. QED
    BY <2>2, <2>3
<1>2. "session" \in Live /\ "worker" \in Live
  BY DEF Live
<1>3. QED
  BY <1>1, <1>2 DEF Times, Published

LEMMA ApartStep == Typed /\ Rising /\ Times /\ Times' /\ KeptApart /\ [Next]_vars => KeptApart'
<1> SUFFICES ASSUME Typed, Rising, Times, Times', KeptApart, [Next]_vars,
                    NEW i \in DOMAIN emitted', Kept("session", i)', Kept("worker", i)',
                    NEW r, NEW t, r = emitted'[i].res, t = emitted'[i].type, ~RacedKey(r, t)'
             PROVE  fate'["worker"][i].at - emitted'[i].at >= DedupeWindow
  BY DEF KeptApart
<1>1. {"session", "worker"} \subseteq Path
  BY DEF Path, Live
<1>2. ~RacedKey(r, t)
  BY RacedKept
<1>3. \A p \in Path : i \in DOMAIN fate[p] =>
        fate'[p][i] = fate[p][i] /\ i \in DOMAIN emitted /\ emitted'[i] = emitted[i]
  BY HistoryKept, FateForm
<1>4. PICK s, w, at : s = fate'["session"][i].at /\ w = fate'["worker"][i].at /\ at = emitted'[i].at
  OBVIOUS
<1>5. s = at /\ w >= at /\ Published(emitted'[i]) /\ emitted'[i].source \notin RandomCluster
  BY <1>4 DEF Times, Kept, Published, RandomCluster
<1>6. CASE i \in DOMAIN fate["session"] /\ i \in DOMAIN fate["worker"]
  <2>1. Kept("session", i) /\ Kept("worker", i) /\ i \in DOMAIN emitted /\ emitted'[i] = emitted[i]
        /\ fate'["worker"][i] = fate["worker"][i]
    BY <1>1, <1>3, <1>6 DEF Kept
  <2>2. QED
    BY <1>2, <2>1 DEF KeptApart
<1>7. ASSUME NEW p \in Path, NEW q \in Path, i \in DOMAIN fate'[p],
             i \notin DOMAIN fate[p], i \in DOMAIN fate[q], fate'[p][i].out = "kept", fate'[q][i].out = "kept"
      PROVE  /\ fate'[p][i].at \in Int /\ fate'[q][i].at \in Int /\ at \in Int
             /\ fate'[p][i].at - fate'[q][i].at >= DedupeWindow
  <2>1. /\ Judge(p) /\ fate'[p][i].at = busy[p].at /\ i = Turn(p) /\ i \in DOMAIN emitted
        /\ emitted' = emitted
    BY <1>7, DecidedForm
  <2>2. PICK d, later : /\ d = deduped[r][t] /\ later = busy[p].at /\ d \in Int /\ later \in Nat
                        /\ d = Never \/ later - d >= DedupeWindow
    BY <1>5, <2>1, UnracedForm
  <2>3. fate'[q][i] = fate[q][i] /\ fate[q][i] \in Outcome
    BY <1>3, <1>7, FateForm
  <2>4. PICK before : before = fate[q][i].at /\ before \in Int
    BY <2>3 DEF Outcome
  <2>5. r \in Resource /\ t \in scene.types[r] /\ at \in Int
    BY <1>4, <2>1, EmittedForm
  <2>6. 0 <= before /\ before <= d
    BY <1>2, <1>5, <1>7, <2>1, <2>2, <2>3, <2>4, <2>5 DEF Rising, Looked
  <2>7. later - before >= DedupeWindow
    BY <2>2, <2>4, <2>6, Constants
  <2>8. QED
    BY <2>1, <2>2, <2>3, <2>4, <2>5, <2>7
<1>8. \A p \in {"session", "worker"} : i \in DOMAIN fate'[p] /\ fate'[p][i].out = "kept"
  BY DEF Kept
<1>9. CASE i \notin DOMAIN fate["worker"] /\ i \in DOMAIN fate["session"]
  BY <1>1, <1>4, <1>5, <1>7, <1>8, <1>9
<1>10. CASE i \notin DOMAIN fate["session"] /\ i \in DOMAIN fate["worker"]
  <2>1. s \in Int /\ w \in Int /\ at \in Int /\ s - w >= DedupeWindow
    BY <1>1, <1>4, <1>7, <1>8, <1>10
  <2>2. FALSE
    BY <1>5, <2>1, Constants
  <2>3. QED
    BY <2>2
<1>11. CASE i \notin DOMAIN fate["session"] /\ i \notin DOMAIN fate["worker"]
  <2>1. Gains("session", fate'["session"][i])
    BY <1>1, <1>11, DecidedForm DEF Kept
  <2>2. fate'["worker"] = fate["worker"]
    BY <1>1, <2>1 DEF Gains
  <2>3. QED
    BY <1>11, <2>2 DEF Kept
<1>12. QED
  BY <1>6, <1>9, <1>10, <1>11

\* The session and the worker, which take every signal of the OpenShift collector, keep
\* it both only when the worker was behind by the deduplication window or signals of
\* its key were tested and recorded by turns (dedupe_agent.py): for any number of
\* signals, any windows, and replays that touch the same memory.
THEOREM OnceCorrect == Spec => []KeptOnce
<1>1. Init => Rising /\ Times /\ KeptApart
  <2> SUFFICES ASSUME Init PROVE Rising /\ Times /\ KeptApart
    OBVIOUS
  <2>1. \A p \in Path : DOMAIN fate[p] = {}
    BY DEF Init
  <2>2. DOMAIN emitted = {} /\ "session" \in Path /\ "worker" \in Path
    BY DEF Init, Path, Live
  <2>3. QED
    BY <2>1, <2>2 DEF Rising, Times, KeptApart
<1>2. Typed /\ Times /\ KeptApart => KeptOnce
  <2> SUFFICES ASSUME Typed, Times, KeptApart, NEW i \in DOMAIN emitted, \A p \in Live : Kept(p, i)
               PROVE  \/ fate["worker"][i].at - emitted[i].at >= DedupeWindow
                      \/ \E p \in Path : \E j \in DOMAIN fate[p] : SameKey(i, j) /\ fate[p][j].raced
    BY DEF KeptOnce
  <2>1. Kept("session", i) /\ Kept("worker", i)
    BY DEF Live
  <2>2. emitted[i].source \notin RandomCluster
    BY <2>1 DEF Times, Kept, Published, RandomCluster
  <2>3. CASE RacedKey(emitted[i].res, emitted[i].type)
    BY <2>2, <2>3 DEF RacedKey, SameKey
  <2>4. QED
    BY <2>1, <2>3 DEF KeptApart
<1>3. QED
  BY <1>1, <1>2, TypedAlways, RisingStep, TimesStep, ApartStep, PTL DEF Spec
=============================================================================
