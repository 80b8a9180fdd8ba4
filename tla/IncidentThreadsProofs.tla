----------------------- MODULE IncidentThreadsProofs -----------------------
(***************************************************************************)
(* Invariance proofs about IncidentThreads, for any number of feeders and  *)
(* any tasks: what the threads that share the manager without a lock may   *)
(* lose, repeat or duplicate, and by how much.                             *)
(*                                                                         *)
(* Each bound is kept by counting the threads that have checked and not    *)
(* yet acted: those about to append, about to create, about to set a flag. *)
(***************************************************************************)
EXTENDS IncidentThreads, Integers, SequenceTheorems, FiniteSetTheorems, TLAPS

USE IdAssumption, NoneAssumption, LimitsAssumption, ThreadAssumption

----------------------------------------------------------------------------
(* The inductive invariants *)

\* A thread's place fits the call it makes and the incident it found, of those
\* whose id is below n.
Placed(l, n) ==
  /\ l.at # "idle" => l.todo # << >> /\ l.key \in Key
  /\ l.at \in {"create", "rank", "raise"} => Head(l.todo).op = "signal"
  /\ l.at \in {"check", "notify", "flag"} => Head(l.todo).op \in {"signal", "infer", "offer"}
  /\ l.at = "apply" => Head(l.todo).op # "resolve"
  /\ l.at \notin {"idle", "start", "create"} => l.found \in Id /\ l.found < n

\* The API's thread only closes incidents, and only it does.
Roles ==
  /\ \A t \in Feeder : th[t].at \notin {"test", "unindex"}
  /\ th[Api].at \in {"idle", "test", "unindex", "snap", "enqueue"}
  /\ th[Api].at # "idle" => Op(Api) = "resolve" /\ Len(th[Api].todo) = 1

\* An incident is there once its id is drawn; an index entry leads to one.
Drawn ==
  /\ nextId >= 1
  /\ \A i \in Id : IF i < nextId THEN incs[i].status # "absent" /\ incs[i].key \in Key
                   ELSE incs[i] = Absent
  /\ \A k \in Key : index[k] # NoId => index[k] < nextId

Typed == TypeOK /\ (\A t \in Thread : Placed(th[t], nextId)) /\ Roles /\ Drawn

\* What SignalRecorded says, from the dedupe check on.
HasOrFull(t) == \/ Head(th[t].todo).sig \in ToSet(Inc(t).signals)
                \/ Len(Inc(t).signals) >= MaxSignals

AfterAppend == {"rank", "raise", "snap", "enqueue", "notify", "flag"}

Recorded ==
  \A t \in Feeder :
     Op(t) = "signal" /\ (th[t].at \in AfterAppend \/ (th[t].at = "apply" /\ ~th[t].sees))
       => HasOrFull(t)

\* The feeders about to append to incident i, having found room.
Appending(i) == { t \in Feeder : /\ th[t].at = "apply" /\ Op(t) = "signal"
                                 /\ th[t].sees /\ th[t].found = i }

Room == \A i \in Id :
  Len(incs[i].signals) + Cardinality(Appending(i)) <= MaxSignals + Cardinality(Feeder) - 1

\* The feeders that have notified of incident i and not yet set the flag.
Telling(i, ops) == { t \in Feeder : th[t].at = "flag" /\ Op(t) \in ops /\ th[t].found = i }
Escalating(i) == Telling(i, {"signal"})
Publishing(i) == Telling(i, {"infer", "offer"})

Told ==
  /\ NotifiedPerFeeder
  /\ \A i \in Id : /\ ~incs[i].escalated => tarsy[i] <= Cardinality(Escalating(i))
                   /\ ~incs[i].published => accepted[i] <= Cardinality(Publishing(i))

\* The incidents of key k, the feeders about to create one, and whether the
\* index leads to an open one.
Of(k)       == { i \in Id : incs[i].key = k }
Creating(k) == { t \in Feeder : th[t].at = "create" /\ th[t].key = k }
Leads(k)    == FindOpen(incs, index, k) # NoId

\* Each closing may take an entry twice; while resolve_incident has not come to
\* its `del`, once so far.
Losses == 2 * closes - IF th[Api].at \in {"test", "unindex"} THEN 1 ELSE 0

Few == \A k \in Key :
  IF Leads(k) THEN Cardinality(Of(k)) + Cardinality(Creating(k)) <= Cardinality(Feeder) * (1 + Losses)
              ELSE Cardinality(Of(k)) <= Cardinality(Feeder) * Losses

----------------------------------------------------------------------------
(* Calls and local states *)

LEMMA CallFields ==
  ASSUME NEW c \in Call
  PROVE  /\ c.op \in {"signal", "infer", "classify", "offer", "resolve"}
         /\ c.op = "signal" => c.sig \in Sig /\ c.sev \in Severity
         /\ c.op = "infer" => c.task \in Task /\ c.text \in Text \cup {None}
         /\ c.op = "classify" => c.class \in Class
         /\ c.op = "offer" => c.action \in Option
  BY DEF Call

LEMMA FirstCall ==
  ASSUME NEW l \in Local, l.todo # << >>
  PROVE  Head(l.todo) \in Call /\ Tail(l.todo) \in Seq(Call) /\ Len(l.todo) \in Nat
         /\ (Len(l.todo) # 1 => Tail(l.todo) # << >>)
<1>1. l.todo \in Seq(Call)
  BY DEF Local
<1>2. /\ Head(l.todo) \in Call /\ Tail(l.todo) \in Seq(Call)
      /\ Len(Tail(l.todo)) = Len(l.todo) - 1 /\ Len(l.todo) \in Nat
  BY <1>1, HeadTailProperties, LenProperties
<1>3. Len(l.todo) # 1 => Len(Tail(l.todo)) # 0
  BY <1>2
<1>4. Len(<< >>) = 0
  OBVIOUS
<1>5. QED
  BY <1>2, <1>3, <1>4

LEMMA AbsentType == Absent \in Incident
  BY DEF Absent, Incident, Status, Severity

LEMMA IdleType == Idle \in Local /\ Idle.at = "idle"
  BY AbsentType DEF Idle, Local, Place

\* Where a call's return leaves a thread.
LEMMA ReturnedForm ==
  ASSUME NEW l \in Local, l.todo # << >>, l.key \in Key, NEW n
  PROVE  /\ Returned(l) \in Local
         /\ Returned(l).at \in {"idle", "start"}
         /\ Placed(Returned(l), n)
<1>1. CASE Len(l.todo) = 1
  <2>1. Returned(l) = Idle
    BY <1>1 DEF Returned
  <2>2. QED
    BY <2>1, IdleType DEF Placed
<1>2. CASE Len(l.todo) # 1
  <2> DEFINE r == [ l EXCEPT !.at = "start", !.todo = Tail(l.todo), !.found = NoId,
                             !.sees = FALSE, !.row = Absent ]
  <2>1. Returned(l) = r
    BY <1>2 DEF Returned
  <2>2. Tail(l.todo) \in Seq(Call) /\ Tail(l.todo) # << >>
    BY <1>2, FirstCall
  <2>3. r \in Local /\ r.at = "start" /\ r.todo = Tail(l.todo) /\ r.key = l.key
    BY <2>2, AbsentType DEF Local, Place
  <2> HIDE DEF r
  <2>4. QED
    BY <2>1, <2>2, <2>3 DEF Placed
<1>3. QED
  BY <1>1, <1>2

----------------------------------------------------------------------------
(* What a step may make of an incident *)

Grown(old, inc) ==
  /\ IsPrefix(old.signals, inc.signals)
  /\ old.count <= inc.count
  /\ old.infers <= inc.infers
  /\ old.options \subseteq inc.options
  /\ old.escalated => inc.escalated
  /\ old.published => inc.published

LEMMA PrefixElements ==
  ASSUME NEW S, NEW a \in Seq(S), NEW b \in Seq(S)
  PROVE  IsPrefix(a, b) <=> Len(a) <= Len(b) /\ \A n \in 1..Len(a) : a[n] = b[n]
<1>1. /\ Len(a) \in Nat /\ Len(b) \in Nat
      /\ \A n \in 1..Len(a) : a[n] \in S
      /\ \A n \in 1..Len(b) : b[n] \in S
  BY LenProperties, ElementOfSeq
<1>2. SUFFICES ASSUME Len(a) <= Len(b)
               PROVE  SubSeq(a, 1, Len(a)) = SubSeq(b, 1, Len(a))
                        <=> \A n \in 1..Len(a) : a[n] = b[n]
  BY DEF IsPrefix
<1>3. SubSeq(a, 1, Len(a)) = a
  BY SubSeqFull
<1> DEFINE p == SubSeq(b, 1, Len(a))
<1>4. /\ p \in Seq(S)
      /\ Len(p) = Len(a)
      /\ \A n \in 1..Len(a) : p[n] = b[n]
  <2>1. \A n \in 1..Len(a) : b[n] \in S
    BY <1>1, <1>2
  <2>2. p \in Seq(S) /\ Len(p) = (IF 1 <= Len(a) THEN Len(a) - 1 + 1 ELSE 0)
    BY <1>1, <2>1, SubSeqProperties
  <2>3. \A n \in 1..(Len(a) - 1 + 1) : p[n] = b[1 + n - 1]
    BY <1>1, <2>1, SubSeqProperties
  <2> HIDE DEF p
  <2>4. QED
    BY <1>1, <2>2, <2>3
<1> HIDE DEF p
<1>5. a = p <=> \A n \in 1..Len(a) : a[n] = p[n]
  BY <1>4, SeqEqual
<1>6. QED
  BY <1>3, <1>4, <1>5 DEF p

\* What was in a sequence is in each longer one, and its append has the new one.
LEMMA PrefixHas ==
  ASSUME NEW S, NEW a \in Seq(S), NEW b \in Seq(S), IsPrefix(a, b)
  PROVE  ToSet(a) \subseteq ToSet(b) /\ Len(a) <= Len(b)
<1>1. Len(a) \in Nat /\ Len(b) \in Nat /\ DOMAIN a = 1..Len(a) /\ DOMAIN b = 1..Len(b)
  BY LenProperties
<1>2. Len(a) <= Len(b) /\ \A n \in 1..Len(a) : a[n] = b[n]
  BY PrefixElements
<1>3. \A n \in 1..Len(a) : n \in 1..Len(b)
  BY <1>1, <1>2
<1>4. QED
  BY <1>1, <1>2, <1>3 DEF ToSet

LEMMA AppendHas ==
  ASSUME NEW S, NEW s \in Seq(S), NEW e \in S
  PROVE  /\ Append(s, e) \in Seq(S)
         /\ Len(Append(s, e)) = Len(s) + 1
         /\ IsPrefix(s, Append(s, e))
         /\ e \in ToSet(Append(s, e))
<1> DEFINE longer == Append(s, e)
<1>1. /\ longer \in Seq(S) /\ Len(longer) = Len(s) + 1 /\ Len(s) \in Nat
      /\ \A n \in 1..Len(s) : longer[n] = s[n]
      /\ longer[Len(s) + 1] = e
      /\ DOMAIN longer = 1..Len(longer)
  BY AppendProperties, LenProperties
<1> HIDE DEF longer
<1>2. IsPrefix(s, longer)
  BY <1>1, PrefixElements
<1>3. Len(s) + 1 \in 1..Len(longer)
  BY <1>1
<1>4. e \in ToSet(longer)
  BY <1>1, <1>3 DEF ToSet
<1>5. QED
  BY <1>1, <1>2, <1>4 DEF longer

LEMMA GrownItself ==
  ASSUME NEW inc \in Incident
  PROVE  Grown(inc, inc)
<1>1. inc.signals \in Seq(Sig) /\ inc.count \in Nat /\ inc.infers \in Nat
  BY DEF Incident
<1>2. IsPrefix(inc.signals, inc.signals)
  BY <1>1, LenProperties DEF IsPrefix
<1>3. QED
  BY <1>1, <1>2 DEF Grown

LEMMA NewIncidentType ==
  ASSUME NEW k \in Key, NEW sig \in Sig, NEW sev \in Severity
  PROVE  /\ NewIncident(k, sig, sev, 0) \in Incident
         /\ NewIncident(k, sig, sev, 0).key = k
         /\ NewIncident(k, sig, sev, 0).status = "open"
         /\ NewIncident(k, sig, sev, 0).signals = <<sig>>
  BY DEF NewIncident, Incident, Status

LEMMA WithSignalForm ==
  ASSUME NEW inc \in Incident, NEW sig \in Sig
  PROVE  /\ WithSignal(inc, sig) \in Incident
         /\ WithSignal(inc, sig).signals = Append(inc.signals, sig)
         /\ WithSignal(inc, sig).key = inc.key
         /\ WithSignal(inc, sig).status = inc.status
         /\ WithSignal(inc, sig).escalated = inc.escalated
         /\ WithSignal(inc, sig).published = inc.published
         /\ Grown(inc, WithSignal(inc, sig))
<1>1. /\ Append(inc.signals, sig) \in Seq(Sig) /\ inc.count + 1 \in Nat
      /\ inc.count <= inc.count + 1
      /\ IsPrefix(inc.signals, Append(inc.signals, sig))
  BY AppendHas DEF Incident
<1>2. WithSignal(inc, sig) \in Incident
  BY <1>1 DEF WithSignal, Incident
<1>3. /\ WithSignal(inc, sig).signals = Append(inc.signals, sig)
      /\ WithSignal(inc, sig).count = inc.count + 1
      /\ WithSignal(inc, sig).key = inc.key
      /\ WithSignal(inc, sig).status = inc.status
      /\ WithSignal(inc, sig).infers = inc.infers
      /\ WithSignal(inc, sig).options = inc.options
      /\ WithSignal(inc, sig).escalated = inc.escalated
      /\ WithSignal(inc, sig).published = inc.published
  BY DEF WithSignal, Incident
<1>4. Grown(inc, inc)
  BY GrownItself
<1>5. QED
  BY <1>1, <1>2, <1>3, <1>4 DEF Grown

\* What the enrichment methods make of an incident.
LEMMA EnrichForm ==
  ASSUME NEW inc \in Incident, NEW new,
         \/ \E c \in Class : new = Classified(inc, c)
         \/ \E task \in Task, text \in Text \cup {None} : new = Inferred(inc, task, text)
         \/ \E a \in Option : new = Offered(inc, a)
  PROVE  /\ new \in Incident /\ Grown(inc, new)
         /\ new.signals = inc.signals /\ new.key = inc.key /\ new.status = inc.status
         /\ new.escalated = inc.escalated /\ new.published = inc.published
<1>1. /\ inc.infers \in Nat /\ inc.infers + 1 \in Nat /\ inc.infers <= inc.infers + 1
      /\ \A a \in Option : inc.options \cup {a} \in SUBSET Option
  BY DEF Incident
<1>2. new \in Incident
  <2>1. ASSUME NEW c \in Class, new = Classified(inc, c) PROVE new \in Incident
    BY <2>1 DEF Classified, Incident
  <2>2. ASSUME NEW task \in Task, NEW text \in Text \cup {None}, new = Inferred(inc, task, text)
        PROVE  new \in Incident
    <3>1. (IF task \in RcaTask THEN text ELSE inc.rca) \in Text \cup {None}
      BY DEF Incident
    <3>2. QED
      BY <1>1, <2>2, <3>1 DEF Inferred, Incident
  <2>3. ASSUME NEW a \in Option, new = Offered(inc, a) PROVE new \in Incident
    BY <1>1, <2>3 DEF Offered, Incident
  <2>4. QED
    BY <2>1, <2>2, <2>3
<1>3. /\ new.signals = inc.signals /\ new.key = inc.key /\ new.status = inc.status
      /\ new.count = inc.count
      /\ new.escalated = inc.escalated /\ new.published = inc.published
      /\ new.infers \in {inc.infers, inc.infers + 1} /\ inc.options \subseteq new.options
  BY DEF Classified, Inferred, Offered, Incident
<1>4. Grown(inc, inc)
  BY GrownItself
<1>5. QED
  BY <1>1, <1>2, <1>3, <1>4 DEF Grown

\* Apply: a signal that was seen to be fresh is appended, whatever is there by
\* now; nothing else touches the signals.
LEMMA EnrichedForm ==
  ASSUME NEW inc \in Incident, NEW call \in Call, call.op # "resolve", NEW sees \in BOOLEAN
  PROVE  LET new == Enriched(inc, call, sees)
         IN  /\ new \in Incident /\ Grown(inc, new)
             /\ new.key = inc.key /\ new.status = inc.status
             /\ new.escalated = inc.escalated /\ new.published = inc.published
             /\ new.signals = IF call.op = "signal" /\ sees THEN Append(inc.signals, call.sig)
                              ELSE inc.signals
<1> DEFINE new == Enriched(inc, call, sees)
<1>1. CASE call.op = "signal"
  <2>1. call.sig \in Sig /\ new = IF sees THEN WithSignal(inc, call.sig) ELSE inc
    BY <1>1, CallFields DEF Enriched
  <2> HIDE DEF new
  <2>2. CASE sees
    BY <1>1, <2>1, <2>2, WithSignalForm DEF new
  <2>3. CASE ~sees
    BY <1>1, <2>1, <2>3, GrownItself DEF new
  <2>4. QED
    BY <2>2, <2>3
<1>2. CASE call.op # "signal"
  <2>1. \/ \E c \in Class : new = Classified(inc, c)
        \/ \E task \in Task, text \in Text \cup {None} : new = Inferred(inc, task, text)
        \/ \E a \in Option : new = Offered(inc, a)
    BY <1>2, CallFields DEF Enriched
  <2> HIDE DEF new
  <2>2. QED
    BY <1>2, <2>1, EnrichForm DEF new
<1>3. QED
  BY <1>1, <1>2

LEMMA ChangedForm ==
  ASSUME NEW inc \in Incident, NEW new,
         \/ new = [ inc EXCEPT !.escalated = TRUE ]
         \/ new = [ inc EXCEPT !.published = TRUE ]
         \/ \E sev \in Severity : new = [ inc EXCEPT !.severity = sev ]
         \/ \E s \in Status : new = [ inc EXCEPT !.status = s ]
  PROVE  /\ new \in Incident /\ Grown(inc, new)
         /\ new.signals = inc.signals /\ new.key = inc.key
<1>1. Grown(inc, inc)
  BY GrownItself
<1>2. new \in Incident
  BY DEF Incident
<1>3. /\ new.signals = inc.signals /\ new.key = inc.key /\ new.count = inc.count
      /\ new.infers = inc.infers /\ new.options = inc.options
      /\ inc.escalated => new.escalated
      /\ inc.published => new.published
  BY DEF Incident
<1>4. QED
  BY <1>1, <1>2, <1>3 DEF Grown

----------------------------------------------------------------------------
(* What each step does to its thread and to the incident it found *)

Moved(t) == th' \in [Thread -> Local] /\ \A u \in Thread \ {t} : th'[u] = th[u]

Stays(t) ==
  /\ th'[t].todo = th[t].todo /\ th'[t].key = th[t].key
  /\ th'[t].found = th[t].found

Done(t) == th'[t].at \in {"idle", "start"}

\* Only incident i changes, into inc.
Changes(i, inc) ==
  /\ incs' \in [Id -> Incident]
  /\ incs'[i] = inc
  /\ \A j \in Id \ {i} : incs'[j] = incs[j]

Dictionaries == <<incs, index, nextId>>
Notified     == <<tarsy, accepted>>

LEMMA AtWork ==
  ASSUME Typed, NEW t \in Thread, th[t].at # "idle"
  PROVE  /\ th[t] \in Local /\ th[t].todo # << >> /\ th[t].key \in Key
         /\ Head(th[t].todo) \in Call
         /\ Placed(th[t], nextId)
<1>1. th[t] \in Local /\ Placed(th[t], nextId)
  BY DEF Typed, TypeOK
<1>2. th[t].todo # << >> /\ th[t].key \in Key
  BY <1>1 DEF Placed
<1>3. QED
  BY <1>1, <1>2, FirstCall

LEMMA AtIncident ==
  ASSUME Typed, NEW t \in Thread, th[t].at \notin {"idle", "start", "create"}
  PROVE  /\ th[t].found \in Id /\ th[t].found < nextId
         /\ Inc(t) \in Incident /\ Inc(t).status # "absent" /\ Inc(t).key \in Key
         /\ Inc(t) = incs[th[t].found]
<1>1. th[t].found \in Id /\ th[t].found < nextId
  BY DEF Typed, TypeOK, Placed
<1>2. QED
  BY <1>1 DEF Typed, TypeOK, Drawn, Inc

LEMMA GotoForm ==
  ASSUME Typed, NEW t \in Thread, NEW place \in Place, Goto(t, place)
  PROVE  /\ Moved(t) /\ Stays(t) /\ th'[t].at = place
         /\ th'[t].sees = th[t].sees /\ th'[t].row = th[t].row
<1>1. th \in [Thread -> Local] /\ th[t] \in Local
  BY DEF Typed, TypeOK
<1> DEFINE l == [ th[t] EXCEPT !.at = place ]
<1>2. /\ l \in Local /\ l.at = place /\ l.todo = th[t].todo /\ l.key = th[t].key
      /\ l.found = th[t].found /\ l.sees = th[t].sees /\ l.row = th[t].row
  BY <1>1 DEF Local
<1>3. th' = [ th EXCEPT ![t] = l ]
  BY DEF Goto
<1> HIDE DEF l
<1>4. QED
  BY <1>1, <1>2, <1>3 DEF Moved, Stays

LEMMA ReturnForm ==
  ASSUME Typed, NEW t \in Thread, th[t].at # "idle", Return(t)
  PROVE  Moved(t) /\ Done(t) /\ \A n : Placed(th'[t], n)
<1> DEFINE l == Returned(th[t])
<1>1. l \in Local /\ l.at \in {"idle", "start"} /\ \A n : Placed(l, n)
  BY AtWork, ReturnedForm
<1>2. th' = [ th EXCEPT ![t] = l ]
  BY DEF Return
<1> HIDE DEF l
<1>3. QED
  BY <1>1, <1>2 DEF Typed, TypeOK, Moved, Done

LEMMA SetIncForm ==
  ASSUME Typed, NEW t \in Thread, th[t].found \in Id, NEW inc \in Incident, SetInc(t, inc)
  PROVE  Changes(th[t].found, inc)
  BY DEF Typed, TypeOK, SetInc, Changes

LEMMA FindOpenForm ==
  ASSUME Typed, NEW k \in Key
  PROVE  LET i == FindOpen(incs, index, k)
         IN  i # NoId => i \in Id /\ i < nextId /\ incs[i].status = "open"
<1>1. index[k] \in Id \cup {NoId} /\ (index[k] # NoId => index[k] < nextId)
  BY DEF Typed, TypeOK, Drawn
<1>2. QED
  BY <1>1 DEF FindOpen

LEMMA StartFeedForm ==
  ASSUME Typed, NEW t \in Feeder, NEW feed \in Feeds, StartFeed(t, feed)
  PROVE  /\ Moved(t) /\ th[t].at = "idle" /\ th'[t].at = "start" /\ Placed(th'[t], nextId)
         /\ UNCHANGED <<Dictionaries, Notified, stored, closes>> /\ fed' = fed + 1
<1> DEFINE l == [ Idle EXCEPT !.at = "start", !.key = feed.key, !.todo = feed.calls ]
<1>1. feed.key \in Key /\ feed.calls \in Seq(Call) /\ feed.calls # << >>
  BY FeedAssumption DEF Feed
<1>2. l \in Local /\ l.at = "start" /\ l.todo = feed.calls /\ l.key = feed.key
  BY <1>1, IdleType DEF Local, Place
<1>3. th' = [ th EXCEPT ![t] = l ] /\ t \in Thread
  BY DEF StartFeed, Thread
<1> HIDE DEF l
<1>4. Moved(t) /\ th'[t] = l
  BY <1>2, <1>3 DEF Typed, TypeOK, Moved
<1>5. QED
  BY <1>1, <1>2, <1>4 DEF StartFeed, Placed, Dictionaries, Notified

LEMMA LookSignalForm ==
  ASSUME Typed, NEW t \in Thread, LookSignal(t)
  PROVE  /\ Moved(t) /\ th[t].at = "start" /\ Op(t) = "signal"
         /\ th'[t].todo = th[t].todo /\ th'[t].key = th[t].key
         /\ IF Leads(th[t].key) THEN th'[t].at = "check" ELSE th'[t].at = "create"
         /\ Placed(th'[t], nextId)
         /\ UNCHANGED <<Dictionaries, Notified, stored, fed, closes>>
<1> DEFINE i == FindOpen(incs, index, th[t].key)
           place == IF i = NoId THEN "create" ELSE "check"
           l == [ th[t] EXCEPT !.found = i, !.at = place ]
<1>1. th[t].at = "start" /\ Op(t) = "signal"
  BY DEF LookSignal, AtOp
<1>2. /\ th[t] \in Local /\ th[t].todo # << >> /\ th[t].key \in Key
      /\ Head(th[t].todo).op = "signal"
  BY <1>1, AtWork DEF Op
<1>3. i \in Id \cup {NoId} /\ (i # NoId => i < nextId)
  BY <1>2, FindOpenForm
<1>4. th' = [ th EXCEPT ![t] = l ]
  BY DEF LookSignal
<1>5. place \in Place
  BY DEF Place
<1>6. (i # NoId <=> Leads(th[t].key)) /\ place = IF Leads(th[t].key) THEN "check" ELSE "create"
  BY DEF Leads
<1> HIDE DEF i, place
<1>7. /\ l \in Local /\ l.at = place /\ l.todo = th[t].todo /\ l.key = th[t].key
      /\ l.found = i
  BY <1>2, <1>3, <1>5 DEF Local
<1> HIDE DEF l
<1>8. Moved(t) /\ th'[t] = l
  BY <1>4, <1>7 DEF Typed, TypeOK, Moved
<1>9. Placed(l, nextId)
  BY <1>2, <1>3, <1>6, <1>7 DEF Placed
<1>10. UNCHANGED <<Dictionaries, Notified, stored, fed, closes>>
  BY DEF LookSignal, Dictionaries, Notified
<1>11. QED
  BY <1>1, <1>6, <1>7, <1>8, <1>9, <1>10

LEMMA LookEnrichForm ==
  ASSUME Typed, NEW t \in Thread, LookEnrich(t)
  PROVE  /\ Moved(t) /\ th[t].at = "start"
         /\ \/ Done(t)
            \/ /\ th'[t].at \in {"apply", "check"} /\ th'[t].todo = th[t].todo
               /\ Op(t) # "signal"
         /\ Placed(th'[t], nextId)
         /\ UNCHANGED <<Dictionaries, Notified, stored, fed, closes>>
<1> DEFINE i == FindOpen(incs, index, th[t].key)
           place == IF Op(t) = "classify" THEN "apply" ELSE "check"
           l == [ th[t] EXCEPT !.found = i, !.at = place ]
<1>1. /\ th[t].at = "start" /\ Op(t) \in {"infer", "classify", "offer"}
      /\ UNCHANGED <<Dictionaries, Notified, stored, fed, closes>>
  BY DEF LookEnrich, AtOp, Dictionaries, Notified
<1>2. th[t] \in Local /\ th[t].todo # << >> /\ th[t].key \in Key
  BY <1>1, AtWork
<1>3. i # NoId => i \in Id /\ i < nextId
  BY <1>2, FindOpenForm
<1>4. CASE i = NoId
  BY <1>1, <1>4, ReturnForm DEF LookEnrich
<1>5. CASE i # NoId
  <2>1. th' = [ th EXCEPT ![t] = l ]
    BY <1>5 DEF LookEnrich
  <2>2. place \in {"apply", "check"} /\ place \in Place
        /\ (place = "check" => Op(t) \in {"infer", "offer"})
    BY <1>1 DEF Place
  <2> HIDE DEF i, place
  <2>3. /\ l \in Local /\ l.at = place /\ l.todo = th[t].todo /\ l.key = th[t].key
        /\ l.found = i
    BY <1>2, <1>3, <1>5, <2>2 DEF Local
  <2> HIDE DEF l
  <2>4. Moved(t) /\ th'[t] = l
    BY <2>1, <2>3 DEF Typed, TypeOK, Moved
  <2>5. Placed(l, nextId)
    BY <1>1, <1>2, <1>3, <1>5, <2>2, <2>3 DEF Placed, Op
  <2>6. QED
    BY <1>1, <2>2, <2>3, <2>4, <2>5
<1>6. QED
  BY <1>4, <1>5

LEMMA CreateForm ==
  ASSUME Typed, NEW t \in Thread, Create(t)
  PROVE  /\ Moved(t) /\ th[t].at = "create" /\ Op(t) = "signal"
         /\ th'[t].todo = th[t].todo /\ th'[t].key = th[t].key
         /\ th'[t].at = "snap" /\ th'[t].found = nextId
         /\ Placed(th'[t], nextId + 1)
         /\ nextId \in Id /\ nextId' = nextId + 1
         /\ th[t].key \in Key
         /\ \E inc \in Incident : /\ Changes(nextId, inc)
                                  /\ inc.key = th[t].key /\ inc.status = "open"
                                  /\ inc.signals = <<Head(th[t].todo).sig>>
         /\ index' = [ index EXCEPT ![th[t].key] = nextId ]
         /\ UNCHANGED <<Notified, stored, fed, closes>>
<1> DEFINE c == Head(th[t].todo)
           inc == NewIncident(th[t].key, c.sig, c.sev, 0)
           l == [ th[t] EXCEPT !.found = nextId, !.at = "snap" ]
<1>1. th[t].at = "create" /\ nextId \in Id
  BY DEF Create
<1>2. th[t] \in Local /\ th[t].todo # << >> /\ th[t].key \in Key /\ c \in Call /\ c.op = "signal"
  BY <1>1, AtWork DEF Placed
<1>3. c.sig \in Sig /\ c.sev \in Severity
  BY <1>2, CallFields
<1>4. incs' = [ incs EXCEPT ![nextId] = inc ] /\ th' = [ th EXCEPT ![t] = l ]
  BY DEF Create
<1>5. Op(t) = "signal"
  BY <1>2 DEF Op
<1>6. inc \in Incident /\ inc.key = th[t].key /\ inc.status = "open" /\ inc.signals = <<c.sig>>
  BY <1>2, <1>3, NewIncidentType
<1> HIDE DEF inc
<1>7. Changes(nextId, inc)
  BY <1>1, <1>4, <1>6 DEF Typed, TypeOK, Changes
<1>8. /\ l \in Local /\ l.at = "snap" /\ l.todo = th[t].todo /\ l.key = th[t].key
      /\ l.found = nextId
  BY <1>1, <1>2 DEF Local, Place
<1> HIDE DEF l
<1>9. Moved(t) /\ th'[t] = l
  BY <1>4, <1>8 DEF Typed, TypeOK, Moved
<1>10. Placed(l, nextId + 1)
  BY <1>1, <1>2, <1>8 DEF Placed
<1>11. nextId' = nextId + 1 /\ UNCHANGED <<Notified, stored, fed, closes>>
       /\ index' = [ index EXCEPT ![th[t].key] = nextId ]
  BY DEF Create, Notified
<1>12. QED
  BY <1>1, <1>2, <1>5, <1>6, <1>7, <1>8, <1>9, <1>10, <1>11

LEMMA CheckForm ==
  ASSUME Typed, NEW t \in Thread, Check(t)
  PROVE  /\ Moved(t) /\ th[t].at = "check"
         /\ \/ Done(t) /\ Op(t) # "signal"
            \/ /\ Stays(t) /\ th'[t].at = "apply"
               /\ Op(t) = "signal" => (th'[t].sees <=> Fresh(Inc(t), Head(th[t].todo).sig))
         /\ Placed(th'[t], nextId)
         /\ UNCHANGED <<Dictionaries, Notified, stored, fed, closes>>
<1> DEFINE call == Head(th[t].todo)
           may  == CASE call.op = "signal" -> Fresh(Inc(t), call.sig)
                     [] call.op = "infer"  -> CanInfer(Inc(t))
                     [] call.op = "offer"  -> CanOffer(Inc(t), call.action)
           l == [ th[t] EXCEPT !.sees = may, !.at = "apply" ]
<1>1. /\ th[t].at = "check"
      /\ IF may \/ call.op = "signal"
         THEN th' = [ th EXCEPT ![t].sees = may, ![t].at = "apply" ]
         ELSE Return(t)
      /\ UNCHANGED <<Dictionaries, Notified, stored, fed, closes>>
  BY DEF Check, Dictionaries, Notified
<1>2. /\ th[t] \in Local /\ th[t].todo # << >> /\ th[t].key \in Key
      /\ call.op \in {"signal", "infer", "offer"}
      /\ th[t].found \in Id /\ th[t].found < nextId
  BY <1>1, AtWork, AtIncident DEF Placed
<1>3. may \in BOOLEAN /\ (call.op = "signal" => (may <=> Fresh(Inc(t), call.sig)))
  <2>1. /\ Fresh(Inc(t), call.sig) \in BOOLEAN /\ CanInfer(Inc(t)) \in BOOLEAN
        /\ CanOffer(Inc(t), call.action) \in BOOLEAN
    BY DEF Fresh, CanInfer, CanOffer
  <2>2. CASE call.op = "signal"
    BY <2>1, <2>2
  <2>3. CASE call.op = "infer"
    BY <2>1, <2>3
  <2>4. CASE call.op = "offer"
    BY <2>1, <2>4
  <2>5. QED
    BY <1>2, <2>2, <2>3, <2>4
<1>4. Op(t) = call.op
  BY DEF Op
<1> HIDE DEF may
<1>5. CASE ~(may \/ call.op = "signal")
  <2>1. Return(t)
    BY <1>1, <1>5
  <2>2. Moved(t) /\ Done(t) /\ Placed(th'[t], nextId)
    BY <1>1, <2>1, ReturnForm
  <2>3. QED
    BY <1>1, <1>4, <1>5, <2>2
<1>6. CASE may \/ call.op = "signal"
  <2>1. th' = [ th EXCEPT ![t] = l ]
    BY <1>1, <1>6
  <2>2. /\ l \in Local /\ l.at = "apply" /\ l.sees = may /\ l.todo = th[t].todo
        /\ l.key = th[t].key /\ l.found = th[t].found
    BY <1>2, <1>3 DEF Local, Place
  <2> HIDE DEF l
  <2>3. Moved(t) /\ th'[t] = l
    BY <2>1, <2>2 DEF Typed, TypeOK, Moved
  <2>4. Placed(l, nextId)
    BY <1>2, <2>2 DEF Placed
  <2>5. Stays(t) /\ th'[t].at = "apply" /\ th'[t].sees = may
    BY <2>2, <2>3 DEF Stays
  <2>6. QED
    BY <1>1, <1>3, <1>4, <2>3, <2>4, <2>5
<1>7. QED
  BY <1>5, <1>6

LEMMA ApplyForm ==
  ASSUME Typed, NEW t \in Thread, Apply(t)
  PROVE  /\ Moved(t) /\ Stays(t) /\ th[t].at = "apply"
         /\ th'[t].at = IF Op(t) = "signal" THEN "rank" ELSE "snap"
         /\ Placed(th'[t], nextId)
         /\ \E new \in Incident :
              /\ Changes(th[t].found, new) /\ Grown(Inc(t), new)
              /\ new.key = Inc(t).key /\ new.status = Inc(t).status
              /\ new.escalated = Inc(t).escalated /\ new.published = Inc(t).published
              /\ new.signals = IF Op(t) = "signal" /\ th[t].sees
                               THEN Append(Inc(t).signals, Head(th[t].todo).sig)
                               ELSE Inc(t).signals
         /\ UNCHANGED <<index, nextId, Notified, stored, fed, closes>>
<1> DEFINE call == Head(th[t].todo)
           new == Enriched(Inc(t), call, th[t].sees)
           place == IF Op(t) = "signal" THEN "rank" ELSE "snap"
<1>1. /\ th[t].at = "apply" /\ SetInc(t, new) /\ Goto(t, place)
      /\ UNCHANGED <<index, nextId, Notified, stored, fed, closes>>
  BY DEF Apply, Notified
<1>2. /\ th[t] \in Local /\ call \in Call /\ call.op # "resolve" /\ th[t].sees \in BOOLEAN
      /\ Inc(t) \in Incident /\ th[t].found \in Id /\ th[t].found < nextId
      /\ th[t].todo # << >> /\ th[t].key \in Key
  BY <1>1, AtWork, AtIncident DEF Placed, Local
<1>3. /\ new \in Incident /\ Grown(Inc(t), new)
      /\ new.key = Inc(t).key /\ new.status = Inc(t).status
      /\ new.escalated = Inc(t).escalated /\ new.published = Inc(t).published
      /\ new.signals = IF call.op = "signal" /\ th[t].sees
                       THEN Append(Inc(t).signals, call.sig) ELSE Inc(t).signals
  BY <1>2, EnrichedForm
<1>4. Op(t) = call.op /\ place \in Place
  BY DEF Op, Place
<1> HIDE DEF new
<1>5. Changes(th[t].found, new)
  BY <1>1, <1>2, <1>3, SetIncForm
<1>6. Moved(t) /\ Stays(t) /\ th'[t].at = place
  BY <1>1, <1>4, GotoForm
<1>7. Placed(th'[t], nextId)
  BY <1>2, <1>4, <1>6 DEF Placed, Stays
<1>8. QED
  BY <1>1, <1>3, <1>4, <1>5, <1>6, <1>7

LEMMA RankForm ==
  ASSUME Typed, NEW t \in Thread, Rank(t)
  PROVE  /\ Moved(t) /\ Stays(t) /\ th[t].at = "rank" /\ th'[t].at = "raise"
         /\ Placed(th'[t], nextId)
         /\ UNCHANGED <<Dictionaries, Notified, stored, fed, closes>>
<1> DEFINE more == SevRank[Head(th[t].todo).sev] > SevRank[Inc(t).severity]
           l == [ th[t] EXCEPT !.sees = more, !.at = "raise" ]
<1>1. /\ th[t].at = "rank" /\ th' = [ th EXCEPT ![t] = l ]
      /\ UNCHANGED <<Dictionaries, Notified, stored, fed, closes>>
  BY DEF Rank, Dictionaries, Notified
<1>2. th[t] \in Local /\ Placed(th[t], nextId) /\ more \in BOOLEAN
  BY <1>1, AtWork
<1> HIDE DEF more
<1>3. /\ l \in Local /\ l.at = "raise" /\ l.todo = th[t].todo
      /\ l.key = th[t].key /\ l.found = th[t].found
  BY <1>2 DEF Local, Place
<1> HIDE DEF l
<1>4. Moved(t) /\ th'[t] = l
  BY <1>1, <1>3 DEF Typed, TypeOK, Moved
<1>5. Placed(l, nextId)
  BY <1>1, <1>2, <1>3 DEF Placed
<1>6. QED
  BY <1>1, <1>3, <1>4, <1>5 DEF Stays

LEMMA RaiseForm ==
  ASSUME Typed, NEW t \in Thread, Raise(t)
  PROVE  /\ Moved(t) /\ Stays(t) /\ th[t].at = "raise" /\ th'[t].at = "snap"
         /\ Placed(th'[t], nextId)
         /\ \E new \in Incident :
              /\ Changes(th[t].found, new) /\ Grown(Inc(t), new)
              /\ new.key = Inc(t).key /\ new.status = Inc(t).status
              /\ new.escalated = Inc(t).escalated /\ new.published = Inc(t).published
              /\ new.signals = Inc(t).signals
         /\ UNCHANGED <<index, nextId, Notified, stored, fed, closes>>
<1> DEFINE call == Head(th[t].todo)
           new == IF th[t].sees THEN [ Inc(t) EXCEPT !.severity = call.sev ] ELSE Inc(t)
<1>1. /\ th[t].at = "raise" /\ SetInc(t, new) /\ Goto(t, "snap")
      /\ UNCHANGED <<index, nextId, Notified, stored, fed, closes>>
  BY DEF Raise, Notified
<1>2. /\ Placed(th[t], nextId) /\ call \in Call /\ call.op = "signal"
      /\ Inc(t) \in Incident /\ th[t].found \in Id
  BY <1>1, AtWork, AtIncident DEF Placed
<1>3. call.sev \in Severity
  BY <1>2, CallFields
<1>4. /\ new \in Incident /\ Grown(Inc(t), new)
      /\ new.key = Inc(t).key /\ new.signals = Inc(t).signals
  <2>1. CASE th[t].sees
    BY <1>2, <1>3, <2>1, ChangedForm
  <2>2. CASE ~th[t].sees
    BY <1>2, <2>2, GrownItself
  <2>3. QED
    BY <2>1, <2>2
<1>5. /\ new.status = Inc(t).status /\ new.escalated = Inc(t).escalated
      /\ new.published = Inc(t).published
  BY <1>2 DEF Incident
<1> HIDE DEF new
<1>6. Changes(th[t].found, new)
  BY <1>1, <1>2, <1>4, SetIncForm
<1>7. Moved(t) /\ Stays(t) /\ th'[t].at = "snap"
  BY <1>1, GotoForm DEF Place
<1>8. Placed(th'[t], nextId)
  BY <1>1, <1>2, <1>7 DEF Placed, Stays
<1>9. QED
  BY <1>1, <1>4, <1>5, <1>6, <1>7, <1>8

LEMMA SnapForm ==
  ASSUME Typed, NEW t \in Thread, Snap(t)
  PROVE  /\ Moved(t) /\ Stays(t) /\ th[t].at = "snap" /\ th'[t].at = "enqueue"
         /\ Placed(th'[t], nextId)
         /\ UNCHANGED <<Dictionaries, Notified, stored, fed, closes>>
<1> DEFINE l == [ th[t] EXCEPT !.row = Inc(t), !.at = "enqueue" ]
<1>1. /\ th[t].at = "snap" /\ th' = [ th EXCEPT ![t] = l ]
      /\ UNCHANGED <<Dictionaries, Notified, stored, fed, closes>>
  BY DEF Snap, Dictionaries, Notified
<1>2. th[t] \in Local /\ Placed(th[t], nextId) /\ Inc(t) \in Incident
  BY <1>1, AtWork, AtIncident
<1>3. /\ l \in Local /\ l.at = "enqueue" /\ l.todo = th[t].todo
      /\ l.key = th[t].key /\ l.found = th[t].found
  BY <1>2 DEF Local, Place
<1> HIDE DEF l
<1>4. Moved(t) /\ th'[t] = l
  BY <1>1, <1>3 DEF Typed, TypeOK, Moved
<1>5. Placed(l, nextId)
  BY <1>1, <1>2, <1>3 DEF Placed
<1>6. QED
  BY <1>1, <1>3, <1>4, <1>5 DEF Stays

LEMMA EnqueueForm ==
  ASSUME Typed, NEW t \in Thread, Enqueue(t)
  PROVE  /\ Moved(t) /\ th[t].at = "enqueue"
         /\ \/ Done(t)
            \/ Stays(t) /\ th'[t].at = "notify" /\ Op(t) # "resolve"
         /\ Placed(th'[t], nextId)
         /\ stored' \in [Id -> Incident]
         /\ UNCHANGED <<Dictionaries, Notified, fed, closes>>
<1>1. /\ th[t].at = "enqueue"
      /\ stored' = [ stored EXCEPT ![th[t].found] = th[t].row ]
      /\ IF Op(t) \in {"classify", "resolve"} THEN Return(t) ELSE Goto(t, "notify")
      /\ UNCHANGED <<Dictionaries, Notified, fed, closes>>
  BY DEF Enqueue, Dictionaries, Notified
<1>2. /\ th[t] \in Local /\ Placed(th[t], nextId) /\ Head(th[t].todo) \in Call
      /\ th[t].row \in Incident
  BY <1>1, AtWork DEF Local
<1>3. stored' \in [Id -> Incident]
  BY <1>1, <1>2 DEF Typed, TypeOK
<1>4. CASE Op(t) \in {"classify", "resolve"}
  <2>1. Return(t)
    BY <1>1, <1>4
  <2>2. QED
    BY <1>1, <1>3, <2>1, ReturnForm
<1>5. CASE Op(t) \notin {"classify", "resolve"}
  <2>1. Goto(t, "notify")
    BY <1>1, <1>5
  <2>2. Op(t) \in {"signal", "infer", "offer"} /\ Op(t) = Head(th[t].todo).op
    BY <1>2, <1>5, CallFields DEF Op
  <2>3. Moved(t) /\ Stays(t) /\ th'[t].at = "notify"
    BY <2>1, GotoForm DEF Place
  <2>4. Placed(th'[t], nextId)
    BY <1>1, <1>2, <2>2, <2>3 DEF Placed, Stays
  <2>5. QED
    BY <1>1, <1>3, <2>2, <2>3, <2>4
<1>6. QED
  BY <1>4, <1>5

\* A notification either has gone out, and the thread is about to set the flag
\* it found unset, or nothing has.
LEMMA EscalateForm ==
  ASSUME Typed, NEW t \in Thread, Escalate(t)
  PROVE  /\ Moved(t) /\ th[t].at = "notify" /\ Op(t) = "signal"
         /\ \/ /\ Stays(t) /\ th'[t].at = "flag" /\ ~Inc(t).escalated
               /\ tarsy' = [ tarsy EXCEPT ![th[t].found] = @ + 1 ]
            \/ Done(t) /\ tarsy' = tarsy
         /\ Placed(th'[t], nextId)
         /\ UNCHANGED <<Dictionaries, accepted, stored, fed, closes>>
<1>1. /\ th[t].at = "notify" /\ Op(t) = "signal"
      /\ UNCHANGED <<Dictionaries, accepted, stored, fed, closes>>
  BY DEF Escalate, AtOp, Dictionaries
<1>2. Placed(th[t], nextId)
  BY <1>1, AtWork
<1>3. CASE ShouldEscalate(Inc(t))
  <2>1. Goto(t, "flag") /\ tarsy' = [ tarsy EXCEPT ![th[t].found] = @ + 1 ]
    BY <1>3 DEF Escalate
  <2>2. Moved(t) /\ Stays(t) /\ th'[t].at = "flag"
    BY <2>1, GotoForm DEF Place
  <2>3. Placed(th'[t], nextId) /\ ~Inc(t).escalated
    BY <1>1, <1>2, <1>3, <2>2 DEF Placed, Stays, ShouldEscalate
  <2>4. QED
    BY <1>1, <2>1, <2>2, <2>3
<1>4. CASE ~ShouldEscalate(Inc(t))
  <2>1. Return(t) /\ tarsy' = tarsy
    BY <1>4 DEF Escalate
  <2>2. QED
    BY <1>1, <2>1, ReturnForm
<1>5. QED
  BY <1>3, <1>4

LEMMA StarGateForm ==
  ASSUME Typed, NEW t \in Thread, NEW acked \in BOOLEAN, StarGate(t, acked)
  PROVE  /\ Moved(t) /\ th[t].at = "notify" /\ Op(t) \in {"infer", "offer"}
         /\ \/ /\ Stays(t) /\ th'[t].at = "flag" /\ ~Inc(t).published
               /\ accepted' = [ accepted EXCEPT ![th[t].found] = @ + 1 ]
            \/ Done(t) /\ accepted' = accepted
         /\ Placed(th'[t], nextId)
         /\ UNCHANGED <<Dictionaries, tarsy, stored, fed, closes>>
<1>1. /\ th[t].at = "notify" /\ Op(t) \in {"infer", "offer"}
      /\ UNCHANGED <<Dictionaries, tarsy, stored, fed, closes>>
  BY DEF StarGate, AtOp, Dictionaries
<1>2. Placed(th[t], nextId)
  BY <1>1, AtWork
<1>3. CASE ShouldPublish(Inc(t)) /\ acked
  <2>1. Goto(t, "flag") /\ accepted' = [ accepted EXCEPT ![th[t].found] = @ + 1 ]
    BY <1>3 DEF StarGate
  <2>2. Moved(t) /\ Stays(t) /\ th'[t].at = "flag"
    BY <2>1, GotoForm DEF Place
  <2>3. Placed(th'[t], nextId) /\ ~Inc(t).published
    BY <1>1, <1>2, <1>3, <2>2 DEF Placed, Stays, ShouldPublish
  <2>4. QED
    BY <1>1, <2>1, <2>2, <2>3
<1>4. CASE ~(ShouldPublish(Inc(t)) /\ acked)
  <2>1. Return(t) /\ accepted' = accepted
    BY <1>4 DEF StarGate
  <2>2. QED
    BY <1>1, <2>1, ReturnForm
<1>5. QED
  BY <1>3, <1>4

LEMMA FlagForm ==
  ASSUME Typed, NEW t \in Thread, Flag(t)
  PROVE  /\ Moved(t) /\ th[t].at = "flag" /\ Done(t)
         /\ Placed(th'[t], nextId)
         /\ \E new \in Incident :
              /\ Changes(th[t].found, new) /\ Grown(Inc(t), new)
              /\ new.key = Inc(t).key /\ new.status = Inc(t).status
              /\ new.signals = Inc(t).signals
              /\ IF Op(t) = "signal" THEN new.escalated /\ new.published = Inc(t).published
                 ELSE new.published /\ new.escalated = Inc(t).escalated
         /\ UNCHANGED <<index, nextId, Notified, stored, fed, closes>>
<1> DEFINE new == IF Op(t) = "signal" THEN [ Inc(t) EXCEPT !.escalated = TRUE ]
                                      ELSE [ Inc(t) EXCEPT !.published = TRUE ]
<1>1. /\ th[t].at = "flag" /\ SetInc(t, new) /\ Return(t)
      /\ UNCHANGED <<index, nextId, Notified, stored, fed, closes>>
  BY DEF Flag, Notified
<1>2. Inc(t) \in Incident /\ th[t].found \in Id
  BY <1>1, AtIncident
<1>3. /\ new \in Incident /\ Grown(Inc(t), new)
      /\ new.key = Inc(t).key /\ new.signals = Inc(t).signals
  BY <1>2, ChangedForm
<1>4. /\ new.status = Inc(t).status
      /\ IF Op(t) = "signal" THEN new.escalated /\ new.published = Inc(t).published
         ELSE new.published /\ new.escalated = Inc(t).escalated
  BY <1>2 DEF Incident
<1> HIDE DEF new
<1>5. Changes(th[t].found, new)
  BY <1>1, <1>2, <1>3, SetIncForm
<1>6. QED
  BY <1>1, <1>3, <1>4, <1>5, ReturnForm

----------------------------------------------------------------------------
(* The API's steps *)

LEMMA ResolveMarkForm ==
  ASSUME Typed, NEW i \in Id, ResolveMark(i)
  PROVE  /\ Moved(Api) /\ th[Api].at = "idle" /\ th'[Api].at = "test"
         /\ Op(Api)' = "resolve" /\ Len(th'[Api].todo) = 1 /\ Placed(th'[Api], nextId)
         /\ i < nextId
         /\ \E new \in Incident :
              /\ Changes(i, new) /\ Grown(incs[i], new)
              /\ new.key = incs[i].key /\ new.status = "resolved"
              /\ new.escalated = incs[i].escalated /\ new.published = incs[i].published
              /\ new.signals = incs[i].signals
         /\ closes' = closes + 1
         /\ UNCHANGED <<index, nextId, Notified, stored, fed>>
<1> DEFINE new == [ incs[i] EXCEPT !.status = "resolved" ]
           l == [ Idle EXCEPT !.at = "test", !.key = incs[i].key, !.found = i,
                              !.todo = <<[op |-> "resolve"]>> ]
<1>1. /\ th[Api].at = "idle" /\ incs[i].status # "absent" /\ closes' = closes + 1
      /\ incs' = [ incs EXCEPT ![i] = new ] /\ th' = [ th EXCEPT ![Api] = l ]
      /\ UNCHANGED <<index, nextId, Notified, stored, fed>>
  BY DEF ResolveMark, Notified
<1>2. /\ incs[i] \in Incident /\ i < nextId /\ incs[i].key \in Key
  <2>1. Absent.status = "absent" /\ i \in Nat /\ nextId \in Nat
    BY DEF Absent, Typed, TypeOK
  <2>2. QED
    BY <1>1, <2>1 DEF Typed, TypeOK, Drawn
<1>3. /\ new \in Incident /\ Grown(incs[i], new)
      /\ new.key = incs[i].key /\ new.signals = incs[i].signals
  BY <1>2, ChangedForm DEF Status
<1>4. /\ new.status = "resolved" /\ new.escalated = incs[i].escalated
      /\ new.published = incs[i].published
  BY <1>2 DEF Incident
<1> HIDE DEF new
<1>5. Changes(i, new)
  BY <1>1, <1>3 DEF Typed, TypeOK, Changes
<1>6. <<[op |-> "resolve"]>> \in Seq(Call) /\ <<[op |-> "resolve"]>> # << >>
      /\ Head(<<[op |-> "resolve"]>>).op = "resolve" /\ Len(<<[op |-> "resolve"]>>) = 1
  BY DEF Call
<1>7. /\ l \in Local /\ l.at = "test" /\ l.key = incs[i].key /\ l.found = i
      /\ l.todo = <<[op |-> "resolve"]>>
  BY <1>2, <1>6, IdleType DEF Local, Place
<1> HIDE DEF l
<1>8. Moved(Api) /\ th'[Api] = l
  BY <1>1, <1>7 DEF Typed, TypeOK, Moved, Thread
<1>9. Placed(l, nextId)
  BY <1>2, <1>6, <1>7 DEF Placed
<1>10. QED
  BY <1>1, <1>2, <1>3, <1>4, <1>5, <1>6, <1>7, <1>8, <1>9 DEF Op

LEMMA SuppressForm ==
  ASSUME Typed, NEW i \in Id, SuppressIncident(i)
  PROVE  /\ th' = th /\ i < nextId
         /\ \E new \in Incident :
              /\ Changes(i, new) /\ Grown(incs[i], new)
              /\ new.key = incs[i].key /\ new.status = "suppressed"
              /\ new.escalated = incs[i].escalated /\ new.published = incs[i].published
              /\ new.signals = incs[i].signals
         /\ closes' = closes + 1
         /\ UNCHANGED <<index, nextId, Notified, stored, fed>>
<1> DEFINE new == [ incs[i] EXCEPT !.status = "suppressed" ]
<1>1. /\ incs[i].status # "absent" /\ closes' = closes + 1
      /\ incs' = [ incs EXCEPT ![i] = new ]
      /\ UNCHANGED <<index, nextId, th, Notified, stored, fed>>
  BY DEF SuppressIncident, Notified
<1>2. incs[i] \in Incident /\ i < nextId
  <2>1. Absent.status = "absent" /\ i \in Nat /\ nextId \in Nat
    BY DEF Absent, Typed, TypeOK
  <2>2. QED
    BY <1>1, <2>1 DEF Typed, TypeOK, Drawn
<1>3. /\ new \in Incident /\ Grown(incs[i], new)
      /\ new.key = incs[i].key /\ new.signals = incs[i].signals
  BY <1>2, ChangedForm DEF Status
<1>4. /\ new.status = "suppressed" /\ new.escalated = incs[i].escalated
      /\ new.published = incs[i].published
  BY <1>2 DEF Incident
<1> HIDE DEF new
<1>5. Changes(i, new)
  BY <1>1, <1>3 DEF Typed, TypeOK, Changes
<1>6. QED
  BY <1>1, <1>2, <1>3, <1>4, <1>5

LEMMA ResolveTestForm ==
  ASSUME Typed, ResolveTest
  PROVE  /\ Moved(Api) /\ Stays(Api) /\ th[Api].at = "test" /\ th'[Api].at = "unindex"
         /\ Placed(th'[Api], nextId)
         /\ UNCHANGED <<Dictionaries, Notified, stored, fed, closes>>
<1> DEFINE sees == index[th[Api].key] = th[Api].found
           l == [ th[Api] EXCEPT !.sees = sees, !.at = "unindex" ]
<1>1. /\ th[Api].at = "test" /\ th' = [ th EXCEPT ![Api] = l ] /\ Api \in Thread
      /\ UNCHANGED <<Dictionaries, Notified, stored, fed, closes>>
  BY DEF ResolveTest, Dictionaries, Notified, Thread
<1>2. th[Api] \in Local /\ Placed(th[Api], nextId) /\ sees \in BOOLEAN
  BY <1>1, AtWork
<1> HIDE DEF sees
<1>3. /\ l \in Local /\ l.at = "unindex" /\ l.todo = th[Api].todo
      /\ l.key = th[Api].key /\ l.found = th[Api].found
  BY <1>2 DEF Local, Place
<1> HIDE DEF l
<1>4. Moved(Api) /\ th'[Api] = l
  BY <1>1, <1>3 DEF Typed, TypeOK, Moved
<1>5. Placed(l, nextId)
  BY <1>1, <1>2, <1>3 DEF Placed
<1>6. QED
  BY <1>1, <1>3, <1>4, <1>5 DEF Stays

LEMMA ResolveUnindexForm ==
  ASSUME Typed, ResolveUnindex
  PROVE  /\ Moved(Api) /\ Stays(Api) /\ th[Api].at = "unindex" /\ th'[Api].at = "snap"
         /\ Placed(th'[Api], nextId)
         /\ th[Api].key \in Key
         /\ index' \in {index, [ index EXCEPT ![th[Api].key] = NoId ]}
         /\ UNCHANGED <<incs, nextId, Notified, stored, fed, closes>>
<1>1. /\ th[Api].at = "unindex" /\ Goto(Api, "snap") /\ Api \in Thread
      /\ index' \in {index, [ index EXCEPT ![th[Api].key] = NoId ]}
      /\ UNCHANGED <<incs, nextId, Notified, stored, fed, closes>>
  BY DEF ResolveUnindex, Notified, Thread
<1>2. th[Api].key \in Key /\ Placed(th[Api], nextId)
  BY <1>1, AtWork
<1>3. Moved(Api) /\ Stays(Api) /\ th'[Api].at = "snap"
  BY <1>1, GotoForm DEF Place
<1>4. Placed(th'[Api], nextId)
  BY <1>1, <1>2, <1>3 DEF Placed, Stays
<1>5. QED
  BY <1>1, <1>2, <1>3, <1>4

----------------------------------------------------------------------------
(* Every step keeps the types *)

LEMMA InitTyped == Init => Typed
<1> SUFFICES ASSUME Init PROVE Typed
  OBVIOUS
<1>1. TypeOK
  BY AbsentType, IdleType DEF Init, TypeOK
<1>2. /\ \A t \in Thread : th[t] = Idle
      /\ \A i \in Id : incs[i] = Absent /\ ~(i < nextId)
      /\ nextId = 1 /\ \A k \in Key : index[k] = NoId
  BY DEF Init
<1>3. (\A t \in Thread : Placed(th[t], nextId)) /\ Roles
  BY <1>2, IdleType DEF Placed, Roles, Thread
<1>4. Drawn
  <2>1. nextId >= 1
    BY <1>2
  <2>2. QED
    BY <1>2, <2>1, Zenon DEF Drawn
<1>5. QED
  BY <1>1, <1>3, <1>4 DEF Typed

\* A step of thread t.
LEMMA MoveTyped ==
  ASSUME Typed, NEW t \in Thread, Moved(t), Placed(th'[t], nextId'),
         nextId' \in {nextId, nextId + 1},
         t \in Feeder => th'[t].at \notin {"test", "unindex"},
         t = Api => /\ th'[t].at \in {"idle", "test", "unindex", "snap", "enqueue"}
                    /\ th'[t].at # "idle" => Op(t)' = "resolve" /\ Len(th'[t].todo) = 1,
         incs' \in [Id -> Incident], index' \in [Key -> Id \cup {NoId}], Drawn',
         stored' \in [Id -> Incident], tarsy' \in [Id -> Nat], accepted' \in [Id -> Nat],
         fed' \in Nat, closes' \in Nat
  PROVE  Typed'
<1>1. nextId \in Nat /\ nextId' \in Nat /\ nextId <= nextId'
  BY DEF Typed, TypeOK
<1>2. TypeOK'
  BY <1>1 DEF TypeOK, Moved
<1>3. ASSUME NEW u \in Thread PROVE Placed(th'[u], nextId')
  <2>1. CASE u = t
    BY <2>1
  <2>2. CASE u # t
    <3>1. th'[u] = th[u] /\ Placed(th[u], nextId)
      BY <2>2 DEF Moved, Typed
    <3>2. \A i \in Id : i < nextId => i < nextId'
      BY <1>1
    <3>3. QED
      BY <3>1, <3>2 DEF Placed
  <2>3. QED
    BY <2>1, <2>2
<1>4. Roles'
  <2>1. \A u \in Feeder : th'[u].at \notin {"test", "unindex"}
    BY DEF Moved, Typed, Roles, Thread
  <2>2. /\ th'[Api].at \in {"idle", "test", "unindex", "snap", "enqueue"}
        /\ th'[Api].at # "idle" => Op(Api)' = "resolve" /\ Len(th'[Api].todo) = 1
    BY DEF Moved, Typed, Roles, Thread, Op
  <2>3. QED
    BY <2>1, <2>2 DEF Roles
<1>5. QED
  BY <1>2, <1>3, <1>4 DEF Typed

LEMMA ChangedDrawn ==
  ASSUME Typed, NEW i \in Id, i < nextId, NEW new \in Incident, Changes(i, new),
         new.key = incs[i].key, new.status # "absent", UNCHANGED <<index, nextId>>
  PROVE  incs' \in [Id -> Incident] /\ Drawn'
<1>1. incs[i].key \in Key
  BY DEF Typed, Drawn
<1>2. \A j \in Id : IF j < nextId THEN incs'[j].status # "absent" /\ incs'[j].key \in Key
                    ELSE incs'[j] = Absent
  BY <1>1 DEF Typed, Drawn, Changes
<1>3. QED
  BY <1>2 DEF Typed, Drawn, Changes

LEMMA QuietDrawn == Typed /\ UNCHANGED Dictionaries => Drawn'
  BY DEF Typed, Drawn, Dictionaries

LEMMA FeederTyped ==
  ASSUME Typed, NEW t \in Feeder, Step(t) \/ \E feed \in Feeds : StartFeed(t, feed)
  PROVE  Typed'
<1>1. t \in Thread /\ t # Api
  BY DEF Thread
<1>2. /\ incs \in [Id -> Incident] /\ index \in [Key -> Id \cup {NoId}]
      /\ stored \in [Id -> Incident] /\ tarsy \in [Id -> Nat] /\ accepted \in [Id -> Nat]
      /\ fed \in Nat /\ closes \in Nat /\ nextId \in Nat
  BY DEF Typed, TypeOK
<1>3. CASE \/ \E feed \in Feeds : StartFeed(t, feed)
           \/ LookSignal(t) \/ LookEnrich(t) \/ Check(t) \/ Rank(t) \/ Snap(t)
  <2>1. /\ Moved(t) /\ Placed(th'[t], nextId)
        /\ th'[t].at \notin {"test", "unindex"}
        /\ UNCHANGED <<Dictionaries, Notified, stored, closes>> /\ fed' \in Nat
    <3>1. CASE \E feed \in Feeds : StartFeed(t, feed)
      BY <1>1, <1>2, <3>1, StartFeedForm
    <3>2. CASE LookSignal(t)
      BY <1>1, <1>2, <3>2, LookSignalForm
    <3>3. CASE LookEnrich(t)
      BY <1>1, <1>2, <3>3, LookEnrichForm DEF Done
    <3>4. CASE Check(t)
      BY <1>1, <1>2, <3>4, CheckForm DEF Done
    <3>5. CASE Rank(t)
      BY <1>1, <1>2, <3>5, RankForm
    <3>6. CASE Snap(t)
      BY <1>1, <1>2, <3>6, SnapForm
    <3>7. QED
      BY <1>3, <3>1, <3>2, <3>3, <3>4, <3>5, <3>6
  <2>2. QED
    BY <1>1, <1>2, <2>1, QuietDrawn, MoveTyped DEF Dictionaries, Notified
<1>4. CASE Enqueue(t) \/ Escalate(t) \/ \E acked \in BOOLEAN : StarGate(t, acked)
  <2>1. /\ Moved(t) /\ Placed(th'[t], nextId)
        /\ th'[t].at \notin {"test", "unindex"}
        /\ UNCHANGED <<Dictionaries, fed, closes>>
        /\ stored' \in [Id -> Incident] /\ tarsy' \in [Id -> Nat]
        /\ accepted' \in [Id -> Nat]
    <3>1. CASE Enqueue(t)
      BY <1>1, <1>2, <3>1, EnqueueForm DEF Done, Notified
    <3>2. CASE Escalate(t)
      <4>1. th[t].at = "notify"
        BY <1>1, <3>2, EscalateForm
      <4>2. th[t].found \in Id
        BY <1>1, <4>1, AtIncident
      <4>3. [ tarsy EXCEPT ![th[t].found] = @ + 1 ] \in [Id -> Nat]
        <5> DEFINE more == tarsy[th[t].found] + 1
        <5>1. PICK n \in Nat : tarsy[th[t].found] = n
          BY <1>2, <4>2
        <5>2. more \in Nat
          BY <5>1
        <5> HIDE DEF more
        <5>3. [ tarsy EXCEPT ![th[t].found] = more ] \in [Id -> Nat]
          BY <1>2, <5>2
        <5>4. QED
          BY <5>3 DEF more
      <4>4. QED
        BY <1>1, <1>2, <3>2, <4>3, EscalateForm DEF Done
    <3>3. CASE \E acked \in BOOLEAN : StarGate(t, acked)
      <4>1. th[t].at = "notify"
        BY <1>1, <3>3, StarGateForm
      <4>2. th[t].found \in Id
        BY <1>1, <4>1, AtIncident
      <4>3. [ accepted EXCEPT ![th[t].found] = @ + 1 ] \in [Id -> Nat]
        <5> DEFINE more == accepted[th[t].found] + 1
        <5>1. PICK n \in Nat : accepted[th[t].found] = n
          BY <1>2, <4>2
        <5>2. more \in Nat
          BY <5>1
        <5> HIDE DEF more
        <5>3. [ accepted EXCEPT ![th[t].found] = more ] \in [Id -> Nat]
          BY <1>2, <5>2
        <5>4. QED
          BY <5>3 DEF more
      <4>4. QED
        BY <1>1, <1>2, <3>3, <4>3, StarGateForm DEF Done
    <3>4. QED
      BY <1>4, <3>1, <3>2, <3>3
  <2>2. QED
    BY <1>1, <1>2, <2>1, QuietDrawn, MoveTyped DEF Dictionaries
<1>5. CASE Apply(t) \/ Raise(t) \/ Flag(t)
  <2>1. /\ Moved(t) /\ Placed(th'[t], nextId)
        /\ th[t].at \in {"apply", "raise", "flag"}
        /\ th'[t].at \notin {"test", "unindex"}
        /\ UNCHANGED <<index, nextId, Notified, stored, fed, closes>>
        /\ \E new \in Incident : /\ Changes(th[t].found, new)
                                 /\ new.key = Inc(t).key /\ new.status = Inc(t).status
    <3>1. CASE Apply(t)
      BY <1>1, <3>1, ApplyForm
    <3>2. CASE Raise(t)
      BY <1>1, <3>2, RaiseForm
    <3>3. CASE Flag(t)
      BY <1>1, <3>3, FlagForm DEF Done
    <3>4. QED
      BY <1>5, <3>1, <3>2, <3>3
  <2>2. /\ th[t].found \in Id /\ th[t].found < nextId /\ Inc(t) = incs[th[t].found]
        /\ Inc(t).status # "absent"
    BY <1>1, <2>1, AtIncident
  <2>3. incs' \in [Id -> Incident] /\ Drawn'
    <3>1. PICK new \in Incident : /\ Changes(th[t].found, new)
                                  /\ new.key = Inc(t).key /\ new.status = Inc(t).status
      BY <2>1
    <3>2. QED
      BY <2>1, <2>2, <3>1, ChangedDrawn
  <2>4. QED
    BY <1>1, <1>2, <2>1, <2>3, MoveTyped DEF Notified
<1>6. CASE Create(t)
  <2>1. /\ Moved(t) /\ Placed(th'[t], nextId') /\ th'[t].at = "snap"
        /\ nextId \in Id /\ nextId' = nextId + 1 /\ th[t].key \in Key
        /\ index' = [ index EXCEPT ![th[t].key] = nextId ]
        /\ UNCHANGED <<Notified, stored, fed, closes>>
    BY <1>1, <1>6, CreateForm
  <2>2. PICK inc \in Incident : /\ Changes(nextId, inc)
                                /\ inc.key = th[t].key /\ inc.status = "open"
    BY <1>1, <1>6, CreateForm
  <2>3. incs' \in [Id -> Incident] /\ index' \in [Key -> Id \cup {NoId}]
    BY <1>2, <2>1, <2>2 DEF Changes
  <2>4. \A i \in Id : IF i < nextId' THEN incs'[i].status # "absent" /\ incs'[i].key \in Key
                      ELSE incs'[i] = Absent
    <3>1. \A i \in Id : i # nextId => (i < nextId' <=> i < nextId)
      BY <1>2, <2>1
    <3>2. QED
      BY <2>1, <2>2, <3>1 DEF Typed, Drawn, Changes
  <2>5. \A k \in Key : index'[k] # NoId => index'[k] < nextId'
    <3>1. \A k \in Key : index[k] # NoId => index[k] < nextId + 1
      <4>1. \A i \in Id : i < nextId => i < nextId + 1
        BY <1>2
      <4>2. QED
        BY <1>2, <4>1 DEF Typed, Drawn
    <3>2. \A k \in Key : index'[k] \in {index[k], nextId}
      BY <1>2, <2>1
    <3>3. nextId < nextId + 1
      BY <1>2
    <3>4. QED
      BY <2>1, <3>1, <3>2, <3>3
  <2>6. Drawn'
    BY <1>2, <2>1, <2>4, <2>5 DEF Typed, Drawn
  <2>7. QED
    BY <1>1, <1>2, <2>1, <2>3, <2>6, MoveTyped DEF Notified
<1>7. QED
  BY <1>3, <1>4, <1>5, <1>6 DEF Step

LEMMA ApiTyped ==
  ASSUME Typed,
         \/ \E i \in Id : ResolveMark(i) \/ SuppressIncident(i)
         \/ ResolveTest \/ ResolveUnindex \/ Snap(Api) \/ Enqueue(Api)
  PROVE  Typed'
<1>1. Api \in Thread /\ Api \notin Feeder
  BY DEF Thread
<1>2. /\ incs \in [Id -> Incident] /\ index \in [Key -> Id \cup {NoId}]
      /\ stored \in [Id -> Incident] /\ tarsy \in [Id -> Nat] /\ accepted \in [Id -> Nat]
      /\ fed \in Nat /\ closes \in Nat /\ nextId \in Nat
  BY DEF Typed, TypeOK
<1>3. ASSUME NEW i \in Id, ResolveMark(i) PROVE Typed'
  <2>1. /\ Moved(Api) /\ th'[Api].at = "test" /\ Op(Api)' = "resolve"
        /\ Len(th'[Api].todo) = 1 /\ Placed(th'[Api], nextId) /\ i < nextId /\ closes' = closes + 1
        /\ UNCHANGED <<index, nextId, Notified, stored, fed>>
    BY <1>3, ResolveMarkForm
  <2>2. incs' \in [Id -> Incident] /\ Drawn'
    BY <1>3, <2>1, ResolveMarkForm, ChangedDrawn
  <2>3. QED
    BY <1>1, <1>2, <2>1, <2>2, MoveTyped DEF Notified
<1>4. ASSUME NEW i \in Id, SuppressIncident(i) PROVE Typed'
  <2>1. /\ th' = th /\ i < nextId /\ closes' = closes + 1
        /\ UNCHANGED <<index, nextId, Notified, stored, fed>>
    BY <1>4, SuppressForm
  <2>2. incs' \in [Id -> Incident] /\ Drawn'
    BY <1>4, <2>1, SuppressForm, ChangedDrawn
  <2>3. QED
    BY <1>2, <2>1, <2>2 DEF Notified, Typed, TypeOK, Roles, Op
<1>5. CASE ResolveTest \/ ResolveUnindex \/ Snap(Api)
  <2>1. /\ Moved(Api) /\ Stays(Api) /\ th[Api].at # "idle"
        /\ th'[Api].at \in {"unindex", "snap", "enqueue"} /\ Placed(th'[Api], nextId)
        /\ UNCHANGED <<incs, nextId, Notified, stored, fed, closes>>
        /\ index' \in [Key -> Id \cup {NoId}]
        /\ \A k \in Key : index'[k] \in {index[k], NoId}
    <3>1. CASE ResolveTest
      BY <1>2, <3>1, ResolveTestForm DEF Dictionaries
    <3>2. CASE ResolveUnindex
      BY <1>2, <3>2, ResolveUnindexForm
    <3>3. CASE Snap(Api)
      BY <1>1, <1>2, <3>3, SnapForm DEF Dictionaries
    <3>4. QED
      BY <1>5, <3>1, <3>2, <3>3
  <2>2. Op(Api)' = "resolve" /\ Len(th'[Api].todo) = 1
    BY <2>1 DEF Stays, Op, Typed, Roles
  <2>3. Drawn'
    BY <2>1 DEF Typed, Drawn
  <2>4. QED
    BY <1>1, <1>2, <2>1, <2>2, <2>3, MoveTyped DEF Notified
<1>6. CASE Enqueue(Api)
  <2>1. th[Api].at = "enqueue" /\ Op(Api) = "resolve" /\ Len(th[Api].todo) = 1
    BY <1>6 DEF Enqueue, Typed, Roles
  <2>2. Return(Api)
    BY <1>6, <2>1 DEF Enqueue
  <2>3. /\ Moved(Api) /\ Done(Api) /\ Placed(th'[Api], nextId)
        /\ stored' \in [Id -> Incident]
        /\ UNCHANGED <<Dictionaries, Notified, fed, closes>>
    BY <1>1, <1>6, <2>1, <2>2, ReturnForm, EnqueueForm
  <2>4. th'[Api].at = "idle"
    BY <1>1, <2>1, <2>2, IdleType DEF Return, Returned, Typed, TypeOK
  <2>5. QED
    BY <1>1, <1>2, <2>3, <2>4, QuietDrawn, MoveTyped DEF Dictionaries, Notified
<1>7. QED
  BY <1>3, <1>4, <1>5, <1>6

FeederStep(t) == Step(t) \/ \E feed \in Feeds : StartFeed(t, feed)

ApiStep ==
  \/ \E i \in Id : ResolveMark(i) \/ SuppressIncident(i)
  \/ ResolveTest \/ ResolveUnindex \/ Snap(Api) \/ Enqueue(Api)

LEMMA StepCases ==
  ASSUME [Next]_vars
  PROVE  (\E t \in Feeder : FeederStep(t)) \/ ApiStep \/ UNCHANGED vars
  BY DEF Next, FeederStep, ApiStep

LEMMA TypedStep == Typed /\ [Next]_vars => Typed'
<1> SUFFICES ASSUME Typed, [Next]_vars PROVE Typed'
  OBVIOUS
<1>1. CASE \E t \in Feeder : FeederStep(t)
  BY <1>1, FeederTyped DEF FeederStep
<1>2. CASE ApiStep
  BY <1>2, ApiTyped DEF ApiStep
<1>3. CASE UNCHANGED vars
  BY <1>3 DEF vars, Typed, TypeOK, Roles, Drawn, Op
<1>4. QED
  BY <1>1, <1>2, <1>3, StepCases

\* The shared dictionaries and the threads' local variables keep their types
\* whichever thread moves next, for any number of feeders and any tasks.
THEOREM ThreadsTypeCorrect == Spec => []TypeOK
<1>1. Typed => TypeOK
  BY DEF Typed
<1>2. QED
  BY InitTyped, TypedStep, <1>1, PTL DEF Spec

----------------------------------------------------------------------------
(* What an incident has accumulated is never taken back *)

LEMMA ChangedGrows ==
  ASSUME Typed, NEW i \in Id, NEW new \in Incident, Changes(i, new), Grown(incs[i], new)
  PROVE  \A j \in Id : Grown(incs[j], incs'[j])
<1>1. \A j \in Id : incs[j] \in Incident
  BY DEF Typed, TypeOK
<1>2. QED
  BY <1>1, GrownItself DEF Changes

LEMMA SameGrows ==
  ASSUME Typed, incs' = incs
  PROVE  \A j \in Id : Grown(incs[j], incs'[j])
  BY GrownItself DEF Typed, TypeOK

LEMMA IncidentsGrow ==
  ASSUME Typed, [Next]_vars
  PROVE  \A i \in Id : i < nextId => Grown(incs[i], incs'[i])
<1>1. ASSUME NEW t \in Feeder, FeederStep(t)
      PROVE  \A i \in Id : i < nextId => Grown(incs[i], incs'[i])
  <2>1. t \in Thread
    BY DEF Thread
  <2>2. CASE Apply(t) \/ Raise(t) \/ Flag(t)
    <3>1. \E new \in Incident : Changes(th[t].found, new) /\ Grown(Inc(t), new)
      BY <2>1, <2>2, ApplyForm, RaiseForm, FlagForm
    <3>2. th[t].at \in {"apply", "raise", "flag"}
      BY <2>2 DEF Apply, Raise, Flag
    <3>3. th[t].found \in Id /\ Inc(t) = incs[th[t].found]
      BY <2>1, <3>2, AtIncident
    <3>4. QED
      BY <3>1, <3>3, ChangedGrows
  <2>3. CASE Create(t)
    <3>1. \A i \in Id \ {nextId} : incs'[i] = incs[i]
      BY <2>1, <2>3, CreateForm DEF Changes
    <3>2. nextId \in Nat /\ ~(nextId < nextId)
      BY DEF Typed, TypeOK
    <3>3. QED
      BY <3>1, <3>2, GrownItself DEF Typed, TypeOK
  <2>4. CASE ~(Apply(t) \/ Raise(t) \/ Flag(t) \/ Create(t))
    <3>1. incs' = incs
      BY <1>1, <2>4 DEF FeederStep, Step, StartFeed, LookSignal, LookEnrich, Check, Rank, Snap,
                        Enqueue, Escalate, StarGate
    <3>2. QED
      BY <3>1, SameGrows
  <2>5. QED
    BY <2>2, <2>3, <2>4
<1>2. CASE ApiStep
  <2>1. ASSUME NEW i \in Id, ResolveMark(i) \/ SuppressIncident(i)
        PROVE  \A j \in Id : Grown(incs[j], incs'[j])
    BY <2>1, ResolveMarkForm, SuppressForm, ChangedGrows
  <2>2. CASE ResolveTest \/ ResolveUnindex \/ Snap(Api) \/ Enqueue(Api)
    <3>1. incs' = incs
      BY <2>2 DEF ResolveTest, ResolveUnindex, Snap, Enqueue
    <3>2. QED
      BY <3>1, SameGrows
  <2>3. QED
    BY <1>2, <2>1, <2>2 DEF ApiStep
<1>3. CASE UNCHANGED vars
  BY <1>3, SameGrows DEF vars
<1>4. QED
  BY <1>1, <1>2, <1>3, StepCases

\* No interleaving of the feeders and the API takes back a signal, a count, an
\* inference, an option or a flag of an incident.
THEOREM EvidenceCorrect == Spec => EvidenceGrows
<1> DEFINE Growth ==
      \A i \in Id : incs[i].status # "absent" =>
        /\ IsPrefix(incs[i].signals, incs'[i].signals)
        /\ incs[i].count <= incs'[i].count
        /\ incs[i].infers <= incs'[i].infers
        /\ incs[i].options \subseteq incs'[i].options
        /\ incs[i].escalated => incs'[i].escalated
        /\ incs[i].published => incs'[i].published
<1>1. Typed /\ [Next]_vars => [Growth]_vars
  <2> SUFFICES ASSUME Typed, [Next]_vars PROVE Growth
    OBVIOUS
  <2>1. \A i \in Id : incs[i].status # "absent" => i < nextId
    BY DEF Typed, Drawn, Absent
  <2>2. QED
    BY <2>1, IncidentsGrow DEF Grown
<1>2. QED
  BY <1>1, InitTyped, TypedStep, PTL DEF Spec, EvidenceGrows

----------------------------------------------------------------------------
(* No signal is lost between the dedupe check and the append *)

LEMMA HasKept ==
  ASSUME Typed, NEW u \in Thread, th[u].at \notin {"idle", "start", "create"},
         th'[u].todo = th[u].todo, th'[u].found = th[u].found,
         Typed', \A i \in Id : i < nextId => Grown(incs[i], incs'[i]),
         HasOrFull(u)
  PROVE  HasOrFull(u)'
<1> DEFINE i == th[u].found
<1>1. i \in Id /\ i < nextId /\ Inc(u) = incs[i]
  BY AtIncident
<1>2. Inc(u)' = incs'[i]
  BY DEF Inc
<1> HIDE DEF i
<1>3. /\ incs[i].signals \in Seq(Sig) /\ incs'[i].signals \in Seq(Sig)
      /\ IsPrefix(incs[i].signals, incs'[i].signals)
  BY <1>1 DEF Typed, TypeOK, Incident, Grown
<1>4. /\ ToSet(incs[i].signals) \subseteq ToSet(incs'[i].signals)
      /\ Len(incs[i].signals) <= Len(incs'[i].signals)
      /\ Len(incs[i].signals) \in Nat /\ Len(incs'[i].signals) \in Nat
  BY <1>3, PrefixHas, LenProperties
<1>5. CASE Head(th[u].todo).sig \in ToSet(Inc(u).signals)
  BY <1>1, <1>2, <1>4, <1>5 DEF HasOrFull
<1>6. CASE Len(Inc(u).signals) >= MaxSignals
  <2>1. Len(incs'[i].signals) >= MaxSignals
    BY <1>1, <1>4, <1>6
  <2>2. QED
    BY <1>2, <2>1 DEF HasOrFull
<1>7. QED
  BY <1>5, <1>6 DEF HasOrFull

LEMMA RecordedMove ==
  ASSUME Typed, Typed', Recorded, NEW t \in Thread, Moved(t),
         \A i \in Id : i < nextId => Grown(incs[i], incs'[i]),
         t \in Feeder /\ Op(t)' = "signal" =>
           (th'[t].at \in AfterAppend \/ (th'[t].at = "apply" /\ ~th'[t].sees) => HasOrFull(t)')
  PROVE  Recorded'
<1> SUFFICES ASSUME NEW u \in Feeder, Op(u)' = "signal",
                    th'[u].at \in AfterAppend \/ (th'[u].at = "apply" /\ ~th'[u].sees)
             PROVE  HasOrFull(u)'
  BY DEF Recorded
<1>1. CASE u = t
  BY <1>1
<1>2. CASE u # t
  <2>1. th'[u] = th[u] /\ u \in Thread
    BY <1>2 DEF Moved, Thread
  <2>2. Op(u) = "signal" /\ th[u].at \notin {"idle", "start", "create"}
    BY <2>1 DEF Op, AfterAppend
  <2>3. HasOrFull(u)
    BY <2>1, <2>2 DEF Recorded
  <2>4. QED
    BY <2>1, <2>2, <2>3, HasKept
<1>3. QED
  BY <1>1, <1>2

LEMMA FeederRecorded ==
  ASSUME Typed, Typed', Recorded, [Next]_vars, NEW t \in Feeder, FeederStep(t)
  PROVE  Recorded'
<1>1. t \in Thread /\ \A i \in Id : i < nextId => Grown(incs[i], incs'[i])
  BY IncidentsGrow DEF Thread
<1>2. CASE \/ \E feed \in Feeds : StartFeed(t, feed)
           \/ LookSignal(t) \/ LookEnrich(t)
  <2>1. Moved(t) /\ (th'[t].at \in {"idle", "start", "create", "check"}
                     \/ (th'[t].at = "apply" /\ Op(t)' # "signal"))
    BY <1>1, <1>2, StartFeedForm, LookSignalForm, LookEnrichForm DEF Done, Op
  <2>2. QED
    BY <1>1, <2>1, RecordedMove DEF AfterAppend
<1>3. CASE Create(t)
  <2>1. /\ Moved(t) /\ th'[t].todo = th[t].todo /\ th'[t].found = nextId /\ th[t].at = "create"
        /\ \E inc \in Incident : Changes(nextId, inc) /\ inc.signals = <<Head(th[t].todo).sig>>
    BY <1>1, <1>3, CreateForm
  <2>2. Inc(t)'.signals = <<Head(th'[t].todo).sig>>
    BY <2>1 DEF Changes, Inc
  <2>3. HasOrFull(t)'
    BY <2>2 DEF HasOrFull, ToSet
  <2>4. QED
    BY <1>1, <2>1, <2>3, RecordedMove
<1>4. CASE Check(t)
  <2>1. /\ Moved(t) /\ th[t].at = "check"
        /\ \/ Done(t)
           \/ /\ Stays(t) /\ th'[t].at = "apply"
              /\ Op(t) = "signal" => (th'[t].sees <=> Fresh(Inc(t), Head(th[t].todo).sig))
    BY <1>1, <1>4, CheckForm
  <2>2. CASE Done(t)
    BY <1>1, <2>1, <2>2, RecordedMove DEF Done, AfterAppend
  <2>3. CASE Stays(t) /\ th'[t].at = "apply"
    <3>1. ASSUME Op(t)' = "signal", ~th'[t].sees PROVE HasOrFull(t)'
      <4>1. Op(t) = "signal"
        BY <2>3, <3>1 DEF Stays, Op
      <4>2. ~Fresh(Inc(t), Head(th[t].todo).sig)
        BY <2>1, <2>3, <3>1, <4>1 DEF Done
      <4>3. Len(Inc(t).signals) \in Nat
        BY <1>1, <2>1, AtIncident, LenProperties DEF Incident
      <4>4. HasOrFull(t)
        BY <4>2, <4>3 DEF Fresh, HasOrFull
      <4>5. QED
        BY <1>1, <2>1, <2>3, <4>4, HasKept DEF Stays
    <3>2. QED
      BY <1>1, <2>1, <2>3, <3>1, RecordedMove DEF AfterAppend
  <2>4. QED
    BY <2>1, <2>2, <2>3
<1>5. CASE Apply(t)
  <2>1. /\ Moved(t) /\ Stays(t) /\ th[t].at = "apply" /\ th'[t].at \in {"rank", "snap"}
    BY <1>1, <1>5, ApplyForm
  <2>2. ASSUME Op(t)' = "signal" PROVE HasOrFull(t)'
    <3>1. Op(t) = "signal"
      BY <2>1, <2>2 DEF Stays, Op
    <3>2. CASE th[t].sees
      <4>1. /\ Head(th[t].todo) \in Call /\ Head(th[t].todo).sig \in Sig
        BY <1>1, <2>1, <3>1, AtWork, CallFields DEF Op
      <4>2. /\ th[t].found \in Id /\ Inc(t).signals \in Seq(Sig)
        BY <1>1, <2>1, AtIncident DEF Incident
      <4>3. incs'[th[t].found].signals = Append(Inc(t).signals, Head(th[t].todo).sig)
        BY <1>1, <1>5, <3>1, <3>2, ApplyForm DEF Changes
      <4>4. Head(th[t].todo).sig \in ToSet(incs'[th[t].found].signals)
        BY <4>1, <4>2, <4>3, AppendHas
      <4>5. QED
        BY <2>1, <4>4 DEF HasOrFull, Inc, Stays
    <3>3. CASE ~th[t].sees
      <4>1. HasOrFull(t)
        BY <2>1, <3>1, <3>3 DEF Recorded
      <4>2. QED
        BY <1>1, <2>1, <4>1, HasKept DEF Stays
    <3>4. QED
      BY <3>2, <3>3
  <2>3. QED
    BY <1>1, <2>1, <2>2, RecordedMove
<1>6. CASE \/ Rank(t) \/ Raise(t) \/ Snap(t) \/ Enqueue(t) \/ Escalate(t)
           \/ (\E acked \in BOOLEAN : StarGate(t, acked)) \/ Flag(t)
  <2>1. /\ Moved(t) /\ th[t].at \in AfterAppend
        /\ Done(t) \/ (Stays(t) /\ th'[t].at \in AfterAppend)
    <3>1. CASE Rank(t) \/ Raise(t) \/ Snap(t)
      BY <1>1, <3>1, RankForm, RaiseForm, SnapForm DEF AfterAppend
    <3>2. CASE Enqueue(t)
      BY <1>1, <3>2, EnqueueForm DEF AfterAppend
    <3>3. CASE Escalate(t)
      BY <1>1, <3>3, EscalateForm DEF AfterAppend
    <3>4. CASE \E acked \in BOOLEAN : StarGate(t, acked)
      BY <1>1, <3>4, StarGateForm DEF AfterAppend
    <3>5. CASE Flag(t)
      BY <1>1, <3>5, FlagForm DEF AfterAppend
    <3>6. QED
      BY <1>6, <3>1, <3>2, <3>3, <3>4, <3>5
  <2>2. CASE Done(t)
    BY <1>1, <2>1, <2>2, RecordedMove DEF Done, AfterAppend
  <2>3. CASE Stays(t) /\ th'[t].at \in AfterAppend
    <3>1. ASSUME Op(t)' = "signal" PROVE HasOrFull(t)'
      <4>1. Op(t) = "signal" /\ HasOrFull(t) /\ th[t].at \notin {"idle", "start", "create"}
        BY <2>1, <2>3, <3>1 DEF Stays, Op, Recorded, AfterAppend
      <4>2. QED
        BY <1>1, <2>3, <4>1, HasKept DEF Stays
    <3>2. QED
      BY <1>1, <2>1, <3>1, RecordedMove
  <2>4. QED
    BY <2>1, <2>2, <2>3
<1>7. QED
  BY <1>2, <1>3, <1>4, <1>5, <1>6 DEF FeederStep, Step

LEMMA RecordedStep == Typed /\ Recorded /\ [Next]_vars => Recorded'
<1> SUFFICES ASSUME Typed, Recorded, [Next]_vars PROVE Recorded'
  OBVIOUS
<1>1. Typed' /\ \A i \in Id : i < nextId => Grown(incs[i], incs'[i])
  BY TypedStep, IncidentsGrow
<1>2. Api \in Thread /\ Api \notin Feeder
  BY DEF Thread
<1>3. CASE \E t \in Feeder : FeederStep(t)
  BY <1>1, <1>3, FeederRecorded
<1>4. CASE ApiStep \/ UNCHANGED vars
  <2>1. Moved(Api)
    <3>1. CASE ApiStep
      BY <1>2, <3>1, ResolveMarkForm, SuppressForm, ResolveTestForm, ResolveUnindexForm, SnapForm, EnqueueForm
         DEF ApiStep, Moved, Typed, TypeOK
    <3>2. CASE UNCHANGED vars
      BY <3>2 DEF vars, Moved, Typed, TypeOK
    <3>3. QED
      BY <1>4, <3>1, <3>2
  <2>2. QED
    BY <1>1, <1>2, <2>1, RecordedMove
<1>5. QED
  BY <1>3, <1>4, StepCases

\* A process_signal call past its append has its signal in the evidence, or
\* found the evidence full, whatever other feeders append meanwhile.
THEOREM RecordedCorrect == Spec => []SignalRecorded
<1> DEFINE Inv == Typed /\ Recorded
<1>1. Init => Inv
  BY InitTyped, IdleType DEF Init, Recorded, AfterAppend, Thread
<1>2. Inv /\ [Next]_vars => Inv'
  BY TypedStep, RecordedStep
<1>3. Recorded => SignalRecorded
  BY DEF Recorded, SignalRecorded, AfterAppend, HasOrFull
<1>4. QED
  BY <1>1, <1>2, <1>3, PTL DEF Spec

----------------------------------------------------------------------------
(* The cap on signals: counting the feeders about to append *)

LEMMA FeederCount ==
  ASSUME NEW S \in SUBSET Feeder
  PROVE  IsFiniteSet(S) /\ Cardinality(S) \in Nat /\ Cardinality(Feeder) \in Nat
         /\ Cardinality(S) <= Cardinality(Feeder)
  BY FS_Subset, FS_CardinalityType

LEMMA FewerFeeders ==
  ASSUME NEW S \in SUBSET Feeder, NEW R \in SUBSET S
  PROVE  Cardinality(R) \in Nat /\ Cardinality(S) \in Nat /\ Cardinality(R) <= Cardinality(S)
<1>1. IsFiniteSet(S)
  BY FeederCount
<1>2. QED
  BY <1>1, FS_Subset, FS_CardinalityType

LEMMA SignalCount ==
  ASSUME Typed, NEW i \in Id
  PROVE  Len(incs[i].signals) \in Nat
  BY LenProperties DEF Typed, TypeOK, Incident

LEMMA RoomKept ==
  ASSUME Typed, Typed', NEW i \in Id,
         Len(incs[i].signals) + Cardinality(Appending(i)) <= MaxSignals + Cardinality(Feeder) - 1,
         Len(incs'[i].signals) <= Len(incs[i].signals),
         Appending(i)' \subseteq Appending(i)
  PROVE  Len(incs'[i].signals) + Cardinality(Appending(i)')
           <= MaxSignals + Cardinality(Feeder) - 1
<1>1. Len(incs[i].signals) \in Nat /\ Len(incs'[i].signals) \in Nat
  BY SignalCount
<1>2. /\ Cardinality(Appending(i)') \in Nat /\ Cardinality(Appending(i)) \in Nat
      /\ Cardinality(Appending(i)') <= Cardinality(Appending(i))
      /\ Cardinality(Feeder) \in Nat
  <2>1. Appending(i) \in SUBSET Feeder
    BY DEF Appending
  <2>2. QED
    BY <2>1, FewerFeeders, FeederCount
<1>3. QED
  BY <1>1, <1>2

\* Which threads append, after a step of thread t.
LEMMA AppendingMoved ==
  ASSUME NEW t \in Thread, Moved(t)
  PROVE  \A i \in Id : Appending(i)' \subseteq Appending(i) \cup {t}
  BY DEF Appending, Moved, Thread, Op

LEMMA AppendingLess ==
  ASSUME NEW t \in Thread, Moved(t),
         th'[t].at # "apply" \/ Op(t)' # "signal" \/ ~th'[t].sees \/ t \notin Feeder
  PROVE  \A i \in Id : Appending(i)' \subseteq Appending(i) \ {t}
  BY DEF Appending, Moved, Thread, Op

LEMMA InitRoom == Init => Room
<1> SUFFICES ASSUME Init, NEW i \in Id
             PROVE  Len(incs[i].signals) + Cardinality(Appending(i))
                      <= MaxSignals + Cardinality(Feeder) - 1
  BY DEF Room
<1>1. Appending(i) = {}
  BY IdleType DEF Init, Appending, Thread
<1>2. incs[i].signals = << >>
  BY DEF Init, Absent
<1>3. Len(incs[i].signals) = 0 /\ Cardinality(Appending(i)) = 0
  BY <1>1, <1>2, FS_EmptySet
<1>4. Cardinality(Feeder) \in Nat
  BY FeederCount
<1>5. QED
  BY <1>3, <1>4

LEMMA FeederRoom ==
  ASSUME Typed, Typed', Room, NEW t \in Feeder, FeederStep(t)
  PROVE  Room'
<1> SUFFICES ASSUME NEW i \in Id
             PROVE  Len(incs'[i].signals) + Cardinality(Appending(i)')
                      <= MaxSignals + Cardinality(Feeder) - 1
  BY DEF Room
<1>1. t \in Thread /\ Len(incs[i].signals) + Cardinality(Appending(i))
                        <= MaxSignals + Cardinality(Feeder) - 1
  BY DEF Thread, Room
<1>2. Len(incs[i].signals) \in Nat /\ Len(incs'[i].signals) \in Nat
  BY SignalCount
<1>3. CASE Check(t) /\ Appending(i)' \subseteq Appending(i)
  <2>1. incs' = incs
    BY <1>3 DEF Check
  <2>2. QED
    BY <1>1, <1>2, <1>3, <2>1, RoomKept
<1>4. CASE Check(t) /\ ~(Appending(i)' \subseteq Appending(i))
  <2>1. /\ Moved(t) /\ incs' = incs /\ th[t].at = "check"
        /\ \/ Done(t)
           \/ /\ Stays(t) /\ th'[t].at = "apply"
              /\ Op(t) = "signal" => (th'[t].sees <=> Fresh(Inc(t), Head(th[t].todo).sig))
    BY <1>1, <1>4, CheckForm DEF Dictionaries
  <2>2. t \in Appending(i)'
    <3>1. Appending(i)' \subseteq Appending(i) \cup {t}
      BY <1>1, <2>1, AppendingMoved
    <3>2. PICK u \in Appending(i)' : u \notin Appending(i)
      BY <1>4
    <3>3. QED
      BY <3>1, <3>2
  <2>3. th'[t].at = "apply" /\ Op(t)' = "signal" /\ th'[t].sees /\ th'[t].found = i
    BY <2>2 DEF Appending
  <2>4. Stays(t) /\ Op(t) = "signal"
    BY <2>1, <2>3 DEF Done, Stays, Op
  <2>5. Fresh(Inc(t), Head(th[t].todo).sig) /\ Inc(t) = incs[i]
    BY <2>1, <2>3, <2>4 DEF Done, Inc, Stays
  <2>6. Len(incs'[i].signals) < MaxSignals
    BY <2>1, <2>5 DEF Fresh
  <2>7. Appending(i)' \in SUBSET Feeder
    BY DEF Appending
  <2>8. /\ Cardinality(Appending(i)') \in Nat /\ Cardinality(Feeder) \in Nat
        /\ Cardinality(Appending(i)') <= Cardinality(Feeder)
    BY <2>7, FeederCount
  <2>9. QED
    BY <1>2, <2>6, <2>8
<1>5. CASE Apply(t) /\ th[t].found = i /\ Op(t) = "signal" /\ th[t].sees
  <2>1. /\ Moved(t) /\ th[t].at = "apply" /\ th'[t].at = "rank"
        /\ incs'[i].signals = Append(incs[i].signals, Head(th[t].todo).sig)
    BY <1>1, <1>5, ApplyForm DEF Changes, Inc
  <2>2. incs[i].signals \in Seq(Sig) /\ Head(th[t].todo).sig \in Sig
    <3>1. Head(th[t].todo) \in Call /\ Head(th[t].todo).op = "signal"
      BY <1>1, <1>5, <2>1, AtWork DEF Op
    <3>2. QED
      BY <3>1, CallFields DEF Typed, TypeOK, Incident
  <2>3. Len(incs'[i].signals) = Len(incs[i].signals) + 1
    BY <2>1, <2>2, AppendHas
  <2>4. t \in Appending(i) /\ Appending(i)' \subseteq Appending(i) \ {t}
    BY <1>1, <1>5, <2>1, AppendingLess DEF Appending
  <2>5. Appending(i) \in SUBSET Feeder
    BY DEF Appending
  <2>6. /\ Cardinality(Appending(i) \ {t}) = Cardinality(Appending(i)) - 1
        /\ Cardinality(Appending(i)') <= Cardinality(Appending(i) \ {t})
        /\ Cardinality(Appending(i)) \in Nat /\ Cardinality(Appending(i)') \in Nat
        /\ Cardinality(Feeder) \in Nat
    BY <2>4, <2>5, FeederCount, FewerFeeders, FS_RemoveElement
  <2>7. QED
    BY <1>1, <1>2, <2>3, <2>6
<1>6. CASE Apply(t) /\ ~(th[t].found = i /\ Op(t) = "signal" /\ th[t].sees)
  <2>1. Moved(t) /\ th'[t].at \in {"rank", "snap"} /\ incs'[i].signals = incs[i].signals
    <3>1. PICK new \in Incident :
            /\ Changes(th[t].found, new)
            /\ new.signals = IF Op(t) = "signal" /\ th[t].sees
                             THEN Append(Inc(t).signals, Head(th[t].todo).sig)
                             ELSE Inc(t).signals
      BY <1>1, <1>6, ApplyForm
    <3>2. incs'[i].signals = incs[i].signals
      BY <1>6, <3>1 DEF Changes, Inc
    <3>3. QED
      BY <1>1, <1>6, <3>2, ApplyForm
  <2>2. Appending(i)' \subseteq Appending(i)
    BY <1>1, <2>1, AppendingLess
  <2>3. Len(incs'[i].signals) <= Len(incs[i].signals)
    BY <1>2, <2>1
  <2>4. QED
    BY <1>1, <2>2, <2>3, RoomKept
<1>7. CASE Create(t)
  <2>1. Moved(t) /\ th'[t].at = "snap" /\ \E inc \in Incident : Changes(nextId, inc) /\ Len(inc.signals) = 1
    BY <1>1, <1>7, CreateForm
  <2>2. Appending(i)' \subseteq Appending(i) \ {t}
    BY <1>1, <2>1, AppendingLess
  <2>3. CASE i = nextId
    <3>1. Len(incs'[i].signals) = 1
      BY <2>1, <2>3 DEF Changes
    <3>2. Appending(i)' \in SUBSET (Feeder \ {t}) /\ Feeder \ {t} \in SUBSET Feeder
      BY <2>2 DEF Appending
    <3>3. /\ Cardinality(Feeder \ {t}) = Cardinality(Feeder) - 1
          /\ Cardinality(Appending(i)') <= Cardinality(Feeder \ {t})
          /\ Cardinality(Feeder) \in Nat /\ Cardinality(Appending(i)') \in Nat
      BY <3>2, FeederCount, FewerFeeders, FS_RemoveElement
    <3>4. QED
      BY <3>1, <3>3
  <2>4. CASE i # nextId
    <3>1. incs'[i] = incs[i]
      BY <2>1, <2>4 DEF Changes
    <3>2. QED
      BY <1>1, <1>2, <2>2, <3>1, RoomKept
  <2>5. QED
    BY <2>3, <2>4
<1>8. CASE ~(Check(t) \/ Apply(t) \/ Create(t))
  <2>1. incs'[i].signals = incs[i].signals
    <3>1. CASE Raise(t) \/ Flag(t)
      <4>1. \E new \in Incident : Changes(th[t].found, new) /\ new.signals = Inc(t).signals
        BY <1>1, <3>1, RaiseForm, FlagForm
      <4>2. QED
        BY <4>1 DEF Changes, Inc
    <3>2. CASE ~(Raise(t) \/ Flag(t))
      BY <1>8, <3>2 DEF FeederStep, Step, StartFeed, LookSignal, LookEnrich, Rank, Snap, Enqueue,
                        Escalate, StarGate
    <3>3. QED
      BY <3>1, <3>2
  <2>2. Moved(t) /\ (th'[t].at # "apply" \/ Op(t)' # "signal")
    <3>1. CASE \E feed \in Feeds : StartFeed(t, feed)
      BY <1>1, <3>1, StartFeedForm
    <3>2. CASE LookSignal(t) \/ LookEnrich(t)
      BY <1>1, <3>2, LookSignalForm, LookEnrichForm DEF Done, Op
    <3>3. CASE Rank(t) \/ Raise(t) \/ Snap(t) \/ Flag(t)
      BY <1>1, <3>3, RankForm, RaiseForm, SnapForm, FlagForm DEF Done
    <3>4. CASE Enqueue(t) \/ Escalate(t) \/ \E acked \in BOOLEAN : StarGate(t, acked)
      BY <1>1, <3>4, EnqueueForm, EscalateForm, StarGateForm DEF Done
    <3>5. QED
      BY <1>8, <3>1, <3>2, <3>3, <3>4 DEF FeederStep, Step
  <2>3. Appending(i)' \subseteq Appending(i)
    BY <1>1, <2>2, AppendingLess
  <2>4. QED
    BY <1>1, <1>2, <2>1, <2>3, RoomKept
<1>9. QED
  BY <1>3, <1>4, <1>5, <1>6, <1>7, <1>8

\* What the API's steps, and no step, leave of the incidents and the feeders.
LEMMA OutsideForm ==
  ASSUME Typed, ApiStep \/ UNCHANGED vars
  PROVE  /\ \A t \in Feeder : th'[t] = th[t]
         /\ \A i \in Id : /\ incs'[i].signals = incs[i].signals
                          /\ incs'[i].key = incs[i].key
                          /\ incs'[i].escalated = incs[i].escalated
                          /\ incs'[i].published = incs[i].published
                          /\ incs'[i].status = "open" => incs[i].status = "open"
         /\ UNCHANGED Notified
<1>1. Api \in Thread /\ Feeder \subseteq Thread \ {Api}
  BY DEF Thread
<1>2. ASSUME NEW j \in Id, ResolveMark(j) \/ SuppressIncident(j)
      PROVE  /\ \A t \in Feeder : th'[t] = th[t]
             /\ \A i \in Id : /\ incs'[i].signals = incs[i].signals
                              /\ incs'[i].key = incs[i].key
                              /\ incs'[i].escalated = incs[i].escalated
                              /\ incs'[i].published = incs[i].published
                              /\ incs'[i].status = "open" => incs[i].status = "open"
             /\ UNCHANGED Notified
  <2>1. PICK new \in Incident :
          /\ Changes(j, new) /\ new.key = incs[j].key
          /\ new.status \in {"resolved", "suppressed"}
          /\ new.escalated = incs[j].escalated /\ new.published = incs[j].published
          /\ new.signals = incs[j].signals
    BY <1>2, ResolveMarkForm, SuppressForm
  <2>2. \A t \in Feeder : th'[t] = th[t]
    BY <1>1, <1>2, ResolveMarkForm, SuppressForm DEF Moved
  <2>3. UNCHANGED Notified
    BY <1>2, ResolveMarkForm, SuppressForm
  <2>4. QED
    BY <2>1, <2>2, <2>3 DEF Changes
<1>3. CASE ResolveTest \/ ResolveUnindex \/ Snap(Api) \/ Enqueue(Api)
  <2>1. Moved(Api) /\ UNCHANGED <<incs, Notified>>
    BY <1>1, <1>3, ResolveTestForm, ResolveUnindexForm, SnapForm, EnqueueForm DEF Dictionaries
  <2>2. QED
    BY <1>1, <2>1 DEF Moved
<1>4. CASE UNCHANGED vars
  BY <1>4 DEF vars, Notified
<1>5. QED
  BY <1>2, <1>3, <1>4 DEF ApiStep

LEMMA RoomStep == Typed /\ Room /\ [Next]_vars => Room'
<1> SUFFICES ASSUME Typed, Room, [Next]_vars PROVE Room'
  OBVIOUS
<1>1. Typed'
  BY TypedStep
<1>2. CASE \E t \in Feeder : FeederStep(t)
  BY <1>1, <1>2, FeederRoom
<1>3. CASE ApiStep \/ UNCHANGED vars
  <2>1. /\ \A t \in Feeder : th'[t] = th[t]
        /\ \A i \in Id : incs'[i].signals = incs[i].signals
    BY <1>3, OutsideForm
  <2>2. \A i \in Id : Appending(i)' = Appending(i)
    BY <2>1 DEF Appending, Op
  <2>3. QED
    BY <2>1, <2>2 DEF Room
<1>4. QED
  BY <1>2, <1>3, StepCases

\* The cap on signals is checked before the append and not with it: with the
\* feeders that have found room and not yet appended counted in, an incident
\* never exceeds it by more than the number of further feeders.
THEOREM OvershootCorrect == Spec => []SignalsOvershoot
<1> DEFINE Inv == Typed /\ Room
<1>1. Init => Inv
  BY InitTyped, InitRoom
<1>2. Inv /\ [Next]_vars => Inv'
  BY TypedStep, RoomStep
<1>3. Inv => SignalsOvershoot
  <2> SUFFICES ASSUME Typed, Room, NEW i \in Id
               PROVE  Len(incs[i].signals) <= MaxSignals + Cardinality(Feeder) - 1
    BY DEF SignalsOvershoot
  <2>1. Appending(i) \in SUBSET Feeder
    BY DEF Appending
  <2>2. /\ Cardinality(Appending(i)) \in Nat /\ Cardinality(Feeder) \in Nat
        /\ Len(incs[i].signals) \in Nat
    BY <2>1, FeederCount, SignalCount
  <2>3. Len(incs[i].signals) + Cardinality(Appending(i)) <= MaxSignals + Cardinality(Feeder) - 1
    BY DEF Room
  <2>4. QED
    BY <2>2, <2>3
<1>4. QED
  BY <1>1, <1>2, <1>3, PTL DEF Spec

----------------------------------------------------------------------------
(* The notifications: counting the feeders about to set the flag *)

LEMMA FeederMoves ==
  ASSUME Typed, NEW t \in Feeder, FeederStep(t)
  PROVE  Moved(t) /\ t \in Thread
<1>1. t \in Thread
  BY DEF Thread
<1>2. CASE \E feed \in Feeds : StartFeed(t, feed)
  BY <1>1, <1>2, StartFeedForm
<1>3. CASE LookSignal(t) \/ LookEnrich(t) \/ Create(t) \/ Check(t) \/ Apply(t)
  BY <1>1, <1>3, LookSignalForm, LookEnrichForm, CreateForm, CheckForm, ApplyForm
<1>4. CASE Rank(t) \/ Raise(t) \/ Snap(t) \/ Enqueue(t) \/ Flag(t)
  BY <1>1, <1>4, RankForm, RaiseForm, SnapForm, EnqueueForm, FlagForm
<1>5. CASE Escalate(t) \/ \E acked \in BOOLEAN : StarGate(t, acked)
  BY <1>1, <1>5, EscalateForm, StarGateForm
<1>6. QED
  BY <1>1, <1>2, <1>3, <1>4, <1>5 DEF FeederStep, Step

\* Who has notified stays counted until it sets the flag.
LEMMA TellingKept ==
  ASSUME Typed, NEW t \in Feeder, FeederStep(t), NEW i \in Id, NEW ops,
         ~(Flag(t) /\ th[t].found = i /\ Op(t) \in ops)
  PROVE  Telling(i, ops) \subseteq Telling(i, ops)'
<1>1. Moved(t)
  BY FeederMoves
<1>2. th[t].at = "flag" => Flag(t)
  BY DEF FeederStep, Step, StartFeed, LookSignal, LookEnrich, Create, Check, Apply, Rank, Raise,
         Snap, Enqueue, Escalate, StarGate, AtOp
<1>3. t \notin Telling(i, ops)
  BY <1>2 DEF Telling
<1>4. ASSUME NEW u \in Telling(i, ops) PROVE u \in Telling(i, ops)'
  <2>1. u \in Feeder /\ u # t
    BY <1>3, <1>4 DEF Telling
  <2>2. th'[u] = th[u]
    BY <1>1, <2>1 DEF Moved, Thread
  <2>3. QED
    BY <1>4, <2>1, <2>2 DEF Telling, Op
<1>5. QED
  BY <1>4

LEMMA CountKept ==
  ASSUME NEW n \in Nat, NEW S \in SUBSET Feeder, NEW R \in SUBSET S, n <= Cardinality(R)
  PROVE  n <= Cardinality(S)
BY FewerFeeders

LEMMA CountMore ==
  ASSUME NEW n \in Nat, NEW S \in SUBSET Feeder, NEW R \in SUBSET S, n <= Cardinality(R),
         NEW t \in S \ R
  PROVE  n + 1 <= Cardinality(S) /\ n + 1 <= Cardinality(Feeder)
<1>1. R \in SUBSET Feeder /\ R \cup {t} \in SUBSET S
  OBVIOUS
<1>2. IsFiniteSet(R) /\ Cardinality(R) \in Nat
  BY <1>1, FeederCount
<1>3. Cardinality(R \cup {t}) = Cardinality(R) + 1
  BY <1>2, FS_AddElement
<1>4. /\ Cardinality(R \cup {t}) <= Cardinality(S) /\ Cardinality(S) \in Nat
      /\ Cardinality(S) <= Cardinality(Feeder) /\ Cardinality(Feeder) \in Nat
  BY <1>1, FewerFeeders, FeederCount
<1>5. QED
  BY <1>2, <1>3, <1>4

\* A flag that is set stays set: an incident not there yet has none.
LEMMA FlagsStay ==
  ASSUME Typed, [Next]_vars, NEW i \in Id
  PROVE  /\ incs[i].escalated => incs'[i].escalated
         /\ incs[i].published => incs'[i].published
<1>1. CASE i < nextId
  BY <1>1, IncidentsGrow DEF Grown
<1>2. CASE ~(i < nextId)
  <2>1. incs[i] = Absent
    BY <1>2 DEF Typed, Drawn
  <2>2. QED
    BY <2>1 DEF Absent
<1>3. QED
  BY <1>1, <1>2

LEMMA EscalatesTold ==
  ASSUME Typed, Typed', Told, NEW t \in Feeder, FeederStep(t), [Next]_vars, NEW i \in Id
  PROVE  /\ tarsy'[i] <= Cardinality(Feeder)
         /\ ~incs'[i].escalated => tarsy'[i] <= Cardinality(Escalating(i)')
<1>1. /\ tarsy \in [Id -> Nat] /\ tarsy[i] \in Nat
      /\ tarsy[i] <= Cardinality(Feeder)
      /\ ~incs[i].escalated => tarsy[i] <= Cardinality(Escalating(i))
      /\ Escalating(i) \in SUBSET Feeder /\ Escalating(i)' \in SUBSET Feeder
      /\ t \in Thread
  BY DEF Typed, TypeOK, Told, NotifiedPerFeeder, Escalating, Telling, Thread
<1>2. CASE Escalate(t) /\ th[t].found = i /\ tarsy' # tarsy
  <2>1. /\ Stays(t) /\ th'[t].at = "flag" /\ ~Inc(t).escalated /\ th[t].at = "notify"
        /\ tarsy' = [ tarsy EXCEPT ![i] = @ + 1 ] /\ Op(t) = "signal"
    BY <1>1, <1>2, EscalateForm
  <2>2. tarsy'[i] = tarsy[i] + 1 /\ tarsy[i] <= Cardinality(Escalating(i))
    BY <1>1, <1>2, <2>1 DEF Inc
  <2>3. Escalating(i) \subseteq Escalating(i)'
    <3>1. ~Flag(t)
      BY <2>1 DEF Flag
    <3>2. QED
      BY <3>1, TellingKept DEF Escalating
  <2>4. t \in Escalating(i)' \ Escalating(i)
    BY <1>2, <2>1 DEF Escalating, Telling, Stays, Op
  <2>5. QED
    BY <1>1, <2>2, <2>3, <2>4, CountMore
<1>3. CASE ~(Escalate(t) /\ th[t].found = i /\ tarsy' # tarsy)
  <2>1. tarsy'[i] = tarsy[i]
    <3>1. CASE Escalate(t)
      BY <1>1, <1>3, <3>1, EscalateForm
    <3>2. CASE ~Escalate(t)
      BY <3>2 DEF FeederStep, Step, StartFeed, LookSignal, LookEnrich, Create, Check, Apply, Rank,
                  Raise, Snap, Enqueue, StarGate, Flag
    <3>3. QED
      BY <3>1, <3>2
  <2>2. ASSUME ~incs'[i].escalated PROVE tarsy[i] <= Cardinality(Escalating(i)')
    <3>1. ~incs[i].escalated
      BY <2>2, FlagsStay
    <3>2. ~(Flag(t) /\ th[t].found = i /\ Op(t) \in {"signal"})
      BY <1>1, <2>2, FlagForm DEF Changes
    <3>3. Escalating(i) \subseteq Escalating(i)'
      BY <3>2, TellingKept DEF Escalating
    <3>4. QED
      BY <1>1, <3>1, <3>3, CountKept
  <2>3. QED
    BY <1>1, <2>1, <2>2
<1>4. QED
  BY <1>2, <1>3

LEMMA PublishesTold ==
  ASSUME Typed, Typed', Told, NEW t \in Feeder, FeederStep(t), [Next]_vars, NEW i \in Id
  PROVE  /\ accepted'[i] <= Cardinality(Feeder)
         /\ ~incs'[i].published => accepted'[i] <= Cardinality(Publishing(i)')
<1>1. /\ accepted \in [Id -> Nat] /\ accepted[i] \in Nat
      /\ accepted[i] <= Cardinality(Feeder)
      /\ ~incs[i].published => accepted[i] <= Cardinality(Publishing(i))
      /\ Publishing(i) \in SUBSET Feeder /\ Publishing(i)' \in SUBSET Feeder
      /\ t \in Thread
  BY DEF Typed, TypeOK, Told, NotifiedPerFeeder, Publishing, Telling, Thread
<1> DEFINE Push == \E acked \in BOOLEAN : StarGate(t, acked)
<1>2. CASE Push /\ th[t].found = i /\ accepted' # accepted
  <2>1. /\ Stays(t) /\ th'[t].at = "flag" /\ ~Inc(t).published /\ th[t].at = "notify"
        /\ accepted' = [ accepted EXCEPT ![i] = @ + 1 ] /\ Op(t) \in {"infer", "offer"}
    BY <1>1, <1>2, StarGateForm
  <2>2. accepted'[i] = accepted[i] + 1 /\ accepted[i] <= Cardinality(Publishing(i))
    BY <1>1, <1>2, <2>1 DEF Inc
  <2>3. Publishing(i) \subseteq Publishing(i)'
    <3>1. ~Flag(t)
      BY <2>1 DEF Flag
    <3>2. QED
      BY <3>1, TellingKept DEF Publishing
  <2>4. t \in Publishing(i)' \ Publishing(i)
    BY <1>2, <2>1 DEF Publishing, Telling, Stays, Op
  <2>5. QED
    BY <1>1, <2>2, <2>3, <2>4, CountMore
<1>3. CASE ~(Push /\ th[t].found = i /\ accepted' # accepted)
  <2>1. accepted'[i] = accepted[i]
    <3>1. CASE Push
      BY <1>1, <1>3, <3>1, StarGateForm
    <3>2. CASE ~Push
      BY <3>2 DEF FeederStep, Step, StartFeed, LookSignal, LookEnrich, Create, Check, Apply, Rank,
                  Raise, Snap, Enqueue, Escalate, Flag
    <3>3. QED
      BY <3>1, <3>2
  <2>2. ASSUME ~incs'[i].published PROVE accepted[i] <= Cardinality(Publishing(i)')
    <3>1. ~incs[i].published
      BY <2>2, FlagsStay
    <3>2. ~(Flag(t) /\ th[t].found = i /\ Op(t) \in {"infer", "offer"})
      BY <1>1, <2>2, FlagForm DEF Changes
    <3>3. Publishing(i) \subseteq Publishing(i)'
      BY <3>2, TellingKept DEF Publishing
    <3>4. QED
      BY <1>1, <3>1, <3>3, CountKept
  <2>3. QED
    BY <1>1, <2>1, <2>2
<1>4. QED
  BY <1>2, <1>3

LEMMA ToldStep == Typed /\ Told /\ [Next]_vars => Told'
<1> SUFFICES ASSUME Typed, Told, [Next]_vars PROVE Told'
  OBVIOUS
<1>1. Typed'
  BY TypedStep
<1>2. CASE \E t \in Feeder : FeederStep(t)
  BY <1>1, <1>2, EscalatesTold, PublishesTold DEF Told, NotifiedPerFeeder
<1>3. CASE ApiStep \/ UNCHANGED vars
  <2>1. /\ \A t \in Feeder : th'[t] = th[t]
        /\ tarsy' = tarsy /\ accepted' = accepted
        /\ \A i \in Id : /\ incs'[i].escalated = incs[i].escalated
                         /\ incs'[i].published = incs[i].published
    BY <1>3, OutsideForm DEF Notified
  <2>2. \A i \in Id : Escalating(i)' = Escalating(i) /\ Publishing(i)' = Publishing(i)
    BY <2>1 DEF Escalating, Publishing, Telling, Op
  <2>3. QED
    BY <2>1, <2>2 DEF Told, NotifiedPerFeeder
<1>4. QED
  BY <1>2, <1>3, StepCases

\* TARSy is asked, and StarGate accepts, at most once for each feeder: while
\* the flag is not set, every request sent is that of a feeder about to set it.
THEOREM NotifiedCorrect == Spec => []NotifiedPerFeeder
<1> DEFINE Inv == Typed /\ Told
<1>1. Init => Inv
  <2> SUFFICES ASSUME Init, NEW i \in Id
               PROVE  /\ tarsy[i] <= Cardinality(Feeder) /\ tarsy[i] <= Cardinality(Escalating(i))
                      /\ accepted[i] <= Cardinality(Feeder)
                      /\ accepted[i] <= Cardinality(Publishing(i))
    BY InitTyped DEF Told, NotifiedPerFeeder
  <2>1. tarsy[i] = 0 /\ accepted[i] = 0
    BY DEF Init
  <2>2. Escalating(i) \in SUBSET Feeder /\ Publishing(i) \in SUBSET Feeder
    BY DEF Escalating, Publishing, Telling
  <2>3. /\ Cardinality(Escalating(i)) \in Nat /\ Cardinality(Publishing(i)) \in Nat
        /\ Cardinality(Feeder) \in Nat
    BY <2>2, FeederCount
  <2>4. QED
    BY <2>1, <2>3
<1>2. Inv /\ [Next]_vars => Inv'
  BY TypedStep, ToldStep
<1>3. Inv => NotifiedPerFeeder
  BY DEF Told
<1>4. QED
  BY <1>1, <1>2, <1>3, PTL DEF Spec

----------------------------------------------------------------------------
(* Duplicates: counting the feeders about to create, and the entries lost *)

LEMMA LossCount ==
  ASSUME Typed
  PROVE  /\ closes \in Nat /\ Losses \in Int /\ Losses <= 2 * closes
         /\ th[Api].at \in {"test", "unindex"} => Losses = 2 * closes - 1
         /\ th[Api].at \notin {"test", "unindex"} => Losses = 2 * closes
  BY DEF Typed, TypeOK, Losses

LEMMA KeyFinite ==
  ASSUME NEW n \in Nat, NEW is \in [Id -> Incident], NEW k \in Key,
         \A i \in Id : ~(i < n) => is[i] = Absent
  PROVE  IsFiniteSet({ i \in Id : is[i].key = k })
<1> DEFINE S == { i \in Id : is[i].key = k }
<1>1. ASSUME NEW i \in S PROVE i \in 0..n
  <2>1. i \in Id /\ is[i].key = k /\ i \in Nat
    BY <1>1
  <2>2. Absent.key = None /\ None \notin Key
    BY DEF Absent
  <2>3. i < n
    BY <2>1, <2>2
  <2>4. QED
    BY <2>1, <2>3
<1>2. IsFiniteSet(0..n)
  BY FS_Interval
<1> HIDE DEF S
<1>3. S \subseteq 0..n
  BY <1>1
<1>4. IsFiniteSet(S)
  BY <1>2, <1>3, FS_Subset
<1>5. QED
  BY <1>4 DEF S

\* The sets of Few, before and after a step.
LEMMA KeyCount ==
  ASSUME Typed, Typed', NEW k \in Key
  PROVE  /\ IsFiniteSet(Of(k)) /\ Cardinality(Of(k)) \in Nat
         /\ IsFiniteSet(Of(k)') /\ Cardinality(Of(k)') \in Nat
         /\ Creating(k) \in SUBSET Feeder /\ Cardinality(Creating(k)) \in Nat
         /\ Creating(k)' \in SUBSET Feeder /\ Cardinality(Creating(k)') \in Nat
         /\ Cardinality(Creating(k)) <= Cardinality(Feeder) /\ Cardinality(Feeder) \in Nat
         /\ Losses \in Int /\ Losses' \in Int
<1>1. IsFiniteSet(Of(k)) /\ IsFiniteSet(Of(k)')
  <2>1. /\ nextId \in Nat /\ incs \in [Id -> Incident]
        /\ \A i \in Id : ~(i < nextId) => incs[i] = Absent
    BY DEF Typed, TypeOK, Drawn
  <2>2. /\ nextId' \in Nat /\ incs' \in [Id -> Incident]
        /\ \A i \in Id : ~(i < nextId') => incs'[i] = Absent
    BY DEF Typed, TypeOK, Drawn
  <2>3. QED
    BY <2>1, <2>2, KeyFinite DEF Of
<1>2. Creating(k) \in SUBSET Feeder /\ Creating(k)' \in SUBSET Feeder
  BY DEF Creating
<1>3. Losses \in Int /\ Losses' \in Int
  BY DEF Losses, Typed, TypeOK
<1>4. QED
  BY <1>1, <1>2, <1>3, FeederCount, FS_CardinalityType

LEMMA Times ==
  ASSUME NEW f \in Nat, NEW a \in Int, NEW b \in Int
  PROVE  /\ f * a \in Int /\ f * b \in Int
         /\ f * (1 + a) = f * a + f
         /\ a <= b => f * a <= f * b
  OBVIOUS

\* A step that creates no incident of the key: who looks the key up while the
\* index leads somewhere does not join the creators.
LEMMA FewKept ==
  ASSUME Typed, Typed', Few, NEW k \in Key,
         Of(k)' \subseteq Of(k), Losses' >= Losses,
         Leads(k)' => Leads(k) /\ Creating(k)' \subseteq Creating(k),
         Leads(k) => Leads(k)' \/ Losses' >= Losses + 1
  PROVE  IF Leads(k)'
         THEN Cardinality(Of(k)') + Cardinality(Creating(k)') <= Cardinality(Feeder) * (1 + Losses')
         ELSE Cardinality(Of(k)') <= Cardinality(Feeder) * Losses'
<1> DEFINE f  == Cardinality(Feeder)
           a  == Losses
           b  == Losses'
           n  == Cardinality(Of(k))
           m  == Cardinality(Of(k)')
           c  == Cardinality(Creating(k))
           d  == Cardinality(Creating(k)')
<1>1. /\ f \in Nat /\ a \in Int /\ b \in Int /\ a <= b
      /\ n \in Nat /\ m \in Nat /\ c \in Nat /\ d \in Nat
  BY KeyCount
<1>2. m <= n
  BY KeyCount, FS_Subset
<1>3. Leads(k)' => d <= c
  BY KeyCount, FewerFeeders
<1>4. IF Leads(k) THEN n + c <= f * (1 + a) ELSE n <= f * a
  BY DEF Few
<1> HIDE DEF f, a, b, n, m, c, d
<1>5. /\ f * a \in Int /\ f * b \in Int /\ f * a <= f * b
      /\ f * (1 + a) = f * a + f /\ f * (1 + b) = f * b + f
  BY <1>1, Times
<1>6. CASE Leads(k)'
  <2>1. n + c <= f * (1 + a) /\ d <= c
    BY <1>3, <1>4, <1>6
  <2>2. m + d <= f * (1 + b)
    BY <1>1, <1>2, <1>5, <2>1
  <2>3. QED
    BY <1>6, <2>2 DEF f, b, m, d
<1>7. CASE ~Leads(k)' /\ ~Leads(k)
  <2>1. n <= f * a
    BY <1>4, <1>7
  <2>2. m <= f * b
    BY <1>1, <1>2, <1>5, <2>1
  <2>3. QED
    BY <1>7, <2>2 DEF f, b, m
<1>8. CASE ~Leads(k)' /\ Leads(k)
  <2>1. n + c <= f * (1 + a) /\ 1 + a <= b
    BY <1>1, <1>4, <1>8 DEF a, b
  <2>2. 1 + a \in Int /\ f * (1 + a) <= f * b
    BY <1>1, <2>1, Times
  <2>3. m <= f * b
    BY <1>1, <1>2, <1>5, <2>1, <2>2
  <2>4. QED
    BY <1>8, <2>3 DEF f, b, m
<1>9. QED
  BY <1>6, <1>7, <1>8

\* A step that creates one: its feeder leaves the creators.
LEMMA FewMore ==
  ASSUME Typed, Typed', Few, NEW k \in Key, NEW t \in Creating(k), NEW i \in Id,
         Of(k)' \subseteq Of(k) \cup {i}, Creating(k)' \subseteq Creating(k) \ {t},
         Losses' = Losses
  PROVE  Cardinality(Of(k)') + Cardinality(Creating(k)') <= Cardinality(Feeder) * (1 + Losses')
<1> DEFINE f  == Cardinality(Feeder)
           a  == Losses
           n  == Cardinality(Of(k))
           m  == Cardinality(Of(k)')
           c  == Cardinality(Creating(k))
           d  == Cardinality(Creating(k)')
<1>1. /\ f \in Nat /\ a \in Int /\ Losses' = a
      /\ n \in Nat /\ m \in Nat /\ c \in Nat /\ d \in Nat /\ c <= f
  BY KeyCount
<1>2. m <= n + 1
  <2>1. IsFiniteSet(Of(k) \cup {i}) /\ Cardinality(Of(k) \cup {i}) \in {n, n + 1}
    BY KeyCount, FS_AddElement
  <2>2. m <= Cardinality(Of(k) \cup {i})
    BY <2>1, FS_Subset
  <2> HIDE DEF n, m
  <2>3. QED
    BY <1>1, <2>1, <2>2
<1>3. d <= c - 1
  <2>1. IsFiniteSet(Creating(k))
    BY KeyCount, FeederCount
  <2>2. IsFiniteSet(Creating(k) \ {t}) /\ Cardinality(Creating(k) \ {t}) = c - 1
    BY <2>1, FS_RemoveElement
  <2>3. d <= Cardinality(Creating(k) \ {t})
    BY <2>2, FS_Subset
  <2> HIDE DEF c, d
  <2>4. QED
    BY <2>2, <2>3
<1>4. IF Leads(k) THEN n + c <= f * (1 + a) ELSE n <= f * a
  BY DEF Few
<1> HIDE DEF f, a, n, m, c, d
<1>5. f * a \in Int /\ f * (1 + a) = f * a + f
  BY <1>1, Times
<1>6. n + c <= f * a + f
  BY <1>1, <1>4, <1>5
<1>7. m + d <= f * (1 + a)
  BY <1>1, <1>2, <1>3, <1>5, <1>6
<1>8. QED
  BY <1>1, <1>7 DEF f, m, d

\* A key leads to an open incident after a step only if it did before, for the
\* steps that neither write the index nor open an incident.
LEMMA SameLeads ==
  ASSUME Typed, NEW k \in Key, index' = index,
         \A i \in Id : incs'[i].status = "open" <=> incs[i].status = "open"
  PROVE  Leads(k)' <=> Leads(k)
<1>1. index[k] \in Id \cup {NoId} /\ NoId \notin Id
  BY DEF Typed, TypeOK, NoId
<1>2. QED
  BY <1>1 DEF Leads, FindOpen

LEMMA SameLosses ==
  ASSUME closes' = closes,
         th'[Api].at \in {"test", "unindex"} <=> th[Api].at \in {"test", "unindex"}
  PROVE  Losses' = Losses
  BY DEF Losses

\* What a feeder's step that creates nothing leaves of the incidents.
LEMMA FeederKeeps ==
  ASSUME Typed, NEW t \in Feeder, FeederStep(t), ~Create(t)
  PROVE  /\ index' = index /\ closes' = closes
         /\ \A i \in Id : incs'[i].key = incs[i].key /\ incs'[i].status = incs[i].status
<1>1. t \in Thread
  BY DEF Thread
<1>2. CASE Apply(t) \/ Raise(t) \/ Flag(t)
  <2>1. \E new \in Incident : /\ Changes(th[t].found, new)
                              /\ new.key = Inc(t).key /\ new.status = Inc(t).status
    BY <1>1, <1>2, ApplyForm, RaiseForm, FlagForm
  <2>2. QED
    BY <1>2, <2>1 DEF Changes, Inc, Apply, Raise, Flag
<1>3. CASE ~(Apply(t) \/ Raise(t) \/ Flag(t))
  BY <1>3 DEF FeederStep, Step, StartFeed, LookSignal, LookEnrich, Check, Rank, Snap, Enqueue,
              Escalate, StarGate
<1>4. QED
  BY <1>2, <1>3

\* Only a feeder that finds no open incident becomes a creator.
LEMMA CreatingKept ==
  ASSUME Typed, NEW t \in Feeder, FeederStep(t), NEW k \in Key, Leads(k)
  PROVE  Creating(k)' \subseteq Creating(k)
<1>1. Moved(t) /\ t \in Thread
  BY FeederMoves
<1>2. ~(th'[t].at = "create" /\ th'[t].key = k)
  <2>1. CASE LookSignal(t)
    BY <1>1, <2>1, LookSignalForm
  <2>2. CASE \E feed \in Feeds : StartFeed(t, feed)
    BY <1>1, <2>2, StartFeedForm
  <2>3. CASE LookEnrich(t) \/ Create(t) \/ Check(t) \/ Apply(t)
    <3>1. th'[t].at # "create"
      BY <1>1, <2>3, LookEnrichForm, CreateForm, CheckForm, ApplyForm DEF Done
    <3>2. QED
      BY <3>1
  <2>4. CASE Rank(t) \/ Raise(t) \/ Snap(t) \/ Enqueue(t) \/ Flag(t)
    BY <1>1, <2>4, RankForm, RaiseForm, SnapForm, EnqueueForm, FlagForm DEF Done
  <2>5. CASE Escalate(t) \/ \E acked \in BOOLEAN : StarGate(t, acked)
    BY <1>1, <2>5, EscalateForm, StarGateForm DEF Done
  <2>6. QED
    BY <2>1, <2>2, <2>3, <2>4, <2>5 DEF FeederStep, Step
<1>3. QED
  BY <1>1, <1>2 DEF Creating, Moved, Thread

LEMMA CreateFew ==
  ASSUME Typed, Typed', Few, NEW t \in Feeder, Create(t)
  PROVE  Few'
<1>1. t \in Thread /\ Api \in Thread /\ Api # t
  BY DEF Thread
<1>2. /\ Moved(t) /\ th[t].at = "create" /\ th'[t].at = "snap"
      /\ nextId \in Id /\ th[t].key \in Key
      /\ index' = [ index EXCEPT ![th[t].key] = nextId ] /\ closes' = closes
  BY <1>1, CreateForm
<1>3. PICK inc \in Incident : /\ Changes(nextId, inc)
                              /\ inc.key = th[t].key /\ inc.status = "open"
  BY <1>1, CreateForm
<1>4. Losses' = Losses
  BY <1>1, <1>2, SameLosses DEF Moved
<1>5. \A k \in Key : Creating(k)' \subseteq Creating(k) \ {t}
  BY <1>2 DEF Creating, Moved, Thread
<1>6. index \in [Key -> Id \cup {NoId}] /\ nextId # NoId
  BY <1>2 DEF Typed, TypeOK, NoId
<1> SUFFICES ASSUME NEW k \in Key
             PROVE  IF Leads(k)'
                    THEN Cardinality(Of(k)') + Cardinality(Creating(k)')
                           <= Cardinality(Feeder) * (1 + Losses')
                    ELSE Cardinality(Of(k)') <= Cardinality(Feeder) * Losses'
  BY DEF Few
<1>7. CASE k = th[t].key
  <2>1. index'[k] = nextId /\ incs'[nextId].status = "open"
    BY <1>2, <1>3, <1>6, <1>7 DEF Changes
  <2>2. Leads(k)'
    BY <1>6, <2>1 DEF Leads, FindOpen
  <2>3. Of(k)' \subseteq Of(k) \cup {nextId}
    BY <1>3 DEF Of, Changes
  <2>4. t \in Creating(k)
    BY <1>2, <1>7 DEF Creating
  <2>5. QED
    BY <1>2, <1>4, <1>5, <2>2, <2>3, <2>4, FewMore
<1>8. CASE k # th[t].key
  <2>1. index'[k] = index[k]
    BY <1>2, <1>6, <1>8
  <2>2. index[k] # NoId => index[k] \in Id /\ index[k] # nextId
    BY <1>6 DEF Typed, TypeOK, Drawn
  <2>3. Leads(k)' <=> Leads(k)
    BY <1>3, <2>1, <2>2 DEF Leads, FindOpen, Changes
  <2>4. Of(k)' \subseteq Of(k)
    BY <1>3, <1>8 DEF Of, Changes
  <2>5. Creating(k)' \subseteq Creating(k)
    BY <1>5
  <2>6. Losses' >= Losses
    BY <1>4, LossCount
  <2>7. QED
    BY <2>3, <2>4, <2>5, <2>6, FewKept
<1>9. QED
  BY <1>7, <1>8

LEMMA FeederFew ==
  ASSUME Typed, Typed', Few, NEW t \in Feeder, FeederStep(t)
  PROVE  Few'
<1>1. CASE Create(t)
  BY <1>1, CreateFew
<1>2. CASE ~Create(t)
  <2>1. /\ index' = index /\ closes' = closes
        /\ \A i \in Id : incs'[i].key = incs[i].key /\ incs'[i].status = incs[i].status
    BY <1>2, FeederKeeps
  <2>2. Api \in Thread \ {t} /\ Moved(t)
    BY FeederMoves DEF Thread
  <2>3. Losses' = Losses
    BY <2>1, <2>2, SameLosses DEF Moved
  <2>4. Losses' >= Losses
    BY <2>3, LossCount
  <2>5. \A k \in Key : (Leads(k)' <=> Leads(k)) /\ Of(k)' \subseteq Of(k)
    BY <2>1, SameLeads DEF Of
  <2>6. \A k \in Key : Leads(k) => Creating(k)' \subseteq Creating(k)
    BY CreatingKept
  <2>7. QED
    BY <2>4, <2>5, <2>6, FewKept DEF Few
<1>3. QED
  BY <1>1, <1>2

\* A closing, and the `del` of resolve_incident, each count as one entry lost.
LEMMA LosingForm ==
  ASSUME Typed, (\E i \in Id : ResolveMark(i) \/ SuppressIncident(i)) \/ ResolveUnindex
  PROVE  /\ Losses' >= Losses + 1
         /\ \A k \in Key : index'[k] \in {index[k], NoId}
<1>1. Api \in Thread /\ closes \in Nat /\ index \in [Key -> Id \cup {NoId}]
  BY DEF Thread, Typed, TypeOK
<1>2. ASSUME NEW i \in Id, ResolveMark(i)
      PROVE  Losses' >= Losses + 1 /\ index' = index
  <2>1. /\ th[Api].at = "idle" /\ th'[Api].at = "test" /\ closes' = closes + 1 /\ index' = index
    BY <1>2, ResolveMarkForm
  <2>2. QED
    BY <1>1, <2>1 DEF Losses
<1>3. ASSUME NEW i \in Id, SuppressIncident(i)
      PROVE  Losses' >= Losses + 1 /\ index' = index
  <2>1. th' = th /\ closes' = closes + 1 /\ index' = index
    BY <1>3, SuppressForm
  <2>2. QED
    BY <1>1, <2>1 DEF Losses
<1>4. CASE ResolveUnindex
  <2>1. /\ th[Api].at = "unindex" /\ th'[Api].at = "snap" /\ closes' = closes
        /\ index' \in {index, [ index EXCEPT ![th[Api].key] = NoId ]}
    BY <1>4, ResolveUnindexForm
  <2>2. Losses' >= Losses + 1
    BY <1>1, <2>1 DEF Losses
  <2>3. QED
    BY <1>1, <2>1, <2>2
<1>5. QED
  BY <1>2, <1>3, <1>4

LEMMA OutsideFew ==
  ASSUME Typed, Typed', Few, ApiStep \/ UNCHANGED vars
  PROVE  Few'
<1>1. /\ \A t \in Feeder : th'[t] = th[t]
      /\ \A i \in Id : /\ incs'[i].key = incs[i].key
                       /\ incs'[i].status = "open" => incs[i].status = "open"
  BY OutsideForm
<1>2. \A k \in Key : Of(k)' \subseteq Of(k) /\ Creating(k)' \subseteq Creating(k)
  BY <1>1 DEF Of, Creating
<1>3. CASE (\E i \in Id : ResolveMark(i) \/ SuppressIncident(i)) \/ ResolveUnindex
  <2>1. Losses' >= Losses + 1 /\ \A k \in Key : index'[k] \in {index[k], NoId}
    BY <1>3, LosingForm
  <2>2. Losses' >= Losses
    <3>1. Losses \in Int /\ Losses' \in Int
      BY DEF Losses, Typed, TypeOK
    <3>2. QED
      BY <2>1, <3>1
  <2>3. ASSUME NEW k \in Key PROVE Leads(k)' => Leads(k)
    <3>1. index[k] \in Id \cup {NoId} /\ index'[k] \in {index[k], NoId}
      BY <2>1 DEF Typed, TypeOK
    <3>2. QED
      BY <1>1, <3>1 DEF Leads, FindOpen
  <2>4. QED
    BY <1>2, <2>1, <2>2, <2>3, FewKept DEF Few
<1>4. CASE ResolveTest \/ Snap(Api) \/ Enqueue(Api) \/ UNCHANGED vars
  <2>1. incs' = incs /\ index' = index /\ closes' = closes
    BY <1>4 DEF ResolveTest, Snap, Enqueue, vars
  <2>2. th'[Api].at \in {"test", "unindex"} <=> th[Api].at \in {"test", "unindex"}
    <3>1. Api \in Thread
      BY DEF Thread
    <3>2. QED
      BY <1>4, <3>1, ResolveTestForm, SnapForm, EnqueueForm DEF Done, vars
  <2>3. Losses' >= Losses
    BY <2>1, <2>2, SameLosses, LossCount
  <2>4. \A k \in Key : Leads(k)' <=> Leads(k)
    BY <2>1, SameLeads
  <2>5. QED
    BY <1>2, <2>3, <2>4, FewKept DEF Few
<1>5. QED
  BY <1>3, <1>4 DEF ApiStep

LEMMA FewStep == Typed /\ Few /\ [Next]_vars => Few'
<1> SUFFICES ASSUME Typed, Few, [Next]_vars PROVE Few'
  OBVIOUS
<1>1. Typed'
  BY TypedStep
<1>2. QED
  BY <1>1, FeederFew, OutsideFew, StepCases

LEMMA InitFew == Init => Few
<1> SUFFICES ASSUME Init, NEW k \in Key
             PROVE  IF Leads(k) THEN Cardinality(Of(k)) + Cardinality(Creating(k))
                                       <= Cardinality(Feeder) * (1 + Losses)
                    ELSE Cardinality(Of(k)) <= Cardinality(Feeder) * Losses
  BY DEF Few
<1>1. ~Leads(k)
  BY DEF Init, Leads, FindOpen
<1>2. Of(k) = {}
  BY DEF Init, Of, Absent
<1>3. Losses = 0
  <2>1. th[Api].at = "idle" /\ closes = 0
    BY IdleType DEF Init, Thread
  <2>2. Losses = 2 * closes
    BY <2>1, InitTyped, LossCount
  <2>3. QED
    BY <2>1, <2>2
<1>4. Cardinality(Of(k)) = 0 /\ Cardinality(Feeder) * Losses = 0
  BY <1>2, <1>3, FS_EmptySet, FeederCount
<1>5. QED
  BY <1>1, <1>4

\* The incidents of a key: each feeder may create one whenever the index leads
\* nowhere, and the entry is lost at most twice for each closing.
THEOREM DuplicatesCorrect == Spec => []DuplicatesBounded
<1> DEFINE Inv == Typed /\ Few
<1>1. Init => Inv
  BY InitTyped, InitFew
<1>2. Inv /\ [Next]_vars => Inv'
  BY TypedStep, FewStep
<1>3. Inv => DuplicatesBounded
  <2> SUFFICES ASSUME Typed, Few, NEW k \in Key
               PROVE  Cardinality(Of(k)) <= Cardinality(Feeder) * (1 + 2 * closes)
    BY DEF DuplicatesBounded, Of
  <2> DEFINE f == Cardinality(Feeder)
             n == Cardinality(Of(k))
             c == Cardinality(Creating(k))
             a == Losses
             b == 2 * closes
  <2>1. /\ f \in Nat /\ c \in Nat /\ a \in Int /\ b \in Int /\ a <= b
    BY LossCount, FeederCount DEF Creating
  <2>2. n \in Nat
    <3>1. /\ nextId \in Nat /\ incs \in [Id -> Incident]
          /\ \A i \in Id : ~(i < nextId) => incs[i] = Absent
      BY DEF Typed, TypeOK, Drawn
    <3>2. QED
      BY <3>1, KeyFinite, FS_CardinalityType DEF Of
  <2>3. n + c <= f * (1 + a) \/ n <= f * a
    BY DEF Few
  <2> HIDE DEF f, n, c, a, b
  <2>4. /\ f * a \in Int /\ f * b \in Int /\ f * a <= f * b
        /\ f * (1 + a) = f * a + f /\ f * (1 + b) = f * b + f
    BY <2>1, Times
  <2>5. n <= f * (1 + b)
    BY <2>1, <2>2, <2>3, <2>4
  <2>6. QED
    BY <2>5 DEF f, n, b
<1>4. QED
  BY <1>1, <1>2, <1>3, PTL DEF Spec
=============================================================================
