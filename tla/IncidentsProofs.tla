--------------------------- MODULE IncidentsProofs ---------------------------
(***************************************************************************)
(* Invariance proofs about Incidents: all its safety properties.           *)
(*                                                                         *)
(* TypeOK is inductive as it stands.  The others rest on IndexSound, which *)
(* says where an entry of self._index leads and that ids not yet drawn     *)
(* occur nowhere: ClosedStaysClosed follows from it, and with it Behind    *)
(* (the rows on their way are snapshots of what memory holds) and          *)
(* QueuedOrWritten (the last row of an incident says what memory says) are *)
(* inductive.                                                              *)
(***************************************************************************)
EXTENDS Incidents, SequenceTheorems, TLAPS

\* Rows of incidents the process has drawn an id for.
IssuedRow == { r \in Row : r.id < nextId /\ r.inc.key \in Key }

\* The two dictionaries agree.  An index entry leads to an incident of its key
\* that is open or suppressed (resolve removes the entry, suppress leaves it),
\* and no id yet to be drawn is used in memory, in a row on its way or in the table.
IndexLeads ==
  \A k \in Key : index[k] # NoId =>
     /\ incs[index[k]].key = k
     /\ incs[index[k]].status \in {"open", "suppressed"}

KeysKnown ==
  \A i \in Id : /\ incs[i].status # "absent" => incs[i].key \in Key
                /\ db[i].status # "absent" => db[i].key \in Key

Unissued ==
  \A i \in Id : i >= nextId => incs[i].status = "absent" /\ db[i].status = "absent"

RowsIssued == queue \in Seq(IssuedRow) /\ batch \in Seq(IssuedRow)

IndexSound ==
  TypeOK /\ IndexLeads /\ KeysKnown /\ Unissued /\ RowsIssued

----------------------------------------------------------------------------
(* Snapshots of an incident *)

\* A prefix, element by element.
LEMMA PrefixElements ==
  ASSUME NEW S, NEW a \in Seq(S), NEW b \in Seq(S)
  PROVE  IsPrefix(a, b) <=> Len(a) <= Len(b) /\ \A n \in 1..Len(a) : a[n] = b[n]
<1>1. /\ Len(a) \in Nat /\ Len(b) \in Nat
      /\ \A n \in 1..Len(a) : a[n] \in S
      /\ \A n \in 1..Len(b) : b[n] \in S
  BY LenProperties, ElementOfSeq
<1>2. SUFFICES ASSUME Len(a) <= Len(b)
               PROVE  SubSeq(a, 1, Len(a)) = SubSeq(b, 1, Len(a))
                        <=> \A n \in 1..Len(a) : a[n] = b[n]
  BY DEF IsPrefix
<1>3. SubSeq(a, 1, Len(a)) = a
  BY SubSeqFull
<1> DEFINE p == SubSeq(b, 1, Len(a))
<1>4. /\ p \in Seq(S)
      /\ Len(p) = Len(a)
      /\ \A n \in 1..Len(a) : p[n] = b[n]
  <2>1. \A n \in 1..Len(a) : b[n] \in S
    BY <1>1, <1>2
  <2>2. p \in Seq(S) /\ Len(p) = (IF 1 <= Len(a) THEN Len(a) - 1 + 1 ELSE 0)
    BY <1>1, <2>1, SubSeqProperties
  <2>3. \A n \in 1..(Len(a) - 1 + 1) : p[n] = b[1 + n - 1]
    BY <1>1, <2>1, SubSeqProperties
  <2> HIDE DEF p
  <2>4. QED
    BY <1>1, <2>2, <2>3
<1> HIDE DEF p
<1>5. a = p <=> \A n \in 1..Len(a) : a[n] = p[n]
  BY <1>4, SeqEqual
<1>6. QED
  BY <1>3, <1>4, <1>5 DEF p

LEMMA AppendExtends ==
  ASSUME NEW S, NEW s \in Seq(S), NEW e \in S
  PROVE  IsPrefix(s, Append(s, e))
<1> DEFINE longer == Append(s, e)
<1>1. /\ longer \in Seq(S) /\ Len(longer) = Len(s) + 1 /\ Len(s) \in Nat
      /\ \A n \in 1..Len(s) : longer[n] = s[n]
  BY AppendProperties, LenProperties
<1> HIDE DEF longer
<1>2. IsPrefix(s, longer) <=> Len(s) <= Len(longer) /\ \A n \in 1..Len(s) : s[n] = longer[n]
  BY <1>1, PrefixElements
<1>3. QED
  BY <1>1, <1>2 DEF longer

LEMMA PrefixOfPrefix ==
  ASSUME NEW S, NEW a \in Seq(S), NEW b \in Seq(S), NEW c \in Seq(S),
         IsPrefix(a, b), IsPrefix(b, c)
  PROVE  IsPrefix(a, c)
<1>1. Len(a) \in Nat /\ Len(b) \in Nat /\ Len(c) \in Nat
  BY LenProperties
<1>2. /\ Len(a) <= Len(b) /\ \A n \in 1..Len(a) : a[n] = b[n]
      /\ Len(b) <= Len(c) /\ \A n \in 1..Len(b) : b[n] = c[n]
  BY PrefixElements
<1>3. Len(a) <= Len(c) /\ \A n \in 1..Len(a) : a[n] = c[n]
  BY <1>1, <1>2
<1>4. QED
  BY <1>3, PrefixElements

LEMMA SeverityRank == \A sev \in Severity : SevRank[sev] \in Nat
  BY DEF Severity, SevRank

LEMMA PrecedesItself ==
  ASSUME NEW inc \in Incident
  PROVE  Precedes(inc, inc)
<1>1. inc.signals \in Seq(Sig) /\ SevRank[inc.severity] \in Nat
      /\ inc.seen \in Nat /\ inc.infers \in Nat
  BY SeverityRank DEF Incident
<1>2. IsPrefix(inc.signals, inc.signals)
  BY <1>1, LenProperties DEF IsPrefix
<1>3. QED
  BY <1>1, <1>2 DEF Precedes

\* An earlier snapshot of an earlier snapshot is an earlier snapshot.
LEMMA PrecedesOnward ==
  ASSUME NEW x \in Incident, NEW y \in Incident, NEW z \in Incident,
         Precedes(x, y), Precedes(y, z)
  PROVE  Precedes(x, z)
<1>1. x.key = z.key /\ x.options \subseteq z.options
      /\ (x.escalated => z.escalated) /\ (x.published => z.published)
  BY DEF Precedes
<1>2. x.status \in {"open", z.status} \/ z.status \in {"resolved", "suppressed"}
  BY DEF Precedes
<1>3. SevRank[x.severity] <= SevRank[z.severity]
  <2>1. /\ SevRank[x.severity] \in Nat /\ SevRank[y.severity] \in Nat
        /\ SevRank[z.severity] \in Nat
    BY SeverityRank DEF Incident
  <2>2. SevRank[x.severity] <= SevRank[y.severity] /\ SevRank[y.severity] <= SevRank[z.severity]
    BY DEF Precedes
  <2>3. QED
    BY <2>1, <2>2
<1>4. x.seen <= z.seen /\ x.infers <= z.infers
  <2>1. /\ x.seen \in Nat /\ y.seen \in Nat /\ z.seen \in Nat
        /\ x.infers \in Nat /\ y.infers \in Nat /\ z.infers \in Nat
    BY DEF Incident
  <2>2. x.seen <= y.seen /\ y.seen <= z.seen /\ x.infers <= y.infers /\ y.infers <= z.infers
    BY DEF Precedes
  <2>3. QED
    BY <2>1, <2>2
<1>5. IsPrefix(x.signals, z.signals)
  <2>1. x.signals \in Seq(Sig) /\ y.signals \in Seq(Sig) /\ z.signals \in Seq(Sig)
    BY DEF Incident
  <2>2. IsPrefix(x.signals, y.signals) /\ IsPrefix(y.signals, z.signals)
    BY DEF Precedes
  <2>3. QED
    BY <2>1, <2>2, PrefixOfPrefix
<1>6. QED
  BY <1>1, <1>2, <1>3, <1>4, <1>5 DEF Precedes

\* What a method makes, at time t, of an incident it finds.
Grows(old, inc, t) ==
  /\ inc.key       = old.key
  /\ inc.status    = old.status
  /\ inc.escalated = old.escalated
  /\ inc.published = old.published
  /\ old.seen <= t => Precedes(old, inc) /\ inc.seen <= t

----------------------------------------------------------------------------
(* Types of the operators on one incident *)

LEMMA AbsentType == Absent \in Incident
  BY DEF Absent, Incident, Status, Severity

LEMMA NewIncidentType ==
  ASSUME NEW k \in Key, NEW sig \in Sig, NEW sev \in Severity, NEW t \in Nat
  PROVE  /\ NewIncident(k, sig, sev, t) \in Incident
         /\ NewIncident(k, sig, sev, t).key = k
         /\ NewIncident(k, sig, sev, t).status = "open"
         /\ NewIncident(k, sig, sev, t).seen = t
  BY DEF NewIncident, Incident, Status

LEMMA AppendSignalType ==
  ASSUME NEW inc \in Incident, NEW sig \in Sig, NEW sev \in Severity, NEW t \in Nat
  PROVE  /\ AppendSignal(inc, sig, sev, t) \in Incident
         /\ Grows(inc, AppendSignal(inc, sig, sev, t), t)
<1> DEFINE base == IF Fresh(inc, sig) THEN WithSignal(inc, sig) ELSE inc
<1>1. Append(inc.signals, sig) \in Seq(Sig) /\ inc.count + 1 \in Nat
  BY AppendProperties DEF Incident
<1>2. WithSignal(inc, sig) \in Incident
  BY <1>1 DEF WithSignal, Incident
<1>3. base \in Incident
  BY <1>2
<1>4. /\ base.key = inc.key /\ base.status = inc.status
      /\ base.severity = inc.severity /\ base.infers = inc.infers
      /\ base.options = inc.options
      /\ base.escalated = inc.escalated /\ base.published = inc.published
  BY DEF WithSignal, Incident
<1>5. IsPrefix(inc.signals, base.signals)
  <2>1. CASE ~Fresh(inc, sig)
    <3>1. IsPrefix(inc.signals, inc.signals)
      BY PrecedesItself DEF Precedes
    <3>2. QED
      BY <2>1, <3>1
  <2>2. CASE Fresh(inc, sig)
    <3>1. base.signals = Append(inc.signals, sig)
      BY <2>2 DEF WithSignal, Incident
    <3>2. IsPrefix(inc.signals, Append(inc.signals, sig))
      BY AppendExtends DEF Incident
    <3>3. QED
      BY <3>1, <3>2
  <2>3. QED
    BY <2>1, <2>2
<1>6. WorseOf(base.severity, sev) \in Severity
      /\ SevRank[inc.severity] <= SevRank[WorseOf(base.severity, sev)]
  <2>1. base.severity \in Severity /\ base.severity = inc.severity
    BY <1>3, <1>4 DEF Incident
  <2>2. SevRank[base.severity] \in Nat /\ SevRank[sev] \in Nat
    BY <2>1, SeverityRank
  <2>3. QED
    BY <2>1, <2>2 DEF WorseOf
<1>7. AppendSignal(inc, sig, sev, t)
        = [ base EXCEPT !.seen = t, !.severity = WorseOf(base.severity, sev) ]
  BY DEF AppendSignal
<1> HIDE DEF base
<1> DEFINE new == AppendSignal(inc, sig, sev, t)
<1>8. /\ new \in Incident
      /\ new.key = base.key /\ new.status = base.status
      /\ new.signals = base.signals
      /\ new.severity = WorseOf(base.severity, sev) /\ new.seen = t
      /\ new.infers = base.infers /\ new.options = base.options
      /\ new.escalated = base.escalated /\ new.published = base.published
  BY <1>3, <1>6, <1>7 DEF Incident
<1> HIDE DEF new
<1>9. inc.infers \in Nat /\ t \in Nat
  BY DEF Incident
<1>10. Grows(inc, new, t)
  BY <1>4, <1>5, <1>6, <1>8, <1>9 DEF Grows, Precedes
<1>11. QED
  BY <1>8, <1>10 DEF new

LEMMA ClassifiedType ==
  ASSUME NEW inc \in Incident, NEW c \in Class, NEW t \in Nat
  PROVE  Classified(inc, c) \in Incident /\ Grows(inc, Classified(inc, c), t)
<1>1. Classified(inc, c) \in Incident
  BY DEF Classified, Incident
<1>2. Precedes(inc, inc)
  BY PrecedesItself
<1>3. /\ Classified(inc, c).key = inc.key
      /\ Classified(inc, c).status = inc.status
      /\ Classified(inc, c).signals = inc.signals
      /\ Classified(inc, c).severity = inc.severity
      /\ Classified(inc, c).seen = inc.seen
      /\ Classified(inc, c).infers = inc.infers
      /\ Classified(inc, c).options = inc.options
      /\ Classified(inc, c).escalated = inc.escalated
      /\ Classified(inc, c).published = inc.published
  BY DEF Classified, Incident
<1>4. QED
  BY <1>1, <1>2, <1>3 DEF Grows, Precedes

LEMMA InferredType ==
  ASSUME NEW inc \in Incident, NEW task \in Task, NEW text \in Text \cup {None}, NEW t \in Nat
  PROVE  Inferred(inc, task, text) \in Incident /\ Grows(inc, Inferred(inc, task, text), t)
<1>1. inc.infers \in Nat /\ inc.infers + 1 \in Nat /\ inc.infers <= inc.infers + 1
  BY DEF Incident
<1>2. Inferred(inc, task, text) \in Incident
  <2>1. (IF task \in RcaTask THEN text ELSE inc.rca) \in Text \cup {None}
    BY DEF Incident
  <2>2. QED
    BY <1>1, <2>1 DEF Inferred, Incident
<1>3. Precedes(inc, inc)
  BY PrecedesItself
<1>4. /\ Inferred(inc, task, text).key = inc.key
      /\ Inferred(inc, task, text).status = inc.status
      /\ Inferred(inc, task, text).signals = inc.signals
      /\ Inferred(inc, task, text).severity = inc.severity
      /\ Inferred(inc, task, text).seen = inc.seen
      /\ Inferred(inc, task, text).infers = inc.infers + 1
      /\ Inferred(inc, task, text).options = inc.options
      /\ Inferred(inc, task, text).escalated = inc.escalated
      /\ Inferred(inc, task, text).published = inc.published
  BY DEF Inferred, Incident
<1>5. QED
  BY <1>1, <1>2, <1>3, <1>4 DEF Grows, Precedes

LEMMA OfferedType ==
  ASSUME NEW inc \in Incident, NEW a \in Option, NEW t \in Nat
  PROVE  Offered(inc, a) \in Incident /\ Grows(inc, Offered(inc, a), t)
<1>1. inc.options \cup {a} \in SUBSET Option
  BY DEF Incident
<1>2. Offered(inc, a) \in Incident
  BY <1>1 DEF Offered, Incident
<1>3. Precedes(inc, inc)
  BY PrecedesItself
<1>4. /\ Offered(inc, a).key = inc.key
      /\ Offered(inc, a).status = inc.status
      /\ Offered(inc, a).signals = inc.signals
      /\ Offered(inc, a).severity = inc.severity
      /\ Offered(inc, a).seen = inc.seen
      /\ Offered(inc, a).infers = inc.infers
      /\ Offered(inc, a).options = inc.options \cup {a}
      /\ Offered(inc, a).escalated = inc.escalated
      /\ Offered(inc, a).published = inc.published
  BY DEF Offered, Incident
<1>5. QED
  BY <1>2, <1>3, <1>4 DEF Grows, Precedes

LEMMA FlaggedType ==
  ASSUME NEW inc \in Incident
  PROVE  /\ [ inc EXCEPT !.escalated = TRUE ] \in Incident
         /\ [ inc EXCEPT !.published = TRUE ] \in Incident
         /\ \A s \in Status : [ inc EXCEPT !.status = s ] \in Incident
  BY DEF Incident

\* Setting a flag or closing an incident leaves its snapshots behind it.
LEMMA FlaggedPrecedes ==
  ASSUME NEW inc \in Incident
  PROVE  /\ Precedes(inc, [ inc EXCEPT !.escalated = TRUE ])
         /\ Precedes(inc, [ inc EXCEPT !.published = TRUE ])
         /\ \A s \in {"resolved", "suppressed"} : Precedes(inc, [ inc EXCEPT !.status = s ])
<1>1. Precedes(inc, inc)
  BY PrecedesItself
<1>2. QED
  BY <1>1 DEF Precedes, Incident

----------------------------------------------------------------------------
(* Types of the queue, the index lookup and the load *)

LEMMA PersistInSeq ==
  ASSUME NEW S, queue \in Seq(S), NEW i, NEW inc, [id |-> i, inc |-> inc] \in S,
         Persist(i, inc)
  PROVE  queue' \in Seq(S)
<1> DEFINE longer == Append(queue, [id |-> i, inc |-> inc])
<1>1. longer \in Seq(S) /\ longer # << >>
  BY AppendProperties
<1>2. Tail(longer) \in Seq(S)
  BY <1>1, HeadTailProperties
<1> HIDE DEF longer
<1>3. QED
  BY <1>1, <1>2 DEF Persist, longer

LEMMA PersistType ==
  ASSUME TypeOK, NEW i \in Id, NEW inc \in Incident, Persist(i, inc)
  PROVE  /\ queue' \in Seq(Row)
         /\ lost'  \subseteq Id
         /\ batch' = batch
         /\ db'    = db
<1> DEFINE row    == [id |-> i, inc |-> inc]
           longer == Append(queue, row)
<1>1. row \in Row /\ queue \in Seq(Row)
  BY DEF Row, TypeOK
<1>2. longer \in Seq(Row) /\ longer # << >>
  BY <1>1, AppendProperties
<1>3. Head(longer) \in Row
  BY <1>2, HeadTailProperties
<1>4. Head(longer).id \in Id
  BY <1>3 DEF Row
<1>5. queue' \in Seq(Row)
  BY <1>1, PersistInSeq
<1> HIDE DEF longer
<1>6. QED
  BY <1>4, <1>5 DEF Persist, TypeOK, longer, row

LEMMA FindOpenType ==
  ASSUME TypeOK, NEW k \in Key
  PROVE  /\ FindOpen(incs, index, k) \in Id \cup {NoId}
         /\ FindOpen(incs, index, k) # NoId =>
               /\ index[k] = FindOpen(incs, index, k)
               /\ incs[FindOpen(incs, index, k)].status = "open"
         /\ FindOpen(incs, index, k) = NoId =>
               index[k] = NoId \/ incs[index[k]].status # "open"
  BY DEF FindOpen, TypeOK

LEMMA LoadType ==
  ASSUME NEW rows \in [Id -> Incident]
  PROVE  /\ LoadIncidents(rows) \in [Id -> Incident]
         /\ LoadIndexes(rows) \subseteq [Key -> Id \cup {NoId}]
         /\ LoadedIds(rows) \subseteq Id
<1>1. LoadedIds(rows) \subseteq Id
  BY DEF LoadedIds, OpenRows
<1>2. LoadIncidents(rows) \in [Id -> Incident]
  BY AbsentType DEF LoadIncidents
<1>3. QED
  BY <1>1, <1>2 DEF LoadIndexes

----------------------------------------------------------------------------
(* What an action makes of the incident it touches *)

\* The frame of every call that finds or makes an incident i and leaves `inc`
\* of it: i's entry becomes inc, but for a notification flag that the call sets.
Updated(i, inc) ==
  \E new \in { inc, [ inc EXCEPT !.escalated = TRUE ], [ inc EXCEPT !.published = TRUE ] } :
     incs' = [ incs EXCEPT ![i] = new ]

LEMMA UpdatedType ==
  ASSUME TypeOK, NEW i \in Id, NEW inc \in Incident, Updated(i, inc)
  PROVE  /\ incs' \in [Id -> Incident]
         /\ incs'[i].key = inc.key
         /\ incs'[i].status = inc.status
         /\ incs'[i].seen = inc.seen
         /\ Precedes(inc, incs'[i])
         /\ \A j \in Id \ {i} : incs'[j] = incs[j]
<1>1. PICK new \in { inc, [ inc EXCEPT !.escalated = TRUE ], [ inc EXCEPT !.published = TRUE ] } :
         incs' = [ incs EXCEPT ![i] = new ]
  BY DEF Updated
<1>2. /\ new \in Incident
      /\ new.key = inc.key /\ new.status = inc.status /\ new.seen = inc.seen
      /\ Precedes(inc, new)
  <2>1. CASE new = inc
    BY <2>1, PrecedesItself
  <2>2. CASE new = [ inc EXCEPT !.escalated = TRUE ]
    <3>1. new \in Incident /\ Precedes(inc, new)
      BY <2>2, FlaggedType, FlaggedPrecedes
    <3>2. new.key = inc.key /\ new.status = inc.status /\ new.seen = inc.seen
      BY <2>2 DEF Incident
    <3>3. QED
      BY <3>1, <3>2
  <2>3. CASE new = [ inc EXCEPT !.published = TRUE ]
    <3>1. new \in Incident /\ Precedes(inc, new)
      BY <2>3, FlaggedType, FlaggedPrecedes
    <3>2. new.key = inc.key /\ new.status = inc.status /\ new.seen = inc.seen
      BY <2>3 DEF Incident
    <3>3. QED
      BY <3>1, <3>2
  <2>4. QED
    BY <1>1, <2>1, <2>2, <2>3
<1>3. /\ incs' \in [Id -> Incident]
      /\ incs'[i] = new
      /\ \A j \in Id \ {i} : incs'[j] = incs[j]
  BY <1>1, <1>2 DEF TypeOK
<1>4. QED
  BY <1>2, <1>3

LEMMA EscalateFrame ==
  ASSUME NEW i \in Id, NEW inc \in Incident, Escalate(i, inc)
  PROVE  Updated(i, inc)
BY DEF Escalate, Updated

LEMMA StarGateFrame ==
  ASSUME NEW i \in Id, NEW inc \in Incident, NEW acked, StarGate(i, inc, acked)
  PROVE  Updated(i, inc)
BY DEF StarGate, Updated

\* Every call that finds or makes an incident does this to it: key k leads to
\* i, which is either a fresh id or k's open incident, and `inc` is both stored
\* and queued.
Touch(k, i, inc) ==
  /\ inc.status = "open"
  /\ \/ /\ FindOpen(incs, index, k) = NoId
        /\ i = nextId
        /\ nextId' = nextId + 1
        /\ inc.key = k
        /\ inc.seen = now'
     \/ /\ FindOpen(incs, index, k) = i
        /\ nextId' = nextId
        /\ Grows(incs[i], inc, now')
  /\ index' = [ index EXCEPT ![k] = i ]
  /\ Persist(i, inc)
  /\ Updated(i, inc)
  /\ now' = now + 1
  /\ UNCHANGED process

Touches == \E k \in Key, i \in Id, inc \in Incident : Touch(k, i, inc)

LEMMA ProcessSignalTouches ==
  ASSUME TypeOK, NEW k \in Key, NEW sig \in Sig, NEW sev \in SignalSeverity,
         ProcessSignal(k, sig, sev)
  PROVE  Touches
<1> DEFINE open == FindOpen(incs, index, k)
           i    == IF open = NoId THEN nextId ELSE open
           inc  == IF open = NoId THEN NewIncident(k, sig, sev, now + 1)
                   ELSE AppendSignal(incs[open], sig, sev, now + 1)
<1>1. sev \in Severity /\ now + 1 \in Nat
  BY SeverityAssumption DEF TypeOK
<1>2. i \in Id
  BY DEF ProcessSignal
<1>3. /\ inc \in Incident
      /\ inc.status = "open"
      /\ open = NoId => inc.key = k /\ inc.seen = now + 1
      /\ open # NoId => Grows(incs[open], inc, now + 1)
  <2>1. CASE open = NoId
    BY <1>1, <2>1, NewIncidentType
  <2>2. CASE open # NoId
    <3>1. open \in Id /\ incs[open] \in Incident /\ incs[open].status = "open"
      BY <2>2, FindOpenType DEF TypeOK
    <3>2. inc \in Incident /\ Grows(incs[open], inc, now + 1)
      BY <1>1, <2>2, <3>1, AppendSignalType
    <3>3. inc.status = "open"
      BY <3>1, <3>2 DEF Grows
    <3>4. QED
      BY <2>2, <3>2, <3>3
  <2>3. QED
    BY <2>1, <2>2
<1>4. Escalate(i, inc) /\ Persist(i, inc) /\ index' = [ index EXCEPT ![k] = i ]
  BY DEF ProcessSignal
<1>5. Updated(i, inc)
  <2> HIDE DEF i, inc
  <2>1. QED
    BY <1>2, <1>3, <1>4, EscalateFrame
<1>6. /\ nextId' = IF open = NoId THEN nextId + 1 ELSE nextId
      /\ now' = now + 1
      /\ UNCHANGED process
  BY DEF ProcessSignal, Tick
<1>7. /\ open = NoId => i = nextId
      /\ open # NoId => i = open
  OBVIOUS
<1> HIDE DEF i, inc, open
<1>8. \/ open = NoId /\ i = nextId /\ nextId' = nextId + 1 /\ inc.key = k /\ inc.seen = now'
      \/ open = i /\ nextId' = nextId /\ Grows(incs[i], inc, now')
  BY <1>3, <1>6, <1>7
<1>9. Touch(k, i, inc)
  BY <1>3, <1>4, <1>5, <1>6, <1>8 DEF Touch, open
<1>10. QED
  BY <1>2, <1>3, <1>9 DEF Touches

\* The enrichment methods touch the open incident they find.
LEMMA EnrichTouches ==
  ASSUME TypeOK, NEW k \in Key, NEW inc \in Incident,
         FindOpen(incs, index, k) # NoId,
         Grows(incs[FindOpen(incs, index, k)], inc, now + 1),
         Persist(FindOpen(incs, index, k), inc),
         Updated(FindOpen(incs, index, k), inc),
         Tick,
         UNCHANGED <<index, nextId>>
  PROVE  Touches
<1> DEFINE i == FindOpen(incs, index, k)
<1>1. i \in Id /\ incs[i].status = "open" /\ index[k] = i
  BY FindOpenType
<1>2. index' = [ index EXCEPT ![k] = i ]
  BY <1>1 DEF TypeOK
<1>3. now' = now + 1 /\ UNCHANGED process
  BY DEF Tick
<1>4. inc.status = "open"
  BY <1>1 DEF Grows
<1>5. Touch(k, i, inc)
  BY <1>1, <1>2, <1>3, <1>4 DEF Touch
<1>6. QED
  BY <1>1, <1>5 DEF Touches

LEMMA AddClassificationTouches ==
  ASSUME TypeOK, NEW k \in Key, NEW c \in Class, AddClassification(k, c)
  PROVE  Touches
<1> DEFINE i == FindOpen(incs, index, k)
<1>1. i \in Id /\ incs[i] \in Incident /\ i # NoId
  BY FindOpenType DEF AddClassification, TypeOK
<1>2. /\ Classified(incs[i], c) \in Incident
      /\ Grows(incs[i], Classified(incs[i], c), now + 1)
  <2>1. now + 1 \in Nat
    BY DEF TypeOK
  <2>2. QED
    BY <1>1, <2>1, ClassifiedType
<1>3. Updated(i, Classified(incs[i], c)) /\ Persist(i, Classified(incs[i], c))
  BY DEF AddClassification, Updated
<1>4. Tick /\ UNCHANGED <<index, nextId>>
  BY DEF AddClassification
<1>5. QED
  BY <1>1, <1>2, <1>3, <1>4, EnrichTouches

LEMMA AddInferenceTouches ==
  ASSUME TypeOK, NEW k \in Key, NEW task \in Task, NEW text \in Text \cup {None},
         NEW acked \in Acks, AddInference(k, task, text, acked)
  PROVE  Touches
<1> DEFINE i == FindOpen(incs, index, k)
<1>1. i \in Id /\ incs[i] \in Incident /\ i # NoId
  BY FindOpenType DEF AddInference, TypeOK
<1>2. /\ Inferred(incs[i], task, text) \in Incident
      /\ Grows(incs[i], Inferred(incs[i], task, text), now + 1)
  <2>1. now + 1 \in Nat
    BY DEF TypeOK
  <2>2. QED
    BY <1>1, <2>1, InferredType
<1>3. /\ StarGate(i, Inferred(incs[i], task, text), acked)
      /\ Persist(i, Inferred(incs[i], task, text))
  BY DEF AddInference
<1>4. Tick /\ UNCHANGED <<index, nextId>>
  BY DEF AddInference
<1>5. Updated(i, Inferred(incs[i], task, text))
  BY <1>1, <1>2, <1>3, <1>4, StarGateFrame
<1>6. QED
  BY <1>1, <1>2, <1>3, <1>4, <1>5, EnrichTouches

LEMMA AddRemediationOptionTouches ==
  ASSUME TypeOK, NEW k \in Key, NEW a \in Option, NEW acked \in Acks,
         AddRemediationOption(k, a, acked)
  PROVE  Touches
<1> DEFINE i == FindOpen(incs, index, k)
<1>1. i \in Id /\ incs[i] \in Incident /\ i # NoId
  BY FindOpenType DEF AddRemediationOption, TypeOK
<1>2. /\ Offered(incs[i], a) \in Incident
      /\ Grows(incs[i], Offered(incs[i], a), now + 1)
  <2>1. now + 1 \in Nat
    BY DEF TypeOK
  <2>2. QED
    BY <1>1, <2>1, OfferedType
<1>3. StarGate(i, Offered(incs[i], a), acked) /\ Persist(i, Offered(incs[i], a))
  BY DEF AddRemediationOption
<1>4. Tick /\ UNCHANGED <<index, nextId>>
  BY DEF AddRemediationOption
<1>5. Updated(i, Offered(incs[i], a))
  BY <1>1, <1>2, <1>3, <1>4, StarGateFrame
<1>6. QED
  BY <1>1, <1>2, <1>3, <1>4, <1>5, EnrichTouches

----------------------------------------------------------------------------
(* Type correctness *)

LEMMA TouchType ==
  ASSUME TypeOK, NEW k \in Key, NEW i \in Id, NEW inc \in Incident, Touch(k, i, inc)
  PROVE  TypeOK'
<1>1. incs' \in [Id -> Incident]
  BY UpdatedType DEF Touch
<1>2. /\ queue' \in Seq(Row) /\ lost' \subseteq Id
      /\ batch' \in Seq(Row) /\ db' \in [Id -> Incident]
  BY PersistType DEF Touch, TypeOK
<1>3. index' \in [Key -> Id \cup {NoId}]
  BY DEF Touch, TypeOK
<1>4. nextId' \in Nat /\ now' \in Nat
  BY DEF Touch, TypeOK
<1>5. QED
  BY <1>1, <1>2, <1>3, <1>4 DEF Touch, process, TypeOK

LEMMA ResolveType ==
  ASSUME TypeOK, NEW i \in Id, ResolveIncident(i)
  PROVE  TypeOK'
<1>1. [ incs[i] EXCEPT !.status = "resolved" ] \in Incident
  BY FlaggedType DEF TypeOK, Status
<1>2. incs' \in [Id -> Incident]
  BY <1>1 DEF ResolveIncident, TypeOK
<1>3. Persist(i, [ incs[i] EXCEPT !.status = "resolved" ])
  BY DEF ResolveIncident
<1>4. /\ queue' \in Seq(Row) /\ lost' \subseteq Id
      /\ batch' \in Seq(Row) /\ db' \in [Id -> Incident]
  BY <1>1, <1>3, PersistType DEF TypeOK
<1>5. index' \in [Key -> Id \cup {NoId}]
  BY DEF ResolveIncident, TypeOK
<1>6. QED
  BY <1>2, <1>4, <1>5 DEF ResolveIncident, Tick, process, TypeOK

LEMMA SuppressType ==
  ASSUME TypeOK, NEW i \in Id, SuppressIncident(i)
  PROVE  TypeOK'
<1>1. [ incs[i] EXCEPT !.status = "suppressed" ] \in Incident
  BY FlaggedType DEF TypeOK, Status
<1>2. incs' \in [Id -> Incident]
  BY <1>1 DEF SuppressIncident, TypeOK
<1>3. QED
  BY <1>2 DEF SuppressIncident, Tick, process, durable, TypeOK

\* Taking a batch cuts a sequence of rows in two.
LEMMA TakeBatchSeqs ==
  ASSUME NEW S, queue \in Seq(S), TakeBatch
  PROVE  batch' \in Seq(S) /\ queue' \in Seq(S)
<1> DEFINE n == IF Len(queue) < BatchMax THEN Len(queue) ELSE BatchMax
<1>1. Len(queue) \in Nat /\ BatchMax \in Nat /\ n \in 0..Len(queue)
  BY LenProperties, QueueAssumption
<1>2. batch' = SubSeq(queue, 1, n) /\ queue' = SubSeq(queue, n + 1, Len(queue))
  BY DEF TakeBatch
<1> HIDE DEF n
<1>3. SubSeq(queue, 1, n) \in Seq(S)
  BY <1>1, SubSeqProperties
<1>4. SubSeq(queue, n + 1, Len(queue)) \in Seq(S)
  BY <1>1, SubSeqProperties
<1>5. QED
  BY <1>2, <1>3, <1>4

LEMMA WriterType ==
  ASSUME TypeOK, Writer
  PROVE  TypeOK'
<1>1. CASE TakeBatch
  <2>1. batch' \in Seq(Row) /\ queue' \in Seq(Row)
    BY <1>1, TakeBatchSeqs DEF TypeOK
  <2>2. QED
    BY <1>1, <2>1 DEF TakeBatch, memory, process, TypeOK
<1>2. CASE UpsertRow
  <2>1. Head(batch) \in Row /\ Tail(batch) \in Seq(Row)
    BY <1>2, HeadTailProperties DEF UpsertRow, TypeOK
  <2>2. Head(batch).id \in Id /\ Head(batch).inc \in Incident
    BY <2>1 DEF Row
  <2>3. QED
    BY <1>2, <2>1, <2>2 DEF UpsertRow, memory, process, TypeOK
<1>3. CASE SkipRow
  <2>1. Head(batch) \in Row /\ Tail(batch) \in Seq(Row)
    BY <1>3, HeadTailProperties DEF SkipRow, TypeOK
  <2>2. Head(batch).id \in Id
    BY <2>1 DEF Row
  <2>3. QED
    BY <1>3, <2>1, <2>2 DEF SkipRow, memory, process, TypeOK
<1>4. CASE LoseBatch
  <2>1. \A n \in DOMAIN batch : batch[n] \in Row
    BY ElementOfSeq, LenProperties DEF TypeOK
  <2>2. IdsOf(batch) \subseteq Id
    BY <2>1 DEF IdsOf, ToSet, Row
  <2>3. << >> \in Seq(Row)
    BY EmptySeq
  <2>4. QED
    BY <1>4, <2>2, <2>3 DEF LoseBatch, memory, process, TypeOK
<1>5. QED
  BY <1>1, <1>2, <1>3, <1>4 DEF Writer

LEMMA RestartType ==
  ASSUME TypeOK, NEW connected \in BOOLEAN, NEW loaded \in BOOLEAN, Restart(connected, loaded)
  PROVE  TypeOK'
<1> DEFINE rows == IF loaded THEN db ELSE [ i \in Id |-> Absent ]
<1>1. rows \in [Id -> Incident]
  BY AbsentType DEF TypeOK
<1>2. incs' = LoadIncidents(rows) /\ index' \in LoadIndexes(rows)
  BY DEF Restart
<1> HIDE DEF rows
<1>3. /\ incs' \in [Id -> Incident]
      /\ index' \in [Key -> Id \cup {NoId}]
  BY <1>1, <1>2, LoadType
<1>4. << >> \in Seq(Row) /\ boots + 1 \in Nat
  BY EmptySeq DEF TypeOK
<1>5. QED
  BY <1>3, <1>4 DEF Restart, process, TypeOK

\* The calls on the manager are touches, a resolution or a suppression.
LEMMA CallCases ==
  ASSUME TypeOK, Call
  PROVE  \/ Touches
         \/ \E i \in Id : ResolveIncident(i)
         \/ \E i \in Id : SuppressIncident(i)
  BY ProcessSignalTouches, AddClassificationTouches, AddInferenceTouches,
     AddRemediationOptionTouches DEF Call

LEMMA TypeStep == TypeOK /\ [Next]_vars => TypeOK'
<1> SUFFICES ASSUME TypeOK, [Next]_vars
             PROVE  TypeOK'
  OBVIOUS
<1>1. CASE Call
  BY <1>1, CallCases, TouchType, ResolveType, SuppressType DEF Touches
<1>2. CASE Writer
  BY <1>2, WriterType
<1>3. CASE \E connected, loaded \in BOOLEAN : Restart(connected, loaded)
  BY <1>3, RestartType
<1>4. CASE UNCHANGED vars
  BY <1>4 DEF vars, memory, durable, process, TypeOK
<1>5. QED
  BY <1>1, <1>2, <1>3, <1>4 DEF Next

LEMMA TypeInit == Init => TypeOK
<1> SUFFICES ASSUME Init PROVE TypeOK
  OBVIOUS
<1>1. << >> \in Seq(Row)
  BY EmptySeq
<1>2. QED
  BY <1>1, AbsentType DEF Init, TypeOK

\* Every variable of the incident lifecycle keeps its type, for any number of
\* keys, ids, signals, any queue bound and any number of calls and restarts.
THEOREM TypeCorrect == Spec => []TypeOK
BY TypeInit, TypeStep, PTL DEF Spec

----------------------------------------------------------------------------
(* IndexSound is inductive *)

LEMMA IssuedGrows ==
  ASSUME TypeOK, nextId' \in Nat, nextId <= nextId'
  PROVE  IssuedRow \subseteq IssuedRow'
<1> SUFFICES ASSUME NEW r \in Row, r.id < nextId, r.inc.key \in Key
             PROVE  r.id < nextId'
  BY DEF IssuedRow
<1>1. r.id \in Nat /\ nextId \in Nat
  BY IdAssumption DEF Row, TypeOK
<1>2. QED
  BY <1>1

LEMMA RowsStayIssued ==
  ASSUME TypeOK, nextId' \in Nat, nextId <= nextId', RowsIssued,
         NEW i \in Id, NEW inc \in Incident, i < nextId', inc.key \in Key,
         Persist(i, inc)
  PROVE  RowsIssued'
<1> DEFINE S == IssuedRow'
<1>1. IssuedRow \subseteq S
  BY IssuedGrows
<1>2. [id |-> i, inc |-> inc] \in S
  BY DEF IssuedRow, Row
<1> HIDE DEF S
<1>3. queue \in Seq(S) /\ batch \in Seq(S)
  BY <1>1, SeqMonotonic DEF RowsIssued
<1>4. queue' \in Seq(S)
  BY <1>2, <1>3, PersistInSeq
<1>5. batch' \in Seq(S)
  BY <1>3 DEF Persist
<1>6. QED
  BY <1>4, <1>5 DEF RowsIssued, S

\* The index stays sound when a call finds or makes an incident.
LEMMA TouchSound ==
  ASSUME IndexSound, NEW k \in Key, NEW i \in Id, NEW inc \in Incident, Touch(k, i, inc)
  PROVE  IndexSound'
<1> USE DEF NoId
<1>1. TypeOK /\ TypeOK'
  BY TouchType DEF IndexSound
<1>2. \/ FindOpen(incs, index, k) = NoId /\ i = nextId /\ nextId' = nextId + 1
      \/ FindOpen(incs, index, k) = i /\ nextId' = nextId
  BY DEF Touch
<1>3. inc.key = k /\ inc.status = "open"
  <2>1. CASE FindOpen(incs, index, k) = NoId /\ inc.key = k
    BY <2>1 DEF Touch
  <2>2. CASE FindOpen(incs, index, k) = i /\ Grows(incs[i], inc, now')
    <3>1. i # NoId
      BY IdAssumption
    <3>2. index[k] = i
      BY <1>1, <2>2, <3>1, FindOpenType
    <3>3. incs[i].key = k
      BY <3>1, <3>2 DEF IndexSound, IndexLeads
    <3>4. QED
      BY <2>2, <3>3 DEF Touch, Grows
  <2>3. QED
    BY <2>1, <2>2 DEF Touch
<1>4. /\ incs'[i].key = k
      /\ incs'[i].status = "open"
      /\ \A j \in Id \ {i} : incs'[j] = incs[j]
  BY <1>1, <1>3, UpdatedType DEF Touch
<1>5. /\ index'[k] = i
      /\ \A k2 \in Key \ {k} : index'[k2] = index[k2]
  BY <1>1 DEF Touch, TypeOK
<1>6. /\ i \in Nat /\ nextId \in Nat /\ nextId' \in Nat
      /\ nextId <= nextId' /\ i < nextId'
  <2>1. i \in Nat /\ nextId \in Nat
    BY <1>1, IdAssumption DEF TypeOK
  <2>2. CASE i = nextId /\ nextId' = nextId + 1
    BY <2>1, <2>2
  <2>3. CASE FindOpen(incs, index, k) = i /\ nextId' = nextId
    <3>1. incs[i].status = "open"
      BY <1>1, <2>3, IdAssumption, FindOpenType
    <3>2. ~(i >= nextId)
      BY <3>1 DEF IndexSound, Unissued
    <3>3. QED
      BY <2>1, <2>3, <3>2
  <2>4. QED
    BY <1>2, <2>2, <2>3
<1>7. IndexLeads'
  <2> SUFFICES ASSUME NEW k2 \in Key, index'[k2] # NoId
               PROVE  /\ incs'[index'[k2]].key = k2
                      /\ incs'[index'[k2]].status \in {"open", "suppressed"}
    BY DEF IndexLeads
  <2>1. CASE k2 = k
    BY <1>4, <1>5, <2>1
  <2>2. CASE k2 # k
    <3>1. /\ index'[k2] = index[k2]
          /\ index[k2] \in Id
          /\ incs[index[k2]].key = k2
          /\ incs[index[k2]].status \in {"open", "suppressed"}
      BY <1>1, <1>5, <2>2 DEF IndexSound, IndexLeads, TypeOK
    <3>2. index[k2] # i
      <4>1. CASE i = nextId
        <5>1. incs[i].status = "absent"
          BY <1>6, <4>1 DEF IndexSound, Unissued
        <5>2. QED
          BY <3>1, <5>1
      <4>2. CASE FindOpen(incs, index, k) = i
        <5>1. index[k] = i
          BY <1>1, <4>2, IdAssumption, FindOpenType
        <5>2. incs[i].key = k
          BY <5>1, IdAssumption DEF IndexSound, IndexLeads
        <5>3. QED
          BY <2>2, <3>1, <5>2
      <4>3. QED
        BY <1>2, <4>1, <4>2
    <3>3. QED
      BY <1>4, <3>1, <3>2
  <2>3. QED
    BY <2>1, <2>2
<1>8. KeysKnown'
  <2>1. db' = db
    BY <1>1, PersistType DEF Touch
  <2>2. QED
    BY <1>4, <2>1 DEF IndexSound, KeysKnown
<1>9. Unissued'
  <2> SUFFICES ASSUME NEW j \in Id, j >= nextId'
               PROVE  incs'[j].status = "absent" /\ db'[j].status = "absent"
    BY DEF Unissued
  <2>1. db' = db
    BY <1>1, PersistType DEF Touch
  <2>2. j \in Nat /\ j >= nextId /\ j # i
    BY <1>6, IdAssumption
  <2>3. incs'[j] = incs[j]
    BY <1>4, <2>2
  <2>4. QED
    BY <2>1, <2>2, <2>3 DEF IndexSound, Unissued
<1>10. RowsIssued'
  BY <1>1, <1>3, <1>6, RowsStayIssued DEF Touch, IndexSound
<1>11. QED
  BY <1>1, <1>7, <1>8, <1>8, <1>9, <1>10 DEF IndexSound

LEMMA ResolveSound ==
  ASSUME IndexSound, NEW i \in Id, ResolveIncident(i)
  PROVE  IndexSound'
<1> USE DEF NoId
<1>1. TypeOK /\ TypeOK'
  BY ResolveType DEF IndexSound
<1> DEFINE inc == [ incs[i] EXCEPT !.status = "resolved" ]
<1>2. inc \in Incident /\ inc.key = incs[i].key /\ inc.status = "resolved"
  <2>1. incs[i] \in Incident
    BY <1>1 DEF TypeOK
  <2>2. inc \in Incident
    BY <2>1, FlaggedType DEF Status
  <2>3. inc.key = incs[i].key /\ inc.status = "resolved"
    BY <2>1 DEF Incident
  <2>4. QED
    BY <2>2, <2>3
<1>3. incs' = [ incs EXCEPT ![i] = inc ] /\ Persist(i, inc)
  BY DEF ResolveIncident
<1> HIDE DEF inc
<1>4. /\ incs'[i] = inc
      /\ \A j \in Id \ {i} : incs'[j] = incs[j]
  BY <1>1, <1>3 DEF TypeOK
<1>5. \A k \in Key : index'[k] = IF k = incs[i].key /\ index[k] = i THEN NoId ELSE index[k]
  BY DEF ResolveIncident
<1>6. /\ nextId' = nextId /\ db' = db
      /\ incs[i].status # "absent" /\ incs[i].key \in Key
  BY <1>1, <1>2, <1>3, PersistType DEF ResolveIncident, IndexSound, KeysKnown
<1>7. i \in Nat /\ nextId \in Nat /\ i < nextId
  <2>1. i \in Nat /\ nextId \in Nat
    BY <1>1, IdAssumption DEF TypeOK
  <2>2. ~(i >= nextId)
    BY <1>6 DEF IndexSound, Unissued
  <2>3. QED
    BY <2>1, <2>2
<1>8. IndexLeads'
  <2> SUFFICES ASSUME NEW k \in Key, index'[k] # NoId
               PROVE  /\ incs'[index'[k]].key = k
                      /\ incs'[index'[k]].status \in {"open", "suppressed"}
    BY DEF IndexLeads
  <2>1. /\ index'[k] = index[k] /\ index[k] \in Id
        /\ incs[index[k]].key = k
        /\ incs[index[k]].status \in {"open", "suppressed"}
    BY <1>1, <1>5 DEF IndexSound, IndexLeads, TypeOK
  <2>2. index[k] # i
    BY <1>5, <2>1
  <2>3. QED
    BY <1>4, <2>1, <2>2
<1>9. KeysKnown'
  BY <1>2, <1>4, <1>6 DEF IndexSound, KeysKnown
<1>10. Unissued'
  <2> SUFFICES ASSUME NEW j \in Id, j >= nextId
               PROVE  incs'[j].status = "absent" /\ db[j].status = "absent"
    BY <1>6 DEF Unissued
  <2>1. j # i
    BY <1>7
  <2>2. QED
    BY <1>4, <2>1 DEF IndexSound, Unissued
<1>11. RowsIssued'
  BY <1>1, <1>2, <1>3, <1>6, <1>7, RowsStayIssued DEF IndexSound
<1>12. QED
  BY <1>1, <1>8, <1>9, <1>9, <1>10, <1>11 DEF IndexSound

LEMMA SuppressSound ==
  ASSUME IndexSound, NEW i \in Id, SuppressIncident(i)
  PROVE  IndexSound'
<1>1. TypeOK /\ TypeOK'
  BY SuppressType DEF IndexSound
<1>2. /\ incs'[i].status = "suppressed"
      /\ incs'[i].key = incs[i].key
      /\ incs[i].status # "absent"
      /\ \A j \in Id \ {i} : incs'[j] = incs[j]
  BY <1>1 DEF SuppressIncident, TypeOK, Incident
<1>3. UNCHANGED <<index, nextId, queue, batch, db>>
  BY DEF SuppressIncident, durable
<1>4. IndexLeads'
  <2> SUFFICES ASSUME NEW k \in Key, index[k] # NoId
               PROVE  /\ incs'[index[k]].key = k
                      /\ incs'[index[k]].status \in {"open", "suppressed"}
    BY <1>3 DEF IndexLeads
  <2>1. /\ index[k] \in Id
        /\ incs[index[k]].key = k
        /\ incs[index[k]].status \in {"open", "suppressed"}
    BY <1>1 DEF IndexSound, IndexLeads, TypeOK
  <2>2. QED
    BY <1>2, <2>1
<1>5. KeysKnown'
  BY <1>2, <1>3 DEF IndexSound, KeysKnown
<1>6. Unissued'
  BY <1>2, <1>3 DEF IndexSound, Unissued
<1>7. RowsIssued'
  BY <1>3 DEF IndexSound, RowsIssued, IssuedRow
<1>8. QED
  BY <1>1, <1>4, <1>5, <1>5, <1>6, <1>7 DEF IndexSound

LEMMA WriterSound ==
  ASSUME IndexSound, Writer
  PROVE  IndexSound'
<1>1. TypeOK /\ TypeOK'
  BY WriterType DEF IndexSound
<1>2. UNCHANGED memory
  BY DEF Writer, TakeBatch, UpsertRow, SkipRow, LoseBatch
<1>3. IndexLeads'
  BY <1>2 DEF IndexSound, IndexLeads, memory
<1>4. IssuedRow' = IssuedRow
  BY <1>2 DEF IssuedRow, memory
<1>5. RowsIssued' /\ KeysKnown' /\ Unissued'
  <2>1. CASE TakeBatch
    <3>1. batch' \in Seq(IssuedRow) /\ queue' \in Seq(IssuedRow)
      BY <2>1, TakeBatchSeqs DEF IndexSound, RowsIssued
    <3>2. UNCHANGED db
      BY <2>1 DEF TakeBatch
    <3>3. QED
      BY <1>2, <1>4, <3>1, <3>2 DEF IndexSound, RowsIssued, KeysKnown, Unissued, memory
  <2>2. CASE UpsertRow
    <3>1. Head(batch) \in IssuedRow /\ Tail(batch) \in Seq(IssuedRow)
      BY <2>2, HeadTailProperties DEF UpsertRow, IndexSound, RowsIssued
    <3>2. /\ Head(batch).id \in Id /\ Head(batch).id \in Nat
          /\ Head(batch).id < nextId
          /\ Head(batch).inc.key \in Key
      BY <3>1, IdAssumption DEF IssuedRow, Row
    <3>3. RowsIssued'
      BY <1>4, <2>2, <3>1 DEF UpsertRow, IndexSound, RowsIssued
    <3>4. /\ db'[Head(batch).id] = Head(batch).inc
          /\ \A j \in Id \ {Head(batch).id} : db'[j] = db[j]
      BY <1>1, <2>2, <3>2 DEF UpsertRow, TypeOK
    <3>5. KeysKnown'
      BY <1>2, <3>2, <3>4 DEF IndexSound, KeysKnown, memory
    <3>6. nextId \in Nat
      BY <1>1 DEF TypeOK
    <3>7. Unissued'
      BY <1>2, <3>2, <3>4, <3>6, IdAssumption DEF IndexSound, Unissued, memory
    <3>8. QED
      BY <3>3, <3>5, <3>7
  <2>3. CASE SkipRow
    <3>1. Tail(batch) \in Seq(IssuedRow)
      BY <2>3, HeadTailProperties DEF SkipRow, IndexSound, RowsIssued
    <3>2. UNCHANGED <<queue, db>> /\ batch' = Tail(batch)
      BY <2>3 DEF SkipRow
    <3>3. QED
      BY <1>2, <1>4, <3>1, <3>2 DEF IndexSound, RowsIssued, KeysKnown, Unissued, memory
  <2>4. CASE LoseBatch
    <3>1. << >> \in Seq(IssuedRow)
      BY EmptySeq
    <3>2. UNCHANGED <<queue, db>> /\ batch' = << >>
      BY <2>4 DEF LoseBatch
    <3>3. QED
      BY <1>2, <1>4, <3>1, <3>2 DEF IndexSound, RowsIssued, KeysKnown, Unissued, memory
  <2>5. QED
    BY <2>1, <2>2, <2>3, <2>4 DEF Writer
<1>6. QED
  BY <1>1, <1>3, <1>5 DEF IndexSound

LEMMA RestartSound ==
  ASSUME IndexSound, NEW connected \in BOOLEAN, NEW loaded \in BOOLEAN,
         Restart(connected, loaded)
  PROVE  IndexSound'
<1>1. TypeOK /\ TypeOK'
  BY RestartType DEF IndexSound
<1> DEFINE rows == IF loaded THEN db ELSE [ i \in Id |-> Absent ]
<1>2. /\ rows \in [Id -> Incident]
      /\ \A i \in Id : rows[i] = db[i] \/ rows[i] = Absent
  BY <1>1, AbsentType DEF TypeOK
<1>3. /\ incs' = LoadIncidents(rows)
      /\ index' \in LoadIndexes(rows)
      /\ queue' = << >> /\ batch' = << >>
      /\ UNCHANGED <<nextId, db>>
  BY DEF Restart
<1> HIDE DEF rows
<1> DEFINE held == LoadedIds(rows)
<1>4. \A i \in Id : incs'[i] = IF i \in held THEN rows[i] ELSE Absent
  BY <1>3 DEF LoadIncidents
<1>5. held \subseteq Id /\ \A i \in held : rows[i].status = "open"
  BY <1>3 DEF LoadedIds, OpenRows
<1>6. Absent.status = "absent"
  BY DEF Absent
<1>7. IndexLeads'
  <2> SUFFICES ASSUME NEW k \in Key, index'[k] # NoId
               PROVE  /\ incs'[index'[k]].key = k
                      /\ incs'[index'[k]].status \in {"open", "suppressed"}
    BY DEF IndexLeads
  <2>1. index'[k] \in held /\ rows[index'[k]].key = k
    BY <1>3 DEF LoadIndexes
  <2>2. QED
    BY <1>4, <1>5, <2>1
<1>8. KeysKnown'
  BY <1>2, <1>3, <1>4, <1>6 DEF IndexSound, KeysKnown
<1>9. Unissued'
  BY <1>2, <1>3, <1>4, <1>6 DEF IndexSound, Unissued
<1>10. RowsIssued'
  BY <1>3, EmptySeq DEF RowsIssued
<1>11. QED
  BY <1>1, <1>7, <1>8, <1>8, <1>9, <1>10 DEF IndexSound

LEMMA IndexSoundInit == Init => IndexSound
<1> SUFFICES ASSUME Init PROVE IndexSound
  OBVIOUS
<1>1. TypeOK
  BY TypeInit
<1>2. IndexLeads /\ KeysKnown /\ Unissued
  BY DEF Init, IndexLeads, KeysKnown, Unissued, Absent, NoId
<1>3. RowsIssued
  BY EmptySeq DEF Init, RowsIssued
<1>4. QED
  BY <1>1, <1>2, <1>3 DEF IndexSound

LEMMA IndexSoundStep == IndexSound /\ [Next]_vars => IndexSound'
<1> SUFFICES ASSUME IndexSound, [Next]_vars
             PROVE  IndexSound'
  OBVIOUS
<1>1. TypeOK
  BY DEF IndexSound
<1>2. CASE Call
  BY <1>1, <1>2, CallCases, TouchSound, ResolveSound, SuppressSound DEF Touches
<1>3. CASE Writer
  BY <1>3, WriterSound
<1>4. CASE \E connected, loaded \in BOOLEAN : Restart(connected, loaded)
  BY <1>4, RestartSound
<1>5. CASE UNCHANGED vars
  BY <1>5 DEF vars, memory, durable, process, IndexSound, TypeOK, IndexLeads,
              KeysKnown, Unissued, RowsIssued, IssuedRow
<1>6. QED
  BY <1>2, <1>3, <1>4, <1>5 DEF Next

LEMMA IndexSoundAlways == Spec => []IndexSound
BY IndexSoundInit, IndexSoundStep, PTL DEF Spec

\* No call and no writer step reopens a resolved or suppressed incident.
ClosedStep ==
  boots' = boots =>
     \A i \in Id : incs[i].status \in {"resolved", "suppressed"} =>
                    incs'[i].status \in {"resolved", "suppressed"}

LEMMA TouchKeepsClosed ==
  ASSUME IndexSound, NEW k \in Key, NEW i \in Id, NEW inc \in Incident, Touch(k, i, inc)
  PROVE  ClosedStep
<1>1. TypeOK
  BY DEF IndexSound
<1>2. \A j \in Id \ {i} : incs'[j] = incs[j]
  BY <1>1, UpdatedType DEF Touch
<1>3. incs[i].status \in {"absent", "open"}
  <2>1. CASE i = nextId
    <3>1. i >= nextId
      BY <1>1, <2>1 DEF TypeOK
    <3>2. QED
      BY <3>1 DEF IndexSound, Unissued
  <2>2. CASE FindOpen(incs, index, k) = i
    BY <1>1, <2>2, IdAssumption, FindOpenType DEF NoId
  <2>3. QED
    BY <2>1, <2>2 DEF Touch
<1>4. QED
  BY <1>2, <1>3 DEF ClosedStep

LEMMA ClosedStepHolds == IndexSound /\ [Next]_vars => ClosedStep
<1> SUFFICES ASSUME IndexSound, [Next]_vars
             PROVE  ClosedStep
  OBVIOUS
<1>1. TypeOK
  BY DEF IndexSound
<1>2. CASE Touches
  BY <1>2, TouchKeepsClosed DEF Touches
<1>3. CASE \E i \in Id : ResolveIncident(i)
  BY <1>1, <1>3 DEF ResolveIncident, ClosedStep, TypeOK, Incident
<1>4. CASE \E i \in Id : SuppressIncident(i)
  BY <1>1, <1>4 DEF SuppressIncident, ClosedStep, TypeOK, Incident
<1>5. CASE Writer
  BY <1>5 DEF Writer, TakeBatch, UpsertRow, SkipRow, LoseBatch, memory, ClosedStep
<1>6. CASE \E connected, loaded \in BOOLEAN : Restart(connected, loaded)
  BY <1>1, <1>6 DEF Restart, ClosedStep, TypeOK
<1>7. CASE UNCHANGED vars
  BY <1>7 DEF vars, memory, ClosedStep
<1>8. QED
  BY <1>1, <1>2, <1>3, <1>4, <1>5, <1>6, <1>7, CallCases DEF Next

\* Nothing the running process does opens a resolved or suppressed incident
\* again: process_signal and the enrichments only ever write open ones, which
\* rests on IndexSound (an index entry never leads to a resolved incident, and
\* a fresh id is never one in use).
THEOREM ClosedCorrect == Spec => ClosedStaysClosed
<1>1. IndexSound /\ [Next]_vars => [ClosedStep]_vars
  BY ClosedStepHolds
<1>2. Spec => [][ClosedStep]_vars
  BY <1>1, IndexSoundAlways, PTL DEF Spec
<1>3. QED
  BY <1>2 DEF ClosedStaysClosed, ClosedStep

----------------------------------------------------------------------------
(* Snapshots in the queue, in the batch and in the table *)

\* Rows that may be on their way: snapshots the clock has passed, of what the
\* manager holds now if it holds the incident.
HistoryRow ==
  { r \in IssuedRow : /\ r.inc.seen <= now
                      /\ incs[r.id].status # "absent" => Precedes(r.inc, incs[r.id]) }

\* Nothing was seen in the future, and the table holds snapshots of memory.
TableBehind ==
  \A i \in Id : /\ incs[i].seen <= now
                /\ db[i].seen <= now
                /\ incs[i].status # "absent" /\ db[i].status # "absent"
                      => Precedes(db[i], incs[i])

Behind == TableBehind /\ queue \in Seq(HistoryRow) /\ batch \in Seq(HistoryRow)

\* What a call does to the incidents the process already had.
Onward ==
  /\ nextId' \in Nat /\ nextId <= nextId'
  /\ now' = now + 1
  /\ db' = db /\ batch' = batch
  /\ \A j \in Id : j < nextId /\ incs'[j].status # "absent" =>
        incs[j].status # "absent" /\ Precedes(incs[j], incs'[j])

LEMMA HistoryGrows ==
  ASSUME IndexSound, IndexSound', Onward
  PROVE  HistoryRow \subseteq HistoryRow'
<1> SUFFICES ASSUME NEW r \in HistoryRow PROVE r \in HistoryRow'
  OBVIOUS
<1>1. TypeOK /\ TypeOK'
  BY DEF IndexSound
<1>2. r \in IssuedRow' /\ r \in IssuedRow
  BY <1>1, IssuedGrows DEF HistoryRow, Onward
<1>3. r.id \in Id /\ r.inc \in Incident /\ r.id < nextId
  BY <1>2 DEF IssuedRow, Row
<1>4. r.inc.seen <= now'
  <2>1. r.inc.seen \in Nat /\ now \in Nat /\ r.inc.seen <= now
    BY <1>1, <1>3 DEF HistoryRow, TypeOK, Incident
  <2>2. QED
    BY <2>1 DEF Onward
<1>5. ASSUME incs'[r.id].status # "absent"
      PROVE  Precedes(r.inc, incs'[r.id])
  <2>1. incs[r.id].status # "absent" /\ Precedes(incs[r.id], incs'[r.id])
    BY <1>3, <1>5 DEF Onward
  <2>2. Precedes(r.inc, incs[r.id])
    BY <2>1 DEF HistoryRow
  <2>3. incs[r.id] \in Incident /\ incs'[r.id] \in Incident
    BY <1>1, <1>3 DEF TypeOK
  <2>4. QED
    BY <1>3, <2>1, <2>2, <2>3, PrecedesOnward
<1>6. QED
  BY <1>2, <1>4, <1>5 DEF HistoryRow

LEMMA TableStaysBehind ==
  ASSUME IndexSound, IndexSound', TableBehind, Onward,
         \A j \in Id : incs'[j] = incs[j] \/ (incs[j].seen <= now => incs'[j].seen <= now')
  PROVE  TableBehind'
<1>1. TypeOK /\ TypeOK'
  BY DEF IndexSound
<1> SUFFICES ASSUME NEW j \in Id
             PROVE  /\ incs'[j].seen <= now'
                    /\ db'[j].seen <= now'
                    /\ incs'[j].status # "absent" /\ db'[j].status # "absent"
                          => Precedes(db'[j], incs'[j])
  BY DEF TableBehind
<1>2. /\ db'[j] = db[j] /\ db[j] \in Incident
      /\ incs[j] \in Incident /\ incs'[j] \in Incident
  BY <1>1 DEF TypeOK, Onward
<1>3. /\ now \in Nat /\ now' = now + 1
      /\ db[j].seen \in Nat /\ incs[j].seen \in Nat /\ incs'[j].seen \in Nat
  BY <1>1, <1>2 DEF TypeOK, Onward, Incident
<1>4. incs'[j].seen <= now' /\ db'[j].seen <= now'
  <2>1. incs[j].seen <= now /\ db[j].seen <= now
    BY DEF TableBehind
  <2>2. incs[j].seen <= now + 1 /\ db[j].seen <= now + 1
    BY <1>3, <2>1
  <2>3. QED
    BY <1>2, <1>3, <2>1, <2>2
<1>5. ASSUME incs'[j].status # "absent", db'[j].status # "absent"
      PROVE  Precedes(db'[j], incs'[j])
  <2>1. j \in Nat /\ nextId \in Nat
    BY <1>1, IdAssumption DEF TypeOK
  <2>2. ~(j >= nextId)
    BY <1>2, <1>5 DEF IndexSound, Unissued
  <2>3. j < nextId
    BY <2>1, <2>2
  <2>4. incs[j].status # "absent" /\ Precedes(incs[j], incs'[j])
    BY <1>5, <2>3 DEF Onward
  <2>5. Precedes(db[j], incs[j])
    BY <1>2, <1>5, <2>4 DEF TableBehind
  <2>6. QED
    BY <1>2, <2>4, <2>5, PrecedesOnward
<1>6. QED
  BY <1>4, <1>5

\* A row queued by a call is a snapshot of what the call leaves in memory.
LEMMA PersistBehind ==
  ASSUME IndexSound, IndexSound', Behind, Onward,
         NEW i \in Id, NEW inc \in Incident, Persist(i, inc),
         i < nextId', inc.key \in Key, inc.seen <= now', Precedes(inc, incs'[i])
  PROVE  queue' \in Seq(HistoryRow') /\ batch' \in Seq(HistoryRow')
<1> DEFINE S == HistoryRow'
<1>1. HistoryRow \subseteq S
  BY HistoryGrows
<1>2. [id |-> i, inc |-> inc] \in S
  BY DEF HistoryRow, IssuedRow, Row
<1> HIDE DEF S
<1>3. queue \in Seq(S) /\ batch \in Seq(S)
  BY <1>1, SeqMonotonic DEF Behind
<1>4. queue' \in Seq(S)
  BY <1>2, <1>3, PersistInSeq
<1>5. QED
  BY <1>3, <1>4 DEF S, Onward

LEMMA TouchBehind ==
  ASSUME IndexSound, IndexSound', Behind,
         NEW k \in Key, NEW i \in Id, NEW inc \in Incident, Touch(k, i, inc)
  PROVE  Behind'
<1>1. /\ TypeOK /\ TypeOK'
      /\ i \in Nat /\ nextId \in Nat /\ nextId' \in Nat /\ now \in Nat /\ now' = now + 1
  BY IdAssumption DEF IndexSound, TypeOK, Touch
<1>2. \/ i = nextId /\ nextId' = nextId + 1 /\ inc.seen = now'
      \/ /\ FindOpen(incs, index, k) = i /\ i # NoId /\ nextId' = nextId
         /\ Grows(incs[i], inc, now')
  BY IdAssumption DEF Touch, NoId
<1>3. /\ incs'[i].seen = inc.seen /\ incs'[i].status # "absent" /\ incs'[i].key = inc.key
      /\ Precedes(inc, incs'[i])
      /\ \A j \in Id \ {i} : incs'[j] = incs[j]
  BY <1>1, UpdatedType DEF Touch
<1>4. ~(i >= nextId') /\ inc.key \in Key
  BY <1>3 DEF IndexSound, Unissued, KeysKnown
<1>5. i < nextId' /\ nextId <= nextId'
  BY <1>1, <1>2, <1>4
<1>6. incs[i] \in Incident /\ incs'[i] \in Incident /\ incs[i].seen \in Nat /\ incs[i].seen <= now
  BY <1>1 DEF TypeOK, Incident, Behind, TableBehind
<1>7. inc.seen <= now'
  <2>1. CASE inc.seen = now'
    BY <1>1, <2>1
  <2>2. CASE Grows(incs[i], inc, now')
    <3>1. incs[i].seen <= now'
      BY <1>1, <1>6
    <3>2. QED
      BY <2>2, <3>1 DEF Grows
  <2>3. QED
    BY <1>2, <2>1, <2>2
<1>8. i < nextId => incs[i].status # "absent" /\ Precedes(incs[i], incs'[i])
  <2> SUFFICES ASSUME i < nextId
               PROVE  incs[i].status # "absent" /\ Precedes(incs[i], incs'[i])
    OBVIOUS
  <2>1. FindOpen(incs, index, k) = i /\ i # NoId /\ Grows(incs[i], inc, now')
    BY <1>1, <1>2
  <2>2. incs[i].seen <= now'
    BY <1>1, <1>6
  <2>3. Precedes(incs[i], inc)
    BY <2>1, <2>2 DEF Grows
  <2>4. Precedes(incs[i], incs'[i])
    BY <1>3, <1>6, <2>3, PrecedesOnward
  <2>5. incs[i].status = "open"
    BY <1>1, <2>1, FindOpenType
  <2>6. QED
    BY <2>4, <2>5
<1>9. \A j \in Id : incs[j] \in Incident /\ Precedes(incs[j], incs[j])
  BY <1>1, PrecedesItself DEF TypeOK
<1>10. db' = db /\ batch' = batch
  BY DEF Touch, Persist
<1>11. Onward
  BY <1>1, <1>3, <1>5, <1>8, <1>9, <1>10 DEF Onward
<1>12. queue' \in Seq(HistoryRow') /\ batch' \in Seq(HistoryRow')
  BY <1>3, <1>4, <1>5, <1>7, <1>11, PersistBehind DEF Touch
<1>13. TableBehind'
  BY <1>3, <1>7, <1>11, TableStaysBehind DEF Behind
<1>14. QED
  BY <1>12, <1>13 DEF Behind

\* Closing an incident, by its resolution or its suppression.
LEMMA CloseOnward ==
  ASSUME IndexSound, IndexSound', NEW i \in Id, NEW s \in {"resolved", "suppressed"},
         incs' = [ incs EXCEPT ![i].status = s ], incs[i].status # "absent", Tick,
         UNCHANGED <<nextId, db, batch>>
  PROVE  /\ Onward
         /\ \A j \in Id : incs'[j].seen = incs[j].seen
         /\ incs'[i] = [ incs[i] EXCEPT !.status = s ] /\ incs'[i] \in Incident
         /\ incs'[i].key \in Key /\ i < nextId'
<1>1. TypeOK /\ TypeOK' /\ i \in Nat /\ nextId \in Nat /\ nextId' = nextId
  BY IdAssumption DEF IndexSound, TypeOK
<1>2. /\ incs'[i] = [ incs[i] EXCEPT !.status = s ]
      /\ incs[i] \in Incident /\ incs'[i] \in Incident
      /\ \A j \in Id \ {i} : incs'[j] = incs[j]
  BY <1>1 DEF TypeOK
<1>3. incs'[i].seen = incs[i].seen /\ incs'[i].status # "absent"
  BY <1>2 DEF Incident
<1>4. Precedes(incs[i], incs'[i])
  BY <1>2, FlaggedPrecedes
<1>5. \A j \in Id : Precedes(incs[j], incs[j])
  BY <1>1, PrecedesItself DEF TypeOK
<1>6. nextId' \in Nat /\ nextId <= nextId' /\ now' = now + 1 /\ db' = db /\ batch' = batch
  BY <1>1 DEF Tick
<1>7. Onward
  BY <1>2, <1>4, <1>5, <1>6 DEF Onward
<1>8. ~(i >= nextId') /\ incs'[i].key \in Key
  BY <1>3 DEF IndexSound, Unissued, KeysKnown
<1>9. i < nextId'
  BY <1>1, <1>8
<1>10. QED
  BY <1>2, <1>3, <1>7, <1>8, <1>9

LEMMA ResolveBehind ==
  ASSUME IndexSound, IndexSound', Behind, NEW i \in Id, ResolveIncident(i)
  PROVE  Behind'
<1> DEFINE inc == [ incs[i] EXCEPT !.status = "resolved" ]
<1>1. /\ incs' = [ incs EXCEPT ![i].status = "resolved" ]
      /\ incs[i].status # "absent" /\ Tick /\ Persist(i, inc)
      /\ UNCHANGED <<nextId, db, batch>>
  BY DEF ResolveIncident, Persist
<1>2. /\ Onward
      /\ \A j \in Id : incs'[j].seen = incs[j].seen
      /\ incs'[i] = inc /\ incs'[i] \in Incident
      /\ incs'[i].key \in Key /\ i < nextId'
  BY <1>1, CloseOnward
<1> HIDE DEF inc
<1>3. Precedes(inc, incs'[i])
  BY <1>2, PrecedesItself
<1>4. \A j \in Id : incs[j].seen <= now => incs'[j].seen <= now'
  <2>1. \A j \in Id : incs[j].seen \in Nat
    BY DEF IndexSound, TypeOK, Incident
  <2>2. now \in Nat /\ now' = now + 1
    BY DEF IndexSound, TypeOK, Onward, ResolveIncident, Tick
  <2>3. QED
    BY <1>2, <2>1, <2>2
<1>5. TableBehind'
  BY <1>2, <1>4, TableStaysBehind DEF Behind
<1>6. inc.seen <= now'
  BY <1>2, <1>5 DEF TableBehind
<1>7. queue' \in Seq(HistoryRow') /\ batch' \in Seq(HistoryRow')
  BY <1>1, <1>2, <1>3, <1>6, PersistBehind
<1>8. QED
  BY <1>5, <1>7 DEF Behind

LEMMA SuppressBehind ==
  ASSUME IndexSound, IndexSound', Behind, NEW i \in Id, SuppressIncident(i)
  PROVE  Behind'
<1>1. /\ incs' = [ incs EXCEPT ![i].status = "suppressed" ]
      /\ incs[i].status # "absent" /\ Tick
      /\ UNCHANGED <<nextId, db, batch, queue>>
  BY DEF SuppressIncident, durable
<1>2. Onward /\ \A j \in Id : incs'[j].seen = incs[j].seen
  BY <1>1, CloseOnward
<1>3. \A j \in Id : incs[j].seen <= now => incs'[j].seen <= now'
  <2>1. \A j \in Id : incs[j].seen \in Nat
    BY DEF IndexSound, TypeOK, Incident
  <2>2. now \in Nat /\ now' = now + 1
    BY DEF IndexSound, TypeOK, SuppressIncident, Tick
  <2>3. QED
    BY <1>2, <2>1, <2>2
<1>4. TableBehind'
  BY <1>2, <1>3, TableStaysBehind DEF Behind
<1>5. HistoryRow \subseteq HistoryRow'
  BY <1>2, HistoryGrows
<1>6. queue \in Seq(HistoryRow') /\ batch \in Seq(HistoryRow')
  BY <1>5, SeqMonotonic DEF Behind
<1>7. QED
  BY <1>1, <1>4, <1>6 DEF Behind

LEMMA WriterBehind ==
  ASSUME IndexSound, Behind, Writer
  PROVE  Behind'
<1>1. TypeOK /\ UNCHANGED <<memory, now>>
  BY DEF IndexSound, Writer, TakeBatch, UpsertRow, SkipRow, LoseBatch
<1>2. HistoryRow' = HistoryRow
  BY <1>1 DEF HistoryRow, IssuedRow, memory
<1>3. batch # << >> => Head(batch) \in HistoryRow /\ Tail(batch) \in Seq(HistoryRow)
  BY HeadTailProperties DEF Behind
<1>4. CASE TakeBatch
  <2>1. batch' \in Seq(HistoryRow) /\ queue' \in Seq(HistoryRow)
    BY <1>4, TakeBatchSeqs DEF Behind
  <2>2. QED
    BY <1>1, <1>2, <1>4, <2>1 DEF TakeBatch, Behind, TableBehind, memory
<1>5. CASE UpsertRow
  <2>1. Head(batch) \in HistoryRow /\ batch' \in Seq(HistoryRow) /\ queue' = queue
    BY <1>3, <1>5 DEF UpsertRow
  <2>2. /\ Head(batch).id \in Id
        /\ Head(batch).inc.seen <= now
        /\ incs[Head(batch).id].status # "absent"
              => Precedes(Head(batch).inc, incs[Head(batch).id])
    BY <2>1 DEF HistoryRow, IssuedRow, Row
  <2>3. /\ db'[Head(batch).id] = Head(batch).inc
        /\ \A j \in Id \ {Head(batch).id} : db'[j] = db[j]
    BY <1>1, <1>5, <2>2 DEF UpsertRow, TypeOK
  <2>4. TableBehind'
    BY <1>1, <2>2, <2>3 DEF Behind, TableBehind, memory
  <2>5. QED
    BY <1>2, <2>1, <2>4 DEF Behind
<1>6. CASE SkipRow
  BY <1>1, <1>2, <1>3, <1>6 DEF SkipRow, Behind, TableBehind, memory
<1>7. CASE LoseBatch
  <2>1. << >> \in Seq(HistoryRow)
    BY EmptySeq
  <2>2. QED
    BY <1>1, <1>2, <1>7, <2>1 DEF LoseBatch, Behind, TableBehind, memory
<1>8. QED
  BY <1>4, <1>5, <1>6, <1>7 DEF Writer

LEMMA RestartBehind ==
  ASSUME IndexSound, Behind, NEW connected \in BOOLEAN, NEW loaded \in BOOLEAN,
         Restart(connected, loaded)
  PROVE  Behind'
<1>1. TypeOK
  BY DEF IndexSound
<1>2. /\ UNCHANGED <<now, db>> /\ queue' = << >> /\ batch' = << >>
      /\ \A i \in Id : incs'[i] = db[i] \/ incs'[i] = Absent
  BY DEF Restart, LoadIncidents
<1>3. Absent.seen = 0 /\ Absent.status = "absent" /\ 0 <= now
  BY <1>1 DEF Absent, TypeOK
<1>4. \A i \in Id : Precedes(db[i], db[i]) /\ db[i].seen <= now
  BY <1>1, PrecedesItself DEF TypeOK, Behind, TableBehind
<1>5. TableBehind'
  BY <1>2, <1>3, <1>4 DEF TableBehind
<1>6. << >> \in Seq(HistoryRow')
  BY EmptySeq
<1>7. QED
  BY <1>2, <1>5, <1>6 DEF Behind

LEMMA BehindInit == Init => Behind
<1> SUFFICES ASSUME Init PROVE Behind
  OBVIOUS
<1>1. TableBehind
  BY DEF Init, TableBehind, Absent
<1>2. queue \in Seq(HistoryRow) /\ batch \in Seq(HistoryRow)
  BY EmptySeq DEF Init
<1>3. QED
  BY <1>1, <1>2 DEF Behind

LEMMA BehindStep == IndexSound /\ Behind /\ [Next]_vars => Behind'
<1> SUFFICES ASSUME IndexSound, Behind, [Next]_vars
             PROVE  Behind'
  OBVIOUS
<1>1. TypeOK /\ IndexSound'
  BY IndexSoundStep DEF IndexSound
<1>2. CASE Call
  BY <1>1, <1>2, CallCases, TouchBehind, ResolveBehind, SuppressBehind DEF Touches
<1>3. CASE Writer
  BY <1>3, WriterBehind
<1>4. CASE \E connected, loaded \in BOOLEAN : Restart(connected, loaded)
  BY <1>4, RestartBehind
<1>5. CASE UNCHANGED vars
  BY <1>5 DEF vars, memory, durable, Behind, TableBehind, HistoryRow, IssuedRow
<1>6. QED
  BY <1>2, <1>3, <1>4, <1>5 DEF Next

LEMMA BehindShown == Behind => DbBehindMemory
<1> SUFFICES ASSUME Behind, NEW i \in Id, incs[i].status # "absent"
             PROVE  /\ db[i].status # "absent" => Precedes(db[i], incs[i])
                    /\ \A r \in InFlight : r.id = i => Precedes(r.inc, incs[i])
  BY DEF DbBehindMemory
<1>1. db[i].status # "absent" => Precedes(db[i], incs[i])
  BY DEF Behind, TableBehind
<1>2. \A r \in InFlight : r \in HistoryRow
  BY ElementOfSeq, LenProperties DEF InFlight, ToSet, Behind
<1>3. QED
  BY <1>1, <1>2 DEF HistoryRow

\* The table and the rows on their way never run ahead of memory: every row of
\* an incident the manager holds is one of its earlier snapshots, whatever is
\* dropped, for any queue bound, batch size and number of restarts.
THEOREM BehindCorrect == Spec => []DbBehindMemory
BY BehindInit, BehindStep, BehindShown, IndexSoundAlways, PTL DEF Spec

----------------------------------------------------------------------------
(* What draining the queue leaves in the table *)

\* `at` is where the last of i's rows stands.
LastAt(rows, i, at) ==
  /\ at \in DOMAIN rows
  /\ rows[at].id = i
  /\ \A n \in DOMAIN rows : rows[n].id = i => n <= at

\* The last of i's rows agrees with `u` in all that is ever written.
Ends(rows, i, u) == \E at \in DOMAIN rows : LastAt(rows, i, at) /\ Unwritten(rows[at].inc) = u

NoneOf(rows, i) == \A n \in DOMAIN rows : rows[n].id # i

Reaches(i, u) ==
  \/ Ends(queue, i, u)
  \/ /\ NoneOf(queue, i)
     /\ \/ Ends(batch, i, u)
        \/ NoneOf(batch, i) /\ Unwritten(db[i]) = u

QueuedOrWritten ==
  \A i \in Id \ lost : incs[i].status \notin {"absent", "suppressed"} =>
     Reaches(i, Unwritten(incs[i]))

LEMMA AppendEnds ==
  ASSUME NEW S, NEW rows \in Seq(S), NEW row \in S, NEW i, NEW u
  PROVE  /\ row.id = i => Ends(Append(rows, row), i, Unwritten(row.inc))
         /\ row.id # i /\ Ends(rows, i, u) => Ends(Append(rows, row), i, u)
         /\ row.id # i /\ NoneOf(rows, i) => NoneOf(Append(rows, row), i)
<1> DEFINE longer == Append(rows, row)
<1>1. /\ Len(rows) \in Nat /\ DOMAIN rows = 1..Len(rows)
      /\ DOMAIN longer = 1..(Len(rows) + 1)
      /\ \A n \in 1..Len(rows) : longer[n] = rows[n]
      /\ longer[Len(rows) + 1] = row
  BY AppendProperties, LenProperties
<1> HIDE DEF longer
<1>2. ASSUME row.id = i PROVE Ends(longer, i, Unwritten(row.inc))
  <2>1. LastAt(longer, i, Len(rows) + 1)
    BY <1>1, <1>2 DEF LastAt
  <2>2. QED
    BY <1>1, <2>1 DEF Ends, LastAt
<1>3. ASSUME row.id # i, Ends(rows, i, u) PROVE Ends(longer, i, u)
  <2>1. PICK at \in 1..Len(rows) : LastAt(rows, i, at) /\ Unwritten(rows[at].inc) = u
    BY <1>1, <1>3 DEF Ends
  <2>2. at \in DOMAIN longer /\ longer[at] = rows[at]
    BY <1>1
  <2>3. \A n \in 1..(Len(rows) + 1) : longer[n].id = i => n \in 1..Len(rows)
    BY <1>1, <1>3
  <2>4. LastAt(longer, i, at)
    BY <1>1, <2>1, <2>2, <2>3 DEF LastAt
  <2>5. QED
    BY <2>1, <2>2, <2>4 DEF Ends
<1>4. ASSUME row.id # i, NoneOf(rows, i) PROVE NoneOf(longer, i)
  <2>1. \A n \in 1..(Len(rows) + 1) : n \in 1..Len(rows) \/ n = Len(rows) + 1
    BY <1>1
  <2>2. QED
    BY <1>1, <1>4, <2>1 DEF NoneOf
<1>5. QED
  BY <1>2, <1>3, <1>4 DEF longer

LEMMA TailEnds ==
  ASSUME NEW S, NEW rows \in Seq(S), rows # << >>, NEW i, NEW u
  PROVE  /\ NoneOf(rows, i) => NoneOf(Tail(rows), i)
         /\ Ends(rows, i, u) => \/ Ends(Tail(rows), i, u)
                                \/ /\ NoneOf(Tail(rows), i)
                                   /\ Head(rows).id = i
                                   /\ Unwritten(Head(rows).inc) = u
<1> DEFINE rest == Tail(rows)
<1>1. /\ Len(rows) \in Nat /\ DOMAIN rows = 1..Len(rows) /\ Len(rows) >= 1
      /\ Len(rest) = Len(rows) - 1 /\ DOMAIN rest = 1..(Len(rows) - 1)
      /\ \A n \in 1..(Len(rows) - 1) : rest[n] = rows[n + 1]
      /\ Head(rows) = rows[1]
  <2>1. rest \in Seq(S) /\ Len(rest) = Len(rows) - 1
        /\ \A n \in 1..Len(rest) : rest[n] = rows[n + 1]
    BY HeadTailProperties
  <2>2. Len(rows) \in Nat /\ Len(rows) # 0
    BY LenProperties, EmptySeq
  <2>3. QED
    BY <2>1, <2>2, LenProperties
<1> HIDE DEF rest
<1>2. ASSUME NoneOf(rows, i) PROVE NoneOf(rest, i)
  <2>1. \A n \in 1..(Len(rows) - 1) : n + 1 \in 1..Len(rows)
    BY <1>1
  <2>2. QED
    BY <1>1, <1>2, <2>1 DEF NoneOf
<1>3. ASSUME Ends(rows, i, u)
      PROVE  \/ Ends(rest, i, u)
             \/ NoneOf(rest, i) /\ Head(rows).id = i /\ Unwritten(Head(rows).inc) = u
  <2>1. PICK at \in 1..Len(rows) : LastAt(rows, i, at) /\ Unwritten(rows[at].inc) = u
    BY <1>1, <1>3 DEF Ends
  <2>2. \A n \in 1..(Len(rows) - 1) : n + 1 \in 1..Len(rows) /\ (rest[n].id = i => n + 1 <= at)
    BY <1>1, <2>1 DEF LastAt
  <2>3. CASE at = 1
    <3>1. \A n \in 1..(Len(rows) - 1) : ~(n + 1 <= 1)
      BY <1>1
    <3>2. NoneOf(rest, i)
      BY <1>1, <2>2, <2>3, <3>1 DEF NoneOf
    <3>3. QED
      BY <1>1, <2>1, <2>3, <3>2 DEF LastAt
  <2>4. CASE at # 1
    <3>1. at - 1 \in 1..(Len(rows) - 1) /\ rest[at - 1] = rows[at]
      <4>1. at - 1 \in 1..(Len(rows) - 1) /\ (at - 1) + 1 = at
        BY <1>1, <2>4
      <4>2. QED
        BY <1>1, <4>1
    <3>2. \A n \in 1..(Len(rows) - 1) : rest[n].id = i => n <= at - 1
      BY <1>1, <2>2
    <3>3. LastAt(rest, i, at - 1)
      BY <1>1, <2>1, <3>1, <3>2 DEF LastAt
    <3>4. QED
      BY <1>1, <2>1, <3>1, <3>3 DEF Ends
  <2>5. QED
    BY <2>3, <2>4
<1>4. QED
  BY <1>2, <1>3 DEF rest

\* Cutting a queue after its n first rows.
LEMMA CutEnds ==
  ASSUME NEW S, NEW rows \in Seq(S), NEW n \in 0..Len(rows), NEW i, NEW u
  PROVE  LET first == SubSeq(rows, 1, n)
             rest  == SubSeq(rows, n + 1, Len(rows))
         IN  /\ NoneOf(rows, i) => NoneOf(first, i) /\ NoneOf(rest, i)
             /\ Ends(rows, i, u) => Ends(rest, i, u) \/ (NoneOf(rest, i) /\ Ends(first, i, u))
<1> DEFINE first == SubSeq(rows, 1, n)
           rest  == SubSeq(rows, n + 1, Len(rows))
           len   == Len(rows)
<1>1. /\ len \in Nat /\ n \in Nat /\ n <= len /\ DOMAIN rows = 1..len
      /\ \A m \in 1..len : rows[m] \in S
  BY LenProperties, ElementOfSeq
<1>2. DOMAIN first = 1..n /\ \A m \in 1..n : first[m] = rows[m]
  <2>1. first \in Seq(S) /\ Len(first) = IF 1 <= n THEN n - 1 + 1 ELSE 0
    BY <1>1, SubSeqProperties
  <2>2. Len(first) = n
    <3> HIDE DEF first
    <3>1. QED
      BY <1>1, <2>1
  <2>3. \A m \in 1..(n - 1 + 1) : first[m] = rows[1 + m - 1]
    BY <1>1, SubSeqProperties
  <2> HIDE DEF first
  <2>4. \A m \in 1..n : m \in 1..(n - 1 + 1) /\ 1 + m - 1 = m
    BY <1>1
  <2>5. \A m \in 1..n : first[m] = rows[m]
    BY <2>3, <2>4
  <2>6. QED
    BY <2>1, <2>2, <2>5, LenProperties
<1>3. DOMAIN rest = 1..(len - n) /\ \A m \in 1..(len - n) : rest[m] = rows[n + m]
  <2>1. \A m \in (n + 1)..len : rows[m] \in S
    BY <1>1
  <2>2. n + 1 \in Int /\ len \in Int
    BY <1>1
  <2>3. rest \in Seq(S) /\ Len(rest) = IF n + 1 <= len THEN len - (n + 1) + 1 ELSE 0
    BY <2>1, <2>2, SubSeqProperties
  <2>4. Len(rest) = len - n
    <3> HIDE DEF rest, len
    <3>1. QED
      BY <1>1, <2>3
  <2>5. \A m \in 1..(len - (n + 1) + 1) : rest[m] = rows[n + 1 + m - 1]
    BY <2>1, <2>2, SubSeqProperties
  <2> HIDE DEF rest, len
  <2>6. \A m \in 1..(len - n) : m \in 1..(len - (n + 1) + 1) /\ n + 1 + m - 1 = n + m
    BY <1>1
  <2>7. \A m \in 1..(len - n) : rest[m] = rows[n + m]
    BY <2>5, <2>6
  <2>8. QED
    BY <2>3, <2>4, <2>7, LenProperties
<1> HIDE DEF first, rest, len
<1>4. (\A m \in 1..n : m \in 1..len) /\ (\A m \in 1..(len - n) : n + m \in 1..len)
  BY <1>1
<1>5. NoneOf(rows, i) => NoneOf(first, i) /\ NoneOf(rest, i)
  BY <1>1, <1>2, <1>3, <1>4 DEF NoneOf
<1>6. ASSUME Ends(rows, i, u)
      PROVE  Ends(rest, i, u) \/ (NoneOf(rest, i) /\ Ends(first, i, u))
  <2>1. PICK at \in 1..len : LastAt(rows, i, at) /\ Unwritten(rows[at].inc) = u
    BY <1>1, <1>6 DEF Ends
  <2>2. rows[at].id = i /\ \A m \in 1..len : rows[m].id = i => m <= at
    BY <1>1, <2>1 DEF LastAt
  <2>3. CASE at <= n
    <3>1. at \in 1..n
      BY <1>1, <2>3
    <3>2. LastAt(first, i, at)
      BY <1>2, <1>4, <2>2, <3>1 DEF LastAt
    <3>3. \A m \in 1..(len - n) : ~(n + m <= at)
      BY <1>1, <2>3
    <3>4. NoneOf(rest, i)
      BY <1>3, <1>4, <2>2, <3>3 DEF NoneOf
    <3>5. QED
      BY <1>2, <2>1, <3>1, <3>2, <3>4 DEF Ends
  <2>4. CASE ~(at <= n)
    <3> DEFINE last == at - n
    <3>1. last \in 1..(len - n) /\ n + last = at
      BY <1>1, <2>4
    <3>2. \A m \in 1..(len - n) : n + m <= at => m <= last
      BY <1>1
    <3> HIDE DEF last
    <3>3. rest[last] = rows[at]
      BY <1>3, <3>1
    <3>4. \A m \in 1..(len - n) : rest[m].id = i => m <= last
      BY <1>3, <1>4, <2>2, <3>2
    <3>5. LastAt(rest, i, last)
      BY <1>3, <2>2, <3>1, <3>3, <3>4 DEF LastAt
    <3>6. QED
      BY <1>3, <2>1, <3>1, <3>3, <3>5 DEF Ends
  <2>5. QED
    BY <2>3, <2>4
<1>7. QED
  BY <1>5, <1>6 DEF first, rest, len

\* Queueing a row of i leaves what is queued of another incident, unless its
\* row is the one a full queue drops.
LEMMA PersistReaches ==
  ASSUME TypeOK, NEW i \in Id, NEW inc \in Incident, Persist(i, inc)
  PROVE  /\ i \notin lost' => Ends(queue', i, Unwritten(inc))
         /\ \A j \in Id \ {i} : j \notin lost' =>
               /\ j \notin lost
               /\ \A u : Reaches(j, u) => Reaches(j, u)'
<1> DEFINE row    == [id |-> i, inc |-> inc]
           longer == Append(queue, row)
           full   == Len(longer) > QueueCap
<1>1. queue \in Seq(Row) /\ row \in Row /\ row.id = i /\ row.inc = inc
  BY DEF TypeOK, Row
<1>2. longer \in Seq(Row) /\ longer # << >>
  BY <1>1, AppendProperties
<1>3. Ends(longer, i, Unwritten(inc))
  BY <1>1, AppendEnds
<1>4. \A j \in Id \ {i} : /\ \A u : Ends(queue, j, u) => Ends(longer, j, u)
                          /\ NoneOf(queue, j) => NoneOf(longer, j)
  BY <1>1, AppendEnds
<1> HIDE DEF row, longer
<1>5. /\ queue' = IF full THEN Tail(longer) ELSE longer
      /\ lost'  = (lost \ {i}) \cup (IF full THEN {Head(longer).id} ELSE {})
      /\ batch' = batch /\ db' = db
  BY DEF Persist, longer, row
<1>6. \A j : j \notin lost' /\ full => Head(longer).id # j
  BY <1>5
<1> HIDE DEF full
<1>7. \A j : j \notin lost' => /\ \A u : Ends(longer, j, u) => Ends(queue', j, u)
                               /\ NoneOf(longer, j) => NoneOf(queue', j)
  <2>1. CASE full
    BY <1>2, <1>5, <1>6, <2>1, TailEnds
  <2>2. CASE ~full
    BY <1>5, <2>2
  <2>3. QED
    BY <2>1, <2>2
<1>8. \A j \in Id \ {i} : j \notin lost' => j \notin lost
  BY <1>5
<1>9. ASSUME NEW j \in Id \ {i}, j \notin lost', NEW u, Reaches(j, u)
      PROVE  Reaches(j, u)'
  <2>1. Ends(queue, j, u) => Ends(queue', j, u)
    BY <1>4, <1>7, <1>9
  <2>2. NoneOf(queue, j) => NoneOf(queue', j)
    BY <1>4, <1>7, <1>9
  <2>3. Ends(batch', j, u) <=> Ends(batch, j, u)
    BY <1>5
  <2>4. QED
    BY <1>5, <1>9, <2>1, <2>2, <2>3 DEF Reaches
<1>10. QED
  BY <1>3, <1>7, <1>8, <1>9

\* Neither flag counts among what is written.
LEMMA FlagsUnwritten ==
  ASSUME NEW inc \in Incident
  PROVE  /\ Unwritten([ inc EXCEPT !.escalated = TRUE ]) = Unwritten(inc)
         /\ Unwritten([ inc EXCEPT !.published = TRUE ]) = Unwritten(inc)
  BY DEF Unwritten, Incident

\* A call that queues what it leaves in memory, flags apart.
LEMMA PersistCompletes ==
  ASSUME TypeOK, QueuedOrWritten, NEW i \in Id, NEW inc \in Incident, Persist(i, inc),
         Unwritten(incs'[i]) = Unwritten(inc),
         \A j \in Id \ {i} : incs'[j] = incs[j]
  PROVE  QueuedOrWritten'
<1> SUFFICES ASSUME NEW j \in Id, j \notin lost', incs'[j].status \notin {"absent", "suppressed"}
             PROVE  Reaches(j, Unwritten(incs[j]))'
  BY DEF QueuedOrWritten
<1>1. CASE j = i
  <2>1. Ends(queue', i, Unwritten(incs'[i]))
    BY <1>1, PersistReaches
  <2>2. QED
    BY <1>1, <2>1 DEF Reaches
<1>2. CASE j # i
  <2> DEFINE u == Unwritten(incs[j])
  <2>1. j \notin lost /\ incs'[j] = incs[j] /\ \A v : Reaches(j, v) => Reaches(j, v)'
    BY <1>2, PersistReaches
  <2>2. Reaches(j, u)
    BY <2>1 DEF QueuedOrWritten
  <2>3. u' = u
    BY <2>1
  <2> HIDE DEF u
  <2>4. Reaches(j, u)'
    BY <2>1, <2>2, <2>3 DEF Reaches
  <2>5. QED
    BY <2>4 DEF u
<1>3. QED
  BY <1>1, <1>2

LEMMA TouchCompletes ==
  ASSUME TypeOK, QueuedOrWritten,
         NEW k \in Key, NEW i \in Id, NEW inc \in Incident, Touch(k, i, inc)
  PROVE  QueuedOrWritten'
<1>1. \A j \in Id \ {i} : incs'[j] = incs[j]
  BY UpdatedType DEF Touch
<1>2. incs'[i] \in { inc, [ inc EXCEPT !.escalated = TRUE ], [ inc EXCEPT !.published = TRUE ] }
  BY DEF Touch, Updated, TypeOK
<1>3. Unwritten(incs'[i]) = Unwritten(inc)
  BY <1>2, FlagsUnwritten
<1>4. QED
  BY <1>1, <1>3, PersistCompletes DEF Touch

LEMMA ResolveCompletes ==
  ASSUME TypeOK, QueuedOrWritten, NEW i \in Id, ResolveIncident(i)
  PROVE  QueuedOrWritten'
<1> DEFINE inc == [ incs[i] EXCEPT !.status = "resolved" ]
<1>1. inc \in Incident
  BY FlaggedType DEF TypeOK, Status
<1>2. incs'[i] = inc /\ \A j \in Id \ {i} : incs'[j] = incs[j]
  BY DEF ResolveIncident, TypeOK
<1>3. Persist(i, inc)
  BY DEF ResolveIncident
<1> HIDE DEF inc
<1>4. QED
  BY <1>1, <1>2, <1>3, PersistCompletes

LEMMA SuppressCompletes ==
  ASSUME TypeOK, QueuedOrWritten, NEW i \in Id, SuppressIncident(i)
  PROVE  QueuedOrWritten'
<1>1. /\ incs'[i].status = "suppressed"
      /\ \A j \in Id \ {i} : incs'[j] = incs[j]
      /\ UNCHANGED durable
  BY DEF SuppressIncident, TypeOK, Incident
<1>2. \A j \in Id : incs'[j].status # "suppressed" => incs'[j] = incs[j]
  BY <1>1
<1>3. QED
  BY <1>1, <1>2 DEF QueuedOrWritten, Reaches, durable

\* The writer moves rows on in the order they were queued.
LEMMA WriterCompletes ==
  ASSUME TypeOK, QueuedOrWritten, Writer
  PROVE  QueuedOrWritten'
<1>1. incs' = incs
  BY DEF Writer, TakeBatch, UpsertRow, SkipRow, LoseBatch, memory
<1>2. SUFFICES ASSUME NEW j \in Id, j \notin lost', NEW u, Reaches(j, u)
               PROVE  Reaches(j, u)'
  <2>1. lost \subseteq lost'
    BY DEF Writer, TakeBatch, UpsertRow, SkipRow, LoseBatch
  <2> SUFFICES ASSUME NEW j \in Id, j \notin lost', incs[j].status \notin {"absent", "suppressed"}
               PROVE  Reaches(j, Unwritten(incs[j]))'
    BY <1>1 DEF QueuedOrWritten
  <2> DEFINE u == Unwritten(incs[j])
  <2>2. Reaches(j, u)
    BY <2>1 DEF QueuedOrWritten
  <2>3. u' = u
    BY <1>1
  <2> HIDE DEF u
  <2>4. Reaches(j, u) => Reaches(j, u)'
    BY <1>2, <2>3 DEF Reaches
  <2>5. QED
    BY <2>2, <2>4 DEF u
<1>3. CASE TakeBatch
  <2> DEFINE n     == IF Len(queue) < BatchMax THEN Len(queue) ELSE BatchMax
             first == SubSeq(queue, 1, n)
             rest  == SubSeq(queue, n + 1, Len(queue))
  <2>1. n \in 0..Len(queue) /\ queue \in Seq(Row)
    <3>1. Len(queue) \in Nat /\ BatchMax \in Nat /\ queue \in Seq(Row)
      BY LenProperties, QueueAssumption DEF TypeOK
    <3>2. QED
      BY <3>1
  <2>2. batch = << >> /\ batch' = first /\ queue' = rest /\ db' = db
    BY <1>3 DEF TakeBatch
  <2>3. /\ NoneOf(queue, j) => NoneOf(first, j) /\ NoneOf(rest, j)
        /\ Ends(queue, j, u) => Ends(rest, j, u) \/ (NoneOf(rest, j) /\ Ends(first, j, u))
    <3> HIDE DEF n
    <3>1. QED
      BY <2>1, CutEnds
  <2> HIDE DEF n, first, rest
  <2>4. ~Ends(batch, j, u)
    BY <2>2 DEF Ends
  <2>5. QED
    BY <1>2, <2>2, <2>3, <2>4 DEF Reaches
<1>4. CASE UpsertRow \/ SkipRow
  <2>1. batch \in Seq(Row) /\ batch # << >> /\ batch' = Tail(batch) /\ queue' = queue
    BY <1>4 DEF UpsertRow, SkipRow, TypeOK
  <2>2. Head(batch) \in Row
    BY <2>1, HeadTailProperties
  <2>3. \/ UpsertRow /\ db' = [ db EXCEPT ![Head(batch).id] = Head(batch).inc ]
        \/ db' = db /\ Head(batch).id # j
    BY <1>2, <1>4 DEF UpsertRow, SkipRow
  <2>4. /\ Head(batch).id # j => db'[j] = db[j]
        /\ Head(batch).id = j => db'[j] = Head(batch).inc
    BY <2>2, <2>3 DEF TypeOK, Row
  <2>5. /\ NoneOf(batch, j) => NoneOf(batch', j)
        /\ Ends(batch, j, u) => \/ Ends(batch', j, u)
                                \/ /\ NoneOf(batch', j)
                                   /\ Head(batch).id = j
                                   /\ Unwritten(Head(batch).inc) = u
    BY <2>1, TailEnds
  <2>6. NoneOf(batch, j) => Head(batch).id # j
    <3>1. 1 \in DOMAIN batch /\ Head(batch) = batch[1]
      BY <2>1, LenProperties, EmptySeq
    <3>2. QED
      BY <3>1 DEF NoneOf
  <2>7. QED
    BY <1>2, <2>1, <2>4, <2>5, <2>6 DEF Reaches
<1>5. CASE LoseBatch
  <2>1. batch' = << >> /\ queue' = queue /\ db' = db /\ j \notin IdsOf(batch)
    BY <1>2, <1>5 DEF LoseBatch
  <2>2. NoneOf(batch, j) /\ NoneOf(batch', j)
    BY <2>1 DEF IdsOf, ToSet, NoneOf
  <2>3. ~Ends(batch, j, u)
    BY <2>2 DEF Ends, LastAt, NoneOf
  <2>4. QED
    BY <1>2, <2>1, <2>2, <2>3 DEF Reaches
<1>6. QED
  BY <1>3, <1>4, <1>5 DEF Writer

LEMMA RestartCompletes ==
  ASSUME TypeOK, NEW connected \in BOOLEAN, NEW loaded \in BOOLEAN,
         Restart(connected, loaded)
  PROVE  QueuedOrWritten'
<1>1. /\ db' = db /\ queue' = << >> /\ batch' = << >>
      /\ \A i \in Id : incs'[i] = db[i] \/ incs'[i] = Absent
  BY DEF Restart, LoadIncidents
<1>2. Absent.status = "absent"
  BY DEF Absent
<1>3. \A i : NoneOf(queue', i) /\ NoneOf(batch', i)
  BY <1>1 DEF NoneOf
<1>4. QED
  BY <1>1, <1>2, <1>3 DEF QueuedOrWritten, Reaches

LEMMA CompleteStep == TypeOK /\ QueuedOrWritten /\ [Next]_vars => QueuedOrWritten'
<1> SUFFICES ASSUME TypeOK, QueuedOrWritten, [Next]_vars
             PROVE  QueuedOrWritten'
  OBVIOUS
<1>1. CASE Call
  BY <1>1, CallCases, TouchCompletes, ResolveCompletes, SuppressCompletes DEF Touches
<1>2. CASE Writer
  BY <1>2, WriterCompletes
<1>3. CASE \E connected, loaded \in BOOLEAN : Restart(connected, loaded)
  BY <1>3, RestartCompletes
<1>4. CASE UNCHANGED vars
  BY <1>4 DEF vars, memory, durable, QueuedOrWritten, Reaches
<1>5. QED
  BY <1>1, <1>2, <1>3, <1>4 DEF Next

\* Where the last of i's rows stands is where LastRow looks.
LEMMA EndsIsLast ==
  ASSUME NEW S, NEW rows \in Seq(S), NEW i, NEW u
  PROVE  /\ Ends(rows, i, u) => i \in IdsOf(rows) /\ Unwritten(LastRow(rows, i)) = u
         /\ NoneOf(rows, i) => i \notin IdsOf(rows)
<1>1. ASSUME Ends(rows, i, u)
      PROVE  i \in IdsOf(rows) /\ Unwritten(LastRow(rows, i)) = u
  <2> DEFINE mine == { n \in DOMAIN rows : rows[n].id = i }
  <2>1. PICK at \in DOMAIN rows : LastAt(rows, i, at) /\ Unwritten(rows[at].inc) = u
    BY <1>1 DEF Ends
  <2>2. mine \subseteq Nat
    BY LenProperties
  <2>3. at \in mine /\ \A n \in mine : at >= n
    BY <2>1, <2>2 DEF LastAt
  <2>4. i \in IdsOf(rows)
    BY <2>1 DEF IdsOf, ToSet, LastAt
  <2> HIDE DEF mine
  <2>5. Max(mine) \in mine /\ \A n \in mine : Max(mine) >= n
    BY <2>3 DEF Max
  <2>6. Max(mine) = at
    <3> DEFINE top == Max(mine)
    <3>1. top \in mine /\ at \in mine /\ top >= at /\ at >= top
      BY <2>3, <2>5
    <3> HIDE DEF top
    <3>2. top \in Nat /\ at \in Nat
      BY <2>2, <3>1
    <3>3. top = at
      BY <3>1, <3>2
    <3>4. QED
      BY <3>3 DEF top
  <2>7. LastRow(rows, i) = rows[at].inc
    BY <2>6 DEF LastRow, mine
  <2>8. QED
    BY <2>1, <2>4, <2>7
<1>2. NoneOf(rows, i) => i \notin IdsOf(rows)
  BY DEF NoneOf, IdsOf, ToSet
<1>3. QED
  BY <1>1, <1>2

LEMMA CompleteShown == TypeOK /\ QueuedOrWritten => WriteBehindComplete
<1> SUFFICES ASSUME TypeOK, QueuedOrWritten, NEW i \in Id \ lost,
                    incs[i].status \notin {"absent", "suppressed"}
             PROVE  Unwritten(DrainedRow(i)) = Unwritten(incs[i])
  BY DEF WriteBehindComplete
<1> DEFINE u == Unwritten(incs[i])
<1>1. Reaches(i, u)
  BY DEF QueuedOrWritten
<1> HIDE DEF u
<1>2. /\ Ends(queue, i, u) => i \in IdsOf(queue) /\ Unwritten(LastRow(queue, i)) = u
      /\ NoneOf(queue, i) => i \notin IdsOf(queue)
      /\ Ends(batch, i, u) => i \in IdsOf(batch) /\ Unwritten(LastRow(batch, i)) = u
      /\ NoneOf(batch, i) => i \notin IdsOf(batch)
  BY EndsIsLast DEF TypeOK
<1>3. Unwritten(DrainedRow(i)) = u
  BY <1>1, <1>2 DEF Reaches, DrainedRow
<1>4. QED
  BY <1>3 DEF u

\* Draining the queue brings the table up to memory for every incident none of
\* whose rows was dropped: no method changes an incident without queueing it,
\* but for a suppression and the two flags, and the writer keeps the order.
THEOREM CompleteCorrect == Spec => []WriteBehindComplete
<1>1. Init => QueuedOrWritten
  BY DEF Init, QueuedOrWritten, Absent
<1>2. QED
  BY <1>1, CompleteStep, CompleteShown, TypeCorrect, PTL
  DEF Spec
=============================================================================
