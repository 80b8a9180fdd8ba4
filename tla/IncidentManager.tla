--------------------------- MODULE IncidentManager ---------------------------
(***************************************************************************)
(* The methods of app/session/incident_manager.py as operators on the two  *)
(* dictionaries of a manager: `incs` (self._incidents, by incident id) and *)
(* `index` (self._index, "cluster:namespace" -> incident id).  An incident *)
(* id that a dictionary does not hold is the record Absent or, in an       *)
(* index, NoId.                                                            *)
(*                                                                         *)
(* Data kept: what a lookup, a cap or a notification depends on.  Names,   *)
(* timestamps other than last_seen, confidences and prompt texts are left  *)
(* out.  evidence["findings"] is [] for ever (no statement of src/ appends *)
(* to it), so the cross-cluster branch of should_escalate_to_tarsy is dead *)
(* and not represented.                                                    *)
(***************************************************************************)
EXTENDS Naturals, Sequences, FiniteSets, SequencesExt

CONSTANTS
  Key,         \* "cluster_id:namespace" pairs
  Id,          \* incident ids: uuid4 draws, handed out in increasing order
  Sig,         \* "signal_type:resource_name" deduplication keys
  Class,       \* failure classes
  Text,        \* RCA outputs
  Option,      \* remediation actions, normalised
  None,        \* Python's None
  MaxSignals,  \* 30 in the code
  MaxInfer,    \* 5 in the code
  MaxOptions,  \* 10 in the code
  EscalateAt,  \* 5 in the code
  LoadLimit    \* 100 in the code

ASSUME IdAssumption     == Id \subseteq Nat \ {0}
ASSUME NoneAssumption   == None \notin Key \cup Class \cup Text
ASSUME LimitsAssumption == /\ MaxSignals \in Nat \ {0}
                           /\ MaxInfer   \in Nat \ {0}
                           /\ MaxOptions \in Nat \ {0}
                           /\ EscalateAt \in Nat \ {0}
                           /\ LoadLimit  \in Nat \ {0}

NoId == 0

Severity == {"info", "low", "medium", "high", "critical"}
SevRank  == [info |-> 0, low |-> 1, medium |-> 2, high |-> 3, critical |-> 4]
Severe   == {"high", "critical"}

Status == {"absent", "open", "resolved", "suppressed"}

Incident ==
  [ key       : Key \cup {None},
    status    : Status,
    severity  : Severity,
    signals   : Seq(Sig),             \* evidence.signals, by their dedupe key
    count     : Nat,                  \* signal_count
    seen      : Nat,                  \* last_seen
    class     : Class \cup {None},    \* failure_class / classification
    infers    : Nat,                  \* len(evidence.inferences)
    rca       : Text \cup {None},     \* rca_output
    options   : SUBSET Option,        \* remediation_options
    escalated : BOOLEAN,              \* evidence.tarsy_escalated
    published : BOOLEAN ]             \* evidence.stargate_published

Absent ==
  [ key |-> None, status |-> "absent", severity |-> "info", signals |-> << >>,
    count |-> 0, seen |-> 0, class |-> None, infers |-> 0, rca |-> None,
    options |-> {}, escalated |-> FALSE, published |-> FALSE ]

----------------------------------------------------------------------------
(* process_signal *)

\* Mutant of FindOpen: an incident whose evidence is full is not found.
FindUnfilled(is, ix, k) ==
  IF ix[k] # NoId /\ is[ix[k]].status = "open" /\ Len(is[ix[k]].signals) < MaxSignals
  THEN ix[k] ELSE NoId

\* The open incident of a key, as process_signal's first lines and _find_open
\* both look it up.
FindOpen(is, ix, k) ==
  IF ix[k] # NoId /\ is[ix[k]].status = "open" THEN ix[k] ELSE NoId

NewIncident(k, sig, sev, t) ==
  [ key |-> k, status |-> "open", severity |-> sev, signals |-> <<sig>>,
    count |-> 1, seen |-> t, class |-> None, infers |-> 0, rca |-> None,
    options |-> {}, escalated |-> FALSE, published |-> FALSE ]

\* Mutant of Fresh: an off-by-one at the cap.
FreshOffByOne(inc, sig) ==
  sig \notin ToSet(inc.signals) /\ Len(inc.signals) <= MaxSignals

\* Is the signal one the evidence chain takes?
Fresh(inc, sig) ==
  sig \notin ToSet(inc.signals) /\ Len(inc.signals) < MaxSignals

WithSignal(inc, sig) ==
  [ inc EXCEPT !.signals = Append(@, sig), !.count = @ + 1 ]

\* Mutant of WorseOf: the latest severity.
LatestOf(old, new) == new

WorseOf(old, new) == IF SevRank[new] > SevRank[old] THEN new ELSE old

AppendSignal(inc, sig, sev, t) ==
  LET base == IF Fresh(inc, sig) THEN WithSignal(inc, sig) ELSE inc
  IN  [ base EXCEPT !.seen = t, !.severity = WorseOf(@, sev) ]

\* Mutant of ShouldEscalate: forgets that it has.
ShouldEscalateAgain(inc) == inc.severity = "critical" /\ inc.count >= EscalateAt

ShouldEscalate(inc) ==
  /\ ~inc.escalated
  /\ inc.severity = "critical"
  /\ inc.count >= EscalateAt

----------------------------------------------------------------------------
(* The enrichment methods: what each leaves of the open incident it found. *)

Classified(inc, c) == [ inc EXCEPT !.class = c ]

CanInfer(inc) == inc.infers < MaxInfer

\* What the callers of add_inference pass as task type, and those of them whose
\* output is an RCA.
Task    == {"root_cause_analysis", "explain_signal"}
RcaTask == {"root_cause_analysis", "deep_root_cause_analysis", "cross_cluster_correlation"}

\* `text` is None for an output that is empty once its <think> part is cut:
\* the entry is made and rca_output overwritten all the same.
Inferred(inc, task, text) ==
  [ inc EXCEPT !.infers = @ + 1, !.rca = IF task \in RcaTask THEN text ELSE @ ]

CanOffer(inc, a) == Cardinality(inc.options) < MaxOptions /\ a \notin inc.options
Offered(inc, a) == [ inc EXCEPT !.options = @ \cup {a} ]

\* _maybe_publish_to_stargate's conditions.
ReadyForStarGate(inc) ==
  /\ inc.severity \in Severe
  /\ inc.rca # None
  /\ inc.options # {}

ShouldPublish(inc) == ~inc.published /\ ReadyForStarGate(inc)

----------------------------------------------------------------------------
(* _load_from_db: the open rows, newest first, at most LoadLimit of them.  *)
(* The loop assigns index[key] for every row, so of several open rows of a *)
(* key the one seen longest ago is indexed.                                *)

OpenRows(rows) == { i \in Id : rows[i].status = "open" }

\* Mutant of LoadedIds: the limit keeps the oldest rows.
LoadedOldest(rows) ==
  { i \in OpenRows(rows) :
      Cardinality({ j \in OpenRows(rows) : rows[j].seen < rows[i].seen }) < LoadLimit }

LoadedIds(rows) ==
  { i \in OpenRows(rows) :
      Cardinality({ j \in OpenRows(rows) : rows[j].seen > rows[i].seen }) < LoadLimit }

LoadIncidents(rows) ==
  [ i \in Id |-> IF i \in LoadedIds(rows) THEN rows[i] ELSE Absent ]

\* The indexes the loop may leave: for each key with a loaded row, one of those
\* seen longest ago (the order of rows with equal last_seen is the database's).
LoadIndexes(rows) ==
  LET Mine(k) == { i \in LoadedIds(rows) : rows[i].key = k }
  IN  { ix \in [Key -> Id \cup {NoId}] :
          \A k \in Key :
             \/ Mine(k) = {} /\ ix[k] = NoId
             \/ /\ ix[k] \in Mine(k)
                /\ \A j \in Mine(k) : rows[ix[k]].seen <= rows[j].seen }

=============================================================================
