---------------------------- MODULE CascadeBridge ----------------------------
(***************************************************************************)
(* The learned suppressors of app/cascade_bridge.py.  A signal type that   *)
(* the corpus analyzer proposed and phi-4 has called noise often enough is *)
(* activated: a suppressor then drops its signals.  A scheduled pass of    *)
(* the thread that runs process() activates, expires and saves; two more   *)
(* threads deactivate: the shadow re-check of suppressed signals, and the  *)
(* poll for verdicts in the decision ledger.  None of them takes a lock,   *)
(* so activation, deactivation and saving are cut where they call          *)
(* something; a restart loads what was saved.                              *)
(*                                                                         *)
(* External, modelled from how this code uses them: the corpus analyzer    *)
(* proposes any patterns it does not know yet; the ledger answers with the *)
(* oldest verdicts after the watermark, at most Page of them.  Verdicts    *)
(* other than FAILS only move the watermark and are left out.              *)
(***************************************************************************)
EXTENDS Integers, Sequences

CONSTANTS
  Type,           \* signal types
  Discoverable,   \* the <<type, pattern>> pairs the analyzer may propose
  None,
  Confirmations,  \* phi-4 verdicts of noise needed, 3 in the code
  Ttl,            \* _activation_ttl_hours
  Page,           \* page_size of the poll, 100 in the code
  MaxTime,        \* bound: the clock
  MaxVerdicts,    \* bound: FAILS verdicts in the ledger
  MaxBoots        \* bound: restarts

Pattern == {"repeat_flood", "dominant_type"}

ASSUME DiscoverableAssumption == Discoverable \subseteq Type \X Pattern
ASSUME NoneAssumption == None \notin Type \cup Pattern
ASSUME NumbersAssumption ==
  /\ Confirmations \in Nat \ {0} /\ Ttl \in Nat \ {0} /\ Page \in Nat \ {0}
  /\ MaxTime \in Nat \ {0} /\ MaxVerdicts \in Nat /\ MaxBoots \in Nat

VARIABLES
  listed,    \* _activated_types
  pattern,   \* _activated_patterns, None where there is none
  stamp,     \* _activation_timestamps, 0 where there is none
  repeat,    \* _signal_types of the repeat flood suppressor
  noise,     \* _noise_types of the dominant noise suppressor
  counts,    \* _phi4_noise_counts, up to Confirmations
  known,     \* _known_patterns of the analyzer: the pairs it has proposed
  found,     \* _agent_metrics: the pairs kept since the process started
  mark,      \* _verdict_watermark: position in the ledger
  at, on, pop,  \* the threads: where, on which type, with which pattern
  phase, todo, due, row,  \* the pass: where, its work lists, the row being saved
  upto,      \* the poll: last verdict of the page it is reading
  ledger,    \* types of the FAILS verdicts, oldest first
  saved,     \* the newest row of cascade_state, None when there is none
  now, boots,
  clash,     \* history: types two threads worked on at once
  since      \* history: the watermark when a type was last activated

lists   == <<listed, pattern, stamp, repeat, noise>>
threads == <<at, on, pop>>
pass    == <<phase, todo, due, row>>
outside == <<ledger, now, boots>>
history == <<clash, since>>
vars    == <<lists, counts, known, found, mark, threads, pass, upto, outside, saved, history>>

Main   == "main"
Shadow == "shadow"
Poll   == "poll"
Thread == {Main, Shadow, Poll}

Place == {"idle", "list", "pattern", "stamp", "pop", "unlist", "unstamp", "unsuppress",
          "patterns", "stamps", "rest"}
Phase == {"idle", "discover", "recheck", "expire", "save"}

Row ==
  [ listed : SUBSET Type, pattern : [Type -> Pattern \cup {None}],
    stamp : [Type -> 0..MaxTime], mark : 0..MaxVerdicts,
    counts : [Type -> 0..Confirmations], known : SUBSET Discoverable,
    clash : SUBSET Type, since : [Type -> 0..MaxVerdicts] ]

\* What a new process holds, and what an empty store stands for.
Empty ==
  [ listed |-> {}, pattern |-> [ t \in Type |-> None ], stamp |-> [ t \in Type |-> 0 ],
    mark |-> 0, known |-> {}, counts |-> [ t \in Type |-> 0 ], clash |-> {},
    since |-> [ t \in Type |-> 0 ] ]

TypeOK ==
  /\ listed \subseteq Type /\ repeat \subseteq Type /\ noise \subseteq Type
  /\ pattern \in [Type -> Pattern \cup {None}]
  /\ stamp \in [Type -> 0..MaxTime]
  /\ counts \in [Type -> 0..Confirmations]
  /\ known \subseteq Discoverable /\ found \subseteq known
  /\ todo \subseteq Discoverable /\ due \subseteq Type
  /\ at \in [Thread -> Place]
  /\ on \in [Thread -> Type \cup {None}]
  /\ pop \in [Thread -> Pattern \cup {None}]
  /\ phase \in Phase
  /\ row \in Row /\ saved \in Row
  /\ ledger \in Seq(Type) /\ Len(ledger) <= MaxVerdicts
  /\ mark \in 0..Len(ledger) /\ upto \in 0..Len(ledger)
  /\ now \in 1..MaxTime /\ boots \in 0..MaxBoots
  /\ clash \subseteq Type
  /\ since \in [Type -> 0..MaxVerdicts]

Init ==
  /\ listed = {} /\ repeat = {} /\ noise = {}
  /\ pattern = Empty.pattern /\ stamp = Empty.stamp /\ counts = Empty.counts
  /\ known = {} /\ found = {} /\ mark = 0
  /\ at = [ x \in Thread |-> "idle" ]
  /\ on = [ x \in Thread |-> None ]
  /\ pop = [ x \in Thread |-> None ]
  /\ phase = "idle" /\ todo = {} /\ due = {} /\ row = Empty
  /\ upto = 0 /\ ledger = << >> /\ saved = Empty
  /\ now = 1 /\ boots = 0
  /\ clash = {} /\ since = Empty.since

----------------------------------------------------------------------------
(* Who works on what *)

Working == {"list", "pattern", "stamp", "pop", "unlist", "unstamp", "unsuppress"}

WorksOn(x, t) == at[x] \in Working /\ on[x] = t

Saving == phase = "save"

\* Thread x starts work on t, at `place`, with pattern p.
Enter(x, t, place, p) ==
  /\ at'  = [ at EXCEPT ![x] = place ]
  /\ on'  = [ on EXCEPT ![x] = t ]
  /\ pop' = [ pop EXCEPT ![x] = p ]
  /\ clash' = IF (\E y \in Thread \ {x} : WorksOn(y, t)) \/ Saving
              THEN clash \cup {t} ELSE clash

Goto(x, place) == at' = [ at EXCEPT ![x] = place ]

Leave(x) ==
  /\ at'  = [ at EXCEPT ![x] = "idle" ]
  /\ on'  = [ on EXCEPT ![x] = None ]
  /\ pop' = [ pop EXCEPT ![x] = None ]

----------------------------------------------------------------------------
(* The pass: discover, check again, expire, save *)

Confirmed(t) == counts[t] >= Confirmations

\* A pass starts: the analyzer proposes patterns it did not know.
Discover(new) ==
  /\ phase = "idle"
  /\ phase' = "discover"
  /\ todo'  = new
  /\ known' = known \cup new
  /\ UNCHANGED <<lists, counts, found, mark, threads, due, row, upto, outside, saved, history>>

\* Mutant of Consider: a discovery is activated without phi-4's confirmation.
ConsiderEagerly(pair) ==
  /\ at[Main] = "idle" /\ phase \in {"discover", "recheck"}
  /\ pair \in todo
  /\ todo' = todo \ {pair}
  /\ found' = IF phase = "discover" /\ pair[1] \notin listed THEN found \cup {pair} ELSE found
  /\ IF pair[1] \notin listed
     THEN /\ repeat' = IF pair[2] = "repeat_flood" THEN repeat \cup {pair[1]} ELSE repeat
          /\ noise'  = IF pair[2] = "repeat_flood" THEN noise ELSE noise \cup {pair[1]}
          /\ Enter(Main, pair[1], "list", pair[2])
     ELSE UNCHANGED <<repeat, noise, threads, clash>>
  /\ UNCHANGED <<listed, pattern, stamp, counts, known, mark, phase, due, row, upto,
                 outside, saved, since>>

\* One turn of either loop: a pair whose type is not active, and confirmed, is
\* activated, which starts with its suppressor.
Consider(pair) ==
  /\ at[Main] = "idle" /\ phase \in {"discover", "recheck"}
  /\ pair \in todo
  /\ todo' = todo \ {pair}
  /\ found' = IF phase = "discover" /\ pair[1] \notin listed THEN found \cup {pair} ELSE found
  /\ IF pair[1] \notin listed /\ Confirmed(pair[1])
     THEN /\ repeat' = IF pair[2] = "repeat_flood" THEN repeat \cup {pair[1]} ELSE repeat
          /\ noise'  = IF pair[2] = "repeat_flood" THEN noise ELSE noise \cup {pair[1]}
          /\ Enter(Main, pair[1], "list", pair[2])
     ELSE UNCHANGED <<repeat, noise, threads, clash>>
  /\ UNCHANGED <<listed, pattern, stamp, counts, known, mark, phase, due, row, upto,
                 outside, saved, since>>

\* _activate_agent: the set, the pattern, the time stamp.
AddType ==
  /\ at[Main] = "list"
  /\ listed' = listed \cup {on[Main]}
  /\ since'  = [ since EXCEPT ![on[Main]] = mark ]
  /\ Goto(Main, "pattern")
  /\ UNCHANGED <<pattern, stamp, repeat, noise, counts, known, found, mark, on, pop, pass,
                 upto, outside, saved, clash>>

SetPattern ==
  /\ at[Main] = "pattern"
  /\ pattern' = [ pattern EXCEPT ![on[Main]] = pop[Main] ]
  /\ Goto(Main, "stamp")
  /\ UNCHANGED <<listed, stamp, repeat, noise, counts, known, found, mark, on, pop, pass,
                 upto, outside, saved, history>>

SetStamp ==
  /\ at[Main] = "stamp"
  /\ stamp' = [ stamp EXCEPT ![on[Main]] = now ]
  /\ Leave(Main)
  /\ UNCHANGED <<listed, pattern, repeat, noise, counts, known, found, mark, pass, upto,
                 outside, saved, history>>

Recheck ==
  /\ at[Main] = "idle" /\ phase = "discover" /\ todo = {}
  /\ phase' = "recheck"
  /\ todo'  = found
  /\ UNCHANGED <<lists, counts, known, found, mark, threads, due, row, upto, outside, saved,
                 history>>

\* _check_activation_ttl: the expired are collected, then deactivated.
Expired(t) == stamp[t] # 0 /\ now - stamp[t] >= Ttl

Expire ==
  /\ at[Main] = "idle" /\ phase = "recheck" /\ todo = {}
  /\ phase' = "expire"
  /\ due'   = { t \in Type : Expired(t) }
  /\ UNCHANGED <<lists, counts, known, found, mark, threads, todo, row, upto, outside, saved,
                 history>>

ExpireNext(t) ==
  /\ at[Main] = "idle" /\ phase = "expire"
  /\ t \in due
  /\ due' = due \ {t}
  /\ Enter(Main, t, "pop", None)
  /\ UNCHANGED <<lists, counts, known, found, mark, phase, todo, row, upto, outside, saved,
                 since>>

----------------------------------------------------------------------------
(* _deactivate_agent, by any of the three threads *)

\* Mutant of PopPattern: the pattern is read and stays.
GetPattern(x) ==
  /\ at[x] = "pop"
  /\ pop' = [ pop EXCEPT ![x] = pattern[on[x]] ]
  /\ Goto(x, "unlist")
  /\ UNCHANGED <<lists, counts, known, found, mark, on, pass, upto, outside, saved, history>>

PopPattern(x) ==
  /\ at[x] = "pop"
  /\ pop'     = [ pop EXCEPT ![x] = pattern[on[x]] ]
  /\ pattern' = [ pattern EXCEPT ![on[x]] = None ]
  /\ Goto(x, "unlist")
  /\ UNCHANGED <<listed, stamp, repeat, noise, counts, known, found, mark, on, pass, upto,
                 outside, saved, history>>

Unlist(x) ==
  /\ at[x] = "unlist"
  /\ listed' = listed \ {on[x]}
  /\ Goto(x, "unstamp")
  /\ UNCHANGED <<pattern, stamp, repeat, noise, counts, known, found, mark, on, pop, pass,
                 upto, outside, saved, history>>

Unstamp(x) ==
  /\ at[x] = "unstamp"
  /\ stamp' = [ stamp EXCEPT ![on[x]] = 0 ]
  /\ Goto(x, "unsuppress")
  /\ UNCHANGED <<listed, pattern, repeat, noise, counts, known, found, mark, on, pop, pass,
                 upto, outside, saved, history>>

\* By the pattern popped: with none, neither suppressor lets go of the type.
Unsuppress(x) ==
  /\ at[x] = "unsuppress"
  /\ repeat' = IF pop[x] = "repeat_flood"  THEN repeat \ {on[x]} ELSE repeat
  /\ noise'  = IF pop[x] = "dominant_type" THEN noise \ {on[x]}  ELSE noise
  /\ Leave(x)
  /\ UNCHANGED <<listed, pattern, stamp, counts, known, found, mark, pass, upto, outside,
                 saved, history>>

Deactivate(x) == PopPattern(x) \/ Unlist(x) \/ Unstamp(x) \/ Unsuppress(x)

----------------------------------------------------------------------------
(* _save_state, field by field, and the start of the poll *)

\* Types two threads may leave a mark of in the row: those being worked on.
SaveTypes ==
  /\ at[Main] = "idle" /\ phase = "expire" /\ due = {}
  /\ phase' = "save"
  /\ row'   = [ row EXCEPT !.listed = listed ]
  /\ Goto(Main, "patterns")
  /\ clash' = clash \cup { t \in Type : \E x \in Thread : WorksOn(x, t) }
  /\ UNCHANGED <<lists, counts, known, found, mark, on, pop, todo, due, upto, outside, saved,
                 since>>

SavePatterns ==
  /\ at[Main] = "patterns"
  /\ row' = [ row EXCEPT !.pattern = pattern ]
  /\ Goto(Main, "stamps")
  /\ UNCHANGED <<lists, counts, known, found, mark, on, pop, phase, todo, due, upto, outside,
                 saved, history>>

SaveStamps ==
  /\ at[Main] = "stamps"
  /\ row' = [ row EXCEPT !.stamp = stamp ]
  /\ Goto(Main, "rest")
  /\ UNCHANGED <<lists, counts, known, found, mark, on, pop, phase, todo, due, upto, outside,
                 saved, history>>

\* Mutant of NextPage: every page is taken to be full.
FullPage == mark + Page

\* The verdicts the poll gets: a page of those after the watermark.
NextPage == IF Len(ledger) - mark > Page THEN mark + Page ELSE Len(ledger)

Polling == at[Poll] # "idle" \/ mark < upto

\* The watermark and the counts; then the INSERT, which may fail and is then
\* forgotten; then the poll, unless one is running, whose request may fail too.
SaveRest(written, answered) ==
  /\ at[Main] = "rest"
  /\ saved' = IF written
              THEN [ row EXCEPT !.mark = mark, !.counts = counts, !.known = known,
                                !.clash = clash, !.since = since ]
              ELSE saved
  /\ row'   = Empty
  /\ phase' = "idle"
  /\ Goto(Main, "idle")
  /\ upto'  = IF answered /\ ~Polling THEN NextPage ELSE upto
  /\ UNCHANGED <<lists, counts, known, found, mark, on, pop, todo, due, outside, history>>

----------------------------------------------------------------------------
(* The feedback threads *)

\* The shadow re-check calls a suppressed signal important.
ShadowImportant(t) ==
  /\ at[Shadow] = "idle"
  /\ t \in listed
  /\ Enter(Shadow, t, "pop", None)
  /\ UNCHANGED <<lists, counts, known, found, mark, pass, upto, outside, saved, since>>

\* Mutant of Judge: a demotion that meets a pass is skipped.
JudgeWhenQuiet(t) ==
  IF t \in listed /\ phase = "idle"
  THEN Enter(Poll, t, "pop", None) ELSE UNCHANGED <<threads, clash>>

\* A FAILS verdict on t demotes it if it is active.
Judge(t) ==
  IF t \in listed THEN Enter(Poll, t, "pop", None) ELSE UNCHANGED <<threads, clash>>

\* The next verdict of the page: the watermark, then the demotion.
ReadVerdict ==
  /\ at[Poll] = "idle" /\ mark < upto
  /\ mark' = mark + 1
  /\ Judge(ledger[mark + 1])
  /\ UNCHANGED <<lists, counts, known, found, pass, upto, outside, saved, since>>

\* phi-4 calls a signal of type t noise.
Confirm(t) ==
  /\ counts' = [ counts EXCEPT ![t] = IF @ < Confirmations THEN @ + 1 ELSE @ ]
  /\ UNCHANGED <<lists, known, found, mark, threads, pass, upto, outside, saved, history>>

----------------------------------------------------------------------------
(* The outside: verdicts, time, restarts *)

\* A pass takes milliseconds and a poll sees a verdict when it asks: verdicts
\* that come, and hours that go by, during a pass are taken at its end.
Verdict(t) ==
  /\ phase = "idle"
  /\ Len(ledger) < MaxVerdicts
  /\ ledger' = Append(ledger, t)
  /\ UNCHANGED <<lists, counts, known, found, mark, threads, pass, upto, now, boots, saved,
                 history>>

Tick ==
  /\ phase = "idle"
  /\ now < MaxTime
  /\ now' = now + 1
  /\ UNCHANGED <<lists, counts, known, found, mark, threads, pass, upto, ledger, boots, saved,
                 history>>

\* _restore_state: from the newest row, or, when the query fails or there is no
\* row, from nothing (the next save then follows with what little there is).  A
\* type saved without its pattern goes to the noise suppressor.
Restart(from) ==
  /\ boots < MaxBoots
  /\ boots'   = boots + 1
  /\ listed'  = from.listed
  /\ pattern' = from.pattern
  /\ stamp'   = from.stamp
  /\ repeat'  = { t \in from.listed : from.pattern[t] = "repeat_flood" }
  /\ noise'   = { t \in from.listed : from.pattern[t] # "repeat_flood" }
  /\ mark'    = from.mark
  /\ counts'  = from.counts
  /\ known'   = from.known
  /\ clash'   = from.clash
  /\ since'   = from.since
  /\ found' = {} /\ todo' = {} /\ due' = {}
  /\ row' = Empty /\ phase' = "idle" /\ upto' = from.mark
  /\ at'  = [ x \in Thread |-> "idle" ]
  /\ on'  = [ x \in Thread |-> None ]
  /\ pop' = [ x \in Thread |-> None ]
  /\ UNCHANGED <<ledger, now, saved>>

Pass ==
  \/ \E pair \in todo : Consider(pair)
  \/ AddType \/ SetPattern \/ SetStamp
  \/ Recheck \/ Expire
  \/ \E t \in due : ExpireNext(t)
  \/ Deactivate(Main)
  \/ SaveTypes \/ SavePatterns \/ SaveStamps
  \/ \E written, answered \in BOOLEAN : SaveRest(written, answered)

Next ==
  \/ \E new \in SUBSET (Discoverable \ known) : Discover(new)
  \/ Pass
  \/ \E t \in Type : ShadowImportant(t)
  \/ Deactivate(Shadow)
  \/ ReadVerdict
  \/ Deactivate(Poll)
  \/ \E t \in Type : Confirm(t)
  \/ \E t \in Type : Verdict(t)
  \/ Tick
  \/ \E from \in {saved, Empty} : Restart(from)

Spec == Init /\ [][Next]_vars

----------------------------------------------------------------------------
(* Properties *)

Suppressed == repeat \cup noise

\* "only activate after promotion validates them" (dynamic_agents.py): a type
\* is suppressed or listed only with phi-4's confirmations, also after a restart
\* from a row that was read while other threads went on.
Qualified == \A t \in Suppressed \cup listed : Confirmed(t)

\* The five structures say the same of t.
Agree(t) ==
  /\ t \in repeat <=> (t \in listed /\ pattern[t] = "repeat_flood")
  /\ t \in noise  <=> (t \in listed /\ pattern[t] = "dominant_type")
  /\ t \in listed <=> pattern[t] # None
  /\ t \in listed <=> stamp[t] # 0

\* What is listed is what is suppressed, has its pattern and will expire: with
\* no thread at work on it, a type can be in disagreement only if two threads
\* once worked on it at the same time, or a save read it in between.
AgreesUnlessClashed ==
  \A t \in Type \ clash : (\A x \in Thread : ~WorksOn(x, t)) => Agree(t)

\* "Poll GCL verdicts for demotion feedback": a verdict the watermark has passed
\* has been applied, and stays applied after a restart: what is active was
\* activated after it.  Again, unless threads clashed.
VerdictsApplied ==
  \A t \in listed \ clash : \A n \in 1..mark :
     ledger[n] = t /\ (\A x \in Thread : ~WorksOn(x, t)) => n <= since[t]

=============================================================================
