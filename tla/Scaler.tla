-------------------------------- MODULE Scaler --------------------------------
(***************************************************************************)
(* InferenceScaler (intel_inference_router/scaler.py): the models of a CPU *)
(* node are evicted one at a time when pressure is high and restored when  *)
(* it is low, with a minimum time between two evictions and between two    *)
(* restorations.                                                           *)
(*                                                                         *)
(* A snapshot is kept as the numbers of its five measured grades that are  *)
(* red and yellow; the two derived grades, memory budget and share of the  *)
(* models loaded, are computed from the scaler's own state.  Time advances *)
(* in ticks and only the ages of the last eviction and restoration matter. *)
(* The order of self._loaded is never read, so it is a set.                *)
(***************************************************************************)
EXTENDS Integers, Sequences, FiniteSets, SequencesExt, FiniteSetsExt

CONSTANTS
  EvictionOrder,  \* the roster, largest memory first
  Memory,         \* memory of each model
  TotalMemory,    \* total_memory_gb
  BudgetGreen, BudgetYellow,  \* inference_budget_green, _yellow: percentages
  AvailGreen, AvailYellow,    \* models_available_green, _yellow: percentages
  MinShed,        \* min_shed_interval_s, in ticks
  MinRestore,     \* min_restore_interval_s, in ticks
  Reds,           \* how many of the five measured grades may be red
  Yellows,        \* and yellow
  Forcing         \* may an operator force an eviction or a restoration?

Model == ToSet(EvictionOrder)

ASSUME RosterAssumption ==
  /\ EvictionOrder \in Seq(Model)
  /\ IsInjective(EvictionOrder)
  /\ Memory \in [Model -> Nat]
  /\ \A m, n \in DOMAIN EvictionOrder :
        m < n => Memory[EvictionOrder[m]] >= Memory[EvictionOrder[n]]
ASSUME ScalerAssumption ==
  /\ TotalMemory \in Nat \ {0}
  /\ MinShed \in Nat /\ MinRestore \in Nat
  /\ Reds \subseteq 0..5 /\ Yellows \subseteq 0..5
  /\ Forcing \in BOOLEAN

VARIABLES
  loaded,      \* self._loaded
  evicted,     \* self._evicted, oldest eviction first
  shedAge,     \* ticks since _last_shed_time, at most MinShed
  restoreAge,  \* ticks since _last_restore_time, at most MinRestore
  measured,    \* what a snapshot taken now measures: reds and yellows of five grades
  forced       \* history: force_evict or force_restore has been used

vars == <<loaded, evicted, shedAge, restoreAge, measured, forced>>

TypeOK ==
  /\ loaded     \in SUBSET Model
  /\ evicted    \in Seq(Model)
  /\ shedAge    \in 0..MinShed
  /\ restoreAge \in 0..MinRestore
  /\ measured   \in Reds \X Yellows
  /\ forced     \in BOOLEAN

\* Both timestamps start at 0.0, the epoch: neither interval delays the first.
Init ==
  /\ loaded     = Model
  /\ evicted    = << >>
  /\ shedAge    = MinShed
  /\ restoreAge = MinRestore
  /\ measured   \in Reds \X Yellows
  /\ forced     = FALSE

----------------------------------------------------------------------------
(* Grading *)

MemoryOf[models \in SUBSET Model] ==
  IF models = {} THEN 0
  ELSE LET m == CHOOSE m \in models : TRUE IN Memory[m] + MemoryOf[models \ {m}]

\* The least whole number that is `pct` percent of `whole` or more.
Percent(pct, whole) == (pct * whole + 99) \div 100

\* inference_budget_pct and models_available_pct, compared with a threshold.
BudgetAtLeast(pct) == TotalMemory - MemoryOf[loaded] >= Percent(pct, TotalMemory)

AvailableAtLeast(pct) ==
  IF Model = {} THEN pct = 0 ELSE Cardinality(loaded) >= Percent(pct, Cardinality(Model))

\* _grade_higher of the two derived metrics.
BudgetGrade ==
  IF BudgetAtLeast(BudgetGreen) THEN "green"
  ELSE IF BudgetAtLeast(BudgetYellow) THEN "yellow" ELSE "red"

AvailableGrade ==
  IF AvailableAtLeast(AvailGreen) THEN "green"
  ELSE IF AvailableAtLeast(AvailYellow) THEN "yellow" ELSE "red"

\* Mutant of Derived: the share of models loaded is not graded.
DerivedBudgetOnly(grade) == IF BudgetGrade = grade THEN 1 ELSE 0

\* How many of the two derived grades are `grade`.
Derived(grade) == Cardinality({ d \in {1, 2} : <<BudgetGrade, AvailableGrade>>[d] = grade })

\* The action of _grade_snapshot ("shed_aggressive" is carried out like "shed").
ActionFor(reds, yellows) ==
  IF reds + Derived("red") >= 1 THEN "shed"
  ELSE IF yellows + Derived("yellow") >= 1 THEN "hold" ELSE "restore"

----------------------------------------------------------------------------
(* Eviction and restoration *)

\* m comes before n in the eviction order.
Before(m, n) ==
  \E x, y \in DOMAIN EvictionOrder :
     x < y /\ EvictionOrder[x] = m /\ EvictionOrder[y] = n

\* Mutant of EvictNext: the time of the eviction is not recorded.
EvictUntimed ==
  \E m \in loaded :
     /\ \A n \in loaded \ {m} : Before(m, n)
     /\ loaded'  = loaded \ {m}
     /\ evicted' = Append(evicted, m)
     /\ UNCHANGED shedAge

\* Mutant of EvictNext: records when the interval ends, not when it starts.
EvictDeadline ==
  \E m \in loaded :
     /\ \A n \in loaded \ {m} : Before(m, n)
     /\ loaded'  = loaded \ {m}
     /\ evicted' = Append(evicted, m)
     /\ shedAge' = 0 - MinShed

\* Mutant of EvictNext: the eviction order is walked from its end.
EvictSmallest ==
  \E m \in loaded :
     /\ \A n \in loaded \ {m} : Before(n, m)
     /\ loaded'  = loaded \ {m}
     /\ evicted' = Append(evicted, m)
     /\ shedAge' = 0

\* The first model of the eviction order that is still loaded.
EvictNext ==
  \E m \in loaded :
     /\ \A n \in loaded \ {m} : Before(m, n)
     /\ loaded'  = loaded \ {m}
     /\ evicted' = Append(evicted, m)
     /\ shedAge' = 0

\* Mutant of RestoreNext: takes nothing off the list.
RestoreNothing ==
  /\ evicted # << >>
  /\ restoreAge' = 0
  /\ UNCHANGED <<loaded, evicted>>

\* The model evicted last.
RestoreNext ==
  /\ evicted # << >>
  /\ loaded'     = loaded \cup {Last(evicted)}
  /\ evicted'    = Front(evicted)
  /\ restoreAge' = 0

Restoring(act) == act = "restore" /\ restoreAge >= MinRestore /\ evicted # << >>
Shedding(act)  == act = "shed" /\ shedAge >= MinShed /\ loaded # {}

\* observe_pressure, on a snapshot of the node as it is.
Observe ==
  LET act == ActionFor(measured[1], measured[2])
  IN  /\ UNCHANGED <<measured, forced>>
      /\ \/ Restoring(act) /\ RestoreNext /\ UNCHANGED shedAge
         \/ Shedding(act) /\ EvictNext /\ UNCHANGED restoreAge
         \/ /\ ~Restoring(act) /\ ~Shedding(act)
            /\ UNCHANGED <<loaded, evicted, shedAge, restoreAge>>

ForceEvict(m) ==
  /\ Forcing
  /\ m \in loaded
  /\ loaded'  = loaded \ {m}
  /\ evicted' = Append(evicted, m)
  /\ forced'  = TRUE
  /\ UNCHANGED <<shedAge, restoreAge, measured>>

\* Mutant of ForceRestore: loads the model and leaves it on the list.
ForceRestoreCopy(m) ==
  /\ Forcing
  /\ m \in ToSet(evicted)
  /\ loaded'  = loaded \cup {m}
  /\ forced'  = TRUE
  /\ UNCHANGED <<evicted, shedAge, restoreAge, measured>>

ForceRestore(m) ==
  /\ Forcing
  /\ \E n \in DOMAIN evicted : evicted[n] = m /\ evicted' = RemoveAt(evicted, n)
  /\ loaded'  = loaded \cup {m}
  /\ forced'  = TRUE
  /\ UNCHANGED <<shedAge, restoreAge, measured>>

Tick ==
  /\ shedAge < MinShed \/ restoreAge < MinRestore
  /\ shedAge'    = IF shedAge < MinShed THEN shedAge + 1 ELSE shedAge
  /\ restoreAge' = IF restoreAge < MinRestore THEN restoreAge + 1 ELSE restoreAge
  /\ UNCHANGED <<loaded, evicted, measured, forced>>

\* The pressure on the node changes.
Pressure(reds, yellows) ==
  /\ measured' = <<reds, yellows>>
  /\ UNCHANGED <<loaded, evicted, shedAge, restoreAge, forced>>

Next ==
  \/ Observe
  \/ \E m \in Model : ForceEvict(m)
  \/ \E m \in Model : ForceRestore(m)
  \/ Tick
  \/ \E reds \in Reds, yellows \in Yellows : Pressure(reds, yellows)

Spec == Init /\ [][Next]_vars

\* update_pressure is meant to be called periodically, and time passes.
FairSpec == Spec /\ WF_vars(Observe) /\ WF_vars(Tick)

Calm == measured = <<0, 0>>

----------------------------------------------------------------------------
(* Properties *)

\* Every model of the roster is loaded or evicted, and not both, whatever mix
\* of automatic and forced moves: none is lost, none is evicted twice.
NoModelLost ==
  /\ loaded \cap ToSet(evicted) = {}
  /\ loaded \cup ToSet(evicted) = Model
  /\ IsInjective(evicted)

\* "Models are evicted largest-first [...] and restored smallest-first"
\* (InferenceScaler, docstring): the list is in eviction order and everything
\* on it comes before everything loaded, so the last entry, which
\* _restore_next pops, is the smallest evicted.  A forced move can break it.
SmallestLast ==
  ~forced => /\ \A x, y \in DOMAIN evicted : x < y => Before(evicted[x], evicted[y])
             /\ \A x \in DOMAIN evicted : \A m \in loaded : Before(evicted[x], m)

\* "Hysteresis intervals prevent flapping": a step moves one model, pressure
\* evicts only when MinShed has passed since the last time it did, restores
\* only when MinRestore has, and each starts its interval again.
Paced ==
  [][ ~forced' =>
        /\ Cardinality(loaded \ loaded') + Cardinality(loaded' \ loaded) <= 1
        /\ loaded \ loaded' # {} => shedAge = MinShed /\ shedAge' = 0
        /\ loaded' \ loaded # {} => restoreAge = MinRestore /\ restoreAge' = 0 ]_vars

\* While all seven grades are green, what is evicted comes back.
RestoresWhileGreen ==
  []<>( \/ ~Calm
        \/ BudgetGrade # "green"
        \/ AvailableGrade # "green"
        \/ evicted = << >> )

\* The share of models loaded is itself one of the grades: once it is red every
\* observation sheds, however calm the node, and only an operator stops it
\* before the last model is gone.
RedAvailabilityDrains ==
  (AvailableGrade = "red") ~> (loaded = {} \/ forced)

\* "restored smallest-first when pressure returns to green" (InferenceScaler,
\* docstring): if the node stays calm, every model comes back.  The code does
\* not keep it: with fewer than 80% of the models loaded the availability grade
\* alone holds, and with fewer than half it sheds.
RestoredWhenCalm == <>[]Calm => []<>(evicted = << >>)

=============================================================================
