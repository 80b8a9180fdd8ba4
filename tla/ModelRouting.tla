---------------------------- MODULE ModelRouting ----------------------------
(***************************************************************************)
(* Which model endpoint a reasoning task is sent to: the preference that   *)
(* routing/signal_router.py gives it, what inference/router.py makes of    *)
(* it, and the tables of the inference router's corpora they look in.      *)
(* A choice made in turn (a rotation) is any member of what rotates.       *)
(*                                                                         *)
(* A corpora model is named by the endpoint CORPORA_TO_ENDPOINT gives it   *)
(* (no two share one).  The compiled corpora hold no INT8 alternative, no  *)
(* caller of update_pressure excludes a model, and none of observe_signal  *)
(* starts the bootstrapper: lookup returns an entry's first model, and the *)
(* industry is the one that was set.  External: resolve_benchmark_task may *)
(* answer any benchmark task.                                              *)
(***************************************************************************)

Mode == {"production", "demo"}
Severity == {"low", "medium", "high", "critical"}
Finding == [cross : BOOLEAN, severity : Severity, many : BOOLEAN]

----------------------------------------------------------------------------
(* Tables *)

MicroRotation == {"granite_2b_cpu", "phi3_mini_cpu", "qwen25_3b_cpu"}
MacroRotation == {"deepseek", "phi4", "qwen3b"}

PreferenceToModel ==
  [ phi4 |-> "phi4_gaudi", qwen3 |-> "qwen3_14b_gaudi_a", qwen3b |-> "qwen3_14b_gaudi_b",
    deepseek |-> "deepseek_r1_distill_qwen_14b_gaudi", granite_2b_cpu |-> "granite_2b_cpu_xeon",
    phi3_mini_cpu |-> "phi3_mini_cpu_xeon", qwen25_3b_cpu |-> "qwen25_3b_cpu_xeon",
    llama70b |-> "llama_3_1_70b_q4_xeon" ]

MacroModels == {"deepseek_r1_distill_qwen_14b_gaudi", "phi4_gaudi"}
MicroModels == {"granite_tiny_cpu_xeon", "granite_8b_cpu_xeon"}

MacroTask == {"root_cause_analysis", "deep_root_cause_analysis", "cross_cluster_correlation",
              "fleet_summary", "capacity_estimate"}

Gaudi == MacroModels \union {"qwen3_14b_gaudi_a", "qwen3_14b_gaudi_b"}

\* LITELLM_MODELS: what the real client can call.
Served == Gaudi \union MicroModels \union
  { "granite_2b_cpu_xeon", "phi3_mini_cpu_xeon", "qwen25_3b_cpu_xeon", "granite_350m_cpu_xeon",
    "granite_2b_int8_xeon", "granite_2b_speculative_xeon", "granite_41_3b_cpu_xeon",
    "granite_41_8b_cpu_xeon", "smollm2_360m_cpu_xeon", "smollm2_17b_cpu_xeon", "bitnet_2b_cpu_xeon",
    "phi4_mini_cpu_xeon", "gemma2_2b_cpu_xeon", "qwen36_moe_cpu_xeon", "granite_2b_q4_cpu_xeon",
    "granite_2b_q8_cpu_xeon", "granite_8b_q4_cpu_xeon" }

\* MODEL_PROFILES: what the mock client can call, and what resolve_model calls known.
Profiled == (Served \ MicroModels) \union {"llama_3_1_70b_q4_xeon"}

LaneModels ==
  [ classification |-> {"gemma3_4b_cpu_xeon", "phi3_mini_cpu_xeon", "llama32_1b_cpu_xeon"},
    extraction     |-> {"phi3_mini_cpu_xeon", "gemma3_4b_cpu_xeon", "mistral_7b_cpu_xeon"},
    generation     |-> {"phi3_mini_cpu_xeon", "gemma3_4b_cpu_xeon", "mistral_7b_cpu_xeon"},
    reasoning      |-> {"phi3_mini_cpu_xeon", "mistral_7b_cpu_xeon", "gemma3_4b_cpu_xeon"},
    embedding      |-> {"nomic_embed_cpu_xeon", "minilm_embed_cpu_xeon", "bge_embed_cpu_xeon"} ]

Lanes ==
  [ extraction |-> {"extract-medium", "loan-document-extraction", "policy-extraction", "medical-ner",
                    "review-sentiment", "network-anomaly"},
    generation |-> {"summarize-long", "clinical-summarization", "compliance-screening"},
    reasoning  |-> {"generate-qa", "underwriting-risk", "churn-prediction"},
    embedding  |-> {"encode-text", "encode-document", "similarity-search"},
    classification |-> {"classify-short", "fraud-scoring", "dispute-classification", "claims-triage",
                        "ticket-routing", "product-categorization", "demand-classification",
                        "clinical-classification"} ]

BenchmarkTask == UNION { Lanes[l] : l \in DOMAIN Lanes }
Lane(task) == CHOOSE l \in DOMAIN Lanes : task \in Lanes[l]

\* corpora.json: the first model of each entry, by industry, task and tier.
Entries ==
  { <<"basic", t, "micro", "granite_350m_cpu_xeon">> : t \in {"classify-short", "extract-medium", "summarize-long"} }
  \union { <<"basic", t, "macro", "phi3_mini_cpu_xeon">> : t \in {"extract-medium", "summarize-long"} }
  \union { <<"basic", "classify-short", "macro", "granite_8b_cpu_xeon">>,
           <<"fsi", "dispute-classification", "micro", "granite_350m_cpu_xeon">>,
           <<"fsi", "fraud-scoring", "micro", "granite_41_3b_cpu_xeon">>,
           <<"fsi", "loan-document-extraction", "micro", "granite_2b_cpu_xeon">>,
           <<"healthcare", "clinical-summarization", "macro", "granite_8b_cpu_xeon">>,
           <<"insurance", "claims-triage", "micro", "granite_350m_cpu_xeon">>,
           <<"insurance", "policy-extraction", "micro", "granite_2b_cpu_xeon">>,
           <<"insurance", "underwriting-risk", "macro", "granite_41_8b_cpu_xeon">>,
           <<"retail", "review-sentiment", "micro", "granite_2b_cpu_xeon">>,
           <<"telecom", "churn-prediction", "macro", "phi3_mini_cpu_xeon">>,
           <<"telecom", "network-anomaly", "micro", "granite_2b_cpu_xeon">>,
           <<"telecom", "ticket-routing", "micro", "granite_350m_cpu_xeon">> }
  \union { <<"retail", t, "micro", "granite_350m_cpu_xeon">> : t \in {"demand-classification", "product-categorization"} }

----------------------------------------------------------------------------
(* The preference of a finding's task *)

Severe(f) == f.cross \/ f.severity \in {"high", "critical"}

\* _finding_to_task_type
TaskType(f) ==
  CASE f.cross \/ (f.severity = "critical" /\ f.many) -> "deep_root_cause_analysis"
    [] ~f.cross /\ f.severity \in {"high", "critical"} /\ ~(f.severity = "critical" /\ f.many)
         -> "root_cause_analysis"
    [] OTHER -> "summarize_finding"

\* resolve_lane_model: every lane's models have endpoints, so the lookup by
\* tier that follows it is never reached.
LaneRoutes == UNION { LaneModels[Lane(b)] : b \in BenchmarkTask }

Rotation(f) ==
  IF f.cross THEN {"deepseek"} ELSE IF Severe(f) THEN MacroRotation ELSE MicroRotation

\* _select_model_for_finding
Preferences(f, mode, router) ==
  IF mode = "demo" THEN MicroRotation \union MacroRotation
  ELSE IF router THEN LaneRoutes
  ELSE Rotation(f)

----------------------------------------------------------------------------
(* The endpoint of a task *)

\* RoutingCorpora.lookup: the industry's entry, or the basic one; at most one model.
Lookup(industry, task, tier) ==
  LET In(i) == { e \in Entries : e[1] = i /\ e[2] = task /\ e[3] = tier }
  IN  { e[4] : e \in IF In(industry) # {} THEN In(industry) ELSE In("basic") }

Tier(type) == IF type \in MacroTask THEN "macro" ELSE "micro"
Fallback(type) == IF Tier(type) = "macro" THEN MacroModels ELSE MicroModels

\* Without a preference the model profiles know: the corpora, or the rotation.
ByTier(type, industry, router) ==
  IF ~router THEN Fallback(type)
  ELSE UNION { LET found == Lookup(industry, b, Tier(type))
               IN  IF found # {} THEN found ELSE Fallback(type) : b \in BenchmarkTask }

\* Mutant of Resolve: a preference that looks like an endpoint passes unchecked.
ResolveUnchecked(type, preference, industry, router) ==
  IF preference \in DOMAIN PreferenceToModel THEN {PreferenceToModel[preference]}
  ELSE {preference}

\* resolve_model
Resolve(type, preference, industry, router) ==
  IF preference \in DOMAIN PreferenceToModel THEN {PreferenceToModel[preference]}
  ELSE IF preference \in Profiled THEN {preference}
  ELSE ByTier(type, industry, router)

\* The endpoints the task of finding f may be sent to.
Endpoints(f, mode, industry, router) ==
  UNION { Resolve(TaskType(f), p, industry, router) : p \in Preferences(f, mode, router) }
=============================================================================
