----------------------------- MODULE MCSignalPath -----------------------------
(* Scenes of pods in two clusters, one that pends and crashes by turns and one    *)
(* that crashes: three signals come, or two whose names are noisy to the path that *)
(* sees no container.  In the short scenes a single signal of any type and look    *)
(* comes, from its collector or by the API, and in one an event comes twice while  *)
(* its topic is replayed.  The calls are two signals that may come by the API; the *)
(* tuned scene lets the first cluster's profile adapt while two signals come.      *)
EXTENDS SignalPath

Plain == [type |-> "pod_pending", ns |-> "apps", name |-> "plain", container |-> "none",
          label |-> "plain", security |-> FALSE, kind |-> "own"]

MCResource == {"a", "b"}
MCClusterOf == [r \in MCResource |-> IF r = "a" THEN "east" ELSE "west"]

Pods == [r \in MCResource |-> IF r = "a" THEN {"pod_pending", "pod_crashloop"} ELSE {"pod_crashloop"}]
Long == { [types |-> Pods, look |-> Plain, signals |-> 3, replay |-> FALSE, api |-> FALSE, tunes |-> FALSE],
          [types |-> Pods, look |-> [Plain EXCEPT !.name = "noisy", !.container = "plain", !.ns = "sandbox"],
           signals |-> 2, replay |-> FALSE, api |-> FALSE, tunes |-> FALSE] }

Only(t, l) == [types |-> [r \in MCResource |-> IF r = "a" THEN {t} ELSE {}], look |-> l, signals |-> 1,
               replay |-> FALSE, api |-> TRUE, tunes |-> FALSE]

Places  == { [Plain EXCEPT !.ns = n, !.container = c] :
             n \in {"apps", "platform", "sandbox", "metallb"}, c \in {"none", "plain", "noisy"} }
Names   == { [Plain EXCEPT !.name = n, !.security = b] :
             n \in {"noisy", "dns", "account", "rbac"}, b \in BOOLEAN }
Labels  == { [Plain EXCEPT !.label = n, !.security = b] :
             n \in {"rbac", "false_positive", "escalated", "noisy_search"}, b \in BOOLEAN }

Short == { Only(t, l) : t \in SignalType \ (Alerts \union Splunk), l \in Places \union Names }
         \union { Only(t, l) : t \in Alerts \union Splunk, l \in Names \union Labels }

Again == { [types |-> [r \in MCResource |-> IF r = "a" THEN {"event_backoff"} ELSE {}],
            look |-> Plain, signals |-> 2, replay |-> TRUE, api |-> FALSE, tunes |-> FALSE] }

Others == { Only(t, [Plain EXCEPT !.kind = "other"]) : t \in {"pod_crashloop", "route_unhealthy", "pvc_pending"} }

Calls == { [types |-> [r \in MCResource |-> IF r = "a" THEN {t} ELSE {}], look |-> Plain, signals |-> 2,
            replay |-> FALSE, api |-> TRUE, tunes |-> FALSE] : t \in {"pvc_pending", "splunk_high_alert"} }

Tuned == { [types |-> Pods, look |-> Plain, signals |-> 2, replay |-> FALSE, api |-> FALSE, tunes |-> TRUE] }

MCScene == Tuned \union Long \union Short \union Others \union Again \union Calls
=============================================================================
