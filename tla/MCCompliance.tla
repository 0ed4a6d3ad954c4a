---------------------------- MODULE MCCompliance ----------------------------
(***************************************************************************)
(* Evaluation over families of inputs, one for each group of checks.       *)
(***************************************************************************)
EXTENDS Evaluation

Runtime == [workload |-> "service", stateType |-> "stateless", durability |-> "ephemeral",
            strategy |-> Nil, grace |-> Nil, healthDelay |-> Nil,
            health |-> Nil, metrics |-> Nil]
Contract == [ports |-> {80}, image |-> Nil, runtime |-> Runtime, readiness |-> Nil]
Workload == [kind |-> "Deployment", strategy |-> "RollingUpdate", policy |-> Nil, grace |-> 30,
             images |-> << >>, volumes |-> {}, claimTemplates |-> FALSE,
             readinessDelay |-> Nil, livenessDelay |-> Nil]
OK == [reachable |-> TRUE, code |-> 200, body |-> TRUE]
Cluster == [service |-> {80}, workload |-> Workload,
            http |-> [health |-> OK, metrics |-> OK]]
Target == [service |-> TRUE, ref |-> Nil]
Input(t, c, k, e) == [target |-> t, contract |-> c, cluster |-> k, expired |-> e]

Targets == {t \in [service : BOOLEAN, ref : Kinds \cup {Nil}] : ~IsReference(t)}

\* A workload of a kind, with the fields the API server gives that kind.
OfKind(k) == [Workload EXCEPT !.kind = k,
                              !.strategy = IF k = "Deployment" THEN "RollingUpdate" ELSE Nil,
                              !.policy = IF k = "StatefulSet" THEN "OrderedReady" ELSE Nil]

\* Targets, kinds, storage and the state model.
StateInputs ==
    {Input(t, [Contract EXCEPT !.runtime.workload = a, !.runtime.stateType = b,
                               !.runtime.durability = d],
           [Cluster EXCEPT !.workload = w, !.service = s], FALSE) :
        t \in Targets, a \in {"service", "job", "scheduled"},
        b \in {"stateful", "stateless", "hybrid"}, d \in {"persistent", "ephemeral"},
        s \in {Nil, {80}},
        w \in {Nil} \cup {[OfKind(k) EXCEPT !.volumes = v] : k \in Kinds, v \in {{}, {"pvc"}}}
                  \cup {[OfKind("StatefulSet") EXCEPT !.claimTemplates = TRUE]}}

\* Rollout, shutdown and probe timing.
Lifecycles ==
    {Nil} \cup {[Runtime EXCEPT !.strategy = s, !.grace = g, !.healthDelay = h] :
                    s \in {Nil, "rolling", "recreate", "ordered"},
                    g \in {Nil, 30, 60}, h \in {Nil, 0, 5}}
Rollouts ==
    {[x EXCEPT !.grace = g, !.readinessDelay = r, !.livenessDelay = l] :
        x \in {OfKind("Deployment"), [OfKind("Deployment") EXCEPT !.strategy = "Recreate"],
               OfKind("StatefulSet"), [OfKind("StatefulSet") EXCEPT !.policy = "Parallel"],
               OfKind("Job")},
        g \in {30, 60}, r \in {Nil, 0, 5}, l \in {Nil, 5}}
LifecycleInputs ==
    {Input([Target EXCEPT !.ref = w.kind], [Contract EXCEPT !.runtime = r],
           [Cluster EXCEPT !.workload = w], FALSE) : r \in Lifecycles, w \in Rollouts}

Images == [host : {Nil, "docker.io", "ghcr.io"}, user : {Nil, "library", "org"},
           name : {"app"}, tag : {Nil, "1", "2"}, digest : {Nil, "d"}]

\* Image references; a second container never counts.
ImageInputs ==
    {Input(Target, [Contract EXCEPT !.image = e],
           [Cluster EXCEPT !.workload.images = <<a, e>>], FALSE) : e, a \in Images}

Answers == {OK, [OK EXCEPT !.reachable = FALSE, !.code = 0, !.body = FALSE],
            [OK EXCEPT !.body = FALSE], [OK EXCEPT !.code = 302], [OK EXCEPT !.code = 400]}

\* Ports, endpoint probes and readiness: an endpoint section with its answer,
\* a readiness section with whether its date has passed.
Endpoints == ({Nil, "missing", "noPort"} \X {OK}) \cup ({"port"} \X Answers)
Gates == ({Nil, "met", "unmet", "expiring"} \X {FALSE}) \cup {<<"expiring", TRUE>>}
EndpointInputs ==
    {Input(Target, [Contract EXCEPT !.ports = p, !.readiness = g[1],
                                    !.runtime.health = h[1], !.runtime.metrics = m[1]],
           [Cluster EXCEPT !.service = s, !.http.health = h[2], !.http.metrics = m[2]], g[2]) :
        p \in {{}, {80, 90}}, s \in {Nil, {80}, {80, 90, 91}},
        h, m \in Endpoints, g \in Gates}

MCInputs == StateInputs \cup LifecycleInputs \cup ImageInputs \cup EndpointInputs
=============================================================================
