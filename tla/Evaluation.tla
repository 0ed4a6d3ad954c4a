----------------------------- MODULE Evaluation -----------------------------
(***************************************************************************)
(* The runtime half of a reconciliation, from the objects in the cluster   *)
(* to the status and the gauges, against a reference definition of what it *)
(* means that a cluster conforms to a contract; then a second pass for the *)
(* same Pacto that does not get that far.                                  *)
(***************************************************************************)
EXTENDS Metrics

CONSTANT Inputs   \* records target, contract, cluster, expired

\* A parsed image reference.
IsImage(i) ==
    i = [host |-> i.host, user |-> i.user, name |-> i.name, tag |-> i.tag, digest |-> i.digest]

\* What the contract schema admits.
ContractOK(c) ==
    /\ c.readiness \in {Nil, "met", "unmet", "expiring"}
    /\ c.runtime # Nil => c.runtime.stateType \in {"stateful", "stateless", "hybrid"}
    /\ c.image # Nil => IsImage(c.image)

\* What the API server admits, and fills in where a manifest says nothing.  A
\* workload has a container where one is compared.
WorkloadOK(w, c) ==
    /\ w.claimTemplates \in BOOLEAN
    /\ w.kind = "Deployment" => w.strategy \in {"RollingUpdate", "Recreate"}
    /\ w.kind = "StatefulSet" => w.policy \in {"OrderedReady", "Parallel"}
    /\ c.image # Nil => w.images # << >> /\ IsImage(Head(w.images))

\* What Prober.Probe returns: without an answer there is no code.
AnswerOK(a) ==
    /\ a.reachable \in BOOLEAN /\ a.body \in BOOLEAN /\ a.code \in Nat
    /\ ~a.reachable => a.code = 0

InputOK(i) ==
    /\ i.target.service \in BOOLEAN /\ ~IsReference(i.target) /\ i.expired \in BOOLEAN
    /\ ContractOK(i.contract)
    /\ i.cluster.workload # Nil => WorkloadOK(i.cluster.workload, i.contract)
    /\ AnswerOK(i.cluster.http["health"]) /\ AnswerOK(i.cluster.http["metrics"])

ASSUME InputsAssumption == \A i \in Inputs : InputOK(i)
ASSUME NilAssumption ==
    Nil \notin {"met", "unmet", "runtime", "unobserved", "invalid", "unloadable",
                "RollingUpdate", "Recreate", "OrderedReady", "Parallel"}

VARIABLES
    input,   \* one of Inputs
    pass,    \* how far the last pass got, Nil before the first
    status,  \* the status it wrote
    gauges   \* the metrics of the process
vars == <<input, pass, status, gauges>>

\* ----- behaviour --------------------------------------------------------

Init == input \in Inputs /\ pass = Nil /\ status = EmptyStatus /\ gauges = NoGauges

\* Steps 5 to 6b for a contract that loaded and validated.
Prepared(c) == reconcileReadiness(populateContractStatus(EmptyStatus, c), c, input.expired)

\* A pass that reaches the runtime stage.
Evaluate ==
    /\ pass = Nil /\ pass' = "runtime"
    /\ LET c == input.contract
           s == Prepared(c)
           snap == Observe(input.target, input.cluster)
       IN  /\ status' = runtimeStatus(s, c, snap, input.target.service, input.cluster.http)
           /\ gauges' = finishMetrics(RecordReadiness(gauges, s), status',
                            runtimeChecks(c, snap, input.target.service, input.cluster.http))
    /\ UNCHANGED input

\* The next one cannot observe the target.
ObservationFails ==
    /\ pass = "runtime" /\ pass' = "unobserved"
    /\ LET s == Prepared(input.contract)
       IN  /\ status' = unobservedStatus(s)
           /\ gauges' = finishMetrics(RecordReadiness(gauges, s), status', unobservedChecks)
    /\ UNCHANGED input

\* The next one loads a contract that is invalid, or loads nothing at all.
ContractFails ==
    /\ pass = "runtime" /\ pass' \in {"invalid", "unloadable"}
    /\ status' = failStatus(EmptyStatus)
    /\ gauges' = failMetrics(gauges, status', pass' = "invalid")
    /\ UNCHANGED input

Next == Evaluate \/ ObservationFails \/ ContractFails
Spec == Init /\ [][Next]_vars

\* ----- reference definition ---------------------------------------------

\* The repository an image reference denotes on Docker Hub or elsewhere, as
\* far as the code spells it out: a short name is a docker.io name.
Repository(i) == <<normalizeImageRef(i).host, normalizeImageRef(i).user, i.name>>

\* The workload runs what the contract declares.
ImageConforms(c, w) ==
    \/ c.image = Nil
    \/ LET a == Head(w.images)
       IN  /\ Repository(a) = Repository(c.image)
           /\ c.image.tag # Nil => a.tag = c.image.tag
           /\ c.image.digest # Nil => a.digest = c.image.digest

\* The storage and, for a stateful contract, the kind that the rules of
\* checkStateModel expect.
StorageConforms(r, w) ==
    LET claims == "pvc" \in w.volumes \/ (w.kind = "StatefulSet" /\ w.claimTemplates)
    IN  /\ r.stateType = "stateful" => w.kind = "StatefulSet"
        /\ r.stateType = "stateless" => ~claims
        /\ r.stateType # "stateless" /\ r.durability = "persistent" => claims

LifecycleConforms(r, w) ==
    /\ r.strategy # Nil =>
         /\ w.kind = "Deployment" =>
              <<r.strategy, w.strategy>> \in {<<"rolling", "RollingUpdate">>, <<"recreate", "Recreate">>}
         /\ w.kind = "StatefulSet" => r.strategy = "ordered" /\ w.policy = "OrderedReady"
    /\ r.grace # Nil => w.grace = r.grace
    /\ r.healthDelay # Nil =>
         r.healthDelay = IF w.readinessDelay = Nil THEN w.livenessDelay ELSE w.readinessDelay

KindConforms(r, w) ==
    <<r.workload, w.kind>> \in {<<"service", "Deployment">>, <<"service", "StatefulSet">>,
                                <<"job", "Job">>, <<"scheduled", "CronJob">>}

EndpointsConform(r, http) ==
    /\ r.health # Nil => r.health = "port" /\ http["health"].code \in 200..399
    /\ r.metrics # Nil => /\ r.metrics = "port"
                          /\ http["metrics"].code = 200 /\ http["metrics"].body

\* The objects the target names exist.
ResourcesExist ==
    LET k == input.cluster
        wanted == IF input.target.ref = Nil THEN "Deployment" ELSE input.target.ref
    IN  /\ input.target.service => k.service # Nil
        /\ k.workload # Nil /\ k.workload.kind = wanted

\* The kind that the other rules of checkStateModel expect: a Deployment for a
\* stateless contract and for a hybrid one with ephemeral data.
OnExpectedKind ==
    LET r == input.contract.runtime
    IN  r # Nil /\ (r.stateType = "stateless" \/ (r.stateType = "hybrid" /\ r.durability = "ephemeral"))
            => input.cluster.workload.kind = "Deployment"

\* The cluster is what the contract says, stated on the objects themselves, up
\* to that expectation.
ConformantButForKind ==
    LET c == input.contract
        k == input.cluster
    IN  /\ ResourcesExist
        /\ input.target.service => c.ports \subseteq k.service
        /\ c.runtime # Nil =>
             /\ KindConforms(c.runtime, k.workload)
             /\ StorageConforms(c.runtime, k.workload)
             /\ LifecycleConforms(c.runtime, k.workload)
             /\ ImageConforms(c, k.workload)
             /\ input.target.service => EndpointsConform(c.runtime, k.http)

\* The cluster is all that the contract says.
Conformant == ConformantButForKind /\ OnExpectedKind

Evaluated == pass = "runtime"
GateUnmet == input.contract.readiness = "unmet"
             \/ (input.contract.readiness = "expiring" /\ input.expired)

ImageByDigest == input.contract.image # Nil
                 /\ Head(input.cluster.workload.images).digest # Nil

\* ----- properties -------------------------------------------------------

\* Compliant is never a false statement, but for one rule: the status says
\* Compliant only of a cluster that conforms to the contract, from the
\* Service's ports to the first container's image (Observe, Validate,
\* probeEndpoints and computeFinalContractStatus taken together).  The rule
\* is the Deployment that runtime_checks.go:63 and :65 expect of stateless and
\* hybrid ephemeral contracts.  checkStateModel does not look at the kind for
\* them, so such a contract is Compliant on a StatefulSet as well; everything
\* else conforms then too.
CompliantIsConformant ==
    Evaluated /\ status.contractStatus = "Compliant" =>
        Conformant \/ (ConformantButForKind /\ ~OnExpectedKind)

\* No false alarm: a conforming cluster is reported Compliant, whatever the
\* kind of a workload without persistent data.  Unmet readiness
\* gates are excluded here (see ReadinessSeparate), and so are declared images
\* of workloads that run theirs by digest: imageMatches compares tag and digest
\* literally, and its repositoryPart keeps the tag of an image with a digest.
ConformantIsCompliant ==
    Evaluated /\ ConformantButForKind /\ ~GateUnmet /\ ~ImageByDigest
        => status.contractStatus = "Compliant"

\* The structural checks that failed.
Failures ==
    FailedOf(Validate(input.contract, Observe(input.target, input.cluster), input.target.service))

\* The severity of the failures decides, as far as README.md:110 and
\* validator.go:188 agree: a missing Service or workload makes the status
\* NonCompliant, warnings alone make it Warning, and NonCompliant is never the
\* work of warnings, endpoint probes or readiness alone.  What they disagree
\* about is left open: an error-severity failure of objects that exist gives
\* Warning in the code, and NonCompliant in README.md.
StatusFollowsSeverity ==
    LET errors == {k \in Failures : k.severity = "error"}
    IN  Evaluated =>
            /\ ~ResourcesExist => status.contractStatus = "NonCompliant"
            /\ Failures # {} /\ errors = {} => status.contractStatus = "Warning"
            /\ errors = {} => status.contractStatus # "NonCompliant"

\* The precomputed summary of applyValidationResult and applyCheck agrees with
\* the conditions: it counts every condition but the readiness one, once.
SummaryMatchesConditions ==
    LET counted(v) == Cardinality({t \in ConditionTypes \ {"ReadinessSatisfied"} :
                                     status.conditions[t] = v})
    IN  Evaluated => status.summary = Summary(counted("True") + counted("False"),
                                              counted("True"), counted("False"))

\* The gauges tell what the status tells: one status gauge is on, the number of
\* failures of both severities is the summary's, the compliance gauge is on
\* exactly when nothing failed, and each check's gauge is its condition.  A
\* pass that loaded no contract knows no service: it leaves the validation
\* gauges as they were, and only the status gauge is held to the status.
GaugesMatchStatus ==
    pass # Nil =>
        /\ \A s \in ContractStatuses : gauges.status[s] = bit(s = status.contractStatus)
        /\ status.readiness # Nil => gauges.gate = bit(status.readiness = "met")
        /\ pass # "unloadable" =>
             /\ gauges.errors + gauges.warnings = status.summary.failed
             /\ gauges.compliance = bit(status.summary.failed = 0)
             /\ \A t \in ConditionTypes \ {"ReadinessSatisfied"} :
                  status.conditions[t] # "absent" =>
                      gauges.results[t] = bit(status.conditions[t] = "True")

\* ----- what the documentation says and the code does not do ---------------

\* README: readiness never changes ContractStatus.  The same reconciliation
\* without a readiness section gives the same contract status.
ReadinessSeparate ==
    Evaluated => status.contractStatus =
        LET c == [input.contract EXCEPT !.readiness = Nil]
        IN  runtimeStatus(populateContractStatus(EmptyStatus, c), c,
                          Observe(input.target, input.cluster), input.target.service,
                          input.cluster.http).contractStatus
=============================================================================
