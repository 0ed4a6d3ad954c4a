----------------------------- MODULE Compliance -----------------------------
(***************************************************************************)
(* How internal/controller turns a contract, a snapshot, the endpoint      *)
(* probes and the readiness gate into the status of a Pacto.  Every        *)
(* operator takes a status and returns the status the Go method leaves     *)
(* behind.                                                                 *)
(*                                                                         *)
(* An endpoint section of a contract is Nil (not declared), "missing" (the *)
(* interface it names is not in the contract), "noPort" or "port".  A      *)
(* probe result is a record reachable, code, body; cluster.http gives one  *)
(* for "health" and one for "metrics".                                     *)
(* A declared readiness is "met", "unmet" or "expiring" (met until its     *)
(* expiry date passes), or Nil.                                            *)
(***************************************************************************)
EXTENDS Validator, FiniteSets

RuntimeTypes ==
    {"ServiceExists", "WorkloadExists", "PortsValid", "WorkloadTypeMatch",
     "StateModelMatch", "UpgradeStrategyMatch", "GracefulShutdownMatch",
     "ImageMatch", "HealthTimingMatch"}
ProbeTypes == {"HealthEndpointValid", "MetricsEndpointValid"}
ConditionTypes == RuntimeTypes \cup ProbeTypes
                  \cup {"ContractValid", "RuntimeObserved", "ReadinessSatisfied"}

ContractStatuses == {"Compliant", "Warning", "NonCompliant", "Reference", "Unknown"}

NoConditions == [t \in ConditionTypes |-> "absent"]
Summary(total, passed, failed) == [total |-> total, passed |-> passed, failed |-> failed]

\* The derived part of PactoStatus.  contract stands for everything
\* populateContractStatus copies out of the effective contract: it is that
\* contract.  observed stands for status.observedRuntime being set, endpoints
\* for the entries of status.endpoints.
EmptyStatus ==
    [contractStatus |-> Nil, resolutionPolicy |-> Nil, summary |-> Nil,
     contract |-> Nil, readiness |-> Nil, validation |-> Nil,
     observed |-> FALSE, endpoints |-> {}, conditions |-> NoConditions]

\* ----- conditions -------------------------------------------------------

setCondition(s, t, v) == [s EXCEPT !.conditions[t] = v]

verdict(check) == IF check.passed THEN "True" ELSE "False"

\* One condition per check; the checks of a pass have distinct names.
setConditions(conds, checks) ==
    [t \in ConditionTypes |->
        IF \E k \in checks : k.name = t
        THEN verdict(CHOOSE k \in checks : k.name = t)
        ELSE conds[t]]

FailedOf(checks) == {k \in checks : ~k.passed}
PassedOf(checks) == {k \in checks : k.passed}

\* ----- the contract-level outcomes --------------------------------------

\* failReconciliation up to the status write.
failStatus(s) ==
    [setCondition(s, "ContractValid", "False") EXCEPT
        !.contractStatus = "NonCompliant", !.summary = Summary(1, 0, 1),
        !.validation = "invalid"]

\* Steps 5 and 6 of Reconcile for a contract without validation errors.
populateContractStatus(s, c) ==
    [setCondition(s, "ContractValid", "True") EXCEPT
        !.validation = "valid", !.contract = c]

\* readiness.Evaluate at the given time: whether the gate is met.
gateMet(c, expired) == c.readiness = "met" \/ (c.readiness = "expiring" /\ ~expired)

\* reconcileReadiness without its event.
reconcileReadiness(s, c, expired) ==
    IF c.readiness = Nil THEN s
    ELSE [setCondition(s, "ReadinessSatisfied",
                       IF gateMet(c, expired) THEN "True" ELSE "False")
          EXCEPT !.readiness = IF gateMet(c, expired) THEN "met" ELSE "unmet"]

\* Step 8: no target, no runtime validation.
referenceStatus(s) ==
    [s EXCEPT !.contractStatus = "Reference", !.summary = Summary(1, 1, 0)]

\* Step 10 when the observer fails.
unobservedStatus(s) ==
    [setCondition(s, "RuntimeObserved", "False") EXCEPT
        !.contractStatus = "Unknown", !.summary = Summary(1, 0, 1)]

\* ----- runtime validation -----------------------------------------------

\* applyValidationResult with step 11; the 1 is ContractValid.
applyValidationResult(s, checks, snap) ==
    [s EXCEPT !.conditions = setConditions(@, checks),
              !.observed   = snap.workloadExists,
              !.summary    = Summary(Cardinality(checks) + 1,
                                     Cardinality(PassedOf(checks)) + 1,
                                     Cardinality(FailedOf(checks)))]

\* evaluateProbeResult: a health endpoint may redirect, a metrics endpoint
\* must answer 200 with a body.
evaluateProbeResult(t, r) ==
    Check(t, /\ r.reachable
             /\ IF t = "MetricsEndpointValid" THEN r.code = 200 /\ r.body
                                              ELSE r.code >= 200 /\ r.code < 400,
          "error")

\* probeOneEndpoint: an interface without a port is a failure, not a skip.
probeOneEndpoint(t, section, r) ==
    IF section = "port" THEN evaluateProbeResult(t, r) ELSE Check(t, FALSE, "error")

\* The checks of probeEndpoints.
probeChecks(c, http) ==
    IF c.runtime = Nil THEN {}
    ELSE (IF c.runtime.health = Nil THEN {}
          ELSE {probeOneEndpoint("HealthEndpointValid", c.runtime.health, http["health"])})
         \cup
         (IF c.runtime.metrics = Nil THEN {}
          ELSE {probeOneEndpoint("MetricsEndpointValid", c.runtime.metrics, http["metrics"])})

\* The summary is not told of the endpoint checks.
probeEndpointsUncounted(s, c, http) ==
    [s EXCEPT !.conditions = setConditions(@, probeChecks(c, http))]

\* probeEndpoints with its applyCheck calls, which add to the summary.
probeEndpoints(s, c, http) ==
    LET checks == probeChecks(c, http)
    IN  [s EXCEPT
          !.conditions = setConditions(@, checks),
          !.endpoints  = {e \in {"health", "metrics"} :
                             c.runtime # Nil /\ c.runtime[e] = "port"},
          !.summary    = Summary(@.total + Cardinality(checks),
                                 @.passed + Cardinality(PassedOf(checks)),
                                 @.failed + Cardinality(FailedOf(checks)))]

\* Only the Service is looked at when deciding that a resource is missing.
finalStatusIgnoringWorkload(conds) ==
    IF conds["ServiceExists"] = "False" THEN "NonCompliant"
    ELSE IF \E t \in ConditionTypes : conds[t] = "False" THEN "Warning" ELSE "Compliant"

\* computeFinalContractStatus over every condition of the status, the
\* readiness condition included.
computeFinalContractStatus(conds) ==
    LET failed == {t \in ConditionTypes : conds[t] = "False"}
    IN  IF failed \cap {"ServiceExists", "WorkloadExists"} # {} THEN "NonCompliant"
        ELSE IF failed # {} THEN "Warning" ELSE "Compliant"

finalStatus(s) == [s EXCEPT !.contractStatus = computeFinalContractStatus(s.conditions)]

\* Steps 12 to 15 on a snapshot.
runtimeStatus(s, c, snap, hasService, http) ==
    LET applied == applyValidationResult(s, Validate(c, snap, hasService), snap)
    IN  finalStatus(IF snap.serviceExists THEN probeEndpoints(applied, c, http)
                                          ELSE applied)
=============================================================================
