-------------------------- MODULE ComplianceProofs --------------------------
(***************************************************************************)
(* What the checks of a pass are, for any contract and any snapshot: facts *)
(* about the operators of Validator and Compliance that the proofs about   *)
(* PactoController and Evaluation share.                                   *)
(***************************************************************************)
EXTENDS Compliance, FiniteSetTheorems, TLAPS

\* Validate returns finitely many checks, and none on the Service of a target
\* without one.
LEMMA ValidateLemma ==
    ASSUME NEW c, NEW snap, NEW hasService
    PROVE  /\ IsFiniteSet(Validate(c, snap, hasService))
           /\ ~hasService => \A k \in Validate(c, snap, hasService) : k.name # "ServiceExists"
<1>1. ASSUME NEW b, NEW k PROVE IsFiniteSet(IF b THEN {k} ELSE {})
  BY FS_Singleton, FS_EmptySet
<1>2. ASSUME NEW j, NEW k PROVE IsFiniteSet({j, k})
  <2>1. {j, k} = {j} \cup {k}
    OBVIOUS
  <2>2. IsFiniteSet({j} \cup {k})
    BY FS_Singleton, FS_Union
  <2> QED BY <2>1, <2>2, Zenon
<1>3. IsFiniteSet(Validate(c, snap, hasService))
  BY <1>1, <1>2, FS_Union, FS_Singleton, FS_EmptySet DEF Validate
<1>4. ~hasService => \A k \in Validate(c, snap, hasService) : k.name # "ServiceExists"
  BY DEF Validate, Check, checkWorkloadExists, checkPorts, checkWorkloadType, checkStateModel,
         checkUpgradeStrategy, checkGracefulShutdown, checkImage, checkHealthTiming
<1> QED BY <1>3, <1>4

\* So does probeEndpoints.
LEMMA ProbeChecksLemma ==
    ASSUME NEW c, NEW http
    PROVE  /\ IsFiniteSet(probeChecks(c, http))
           /\ \A k \in probeChecks(c, http) : k.name # "ServiceExists"
<1>1. ASSUME NEW b, NEW k PROVE IsFiniteSet(IF b THEN {} ELSE {k})
  BY FS_Singleton, FS_EmptySet
<1>2. IsFiniteSet(probeChecks(c, http))
  BY <1>1, FS_Union, FS_EmptySet DEF probeChecks
<1>3. \A k \in probeChecks(c, http) : k.name # "ServiceExists"
  BY DEF probeChecks, probeOneEndpoint, evaluateProbeResult, Check
<1> QED BY <1>2, <1>3

\* The counts of a summary are numbers.
LEMMA CountsLemma ==
    ASSUME NEW checks, IsFiniteSet(checks)
    PROVE  /\ Cardinality(checks) \in Nat
           /\ Cardinality(PassedOf(checks)) \in Nat
           /\ Cardinality(FailedOf(checks)) \in Nat
<1>1. PassedOf(checks) \subseteq checks /\ FailedOf(checks) \subseteq checks
  BY DEF PassedOf, FailedOf
<1> QED BY <1>1, FS_Subset, FS_CardinalityType

\* setConditions gives conditions to the checks' names only.
LEMMA SetConditionsLemma ==
    ASSUME NEW conds \in [ConditionTypes -> {"absent", "True", "False"}], NEW checks
    PROVE  /\ setConditions(conds, checks) \in [ConditionTypes -> {"absent", "True", "False"}]
           /\ (\A k \in checks : k.name # "ServiceExists") =>
                setConditions(conds, checks)["ServiceExists"] = conds["ServiceExists"]
<1>1. "ServiceExists" \in ConditionTypes
  BY DEF ConditionTypes, RuntimeTypes
<1> QED BY <1>1 DEF setConditions, verdict

\* No check of the runtime stage is named like the readiness condition.
LEMMA ChecksLeaveReadiness ==
    ASSUME NEW c, NEW snap, NEW hasService, NEW http
    PROVE  /\ \A k \in Validate(c, snap, hasService) : k.name # "ReadinessSatisfied"
           /\ \A k \in probeChecks(c, http) : k.name # "ReadinessSatisfied"
<1>1. \A k \in Validate(c, snap, hasService) : k.name # "ReadinessSatisfied"
  BY DEF Validate, Check, checkServiceExists, checkWorkloadExists, checkPorts, checkWorkloadType,
         checkStateModel, checkUpgradeStrategy, checkGracefulShutdown, checkImage, checkHealthTiming
<1>2. \A k \in probeChecks(c, http) : k.name # "ReadinessSatisfied"
  BY DEF probeChecks, probeOneEndpoint, evaluateProbeResult, Check
<1> QED BY <1>1, <1>2

\* ----- names and verdicts -----------------------------------------------

\* Each check has its name, and passed is a truth value.
IsCheck(k, n) == k.name = n /\ k.passed \in BOOLEAN

\* Checks of a set are told apart by their names.
Distinct(checks) == \A j, k \in checks : j.name = k.name => j = k

\* Each check operator returns a record under its own condition type.
LEMMA CheckNames ==
    ASSUME NEW c, NEW snap, snap.serviceExists \in BOOLEAN, snap.workloadExists \in BOOLEAN
    PROVE  /\ IsCheck(checkServiceExists(snap), "ServiceExists")
           /\ IsCheck(checkWorkloadExists(snap), "WorkloadExists")
           /\ IsCheck(checkPorts(c, snap), "PortsValid")
           /\ IsCheck(checkWorkloadType(c, snap), "WorkloadTypeMatch")
           /\ IsCheck(checkStateModel(c, snap), "StateModelMatch")
           /\ IsCheck(checkUpgradeStrategy(c, snap), "UpgradeStrategyMatch")
           /\ IsCheck(checkGracefulShutdown(c, snap), "GracefulShutdownMatch")
           /\ IsCheck(checkImage(c, snap), "ImageMatch")
           /\ IsCheck(checkHealthTiming(c, snap), "HealthTimingMatch")
<1>1. ASSUME NEW n, NEW b \in BOOLEAN, NEW v PROVE IsCheck(Check(n, b, v), n)
  BY DEF IsCheck, Check
<1>2. /\ IsCheck(checkServiceExists(snap), "ServiceExists")
      /\ IsCheck(checkWorkloadExists(snap), "WorkloadExists")
  BY <1>1 DEF checkServiceExists, checkWorkloadExists
<1>3. IsCheck(checkPorts(c, snap), "PortsValid")
  BY <1>1 DEF checkPorts
<1>4. IsCheck(checkWorkloadType(c, snap), "WorkloadTypeMatch")
  <2> DEFINE wanted == CASE c.runtime.workload = "service"   -> {"Deployment", "StatefulSet"}
                         [] c.runtime.workload = "job"       -> {"Job"}
                         [] c.runtime.workload = "scheduled" -> {"CronJob"}
                         [] OTHER                            -> {}
             b == snap.workloadKind \in wanted
  <2>1. checkWorkloadType(c, snap) = Check("WorkloadTypeMatch", b, "error")
    BY DEF checkWorkloadType
  <2>2. b \in BOOLEAN
    OBVIOUS
  <2> HIDE DEF b
  <2> QED BY <1>1, <2>1, <2>2
<1>5. IsCheck(checkStateModel(c, snap), "StateModelMatch")
  BY <1>1 DEF checkStateModel
<1>6. IsCheck(checkUpgradeStrategy(c, snap), "UpgradeStrategyMatch")
  BY <1>1 DEF checkUpgradeStrategy
<1>7. IsCheck(checkGracefulShutdown(c, snap), "GracefulShutdownMatch")
  BY <1>1 DEF checkGracefulShutdown
<1>8. IsCheck(checkImage(c, snap), "ImageMatch")
  BY <1>1 DEF checkImage
<1>9. IsCheck(checkHealthTiming(c, snap), "HealthTimingMatch")
  BY <1>1 DEF checkHealthTiming
<1> QED BY <1>2, <1>3, <1>4, <1>5, <1>6, <1>7, <1>8, <1>9

\* The checks of Validate have names of their own.
LEMMA ValidateNames ==
    ASSUME NEW c, NEW snap, snap.serviceExists \in BOOLEAN, snap.workloadExists \in BOOLEAN,
           NEW hasService
    PROVE  LET checks == Validate(c, snap, hasService)
           IN  /\ Distinct(checks)
               /\ \A k \in checks : k.name \in RuntimeTypes /\ k.passed \in BOOLEAN
<1> DEFINE checks == Validate(c, snap, hasService)
<1>1. \A k \in checks :
        \/ k = checkServiceExists(snap) \/ k = checkWorkloadExists(snap)
        \/ k = checkPorts(c, snap) \/ k = checkWorkloadType(c, snap)
        \/ k = checkStateModel(c, snap) \/ k = checkUpgradeStrategy(c, snap)
        \/ k = checkGracefulShutdown(c, snap) \/ k = checkImage(c, snap)
        \/ k = checkHealthTiming(c, snap)
  BY DEF Validate
<1> HIDE DEF checks
<1>2. Distinct(checks)
  BY <1>1, CheckNames DEF Distinct, IsCheck
<1>3. \A k \in checks : k.name \in RuntimeTypes /\ k.passed \in BOOLEAN
  BY <1>1, CheckNames DEF RuntimeTypes, IsCheck
<1> QED BY <1>2, <1>3 DEF checks

\* And so have those of probeEndpoints.
LEMMA ProbeNames ==
    ASSUME NEW c, NEW http
    PROVE  /\ Distinct(probeChecks(c, http))
           /\ \A k \in probeChecks(c, http) : k.name \in ProbeTypes /\ k.passed \in BOOLEAN
<1> DEFINE h == probeOneEndpoint("HealthEndpointValid", c.runtime.health, http["health"])
           m == probeOneEndpoint("MetricsEndpointValid", c.runtime.metrics, http["metrics"])
<1>1. ASSUME NEW n, NEW section, NEW r PROVE IsCheck(probeOneEndpoint(n, section, r), n)
  <2>1. ASSUME NEW b \in BOOLEAN, NEW v PROVE IsCheck(Check(n, b, v), n)
    BY DEF IsCheck, Check
  <2> QED BY <2>1 DEF probeOneEndpoint, evaluateProbeResult
<1>2. IsCheck(h, "HealthEndpointValid") /\ IsCheck(m, "MetricsEndpointValid")
  BY <1>1
<1>3. \A k \in probeChecks(c, http) : k = h \/ k = m
  BY DEF probeChecks
<1> HIDE DEF h, m
<1> QED BY <1>2, <1>3 DEF Distinct, IsCheck, ProbeTypes

\* A condition is the verdict of the check of its name.
LEMMA VerdictLemma ==
    ASSUME NEW conds, NEW checks, Distinct(checks)
    PROVE  /\ \A k \in checks : k.name \in ConditionTypes =>
                setConditions(conds, checks)[k.name] = verdict(k)
           /\ \A t \in ConditionTypes : (\A k \in checks : k.name # t) =>
                setConditions(conds, checks)[t] = conds[t]
<1>1. ASSUME NEW k \in checks, k.name \in ConditionTypes
      PROVE  setConditions(conds, checks)[k.name] = verdict(k)
  <2> DEFINE j == CHOOSE x \in checks : x.name = k.name
  <2>1. j \in checks /\ j.name = k.name
    OBVIOUS
  <2>2. j = k
    BY <2>1 DEF Distinct
  <2> QED BY <1>1, <2>2 DEF setConditions
<1>2. ASSUME NEW t \in ConditionTypes, \A k \in checks : k.name # t
      PROVE  setConditions(conds, checks)[t] = conds[t]
  BY <1>2 DEF setConditions
<1> QED BY <1>1, <1>2

\* Checks with distinct names are as many as their names.
LEMMA NamesCount ==
    ASSUME NEW checks, IsFiniteSet(checks), Distinct(checks)
    PROVE  Cardinality({k.name : k \in checks}) = Cardinality(checks)
<1> DEFINE names == {k.name : k \in checks}
           f == [k \in checks |-> k.name]
<1>1. f \in [checks -> names]
  OBVIOUS
<1>2. f \in Bijection(checks, names)
  BY <1>1 DEF Distinct, Bijection, Injection, Surjection, IsInjective
<1>3. ExistsBijection(checks, names)
  BY <1>2 DEF ExistsBijection
<1> QED BY <1>3, FS_Bijection
=============================================================================
