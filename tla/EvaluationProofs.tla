-------------------------- MODULE EvaluationProofs --------------------------
(***************************************************************************)
(* Theorems about Evaluation, for every contract, target, cluster and      *)
(* probe answer: the verdict, the summary and the gauges are right.        *)
(***************************************************************************)
EXTENDS Evaluation, ComplianceProofs

\* ----- abbreviations ----------------------------------------------------

Snap == Observe(input.target, input.cluster)
Runs == Validate(input.contract, Snap, input.target.service)
Probes == IF Snap.serviceExists THEN probeChecks(input.contract, input.cluster.http) ELSE {}
AllChecks == runtimeChecks(input.contract, Snap, input.target.service, input.cluster.http)
Outcome == runtimeStatus(Prepared(input.contract), input.contract, Snap,
                         input.target.service, input.cluster.http)

\* The status of the pass that reached the runtime stage.
EvaluatedInv ==
    /\ input \in Inputs
    /\ pass \in {Nil, "runtime", "unobserved", "invalid", "unloadable"}
    /\ pass = "runtime" => status = Outcome

\* Until another pass, the status is the outcome of the one that got to the runtime stage.
LEMMA EvaluatedInvariant == Spec => []EvaluatedInv
<1>1. Init => EvaluatedInv
  BY NilAssumption DEF Init, EvaluatedInv
<1>2. EvaluatedInv /\ [Next]_vars => EvaluatedInv'
  <2> SUFFICES ASSUME EvaluatedInv, [Next]_vars PROVE EvaluatedInv'
    OBVIOUS
  <2>1. CASE Evaluate
    <3>1. input' = input /\ pass' = "runtime" /\ status' = Outcome
      BY <2>1 DEF Evaluate, Outcome, Snap
    <3> QED BY <3>1 DEF EvaluatedInv, Outcome, Snap, Prepared
  <2>2. CASE ObservationFails \/ ContractFails
    BY <2>2 DEF ObservationFails, ContractFails, EvaluatedInv
  <2>3. CASE UNCHANGED vars
    BY <2>3 DEF vars, EvaluatedInv, Outcome, Snap, Prepared
  <2> QED BY <2>1, <2>2, <2>3 DEF Next
<1> QED BY <1>1, <1>2, PTL DEF Spec

\* ----- the status of a pass, field by field -------------------------------

IsStatus(s) ==
    s = [contractStatus |-> s.contractStatus, resolutionPolicy |-> s.resolutionPolicy,
         summary |-> s.summary, contract |-> s.contract, readiness |-> s.readiness,
         validation |-> s.validation, observed |-> s.observed, endpoints |-> s.endpoints,
         conditions |-> s.conditions]

\* After steps 5 to 6b the contract is valid and at most readiness is known
\* besides.
LEMMA PreparedLemma ==
    ASSUME NEW c
    PROVE  LET p == Prepared(c)
           IN  /\ IsStatus(p)
               /\ p.conditions \in [ConditionTypes -> {"absent", "True", "False"}]
               /\ p.conditions["ContractValid"] = "True"
               /\ \A t \in ConditionTypes \ {"ContractValid", "ReadinessSatisfied"} :
                    p.conditions[t] = "absent"
               /\ p.conditions["ReadinessSatisfied"] =
                    IF c.readiness = Nil THEN "absent"
                    ELSE IF gateMet(c, input.expired) THEN "True" ELSE "False"
               /\ p.readiness = IF c.readiness = Nil THEN Nil
                                ELSE IF gateMet(c, input.expired) THEN "met" ELSE "unmet"
<1> DEFINE b == gateMet(c, input.expired)
           v == populateContractStatus(EmptyStatus, c)
           w == IF b THEN "True" ELSE "False"
           g == IF b THEN "met" ELSE "unmet"
           p == Prepared(c)
<1>1. /\ IsStatus(v) /\ v.readiness = Nil
      /\ v.conditions = [NoConditions EXCEPT !["ContractValid"] = "True"]
  <2>1. IsStatus(EmptyStatus) /\ EmptyStatus.readiness = Nil /\ EmptyStatus.conditions = NoConditions
    BY DEF EmptyStatus, IsStatus
  <2>2. v = [EmptyStatus EXCEPT !.conditions = [EmptyStatus.conditions EXCEPT !["ContractValid"] = "True"],
                                !.validation = "valid", !.contract = c]
    BY <2>1 DEF populateContractStatus, setCondition, IsStatus
  <2> QED BY <2>1, <2>2 DEF IsStatus
<1>2. p = IF c.readiness = Nil THEN v
          ELSE [[v EXCEPT !.conditions["ReadinessSatisfied"] = w] EXCEPT !.readiness = g]
  BY DEF Prepared, reconcileReadiness, setCondition
<1>3. w \in {"True", "False"}
  OBVIOUS
<1>4. "ContractValid" \in ConditionTypes /\ "ReadinessSatisfied" \in ConditionTypes
  BY DEF ConditionTypes
<1> HIDE DEF v, w, g, p
<1>5. v.conditions \in [ConditionTypes -> {"absent", "True", "False"}]
  BY <1>1 DEF NoConditions
<1>6. CASE c.readiness = Nil
  BY <1>1, <1>2, <1>4, <1>5, <1>6 DEF NoConditions, p
<1>7. CASE c.readiness # Nil
  <2>1. /\ IsStatus(p) /\ p.readiness = g
        /\ p.conditions = [v.conditions EXCEPT !["ReadinessSatisfied"] = w]
    BY <1>1, <1>2, <1>7 DEF IsStatus
  <2>2. /\ p.conditions \in [ConditionTypes -> {"absent", "True", "False"}]
        /\ p.conditions["ReadinessSatisfied"] = w
        /\ p.conditions["ContractValid"] = "True"
        /\ \A t \in ConditionTypes \ {"ContractValid", "ReadinessSatisfied"} :
             p.conditions[t] = "absent"
    BY <1>1, <1>3, <1>4, <1>5, <2>1 DEF NoConditions
  <2> QED BY <1>7, <2>1, <2>2 DEF p, w, g
<1> QED BY <1>6, <1>7

\* Observe answers yes or no.
LEMMA SnapLemma ==
    ASSUME EvaluatedInv
    PROVE  /\ input.target.service \in BOOLEAN
           /\ Snap.serviceExists \in BOOLEAN /\ Snap.workloadExists \in BOOLEAN
           /\ Snap.serviceExists <=> input.target.service /\ input.cluster.service # Nil
           /\ Snap.workloadExists <=> /\ input.cluster.workload # Nil
                                      /\ input.cluster.workload.kind = ResolvedWorkload(input.target)
<1>1. input.target.service \in BOOLEAN
  BY InputsAssumption DEF EvaluatedInv, InputOK
<1> DEFINE svc == input.target.service /\ input.cluster.service # Nil
           found == input.cluster.workload # Nil
                    /\ input.cluster.workload.kind = ResolvedWorkload(input.target)
<1>2. Snap.serviceExists = svc /\ Snap.workloadExists = found
  BY DEF Snap, Observe
<1>3. svc \in BOOLEAN /\ found \in BOOLEAN
  BY <1>1
<1> QED BY <1>1, <1>2, <1>3

\* The checks of steps 12 and 14 are finitely many, with names of their own.
LEMMA ChecksLemma ==
    ASSUME EvaluatedInv
    PROVE  /\ IsFiniteSet(Runs) /\ IsFiniteSet(Probes) /\ Distinct(Runs) /\ Distinct(Probes)
           /\ \A k \in Runs : k.name \in RuntimeTypes /\ k.passed \in BOOLEAN
           /\ \A k \in Probes : k.name \in ProbeTypes /\ k.passed \in BOOLEAN
           /\ AllChecks = {ContractValid(TRUE)} \cup Runs \cup Probes
<1>1. /\ IsFiniteSet(Runs) /\ Distinct(Runs)
      /\ \A k \in Runs : k.name \in RuntimeTypes /\ k.passed \in BOOLEAN
  BY SnapLemma, ValidateLemma, ValidateNames DEF Runs
<1>2. /\ IsFiniteSet(Probes) /\ Distinct(Probes)
      /\ \A k \in Probes : k.name \in ProbeTypes /\ k.passed \in BOOLEAN
  <2>1. CASE Snap.serviceExists
    BY <2>1, ProbeChecksLemma, ProbeNames DEF Probes
  <2>2. CASE ~Snap.serviceExists
    BY <2>2, FS_EmptySet DEF Probes, Distinct
  <2> QED BY <2>1, <2>2
<1>3. AllChecks = {ContractValid(TRUE)} \cup Runs \cup Probes
  BY DEF AllChecks, runtimeChecks, Runs, Probes
<1> QED BY <1>1, <1>2, <1>3

\* Steps 12 to 15: every check leaves its verdict in its condition and counts
\* once, and no other condition changes.
LEMMA OutcomeLemma ==
    ASSUME EvaluatedInv
    PROVE  LET p == Prepared(input.contract)
               V == Runs
               P == Probes
               o == Outcome
           IN  /\ o.contractStatus = computeFinalContractStatus(o.conditions)
               /\ o.readiness = p.readiness
               /\ o.summary =
                    Summary(Cardinality(V) + 1 + Cardinality(P),
                            Cardinality(PassedOf(V)) + 1 + Cardinality(PassedOf(P)),
                            Cardinality(FailedOf(V)) + Cardinality(FailedOf(P)))
               /\ \A k \in V \cup P : o.conditions[k.name] = verdict(k)
               /\ \A t \in ConditionTypes :
                    (\A k \in V \cup P : k.name # t) => o.conditions[t] = p.conditions[t]
<1> DEFINE p == Prepared(input.contract)
           a == applyValidationResult(p, Runs, Snap)
           http == input.cluster.http
           E == {e \in {"health", "metrics"} :
                   input.contract.runtime # Nil /\ input.contract.runtime[e] = "port"}
           q == probeEndpoints(a, input.contract, http)
           f == IF Snap.serviceExists THEN q ELSE a
           V == Runs
           P == Probes
<1>1. IsStatus(p)
  BY PreparedLemma
<1>2. /\ Cardinality(V) \in Nat /\ Cardinality(PassedOf(V)) \in Nat
      /\ Cardinality(FailedOf(V)) \in Nat
      /\ Cardinality(P) \in Nat /\ Cardinality(PassedOf(P)) \in Nat
      /\ Cardinality(FailedOf(P)) \in Nat
  BY ChecksLemma, CountsLemma
<1> HIDE DEF p
<1>3. /\ IsStatus(a) /\ a.readiness = p.readiness
      /\ a.conditions = setConditions(p.conditions, V)
      /\ a.summary = Summary(Cardinality(V) + 1, Cardinality(PassedOf(V)) + 1,
                             Cardinality(FailedOf(V)))
  <2> DEFINE x == setConditions(p.conditions, V)
             n == Summary(Cardinality(V) + 1, Cardinality(PassedOf(V)) + 1,
                          Cardinality(FailedOf(V)))
             b == Snap.workloadExists
  <2>1. a = [p EXCEPT !.conditions = x, !.observed = b, !.summary = n]
    BY DEF applyValidationResult
  <2> HIDE DEF x, n, b, a
  <2>2. /\ IsStatus(a) /\ a.readiness = p.readiness /\ a.conditions = x /\ a.summary = n
    BY <1>1, <2>1 DEF IsStatus
  <2> QED BY <2>2 DEF x, n
<1> HIDE DEF a
<1>4. /\ IsStatus(f) /\ f.readiness = p.readiness
      /\ f.summary = Summary(Cardinality(V) + 1 + Cardinality(P),
                             Cardinality(PassedOf(V)) + 1 + Cardinality(PassedOf(P)),
                             Cardinality(FailedOf(V)) + Cardinality(FailedOf(P)))
      /\ f.conditions = IF Snap.serviceExists THEN setConditions(a.conditions, P)
                        ELSE a.conditions
  <2>1. CASE Snap.serviceExists
    <3> DEFINE x == setConditions(a.conditions, P)
               n == Summary(a.summary.total + Cardinality(P),
                            a.summary.passed + Cardinality(PassedOf(P)),
                            a.summary.failed + Cardinality(FailedOf(P)))
    <3>1. P = probeChecks(input.contract, http)
      BY <2>1 DEF Probes
    <3>2. q = [a EXCEPT !.conditions = x, !.endpoints = E, !.summary = n]
      BY <3>1 DEF probeEndpoints
    <3>3. n = Summary(Cardinality(V) + 1 + Cardinality(P),
                      Cardinality(PassedOf(V)) + 1 + Cardinality(PassedOf(P)),
                      Cardinality(FailedOf(V)) + Cardinality(FailedOf(P)))
      BY <1>3 DEF Summary
    <3> HIDE DEF x, n, E, q
    <3>4. IsStatus(q) /\ q.readiness = a.readiness /\ q.conditions = x /\ q.summary = n
      BY <1>3, <3>2 DEF IsStatus
    <3> QED BY <1>3, <2>1, <3>3, <3>4 DEF x
  <2>2. CASE ~Snap.serviceExists
    <3>1. P = {} /\ f = a
      BY <2>2 DEF Probes
    <3>2. Cardinality(P) = 0 /\ Cardinality(PassedOf(P)) = 0 /\ Cardinality(FailedOf(P)) = 0
      <4>1. PassedOf({}) = {} /\ FailedOf({}) = {}
        BY DEF PassedOf, FailedOf
      <4> QED BY <3>1, <4>1, FS_EmptySet
    <3> HIDE DEF P, f
    <3> QED BY <1>2, <1>3, <2>2, <3>1, <3>2
  <2> QED BY <2>1, <2>2
<1>5. Outcome = finalStatus(f)
  BY DEF Outcome, runtimeStatus, Runs, p, a
<1> HIDE DEF f
<1>6. /\ Outcome.contractStatus = computeFinalContractStatus(f.conditions)
      /\ Outcome.readiness = f.readiness /\ Outcome.summary = f.summary
      /\ Outcome.conditions = f.conditions
  <2> DEFINE x == computeFinalContractStatus(f.conditions)
  <2> HIDE DEF x
  <2>1. Outcome = [f EXCEPT !.contractStatus = x]
    BY <1>5 DEF finalStatus, x
  <2>2. Outcome.contractStatus = x /\ Outcome.readiness = f.readiness
        /\ Outcome.summary = f.summary /\ Outcome.conditions = f.conditions
    BY <1>4, <2>1 DEF IsStatus
  <2> QED BY <2>2 DEF x
<1>7. /\ \A k \in V : k.name \in ConditionTypes /\ k.name \notin ProbeTypes
      /\ \A k \in P : k.name \in ConditionTypes /\ k.name \notin RuntimeTypes
  BY ChecksLemma DEF ConditionTypes, RuntimeTypes, ProbeTypes
<1>8. /\ \A k \in V : a.conditions[k.name] = verdict(k)
      /\ \A t \in ConditionTypes :
           (\A k \in V : k.name # t) => a.conditions[t] = p.conditions[t]
  BY <1>3, <1>7, ChecksLemma, VerdictLemma
<1>9. /\ \A k \in V : f.conditions[k.name] = verdict(k)
      /\ \A k \in P : f.conditions[k.name] = verdict(k)
      /\ \A t \in ConditionTypes :
           (\A k \in V \cup P : k.name # t) => f.conditions[t] = p.conditions[t]
  <2>1. CASE Snap.serviceExists
    <3> DEFINE x == setConditions(a.conditions, P)
    <3>1. /\ \A k \in P : x[k.name] = verdict(k)
          /\ \A t \in ConditionTypes : (\A k \in P : k.name # t) => x[t] = a.conditions[t]
      BY <1>7, ChecksLemma, VerdictLemma
    <3>2. \A j \in V : \A k \in P : k.name # j.name
      BY ChecksLemma, <1>7
    <3>3. f.conditions = x
      BY <1>4, <2>1
    <3> HIDE DEF x
    <3> QED BY <1>7, <1>8, <3>1, <3>2, <3>3
  <2>2. CASE ~Snap.serviceExists
    <3>1. P = {} /\ f.conditions = a.conditions
      BY <1>4, <2>2 DEF Probes
    <3> QED BY <1>8, <3>1
  <2> QED BY <2>1, <2>2
<1> QED BY <1>4, <1>6, <1>9 DEF p

\* The same in terms of all checks of the pass, the one on the contract
\* included.
LEMMA ConditionsLemma ==
    ASSUME EvaluatedInv
    PROVE  /\ \A k \in AllChecks : /\ k.name \in ConditionTypes \ {"ReadinessSatisfied"}
                                   /\ k.passed \in BOOLEAN
                                   /\ Outcome.conditions[k.name] = verdict(k)
           /\ \A t \in ConditionTypes \ {"ReadinessSatisfied"} :
                (\A k \in AllChecks : k.name # t) => Outcome.conditions[t] = "absent"
           /\ Outcome.conditions["ReadinessSatisfied"] =
                Prepared(input.contract).conditions["ReadinessSatisfied"]
           /\ Distinct(AllChecks) /\ IsFiniteSet(AllChecks)
<1>1. /\ ContractValid(TRUE).name = "ContractValid" /\ ContractValid(TRUE).passed = TRUE
      /\ verdict(ContractValid(TRUE)) = "True"
  BY DEF ContractValid, Check, verdict
<1>2. \A k \in Runs \cup Probes :
         /\ k.name \in ConditionTypes /\ k.name # "ReadinessSatisfied"
         /\ k.name # "ContractValid" /\ k.passed \in BOOLEAN
  BY ChecksLemma DEF ConditionTypes, RuntimeTypes, ProbeTypes
<1>3. "ContractValid" \in ConditionTypes /\ "ReadinessSatisfied" \in ConditionTypes
  BY DEF ConditionTypes
<1>4. Outcome.conditions["ContractValid"] = "True"
  BY <1>2, <1>3, OutcomeLemma, PreparedLemma
<1>5. \A k \in AllChecks : /\ k.name \in ConditionTypes \ {"ReadinessSatisfied"}
                           /\ k.passed \in BOOLEAN
                           /\ Outcome.conditions[k.name] = verdict(k)
  BY <1>1, <1>2, <1>3, <1>4, ChecksLemma, OutcomeLemma
<1>6. \A t \in ConditionTypes \ {"ReadinessSatisfied"} :
        (\A k \in AllChecks : k.name # t) => Outcome.conditions[t] = "absent"
  <2> SUFFICES ASSUME NEW t \in ConditionTypes \ {"ReadinessSatisfied"},
                      \A k \in AllChecks : k.name # t
               PROVE  Outcome.conditions[t] = "absent"
    OBVIOUS
  <2>1. t # "ContractValid" /\ \A k \in Runs \cup Probes : k.name # t
    BY <1>1, ChecksLemma
  <2> QED BY <2>1, OutcomeLemma, PreparedLemma
<1>7. Outcome.conditions["ReadinessSatisfied"] =
        Prepared(input.contract).conditions["ReadinessSatisfied"]
  BY <1>2, <1>3, OutcomeLemma
<1>8. Distinct(AllChecks)
  <2>1. \A j \in Runs : \A k \in Probes : j.name # k.name
    BY ChecksLemma DEF RuntimeTypes, ProbeTypes
  <2> QED BY <1>1, <1>2, <2>1, ChecksLemma DEF Distinct
<1>9. IsFiniteSet(AllChecks)
  <2>1. IsFiniteSet({ContractValid(TRUE)} \cup Runs)
    BY ChecksLemma, FS_Union, FS_Singleton
  <2>2. IsFiniteSet(({ContractValid(TRUE)} \cup Runs) \cup Probes)
    BY <2>1, ChecksLemma, FS_Union
  <2> QED BY <2>2, ChecksLemma
<1> QED BY <1>5, <1>6, <1>7, <1>8, <1>9

\* ----- missing resources ------------------------------------------------

\* ResourcesExist is what checkServiceExists and checkWorkloadExists find.
LEMMA ResourcesLemma ==
    ASSUME EvaluatedInv
    PROVE  ResourcesExist <=> /\ input.target.service => Snap.serviceExists
                              /\ Snap.workloadExists
BY SnapLemma DEF ResourcesExist, ResolvedWorkload

\* The two conditions that make a status NonCompliant.
LEMMA MissingLemma ==
    ASSUME EvaluatedInv
    PROVE  /\ Outcome.conditions["ServiceExists"] = "False"
                <=> input.target.service /\ ~Snap.serviceExists
           /\ Outcome.conditions["WorkloadExists"] = "False" <=> ~Snap.workloadExists
<1>1. /\ Snap.serviceExists \in BOOLEAN /\ Snap.workloadExists \in BOOLEAN
      /\ "ServiceExists" \in ConditionTypes
  BY SnapLemma DEF ConditionTypes, RuntimeTypes
<1>2. /\ checkServiceExists(Snap).name = "ServiceExists"
      /\ checkServiceExists(Snap).passed = Snap.serviceExists
      /\ checkWorkloadExists(Snap).name = "WorkloadExists"
      /\ checkWorkloadExists(Snap).passed = Snap.workloadExists
  BY DEF checkServiceExists, checkWorkloadExists, Check
<1>3. checkWorkloadExists(Snap) \in Runs
  BY DEF Runs, Validate
<1>4. Outcome.conditions["WorkloadExists"] = "False" <=> ~Snap.workloadExists
  BY <1>1, <1>2, <1>3, OutcomeLemma DEF verdict
<1>5. CASE input.target.service
  <2>1. checkServiceExists(Snap) \in Runs
    BY <1>5 DEF Runs, Validate
  <2>2. Outcome.conditions["ServiceExists"] = "False" <=> ~Snap.serviceExists
    BY <1>1, <1>2, <2>1, OutcomeLemma DEF verdict
  <2> QED BY <1>4, <1>5, <2>2
<1>6. CASE ~input.target.service
  <2>1. \A k \in Runs \cup Probes : k.name # "ServiceExists"
    BY <1>6, ValidateLemma, ChecksLemma DEF Runs, ProbeTypes
  <2>2. Outcome.conditions["ServiceExists"] = "absent"
    BY <1>1, <2>1, OutcomeLemma, PreparedLemma
  <2> QED BY <1>4, <1>6, <2>2
<1> QED BY <1>5, <1>6

\* The status is NonCompliant exactly when one of them failed.
LEMMA NonCompliantLemma ==
    ASSUME EvaluatedInv
    PROVE  Outcome.contractStatus = "NonCompliant" <=> ~ResourcesExist
<1>1. Outcome.contractStatus = computeFinalContractStatus(Outcome.conditions)
  BY OutcomeLemma
<1>2. "ServiceExists" \in ConditionTypes /\ "WorkloadExists" \in ConditionTypes
  BY DEF ConditionTypes, RuntimeTypes
<1>3. Outcome.contractStatus = "NonCompliant" <=>
        \/ Outcome.conditions["ServiceExists"] = "False"
        \/ Outcome.conditions["WorkloadExists"] = "False"
  BY <1>1, <1>2 DEF computeFinalContractStatus
<1> QED BY <1>3, MissingLemma, ResourcesLemma

\* ----- the summary ------------------------------------------------------

\* Two finite sets without a common element.
LEMMA DisjointCount ==
    ASSUME NEW S, NEW T, IsFiniteSet(S), IsFiniteSet(T), S \cap T = {}
    PROVE  Cardinality(S \cup T) = Cardinality(S) + Cardinality(T)
<1>1. Cardinality(S \cup T) = Cardinality(S) + Cardinality(T) - Cardinality(S \cap T)
  BY FS_Union
<1>2. Cardinality(S \cap T) = 0
  BY FS_EmptySet
<1>3. Cardinality(S) \in Nat /\ Cardinality(T) \in Nat
  BY FS_CardinalityType
<1> QED BY <1>1, <1>2, <1>3

\* The checks of a set either passed or failed.
LEMMA SplitCount ==
    ASSUME NEW S, IsFiniteSet(S), \A k \in S : k.passed \in BOOLEAN
    PROVE  /\ IsFiniteSet(PassedOf(S)) /\ IsFiniteSet(FailedOf(S))
           /\ Cardinality(S) = Cardinality(PassedOf(S)) + Cardinality(FailedOf(S))
<1>1. IsFiniteSet(PassedOf(S)) /\ IsFiniteSet(FailedOf(S))
  BY FS_Subset DEF PassedOf, FailedOf
<1>2. S = PassedOf(S) \cup FailedOf(S) /\ PassedOf(S) \cap FailedOf(S) = {}
  BY DEF PassedOf, FailedOf
<1>3. Cardinality(PassedOf(S) \cup FailedOf(S)) = Cardinality(PassedOf(S)) + Cardinality(FailedOf(S))
  BY <1>1, <1>2, DisjointCount
<1> QED BY <1>1, <1>2, <1>3

\* The numbers of passed and failed checks of a pass are those its summary
\* accumulates in applyValidationResult and applyCheck.
LEMMA SummaryLemma ==
    ASSUME EvaluatedInv
    PROVE  /\ IsFiniteSet(PassedOf(AllChecks)) /\ IsFiniteSet(FailedOf(AllChecks))
           /\ Outcome.summary =
                Summary(Cardinality(PassedOf(AllChecks)) + Cardinality(FailedOf(AllChecks)),
                        Cardinality(PassedOf(AllChecks)), Cardinality(FailedOf(AllChecks)))
<1> DEFINE V == Runs
           P == Probes
           A == AllChecks
           cv == ContractValid(TRUE)
<1>1. cv.name = "ContractValid" /\ cv.passed = TRUE
  BY DEF ContractValid, Check
<1>2. /\ A = {cv} \cup V \cup P /\ IsFiniteSet(V) /\ IsFiniteSet(P)
      /\ \A k \in V : k.name \in RuntimeTypes /\ k.passed \in BOOLEAN
      /\ \A k \in P : k.name \in ProbeTypes /\ k.passed \in BOOLEAN
  BY ChecksLemma
<1> HIDE DEF V, P, A, cv
<1>3. V \cap P = {} /\ cv \notin V /\ cv \notin P
  BY <1>1, <1>2 DEF RuntimeTypes, ProbeTypes
<1>4. /\ IsFiniteSet(PassedOf(V)) /\ IsFiniteSet(FailedOf(V))
      /\ IsFiniteSet(PassedOf(P)) /\ IsFiniteSet(FailedOf(P))
      /\ Cardinality(V) = Cardinality(PassedOf(V)) + Cardinality(FailedOf(V))
      /\ Cardinality(P) = Cardinality(PassedOf(P)) + Cardinality(FailedOf(P))
  BY <1>2, SplitCount
<1>5. /\ IsFiniteSet(PassedOf(A))
      /\ Cardinality(PassedOf(A)) = Cardinality(PassedOf(V)) + 1 + Cardinality(PassedOf(P))
  <2>1. PassedOf(A) = (PassedOf(V) \cup {cv}) \cup PassedOf(P)
    BY <1>1, <1>2 DEF PassedOf
  <2>2. cv \notin PassedOf(V) /\ (PassedOf(V) \cup {cv}) \cap PassedOf(P) = {}
    BY <1>3 DEF PassedOf
  <2>3. /\ IsFiniteSet(PassedOf(V) \cup {cv})
        /\ Cardinality(PassedOf(V) \cup {cv}) = Cardinality(PassedOf(V)) + 1
    BY <1>4, <2>2, FS_AddElement
  <2>4. IsFiniteSet(PassedOf(A))
    BY <1>4, <2>1, <2>3, FS_Union
  <2>5. Cardinality(PassedOf(A)) = Cardinality(PassedOf(V) \cup {cv}) + Cardinality(PassedOf(P))
    BY <1>4, <2>1, <2>2, <2>3, DisjointCount
  <2> QED BY <2>3, <2>4, <2>5
<1>6. /\ IsFiniteSet(FailedOf(A))
      /\ Cardinality(FailedOf(A)) = Cardinality(FailedOf(V)) + Cardinality(FailedOf(P))
  <2>1. FailedOf(A) = FailedOf(V) \cup FailedOf(P) /\ FailedOf(V) \cap FailedOf(P) = {}
    BY <1>1, <1>2, <1>3 DEF FailedOf
  <2> QED BY <1>4, <2>1, DisjointCount, FS_Union
<1>7. /\ Cardinality(PassedOf(V)) \in Nat /\ Cardinality(FailedOf(V)) \in Nat
      /\ Cardinality(PassedOf(P)) \in Nat /\ Cardinality(FailedOf(P)) \in Nat
  BY <1>4, FS_CardinalityType
<1>8. Outcome.summary =
        Summary(Cardinality(V) + 1 + Cardinality(P),
                Cardinality(PassedOf(V)) + 1 + Cardinality(PassedOf(P)),
                Cardinality(FailedOf(V)) + Cardinality(FailedOf(P)))
  BY OutcomeLemma DEF V, P
<1>9. Cardinality(V) + 1 + Cardinality(P) = Cardinality(PassedOf(A)) + Cardinality(FailedOf(A))
  BY <1>4, <1>5, <1>6, <1>7
<1> QED BY <1>5, <1>6, <1>8, <1>9 DEF A

\* The conditions other than readiness are the verdicts of the checks.
LEMMA VerdictsLemma ==
    ASSUME EvaluatedInv
    PROVE  /\ {t \in ConditionTypes \ {"ReadinessSatisfied"} : Outcome.conditions[t] = "True"}
                = {k.name : k \in PassedOf(AllChecks)}
           /\ {t \in ConditionTypes \ {"ReadinessSatisfied"} : Outcome.conditions[t] = "False"}
                = {k.name : k \in FailedOf(AllChecks)}
<1>1. \A k \in AllChecks : /\ k.name \in ConditionTypes \ {"ReadinessSatisfied"}
                           /\ k.passed => Outcome.conditions[k.name] = "True"
                           /\ ~k.passed => Outcome.conditions[k.name] = "False"
  BY ConditionsLemma DEF verdict
<1>2. \A t \in ConditionTypes \ {"ReadinessSatisfied"} :
        Outcome.conditions[t] # "absent" => \E k \in AllChecks : k.name = t
  BY ConditionsLemma
<1> QED BY <1>1, <1>2 DEF PassedOf, FailedOf

\* The summary of a pass counts each condition but the readiness one exactly
\* once, as passed or failed, whichever checks ran.
THEOREM SummaryAlwaysMatchesConditions == Spec => []SummaryMatchesConditions
<1>1. EvaluatedInv => SummaryMatchesConditions
  <2> SUFFICES ASSUME EvaluatedInv, pass = "runtime" PROVE SummaryMatchesConditions
    BY DEF SummaryMatchesConditions, Evaluated
  <2> DEFINE Trues == {t \in ConditionTypes \ {"ReadinessSatisfied"} : status.conditions[t] = "True"}
             Falses == {t \in ConditionTypes \ {"ReadinessSatisfied"} : status.conditions[t] = "False"}
  <2>1. status = Outcome
    BY DEF EvaluatedInv
  <2>2. /\ Trues = {k.name : k \in PassedOf(AllChecks)}
        /\ Falses = {k.name : k \in FailedOf(AllChecks)}
    BY <2>1, VerdictsLemma
  <2>3. Distinct(PassedOf(AllChecks)) /\ Distinct(FailedOf(AllChecks))
    BY ConditionsLemma DEF Distinct, PassedOf, FailedOf
  <2>4. /\ Cardinality(Trues) = Cardinality(PassedOf(AllChecks))
        /\ Cardinality(Falses) = Cardinality(FailedOf(AllChecks))
    BY <2>2, <2>3, SummaryLemma, NamesCount
  <2>5. status.summary = Summary(Cardinality(Trues) + Cardinality(Falses),
                                 Cardinality(Trues), Cardinality(Falses))
    BY <2>1, <2>4, SummaryLemma
  <2> QED BY <2>5 DEF SummaryMatchesConditions
<1> QED BY <1>1, EvaluatedInvariant, PTL

\* ----- the gauges -------------------------------------------------------

IsGauges(g) ==
    g = [status |-> g.status, compliance |-> g.compliance, errors |-> g.errors,
         warnings |-> g.warnings, results |-> g.results, gate |-> g.gate]

\* The gauges of one pass, recorded from its status and its checks.
Recorded(g, st, checks) ==
    /\ \A s \in ContractStatuses : g.status[s] = bit(s = st.contractStatus)
    /\ g.errors + g.warnings = Cardinality(FailedOf(checks))
    /\ g.compliance = bit(FailedOf(checks) = {})
    /\ \A t \in ConditionTypes : (\E k \in checks : k.name = t) =>
         g.results[t] = bit(\E k \in PassedOf(checks) : k.name = t)

\* RecordContractStatus and RecordValidation replace the gauges of the Pacto
\* and of its service, and leave the readiness gauge alone.
LEMMA RecordLemma ==
    ASSUME NEW g, IsGauges(g), NEW st, NEW checks, IsFiniteSet(checks)
    PROVE  LET h == finishMetrics(g, st, checks)
           IN  IsGauges(h) /\ h.gate = g.gate /\ Recorded(h, st, checks)
<1> DEFINE h == finishMetrics(g, st, checks)
           r == RecordContractStatus(g, st.contractStatus)
           S == [s \in ContractStatuses |-> bit(s = st.contractStatus)]
           F == FailedOf(checks)
           errors == {k \in F : k.severity = "error"}
           C == bit(F = {})
           E == Cardinality(errors)
           W == Cardinality(F \ errors)
           T == [t \in ConditionTypes |-> IF \E k \in checks : k.name = t
                                          THEN bit(\E k \in PassedOf(checks) : k.name = t)
                                          ELSE g.results[t]]
<1>1. r = [g EXCEPT !.status = S]
  BY DEF RecordContractStatus
<1>2. h = [r EXCEPT !.compliance = C, !.errors = E, !.warnings = W,
                    !.results = [t \in ConditionTypes |->
                                   IF \E k \in checks : k.name = t
                                   THEN bit(\E k \in PassedOf(checks) : k.name = t)
                                   ELSE r.results[t]]]
  BY DEF finishMetrics, RecordValidation
<1>3. E + W = Cardinality(F)
  <2>1. IsFiniteSet(F) /\ errors \subseteq F
    BY FS_Subset DEF FailedOf
  <2>2. IsFiniteSet(errors) /\ F \cap errors = errors
    BY <2>1, FS_Subset
  <2> HIDE DEF F, errors
  <2>3. Cardinality(F \ errors) = Cardinality(F) - Cardinality(errors)
    BY <2>1, <2>2, FS_Difference
  <2> QED BY <2>1, <2>2, <2>3, FS_CardinalityType
<1> HIDE DEF S, C, E, W, r
<1>4. r.results = g.results /\ IsGauges(r) /\ r.status = S /\ r.gate = g.gate
  BY <1>1 DEF IsGauges
<1>5. h = [r EXCEPT !.compliance = C, !.errors = E, !.warnings = W, !.results = T]
  BY <1>2, <1>4
<1> HIDE DEF h, T
<1>6. /\ IsGauges(h) /\ h.gate = g.gate /\ h.status = S /\ h.compliance = C
      /\ h.errors = E /\ h.warnings = W /\ h.results = T
  BY <1>4, <1>5 DEF IsGauges
<1>7. \A s \in ContractStatuses : h.status[s] = bit(s = st.contractStatus)
  BY <1>6 DEF S
<1>8. \A t \in ConditionTypes : (\E k \in checks : k.name = t) =>
        h.results[t] = bit(\E k \in PassedOf(checks) : k.name = t)
  BY <1>6 DEF T
<1>9. h.compliance = bit(FailedOf(checks) = {}) /\ h.errors + h.warnings = Cardinality(FailedOf(checks))
  BY <1>3, <1>6 DEF C
<1> QED BY <1>6, <1>7, <1>8, <1>9 DEF Recorded, h

\* RecordReadiness, called before the verdict is known.
LEMMA GateLemma ==
    ASSUME NEW g, IsGauges(g), NEW s
    PROVE  /\ IsGauges(RecordReadiness(g, s))
           /\ s.readiness # Nil => RecordReadiness(g, s).gate = bit(s.readiness = "met")
<1> DEFINE b == bit(s.readiness = "met")
<1>1. RecordReadiness(g, s) = IF s.readiness = Nil THEN g ELSE [g EXCEPT !.gate = b]
  BY DEF RecordReadiness
<1> HIDE DEF b
<1>2. IsGauges([g EXCEPT !.gate = b]) /\ [g EXCEPT !.gate = b].gate = b
  BY DEF IsGauges
<1> QED BY <1>1, <1>2 DEF b

\* Gauges recorded from checks agree with a status whose conditions and number
\* of failures come from the same checks.
LEMMA AgreementLemma ==
    ASSUME NEW g, NEW st, NEW checks, IsFiniteSet(checks), Recorded(g, st, checks),
           st.summary.failed = Cardinality(FailedOf(checks)),
           \A k \in checks : k.passed \in BOOLEAN /\ st.conditions[k.name] = verdict(k),
           \A t \in ConditionTypes \ {"ReadinessSatisfied"} :
             (\A k \in checks : k.name # t) => st.conditions[t] = "absent"
    PROVE  /\ g.errors + g.warnings = st.summary.failed
           /\ g.compliance = bit(st.summary.failed = 0)
           /\ \A t \in ConditionTypes \ {"ReadinessSatisfied"} :
                st.conditions[t] # "absent" => g.results[t] = bit(st.conditions[t] = "True")
<1>1. IsFiniteSet(FailedOf(checks))
  BY FS_Subset DEF FailedOf
<1>2. FailedOf(checks) = {} <=> st.summary.failed = 0
  BY <1>1, FS_EmptySet
<1>3. g.compliance = bit(st.summary.failed = 0)
  BY <1>2 DEF Recorded, bit
<1>4. ASSUME NEW t \in ConditionTypes \ {"ReadinessSatisfied"}, st.conditions[t] # "absent"
      PROVE  g.results[t] = bit(st.conditions[t] = "True")
  <2>1. \E k \in checks : k.name = t
    BY <1>4
  <2>2. (\E k \in PassedOf(checks) : k.name = t) <=> st.conditions[t] = "True"
    BY <2>1 DEF PassedOf, verdict
  <2>3. g.results[t] = bit(\E k \in PassedOf(checks) : k.name = t)
    BY <2>1 DEF Recorded
  <2> QED BY <2>2, <2>3 DEF bit
<1> QED BY <1>3, <1>4 DEF Recorded

\* The pass that reaches the runtime stage.
LEMMA EvaluateGauges ==
    ASSUME EvaluatedInv, IsGauges(gauges), Evaluate
    PROVE  IsGauges(gauges') /\ GaugesMatchStatus'
<1> DEFINE p == Prepared(input.contract)
           g == RecordReadiness(gauges, p)
           st == Outcome
           h == finishMetrics(g, st, AllChecks)
<1>1. pass' = "runtime" /\ status' = st /\ gauges' = h
  BY DEF Evaluate, Outcome, Snap, AllChecks
<1>2. IsGauges(g) /\ (p.readiness # Nil => g.gate = bit(p.readiness = "met"))
  BY GateLemma
<1>3. IsFiniteSet(AllChecks) /\ st.readiness = p.readiness
  BY ConditionsLemma, OutcomeLemma
<1> HIDE DEF g, p
<1>4. IsGauges(h) /\ h.gate = g.gate /\ Recorded(h, st, AllChecks)
  BY <1>2, <1>3, RecordLemma
<1>5. st.summary.failed = Cardinality(FailedOf(AllChecks))
  BY SummaryLemma DEF Summary
<1> HIDE DEF h, st
<1>6. /\ h.errors + h.warnings = st.summary.failed
      /\ h.compliance = bit(st.summary.failed = 0)
      /\ \A t \in ConditionTypes \ {"ReadinessSatisfied"} :
           st.conditions[t] # "absent" => h.results[t] = bit(st.conditions[t] = "True")
  BY <1>3, <1>4, <1>5, ConditionsLemma, AgreementLemma DEF st
<1> QED BY <1>1, <1>2, <1>3, <1>4, <1>6 DEF GaugesMatchStatus, Recorded

\* The pass that cannot observe the target.
LEMMA UnobservedGauges ==
    ASSUME EvaluatedInv, IsGauges(gauges), ObservationFails
    PROVE  IsGauges(gauges') /\ GaugesMatchStatus'
<1> DEFINE p == Prepared(input.contract)
           g == RecordReadiness(gauges, p)
           st == unobservedStatus(p)
           cv == ContractValid(TRUE)
           ro == Check("RuntimeObserved", FALSE, "error")
           h == finishMetrics(g, st, unobservedChecks)
<1>1. pass' = "unobserved" /\ status' = st /\ gauges' = h
  BY DEF ObservationFails
<1>2. IsGauges(g) /\ (p.readiness # Nil => g.gate = bit(p.readiness = "met"))
  BY GateLemma
<1>3. /\ unobservedChecks = {cv, ro} /\ cv.name = "ContractValid" /\ ro.name = "RuntimeObserved"
      /\ cv.passed = TRUE /\ ro.passed = FALSE
      /\ verdict(cv) = "True" /\ verdict(ro) = "False"
  BY DEF unobservedChecks, ContractValid, Check, verdict
<1>4. /\ IsStatus(p) /\ p.conditions \in [ConditionTypes -> {"absent", "True", "False"}]
      /\ p.conditions["ContractValid"] = "True"
      /\ \A t \in ConditionTypes \ {"ContractValid", "ReadinessSatisfied"} :
           p.conditions[t] = "absent"
      /\ "ContractValid" \in ConditionTypes /\ "RuntimeObserved" \in ConditionTypes
  BY PreparedLemma DEF ConditionTypes
<1> HIDE DEF g, p, cv, ro
<1>5. /\ st.readiness = p.readiness /\ st.summary.failed = 1
      /\ st.conditions = [p.conditions EXCEPT !["RuntimeObserved"] = "False"]
  BY <1>4 DEF unobservedStatus, setCondition, Summary, IsStatus
<1>6. FailedOf(unobservedChecks) = {ro} /\ IsFiniteSet(unobservedChecks)
      /\ Cardinality(FailedOf(unobservedChecks)) = 1
  <2>1. FailedOf(unobservedChecks) = {ro}
    BY <1>3 DEF FailedOf
  <2>2. unobservedChecks = {cv} \cup {ro}
    BY <1>3
  <2>3. IsFiniteSet({cv} \cup {ro})
    BY FS_Singleton, FS_Union
  <2> QED BY <2>1, <2>2, <2>3, FS_Singleton
<1> HIDE DEF st
<1>7. IsGauges(h) /\ h.gate = g.gate /\ Recorded(h, st, unobservedChecks)
  BY <1>2, <1>6, RecordLemma
<1>8. \A k \in unobservedChecks : k.passed \in BOOLEAN /\ st.conditions[k.name] = verdict(k)
  <2>1. st.conditions[cv.name] = verdict(cv) /\ st.conditions[ro.name] = verdict(ro)
    BY <1>3, <1>4, <1>5
  <2>2. cv.passed \in BOOLEAN /\ ro.passed \in BOOLEAN
    BY <1>3
  <2>3. \A k \in unobservedChecks : k = cv \/ k = ro
    BY <1>3
  <2> QED BY <2>1, <2>2, <2>3, Zenon
<1>9. \A t \in ConditionTypes \ {"ReadinessSatisfied"} :
        (\A k \in unobservedChecks : k.name # t) => st.conditions[t] = "absent"
  BY <1>3, <1>4, <1>5
<1> HIDE DEF h
<1>10. st.summary.failed = Cardinality(FailedOf(unobservedChecks))
  BY <1>5, <1>6
<1>11. /\ h.errors + h.warnings = st.summary.failed
       /\ h.compliance = bit(st.summary.failed = 0)
       /\ \A t \in ConditionTypes \ {"ReadinessSatisfied"} :
            st.conditions[t] # "absent" => h.results[t] = bit(st.conditions[t] = "True")
  BY ONLY <1>6, <1>7, <1>8, <1>9, <1>10, AgreementLemma
<1> QED BY <1>1, <1>2, <1>5, <1>7, <1>11 DEF GaugesMatchStatus, Recorded

\* The pass that fails on its contract, known or not.
LEMMA FailedGauges ==
    ASSUME EvaluatedInv, IsGauges(gauges), ContractFails
    PROVE  IsGauges(gauges') /\ GaugesMatchStatus'
<1> DEFINE st == failStatus(EmptyStatus)
           cv == ContractValid(FALSE)
           h == finishMetrics(gauges, st, {cv})
           r == RecordContractStatus(gauges, st.contractStatus)
<1>1. /\ status' = st
      /\ \/ pass' = "invalid" /\ gauges' = h
         \/ pass' = "unloadable" /\ gauges' = r
  BY DEF ContractFails, failMetrics, finishMetrics
<1>2. /\ st.readiness = Nil /\ st.summary.failed = 1
      /\ st.conditions = [NoConditions EXCEPT !["ContractValid"] = "False"]
  BY DEF failStatus, setCondition, Summary, EmptyStatus
<1>3. cv.name = "ContractValid" /\ cv.passed = FALSE /\ verdict(cv) = "False"
  BY DEF ContractValid, Check, verdict
<1> HIDE DEF st, cv
<1>4. /\ FailedOf({cv}) = {cv} /\ IsFiniteSet({cv}) /\ Cardinality({cv}) = 1
  BY <1>3, FS_Singleton DEF FailedOf
<1>5. IsGauges(h) /\ Recorded(h, st, {cv})
  BY <1>4, RecordLemma
<1>6. /\ \A k \in {cv} : k.passed \in BOOLEAN /\ st.conditions[k.name] = verdict(k)
      /\ \A t \in ConditionTypes \ {"ReadinessSatisfied"} :
           (\A k \in {cv} : k.name # t) => st.conditions[t] = "absent"
  BY <1>2, <1>3 DEF NoConditions, ConditionTypes
<1> HIDE DEF h
<1>7. /\ h.errors + h.warnings = st.summary.failed
      /\ h.compliance = bit(st.summary.failed = 0)
      /\ \A t \in ConditionTypes \ {"ReadinessSatisfied"} :
           st.conditions[t] # "absent" => h.results[t] = bit(st.conditions[t] = "True")
  <2>1. st.summary.failed = Cardinality(FailedOf({cv}))
    BY <1>2, <1>4
  <2> QED BY ONLY <1>4, <1>5, <1>6, <2>1, AgreementLemma
<1>8. IsGauges(r) /\ \A s \in ContractStatuses : r.status[s] = bit(s = st.contractStatus)
  <2> DEFINE S == [s \in ContractStatuses |-> bit(s = st.contractStatus)]
  <2>1. r = [gauges EXCEPT !.status = S]
    BY DEF RecordContractStatus
  <2> HIDE DEF S
  <2>2. IsGauges(r) /\ r.status = S
    BY <2>1 DEF IsGauges
  <2> QED BY <2>2 DEF S
<1> QED BY <1>1, <1>2, <1>5, <1>7, <1>8 DEF GaugesMatchStatus, Recorded

\* The gauges of a Pacto and of its service tell what its status tells, after
\* every pass, for any contract and any cluster; what an earlier pass recorded
\* shows through only where the last one records nothing.
THEOREM GaugesAlwaysMatchStatus == Spec => []GaugesMatchStatus
<1>1. Init => IsGauges(gauges) /\ GaugesMatchStatus
  BY DEF Init, NoGauges, IsGauges, GaugesMatchStatus
<1>2. EvaluatedInv /\ IsGauges(gauges) /\ GaugesMatchStatus /\ [Next]_vars
        => (IsGauges(gauges) /\ GaugesMatchStatus)'
  <2> SUFFICES ASSUME EvaluatedInv, IsGauges(gauges), GaugesMatchStatus, [Next]_vars
               PROVE  IsGauges(gauges)' /\ GaugesMatchStatus'
    OBVIOUS
  <2>1. CASE UNCHANGED vars
    BY <2>1 DEF vars, IsGauges, GaugesMatchStatus
  <2>2. CASE Next
    <3>1. IsGauges(gauges') /\ GaugesMatchStatus'
      BY <2>2, EvaluateGauges, UnobservedGauges, FailedGauges DEF Next
    <3> QED BY <3>1
  <2> QED BY <2>1, <2>2
<1> QED BY <1>1, <1>2, EvaluatedInvariant, PTL DEF Spec
\* ----- Compliant means conformant ----------------------------------------

\* Compliant: every check passed and the readiness gate, where there is one,
\* is met.
LEMMA CompliantLemma ==
    ASSUME EvaluatedInv
    PROVE  Outcome.contractStatus = "Compliant" <=>
               /\ \A k \in Runs \cup Probes : k.passed
               /\ Outcome.conditions["ReadinessSatisfied"] # "False"
<1> DEFINE conds == Outcome.conditions
           failed == {t \in ConditionTypes : conds[t] = "False"}
<1>1. Outcome.contractStatus = "Compliant" <=> failed = {}
  <2>1. Outcome.contractStatus = computeFinalContractStatus(conds)
    BY OutcomeLemma
  <2> QED BY <2>1 DEF computeFinalContractStatus
<1>2. /\ \A k \in Runs \cup Probes : /\ k.name \in ConditionTypes
                                     /\ k.passed \in BOOLEAN /\ conds[k.name] = verdict(k)
      /\ \A t \in ConditionTypes \ {"ReadinessSatisfied"} :
           conds[t] # "absent" => t = "ContractValid" \/ \E k \in Runs \cup Probes : k.name = t
      /\ conds["ContractValid"] = "True" /\ "ReadinessSatisfied" \in ConditionTypes
  <2>1. /\ AllChecks = {ContractValid(TRUE)} \cup Runs \cup Probes
        /\ ContractValid(TRUE).name = "ContractValid" /\ verdict(ContractValid(TRUE)) = "True"
        /\ "ReadinessSatisfied" \in ConditionTypes
    BY ChecksLemma DEF ContractValid, Check, verdict, ConditionTypes
  <2> QED BY <2>1, ConditionsLemma
<1> HIDE DEF conds
<1>3. ASSUME failed = {} PROVE \A k \in Runs \cup Probes : k.passed
  BY <1>2, <1>3 DEF verdict
<1>4. ASSUME \A k \in Runs \cup Probes : k.passed, conds["ReadinessSatisfied"] # "False",
             NEW t \in ConditionTypes, conds[t] = "False"
      PROVE  FALSE
  <2>1. PICK k \in Runs \cup Probes : k.name = t
    BY <1>2, <1>4
  <2>2. verdict(k) = "True"
    BY <1>4 DEF verdict
  <2> QED BY <1>2, <1>4, <2>1, <2>2
<1> QED BY <1>1, <1>2, <1>3, <1>4 DEF conds

\* Both existence checks are of error severity, and one of them failed when a
\* resource is missing.
LEMMA MissingIsError ==
    ASSUME EvaluatedInv, ~ResourcesExist
    PROVE  \E k \in Failures : k.severity = "error"
<1>1. Failures = FailedOf(Runs)
  BY DEF Failures, Runs, Snap
<1>2. /\ checkServiceExists(Snap).passed = Snap.serviceExists
      /\ checkServiceExists(Snap).severity = "error"
      /\ checkWorkloadExists(Snap).passed = Snap.workloadExists
      /\ checkWorkloadExists(Snap).severity = "error"
  BY DEF checkServiceExists, checkWorkloadExists, Check
<1>3. CASE ~Snap.workloadExists
  <2>1. checkWorkloadExists(Snap) \in Runs
    BY DEF Runs, Validate
  <2> QED BY <1>1, <1>2, <1>3, <2>1 DEF FailedOf
<1>4. CASE input.target.service /\ ~Snap.serviceExists
  <2>1. checkServiceExists(Snap) \in Runs
    BY <1>4 DEF Runs, Validate
  <2> QED BY <1>1, <1>2, <1>4, <2>1 DEF FailedOf
<1> QED BY <1>3, <1>4, ResourcesLemma

\* A missing resource makes the status NonCompliant, warnings alone make it
\* Warning, and without a failure of error severity it is not NonCompliant,
\* whatever the probes and the readiness gate say.
THEOREM StatusAlwaysFollowsSeverity == Spec => []StatusFollowsSeverity
<1>1. EvaluatedInv => StatusFollowsSeverity
  <2> DEFINE errors == {k \in Failures : k.severity = "error"}
  <2> SUFFICES ASSUME EvaluatedInv, pass = "runtime"
               PROVE  /\ ~ResourcesExist => status.contractStatus = "NonCompliant"
                      /\ Failures # {} /\ errors = {} => status.contractStatus = "Warning"
                      /\ errors = {} => status.contractStatus # "NonCompliant"
    BY DEF StatusFollowsSeverity, Evaluated
  <2>1. status = Outcome
    BY DEF EvaluatedInv
  <2>2. Outcome.contractStatus \in {"NonCompliant", "Warning", "Compliant"}
    BY OutcomeLemma DEF computeFinalContractStatus
  <2>3. errors = {} => status.contractStatus # "NonCompliant"
    BY <2>1, NonCompliantLemma, MissingIsError
  <2>4. Failures # {} => status.contractStatus # "Compliant"
    <3>1. Failures = FailedOf(Runs)
      BY DEF Failures, Runs, Snap
    <3> QED BY <2>1, <3>1, CompliantLemma DEF FailedOf
  <2> HIDE DEF errors
  <2> QED BY <2>1, <2>2, <2>3, <2>4, NonCompliantLemma
<1> QED BY <1>1, EvaluatedInvariant, PTL

\* The checks Validate runs, all of them passed.
LEMMA RunsPassed ==
    ASSUME NEW c, NEW snap, NEW hasService \in BOOLEAN, snap.serviceExists \in BOOLEAN,
           snap.workloadExists \in BOOLEAN
    PROVE  (\A k \in Validate(c, snap, hasService) : k.passed) <=>
             /\ checkWorkloadExists(snap).passed
             /\ hasService => checkServiceExists(snap).passed
             /\ hasService /\ snap.serviceExists => checkPorts(c, snap).passed
             /\ snap.workloadExists /\ c.runtime # Nil =>
                  /\ checkWorkloadType(c, snap).passed
                  /\ checkStateModel(c, snap).passed
                  /\ c.runtime.strategy # Nil => checkUpgradeStrategy(c, snap).passed
                  /\ c.runtime.grace # Nil => checkGracefulShutdown(c, snap).passed
                  /\ c.image # Nil => checkImage(c, snap).passed
                  /\ c.runtime.healthDelay # Nil => checkHealthTiming(c, snap).passed
BY Zenon DEF Validate

\* Existence and ports.
LEMMA ExistencePassed ==
    ASSUME NEW c, NEW snap, snap.serviceExists \in BOOLEAN, snap.workloadExists \in BOOLEAN
    PROVE  /\ checkWorkloadExists(snap).passed <=> snap.workloadExists
           /\ checkServiceExists(snap).passed <=> snap.serviceExists
           /\ checkPorts(c, snap).passed <=> c.ports \subseteq snap.servicePorts
BY DEF checkWorkloadExists, checkServiceExists, checkPorts, Check

\* What Observe hands to the checks of a workload it found.
LEMMA FoundWorkload ==
    ASSUME EvaluatedInv, Snap.workloadExists
    PROVE  LET w == input.cluster.workload
           IN  /\ w # Nil /\ Snap.workloadKind = w.kind
               /\ Snap.pod = observeWorkload(w)
BY SnapLemma DEF Snap, Observe
\* checkWorkloadType.
LEMMA KindPassed ==
    ASSUME NEW c, NEW snap, NEW w, snap.workloadKind = w.kind
    PROVE  checkWorkloadType(c, snap).passed <=> KindConforms(c.runtime, w)
<1> DEFINE b == snap.workloadKind \in
                  CASE c.runtime.workload = "service"   -> {"Deployment", "StatefulSet"}
                    [] c.runtime.workload = "job"       -> {"Job"}
                    [] c.runtime.workload = "scheduled" -> {"CronJob"}
                    [] OTHER                            -> {}
<1>1. checkWorkloadType(c, snap).passed = b
  BY DEF checkWorkloadType, Check
<1>2. b <=> KindConforms(c.runtime, w)
  BY DEF KindConforms
<1> QED BY <1>1, <1>2

\* checkStateModel: the claims it looks for are the pod's volumes and the
\* StatefulSet's templates.
LEMMA StatePassed ==
    ASSUME NEW c, NEW snap, NEW w, snap.workloadKind = w.kind,
           snap.pod = observeWorkload(w), w.claimTemplates \in BOOLEAN,
           c.runtime.stateType \in {"stateful", "stateless", "hybrid"}
    PROVE  checkStateModel(c, snap).passed <=> StorageConforms(c.runtime, w)
<1> DEFINE state  == c.runtime.stateType
           hasPVC == "pvc" \in snap.pod.volumes
           claims == "pvc" \in w.volumes \/ (w.kind = "StatefulSet" /\ w.claimTemplates)
           unmet  == c.runtime.durability = "persistent" /\ ~hasPVC
           failed == CASE state = "stateful"  -> snap.workloadKind # "StatefulSet" \/ unmet
                       [] state = "stateless" -> hasPVC
                       [] state = "hybrid"    -> unmet
                       [] OTHER               -> FALSE
<1>1. hasPVC <=> claims
  BY DEF observeWorkload, extractVolumes
<1>2. checkStateModel(c, snap).passed = ~failed
  BY DEF checkStateModel, Check
<1> HIDE DEF hasPVC
<1>3. StorageConforms(c.runtime, w) <=>
        /\ state = "stateful" => w.kind = "StatefulSet"
        /\ state = "stateless" => ~claims
        /\ state # "stateless" /\ c.runtime.durability = "persistent" => claims
  BY DEF StorageConforms
<1> HIDE DEF claims
<1>4. ~failed <=> StorageConforms(c.runtime, w)
  BY <1>1, <1>3
<1> QED BY <1>2, <1>4

\* checkUpgradeStrategy, checkGracefulShutdown and checkHealthTiming.
LEMMA LifecyclePassed ==
    ASSUME NEW c, NEW snap, NEW w, snap.pod = observeWorkload(w), WorkloadOK(w, c)
    PROVE  LifecycleConforms(c.runtime, w) <=>
             /\ c.runtime.strategy # Nil => checkUpgradeStrategy(c, snap).passed
             /\ c.runtime.grace # Nil => checkGracefulShutdown(c, snap).passed
             /\ c.runtime.healthDelay # Nil => checkHealthTiming(c, snap).passed
<1> DEFINE s == c.runtime.strategy
           d == snap.pod.deploymentStrategy
           m == snap.pod.podManagementPolicy
           actual == IF d # Nil THEN d ELSE m
           wanted == CASE s = "rolling"  -> "RollingUpdate"
                       [] s = "recreate" -> "Recreate"
                       [] s = "ordered"  -> "OrderedReady"
                       [] OTHER          -> "unknown"
           rolls == /\ w.kind = "Deployment" =>
                         <<s, w.strategy>> \in {<<"rolling", "RollingUpdate">>, <<"recreate", "Recreate">>}
                    /\ w.kind = "StatefulSet" => s = "ordered" /\ w.policy = "OrderedReady"
<1>1. /\ d = IF w.kind = "Deployment" THEN w.strategy ELSE Nil
      /\ m = IF w.kind = "StatefulSet" THEN w.policy ELSE Nil
      /\ snap.pod.terminationGracePeriod = w.grace
      /\ snap.pod.healthProbeInitialDelay =
           IF w.readinessDelay = Nil THEN w.livenessDelay ELSE w.readinessDelay
  BY DEF observeWorkload, extractProbeDelay
<1>2. /\ checkUpgradeStrategy(c, snap).passed = (actual = Nil \/ actual = wanted)
      /\ checkGracefulShutdown(c, snap).passed = (snap.pod.terminationGracePeriod = c.runtime.grace)
      /\ checkHealthTiming(c, snap).passed = (snap.pod.healthProbeInitialDelay = c.runtime.healthDelay)
  BY DEF checkUpgradeStrategy, checkGracefulShutdown, checkHealthTiming, Check
<1>3. (actual = Nil \/ actual = wanted) <=> rolls
  <2>1. CASE w.kind = "Deployment"
    <3>1. actual = w.strategy /\ actual # Nil /\ w.strategy \in {"RollingUpdate", "Recreate"}
      BY <1>1, <2>1, NilAssumption DEF WorkloadOK
    <3> HIDE DEF actual
    <3> QED BY <2>1, <3>1
  <2>2. CASE w.kind = "StatefulSet"
    <3>1. actual = w.policy /\ actual # Nil /\ w.policy \in {"OrderedReady", "Parallel"}
      BY <1>1, <2>2, NilAssumption DEF WorkloadOK
    <3> HIDE DEF actual
    <3> QED BY <2>2, <3>1
  <2>3. CASE w.kind # "Deployment" /\ w.kind # "StatefulSet"
    BY <1>1, <2>3
  <2> QED BY <2>1, <2>2, <2>3
<1>4. LifecycleConforms(c.runtime, w) <=>
        /\ s # Nil => rolls
        /\ c.runtime.grace # Nil => w.grace = c.runtime.grace
        /\ c.runtime.healthDelay # Nil =>
             c.runtime.healthDelay = IF w.readinessDelay = Nil THEN w.livenessDelay
                                                               ELSE w.readinessDelay
  BY DEF LifecycleConforms
<1> HIDE DEF actual, wanted, rolls
<1> QED BY <1>1, <1>2, <1>3, <1>4
\* normalizeImageRef touches host and user only.
LEMMA NormalizedLemma ==
    ASSUME NEW i, IsImage(i)
    PROVE  LET n == normalizeImageRef(i)
           IN  IsImage(n) /\ n.name = i.name /\ n.tag = i.tag /\ n.digest = i.digest
<1> DEFINE u == IF i.user = Nil THEN "library" ELSE i.user
<1>1. normalizeImageRef(i) = IF i.host # Nil THEN i
                             ELSE [i EXCEPT !.host = "docker.io", !.user = u]
  BY DEF normalizeImageRef
<1> HIDE DEF u
<1> QED BY <1>1 DEF IsImage

\* imageMatches against the repository, tag and digest of both references: a
\* match is never wrong, and none is missed as long as the image that runs is
\* not given by digest.
LEMMA ImagePassed ==
    ASSUME NEW e, NEW a, IsImage(e), IsImage(a)
    PROVE  LET same == /\ Repository(a) = Repository(e)
                       /\ e.tag # Nil => a.tag = e.tag
                       /\ e.digest # Nil => a.digest = e.digest
           IN  /\ imageMatches(e, a) => same
               /\ same /\ a.digest = Nil => imageMatches(e, a)
<1> DEFINE E == normalizeImageRef(e)
           A == normalizeImageRef(a)
           r == repositoryPart(A)
           same == /\ Repository(a) = Repository(e)
                   /\ e.tag # Nil => a.tag = e.tag
                   /\ e.digest # Nil => a.digest = e.digest
<1>1. /\ IsImage(E) /\ E.name = e.name /\ E.tag = e.tag /\ E.digest = e.digest
      /\ IsImage(A) /\ A.name = a.name /\ A.tag = a.tag /\ A.digest = a.digest
  BY NormalizedLemma
<1>2. Repository(e) = <<E.host, E.user, e.name>> /\ Repository(a) = <<A.host, A.user, a.name>>
  BY DEF Repository
<1>3. imageMatches(e, a) <=> E = A \/ (E.tag = Nil /\ E.digest = Nil /\ E = r)
  BY DEF imageMatches
<1>4. r = IF A.digest # Nil THEN [A EXCEPT !.digest = Nil] ELSE [A EXCEPT !.tag = Nil]
  BY DEF repositoryPart
<1> HIDE DEF E, A, r
<1>5. IsImage(r) /\ r.host = A.host /\ r.user = A.user /\ r.name = A.name
  BY <1>1, <1>4 DEF IsImage
<1>6. ASSUME imageMatches(e, a) PROVE same
  BY <1>1, <1>2, <1>3, <1>5, <1>6
<1>7. ASSUME same, a.digest = Nil PROVE imageMatches(e, a)
  <2>1. E.host = A.host /\ E.user = A.user /\ E.name = A.name /\ E.digest = Nil
    BY <1>1, <1>2, <1>7
  <2>2. CASE e.tag # Nil
    <3>1. E.tag = A.tag /\ E.digest = A.digest
      BY <1>1, <1>7, <2>1, <2>2
    <3>2. E = A
      BY <1>1, <2>1, <3>1 DEF IsImage
    <3> QED BY <1>3, <3>2
  <2>3. CASE e.tag = Nil
    <3>1. r.tag = Nil /\ r.digest = Nil
      BY <1>1, <1>4, <1>7 DEF IsImage
    <3>2. E = r
      BY <1>1, <1>5, <2>1, <2>3, <3>1 DEF IsImage
    <3> QED BY <1>1, <1>3, <2>1, <2>3, <3>2
  <2> QED BY <2>2, <2>3
<1> QED BY <1>6, <1>7

\* The endpoint checks, all of them passed.
LEMMA ProbesPassed ==
    ASSUME NEW c, NEW http, c.runtime # Nil, AnswerOK(http["health"]), AnswerOK(http["metrics"])
    PROVE  (\A k \in probeChecks(c, http) : k.passed) <=> EndpointsConform(c.runtime, http)
<1> DEFINE h == http["health"]
           m == http["metrics"]
           hc == probeOneEndpoint("HealthEndpointValid", c.runtime.health, h)
           mc == probeOneEndpoint("MetricsEndpointValid", c.runtime.metrics, m)
           hb == h.reachable /\ h.code >= 200 /\ h.code < 400
           mb == m.reachable /\ m.code = 200 /\ m.body
<1>1. (\A k \in probeChecks(c, http) : k.passed) <=>
        (c.runtime.health # Nil => hc.passed) /\ (c.runtime.metrics # Nil => mc.passed)
  BY Zenon DEF probeChecks
<1>2. hc.passed <=> c.runtime.health = "port" /\ hb
  <2>1. CASE c.runtime.health = "port"
    <3>1. hc = Check("HealthEndpointValid", hb, "error")
      BY <2>1 DEF probeOneEndpoint, evaluateProbeResult
    <3> HIDE DEF hb
    <3>2. hc.passed = hb
      BY <3>1 DEF Check
    <3> QED BY <2>1, <3>2
  <2>2. CASE c.runtime.health # "port"
    BY <2>2 DEF probeOneEndpoint, Check
  <2> QED BY <2>1, <2>2
<1>3. mc.passed <=> c.runtime.metrics = "port" /\ mb
  <2>1. CASE c.runtime.metrics = "port"
    <3>1. mc = Check("MetricsEndpointValid", mb, "error")
      BY <2>1 DEF probeOneEndpoint, evaluateProbeResult
    <3> HIDE DEF mb
    <3>2. mc.passed = mb
      BY <3>1 DEF Check
    <3> QED BY <2>1, <3>2
  <2>2. CASE c.runtime.metrics # "port"
    BY <2>2 DEF probeOneEndpoint, Check
  <2> QED BY <2>1, <2>2
<1>4. (hb <=> h.code \in 200..399) /\ (mb <=> m.code = 200 /\ m.body)
  BY DEF AnswerOK
<1> HIDE DEF hc, mc, hb, mb
<1> QED BY <1>1, <1>2, <1>3, <1>4 DEF EndpointsConform
\* checkImage, which looks at the first container only.
LEMMA FirstImagePassed ==
    ASSUME NEW c, NEW snap, NEW w, snap.pod = observeWorkload(w), WorkloadOK(w, c),
           c.image # Nil, IsImage(c.image)
    PROVE  /\ checkImage(c, snap).passed => ImageConforms(c, w)
           /\ ImageConforms(c, w) /\ Head(w.images).digest = Nil => checkImage(c, snap).passed
<1> DEFINE a == Head(w.images)
           b == snap.pod.containerImages # << >> /\ imageMatches(c.image, Head(snap.pod.containerImages))
<1>1. checkImage(c, snap).passed = b
  BY DEF checkImage, Check
<1>2. snap.pod.containerImages = w.images
  BY DEF observeWorkload
<1>3. w.images # << >> /\ IsImage(a)
  BY DEF WorkloadOK
<1>4. b <=> imageMatches(c.image, a)
  BY <1>2, <1>3
<1>5. ImageConforms(c, w) <=> /\ Repository(a) = Repository(c.image)
                              /\ c.image.tag # Nil => a.tag = c.image.tag
                              /\ c.image.digest # Nil => a.digest = c.image.digest
  BY DEF ImageConforms
<1> HIDE DEF a, b
<1>6. /\ imageMatches(c.image, a) => ImageConforms(c, w)
      /\ ImageConforms(c, w) /\ a.digest = Nil => imageMatches(c.image, a)
  BY <1>3, <1>5, ImagePassed
<1> QED BY <1>1, <1>4, <1>6 DEF a

\* The checks of a pass against the reference definition, both ways.
LEMMA ConformsLemma ==
    ASSUME EvaluatedInv
    PROVE  LET passed == \A k \in Runs \cup Probes : k.passed
           IN  /\ passed => ConformantButForKind
               /\ ConformantButForKind /\ ~ImageByDigest => passed
<1> DEFINE c == input.contract
           w == input.cluster.workload
           http == input.cluster.http
           svc == input.target.service
           r == c.runtime
           runs == \A k \in Runs : k.passed
           probes == \A k \in Probes : k.passed
           kind == checkWorkloadType(c, Snap).passed /\ checkStateModel(c, Snap).passed
           life == /\ r.strategy # Nil => checkUpgradeStrategy(c, Snap).passed
                   /\ r.grace # Nil => checkGracefulShutdown(c, Snap).passed
                   /\ r.healthDelay # Nil => checkHealthTiming(c, Snap).passed
           image == c.image # Nil => checkImage(c, Snap).passed
<1>1. /\ svc \in BOOLEAN /\ Snap.serviceExists \in BOOLEAN /\ Snap.workloadExists \in BOOLEAN
      /\ Snap.serviceExists => svc
  BY SnapLemma
<1>2. /\ ContractOK(c) /\ (w # Nil => WorkloadOK(w, c))
      /\ AnswerOK(http["health"]) /\ AnswerOK(http["metrics"])
  BY InputsAssumption DEF EvaluatedInv, InputOK
<1>3. ResourcesExist <=> (svc => Snap.serviceExists) /\ Snap.workloadExists
  BY ResourcesLemma
<1>4. Snap.serviceExists => Snap.servicePorts = input.cluster.service
  BY DEF Snap, Observe
<1>5. runs <=>
        /\ Snap.workloadExists
        /\ svc => Snap.serviceExists
        /\ svc /\ Snap.serviceExists => c.ports \subseteq Snap.servicePorts
        /\ Snap.workloadExists /\ r # Nil => kind /\ life /\ image
  <2> DEFINE snap == Snap
  <2> HIDE DEF snap
  <2>1. /\ svc \in BOOLEAN /\ snap.serviceExists \in BOOLEAN /\ snap.workloadExists \in BOOLEAN
    BY <1>1 DEF snap
  <2>2. (\A k \in Validate(c, snap, svc) : k.passed) <=>
          /\ snap.workloadExists
          /\ svc => snap.serviceExists
          /\ svc /\ snap.serviceExists => c.ports \subseteq snap.servicePorts
          /\ snap.workloadExists /\ c.runtime # Nil =>
               /\ checkWorkloadType(c, snap).passed
               /\ checkStateModel(c, snap).passed
               /\ c.runtime.strategy # Nil => checkUpgradeStrategy(c, snap).passed
               /\ c.runtime.grace # Nil => checkGracefulShutdown(c, snap).passed
               /\ c.image # Nil => checkImage(c, snap).passed
               /\ c.runtime.healthDelay # Nil => checkHealthTiming(c, snap).passed
    BY <2>1, RunsPassed, ExistencePassed
  <2> QED BY <2>2 DEF snap, Runs
<1>6. r # Nil => (probes <=> (Snap.serviceExists => EndpointsConform(r, http)))
  BY <1>2, ProbesPassed DEF Probes
<1>7. r = Nil => probes
  BY DEF Probes, probeChecks
<1>8. ASSUME Snap.workloadExists, r # Nil
      PROVE  /\ kind <=> KindConforms(r, w) /\ StorageConforms(r, w)
             /\ life <=> LifecycleConforms(r, w)
             /\ image => ImageConforms(c, w)
             /\ ImageConforms(c, w) /\ ~ImageByDigest => image
  <2>1. w # Nil /\ Snap.workloadKind = w.kind /\ Snap.pod = observeWorkload(w)
    BY <1>8, FoundWorkload
  <2>2. WorkloadOK(w, c) /\ w.claimTemplates \in BOOLEAN
        /\ r.stateType \in {"stateful", "stateless", "hybrid"}
        /\ (c.image # Nil => IsImage(c.image))
    BY <1>2, <1>8, <2>1 DEF WorkloadOK, ContractOK
  <2>3. kind <=> KindConforms(r, w) /\ StorageConforms(r, w)
    BY <2>1, <2>2, KindPassed, StatePassed
  <2>4. life <=> LifecycleConforms(r, w)
    BY <2>1, <2>2, LifecyclePassed
  <2>5. CASE c.image = Nil
    BY <2>3, <2>4, <2>5 DEF ImageConforms
  <2>6. CASE c.image # Nil
    <3>1. ImageByDigest <=> Head(w.images).digest # Nil
      BY <2>6 DEF ImageByDigest
    <3>2. /\ checkImage(c, Snap).passed => ImageConforms(c, w)
          /\ ImageConforms(c, w) /\ Head(w.images).digest = Nil => checkImage(c, Snap).passed
      BY <2>1, <2>2, <2>6, FirstImagePassed
    <3> QED BY <2>3, <2>4, <2>6, <3>1, <3>2
  <2> QED BY <2>5, <2>6
<1>9. ConformantButForKind <=>
        /\ ResourcesExist
        /\ svc => c.ports \subseteq input.cluster.service
        /\ r # Nil => /\ KindConforms(r, w) /\ StorageConforms(r, w)
                      /\ LifecycleConforms(r, w) /\ ImageConforms(c, w)
                      /\ svc => EndpointsConform(r, http)
  BY DEF ConformantButForKind
<1>10. (\A k \in Runs \cup Probes : k.passed) <=> runs /\ probes
  OBVIOUS
<1> HIDE DEF c, w, http, svc, r, runs, probes, kind, life, image
<1>11. (runs /\ probes) => ConformantButForKind
  BY <1>1, <1>3, <1>4, <1>5, <1>6, <1>8, <1>9
<1>12. ConformantButForKind /\ ~ImageByDigest => runs /\ probes
  BY <1>1, <1>3, <1>4, <1>5, <1>6, <1>7, <1>8, <1>9
<1> QED BY <1>10, <1>11, <1>12

\* The status says Compliant only of a cluster that conforms to the contract,
\* up to the Deployment that the state model's rules expect without persistent
\* data: Observe, Validate, probeEndpoints and computeFinalContractStatus
\* together overlook no other difference, for any contract the schema admits
\* and any cluster.
THEOREM CompliantMeansConformant == Spec => []CompliantIsConformant
<1>1. EvaluatedInv => CompliantIsConformant
  <2> SUFFICES ASSUME EvaluatedInv, pass = "runtime", status.contractStatus = "Compliant"
               PROVE  ConformantButForKind
    BY DEF CompliantIsConformant, Evaluated, Conformant
  <2>1. \A k \in Runs \cup Probes : k.passed
    BY CompliantLemma DEF EvaluatedInv
  <2> QED BY <2>1, ConformsLemma
<1> QED BY <1>1, EvaluatedInvariant, PTL

\* No false alarm: a conforming cluster whose readiness gate is not unmet is
\* reported Compliant, unless a declared image runs by digest.
THEOREM ConformantMeansCompliant == Spec => []ConformantIsCompliant
<1>1. EvaluatedInv => ConformantIsCompliant
  <2> SUFFICES ASSUME EvaluatedInv, pass = "runtime", ConformantButForKind, ~GateUnmet, ~ImageByDigest
               PROVE  status.contractStatus = "Compliant"
    BY DEF ConformantIsCompliant, Evaluated
  <2>1. \A k \in Runs \cup Probes : k.passed
    BY ConformsLemma
  <2>2. input.contract.readiness \in {Nil, "met", "unmet", "expiring"} /\ input.expired \in BOOLEAN
    BY InputsAssumption DEF EvaluatedInv, InputOK, ContractOK
  <2>3. input.contract.readiness # Nil => gateMet(input.contract, input.expired)
    BY <2>2 DEF GateUnmet, gateMet
  <2>4. Outcome.conditions["ReadinessSatisfied"] # "False"
    <3>1. Outcome.conditions["ReadinessSatisfied"] =
            IF input.contract.readiness = Nil THEN "absent"
            ELSE IF gateMet(input.contract, input.expired) THEN "True" ELSE "False"
      BY ConditionsLemma, PreparedLemma
    <3> QED BY <2>3, <3>1
  <2> QED BY <2>1, <2>4, CompliantLemma DEF EvaluatedInv
<1> QED BY <1>1, EvaluatedInvariant, PTL
=============================================================================
