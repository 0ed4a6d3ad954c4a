----------------------- MODULE PactoControllerProofs ------------------------
(***************************************************************************)
(* Theorems about PactoController, for every set of specs, references,     *)
(* contracts, clusters and resourceVersions and all bounds.                *)
(***************************************************************************)
EXTENDS PactoController, ComplianceProofs

\* ----- the inductive invariant --------------------------------------------

\* What a held version of the object owes to the object in the API server:
\* it is no newer, and the same resourceVersion means the same spec.
Consistent(o) ==
    /\ o.gen <= pacto.gen
    /\ o.status.observedGeneration <= o.gen
    /\ o.rv = pacto.rv => o.gen = pacto.gen /\ o.spec = pacto.spec
HeldConsistent == \A o \in Held : Consistent(o)

\* The generation counts edits.
GenerationCounts == pacto.gen <= edits + 1

\* The status under construction, by program counter.
WorkerDerives ==
    worker.pc # "idle" =>
        /\ DerivedFrom(worker.status, worker.obj.spec)
        /\ worker.pc # "write" => worker.status.contractStatus = Nil
        /\ worker.pc \in {"revision", "service", "workload", "probe"} =>
             worker.loaded \in Contracts
        /\ worker.pc \in {"service", "workload", "probe"} =>
             ~IsReference(worker.obj.spec.target)
        /\ worker.pc = "probe" => /\ worker.snap.serviceExists \in BOOLEAN
                                  /\ worker.snap.workloadExists \in BOOLEAN

\* A status update in flight carries what its pass derived.
InflightDerives ==
    inflight # Nil =>
        /\ DerivedFrom(inflight.status.derived, inflight.obj.spec)
        /\ inflight.status.observedGeneration = inflight.obj.gen

\* ObservedGenerationSound, of a deleted object too.
StoredDerives ==
    pacto.status.observedGeneration = pacto.gen
        => DerivedFrom(pacto.status.derived, pacto.spec)

IInv ==
    /\ TypeOK /\ GenerationCounts /\ HeldConsistent
    /\ WorkerDerives /\ InflightDerives /\ StoredDerives

\* Every revision a live object refers to exists.
RevisionsKept ==
    pacto.exists =>
        /\ \A o \in Held : o.status.currentRevision \in revisions \cup {Nil}
        /\ inflight # Nil => inflight.status.currentRevision \in revisions \cup {Nil}

\* ----- lemmas on the operators of a pass ----------------------------------

\* The empty status of resetDerivedStatus is a status that says nothing.
LEMMA EmptyStatusLemma ==
    ASSUME NEW spec
    PROVE  EmptyStatus \in DerivedStatus /\ DerivedFrom(EmptyStatus, spec)
           /\ EmptyStatus.contractStatus = Nil
BY ContractsAssumption DEF EmptyStatus, DerivedStatus, DerivedFrom, NoConditions, ConditionTypes, RuntimeTypes,
   ProbeTypes, ContractStatuses

\* failReconciliation's status is of the right type and says nothing about the
\* target.
LEMMA FailStatusLemma ==
    ASSUME NEW spec, NEW s \in DerivedStatus, DerivedFrom(s, spec)
    PROVE  failStatus(s) \in DerivedStatus /\ DerivedFrom(failStatus(s), spec)
<1>1. failStatus(s) \in DerivedStatus
  BY DEF failStatus, setCondition, Summary, DerivedStatus, ContractStatuses, ConditionTypes
<1>2. DerivedFrom(failStatus(s), spec)
  BY DEF failStatus, setCondition, Summary, DerivedStatus, DerivedFrom
<1> QED BY <1>1, <1>2

\* populateContractStatus records a contract with the spec's overrides.
LEMMA PopulateLemma ==
    ASSUME NEW spec, NEW s \in DerivedStatus, DerivedFrom(s, spec),
           NEW c \in EffectiveContracts, c.overridden = spec.overrides
    PROVE  LET v == populateContractStatus(s, c)
           IN  v \in DerivedStatus /\ DerivedFrom(v, spec) /\ v.contractStatus = s.contractStatus
<1>1. populateContractStatus(s, c) \in DerivedStatus
  BY DEF populateContractStatus, setCondition, DerivedStatus, ConditionTypes
<1>2. /\ DerivedFrom(populateContractStatus(s, c), spec)
      /\ populateContractStatus(s, c).contractStatus = s.contractStatus
  BY DEF populateContractStatus, setCondition, DerivedStatus, DerivedFrom
<1> QED BY <1>1, <1>2

\* reconcileReadiness leaves everything but its own condition alone.
LEMMA ReadinessLemma ==
    ASSUME NEW spec, NEW s \in DerivedStatus, DerivedFrom(s, spec), NEW c, NEW past
    PROVE  LET r == reconcileReadiness(s, c, past)
           IN  r \in DerivedStatus /\ DerivedFrom(r, spec) /\ r.contractStatus = s.contractStatus
<1>1. reconcileReadiness(s, c, past) \in DerivedStatus
  BY DEF reconcileReadiness, setCondition, DerivedStatus, ConditionTypes
<1>2. /\ DerivedFrom(reconcileReadiness(s, c, past), spec)
      /\ reconcileReadiness(s, c, past).contractStatus = s.contractStatus
  BY DEF reconcileReadiness, setCondition, DerivedStatus, DerivedFrom
<1> QED BY <1>1, <1>2

\* The contract stage (steps 4 to 6b of Reconcile) starts from an empty status.
LEMMA ContractStageLemma ==
    ASSUME NEW spec \in Specs, NEW x \in Contracts \cup {Nil}, NEW past \in BOOLEAN,
           NEW s \in DerivedStatus, DerivedFrom(s, spec), s.contractStatus = Nil
    PROVE  LET t == contractStage(s, spec, x, past)
           IN  /\ t \in DerivedStatus /\ DerivedFrom(t, spec)
               /\ passes(x, spec) => t.contractStatus = Nil /\ x \in Contracts
<1> DEFINE p == [s EXCEPT !.resolutionPolicy = resolutionPolicy(spec.oci)]
           c == effectiveContract(x, spec)
           v == populateContractStatus(p, c)
           r == reconcileReadiness(v, c, past)
<1>1. p \in DerivedStatus /\ DerivedFrom(p, spec) /\ p.contractStatus = Nil
  BY DEF DerivedStatus, DerivedFrom, resolutionPolicy
<1>2. failStatus(p) \in DerivedStatus /\ DerivedFrom(failStatus(p), spec)
  BY <1>1, FailStatusLemma
<1>3. CASE ~passes(x, spec)
  BY <1>2, <1>3 DEF contractStage, passes
<1>4. CASE passes(x, spec)
  <2>1. x \in Contracts
    BY <1>4 DEF passes
  <2>2. c \in EffectiveContracts /\ c.overridden = spec.overrides
    BY <2>1, ContractsAssumption DEF EffectiveContracts, effectiveContract
  <2>3. v \in DerivedStatus /\ DerivedFrom(v, spec) /\ v.contractStatus = Nil
    BY <1>1, <2>2, PopulateLemma
  <2>4. r \in DerivedStatus /\ DerivedFrom(r, spec) /\ r.contractStatus = Nil
    BY <2>3, ReadinessLemma
  <2>5. contractStage(s, spec, x, past) = r
    BY <1>4 DEF contractStage, passes
  <2> QED BY <2>1, <2>4, <2>5
<1> QED BY <1>3, <1>4

\* The outcomes of steps 8 and 10.
LEMMA ReferenceLemma ==
    ASSUME NEW spec, NEW s \in DerivedStatus, DerivedFrom(s, spec), IsReference(spec.target)
    PROVE  referenceStatus(s) \in DerivedStatus /\ DerivedFrom(referenceStatus(s), spec)
BY DEF referenceStatus, Summary, DerivedStatus, DerivedFrom, ContractStatuses

\* A failed observation: status Unknown, of a target only.
LEMMA UnobservedLemma ==
    ASSUME NEW spec, NEW s \in DerivedStatus, DerivedFrom(s, spec), ~IsReference(spec.target)
    PROVE  unobservedStatus(s) \in DerivedStatus /\ DerivedFrom(unobservedStatus(s), spec)
<1>1. unobservedStatus(s) \in DerivedStatus
  BY DEF unobservedStatus, setCondition, Summary, DerivedStatus, ContractStatuses, ConditionTypes
<1>2. DerivedFrom(unobservedStatus(s), spec)
  BY DEF unobservedStatus, setCondition, Summary, DerivedStatus, DerivedFrom
<1> QED BY <1>1, <1>2

\* Steps 11 to 13.
LEMMA ApplyLemma ==
    ASSUME NEW s \in DerivedStatus, NEW checks, IsFiniteSet(checks),
           NEW snap, snap.workloadExists \in BOOLEAN
    PROVE  LET a == applyValidationResult(s, checks, snap)
           IN  /\ a \in DerivedStatus
               /\ a.summary \in [total : Nat, passed : Nat, failed : Nat]
               /\ a.conditions = setConditions(s.conditions, checks)
               /\ a.contract = s.contract /\ a.resolutionPolicy = s.resolutionPolicy
<1>1. /\ Cardinality(checks) + 1 \in Nat /\ Cardinality(PassedOf(checks)) + 1 \in Nat
      /\ Cardinality(FailedOf(checks)) \in Nat
  BY CountsLemma
<1>2. setConditions(s.conditions, checks) \in [ConditionTypes -> {"absent", "True", "False"}]
  BY SetConditionsLemma DEF DerivedStatus
<1> QED BY <1>1, <1>2 DEF applyValidationResult, Summary, DerivedStatus

\* Step 14.
LEMMA ProbeLemma ==
    ASSUME NEW s \in DerivedStatus, s.summary \in [total : Nat, passed : Nat, failed : Nat],
           NEW c, NEW http
    PROVE  LET p == probeEndpoints(s, c, http)
           IN  /\ p \in DerivedStatus
               /\ p.conditions = setConditions(s.conditions, probeChecks(c, http))
               /\ p.contract = s.contract /\ p.resolutionPolicy = s.resolutionPolicy
<1> DEFINE checks == probeChecks(c, http)
           E == {e \in {"health", "metrics"} : c.runtime # Nil /\ c.runtime[e] = "port"}
           n == [total |-> s.summary.total + Cardinality(checks),
                 passed |-> s.summary.passed + Cardinality(PassedOf(checks)),
                 failed |-> s.summary.failed + Cardinality(FailedOf(checks))]
<1>1. /\ Cardinality(checks) \in Nat /\ Cardinality(PassedOf(checks)) \in Nat
      /\ Cardinality(FailedOf(checks)) \in Nat
  BY CountsLemma, ProbeChecksLemma
<1>2. setConditions(s.conditions, checks) \in [ConditionTypes -> {"absent", "True", "False"}]
  BY SetConditionsLemma DEF DerivedStatus
<1>3. E \in SUBSET {"health", "metrics"}
  OBVIOUS
<1>4. n \in [total : Nat, passed : Nat, failed : Nat]
  <2> HIDE DEF checks
  <2> QED BY <1>1
<1>5. probeEndpoints(s, c, http) =
        [s EXCEPT !.conditions = setConditions(s.conditions, checks),
                  !.endpoints = E, !.summary = n]
  BY DEF probeEndpoints, Summary, DerivedStatus
<1> HIDE DEF checks, E, n
<1>6. /\ probeEndpoints(s, c, http) \in DerivedStatus
      /\ probeEndpoints(s, c, http).conditions = setConditions(s.conditions, checks)
      /\ probeEndpoints(s, c, http).contract = s.contract
      /\ probeEndpoints(s, c, http).resolutionPolicy = s.resolutionPolicy
  <2> DEFINE cs == setConditions(s.conditions, checks)
  <2> HIDE DEF cs
  <2>1. cs \in [ConditionTypes -> {"absent", "True", "False"}]
    BY <1>2 DEF cs
  <2>2. [s EXCEPT !.conditions = cs, !.endpoints = E, !.summary = n] \in DerivedStatus
    BY <1>3, <1>4, <2>1 DEF DerivedStatus
  <2>3. /\ [s EXCEPT !.conditions = cs, !.endpoints = E, !.summary = n].conditions = cs
        /\ [s EXCEPT !.conditions = cs, !.endpoints = E, !.summary = n].contract = s.contract
        /\ [s EXCEPT !.conditions = cs, !.endpoints = E, !.summary = n].resolutionPolicy
             = s.resolutionPolicy
    BY DEF DerivedStatus
  <2> QED BY <1>5, <2>2, <2>3 DEF cs
<1> QED BY <1>6 DEF checks

\* Steps 11 to 15 of a pass with a target: the verdict is one of three, and
\* nothing is said of a Service the target does not name.
LEMMA RuntimeStatusLemma ==
    ASSUME NEW spec, NEW s \in DerivedStatus, DerivedFrom(s, spec), ~IsReference(spec.target),
           NEW c, NEW snap, snap.workloadExists \in BOOLEAN, NEW http
    PROVE  LET r == runtimeStatus(s, c, snap, spec.target.service, http)
           IN  r \in DerivedStatus /\ DerivedFrom(r, spec)
<1> DEFINE checks == Validate(c, snap, spec.target.service)
           a == applyValidationResult(s, checks, snap)
           p == probeEndpoints(a, c, http)
           q == IF snap.serviceExists THEN p ELSE a
           r == finalStatus(q)
<1>1. /\ a \in DerivedStatus
      /\ a.summary \in [total : Nat, passed : Nat, failed : Nat]
      /\ a.conditions = setConditions(s.conditions, checks)
      /\ a.contract = s.contract /\ a.resolutionPolicy = s.resolutionPolicy
  BY ApplyLemma, ValidateLemma
<1>2. /\ p \in DerivedStatus
      /\ p.conditions = setConditions(a.conditions, probeChecks(c, http))
      /\ p.contract = s.contract /\ p.resolutionPolicy = s.resolutionPolicy
  BY <1>1, ProbeLemma
<1>3. ~spec.target.service => a.conditions["ServiceExists"] = s.conditions["ServiceExists"]
  BY <1>1, ValidateLemma, SetConditionsLemma DEF DerivedStatus
<1>4. p.conditions["ServiceExists"] = a.conditions["ServiceExists"]
  BY <1>1, <1>2, ProbeChecksLemma, SetConditionsLemma DEF DerivedStatus
<1>5. /\ q \in DerivedStatus /\ q.contract = s.contract
      /\ q.resolutionPolicy = s.resolutionPolicy
      /\ ~spec.target.service => q.conditions["ServiceExists"] = s.conditions["ServiceExists"]
  BY <1>1, <1>2, <1>3, <1>4
<1> HIDE DEF q
<1>6. computeFinalContractStatus(q.conditions) \in {"NonCompliant", "Warning", "Compliant"}
  BY DEF computeFinalContractStatus
<1>7. r \in DerivedStatus
  BY <1>5, <1>6 DEF finalStatus, DerivedStatus, ContractStatuses
<1>8. DerivedFrom(r, spec)
  BY <1>5, <1>6 DEF finalStatus, DerivedFrom, DerivedStatus
<1>9. runtimeStatus(s, c, snap, spec.target.service, http) = r
  BY DEF runtimeStatus, q
<1> QED BY <1>7, <1>8, <1>9

\* ----- lemmas on versions and copies ---------------------------------------

\* Every version somebody holds is an object.
LEMMA HeldLemma ==
    ASSUME TypeOK
    PROVE  \A o \in Held : o \in Pacto
<1>1. \A i \in DOMAIN watch : watch[i] \in Pacto
  BY DEF TypeOK, ObjectsOK
<1> QED BY <1>1 DEF TypeOK, ObjectsOK, WorkerOK, Held

\* A version the API server stores differs from all held ones.
LEMMA StoreLemma ==
    ASSUME TypeOK, NEW obj \in Pacto, Store(obj)
    PROVE  /\ pacto' \in Pacto /\ watch' \in Seq(Pacto)
           /\ pacto'.exists = obj.exists /\ pacto'.gen = obj.gen
           /\ pacto'.spec = obj.spec /\ pacto'.status = obj.status
           /\ \A o \in Held : o.rv # pacto'.rv
           /\ \A i \in DOMAIN watch' : watch'[i] = pacto' \/ \E j \in DOMAIN watch : watch'[i] = watch[j]
<1>1. InUse \subseteq Versions
  BY HeldLemma DEF InUse, Pacto
<1>2. \E v \in Versions : v \notin InUse
  BY <1>1 DEF Store, CanStore
<1>3. FreshVersion \in Versions /\ FreshVersion \notin InUse
  BY <1>2 DEF FreshVersion
<1>4. pacto' = [obj EXCEPT !.rv = FreshVersion] /\ watch' = Append(watch, pacto')
  BY DEF Store
<1>5. /\ pacto' \in Pacto /\ pacto'.rv = FreshVersion
      /\ pacto'.exists = obj.exists /\ pacto'.gen = obj.gen
      /\ pacto'.spec = obj.spec /\ pacto'.status = obj.status
  BY <1>3, <1>4 DEF Pacto
<1>6. \A o \in Held : o.rv # pacto'.rv
  BY <1>3, <1>5 DEF InUse
<1>7. watch \in Seq(Pacto)
  BY DEF TypeOK, ObjectsOK
<1>8. /\ watch' \in Seq(Pacto)
      /\ \A i \in DOMAIN watch' : watch'[i] = pacto' \/ \E j \in DOMAIN watch : watch'[i] = watch[j]
  BY <1>4, <1>5, <1>7
<1> QED BY <1>5, <1>6, <1>8

\* Copies stay consistent when the object does not change and no new copy
\* appears.
LEMMA KeepConsistent ==
    ASSUME HeldConsistent, pacto' = pacto, \A o \in Held' : o \in Held
    PROVE  HeldConsistent'
BY DEF HeldConsistent, Consistent

\* Copies stay consistent when a new version is stored.
LEMMA StoreConsistent ==
    ASSUME TypeOK, HeldConsistent, NEW obj \in Pacto, Store(obj),
           obj.gen >= pacto.gen, obj.status.observedGeneration <= obj.gen,
           cached' = cached, worker' \in {worker, Idle}, inflight' \in {inflight, Nil}
    PROVE  HeldConsistent'
<1>1. /\ pacto' \in Pacto /\ pacto'.gen = obj.gen /\ pacto'.status = obj.status
      /\ \A o \in Held : o.rv # pacto'.rv
      /\ \A i \in DOMAIN watch' : watch'[i] = pacto' \/ \E j \in DOMAIN watch : watch'[i] = watch[j]
  BY StoreLemma
<1>2. \A o \in Held' : o \in Held \/ o = pacto'
  BY <1>1 DEF Held, Idle
<1>3. \A o \in Held : Consistent(o)'
  <2> SUFFICES ASSUME NEW o \in Held PROVE Consistent(o)'
    OBVIOUS
  <2>1. o \in Pacto /\ pacto \in Pacto /\ Consistent(o) /\ o.rv # pacto'.rv
    BY <1>1, HeldLemma DEF HeldConsistent, TypeOK, ObjectsOK
  <2>2. o.gen <= pacto'.gen
    BY <1>1, <2>1 DEF Consistent, Pacto, Generations
  <2> QED BY <2>1, <2>2 DEF Consistent
<1>4. Consistent(pacto)'
  BY <1>1 DEF Consistent, Pacto, Generations
<1> QED BY <1>2, <1>3, <1>4 DEF HeldConsistent

\* ----- the invariant is inductive -----------------------------------------

\* The operator starts with consistent copies and nothing in flight.
LEMMA InitLemma == Init => IInv
<1> SUFFICES ASSUME Init PROVE IInv
  OBVIOUS
<1> USE BoundsAssumption
<1>1. PICK s \in Specs :
        pacto = [exists |-> TRUE, rv |-> CHOOSE v \in Versions : TRUE, gen |-> 1,
                 spec |-> s, status |-> FreshStatus]
  BY DEF Init
<1>2. FreshStatus \in PactoStatus /\ FreshStatus.observedGeneration = 0
  BY EmptyStatusLemma DEF FreshStatus, PactoStatus
<1>3. pacto \in Pacto /\ pacto.gen = 1 /\ pacto.status.observedGeneration = 0
  BY <1>1, <1>2 DEF Pacto, Generations
<1>4. ObjectsOK
  BY <1>3 DEF Init, ObjectsOK
<1>5. WorkerOK
  BY EmptyStatusLemma DEF Init, WorkerOK, Idle
<1>6. RestOK
  <2>1. queued \in BOOLEAN /\ timer \in BOOLEAN /\ secret \in BOOLEAN /\ expired \in BOOLEAN
    BY DEF Init
  <2>2. /\ loader \in [Refs -> Contracts \cup {Nil, Failed}] /\ revisions \subseteq Contracts
        /\ registry \in [Refs -> Contracts \cup {Nil}] /\ cluster \in Clusters
    BY DEF Init
  <2>3. /\ gateEvents \in Seq({"Unmet", "Recovered"})
        /\ edits \in 0..MaxEdits /\ faults \in 0..MaxFaults
    BY DEF Init
  <2> QED BY <2>1, <2>2, <2>3 DEF RestOK
<1>7. Held = {pacto}
  BY DEF Init, Held, Idle
<1>8. HeldConsistent
  BY <1>3, <1>7 DEF HeldConsistent, Consistent
<1>9. GenerationCounts /\ WorkerDerives /\ InflightDerives /\ StoredDerives
  BY <1>3 DEF Init, Idle, GenerationCounts, WorkerDerives, InflightDerives, StoredDerives
<1> QED BY <1>4, <1>5, <1>6, <1>8, <1>9 DEF IInv, TypeOK

\* Steps of the environment, the caches and the clock.
LEMMA QuietLemma ==
    ASSUME IInv, UNCHANGED <<pacto, watch, cached, worker, inflight>>,
           RestOK', edits' >= edits
    PROVE  IInv'
<1>1. ObjectsOK' /\ WorkerOK'
  BY DEF IInv, TypeOK, ObjectsOK, WorkerOK, Idle
<1>2. GenerationCounts'
  BY DEF IInv, TypeOK, ObjectsOK, RestOK, GenerationCounts, Pacto, Generations
<1>3. HeldConsistent'
  BY KeepConsistent DEF IInv, Held
<1>4. WorkerDerives' /\ InflightDerives' /\ StoredDerives'
  BY DEF IInv, WorkerDerives, InflightDerives, StoredDerives
<1> QED BY <1>1, <1>2, <1>3, <1>4 DEF IInv, TypeOK

\* Steps of a pass before its status is written: they leave the object alone.
LEMMA PassLemma ==
    ASSUME IInv, UNCHANGED <<pacto, watch, cached, inflight, edits>>, RestOK', WorkerOK',
           WorkerDerives', worker.pc # "idle",
           worker'.obj \in Pacto,
           worker'.obj.gen = worker.obj.gen, worker'.obj.rv = worker.obj.rv,
           worker'.obj.spec = worker.obj.spec,
           worker'.obj.status.observedGeneration = worker.obj.status.observedGeneration
    PROVE  IInv'
<1>1. ObjectsOK'
  BY DEF IInv, TypeOK, ObjectsOK
<1>2. GenerationCounts'
  BY DEF IInv, GenerationCounts
<1>3. HeldConsistent'
  <2>1. Consistent(worker.obj)
    BY DEF IInv, HeldConsistent, Held
  <2>2. Consistent(worker'.obj)
    BY <2>1 DEF Consistent
  <2>3. \A o \in Held' : o \in Held \/ o = worker'.obj
    BY DEF Held
  <2>4. \A o \in Held' : Consistent(o)
    BY <2>2, <2>3 DEF IInv, HeldConsistent
  <2> QED BY <2>4 DEF HeldConsistent, Consistent
<1>4. InflightDerives' /\ StoredDerives'
  BY DEF IInv, InflightDerives, StoredDerives
<1> QED BY <1>1, <1>2, <1>3, <1>4 DEF IInv, TypeOK

\* The worker becomes idle without a write.
LEMMA IdleLemma ==
    /\ Idle = [pc |-> Idle.pc, obj |-> Idle.obj, wasUnmet |-> Idle.wasUnmet,
               loaded |-> Idle.loaded, service |-> Idle.service,
               snap |-> Idle.snap, status |-> Idle.status]
    /\ Idle.pc = "idle" /\ Idle.wasUnmet \in BOOLEAN /\ Idle.loaded = Nil
    /\ Idle.status \in DerivedStatus
BY EmptyStatusLemma DEF Idle

\* Fetch starts a pass with an empty status of the informer's copy.
LEMMA FetchLemma == ASSUME IInv, Fetch PROVE IInv'
<1>1. UNCHANGED <<pacto, watch, cached, inflight, edits>>
  BY DEF Fetch, api, env
<1>2. RestOK'
  BY DEF IInv, TypeOK, RestOK, Fetch, env
<1>3. cached \in Pacto
  BY DEF IInv, TypeOK, ObjectsOK
<1>4. ObjectsOK' /\ GenerationCounts' /\ InflightDerives' /\ StoredDerives'
  BY <1>1 DEF IInv, TypeOK, ObjectsOK, GenerationCounts, InflightDerives, StoredDerives
<1>5. CASE ~cached.exists
  <2>1. worker' = Idle
    BY <1>5 DEF Fetch
  <2>2. WorkerOK' /\ WorkerDerives'
    BY <2>1, IdleLemma DEF WorkerOK, WorkerDerives
  <2>3. \A o \in Held' : o \in Held
    BY <1>1, <2>1, IdleLemma DEF Held
  <2>4. HeldConsistent'
    BY <1>1, <2>3, KeepConsistent DEF IInv
  <2> QED BY <1>2, <1>4, <2>2, <2>4 DEF IInv, TypeOK
<1>6. CASE cached.exists
  <2>1. /\ worker'.obj = cached /\ worker'.pc \in {"auth", "load"}
        /\ worker'.wasUnmet \in BOOLEAN /\ worker'.loaded = Nil
        /\ worker'.status = EmptyStatus
        /\ worker' = [pc |-> worker'.pc, obj |-> worker'.obj, wasUnmet |-> worker'.wasUnmet,
                      loaded |-> worker'.loaded, service |-> worker'.service,
                      snap |-> worker'.snap, status |-> worker'.status]
    BY <1>6 DEF Fetch, Idle, resetDerivedStatus, wasUnmetOf
  <2>2. WorkerOK' /\ WorkerDerives'
    BY <1>3, <2>1, EmptyStatusLemma DEF WorkerOK, WorkerDerives
  <2>3. \A o \in Held' : o \in Held
    BY <1>1, <2>1 DEF Held
  <2>4. HeldConsistent'
    BY <1>1, <2>3, KeepConsistent DEF IInv
  <2> QED BY <1>2, <1>4, <2>2, <2>4 DEF IInv, TypeOK
<1> QED BY <1>5, <1>6

\* What the facts on the pass in progress amount to.
LEMMA BusyLemma ==
    ASSUME IInv, worker.pc # "idle"
    PROVE  /\ worker.obj \in Pacto /\ worker.obj.spec \in Specs
           /\ worker.status \in DerivedStatus /\ DerivedFrom(worker.status, worker.obj.spec)
BY DEF IInv, TypeOK, WorkerOK, WorkerDerives, Pacto

\* ResolveAuth: the pass goes on or fails.
LEMMA ResolveAuthLemma == ASSUME IInv, ResolveAuth PROVE IInv'
<1>1. UNCHANGED <<pacto, watch, cached, inflight, edits>> /\ worker.pc = "auth"
  BY DEF ResolveAuth, api, env
<1>2. RestOK'
  <2>1. faults' \in 0..MaxFaults
    BY BoundsAssumption DEF IInv, TypeOK, RestOK, ResolveAuth
  <2> QED BY <2>1 DEF IInv, TypeOK, RestOK, ResolveAuth, env
<1>3. failStatus(worker.status) \in DerivedStatus
      /\ DerivedFrom(failStatus(worker.status), worker.obj.spec)
  BY <1>1, BusyLemma, FailStatusLemma
<1>4. /\ worker' = [worker EXCEPT !.pc = "load"]
         \/ worker' = [worker EXCEPT !.pc = "write", !.status = failStatus(worker.status)]
      /\ WorkerOK /\ WorkerDerives
  BY DEF ResolveAuth, IInv, TypeOK, WorkerOK
<1>5. worker'.obj = worker.obj
  BY <1>4 DEF WorkerOK
<1>6. WorkerOK' /\ WorkerDerives'
  BY <1>1, <1>3, <1>4 DEF WorkerOK, WorkerDerives
<1> QED BY <1>1, <1>2, <1>5, <1>6, BusyLemma, PassLemma

\* The events and the worker after a load that answered x.
LEMMA LoadedLemma ==
    ASSUME IInv, worker.pc = "load", NEW x \in Contracts \cup {Nil}, Loaded(x)
    PROVE  WorkerOK' /\ WorkerDerives' /\ worker'.obj = worker.obj
           /\ gateEvents' \in Seq({"Unmet", "Recovered"})
<1> DEFINE spec == worker.obj.spec
           s == contractStage(worker.status, spec, x, expired)
<1>1. /\ worker' = [worker EXCEPT !.status = s, !.loaded = x,
                                  !.pc = IF passes(x, spec) THEN "revision" ELSE "write"]
      /\ gateEvents' = lastTwo(gateEvent(s, worker.wasUnmet))
  BY DEF Loaded
<1>2. WorkerOK /\ WorkerDerives /\ expired \in BOOLEAN
      /\ gateEvents \in Seq({"Unmet", "Recovered"})
  BY DEF IInv, TypeOK, RestOK
<1>3. worker.status.contractStatus = Nil
  BY <1>2 DEF WorkerDerives
<1>4. /\ s \in DerivedStatus /\ DerivedFrom(s, spec)
      /\ passes(x, spec) => s.contractStatus = Nil /\ x \in Contracts
  BY <1>2, <1>3, BusyLemma, ContractStageLemma
<1> HIDE DEF s
<1>5. WorkerOK' /\ WorkerDerives' /\ worker'.obj = worker.obj
  BY <1>1, <1>2, <1>4 DEF WorkerOK, WorkerDerives
<1>6. gateEvent(s, worker.wasUnmet) \in Seq({"Unmet", "Recovered"})
  BY <1>2 DEF gateEvent
<1>7. gateEvents' \in Seq({"Unmet", "Recovered"})
  <2> DEFINE g == gateEvent(s, worker.wasUnmet)
  <2>1. ASSUME NEW e \in Seq({"Unmet", "Recovered"})
        PROVE  lastTwo(e) \in Seq({"Unmet", "Recovered"})
    BY DEF lastTwo
  <2> QED BY <1>1, <1>6, <2>1
<1> QED BY <1>5, <1>7

\* Load, from the cache, the registry or the spec itself.
LEMMA LoadLemma == ASSUME IInv, Load PROVE IInv'
<1> DEFINE spec == worker.obj.spec
<1>1. /\ UNCHANGED <<pacto, watch, cached, inflight, edits, queued, timer, revisions,
                     registry, cluster, secret, expired>>
      /\ worker.pc = "load"
  BY DEF Load, api, env
<1>2. spec \in Specs /\ spec.oci \in Refs \cup {Nil} /\ spec.inline \in Contracts \cup {Nil}
  BY <1>1, BusyLemma, SpecsAssumption
<1>3. RestOK /\ faults \in 0..MaxFaults /\ loader \in [Refs -> Contracts \cup {Nil, Failed}]
  BY DEF IInv, TypeOK, RestOK
<1>4. PICK x \in Contracts \cup {Nil} :
        /\ Loaded(x)
        /\ loader' = loader \/ (/\ spec.oci \in Refs
                               /\ loader' = [loader EXCEPT ![spec.oci] = cacheEntry(x, spec)])
        /\ faults' \in 0..MaxFaults
  <2>1. CASE /\ ~fromRegistry(spec) /\ Loaded(spec.inline) /\ UNCHANGED <<loader, faults>>
    BY <1>2, <1>3, <2>1
  <2>2. CASE /\ fromRegistry(spec) /\ cachedAnswer(spec)
             /\ Loaded(IF loader[spec.oci] = Failed THEN Nil ELSE loader[spec.oci])
             /\ UNCHANGED <<loader, faults>>
    <3>1. (IF loader[spec.oci] = Failed THEN Nil ELSE loader[spec.oci]) \in Contracts \cup {Nil}
      BY <1>2, <1>3, <2>2 DEF fromRegistry
    <3> QED BY <1>3, <2>2, <3>1
  <2>3. CASE /\ fromRegistry(spec) /\ ~cachedAnswer(spec)
             /\ \E x \in {registry[spec.oci], Nil} :
                  /\ x # registry[spec.oci] => faults < MaxFaults
                  /\ faults' = IF x # registry[spec.oci] THEN faults + 1 ELSE faults
                  /\ Loaded(x)
                  /\ loader' = IF cacheable(spec)
                               THEN [loader EXCEPT ![spec.oci] = cacheEntry(x, spec)]
                               ELSE loader
    <3>1. PICK x \in {registry[spec.oci], Nil} :
            /\ x # registry[spec.oci] => faults < MaxFaults
            /\ faults' = IF x # registry[spec.oci] THEN faults + 1 ELSE faults
            /\ Loaded(x)
            /\ loader' = IF cacheable(spec)
                         THEN [loader EXCEPT ![spec.oci] = cacheEntry(x, spec)]
                         ELSE loader
      BY <2>3
    <3>2. spec.oci \in Refs
      BY <1>2, <2>3 DEF fromRegistry
    <3>3. x \in Contracts \cup {Nil}
      BY <1>3, <3>2 DEF RestOK
    <3>4. faults' \in 0..MaxFaults
      BY <1>3, <3>1, BoundsAssumption
    <3> QED BY <3>1, <3>2, <3>3, <3>4
  <2> QED BY <2>1, <2>2, <2>3 DEF Load
<1>5. /\ WorkerOK' /\ WorkerDerives' /\ worker'.obj = worker.obj
      /\ gateEvents' \in Seq({"Unmet", "Recovered"})
  BY <1>1, <1>4, LoadedLemma
<1>6. loader' \in [Refs -> Contracts \cup {Nil, Failed}]
  BY <1>3, <1>4 DEF cacheEntry
<1>7. RestOK'
  BY <1>1, <1>3, <1>4, <1>5, <1>6 DEF RestOK
<1> QED BY <1>1, <1>5, <1>7, BusyLemma, PassLemma

\* EnsureRevision changes only currentRevision of the worker's copy.
LEMMA EnsureRevisionLemma == ASSUME IInv, EnsureRevision PROVE IInv'
<1> DEFINE spec == worker.obj.spec
<1>1. UNCHANGED <<pacto, watch, cached, inflight, edits, timer, loader, registry, cluster,
                  secret, expired, gateEvents>> /\ worker.pc = "revision"
  BY DEF EnsureRevision, api, env
<1>2. /\ WorkerOK /\ WorkerDerives /\ RestOK /\ worker.loaded \in Contracts
      /\ worker.obj \in Pacto
  BY <1>1 DEF IInv, TypeOK, WorkerDerives, WorkerOK
<1>3. PICK ok \in BOOLEAN, more \in SUBSET syncable(spec) :
         LET made == ((IF ok THEN {worker.loaded} ELSE {}) \cup more) \ revisions
         IN  /\ ~ok => faults < MaxFaults
             /\ faults' = IF ok THEN faults ELSE faults + 1
             /\ revisions' = IF pacto.exists THEN revisions \cup made ELSE revisions
             /\ queued' = (queued \/ (pacto.exists /\ made # {}))
             /\ worker' = [worker EXCEPT
                    !.obj.status.currentRevision = revisionAfter(ok),
                    !.pc = IF IsReference(spec.target) THEN "write" ELSE "service",
                    !.status = IF IsReference(spec.target)
                               THEN referenceStatus(worker.status) ELSE worker.status]
  BY <1>2 DEF EnsureRevision, WorkerOK
<1>4. syncable(spec) \subseteq Contracts
  BY <1>2 DEF syncable, RestOK
<1>5. RestOK'
  <2>1. faults' \in 0..MaxFaults
    BY <1>2, <1>3, BoundsAssumption DEF RestOK
  <2>2. revisions' \subseteq Contracts
    BY <1>2, <1>3, <1>4 DEF RestOK
  <2>3. queued' \in BOOLEAN
    BY <1>3
  <2> QED BY <1>1, <1>2, <2>1, <2>2, <2>3 DEF RestOK
<1>6. revisionAfter(ok) \in Contracts \cup {Nil}
  BY <1>2 DEF revisionAfter, Pacto, PactoStatus
<1>7. /\ worker'.obj = [worker.obj EXCEPT !.status.currentRevision = revisionAfter(ok)]
      /\ worker'.pc = IF IsReference(spec.target) THEN "write" ELSE "service"
      /\ worker'.status = IF IsReference(spec.target)
                          THEN referenceStatus(worker.status) ELSE worker.status
      /\ worker'.wasUnmet = worker.wasUnmet /\ worker'.loaded = worker.loaded
      /\ worker' = [pc |-> worker'.pc, obj |-> worker'.obj, wasUnmet |-> worker'.wasUnmet,
                    loaded |-> worker'.loaded, service |-> worker'.service,
                    snap |-> worker'.snap, status |-> worker'.status]
  BY <1>2, <1>3 DEF WorkerOK
<1>8. /\ worker'.obj \in Pacto
      /\ worker'.obj.gen = worker.obj.gen /\ worker'.obj.rv = worker.obj.rv
      /\ worker'.obj.spec = worker.obj.spec
      /\ worker'.obj.status.observedGeneration = worker.obj.status.observedGeneration
  BY <1>2, <1>6, <1>7 DEF Pacto, PactoStatus
<1>9. worker'.status \in DerivedStatus /\ DerivedFrom(worker'.status, spec)
  BY <1>1, <1>7, BusyLemma, ReferenceLemma
<1>10. WorkerOK'
  BY <1>2, <1>7, <1>8, <1>9 DEF WorkerOK
<1>11. WorkerDerives'
  BY <1>1, <1>2, <1>7, <1>8, <1>9 DEF WorkerDerives
<1> QED BY <1>1, <1>5, <1>8, <1>10, <1>11, PassLemma

\* ObserveService only fills the worker's scratch.
LEMMA ObserveServiceLemma == ASSUME IInv, ObserveService PROVE IInv'
<1>1. UNCHANGED <<pacto, watch, cached, inflight, edits>> /\ worker.pc = "service"
  BY DEF ObserveService, api, env
<1>2. RestOK'
  BY DEF IInv, TypeOK, RestOK, ObserveService, env
<1>3. /\ WorkerOK /\ WorkerDerives
      /\ worker' = [worker EXCEPT !.pc = "workload", !.service = cluster.service]
  BY DEF ObserveService, IInv, TypeOK
<1>4. WorkerOK' /\ WorkerDerives' /\ worker'.obj = worker.obj
  BY <1>1, <1>3 DEF WorkerOK, WorkerDerives
<1> QED BY <1>1, <1>2, <1>4, BusyLemma, PassLemma

\* ObserveWorkload yields a snapshot or an Unknown status.
LEMMA ObserveWorkloadLemma == ASSUME IInv, ObserveWorkload PROVE IInv'
<1> DEFINE snap == Observe(worker.obj.spec.target, [cluster EXCEPT !.service = worker.service])
<1>1. UNCHANGED <<pacto, watch, cached, inflight, edits>> /\ worker.pc = "workload"
  BY DEF ObserveWorkload, api, env
<1>2. RestOK'
  <2>1. faults' \in 0..MaxFaults
    BY BoundsAssumption DEF IInv, TypeOK, RestOK, ObserveWorkload
  <2> QED BY <2>1 DEF IInv, TypeOK, RestOK, ObserveWorkload, env
<1>3. WorkerOK /\ WorkerDerives /\ ~IsReference(worker.obj.spec.target)
  BY <1>1 DEF IInv, TypeOK, WorkerDerives
<1>4. \/ worker' = [worker EXCEPT !.pc = "probe", !.snap = snap]
      \/ worker' = [worker EXCEPT !.pc = "write", !.status = unobservedStatus(worker.status)]
  BY <1>3 DEF ObserveWorkload, WorkerOK
<1>5. snap.serviceExists \in BOOLEAN /\ snap.workloadExists \in BOOLEAN
  BY DEF Observe
<1>6. /\ unobservedStatus(worker.status) \in DerivedStatus
      /\ DerivedFrom(unobservedStatus(worker.status), worker.obj.spec)
  BY <1>1, <1>3, BusyLemma, UnobservedLemma
<1> HIDE DEF snap
<1>7. WorkerOK' /\ WorkerDerives' /\ worker'.obj = worker.obj
  BY <1>1, <1>3, <1>4, <1>5, <1>6 DEF WorkerOK, WorkerDerives
<1> QED BY <1>1, <1>2, <1>7, BusyLemma, PassLemma

\* Probe computes the final status of a pass.
LEMMA ProbeStepLemma == ASSUME IInv, Probe PROVE IInv'
<1> DEFINE s == runtimeStatus(worker.status, worker.status.contract, worker.snap,
                              worker.obj.spec.target.service, cluster.http)
<1>1. UNCHANGED <<pacto, watch, cached, inflight, edits>> /\ worker.pc = "probe"
  BY DEF Probe, api, env
<1>2. RestOK'
  BY DEF IInv, TypeOK, RestOK, Probe, env
<1>3. WorkerOK /\ WorkerDerives /\ ~IsReference(worker.obj.spec.target)
      /\ worker.snap.workloadExists \in BOOLEAN
  BY <1>1 DEF IInv, TypeOK, WorkerDerives
<1>4. worker' = [worker EXCEPT !.pc = "write", !.status = s]
  BY <1>3 DEF Probe, WorkerOK
<1>5. s \in DerivedStatus /\ DerivedFrom(s, worker.obj.spec)
  BY <1>1, <1>3, BusyLemma, RuntimeStatusLemma
<1> HIDE DEF s
<1>6. WorkerOK' /\ WorkerDerives' /\ worker'.obj = worker.obj
  BY <1>1, <1>3, <1>4, <1>5 DEF WorkerOK, WorkerDerives
<1> QED BY <1>1, <1>2, <1>6, BusyLemma, PassLemma

\* The status a pass submits is of its own object and generation.
LEMMA SubmittedLemma ==
    ASSUME IInv, worker.pc = "write"
    PROVE  /\ submitted \in PactoStatus
           /\ submitted.observedGeneration = worker.obj.gen
           /\ DerivedFrom(submitted.derived, worker.obj.spec)
           /\ submitted.currentRevision = worker.obj.status.currentRevision
BY BusyLemma, BoundsAssumption DEF submitted, PactoStatus, Pacto, Generations

\* The object held by an update that passes the version check is the one in
\* the API server, so that its status is about the spec stored there.
LEMMA AcceptedLemma ==
    ASSUME IInv, NEW o \in Held, UpToDate(o), NEW st \in PactoStatus,
           st.observedGeneration = o.gen, DerivedFrom(st.derived, o.spec),
           Store([pacto EXCEPT !.status = st]),
           cached' = cached, worker' \in {worker, Idle}, inflight' \in {inflight, Nil},
           edits' = edits
    PROVE  ObjectsOK' /\ GenerationCounts' /\ HeldConsistent' /\ StoredDerives'
<1> DEFINE obj == [pacto EXCEPT !.status = st]
<1>1. pacto \in Pacto /\ o.gen = pacto.gen /\ o.spec = pacto.spec
  BY DEF IInv, TypeOK, ObjectsOK, HeldConsistent, Consistent, UpToDate
<1>2. obj \in Pacto /\ obj.gen = pacto.gen /\ obj.spec = pacto.spec /\ obj.status = st
  BY <1>1 DEF Pacto
<1> HIDE DEF obj
<1>3. Store(obj)
  BY DEF obj
<1>4. /\ pacto' \in Pacto /\ watch' \in Seq(Pacto) /\ pacto'.gen = pacto.gen
      /\ pacto'.spec = pacto.spec /\ pacto'.status = st
  BY <1>2, <1>3, StoreLemma DEF IInv
<1>5. ObjectsOK'
  BY <1>4 DEF IInv, TypeOK, ObjectsOK
<1>6. HeldConsistent'
  BY <1>1, <1>2, <1>3, StoreConsistent DEF IInv, Pacto, Generations
<1>7. GenerationCounts' /\ StoredDerives'
  BY <1>1, <1>4 DEF IInv, GenerationCounts, StoredDerives
<1> QED BY <1>5, <1>6, <1>7

\* WriteStatus stores the status of the spec it was derived from.
LEMMA WriteStatusLemma == ASSUME IInv, WriteStatus PROVE IInv'
<1>1. /\ worker.pc = "write" /\ UpToDate(worker.obj) /\ worker' = Idle
      /\ UNCHANGED <<inflight, cached, edits>>
  BY DEF WriteStatus, env
<1>2. RestOK'
  BY DEF IInv, TypeOK, RestOK, WriteStatus, env
<1>3. WorkerOK' /\ WorkerDerives' /\ InflightDerives'
  BY <1>1, IdleLemma DEF IInv, WorkerOK, WorkerDerives, InflightDerives
<1>4. CASE UNCHANGED <<pacto, watch>>
  <2>1. \A o \in Held' : o \in Held
    BY <1>1, <1>4, IdleLemma DEF Held
  <2>2. HeldConsistent'
    BY <1>4, <2>1, KeepConsistent DEF IInv
  <2>3. ObjectsOK' /\ GenerationCounts' /\ StoredDerives'
    BY <1>1, <1>4 DEF IInv, TypeOK, ObjectsOK, GenerationCounts, StoredDerives
  <2> QED BY <1>2, <1>3, <2>2, <2>3 DEF IInv, TypeOK
<1>5. CASE Store([pacto EXCEPT !.status = submitted])
  <2>1. worker.obj \in Held
    BY <1>1 DEF Held
  <2>2. ObjectsOK' /\ GenerationCounts' /\ HeldConsistent' /\ StoredDerives'
    BY <1>1, <1>5, <2>1, SubmittedLemma, AcceptedLemma
  <2> QED BY <1>2, <1>3, <2>2 DEF IInv, TypeOK
<1> QED BY <1>4, <1>5 DEF WriteStatus

\* WriteFails drops the pass.
LEMMA WriteFailsLemma == ASSUME IInv, WriteFails PROVE IInv'
<1>1. worker' = Idle /\ UNCHANGED <<pacto, watch, cached, inflight, edits>>
  BY DEF WriteFails, api, env
<1>2. RestOK'
  <2>1. faults' \in 0..MaxFaults
    BY BoundsAssumption DEF IInv, TypeOK, RestOK, WriteFails
  <2> QED BY <2>1 DEF IInv, TypeOK, RestOK, WriteFails, env
<1>3. WorkerOK' /\ WorkerDerives'
  BY <1>1, IdleLemma DEF WorkerOK, WorkerDerives
<1>4. \A o \in Held' : o \in Held
  BY <1>1, IdleLemma DEF Held
<1>5. HeldConsistent'
  BY <1>1, <1>4, KeepConsistent DEF IInv
<1>6. ObjectsOK' /\ GenerationCounts' /\ InflightDerives' /\ StoredDerives'
  BY <1>1 DEF IInv, TypeOK, ObjectsOK, GenerationCounts, InflightDerives, StoredDerives
<1> QED BY <1>2, <1>3, <1>5, <1>6 DEF IInv, TypeOK

\* Deliver moves a version from the watch to the informer.
LEMMA DeliverLemma == ASSUME IInv, Deliver PROVE IInv'
<1>1. /\ UNCHANGED <<pacto, worker, inflight, edits>>
      /\ watch # << >> /\ cached' = Head(watch) /\ watch' = Tail(watch)
  BY DEF Deliver, env
<1>2. watch \in Seq(Pacto)
  BY DEF IInv, TypeOK, ObjectsOK
<1>3. /\ cached' \in Pacto /\ watch' \in Seq(Pacto) /\ cached' = watch[1]
      /\ 1 \in DOMAIN watch
      /\ \A i \in DOMAIN watch' : \E j \in DOMAIN watch : watch'[i] = watch[j]
  <2>1. cached' \in Pacto /\ watch' \in Seq(Pacto) /\ cached' = watch[1] /\ 1 \in DOMAIN watch
    BY <1>1, <1>2
  <2>2. \A i \in DOMAIN watch' : i + 1 \in DOMAIN watch /\ watch'[i] = watch[i + 1]
    BY <1>1, <1>2
  <2> QED BY <2>1, <2>2
<1>4. \A o \in Held' : o \in Held
  BY <1>1, <1>3 DEF Held
<1>5. HeldConsistent'
  BY <1>1, <1>4, KeepConsistent DEF IInv
<1>6. ObjectsOK' /\ GenerationCounts' /\ InflightDerives' /\ StoredDerives'
  BY <1>1, <1>3 DEF IInv, TypeOK, ObjectsOK, GenerationCounts, InflightDerives, StoredDerives
<1>7. WorkerOK' /\ WorkerDerives'
  BY <1>1 DEF IInv, TypeOK, WorkerOK, WorkerDerives, Idle
<1>8. RestOK'
  BY DEF IInv, TypeOK, RestOK, Deliver, env
<1> QED BY <1>5, <1>6, <1>7, <1>8 DEF IInv, TypeOK

\* Restart leaves at most the update the old process had sent.
LEMMA RestartLemma == ASSUME IInv, Restart PROVE IInv'
<1>1. /\ worker' = Idle /\ cached' = pacto /\ watch' = << >> /\ UNCHANGED <<pacto, edits>>
      /\ \/ inflight' = Nil
         \/ worker.pc = "write" /\ inflight' = [obj |-> worker.obj, status |-> submitted]
  BY DEF Restart, env
<1>2. RestOK'
  <2>1. faults' \in 0..MaxFaults
    BY BoundsAssumption DEF IInv, TypeOK, RestOK, Restart
  <2>2. loader' \in [Refs -> Contracts \cup {Nil, Failed}]
    BY DEF Restart
  <2>3. queued' \in BOOLEAN
    BY DEF Restart, IInv, TypeOK, ObjectsOK, Pacto
  <2> QED BY <2>1, <2>2, <2>3 DEF IInv, TypeOK, RestOK, Restart, env
<1>3. WorkerOK' /\ WorkerDerives'
  BY <1>1, IdleLemma DEF WorkerOK, WorkerDerives
<1>4. \A o \in Held' : o \in Held
  BY <1>1, IdleLemma DEF Held
<1>5. HeldConsistent'
  BY <1>1, <1>4, KeepConsistent DEF IInv
<1>6. GenerationCounts' /\ StoredDerives'
  BY <1>1 DEF IInv, GenerationCounts, StoredDerives
<1>7. worker.pc = "write" => worker.obj \in Pacto
  BY BusyLemma
<1>8. ObjectsOK'
  BY <1>1, <1>7, SubmittedLemma DEF IInv, TypeOK, ObjectsOK
<1>9. InflightDerives'
  BY <1>1, SubmittedLemma DEF InflightDerives
<1> QED BY <1>2, <1>3, <1>5, <1>6, <1>8, <1>9 DEF IInv, TypeOK

\* LateWrite is accepted under the same version check.
LEMMA LateWriteLemma == ASSUME IInv, LateWrite PROVE IInv'
<1>1. inflight # Nil /\ inflight' = Nil /\ UNCHANGED <<cached, worker, edits>>
  BY DEF LateWrite, env
<1>2. RestOK'
  BY DEF IInv, TypeOK, RestOK, LateWrite, env
<1>3. WorkerOK' /\ WorkerDerives' /\ InflightDerives'
  BY <1>1 DEF IInv, TypeOK, WorkerOK, WorkerDerives, InflightDerives, Idle
<1>4. CASE UNCHANGED <<pacto, watch>>
  <2>1. \A o \in Held' : o \in Held
    BY <1>1, <1>4 DEF Held
  <2>2. HeldConsistent'
    BY <1>4, <2>1, KeepConsistent DEF IInv
  <2>3. ObjectsOK' /\ GenerationCounts' /\ StoredDerives'
    BY <1>1, <1>4 DEF IInv, TypeOK, ObjectsOK, GenerationCounts, StoredDerives
  <2> QED BY <1>2, <1>3, <2>2, <2>3 DEF IInv, TypeOK
<1>5. CASE UpToDate(inflight.obj) /\ Store([pacto EXCEPT !.status = inflight.status])
  <2>1. /\ inflight.obj \in Held /\ inflight.status \in PactoStatus
        /\ inflight.status.observedGeneration = inflight.obj.gen
        /\ DerivedFrom(inflight.status.derived, inflight.obj.spec)
    BY <1>1 DEF IInv, TypeOK, ObjectsOK, InflightDerives, Held
  <2>2. ObjectsOK' /\ GenerationCounts' /\ HeldConsistent' /\ StoredDerives'
    BY <1>1, <1>5, <2>1, AcceptedLemma
  <2> QED BY <1>2, <1>3, <2>2 DEF IInv, TypeOK
<1> QED BY <1>4, <1>5 DEF LateWrite

\* An edit raises the generation above every observed one.
LEMMA EditSpecLemma == ASSUME IInv, NEW s \in Specs, EditSpec(s) PROVE IInv'
<1> DEFINE obj == [pacto EXCEPT !.spec = s, !.gen = @ + 1]
<1>1. /\ Store(obj) /\ edits < MaxEdits /\ edits' = edits + 1
      /\ UNCHANGED <<inflight, cached, worker>>
  BY DEF EditSpec, Edit
<1>2. /\ pacto \in Pacto /\ pacto.gen <= edits + 1 /\ edits \in Nat
      /\ pacto.status.observedGeneration <= pacto.gen
  BY DEF IInv, TypeOK, ObjectsOK, RestOK, GenerationCounts, HeldConsistent, Consistent, Held
<1>3. /\ obj \in Pacto /\ obj.gen = pacto.gen + 1 /\ obj.status = pacto.status
      /\ obj.status.observedGeneration < obj.gen
  <2>1. pacto.gen + 1 \in Generations
    BY <1>1, <1>2, BoundsAssumption DEF Pacto, Generations
  <2>2. pacto.status.observedGeneration < pacto.gen + 1
    BY <1>2, BoundsAssumption DEF Pacto, PactoStatus, Generations
  <2>3. obj \in Pacto /\ obj.gen = pacto.gen + 1 /\ obj.status = pacto.status
    BY <1>2, <2>1 DEF Pacto
  <2> QED BY <2>2, <2>3
<1> HIDE DEF obj
<1>4. /\ pacto' \in Pacto /\ watch' \in Seq(Pacto)
      /\ pacto'.gen = obj.gen /\ pacto'.status = obj.status
  BY <1>1, <1>3, StoreLemma DEF IInv
<1>5. HeldConsistent'
  BY <1>1, <1>2, <1>3, StoreConsistent DEF IInv, Pacto, PactoStatus, Generations
<1>6. GenerationCounts' /\ StoredDerives'
  BY <1>1, <1>2, <1>3, <1>4 DEF GenerationCounts, StoredDerives, Pacto, PactoStatus, Generations
<1>7. ObjectsOK' /\ WorkerOK' /\ WorkerDerives' /\ InflightDerives'
  BY <1>1, <1>4
  DEF IInv, TypeOK, ObjectsOK, WorkerOK, WorkerDerives, InflightDerives, Idle
<1>8. RestOK'
  BY <1>1, BoundsAssumption DEF IInv, TypeOK, RestOK, EditSpec
<1> QED BY <1>5, <1>6, <1>7, <1>8 DEF IInv, TypeOK

\* DeletePacto marks the object as gone.
LEMMA DeletePactoLemma == ASSUME IInv, DeletePacto PROVE IInv'
<1> DEFINE obj == [pacto EXCEPT !.exists = FALSE]
<1>1. /\ Store(obj) /\ edits < MaxEdits /\ edits' = edits + 1
      /\ UNCHANGED <<inflight, cached, worker>>
  BY DEF DeletePacto, Edit
<1>2. /\ pacto \in Pacto /\ pacto.gen <= edits + 1 /\ edits \in Nat
      /\ pacto.status.observedGeneration <= pacto.gen
  BY DEF IInv, TypeOK, ObjectsOK, RestOK, GenerationCounts, HeldConsistent, Consistent, Held
<1>3. /\ obj \in Pacto /\ obj.gen = pacto.gen /\ obj.status = pacto.status
      /\ obj.spec = pacto.spec
  BY <1>2 DEF Pacto
<1> HIDE DEF obj
<1>4. /\ pacto' \in Pacto /\ watch' \in Seq(Pacto) /\ pacto'.gen = pacto.gen
      /\ pacto'.status = pacto.status /\ pacto'.spec = pacto.spec
  BY <1>1, <1>3, StoreLemma DEF IInv
<1>5. HeldConsistent'
  BY <1>1, <1>2, <1>3, StoreConsistent DEF IInv, Pacto, PactoStatus, Generations
<1>6. GenerationCounts' /\ StoredDerives'
  BY <1>1, <1>2, <1>4 DEF IInv, GenerationCounts, StoredDerives, Pacto, Generations
<1>7. ObjectsOK' /\ WorkerOK' /\ WorkerDerives' /\ InflightDerives'
  BY <1>1, <1>4
  DEF IInv, TypeOK, ObjectsOK, WorkerOK, WorkerDerives, InflightDerives, Idle
<1>8. RestOK'
  BY <1>1, BoundsAssumption DEF IInv, TypeOK, RestOK, DeletePacto
<1> QED BY <1>5, <1>6, <1>7, <1>8 DEF IInv, TypeOK

\* The steps QuietLemma is for.
LEMMA QuietStepLemma ==
    ASSUME IInv,
           \/ TimerFires \/ ChangeSecret \/ PassExpiry
           \/ \E r \in Refs : Expire(r)
           \/ \E r \in Refs, x \in Contracts \cup {Nil} : Publish(r, x)
           \/ \E k \in Clusters : ChangeCluster(k)
           \/ UNCHANGED vars
    PROVE  IInv'
<1> USE DEF api, env
<1>1. RestOK
  BY DEF IInv, TypeOK
<1>2. ASSUME Edit PROVE edits' \in 0..MaxEdits /\ edits' >= edits
  BY <1>1, <1>2, BoundsAssumption DEF Edit, RestOK
<1>3. edits >= edits /\ faults \in 0..MaxFaults
  BY <1>1, BoundsAssumption DEF RestOK
<1>4. CASE TimerFires
  BY <1>1, <1>3, <1>4, QuietLemma DEF TimerFires, RestOK
<1>5. CASE ChangeSecret
  <2>1. secret' \in BOOLEAN /\ queued' \in BOOLEAN
    BY <1>1, <1>5 DEF ChangeSecret, RestOK
  <2>2. RestOK' /\ edits' >= edits
    BY <1>1, <1>2, <1>5, <2>1 DEF ChangeSecret, RestOK
  <2> QED BY <1>5, <2>2, QuietLemma DEF ChangeSecret
<1>6. CASE PassExpiry
  <2>1. RestOK' /\ edits' >= edits
    BY <1>1, <1>2, <1>6 DEF PassExpiry, RestOK
  <2> QED BY <1>6, <2>1, QuietLemma DEF PassExpiry
<1>7. CASE \E r \in Refs : Expire(r)
  <2>1. PICK r \in Refs : Expire(r)
    BY <1>7
  <2>2. loader' \in [Refs -> Contracts \cup {Nil, Failed}]
    BY <1>1, <2>1 DEF Expire, RestOK
  <2>3. RestOK' /\ edits' >= edits
    BY <1>1, <1>3, <2>1, <2>2 DEF Expire, RestOK
  <2> QED BY <2>1, <2>3, QuietLemma DEF Expire
<1>8. CASE \E r \in Refs, x \in Contracts \cup {Nil} : Publish(r, x)
  <2>1. PICK r \in Refs, x \in Contracts \cup {Nil} : Publish(r, x)
    BY <1>8
  <2>2. registry' \in [Refs -> Contracts \cup {Nil}]
    BY <1>1, <2>1 DEF Publish, RestOK
  <2>3. RestOK' /\ edits' >= edits
    BY <1>1, <1>2, <2>1, <2>2 DEF Publish, RestOK
  <2> QED BY <2>1, <2>3, QuietLemma DEF Publish
<1>9. CASE \E k \in Clusters : ChangeCluster(k)
  <2>1. PICK k \in Clusters : ChangeCluster(k)
    BY <1>9
  <2>2. queued' \in BOOLEAN
    BY <1>1, <2>1 DEF ChangeCluster, RestOK
  <2>3. faults' = faults \/ (faults < MaxFaults /\ faults' = faults + 1)
    BY <2>1 DEF ChangeCluster
  <2>4. faults' \in 0..MaxFaults
    BY <1>3, <2>3, BoundsAssumption
  <2>5. RestOK' /\ edits' >= edits
    BY <1>1, <1>2, <2>1, <2>2, <2>4 DEF ChangeCluster, RestOK
  <2> QED BY <2>1, <2>5, QuietLemma DEF ChangeCluster
<1>10. CASE UNCHANGED vars
  BY <1>1, <1>3, <1>10, QuietLemma DEF vars, RestOK
<1> QED BY <1>4, <1>5, <1>6, <1>7, <1>8, <1>9, <1>10

\* Every step preserves the invariant.
LEMMA NextLemma == IInv /\ [Next]_vars => IInv'
BY FetchLemma, ResolveAuthLemma, LoadLemma, EnsureRevisionLemma, ObserveServiceLemma,
   ObserveWorkloadLemma, ProbeStepLemma, WriteStatusLemma, WriteFailsLemma, DeliverLemma,
   RestartLemma, LateWriteLemma, EditSpecLemma, DeletePactoLemma, QuietStepLemma
DEF Next, WorkerStep, Environment

\* ----- theorems ---------------------------------------------------------

\* The invariant holds in every reachable state.
LEMMA InductiveInvariant == Spec => []IInv
BY InitLemma, NextLemma, PTL DEF Spec

\* Every copy of the object, the worker's state, the loader's cache and the
\* revisions are well typed; the cache and the revisions hold contracts as
\* published although effectiveContract is computed from them in every pass.
THEOREM TypeCorrect == Spec => []TypeOK
<1>1. IInv => TypeOK
  BY DEF IInv
<1> QED BY <1>1, InductiveInvariant, PTL

\* A status whose observedGeneration is the object's generation was derived
\* from the object's spec, for any interleaving of edits, restarts and late
\* writes with the steps of Reconcile.
THEOREM ObservedGenerationIsSound == Spec => []ObservedGenerationSound
<1>1. IInv => ObservedGenerationSound
  BY DEF IInv, StoredDerives, ObservedGenerationSound
<1> QED BY <1>1, InductiveInvariant, PTL

\* The steps that store a version of the object: what they do to its status
\* and to the observed generation.
LEMMA StatusStepLemma ==
    ASSUME IInv, Next
    PROVE  \/ pacto' = pacto
           \/ pacto'.status = pacto.status
           \/ pacto'.status.observedGeneration = pacto.gen
<1>1. pacto \in Pacto
  BY DEF IInv, TypeOK, ObjectsOK
<1>2. CASE WriteStatus /\ pacto' # pacto
  <2>1. /\ worker.pc = "write" /\ UpToDate(worker.obj)
        /\ Store([pacto EXCEPT !.status = submitted])
    BY <1>2 DEF WriteStatus
  <2>2. Consistent(worker.obj) /\ submitted.observedGeneration = worker.obj.gen
        /\ [pacto EXCEPT !.status = submitted] \in Pacto
    BY <1>1, <2>1, SubmittedLemma DEF IInv, HeldConsistent, Held, Pacto
  <2>3. pacto'.status = submitted
    BY <1>1, <2>1, <2>2, StoreLemma DEF IInv, Pacto
  <2> QED BY <2>1, <2>2, <2>3 DEF Consistent, UpToDate
<1>3. CASE LateWrite /\ pacto' # pacto
  <2>1. /\ inflight # Nil /\ UpToDate(inflight.obj)
        /\ Store([pacto EXCEPT !.status = inflight.status])
    BY <1>3 DEF LateWrite
  <2>2. /\ Consistent(inflight.obj) /\ inflight.status.observedGeneration = inflight.obj.gen
        /\ [pacto EXCEPT !.status = inflight.status] \in Pacto
    BY <1>1, <2>1 DEF IInv, TypeOK, ObjectsOK, InflightDerives, HeldConsistent, Held, Pacto
  <2>3. pacto'.status = inflight.status
    BY <1>1, <2>1, <2>2, StoreLemma DEF IInv, Pacto
  <2> QED BY <2>1, <2>2, <2>3 DEF Consistent, UpToDate
<1>4. ASSUME NEW s \in Specs, EditSpec(s)
      PROVE  pacto'.status = pacto.status
  BY <1>1, <1>4 DEF EditSpec, Store, Pacto
<1>5. CASE DeletePacto
  BY <1>1, <1>5 DEF DeletePacto, Store, Pacto
<1>6. CASE \/ Fetch \/ ResolveAuth \/ Load \/ EnsureRevision \/ ObserveService
           \/ ObserveWorkload \/ Probe \/ WriteFails \/ TimerFires \/ Deliver \/ Restart
           \/ ChangeSecret \/ PassExpiry
  BY <1>6 DEF Fetch, ResolveAuth, Load, EnsureRevision, ObserveService, ObserveWorkload, Probe,
              WriteFails, TimerFires, Deliver, Restart, ChangeSecret, PassExpiry, api
<1>7. CASE \/ \E r \in Refs : Expire(r)
           \/ \E r \in Refs, x \in Contracts \cup {Nil} : Publish(r, x)
           \/ \E k \in Clusters : ChangeCluster(k)
  BY <1>7 DEF Expire, Publish, ChangeCluster, api
<1> QED BY <1>2, <1>3, <1>4, <1>5, <1>6, <1>7 DEF Next, WorkerStep, Environment

\* No write takes the observed generation back, whichever process sent it.
THEOREM ObservedGenerationNeverDecreases == Spec => ObservedGenerationMonotonic
<1>1. IInv /\ [Next]_vars =>
        [pacto'.status.observedGeneration >= pacto.status.observedGeneration]_vars
  <2> SUFFICES ASSUME IInv, Next
               PROVE  pacto'.status.observedGeneration >= pacto.status.observedGeneration
    BY DEF vars
  <2>1. /\ pacto.status.observedGeneration <= pacto.gen
        /\ pacto.gen \in Nat /\ pacto.status.observedGeneration \in Nat
    BY BoundsAssumption DEF IInv, TypeOK, ObjectsOK, HeldConsistent, Consistent, Held, Pacto, PactoStatus, Generations
  <2> QED BY <2>1, StatusStepLemma
<1> QED BY <1>1, InductiveInvariant, PTL DEF Spec, ObservedGenerationMonotonic

\* ----- the current revision exists ----------------------------------------

\* References to revisions survive a step that removes no revision and brings
\* in no copy and no update with a new reference.
LEMMA KeptLemma ==
    ASSUME RevisionsKept, pacto'.exists => pacto.exists, revisions \subseteq revisions',
           \A o \in Held' : o \in Held \/ o.status.currentRevision \in revisions' \cup {Nil},
           inflight' = inflight \/ inflight' = Nil
             \/ inflight'.status.currentRevision \in revisions' \cup {Nil}
    PROVE  RevisionsKept'
BY DEF RevisionsKept

\* A stored version brings its own reference only.
LEMMA StoreKeptLemma ==
    ASSUME TypeOK, RevisionsKept, NEW obj \in Pacto, Store(obj), obj.exists => pacto.exists,
           obj.exists => obj.status.currentRevision \in revisions \cup {Nil},
           UNCHANGED <<cached, revisions>>, worker' \in {worker, Idle},
           inflight' \in {inflight, Nil}
    PROVE  RevisionsKept'
<1>1. /\ pacto'.exists = obj.exists /\ pacto'.status = obj.status
      /\ \A i \in DOMAIN watch' : watch'[i] = pacto' \/ \E j \in DOMAIN watch : watch'[i] = watch[j]
  BY StoreLemma
<1>2. \A o \in Held' : o \in Held \/ o = pacto'
  BY <1>1, IdleLemma DEF Held
<1> QED BY <1>1, <1>2 DEF RevisionsKept

\* Every step keeps the revisions that are referred to.
LEMMA KeptStepLemma ==
    ASSUME IInv, RevisionsKept, Next
    PROVE  RevisionsKept'
<1> USE DEF api, env
<1>1. pacto \in Pacto /\ TypeOK
  BY DEF IInv, TypeOK, ObjectsOK
<1>2. CASE Fetch
  <2>1. /\ UNCHANGED <<pacto, watch, cached, inflight, revisions>>
        /\ worker'.pc = "idle" \/ worker'.obj = cached
    BY <1>2 DEF Fetch, Idle
  <2>2. \A o \in Held' : o \in Held
    BY <2>1 DEF Held
  <2> QED BY <2>1, <2>2, KeptLemma
<1>3. CASE ResolveAuth \/ Load \/ ObserveService \/ ObserveWorkload \/ Probe
  <2>1. UNCHANGED <<pacto, watch, cached, inflight, revisions>> /\ worker.pc # "idle"
    BY <1>3 DEF ResolveAuth, Load, ObserveService, ObserveWorkload, Probe
  <2>2. worker'.obj = worker.obj
    <3>1. WorkerOK
      BY <1>1 DEF TypeOK
    <3>2. ASSUME NEW x, Loaded(x) PROVE worker'.obj = worker.obj
      BY <3>1, <3>2 DEF Loaded, WorkerOK
    <3>3. CASE Load
      BY <3>2, <3>3 DEF Load
    <3>4. CASE ResolveAuth
      BY <3>1, <3>4 DEF ResolveAuth, WorkerOK
    <3>5. CASE ObserveService
      BY <3>1, <3>5 DEF ObserveService, WorkerOK
    <3>6. CASE ObserveWorkload
      BY <3>1, <3>6 DEF ObserveWorkload, WorkerOK
    <3>7. CASE Probe
      BY <3>1, <3>7 DEF Probe, WorkerOK
    <3> QED BY <1>3, <3>3, <3>4, <3>5, <3>6, <3>7
  <2>3. \A o \in Held' : o \in Held
    BY <2>1, <2>2 DEF Held
  <2> QED BY <2>1, <2>3, KeptLemma
<1>4. CASE EnsureRevision
  <2>1. UNCHANGED <<pacto, watch, cached, inflight>> /\ worker.pc = "revision"
    BY <1>4 DEF EnsureRevision
  <2>2. WorkerOK /\ worker.obj \in Held /\ worker.obj \in Pacto
    BY <1>1, <2>1 DEF TypeOK, WorkerOK, Held
  <2>3. PICK ok \in BOOLEAN, more \in SUBSET syncable(worker.obj.spec) :
          /\ revisions' = IF pacto.exists
                THEN revisions \cup (((IF ok THEN {worker.loaded} ELSE {}) \cup more) \ revisions)
                ELSE revisions
          /\ worker'.obj = [worker.obj EXCEPT !.status.currentRevision = revisionAfter(ok)]
    BY <1>4, <2>2 DEF EnsureRevision, WorkerOK
  <2>4. worker'.obj.status.currentRevision = revisionAfter(ok)
    BY <2>2, <2>3 DEF Pacto, PactoStatus
  <2>5. revisions \subseteq revisions' /\ (pacto.exists /\ ok => worker.loaded \in revisions')
    BY <2>3
  <2>6. pacto.exists => revisionAfter(ok) \in revisions' \cup {Nil}
    BY <2>2, <2>5 DEF revisionAfter, RevisionsKept
  <2>7. \A o \in Held' : o \in Held \/ o = worker'.obj
    BY <2>1 DEF Held
  <2>8. CASE pacto.exists
    BY <2>1, <2>4, <2>5, <2>6, <2>7, <2>8, KeptLemma
  <2>9. CASE ~pacto.exists
    BY <2>1, <2>9 DEF RevisionsKept
  <2> QED BY <2>8, <2>9
<1>5. CASE WriteStatus
  <2>1. /\ worker.pc = "write" /\ worker' = Idle /\ pacto.exists
        /\ UNCHANGED <<cached, inflight, revisions>>
    BY <1>5 DEF WriteStatus, UpToDate
  <2>2. CASE UNCHANGED <<pacto, watch>>
    <3>1. \A o \in Held' : o \in Held
      BY <2>1, <2>2, IdleLemma DEF Held
    <3> QED BY <2>1, <2>2, <3>1, KeptLemma
  <2>3. CASE Store([pacto EXCEPT !.status = submitted])
    <3>1. worker.obj \in Held /\ submitted \in PactoStatus
          /\ submitted.currentRevision = worker.obj.status.currentRevision
      BY <2>1, SubmittedLemma DEF Held
    <3>2. submitted.currentRevision \in revisions \cup {Nil}
      BY <2>1, <3>1 DEF RevisionsKept
    <3>3. /\ [pacto EXCEPT !.status = submitted] \in Pacto
          /\ [pacto EXCEPT !.status = submitted].status = submitted
      BY <1>1, <3>1 DEF Pacto
    <3> QED BY <1>1, <2>1, <2>3, <3>2, <3>3, StoreKeptLemma
  <2> QED BY <1>5, <2>2, <2>3 DEF WriteStatus
<1>6. CASE LateWrite
  <2>1. /\ inflight # Nil /\ inflight' = Nil /\ UNCHANGED <<cached, worker, revisions>>
    BY <1>6 DEF LateWrite
  <2>2. CASE UNCHANGED <<pacto, watch>>
    <3>1. \A o \in Held' : o \in Held
      BY <2>1, <2>2 DEF Held
    <3> QED BY <2>1, <2>2, <3>1, KeptLemma
  <2>3. CASE UpToDate(inflight.obj) /\ Store([pacto EXCEPT !.status = inflight.status])
    <3>1. inflight.status \in PactoStatus /\ pacto.exists
      BY <1>1, <2>1, <2>3 DEF TypeOK, ObjectsOK, UpToDate
    <3>2. inflight.status.currentRevision \in revisions \cup {Nil}
      BY <2>1, <3>1 DEF RevisionsKept
    <3>3. /\ [pacto EXCEPT !.status = inflight.status] \in Pacto
          /\ [pacto EXCEPT !.status = inflight.status].status = inflight.status
      BY <1>1, <3>1 DEF Pacto
    <3> QED BY <1>1, <2>1, <2>3, <3>1, <3>2, <3>3, StoreKeptLemma
  <2> QED BY <1>6, <2>2, <2>3 DEF LateWrite
<1>7. ASSUME NEW s \in Specs, EditSpec(s) PROVE RevisionsKept'
  <2> DEFINE obj == [pacto EXCEPT !.spec = s, !.gen = @ + 1]
  <2>1. /\ Store(obj) /\ pacto.exists
        /\ UNCHANGED <<cached, worker, inflight, revisions>>
    BY <1>7 DEF EditSpec
  <2>2. /\ pacto.gen + 1 \in Generations /\ pacto.status.currentRevision \in revisions \cup {Nil}
    BY <1>1, <1>7, <2>1, BoundsAssumption
    DEF IInv, GenerationCounts, TypeOK, RestOK, EditSpec, Edit, Pacto, Generations, RevisionsKept, Held
  <2>3. obj \in Pacto /\ obj.status = pacto.status
    BY <1>1, <2>2 DEF Pacto
  <2> QED BY <1>1, <2>1, <2>2, <2>3, StoreKeptLemma
<1>8. CASE DeletePacto
  <2>1. pacto'.exists = FALSE
    BY <1>1, <1>8 DEF DeletePacto, Store, Pacto
  <2> QED BY <2>1 DEF RevisionsKept
<1>9. CASE Deliver
  <2>1. /\ UNCHANGED <<pacto, worker, inflight, revisions>>
        /\ watch # << >> /\ cached' = Head(watch) /\ watch' = Tail(watch)
    BY <1>9 DEF Deliver
  <2>2. watch \in Seq(Pacto)
    BY <1>1 DEF TypeOK, ObjectsOK
  <2>3. cached' = watch[1] /\ 1 \in DOMAIN watch
    BY <2>1, <2>2
  <2>4. \A i \in DOMAIN watch' : i + 1 \in DOMAIN watch /\ watch'[i] = watch[i + 1]
    BY <2>1, <2>2
  <2>5. \A o \in Held' : o \in Held
    BY <2>1, <2>3, <2>4 DEF Held
  <2> QED BY <2>1, <2>5, KeptLemma
<1>10. CASE Restart
  <2>1. /\ worker' = Idle /\ cached' = pacto /\ watch' = << >> /\ UNCHANGED <<pacto, revisions>>
        /\ \/ inflight' = Nil
           \/ worker.pc = "write" /\ inflight' = [obj |-> worker.obj, status |-> submitted]
    BY <1>10 DEF Restart
  <2>2. \A o \in Held' : o \in Held
    BY <2>1, IdleLemma DEF Held
  <2>3. worker.pc = "write" /\ pacto.exists =>
          submitted.currentRevision \in revisions \cup {Nil}
    BY SubmittedLemma DEF RevisionsKept, Held
  <2> QED BY <2>1, <2>2, <2>3 DEF RevisionsKept
<1>11. CASE WriteFails
  <2>1. worker' = Idle /\ UNCHANGED <<pacto, watch, cached, inflight, revisions>>
    BY <1>11 DEF WriteFails
  <2>2. \A o \in Held' : o \in Held
    BY <2>1, IdleLemma DEF Held
  <2> QED BY <2>1, <2>2, KeptLemma
<1>12. CASE \/ TimerFires \/ ChangeSecret \/ PassExpiry
            \/ \E r \in Refs : Expire(r)
            \/ \E r \in Refs, x \in Contracts \cup {Nil} : Publish(r, x)
            \/ \E k \in Clusters : ChangeCluster(k)
  <2>1. UNCHANGED <<pacto, watch, cached, worker, inflight, revisions>>
    BY <1>12 DEF TimerFires, ChangeSecret, PassExpiry, Expire, Publish, ChangeCluster
  <2>2. \A o \in Held' : o \in Held
    BY <2>1 DEF Held
  <2> QED BY <2>1, <2>2, KeptLemma
<1> QED BY <1>2, <1>3, <1>4, <1>5, <1>6, <1>7, <1>8, <1>9, <1>10, <1>11, <1>12
        DEF Next, WorkerStep, Environment

\* status.currentRevision of a Pacto that exists names a revision that exists:
\* recording the name only after ensureRevision returned it is enough, for any
\* failure of step 7 and any crash.
THEOREM CurrentRevisionIsKept == Spec => []CurrentRevisionExists
<1>1. Init => RevisionsKept
  BY IdleLemma DEF Init, RevisionsKept, Held, FreshStatus
<1>2. IInv /\ RevisionsKept /\ [Next]_vars => RevisionsKept'
  <2>1. ASSUME UNCHANGED vars, RevisionsKept PROVE RevisionsKept'
    BY <2>1 DEF vars, RevisionsKept, Held
  <2> QED BY <2>1, KeptStepLemma
<1>3. RevisionsKept => CurrentRevisionExists
  BY DEF RevisionsKept, CurrentRevisionExists, Held
<1> QED BY <1>1, <1>2, <1>3, InductiveInvariant, PTL DEF Spec
=============================================================================
