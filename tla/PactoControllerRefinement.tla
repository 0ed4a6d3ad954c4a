--------------------- MODULE PactoControllerRefinement ----------------------
(***************************************************************************)
(* The stored status is the product of one pass, and PactoController       *)
(* implements StatusSpec, for every set of specs, references, contracts,   *)
(* clusters and resourceVersions and all bounds.                           *)
(***************************************************************************)
EXTENDS PactoControllerProofs

\* ----- the invariants ---------------------------------------------------

Present(s) == {t \in ConditionTypes : s.conditions[t] # "absent"}

\* The status after the contract stage of a pass that goes on.
Staged(s) ==
    /\ s.contract # Nil
    /\ Present(s) \subseteq {"ContractValid", "ReadinessSatisfied"}
    /\ "ReadinessSatisfied" \in Present(s) <=> s.contract.readiness # Nil

\* What the worker derives, a dead process has sent and the API server stores
\* is of one pass.
WorkerOnePass ==
    /\ worker.pc \in {"auth", "load"} => worker.status = EmptyStatus
    /\ worker.pc \in {"revision", "service", "workload", "probe"} => Staged(worker.status)
    /\ worker.pc = "write" => OnePass(worker.status)

OnePassInv ==
    /\ WorkerOnePass
    /\ inflight # Nil => OnePass(inflight.status.derived)
    /\ StatusIsOnePass

\* A copy without a pointer to a revision is of a version without one.
PointersInv ==
    /\ \A o \in Held : o.rv = pacto.rv /\ o.status.currentRevision = Nil
                          => pacto.status.currentRevision = Nil
    /\ inflight # Nil => inflight.status.currentRevision = inflight.obj.status.currentRevision

\* ----- StatusSpec, in terms of the object --------------------------------

\* The abstract initial state and actions, spelled out over pacto and revisions.
LEMMA ReportedState ==
    /\ Reported!Init <=> /\ pacto.exists = TRUE /\ pacto.gen = 1 /\ pacto.spec \in Specs
                         /\ pacto.status = FreshStatus /\ revisions = {}
    /\ Reported!Edit <=>
         /\ pacto.exists /\ pacto'.spec \in Specs /\ pacto'.gen = pacto.gen + 1
         /\ UNCHANGED <<pacto.exists, pacto.status, revisions>>
    /\ Reported!Delete <=>
         /\ pacto.exists /\ ~pacto'.exists /\ revisions' = {}
         /\ UNCHANGED <<pacto.spec, pacto.gen, pacto.status>>
    /\ Reported!Record <=>
         /\ pacto.exists /\ revisions \subseteq revisions'
         /\ UNCHANGED <<pacto.exists, pacto.spec, pacto.gen, pacto.status>>
    /\ Reported!Report <=>
         /\ pacto.exists /\ pacto'.status.observedGeneration = pacto.gen
         /\ Reportable(pacto'.status.derived, pacto.spec)
         /\ \/ pacto'.status.currentRevision \in revisions
            \/ pacto'.status.currentRevision = Nil /\ pacto.status.currentRevision = Nil
         /\ UNCHANGED <<pacto.exists, pacto.spec, pacto.gen, revisions>>
  BY DEF Reported!Init, Reported!Edit, Reported!Delete, Reported!Record, Reported!Report

\* ----- one pass: lemmas on the operators --------------------------------

\* A status without conditions is of one pass.
LEMMA EmptyOnePass == OnePass(EmptyStatus)
BY ContractsAssumption DEF EmptyStatus, OnePass, NoConditions, ConditionTypes, RuntimeTypes,
   ProbeTypes, ContractStatuses

\* failReconciliation before anything but the policy was set.
LEMMA FailOnePass ==
    ASSUME NEW s \in DerivedStatus, s.conditions = NoConditions, s.contract = Nil, s.readiness = Nil
    PROVE  OnePass(failStatus(s))
<1> DEFINE f == failStatus(s)
<1>1. /\ f.contractStatus = "NonCompliant" /\ f.contract = Nil /\ f.readiness = Nil
      /\ f.conditions = [NoConditions EXCEPT !["ContractValid"] = "False"]
  BY DEF failStatus, setCondition, Summary, DerivedStatus
<1>2. \A t \in ConditionTypes : f.conditions[t] # "absent" => t = "ContractValid"
  BY <1>1 DEF NoConditions
<1> HIDE DEF f
<1> QED BY <1>1, <1>2 DEF OnePass, f

\* The contract stage of a pass: it fails, or hands on a contract with, at
\* most, the conditions on contract and readiness.
LEMMA StageOnePass ==
    ASSUME NEW spec \in Specs, NEW x \in Contracts \cup {Nil}, NEW past \in BOOLEAN
    PROVE  LET t == contractStage(EmptyStatus, spec, x, past)
           IN  IF passes(x, spec) THEN Staged(t) ELSE OnePass(t)
<1> DEFINE p == [EmptyStatus EXCEPT !.resolutionPolicy = resolutionPolicy(spec.oci)]
           c == effectiveContract(x, spec)
           v == populateContractStatus(p, c)
           r == reconcileReadiness(v, c, past)
<1>1. EmptyStatus \in DerivedStatus
  BY EmptyStatusLemma
<1>2. /\ p \in DerivedStatus /\ p.conditions = NoConditions /\ p.contract = Nil
      /\ p.readiness = Nil
  BY <1>1 DEF DerivedStatus, resolutionPolicy, EmptyStatus
<1>3. CASE ~passes(x, spec)
  <2>1. contractStage(EmptyStatus, spec, x, past) = failStatus(p)
    BY <1>3 DEF contractStage, passes
  <2> QED BY <1>2, <1>3, <2>1, FailOnePass
<1>4. CASE passes(x, spec)
  <2>1. contractStage(EmptyStatus, spec, x, past) = r
    BY <1>4 DEF contractStage, passes
  <2>2. c \in EffectiveContracts /\ c # Nil
    <3>1. x \in Contracts
      BY <1>4 DEF passes
    <3>2. c \in EffectiveContracts
      BY <3>1 DEF EffectiveContracts
    <3> QED BY <3>2, EffectiveAssumption
  <2> HIDE DEF p, c
  <2>3. /\ v.contract = c
        /\ v.conditions = [NoConditions EXCEPT !["ContractValid"] = "True"]
    BY <1>2 DEF populateContractStatus, setCondition, DerivedStatus
  <2>4. v \in DerivedStatus
    BY <1>2, <2>2 DEF populateContractStatus, setCondition, DerivedStatus, ConditionTypes
  <2> HIDE DEF v
  <2>5. r.contract = c
    BY <2>3, <2>4 DEF reconcileReadiness, setCondition, DerivedStatus
  <2>6. \A t \in ConditionTypes : t # "ReadinessSatisfied" => r.conditions[t] = v.conditions[t]
    BY <2>4 DEF reconcileReadiness, setCondition, DerivedStatus
  <2>7. r.conditions["ReadinessSatisfied"] # "absent" <=> c.readiness # Nil
    <3>1. "ReadinessSatisfied" \in ConditionTypes /\ v.conditions["ReadinessSatisfied"] = "absent"
      BY <2>3 DEF ConditionTypes, NoConditions
    <3> QED BY <2>4, <3>1 DEF reconcileReadiness, setCondition, DerivedStatus
  <2>8. \A t \in ConditionTypes : v.conditions[t] # "absent" => t = "ContractValid"
    BY <2>3 DEF NoConditions
  <2>9. "ReadinessSatisfied" \in ConditionTypes
    BY DEF ConditionTypes
  <2> HIDE DEF r
  <2>10. Staged(r)
    BY <2>2, <2>5, <2>6, <2>7, <2>8, <2>9 DEF Staged, Present
  <2> QED BY <1>4, <2>1, <2>10
<1> QED BY <1>3, <1>4

\* The outcomes of steps 8 and 10.
LEMMA ReferenceOnePass ==
    ASSUME NEW s \in DerivedStatus, Staged(s)
    PROVE  OnePass(referenceStatus(s))
<1>1. /\ referenceStatus(s).contractStatus = "Reference"
      /\ referenceStatus(s).contract = s.contract
      /\ referenceStatus(s).conditions = s.conditions
  BY DEF referenceStatus, Summary, DerivedStatus
<1> QED BY <1>1 DEF OnePass, Staged, Present

\* A pass that could not observe its target.
LEMMA UnobservedOnePass ==
    ASSUME NEW s \in DerivedStatus, Staged(s)
    PROVE  OnePass(unobservedStatus(s))
<1> DEFINE u == unobservedStatus(s)
<1>1. /\ u.contractStatus = "Unknown" /\ u.contract = s.contract
      /\ u.conditions = [s.conditions EXCEPT !["RuntimeObserved"] = "False"]
  BY DEF unobservedStatus, setCondition, Summary, DerivedStatus
<1>2. \A t \in ConditionTypes : t # "RuntimeObserved" => u.conditions[t] = s.conditions[t]
  BY <1>1 DEF DerivedStatus
<1> HIDE DEF u
<1> QED BY <1>1, <1>2 DEF OnePass, Staged, Present, u

\* Steps 11 to 15: a verdict on the target, and readiness as it was.
LEMMA RuntimeOnePass ==
    ASSUME NEW s \in DerivedStatus, Staged(s),
           NEW c, NEW snap, snap.workloadExists \in BOOLEAN, NEW hasService, NEW http
    PROVE  OnePass(runtimeStatus(s, c, snap, hasService, http))
<1> DEFINE checks == Validate(c, snap, hasService)
           a == applyValidationResult(s, checks, snap)
           p == probeEndpoints(a, c, http)
           q == IF snap.serviceExists THEN p ELSE a
           r == finalStatus(q)
           R == "ReadinessSatisfied"
<1>1. R \in ConditionTypes
  BY DEF ConditionTypes
<1>2. ASSUME NEW conds, NEW ks, \A k \in ks : k.name # R
      PROVE  setConditions(conds, ks)[R] = conds[R]
  BY <1>1, <1>2 DEF setConditions
<1>3. /\ a \in DerivedStatus
      /\ a.summary \in [total : Nat, passed : Nat, failed : Nat]
      /\ a.conditions = setConditions(s.conditions, checks) /\ a.contract = s.contract
  BY ApplyLemma, ValidateLemma
<1>4. /\ p \in DerivedStatus /\ p.contract = s.contract
      /\ p.conditions = setConditions(a.conditions, probeChecks(c, http))
  BY <1>3, ProbeLemma
<1>5. a.conditions[R] = s.conditions[R] /\ p.conditions[R] = s.conditions[R]
  BY <1>2, <1>3, <1>4, ChecksLeaveReadiness
<1>6. q \in DerivedStatus /\ q.contract = s.contract /\ q.conditions[R] = s.conditions[R]
  BY <1>3, <1>4, <1>5
<1> HIDE DEF q
<1>7. computeFinalContractStatus(q.conditions) \in {"NonCompliant", "Warning", "Compliant"}
  BY DEF computeFinalContractStatus
<1>8. /\ r.contract = s.contract /\ r.conditions[R] = s.conditions[R]
      /\ r.contractStatus \in {"NonCompliant", "Warning", "Compliant"}
  BY <1>6, <1>7 DEF finalStatus, DerivedStatus
<1>9. runtimeStatus(s, c, snap, hasService, http) = r
  BY DEF runtimeStatus, q
<1> HIDE DEF r
<1> QED BY <1>1, <1>8, <1>9 DEF OnePass, Staged, Present

\* ----- one pass: the steps ----------------------------------------------

\* Whatever answers it, a load yields a published contract or none.
LEMMA LoadAnswers ==
    ASSUME IInv, Load
    PROVE  \E x \in Contracts \cup {Nil} : Loaded(x)
<1> DEFINE spec == worker.obj.spec
<1>1. spec \in Specs /\ spec.oci \in Refs \cup {Nil} /\ spec.inline \in Contracts \cup {Nil}
  BY BusyLemma, SpecsAssumption DEF Load
<1>2. /\ loader \in [Refs -> Contracts \cup {Nil, Failed}]
      /\ registry \in [Refs -> Contracts \cup {Nil}]
  BY DEF IInv, TypeOK, RestOK
<1>3. fromRegistry(spec) => spec.oci \in Refs
  BY <1>1 DEF fromRegistry
<1> QED BY <1>1, <1>2, <1>3 DEF Load

\* The status under construction is of this pass at every step.
LEMMA WorkerOnePassStep ==
    ASSUME IInv, WorkerOnePass, Next
    PROVE  WorkerOnePass'
<1>1. WorkerOK
  BY DEF IInv, TypeOK
<1>2. CASE Fetch
  <2>1. worker' = Idle \/ /\ worker'.pc \in {"auth", "load"}
                          /\ worker'.status = EmptyStatus
    BY <1>2 DEF Fetch, Idle, resetDerivedStatus
  <2> QED BY <2>1, IdleLemma DEF WorkerOnePass
<1>3. CASE ResolveAuth
  <2>1. /\ worker.pc = "auth" /\ worker.status = EmptyStatus
        /\ \/ worker'.pc = "load" /\ worker'.status = worker.status
           \/ worker'.pc = "write" /\ worker'.status = failStatus(worker.status)
    BY <1>1, <1>3 DEF ResolveAuth, WorkerOnePass, WorkerOK
  <2>2. EmptyStatus.conditions = NoConditions /\ EmptyStatus.contract = Nil
        /\ EmptyStatus.readiness = Nil
    BY DEF EmptyStatus
  <2>3. OnePass(failStatus(EmptyStatus))
    BY <2>2, EmptyStatusLemma, FailOnePass
  <2> QED BY <2>1, <2>3 DEF WorkerOnePass
<1>4. CASE Load
  <2> DEFINE spec == worker.obj.spec
  <2>1. PICK x \in Contracts \cup {Nil} : Loaded(x)
    BY <1>4, LoadAnswers
  <2>2. /\ worker.pc = "load" /\ worker.status = EmptyStatus /\ spec \in Specs
        /\ expired \in BOOLEAN
    BY <1>4, BusyLemma DEF Load, WorkerOnePass, IInv, TypeOK, RestOK
  <2>3. /\ worker'.status = contractStage(EmptyStatus, spec, x, expired)
        /\ worker'.pc = IF passes(x, spec) THEN "revision" ELSE "write"
    BY <1>1, <2>1, <2>2 DEF Loaded, WorkerOK
  <2> QED BY <2>2, <2>3, StageOnePass DEF WorkerOnePass
<1>5. CASE EnsureRevision
  <2>1. /\ worker.pc = "revision" /\ Staged(worker.status) /\ worker.status \in DerivedStatus
        /\ \/ worker'.pc = "write" /\ worker'.status = referenceStatus(worker.status)
           \/ worker'.pc = "service" /\ worker'.status = worker.status
    BY <1>1, <1>5 DEF EnsureRevision, WorkerOnePass, WorkerOK
  <2> QED BY <2>1, ReferenceOnePass DEF WorkerOnePass
<1>6. CASE ObserveService
  <2>1. worker.pc = "service" /\ worker'.pc = "workload" /\ worker'.status = worker.status
    BY <1>1, <1>6 DEF ObserveService, WorkerOK
  <2> QED BY <2>1 DEF WorkerOnePass
<1>7. CASE ObserveWorkload
  <2>1. /\ worker.pc = "workload" /\ Staged(worker.status) /\ worker.status \in DerivedStatus
        /\ \/ worker'.pc = "write" /\ worker'.status = unobservedStatus(worker.status)
           \/ worker'.pc = "probe" /\ worker'.status = worker.status
    BY <1>1, <1>7 DEF ObserveWorkload, WorkerOnePass, WorkerOK
  <2> QED BY <2>1, UnobservedOnePass DEF WorkerOnePass
<1>8. CASE Probe
  <2>1. /\ worker.pc = "probe" /\ Staged(worker.status) /\ worker.status \in DerivedStatus
        /\ worker.snap.workloadExists \in BOOLEAN
    BY <1>1, <1>8 DEF Probe, WorkerOnePass, WorkerOK, IInv, WorkerDerives
  <2>2. /\ worker'.pc = "write"
        /\ worker'.status = runtimeStatus(worker.status, worker.status.contract, worker.snap,
                                          worker.obj.spec.target.service, cluster.http)
    BY <1>1, <1>8 DEF Probe, WorkerOK
  <2> QED BY <2>1, <2>2, RuntimeOnePass DEF WorkerOnePass
<1>9. CASE WriteStatus \/ WriteFails \/ Restart
  <2>1. worker' = Idle
    BY <1>9 DEF WriteStatus, WriteFails, Restart
  <2> QED BY <2>1, IdleLemma DEF WorkerOnePass
<1>10. CASE \/ TimerFires \/ Deliver \/ LateWrite \/ DeletePacto \/ ChangeSecret \/ PassExpiry
            \/ \E s \in Specs : EditSpec(s)
            \/ \E r \in Refs : Expire(r)
            \/ \E r \in Refs, x \in Contracts \cup {Nil} : Publish(r, x)
            \/ \E k \in Clusters : ChangeCluster(k)
  <2>1. worker' = worker
    BY <1>10 DEF TimerFires, Deliver, LateWrite, DeletePacto, ChangeSecret, PassExpiry,
                 EditSpec, Expire, Publish, ChangeCluster
  <2> QED BY <2>1 DEF WorkerOnePass
<1> QED BY <1>2, <1>3, <1>4, <1>5, <1>6, <1>7, <1>8, <1>9, <1>10
        DEF Next, WorkerStep, Environment

\* What a step does to the object in the API server and to its revisions.
\* Only two actions replace the status: the write of the pass in progress and
\* the late write of a dead process, both of a version that is still current.
LEMMA ObjectStep ==
    ASSUME IInv, Next
    PROVE  \/ pacto' = pacto /\ revisions' = revisions
           \/ pacto' = pacto /\ pacto.exists /\ revisions \subseteq revisions'
           \/ /\ pacto.exists /\ ~pacto'.exists /\ revisions' = {}
              /\ UNCHANGED <<pacto.spec, pacto.gen, pacto.status>>
           \/ /\ pacto.exists /\ pacto'.spec \in Specs /\ pacto'.gen = pacto.gen + 1
              /\ UNCHANGED <<pacto.exists, pacto.status, revisions>>
           \/ /\ worker.pc = "write" /\ UpToDate(worker.obj) /\ pacto'.status = submitted
              /\ UNCHANGED <<pacto.exists, pacto.spec, pacto.gen, revisions>>
           \/ /\ inflight # Nil /\ UpToDate(inflight.obj) /\ pacto'.status = inflight.status
              /\ UNCHANGED <<pacto.exists, pacto.spec, pacto.gen, revisions>>
<1>1. pacto \in Pacto
  BY DEF IInv, TypeOK, ObjectsOK
<1>2. CASE WriteStatus /\ pacto' # pacto
  BY <1>1, <1>2 DEF WriteStatus, Store, Pacto
<1>3. CASE LateWrite /\ pacto' # pacto
  BY <1>1, <1>3 DEF LateWrite, Store, Pacto
<1>4. ASSUME pacto' = pacto, WriteStatus \/ LateWrite PROVE revisions' = revisions
  BY <1>4 DEF WriteStatus, LateWrite
<1>5. ASSUME NEW s \in Specs, EditSpec(s)
      PROVE  /\ pacto.exists /\ pacto'.spec \in Specs /\ pacto'.gen = pacto.gen + 1
             /\ UNCHANGED <<pacto.exists, pacto.status, revisions>>
  BY <1>1, <1>5 DEF EditSpec, Store, Pacto
<1>6. CASE DeletePacto
  <2>1. pacto.exists /\ revisions' = {} /\ Store([pacto EXCEPT !.exists = FALSE])
    BY <1>6 DEF DeletePacto
  <2>2. /\ pacto'.exists = FALSE /\ UNCHANGED <<pacto.spec, pacto.gen, pacto.status>>
    BY <1>1, <2>1 DEF Store, Pacto
  <2> QED BY <2>1, <2>2
<1>7. CASE EnsureRevision
  <2>1. pacto' = pacto /\ (revisions' = revisions \/ (pacto.exists /\ revisions \subseteq revisions'))
    BY <1>7 DEF EnsureRevision, api
  <2> QED BY <2>1
<1>8. CASE \/ Fetch \/ ResolveAuth \/ Load \/ ObserveService \/ ObserveWorkload \/ Probe
           \/ WriteFails \/ TimerFires \/ Deliver \/ Restart \/ ChangeSecret \/ PassExpiry
  BY <1>8 DEF Fetch, ResolveAuth, Load, ObserveService, ObserveWorkload, Probe, WriteFails,
              TimerFires, Deliver, Restart, ChangeSecret, PassExpiry, api
<1>9. CASE \/ \E r \in Refs : Expire(r)
           \/ \E r \in Refs, x \in Contracts \cup {Nil} : Publish(r, x)
           \/ \E k \in Clusters : ChangeCluster(k)
  BY <1>9 DEF Expire, Publish, ChangeCluster, api
<1> QED BY <1>2, <1>3, <1>4, <1>5, <1>6, <1>7, <1>8, <1>9 DEF Next, WorkerStep, Environment

\* Only a restart puts an update in flight: the one its worker was about to
\* make.
LEMMA InflightStep ==
    ASSUME Next
    PROVE  \/ inflight' = inflight \/ inflight' = Nil
           \/ worker.pc = "write" /\ inflight' = [obj |-> worker.obj, status |-> submitted]
<1>1. CASE Restart \/ LateWrite
  BY <1>1 DEF Restart, LateWrite
<1>2. CASE WorkerStep \/ TimerFires \/ Deliver
  BY <1>2 DEF WorkerStep, Fetch, ResolveAuth, Load, EnsureRevision, ObserveService,
              ObserveWorkload, Probe, WriteStatus, WriteFails, TimerFires, Deliver
<1>3. CASE Environment \/ \E r \in Refs : Expire(r)
  BY <1>3 DEF Environment, EditSpec, DeletePacto, Publish, ChangeCluster, ChangeSecret,
              PassExpiry, Expire
<1> QED BY <1>1, <1>2, <1>3 DEF Next

\* Every step keeps what is derived, sent and stored the product of one pass.
LEMMA OnePassStep ==
    ASSUME IInv, OnePassInv, Next
    PROVE  OnePassInv'
<1>1. WorkerOnePass'
  BY WorkerOnePassStep DEF OnePassInv
<1>2. submitted.derived = worker.status
  BY DEF submitted
<1>3. inflight' # Nil => OnePass(inflight'.status.derived)
  BY <1>2, InflightStep DEF OnePassInv, WorkerOnePass
<1>4. OnePass(pacto'.status.derived)
  BY <1>2, ObjectStep DEF OnePassInv, WorkerOnePass, StatusIsOnePass
<1>5. StatusIsOnePass'
  BY <1>4 DEF StatusIsOnePass
<1> QED BY <1>1, <1>3, <1>5 DEF OnePassInv

\* The invariant holds in every reachable state.
LEMMA OnePassInvariant == Spec => []OnePassInv
<1>1. Init => OnePassInv
  BY EmptyOnePass DEF Init, OnePassInv, WorkerOnePass, StatusIsOnePass, Idle, FreshStatus
<1>2. IInv /\ OnePassInv /\ [Next]_vars => OnePassInv'
  <2>1. ASSUME UNCHANGED vars, OnePassInv PROVE OnePassInv'
    BY <2>1 DEF vars, OnePassInv, WorkerOnePass, StatusIsOnePass
  <2> QED BY <2>1, OnePassStep
<1> QED BY <1>1, <1>2, InductiveInvariant, PTL DEF Spec

\* The conditions, the readiness, the contract and the contract status the API
\* server stores are always of one pass of Reconcile: resetDerivedStatus and
\* the version check of the status update are enough, for any pass, any
\* failure in it and any late write.
THEOREM StatusIsAlwaysOnePass == Spec => []StatusIsOnePass
<1>1. OnePassInv => StatusIsOnePass
  BY DEF OnePassInv
<1> QED BY <1>1, OnePassInvariant, PTL

\* ----- pointers to revisions ---------------------------------------------

\* A version is stored under a resourceVersion no other copy has.
LEMMA StoreHeld ==
    ASSUME TypeOK, NEW obj \in Pacto, Store(obj), cached' = cached,
           worker' \in {worker, Idle}, inflight' \in {inflight, Nil}
    PROVE  \A o \in Held' : o = pacto' \/ (o \in Held /\ o.rv # pacto'.rv)
<1>1. /\ \A o \in Held : o.rv # pacto'.rv
      /\ \A i \in DOMAIN watch' : watch'[i] = pacto' \/ \E j \in DOMAIN watch : watch'[i] = watch[j]
  BY StoreLemma
<1>2. \A o \in Held' : o \in Held \/ o = pacto'
  BY <1>1, IdleLemma DEF Held
<1> QED BY <1>1, <1>2

\* The copies after a step: those from before, the version it stored, and the
\* worker's copy once ensureRevision has set its pointer.
LEMMA HeldStep ==
    ASSUME IInv, Next
    PROVE  \/ \A o \in Held' : o = pacto' \/ (o \in Held /\ o.rv # pacto'.rv)
           \/ /\ pacto' = pacto
              /\ \A o \in Held' :
                   \/ o \in Held
                   \/ /\ worker.obj \in Held /\ o.rv = worker.obj.rv
                      /\ o.status.currentRevision \in
                           Contracts \cup {worker.obj.status.currentRevision}
<1> USE DEF api, env
<1>1. pacto \in Pacto /\ TypeOK /\ WorkerOK /\ watch \in Seq(Pacto)
  BY DEF IInv, TypeOK, ObjectsOK
<1>2. CASE Fetch
  <2>1. /\ UNCHANGED <<pacto, watch, cached, inflight>>
        /\ worker'.pc = "idle" \/ worker'.obj = cached
    BY <1>2 DEF Fetch, Idle
  <2> QED BY <2>1 DEF Held
<1>3. CASE ResolveAuth \/ Load \/ ObserveService \/ ObserveWorkload \/ Probe
  <2>1. UNCHANGED <<pacto, watch, cached, inflight>> /\ worker.pc # "idle"
    BY <1>3 DEF ResolveAuth, Load, ObserveService, ObserveWorkload, Probe
  <2>2. worker'.obj = worker.obj
    <3>1. CASE Load
      BY <1>1, <3>1, LoadAnswers DEF Loaded, WorkerOK
    <3>2. CASE ResolveAuth \/ ObserveService \/ ObserveWorkload \/ Probe
      BY <1>1, <3>2 DEF ResolveAuth, ObserveService, ObserveWorkload, Probe, WorkerOK
    <3> QED BY <1>3, <3>1, <3>2
  <2> QED BY <2>1, <2>2 DEF Held
<1>4. CASE EnsureRevision
  <2>1. /\ UNCHANGED <<pacto, watch, cached, inflight>> /\ worker.pc = "revision"
        /\ worker.obj \in Held /\ worker.obj \in Pacto /\ worker.loaded \in Contracts
    BY <1>1, <1>4 DEF EnsureRevision, WorkerOK, Held, IInv, WorkerDerives
  <2>2. PICK ok \in BOOLEAN :
          worker'.obj = [worker.obj EXCEPT !.status.currentRevision = revisionAfter(ok)]
    BY <1>1, <1>4 DEF EnsureRevision, WorkerOK
  <2>3. /\ worker'.obj.rv = worker.obj.rv
        /\ worker'.obj.status.currentRevision = revisionAfter(ok)
    BY <2>1, <2>2 DEF Pacto, PactoStatus
  <2>4. revisionAfter(ok) \in Contracts \cup {worker.obj.status.currentRevision}
    BY <2>1 DEF revisionAfter
  <2>5. \A o \in Held' : o \in Held \/ o = worker'.obj
    BY <2>1 DEF Held
  <2> QED BY <2>1, <2>3, <2>4, <2>5
<1>5. CASE WriteStatus
  <2>1. worker.pc = "write" /\ worker' = Idle /\ UNCHANGED <<cached, inflight>>
    BY <1>5 DEF WriteStatus
  <2>2. CASE UNCHANGED <<pacto, watch>>
    BY <2>1, <2>2, IdleLemma DEF Held
  <2>3. CASE Store([pacto EXCEPT !.status = submitted])
    <3>1. [pacto EXCEPT !.status = submitted] \in Pacto
      BY <1>1, <2>1, SubmittedLemma DEF Pacto
    <3> QED BY <1>1, <2>1, <2>3, <3>1, StoreHeld
  <2> QED BY <1>5, <2>2, <2>3 DEF WriteStatus
<1>6. CASE LateWrite
  <2>1. inflight # Nil /\ inflight' = Nil /\ UNCHANGED <<cached, worker>>
    BY <1>6 DEF LateWrite
  <2>2. CASE UNCHANGED <<pacto, watch>>
    BY <2>1, <2>2 DEF Held
  <2>3. CASE Store([pacto EXCEPT !.status = inflight.status])
    <3>1. inflight.status \in PactoStatus
      BY <1>1, <2>1 DEF TypeOK, ObjectsOK
    <3>2. [pacto EXCEPT !.status = inflight.status] \in Pacto
      BY <1>1, <3>1 DEF Pacto
    <3> QED BY <1>1, <2>1, <2>3, <3>2, StoreHeld
  <2> QED BY <1>6, <2>2, <2>3 DEF LateWrite
<1>7. ASSUME NEW s \in Specs, EditSpec(s)
      PROVE  \A o \in Held' : o = pacto' \/ (o \in Held /\ o.rv # pacto'.rv)
  <2> DEFINE obj == [pacto EXCEPT !.spec = s, !.gen = @ + 1]
  <2>1. Store(obj) /\ UNCHANGED <<cached, worker, inflight>>
    BY <1>7 DEF EditSpec
  <2>2. pacto.gen + 1 \in Generations
    BY <1>1, <1>7, BoundsAssumption
    DEF IInv, GenerationCounts, TypeOK, RestOK, EditSpec, Edit, Pacto, Generations
  <2>3. obj \in Pacto
    BY <1>1, <2>2 DEF Pacto
  <2> QED BY <1>1, <2>1, <2>3, StoreHeld
<1>8. CASE DeletePacto
  <2>1. /\ Store([pacto EXCEPT !.exists = FALSE]) /\ UNCHANGED <<cached, worker, inflight>>
        /\ [pacto EXCEPT !.exists = FALSE] \in Pacto
    BY <1>1, <1>8 DEF DeletePacto, Pacto
  <2> QED BY <1>1, <2>1, StoreHeld
<1>9. CASE Deliver
  <2>1. /\ UNCHANGED <<pacto, worker, inflight>>
        /\ watch # << >> /\ cached' = Head(watch) /\ watch' = Tail(watch)
    BY <1>9 DEF Deliver
  <2>2. cached' = watch[1] /\ 1 \in DOMAIN watch
    BY <1>1, <2>1
  <2>3. \A i \in DOMAIN watch' : i + 1 \in DOMAIN watch /\ watch'[i] = watch[i + 1]
    BY <1>1, <2>1
  <2> QED BY <2>1, <2>2, <2>3 DEF Held
<1>10. CASE Restart
  <2>1. /\ worker' = Idle /\ cached' = pacto /\ watch' = << >> /\ UNCHANGED pacto
        /\ \/ inflight' = Nil
           \/ worker.pc = "write" /\ inflight' = [obj |-> worker.obj, status |-> submitted]
    BY <1>10 DEF Restart
  <2> QED BY <2>1, IdleLemma DEF Held
<1>11. CASE WriteFails
  <2>1. worker' = Idle /\ UNCHANGED <<pacto, watch, cached, inflight>>
    BY <1>11 DEF WriteFails
  <2> QED BY <2>1, IdleLemma DEF Held
<1>12. CASE \/ TimerFires \/ ChangeSecret \/ PassExpiry
            \/ \E r \in Refs : Expire(r)
            \/ \E r \in Refs, x \in Contracts \cup {Nil} : Publish(r, x)
            \/ \E k \in Clusters : ChangeCluster(k)
  <2>1. UNCHANGED <<pacto, watch, cached, worker, inflight>>
    BY <1>12 DEF TimerFires, ChangeSecret, PassExpiry, Expire, Publish, ChangeCluster
  <2> QED BY <2>1 DEF Held
<1> QED BY <1>2, <1>3, <1>4, <1>5, <1>6, <1>7, <1>8, <1>9, <1>10, <1>11, <1>12
        DEF Next, WorkerStep, Environment

\* A pass leaves the pointer it read or sets it, so every step keeps this.
LEMMA PointersStep ==
    ASSUME IInv, PointersInv, Next
    PROVE  PointersInv'
<1>1. Nil \notin Contracts
  BY ContractsAssumption
<1>2. ASSUME NEW o \in Held', o.rv = pacto'.rv, o.status.currentRevision = Nil
      PROVE  pacto'.status.currentRevision = Nil
  <2>1. CASE o = pacto' \/ (o \in Held /\ o.rv # pacto'.rv)
    BY <1>2, <2>1
  <2>2. CASE pacto' = pacto /\ o \in Held
    BY <1>2, <2>2 DEF PointersInv
  <2>3. CASE /\ pacto' = pacto /\ worker.obj \in Held /\ o.rv = worker.obj.rv
             /\ o.status.currentRevision \in Contracts \cup {worker.obj.status.currentRevision}
    BY <1>1, <1>2, <2>3 DEF PointersInv
  <2> QED BY <2>1, <2>2, <2>3, HeldStep
<1>3. inflight' # Nil =>
        inflight'.status.currentRevision = inflight'.obj.status.currentRevision
  BY InflightStep DEF PointersInv, submitted
<1> QED BY <1>2, <1>3 DEF PointersInv

\* ----- the refinement ---------------------------------------------------

\* What StatusSpec asks of a status update, of the object's version that
\* passes the check: it reports the stored spec, from one pass, and its
\* pointer is at a revision that exists.
LEMMA ReportLemma ==
    ASSUME IInv, RevisionsKept, PointersInv, NEW o \in Held, UpToDate(o),
           NEW st, st.observedGeneration = o.gen, DerivedFrom(st.derived, o.spec),
           OnePass(st.derived), st.currentRevision = o.status.currentRevision
    PROVE  /\ pacto.exists /\ st.observedGeneration = pacto.gen
           /\ Reportable(st.derived, pacto.spec)
           /\ \/ st.currentRevision \in revisions
              \/ st.currentRevision = Nil /\ pacto.status.currentRevision = Nil
<1>1. pacto.exists /\ o.rv = pacto.rv /\ o.gen = pacto.gen /\ o.spec = pacto.spec
  BY DEF UpToDate, IInv, HeldConsistent, Consistent
<1>2. o.status.currentRevision \in revisions \cup {Nil}
  BY <1>1 DEF RevisionsKept
<1>3. o.status.currentRevision = Nil => pacto.status.currentRevision = Nil
  BY <1>1 DEF PointersInv
<1> QED BY <1>1, <1>2, <1>3 DEF Reportable

\* Every step of the reconciler is a step of StatusSpec or none.
LEMMA RefinementStep ==
    ASSUME IInv, RevisionsKept, OnePassInv, PointersInv, Next
    PROVE  Reported!Next \/ UNCHANGED Reported!vars
<1>1. CASE pacto' = pacto /\ revisions' = revisions
  BY <1>1 DEF Reported!vars
<1>2. CASE pacto' = pacto /\ pacto.exists /\ revisions \subseteq revisions'
  BY <1>2, ReportedState DEF Reported!Next
<1>3. CASE /\ pacto.exists /\ ~pacto'.exists /\ revisions' = {}
           /\ UNCHANGED <<pacto.spec, pacto.gen, pacto.status>>
  BY <1>3, ReportedState DEF Reported!Next
<1>4. CASE /\ pacto.exists /\ pacto'.spec \in Specs /\ pacto'.gen = pacto.gen + 1
           /\ UNCHANGED <<pacto.exists, pacto.status, revisions>>
  BY <1>4, ReportedState DEF Reported!Next
<1>5. CASE /\ worker.pc = "write" /\ UpToDate(worker.obj) /\ pacto'.status = submitted
           /\ UNCHANGED <<pacto.exists, pacto.spec, pacto.gen, revisions>>
  <2>1. /\ worker.obj \in Held /\ submitted.observedGeneration = worker.obj.gen
        /\ DerivedFrom(submitted.derived, worker.obj.spec) /\ OnePass(submitted.derived)
        /\ submitted.currentRevision = worker.obj.status.currentRevision
    BY <1>5, SubmittedLemma DEF Held, OnePassInv, WorkerOnePass, submitted
  <2>2. /\ pacto.exists /\ submitted.observedGeneration = pacto.gen
        /\ Reportable(submitted.derived, pacto.spec)
        /\ \/ submitted.currentRevision \in revisions
           \/ submitted.currentRevision = Nil /\ pacto.status.currentRevision = Nil
    BY <1>5, <2>1, ReportLemma
  <2>3. Reported!Report
    BY <1>5, <2>2, ReportedState
  <2> QED BY <2>3 DEF Reported!Next
<1>6. CASE /\ inflight # Nil /\ UpToDate(inflight.obj) /\ pacto'.status = inflight.status
           /\ UNCHANGED <<pacto.exists, pacto.spec, pacto.gen, revisions>>
  <2>1. /\ inflight.obj \in Held /\ inflight.status.observedGeneration = inflight.obj.gen
        /\ DerivedFrom(inflight.status.derived, inflight.obj.spec)
        /\ OnePass(inflight.status.derived)
        /\ inflight.status.currentRevision = inflight.obj.status.currentRevision
    BY <1>6 DEF Held, IInv, InflightDerives, OnePassInv, PointersInv
  <2>2. /\ pacto.exists /\ inflight.status.observedGeneration = pacto.gen
        /\ Reportable(inflight.status.derived, pacto.spec)
        /\ \/ inflight.status.currentRevision \in revisions
           \/ inflight.status.currentRevision = Nil /\ pacto.status.currentRevision = Nil
    BY <1>6, <2>1, ReportLemma
  <2>3. Reported!Report
    BY <1>6, <2>2, ReportedState
  <2> QED BY <2>3 DEF Reported!Next
<1> QED BY <1>1, <1>2, <1>3, <1>4, <1>5, <1>6, ObjectStep

\* The reconciler implements StatusSpec: a reader of the API server sees edits,
\* deletions, new revisions, and reports each made at once of the spec stored
\* at that moment, although a pass reads a lagging copy, takes many steps and
\* may die before, during or after its write.
THEOREM ReportsAreAtomic == Spec => ReportsAtomically
<1>1. Init => Reported!Init
  <2> SUFFICES ASSUME Init PROVE Reported!Init
    OBVIOUS
  <2>1. PICK s \in Specs :
          pacto = [exists |-> TRUE, rv |-> CHOOSE v \in Versions : TRUE, gen |-> 1,
                   spec |-> s, status |-> FreshStatus]
    BY DEF Init
  <2>2. /\ pacto.exists = TRUE /\ pacto.gen = 1 /\ pacto.spec \in Specs
        /\ pacto.status = FreshStatus /\ revisions = {}
    BY <2>1 DEF Init
  <2> QED BY <2>2, ReportedState
<1>2. Init => RevisionsKept /\ PointersInv
  BY IdleLemma DEF Init, RevisionsKept, PointersInv, Held, FreshStatus
<1>3. IInv /\ RevisionsKept /\ PointersInv /\ [Next]_vars => (RevisionsKept /\ PointersInv)'
  <2>1. ASSUME UNCHANGED vars, RevisionsKept, PointersInv PROVE RevisionsKept' /\ PointersInv'
    BY <2>1 DEF vars, RevisionsKept, PointersInv, Held
  <2> QED BY <2>1, KeptStepLemma, PointersStep
<1>4. IInv /\ RevisionsKept /\ OnePassInv /\ PointersInv /\ [Next]_vars
        => [Reported!Next]_(Reported!vars)
  <2>1. ASSUME UNCHANGED vars PROVE UNCHANGED Reported!vars
    BY <2>1 DEF vars, Reported!vars
  <2> QED BY <2>1, RefinementStep
<1> QED BY <1>1, <1>2, <1>3, <1>4, InductiveInvariant, OnePassInvariant, PTL
        DEF Spec, ReportsAtomically, Reported!Spec
=============================================================================
