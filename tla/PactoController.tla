-------------------------- MODULE PactoController ---------------------------
(***************************************************************************)
(* internal/controller: the reconciliation of one Pacto.                   *)
(*                                                                         *)
(* The API server holds the object; the operator reads it from an informer *)
(* cache fed by the watch, and writes the status back under optimistic     *)
(* locking.  One worker takes the key from the work queue and runs         *)
(* Reconcile, whose reads (cache, Secret, registry, cluster, endpoints)    *)
(* happen at different moments: each is a step of its own here, and the    *)
(* environment moves between any two of them.                              *)
(*                                                                         *)
(* A spec is a record                                                      *)
(*   oci        the OCI reference, or Nil                                  *)
(*   inline     the inline contract, or Nil                                *)
(*   pullSecret whether pullSecretRef is set                               *)
(*   overrides  the configuration names spec.overrides names               *)
(*   target     see Observer                                               *)
(* A reference is a record repo, tag, digest.  A contract has, besides the *)
(* fields Validator and Compliance read,                                   *)
(*   valid      whether validation.Validate finds no error                 *)
(*   configs    the names of its configurations                            *)
(*   overridden the names whose values an override replaced                *)
(* A revision is identified by the loaded contract (version and hash).     *)
(***************************************************************************)
EXTENDS Compliance

CONSTANTS
    Failed,      \* a load error in the loader's cache
    Specs,       \* the specs a user may submit
    Refs,        \* OCI references that occur in Specs
    Contracts,   \* contracts as published: nothing overridden
    Clusters,    \* what the cluster may look like
    Versions,    \* pool of resourceVersions: compared for equality only
    MaxEdits,    \* bound on changes users, registry and cluster make
    MaxFaults,   \* bound on failed calls, lost events and restarts
    MaxWatch     \* bound on undelivered watch events

ASSUME SpecsAssumption ==
    \A s \in Specs : s.oci \in Refs \cup {Nil} /\ s.inline \in Contracts \cup {Nil}
ASSUME ContractsAssumption ==
    /\ \A c \in Contracts : "overridden" \in DOMAIN c /\ c.overridden = {}
    /\ Nil \notin ContractStatuses
    /\ Nil \notin Contracts /\ Failed \notin Contracts /\ Nil # Failed
ASSUME BoundsAssumption ==
    MaxEdits \in Nat /\ MaxFaults \in Nat /\ MaxWatch \in Nat /\ Versions # {}

VARIABLES
    pacto,       \* the object in the API server
    watch,       \* its versions not yet delivered to the informer
    cached,      \* the informer's copy
    queued,      \* the key is in the work queue
    timer,       \* a RequeueAfter or a rate-limited retry is pending
    worker,      \* the reconciliation in progress
    inflight,    \* a status update a dead process had sent, or Nil
    loader,      \* the loader's unexpired entry per reference
    revisions,   \* the PactoRevisions in the API server
    registry,    \* what pulling a reference yields; Nil: the pull fails
    cluster,     \* the target's objects, as their informers hold them
    secret,      \* the pull secret exists and is well formed
    expired,     \* the clock has passed the readiness expiry date
    gateEvents,  \* the last two readiness events, newest last
    edits,       \* changes made so far
    faults       \* faults so far

api  == <<pacto, watch, cached>>
env  == <<registry, cluster, secret, expired, edits>>
vars == <<pacto, watch, cached, queued, timer, worker, inflight, loader,
          revisions, registry, cluster, secret, expired, gateEvents, edits, faults>>

\* ----- the object and its status ----------------------------------------

\* PactoStatus: the derived part and what resetDerivedStatus preserves.
FreshStatus ==
    [derived |-> EmptyStatus, currentRevision |-> Nil,
     observedGeneration |-> 0]

\* The object versions somebody still holds.
Held == {pacto, cached} \cup {watch[i] : i \in DOMAIN watch}
        \cup (IF worker.pc = "idle" THEN {} ELSE {worker.obj})
        \cup (IF inflight = Nil THEN {} ELSE {inflight.obj})
InUse == {o.rv : o \in Held}
FreshVersion == CHOOSE v \in Versions : v \notin InUse
CanStore == InUse # Versions /\ Len(watch) < MaxWatch

\* The API server stores a new version of the object and sends it to watchers.
Store(obj) ==
    /\ CanStore
    /\ pacto' = [obj EXCEPT !.rv = FreshVersion]
    /\ watch' = Append(watch, pacto')

\* ----- the worker -------------------------------------------------------

\* No reconciliation in progress.
Idle == [pc |-> "idle", obj |-> Nil, wasUnmet |-> FALSE, loaded |-> Nil,
         service |-> Nil, snap |-> Nil, status |-> EmptyStatus]

\* resolutionPolicy, from the shape of the reference.
resolutionPolicy(ref) ==
    IF ref = Nil THEN Nil
    ELSE IF ref.digest THEN "PinnedDigest"
    ELSE IF ref.tag THEN "PinnedTag" ELSE "Latest"

\* The mistake of keeping the conditions of the previous pass.
resetKeepingConditions(s) == [EmptyStatus EXCEPT !.conditions = s.derived.conditions]

\* resetDerivedStatus: nothing derived survives into the pass.
resetDerivedStatus(s) == EmptyStatus

\* applyConfigurationOverrides on names: every override must name a
\* configuration, and the loaded contract itself is left alone.
overridesApply(c, spec) == spec.overrides \subseteq c.configs
effectiveContract(c, spec) == [c EXCEPT !.overridden = spec.overrides]

\* Steps 4 to 6b on the outcome x of the load (Nil: the load failed).
contractStage(s, spec, x, past) ==
    LET p == [s EXCEPT !.resolutionPolicy = resolutionPolicy(spec.oci)]
        c == effectiveContract(x, spec)
    IN  IF x = Nil THEN failStatus(p)
        ELSE IF ~overridesApply(x, spec) \/ ~x.valid THEN failStatus(p)
        ELSE reconcileReadiness(populateContractStatus(p, c), c, past)

passes(x, spec) == x # Nil /\ overridesApply(x, spec) /\ x.valid

\* The readiness gate of the previous pass, as the informer's copy tells it.
wasUnmetOf(obj) == obj.status.derived.conditions["ReadinessSatisfied"] = "False"

\* Returning the NotFound error, which makes the queue retry.
NotFoundIsError == ~cached.exists

\* Reconcile swallows NotFound: the key is not queued again.
NotFoundRequeues == FALSE

\* Steps 1 and 2: the worker takes the key and reads the informer's copy.  An
\* object that is gone ends the pass without a requeue.
Fetch ==
    /\ worker.pc = "idle" /\ queued
    /\ queued' = FALSE
    /\ timer' = (timer \/ NotFoundRequeues)
    /\ worker' = IF ~cached.exists THEN Idle
                 ELSE [Idle EXCEPT
                         !.obj = cached,
                         !.pc = IF cached.spec.pullSecret THEN "auth" ELSE "load",
                         !.wasUnmet = wasUnmetOf(cached),
                         !.status = resetDerivedStatus(cached.status)]
    /\ UNCHANGED <<inflight, api, loader, revisions, env, gateEvents, faults>>

\* Step 3: without a usable Secret the pass fails before the policy is set.
ResolveAuth ==
    /\ worker.pc = "auth"
    /\ \/ secret /\ worker' = [worker EXCEPT !.pc = "load"] /\ UNCHANGED faults
       \/ /\ ~secret \/ faults < MaxFaults
          /\ worker' = [worker EXCEPT !.pc = "write", !.status = failStatus(@)]
          /\ faults' = IF secret THEN faults + 1 ELSE faults
    /\ UNCHANGED <<inflight, api, queued, timer, loader, revisions, env, gateEvents>>

\* reconcileReadiness' event: emitted now, long before the status is written.
gateEvent(s, wasUnmet) ==
    CASE s.readiness = "unmet" /\ ~wasUnmet -> Append(gateEvents, "Unmet")
      [] s.readiness = "met" /\ wasUnmet    -> Append(gateEvents, "Recovered")
      [] OTHER                              -> gateEvents
lastTwo(events) == IF Len(events) > 2 THEN Tail(events) ELSE events

\* loadUncached: an inline contract wins; a spec with no source at all fails.
fromRegistry(spec) == spec.inline = Nil /\ spec.oci # Nil

\* Per-CR credentials bypass the cache, in both directions.
cacheable(spec) == ~spec.pullSecret
cachedAnswer(spec) == cacheable(spec) /\ loader[spec.oci] # Nil

\* The mistake of caching the contract the overrides were merged into.
cacheEntryMutated(x, spec) == IF x = Nil THEN Failed ELSE effectiveContract(x, spec)

\* What the cache keeps of a load.
cacheEntry(x, spec) == IF x = Nil THEN Failed ELSE x

\* The rest of the pass up to the runtime stage, once the load has answered x.
Loaded(x) ==
    LET spec == worker.obj.spec
        s    == contractStage(worker.status, spec, x, expired)
    IN  /\ worker' = [worker EXCEPT !.status = s, !.loaded = x,
                                    !.pc = IF passes(x, spec) THEN "revision" ELSE "write"]
        /\ gateEvents' = lastTwo(gateEvent(s, worker.wasUnmet))

\* Steps 4 to 6b: Load answers from the cache, or pulls and caches the answer,
\* errors included; an inline contract is parsed on the spot.
Load ==
    /\ worker.pc = "load"
    /\ LET spec == worker.obj.spec
       IN \/ /\ ~fromRegistry(spec)
             /\ Loaded(spec.inline)
             /\ UNCHANGED <<loader, faults>>
          \/ /\ fromRegistry(spec) /\ cachedAnswer(spec)
             /\ Loaded(IF loader[spec.oci] = Failed THEN Nil ELSE loader[spec.oci])
             /\ UNCHANGED <<loader, faults>>
          \/ /\ fromRegistry(spec) /\ ~cachedAnswer(spec)
             /\ \E x \in {registry[spec.oci], Nil} :
                  /\ x # registry[spec.oci] => faults < MaxFaults
                  /\ faults' = IF x # registry[spec.oci] THEN faults + 1 ELSE faults
                  /\ Loaded(x)
                  /\ loader' = IF cacheable(spec)
                               THEN [loader EXCEPT ![spec.oci] = cacheEntry(x, spec)]
                               ELSE loader
    /\ UNCHANGED <<inflight, api, queued, timer, revisions, env>>

\* The mistake of recording the name although the creation failed.
revisionAfterAlways(ok) == worker.loaded

\* status.currentRevision after ensureRevision: unchanged when it failed.
revisionAfter(ok) == IF ok THEN worker.loaded ELSE worker.obj.status.currentRevision

\* The contracts syncAllRevisions may find behind the tags of the repository:
\* what the registry serves or what the loader still remembers.
syncable(spec) ==
    IF spec.oci = Nil THEN {}
    ELSE IF spec.oci.digest THEN {}
    ELSE ({registry[r] : r \in Refs} \cup {loader[r] : r \in Refs}) \ {Nil, Failed}

\* Step 7: ensureRevision, then syncAllRevisions for the other tags of the
\* repository.  A failure of either is logged and the pass goes on.  A new
\* revision is owned by the Pacto, so its creation enqueues the key; one
\* created for a Pacto that is gone is garbage collected.
EnsureRevision ==
    /\ worker.pc = "revision"
    /\ \E ok \in BOOLEAN, more \in SUBSET syncable(worker.obj.spec) :
         LET made == ((IF ok THEN {worker.loaded} ELSE {}) \cup more) \ revisions
         IN  /\ ~ok => faults < MaxFaults
             /\ faults' = IF ok THEN faults ELSE faults + 1
             /\ revisions' = IF pacto.exists THEN revisions \cup made ELSE revisions
             /\ queued' = (queued \/ (pacto.exists /\ made # {}))
             /\ worker' = [worker EXCEPT
                    !.obj.status.currentRevision = revisionAfter(ok),
                    !.pc = IF IsReference(worker.obj.spec.target) THEN "write" ELSE "service",
                    !.status = IF IsReference(worker.obj.spec.target)
                               THEN referenceStatus(@) ELSE @]
    /\ UNCHANGED <<inflight, api, timer, loader, env, gateEvents>>

\* Step 10, first read: the Service.
ObserveService ==
    /\ worker.pc = "service"
    /\ worker' = [worker EXCEPT !.pc = "workload", !.service = cluster.service]
    /\ UNCHANGED <<inflight, api, queued, timer, loader, revisions, env, gateEvents, faults>>

\* Step 10, second read: the workload, as of now; the Service, as of before.
\* A failed read of either ends the pass with status Unknown.
ObserveWorkload ==
    /\ worker.pc = "workload"
    /\ \/ /\ worker' = [worker EXCEPT
                !.pc = "probe",
                !.snap = Observe(worker.obj.spec.target,
                                 [cluster EXCEPT !.service = worker.service])]
          /\ UNCHANGED faults
       \/ /\ faults < MaxFaults /\ faults' = faults + 1
          /\ worker' = [worker EXCEPT !.pc = "write", !.status = unobservedStatus(@)]
    /\ UNCHANGED <<inflight, api, queued, timer, loader, revisions, env, gateEvents>>

\* Steps 11 to 15: validation of the snapshot and the endpoint probes, which
\* see the endpoints as they are by now.
Probe ==
    /\ worker.pc = "probe"
    /\ worker' = [worker EXCEPT
           !.pc = "write",
           !.status = runtimeStatus(@, @.contract, worker.snap,
                                    worker.obj.spec.target.service, cluster.http)]
    /\ UNCHANGED <<inflight, api, queued, timer, loader, revisions, env, gateEvents, faults>>

\* The status the worker submits.
submitted ==
    [derived |-> worker.status, currentRevision |-> worker.obj.status.currentRevision,
     observedGeneration |-> worker.obj.gen]

\* Dropping the optimistic lock.
UpToDateUnchecked(obj) == pacto.exists

\* The API server accepts an update only of the version it holds; the object
\* submitted carries the resourceVersion of the copy Fetch read.
UpToDate(obj) == pacto.exists /\ obj.rv = pacto.rv

\* A return without RequeueAfter when the contract failed.
RequeueOnlyIfValid == worker.status.contract # Nil

\* Every path of failReconciliation and finishReconciliation asks to be
\* called again, by RequeueAfter or by returning the error.
Requeues == TRUE

\* The mistake of applying the result to the latest version of the object, as a
\* retry on conflict would, and calling it observed.
WriteStatusToLatest ==
    /\ worker.pc = "write" /\ pacto.exists
    /\ Store([pacto EXCEPT !.status = [submitted EXCEPT !.observedGeneration = pacto.gen]])
    /\ worker' = Idle
    /\ timer' = TRUE
    /\ UNCHANGED <<inflight, cached, queued, loader, revisions, env, gateEvents, faults>>

\* finishReconciliation and failReconciliation: Status().Update.  The time
\* stamp lastReconciledAt has a resolution of seconds, so an update with the
\* same result may or may not produce a new version.
WriteStatus ==
    /\ worker.pc = "write"
    /\ UpToDate(worker.obj)
    /\ \/ submitted = pacto.status /\ UNCHANGED <<pacto, watch>>
       \/ Store([pacto EXCEPT !.status = submitted])
    /\ worker' = Idle
    /\ timer' = (timer \/ Requeues)
    /\ UNCHANGED <<inflight, cached, queued, loader, revisions, env, gateEvents, faults>>

\* The update is refused (conflict, object gone) or fails; the error returned
\* from Reconcile makes the queue retry.
WriteFails ==
    /\ worker.pc = "write"
    /\ \/ ~UpToDate(worker.obj) /\ UNCHANGED faults
       \/ faults < MaxFaults /\ faults' = faults + 1
    /\ worker' = Idle
    /\ timer' = TRUE
    /\ UNCHANGED <<inflight, api, queued, loader, revisions, env, gateEvents>>

\* ----- the queue, the informer and the process ----------------------------

\* RequeueAfter elapses, or the rate limiter releases the retry.
TimerFires ==
    /\ timer
    /\ timer' = FALSE /\ queued' = TRUE
    /\ UNCHANGED <<inflight, api, worker, loader, revisions, env, gateEvents, faults>>

\* A watch event reaches the informer, which enqueues the key: no predicate
\* filters status updates out.
Deliver ==
    /\ watch # << >>
    /\ cached' = Head(watch) /\ watch' = Tail(watch) /\ queued' = TRUE
    /\ UNCHANGED <<inflight, pacto, timer, worker, loader, revisions, env, gateEvents, faults>>

\* The operator dies anywhere in a pass, or loses the leader lease, and the
\* next process starts: cache, queue and timers are rebuilt from a list of the
\* objects.  A status update already sent may still reach the API server.
Restart ==
    /\ faults < MaxFaults /\ faults' = faults + 1
    /\ cached' = pacto /\ watch' = << >>
    /\ queued' = pacto.exists /\ timer' = FALSE
    /\ worker' = Idle
    /\ \/ inflight' = Nil
       \/ worker.pc = "write" /\ inflight' = [obj |-> worker.obj, status |-> submitted]
    /\ loader' = [r \in Refs |-> Nil]
    /\ UNCHANGED <<pacto, revisions, env, gateEvents>>

\* The API server gets to the update of the dead process.
LateWrite ==
    /\ inflight # Nil
    /\ inflight' = Nil
    /\ \/ ~UpToDate(inflight.obj) /\ UNCHANGED <<pacto, watch>>
       \/ UpToDate(inflight.obj) /\ Store([pacto EXCEPT !.status = inflight.status])
    /\ UNCHANGED <<cached, queued, timer, worker, loader, revisions, env, gateEvents, faults>>

\* A loader entry's 30 seconds are over.
Expire(r) ==
    /\ loader[r] # Nil
    /\ loader' = [loader EXCEPT ![r] = Nil]
    /\ UNCHANGED <<inflight, api, queued, timer, worker, revisions, env, gateEvents, faults>>

\* ----- users, registry and cluster --------------------------------------

Edit == edits < MaxEdits /\ edits' = edits + 1

\* A user changes the spec: the API server bumps the generation.
EditSpec(s) ==
    /\ Edit /\ pacto.exists /\ s # pacto.spec
    /\ Store([pacto EXCEPT !.spec = s, !.gen = @ + 1])
    /\ UNCHANGED <<inflight, cached, queued, timer, worker, loader, revisions, registry,
                   cluster, secret, expired, gateEvents, faults>>

\* A user deletes the Pacto; its revisions are garbage collected.
DeletePacto ==
    /\ Edit /\ pacto.exists
    /\ Store([pacto EXCEPT !.exists = FALSE])
    /\ revisions' = {}
    /\ UNCHANGED <<inflight, cached, queued, timer, worker, loader, registry, cluster,
                   secret, expired, gateEvents, faults>>

\* A tag is published, moved or removed; a digest only ever names one
\* content.  Nothing tells the operator.
Publish(r, x) ==
    /\ Edit /\ x # registry[r]
    /\ r.digest => x = Nil \/ registry[r] = Nil
    /\ registry' = [registry EXCEPT ![r] = x]
    /\ UNCHANGED <<inflight, api, queued, timer, worker, loader, revisions, cluster,
                   secret, expired, gateEvents, faults>>

\* mapObjectToPactos over the informer's list: the target's objects enqueue
\* the key.
mapObjectToPactos == cached.exists /\ ~IsReference(cached.spec.target)

\* mapSecretToPactos.
mapSecretToPactos == cached.exists /\ cached.spec.pullSecret

\* The target's objects change.  Endpoints change silently; an event is lost
\* when the handler's List fails.
ChangeCluster(k) ==
    /\ Edit /\ k # cluster
    /\ cluster' = k
    /\ LET event == mapObjectToPactos
                    /\ <<k.service, k.workload>> # <<cluster.service, cluster.workload>>
       IN  \/ queued' = (queued \/ event) /\ UNCHANGED faults
           \/ event /\ faults < MaxFaults /\ faults' = faults + 1 /\ UNCHANGED queued
    /\ UNCHANGED <<inflight, api, timer, worker, loader, revisions, registry, secret,
                   expired, gateEvents>>

\* The pull secret appears or disappears.
ChangeSecret ==
    /\ Edit
    /\ secret' = ~secret
    /\ queued' = (queued \/ mapSecretToPactos)
    /\ UNCHANGED <<inflight, api, timer, worker, loader, revisions, registry, cluster,
                   expired, gateEvents, faults>>

\* The readiness assessment expires.
PassExpiry ==
    /\ Edit /\ ~expired
    /\ expired' = TRUE
    /\ UNCHANGED <<inflight, api, queued, timer, worker, loader, revisions, registry,
                   cluster, secret, gateEvents, faults>>

\* ----- specification ----------------------------------------------------

\* A Pacto has been created and the operator has listed it.
Init ==
    /\ \E s \in Specs :
         pacto = [exists |-> TRUE, rv |-> CHOOSE v \in Versions : TRUE, gen |-> 1,
                  spec |-> s, status |-> FreshStatus]
    /\ watch = << >> /\ cached = pacto /\ queued = TRUE /\ timer = FALSE
    /\ worker = Idle /\ inflight = Nil
    /\ loader = [r \in Refs |-> Nil] /\ revisions = {}
    /\ registry \in [Refs -> Contracts \cup {Nil}] /\ cluster \in Clusters
    /\ secret = TRUE /\ expired = FALSE
    /\ gateEvents = << >> /\ edits = 0 /\ faults = 0

WorkerStep == \/ Fetch \/ ResolveAuth \/ Load \/ EnsureRevision \/ ObserveService
              \/ ObserveWorkload \/ Probe \/ WriteStatus \/ WriteFails

Environment ==
    \/ \E s \in Specs : EditSpec(s)
    \/ DeletePacto
    \/ \E r \in Refs, x \in Contracts \cup {Nil} : Publish(r, x)
    \/ \E k \in Clusters : ChangeCluster(k)
    \/ ChangeSecret
    \/ PassExpiry

Next == \/ WorkerStep \/ TimerFires \/ Deliver \/ Restart \/ LateWrite
        \/ \E r \in Refs : Expire(r)
        \/ Environment

\* The queue's worker, its timers, the informer and the clock do not stop;
\* users and faults need not happen.
Fairness ==
    /\ WF_vars(WorkerStep) /\ WF_vars(TimerFires) /\ WF_vars(Deliver) /\ WF_vars(LateWrite)
    /\ \A r \in Refs : WF_vars(Expire(r))

Spec == Init /\ [][Next]_vars
FairSpec == Spec /\ Fairness

\* ----- properties -------------------------------------------------------

Generations == 1..(MaxEdits + 1)

\* The contracts a status may show: published ones with overrides applied.
EffectiveContracts == {effectiveContract(c, s) : c \in Contracts, s \in Specs}

ASSUME EffectiveAssumption == Nil \notin EffectiveContracts

DerivedStatus ==
    [contractStatus : ContractStatuses \cup {Nil},
     resolutionPolicy : {Nil, "PinnedDigest", "PinnedTag", "Latest"},
     summary : [total : Nat, passed : Nat, failed : Nat] \cup {Nil},
     contract : EffectiveContracts \cup {Nil},
     readiness : {Nil, "met", "unmet"}, validation : {Nil, "valid", "invalid"},
     observed : BOOLEAN, endpoints : SUBSET {"health", "metrics"},
     conditions : [ConditionTypes -> {"absent", "True", "False"}]]
PactoStatus ==
    [derived : DerivedStatus, currentRevision : Contracts \cup {Nil},
     observedGeneration : 0..(MaxEdits + 1)]
Pacto == [exists : BOOLEAN, rv : Versions, gen : Generations, spec : Specs,
          status : PactoStatus]

\* Service and snapshot hold what the cluster answered.
WorkerOK ==
    /\ worker = [pc |-> worker.pc, obj |-> worker.obj, wasUnmet |-> worker.wasUnmet,
                 loaded |-> worker.loaded, service |-> worker.service,
                 snap |-> worker.snap, status |-> worker.status]
    /\ worker.pc \in {"idle", "auth", "load", "revision", "service", "workload",
                      "probe", "write"}
    /\ worker.pc = "idle" => worker = Idle
    /\ worker.pc # "idle" => worker.obj \in Pacto
    /\ worker.wasUnmet \in BOOLEAN /\ worker.loaded \in Contracts \cup {Nil}
    /\ worker.status \in DerivedStatus

ObjectsOK ==
    /\ pacto \in Pacto /\ cached \in Pacto /\ watch \in Seq(Pacto)
    /\ inflight = Nil \/ inflight \in [obj : Pacto, status : PactoStatus]

RestOK ==
    /\ queued \in BOOLEAN /\ timer \in BOOLEAN
    /\ loader \in [Refs -> Contracts \cup {Nil, Failed}]
    /\ registry \in [Refs -> Contracts \cup {Nil}]
    /\ revisions \subseteq Contracts
    /\ cluster \in Clusters /\ secret \in BOOLEAN /\ expired \in BOOLEAN
    /\ gateEvents \in Seq({"Unmet", "Recovered"})
    /\ edits \in 0..MaxEdits /\ faults \in 0..MaxFaults

\* Type correctness: the objects held anywhere, the worker, the loader's cache
\* and the environment.  In particular the cache and the revisions only ever
\* hold contracts as published, never one with overrides merged in.
TypeOK == ObjectsOK /\ WorkerOK /\ RestOK

\* What a derived status may say for a spec: the parts of it that the spec
\* alone decides.
DerivedFrom(s, spec) ==
    /\ s.resolutionPolicy \in {Nil, resolutionPolicy(spec.oci)}
    /\ s.contractStatus = "Reference" => IsReference(spec.target)
    /\ s.contractStatus \in {"Compliant", "Warning", "Unknown"} => ~IsReference(spec.target)
    /\ s.conditions["ServiceExists"] # "absent" => spec.target.service
    /\ s.contract # Nil => s.contract.overridden = spec.overrides

\* status.observedGeneration can be trusted: when it equals the generation,
\* the status was derived from the spec the object has now, although the
\* reconciliation that wrote it read an informer's copy, took seconds, and
\* the spec may have been edited meanwhile.
ObservedGenerationSound ==
    pacto.exists /\ pacto.status.observedGeneration = pacto.gen
        => DerivedFrom(pacto.status.derived, pacto.spec)

\* No write takes back the observed generation: a pass that started from an
\* older copy cannot overwrite the result of a later one.
ObservedGenerationMonotonic ==
    [][pacto'.status.observedGeneration >= pacto.status.observedGeneration]_vars

\* What one pass leaves in a derived status: its contract, its readiness, its
\* conditions and its contract status belong together.
OnePass(s) ==
    LET present == {t \in ConditionTypes : s.conditions[t] # "absent"}
    IN  /\ s.contractStatus = "Reference" =>
             present \subseteq {"ContractValid", "ReadinessSatisfied"}
        /\ s.contractStatus = "Unknown" =>
             present \subseteq {"ContractValid", "ReadinessSatisfied", "RuntimeObserved"}
        /\ s.contract = Nil => present \subseteq {"ContractValid"} /\ s.readiness = Nil
        /\ s.contract # Nil =>
             ("ReadinessSatisfied" \in present <=> s.contract.readiness # Nil)

\* The conditions, the readiness, the contract and the contract status of a
\* stored status are the product of one pass: nothing of an earlier pass
\* survives in them.
StatusIsOnePass == OnePass(pacto.status.derived)

\* status.currentRevision names a PactoRevision that exists, whatever part of
\* step 7 failed and whenever the operator died.
CurrentRevisionExists ==
    pacto.exists /\ pacto.status.currentRevision # Nil
        => pacto.status.currentRevision \in revisions

\* What a status may say of a spec: what the spec decides, from one pass.
Reportable(s, spec) == DerivedFrom(s, spec) /\ OnePass(s)

\* The operator, for a reader of the API server.
Reported == INSTANCE StatusSpec WITH
                exists <- pacto.exists, spec <- pacto.spec, gen <- pacto.gen,
                status <- pacto.status, revisions <- revisions

\* The reconciler implements StatusSpec: with a lagging cache, a pass of many
\* steps, lost and late writes, and restarts anywhere, each change of the
\* stored status is a report made at once of the spec stored at that moment,
\* pointing at a revision stored at that moment.
ReportsAtomically == Reported!Spec

\* What a reconciliation that read everything now would derive.
Ideal ==
    LET spec == pacto.spec
        x == IF fromRegistry(spec) THEN registry[spec.oci] ELSE spec.inline
        s == contractStage(EmptyStatus, spec, x, expired)
    IN  IF spec.pullSecret /\ ~secret THEN failStatus(EmptyStatus)
        ELSE IF ~passes(x, spec) THEN s
        ELSE IF IsReference(spec.target) THEN referenceStatus(s)
        ELSE runtimeStatus(s, s.contract, Observe(spec.target, cluster),
                           spec.target.service, cluster.http)

\* The status converges: once users, registry, cluster and faults leave the
\* system alone, it ends up being, and stays, what the current spec, registry,
\* cluster, Secret and clock imply.  Registry, endpoints and clock send no
\* event, so this rests on the requeue of every path; the registry's answer
\* may be cached, so it rests on the expiry of the entry.
Converges ==
    <>[](pacto.exists => /\ pacto.status.derived = Ideal
                         /\ pacto.status.observedGeneration = pacto.gen)

\* A deleted Pacto is forgotten: a pass in progress ends, its failed write is
\* retried once, and nothing stays queued for the key.
DeletedIsForgotten ==
    (~pacto.exists) ~> [](worker.pc = "idle" /\ ~queued /\ ~timer)

\* conditions.go: readiness events are emitted on gate transitions only, so two
\* in a row are never the same.
GateEventsAlternate ==
    Len(gateEvents) = 2 => gateEvents[1] # gateEvents[2]
=============================================================================
