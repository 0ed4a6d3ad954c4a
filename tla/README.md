# Verification of pacto-operator

pacto-operator is a Kubernetes operator. A user creates a `Pacto` object that
names a contract (an OCI bundle or inline YAML) and, optionally, a target (a
Service and/or a workload). The operator loads the contract, compares it with
the cluster and writes the verdict into the object's status; it also keeps one
`PactoRevision` object per contract version it has seen. This directory holds
TLA+ models of that behaviour, TLC configurations that check them, and TLAPS
proofs.

    tlc -workers 2 -config MCPactoController.cfg MCPactoController   # a run
    tlapm PactoControllerProofs.tla                                  # the proofs of a module

Paths below are relative to `src/`. `PROJECT.json` lists runs, mutants, hazards,
findings and the source lines of every definition.

## 1. Inventory

| Component | State | Operations | Hard behaviour | What makes it correct |
|---|---|---|---|---|
| Reconciler `internal/controller/pacto_controller.go` | none of its own; the object's status, via the informer and `Status().Update` | `Reconcile` (15 steps), `failReconciliation`, `finishReconciliation` | seven reads at seven moments, a stale informer, optimistic locking, early returns, restarts | a status is the product of one pass over one spec; `observedGeneration` can be trusted; it converges |
| Revision history (same file) | `PactoRevision` objects | `ensureRevision`, `syncAllRevisions` | create and status are two requests; informer lags; tags are overwritten | current revision exists and gets its status; every served content gets a revision; digest and hash agree |
| Readiness `readiness.go` | condition `ReadinessSatisfied` | `reconcileReadiness` | a clock nobody announces; events decided from a stale copy | gate events alternate; status separate from compliance |
| Event handlers `event_handler.go` | none | `mapSecretToPactos`, `mapObjectToPactos` | the list of Pactos is not of the event's moment; a failing List loses the event | events suffice; what is lost is made up for |
| Observer `internal/observer` | none | `Observe` | two reads; where each kind keeps its claims | the snapshot says what the objects say |
| Validator `internal/validator` | none | `Validate` and its nine checks, `imageMatches` | boundary cases | Compliant iff conformant |
| Prober `internal/prober` | HTTP client | `Probe` | redirects, status boundaries, empty bodies | endpoint verdicts |
| Loader `internal/loader` | bundle cache (30 s) and tag cache (5 min) behind mutexes | `Load`, `ListTags`, `Pull`, `Resolve` | errors cached too, credentials bypass the cache, shared pointers, pull and resolve not atomic | an entry answers only for its reference and is never mutated |
| Credentials `internal/credentials` | none | `FromSecret` for a pull, `MergeToDockerConfigJSON` for the dashboard | map iteration order, spellings of a registry, later Secrets override | credentials of the registry contacted; pull and merge agree |
| Dashboard `internal/dashboard` | owned Deployment, Service, RBAC, Secret | apply at start and every five minutes, one cleanup per process | stops at the first error, which at the start ends the process; lagging informers; objects still in deletion | converges to the configuration; a disabled one is gone; deletes only its own objects |
| Metrics `internal/metrics` | Prometheus gauges | `RecordContractStatus`, `RecordValidation`, `RecordReadiness` | counts kept apart from the status; gauges outlive objects | gauges match statuses |
| Manager `cmd/main.go` | process, leader lease | validation of the dashboard's configuration, start, stop | restart in the middle of a pass | `Restart` of the controllers, `StartProcess` and `Crash` of `Dashboard` |

Interaction: the work queue calls `Reconcile` for one key at a time; the
informer, the watches on owned revisions, Services, workloads and Secrets, the
`RequeueAfter` timers and the rate limiter put keys into it. `Reconcile` calls
loader, observer, prober and validator synchronously. Registry, endpoints and
clock send no events at all.

## 2. Modules

| Module | Models | EXTENDS |
|---|---|---|
| `Observer` | `observer.Observe`, target resolution | – |
| `Validator` | the nine checks, image matching | `Observer` |
| `Compliance` | the status a pass builds: conditions, summary, readiness, probes, final status | `Validator` |
| `Metrics` | the gauges and what the reconciler records | `Compliance` |
| `Evaluation` | steps 5 to 15 as one pass over a contract and a cluster, then a pass that fails; the reference definition of conformance | `Metrics` |
| `PactoController` | one Pacto in the API server, informer, queue, timers, worker, loader cache, revisions, environment | `Compliance` |
| `StatusSpec` | abstract: what a reader of a Pacto's status may rely on | – |
| `EventHandlers` | several Pactos sharing objects: informers, map functions, queue | – |
| `Revisions` | step 7 in detail for one repository with several tags | – |
| `RevisionLog` | abstract: what the PactoRevisions are to their readers | – |
| `Credentials` | credentials out of Secrets, for a pull and for the dashboard | – |
| `CredentialUse` | the two calls that use them: a Pacto's pull, the dashboard's merge | `Credentials` |
| `Dashboard` | start, ticks, apply and cleanup of the dashboard, with the merge of credentials | `Credentials` |
| `ComplianceProofs` | lemmas about the operators of `Compliance` and `Validator` | `Compliance`, TLAPS |
| `PactoControllerProofs` | theorems about `PactoController` | `PactoController`, `ComplianceProofs` |
| `PactoControllerRefinement` | `StatusIsOnePass` and the refinement of `StatusSpec` | `PactoControllerProofs` |
| `EvaluationProofs` | theorems about `Evaluation` | `Evaluation`, `ComplianceProofs` |
| `RevisionsProofs`, `EventHandlersProofs`, `DashboardProofs`, `CredentialUseProofs` | theorems about the module of that name | that module, TLAPS |
| `MCCompliance`, `MCPactoController`, `MCEventHandlers`, `MCRevisions`, `MCCredentials`, `MCDashboard` | instances of `Evaluation`, `PactoController`, `EventHandlers`, `Revisions`, `CredentialUse`, `Dashboard` | |

`PactoController` and `Revisions` each INSTANCE their abstract specification with
a refinement mapping (`Reported`, `Log`), and the abstract `Spec` is a property of
a run (`ReportsAtomically`, `ImplementsLog`).

### PactoController: state and actions

| Variable | Code |
|---|---|
| `pacto` | the object in etcd: `exists`, `rv` (resourceVersion), `gen` (metadata.generation), `spec`, `status` |
| `watch`, `cached` | the watch stream and the informer's copy `r.Get` reads |
| `queued`, `timer` | controller-runtime's queue; `RequeueAfter` or rate-limited retry |
| `worker` | the local variables of `Reconcile` and where it is |
| `inflight` | a status update sent by a process that is gone |
| `loader` | `Loader.cache`, unexpired entries only |
| `revisions` | the PactoRevisions |
| `registry`, `cluster`, `secret`, `expired` | what the outside answers |
| `gateEvents` | the last two readiness events |
| `edits`, `faults` | counters for the bounds |

| Action | Steps of `Reconcile` |
|---|---|
| `Fetch` | 1–2: get, remember the gate, `resetDerivedStatus` |
| `ResolveAuth` | 3: pull secret |
| `Load` | 4–6b: policy, load, parse, overrides, validation, contract status, readiness and its event |
| `EnsureRevision` | 7–8: revision, sync of all tags, reference-only exit |
| `ObserveService`, `ObserveWorkload` | 9–10 |
| `Probe` | 11–15: validation, probes, final status |
| `WriteStatus`, `WriteFails` | the status update, its conflict or error, and the requeue |
| `TimerFires`, `Deliver`, `Restart`, `LateWrite`, `Expire` | queue, informer, process, API server, cache |
| `EditSpec`, `DeletePacto`, `Publish`, `ChangeCluster`, `ChangeSecret`, `PassExpiry` | users, registry, cluster, clock |

Abstractions:

- A resourceVersion is a token compared for equality, drawn from a pool; a token
  is reused only when nobody holds it (`FreshVersion`).
- `lastReconciledAt` has a resolution of seconds: an update with an equal result
  may or may not make a new version, and both are explored.
- Contract validity is an attribute of the contract; overrides are tracked by
  the names they replace, and their values are not validated again.
- A Pacto is not recreated after deletion; one Pacto, one worker.
- Events other than the readiness ones, messages, and logging are left out.

### Revisions: state and actions

`registry` (bundle per tag), `revs` and `seen` (API server and informer),
`loader` and `tagCache`, `worker`, `current` (the `CurrentRevision` the pass
assigned), `served` and `torn` (history: what each tag ever served, and which
contracts were pulled from a tag that moved before its digest was asked for). The actions are the
requests of `Load`, `ensureRevision` and `syncAllRevisions`: `Pull` and
`Resolve` apart with pushes in between, `Create` and `FillStatus` apart, `GetFound`/`GetNotFound` on
the informer, `ListTags`, and `NextTag` per tag, in any order since the tag
list's order carries no meaning for the outcome. A contract's version is taken
to equal its tag. Pactos with a pull secret bypass the cache, which is the
case where the entry has just expired.

### EventHandlers: state and actions

`pacto`/`listed` and `ver`/`seen` are the API server's and the informers' Pactos
and objects, `handlers` what an informer has stored and its handler not yet
seen, then `queue`, `timers`, `worker` and `result`, what the stored status of
each Pacto was derived from. `DeliverPacto`/`DeliverObject` store a version,
`Handle` runs the map function later, on the list of Pactos of that later
moment; `HandlerFails` is the List that fails. `Fetch`, `Read` and `Write` are a
pass reduced to what it reads; a conflict with the Pacto's own earlier status write,
which repeats the pass, is in `PactoController` and not here. Of an object only the version counts. All objects
are in one namespace, which is what both map functions restrict their list to.

### Dashboard: state and actions

`config` is what the chart installs, `proc` the leading process (its
configuration, whether it is in its first reconciliation, and the objects still
to do), `obj`/`seen` the objects and the informers' copies, `sources`/`seenSources`
the credential Secrets. `StartProcess` is `main` with `Config.Validate`;
`ensureNamespace`, `reconcileResource`, `cleanOCICredentials`/`mergeOCICredentials`
and `cleanup` handle the object at the head of the list; `abort` is an error
returned by `Reconcile`, which ends the process if it is the first one; `Tick` is
the ticker. `Sync`, `GarbageCollect`, `Crash`, `Rollout`, `Upgrade`, `ChangeSource`
and `ChangeObject` are the environment. Server-side apply is external: it takes
over a foreign object unless an immutable field differs, and succeeds on an
object under deletion. Requests of a dead process are taken to be done before
its successor holds the lease. An object's fields are one `content` value; of the
configuration, image and Secrets are varied; namespace, resource requests and
owner reference are fixed.

### Credentials

Pure operators that return sets of results wherever Go's map order decides. A
registry name is a record scheme, host, path; base64 and JSON are abstracted to
what they yield, `Bad` for malformed data. `contacted` is the registry the pull
really goes to, from the loader's `normalizeOCIRef` and the registry client's
rule for undotted names. `CredentialUse` holds the two calls: `Resolve`, step 3 of
a pass, for one pull secret and one reference, and `Merge`, for the list of the
dashboard's Secrets.

### Compliance, Metrics and Evaluation

Pure functions from contract, snapshot and answers to the status record. A
condition is absent, "True" or "False"; the summary is a triple. Durations,
messages, and the details of schema properties are left out. A gauge keeps its
value until it is recorded again. `Evaluation` takes one of its `Inputs` (target,
contract, cluster, clock) through a pass that reaches the runtime stage
(`Evaluate`) and then through one that cannot observe the target
(`ObservationFails`) or has no valid contract (`ContractFails`), starting from
`NoGauges`; `Conformant` says on the objects themselves what the checks are for.

## 3. Runs

| Run | Question | Instance | States |
|---|---|---|---|
| `controller` | `TypeOK` (the loader's cache stays as published), `ObservedGenerationSound`, `ObservedGenerationMonotonic`, `CurrentRevisionExists`, `StatusIsOnePass`, `ReportsAtomically` under edits, deletion, failing calls, restarts, late writes | latest tag with overrides, private by digest, inline StatefulSet; two contracts, two clusters, one edit, one fault | 1 802 590 |
| `controller_converges` | `Converges`, `DeletedIsForgotten` | a valid and an invalid contract, healthy and ailing endpoints, one change, one fault, fairness | 113 082 |
| `gate_events` | violation: `GateEventsAlternate` | one reference, two contracts | |
| `event_handlers` | `EventsSuffice`, `EventuallyFresh` | two Pactos, a Service, a workload of another name, a Secret; two changes, one fault, fairness | 359 734 |
| `revisions` | `CurrentExists`, `RevisionsWereServed`, `DigestIsOfContent`, `ImplementsLog`, `CatchesUp`, `CurrentIsFilled` with torn pulls, a failing `Resolve` and every other fault in one specification | two tags, two bundles, a fault, two pushes, fairness | 1 364 176 |
| `empty_digest` | violation: `MismatchIsForcePush` | two tags | |
| `compliance` | `CompliantIsConformant`, `ConformantIsCompliant`: the status against a reference definition of conformance written on the cluster's objects; `StatusFollowsSeverity`, `SummaryMatchesConditions`, `GaugesMatchStatus` | four input families, 11 805 inputs, each with a full pass, a failed observation and a failed contract | 59 025 |
| `readiness_separate` | violation of a documented rule | the same families | |
| `credentials` | `PullUsesItsRegistry`, `MergeAgreesWithPull` | opaque Secrets of every shape, docker configs of up to two entries, four spellings of two registries, seven references, merges of one and two Secrets | 91 726 |
| `exact_match` | violation: `ExactMatchFirst` | the same | |
| `dashboard` | `CleanedBeforeServing`, `DeploysConfig`, `CleansUp` | namespace, ServiceAccount, Secret, Deployment; disabled, plain, with a Secret, and a refused configuration; two changes, one fault, fairness | 323 546 |
| `foreign_secret` | violation: `ForeignSecretKept` | the same objects, two configurations | |

Bounds and why they are enough. `MaxEdits` and `MaxFaults` bound the
environment: every pass touches one object, so an error needs a change between
two of its steps (one edit), and a failure or restart to lose a step (one); the
theorems of section 4 then hold for any number of both. `MaxWatch` bounds the informer's
lag; two undelivered versions are enough for a pass to start from a version
that is two behind. `Versions` has room for all copies held at once, so
`CanStore` blocks only when the lag is at its bound (a fifth version gives
`controller` the same 1 802 590 states). In `Revisions`, two pushes
cover the first push of a second tag followed by an overwrite, and two
overwrites of the followed tag, either of them between `Pull` and `Resolve`; the
one fault may be a failing `Resolve`. `compliance` varies the fields that one check
reads together and leaves those of the others at a conforming value; the checks
are computed independently and only their conjunction and counts meet; the
theorems about `Evaluation` and `CredentialUse` then hold for all inputs.
In `Dashboard`, a ClusterRoleBinding behaves as the Deployment does (part of it is
immutable) and the other kinds as the ServiceAccount, which stands for them; two changes allow disabling and
enabling again, or an upgrade together with a change of a Secret or an object.
In `EventHandlers`, an object and a spec that starts to name it may change in
either order, which is what the map functions are exposed to.

Deadlock is not checked in the controller runs, since nothing happens any more
after a Pacto has been deleted, nor in the compliance and credentials runs, which
evaluate once, nor in the dashboard runs, where a process with a configuration that
is refused, or one that has cleaned up, waits for the next upgrade, nor in
`event_handlers`, where all Pactos may be deleted.

Fairness. Weak fairness of the worker (the queue's worker takes the key, and each call
returns: endpoint probes time out after 5 seconds, while for calls to registry and
API server, on which the code sets no deadline, this is an assumption), the timers, the informer's delivery, cache expiry (the clock
goes on) and of the arrival of a request already sent. Users, pushes, faults and
restarts are not fair, and `<>[]` in the liveness properties speaks of the suffix after the
bounded number of them.

In `EventHandlers` taking a key from the queue is strongly fair: the queue is first
in, first out, so no key is passed over for ever, although the worker is busy with
another in between. In `Dashboard` the kubelet starts the process again, the
ticker ticks, informers and the garbage collector catch up, and a rollout ends.

Each property of a passing run has a mutant of the code's definition (a dropped
lock, a missing reset, a mutated cache entry, a missing requeue, ...) under which
TLC finds it violated.

## 4. Proofs

Every safety property of the runs, invariant, action property or refinement, is a
theorem: TLC checks it on the instance, TLAPS proves it for all sets of
specs, references, contracts, clusters, tags, Pactos, objects, Secrets and inputs
and for all bounds.

| Module | Theorem | Statement |
|---|---|---|
| `PactoControllerProofs` | `TypeCorrect` | `Spec => []TypeOK` |
| | `ObservedGenerationIsSound` | `Spec => []ObservedGenerationSound` |
| | `ObservedGenerationNeverDecreases` | `Spec => ObservedGenerationMonotonic` |
| | `CurrentRevisionIsKept` | `Spec => []CurrentRevisionExists` |
| `PactoControllerRefinement` | `StatusIsAlwaysOnePass` | `Spec => []StatusIsOnePass` |
| | `ReportsAreAtomic` | `Spec => ReportsAtomically`, that is `StatusSpec` |
| `RevisionsProofs` | `CurrentAlwaysExists` | `Spec => []CurrentExists` |
| | `RevisionsAreOfTheirTag` | `Spec => []RevisionsWereServed` |
| | `DigestsAreOfContent` | `Spec => []DigestIsOfContent`: digest and contract are of one bundle, torn pulls excepted |
| | `RevisionsAreALog` | `Spec => ImplementsLog`, that is `RevisionLog` |
| `EventHandlersProofs` | `EventsAlwaysSuffice` | `Spec => []EventsSuffice` |
| `DashboardProofs` | `CleanupIsComplete` | `Spec => []CleanedBeforeServing` |
| `EvaluationProofs` | `CompliantMeansConformant`, `ConformantMeansCompliant`, `StatusAlwaysFollowsSeverity`, `SummaryAlwaysMatchesConditions`, `GaugesAlwaysMatchStatus` | `[]` of the property of that name |
| `CredentialUseProofs` | `PullAlwaysUsesItsRegistry`, `MergeAlwaysAgreesWithPull` | `[]` of the property of that name |

### Assumptions

All are named `ASSUME`s of the component's module, and TLC evaluates them in its
runs.

| Assumption | Says | Why the code justifies it |
|---|---|---|
| `SpecsAssumption` | a spec names references and contracts of the instance | closes the instance |
| `ContractsAssumption`, `EffectiveAssumption` | published contracts have nothing overridden; `Nil` and `Failed` are no contracts, `Nil` no contract status | a nil pointer is not a contract |
| `BoundsAssumption`, `RevisionsAssumption`, `EventHandlersAssumption` | bounds are natural numbers, initial specs are specs | |
| `BundlesAssumption` | a bundle is a hash and a digest | what `Pull` and `Resolve` yield |
| `NamesAssumption` | a Pacto is not a Service, workload or Secret; `Nil` is not a record | one informer per kind |
| `DashboardAssumption` | the resources are among the six kinds | the list in `Reconcile` |
| `UseAssumption` | `index.docker.io` is the name of Docker Hub, records the code builds are not `Nil` or `Bad` | `normalizeRegistryHost` |
| `InputsAssumption` | a contract is one the schema admits, a workload one the API server admits: a Deployment has a strategy, a StatefulSet a policy, an image compared has a container; a probe without an answer has no code; the target names something | schema validation in step 5, API server, `Prober.Probe`, step 8 |
| `NilAssumption` | `Nil` is none of the strings it is compared with | the empty string |

### What the properties except

Some cases in which the code does not deliver what a reader may expect are named in the
property itself, so that runs and theorems cover every behaviour and say which ones
they make no claim about:

| Property | Excepts | Because |
|---|---|---|
| `DigestIsOfContent` | a contract pulled from a tag that moved before `Resolve` (`torn`) | oci.go:58-65 asks for the digest of the tag, not of what it pulled |
| `CatchesUp` | a tag other than the followed one that has a torn revision or one with an empty digest (`Spoiled`) | the stored digest hides the overwrite; an empty one is skipped for ever (pacto_controller.go:1047) |
| `CompliantIsConformant` | a conforming workload that is a StatefulSet where the rules at runtime_checks.go:63 and :65 expect a Deployment (`OnExpectedKind`) | the code at 91-112 looks at claims and volumes only |
| `ConformantIsCompliant` | images given by digest | runtime_checks.go:309 |
| `StatusFollowsSeverity` | failed error-severity checks of objects that exist | README.md:110 says NonCompliant, validator.go:188 and the code say Warning |
| `PullUsesItsRegistry` | percent-encoded references; which of several entries for one registry is used | the loader decodes the reference, `RegistryFromRef` does not; the order is that of `exact_match`, section 5 |

### The arguments

**PactoController.** `ObservedGenerationSound` is not inductive: a write is harmless
only because of what the writer's copy has in common with the stored object.
`IInv` adds that

- every copy of the object held anywhere (informer, watch, worker, in flight) is
  no newer than the stored one, has `observedGeneration <= gen`, and, when it
  has the stored resourceVersion, has the stored spec and generation
  (`HeldConsistent`): the optimistic lock then accepts only results for the
  stored spec, and an edit, which increments the generation, makes every stored
  `observedGeneration` smaller than it;
- the status under construction is derived from the spec of the copy the worker
  holds, at each point of the pass (`WorkerDerives`), and so is a status in
  flight (`InflightDerives`);
- `StoredDerives`, the property itself without the condition that the object
  exists.

`StoreLemma` shows that a fresh version is held by nobody. The `*Lemma`s on
`failStatus`, `contractStage`, `runtimeStatus` and so on say what each stage of
a pass preserves; there is then one lemma per action. `RevisionsKept` (the
revision named by any held copy of a live object exists) gives
`CurrentRevisionExists` on top of `IInv`. Both invariants were model-checked on
the controller instances before they were proved.

**StatusIsOnePass and the refinement of StatusSpec.** `OnePassInv` follows the
status from `resetDerivedStatus` on: empty until the contract is loaded, `Staged`
(at most the contract and readiness conditions) until the runtime stage,
`OnePass` at each of the four ways out, and as much for a status in flight. For
`ReportsAtomically`, `RefinementStep` maps each action to a step of `StatusSpec` or a
stutter: a write that the lock accepts is a `Report` on the stored spec by
`HeldConsistent` and `WorkerDerives`; `PointersInv` (a copy of the stored version
that has no `currentRevision` is of an object that has none) covers the pass whose
step 7 failed and which keeps what it found.

**Revisions.** `ServedInv`: whatever registry, loader, worker and API server hold
under a tag has been served by that tag. `NamesInv`: the informer knows no name the
API server does not, and a revision whose status is due exists. `ContentInv`: hash
and digest that travel together, in the loader's entry or in the worker, are of one
bundle or recorded in `torn`; and between `Pull` and `Resolve` the worker's contract is
still the tag's own or the push that replaced it has recorded it. For `ImplementsLog`, the actions that fill a revision's status leave the set of
sources alone (`FillKeepsSources` and the lemmas after it), and `Create` adds one
under a name that is free, because the API server and not the informer decides.

**EventHandlers.** `EventsSuffice` speaks of a system at rest; inductive is where each
overdue update is: a Pacto without a status for its spec is `Pending` (watch, handler or
queue) or in work (`SpecInv`), and a reading older than the informer's copy, behind a
stored status (`ResultInv`) or in the pass under way (`WorkerInv`), is covered by
the object's handler that has yet to run or by a pending Pacto. `HandlerFindsReaders`
is the heart: if the map function's list is of the present spec, it finds the
reader; if not, the Pacto's own event is still to come. `GensInv` (generations are
not used twice) excludes that a spec returns unnoticed.

**Dashboard.** `CleanupInv`: while a process cleans up, every object with the
operator's labels that is not being deleted is still on its list and known to
its informer with them; once past its start the list is empty.

**Evaluation.** The status after `Evaluate` is a function of the input
(`EvaluatedInv`); the rest is about that function. `OutcomeLemma` and
`ConditionsLemma`: each check leaves its verdict in a condition of its own name and
counts once, since names are distinct (`ValidateNames`, `ProbeNames`) and the two
groups disjoint. From there `StatusAlwaysFollowsSeverity` looks at two conditions
(`NonCompliantLemma`, `MissingIsError`), and
`SummaryAlwaysMatchesConditions` counts names (`NamesCount`). `CompliantLemma` reduces
the verdict to the checks; one lemma per check (`KindPassed`, `StatePassed`,
`LifecyclePassed`, `ImagePassed`, `ProbesPassed`) equates it with its clause of
`Conformant`, and `ConformsLemma` puts them together. `RecordLemma` and
`AgreementLemma` carry conditions and summary over to the gauges.

**CredentialUse.** `normalizeRegistryHost` decides exactly whether a key names a
registry (`SameRegistryLemma`), and each result the nondeterministic map order admits is
an entry for the registry contacted; for the merge, the entry of a host is that of the
last source that names it.

### Only model-checked

The liveness properties: `Converges`, `DeletedIsForgotten`, `EventuallyFresh`,
`CatchesUp`, `CurrentIsFilled`, `DeploysConfig`, `CleansUp`. They need fairness and
ENABLED, which are out of the prover's reach. The violations of section 5 are
counterexamples of TLC.

### The refinements

`StatusSpec` knows no cache, queue, worker or restart: the status changes only by
a `Report`, made at once from the spec the object has at that moment and stamped
with its generation, and the revisions only grow while the object exists.
`ReportsAtomically` says that `PactoController`, whose passes take seven reads and
whose writes may come from a dead process, implements it; without the optimistic
lock (`UpToDateUnchecked`) it does not. `RevisionLog` is a log whose records are
added once, under a name of their own, of something the tag has served, and never
changed; `Revisions` implements it with torn pulls, failing calls and restarts,
and a `backfill` that rewrote the source would not.

## 5. Findings

1. An unmet readiness gate changes `ContractStatus` (README.md:124 and
   readiness.go:30 say it never does): run `readiness_separate`.
2. A readiness event can be emitted twice for one transition (conditions.go:105):
   run `gate_events`.
3. A failed `Resolve` for a tag that has a revision with a digest makes the
   event's `[:12]` slice panic; the controller recovers and retries, and no
   status is written until the loader's entry expires: run `empty_digest`.
4. Without OCI Secrets configured the dashboard reconciler deletes any Secret
   called `pacto-dashboard-oci-creds`, whoever made it (reconciler.go:159 and 231):
   run `foreign_secret`.
5. The comments at resolve.go:44 and 99 promise an exact match of the registry before
   a normalised one; there is one loop over the map, so with two spellings of one
   registry in a Secret either entry may be used: run `exact_match`.

Noticed while modelling and not stated as runs:

- Compliance. The repository's texts disagree about a failed error-severity check of
  an object that exists: README.md:110 says NonCompliant, the comment at
  validator.go:188 and the code say Warning. `StatusFollowsSeverity` states what they
  agree on and leaves this case open. README.md counts the image check among the
  warnings, the code gives it severity error. `imageMatches`: an untagged expected image does not match an
  actual image with both tag and digest (runtime_checks.go:309), which is why
  `ConformantIsCompliant` leaves images by digest out. A stateless contract, or a
  hybrid ephemeral one, passes on a StatefulSet without claims, where the rules at
  runtime_checks.go:63 and :65 expect a Deployment; `CompliantIsConformant` names the case. `LastTransitionTime` restarts with every pass because the
  conditions were cleared.
- Revisions. A push between `Pull` and `Resolve` pairs one contract with another's
  digest, and the stored digest then hides the overwrite (oci.go:63): the exception in
  `DigestIsOfContent` and `CatchesUp`. A revision created while `Resolve`
  failed keeps an empty digest and its tag is never compared again; a revision of
  a tag other than the current one is never backfilled, since the sync skips tags
  whose digest agrees; with several revisions for one tag an arbitrary one is
  compared, so `TagOverwritten` may repeat.
- Loader and events. A reference is re-resolved at most every 30 seconds; the
  caches evict expired entries only. A status write changes `lastReconciledAt`, and
  its own event starts the next pass; passes that take over a second, as with a
  pull secret, follow each other without a pause.
- Credentials. A percent-encoded reference is decoded by the loader and not by `RegistryFromRef`,
  so Docker Hub's entry is looked up for it.
- Metrics. A pass that cannot load the contract leaves the compliance gauge of the
  pass before; gauges of deleted Pactos stay; two Pactos with contracts of one
  service share the validation gauges.
- Dashboard. A source Secret that is missing when the operator starts ends the
  process, the Pacto controller with it. Apply with forced ownership takes over
  objects of the dashboard's names and cleanup then deletes them. Cleanup deletes by
  name after a look at the informer's copy. With `--watch-namespace` set to another
  namespace than the operator's, the cache does not hold the operator's namespace,
  which the model leaves out.

## 6. Not modelled, and the plan

Not to be modelled: flags, logging, TLS and health endpoints in `cmd/main.go`; the
`Build` functions of `internal/dashboard/resources.go`, which only tests call;
generated code, Helm chart and CRDs; HTTP and OCI transport; contract parsing and
validation of the external pacto library. Left out of the modules: recreation of a
Pacto under a new uid, several namespaces, and concurrent passes (the controller
runs with one worker, so passes of different Pactos meet the loader's cache one
after the other).

Next: `CatchesUp` without its exception, should the code get a repair path for empty
and mistaken digests; action properties of the dashboard's and the
credentials' writers, where the code comes to promise more about foreign objects
than it does now.
