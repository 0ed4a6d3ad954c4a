----------------------------- MODULE Dashboard ------------------------------
(***************************************************************************)
(* internal/dashboard with its set-up in cmd/main.go: the operator deploys *)
(* the dashboard object by object, or removes it object by object.         *)
(*                                                                         *)
(* The process that holds the leader lease runs Start: one reconciliation, *)
(* whose failure ends the process, then, if the dashboard is enabled, one  *)
(* every five minutes, whose failures are logged.  Objects are written     *)
(* with server-side apply and read through informers that may lag.         *)
(*                                                                         *)
(* An object is Nil or a record                                            *)
(*   managed      it carries the operator's two management labels          *)
(*   content      the fields the operator applies: what it applied last,   *)
(*                Drifted or Foreign                                       *)
(*   terminating  foreground deletion has begun                            *)
(* A configuration is a record enabled, image, resources, ociSecret and    *)
(* ociSecrets; an image is Nil or a record tag, digest.                    *)
(*                                                                         *)
(* Requests of a dead process are taken to be done before its successor    *)
(* holds the lease.                                                        *)
(***************************************************************************)
EXTENDS Credentials, SequencesExt

CONSTANTS
    Resources,    \* the kinds applied, in order, after the namespace
    Applied,      \* the content of an object that no configuration changes
    Drifted,      \* the content of an object a user edited
    Foreign,      \* the content of an object of that name a user created
    Configs,      \* the configurations the chart may install
    SourceNames,  \* the names of Secrets with registry credentials
    Secrets,      \* what they may hold
    MaxEdits,     \* bound on changes users make
    MaxFaults     \* bound on failed calls and crashes

ASSUME DashboardAssumption ==
    /\ Resources \in Seq({"ServiceAccount", "ClusterRole", "ClusterRoleBinding", "Secret",
                          "Deployment", "Service"})
    /\ MaxEdits \in Nat /\ MaxFaults \in Nat

VARIABLES
    config,       \* the configuration of the operator's Deployment
    proc,         \* the leading process: cfg, starting, todo; Nil: none
    obj,          \* the objects in the API server
    seen,         \* the informers' copies
    sources,      \* the credential Secrets, Nil when missing
    seenSources,  \* their copies in the Secret informer
    edits, faults

cluster == <<obj, sources>>
cache   == <<seen, seenSources>>
vars    == <<config, proc, obj, seen, sources, seenSources, edits, faults>>

Kinds == {"Namespace"} \cup ToSet(Resources)

\* ----- configuration ----------------------------------------------------

\* A reference without a tag means latest; one with a digest does not.
hasLatestTag(image) == ~image.digest /\ image.tag \in {Nil, "latest"}

\* Config.Validate: an invalid configuration stops main.
Validate(cfg) ==
    cfg.enabled => cfg.image # Nil /\ ~hasLatestTag(cfg.image) /\ cfg.resources # Bad

\* The list wins over the single name.
EffectiveOCISecrets(cfg) ==
    IF cfg.ociSecrets # << >> THEN cfg.ociSecrets
    ELSE IF cfg.ociSecret # Nil THEN <<cfg.ociSecret>> ELSE << >>

\* The apply configurations: only the Deployment depends on the configuration.
applyConfiguration(k, cfg) ==
    IF k # "Deployment" THEN Applied
    ELSE [image |-> cfg.image, resources |-> cfg.resources,
          mount |-> EffectiveOCISecrets(cfg) # << >>]

\* ----- the API server ---------------------------------------------------

\* Apply forces ownership, so it takes over an object somebody else made,
\* unless what differs is immutable: a selector, a roleRef, a Secret's type.
accepts(k, o) ==
    o = Nil \/ ~(k \in {"Deployment", "ClusterRoleBinding", "Secret"} /\ o.content = Foreign)

\* An object under deletion can be written, and goes all the same.
applied(o, content) ==
    [managed |-> TRUE, content |-> content, terminating |-> o # Nil /\ o.terminating]

\* ----- Start and Reconcile ----------------------------------------------

\* The order of creation, and the reverse order of cleanup.
plan(cfg) == IF cfg.enabled THEN <<"Namespace">> \o Resources ELSE Reverse(Resources)

\* main and the manager: a configuration that does not validate ends the
\* process; the informers list the objects before Start runs.
StartProcess ==
    /\ proc = Nil /\ Validate(config)
    /\ proc' = [cfg |-> config, starting |-> TRUE, todo |-> plan(config)]
    /\ seen' = obj /\ seenSources' = sources
    /\ UNCHANGED <<config, cluster, edits, faults>>

At(k) == proc # Nil /\ proc.todo # << >> /\ Head(proc.todo) = k

\* The step succeeded.  With the last one Reconcile returns.
advance == proc' = [proc EXCEPT !.todo = Tail(@), !.starting = @ /\ Len(proc.todo) > 1]

\* The mistake of logging the failure of the first reconciliation.
abortAlive == proc' = [proc EXCEPT !.todo = << >>, !.starting = FALSE]

\* The step failed and Reconcile returns the error: Start passes that of the
\* first reconciliation on, and the manager ends the process.
abort == proc' = IF proc.starting THEN Nil ELSE [proc EXCEPT !.todo = << >>]

write(k, o) == obj' = [obj EXCEPT ![k] = o]

\* ensureNamespace: Get, and Create when it is not there.
ensureNamespace ==
    /\ At("Namespace")
    /\ \/ seen["Namespace"] # Nil /\ advance /\ UNCHANGED obj
       \/ /\ seen["Namespace"] = Nil /\ obj["Namespace"] = Nil
          /\ write("Namespace", applied(Nil, Applied)) /\ advance
       \/ seen["Namespace"] = Nil /\ obj["Namespace"] # Nil /\ abort /\ UNCHANGED obj
    /\ UNCHANGED <<config, sources, cache, edits, faults>>

\* Apply, which the API server may refuse.
apply(k, content) ==
    IF accepts(k, obj[k]) THEN write(k, applied(obj[k], content)) /\ advance
    ELSE abort /\ UNCHANGED obj

\* reconcileServiceAccount ... reconcileService.
reconcileResource(k) ==
    /\ At(k) /\ proc.cfg.enabled /\ k \notin {"Namespace", "Secret"}
    /\ apply(k, applyConfiguration(k, proc.cfg))
    /\ UNCHANGED <<config, sources, cache, edits, faults>>

\* reconcileOCICredentials without source Secrets: whatever has the name of the
\* managed Secret is deleted, and finding it gone is an error.
cleanOCICredentials ==
    /\ At("Secret") /\ proc.cfg.enabled /\ EffectiveOCISecrets(proc.cfg) = << >>
    /\ IF seen["Secret"] = Nil THEN advance /\ UNCHANGED obj
       ELSE IF obj["Secret"] = Nil THEN abort /\ UNCHANGED obj
       ELSE advance /\ write("Secret", IF obj["Secret"].terminating THEN obj["Secret"] ELSE Nil)
    /\ UNCHANGED <<config, sources, cache, edits, faults>>

\* What the merge of the configured Secrets in s may yield; a missing one is
\* an error.
mergedFrom(cfg, s) ==
    LET names == EffectiveOCISecrets(cfg)
    IN  IF \E i \in DOMAIN names : s[names[i]] = Nil THEN {Bad}
        ELSE MergeToDockerConfigJSON([i \in DOMAIN names |-> s[names[i]]])

\* reconcileOCICredentials with source Secrets.
mergeOCICredentials ==
    /\ At("Secret") /\ proc.cfg.enabled /\ EffectiveOCISecrets(proc.cfg) # << >>
    /\ \E m \in mergedFrom(proc.cfg, seenSources) :
         IF m = Bad THEN abort /\ UNCHANGED obj ELSE apply("Secret", m)
    /\ UNCHANGED <<config, sources, cache, edits, faults>>

\* The mistake of taking somebody else's object for an error.
cleanupOrFail(k) ==
    /\ At(k) /\ ~proc.cfg.enabled
    /\ IF seen[k] # Nil /\ ~seen[k].managed THEN abort /\ UNCHANGED obj
       ELSE /\ advance
            /\ IF obj[k] = Nil THEN UNCHANGED obj
               ELSE write(k, [obj[k] EXCEPT !.terminating = TRUE])
    /\ UNCHANGED <<config, sources, cache, edits, faults>>

\* cleanup, one resource: only one with the labels is deleted, as far as the
\* informer's copy tells; the request names it and nothing more.
cleanup(k) ==
    /\ At(k) /\ ~proc.cfg.enabled
    /\ advance
    /\ IF seen[k] # Nil /\ seen[k].managed /\ obj[k] # Nil
       THEN write(k, [obj[k] EXCEPT !.terminating = TRUE]) ELSE UNCHANGED obj
    /\ UNCHANGED <<config, sources, cache, edits, faults>>

\* A Get, Create, Apply or Delete fails.
CallFails ==
    /\ proc # Nil /\ proc.todo # << >>
    /\ faults < MaxFaults /\ faults' = faults + 1
    /\ abort
    /\ UNCHANGED <<config, cluster, cache, edits>>

\* No periodic reconciliation.
tickNever(cfg) == FALSE

\* A dashboard that is disabled is cleaned up once, at the start.
ticks(cfg) == cfg.enabled

Tick ==
    /\ proc # Nil /\ proc.todo = << >> /\ ticks(proc.cfg)
    /\ proc' = [proc EXCEPT !.todo = plan(proc.cfg)]
    /\ UNCHANGED <<config, cluster, cache, edits, faults>>

\* ----- informers, garbage collector, kubelet ----------------------------

Sync(k) ==
    /\ seen' = [seen EXCEPT ![k] = obj[k]]
    /\ seenSources' = IF k = "Secret" THEN sources ELSE seenSources
    /\ cache' # cache
    /\ UNCHANGED <<config, proc, cluster, edits, faults>>

GarbageCollect(k) ==
    /\ obj[k] # Nil /\ obj[k].terminating
    /\ write(k, Nil)
    /\ UNCHANGED <<config, proc, sources, cache, edits, faults>>

\* The process dies or loses the lease.
Crash ==
    /\ proc # Nil /\ proc' = Nil
    /\ faults < MaxFaults /\ faults' = faults + 1
    /\ UNCHANGED <<config, cluster, cache, edits>>

\* A process with an old configuration is replaced.
Rollout ==
    /\ proc # Nil /\ proc.cfg # config /\ proc' = Nil
    /\ UNCHANGED <<config, cluster, cache, edits, faults>>

\* ----- users ------------------------------------------------------------

Edit == edits < MaxEdits /\ edits' = edits + 1

\* The chart is upgraded.
Upgrade(c) ==
    /\ Edit /\ c # config /\ config' = c
    /\ UNCHANGED <<proc, cluster, cache, faults>>

ChangeSource(n, s) ==
    /\ Edit /\ sources[n] # s /\ sources' = [sources EXCEPT ![n] = s]
    /\ UNCHANGED <<config, proc, obj, cache, faults>>

\* An object is edited, stripped of its labels or deleted, or another one of
\* that name is created.
ChangeObject(k) ==
    /\ Edit
    /\ IF obj[k] = Nil
       THEN write(k, [managed |-> FALSE, content |-> Foreign, terminating |-> FALSE])
       ELSE /\ k # "Namespace" /\ obj[k].content # Foreign
            /\ \E o \in {[obj[k] EXCEPT !.content = Drifted], [obj[k] EXCEPT !.managed = FALSE], Nil} :
                 o # obj[k] /\ write(k, o)
    /\ UNCHANGED <<config, proc, sources, cache, faults>>

\* ----- specification ----------------------------------------------------

\* A first installation; objects of other origin may be there already.
Init ==
    /\ config \in Configs /\ proc = Nil
    /\ sources \in [SourceNames -> Secrets]
    /\ \E found \in SUBSET Kinds :
         obj = [k \in Kinds |-> IF k \notin found THEN Nil
                ELSE [managed |-> FALSE, content |-> Foreign, terminating |-> FALSE]]
    /\ seen = obj /\ seenSources = sources
    /\ edits = 0 /\ faults = 0

Reconcile == \/ ensureNamespace \/ cleanOCICredentials \/ mergeOCICredentials
             \/ \E k \in Kinds : reconcileResource(k) \/ cleanup(k)

Users == \/ \E c \in Configs : Upgrade(c)
         \/ \E n \in SourceNames, s \in Secrets \cup {Nil} : ChangeSource(n, s)
         \/ \E k \in Kinds : ChangeObject(k)

Next == \/ StartProcess \/ Reconcile \/ CallFails \/ Tick \/ Crash \/ Rollout
        \/ \E k \in Kinds : Sync(k) \/ GarbageCollect(k)
        \/ Users

Spec == Init /\ [][Next]_vars

\* Kubelet, process, ticker, informers and garbage collector keep going.
FairSpec ==
    /\ Spec
    /\ WF_vars(StartProcess) /\ WF_vars(Reconcile) /\ WF_vars(Tick) /\ WF_vars(Rollout)
    /\ \A k \in Kinds : WF_vars(Sync(k)) /\ WF_vars(GarbageCollect(k))

\* ----- properties -------------------------------------------------------

Owned(k) == obj[k] # Nil /\ obj[k].managed /\ ~obj[k].terminating
Serving == proc # Nil /\ ~proc.starting /\ proc.cfg = config

\* Nothing outside the operator's hands prevents the deployment.
Deployable ==
    /\ config.enabled /\ Validate(config)
    /\ EffectiveOCISecrets(config) # << >> => mergedFrom(config, sources) # {Bad}
    /\ \A k \in Kinds : accepts(k, obj[k])

Deployed ==
    \A k \in ToSet(Resources) :
        IF k # "Secret" THEN Owned(k) /\ obj[k].content = applyConfiguration(k, config)
        ELSE IF EffectiveOCISecrets(config) = << >> THEN obj[k] = Nil
        ELSE Owned(k) /\ obj[k].content \in mergedFrom(config, sources)

\* The dashboard converges: once users and faults leave the system alone, the
\* operator serves and every object is what the configuration and the source
\* Secrets imply, in spite of drift, of lagging informers, of reconciliations
\* that stopped half-way and of objects that were still going away when they
\* were applied.
DeploysConfig == <>[](Deployable => Serving /\ Deployed)

\* A dashboard that is disabled goes away: in the end no object with the
\* operator's labels is left, and the operator serves.
CleansUp ==
    <>[](~config.enabled =>
            Serving /\ \A k \in ToSet(Resources) : obj[k] # Nil => ~obj[k].managed)

\* There is one cleanup per process and no tick after it, so it must be complete
\* when the process gets past its start: whatever failed before, none of the
\* labelled objects is left without a deletion under way.
CleanedBeforeServing ==
    proc # Nil /\ ~proc.cfg.enabled /\ ~proc.starting
        => \A k \in ToSet(Resources) : ~Owned(k)

ForeignSecret ==
    obj["Secret"] # Nil /\ ~obj["Secret"].managed /\ obj["Secret"].content = Foreign

\* reconciler.go: without source Secrets the operator cleans up a Secret that it
\* created before.  It does not delete somebody else's.
ForeignSecretKept ==
    [][ForeignSecret /\ edits' = edits => obj'["Secret"] # Nil]_vars
=============================================================================
