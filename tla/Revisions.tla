----------------------------- MODULE Revisions ------------------------------
(***************************************************************************)
(* Step 7 of Reconcile in detail: ensureRevision for the contract the      *)
(* Pacto follows, then syncAllRevisions for every tag of its repository.   *)
(*                                                                         *)
(* What a tag serves is a record hash, digest: the hash of pacto.yaml and  *)
(* the digest of the whole bundle, so one hash may have several digests.   *)
(* A contract's version is taken to be its tag.  A PactoRevision is a      *)
(* record tag, hash (its name), digest (spec.source.digest, Nil when       *)
(* empty) and filled (its status was written).                             *)
(*                                                                         *)
(* Pull and Resolve are two requests to the registry; Create and           *)
(* Status().Update are two requests to the API server; Get and List read   *)
(* an informer that may lag.                                               *)
(***************************************************************************)
EXTENDS Naturals, FiniteSets

CONSTANTS
    Nil,
    Failed,        \* a load error in the loader's cache
    Tags,          \* the semver tags of the repository
    Main,          \* the tag the Pacto's reference names
    Bundles,       \* what may be pushed to a tag
    MaxPushes,     \* bound on pushes
    MaxFaults      \* bound on failed calls and restarts

ASSUME RevisionsAssumption ==
    Main \in Tags /\ MaxPushes \in Nat /\ MaxFaults \in Nat

ASSUME BundlesAssumption == \A b \in Bundles : b = [hash |-> b.hash, digest |-> b.digest]

VARIABLES
    registry,  \* the bundle behind each tag, Nil before its first push
    revs,      \* the revisions in the API server
    seen,      \* the informer's copy of them
    loader,    \* the loader's unexpired entry per tag: [hash, digest], Failed, Nil
    tagCache,  \* the loader's unexpired tag list, or Nil
    worker,    \* the pass in progress
    current,   \* status.currentRevision: <<tag, hash>> or Nil
    served,    \* history: every <<tag, hash>> the registry ever served
    torn,      \* history: every <<tag, hash>> pulled whose tag moved before Resolve
    pushes, faults

vars == <<registry, revs, seen, loader, tagCache, worker, current, served, torn, pushes, faults>>

Idle == [pc |-> "idle", tag |-> Nil, stored |-> Nil, hash |-> Nil, digest |-> Nil, todo |-> {}]

\* The names of a set of revisions: <pacto>-<version>-<hash>.
Named(rs, t, h) == {r \in rs : r.tag = t /\ r.hash = h}

Fault == faults < MaxFaults /\ faults' = faults + 1

\* The worker moves on with what it has loaded, or leaves the tag it is at.
goTo(pc) == worker' = [worker EXCEPT !.pc = pc]
leaveTo(pc) == worker' = [Idle EXCEPT !.pc = pc, !.todo = worker.todo]

\* The Pacto's own contract comes first (stored is Main's mark), and without it
\* the pass fails before any sync.
skipTag == IF worker.stored = Main THEN worker' = Idle ELSE leaveTo("next")

\* The key of a repository instead of a reference: right for tag lists only.
cacheKeyOfRepository(t) == Main

\* The loader's key: the whole reference, tag included.
cacheKey(t) == t
cacheEntry(t) == loader[cacheKey(t)]
cacheLoad(t, e) == loader' = [loader EXCEPT ![cacheKey(t)] = e]

\* ----- the pass ---------------------------------------------------------

\* Reconcile reaches Load for the reference of the Pacto.
StartPass ==
    /\ worker.pc = "idle"
    /\ worker' = [Idle EXCEPT !.pc = "load", !.tag = Main, !.stored = Main]
    /\ UNCHANGED <<registry, revs, seen, loader, tagCache, current, served, torn, pushes, faults>>

\* Load answers from the cache.
LoadCached ==
    /\ worker.pc = "load"
    /\ LET e == cacheEntry(worker.tag)
       IN  /\ e # Nil
           /\ IF e = Failed THEN skipTag
              ELSE worker' = [worker EXCEPT !.pc = "compare", !.hash = e.hash, !.digest = e.digest]
    /\ UNCHANGED <<registry, revs, seen, loader, tagCache, current, served, torn, pushes, faults>>

\* OCIPuller.Pull, first request: the bundle.
Pull ==
    /\ worker.pc = "load" /\ cacheEntry(worker.tag) = Nil /\ registry[worker.tag] # Nil
    /\ worker' = [worker EXCEPT !.pc = "resolve", !.hash = registry[worker.tag].hash]
    /\ UNCHANGED <<registry, revs, seen, loader, tagCache, current, served, torn, pushes, faults>>

\* The pull fails: the error is cached and the tag skipped.
PullFails ==
    /\ worker.pc = "load" /\ cacheEntry(worker.tag) = Nil
    /\ IF registry[worker.tag] = Nil THEN UNCHANGED faults ELSE Fault
    /\ cacheLoad(worker.tag, Failed)
    /\ skipTag
    /\ UNCHANGED <<registry, revs, seen, tagCache, current, served, torn, pushes>>

\* The mistake of resolving the Pacto's reference instead of the tag's.
digestOfMain(t) == registry[Main].digest

\* The digest of what the tag serves at the moment.
digestOf(t) == registry[t].digest

\* OCIPuller.Pull, second request: the digest the tag has by now.  A failure
\* is logged and leaves the digest empty.
Resolve ==
    /\ worker.pc = "resolve"
    /\ \E d \in {digestOf(worker.tag), Nil} :
         /\ IF d = Nil THEN Fault ELSE UNCHANGED faults
         /\ worker' = [worker EXCEPT !.pc = "compare", !.digest = d]
         /\ cacheLoad(worker.tag, [hash |-> worker.hash, digest |-> d])
    /\ UNCHANGED <<registry, revs, seen, tagCache, current, served, torn, pushes>>

\* Taking an existing revision for the tag as proof that nothing changed.
needsRevisionNever(stored, digest) == stored \in {Nil, Main}

\* Whether the loaded bundle needs ensureRevision: always for the Pacto's own
\* contract and for a tag without revision, else when the digest moved.
needsRevision(stored, digest) == stored \in {Nil, Main} \/ digest # stored

\* The digest comparison of syncAllRevisions.  The event it emits on a
\* mismatch cuts both digests to 12 characters: an empty one panics.
Compare ==
    /\ worker.pc = "compare"
    /\ IF ~needsRevision(worker.stored, worker.digest) THEN skipTag
       ELSE goTo(IF worker.stored \notin {Nil, Main} /\ worker.digest = Nil
                 THEN "panic" ELSE "get")
    /\ UNCHANGED <<registry, revs, seen, loader, tagCache, current, served, torn, pushes, faults>>

\* The reconciler recovers from the panic and retries later.
Recover ==
    /\ worker.pc = "panic"
    /\ worker' = Idle
    /\ UNCHANGED <<registry, revs, seen, loader, tagCache, current, served, torn, pushes, faults>>

\* ensureRevision has a name to return: the Pacto's own becomes
\* status.currentRevision.
finish ==
    IF worker.stored = Main
    THEN /\ current' = <<worker.tag, worker.hash>>
         /\ leaveTo("list")
    ELSE leaveTo("next") /\ UNCHANGED current

\* Write the status of a revision, unless the copy it is based on is stale.
fill(copy) == revs' = IF copy \in revs THEN (revs \ {copy}) \cup {[copy EXCEPT !.filled = TRUE]}
                                       ELSE revs

\* Finding a revision is enough: its status is somebody else's business.
noBackfill(copy) == UNCHANGED revs

\* Bringing a revision's source up to date with what its tag serves now.
backfillSource(copy) ==
    revs' = IF copy \in revs
            THEN (revs \ {copy}) \cup {[copy EXCEPT !.filled = TRUE, !.digest = worker.digest]}
            ELSE revs

\* ensureRevision when the revision exists: a status that was never written is
\* filled in.
backfill(copy) == IF copy.filled THEN UNCHANGED revs ELSE fill(copy)

\* ensureRevision: the informer knows the revision.  A failed backfill is
\* logged.
GetFound ==
    /\ worker.pc = "get"
    /\ \E copy \in Named(seen, worker.tag, worker.hash) :
         \/ backfill(copy) /\ UNCHANGED faults
         \/ ~copy.filled /\ Fault /\ UNCHANGED revs
    /\ finish
    /\ UNCHANGED <<registry, seen, loader, tagCache, served, torn, pushes>>

\* ensureRevision: it does not.
GetNotFound ==
    /\ worker.pc = "get" /\ Named(seen, worker.tag, worker.hash) = {}
    /\ goTo("create")
    /\ UNCHANGED <<registry, revs, seen, loader, tagCache, current, served, torn, pushes, faults>>

\* A revision is recorded as current before the API server has it.
createAnyway == UNCHANGED revs

\* The Create request: the API server refuses a second object of that name.
create ==
    revs' = IF Named(revs, worker.tag, worker.hash) # {} THEN revs
            ELSE revs \cup {[tag |-> worker.tag, hash |-> worker.hash,
                             digest |-> worker.digest, filled |-> FALSE]}

\* ensureRevision, Create: AlreadyExists means that the informer lagged, and
\* the name is returned without looking at the status.
Create ==
    /\ worker.pc = "create"
    /\ create
    /\ IF Named(revs, worker.tag, worker.hash) # {} THEN finish
       ELSE goTo("status") /\ UNCHANGED current
    /\ UNCHANGED <<registry, seen, loader, tagCache, served, torn, pushes, faults>>

\* The Create request fails: no name, and the pass goes on.
CreateFails ==
    /\ worker.pc = "create" /\ Fault
    /\ leaveTo(IF worker.stored = Main THEN "list" ELSE "next")
    /\ UNCHANGED <<registry, revs, seen, loader, tagCache, current, served, torn, pushes>>

\* ensureRevision, Status().Update of the new revision; a failure is logged.
FillStatus ==
    /\ worker.pc = "status"
    /\ \/ /\ revs' = {[r EXCEPT !.filled = @ \/ r \in Named(revs, worker.tag, worker.hash)] :
                        r \in revs}
          /\ UNCHANGED faults
       \/ Fault /\ UNCHANGED revs
    /\ finish
    /\ UNCHANGED <<registry, seen, loader, tagCache, served, torn, pushes>>

\* syncAllRevisions: ListTags, from the tag cache if it has an entry.  An error
\* is cached too; it ends the sync as an empty list does.
ListTags ==
    /\ worker.pc = "list"
    /\ \/ tagCache # Nil /\ UNCHANGED <<tagCache, faults>>
       \/ tagCache = Nil /\ tagCache' = {t \in Tags : registry[t] # Nil} /\ UNCHANGED faults
       \/ tagCache = Nil /\ tagCache' = {} /\ Fault
    /\ worker' = [Idle EXCEPT !.pc = "next", !.todo = tagCache']
    /\ UNCHANGED <<registry, revs, seen, loader, current, served, torn, pushes>>

\* A revision without a digest predates digest tracking and is not compared.
skips(r) == r.digest = Nil

\* syncAllRevisions, one tag: the informer's revisions with that version label
\* come in no particular order, and the first is the one compared.
NextTag ==
    /\ worker.pc = "next"
    /\ \/ /\ worker.todo = {} /\ worker' = Idle
       \/ \E t \in worker.todo :
            LET items == {r \in seen : r.tag = t}
                rest  == [Idle EXCEPT !.pc = "next", !.todo = worker.todo \ {t}]
            IN  \/ items = {} /\ worker' = [rest EXCEPT !.pc = "load", !.tag = t]
                \/ \E r \in items :
                     worker' = IF skips(r) THEN rest
                               ELSE [rest EXCEPT !.pc = "load", !.tag = t, !.stored = r.digest]
    /\ UNCHANGED <<registry, revs, seen, loader, tagCache, current, served, torn, pushes, faults>>

\* ----- informer, caches, process, registry --------------------------------

\* The informer catches up.
Sync ==
    /\ seen # revs /\ seen' = revs
    /\ UNCHANGED <<registry, revs, loader, tagCache, worker, current, served, torn, pushes, faults>>

\* A cache entry expires: 30 seconds for a load, 5 minutes for the tag list.
Expire(t) ==
    /\ loader[t] # Nil /\ loader' = [loader EXCEPT ![t] = Nil]
    /\ UNCHANGED <<registry, revs, seen, tagCache, worker, current, served, torn, pushes, faults>>

ExpireTags ==
    /\ tagCache # Nil /\ tagCache' = Nil
    /\ UNCHANGED <<registry, revs, seen, loader, worker, current, served, torn, pushes, faults>>

\* The operator dies and starts again.
Restart ==
    /\ worker.pc # "idle" /\ Fault
    /\ worker' = Idle /\ seen' = revs /\ tagCache' = Nil
    /\ loader' = [t \in Tags |-> Nil]
    /\ UNCHANGED <<registry, revs, current, served, torn, pushes>>

\* A tag is pushed for the first time or overwritten, possibly between the two
\* requests of a pull.
Push(t, b) ==
    /\ pushes < MaxPushes /\ pushes' = pushes + 1
    /\ b # registry[t]
    /\ registry' = [registry EXCEPT ![t] = b]
    /\ served' = served \cup {<<t, b.hash>>}
    /\ torn' = torn \cup {<<t, h>> : h \in IF worker.pc = "resolve" /\ worker.tag = t
                                           THEN {worker.hash} ELSE {}}
    /\ UNCHANGED <<revs, seen, loader, tagCache, worker, current, faults>>

\* ----- specification ----------------------------------------------------

\* The tag the Pacto follows has been published.
Init ==
    /\ \E b \in Bundles : /\ registry = [t \in Tags |-> IF t = Main THEN b ELSE Nil]
                         /\ served = {<<Main, b.hash>>}
    /\ revs = {} /\ seen = {} /\ loader = [t \in Tags |-> Nil] /\ tagCache = Nil
    /\ torn = {} /\ worker = Idle /\ current = Nil /\ pushes = 0 /\ faults = 0

WorkerStep ==
    \/ StartPass \/ LoadCached \/ Pull \/ PullFails \/ Resolve \/ Compare \/ Recover
    \/ GetFound \/ GetNotFound \/ Create \/ CreateFails \/ FillStatus \/ ListTags \/ NextTag

Next ==
    \/ WorkerStep \/ Sync \/ ExpireTags \/ Restart
    \/ \E t \in Tags : Expire(t)
    \/ \E t \in Tags, b \in Bundles : Push(t, b)

Spec == Init /\ [][Next]_vars

\* The operator keeps reconciling, the informer keeps up, entries expire.
FairSpec ==
    /\ Spec
    /\ WF_vars(WorkerStep) /\ WF_vars(Sync) /\ WF_vars(ExpireTags)
    /\ \A t \in Tags : WF_vars(Expire(t))

\* ----- properties -------------------------------------------------------

\* status.currentRevision names a revision of the API server, although the
\* informer lags, Create may fail and the operator may die between any two of
\* its requests.
CurrentExists == current # Nil => Named(revs, current[1], current[2]) # {}

\* A revision records what its tag really served at some time: the loader's
\* cache never answers for one tag with the contract of another, however the
\* loads of the Pacto's own reference and of the sync interleave with pushes.
RevisionsWereServed == \A r \in revs : <<r.tag, r.hash>> \in served

Log == INSTANCE RevisionLog WITH
           log <- {[tag |-> r.tag, hash |-> r.hash, digest |-> r.digest] : r \in revs}

\* The revisions implement the log: with a lagging informer, requests that fail
\* in between, and restarts, each is created once, for something its tag has
\* served, under a name of its own, and its source is never rewritten, not even
\* when the tag is overwritten with a bundle of the same contract.
ImplementsLog == Log!Spec

\* Some revision of the tag has no digest, because Resolve failed when it was
\* created, or possibly the digest of another bundle, because the tag moved
\* between Pull and Resolve.
Spoiled(t) == \E r \in revs : r.tag = t /\ (r.digest = Nil \/ <<t, r.hash>> \in torn)

\* Every tag ends up with a revision for what it serves, a force-pushed one
\* included, once pushes and faults stop: the Pacto's own tag always, any other
\* unless one of its revisions is spoiled.  The exclusion is the code's:
\* syncAllRevisions may compare that revision for ever, skips it when it has
\* no digest, and finds nothing to do when it has the digest of what the tag
\* serves with the contract of what the tag served before.
CatchesUp ==
    <>[](\A t \in Tags : registry[t] # Nil /\ (t = Main \/ ~Spoiled(t))
            => Named(revs, t, registry[t].hash) # {})

\* The revision in use gets its status even when the operator died, or failed,
\* between creating it and writing its status.
CurrentIsFilled ==
    <>[](current # Nil /\ \A r \in Named(revs, current[1], current[2]) : r.filled)

\* pacto_controller.go: a mismatch of digests means that the tag was
\* overwritten.  In particular it is never the absence of a digest, which the
\* event cannot print.
MismatchIsForcePush == worker.pc # "panic"

\* RevisionSource.Digest: the manifest digest at the time of resolution, used
\* to detect force-pushes.  Hash and digest of a revision are of one bundle,
\* except where that very tag was overwritten between the two requests of the
\* pull of that very contract: neither the cache, nor a retry, nor the steps of
\* a pass mix two loads, and a torn pull spoils no other revision.
DigestIsOfContent ==
    \A r \in revs : \/ r.digest = Nil \/ <<r.tag, r.hash>> \in torn
                    \/ [hash |-> r.hash, digest |-> r.digest] \in Bundles
=============================================================================
