-------------------------- MODULE RevisionsProofs ---------------------------
(***************************************************************************)
(* Theorems about Revisions, for every set of tags and bundles and every   *)
(* number of pushes and faults.                                            *)
(***************************************************************************)
EXTENDS Revisions, TLAPS

\* ----- the inductive invariant ------------------------------------------

Hashes  == {b.hash : b \in Bundles}
Digests == {b.digest : b \in Bundles} \cup {Nil}

Load     == [hash : Hashes, digest : Digests]
Revision == [tag : Tags, hash : Hashes, digest : Digests, filled : BOOLEAN]

Loading    == {"load", "resolve", "compare", "panic", "get", "create", "status"}
Pulled     == {"resolve", "compare", "panic", "get", "create", "status"}
Resolved   == {"compare", "get", "create"}

Worker == [pc : Loading \cup {"idle", "list", "next"}, tag : Tags \cup {Nil},
           stored : Digests \cup {Main}, hash : Hashes \cup {Nil}, digest : Digests,
           todo : SUBSET Tags]

TypeInv ==
    /\ registry \in [Tags -> Bundles \cup {Nil}]
    /\ revs \subseteq Revision /\ seen \subseteq Revision
    /\ loader \in [Tags -> Load \cup {Nil, Failed}]
    /\ tagCache \in (SUBSET Tags) \cup {Nil}
    /\ worker \in Worker
    /\ worker.pc \in Loading => worker.tag \in Tags
    /\ worker.pc \in Pulled => worker.hash \in Hashes
    /\ worker.pc = "resolve" => registry[worker.tag] \in Bundles

\* What the registry serves, the loader holds, the worker carries and the API
\* server stores under a tag was served by that tag.
ServedInv ==
    /\ \A t \in Tags : registry[t] # Nil => <<t, registry[t].hash>> \in served
    /\ \A t \in Tags : loader[t] \notin {Nil, Failed} => <<t, loader[t].hash>> \in served
    /\ worker.pc \in Pulled => <<worker.tag, worker.hash>> \in served
    /\ RevisionsWereServed

\* The informer knows no revision that the API server has not, and a revision
\* whose status is about to be written is there.
NamesInv ==
    /\ \A r \in seen : Named(revs, r.tag, r.hash) # {}
    /\ worker.pc = "status" => Named(revs, worker.tag, worker.hash) # {}
    /\ CurrentExists

\* Hash and digest that travel together under a tag are of one bundle, or the
\* tag moved between the two requests that yielded them.
OfOneBundle(t, h, d) ==
    d = Nil \/ <<t, h>> \in torn \/ [hash |-> h, digest |-> d] \in Bundles

ContentInv ==
    /\ worker.pc = "resolve" => \/ registry[worker.tag].hash = worker.hash
                                \/ <<worker.tag, worker.hash>> \in torn
    /\ worker.pc \in Resolved => OfOneBundle(worker.tag, worker.hash, worker.digest)
    /\ \A t \in Tags : loader[t] \notin {Nil, Failed} =>
                           OfOneBundle(t, loader[t].hash, loader[t].digest)
    /\ DigestIsOfContent

\* ----- lemmas -----------------------------------------------------------

\* The actions that leave all revisions alone.
Quiet ==
    \/ StartPass \/ LoadCached \/ Pull \/ PullFails \/ Resolve \/ Compare \/ Recover
    \/ GetNotFound \/ CreateFails \/ ListTags \/ NextTag \/ ExpireTags \/ Restart
    \/ \E t \in Tags : Expire(t)
    \/ \E t \in Tags, b \in Bundles : Push(t, b)

\* The steps that touch revisions or informer, and the others.
LEMMA NextCases ==
    ASSUME [Next]_vars
    PROVE  Quiet \/ GetFound \/ Create \/ FillStatus \/ Sync \/ UNCHANGED vars
  BY DEF Next, WorkerStep, Quiet

\* What an INSTANCE of RevisionLog sees of a set of revisions.
Sources(rs) == {[tag |-> r.tag, hash |-> r.hash, digest |-> r.digest] : r \in rs}

\* A name is taken exactly when some source has it.
LEMMA NamedSources ==
    ASSUME NEW rs, NEW t, NEW h
    PROVE  Named(rs, t, h) # {} <=> \E s \in Sources(rs) : s.tag = t /\ s.hash = h
  <1>1. ASSUME NEW r \in Named(rs, t, h)
        PROVE  \E s \in Sources(rs) : s.tag = t /\ s.hash = h
    <2> DEFINE s == [tag |-> r.tag, hash |-> r.hash, digest |-> r.digest]
    <2>1. s \in Sources(rs) /\ s.tag = t /\ s.hash = h
      BY <1>1 DEF Named, Sources
    <2> QED
      BY <2>1
  <1>2. ASSUME NEW s \in Sources(rs), s.tag = t, s.hash = h
        PROVE  Named(rs, t, h) # {}
    BY <1>2 DEF Named, Sources
  <1> QED
    BY <1>1, <1>2

\* Writing the status of a revision changes no source.
LEMMA FillKeepsSources ==
    ASSUME revs \subseteq Revision, NEW copy \in Revision, fill(copy)
    PROVE  revs' \subseteq Revision /\ Sources(revs') = Sources(revs)
  <1>1. CASE copy \notin revs
    BY <1>1 DEF fill
  <1>2. CASE copy \in revs
    <2> DEFINE new == [copy EXCEPT !.filled = TRUE]
    <2>1. new \in Revision /\ new.tag = copy.tag /\ new.hash = copy.hash /\ new.digest = copy.digest
      BY DEF Revision
    <2>2. revs' = (revs \ {copy}) \cup {new}
      BY <1>2 DEF fill
    <2> QED
      BY <1>2, <2>1, <2>2 DEF Sources
  <1> QED
    BY <1>1, <1>2

\* backfill changes no source.
LEMMA BackfillKeepsSources ==
    ASSUME revs \subseteq Revision, NEW copy \in Revision, backfill(copy)
    PROVE  revs' \subseteq Revision /\ Sources(revs') = Sources(revs)
  BY FillKeepsSources DEF backfill

\* Nor does finding a revision.
LEMMA GetFoundKeepsSources ==
    ASSUME TypeInv, GetFound
    PROVE  revs' \subseteq Revision /\ Sources(revs') = Sources(revs)
  <1>1. PICK copy \in Named(seen, worker.tag, worker.hash) :
           backfill(copy) \/ UNCHANGED revs
    BY DEF GetFound
  <1>2. copy \in Revision
    BY DEF TypeInv, Named
  <1> QED
    BY <1>1, <1>2, BackfillKeepsSources DEF TypeInv

\* Nor does the status update after Create.
LEMMA FillStatusKeepsSources ==
    ASSUME TypeInv, FillStatus
    PROVE  revs' \subseteq Revision /\ Sources(revs') = Sources(revs)
  <1> DEFINE f(r) == [r EXCEPT !.filled = @ \/ r \in Named(revs, worker.tag, worker.hash)]
  <1>1. CASE UNCHANGED revs
    BY <1>1 DEF TypeInv
  <1>2. CASE revs' = {f(r) : r \in revs}
    <2>1. ASSUME NEW r \in revs
          PROVE  f(r) \in Revision /\ f(r).tag = r.tag /\ f(r).hash = r.hash /\ f(r).digest = r.digest
      BY DEF TypeInv, Revision
    <2> HIDE DEF f
    <2> QED
      BY <1>2, <2>1 DEF Sources
  <1> QED
    BY <1>1, <1>2 DEF FillStatus

\* ----- types ------------------------------------------------------------

\* The idle worker.
LEMMA IdleType == Idle \in Worker /\ Idle.pc = "idle"
  BY DEF Idle, Worker, Digests

\* The initial state is well typed.
LEMMA TypeInit == Init => TypeInv
  BY IdleType DEF Init, TypeInv, Loading, Pulled, Idle

\* goTo keeps what the worker has loaded.
LEMMA GoToType ==
    ASSUME TypeInv, NEW pc \in Loading \cup {"idle", "list", "next"}, goTo(pc),
           pc \in Loading => worker.pc \in Loading, pc \in Pulled => worker.pc \in Pulled,
           pc # "resolve"
    PROVE  /\ worker' \in Worker
           /\ worker'.pc \in Loading => worker'.tag \in Tags
           /\ worker'.pc \in Pulled => worker'.hash \in Hashes
           /\ worker'.pc # "resolve"
  BY DEF TypeInv, goTo, Worker

\* leaveTo leaves the load behind.
LEMMA LeaveToType ==
    ASSUME TypeInv, NEW pc \in {"list", "next"}, leaveTo(pc)
    PROVE  worker' \in Worker /\ worker'.pc = pc /\ pc \notin Loading
  BY DEF TypeInv, leaveTo, Idle, Worker, Loading, Digests

\* So does skipTag.
LEMMA SkipTagType ==
    ASSUME TypeInv, skipTag
    PROVE  /\ worker' \in Worker /\ worker'.pc \notin Loading
  BY IdleType, LeaveToType DEF skipTag, Loading

\* And finish.
LEMMA FinishType ==
    ASSUME TypeInv, finish
    PROVE  /\ worker' \in Worker /\ worker'.pc \notin Loading
  BY LeaveToType DEF finish

\* The worker when the sync has taken tag t from its list.
Before(pc, tag, stored, t) ==
    [pc |-> pc, tag |-> tag, stored |-> stored, hash |-> Nil, digest |-> Nil,
     todo |-> worker.todo \ {t}]

\* NextTag ends the sync, skips a tag or starts to load one.
LEMMA NextTagCases ==
    ASSUME TypeInv, NextTag
    PROVE  \/ worker' = Idle
           \/ \E t \in worker.todo :
                \/ worker' = Before("next", Nil, Nil, t)
                \/ \E d \in Digests : worker' = Before("load", t, d, t)
  <1>1. CASE worker' = Idle
    BY <1>1
  <1>2. ASSUME NEW t \in worker.todo,
               worker' = [[Idle EXCEPT !.pc = "next", !.todo = worker.todo \ {t}]
                             EXCEPT !.pc = "load", !.tag = t]
        PROVE  worker' = Before("load", t, Nil, t) /\ Nil \in Digests
    BY <1>2 DEF Idle, Before, Digests
  <1>3. ASSUME NEW t \in worker.todo,
               worker' = [Idle EXCEPT !.pc = "next", !.todo = worker.todo \ {t}]
        PROVE  worker' = Before("next", Nil, Nil, t)
    BY <1>3 DEF Idle, Before
  <1>4. ASSUME NEW t \in worker.todo, NEW r \in seen,
               worker' = [[Idle EXCEPT !.pc = "next", !.todo = worker.todo \ {t}]
                             EXCEPT !.pc = "load", !.tag = t, !.stored = r.digest]
        PROVE  worker' = Before("load", t, r.digest, t) /\ r.digest \in Digests
    BY <1>4 DEF Idle, Before, TypeInv, Revision
  <1>5. CASE \E t \in worker.todo :
               LET items == {r \in seen : r.tag = t}
                   rest  == [Idle EXCEPT !.pc = "next", !.todo = worker.todo \ {t}]
               IN  \/ items = {} /\ worker' = [rest EXCEPT !.pc = "load", !.tag = t]
                   \/ \E r \in items :
                        worker' = IF skips(r) THEN rest
                                  ELSE [rest EXCEPT !.pc = "load", !.tag = t, !.stored = r.digest]
    BY <1>2, <1>3, <1>4, <1>5
  <1> QED
    BY <1>1, <1>5 DEF NextTag

\* Every step keeps the types.
LEMMA TypeStep == TypeInv /\ [Next]_vars => TypeInv'
  <1> SUFFICES ASSUME TypeInv, [Next]_vars
               PROVE  TypeInv'
    OBVIOUS
  <1> USE DEF TypeInv
  <1>1. CASE StartPass
    BY <1>1, RevisionsAssumption, IdleType DEF StartPass, Idle, Worker, Loading, Pulled
  <1>2. CASE LoadCached
    <2> DEFINE e == cacheEntry(worker.tag)
    <2>1. worker.tag \in Tags /\ e \in Load \cup {Nil, Failed}
      BY <1>2 DEF LoadCached, cacheEntry, cacheKey, Loading
    <2>2. CASE e = Failed
      BY <1>2, <2>2, SkipTagType DEF LoadCached, Loading, Pulled
    <2>3. CASE e # Failed
      BY <1>2, <2>1, <2>3 DEF LoadCached, Load, Worker, Loading, Pulled
    <2> QED
      BY <2>2, <2>3
  <1>3. CASE Pull
    BY <1>3 DEF Pull, Worker, Loading, Pulled, Hashes
  <1>4. CASE PullFails
    BY <1>4, SkipTagType DEF PullFails, cacheLoad, cacheKey, Loading, Pulled
  <1>5. CASE Resolve
    <2>1. PICK d \in {digestOf(worker.tag), Nil} :
             /\ worker' = [worker EXCEPT !.pc = "compare", !.digest = d]
             /\ cacheLoad(worker.tag, [hash |-> worker.hash, digest |-> d])
      BY <1>5 DEF Resolve
    <2>2. d \in Digests /\ worker.hash \in Hashes /\ worker.tag \in Tags
      BY <1>5 DEF Resolve, Loading, Pulled, Digests, digestOf
    <2>3. [hash |-> worker.hash, digest |-> d] \in Load
      BY <2>2 DEF Load
    <2>4. loader' \in [Tags -> Load \cup {Nil, Failed}]
      BY <2>1, <2>3 DEF cacheLoad, cacheKey
    <2>5. worker' \in Worker /\ worker'.pc = "compare" /\ worker'.tag = worker.tag /\ worker'.hash = worker.hash
      BY <2>1, <2>2 DEF Worker, Loading
    <2> QED
      BY <1>5, <2>2, <2>4, <2>5 DEF Resolve
  <1>6. CASE Compare
    <2>1. CASE skipTag
      BY <1>6, <2>1, SkipTagType DEF Compare, Loading, Pulled
    <2>2. CASE goTo("panic") \/ goTo("get")
      BY <1>6, <2>2, GoToType DEF Compare, Loading, Pulled
    <2> QED
      BY <1>6, <2>1, <2>2 DEF Compare
  <1>7. CASE Recover
    BY <1>7, IdleType DEF Recover, Loading, Pulled
  <1>8. CASE GetFound
    BY <1>8, FinishType, GetFoundKeepsSources DEF GetFound, Loading, Pulled
  <1>9. CASE GetNotFound
    BY <1>9, GoToType DEF GetNotFound, Loading, Pulled
  <1>10. CASE Create
    <2>1. worker.tag \in Tags /\ worker.hash \in Hashes /\ worker.digest \in Digests
      BY <1>10 DEF Create, Worker, Loading, Pulled
    <2> DEFINE new == [tag |-> worker.tag, hash |-> worker.hash,
                       digest |-> worker.digest, filled |-> FALSE]
    <2>2. new \in Revision
      BY <2>1 DEF Revision
    <2>3. revs' = revs \/ revs' = revs \cup {new}
      BY <1>10 DEF Create, create
    <2>4. revs' \subseteq Revision
      BY <2>2, <2>3
    <2>5. CASE finish
      BY <1>10, <2>4, <2>5, FinishType DEF Create, Loading, Pulled
    <2>6. CASE goTo("status")
      BY <1>10, <2>4, <2>6, GoToType DEF Create, Loading, Pulled
    <2> QED
      BY <1>10, <2>5, <2>6 DEF Create
  <1>11. CASE CreateFails
    BY <1>11, LeaveToType DEF CreateFails, Loading, Pulled
  <1>12. CASE FillStatus
    BY <1>12, FinishType, FillStatusKeepsSources DEF FillStatus, Loading, Pulled
  <1>13. CASE ListTags
    <2>1. tagCache' \in (SUBSET Tags) \cup {Nil}
      BY <1>13 DEF ListTags
    <2>2. tagCache' \in SUBSET Tags
      BY <1>13 DEF ListTags
    <2>3. worker' \in Worker /\ worker'.pc = "next"
      BY <1>13, <2>2, IdleType DEF ListTags, Idle, Worker
    <2> QED
      BY <1>13, <2>1, <2>3 DEF ListTags, Loading, Pulled
  <1>14. CASE NextTag
    <2>1. CASE worker' = Idle
      BY <1>14, <2>1, IdleType DEF NextTag, Loading, Pulled
    <2>2. ASSUME NEW t \in worker.todo, worker' = Before("next", Nil, Nil, t)
          PROVE  TypeInv'
      BY <1>14, <2>2 DEF NextTag, Before, Worker, Loading, Pulled, Digests
    <2>3. ASSUME NEW t \in worker.todo, NEW d \in Digests, worker' = Before("load", t, d, t)
          PROVE  TypeInv'
      BY <1>14, <2>3 DEF NextTag, Before, Worker, Loading, Pulled, Digests
    <2> QED
      BY <1>14, <2>1, <2>2, <2>3, NextTagCases
  <1>15. CASE Sync
    BY <1>15 DEF Sync
  <1>16. CASE ExpireTags
    BY <1>16 DEF ExpireTags
  <1>17. CASE Restart
    BY <1>17, IdleType DEF Restart, Loading, Pulled
  <1>18. ASSUME NEW t \in Tags, Expire(t)
         PROVE  TypeInv'
    BY <1>18 DEF Expire
  <1>19. ASSUME NEW t \in Tags, NEW b \in Bundles, Push(t, b)
         PROVE  TypeInv'
    BY <1>19 DEF Push, Loading
  <1>20. CASE UNCHANGED vars
    BY <1>20 DEF vars
  <1> QED
    BY <1>1, <1>2, <1>3, <1>4, <1>5, <1>6, <1>7, <1>8, <1>9, <1>10, <1>11, <1>12, <1>13,
       <1>14, <1>15, <1>16, <1>17, <1>18, <1>19, <1>20 DEF Next, WorkerStep

\* ----- what was served --------------------------------------------------

\* Equal sources: each revision has a counterpart.
LEMMA SameSources ==
    ASSUME NEW rs, NEW qs, Sources(rs) = Sources(qs), NEW r \in rs
    PROVE  \E q \in qs : q.tag = r.tag /\ q.hash = r.hash /\ q.digest = r.digest
  <1> DEFINE s == [tag |-> r.tag, hash |-> r.hash, digest |-> r.digest]
  <1>1. s \in Sources(qs)
    BY DEF Sources
  <1>2. PICK q \in qs : s = [tag |-> q.tag, hash |-> q.hash, digest |-> q.digest]
    BY <1>1 DEF Sources
  <1>3. s.tag = q.tag /\ s.hash = q.hash /\ s.digest = q.digest
    BY <1>2
  <1>4. s.tag = r.tag /\ s.hash = r.hash /\ s.digest = r.digest
    OBVIOUS
  <1> QED
    BY <1>3, <1>4

\* Initially there is no revision, and nothing is loaded.
LEMMA ServedInit == Init => ServedInv
  <1> SUFFICES ASSUME Init
               PROVE  ServedInv
    OBVIOUS
  <1>1. PICK b \in Bundles : /\ registry = [t \in Tags |-> IF t = Main THEN b ELSE Nil]
                             /\ served = {<<Main, b.hash>>}
    BY DEF Init
  <1>2. ASSUME NEW t \in Tags, registry[t] # Nil
        PROVE  <<t, registry[t].hash>> \in served
    BY <1>1, <1>2
  <1> QED
    BY <1>2, IdleType DEF Init, ServedInv, RevisionsWereServed, Pulled

\* The steps of a pass that end with the contract of the tag, and those that
\* only move on with it.
LEMMA SkipLeaves ==
    ASSUME TypeInv, skipTag
    PROVE  worker'.pc \notin Pulled /\ worker'.pc # "status"
  BY SkipTagType DEF Loading, Pulled

\* After finish the worker holds no pulled bundle.
LEMMA FinishLeaves ==
    ASSUME TypeInv, finish
    PROVE  worker'.pc \notin Pulled /\ worker'.pc # "status"
  BY FinishType DEF Loading, Pulled

\* goTo carries tag, hash and digest along.
LEMMA GoToCarries ==
    ASSUME TypeInv, NEW pc, goTo(pc)
    PROVE  /\ worker'.pc = pc /\ worker'.tag = worker.tag /\ worker'.hash = worker.hash
           /\ worker'.digest = worker.digest
  BY DEF TypeInv, Worker, goTo

\* Where NextTag leads.
LEMMA NextTagLeaves ==
    ASSUME TypeInv, NextTag
    PROVE  worker'.pc \in {"idle", "next", "load"}
  BY NextTagCases, IdleType DEF Before

\* Where ListTags leads.
LEMMA ListTagsLeaves ==
    ASSUME TypeInv, ListTags
    PROVE  worker'.pc = "next"
  BY DEF ListTags, Idle

\* The revision that ensureRevision creates.
Created == [tag |-> worker.tag, hash |-> worker.hash, digest |-> worker.digest, filled |-> FALSE]

\* Create finds the name taken, or adds one revision.
LEMMA CreateCases ==
    ASSUME Create
    PROVE  \/ Named(revs, worker.tag, worker.hash) # {} /\ UNCHANGED revs /\ finish
           \/ /\ Named(revs, worker.tag, worker.hash) = {} /\ revs' = revs \cup {Created}
              /\ goTo("status") /\ UNCHANGED current
  BY DEF Create, create, Created

\* What the caches, the worker and the revisions hold has been served, after every step.
LEMMA ServedStep == TypeInv /\ ServedInv /\ [Next]_vars => ServedInv'
  <1> SUFFICES ASSUME TypeInv, ServedInv, [Next]_vars
               PROVE  ServedInv'
    OBVIOUS
  <1> USE DEF ServedInv
  <1>a. ASSUME revs' \subseteq Revision, Sources(revs') = Sources(revs), UNCHANGED served
        PROVE  RevisionsWereServed'
    <2>1. SUFFICES ASSUME NEW r \in revs'
                   PROVE  <<r.tag, r.hash>> \in served
      BY <1>a DEF RevisionsWereServed
    <2>2. PICK q \in revs : q.tag = r.tag /\ q.hash = r.hash
      BY <1>a, SameSources
    <2> QED
      BY <2>2 DEF RevisionsWereServed
  <1>1. CASE StartPass
    BY <1>1 DEF StartPass, Idle, Pulled, RevisionsWereServed
  <1>2. CASE LoadCached
    <2> DEFINE e == cacheEntry(worker.tag)
    <2>1. worker.tag \in Tags /\ e = loader[worker.tag]
      BY <1>2 DEF TypeInv, LoadCached, cacheEntry, cacheKey, Loading
    <2>2. CASE e = Failed
      BY <1>2, <2>2, SkipLeaves DEF LoadCached, RevisionsWereServed
    <2>3. CASE e # Failed
      <3>1. worker'.tag = worker.tag /\ worker'.hash = loader[worker.tag].hash
        BY <1>2, <2>1, <2>3 DEF LoadCached, TypeInv, Worker
      <3>2. <<worker.tag, loader[worker.tag].hash>> \in served
        BY <1>2, <2>1, <2>3 DEF LoadCached
      <3> QED
        BY <1>2, <3>1, <3>2 DEF LoadCached, RevisionsWereServed
    <2> QED
      BY <2>2, <2>3
  <1>3. CASE Pull
    BY <1>3 DEF Pull, TypeInv, Worker, Loading, RevisionsWereServed
  <1>4. CASE PullFails
    BY <1>4, SkipLeaves DEF PullFails, TypeInv, cacheLoad, cacheKey, RevisionsWereServed
  <1>5. CASE Resolve
    <2>1. PICK d : /\ worker' = [worker EXCEPT !.pc = "compare", !.digest = d]
                   /\ cacheLoad(worker.tag, [hash |-> worker.hash, digest |-> d])
      BY <1>5 DEF Resolve
    <2>2. worker'.tag = worker.tag /\ worker'.hash = worker.hash
      BY <2>1 DEF TypeInv, Worker
    <2>3. <<worker.tag, worker.hash>> \in served
      BY <1>5 DEF Resolve, Pulled
    <2>4. ASSUME NEW t \in Tags, loader'[t] \notin {Nil, Failed}
          PROVE  <<t, loader'[t].hash>> \in served
      BY <2>1, <2>3, <2>4 DEF cacheLoad, cacheKey, TypeInv
    <2> QED
      BY <1>5, <2>2, <2>3, <2>4 DEF Resolve, RevisionsWereServed
  <1>6. CASE Compare
    <2>1. CASE skipTag
      BY <1>6, <2>1, SkipLeaves DEF Compare, RevisionsWereServed
    <2>2. CASE goTo("panic") \/ goTo("get")
      BY <1>6, <2>2, GoToCarries DEF Compare, Pulled, RevisionsWereServed
    <2> QED
      BY <1>6, <2>1, <2>2 DEF Compare
  <1>7. CASE Recover
    BY <1>7, IdleType DEF Recover, Pulled, RevisionsWereServed
  <1>8. CASE GetFound
    BY <1>8, <1>a, FinishLeaves, GetFoundKeepsSources DEF GetFound
  <1>9. CASE GetNotFound
    BY <1>9, GoToCarries DEF GetNotFound, Pulled, RevisionsWereServed
  <1>10. CASE Create
    <2>1. <<worker.tag, worker.hash>> \in served
      BY <1>10 DEF Create, Pulled
    <2>2. RevisionsWereServed'
      <3>1. served' = served /\ (revs' = revs \/ revs' = revs \cup {Created})
        BY <1>10, CreateCases DEF Create
      <3>2. Created.tag = worker.tag /\ Created.hash = worker.hash
        BY DEF Created
      <3> HIDE DEF Created
      <3> QED
        BY <2>1, <3>1, <3>2 DEF RevisionsWereServed
    <2>3. CASE finish
      BY <1>10, <2>2, <2>3, FinishLeaves DEF Create
    <2>4. CASE goTo("status")
      BY <1>10, <2>1, <2>2, <2>4, GoToCarries DEF Create
    <2> QED
      BY <1>10, <2>3, <2>4 DEF Create
  <1>11. CASE CreateFails
    BY <1>11, LeaveToType DEF CreateFails, Pulled, RevisionsWereServed
  <1>12. CASE FillStatus
    BY <1>12, <1>a, FinishLeaves, FillStatusKeepsSources DEF FillStatus
  <1>13. CASE ListTags
    BY <1>13, ListTagsLeaves DEF ListTags, Pulled, RevisionsWereServed
  <1>14. CASE NextTag
    BY <1>14, NextTagLeaves DEF NextTag, Pulled, RevisionsWereServed
  <1>15. CASE Sync
    BY <1>15 DEF Sync, RevisionsWereServed
  <1>16. CASE ExpireTags
    BY <1>16 DEF ExpireTags, RevisionsWereServed
  <1>17. CASE Restart
    BY <1>17, IdleType DEF Restart, Pulled, RevisionsWereServed
  <1>18. ASSUME NEW t \in Tags, Expire(t)
         PROVE  ServedInv'
    BY <1>18 DEF Expire, TypeInv, RevisionsWereServed
  <1>19. ASSUME NEW t \in Tags, NEW b \in Bundles, Push(t, b)
         PROVE  ServedInv'
    BY <1>19 DEF Push, TypeInv, RevisionsWereServed
  <1>20. CASE UNCHANGED vars
    BY <1>20 DEF vars, RevisionsWereServed
  <1> QED
    BY <1>1, <1>2, <1>3, <1>4, <1>5, <1>6, <1>7, <1>8, <1>9, <1>10, <1>11, <1>12, <1>13,
       <1>14, <1>15, <1>16, <1>17, <1>18, <1>19, <1>20 DEF Next, WorkerStep

\* ----- names ------------------------------------------------------------

\* Revisions may be added and filled, but no name is lost.
LEMMA NamesKept ==
    ASSUME NEW rs, NEW qs, Sources(rs) \subseteq Sources(qs), NEW t, NEW h, Named(rs, t, h) # {}
    PROVE  Named(qs, t, h) # {}
  BY NamedSources

\* Initially no revision is named.
LEMMA NamesInit == Init => NamesInv
  BY IdleType DEF Init, NamesInv, CurrentExists

\* A revision is found under its name.
LEMMA NameOfMember ==
    ASSUME NEW rs, NEW r \in rs
    PROVE  Named(rs, r.tag, r.hash) # {}
  BY DEF Named

\* Create removes no source.
LEMMA CreateGrows ==
    ASSUME Create
    PROVE  Sources(revs) \subseteq Sources(revs')
  BY CreateCases DEF Sources

\* What every step owes to NamesInv when no name is lost.
LEMMA NamesSuffice ==
    ASSUME NamesInv, Sources(revs) \subseteq Sources(revs'),
           seen' = seen \/ seen' = revs',
           \/ worker'.pc # "status"
           \/ UNCHANGED worker
           \/ Named(revs', worker'.tag, worker'.hash) # {},
           \/ UNCHANGED current
           \/ current' = <<worker.tag, worker.hash>> /\ Named(revs', worker.tag, worker.hash) # {}
    PROVE  NamesInv'
  <1>1. ASSUME NEW r \in seen'
        PROVE  Named(revs', r.tag, r.hash) # {}
    BY NamesKept, NameOfMember DEF NamesInv
  <1>2. ASSUME worker'.pc = "status"
        PROVE  Named(revs', worker'.tag, worker'.hash) # {}
    BY <1>2, NamesKept DEF NamesInv
  <1>3. ASSUME current' # Nil
        PROVE  Named(revs', current'[1], current'[2]) # {}
    BY <1>3, NamesKept DEF NamesInv, CurrentExists
  <1> QED
    BY <1>1, <1>2, <1>3 DEF NamesInv, CurrentExists

\* The current revision, and the one whose status is due, exist after every step.
LEMMA NamesStep == TypeInv /\ NamesInv /\ [Next]_vars => NamesInv'
  <1> SUFFICES ASSUME TypeInv, NamesInv, [Next]_vars
               PROVE  NamesInv'
    OBVIOUS
  <1>1. CASE StartPass
    BY <1>1, NamesSuffice DEF StartPass, Idle
  <1>2. CASE LoadCached
    <2>1. worker'.pc # "status"
      BY <1>2, SkipLeaves DEF LoadCached, TypeInv, Worker
    <2> QED
      BY <1>2, <2>1, NamesSuffice DEF LoadCached
  <1>3. CASE Pull
    BY <1>3, NamesSuffice DEF Pull, TypeInv, Worker
  <1>4. CASE PullFails
    BY <1>4, SkipLeaves, NamesSuffice DEF PullFails
  <1>5. CASE Resolve
    <2>1. worker'.pc # "status"
      BY <1>5 DEF Resolve, TypeInv, Worker
    <2> QED
      BY <1>5, <2>1, NamesSuffice DEF Resolve
  <1>6. CASE Compare
    <2>1. worker'.pc # "status"
      BY <1>6, SkipLeaves, GoToCarries DEF Compare
    <2> QED
      BY <1>6, <2>1, NamesSuffice DEF Compare
  <1>7. CASE Recover
    BY <1>7, IdleType, NamesSuffice DEF Recover
  <1>8. CASE GetFound
    <2>1. PICK copy \in seen : copy.tag = worker.tag /\ copy.hash = worker.hash
      BY <1>8 DEF GetFound, Named
    <2>2. Named(revs', worker.tag, worker.hash) # {}
      BY <1>8, <2>1, GetFoundKeepsSources, NamesKept DEF NamesInv
    <2> QED
      BY <1>8, <2>2, FinishLeaves, GetFoundKeepsSources, NamesSuffice DEF GetFound, finish
  <1>9. CASE GetNotFound
    BY <1>9, GoToCarries, NamesSuffice DEF GetNotFound
  <1>10. CASE Create
    <2>1. Named(revs', worker.tag, worker.hash) # {}
      <3>1. Created.tag = worker.tag /\ Created.hash = worker.hash
        BY DEF Created
      <3> QED
        BY <1>10, <3>1, CreateCases, NameOfMember
    <2>2. CASE finish
      BY <1>10, <2>1, <2>2, CreateGrows, FinishLeaves, NamesSuffice DEF Create, finish
    <2>3. CASE goTo("status") /\ UNCHANGED current
      BY <1>10, <2>1, <2>3, CreateGrows, GoToCarries, NamesSuffice DEF Create
    <2> QED
      BY <1>10, <2>2, <2>3 DEF Create
  <1>11. CASE CreateFails
    BY <1>11, LeaveToType, NamesSuffice DEF CreateFails
  <1>12. CASE FillStatus
    <2>1. Named(revs', worker.tag, worker.hash) # {}
      BY <1>12, FillStatusKeepsSources, NamesKept DEF FillStatus, NamesInv
    <2> QED
      BY <1>12, <2>1, FinishLeaves, FillStatusKeepsSources, NamesSuffice DEF FillStatus, finish
  <1>13. CASE ListTags
    BY <1>13, ListTagsLeaves, NamesSuffice DEF ListTags
  <1>14. CASE NextTag
    BY <1>14, NextTagLeaves, NamesSuffice DEF NextTag
  <1>15. CASE Sync
    BY <1>15, NamesSuffice DEF Sync
  <1>16. CASE ExpireTags
    BY <1>16, NamesSuffice DEF ExpireTags
  <1>17. CASE Restart
    BY <1>17, IdleType, NamesSuffice DEF Restart
  <1>18. ASSUME NEW t \in Tags, Expire(t)
         PROVE  NamesInv'
    BY <1>18, NamesSuffice DEF Expire
  <1>19. ASSUME NEW t \in Tags, NEW b \in Bundles, Push(t, b)
         PROVE  NamesInv'
    BY <1>19, NamesSuffice DEF Push
  <1>20. CASE UNCHANGED vars
    BY <1>20, NamesSuffice DEF vars
  <1> QED
    BY <1>1, <1>2, <1>3, <1>4, <1>5, <1>6, <1>7, <1>8, <1>9, <1>10, <1>11, <1>12, <1>13,
       <1>14, <1>15, <1>16, <1>17, <1>18, <1>19, <1>20 DEF Next, WorkerStep

\* ----- one bundle -------------------------------------------------------

\* Initially there is no digest.
LEMMA ContentInit == Init => ContentInv
  BY IdleType DEF Init, ContentInv, DigestIsOfContent, Resolved

\* Every step keeps digest and contract together; a push may tear the pull in
\* progress, and only that one.
LEMMA ContentStep == TypeInv /\ ContentInv /\ [Next]_vars => ContentInv'
  <1> SUFFICES ASSUME TypeInv, ContentInv, [Next]_vars
               PROVE  ContentInv'
    OBVIOUS
  <1> USE DEF ContentInv
  <1>a. ASSUME Sources(revs') = Sources(revs), torn \subseteq torn'
        PROVE  DigestIsOfContent'
    <2>1. SUFFICES ASSUME NEW r \in revs'
                   PROVE  \/ r.digest = Nil \/ <<r.tag, r.hash>> \in torn'
                          \/ [hash |-> r.hash, digest |-> r.digest] \in Bundles
      BY DEF DigestIsOfContent
    <2>2. PICK q \in revs : q.tag = r.tag /\ q.hash = r.hash /\ q.digest = r.digest
      BY <1>a, SameSources
    <2> QED
      BY <1>a, <2>2 DEF DigestIsOfContent
  <1>b. ASSUME worker'.pc \notin Pulled, UNCHANGED <<registry, loader, torn>>, DigestIsOfContent'
        PROVE  ContentInv'
    BY <1>b DEF Pulled, Resolved, OfOneBundle
  <1>c. ASSUME NEW pc, goTo(pc), pc \in Resolved => worker.pc \in Resolved, pc # "resolve",
               UNCHANGED <<registry, loader, torn>>, DigestIsOfContent'
        PROVE  ContentInv'
    BY <1>c, GoToCarries DEF OfOneBundle
  <1>1. CASE StartPass
    BY <1>1, <1>a, <1>b DEF StartPass, Idle, Pulled
  <1>2. CASE LoadCached
    <2> DEFINE e == cacheEntry(worker.tag)
    <2>1. worker.tag \in Tags /\ e = loader[worker.tag]
      BY <1>2 DEF TypeInv, LoadCached, cacheEntry, cacheKey, Loading
    <2>2. CASE e = Failed
      BY <1>2, <2>2, <1>a, <1>b, SkipLeaves DEF LoadCached
    <2>3. CASE e # Failed
      <3>1. /\ worker'.pc = "compare" /\ worker'.tag = worker.tag
            /\ worker'.hash = loader[worker.tag].hash
            /\ worker'.digest = loader[worker.tag].digest
        BY <1>2, <2>1, <2>3 DEF LoadCached, TypeInv, Worker
      <3>2. OfOneBundle(worker.tag, loader[worker.tag].hash, loader[worker.tag].digest)
        BY <1>2, <2>1, <2>3 DEF LoadCached
      <3>3. DigestIsOfContent' /\ UNCHANGED <<registry, loader, torn>>
        BY <1>2, <1>a DEF LoadCached
      <3> QED
        BY <3>1, <3>2, <3>3 DEF OfOneBundle
    <2> QED
      BY <2>2, <2>3
  <1>3. CASE Pull
    <2>1. worker'.pc = "resolve" /\ registry'[worker'.tag].hash = worker'.hash
      BY <1>3 DEF Pull, TypeInv, Worker
    <2>2. DigestIsOfContent' /\ UNCHANGED <<loader, torn>>
      BY <1>3, <1>a DEF Pull
    <2> QED
      BY <2>1, <2>2 DEF OfOneBundle, Resolved
  <1>4. CASE PullFails
    <2>1. worker'.pc \notin Pulled /\ UNCHANGED <<revs, torn>>
      BY <1>4, SkipLeaves DEF PullFails
    <2>2. ASSUME NEW t \in Tags, loader'[t] \notin {Nil, Failed}
          PROVE  loader'[t] = loader[t]
      BY <1>4, <2>2 DEF PullFails, cacheLoad, cacheKey, TypeInv
    <2> QED
      BY <1>a, <2>1, <2>2 DEF Pulled, Resolved, OfOneBundle
  <1>5. CASE Resolve
    <2>1. PICK d \in {digestOf(worker.tag), Nil} :
             /\ worker' = [worker EXCEPT !.pc = "compare", !.digest = d]
             /\ cacheLoad(worker.tag, [hash |-> worker.hash, digest |-> d])
      BY <1>5 DEF Resolve
    <2>2. /\ worker'.pc = "compare" /\ worker'.tag = worker.tag
          /\ worker'.hash = worker.hash /\ worker'.digest = d /\ UNCHANGED torn
      BY <1>5, <2>1 DEF Resolve, TypeInv, Worker
    <2>3. OfOneBundle(worker.tag, worker.hash, d)
      <3> DEFINE b == registry[worker.tag]
      <3>1. b \in Bundles /\ (b.hash = worker.hash \/ <<worker.tag, worker.hash>> \in torn)
        BY <1>5 DEF Resolve, TypeInv
      <3>2. b = [hash |-> b.hash, digest |-> b.digest]
        BY <3>1, BundlesAssumption
      <3> QED
        BY <2>1, <3>1, <3>2 DEF OfOneBundle, digestOf
    <2>4. ASSUME NEW t \in Tags, loader'[t] \notin {Nil, Failed}
          PROVE  OfOneBundle(t, loader'[t].hash, loader'[t].digest)
      BY <2>1, <2>3, <2>4 DEF cacheLoad, cacheKey, TypeInv
    <2>5. DigestIsOfContent'
      BY <1>5, <1>a DEF Resolve
    <2> QED
      BY <2>2, <2>3, <2>4, <2>5 DEF OfOneBundle
  <1>6. CASE Compare
    <2>1. CASE skipTag
      BY <1>6, <2>1, <1>a, <1>b, SkipLeaves DEF Compare
    <2>2. CASE goTo("panic") \/ goTo("get")
      BY <1>6, <2>2, <1>a, <1>c DEF Compare, Resolved
    <2> QED
      BY <1>6, <2>1, <2>2 DEF Compare
  <1>7. CASE Recover
    BY <1>7, <1>a, <1>b, IdleType DEF Recover, Pulled
  <1>8. CASE GetFound
    BY <1>8, <1>a, <1>b, FinishLeaves, GetFoundKeepsSources DEF GetFound
  <1>9. CASE GetNotFound
    BY <1>9, <1>a, <1>c DEF GetNotFound, Resolved
  <1>10. CASE Create
    <2>1. OfOneBundle(worker.tag, worker.hash, worker.digest) /\ UNCHANGED torn
      BY <1>10 DEF Create, Resolved
    <2>2. revs' = revs \/ revs' = revs \cup {Created}
      BY <1>10, CreateCases
    <2>3. /\ Created.tag = worker.tag /\ Created.hash = worker.hash
          /\ Created.digest = worker.digest
      BY DEF Created
    <2>4. DigestIsOfContent'
      BY <2>1, <2>2, <2>3 DEF DigestIsOfContent, OfOneBundle
    <2>5. CASE finish
      BY <1>10, <1>b, <2>4, <2>5, FinishLeaves DEF Create
    <2>6. CASE goTo("status")
      BY <1>10, <1>c, <2>4, <2>6 DEF Create, Resolved
    <2> QED
      BY <1>10, <2>5, <2>6 DEF Create
  <1>11. CASE CreateFails
    BY <1>11, <1>a, <1>b, LeaveToType DEF CreateFails, Pulled
  <1>12. CASE FillStatus
    BY <1>12, <1>a, <1>b, FinishLeaves, FillStatusKeepsSources DEF FillStatus
  <1>13. CASE ListTags
    BY <1>13, <1>a, <1>b, ListTagsLeaves DEF ListTags, Pulled
  <1>14. CASE NextTag
    BY <1>14, <1>a, <1>b, NextTagLeaves DEF NextTag, Pulled
  <1>15. CASE Sync
    BY <1>15, <1>a DEF Sync, OfOneBundle
  <1>16. CASE ExpireTags
    BY <1>16, <1>a DEF ExpireTags, OfOneBundle
  <1>17. CASE Restart
    BY <1>17, <1>a, IdleType DEF Restart, Resolved
  <1>18. ASSUME NEW t \in Tags, Expire(t)
         PROVE  ContentInv'
    BY <1>18, <1>a DEF Expire, TypeInv, OfOneBundle
  <1>19. ASSUME NEW t \in Tags, NEW b \in Bundles, Push(t, b)
         PROVE  ContentInv'
    <2>1. DigestIsOfContent' /\ UNCHANGED <<worker, loader>> /\ torn \subseteq torn'
      BY <1>19, <1>a DEF Push
    <2>2. ASSUME worker.pc = "resolve"
          PROVE  \/ registry'[worker.tag].hash = worker.hash
                 \/ <<worker.tag, worker.hash>> \in torn'
      <3>1. CASE worker.tag = t
        BY <1>19, <2>2, <3>1 DEF Push
      <3>2. CASE worker.tag # t
        BY <1>19, <2>1, <2>2, <3>2 DEF Push, TypeInv
      <3> QED
        BY <3>1, <3>2
    <2> QED
      BY <2>1, <2>2 DEF OfOneBundle
  <1>20. CASE UNCHANGED vars
    BY <1>20, <1>a DEF vars, OfOneBundle
  <1> QED
    BY <1>1, <1>2, <1>3, <1>4, <1>5, <1>6, <1>7, <1>8, <1>9, <1>10, <1>11, <1>12, <1>13,
       <1>14, <1>15, <1>16, <1>17, <1>18, <1>19, <1>20 DEF Next, WorkerStep

\* ----- the log ----------------------------------------------------------

\* What the revisions are mapped to.
LEMMA LogState ==
    /\ Log!Init <=> Sources(revs) = {} /\ current = Nil
    /\ Log!Publish <=> served \subseteq served' /\ UNCHANGED <<Sources(revs), current>>
    /\ Log!Record <=> /\ Sources(revs) \subseteq Sources(revs')
                      /\ \E s \in Sources(revs') :
                           /\ <<s.tag, s.hash>> \in served \ Log!Names(Sources(revs))
                           /\ Sources(revs') = Sources(revs) \cup {s}
                      /\ UNCHANGED <<current, served>>
    /\ Log!Select <=> /\ current' \in Log!Names(Sources(revs))
                      /\ UNCHANGED <<Sources(revs), served>>
    /\ Log!vars = <<Sources(revs), current, served>>
  BY DEF Log!Init, Log!Publish, Log!Record, Log!Select, Log!vars, Sources

\* The names of the log are those of the revisions.
LEMMA NamesOfLog ==
    ASSUME NEW rs, NEW t, NEW h
    PROVE  <<t, h>> \in Log!Names(Sources(rs)) <=> Named(rs, t, h) # {}
  BY NamedSources DEF Log!Names

\* The initial state is an empty log.
LEMMA LogInit == Init => Log!Init
  BY LogState DEF Init, Sources

\* Every step is a step of the log or a stutter.
LEMMA LogStep ==
    ASSUME TypeInv, ServedInv, NamesInv, [Next]_vars
    PROVE  [Log!Next]_(Log!vars)
  <1>a. ASSUME UNCHANGED <<revs, current, served>>
        PROVE  [Log!Next]_(Log!vars)
    BY <1>a DEF Log!vars
  <1>b. ASSUME Sources(revs') = Sources(revs), UNCHANGED served, finish,
               Named(revs, worker.tag, worker.hash) # {}
        PROVE  [Log!Next]_(Log!vars)
    <2>1. CASE UNCHANGED current
      BY <1>b, <2>1 DEF Log!vars, Sources
    <2>2. CASE current' = <<worker.tag, worker.hash>>
      <3>1. Log!Select
        BY <1>b, <2>2, LogState, NamesOfLog
      <3> QED
        BY <3>1 DEF Log!Next
    <2> QED
      BY <1>b, <2>1, <2>2 DEF finish
  <1>1. CASE GetFound
    <2>1. PICK copy \in seen : copy.tag = worker.tag /\ copy.hash = worker.hash
      BY <1>1 DEF GetFound, Named
    <2>2. Named(revs, worker.tag, worker.hash) # {}
      BY <2>1 DEF NamesInv
    <2> QED
      BY <1>1, <1>b, <2>2, GetFoundKeepsSources DEF GetFound
  <1>2. CASE FillStatus
    BY <1>2, <1>b, FillStatusKeepsSources DEF FillStatus, NamesInv
  <1>3. CASE Create
    <2>1. UNCHANGED served
      BY <1>3 DEF Create
    <2>2. CASE UNCHANGED revs /\ finish /\ Named(revs, worker.tag, worker.hash) # {}
      BY <1>b, <2>1, <2>2
    <2>3. CASE /\ Named(revs, worker.tag, worker.hash) = {}
               /\ revs' = revs \cup {Created} /\ UNCHANGED current
      <3> DEFINE s == [tag |-> Created.tag, hash |-> Created.hash, digest |-> Created.digest]
      <3>1. Sources(revs') = Sources(revs) \cup {s}
        BY <2>3 DEF Sources
      <3>2. s.tag = worker.tag /\ s.hash = worker.hash
        BY DEF Created
      <3>3. <<s.tag, s.hash>> \in served \ Log!Names(Sources(revs))
        BY <1>3, <2>3, <3>2, NamesOfLog DEF Create, ServedInv, Pulled
      <3> HIDE DEF s
      <3>4. Log!Record
        BY <2>1, <2>3, <3>1, <3>3, LogState
      <3> QED
        BY <3>4 DEF Log!Next
    <2> QED
      BY <1>3, <2>2, <2>3, CreateCases
  <1>4. ASSUME NEW t \in Tags, NEW b \in Bundles, Push(t, b)
        PROVE  [Log!Next]_(Log!vars)
    <2>1. Log!Publish
      BY <1>4, LogState DEF Push, Sources
    <2> QED
      BY <2>1 DEF Log!Next
  <1>5. CASE Quiet
    <2>1. CASE UNCHANGED <<revs, current, served>>
      BY <2>1, <1>a
    <2>2. CASE \E t \in Tags, b \in Bundles : Push(t, b)
      BY <2>2, <1>4
    <2> QED
      BY <1>5, <2>1, <2>2 DEF Quiet, StartPass, LoadCached, Pull, PullFails, Resolve, Compare,
         Recover, GetNotFound, CreateFails, ListTags, NextTag, ExpireTags, Restart, Expire
  <1>6. CASE Sync \/ UNCHANGED vars
    BY <1>6, <1>a DEF Sync, vars
  <1> QED
    BY <1>1, <1>2, <1>3, <1>5, <1>6, NextCases

\* ----- theorems ---------------------------------------------------------

\* The types, what was served and the names are invariant together: the last
\* two need the first, and not each other.
LEMMA Invariants == Spec => [](TypeInv /\ ServedInv /\ NamesInv)
  <1>1. Init => TypeInv /\ ServedInv /\ NamesInv
    BY TypeInit, ServedInit, NamesInit
  <1>2. TypeInv /\ ServedInv /\ NamesInv /\ [Next]_vars => (TypeInv /\ ServedInv /\ NamesInv)'
    BY TypeStep, ServedStep, NamesStep
  <1> QED
    BY <1>1, <1>2, PTL DEF Spec

\* status.currentRevision names a revision that the API server has.  Of the
\* paths to a name in ensureRevision, one finds the revision in the informer,
\* which holds only what the API server held before (and no name is ever
\* lost), one is told AlreadyExists, and one has created it.
THEOREM CurrentAlwaysExists == Spec => []CurrentExists
  <1>1. NamesInv => CurrentExists
    BY DEF NamesInv
  <1> QED
    BY <1>1, Invariants, PTL

\* Every revision records what its tag served: the contract a pass carries from
\* Load to Create was served by the tag that Create names, whether it came from
\* the registry or from the loader's cache, and however old it is by then.
THEOREM RevisionsAreOfTheirTag == Spec => []RevisionsWereServed
  <1>1. ServedInv => RevisionsWereServed
    BY DEF ServedInv
  <1> QED
    BY <1>1, Invariants, PTL

\* The digest of a revision belongs to its contract, unless its tag was pushed
\* between the two requests of the pull of that contract: for any number of
\* pushes at any time, a torn pull spoils the one revision it is recorded for.
THEOREM DigestsAreOfContent == Spec => []DigestIsOfContent
  <1>1. Init => TypeInv /\ ContentInv
    BY TypeInit, ContentInit
  <1>2. TypeInv /\ ContentInv /\ [Next]_vars => (TypeInv /\ ContentInv)'
    BY TypeStep, ContentStep
  <1>3. ContentInv => DigestIsOfContent
    BY DEF ContentInv
  <1> QED
    BY <1>1, <1>2, <1>3, PTL DEF Spec

\* The revisions in the API server are the log that RevisionLog specifies: a
\* pass with its informer, caches, failures and restarts adds records of what
\* was served, never two of one name, changes none, and selects a recorded one.
THEOREM RevisionsAreALog == Spec => ImplementsLog
  <1>1. TypeInv /\ ServedInv /\ NamesInv /\ [Next]_vars => [Log!Next]_(Log!vars)
    BY LogStep
  <1> QED
    BY <1>1, Invariants, LogInit, PTL DEF Spec, ImplementsLog, Log!Spec
=============================================================================
