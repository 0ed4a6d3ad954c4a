-------------------------- MODULE DashboardProofs ---------------------------
(***************************************************************************)
(* Theorems about Dashboard, for every list of resources, every set of     *)
(* configurations and source Secrets and every number of edits and faults. *)
(***************************************************************************)
EXTENDS Dashboard, TLAPS

\* ----- the inductive invariant ------------------------------------------

Managed == ToSet(Resources)

IsObject(o) ==
    o = Nil \/ o = [managed |-> o.managed, content |-> o.content, terminating |-> o.terminating]

ObjType == obj = [k \in Kinds |-> obj[k]] /\ \A k \in Kinds : IsObject(obj[k])

ProcType ==
    proc # Nil => /\ proc = [cfg |-> proc.cfg, starting |-> proc.starting, todo |-> proc.todo]
                  /\ proc.starting \in BOOLEAN

TypeInv == ObjType /\ ProcType /\ seen = [k \in Kinds |-> seen[k]]

Cleaning == proc # Nil /\ ~proc.cfg.enabled

\* A cleanup that is over is complete; before, each object that is left is
\* still on the list, and the informer knows it with its labels.
CleanupInv ==
    Cleaning =>
        /\ proc.todo \in Seq(Managed)
        /\ ~proc.starting => proc.todo = << >>
        /\ \A k \in Managed :
             Owned(k) => k \in ToSet(proc.todo) /\ seen[k] # Nil /\ seen[k].managed

\* ----- sequences --------------------------------------------------------

\* Reversing a sequence keeps its elements.
LEMMA ReverseKeeps ==
    ASSUME NEW S, NEW s \in Seq(S)
    PROVE  Reverse(s) \in Seq(S) /\ ToSet(Reverse(s)) = ToSet(s)
  <1> DEFINE n == Len(s)
             r == Reverse(s)
  <1>1. n \in Nat /\ DOMAIN s = 1..n /\ \A i \in 1..n : s[i] \in S
    OBVIOUS
  <1>2. r = [i \in 1..n |-> s[(n - i) + 1]]
    BY DEF Reverse
  <1>3. \A i \in 1..n : (n - i) + 1 \in 1..n /\ (n - ((n - i) + 1)) + 1 = i
    BY <1>1
  <1>4. r \in Seq(S)
    BY <1>1, <1>2, <1>3
  <1>5. DOMAIN r = 1..n /\ \A i \in 1..n : r[i] = s[(n - i) + 1]
    BY <1>2
  <1> HIDE DEF r, n
  <1>6. \A i \in 1..n : s[i] = r[(n - i) + 1]
    BY <1>3, <1>5
  <1>7. ASSUME NEW x \in ToSet(r)
        PROVE  x \in ToSet(s)
    <2>1. PICK i \in 1..n : x = r[i]
      BY <1>5 DEF ToSet
    <2>2. (n - i) + 1 \in DOMAIN s /\ x = s[(n - i) + 1]
      BY <1>1, <1>3, <1>5, <2>1
    <2> QED
      BY <2>2 DEF ToSet
  <1>8. ASSUME NEW x \in ToSet(s)
        PROVE  x \in ToSet(r)
    <2>1. PICK i \in 1..n : x = s[i]
      BY <1>1 DEF ToSet
    <2>2. (n - i) + 1 \in DOMAIN r /\ x = r[(n - i) + 1]
      BY <1>3, <1>5, <1>6, <2>1
    <2> QED
      BY <2>2 DEF ToSet
  <1> QED
    BY <1>4, <1>7, <1>8 DEF r

\* A sequence is one over its own elements.
LEMMA OfItsElements ==
    ASSUME NEW S, NEW s \in Seq(S)
    PROVE  s \in Seq(ToSet(s))
  BY DEF ToSet

\* Head and tail together hold every element.
LEMMA TailKeeps ==
    ASSUME NEW S, NEW s \in Seq(S), s # << >>
    PROVE  /\ Tail(s) \in Seq(S) /\ ToSet(s) \subseteq {Head(s)} \cup ToSet(Tail(s))
           /\ ~(Len(s) > 1) => Tail(s) = << >>
           /\ Head(s) \in S
  <1>1. Len(s) \in Nat \ {0} /\ DOMAIN s = 1..Len(s) /\ Tail(s) \in Seq(S)
        /\ Len(Tail(s)) = Len(s) - 1 /\ Head(s) = s[1]
    OBVIOUS
  <1>2. ASSUME NEW i \in 1..Len(s), i # 1
        PROVE  s[i] = Tail(s)[i - 1] /\ i - 1 \in DOMAIN Tail(s)
    BY <1>1, <1>2
  <1>3. ASSUME NEW x \in ToSet(s), x # Head(s)
        PROVE  x \in ToSet(Tail(s))
    <2>1. PICK i \in 1..Len(s) : x = s[i]
      BY <1>1 DEF ToSet
    <2>2. i - 1 \in DOMAIN Tail(s) /\ x = Tail(s)[i - 1]
      BY <1>1, <1>2, <1>3, <2>1
    <2> QED
      BY <2>2 DEF ToSet
  <1> QED
    BY <1>1, <1>3

\* A disabled dashboard plans to visit each managed kind.
LEMMA PlanOfCleanup ==
    ASSUME NEW cfg, ~cfg.enabled
    PROVE  plan(cfg) \in Seq(Managed) /\ ToSet(plan(cfg)) = Managed
  <1>1. Resources \in Seq(Managed)
    BY DashboardAssumption, OfItsElements DEF Managed
  <1> QED
    BY <1>1, ReverseKeeps DEF plan, Managed

\* ----- types ------------------------------------------------------------

\* advance, field by field.
LEMMA AdvanceProc ==
    ASSUME TypeInv, proc # Nil, advance
    PROVE  proc' = [cfg |-> proc.cfg, starting |-> proc.starting /\ Len(proc.todo) > 1,
                    todo |-> Tail(proc.todo)]
  <1> DEFINE b == proc.starting /\ Len(proc.todo) > 1
  <1>1. proc' = [proc EXCEPT !.todo = Tail(proc.todo), !.starting = b]
    BY DEF advance, TypeInv, ProcType
  <1>2. proc = [cfg |-> proc.cfg, starting |-> proc.starting, todo |-> proc.todo]
    BY DEF TypeInv, ProcType
  <1> HIDE DEF b
  <1>3. proc' = [cfg |-> proc.cfg, starting |-> b, todo |-> Tail(proc.todo)]
    BY <1>1, <1>2
  <1> QED
    BY <1>3 DEF b

\* abort ends a process that is starting, and drops the work of another one.
LEMMA AbortProc ==
    ASSUME TypeInv, proc # Nil, abort
    PROVE  \/ proc' = Nil
           \/ ~proc.starting /\ proc' = [cfg |-> proc.cfg, starting |-> FALSE, todo |-> << >>]
  <1>1. CASE proc.starting
    BY <1>1 DEF abort
  <1>2. CASE ~proc.starting
    BY <1>2 DEF abort, TypeInv, ProcType
  <1> QED
    BY <1>1, <1>2

\* Both leave a well-typed process behind.
LEMMA ProcStays ==
    ASSUME TypeInv, proc # Nil, advance \/ abort
    PROVE  ProcType'
  <1>1. CASE advance
    <2> DEFINE b == proc.starting /\ Len(proc.todo) > 1
    <2>1. b \in BOOLEAN
      OBVIOUS
    <2>2. proc' = [cfg |-> proc.cfg, starting |-> b, todo |-> Tail(proc.todo)]
      BY <1>1, AdvanceProc
    <2> HIDE DEF b
    <2> QED
      BY <2>1, <2>2 DEF ProcType
  <1>2. CASE abort
    <2>1. CASE proc' = Nil
      BY <2>1 DEF ProcType
    <2>2. CASE proc' = [cfg |-> proc.cfg, starting |-> FALSE, todo |-> << >>]
      <3>1. proc'.cfg = proc.cfg /\ proc'.starting = FALSE /\ proc'.todo = << >>
        BY <2>2
      <3> QED
        BY <2>2, <3>1 DEF ProcType
    <2> QED
      BY <1>2, <2>1, <2>2, AbortProc
  <1> QED
    BY <1>1, <1>2

\* The initial state is well typed.
LEMMA TypeInit == Init => TypeInv
  BY DEF Init, TypeInv, ObjType, ProcType, IsObject

\* A write of an object keeps the objects well typed.
LEMMA WriteType ==
    ASSUME TypeInv, NEW k \in Kinds, NEW o, IsObject(o), write(k, o)
    PROVE  ObjType'
  BY DEF TypeInv, write, ObjType

\* The records the actions write are objects.
LEMMA RecordsAreObjects ==
    /\ IsObject(Nil)
    /\ \A o, c : IsObject(applied(o, c))
    /\ IsObject([managed |-> FALSE, content |-> Foreign, terminating |-> FALSE])
    /\ \A o : IsObject(o) /\ o # Nil => /\ IsObject([o EXCEPT !.terminating = TRUE])
                                        /\ IsObject([o EXCEPT !.content = Drifted])
                                        /\ IsObject([o EXCEPT !.managed = FALSE])
  <1>1. ASSUME NEW m, NEW c, NEW t
        PROVE  IsObject([managed |-> m, content |-> c, terminating |-> t])
    BY DEF IsObject
  <1>2. ASSUME NEW o, NEW c
        PROVE  IsObject(applied(o, c))
    <2> DEFINE t == o # Nil /\ o.terminating
    <2>1. applied(o, c) = [managed |-> TRUE, content |-> c, terminating |-> t]
      BY DEF applied
    <2> HIDE DEF t
    <2> QED
      BY <1>1, <2>1
  <1>3. ASSUME NEW o, IsObject(o), o # Nil, NEW v
        PROVE  /\ IsObject([o EXCEPT !.terminating = v])
               /\ IsObject([o EXCEPT !.content = v])
               /\ IsObject([o EXCEPT !.managed = v])
    BY <1>3 DEF IsObject
  <1>4. IsObject(Nil)
    BY DEF IsObject
  <1> QED
    BY <1>1, <1>2, <1>3, <1>4

\* Everything that happens to the objects.
LEMMA ObjStep ==
    ASSUME TypeInv, [Next]_vars
    PROVE  ObjType'
  <1> USE RecordsAreObjects
  <1>a. \A k \in Kinds : IsObject(obj[k])
    BY DEF TypeInv, ObjType
  <1>b. "Namespace" \in Kinds
    BY DEF Kinds
  <1>c. ASSUME NEW k \in Kinds, NEW c, apply(k, c)
        PROVE  ObjType'
    BY <1>c, WriteType DEF apply, ObjType, TypeInv
  <1>1. CASE UNCHANGED obj
    BY <1>1 DEF ObjType, TypeInv
  <1>2. CASE ensureNamespace
    BY <1>1, <1>2, <1>b, WriteType DEF ensureNamespace
  <1>3. CASE cleanOCICredentials
    <2>1. CASE "Secret" \in Kinds
      BY <1>1, <1>3, <1>a, <2>1, WriteType DEF cleanOCICredentials
    <2>2. CASE "Secret" \notin Kinds
      <3>1. ASSUME NEW o, write("Secret", o)
            PROVE  UNCHANGED obj
        BY <2>2, <3>1 DEF write, TypeInv, ObjType
      <3> QED
        BY <1>1, <1>3, <3>1 DEF cleanOCICredentials
    <2> QED
      BY <2>1, <2>2
  <1>4. CASE mergeOCICredentials
    <2>1. CASE "Secret" \in Kinds
      BY <1>1, <1>4, <1>c, <2>1 DEF mergeOCICredentials
    <2>2. CASE "Secret" \notin Kinds
      <3>1. ASSUME NEW c, apply("Secret", c)
            PROVE  UNCHANGED obj
        BY <2>2, <3>1 DEF apply, write, TypeInv, ObjType
      <3> QED
        BY <1>1, <1>4, <3>1 DEF mergeOCICredentials
    <2> QED
      BY <2>1, <2>2
  <1>5. ASSUME NEW k \in Kinds, reconcileResource(k)
        PROVE  ObjType'
    BY <1>5, <1>c DEF reconcileResource
  <1>6. ASSUME NEW k \in Kinds, cleanup(k)
        PROVE  ObjType'
    BY <1>1, <1>6, <1>a, WriteType DEF cleanup
  <1>7. ASSUME NEW k \in Kinds, GarbageCollect(k)
        PROVE  ObjType'
    BY <1>7, WriteType DEF GarbageCollect
  <1>8. ASSUME NEW k \in Kinds, ChangeObject(k)
        PROVE  ObjType'
    <2>1. CASE obj[k] = Nil
      BY <1>8, <2>1, WriteType DEF ChangeObject
    <2>2. CASE obj[k] # Nil
      <3>1. PICK o \in {[obj[k] EXCEPT !.content = Drifted], [obj[k] EXCEPT !.managed = FALSE], Nil} :
                write(k, o)
        BY <1>8, <2>2 DEF ChangeObject
      <3> QED
        BY <1>a, <2>2, <3>1, WriteType
    <2> QED
      BY <2>1, <2>2
  <1> QED
    BY <1>1, <1>2, <1>3, <1>4, <1>5, <1>6, <1>7, <1>8 DEF Next, Reconcile, Users, StartProcess,
       CallFails, Tick, Crash, Rollout, Sync, Upgrade, ChangeSource, cluster, vars

\* Every step keeps the types.
LEMMA TypeStep == TypeInv /\ [Next]_vars => TypeInv'
  <1> SUFFICES ASSUME TypeInv, [Next]_vars
               PROVE  ProcType' /\ seen' = [k \in Kinds |-> seen'[k]]
    BY ObjStep DEF TypeInv, ObjType, ProcType
  <1>1. seen' = [k \in Kinds |-> seen'[k]]
    <2>1. CASE StartProcess
      BY <2>1 DEF StartProcess, TypeInv, ObjType
    <2>2. ASSUME NEW k \in Kinds, Sync(k)
          PROVE  seen' = [i \in Kinds |-> seen'[i]]
      BY <2>2 DEF Sync, TypeInv
    <2>3. CASE UNCHANGED seen
      BY <2>3 DEF TypeInv
    <2> QED
      BY <2>1, <2>2, <2>3 DEF Next, Reconcile, Users, ensureNamespace, cleanOCICredentials,
         mergeOCICredentials, reconcileResource, cleanup, CallFails, Tick, Crash, Rollout,
         GarbageCollect, Upgrade, ChangeSource, ChangeObject, cache, vars
  <1>2. ProcType'
    <2>1. CASE StartProcess
      BY <2>1 DEF StartProcess, ProcType
    <2>2. CASE proc # Nil /\ (advance \/ abort)
      BY <2>2, ProcStays
    <2>3. CASE Tick
      BY <2>3 DEF Tick, ProcType, TypeInv
    <2>4. CASE proc' = Nil
      BY <2>4 DEF ProcType
    <2>5. CASE UNCHANGED proc
      BY <2>5 DEF ProcType, TypeInv
    <2> QED
      BY <2>1, <2>2, <2>3, <2>4, <2>5 DEF Next, Reconcile, Users, ensureNamespace,
         cleanOCICredentials, mergeOCICredentials, reconcileResource, cleanup, apply, At, CallFails,
         Crash, Rollout, Sync, GarbageCollect, Upgrade, ChangeSource, ChangeObject, vars
  <1> QED
    BY <1>1, <1>2

\* ----- cleanup ----------------------------------------------------------

\* The namespace is never among the objects of a cleanup.
LEMMA NamespaceIsNotManaged == "Namespace" \notin Managed /\ Managed \subseteq Kinds
  <1>1. Managed \subseteq {"ServiceAccount", "ClusterRole", "ClusterRoleBinding", "Secret",
                           "Deployment", "Service"}
    BY DashboardAssumption DEF Managed, ToSet
  <1> QED
    BY <1>1 DEF Kinds, Managed

\* The configuration of a process does not change.
LEMMA SameConfig ==
    ASSUME TypeInv, proc # Nil, advance \/ abort, proc' # Nil
    PROVE  proc'.cfg = proc.cfg
  <1>1. CASE advance
    BY <1>1, AdvanceProc
  <1>2. CASE abort
    BY <1>2, AbortProc
  <1> QED
    BY <1>1, <1>2

\* Neither users nor the garbage collector label an object.
LEMMA NobodyLabels ==
    ASSUME TypeInv, NEW k \in Kinds, GarbageCollect(k) \/ ChangeObject(k),
           NEW j \in Kinds, Owned(j)'
    PROVE  Owned(j)
  <1>1. CASE j # k
    <2>1. obj'[j] = obj[j]
      BY <1>1 DEF GarbageCollect, ChangeObject, write, TypeInv, ObjType
    <2> QED
      BY <2>1 DEF Owned
  <1>2. CASE j = k
    <2>1. PICK o : obj'[k] = o /\ o # Nil /\ o.managed /\ ~o.terminating
      BY <1>2 DEF Owned
    <2>2. obj[k] # Nil /\ (\/ o = [obj[k] EXCEPT !.content = Drifted]
                           \/ o = [obj[k] EXCEPT !.managed = FALSE])
      <3>1. ASSUME NEW x, write(k, x)
            PROVE  obj'[k] = x
        BY <3>1 DEF write, TypeInv, ObjType
      <3>2. ~GarbageCollect(k)
        BY <2>1, <3>1 DEF GarbageCollect
      <3>3. obj[k] # Nil
        <4>1. SUFFICES ASSUME obj[k] = Nil
                       PROVE  FALSE
          OBVIOUS
        <4>2. o = [managed |-> FALSE, content |-> Foreign, terminating |-> FALSE]
          BY <2>1, <3>1, <3>2, <4>1 DEF ChangeObject
        <4> QED
          BY <2>1, <4>2
      <3> QED
        BY <2>1, <3>1, <3>2, <3>3 DEF ChangeObject
    <2>3. obj[k] = [managed |-> obj[k].managed, content |-> obj[k].content,
                    terminating |-> obj[k].terminating]
      BY <2>2 DEF TypeInv, ObjType, IsObject
    <2>4. o = [obj[k] EXCEPT !.content = Drifted]
      BY <2>1, <2>2, <2>3
    <2>5. o.managed = obj[k].managed /\ o.terminating = obj[k].terminating
      BY <2>3, <2>4
    <2> QED
      BY <1>2, <2>1, <2>2, <2>5 DEF Owned
  <1> QED
    BY <1>1, <1>2

\* No cleanup is under way initially.
LEMMA CleanupInit == Init => CleanupInv
  BY DEF Init, CleanupInv, Cleaning

\* Every step keeps the invariant of the cleanup.
LEMMA CleanupStep == TypeInv /\ CleanupInv /\ [Next]_vars => CleanupInv'
  <1> SUFFICES ASSUME TypeInv, CleanupInv, [Next]_vars, Cleaning'
               PROVE  CleanupInv'
    BY DEF CleanupInv
  <1>a. \A k \in Managed : k \in Kinds
    BY NamespaceIsNotManaged
  \* While the process stays the same, nothing gets labelled and the informers
  \* follow.
  <1>b. ASSUME UNCHANGED proc, \A k \in Managed : Owned(k)' => Owned(k),
               \A k \in Managed : Owned(k)' => seen'[k] = seen[k] \/ seen'[k] = obj'[k]
        PROVE  CleanupInv'
    <2>1. Cleaning
      BY <1>b DEF Cleaning
    <2>2. ASSUME NEW k \in Managed, Owned(k)'
          PROVE  k \in ToSet(proc.todo) /\ seen'[k] # Nil /\ seen'[k].managed
      BY <1>b, <2>1, <2>2 DEF CleanupInv, Owned
    <2> QED
      BY <1>b, <2>1, <2>2 DEF CleanupInv
  <1>1. CASE StartProcess
    <2>1. proc' = [cfg |-> config, starting |-> TRUE, todo |-> plan(config)] /\ seen' = obj
          /\ UNCHANGED obj
      BY <1>1 DEF StartProcess, cluster
    <2>2. proc'.cfg = config /\ proc'.starting = TRUE /\ proc'.todo = plan(config)
      BY <2>1
    <2>3. plan(config) \in Seq(Managed) /\ ToSet(plan(config)) = Managed
      BY <2>2, PlanOfCleanup DEF Cleaning
    <2>4. \A k \in Managed : Owned(k)' => seen'[k] # Nil /\ seen'[k].managed
      BY <2>1 DEF Owned
    <2> QED
      BY <2>2, <2>3, <2>4 DEF CleanupInv
  <1>2. CASE ensureNamespace
    <2>1. proc # Nil /\ (advance \/ abort) /\ proc.todo # << >> /\ Head(proc.todo) = "Namespace"
      BY <1>2 DEF ensureNamespace, At
    <2>2. Cleaning
      BY <2>1, SameConfig DEF Cleaning
    <2> QED
      BY <2>1, <2>2, TailKeeps, NamespaceIsNotManaged DEF CleanupInv
  <1>3. CASE cleanOCICredentials \/ mergeOCICredentials \/ \E k \in Kinds : reconcileResource(k)
    <2>1. proc # Nil /\ proc.cfg.enabled /\ (advance \/ abort)
      BY <1>3 DEF cleanOCICredentials, mergeOCICredentials, reconcileResource, apply, At
    <2> QED
      BY <2>1, SameConfig DEF Cleaning
  <1>4. ASSUME NEW k \in Kinds, cleanup(k)
        PROVE  CleanupInv'
    <2> DEFINE t == proc.todo
    <2>1. Cleaning /\ proc # Nil /\ t # << >> /\ Head(t) = k /\ advance /\ UNCHANGED seen
      BY <1>4 DEF cleanup, At, Cleaning, cache
    <2>2. t \in Seq(Managed)
      BY <2>1 DEF CleanupInv
    <2>3. proc'.starting = (proc.starting /\ Len(t) > 1)
      <3> DEFINE b == proc.starting /\ Len(t) > 1
      <3>1. proc' = [cfg |-> proc.cfg, starting |-> b, todo |-> Tail(t)]
        BY <2>1, AdvanceProc
      <3> HIDE DEF b
      <3>2. proc'.starting = b
        BY <3>1
      <3> QED
        BY <3>2 DEF b
    <2>4. proc'.todo = Tail(t)
      BY <2>1, AdvanceProc
    <2>5. /\ Tail(t) \in Seq(Managed) /\ ToSet(t) \subseteq {k} \cup ToSet(Tail(t))
          /\ ~(Len(t) > 1) => Tail(t) = << >>
      BY <2>1, <2>2, TailKeeps
    <2>6. proc.starting
      BY <2>1 DEF CleanupInv
    <2>7. ASSUME NEW j \in Managed, Owned(j)'
          PROVE  Owned(j) /\ j # k
      <3>1. CASE j = k
        <4>1. CASE seen[k] # Nil /\ seen[k].managed /\ obj[k] # Nil
          <5>1. obj'[k] = [obj[k] EXCEPT !.terminating = TRUE]
            BY <1>4, <4>1 DEF cleanup, write, TypeInv, ObjType
          <5>2. obj'[k].terminating = TRUE
            BY <4>1, <5>1 DEF TypeInv, ObjType, IsObject
          <5> QED
            BY <2>7, <3>1, <5>2 DEF Owned
        <4>2. CASE ~(seen[k] # Nil /\ seen[k].managed /\ obj[k] # Nil)
          <5>1. UNCHANGED obj
            BY <1>4, <4>2 DEF cleanup
          <5> QED
            BY <2>1, <2>7, <3>1, <4>2, <5>1 DEF Owned, CleanupInv
        <4> QED
          BY <4>1, <4>2
      <3>2. CASE j # k
        <4>1. obj'[j] = obj[j]
          BY <1>4, <1>a, <3>2 DEF cleanup, write, TypeInv, ObjType
        <4> QED
          BY <2>7, <3>2, <4>1 DEF Owned
      <3> QED
        BY <3>1, <3>2
    <2>8. ASSUME NEW j \in Managed, Owned(j)'
          PROVE  j \in ToSet(proc'.todo) /\ seen'[j] # Nil /\ seen'[j].managed
      BY <2>1, <2>4, <2>5, <2>7, <2>8 DEF CleanupInv
    <2> QED
      BY <2>3, <2>4, <2>5, <2>6, <2>8 DEF CleanupInv
  <1>5. CASE CallFails
    <2>1. proc # Nil /\ abort /\ proc.todo # << >>
      BY <1>5 DEF CallFails
    <2>2. Cleaning /\ ~proc.starting
      BY <2>1, SameConfig, AbortProc DEF Cleaning
    <2> QED
      BY <2>1, <2>2 DEF CleanupInv
  <1>6. CASE Tick
    <2>1. proc.cfg.enabled /\ proc'.cfg = proc.cfg
      BY <1>6 DEF Tick, ticks, TypeInv, ProcType
    <2> QED
      BY <2>1 DEF Cleaning
  <1>7. CASE Crash \/ Rollout
    BY <1>7 DEF Crash, Rollout, Cleaning
  <1>8. ASSUME NEW k \in Kinds, Sync(k)
        PROVE  CleanupInv'
    <2>1. UNCHANGED <<proc, obj>>
      BY <1>8 DEF Sync, cluster
    <2>2. \A j \in Managed : seen'[j] = seen[j] \/ seen'[j] = obj'[j]
      BY <1>8, <1>a, <2>1 DEF Sync, TypeInv
    <2> QED
      BY <1>b, <2>1, <2>2 DEF Owned
  <1>9. ASSUME NEW k \in Kinds, GarbageCollect(k) \/ ChangeObject(k)
        PROVE  CleanupInv'
    BY <1>a, <1>b, <1>9, NobodyLabels DEF GarbageCollect, ChangeObject, cache
  <1>10. CASE UNCHANGED <<proc, obj, seen>>
    BY <1>10, <1>b DEF Owned
  <1> QED
    BY <1>1, <1>2, <1>3, <1>4, <1>5, <1>6, <1>7, <1>8, <1>9, <1>10 DEF Next, Reconcile, Users,
       Upgrade, ChangeSource, cluster, cache, vars

\* ----- theorems ---------------------------------------------------------

\* A process that gets past the start with the dashboard disabled has left no
\* labelled object without a deletion under way.  What it had to delete is on
\* its list until it asks for the deletion; it asks because the informer, which
\* listed everything before the cleanup began, knows each object it could still
\* find with the labels on; and a failure half-way ends the process, so that
\* the next one begins again from the full list.
THEOREM CleanupIsComplete == Spec => []CleanedBeforeServing
  <1>1. Init => TypeInv /\ CleanupInv
    BY TypeInit, CleanupInit
  <1>2. TypeInv /\ CleanupInv /\ [Next]_vars => (TypeInv /\ CleanupInv)'
    BY TypeStep, CleanupStep
  <1>3. CleanupInv => CleanedBeforeServing
    <2> SUFFICES ASSUME CleanupInv, Cleaning, ~proc.starting, NEW k \in Managed, Owned(k)
                 PROVE  FALSE
      BY DEF CleanedBeforeServing, Cleaning, Managed
    <2>1. k \in ToSet(<< >>)
      BY DEF CleanupInv
    <2> QED
      BY <2>1 DEF ToSet
  <1> QED
    BY <1>1, <1>2, <1>3, PTL DEF Spec
=============================================================================
