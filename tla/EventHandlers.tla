--------------------------- MODULE EventHandlers ----------------------------
(***************************************************************************)
(* SetupWithManager and event_handler.go: how the events of Pactos, of     *)
(* Services and workloads and of Secrets make the one worker reconcile the *)
(* right Pactos.  PactoController has one Pacto and a cluster; here there  *)
(* are several Pactos that share objects, and each object has a name, an   *)
(* informer and handlers that run some time after the informer has stored  *)
(* the new version.                                                        *)
(*                                                                         *)
(* A spec is a record service, workload, secret of object names, Nil when  *)
(* unset.  Of an object only the version counts; being created or deleted  *)
(* is a version like any other.  One namespace.                            *)
(***************************************************************************)
EXTENDS Naturals, FiniteSets

CONSTANTS
    Nil,
    Pactos,     \* the names of Pactos
    Objects,    \* pairs <<kind, name>>; kind is "Service", "Workload" or "Secret"
    Specs,      \* the specs users submit
    Installed,  \* those of the Pactos that are there when the operator starts
    MaxEdits,   \* bound on changes users make
    MaxFaults   \* bound on lost events, failed writes and restarts

ASSUME EventHandlersAssumption == Installed \subseteq Specs /\ MaxEdits \in Nat /\ MaxFaults \in Nat

\* The versions a Pacto may have, and the versions of objects a pass may read.
Versions == [gen : Nat, spec : Specs]
Readings == UNION {[os -> Nat] : os \in SUBSET Objects}

\* A Pacto is not an object of another kind, and Nil is neither a pass nor what
\* a status was derived from.
ASSUME NamesAssumption ==
    /\ Pactos \cap Objects = {}
    /\ Nil \notin [pacto : Pactos, of : Versions, got : Readings, todo : SUBSET Objects]
    /\ Nil \notin [of : Versions, got : Readings]

VARIABLES
    pacto,     \* per Pacto: its generation and its spec, or Nil
    listed,    \* the informer's copies of them
    ver, seen, \* the version of each object, and the informer's
    handlers,  \* Pactos and objects stored by an informer, handler not yet run
    queue,     \* the work queue
    timers,    \* the Pactos with a periodic requeue pending
    worker,    \* the pass in progress: pacto, of, got, todo; or Nil
    result,    \* per Pacto: what its stored status was derived from, or Nil
    lost,      \* an event was lost in this process
    edits, faults

users == <<pacto, ver, edits>>
vars  == <<pacto, listed, ver, seen, handlers, queue, timers, worker, result, lost, edits, faults>>

\* ----- what a pass reads ------------------------------------------------

\* The name half of Pacto.ResolvedWorkload.
ResolvedWorkload(spec) == IF spec.workload # Nil THEN spec.workload ELSE spec.service

\* The Secret first, then, unless the Pacto is reference-only, the target.
reads(spec) ==
    {<<"Secret", spec.secret>>, <<"Service", spec.service>>, <<"Workload", ResolvedWorkload(spec)>>}
    \cap Objects

\* ----- the handlers -----------------------------------------------------

\* Workloads without a Service are forgotten.
mapByServiceName(name) == {p \in Pactos : listed[p] # Nil /\ listed[p].spec.service = name}

\* The Pactos, as listed now, whose target has the name of the object: the kind
\* is not looked at.
mapObjectToPactos(name) ==
    {p \in Pactos : listed[p] # Nil /\ name \in {listed[p].spec.service,
                                                 ResolvedWorkload(listed[p].spec)}}

mapSecretToPactos(name) == {p \in Pactos : listed[p] # Nil /\ listed[p].spec.secret = name}

\* The handlers of SetupWithManager, by what was stored.
requests(x) == IF x \in Pactos THEN {x}
               ELSE IF x[1] = "Secret" THEN mapSecretToPactos(x[2]) ELSE mapObjectToPactos(x[2])

\* A handler runs.
Handle(x) ==
    /\ x \in handlers /\ handlers' = handlers \ {x}
    /\ queue' = queue \cup requests(x)
    /\ UNCHANGED <<users, listed, seen, timers, worker, result, lost, faults>>

\* The List of a map function fails, and the event is dropped.
HandlerFails(x) ==
    /\ x \in handlers \ Pactos /\ handlers' = handlers \ {x}
    /\ faults < MaxFaults /\ faults' = faults + 1
    /\ lost' = TRUE
    /\ UNCHANGED <<users, listed, seen, queue, timers, worker, result>>

\* An informer stores what the watch delivers, and tells its handlers.
DeliverPacto(p) ==
    /\ listed[p] # pacto[p] /\ listed' = [listed EXCEPT ![p] = pacto[p]]
    /\ handlers' = handlers \cup {p}
    /\ UNCHANGED <<users, seen, queue, timers, worker, result, lost, faults>>

DeliverObject(o) ==
    /\ seen[o] # ver[o] /\ seen' = [seen EXCEPT ![o] = ver[o]]
    /\ handlers' = handlers \cup {o}
    /\ UNCHANGED <<users, listed, queue, timers, worker, result, lost, faults>>

\* ----- the worker -------------------------------------------------------

\* The worker takes a key and reads the Pacto, which may be gone.
Fetch(p) ==
    /\ worker = Nil /\ p \in queue /\ queue' = queue \ {p}
    /\ worker' = IF listed[p] = Nil THEN Nil
                 ELSE [pacto |-> p, of |-> listed[p], got |-> [o \in {} |-> 0],
                       todo |-> reads(listed[p].spec)]
    /\ UNCHANGED <<users, listed, seen, handlers, timers, result, lost, faults>>

\* It reads the objects one after the other.
Read(o) ==
    /\ worker # Nil /\ o \in worker.todo
    /\ \A x \in worker.todo : x[1] = "Secret" => o = x
    /\ worker' = [worker EXCEPT !.todo = @ \ {o},
                                !.got = [x \in DOMAIN @ \cup {o} |->
                                            IF x = o THEN seen[o] ELSE worker.got[x]]]
    /\ UNCHANGED <<users, listed, seen, handlers, queue, timers, result, lost, faults>>

\* No RequeueAfter.
requeuesNever == {}

\* A pass that ends well asks for the next one.
requeues == {worker.pacto}

\* The status is stored.  The time stamp in it has a resolution of seconds: it
\* may or may not make a new version, whose event enqueues the key again.
Write ==
    /\ worker # Nil /\ worker.todo = {} /\ pacto[worker.pacto] = worker.of
    /\ result' = [result EXCEPT ![worker.pacto] = [of |-> worker.of, got |-> worker.got]]
    /\ timers' = timers \cup requeues
    /\ queue' \in {queue, queue \cup {worker.pacto}}
    /\ worker' = Nil
    /\ UNCHANGED <<users, listed, seen, handlers, lost, faults>>

\* A conflict, an object that is gone, or another error: the key goes back into
\* the queue, with a delay that grows.
WriteFails ==
    /\ worker # Nil /\ worker.todo = {}
    /\ \/ pacto[worker.pacto] # worker.of /\ UNCHANGED faults
       \/ faults < MaxFaults /\ faults' = faults + 1
    /\ queue' = queue \cup {worker.pacto}
    /\ worker' = Nil
    /\ UNCHANGED <<users, listed, seen, handlers, timers, result, lost>>

TimerFires(p) ==
    /\ p \in timers /\ timers' = timers \ {p} /\ queue' = queue \cup {p}
    /\ UNCHANGED <<users, listed, seen, handlers, worker, result, lost, faults>>

\* The next process lists everything, and every Pacto is enqueued.
Restart ==
    /\ faults < MaxFaults /\ faults' = faults + 1
    /\ listed' = pacto /\ seen' = ver /\ handlers' = {}
    /\ queue' = {p \in Pactos : pacto[p] # Nil} /\ timers' = {} /\ worker' = Nil /\ lost' = FALSE
    /\ UNCHANGED <<users, result>>

\* ----- users ------------------------------------------------------------

Edit == edits < MaxEdits /\ edits' = edits + 1

\* A Pacto is created, edited or deleted.
ChangePacto(p) ==
    /\ Edit
    /\ IF pacto[p] = Nil
       THEN \E s \in Specs : pacto' = [pacto EXCEPT ![p] = [gen |-> edits + 1, spec |-> s]]
       ELSE \E s \in Specs \cup {Nil} :
              pacto' = [pacto EXCEPT ![p] = IF s = Nil THEN Nil ELSE [gen |-> edits + 1, spec |-> s]]
    /\ result' = IF pacto'[p] = Nil THEN [result EXCEPT ![p] = Nil] ELSE result
    /\ UNCHANGED <<ver, listed, seen, handlers, queue, timers, worker, lost, faults>>

ChangeObject(o) ==
    /\ Edit
    /\ ver' = [ver EXCEPT ![o] = @ + 1]
    /\ UNCHANGED <<pacto, listed, seen, handlers, queue, timers, worker, result, lost, faults>>

\* ----- specification ----------------------------------------------------

\* The operator has just started.
Init ==
    /\ pacto \in [Pactos -> [gen : {0}, spec : Installed]] /\ listed = pacto
    /\ ver = [o \in Objects |-> 0] /\ seen = ver
    /\ handlers = {} /\ queue = {p \in Pactos : pacto[p] # Nil} /\ timers = {}
    /\ worker = Nil /\ result = [p \in Pactos |-> Nil] /\ lost = FALSE
    /\ edits = 0 /\ faults = 0

WorkerStep == Write \/ WriteFails \/ \E o \in Objects : Read(o)

Next ==
    \/ WorkerStep \/ Restart
    \/ \E p \in Pactos : \/ Fetch(p) \/ DeliverPacto(p) \/ TimerFires(p) \/ ChangePacto(p)
    \/ \E o \in Objects : DeliverObject(o) \/ ChangeObject(o) \/ HandlerFails(o)
    \/ \E x \in Pactos \cup Objects : Handle(x)

Spec == Init /\ [][Next]_vars

\* Informers, handlers, timers and worker keep going, and the queue is fair: no
\* key in it is passed over for ever.
FairSpec ==
    /\ Spec
    /\ WF_vars(WorkerStep)
    /\ \A p \in Pactos : SF_vars(Fetch(p)) /\ WF_vars(DeliverPacto(p)) /\ WF_vars(TimerFires(p))
    /\ \A o \in Objects : WF_vars(DeliverObject(o))
    /\ \A x \in Pactos \cup Objects : WF_vars(Handle(x))

\* ----- properties -------------------------------------------------------

\* The stored status is of the present spec and of the present objects.
Fresh(p) ==
    pacto[p] # Nil =>
        /\ result[p] # Nil /\ result[p].of = pacto[p]
        /\ \A o \in reads(pacto[p].spec) : result[p].got[o] = ver[o]

\* Nothing is under way but the periodic requeues.
Quiet == /\ listed = pacto /\ seen = ver /\ handlers = {} /\ queue = {} /\ worker = Nil

\* Events suffice: when watches, handlers and queue are at rest, each Pacto's
\* status is of the current spec, Service, workload and Secret, without waiting
\* for a periodic requeue, although the map functions work on a list of Pactos
\* that may be older or newer than the object's event.  Only a lost event is an
\* excuse.
EventsSuffice == Quiet /\ ~lost => \A p \in Pactos : Fresh(p)

\* And if an event is lost, the periodic requeue makes up for it.
EventuallyFresh == <>[](\A p \in Pactos : Fresh(p))
=============================================================================
