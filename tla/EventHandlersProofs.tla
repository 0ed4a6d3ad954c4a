------------------------ MODULE EventHandlersProofs -------------------------
(***************************************************************************)
(* Theorems about EventHandlers, for every set of Pactos, objects and      *)
(* specs and every number of edits and faults.                             *)
(***************************************************************************)
EXTENDS EventHandlers, TLAPS

\* ----- the inductive invariant ------------------------------------------

Pass   == [pacto : Pactos, of : Versions, got : Readings, todo : SUBSET Objects]
Origin == [of : Versions, got : Readings]

\* The objects of the Pacto in work are read or still to be read.
TypeInv ==
    /\ edits \in Nat
    /\ pacto \in [Pactos -> Versions \cup {Nil}] /\ listed \in [Pactos -> Versions \cup {Nil}]
    /\ ver \in [Objects -> Nat] /\ seen \in [Objects -> Nat]
    /\ worker \in Pass \cup {Nil}
    /\ worker # Nil => reads(worker.of.spec) = DOMAIN worker.got \cup worker.todo
    /\ result \in [Pactos -> Origin \cup {Nil}]
    /\ \A p \in Pactos : result[p] # Nil => reads(result[p].of.spec) = DOMAIN result[p].got

\* A generation is never used twice.
GensInv ==
    \A p \in Pactos : /\ pacto[p] # Nil => pacto[p].gen <= edits
                      /\ listed[p] # Nil => listed[p].gen <= edits

\* The Pacto will be taken up again.
Pending(p) == listed[p] # pacto[p] \/ p \in handlers \/ p \in queue

InWork(p) == worker # Nil /\ worker.pacto = p

\* A spec without status is on its way to one.
SpecInv ==
    \A p \in Pactos :
        pacto[p] # Nil =>
            Pending(p) \/ InWork(p) \/ (result[p] # Nil /\ result[p].of = pacto[p])

\* A reading that is older than the informer's copy will be repeated: the
\* object's handler has still to run, or has enqueued the Pacto.
WorkerInv ==
    ~lost /\ worker # Nil =>
        LET p == worker.pacto
        IN  pacto[p] # Nil /\ worker.of = pacto[p] =>
                \A o \in DOMAIN worker.got :
                    worker.got[o] # seen[o] => Pending(p) \/ o \in handlers

ResultInv ==
    ~lost =>
        \A p \in Pactos :
            pacto[p] # Nil /\ result[p] # Nil /\ result[p].of = pacto[p] =>
                \A o \in DOMAIN result[p].got :
                    result[p].got[o] # seen[o] => Pending(p) \/ InWork(p) \/ o \in handlers

IInv == TypeInv /\ GensInv /\ SpecInv /\ WorkerInv /\ ResultInv

\* ----- types ------------------------------------------------------------

\* Nil is neither a pass nor an origin.
LEMMA NilIsNoRecord == Nil \notin Pass /\ Nil \notin Origin
  BY NamesAssumption DEF Pass, Origin

\* The initial state is well typed.
LEMMA TypeInit == Init => TypeInv
  BY EventHandlersAssumption DEF Init, TypeInv, Versions

\* A reading added to others.
With(got, o, v) == [x \in DOMAIN got \cup {o} |-> IF x = o THEN v ELSE got[x]]

\* A reading with one object more is a reading.
LEMMA ReadingAdded ==
    ASSUME NEW got \in Readings, NEW o \in Objects, NEW v \in Nat
    PROVE  With(got, o, v) \in Readings
  <1>1. PICK os \in SUBSET Objects : got \in [os -> Nat]
    BY DEF Readings
  <1>2. With(got, o, v) \in [os \cup {o} -> Nat] /\ os \cup {o} \in SUBSET Objects
    BY <1>1 DEF With
  <1> QED
    BY <1>2 DEF Readings

\* A pass that has read nothing yet.
LEMMA NothingRead == [o \in {} |-> 0] \in Readings
  <1>1. [o \in {} |-> 0] \in [{} -> Nat] /\ {} \in SUBSET Objects
    OBVIOUS
  <1> QED
    BY <1>1 DEF Readings

\* The pass after a read, and at its beginning.
LEMMA ReadPass ==
    ASSUME TypeInv, NEW o \in Objects, Read(o)
    PROVE  /\ worker' \in Pass /\ worker'.pacto = worker.pacto /\ worker'.of = worker.of
           /\ worker'.got = With(worker.got, o, seen[o]) /\ worker'.todo = worker.todo \ {o}
  <1> DEFINE got == With(worker.got, o, seen[o])
  <1>1. worker \in Pass /\ worker.got \in Readings /\ seen[o] \in Nat
    BY DEF TypeInv, Read, Pass
  <1>2. got \in Readings
    BY <1>1, ReadingAdded
  <1>3. worker' = [worker EXCEPT !.todo = @ \ {o}, !.got = got]
    BY <1>1 DEF Read, With
  <1> HIDE DEF got
  <1>4. /\ worker' \in Pass /\ worker'.pacto = worker.pacto /\ worker'.of = worker.of
        /\ worker'.got = got /\ worker'.todo = worker.todo \ {o}
    BY <1>1, <1>2, <1>3 DEF Pass
  <1> QED
    BY <1>4 DEF got

\* What Fetch puts into the worker.
LEMMA FetchPass ==
    ASSUME TypeInv, NEW p \in Pactos, Fetch(p), listed[p] # Nil
    PROVE  /\ worker' \in Pass /\ worker'.pacto = p /\ worker'.of = listed[p]
           /\ DOMAIN worker'.got = {} /\ worker'.todo = reads(listed[p].spec)
  <1> DEFINE none == [o \in {} |-> 0]
  <1>1. listed[p] \in Versions /\ reads(listed[p].spec) \in SUBSET Objects
    BY DEF reads, TypeInv
  <1>2. none \in Readings /\ DOMAIN none = {}
    BY NothingRead
  <1>3. worker' = [pacto |-> p, of |-> listed[p], got |-> none, todo |-> reads(listed[p].spec)]
    BY DEF Fetch
  <1> HIDE DEF none
  <1> QED
    BY <1>1, <1>2, <1>3 DEF Pass

\* Every step keeps the types.
LEMMA TypeStep == TypeInv /\ [Next]_vars => TypeInv'
  <1> SUFFICES ASSUME TypeInv, [Next]_vars
               PROVE  TypeInv'
    OBVIOUS
  <1> USE DEF TypeInv
  <1>1. CASE Write
    <2> DEFINE p == worker.pacto
               new == [of |-> worker.of, got |-> worker.got]
    <2>1. worker \in Pass
      BY <1>1 DEF Write
    <2>2. p \in Pactos /\ new \in Origin
      BY <2>1 DEF Pass, Origin
    <2>3. reads(new.of.spec) = DOMAIN new.got
      BY <1>1, <2>1 DEF Write
    <2>4. result' = [result EXCEPT ![p] = new]
      BY <1>1 DEF Write
    <2> HIDE DEF new, p
    <2>5. result' \in [Pactos -> Origin \cup {Nil}]
      BY <2>2, <2>4
    <2>6. ASSUME NEW q \in Pactos, result'[q] # Nil
          PROVE  reads(result'[q].of.spec) = DOMAIN result'[q].got
      <3>1. CASE q = p
        BY <2>2, <2>3, <2>4, <3>1
      <3>2. CASE q # p
        BY <2>2, <2>4, <2>6, <3>2
      <3> QED
        BY <3>1, <3>2
    <2> QED
      BY <1>1, <2>5, <2>6 DEF Write, users
  <1>2. CASE WriteFails
    BY <1>2 DEF WriteFails, users
  <1>3. ASSUME NEW o \in Objects, Read(o)
        PROVE  TypeInv'
    <2>1. DOMAIN With(worker.got, o, seen[o]) = DOMAIN worker.got \cup {o}
      BY DEF With
    <2>2. reads(worker.of.spec) = DOMAIN worker.got \cup worker.todo /\ o \in worker.todo
      BY <1>3 DEF Read
    <2>3. reads(worker'.of.spec) = DOMAIN worker'.got \cup worker'.todo
      BY <1>3, <2>1, <2>2, ReadPass
    <2> QED
      BY <1>3, <2>3, ReadPass DEF Read, users
  <1>4. CASE Restart
    BY <1>4 DEF Restart, users
  <1>5. ASSUME NEW p \in Pactos, Fetch(p)
        PROVE  TypeInv'
    <2>1. CASE listed[p] = Nil
      BY <1>5, <2>1 DEF Fetch, users
    <2>2. CASE listed[p] # Nil
      BY <1>5, <2>2, FetchPass DEF Fetch, users
    <2> QED
      BY <2>1, <2>2
  <1>6. ASSUME NEW p \in Pactos, DeliverPacto(p)
        PROVE  TypeInv'
    BY <1>6 DEF DeliverPacto, users
  <1>7. ASSUME NEW p \in Pactos, TimerFires(p)
        PROVE  TypeInv'
    BY <1>7 DEF TimerFires, users
  <1>8. ASSUME NEW p \in Pactos, ChangePacto(p)
        PROVE  TypeInv'
    <2>1. edits' \in Nat /\ UNCHANGED <<listed, ver, seen, worker>>
      BY <1>8 DEF ChangePacto, Edit
    <2>2. pacto' \in [Pactos -> Versions \cup {Nil}]
      <3>1. ASSUME NEW s \in Specs
            PROVE  [gen |-> edits + 1, spec |-> s] \in Versions
        BY DEF Versions
      <3> QED
        BY <1>8, <3>1 DEF ChangePacto
    <2>3. result' = [result EXCEPT ![p] = Nil] \/ result' = result
      BY <1>8 DEF ChangePacto
    <2>4. result' \in [Pactos -> Origin \cup {Nil}]
      BY <2>3
    <2>5. ASSUME NEW q \in Pactos, result'[q] # Nil
          PROVE  result'[q] = result[q]
      BY <2>3, <2>5
    <2> QED
      BY <2>1, <2>2, <2>4, <2>5
  <1>9. ASSUME NEW o \in Objects, DeliverObject(o)
        PROVE  TypeInv'
    BY <1>9 DEF DeliverObject, users
  <1>10. ASSUME NEW o \in Objects, ChangeObject(o)
         PROVE  TypeInv'
    BY <1>10 DEF ChangeObject, Edit
  <1>11. ASSUME NEW o \in Objects, HandlerFails(o)
         PROVE  TypeInv'
    BY <1>11 DEF HandlerFails, users
  <1>12. ASSUME NEW x \in Pactos \cup Objects, Handle(x)
         PROVE  TypeInv'
    BY <1>12 DEF Handle, users
  <1>13. CASE UNCHANGED vars
    BY <1>13 DEF vars
  <1> QED
    BY <1>1, <1>2, <1>3, <1>4, <1>5, <1>6, <1>7, <1>8, <1>9, <1>10, <1>11, <1>12, <1>13
       DEF Next, WorkerStep

\* ----- generations and specs --------------------------------------------

\* Every step keeps generations within the number of edits.
LEMMA GensStep == TypeInv /\ GensInv /\ [Next]_vars => GensInv'
  <1> SUFFICES ASSUME TypeInv, GensInv, [Next]_vars
               PROVE  GensInv'
    OBVIOUS
  <1> USE DEF GensInv
  <1>1. ASSUME NEW p \in Pactos, ChangePacto(p)
        PROVE  GensInv'
    <2>1. edits' = edits + 1 /\ UNCHANGED listed
      BY <1>1 DEF ChangePacto, Edit
    <2>2. ASSUME NEW q \in Pactos, pacto'[q] # Nil
          PROVE  pacto'[q].gen <= edits'
      <3>1. CASE q = p
        <4>1. PICK s : pacto'[p] = [gen |-> edits + 1, spec |-> s]
          BY <1>1, <2>2, <3>1 DEF ChangePacto, TypeInv
        <4> QED
          BY <2>1, <3>1, <4>1 DEF TypeInv
      <3>2. CASE q # p
        BY <1>1, <2>1, <2>2, <3>2 DEF ChangePacto, TypeInv, Versions
      <3> QED
        BY <3>1, <3>2
    <2>3. ASSUME NEW q \in Pactos, listed'[q] # Nil
          PROVE  listed'[q].gen <= edits'
      BY <2>1, <2>3 DEF TypeInv, Versions
    <2> QED
      BY <2>2, <2>3
  <1>2. ASSUME NEW o \in Objects, ChangeObject(o)
        PROVE  GensInv'
    <2>1. edits' = edits + 1 /\ UNCHANGED <<pacto, listed>>
      BY <1>2 DEF ChangeObject, Edit
    <2> QED
      BY <2>1 DEF TypeInv, Versions
  <1>3. ASSUME NEW p \in Pactos, DeliverPacto(p)
        PROVE  GensInv'
    BY <1>3 DEF DeliverPacto, users, TypeInv
  <1>4. CASE Restart
    BY <1>4 DEF Restart, users
  <1>5. CASE UNCHANGED <<pacto, listed, edits>>
    BY <1>5
  <1> QED
    BY <1>1, <1>2, <1>3, <1>4, <1>5 DEF Next, WorkerStep, Write, WriteFails, Read, Fetch,
       TimerFires, DeliverObject, HandlerFails, Handle, users, vars

\* The informer cannot know a version that was made just now.
LEMMA EditIsNews ==
    ASSUME TypeInv, GensInv, NEW p \in Pactos, ChangePacto(p), pacto'[p] # Nil
    PROVE  listed'[p] # pacto'[p]
  <1>1. PICK s : pacto'[p] = [gen |-> edits + 1, spec |-> s]
    BY DEF ChangePacto, TypeInv
  <1>2. pacto'[p].gen = edits + 1 /\ UNCHANGED listed
    BY <1>1 DEF ChangePacto
  <1>3. CASE listed[p] = Nil
    BY <1>2, <1>3
  <1>4. CASE listed[p] # Nil
    <2>1. listed[p].gen <= edits /\ listed[p].gen \in Nat /\ edits \in Nat
      BY <1>4 DEF GensInv, TypeInv, Versions
    <2> QED
      BY <1>2, <2>1
  <1> QED
    BY <1>3, <1>4

\* What is pending stays pending until the worker takes it.
LEMMA PendingKept ==
    ASSUME NEW p, Pending(p), UNCHANGED <<pacto, listed>>,
           p \in handlers => p \in handlers' \cup queue', p \in queue => p \in queue'
    PROVE  Pending(p)'
  BY DEF Pending

\* Initially every Pacto is due.
LEMMA SpecInit == Init => SpecInv
  BY DEF Init, SpecInv, Pending

\* A Pacto whose spec no result covers stays due, in every step.
LEMMA SpecStep == TypeInv /\ GensInv /\ SpecInv /\ [Next]_vars => SpecInv'
  <1> SUFFICES ASSUME TypeInv, GensInv, SpecInv, [Next]_vars,
                      NEW p \in Pactos, pacto'[p] # Nil
               PROVE  Pending(p)' \/ InWork(p)' \/ (result'[p] # Nil /\ result'[p].of = pacto'[p])
    BY DEF SpecInv
  <1> DEFINE Due == Pending(p) \/ InWork(p) \/ (result[p] # Nil /\ result[p].of = pacto[p])
  <1>0. pacto[p] # Nil => Due
    BY DEF SpecInv
  <1>1. CASE Write
    <2>1. worker \in Pass
      BY <1>1 DEF Write, TypeInv
    <2>2. CASE worker.pacto = p
      <3>1. result'[p] = [of |-> worker.of, got |-> worker.got] /\ pacto' = pacto
        BY <1>1, <2>2 DEF Write, users, TypeInv
      <3>2. result'[p] \in Origin
        BY <2>1, <3>1 DEF Pass, Origin
      <3> QED
        BY <1>1, <2>2, <3>1, <3>2, NilIsNoRecord DEF Write
    <2>3. CASE worker.pacto # p
      <3>1. result'[p] = result[p] /\ ~InWork(p)
        BY <1>1, <2>3 DEF Write, TypeInv, InWork
      <3>2. Pending(p) => Pending(p)'
        BY <1>1, PendingKept DEF Write, users
      <3> QED
        BY <1>0, <1>1, <3>1, <3>2 DEF Write, users
    <2> QED
      BY <2>2, <2>3
  <1>2. CASE WriteFails
    BY <1>0, <1>2 DEF WriteFails, users, Pending, InWork
  <1>3. ASSUME NEW o \in Objects, Read(o)
        PROVE  Due'
    BY <1>0, <1>3, ReadPass, NilIsNoRecord DEF Read, users, Pending, InWork
  <1>4. CASE Restart
    BY <1>4 DEF Restart, users, Pending
  <1>5. ASSUME NEW q \in Pactos, Fetch(q)
        PROVE  Due'
    <2>1. CASE q = p /\ listed[p] # Nil
      BY <1>5, <2>1, FetchPass, NilIsNoRecord DEF InWork
    <2>2. CASE q = p /\ listed[p] = Nil
      BY <1>5, <2>2 DEF Fetch, users, Pending
    <2>3. CASE q # p
      BY <1>0, <1>5, <2>3 DEF Fetch, users, Pending, InWork
    <2> QED
      BY <2>1, <2>2, <2>3
  <1>6. ASSUME NEW q \in Pactos, DeliverPacto(q)
        PROVE  Due'
    BY <1>0, <1>6 DEF DeliverPacto, users, Pending, InWork, TypeInv
  <1>7. ASSUME NEW q \in Pactos, TimerFires(q)
        PROVE  Due'
    BY <1>0, <1>7 DEF TimerFires, users, Pending, InWork
  <1>8. ASSUME NEW q \in Pactos, ChangePacto(q)
        PROVE  Due'
    <2>1. CASE q = p
      BY <1>8, <2>1, EditIsNews DEF Pending
    <2>2. CASE q # p
      <3>1. pacto'[p] = pacto[p] /\ result'[p] = result[p]
        BY <1>8, <2>2 DEF ChangePacto, TypeInv
      <3> QED
        BY <1>0, <1>8, <3>1 DEF ChangePacto, Pending, InWork
    <2> QED
      BY <2>1, <2>2
  <1>9. ASSUME NEW o \in Objects, DeliverObject(o)
        PROVE  Due'
    BY <1>0, <1>9 DEF DeliverObject, users, Pending, InWork
  <1>10. ASSUME NEW o \in Objects, ChangeObject(o)
         PROVE  Due'
    BY <1>0, <1>10 DEF ChangeObject, Pending, InWork
  <1>11. ASSUME NEW o \in Objects, HandlerFails(o)
         PROVE  Due'
    BY <1>0, <1>11 DEF HandlerFails, users, Pending, InWork
  <1>12. ASSUME NEW x \in Pactos \cup Objects, Handle(x)
         PROVE  Due'
    BY <1>0, <1>12 DEF Handle, requests, users, Pending, InWork
  <1>13. CASE UNCHANGED vars
    BY <1>0, <1>13 DEF vars, Pending, InWork
  <1> QED
    BY <1>1, <1>2, <1>3, <1>4, <1>5, <1>6, <1>7, <1>8, <1>9, <1>10, <1>11, <1>12, <1>13
       DEF Next, WorkerStep

\* ----- readings ---------------------------------------------------------

\* The handler of an object enqueues every Pacto that, as listed, reads it.
LEMMA HandlerFindsReaders ==
    ASSUME NEW p \in Pactos, listed[p] # Nil, NEW o \in reads(listed[p].spec)
    PROVE  p \in requests(o)
  <1> DEFINE s == listed[p].spec
  <1>1. o \in Objects /\ o \notin Pactos
    BY NamesAssumption DEF reads
  <1>2. \/ o = <<"Secret", s.secret>>
        \/ o = <<"Service", s.service>>
        \/ o = <<"Workload", ResolvedWorkload(s)>>
    BY DEF reads
  <1>3. CASE o = <<"Secret", s.secret>>
    <2>1. o[1] = "Secret" /\ o[2] = s.secret
      BY <1>3
    <2> QED
      BY <1>1, <2>1 DEF requests, mapSecretToPactos
  <1>4. CASE \/ o = <<"Service", s.service>>
             \/ o = <<"Workload", ResolvedWorkload(s)>>
    <2>1. o[1] # "Secret" /\ o[2] \in {s.service, ResolvedWorkload(s)}
      BY <1>4
    <2> QED
      BY <1>1, <2>1 DEF requests, mapObjectToPactos
  <1> QED
    BY <1>2, <1>3, <1>4

\* A stale reading is on its way to being repeated.
Covered(p, o) == Pending(p) \/ o \in handlers

\* The steps that leave alone the reading v of o for the current spec of p, and
\* what is pending.
LEMMA CoverKept ==
    ASSUME TypeInv, GensInv, [Next]_vars, ~lost', NEW p \in Pactos, pacto'[p] # Nil,
           NEW o \in reads(pacto[p].spec), NEW v,
           pacto[p] # Nil, v # seen[o] => Covered(p, o), v # seen'[o],
           ~\E q \in Pactos : Fetch(q), ~Restart
    PROVE  Covered(p, o)'
  <1> USE DEF Covered
  <1>0. o \in Objects /\ o \notin Pactos /\ o # p
    BY NamesAssumption DEF reads
  <1>1. CASE Write
    BY <1>1 DEF Write, users, Pending
  <1>2. CASE WriteFails
    BY <1>2 DEF WriteFails, users, Pending
  <1>3. ASSUME NEW x \in Objects, Read(x)
        PROVE  Covered(p, o)'
    BY <1>3 DEF Read, users, Pending
  <1>6. ASSUME NEW q \in Pactos, DeliverPacto(q)
        PROVE  Covered(p, o)'
    BY <1>6 DEF DeliverPacto, users, Pending, TypeInv
  <1>7. ASSUME NEW q \in Pactos, TimerFires(q)
        PROVE  Covered(p, o)'
    BY <1>7 DEF TimerFires, users, Pending
  <1>8. ASSUME NEW q \in Pactos, ChangePacto(q)
        PROVE  Covered(p, o)'
    <2>1. CASE q = p
      BY <1>8, <2>1, EditIsNews DEF Pending
    <2>2. CASE q # p
      BY <1>8, <2>2 DEF ChangePacto, Pending, TypeInv
    <2> QED
      BY <2>1, <2>2
  <1>9. ASSUME NEW x \in Objects, DeliverObject(x)
        PROVE  Covered(p, o)'
    BY <1>0, <1>9 DEF DeliverObject, users, Pending, TypeInv
  <1>10. ASSUME NEW x \in Objects, ChangeObject(x)
         PROVE  Covered(p, o)'
    BY <1>10 DEF ChangeObject, Pending
  <1>11. ASSUME NEW x \in Objects, HandlerFails(x)
         PROVE  FALSE
    BY <1>11 DEF HandlerFails
  <1>12. ASSUME NEW x \in Pactos \cup Objects, Handle(x)
         PROVE  Covered(p, o)'
    <2>1. handlers' = handlers \ {x} /\ queue' = queue \cup requests(x)
          /\ UNCHANGED <<pacto, listed, seen>>
      BY <1>12 DEF Handle, users
    <2>2. CASE x = p
      BY <2>1, <2>2 DEF requests, Pending
    <2>3. CASE x = o
      <3>1. CASE listed[p] # pacto[p]
        BY <2>1, <3>1 DEF Pending
      <3>2. CASE listed[p] = pacto[p]
        BY <2>1, <2>3, <3>2, HandlerFindsReaders DEF Pending
      <3> QED
        BY <3>1, <3>2
    <2>4. CASE x # p /\ x # o
      BY <2>1, <2>4 DEF Pending
    <2> QED
      BY <2>2, <2>3, <2>4
  <1>13. CASE UNCHANGED vars
    BY <1>13 DEF vars, Pending
  <1> QED
    BY <1>1, <1>2, <1>3, <1>6, <1>7, <1>8, <1>9, <1>10, <1>11, <1>12, <1>13
       DEF Next, WorkerStep

\* Initially nothing has been read.
LEMMA ReadingsInit == Init => WorkerInv /\ ResultInv
  BY DEF Init, WorkerInv, ResultInv

\* A spec that is not new was there before.
LEMMA SameOrNew ==
    ASSUME TypeInv, GensInv, [Next]_vars, NEW p \in Pactos, pacto'[p] # Nil
    PROVE  pacto'[p] = pacto[p] \/ Pending(p)'
  <1>1. ASSUME NEW q \in Pactos, ChangePacto(q)
        PROVE  pacto'[p] = pacto[p] \/ Pending(p)'
    <2>1. CASE q = p
      BY <1>1, <2>1, EditIsNews DEF Pending
    <2>2. CASE q # p
      BY <1>1, <2>2 DEF ChangePacto, TypeInv
    <2> QED
      BY <2>1, <2>2
  <1>2. CASE UNCHANGED pacto
    BY <1>2
  <1> QED
    BY <1>1, <1>2 DEF Next, WorkerStep, Write, WriteFails, Read, Fetch, DeliverPacto, Restart,
       TimerFires, DeliverObject, ChangeObject, HandlerFails, Handle, users, vars

\* Only a restart makes up for a lost event.
LEMMA LostStays ==
    ASSUME [Next]_vars, ~lost', ~Restart
    PROVE  ~lost
  BY DEF Next, WorkerStep, Write, WriteFails, Read, Fetch, DeliverPacto, ChangePacto,
     TimerFires, DeliverObject, ChangeObject, HandlerFails, Handle, users, vars

\* A stale reading of the pass in progress stays covered by a pending event.
LEMMA WorkerInvStep == TypeInv /\ GensInv /\ WorkerInv /\ [Next]_vars => WorkerInv'
  <1> SUFFICES ASSUME TypeInv, GensInv, WorkerInv, [Next]_vars, ~lost', worker' # Nil,
                      NEW p, p = worker'.pacto, pacto'[p] # Nil, worker'.of = pacto'[p],
                      NEW o \in DOMAIN worker'.got, worker'.got[o] # seen'[o]
               PROVE  Covered(p, o)'
    BY DEF WorkerInv, Covered
  <1>1. ~Restart
    BY DEF Restart
  <1>2. ~\E q \in Pactos : Fetch(q)
    <2>1. SUFFICES ASSUME NEW q \in Pactos, Fetch(q)
                   PROVE  FALSE
      OBVIOUS
    <2>2. listed[q] # Nil
      BY <2>1 DEF Fetch
    <2> QED
      BY <2>1, <2>2, FetchPass
  <1>3. ~lost
    BY <1>1, LostStays
  <1>4. CASE worker' = worker
    <2>1. worker \in Pass /\ p \in Pactos /\ o \in reads(worker.of.spec)
      BY <1>4 DEF TypeInv, Pass
    <2>2. CASE pacto'[p] = pacto[p]
      <3>1. worker.got[o] # seen[o] => Covered(p, o)
        BY <1>3, <1>4, <2>2 DEF WorkerInv, Covered
      <3> QED
        BY <1>1, <1>2, <1>4, <2>1, <2>2, <3>1, CoverKept
    <2>3. CASE Pending(p)'
      BY <1>4, <2>3 DEF Covered
    <2> QED
      BY <1>4, <2>1, <2>2, <2>3, SameOrNew
  <1>5. ASSUME NEW x \in Objects, Read(x)
        PROVE  Covered(p, o)'
    <2>1. UNCHANGED <<pacto, listed, seen, handlers, queue>>
      BY <1>5 DEF Read, users
    <2>2. o # x /\ o \in DOMAIN worker.got /\ worker'.got[o] = worker.got[o]
      BY <1>5, <2>1, ReadPass DEF With
    <2>3. worker # Nil /\ worker'.pacto = worker.pacto /\ worker'.of = worker.of
      BY <1>5, ReadPass DEF Read
    <2> QED
      BY <1>3, <2>1, <2>2, <2>3 DEF WorkerInv, Covered, Pending
  <1> QED
    BY <1>1, <1>2, <1>4, <1>5 DEF Next, WorkerStep, Write, WriteFails, DeliverPacto, ChangePacto,
       TimerFires, DeliverObject, ChangeObject, HandlerFails, Handle, users, vars

\* A stale reading behind a stored result stays covered, or its Pacto is in work.
LEMMA ResultInvStep ==
    TypeInv /\ GensInv /\ WorkerInv /\ ResultInv /\ [Next]_vars => ResultInv'
  <1> SUFFICES ASSUME TypeInv, GensInv, WorkerInv, ResultInv, [Next]_vars, ~lost',
                      NEW p \in Pactos, pacto'[p] # Nil, result'[p] # Nil,
                      result'[p].of = pacto'[p],
                      NEW o \in DOMAIN result'[p].got, result'[p].got[o] # seen'[o]
               PROVE  Covered(p, o)' \/ InWork(p)'
    BY DEF ResultInv, Covered
  <1>1. CASE Restart
    BY <1>1 DEF Restart, users, Covered, Pending
  <1>2. CASE ~Restart /\ pacto'[p] = pacto[p]
    <2>1. ~lost
      BY <1>2, LostStays
    <2>2. CASE Write /\ worker.pacto = p
      <3>1. result'[p] = [of |-> worker.of, got |-> worker.got]
        BY <2>2 DEF Write, TypeInv
      <3>2. worker # Nil /\ worker \in Pass /\ result'[p].of = worker.of
            /\ result'[p].got = worker.got
        BY <2>2, <3>1 DEF Write, TypeInv
      <3>3. UNCHANGED <<pacto, listed, seen, handlers>> /\ queue \subseteq queue'
        BY <2>2 DEF Write, users
      <3>4. Covered(p, o)
        BY <1>2, <2>1, <2>2, <3>2, <3>3 DEF WorkerInv, Covered
      <3> QED
        BY <3>3, <3>4 DEF Covered, Pending
    <2>3. CASE ~(Write /\ worker.pacto = p) /\ result'[p] = result[p]
      <3>1. o \in reads(pacto[p].spec)
        BY <1>2, <2>3 DEF TypeInv
      <3>2. result[p].got[o] # seen[o] => Covered(p, o) \/ InWork(p)
        BY <1>2, <2>1, <2>3 DEF ResultInv, Covered
      <3>3. ASSUME NEW q \in Pactos, Fetch(q)
            PROVE  Covered(p, o)' \/ InWork(p)'
        <4>1. UNCHANGED <<pacto, listed, seen, handlers>> /\ queue' = queue \ {q} /\ worker = Nil
          BY <3>3 DEF Fetch, users
        <4>2. CASE q = p /\ listed[p] # Nil
          BY <3>3, <4>2, FetchPass, NilIsNoRecord DEF InWork
        <4>3. CASE q = p /\ listed[p] = Nil
          BY <1>2, <4>1, <4>3 DEF Covered, Pending
        <4>4. CASE q # p
          BY <2>3, <3>2, <4>1, <4>4 DEF Covered, Pending, InWork
        <4> QED
          BY <4>2, <4>3, <4>4
      <3>4. CASE InWork(p) /\ ~\E q \in Pactos : Fetch(q)
        <4>1. CASE WriteFails
          BY <3>4, <4>1 DEF WriteFails, InWork, Covered, Pending
        <4>2. ASSUME NEW x \in Objects, Read(x)
              PROVE  InWork(p)'
          BY <3>4, <4>2, ReadPass, NilIsNoRecord DEF InWork
        <4>3. CASE UNCHANGED worker
          BY <3>4, <4>3 DEF InWork
        <4> QED
          BY <1>2, <2>3, <3>4, <4>1, <4>2, <4>3 DEF Next, WorkerStep, InWork, DeliverPacto,
             ChangePacto, TimerFires, DeliverObject, ChangeObject, HandlerFails, Handle, users, vars
      <3>5. CASE ~InWork(p) /\ ~\E q \in Pactos : Fetch(q)
        BY <1>2, <2>3, <3>1, <3>2, <3>5, CoverKept
      <3> QED
        BY <3>3, <3>4, <3>5
    <2>4. result'[p] = result[p] \/ (Write /\ worker.pacto = p)
      <3>1. CASE Write
        BY <3>1 DEF Write, TypeInv
      <3>2. ASSUME NEW q \in Pactos, ChangePacto(q)
            PROVE  result'[p] = result[p]
        BY <3>2 DEF ChangePacto, TypeInv
      <3>3. CASE UNCHANGED result
        BY <3>3
      <3> QED
        BY <3>1, <3>2, <3>3 DEF Next, WorkerStep, WriteFails, Read, Fetch, DeliverPacto, Restart,
           TimerFires, DeliverObject, ChangeObject, HandlerFails, Handle, users, vars
    <2> QED
      BY <2>2, <2>3, <2>4
  <1>3. CASE ~Restart /\ Pending(p)'
    BY <1>3 DEF Covered
  <1> QED
    BY <1>1, <1>2, <1>3, SameOrNew

\* ----- theorems ---------------------------------------------------------

\* The invariants together are inductive.
LEMMA Invariant == Spec => []IInv
  <1>1. Init => IInv
    <2>1. Init => GensInv
      <3> SUFFICES ASSUME Init, NEW p \in Pactos
                   PROVE  pacto[p].gen <= edits /\ listed[p].gen <= edits
        BY DEF GensInv
      <3> QED
        BY DEF Init
    <2> QED
      BY <2>1, TypeInit, SpecInit, ReadingsInit DEF IInv
  <1>2. IInv /\ [Next]_vars => IInv'
    BY TypeStep, GensStep, SpecStep, WorkerInvStep, ResultInvStep DEF IInv
  <1> QED
    BY <1>1, <1>2, PTL DEF Spec

\* When watches, handlers, queue and worker are at rest and no event was lost in
\* this process, every status is of the present spec and objects.  A spec that
\* is not reported and a reading that is older than the informer's copy each
\* leave a trace, an undelivered version, a handler to run or a key in the
\* queue, which no step removes without making it up; the map functions look at
\* the Pactos as listed, but a Pacto that is listed wrongly is pending itself.
THEOREM EventsAlwaysSuffice == Spec => []EventsSuffice
  <1>1. IInv => EventsSuffice
    <2> SUFFICES ASSUME IInv, Quiet, ~lost, NEW p \in Pactos, pacto[p] # Nil
                 PROVE  /\ result[p] # Nil /\ result[p].of = pacto[p]
                        /\ \A o \in reads(pacto[p].spec) : result[p].got[o] = ver[o]
      BY DEF EventsSuffice, Fresh
    <2>1. ~Pending(p) /\ ~InWork(p)
      BY DEF Quiet, Pending, InWork
    <2>2. result[p] # Nil /\ result[p].of = pacto[p]
      BY <2>1 DEF IInv, SpecInv
    <2>3. ASSUME NEW o \in reads(pacto[p].spec)
          PROVE  result[p].got[o] = ver[o]
      <3>1. o \in DOMAIN result[p].got
        BY <2>2 DEF IInv, TypeInv
      <3> QED
        BY <2>1, <2>2, <3>1 DEF IInv, ResultInv, Quiet
    <2> QED
      BY <2>2, <2>3
  <1> QED
    BY <1>1, Invariant, PTL
=============================================================================
