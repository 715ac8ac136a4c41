------------------------ MODULE FastSubscriber_proofs ------------------------
(***************************************************************************)
(* Proofs about the subscriber of the library, for any number of threads   *)
(* of the application, instances and samples: it keeps its types, it is a  *)
(* thread-safe queue, it hands samples out in order, and what passes a     *)
(* stop() is at most one sample.                                           *)
(***************************************************************************)
EXTENDS FastSubscriber, FiniteSetTheorems, TLAPS

\* The mutex: one thread at a time is inside read_next, stop or the push.
MutexInv == \A t \in Threads : pc[t] \in Inside <=> mutex = t

\* What a thread has in its hands between its steps.
HandsInv ==
    /\ \A t \in Threads : pc[t] = "pop" => queue # <<>> /\ local[t] = {Head(queue)}
    /\ pc[Listener] \in {"idle", "pushWait", "push"}
    /\ pc[Listener] = "idle" => local[Listener] = {}
    /\ pc[Listener] # "idle" => \E x \in Alive : local[Listener] = {x}

IInv == TypeOK /\ MutexInv /\ HandsInv

------------------------------------------------------------------------------

\* The constants of the threads.
LEMMA ThreadFacts ==
    /\ Listener \in Threads
    /\ Free \notin Threads
    /\ \A t \in App : t \in Threads /\ t # Listener
  BY ThreadsAssumption DEF Threads

\* The constructor establishes the invariant.
LEMMA InvInit == Init => IInv
<1> SUFFICES ASSUME Init PROVE IInv
  OBVIOUS
<1>1. TypeOK
  <2>1. 0 \in 0 .. MaxSent
    BY SentAssumption
  <2>2. cache \in [Keys -> SUBSET Sample] /\ local \in [Threads -> SUBSET Alive]
    BY DEF Init
  <2>3. pc \in [Threads -> {"idle"} \cup Waiting \cup Inside]
    BY DEF Init
  <2>4. queue \in Seq(Alive) /\ got \in Seq(Alive)
    BY DEF Init
  <2> QED  BY <2>1, <2>2, <2>3, <2>4 DEF Init, TypeOK
<1>2. MutexInv
  BY ThreadFacts DEF Init, MutexInv, Inside
<1>3. HandsInv
  BY ThreadFacts DEF Init, HandsInv
<1> QED  BY <1>1, <1>2, <1>3 DEF IInv

\* A sample or a disposal arrives at the reader.
LEMMA ArriveStep ==
    ASSUME IInv, NEW k \in Keys, NEW alive \in BOOLEAN, Arrive(k, alive)
    PROVE  IInv'
<1>1. sent \in 0 .. MaxSent /\ sent < MaxSent /\ sent' = sent + 1
  BY DEF Arrive, IInv, TypeOK
<1>2. [key |-> k, n |-> sent + 1, alive |-> alive] \in Sample
  BY <1>1, SentAssumption DEF Sample
<1>3. cache' \in [Keys -> SUBSET Sample]
  BY <1>2 DEF Arrive, IInv, TypeOK
<1>4. sent' \in 0 .. MaxSent
  BY <1>1, SentAssumption
<1>5. TypeOK'
  BY <1>3, <1>4 DEF Arrive, IInv, TypeOK, history
<1>6. MutexInv' /\ HandsInv'
  BY DEF Arrive, IInv, MutexInv, HandsInv
<1> QED  BY <1>5, <1>6 DEF IInv

\* A thread gets the mutex: nobody was inside.
LEMMA AcquireStep ==
    ASSUME IInv, NEW t \in Threads, Acquire(t)
    PROVE  IInv'
<1>1. /\ pc[t] \in Waiting /\ mutex = Free /\ mutex' = t
      /\ pc' = [pc EXCEPT ![t] = AfterLock[pc[t]]]
      /\ UNCHANGED <<sent, cache, queue, local, got, taken, before>> /\ started' = started
  BY DEF Acquire, reader, history
<1>2. /\ AfterLock[pc[t]] \in {"front", "clear", "push"}
      /\ AfterLock[pc[t]] = "push" <=> pc[t] = "pushWait"
  BY <1>1 DEF AfterLock, Waiting
<1>3. pc \in [Threads -> {"idle"} \cup Waiting \cup Inside]
  BY DEF IInv, TypeOK
<1>4. /\ pc' \in [Threads -> {"idle"} \cup Waiting \cup Inside]
      /\ pc'[t] = AfterLock[pc[t]]
      /\ \A u \in Threads \ {t} : pc'[u] = pc[u]
  BY <1>1, <1>2, <1>3 DEF Inside
<1>5. TypeOK'
  BY <1>1, <1>4 DEF IInv, TypeOK
<1>6. \A u \in Threads : pc[u] \notin Inside
  BY <1>1, ThreadFacts DEF IInv, MutexInv
<1>7. MutexInv'
  BY <1>1, <1>2, <1>4, <1>6 DEF MutexInv, Inside
<1>8. HandsInv'
  <2>1. \A u \in Threads : pc'[u] # "pop"
    BY <1>2, <1>4, <1>6 DEF Inside
  <2>2. /\ pc'[Listener] \in {"idle", "pushWait", "push"}
        /\ pc'[Listener] = "idle" <=> pc[Listener] = "idle"
    BY <1>1, <1>2, <1>4, ThreadFacts DEF IInv, HandsInv, Waiting, AfterLock
  <2> QED  BY <1>1, <2>1, <2>2 DEF IInv, HandsInv
<1> QED  BY <1>5, <1>7, <1>8 DEF IInv

\* A thread that leaves the mutex: nobody is inside afterwards.
LEMMA ReleaseStep ==
    ASSUME IInv, NEW t \in Threads, pc[t] \in Inside, Release(t)
    PROVE  /\ MutexInv'
           /\ pc' \in [Threads -> {"idle"} \cup Waiting \cup Inside]
           /\ mutex' \in Threads \cup {Free}
           /\ pc'[t] = "idle"
           /\ \A u \in Threads \ {t} : pc'[u] = pc[u]
           /\ \A u \in Threads : pc'[u] # "pop"
<1>1. pc' = [pc EXCEPT ![t] = "idle"] /\ mutex' = Free
  BY DEF Release
<1>2. /\ pc' \in [Threads -> {"idle"} \cup Waiting \cup Inside]
      /\ pc'[t] = "idle" /\ \A u \in Threads \ {t} : pc'[u] = pc[u]
  BY <1>1 DEF IInv, TypeOK
<1>3. \A u \in Threads \ {t} : pc[u] \notin Inside
  BY DEF IInv, MutexInv
<1>4. \A u \in Threads : pc'[u] \notin Inside
  BY <1>2, <1>3 DEF Inside
<1>5. MutexInv'
  BY <1>1, <1>4, ThreadFacts DEF MutexInv
<1> QED  BY <1>1, <1>2, <1>4, <1>5 DEF Inside

\* The application calls stop or read_next, or start.
LEMMA CallStep ==
    ASSUME IInv, NEW t \in App, Start(t) \/ CallStop(t) \/ CallRead(t)
    PROVE  IInv'
<1>1. t \in Threads /\ t # Listener
  BY ThreadFacts
<1>2. /\ UNCHANGED <<sent, cache, mutex, queue, local, got, taken, before>>
      /\ started' \in BOOLEAN
  BY DEF Start, CallStop, CallRead, reader, history, IInv, TypeOK
<1>3. PICK w \in {"idle", "stopWait", "readWait"} : pc[t] = "idle" /\ pc' = [pc EXCEPT ![t] = w]
  <2>1. CASE Start(t)
    BY <1>1, <2>1 DEF Start, IInv, TypeOK
  <2>2. CASE CallStop(t) \/ CallRead(t)
    BY <2>2 DEF CallStop, CallRead
  <2> QED  BY <2>1, <2>2
<1>4. /\ pc' \in [Threads -> {"idle"} \cup Waiting \cup Inside]
      /\ pc'[t] = w
      /\ \A u \in Threads \ {t} : pc'[u] = pc[u]
  BY <1>1, <1>3 DEF IInv, TypeOK, Waiting, AfterLock
<1>5. TypeOK'
  BY <1>2, <1>4 DEF IInv, TypeOK
<1>6. MutexInv'
  BY <1>1, <1>2, <1>3, <1>4 DEF IInv, MutexInv, Inside
<1>7. HandsInv'
  BY <1>1, <1>2, <1>3, <1>4, ThreadFacts DEF IInv, HandsInv
<1> QED  BY <1>5, <1>6, <1>7 DEF IInv

\* stop() empties the queue.
LEMMA StopStep ==
    ASSUME IInv, NEW t \in App, StopClears(t)
    PROVE  IInv'
<1>1. /\ t \in Threads /\ t # Listener /\ pc[t] \in Inside /\ Release(t)
      /\ queue' = <<>> /\ before' = taken
      /\ UNCHANGED <<sent, cache, local, got, taken>> /\ started' = started
  BY ThreadFacts DEF StopClears, reader, Inside
<1>2. queue' \in Seq(Alive)
  BY <1>1
<1>3. TypeOK'
  BY <1>1, <1>2, ReleaseStep DEF IInv, TypeOK
<1>4. MutexInv' /\ HandsInv'
  BY <1>1, ReleaseStep, ThreadFacts DEF IInv, HandsInv
<1> QED  BY <1>3, <1>4 DEF IInv

\* read_next finds the queue empty.
LEMMA ReadEmptyStep ==
    ASSUME IInv, NEW t \in App, ReadEmpty(t)
    PROVE  IInv'
<1>1. /\ t \in Threads /\ t # Listener /\ pc[t] \in Inside /\ Release(t)
      /\ UNCHANGED <<sent, cache, queue, local, got, taken, before>> /\ started' = started
  BY ThreadFacts DEF ReadEmpty, reader, history, Inside
<1>2. TypeOK'
  BY <1>1, ReleaseStep DEF IInv, TypeOK
<1>3. MutexInv' /\ HandsInv'
  BY <1>1, ReleaseStep, ThreadFacts DEF IInv, HandsInv
<1> QED  BY <1>2, <1>3 DEF IInv

\* read_next copies the front of the queue.
LEMMA ReadFrontStep ==
    ASSUME IInv, NEW t \in App, ReadFront(t)
    PROVE  IInv'
<1>1. /\ t \in Threads /\ t # Listener /\ pc[t] = "front" /\ queue # <<>>
      /\ local' = [local EXCEPT ![t] = {Head(queue)}]
      /\ pc' = [pc EXCEPT ![t] = "pop"]
      /\ UNCHANGED <<sent, cache, mutex, queue, got, taken, before>> /\ started' = started
  BY ThreadFacts DEF ReadFront, reader, history
<1>2. queue \in Seq(Alive) /\ Head(queue) \in Alive
  BY <1>1 DEF IInv, TypeOK
<1>3. /\ local' \in [Threads -> SUBSET Alive] /\ local'[t] = {Head(queue)}
      /\ \A u \in Threads \ {t} : local'[u] = local[u]
  BY <1>1, <1>2 DEF IInv, TypeOK
<1>4. /\ pc' \in [Threads -> {"idle"} \cup Waiting \cup Inside] /\ pc'[t] = "pop"
      /\ \A u \in Threads \ {t} : pc'[u] = pc[u]
  BY <1>1 DEF IInv, TypeOK, Inside
<1>5. TypeOK'
  BY <1>1, <1>3, <1>4 DEF IInv, TypeOK
<1>6. MutexInv'
  BY <1>1, <1>4 DEF IInv, MutexInv, Inside
<1>7. HandsInv'
  BY <1>1, <1>3, <1>4, ThreadFacts DEF IInv, HandsInv
<1> QED  BY <1>5, <1>6, <1>7 DEF IInv

\* read_next removes what it copied: it is still the front, for nobody else was inside.
LEMMA ReadPopStep ==
    ASSUME IInv, NEW t \in App, ReadPop(t)
    PROVE  /\ IInv'
           /\ queue # <<>> /\ got' = Append(got, Head(queue)) /\ queue' = Tail(queue)
           /\ local'[Listener] = local[Listener]
<1>1. /\ t \in Threads /\ t # Listener /\ pc[t] = "pop" /\ queue # <<>> /\ Release(t)
      /\ queue' = Tail(queue)
      /\ local' = [local EXCEPT ![t] = {}]
      /\ UNCHANGED <<sent, cache, taken, before>> /\ started' = started
  BY ThreadFacts DEF ReadPop, reader
<1>2. local[t] = {Head(queue)}
  BY <1>1 DEF IInv, HandsInv
<1>3. got' = Append(got, Head(queue))
  BY <1>2 DEF ReadPop
<1>4. queue' \in Seq(Alive) /\ got' \in Seq(Alive)
  BY <1>1, <1>3 DEF IInv, TypeOK
<1>5. /\ local' \in [Threads -> SUBSET Alive]
      /\ \A u \in Threads \ {t} : local'[u] = local[u]
  BY <1>1 DEF IInv, TypeOK
<1>6. pc[t] \in Inside
  BY <1>1 DEF Inside
<1>7. TypeOK'
  BY <1>1, <1>4, <1>5, <1>6, ReleaseStep DEF IInv, TypeOK
<1>8. MutexInv' /\ HandsInv'
  BY <1>1, <1>5, <1>6, ReleaseStep, ThreadFacts DEF IInv, HandsInv
<1> QED  BY <1>1, <1>3, <1>5, <1>7, <1>8, ThreadFacts DEF IInv

\* The listener takes a sample or a disposal from the reader.
LEMMA TakeStep == IInv /\ TakeSample => IInv'
<1> SUFFICES ASSUME IInv, TakeSample PROVE IInv'
  OBVIOUS
<1>0. PICK k \in Keys : \E x \in cache[k] :
        /\ cache' = [cache EXCEPT ![k] = {}]
        /\ IF x.alive
           THEN /\ local' = [local EXCEPT ![Listener] = {x}]
                /\ pc' = [pc EXCEPT ![Listener] = "pushWait"]
                /\ taken' = taken \cup {x}
           ELSE UNCHANGED <<local, pc, taken>>
  BY Zenon DEF TakeSample
<1>1. PICK x \in cache[k] :
        /\ cache' = [cache EXCEPT ![k] = {}]
        /\ IF x.alive
           THEN /\ local' = [local EXCEPT ![Listener] = {x}]
                /\ pc' = [pc EXCEPT ![Listener] = "pushWait"]
                /\ taken' = taken \cup {x}
           ELSE UNCHANGED <<local, pc, taken>>
  BY <1>0, Zenon
<1>2. /\ pc[Listener] = "idle"
      /\ UNCHANGED <<sent, mutex, queue, got, before>> /\ started' = started
  BY DEF TakeSample
<1>3. cache' \in [Keys -> SUBSET Sample]
  BY <1>1 DEF IInv, TypeOK
<1>4. CASE x.alive
  <2>1. x \in Alive
    BY <1>1, <1>4 DEF IInv, TypeOK, Alive
  <2>2. /\ local' = [local EXCEPT ![Listener] = {x}]
        /\ pc' = [pc EXCEPT ![Listener] = "pushWait"]
        /\ taken' = taken \cup {x}
    BY <1>1, <1>4
  <2>3. /\ local' \in [Threads -> SUBSET Alive] /\ local'[Listener] = {x}
        /\ \A u \in Threads \ {Listener} : local'[u] = local[u]
    BY <2>1, <2>2, ThreadFacts DEF IInv, TypeOK
  <2>4. /\ pc' \in [Threads -> {"idle"} \cup Waiting \cup Inside]
        /\ pc'[Listener] = "pushWait"
        /\ \A u \in Threads \ {Listener} : pc'[u] = pc[u]
    BY <2>2, ThreadFacts DEF IInv, TypeOK, Waiting, AfterLock
  <2>5. TypeOK'
    BY <1>2, <1>3, <2>1, <2>2, <2>3, <2>4 DEF IInv, TypeOK
  <2>6. MutexInv'
    BY <1>2, <2>4 DEF IInv, MutexInv, Inside
  <2>7. HandsInv'
    BY <1>2, <2>1, <2>3, <2>4 DEF IInv, HandsInv
  <2> QED  BY <2>5, <2>6, <2>7 DEF IInv
<1>5. CASE ~ x.alive
  <2>1. UNCHANGED <<local, pc, taken>>
    BY <1>1, <1>5
  <2>2. TypeOK' /\ MutexInv' /\ HandsInv'
    BY <1>2, <1>3, <2>1 DEF IInv, TypeOK, MutexInv, HandsInv
  <2> QED  BY <2>2 DEF IInv
<1> QED  BY <1>4, <1>5

\* The listener pushes the one sample it holds.
LEMMA PushStep ==
    ASSUME IInv, PushSample
    PROVE  /\ IInv'
           /\ \E x \in Alive : local[Listener] = {x} /\ queue' = Append(queue, x)
           /\ local'[Listener] = {}
<1>1. /\ pc[Listener] = "push" /\ Release(Listener)
      /\ local' = [local EXCEPT ![Listener] = {}]
      /\ UNCHANGED <<sent, cache, got, taken, before>> /\ started' = started
  BY DEF PushSample, reader, history
<1>2. PICK x \in Alive : local[Listener] = {x}
  BY <1>1 DEF IInv, HandsInv
<1>3. queue' = Append(queue, x)
  BY <1>2 DEF PushSample
<1>4. queue' \in Seq(Alive)
  BY <1>3 DEF IInv, TypeOK
<1>5. /\ local' \in [Threads -> SUBSET Alive] /\ local'[Listener] = {}
      /\ \A u \in Threads \ {Listener} : local'[u] = local[u]
  BY <1>1, ThreadFacts DEF IInv, TypeOK
<1>6. pc[Listener] \in Inside
  BY <1>1 DEF Inside
<1>7. TypeOK'
  BY <1>1, <1>4, <1>5, <1>6, ReleaseStep, ThreadFacts DEF IInv, TypeOK
<1>8. MutexInv' /\ HandsInv'
  BY <1>1, <1>5, <1>6, ReleaseStep, ThreadFacts DEF IInv, HandsInv
<1> QED  BY <1>2, <1>3, <1>5, <1>7, <1>8 DEF IInv

\* A step that changes nothing.
LEMMA IdleStep == IInv /\ UNCHANGED vars => IInv'
  BY DEF IInv, TypeOK, MutexInv, HandsInv, vars, reader, history

\* Each step keeps the invariant.
LEMMA InvStep == IInv /\ [Next]_vars => IInv'
<1> SUFFICES ASSUME IInv, [Next]_vars PROVE IInv'
  OBVIOUS
<1>1. CASE \E k \in Keys, alive \in BOOLEAN : Arrive(k, alive)
  BY <1>1, ArriveStep
<1>2. ASSUME NEW t \in App, Start(t) \/ CallStop(t) \/ CallRead(t) \/ AppStep(t) PROVE IInv'
  <2>1. CASE Start(t) \/ CallStop(t) \/ CallRead(t)
    BY <2>1, CallStep
  <2>2. CASE Acquire(t)
    BY <2>2, AcquireStep, ThreadFacts
  <2>3. CASE StopClears(t) \/ ReadEmpty(t)
    BY <2>3, StopStep, ReadEmptyStep
  <2>4. CASE ReadFront(t) \/ ReadPop(t)
    BY <2>4, ReadFrontStep, ReadPopStep
  <2> QED  BY <1>2, <2>1, <2>2, <2>3, <2>4 DEF AppStep
<1>3. CASE ListenerStep
  BY <1>3, TakeStep, AcquireStep, PushStep, ThreadFacts DEF ListenerStep
<1>4. CASE UNCHANGED vars
  BY <1>4, IdleStep
<1> QED  BY <1>1, <1>2, <1>3, <1>4 DEF Next

\* The strengthened invariant holds throughout (FastSubscriber.tpp:41-84).
THEOREM Invariance == Spec => []IInv
<1> QED  BY InvInit, InvStep, PTL DEF Spec

\* The state keeps its types: only samples of live instances are queued and handed
\* out, and what on_data_available holds is one of them.
THEOREM TypeCorrect == Spec => []TypeOK
<1>1. IInv => TypeOK
  BY DEF IInv
<1> QED  BY <1>1, Invariance, PTL

------------------------------------------------------------------------------
(* The thread-safe queue.                                                  *)

\* The steps that touch neither the queue nor what was handed out.
LEMMA OtherSteps ==
    ASSUME NEW t \in Threads,
           \/ Start(t) \/ CallStop(t) \/ CallRead(t)
           \/ Acquire(t) \/ ReadEmpty(t) \/ ReadFront(t)
    PROVE  UNCHANGED <<sent, cache, queue, got, taken, before>>
  BY DEF Start, CallStop, CallRead, Acquire, ReadEmpty, ReadFront, reader, history

\* Each step is one of the abstract queue's, or none.
LEMMA QueueStep == IInv /\ [Next]_vars => [Shared!Next]_<<queue, got>>
<1> SUFFICES ASSUME IInv, [Next]_vars PROVE [Shared!Next]_<<queue, got>>
  OBVIOUS
<1>1. CASE \E k \in Keys, alive \in BOOLEAN : Arrive(k, alive)
  BY <1>1 DEF Arrive, history
<1>2. ASSUME NEW t \in App, Start(t) \/ CallStop(t) \/ CallRead(t) \/ AppStep(t)
      PROVE  [Shared!Next]_<<queue, got>>
  <2>1. CASE \/ Start(t) \/ CallStop(t) \/ CallRead(t)
             \/ Acquire(t) \/ ReadEmpty(t) \/ ReadFront(t)
    BY <2>1, OtherSteps, ThreadFacts
  <2>2. CASE StopClears(t)
    BY <2>2 DEF StopClears, Shared!Next, Shared!Clear
  <2>3. CASE ReadPop(t)
    BY <2>3, ReadPopStep DEF Shared!Next, Shared!TryPop
  <2> QED  BY <1>2, <2>1, <2>2, <2>3 DEF AppStep
<1>3. CASE ListenerStep
  <2>1. CASE TakeSample
    BY <2>1 DEF TakeSample
  <2>2. CASE Acquire(Listener)
    BY <2>2, OtherSteps, ThreadFacts
  <2>3. CASE PushSample
    <3>1. \E x \in Alive : queue' = Append(queue, x)
      BY <2>3, PushStep
    <3>2. got' = got
      BY <2>3 DEF PushSample, history
    <3> QED  BY <3>1, <3>2 DEF Shared!Next, Shared!Push
  <2> QED  BY <1>3, <2>1, <2>2, <2>3 DEF ListenerStep
<1>4. CASE UNCHANGED vars
  BY <1>4 DEF vars, history
<1> QED  BY <1>1, <1>2, <1>3, <1>4 DEF Next

\* Queue and mutex implement ThreadSafeQueue (FastSubscriber.tpp:48-84,
\* ThreadSafeQueue.h): no interleaving duplicates, drops or reorders what was pushed.
THEOREM ImplementsQueue == Spec => QueueSpec
<1>1. Init => Shared!Init
  BY DEF Init, Shared!Init
<1> QED  BY <1>1, QueueStep, Invariance, PTL DEF Spec, QueueSpec, Shared!Spec

------------------------------------------------------------------------------
(* The order of the samples, and the boundary that stop() sets.            *)

\* A sample is older than another of its instance.
Older(x, y) == x.key = y.key => x.n < y.n

\* From the application back to the reader's cache, samples are younger and younger.
OrderInv ==
    /\ \A i, j \in 1 .. Len(got) : i < j => Older(got[i], got[j])
    /\ \A i \in 1 .. Len(got), j \in 1 .. Len(queue) : Older(got[i], queue[j])
    /\ \A i, j \in 1 .. Len(queue) : i < j => Older(queue[i], queue[j])
    /\ \A i \in 1 .. Len(got), x \in local[Listener] : Older(got[i], x)
    /\ \A i \in 1 .. Len(queue), x \in local[Listener] : Older(queue[i], x)

\* What left the reader is older than what it holds.
ReaderInv ==
    /\ \A x \in taken : x.n <= sent
    /\ \A k \in Keys : \A y \in cache[k] :
          y.key = k /\ y.n <= sent /\ \A x \in taken : Older(x, y)
    /\ \A i \in 1 .. Len(got) : got[i] \in taken
    /\ \A i \in 1 .. Len(queue) : queue[i] \in taken
    /\ local[Listener] \subseteq taken

\* At most one of the samples taken before the last stop() is in the queue or on
\* its way there.
StopInv ==
    /\ \A i, j \in 1 .. Len(queue) : queue[i] \in before /\ queue[j] \in before => i = j
    /\ \A x \in local[Listener] : x \in before => \A i \in 1 .. Len(queue) : queue[i] \notin before

FlowInv == OrderInv /\ ReaderInv /\ StopInv

\* The numbers of the samples are integers.
LEMMA SampleNumbers == \A x \in Sample : x.n \in Int /\ x.key \in Keys
  BY SentAssumption DEF Sample

\* At the constructor nothing flows.
LEMMA FlowInit == Init => FlowInv
<1> SUFFICES ASSUME Init PROVE FlowInv
  OBVIOUS
<1>1. local[Listener] = {} /\ queue = <<>> /\ got = <<>> /\ taken = {} /\ before = {}
  BY ThreadFacts DEF Init
<1>2. \A k \in Keys : cache[k] = {}
  BY DEF Init
<1> QED  BY <1>1, <1>2 DEF FlowInv, OrderInv, ReaderInv, StopInv

\* Steps that leave samples where they are.
LEMMA FlowQuiet ==
    ASSUME FlowInv, UNCHANGED <<sent, cache, queue, got, taken, before>>,
           local'[Listener] = local[Listener]
    PROVE  FlowInv'
  BY DEF FlowInv, OrderInv, ReaderInv, StopInv

\* What arrives is younger than anything before it.
LEMMA FlowArrive ==
    ASSUME IInv, FlowInv, NEW k \in Keys, NEW alive \in BOOLEAN, Arrive(k, alive)
    PROVE  FlowInv'
<1> DEFINE new == [key |-> k, n |-> sent + 1, alive |-> alive]
<1>1. /\ sent' = sent + 1 /\ sent \in Int
      /\ cache' = [cache EXCEPT ![k] = {new}]
      /\ UNCHANGED <<queue, local, got, taken, before>>
  BY DEF Arrive, history, IInv, TypeOK
<1>2. new.key = k /\ new.n = sent + 1
  OBVIOUS
<1>3. /\ cache'[k] = {new}
      /\ \A l \in Keys \ {k} : cache'[l] = cache[l]
  BY <1>1 DEF IInv, TypeOK
<1>4. \A x \in taken : x.n \in Int /\ x.n <= sent
  BY SampleNumbers DEF FlowInv, ReaderInv, IInv, TypeOK, Alive
<1>5. \A l \in Keys : \A y \in cache[l] : y.n \in Int /\ y.n <= sent
  BY SampleNumbers DEF FlowInv, ReaderInv, IInv, TypeOK
<1> HIDE DEF new
<1>6. \A x \in taken : Older(x, new)
  BY <1>1, <1>2, <1>4 DEF Older
<1>7. ReaderInv'
  <2>1. \A x \in taken' : x.n <= sent'
    BY <1>1, <1>4
  <2>2. \A l \in Keys : \A y \in cache'[l] :
          y.key = l /\ y.n <= sent' /\ \A x \in taken' : Older(x, y)
    <3>1. ASSUME NEW l \in Keys, l # k, NEW y \in cache'[l]
          PROVE  y.key = l /\ y.n <= sent' /\ \A x \in taken' : Older(x, y)
      BY <1>1, <1>3, <1>5, <3>1 DEF FlowInv, ReaderInv
    <3>2. ASSUME NEW y \in cache'[k]
          PROVE  y.key = k /\ y.n <= sent' /\ \A x \in taken' : Older(x, y)
      BY <1>1, <1>2, <1>3, <1>6
    <3> QED  BY <3>1, <3>2
  <2> QED  BY <1>1, <2>1, <2>2 DEF FlowInv, ReaderInv
<1>8. OrderInv' /\ StopInv'
  BY <1>1 DEF FlowInv, OrderInv, StopInv
<1> QED  BY <1>7, <1>8 DEF FlowInv

\* What the listener takes was in nobody's hands yet.
LEMMA FlowTake ==
    ASSUME IInv, FlowInv, TakeSample
    PROVE  FlowInv'
<1>0. PICK k \in Keys : \E x \in cache[k] :
        /\ cache' = [cache EXCEPT ![k] = {}]
        /\ IF x.alive
           THEN /\ local' = [local EXCEPT ![Listener] = {x}]
                /\ pc' = [pc EXCEPT ![Listener] = "pushWait"]
                /\ taken' = taken \cup {x}
           ELSE UNCHANGED <<local, pc, taken>>
  BY Zenon DEF TakeSample
<1>1. PICK x \in cache[k] :
        /\ cache' = [cache EXCEPT ![k] = {}]
        /\ IF x.alive
           THEN /\ local' = [local EXCEPT ![Listener] = {x}]
                /\ pc' = [pc EXCEPT ![Listener] = "pushWait"]
                /\ taken' = taken \cup {x}
           ELSE UNCHANGED <<local, pc, taken>>
  BY <1>0, Zenon
<1>2. /\ pc[Listener] = "idle" /\ UNCHANGED <<sent, queue, got, before>>
  BY DEF TakeSample
<1>3. \A l \in Keys : cache'[l] \subseteq cache[l] /\ (l = k => cache'[l] = {})
  BY <1>1 DEF IInv, TypeOK
<1>4. x.key = k /\ x.n <= sent /\ x.n \in Int /\ \A y \in taken : Older(y, x)
  BY SampleNumbers DEF FlowInv, ReaderInv, IInv, TypeOK
<1>5. CASE ~ x.alive
  <2>1. UNCHANGED <<local, taken>>
    BY <1>1, <1>5
  <2> QED
    BY <1>2, <1>3, <2>1 DEF FlowInv, OrderInv, ReaderInv, StopInv
<1>6. CASE x.alive
  <2>1. taken' = taken \cup {x} /\ local'[Listener] = {x}
    BY <1>1, <1>6, ThreadFacts DEF IInv, TypeOK
  <2>2. OrderInv'
    BY <1>2, <1>4, <2>1 DEF FlowInv, OrderInv, ReaderInv
  <2>3. ReaderInv'
    <3>1. \A y \in taken' : y.n <= sent'
      BY <1>2, <1>4, <2>1 DEF FlowInv, ReaderInv
    <3>2. ASSUME NEW l \in Keys, NEW y \in cache'[l]
          PROVE  y.key = l /\ y.n <= sent' /\ \A z \in taken' : Older(z, y)
      <4>1. l # k /\ y \in cache[l]
        BY <1>3
      <4>2. y.key = l /\ y.n <= sent /\ \A z \in taken : Older(z, y)
        BY <4>1 DEF FlowInv, ReaderInv
      <4>3. Older(x, y)
        BY <1>4, <4>1, <4>2 DEF Older
      <4> QED  BY <1>2, <2>1, <4>2, <4>3
    <3> QED  BY <1>2, <2>1, <3>1, <3>2 DEF FlowInv, ReaderInv
  <2>4. x \notin before
    <3>1. before \subseteq taken
      BY DEF IInv, TypeOK
    <3>2. x \notin taken
      BY <1>4 DEF Older
    <3> QED  BY <3>1, <3>2
  <2>5. StopInv'
    BY <1>2, <2>1, <2>4 DEF FlowInv, StopInv
  <2> QED  BY <2>2, <2>3, <2>5 DEF FlowInv
<1> QED  BY <1>5, <1>6

\* The push puts the youngest of the queue at its end.
LEMMA FlowPush ==
    ASSUME IInv, FlowInv, PushSample
    PROVE  FlowInv'
<1>1. PICK x \in Alive : local[Listener] = {x} /\ queue' = Append(queue, x)
  BY PushStep
<1>2. local'[Listener] = {} /\ UNCHANGED <<sent, cache, got, taken, before>>
  BY PushStep DEF PushSample, reader, history
<1>3. queue \in Seq(Alive) /\ Len(queue) \in Nat
  BY DEF IInv, TypeOK
<1>4. /\ Len(queue') = Len(queue) + 1
      /\ \A i \in 1 .. Len(queue) : queue'[i] = queue[i]
      /\ queue'[Len(queue) + 1] = x
  BY <1>1, <1>3
<1>5. \A i \in 1 .. Len(queue') : i \in 1 .. Len(queue) \/ i = Len(queue) + 1
  BY <1>3, <1>4
<1>6. OrderInv'
  <2>1. \A i \in 1 .. Len(got') : \A j \in 1 .. Len(queue') : Older(got'[i], queue'[j])
    BY <1>1, <1>2, <1>4, <1>5 DEF FlowInv, OrderInv
  <2>2. ASSUME NEW i \in 1 .. Len(queue'), NEW j \in 1 .. Len(queue'), i < j
        PROVE  Older(queue'[i], queue'[j])
    <3>1. i \in 1 .. Len(queue)
      BY <1>3, <1>4, <2>2
    <3> QED  BY <1>1, <1>4, <1>5, <2>2, <3>1 DEF FlowInv, OrderInv
  <2> QED  BY <1>2, <2>1, <2>2 DEF FlowInv, OrderInv
<1>7. ReaderInv'
  BY <1>1, <1>2, <1>4, <1>5 DEF FlowInv, ReaderInv
<1>8. StopInv'
  <2>1. ASSUME NEW i \in 1 .. Len(queue'), NEW j \in 1 .. Len(queue'),
               queue'[i] \in before, queue'[j] \in before
        PROVE  i = j
    BY <1>1, <1>4, <1>5, <2>1 DEF FlowInv, StopInv
  <2> QED  BY <1>2, <2>1 DEF StopInv
<1> QED  BY <1>6, <1>7, <1>8 DEF FlowInv

\* read_next moves the oldest of the queue to the application.
LEMMA FlowPop ==
    ASSUME IInv, FlowInv, NEW t \in App, ReadPop(t)
    PROVE  FlowInv'
<1>1. /\ queue # <<>> /\ got' = Append(got, Head(queue)) /\ queue' = Tail(queue)
      /\ local'[Listener] = local[Listener]
  BY ReadPopStep
<1>2. UNCHANGED <<sent, cache, taken, before>>
  BY DEF ReadPop, reader
<1>3. /\ queue \in Seq(Alive) /\ got \in Seq(Alive)
      /\ Len(queue) \in Nat /\ Len(got) \in Nat /\ Len(queue) > 0
  BY <1>1 DEF IInv, TypeOK
<1>4. /\ Len(queue') = Len(queue) - 1
      /\ \A i \in 1 .. Len(queue') : queue'[i] = queue[i + 1]
  BY <1>1, <1>3
<1>5. /\ Len(got') = Len(got) + 1
      /\ \A i \in 1 .. Len(got) : got'[i] = got[i]
      /\ got'[Len(got) + 1] = queue[1]
  BY <1>1, <1>3
<1>6. \A i \in 1 .. Len(queue') : i + 1 \in 1 .. Len(queue) /\ 1 < i + 1
  BY <1>3, <1>4
<1>7. /\ \A i \in 1 .. Len(got') : i \in 1 .. Len(got) \/ i = Len(got) + 1
      /\ 1 \in 1 .. Len(queue)
  BY <1>3, <1>5
<1>8. OrderInv'
  <2>1. ASSUME NEW i \in 1 .. Len(got'), NEW j \in 1 .. Len(got'), i < j
        PROVE  Older(got'[i], got'[j])
    <3>1. i \in 1 .. Len(got)
      BY <1>3, <1>5, <2>1
    <3> QED  BY <1>5, <1>7, <2>1, <3>1 DEF FlowInv, OrderInv
  <2>2. ASSUME NEW i \in 1 .. Len(got'), NEW j \in 1 .. Len(queue')
        PROVE  Older(got'[i], queue'[j])
    BY <1>4, <1>5, <1>6, <1>7 DEF FlowInv, OrderInv
  <2>3. ASSUME NEW i \in 1 .. Len(queue'), NEW j \in 1 .. Len(queue'), i < j
        PROVE  Older(queue'[i], queue'[j])
    <3>1. i + 1 < j + 1
      BY <2>3, <1>3, <1>4
    <3> QED  BY <1>4, <1>6, <3>1 DEF FlowInv, OrderInv
  <2>4. ASSUME NEW i \in 1 .. Len(got'), NEW x \in local'[Listener] PROVE Older(got'[i], x)
    BY <1>1, <1>5, <1>7 DEF FlowInv, OrderInv
  <2>5. ASSUME NEW i \in 1 .. Len(queue'), NEW x \in local'[Listener]
        PROVE  Older(queue'[i], x)
    BY <1>1, <1>4, <1>6 DEF FlowInv, OrderInv
  <2> QED  BY <2>1, <2>2, <2>3, <2>4, <2>5 DEF OrderInv
<1>9. ReaderInv'
  BY <1>1, <1>2, <1>4, <1>5, <1>6, <1>7 DEF FlowInv, ReaderInv
<1>10. StopInv'
  <2>1. ASSUME NEW i \in 1 .. Len(queue'), NEW j \in 1 .. Len(queue'),
               queue'[i] \in before, queue'[j] \in before
        PROVE  i = j
    <3>1. i + 1 = j + 1
      BY <1>4, <1>6, <2>1 DEF FlowInv, StopInv
    <3> QED  BY <3>1
  <2>2. ASSUME NEW x \in local'[Listener], x \in before, NEW i \in 1 .. Len(queue')
        PROVE  queue'[i] \notin before
    BY <1>1, <1>4, <1>6, <2>2 DEF FlowInv, StopInv
  <2> QED  BY <1>2, <2>1, <2>2 DEF StopInv
<1> QED  BY <1>8, <1>9, <1>10 DEF FlowInv

\* stop() leaves nothing in the queue.
LEMMA FlowStop ==
    ASSUME FlowInv, NEW t \in App, StopClears(t)
    PROVE  FlowInv'
<1>1. queue' = <<>> /\ UNCHANGED <<sent, cache, local, got, taken>>
  BY DEF StopClears, reader
<1> QED  BY <1>1 DEF FlowInv, OrderInv, ReaderInv, StopInv

\* The listener's hands are its own.
LEMMA FlowFront ==
    ASSUME IInv, FlowInv, NEW t \in App, ReadFront(t)
    PROVE  FlowInv'
<1>1. local'[Listener] = local[Listener]
  BY ThreadFacts DEF ReadFront, IInv, TypeOK
<1>2. UNCHANGED <<sent, cache, queue, got, taken, before>>
  BY OtherSteps, ThreadFacts
<1> QED  BY <1>1, <1>2, FlowQuiet

\* Each step keeps the flow of the samples.
LEMMA FlowStep == IInv /\ FlowInv /\ [Next]_vars => FlowInv'
<1> SUFFICES ASSUME IInv, FlowInv, [Next]_vars PROVE FlowInv'
  OBVIOUS
<1>1. CASE \E k \in Keys, alive \in BOOLEAN : Arrive(k, alive)
  BY <1>1, FlowArrive
<1>2. ASSUME NEW t \in Threads, Start(t) \/ CallStop(t) \/ CallRead(t) \/ Acquire(t) \/ ReadEmpty(t)
      PROVE  FlowInv'
  <2>1. local' = local
    BY <1>2 DEF Start, CallStop, CallRead, Acquire, ReadEmpty
  <2> QED  BY <1>2, <2>1, OtherSteps, FlowQuiet
<1>3. ASSUME NEW t \in App, Start(t) \/ CallStop(t) \/ CallRead(t) \/ AppStep(t) PROVE FlowInv'
  BY <1>2, <1>3, FlowStop, FlowFront, FlowPop, ThreadFacts DEF AppStep
<1>4. CASE ListenerStep
  BY <1>2, <1>4, FlowTake, FlowPush, ThreadFacts DEF ListenerStep
<1>5. CASE UNCHANGED vars
  BY <1>5, FlowQuiet DEF vars, reader, history
<1> QED  BY <1>1, <1>3, <1>4, <1>5 DEF Next

\* The flow of the samples, throughout.
THEOREM Flow == Spec => []FlowInv
<1> QED  BY FlowInit, FlowStep, Invariance, PTL DEF Spec

\* read_next hands out the samples of an instance in the order they were written,
\* none twice, whatever the threads and stop() do (FastSubscriber.tpp:48-84).
THEOREM HandedOutInOrder == Spec => []InOrder
<1>1. FlowInv => InOrder
  BY DEF FlowInv, OrderInv, Older, InOrder
<1> QED  BY <1>1, Flow, PTL

\* Of what was taken before stop() cleared the queue at most one sample gets into it
\* afterwards (FastSubscriber.tpp:50-53, 79-81).
THEOREM OneCrossesStop == Spec => []StopBoundary
<1>1. ASSUME IInv, FlowInv PROVE StopBoundary
  <2> DEFINE old == {i \in 1 .. Len(queue) : queue[i] \in before}
  <2>1. CASE old = {}
    BY <2>1, FS_EmptySet DEF StopBoundary
  <2>2. CASE old # {}
    <3>1. PICK i \in 1 .. Len(queue) : queue[i] \in before
      BY <2>2
    <3>2. old = {i}
      <4>1. ASSUME NEW j \in old PROVE j = i
        <5>1. j \in 1 .. Len(queue) /\ queue[j] \in before
          OBVIOUS
        <5>2. \A a, b \in 1 .. Len(queue) :
                queue[a] \in before /\ queue[b] \in before => a = b
          BY <1>1 DEF FlowInv, StopInv
        <5> QED  BY <3>1, <5>1, <5>2
      <4>2. i \in old
        BY <3>1
      <4> HIDE DEF old
      <4> QED  BY <4>1, <4>2
    <3>3. Cardinality(old) = 1
      BY <3>2, FS_Singleton
    <3> QED  BY <3>3 DEF StopBoundary
  <2> QED  BY <2>1, <2>2
<1>2. IInv /\ FlowInv => StopBoundary
  BY <1>1
<1> QED  BY <1>2, Invariance, Flow, PTL
==============================================================================
