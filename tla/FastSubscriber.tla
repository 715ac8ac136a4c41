--------------------------- MODULE FastSubscriber ----------------------------
(***************************************************************************)
(* The subscriber of the indra_dds library: a listener thread of DDS moves *)
(* samples from the reader to a queue, threads of the application take     *)
(* them from there with read_next(), start and stop the subscriber.        *)
(*                                                                         *)
(* The queue is guarded by a mutex.  Taking from the reader is not, nor is *)
(* started_, which no code reads.                                          *)
(***************************************************************************)
EXTENDS Naturals, Sequences, FiniteSets

CONSTANTS App,       \* threads of the application
          Listener,  \* the thread of DDS that runs on_data_available
          Free,      \* the owner of a mutex that nobody holds
          Keys,      \* instances of the topic
          MaxSent    \* bound: samples and disposals sent to the reader

ASSUME ThreadsAssumption == Listener \notin App /\ Free \notin App \cup {Listener}
ASSUME SentAssumption == MaxSent \in Nat

Threads == App \cup {Listener}

VARIABLES
    sent,     \* number of samples and disposals that reached the reader
    cache,    \* what the reader holds for each instance: at most one sample
    mutex,    \* owner of mutex_
    queue,    \* messageQueue_
    started,  \* started_
    pc,       \* where each thread is
    local,    \* the sample in the hands of each thread
    got,      \* samples returned by read_next, in the order they left the queue
    taken,    \* samples that on_data_available took from the reader
    before    \* those among them that were taken before the last stop() cleared

reader  == <<sent, cache>>
history == <<got, taken, before>>
vars    == <<reader, mutex, queue, started, pc, local, history>>

\* "n" is the order of writing; "alive" is the instance's state.
Sample == [key : Keys, n : 1 .. MaxSent, alive : BOOLEAN]
Alive  == {x \in Sample : x.alive}

\* The statement that a thread executes once it owns the mutex.
AfterLock == [readWait |-> "front", stopWait |-> "clear", pushWait |-> "push"]

Waiting == DOMAIN AfterLock
Inside  == {"front", "pop", "clear", "push"}

TypeOK ==
    /\ sent \in 0 .. MaxSent
    /\ cache \in [Keys -> SUBSET Sample]
    /\ mutex \in Threads \cup {Free}
    /\ queue \in Seq(Alive)
    /\ started \in BOOLEAN
    /\ pc \in [Threads -> {"idle"} \cup Waiting \cup Inside]
    /\ local \in [Threads -> SUBSET Alive]
    /\ got \in Seq(Alive)
    /\ taken \subseteq Alive
    /\ before \subseteq taken

\* The constructor: the reader exists, and the subscriber is its listener.
Init ==
    /\ sent = 0
    /\ cache = [k \in Keys |-> {}]
    /\ mutex = Free
    /\ queue = <<>>
    /\ started = FALSE
    /\ pc = [t \in Threads |-> "idle"]
    /\ local = [t \in Threads |-> {}]
    /\ got = <<>>
    /\ taken = {}
    /\ before = {}

------------------------------------------------------------------------------
(* The reader.  Its QoS is the default: KEEP_LAST 1, so a sample or the     *)
(* disposal of an instance replaces what is held for that instance.         *)

Arrive(k, alive) ==
    /\ sent < MaxSent
    /\ sent' = sent + 1
    /\ cache' = [cache EXCEPT ![k] = {[key |-> k, n |-> sent + 1, alive |-> alive]}]
    /\ UNCHANGED <<mutex, queue, started, pc, local, history>>

------------------------------------------------------------------------------
(* The mutex.                                                              *)

AcquireAnyway(t) ==  \* variant: no lock is taken
    /\ pc[t] \in Waiting
    /\ pc' = [pc EXCEPT ![t] = AfterLock[@]]
    /\ mutex' = t
    /\ UNCHANGED <<reader, queue, started, local, history>>

Acquire(t) ==
    /\ pc[t] \in Waiting
    /\ mutex = Free
    /\ pc' = [pc EXCEPT ![t] = AfterLock[@]]
    /\ mutex' = t
    /\ UNCHANGED <<reader, queue, started, local, history>>

\* The lock's destructor, at the end of its scope.
Release(t) ==
    /\ pc' = [pc EXCEPT ![t] = "idle"]
    /\ mutex' = Free

------------------------------------------------------------------------------
(* The application's threads.                                              *)

Start(t) ==
    /\ pc[t] = "idle"
    /\ started' = TRUE
    /\ UNCHANGED <<reader, mutex, queue, pc, local, history>>

CallStop(t) ==
    /\ pc[t] = "idle"
    /\ started' = FALSE
    /\ pc' = [pc EXCEPT ![t] = "stopWait"]
    /\ UNCHANGED <<reader, mutex, queue, local, history>>

StopClearsOne(t) ==  \* variant: pops instead of swapping with an empty queue
    /\ pc[t] = "clear"
    /\ queue' = IF queue = <<>> THEN queue ELSE Tail(queue)
    /\ before' = taken
    /\ Release(t)
    /\ UNCHANGED <<reader, started, local, got, taken>>

\* stop() swaps the queue with an empty one.
StopClears(t) ==
    /\ pc[t] = "clear"
    /\ queue' = <<>>
    /\ before' = taken
    /\ Release(t)
    /\ UNCHANGED <<reader, started, local, got, taken>>

CallRead(t) ==
    /\ pc[t] = "idle"
    /\ pc' = [pc EXCEPT ![t] = "readWait"]
    /\ UNCHANGED <<reader, mutex, queue, started, local, history>>

ReadEmptyWaits(t) ==  \* variant: asks again with the lock held
    /\ pc[t] = "front"
    /\ queue = <<>>
    /\ UNCHANGED vars

\* read_next returns false.
ReadEmpty(t) ==
    /\ pc[t] = "front"
    /\ queue = <<>>
    /\ Release(t)
    /\ UNCHANGED <<reader, queue, started, local, history>>

ReadFront(t) ==
    /\ pc[t] = "front"
    /\ queue # <<>>
    /\ local' = [local EXCEPT ![t] = {Head(queue)}]
    /\ pc' = [pc EXCEPT ![t] = "pop"]
    /\ UNCHANGED <<reader, mutex, queue, started, history>>

\* read_next removes what it copied, and returns true.
ReadPop(t) ==
    /\ pc[t] = "pop"
    /\ queue # <<>>
    /\ queue' = Tail(queue)
    /\ \E x \in local[t] : got' = Append(got, x)
    /\ local' = [local EXCEPT ![t] = {}]
    /\ Release(t)
    /\ UNCHANGED <<reader, started, taken, before>>

AppStep(t) ==
    \/ Acquire(t)
    \/ StopClears(t)
    \/ ReadEmpty(t) \/ ReadFront(t) \/ ReadPop(t)

------------------------------------------------------------------------------
(* The listener's thread.                                                  *)

TakeAny ==  \* variant: the disposals too are handed to the application
    /\ pc[Listener] = "idle"
    /\ \E k \in Keys : \E x \in cache[k] :
        /\ cache' = [cache EXCEPT ![k] = {}]
        /\ local' = [local EXCEPT ![Listener] = {x}]
        /\ pc' = [pc EXCEPT ![Listener] = "pushWait"]
        /\ taken' = taken \cup {x}
    /\ UNCHANGED <<sent, mutex, queue, started, got, before>>

\* One take_next_sample of on_data_available; what comes first is up to DDS.
TakeSample ==
    /\ pc[Listener] = "idle"
    /\ \E k \in Keys : \E x \in cache[k] :
        /\ cache' = [cache EXCEPT ![k] = {}]
        /\ IF x.alive
           THEN /\ local' = [local EXCEPT ![Listener] = {x}]
                /\ pc' = [pc EXCEPT ![Listener] = "pushWait"]
                /\ taken' = taken \cup {x}
           ELSE UNCHANGED <<local, pc, taken>>
    /\ UNCHANGED <<sent, mutex, queue, started, got, before>>

\* The push, whether or not the subscriber is started; nobody waits for cond_.
PushSample ==
    /\ pc[Listener] = "push"
    /\ \E x \in local[Listener] : queue' = Append(queue, x)
    /\ local' = [local EXCEPT ![Listener] = {}]
    /\ Release(Listener)
    /\ UNCHANGED <<reader, started, history>>

ListenerStep == TakeSample \/ Acquire(Listener) \/ PushSample

Next ==
    \/ \E k \in Keys, alive \in BOOLEAN : Arrive(k, alive)
    \/ \E t \in App : Start(t) \/ CallStop(t) \/ CallRead(t) \/ AppStep(t)
    \/ ListenerStep

Spec == Init /\ [][Next]_vars

\* A thread that is inside an operation goes on; the application need not call
\* any, and std::mutex lets a thread be overtaken again and again.
FairSpec ==
    /\ Spec
    /\ \A t \in App : WF_vars(AppStep(t))
    /\ WF_vars(ListenerStep)

------------------------------------------------------------------------------
(* Properties.                                                             *)

\* Queue and mutex together are a thread-safe queue: read_next hands out what the
\* listener pushed, in that order, each sample once, although it copies the front
\* in one step and removes it in another.
Shared == INSTANCE ThreadSafeQueue WITH
            Value  <- Alive,
            queue  <- queue,
            popped <- got

QueueSpec == Shared!Spec

\* The samples of one instance are handed out in the order they were written, and
\* none after the next one, from the reader's cache through the listener's hands
\* and the queue to the application, stop() or not.
InOrder ==
    \A i, j \in 1 .. Len(got) :
        i < j /\ got[i].key = got[j].key => got[i].n < got[j].n

\* Of all that was taken from the reader before stop() cleared the queue, at most
\* the one sample that the listener had in its hands gets into the queue
\* afterwards (on_data_available does not look at started_).
StopBoundary == Cardinality({i \in 1 .. Len(queue) : queue[i] \in before}) <= 1

\* No operation keeps the mutex, on any of its ways out.
LockReleased == \A t \in Threads : mutex = t ~> mutex # t
==============================================================================
