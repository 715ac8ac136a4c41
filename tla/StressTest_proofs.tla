-------------------------- MODULE StressTest_proofs --------------------------
(***************************************************************************)
(* Proofs about the whole stress test: the publisher, any number of        *)
(* subscribers that join and leave, and DDS between them.                  *)
(***************************************************************************)
EXTENDS StressTest, PubKeys_proofs, FiniteSetTheorems

------------------------------------------------------------------------------
(* The publisher within the system.                                        *)

\* A step of the system is a step of the publisher, a callback of one of its
\* listeners, or none of its business.
LEMMA PublisherTakesPart == [StressNext]_system => [Next]_vars
  <1> SUFFICES ASSUME [StressNext]_system PROVE [Next]_vars
    OBVIOUS
  <1>1. CASE PublisherStep
    BY <1>1 DEF PublisherStep, Next
  <1>2. ASSUME NEW s \in Subs, SubscriberStep(s)
        PROVE  UNCHANGED vars
    BY <1>2 DEF SubscriberStep
  <1>3. ASSUME NEW s \in Subs, Dds(s)
        PROVE  Callback \/ UNCHANGED vars
    BY <1>3
    DEF Dds, LinkData, LinkControl, UnlinkData, UnlinkControl, DeliverControl,
        DeliverData, LoseData, NextEntity, Callback
  <1>4. CASE UNCHANGED system
    BY <1>4 DEF system
  <1> QED
    BY <1>1, <1>2, <1>3, <1>4 DEF StressNext, Next

\* The publisher of the system is the publisher of PubTest: nothing that
\* subscribers or DDS do takes it anywhere else.
THEOREM PublisherInSystem == StressSpec => Spec
  <1>1. StressInit => Init
    BY DEF StressInit
  <1> QED
    BY <1>1, PublisherTakesPart, PTL DEF StressSpec, Spec

\* Hence the system as a whole runs the tests 1, 2, ... as promised.
THEOREM SystemImplementsTestRun == StressSpec => RunSpec
  BY PublisherInSystem, ImplementsTestRun, PTL

------------------------------------------------------------------------------
(* The invariant of one subscriber.                                        *)

\* Control messages that poll_control has taken.
Polled(s) == ctrlPos[s] - Len(inbox[s])

\* The control reader holds the next messages of the control topic, in order.
InboxInv(s) ==
    /\ Len(inbox[s]) <= ctrlPos[s]
    /\ ctrlPos[s] <= Len(control)
    /\ \A i \in 1 .. Len(inbox[s]) : inbox[s][i] = control[Polled(s) + i]

\* An active test is the one whose START was polled last.
ActiveInv(s) ==
    /\ active[s] => Polled(s) + 1 = 2 * testId[s] /\ expected[s] = Messages
    /\ pc[s] = "take" => active[s] /\ sExec[s] = "EXECUTION"

\* The runs so far are of tests that were polled, in increasing order, and none
\* of them is of the active test.  (The differences are what makes n runs of
\* n tests run them all.)
ResultsInv(s) ==
    /\ \A i \in 1 .. Len(results[s]) :
        /\ vendor # "OpenDDS" => results[s][i].expected = Messages
        /\ results[s][i].lost <= Messages
        /\ results[s][i].test >= 1
        /\ 2 * results[s][i].test - 1 <= Polled(s)
        /\ active[s] => results[s][i].test < testId[s]
    /\ \A i, j \in 1 .. Len(results[s]) :
        i < j => results[s][j].test - results[s][i].test >= j - i

\* finish_test asks for the end when the number of runs is reached.
SubTests == IF SubMaxTest = 0 THEN 1 ELSE SubMaxTest

CountInv(s) ==
    /\ sExec[s] = "INIT" => results[s] = <<>>
    /\ sExec[s] = "EXECUTION" => Len(results[s]) < SubTests
    /\ sExec[s] = "END" => Len(results[s]) = SubTests

\* An entity that reached the subscriber is in the reader, in the current run, or
\* in an earlier one, and in no two of them.
EntitiesInv(s) ==
    /\ IsFiniteSet(history[s])
    /\ IsFiniteSet(received[s])
    /\ dataPos[s] <= Len(data)
    /\ vendor # "OpenDDS" =>
        Messages * Len(results[s]) - totalLost[s]
            + Cardinality(received[s]) + Cardinality(history[s]) <= dataPos[s]

SubInv(s) == InboxInv(s) /\ ActiveInv(s) /\ ResultsInv(s) /\ CountInv(s) /\ EntitiesInv(s)

SubTypes ==
    /\ sExec \in [Subs -> {"INIT", "EXECUTION", "END"}]
    /\ pc \in [Subs -> {"read", "take", "crashed"}]
    /\ readers \in [Subs -> SUBSET {"data", "control"}]
    /\ inbox \in [Subs -> Seq(ControlMsg)]
    /\ history \in [Subs -> SUBSET Sample]
    /\ active \in [Subs -> BOOLEAN]
    /\ testId \in [Subs -> Nat]
    /\ expected \in [Subs -> {0, Messages}]
    /\ loanMode \in [Subs -> BOOLEAN]
    /\ taken \in [Subs -> Nat]
    /\ received \in [Subs -> SUBSET Sample]
    /\ results \in [Subs -> Seq(Result)]
    /\ totalLost \in [Subs -> Int]
    /\ ctrlLinked \in SUBSET Subs
    /\ dataLinked \in SUBSET Subs
    /\ ctrlPos \in [Subs -> Nat]
    /\ dataPos \in [Subs -> Nat]

StressInv == IInv /\ SubTypes /\ \A s \in Subs : SubInv(s)

------------------------------------------------------------------------------
(* What the publisher does to the topics, as its subscribers see it.       *)

\* Both topics only get longer, and the vendor stays.
Grows ==
    /\ control' \in Seq(ControlMsg)
    /\ Len(control) <= Len(control')
    /\ \A i \in 1 .. Len(control) : control'[i] = control[i]
    /\ Len(data') \in Nat
    /\ Len(data) <= Len(data')
    /\ vendor' = vendor

\* One message more on the control topic (publish_start and publish_stop).
LEMMA ControlAppended ==
    ASSUME control \in Seq(ControlMsg), NEW msg \in ControlMsg,
           control' = Append(control, msg)
    PROVE  /\ Len(control) <= Len(control')
           /\ \A i \in 1 .. Len(control) : control'[i] = control[i]
  OBVIOUS

\* A batch more, or a part of one, on the entity topic (publish and publish_loan).
LEMMA DataAppended ==
    ASSUME data \in Seq(Sample), NEW first \in Nat, NEW n \in 0 .. Messages,
           NEW test \in Nat, PublishBatch(first, n, test)
    PROVE  Len(data) <= Len(data')
  <1>1. n \in Nat
    BY WritersAssumption
  <1>2. Appended(first, n, test)
    BY <1>1, BatchAppended
  <1>3. Len(data') = Len(data) + n
    BY <1>2 DEF Appended
  <1> QED
    BY <1>1, <1>3

\* No step takes anything back that was written to a topic.
LEMMA TopicsGrow == IInv /\ [Next]_vars => Grows
  <1> SUFFICES ASSUME IInv, [Next]_vars PROVE Grows
    OBVIOUS
  <1>0. /\ control \in Seq(ControlMsg) /\ data \in Seq(Sample)
        /\ curTest \in Nat /\ entityId \in Nat /\ currentId \in Nat
    BY DEF IInv, TypeOK, WritersTypeOK
  <1>1. control' \in Seq(ControlMsg) /\ data' \in Seq(Sample)
    BY InvStep DEF IInv, TypeOK, WritersTypeOK
  <1>2. Len(data') \in Nat /\ vendor' = vendor
    BY <1>1, ConfigFixed
  <1>3. \/ control' = control
        \/ \E msg \in ControlMsg : control' = Append(control, msg)
    <2>0. StartMsg(curTest + 1) \in ControlMsg /\ StopMsg(curTest + 1) \in ControlMsg
      BY <1>0, MessageTypes
    <2>1. CASE ExecInit \/ CrashInInit \/ Update \/ Callback \/ UNCHANGED vars
      BY <2>1 DEF ExecInit, CrashInInit, Update, Callback, vars,
         OnDataMatched, OnDataUnmatched, OnControlMatched, OnControlUnmatched
    <2>2. CASE Read
      BY <2>0, <2>2 DEF Read, ReadIdle, ReadPause, ReadResume, ReadResetTest, ResetTest
    <2>3. CASE Write
      BY <2>0, <2>3, Zenon DEF Write, WriteSkip, WriteWarmUp, WriteAnnounce,
         WriteAnnounceCrash, WriteNormal, WriteLoan
    <2> QED
      BY <2>1, <2>2, <2>3 DEF Next, Main
  <1>4. /\ Len(control) <= Len(control')
        /\ \A i \in 1 .. Len(control) : control'[i] = control[i]
    BY <1>0, <1>3, ControlAppended
  <1>5. Len(data) <= Len(data')
    <2>1. CASE data' = data
      BY <1>0, <2>1
    <2>2. CASE WriteNormal
      <3>1. PICK n \in 0 .. Messages : PublishBatch(entityId, n, curTest + 1)
        BY <2>2, Zenon DEF WriteNormal
      <3> QED
        BY <1>0, <3>1, DataAppended
    <2>3. CASE WriteLoan
      <3>1. CASE FastPublishLoan(curTest + 1)
        <4>1. PICK n \in 0 .. Messages : PublishBatch(currentId, n, curTest + 1)
          BY <3>1, Zenon DEF FastPublishLoan
        <4> QED
          BY <1>0, <4>1, DataAppended
      <3>2. CASE OpenPublishLoan
        BY <2>1, <3>2 DEF OpenPublishLoan, dataTopic
      <3> QED
        BY <2>3, <3>1, <3>2 DEF WriteLoan, PublishLoan
    <2> QED
      BY <2>1, <2>2, <2>3, QuietSteps DEF Quiet, ExecInit, idVars, dataTopic
  <1> QED
    BY <1>1, <1>2, <1>4, <1>5 DEF Grows

------------------------------------------------------------------------------
(* What a step must leave alone for a part of the invariant to hold after   *)
(* it.                                                                      *)

\* The control reader is left alone (every call but poll_control).
LEMMA InboxKept ==
    ASSUME SubTypes, control \in Seq(ControlMsg), Grows, NEW t \in Subs,
           InboxInv(t), ctrlPos'[t] = ctrlPos[t], inbox'[t] = inbox[t]
    PROVE  InboxInv(t)' /\ Polled(t)' = Polled(t)
  <1>1. /\ ctrlPos[t] \in Nat /\ Len(inbox[t]) \in Nat
        /\ Len(control) \in Nat /\ Len(control') \in Nat
    BY DEF SubTypes, Grows
  <1>2. Polled(t)' = Polled(t)
    BY DEF Polled
  <1>3. ctrlPos'[t] <= Len(control')
    BY <1>1 DEF InboxInv, Grows
  <1>4. \A i \in 1 .. Len(inbox[t]) : inbox[t][i] = control'[Polled(t) + i]
    <2> SUFFICES ASSUME NEW i \in 1 .. Len(inbox[t])
                 PROVE  inbox[t][i] = control'[Polled(t) + i]
      OBVIOUS
    <2>1. Polled(t) + i \in 1 .. Len(control)
      BY <1>1 DEF InboxInv, Polled
    <2> QED
      BY <2>1 DEF InboxInv, Grows
  <1> QED
    BY <1>2, <1>3, <1>4 DEF InboxInv

\* The active test is left alone (every call but poll_control and reset_test).
LEMMA ActiveKept ==
    ASSUME NEW t \in Subs, ActiveInv(t), Polled(t)' = Polled(t),
           active'[t] = active[t], testId'[t] = testId[t],
           expected'[t] = expected[t],
           pc'[t] = "take" => pc[t] = "take" /\ sExec'[t] = sExec[t]
    PROVE  ActiveInv(t)'
  BY DEF ActiveInv

\* No run ends (every call but finish_test).
LEMMA ResultsKept ==
    ASSUME NEW t \in Subs, ResultsInv(t), Polled(t)' = Polled(t),
           results'[t] = results[t],
           active'[t] = active[t], testId'[t] = testId[t], vendor' = vendor
    PROVE  ResultsInv(t)'
  BY DEF ResultsInv

\* No run ends and the state of the executive stays.
LEMMA CountKept ==
    ASSUME NEW t \in Subs, CountInv(t),
           results'[t] = results[t], sExec'[t] = sExec[t]
    PROVE  CountInv(t)'
  BY DEF CountInv, SubTests

\* No entity is taken (every call but those of the take loop).
LEMMA EntitiesKept ==
    ASSUME SubTypes, data \in Seq(Sample), Grows, NEW t \in Subs,
           EntitiesInv(t), dataPos'[t] = dataPos[t],
           history'[t] = history[t], received'[t] = received[t],
           results'[t] = results[t], totalLost'[t] = totalLost[t]
    PROVE  EntitiesInv(t)'
  <1>1. dataPos[t] \in Nat /\ Len(data) \in Nat /\ Len(data') \in Nat
    BY DEF SubTypes, Grows
  <1>2. dataPos'[t] <= Len(data')
    BY <1>1 DEF EntitiesInv, Grows
  <1>3. vendor' = vendor
    BY DEF Grows
  <1> QED
    BY <1>2, <1>3 DEF EntitiesInv

\* Nothing happens to subscriber t but that the topics grow.
Untouched(t) ==
    /\ sExec'[t] = sExec[t] /\ pc'[t] = pc[t]
    /\ inbox'[t] = inbox[t] /\ history'[t] = history[t]
    /\ active'[t] = active[t] /\ testId'[t] = testId[t] /\ expected'[t] = expected[t]
    /\ received'[t] = received[t] /\ results'[t] = results[t]
    /\ totalLost'[t] = totalLost[t]
    /\ ctrlPos'[t] = ctrlPos[t] /\ dataPos'[t] = dataPos[t]

\* The steps of the publisher, of another subscriber and of its endpoints.
LEMMA SubKept ==
    ASSUME SubTypes, control \in Seq(ControlMsg), data \in Seq(Sample), Grows,
           NEW t \in Subs, SubInv(t), Untouched(t)
    PROVE  SubInv(t)'
  <1>1. InboxInv(t)' /\ Polled(t)' = Polled(t)
    BY InboxKept DEF SubInv, Untouched
  <1>2. ActiveInv(t)'
    BY <1>1, ActiveKept DEF SubInv, Untouched
  <1>3. ResultsInv(t)'
    BY <1>1, ResultsKept DEF SubInv, Untouched, Grows
  <1>4. CountInv(t)'
    BY CountKept DEF SubInv, Untouched
  <1>5. EntitiesInv(t)'
    BY EntitiesKept DEF SubInv, Untouched
  <1> QED
    BY <1>1, <1>2, <1>3, <1>4, <1>5 DEF SubInv

------------------------------------------------------------------------------
(* The steps of one subscriber.                                            *)

\* What the invariant says of the topics.
LEMMA TopicTypes ==
    StressInv => control \in Seq(ControlMsg) /\ data \in Seq(Sample)
  BY DEF StressInv, IInv, TypeOK, WritersTypeOK

\* Executive::init: the readers are there, or one of them is not.
LEMMA StartUpStep ==
    ASSUME StressInv, Grows, NEW s \in Subs, StartUp(s), UNCHANGED <<vars, links>>
    PROVE  /\ SubTypes'
           /\ SubInv(s)'
           /\ \A t \in Subs \ {s} : Untouched(t)
  <1>0. SubTypes /\ SubInv(s) /\ control \in Seq(ControlMsg) /\ data \in Seq(Sample)
    BY TopicTypes DEF StressInv
  <1>1. /\ sExec[s] = "INIT"
        /\ sExec' = [sExec EXCEPT ![s] = "EXECUTION"]
        /\ UNCHANGED <<pc, inbox, history, active, testId, expected, loanMode,
                       taken, received, results, totalLost,
                       ctrlLinked, dataLinked, ctrlPos, dataPos>>
    BY DEF StartUp, ctrlVars, runVars, links
  <1>2. readers' \in [Subs -> SUBSET {"data", "control"}]
    <2>1. /\ \A d \in DataReaderInit : d \subseteq {"data"}
          /\ \A c \in ControlReaderInit : c \subseteq {"control"}
      <3>1. vendor \in {"FastDDS", "OpenDDS", "CycloneDDS"}
        BY VendorsAssumption DEF StressInv, IInv, TypeOK
      <3> QED
        BY <3>1
        DEF DataReaderInit, ControlReaderInit,
            FastDataReaderInit, OpenDataReaderInit, CycloneDataReaderInit,
            FastControlReaderInit, OpenControlReaderInit, CycloneControlReaderInit
    <2>2. PICK d \in DataReaderInit, c \in ControlReaderInit :
            readers' = [readers EXCEPT ![s] = d \cup c]
      BY DEF StartUp
    <2>3. d \cup c \in SUBSET {"data", "control"}
      BY <2>1
    <2> QED
      BY <1>0, <2>2, <2>3 DEF SubTypes
  <1>3. SubTypes'
    BY <1>0, <1>1, <1>2 DEF SubTypes
  <1>4. InboxInv(s)' /\ Polled(s)' = Polled(s)
    BY <1>0, <1>1, InboxKept DEF SubInv
  <1>5. ActiveInv(s)'
    BY <1>0, <1>1, <1>4 DEF SubInv, SubTypes, ActiveInv
  <1>6. ResultsInv(s)'
    BY <1>0, <1>1, <1>4, ResultsKept DEF SubInv, Grows
  <1>7. CountInv(s)'
    <2>1. results[s] = <<>> /\ sExec'[s] = "EXECUTION" /\ results'[s] = results[s]
      BY <1>0, <1>1 DEF SubInv, SubTypes, CountInv
    <2>2. SubTests >= 1
      BY SubMaxTestAssumption DEF SubTests
    <2>3. SubTests \in Nat
      BY SubMaxTestAssumption DEF SubTests
    <2> QED
      BY <2>1, <2>2, <2>3 DEF CountInv, SubTests
  <1>8. EntitiesInv(s)'
    BY <1>0, <1>1, EntitiesKept DEF SubInv
  <1>9. \A t \in Subs \ {s} : Untouched(t)
    BY <1>0, <1>1 DEF SubTypes, Untouched
  <1> QED
    BY <1>3, <1>4, <1>5, <1>6, <1>7, <1>8, <1>9 DEF SubInv

\* A null reader or an exception ends the process wherever it was.
LEMMA CrashStep ==
    ASSUME StressInv, Grows, NEW s \in Subs,
           CrashAtStart(s) \/ CrashInPoll(s) \/ CrashInRun(s), UNCHANGED <<vars, links>>
    PROVE  /\ SubTypes'
           /\ SubInv(s)'
           /\ \A t \in Subs \ {s} : Untouched(t)
  <1>0. SubTypes /\ SubInv(s) /\ control \in Seq(ControlMsg) /\ data \in Seq(Sample)
    BY TopicTypes DEF StressInv
  <1>1. /\ pc' = [pc EXCEPT ![s] = "crashed"]
        /\ UNCHANGED <<sExec, readers, inbox, history, active, testId, expected, loanMode,
                       taken, received, results, totalLost,
                       ctrlLinked, dataLinked, ctrlPos, dataPos>>
    BY DEF CrashAtStart, CrashInPoll, CrashInRun, ctrlVars, runVars, links
  <1>2. SubTypes'
    BY <1>0, <1>1 DEF SubTypes
  <1>3. InboxInv(s)' /\ Polled(s)' = Polled(s)
    BY <1>0, <1>1, InboxKept DEF SubInv
  <1>4. ActiveInv(s)'
    <2>1. pc'[s] = "crashed"
      BY <1>0, <1>1 DEF SubTypes
    <2> QED
      BY <1>0, <1>1, <1>3, <2>1, ActiveKept DEF SubInv
  <1>5. ResultsInv(s)'
    BY <1>0, <1>1, <1>3, ResultsKept DEF SubInv, Grows
  <1>6. CountInv(s)'
    BY <1>0, <1>1, CountKept DEF SubInv
  <1>7. EntitiesInv(s)'
    BY <1>0, <1>1, EntitiesKept DEF SubInv
  <1>8. \A t \in Subs \ {s} : Untouched(t)
    BY <1>0, <1>1 DEF SubTypes, Untouched
  <1> QED
    BY <1>2, <1>3, <1>4, <1>5, <1>6, <1>7, <1>8 DEF SubInv

\* What poll_control finds last is the message that the publisher's schedule
\* foresees at this place.
LEMMA LastIsScheduled ==
    ASSUME StressInv, NEW s \in Subs, inbox[s] # <<>>
    PROVE  /\ Len(inbox[s]) \in 1 .. ctrlPos[s]
           /\ inbox[s][Len(inbox[s])] \in ControlMsg
           /\ inbox[s][Len(inbox[s])] = ScheduledMsg(ctrlPos[s])
  <1>0. SubTypes /\ InboxInv(s) /\ control \in Seq(ControlMsg) /\ ControlAlternates
    BY TopicTypes DEF StressInv, SubInv, IInv
  <1>1. inbox[s] \in Seq(ControlMsg) /\ ctrlPos[s] \in Nat
    BY <1>0 DEF SubTypes
  <1>2. Len(inbox[s]) \in 1 .. ctrlPos[s] /\ ctrlPos[s] \in 1 .. Len(control)
    BY <1>0, <1>1 DEF InboxInv
  <1>3. Polled(s) + Len(inbox[s]) = ctrlPos[s]
    BY <1>1, <1>2 DEF Polled
  <1>4. inbox[s][Len(inbox[s])] = control[ctrlPos[s]]
    BY <1>0, <1>1, <1>2, <1>3 DEF InboxInv
  <1>5. inbox[s][Len(inbox[s])] \in ControlMsg
    BY <1>1, <1>2
  <1> QED
    BY <1>0, <1>2, <1>4, <1>5 DEF ControlAlternates

\* poll_control takes all that is there; a START that comes last makes its test
\* the active one, and all runs so far were of tests before it.
LEMMA PollStep ==
    ASSUME StressInv, Grows, NEW s \in Subs, Poll(s), UNCHANGED <<vars, links>>
    PROVE  /\ SubTypes'
           /\ SubInv(s)'
           /\ \A t \in Subs \ {s} : Untouched(t)
  <1> DEFINE last == inbox[s][Len(inbox[s])]
  <1>0. SubTypes /\ SubInv(s) /\ control \in Seq(ControlMsg) /\ data \in Seq(Sample)
    BY TopicTypes DEF StressInv
  <1>1. /\ InRead(s)
        /\ inbox[s] # <<>>
        /\ testId' = [testId EXCEPT ![s] = last.test]
        /\ expected' = [expected EXCEPT ![s] = last.expected]
        /\ active' = [active EXCEPT ![s] = last.start]
        /\ loanMode' = [loanMode EXCEPT ![s] = last.loan]
        /\ inbox' = [inbox EXCEPT ![s] = <<>>]
        /\ UNCHANGED <<sExec, pc, readers, history, taken, received, results, totalLost,
                       ctrlLinked, dataLinked, ctrlPos, dataPos>>
    BY DEF Poll, Reading, runVars, links
  <1>2. /\ Len(inbox[s]) \in 1 .. ctrlPos[s]
        /\ last \in ControlMsg
        /\ last = ScheduledMsg(ctrlPos[s])
    BY <1>1, LastIsScheduled
  <1> HIDE DEF last
  <1>3. /\ last.test \in Nat /\ last.start \in BOOLEAN
        /\ last.expected \in {0, Messages} /\ last.loan \in BOOLEAN
    BY <1>2 DEF ControlMsg
  <1>4. /\ inbox'[s] = <<>> /\ testId'[s] = last.test
        /\ expected'[s] = last.expected /\ active'[s] = last.start
    BY <1>0, <1>1 DEF SubTypes
  <1>5. ctrlPos[s] \in Nat /\ Len(inbox[s]) \in Nat
    BY <1>0 DEF SubTypes
  <1>6. Polled(s)' = ctrlPos[s] /\ Polled(s) < Polled(s)' /\ Polled(s) \in Nat
    <2>1. Len(inbox'[s]) = 0
      BY <1>4
    <2> QED
      BY <1>1, <1>2, <1>5, <2>1 DEF Polled
  <1>7. last.start => Polled(s)' + 1 = 2 * last.test /\ last.expected = Messages
    <2>1. CASE ctrlPos[s] % 2 = 1
      <3>1. last = StartMsg((ctrlPos[s] + 1) \div 2)
        BY <1>2, <2>1 DEF ScheduledMsg
      <3>2. last.test = (ctrlPos[s] + 1) \div 2 /\ last.expected = Messages
        BY <3>1 DEF StartMsg
      <3>3. ctrlPos[s] + 1 = 2 * ((ctrlPos[s] + 1) \div 2)
        BY <1>5, <2>1
      <3> QED
        BY <1>6, <3>2, <3>3
    <2>2. CASE ctrlPos[s] % 2 # 1
      <3>1. last = StopMsg(ctrlPos[s] \div 2)
        BY <1>2, <2>2 DEF ScheduledMsg
      <3> QED
        BY <3>1 DEF StopMsg
    <2> QED
      BY <2>1, <2>2
  <1>8. SubTypes'
    BY <1>0, <1>1, <1>3 DEF SubTypes
  <1>9. InboxInv(s)'
    BY <1>0, <1>1, <1>4, <1>5 DEF SubInv, InboxInv, Grows
  <1>10. ActiveInv(s)'
    BY <1>0, <1>1, <1>4, <1>7 DEF ActiveInv, InRead
  <1>11. ResultsInv(s)'
    <2>0. ResultsInv(s) /\ results'[s] = results[s] /\ results[s] \in Seq(Result)
      BY <1>0, <1>1 DEF SubInv, SubTypes
    <2>1. ASSUME NEW i \in 1 .. Len(results[s])
          PROVE  /\ vendor # "OpenDDS" => results[s][i].expected = Messages
                 /\ results[s][i].lost <= Messages
                 /\ results[s][i].test >= 1
                 /\ 2 * results[s][i].test - 1 <= Polled(s)'
                 /\ last.start => results[s][i].test < last.test
      <3>0. results[s][i] \in Result
        BY <2>0
      <3>1. results[s][i].test \in Nat
        BY <3>0 DEF Result
      <3>2. 2 * results[s][i].test - 1 <= Polled(s)
        BY <2>0 DEF ResultsInv
      <3>3. 2 * results[s][i].test - 1 < Polled(s)' /\ Polled(s)' \in Nat
        BY <1>5, <1>6, <3>1, <3>2
      <3>4. last.start => results[s][i].test < last.test
        BY <1>3, <1>7, <3>1, <3>3
      <3> QED
        BY <2>0, <3>1, <3>3, <3>4 DEF ResultsInv
    <2> QED
      BY <1>4, <2>0, <2>1 DEF ResultsInv, Grows
  <1>12. CountInv(s)'
    BY <1>0, <1>1, CountKept DEF SubInv
  <1>13. EntitiesInv(s)'
    BY <1>0, <1>1, EntitiesKept DEF SubInv
  <1>14. \A t \in Subs \ {s} : Untouched(t)
    BY <1>0, <1>1 DEF SubTypes, Untouched
  <1> QED
    BY <1>8, <1>9, <1>10, <1>11, <1>12, <1>13, <1>14 DEF SubInv

\* read() with an active test and nothing to poll: reset_samples, then the loop.
\* No entity is forgotten here that a run has taken.
LEMMA BeginTestStep ==
    ASSUME StressInv, Grows, NEW s \in Subs, BeginTest(s), UNCHANGED <<vars, links>>
    PROVE  /\ SubTypes'
           /\ SubInv(s)'
           /\ \A t \in Subs \ {s} : Untouched(t)
  <1>0. SubTypes /\ SubInv(s) /\ control \in Seq(ControlMsg) /\ data \in Seq(Sample)
    BY TopicTypes DEF StressInv
  <1>1. /\ InRead(s) /\ active[s]
        /\ pc' = [pc EXCEPT ![s] = "take"]
        /\ taken' = [taken EXCEPT ![s] = 0]
        /\ received' = [received EXCEPT ![s] = {}]
        /\ UNCHANGED <<sExec, readers, inbox, history, active, testId, expected, loanMode,
                       results, totalLost, ctrlLinked, dataLinked, ctrlPos, dataPos>>
    BY DEF BeginTest, Reading, ctrlVars, links
  <1>2. SubTypes'
    BY <1>0, <1>1 DEF SubTypes
  <1>3. InboxInv(s)' /\ Polled(s)' = Polled(s)
    BY <1>0, <1>1, InboxKept DEF SubInv
  <1>4. ActiveInv(s)'
    BY <1>0, <1>1, <1>3 DEF SubInv, ActiveInv, InRead
  <1>5. ResultsInv(s)'
    BY <1>0, <1>1, <1>3, ResultsKept DEF SubInv, Grows
  <1>6. CountInv(s)'
    BY <1>0, <1>1, CountKept DEF SubInv
  <1>7. EntitiesInv(s)'
    <2>1. received'[s] = {} /\ history'[s] = history[s] /\ dataPos'[s] = dataPos[s]
      BY <1>0, <1>1 DEF SubTypes
    <2>2. IsFiniteSet({}) /\ Cardinality({}) = 0
      BY FS_EmptySet
    <2>3. IsFiniteSet(history[s]) /\ IsFiniteSet(received[s]) /\ EntitiesInv(s)
      BY <1>0 DEF SubInv, EntitiesInv
    <2>4. Cardinality(received[s]) \in Nat /\ Cardinality(history[s]) \in Nat
      BY <2>3, FS_CardinalityType
    <2>5. Messages * Len(results[s]) - totalLost[s] \in Int /\ dataPos[s] \in Nat
      BY <1>0, WritersAssumption DEF SubTypes
    <2>6. dataPos[s] <= Len(data') /\ vendor' = vendor
      BY <1>0, <2>3, <2>5 DEF Grows, EntitiesInv
    <2>7. vendor # "OpenDDS" =>
            Messages * Len(results[s]) - totalLost[s] + 0 + Cardinality(history[s])
                <= dataPos[s]
      <3> DEFINE m == Messages * Len(results[s]) - totalLost[s]
      <3>1. vendor # "OpenDDS" =>
              m + Cardinality(received[s]) + Cardinality(history[s]) <= dataPos[s]
        BY <2>3 DEF EntitiesInv
      <3>2. m \in Int
        BY <2>5
      <3> HIDE DEF m
      <3>3. vendor # "OpenDDS" => m + 0 + Cardinality(history[s]) <= dataPos[s]
        BY <2>4, <2>5, <3>1, <3>2
      <3> QED
        BY <3>3 DEF m
    <2> QED
      BY <1>1, <2>1, <2>2, <2>3, <2>6, <2>7 DEF EntitiesInv
  <1>8. \A t \in Subs \ {s} : Untouched(t)
    BY <1>0, <1>1 DEF SubTypes, Untouched
  <1> QED
    BY <1>2, <1>3, <1>4, <1>5, <1>6, <1>7, <1>8 DEF SubInv

\* One entity more in a finite set of entities counts as at most one more.
LEMMA AddOne ==
    ASSUME NEW S, NEW x, IsFiniteSet(S)
    PROVE  /\ IsFiniteSet(S \cup {x})
           /\ \/ Cardinality(S \cup {x}) = Cardinality(S)
              \/ Cardinality(S \cup {x}) = Cardinality(S) + 1
  <1>1. CASE x \in S
    <2>1. S \cup {x} = S
      BY <1>1
    <2> QED
      BY <2>1, Zenon
  <1>2. CASE x \notin S
    <2>1. IsFiniteSet(S \cup {x})
      BY FS_AddElement, Zenon
    <2>2. Cardinality(S \cup {x}) = IF x \in S THEN Cardinality(S) ELSE Cardinality(S) + 1
      BY FS_AddElement, Zenon
    <2>3. Cardinality(S \cup {x}) = Cardinality(S) + 1
      BY <1>2, <2>2, Zenon
    <2> QED
      BY <2>1, <2>3, Zenon
  <1> QED
    BY <1>1, <1>2, Zenon

\* An entity taken out of a finite set that holds it counts as one less.
LEMMA RemoveOne ==
    ASSUME NEW S, NEW x \in S, IsFiniteSet(S)
    PROVE  IsFiniteSet(S \ {x}) /\ Cardinality(S \ {x}) = Cardinality(S) - 1
  <1>1. IsFiniteSet(S \ {x})
    BY FS_RemoveElement, Zenon
  <1>2. Cardinality(S \ {x}) = IF x \in S THEN Cardinality(S) - 1 ELSE Cardinality(S)
    BY FS_RemoveElement, Zenon
  <1> QED
    BY <1>1, <1>2, Zenon

\* One iteration of the loop moves an entity from the reader to the run: it is
\* taken, so it cannot be counted again.
LEMMA TakeStep ==
    ASSUME StressInv, Grows, NEW s \in Subs, Take(s), UNCHANGED <<vars, links>>
    PROVE  /\ SubTypes'
           /\ SubInv(s)'
           /\ \A t \in Subs \ {s} : Untouched(t)
  <1>0. SubTypes /\ SubInv(s) /\ control \in Seq(ControlMsg) /\ data \in Seq(Sample)
    BY TopicTypes DEF StressInv
  <1>1. PICK x \in history[s] :
          /\ history' = [history EXCEPT ![s] = @ \ {x}]
          /\ received' = [received EXCEPT ![s] = @ \cup {x}]
    BY Zenon DEF Take
  <1>2. /\ taken' = [taken EXCEPT ![s] = @ + 1]
        /\ UNCHANGED <<sExec, pc, readers, inbox, active, testId, expected, loanMode,
                       results, totalLost, ctrlLinked, dataLinked, ctrlPos, dataPos>>
    BY DEF Take, ctrlVars, links
  <1>3. x \in Sample
    BY <1>0 DEF SubTypes
  <1>4. SubTypes'
    BY <1>0, <1>1, <1>2, <1>3 DEF SubTypes
  <1>5. InboxInv(s)' /\ Polled(s)' = Polled(s)
    BY <1>0, <1>2, InboxKept DEF SubInv
  <1>6. ActiveInv(s)'
    BY <1>0, <1>2, <1>5, ActiveKept DEF SubInv
  <1>7. ResultsInv(s)'
    BY <1>0, <1>2, <1>5, ResultsKept DEF SubInv, Grows
  <1>8. CountInv(s)'
    BY <1>0, <1>2, CountKept DEF SubInv
  <1>9. EntitiesInv(s)'
    <2>1. /\ history'[s] = history[s] \ {x}
          /\ received'[s] = received[s] \cup {x}
          /\ dataPos'[s] = dataPos[s]
      BY <1>0, <1>1, <1>2 DEF SubTypes
    <2>2. IsFiniteSet(history[s]) /\ IsFiniteSet(received[s]) /\ EntitiesInv(s)
      BY <1>0 DEF SubInv, EntitiesInv
    <2>3. /\ IsFiniteSet(history'[s])
          /\ Cardinality(history'[s]) = Cardinality(history[s]) - 1
      <3>1. /\ IsFiniteSet(history[s] \ {x})
            /\ Cardinality(history[s] \ {x}) = Cardinality(history[s]) - 1
        BY <2>2, RemoveOne, Zenon
      <3> QED
        BY <2>1, <3>1, Zenon
    <2>4. /\ IsFiniteSet(received'[s])
          /\ \/ Cardinality(received'[s]) = Cardinality(received[s])
             \/ Cardinality(received'[s]) = Cardinality(received[s]) + 1
      <3>1. /\ IsFiniteSet(received[s] \cup {x})
            /\ \/ Cardinality(received[s] \cup {x}) = Cardinality(received[s])
               \/ Cardinality(received[s] \cup {x}) = Cardinality(received[s]) + 1
        BY <2>2, AddOne, Zenon
      <3> QED
        BY <2>1, <3>1, Zenon
    <2>5. Cardinality(received[s]) \in Nat /\ Cardinality(history[s]) \in Nat
      BY <2>2, FS_CardinalityType
    <2> DEFINE m == Messages * Len(results[s]) - totalLost[s]
    <2>6. m \in Int /\ dataPos[s] \in Nat
      BY <1>0, WritersAssumption DEF SubTypes
    <2>7. dataPos[s] <= Len(data') /\ vendor' = vendor
      BY <1>0, <2>2, <2>6 DEF Grows, EntitiesInv
    <2>8. vendor # "OpenDDS" =>
            m + Cardinality(received[s]) + Cardinality(history[s]) <= dataPos[s]
      BY <2>2 DEF EntitiesInv
    <2> HIDE DEF m
    <2>9. vendor # "OpenDDS" =>
            m + Cardinality(received'[s]) + Cardinality(history'[s]) <= dataPos[s]
      BY <2>3, <2>4, <2>5, <2>6, <2>8
    <2> QED
      BY <1>2, <2>1, <2>3, <2>4, <2>7, <2>9 DEF EntitiesInv, m
  <1>10. \A t \in Subs \ {s} : Untouched(t)
    BY <1>0, <1>1, <1>2 DEF SubTypes, Untouched
  <1> QED
    BY <1>4, <1>5, <1>6, <1>7, <1>8, <1>9, <1>10 DEF SubInv

\* A run received at most as many ids as entities: received_ids merges entities of
\* two batches that carry the same key.
LEMMA IdsOfReceived ==
    ASSUME NEW s \in Subs, IsFiniteSet(received[s])
    PROVE  /\ Cardinality(ReceivedIds(s)) \in Nat
           /\ Cardinality(received[s]) \in Nat
           /\ Cardinality(ReceivedIds(s)) <= Cardinality(received[s])
  <1> DEFINE f == [x \in received[s] |-> x.id]
  <1>1. f \in [received[s] -> ReceivedIds(s)]
    BY DEF ReceivedIds
  <1>2. \A k \in ReceivedIds(s) : \E x \in received[s] : f[x] = k
    BY DEF ReceivedIds
  <1>3. f \in Surjection(received[s], ReceivedIds(s))
    BY <1>1, <1>2 DEF Surjection
  <1> HIDE DEF f
  <1>4. /\ IsFiniteSet(ReceivedIds(s))
        /\ Cardinality(ReceivedIds(s)) <= Cardinality(received[s])
    BY <1>3, FS_Surjection
  <1> QED
    BY <1>4, FS_CardinalityType

\* What a run reports as lost: what it was announced with less the ids it received,
\* except for OpenSub, which expects nothing.
LEMMA LostFact ==
    ASSUME SubTypes, NEW s \in Subs, IsFiniteSet(received[s]), ActiveInv(s), active[s]
    PROVE  /\ LostInRun(s) \in Int
           /\ LostInRun(s) <= Messages
           /\ vendor # "OpenDDS" =>
                LostInRun(s) = Messages - Cardinality(ReceivedIds(s))
  <1>1. Cardinality(ReceivedIds(s)) \in Nat /\ Messages \in Nat
    BY IdsOfReceived, WritersAssumption
  <1>2. expected[s] = Messages
    BY DEF ActiveInv
  <1>3. Expected(s) = Messages \/ Expected(s) = 0
    BY <1>2 DEF Expected, OpenExpected
  <1>4. LostInRun(s) = 0 \/ LostInRun(s) = Expected(s) - Cardinality(ReceivedIds(s))
    BY DEF LostInRun
  <1>5. vendor # "OpenDDS" =>
          LostInRun(s) = Messages - Cardinality(ReceivedIds(s))
    <2> SUFFICES ASSUME vendor # "OpenDDS"
                 PROVE  LostInRun(s) = Messages - Cardinality(ReceivedIds(s))
      OBVIOUS
    <2>1. Expected(s) = Messages
      BY <1>2 DEF Expected
    <2>2. AllReceived(s) <=> Cardinality(ReceivedIds(s)) = Messages
      BY <2>1, Zenon DEF AllReceived, FastAllReceived
    <2> QED
      BY <1>1, <2>1, <2>2 DEF LostInRun
  <1> QED
    BY <1>1, <1>3, <1>4, <1>5

\* What is handed to finish_test is a verdict on the active test.
LEMMA VerdictType ==
    ASSUME StressInv, NEW s \in Subs, pc[s] = "take"
    PROVE  /\ RunResult(s) \in Result
           /\ vendor # "OpenDDS" => RunResult(s).expected = Messages
           /\ RunResult(s).lost <= Messages
           /\ RunResult(s).test = testId[s]
  <1>1. SubTypes /\ ActiveInv(s) /\ IsFiniteSet(received[s])
    BY DEF StressInv, SubInv, EntitiesInv
  <1>2. active[s] /\ expected[s] = Messages /\ testId[s] \in Nat
    BY <1>1 DEF ActiveInv, SubTypes
  <1>3. LostInRun(s) \in Int /\ LostInRun(s) <= Messages
    BY <1>1, <1>2, LostFact
  <1>4. {x.test : x \in received[s]} \in SUBSET Nat
    BY <1>1 DEF SubTypes, Sample
  <1>5. AllReceived(s) \in BOOLEAN
    BY Zenon DEF AllReceived, OpenAllReceived, FastAllReceived
  <1>6. /\ Expected(s) \in Nat
        /\ vendor # "OpenDDS" => Expected(s) = Messages
    BY <1>2, WritersAssumption DEF Expected, OpenExpected
  <1> QED
    BY <1>2, <1>3, <1>4, <1>5, <1>6 DEF RunResult, Result

\* finish_test: the verdict comes after all the earlier ones, of a later test.
LEMMA ResultsAppended ==
    ASSUME NEW s \in Subs, ResultsInv(s), results[s] \in Seq(Result),
           active[s], testId[s] \in Nat, testId[s] >= 1,
           Polled(s) + 1 = 2 * testId[s],
           NEW r \in Result,
           vendor # "OpenDDS" => r.expected = Messages, vendor' = vendor,
           r.lost <= Messages, r.test = testId[s],
           results'[s] = Append(results[s], r),
           ~active'[s], Polled(s)' = Polled(s)
    PROVE  ResultsInv(s)'
  <1> DEFINE old == results[s]
             new == results'[s]
             n   == Len(results[s])
  <1>1. n \in Nat /\ Len(new) = n + 1
    OBVIOUS
  <1>2. \A i \in 1 .. n : new[i] = old[i]
    OBVIOUS
  <1>3. new[n + 1] = r
    OBVIOUS
  <1>4. \A i \in 1 .. n : old[i].test \in Nat
    <2>1. \A i \in 1 .. n : old[i] \in Result
      OBVIOUS
    <2> QED
      BY <2>1 DEF Result
  <1>5. \A i \in 1 .. n :
          /\ vendor # "OpenDDS" => old[i].expected = Messages
          /\ old[i].lost <= Messages
          /\ old[i].test >= 1
          /\ 2 * old[i].test - 1 <= Polled(s)
          /\ old[i].test < testId[s]
    BY DEF ResultsInv
  <1>6. \A i, j \in 1 .. n : i < j => old[j].test - old[i].test >= j - i
    BY DEF ResultsInv
  <1> HIDE DEF old, new, n
  <1>7. \A i \in 1 .. n + 1 : i \in 1 .. n \/ i = n + 1
    BY <1>1
  <1>8. 2 * r.test - 1 <= Polled(s)
    <2> DEFINE p == Polled(s)
    <2>1. p + 1 = 2 * testId[s] /\ p = ctrlPos[s] - Len(inbox[s])
      BY DEF Polled
    <2> HIDE DEF p
    <2>2. r.test = testId[s]
      OBVIOUS
    <2>3. 2 * testId[s] - 1 <= p
      BY <2>1
    <2> QED
      BY <2>2, <2>3 DEF p
  <1>9. \A i \in 1 .. n + 1 :
          /\ vendor # "OpenDDS" => new[i].expected = Messages
          /\ new[i].lost <= Messages
          /\ new[i].test >= 1
          /\ 2 * new[i].test - 1 <= Polled(s)
    BY <1>2, <1>3, <1>5, <1>7, <1>8
  <1>10. \A i, j \in 1 .. n + 1 : i < j => new[j].test - new[i].test >= j - i
    <2> SUFFICES ASSUME NEW i \in 1 .. n + 1, NEW j \in 1 .. n + 1, i < j
                 PROVE  new[j].test - new[i].test >= j - i
      OBVIOUS
    <2>1. i \in 1 .. n
      BY <1>1
    <2>2. CASE j \in 1 .. n
      BY <1>2, <1>6, <2>1, <2>2
    <2>3. CASE j = n + 1
      <3>1. new[i] = old[i] /\ new[j].test = testId[s]
        BY <1>2, <1>3, <2>1, <2>3
      <3>2. old[i].test \in Nat /\ old[i].test < testId[s]
        BY <1>4, <1>5, <2>1
      <3>3. CASE i = n
        BY <1>1, <2>3, <3>1, <3>2, <3>3
      <3>4. CASE i < n
        <4>0. n \in 1 .. n
          BY <1>1, <2>1
        <4>1. n \in 1 .. n /\ old[n].test \in Nat /\ old[n].test < testId[s]
          BY <1>4, <1>5, <4>0, Zenon
        <4>2. old[n].test - old[i].test >= n - i
          BY <1>6, <2>1, <3>4, <4>1
        <4> DEFINE a == old[i].test
                   b == old[n].test
                   c == testId[s]
        <4>3. a \in Nat /\ b \in Nat /\ c \in Nat /\ b < c /\ b - a >= n - i
          BY <3>2, <4>1, <4>2
        <4>4. new[j].test - new[i].test = c - a
          BY <3>1, Zenon
        <4> HIDE DEF a, b, c
        <4>5. c - a >= j - i
          BY <1>1, <2>1, <2>3, <4>3
        <4> QED
          BY <4>4, <4>5, Zenon
      <3> QED
        BY <1>1, <2>1, <3>3, <3>4
    <2> QED
      BY <1>7, <2>2, <2>3
  <1>11. Len(results'[s]) = n + 1
    BY <1>1 DEF new
  <1> QED
    BY <1>9, <1>10, <1>11 DEF ResultsInv, new

\* The end of a run: what was received, or counted as lost, is off the books; the
\* run is counted, and the end is asked for with the last one.
LEMMA FinishRunStep ==
    ASSUME StressInv, Grows, NEW s \in Subs, FinishRun(s), UNCHANGED <<vars, links>>
    PROVE  /\ SubTypes'
           /\ SubInv(s)'
           /\ \A t \in Subs \ {s} : Untouched(t)
  <1> DEFINE r == RunResult(s)
  <1>0. SubTypes /\ SubInv(s) /\ control \in Seq(ControlMsg) /\ data \in Seq(Sample)
    BY TopicTypes DEF StressInv
  <1>1. /\ pc[s] = "take"
        /\ results' = [results EXCEPT ![s] = Append(@, r)]
        /\ totalLost' = [totalLost EXCEPT ![s] = @ + LostInRun(s)]
        /\ sExec' = IF Len(results[s]) + 1 >= SubMaxTest
                    THEN [sExec EXCEPT ![s] = "END"] ELSE sExec
        /\ active' = [active EXCEPT ![s] = FALSE]
        /\ pc' = [pc EXCEPT ![s] = "read"]
        /\ received' = [received EXCEPT ![s] = {}]
        /\ taken' = [taken EXCEPT ![s] = 0]
        /\ UNCHANGED <<readers, inbox, history, testId, expected, loanMode,
                       ctrlLinked, dataLinked, ctrlPos, dataPos>>
    BY Zenon DEF FinishRun, ReportRun, links
  <1>2. /\ active[s] /\ sExec[s] = "EXECUTION" /\ expected[s] = Messages
        /\ Polled(s) + 1 = 2 * testId[s]
    BY <1>0, <1>1 DEF SubInv, ActiveInv
  <1>3. /\ IsFiniteSet(history[s]) /\ IsFiniteSet(received[s])
        /\ Cardinality(history[s]) \in Nat
        /\ Cardinality(received[s]) \in Nat
        /\ Cardinality(ReceivedIds(s)) \in Nat
        /\ Cardinality(ReceivedIds(s)) <= Cardinality(received[s])
    BY <1>0, FS_CardinalityType, IdsOfReceived DEF SubInv, EntitiesInv
  <1>4. /\ LostInRun(s) \in Int
        /\ LostInRun(s) <= Messages
        /\ vendor # "OpenDDS" =>
             LostInRun(s) = Messages - Cardinality(ReceivedIds(s))
    BY <1>0, <1>2, <1>3, LostFact DEF SubInv
  <1>5. /\ testId[s] \in Nat /\ ctrlPos[s] \in Nat /\ Len(inbox[s]) \in Nat
        /\ results[s] \in Seq(Result) /\ totalLost[s] \in Int /\ dataPos[s] \in Nat
    BY <1>0 DEF SubTypes
  <1>6. r \in Result
    BY <1>1, VerdictType
  <1>7. /\ vendor # "OpenDDS" => r.expected = Messages
        /\ r.lost <= Messages /\ r.test = testId[s]
    BY <1>1, VerdictType
  <1> HIDE DEF r
  <1>8. SubTypes'
    <2>1. sExec' \in [Subs -> {"INIT", "EXECUTION", "END"}]
      BY <1>0, <1>1 DEF SubTypes
    <2>2. results' \in [Subs -> Seq(Result)]
      BY <1>0, <1>1, <1>5, <1>6 DEF SubTypes
    <2>3. totalLost' \in [Subs -> Int]
      BY <1>0, <1>1, <1>4, <1>5 DEF SubTypes
    <2> QED
      BY <1>0, <1>1, <2>1, <2>2, <2>3 DEF SubTypes
  <1>9. /\ results'[s] = Append(results[s], r)
        /\ totalLost'[s] = totalLost[s] + LostInRun(s)
        /\ ~active'[s] /\ pc'[s] = "read" /\ received'[s] = {}
        /\ history'[s] = history[s] /\ dataPos'[s] = dataPos[s]
    BY <1>0, <1>1 DEF SubTypes
  <1>10. Len(results'[s]) = Len(results[s]) + 1
    BY <1>5, <1>9
  <1>11. InboxInv(s)' /\ Polled(s)' = Polled(s)
    BY <1>0, <1>1, InboxKept DEF SubInv
  <1>12. ActiveInv(s)'
    BY <1>9 DEF ActiveInv
  <1>13. ResultsInv(s)'
    <2>1. testId[s] >= 1
      <3>1. Polled(s) >= 0 /\ Polled(s) \in Int
        BY <1>0, <1>5 DEF SubInv, InboxInv, Polled
      <3> QED
        BY <1>2, <1>5, <3>1
    <2> QED
      BY <1>0, <1>2, <1>5, <1>6, <1>7, <1>9, <1>11, <2>1, ResultsAppended DEF SubInv, Grows
  <1>14. CountInv(s)'
    <2>1. Len(results[s]) < SubTests /\ Len(results[s]) \in Nat
      BY <1>0, <1>2, <1>5 DEF SubInv, CountInv
    <2>2. CASE Len(results[s]) + 1 >= SubMaxTest
      <3>1. sExec'[s] = "END"
        BY <1>0, <1>1, <2>2 DEF SubTypes
      <3>2. Len(results'[s]) = SubTests
        BY <1>10, <2>1, <2>2, SubMaxTestAssumption DEF SubTests
      <3> QED
        BY <3>1, <3>2 DEF CountInv, SubTests
    <2>3. CASE ~(Len(results[s]) + 1 >= SubMaxTest)
      <3>1. sExec'[s] = "EXECUTION"
        BY <1>1, <1>2, <2>3
      <3>2. Len(results'[s]) < SubTests
        BY <1>10, <2>1, <2>3, SubMaxTestAssumption DEF SubTests
      <3> QED
        BY <3>1, <3>2 DEF CountInv, SubTests
    <2> QED
      BY <2>2, <2>3
  <1>15. EntitiesInv(s)'
    <2>1. IsFiniteSet({}) /\ Cardinality({}) = 0
      BY FS_EmptySet
    <2>2. dataPos[s] <= Len(data') /\ vendor' = vendor
      BY <1>0, <1>5 DEF Grows, SubInv, EntitiesInv
    <2> DEFINE n == Len(results[s])
               h == Cardinality(history[s])
               c == Cardinality(received[s])
               lost == LostInRun(s)
    <2>3. vendor # "OpenDDS" => Messages * n - totalLost[s] + c + h <= dataPos[s]
      BY <1>0 DEF SubInv, EntitiesInv
    <2>4. /\ n \in Nat /\ h \in Nat /\ c \in Nat /\ lost \in Int /\ Messages \in Nat
          /\ vendor # "OpenDDS" => Messages - lost <= c
      BY <1>3, <1>4, <1>5, WritersAssumption
    <2>5. Len(results'[s]) = n + 1 /\ totalLost'[s] = totalLost[s] + lost
      BY <1>9, <1>10
    <2> HIDE DEF n, c, lost
    <2>6. Messages * (n + 1) = Messages * n + Messages /\ Messages * n \in Int
      BY <2>4
    <2>7. vendor # "OpenDDS" =>
            Messages * (n + 1) - (totalLost[s] + lost) + 0 + h <= dataPos[s]
      <3> HIDE DEF h
      <3> QED
        BY <1>5, <2>3, <2>4, <2>6
    <2> QED
      BY <1>3, <1>9, <2>1, <2>2, <2>5, <2>7 DEF EntitiesInv
  <1>16. \A t \in Subs \ {s} : Untouched(t)
    <2>1. \A t \in Subs \ {s} : sExec'[t] = sExec[t]
      BY <1>0, <1>1 DEF SubTypes
    <2> QED
      BY <1>0, <1>1, <2>1 DEF SubTypes, Untouched
  <1> QED
    BY <1>8, <1>11, <1>12, <1>13, <1>14, <1>15, <1>16 DEF SubInv

------------------------------------------------------------------------------
(* Discovery and delivery.                                                 *)

\* An entity reader joins at the end of the topic (VOLATILE): what was written
\* before is not for it.
LEMMA LinkDataStep ==
    ASSUME StressInv, Grows, NEW s \in Subs, LinkData(s)
    PROVE  /\ SubTypes'
           /\ SubInv(s)'
           /\ \A t \in Subs \ {s} : Untouched(t)
  <1>0. SubTypes /\ SubInv(s) /\ control \in Seq(ControlMsg) /\ data \in Seq(Sample)
    BY TopicTypes DEF StressInv
  <1>1. /\ dataLinked' = dataLinked \cup {s}
        /\ dataPos' = [dataPos EXCEPT ![s] = Len(data)]
        /\ UNCHANGED <<sExec, pc, readers, inbox, history, active, testId, expected,
                       loanMode, taken, received, results, totalLost, ctrlLinked, ctrlPos>>
    BY DEF LinkData, subVars, ctrlVars, runVars
  <1>2. Len(data) \in Nat /\ dataPos[s] \in Nat /\ dataPos[s] <= Len(data)
    BY <1>0 DEF SubTypes, SubInv, EntitiesInv
  <1>3. SubTypes'
    BY <1>0, <1>1, <1>2 DEF SubTypes
  <1>4. InboxInv(s)' /\ Polled(s)' = Polled(s)
    BY <1>0, <1>1, InboxKept DEF SubInv
  <1>5. ActiveInv(s)' /\ ResultsInv(s)' /\ CountInv(s)'
    BY <1>0, <1>1, <1>4, ActiveKept, ResultsKept, CountKept DEF SubInv, Grows
  <1>6. EntitiesInv(s)'
    <2> DEFINE e == Messages * Len(results[s]) - totalLost[s]
                        + Cardinality(received[s]) + Cardinality(history[s])
    <2>1. dataPos'[s] = Len(data)
      BY <1>0, <1>1 DEF SubTypes
    <2>2. e \in Int
      <3>1. Cardinality(received[s]) \in Nat /\ Cardinality(history[s]) \in Nat
        BY <1>0, FS_CardinalityType DEF SubInv, EntitiesInv
      <3> QED
        BY <1>0, <3>1, WritersAssumption DEF SubTypes
    <2>3. vendor # "OpenDDS" => e <= dataPos[s]
      BY <1>0 DEF SubInv, EntitiesInv
    <2> HIDE DEF e
    <2>4. vendor # "OpenDDS" => e <= dataPos'[s]
      BY <1>2, <2>1, <2>2, <2>3
    <2>5. dataPos'[s] <= Len(data') /\ vendor' = vendor
      BY <2>1 DEF Grows
    <2>6. IsFiniteSet(history[s]) /\ IsFiniteSet(received[s])
      BY <1>0 DEF SubInv, EntitiesInv
    <2> QED
      BY <1>1, <2>4, <2>5, <2>6 DEF EntitiesInv, e
  <1>7. \A t \in Subs \ {s} : Untouched(t)
    BY <1>0, <1>1 DEF SubTypes, Untouched
  <1> QED
    BY <1>3, <1>4, <1>5, <1>6, <1>7 DEF SubInv

\* The other matches and their ends only change who is linked.
LEMMA LinkStep ==
    ASSUME StressInv, NEW s \in Subs, LinkControl(s) \/ UnlinkData(s) \/ UnlinkControl(s)
    PROVE  SubTypes' /\ \A t \in Subs : Untouched(t)
  <1>1. /\ ctrlLinked' \subseteq ctrlLinked \cup {s}
        /\ dataLinked' \subseteq dataLinked \cup {s}
        /\ UNCHANGED <<sExec, pc, readers, inbox, history, active, testId, expected,
                       loanMode, taken, received, results, totalLost, ctrlPos, dataPos>>
    BY DEF LinkControl, UnlinkData, UnlinkControl, subVars, ctrlVars, runVars
  <1> QED
    BY <1>1 DEF StressInv, SubTypes, Untouched

\* The next control message arrives: the reader is RELIABLE, none is skipped.
LEMMA DeliverControlStep ==
    ASSUME StressInv, Grows, NEW s \in Subs, DeliverControl(s)
    PROVE  /\ SubTypes'
           /\ SubInv(s)'
           /\ \A t \in Subs \ {s} : Untouched(t)
  <1> DEFINE msg == control[ctrlPos[s] + 1]
  <1>0. SubTypes /\ SubInv(s) /\ control \in Seq(ControlMsg) /\ data \in Seq(Sample)
    BY TopicTypes DEF StressInv
  <1>1. /\ ctrlPos[s] < Len(control)
        /\ inbox' = [inbox EXCEPT ![s] = Append(@, msg)]
        /\ ctrlPos' = [ctrlPos EXCEPT ![s] = @ + 1]
        /\ UNCHANGED <<sExec, pc, readers, history, active, testId, expected,
                       loanMode, taken, received, results, totalLost,
                       ctrlLinked, dataLinked, dataPos>>
    BY DEF DeliverControl, ReceiveControl, ctrlVars, runVars
  <1>2. /\ ctrlPos[s] \in Nat /\ inbox[s] \in Seq(ControlMsg)
        /\ Len(inbox[s]) \in Nat /\ Len(control) \in Nat
        /\ Len(inbox[s]) <= ctrlPos[s]
    BY <1>0 DEF SubTypes, SubInv, InboxInv
  <1>3. msg \in ControlMsg
    BY <1>0, <1>1, <1>2
  <1>4. msg = control'[ctrlPos[s] + 1]
    <2>1. ctrlPos[s] + 1 \in 1 .. Len(control)
      BY <1>1, <1>2
    <2>2. \A i \in 1 .. Len(control) : control'[i] = control[i]
      BY DEF Grows
    <2> QED
      BY <2>1, <2>2, Zenon
  <1>5. \A i \in 1 .. Len(inbox[s]) : inbox[s][i] = control'[Polled(s) + i]
    <2> SUFFICES ASSUME NEW i \in 1 .. Len(inbox[s])
                 PROVE  inbox[s][i] = control'[Polled(s) + i]
      OBVIOUS
    <2>1. Polled(s) + i \in 1 .. Len(control)
      BY <1>1, <1>2 DEF Polled
    <2> QED
      BY <1>0, <2>1 DEF SubInv, InboxInv, Grows
  <1> HIDE DEF msg
  <1>6. SubTypes'
    BY <1>0, <1>1, <1>3 DEF SubTypes
  <1>7. inbox'[s] = Append(inbox[s], msg) /\ ctrlPos'[s] = ctrlPos[s] + 1
    BY <1>0, <1>1 DEF SubTypes
  <1>8. /\ Len(inbox'[s]) = Len(inbox[s]) + 1
        /\ inbox'[s][Len(inbox[s]) + 1] = msg
        /\ \A i \in 1 .. Len(inbox[s]) : inbox'[s][i] = inbox[s][i]
    BY <1>2, <1>3, <1>7
  <1>9. Polled(s)' = Polled(s)
    BY <1>2, <1>7, <1>8 DEF Polled
  <1>10. InboxInv(s)'
    <2>1. Len(inbox'[s]) <= ctrlPos'[s] /\ ctrlPos'[s] <= Len(control')
      <3>1. Len(control') \in Nat /\ Len(control) <= Len(control')
        BY DEF Grows
      <3> QED
        BY <1>1, <1>2, <1>7, <1>8, <3>1
    <2>2. \A i \in 1 .. Len(inbox[s]) + 1 : inbox'[s][i] = control'[Polled(s) + i]
      <3> SUFFICES ASSUME NEW i \in 1 .. Len(inbox[s]) + 1
                   PROVE  inbox'[s][i] = control'[Polled(s) + i]
        OBVIOUS
      <3>1. CASE i \in 1 .. Len(inbox[s])
        BY <1>5, <1>8, <3>1
      <3>2. CASE i = Len(inbox[s]) + 1
        <4>1. Polled(s) + i = ctrlPos[s] + 1
          BY <1>2, <3>2 DEF Polled
        <4> QED
          BY <1>4, <1>8, <3>2, <4>1
      <3> QED
        BY <1>2, <3>1, <3>2
    <2> QED
      BY <1>8, <1>9, <2>1, <2>2 DEF InboxInv
  <1>11. ActiveInv(s)' /\ ResultsInv(s)' /\ CountInv(s)'
    BY <1>0, <1>1, <1>9, ActiveKept, ResultsKept, CountKept DEF SubInv, Grows
  <1>12. EntitiesInv(s)'
    BY <1>0, <1>1, EntitiesKept DEF SubInv
  <1>13. \A t \in Subs \ {s} : Untouched(t)
    BY <1>0, <1>1 DEF SubTypes, Untouched
  <1> QED
    BY <1>6, <1>10, <1>11, <1>12, <1>13 DEF SubInv

\* The next entity arrives, in the place of one with its key if the reader holds
\* one (KEEP_LAST 1), or is lost: either way the reader gains at most one.
LEMMA NextEntityStep ==
    ASSUME StressInv, Grows, NEW s \in Subs, DeliverData(s) \/ LoseData(s)
    PROVE  /\ SubTypes'
           /\ SubInv(s)'
           /\ \A t \in Subs \ {s} : Untouched(t)
  <1>0. SubTypes /\ SubInv(s) /\ control \in Seq(ControlMsg) /\ data \in Seq(Sample)
    BY TopicTypes DEF StressInv
  <1>1. /\ dataPos[s] < Len(data)
        /\ dataPos' = [dataPos EXCEPT ![s] = @ + 1]
        /\ UNCHANGED <<sExec, pc, readers, inbox, active, testId, expected,
                       loanMode, taken, received, results, totalLost,
                       ctrlLinked, dataLinked, ctrlPos>>
    BY DEF DeliverData, LoseData, NextEntity, ReceiveSample, subVars, ctrlVars, runVars
  <1>2. dataPos[s] \in Nat /\ Len(data) \in Nat
    BY <1>0 DEF SubTypes
  <1>3. PICK h :
          /\ history' = [history EXCEPT ![s] = h]
          /\ h \in SUBSET Sample
          /\ IsFiniteSet(h)
          /\ Cardinality(h) <= Cardinality(history[s]) + 1
    <2>1. IsFiniteSet(history[s]) /\ history[s] \in SUBSET Sample
      BY <1>0 DEF SubInv, EntitiesInv, SubTypes
    <2>2. Cardinality(history[s]) \in Nat
      BY <2>1, FS_CardinalityType
    <2>3. CASE LoseData(s)
      <3>1. history' = [history EXCEPT ![s] = history[s]]
        BY <1>0, <2>3 DEF LoseData, subVars, SubTypes
      <3>2. Cardinality(history[s]) <= Cardinality(history[s]) + 1
        BY <2>2
      <3> QED
        BY <2>1, <3>1, <3>2, Zenon
    <2>4. CASE DeliverData(s)
      <3> DEFINE x == data[dataPos[s] + 1]
                 rest == {y \in history[s] : y.id # x.id}
      <3>1. history' = [history EXCEPT ![s] = rest \cup {x}]
        BY <2>4 DEF DeliverData, ReceiveSample
      <3>2. x \in Sample
        BY <1>0, <1>1, <1>2
      <3>3. rest \in SUBSET history[s]
        OBVIOUS
      <3> HIDE DEF rest, x
      <3>4. IsFiniteSet(rest) /\ Cardinality(rest) <= Cardinality(history[s])
        BY <2>1, <3>3, FS_Subset
      <3>5. Cardinality(rest) \in Nat
        BY <3>4, FS_CardinalityType
      <3>6. /\ IsFiniteSet(rest \cup {x})
            /\ \/ Cardinality(rest \cup {x}) = Cardinality(rest)
               \/ Cardinality(rest \cup {x}) = Cardinality(rest) + 1
        BY <3>4, AddOne, Zenon
      <3>7. Cardinality(rest \cup {x}) <= Cardinality(history[s]) + 1
        BY <2>2, <3>4, <3>5, <3>6
      <3>8. rest \cup {x} \in SUBSET Sample
        BY <2>1, <3>2, <3>3
      <3> QED
        BY <3>1, <3>6, <3>7, <3>8
    <2> QED
      BY <2>3, <2>4
  <1>4. SubTypes'
    BY <1>0, <1>1, <1>3 DEF SubTypes
  <1>5. InboxInv(s)' /\ Polled(s)' = Polled(s)
    BY <1>0, <1>1, InboxKept DEF SubInv
  <1>6. ActiveInv(s)' /\ ResultsInv(s)' /\ CountInv(s)'
    BY <1>0, <1>1, <1>5, ActiveKept, ResultsKept, CountKept DEF SubInv, Grows
  <1>7. EntitiesInv(s)'
    <2> DEFINE m == Messages * Len(results[s]) - totalLost[s]
               c == Cardinality(received[s])
               k == Cardinality(history[s])
               l == Cardinality(history'[s])
    <2>1. history'[s] = h /\ dataPos'[s] = dataPos[s] + 1
      BY <1>0, <1>1, <1>3 DEF SubTypes
    <2>2. IsFiniteSet(history[s]) /\ IsFiniteSet(received[s])
      BY <1>0 DEF SubInv, EntitiesInv
    <2>3. k \in Nat /\ c \in Nat /\ l \in Nat
      BY <1>3, <2>1, <2>2, FS_CardinalityType
    <2>4. l <= k + 1
      BY <1>3, <2>1
    <2>5. m \in Int
      BY <1>0, WritersAssumption DEF SubTypes
    <2>6. vendor # "OpenDDS" => m + c + k <= dataPos[s]
      BY <1>0 DEF SubInv, EntitiesInv
    <2>7. dataPos'[s] <= Len(data') /\ vendor' = vendor
      BY <1>1, <1>2, <2>1 DEF Grows
    <2> HIDE DEF m, c, k, l
    <2>8. vendor # "OpenDDS" => m + c + l <= dataPos'[s]
      BY <1>2, <2>1, <2>3, <2>4, <2>5, <2>6
    <2> QED
      BY <1>1, <1>3, <2>1, <2>2, <2>7, <2>8 DEF EntitiesInv, m, c, l
  <1>8. \A t \in Subs \ {s} : Untouched(t)
    BY <1>0, <1>1, <1>3 DEF SubTypes, Untouched
  <1> QED
    BY <1>4, <1>5, <1>6, <1>7, <1>8 DEF SubInv

------------------------------------------------------------------------------
(* The invariant of the system.                                            *)

\* Before anything has started there is nothing to relate.
LEMMA StressInvInit == StressInit => StressInv
  <1> SUFFICES ASSUME StressInit PROVE StressInv
    OBVIOUS
  <1>0. Init /\ SubInit
    BY DEF StressInit
  <1>1. IInv
    BY <1>0, InvInit
  <1>2. SubTypes
    <2>1. /\ sExec \in [Subs -> {"INIT", "EXECUTION", "END"}]
          /\ pc \in [Subs -> {"read", "take", "crashed"}]
          /\ readers \in [Subs -> SUBSET {"data", "control"}]
          /\ inbox \in [Subs -> Seq(ControlMsg)]
          /\ history \in [Subs -> SUBSET Sample]
          /\ received \in [Subs -> SUBSET Sample]
          /\ results \in [Subs -> Seq(Result)]
      BY <1>0 DEF SubInit
    <2>2. /\ active \in [Subs -> BOOLEAN]
          /\ testId \in [Subs -> Nat]
          /\ expected \in [Subs -> {0, Messages}]
          /\ loanMode \in [Subs -> BOOLEAN]
          /\ taken \in [Subs -> Nat]
          /\ totalLost \in [Subs -> Int]
      BY <1>0 DEF SubInit
    <2>3. /\ ctrlLinked \in SUBSET Subs /\ dataLinked \in SUBSET Subs
          /\ ctrlPos \in [Subs -> Nat] /\ dataPos \in [Subs -> Nat]
      BY DEF StressInit
    <2> QED
      BY <2>1, <2>2, <2>3 DEF SubTypes
  <1>3. ASSUME NEW s \in Subs
        PROVE  SubInv(s)
    <2>1. /\ sExec[s] = "INIT" /\ pc[s] = "read" /\ inbox[s] = <<>>
          /\ history[s] = {} /\ active[s] = FALSE /\ received[s] = {}
          /\ results[s] = <<>> /\ totalLost[s] = 0
          /\ ctrlPos[s] = 0 /\ dataPos[s] = 0
      BY <1>0 DEF SubInit, StressInit
    <2>2. control \in Seq(ControlMsg) /\ data \in Seq(Sample)
      BY <1>1 DEF IInv, TypeOK, WritersTypeOK
    <2>3. InboxInv(s) /\ ActiveInv(s) /\ CountInv(s)
      BY <2>1, <2>2 DEF InboxInv, ActiveInv, CountInv
    <2>4. ResultsInv(s)
      BY <2>1 DEF ResultsInv
    <2>5. EntitiesInv(s)
      <3>1. IsFiniteSet({}) /\ Cardinality({}) = 0 /\ Messages * 0 = 0 /\ Len(results[s]) = 0
        BY <2>1, FS_EmptySet, WritersAssumption
      <3> QED
        BY <2>1, <2>2, <3>1 DEF EntitiesInv
    <2> QED
      BY <2>3, <2>4, <2>5 DEF SubInv
  <1> QED
    BY <1>1, <1>2, <1>3 DEF StressInv

\* A step of a subscriber's main thread leaves the other subscribers alone.
LEMMA SubscriberKeeps ==
    ASSUME StressInv, Grows, NEW s \in Subs, SubscriberStep(s)
    PROVE  SubTypes' /\ \A t \in Subs : SubInv(t)'
  <1>1. /\ SubTypes'
        /\ SubInv(s)'
        /\ \A t \in Subs \ {s} : Untouched(t)
    BY StartUpStep, CrashStep, PollStep, BeginTestStep, TakeStep, FinishRunStep
    DEF SubscriberStep, SubMain
  <1>2. \A t \in Subs \ {s} : SubInv(t)'
    BY <1>1, SubKept, TopicTypes DEF StressInv
  <1> QED
    BY <1>1, <1>2

\* So do discovery and delivery.
LEMMA DdsKeeps ==
    ASSUME StressInv, Grows, NEW s \in Subs, Dds(s)
    PROVE  SubTypes' /\ \A t \in Subs : SubInv(t)'
  <1>1. CASE LinkData(s) \/ DeliverControl(s) \/ DeliverData(s) \/ LoseData(s)
    <2>1. /\ SubTypes'
          /\ SubInv(s)'
          /\ \A t \in Subs \ {s} : Untouched(t)
      BY <1>1, LinkDataStep, DeliverControlStep, NextEntityStep
    <2>2. \A t \in Subs \ {s} : SubInv(t)'
      BY <2>1, SubKept, TopicTypes DEF StressInv
    <2> QED
      BY <2>1, <2>2
  <1>2. CASE LinkControl(s) \/ UnlinkData(s) \/ UnlinkControl(s)
    <2>1. SubTypes' /\ \A t \in Subs : Untouched(t)
      BY <1>2, LinkStep
    <2>2. \A t \in Subs : SubInv(t)'
      BY <2>1, SubKept, TopicTypes DEF StressInv
    <2> QED
      BY <2>1, <2>2
  <1> QED
    BY <1>1, <1>2 DEF Dds

\* The publisher only makes the topics grow, which no subscriber notices before
\* DDS tells it.
LEMMA StressInvStep == StressInv /\ [StressNext]_system => StressInv'
  <1> SUFFICES ASSUME StressInv, [StressNext]_system PROVE StressInv'
    OBVIOUS
  <1>0. IInv /\ [Next]_vars
    BY PublisherTakesPart DEF StressInv
  <1>1. IInv' /\ Grows
    BY <1>0, InvStep, TopicsGrow
  <1>2. CASE PublisherStep \/ UNCHANGED system
    <2>1. UNCHANGED <<sExec, pc, readers, inbox, history, active, testId, expected,
                      loanMode, taken, received, results, totalLost,
                      ctrlLinked, dataLinked, ctrlPos, dataPos>>
      BY <1>2 DEF PublisherStep, system, subVars, ctrlVars, runVars, links
    <2>2. SubTypes'
      BY <2>1 DEF StressInv, SubTypes
    <2>3. \A t \in Subs : Untouched(t)
      BY <2>1 DEF Untouched
    <2>4. \A t \in Subs : SubInv(t)'
      BY <1>1, <2>3, SubKept, TopicTypes DEF StressInv
    <2> QED
      BY <1>1, <2>2, <2>4 DEF StressInv
  <1>3. ASSUME NEW s \in Subs, SubscriberStep(s)
        PROVE  StressInv'
    BY <1>1, <1>3, SubscriberKeeps DEF StressInv
  <1>4. ASSUME NEW s \in Subs, Dds(s)
        PROVE  StressInv'
    BY <1>1, <1>4, DdsKeeps DEF StressInv
  <1> QED
    BY <1>2, <1>3, <1>4 DEF StressNext

\* The inductive invariant of the whole system.
THEOREM StressInvariance == StressSpec => []StressInv
  BY StressInvInit, StressInvStep, PTL DEF StressSpec

------------------------------------------------------------------------------
(* What the invariant says.                                                *)

\* The variables of every process and of DDS keep their types; in particular no
\* subscriber is ahead of the topics it reads, and no run loses more entities than
\* it was announced with.
THEOREM StressTypeCorrect == StressSpec => []StressTypeOK
  <1>1. StressInv => StressTypeOK
    <2> SUFFICES ASSUME StressInv PROVE StressTypeOK
      OBVIOUS
    <2>0. TypeOK /\ SubTypes /\ control \in Seq(ControlMsg) /\ data \in Seq(Sample)
      BY TopicTypes DEF StressInv, IInv
    <2>1. \A s \in Subs :
            /\ ctrlPos[s] \in 0 .. Len(control)
            /\ dataPos[s] \in 0 .. Len(data)
      BY <2>0 DEF StressInv, SubTypes, SubInv, InboxInv, EntitiesInv
    <2>2. ctrlPos \in [Subs -> 0 .. Len(control)] /\ dataPos \in [Subs -> 0 .. Len(data)]
      BY <2>0, <2>1 DEF SubTypes
    <2>3. \A s \in Subs : \A i \in 1 .. Len(results[s]) : results[s][i].lost <= Messages
      BY DEF StressInv, SubInv, ResultsInv
    <2>4. \A s \in Subs : history[s] \subseteq Sample /\ received[s] \subseteq Sample
      BY <2>0 DEF SubTypes
    <2> QED
      BY <2>0, <2>2, <2>3, <2>4 DEF SubTypes, StressTypeOK
  <1> QED
    BY <1>1, StressInvariance, PTL

\* Neither a STOP nor several control messages found by one poll start a run, no
\* test is run twice, and but in the OpenDDS build each is measured by the number it
\* was announced with (poll_control, run_without_loan, finish_test, reset_test).
THEOREM SubscribersRunInOrder == StressSpec => []RunsInOrder
  <1>1. StressInv => RunsInOrder
    <2> SUFFICES ASSUME StressInv, NEW s \in Subs
                 PROVE  /\ \A i \in 1 .. Len(results[s]) :
                             /\ vendor # "OpenDDS" => results[s][i].expected = Messages
                             /\ 2 * results[s][i].test - 1 <= Len(control)
                        /\ \A i, j \in 1 .. Len(results[s]) :
                             i < j => results[s][i].test < results[s][j].test
      BY DEF RunsInOrder
    <2>0. SubTypes /\ InboxInv(s) /\ ResultsInv(s) /\ control \in Seq(ControlMsg)
      BY TopicTypes DEF StressInv, SubInv
    <2>1. Polled(s) \in Int /\ Polled(s) <= Len(control) /\ Len(control) \in Nat
      BY <2>0 DEF SubTypes, InboxInv, Polled
    <2>2. \A i \in 1 .. Len(results[s]) : results[s][i].test \in Nat
      <3>1. \A i \in 1 .. Len(results[s]) : results[s][i] \in Result
        BY <2>0 DEF SubTypes
      <3> QED
        BY <3>1 DEF Result
    <2>3. \A i \in 1 .. Len(results[s]) :
            /\ vendor # "OpenDDS" => results[s][i].expected = Messages
            /\ 2 * results[s][i].test - 1 <= Polled(s)
      BY <2>0 DEF ResultsInv
    <2>4. \A i \in 1 .. Len(results[s]) :
            /\ vendor # "OpenDDS" => results[s][i].expected = Messages
            /\ 2 * results[s][i].test - 1 <= Len(control)
      BY <2>1, <2>2, <2>3
    <2>5. \A i, j \in 1 .. Len(results[s]) :
            i < j => results[s][j].test - results[s][i].test >= j - i
      BY <2>0 DEF ResultsInv
    <2>6. \A i, j \in 1 .. Len(results[s]) :
            i < j => results[s][i].test < results[s][j].test
      BY <2>2, <2>5
    <2> QED
      BY <2>4, <2>6
  <1> QED
    BY <1>1, StressInvariance, PTL

\* The publisher never writes more than a START and a STOP for each of its tests
\* (finish_test of pub_test_1_to_1 asks for the end in time).
LEMMA ControlBound == IInv => Len(control) <= 2 * NumTests
  <1> SUFFICES ASSUME IInv PROVE Len(control) <= 2 * NumTests
    OBVIOUS
  <1>0. curTest \in Nat /\ NumTests \in Nat
    BY NumTestsFact DEF IInv, TypeOK
  <1>1. CASE exec = "INIT"
    BY <1>0, <1>1 DEF IInv, BeforeInit
  <1>2. CASE exec # "INIT"
    <2>1. \/ Len(control) = 2 * curTest
          \/ Len(control) = 2 * curTest + 1 /\ state = "Streaming"
      BY <1>2 DEF IInv, InStep
    <2>2. \/ curTest < NumTests
          \/ curTest = NumTests /\ state = "Announce"
      BY DEF IInv, TestCount
    <2> QED
      BY <1>0, <2>1, <2>2
  <1> QED
    BY <1>1, <1>2

\* With the same test_count on both sides there is room for no gap: n runs of tests
\* among 1 .. n, in increasing order, are the runs of 1, 2, ..., n.
THEOREM EndsAfterEveryTest == StressSpec => []EndsWithEveryTest
  <1>1. StressInv => EndsWithEveryTest
    <2> SUFFICES ASSUME StressInv, SubMaxTest = MaxTest,
                        NEW s \in Subs, sExec[s] = "END"
                 PROVE  TestsRun(s) = 1 .. NumTests
      BY DEF EndsWithEveryTest
    <2> DEFINE t(i) == results[s][i].test
    <2>0. SubTypes /\ InboxInv(s) /\ ResultsInv(s) /\ CountInv(s)
          /\ control \in Seq(ControlMsg)
      BY TopicTypes DEF StressInv, SubInv
    <2>1. Len(results[s]) = NumTests /\ NumTests \in Nat /\ NumTests >= 1
      BY <2>0, NumTestsFact DEF CountInv, SubTests, NumTests
    <2>2. Polled(s) \in Int /\ Polled(s) <= 2 * NumTests
      <3>1. Len(control) <= 2 * NumTests /\ Len(control) \in Nat
        BY <2>0, ControlBound DEF StressInv
      <3>2. Polled(s) \in Int /\ Polled(s) <= Len(control)
        BY <2>0 DEF SubTypes, InboxInv, Polled
      <3> QED
        BY <2>1, <3>1, <3>2
    <2>3. \A i \in 1 .. NumTests : t(i) \in Nat
      <3>1. \A i \in 1 .. NumTests : results[s][i] \in Result
        BY <2>0, <2>1 DEF SubTypes
      <3> QED
        BY <3>1 DEF Result
    <2>4. \A i \in 1 .. NumTests : t(i) >= 1 /\ 2 * t(i) - 1 <= Polled(s)
      BY <2>0, <2>1 DEF ResultsInv
    <2>5. \A i, j \in 1 .. NumTests : i < j => t(j) - t(i) >= j - i
      BY <2>0, <2>1 DEF ResultsInv
    <2> HIDE DEF t
    <2>6. ASSUME NEW i \in 1 .. NumTests
          PROVE  t(i) = i
      <3>1. 1 \in 1 .. NumTests /\ NumTests \in 1 .. NumTests
        BY <2>1
      <3>2. t(1) >= 1 /\ t(NumTests) <= NumTests
        <4>1. 2 * t(NumTests) - 1 <= Polled(s) /\ t(NumTests) \in Nat
          BY <2>3, <2>4, <3>1
        <4> QED
          BY <2>1, <2>2, <2>4, <3>1, <4>1
      <3>3. t(i) >= i
        <4>1. CASE i = 1
          BY <3>2, <4>1
        <4>2. CASE i # 1
          <5>1. t(i) - t(1) >= i - 1
            BY <2>1, <2>5, <3>1, <4>2
          <5> QED
            BY <2>3, <3>1, <3>2, <5>1
        <4> QED
          BY <4>1, <4>2
      <3>4. t(i) <= i
        <4>1. CASE i = NumTests
          BY <3>2, <4>1
        <4>2. CASE i # NumTests
          <5>1. t(NumTests) - t(i) >= NumTests - i
            BY <2>1, <2>5, <3>1, <4>2
          <5> QED
            BY <2>1, <2>3, <3>1, <3>2, <5>1
        <4> QED
          BY <4>1, <4>2
      <3> QED
        BY <2>3, <3>3, <3>4
    <2>7. TestsRun(s) = {t(i) : i \in 1 .. NumTests}
      BY <2>1 DEF TestsRun, t
    <2> QED
      BY <2>6, <2>7
  <1> QED
    BY <1>1, StressInvariance, PTL

\* However the batches of several tests pile up in a reader, no entity is counted by
\* two runs, nor twice by one (take, received_ids, total_lost_samples).
THEOREM NoEntityCountedTwice == StressSpec => []NotOvercounted
  <1>1. StressInv => NotOvercounted
    <2> SUFFICES ASSUME StressInv, NEW s \in Subs, vendor # "OpenDDS"
                 PROVE  Messages * Len(results[s]) - totalLost[s] <= dataPos[s]
      BY DEF NotOvercounted
    <2> DEFINE m == Messages * Len(results[s]) - totalLost[s]
    <2>0. SubTypes /\ EntitiesInv(s)
      BY DEF StressInv, SubInv
    <2>1. m \in Int /\ dataPos[s] \in Nat
      BY <2>0, WritersAssumption DEF SubTypes
    <2>2. Cardinality(received[s]) \in Nat /\ Cardinality(history[s]) \in Nat
      BY <2>0, FS_CardinalityType DEF EntitiesInv
    <2>3. m + Cardinality(received[s]) + Cardinality(history[s]) <= dataPos[s]
      BY <2>0 DEF EntitiesInv
    <2> HIDE DEF m
    <2>4. m <= dataPos[s]
      BY <2>1, <2>2, <2>3
    <2> QED
      BY <2>4 DEF m
  <1> QED
    BY <1>1, StressInvariance, PTL

------------------------------------------------------------------------------
(* Skipped tests.                                                          *)

\* What was polled stays polled, and only the end of a run adds to the runs: one of
\* the active test.
LEMMA Advance ==
    ASSUME StressInv, [StressNext]_system, NEW s \in Subs
    PROVE  /\ Polled(s) \in Int /\ Polled(s)' \in Int
           /\ Polled(s) <= Polled(s)'
           /\ \/ results'[s] = results[s]
              \/ /\ pc[s] = "take"
                 /\ \E r \in Result : r.test = testId[s] /\ results'[s] = Append(results[s], r)
  <1>0. /\ SubTypes /\ SubTypes'
        /\ InboxInv(s)
        /\ ctrlPos[s] \in Nat /\ Len(inbox[s]) \in Nat
    <2>1. StressInv'
      BY StressInvStep
    <2>2. SubTypes /\ InboxInv(s)
      BY DEF StressInv, SubInv
    <2>3. SubTypes'
      BY <2>1 DEF StressInv
    <2>4. ctrlPos[s] \in Nat /\ Len(inbox[s]) \in Nat
      BY <2>2 DEF SubTypes
    <2> QED
      BY <2>2, <2>3, <2>4
  <1>1. Polled(s) \in Int /\ Polled(s)' \in Int
    BY <1>0 DEF SubTypes, Polled
  <1>2. CASE UNCHANGED <<ctrlPos, inbox, results>>
    BY <1>1, <1>2 DEF Polled
  <1>3. ASSUME NEW u \in Subs, Poll(u), UNCHANGED links
        PROVE  Polled(s) <= Polled(s)' /\ results'[s] = results[s]
    <2>1. /\ inbox' = [inbox EXCEPT ![u] = <<>>]
          /\ results' = results /\ ctrlPos' = ctrlPos
      BY <1>3 DEF Poll, links
    <2>2. inbox'[s] = inbox[s] \/ inbox'[s] = <<>>
      BY <1>0, <2>1 DEF SubTypes
    <2>3. Len(inbox'[s]) = Len(inbox[s]) \/ Len(inbox'[s]) = 0
      BY <2>2
    <2> QED
      BY <1>0, <2>1, <2>3 DEF Polled
  <1>4. ASSUME NEW u \in Subs, DeliverControl(u)
        PROVE  Polled(s) <= Polled(s)' /\ results'[s] = results[s]
    <2>1. /\ inbox' = [inbox EXCEPT ![u] = Append(@, control[ctrlPos[u] + 1])]
          /\ ctrlPos' = [ctrlPos EXCEPT ![u] = @ + 1]
          /\ results' = results
      BY <1>4 DEF DeliverControl, ReceiveControl
    <2>2. CASE s = u
      <3>1. /\ inbox'[s] = Append(inbox[s], control[ctrlPos[s] + 1])
            /\ ctrlPos'[s] = ctrlPos[s] + 1
        BY <1>0, <2>1, <2>2 DEF SubTypes
      <3>2. control[ctrlPos[s] + 1] \in ControlMsg
        <4>1. ctrlPos[s] < Len(control)
          BY <1>4, <2>2 DEF DeliverControl
        <4>2. control \in Seq(ControlMsg)
          BY TopicTypes
        <4> QED
          BY <1>0, <4>1, <4>2
      <3>3. inbox[s] \in Seq(ControlMsg)
        BY <1>0 DEF SubTypes
      <3>4. Len(inbox'[s]) = Len(inbox[s]) + 1
        BY <3>1, <3>2, <3>3
      <3> QED
        BY <1>0, <2>1, <3>1, <3>4 DEF Polled
    <2>3. CASE s # u
      BY <1>0, <1>1, <2>1, <2>3 DEF SubTypes, Polled
    <2> QED
      BY <2>2, <2>3
  <1>5. ASSUME NEW u \in Subs, FinishRun(u), UNCHANGED links
        PROVE  /\ Polled(s) <= Polled(s)'
               /\ \/ results'[s] = results[s]
                  \/ /\ pc[s] = "take"
                     /\ \E r \in Result : r.test = testId[s] /\ results'[s] = Append(results[s], r)
    <2>1. /\ pc[u] = "take" /\ inbox' = inbox /\ ctrlPos' = ctrlPos
          /\ results' = [results EXCEPT ![u] = Append(@, RunResult(u))]
      BY <1>5, Zenon DEF FinishRun, ReportRun, links
    <2>2. CASE s = u
      <3>1. results'[s] = Append(results[s], RunResult(s))
        BY <1>0, <2>1, <2>2 DEF SubTypes
      <3>2. RunResult(s).test = testId[s] /\ RunResult(s) \in Result
        BY <2>1, <2>2, VerdictType DEF RunResult
      <3> QED
        BY <1>1, <2>1, <2>2, <3>1, <3>2 DEF Polled
    <2>3. CASE s # u
      BY <1>0, <1>1, <2>1, <2>3 DEF SubTypes, Polled
    <2> QED
      BY <2>2, <2>3
  <1>6. ASSUME NEW u \in Subs, SubscriberStep(u) \/ Dds(u)
        PROVE  \/ UNCHANGED <<ctrlPos, inbox, results>>
               \/ Poll(u) /\ UNCHANGED links
               \/ FinishRun(u) /\ UNCHANGED links
               \/ DeliverControl(u)
    <2>1. CASE SubscriberStep(u)
      BY <2>1 DEF SubscriberStep, SubMain, links, StartUp, CrashAtStart, CrashInPoll,
         BeginTest, Take, CrashInRun
    <2>2. CASE Dds(u)
      BY <2>2 DEF Dds, LinkData, LinkControl, UnlinkData, UnlinkControl, DeliverData,
         LoseData, NextEntity, ReceiveSample, subVars
    <2> QED
      BY <1>6, <2>1, <2>2
  <1>7. CASE PublisherStep \/ UNCHANGED system
    BY <1>2, <1>7 DEF PublisherStep, system, subVars, links
  <1> QED
    BY <1>1, <1>2, <1>3, <1>4, <1>5, <1>6, <1>7 DEF StressNext

\* The active test is later than all that was polled and stopped, so the end of a run
\* never adds a test that was skipped.
LEMMA MissedStep ==
    ASSUME StressInv, [StressNext]_system, NEW s \in Subs, MissedTest(s)
    PROVE  MissedTest(s)'
  <1>1. PICK k \in 1 .. NumTests :
          2 * k <= Polled(s) /\ k \notin TestsRun(s)
    BY DEF MissedTest, Polled
  <1>2. Polled(s) \in Int /\ Polled(s)' \in Int /\ Polled(s) <= Polled(s)' /\ k \in Nat
    BY <1>1, Advance, NumTestsFact
  <1>3. 2 * k <= Polled(s)'
    BY <1>1, <1>2
  <1>4. /\ testId[s] \in Nat /\ testId'[s] \in Nat
        /\ results[s] \in Seq(Result)
        /\ ActiveInv(s) /\ ActiveInv(s)'
    BY StressInvStep DEF StressInv, SubTypes, SubInv
  <1>5. k \notin TestsRun(s)'
    <2>1. CASE results'[s] = results[s]
      BY <1>1, <2>1 DEF TestsRun
    <2>2. ASSUME pc[s] = "take",
                 NEW r \in Result, r.test = testId[s], results'[s] = Append(results[s], r)
          PROVE  k \notin TestsRun(s)'
      <3>1. Polled(s) + 1 = 2 * testId[s]
        BY <1>4, <2>2 DEF ActiveInv
      <3>2. testId[s] # k
        BY <1>1, <1>2, <1>4, <3>1
      <3>3. /\ Len(results'[s]) = Len(results[s]) + 1
            /\ \A i \in 1 .. Len(results[s]) : results'[s][i] = results[s][i]
            /\ results'[s][Len(results[s]) + 1] = r
        <4> DEFINE old == results[s]
        <4>1. old \in Seq(Result)
          BY <1>4
        <4> HIDE DEF old
        <4>2. /\ Len(Append(old, r)) = Len(old) + 1
              /\ \A i \in 1 .. Len(old) : Append(old, r)[i] = old[i]
              /\ Append(old, r)[Len(old) + 1] = r
          BY <4>1, AppendProperties
        <4> QED
          BY <2>2, <4>2 DEF old
      <3>4. \A i \in 1 .. Len(results'[s]) :
              i \in 1 .. Len(results[s]) \/ i = Len(results[s]) + 1
        BY <1>4, <3>3
      <3>5. \A i \in 1 .. Len(results[s]) : results[s][i].test # k
        BY <1>1 DEF TestsRun
      <3>6. \A i \in 1 .. Len(results'[s]) : results'[s][i].test # k
        BY <2>2, <3>2, <3>3, <3>4, <3>5
      <3> QED
        BY <3>6 DEF TestsRun
    <2> QED
      BY <2>1, <2>2, Advance
  <1>6. ~(pc'[s] = "take" /\ testId'[s] = k)
    BY <1>2, <1>3, <1>4 DEF ActiveInv
  <1> QED
    BY <1>3, <1>5, <1>6 DEF MissedTest, Polled, NumTests

\* A test whose START and STOP were found by one poll is not run later (poll_control).
THEOREM SkippedStays == StressSpec => SkippedForGood
  <1>1. StressInv /\ [StressNext]_system =>
          [\A s \in Subs : MissedTest(s) => MissedTest(s)']_system
    BY MissedStep
  <1> QED
    BY <1>1, StressInvariance, PTL DEF StressSpec, SkippedForGood

\* Hence with the same test_count on both sides a subscriber that skipped one test
\* waits for ever: its number of runs is never reached (finish_test).
THEOREM SkippedNeverEnds ==
    ASSUME SubMaxTest = MaxTest, NEW s \in Subs
    PROVE  StressSpec => [](MissedTest(s) => [](sExec[s] # "END"))
  <1>1. StressInv /\ MissedTest(s) /\ [StressNext]_system => MissedTest(s)'
    BY MissedStep
  <1>2. EndsWithEveryTest /\ MissedTest(s) => sExec[s] # "END"
    BY DEF EndsWithEveryTest, MissedTest
  <1> QED
    BY <1>1, <1>2, StressInvariance, EndsAfterEveryTest, PTL DEF StressSpec

------------------------------------------------------------------------------
(* Publisher and subscribers implement TestSeries.                         *)

\* The state of TestSeries that belongs to a state of the system.
Seen(s)    == (Polled(s) + 1) \div 2
Current(s) == IF active[s] THEN testId[s] ELSE 0
RunsOf(s)  == [i \in 1 .. Len(results[s]) |-> results[s][i].test]

AllSeen    == [s \in Subs |-> Seen(s)]
AllCurrent == [s \in Subs |-> Current(s)]
AllRuns    == [s \in Subs |-> RunsOf(s)]
Ended      == {s \in Subs : sExec[s] = "END"}
OfTests    == <<(Len(control) + 1) \div 2, cpuTimes, Len(control) \div 2>>

LEMMA SeriesState ==
    /\ Series!subscribers = <<AllSeen, AllCurrent, AllRuns, Ended>>
    /\ Series!subscribers' = <<AllSeen', AllCurrent', AllRuns', Ended'>>
    /\ Series!publisher = OfTests
    /\ Series!publisher' = OfTests'
  BY DEF Series!subscribers, Series!publisher, OfTests,
     AllSeen, AllCurrent, AllRuns, Ended, Seen, Current, RunsOf, Polled

\* The steps of a subscriber in TestSeries, in these terms.
LEMMA PickUpMeans ==
    ASSUME NEW s \in Subs, NEW test \in AllSeen[s] + 1 .. (Len(control) + 1) \div 2,
           s \notin Ended,
           AllSeen' = [AllSeen EXCEPT ![s] = test],
           AllCurrent' = [AllCurrent EXCEPT ![s] = test],
           OfTests' = OfTests, AllRuns' = AllRuns, Ended' = Ended
    PROVE  Series!PickUp(s)
  BY Zenon
  DEF Series!PickUp, Series!publisher, OfTests,
      AllSeen, AllCurrent, AllRuns, Ended, Seen, Current, RunsOf, Polled

LEMMA DropMeans ==
    ASSUME NEW s \in Subs, NEW test \in AllSeen[s] .. Len(control) \div 2,
           s \notin Ended,
           AllSeen' = [AllSeen EXCEPT ![s] = test],
           AllCurrent' = [AllCurrent EXCEPT ![s] = 0],
           OfTests' = OfTests, AllRuns' = AllRuns, Ended' = Ended
    PROVE  Series!Drop(s)
  BY Zenon
  DEF Series!Drop, Series!publisher, OfTests,
      AllSeen, AllCurrent, AllRuns, Ended, Seen, Current, RunsOf, Polled

LEMMA ReportMeans ==
    ASSUME NEW s \in Subs,
           s \notin Ended,
           AllCurrent[s] # 0,
           AllRuns' = [AllRuns EXCEPT ![s] = Append(@, AllCurrent[s])],
           AllCurrent' = [AllCurrent EXCEPT ![s] = 0],
           Ended' = IF Len(AllRuns[s]) + 1 >= SubMaxTest THEN Ended \cup {s} ELSE Ended,
           OfTests' = OfTests, AllSeen' = AllSeen
    PROVE  Series!Report(s)
  BY Zenon
  DEF Series!Report, Series!publisher, OfTests,
      AllSeen, AllCurrent, AllRuns, Ended, Seen, Current, RunsOf, Polled

\* What a step must leave alone for a subscriber to look the same to TestSeries.
LEMMA SeriesKept ==
    ASSUME NEW s \in Subs, Polled(s)' = Polled(s), active'[s] = active[s],
           testId'[s] = testId[s], results'[s] = results[s]
    PROVE  Seen(s)' = Seen(s) /\ Current(s)' = Current(s) /\ RunsOf(s)' = RunsOf(s)
  BY DEF Seen, Current, RunsOf

\* A step that polls nothing, ends no run and ends no subscriber is none of TestSeries.
LEMMA SubscribersSame ==
    ASSUME \A s \in Subs : Polled(s)' = Polled(s),
           UNCHANGED <<sExec, active, testId, results>>
    PROVE  UNCHANGED <<AllSeen, AllCurrent, AllRuns, Ended>>
  <1>1. \A s \in Subs : Seen(s)' = Seen(s) /\ Current(s)' = Current(s) /\ RunsOf(s)' = RunsOf(s)
    BY SeriesKept
  <1>2. Ended' = Ended
    BY DEF Ended
  <1> QED
    BY <1>1, <1>2 DEF AllSeen, AllCurrent, AllRuns

\* A step of subscriber s changes the state of TestSeries at s only.
LEMMA OneFollower ==
    ASSUME NEW s \in Subs, \A t \in Subs \ {s} : Untouched(t)
    PROVE  /\ AllSeen'    = [AllSeen EXCEPT ![s] = Seen(s)']
           /\ AllCurrent' = [AllCurrent EXCEPT ![s] = Current(s)']
           /\ AllRuns'    = [AllRuns EXCEPT ![s] = RunsOf(s)']
  <1>1. ASSUME NEW t \in Subs \ {s}
        PROVE  Seen(t)' = Seen(t) /\ Current(t)' = Current(t) /\ RunsOf(t)' = RunsOf(t)
    BY SeriesKept DEF Untouched, Polled
  <1> QED
    BY <1>1 DEF AllSeen, AllCurrent, AllRuns

\* The initial state of the system is that of TestSeries.
LEMMA SeriesStart == StressInit => Series!SeriesInit
  <1> SUFFICES ASSUME StressInit PROVE Series!SeriesInit
    OBVIOUS
  <1>1. Len(control) = 0 /\ cpuTimes = 0
    BY DEF StressInit, Init, WritersInit
  <1>2. Series!Init
    BY <1>1 DEF Series!Init
  <1>3. ASSUME NEW s \in Subs
        PROVE  /\ (ctrlPos[s] - Len(inbox[s]) + 1) \div 2 = 0
               /\ (IF active[s] THEN testId[s] ELSE 0) = 0
               /\ [i \in 1 .. Len(results[s]) |-> results[s][i].test] = <<>>
               /\ sExec[s] # "END"
    <2>1. ctrlPos[s] = 0 /\ Len(inbox[s]) = 0 /\ ~active[s] /\ Len(results[s]) = 0 /\ sExec[s] = "INIT"
      BY DEF StressInit, SubInit
    <2>2. (ctrlPos[s] - Len(inbox[s]) + 1) \div 2 = 0
      BY <2>1
    <2>3. [i \in 1 .. Len(results[s]) |-> results[s][i].test] = <<>>
      BY <2>1
    <2> QED
      BY <2>1, <2>2, <2>3
  <1> QED
    BY <1>2, <1>3 DEF Series!SeriesInit

\* The p-th control message is the START or the STOP of a later test than the q-th if it
\* is a START, and of no earlier one if it is a STOP.
LEMMA LaterMessage ==
    ASSUME NEW q \in Nat, NEW p \in Nat, NEW n \in Nat, q < p, p <= n
    PROVE  /\ p % 2 = 1 => (p + 1) \div 2 \in (q + 1) \div 2 + 1 .. (n + 1) \div 2
           /\ p % 2 # 1 => (p + 1) \div 2 \in (q + 1) \div 2 .. n \div 2
  OBVIOUS

\* What poll_control finds last is the START of a later test than any before, or the
\* STOP of one that is over.
LEMMA PollFollows ==
    ASSUME StressInv, Grows, NEW s \in Subs, Poll(s), UNCHANGED <<vars, links>>
    PROVE  Series!PickUp(s) \/ Series!Drop(s)
  <1> DEFINE last == inbox[s][Len(inbox[s])]
  <1>0. SubTypes /\ InboxInv(s) /\ control \in Seq(ControlMsg)
    BY TopicTypes DEF StressInv, SubInv
  <1>1. /\ sExec[s] = "EXECUTION"
        /\ inbox[s] # <<>>
        /\ testId' = [testId EXCEPT ![s] = last.test]
        /\ active' = [active EXCEPT ![s] = last.start]
        /\ inbox' = [inbox EXCEPT ![s] = <<>>]
        /\ UNCHANGED <<sExec, results, ctrlPos, control, cpuTimes>>
    BY DEF Poll, Reading, InRead, links, vars, mainVars
  <1>2. Len(inbox[s]) \in 1 .. ctrlPos[s] /\ last = ScheduledMsg(ctrlPos[s])
    BY <1>1, LastIsScheduled
  <1> HIDE DEF last
  <1>3. /\ ctrlPos[s] \in Nat /\ Len(inbox[s]) \in Nat /\ Len(control) \in Nat
        /\ ctrlPos[s] <= Len(control)
    BY <1>0 DEF SubTypes, InboxInv
  <1>4. inbox'[s] = <<>> /\ testId'[s] = last.test /\ active'[s] = last.start
    BY <1>0, <1>1 DEF SubTypes
  <1>5. Polled(s)' = ctrlPos[s] /\ Polled(s) \in Nat /\ Polled(s) < ctrlPos[s]
    <2>1. Len(inbox'[s]) = 0
      BY <1>4
    <2> QED
      BY <1>1, <1>2, <1>3, <2>1 DEF Polled
  <1>6. Seen(s)' = (ctrlPos[s] + 1) \div 2 /\ AllSeen[s] = (Polled(s) + 1) \div 2
    BY <1>5 DEF Seen, AllSeen
  <1>7. s \notin Ended /\ Ended' = Ended /\ AllRuns' = AllRuns /\ OfTests' = OfTests
    BY <1>1 DEF Ended, AllRuns, RunsOf, OfTests
  <1>8. \A t \in Subs \ {s} : Untouched(t)
    BY PollStep
  <1>9. /\ AllSeen' = [AllSeen EXCEPT ![s] = Seen(s)']
        /\ AllCurrent' = [AllCurrent EXCEPT ![s] = Current(s)']
    BY <1>8, OneFollower
  <1>10. CASE ctrlPos[s] % 2 = 1
    <2>1. last.start /\ last.test = (ctrlPos[s] + 1) \div 2
      BY <1>2, <1>10 DEF ScheduledMsg, StartMsg
    <2>2. Current(s)' = (ctrlPos[s] + 1) \div 2
      BY <1>4, <2>1 DEF Current
    <2>3. (ctrlPos[s] + 1) \div 2 \in AllSeen[s] + 1 .. (Len(control) + 1) \div 2
      BY <1>3, <1>5, <1>6, <1>10, LaterMessage
    <2> QED
      BY <1>6, <1>7, <1>9, <2>2, <2>3, PickUpMeans
  <1>11. CASE ctrlPos[s] % 2 # 1
    <2>1. ~last.start
      BY <1>2, <1>11 DEF ScheduledMsg, StopMsg
    <2>2. Current(s)' = 0
      BY <1>4, <2>1 DEF Current
    <2>3. (ctrlPos[s] + 1) \div 2 \in AllSeen[s] .. Len(control) \div 2
      BY <1>3, <1>5, <1>6, <1>11, LaterMessage
    <2> QED
      BY <1>6, <1>7, <1>9, <2>2, <2>3, DropMeans
  <1> QED
    BY <1>10, <1>11

\* One test more in the list of tests that were run.
LEMMA RunAppended ==
    ASSUME NEW s \in Subs, results[s] \in Seq(Result), NEW r \in Result,
           results'[s] = Append(results[s], r)
    PROVE  RunsOf(s)' = Append(RunsOf(s), r.test)
  <1> DEFINE old == results[s]
             new == Append(old, r)
  <1>1. old \in Seq(Result)
    OBVIOUS
  <1>2. RunsOf(s)' = [i \in 1 .. Len(new) |-> new[i].test]
    BY DEF RunsOf
  <1>3. RunsOf(s) = [i \in 1 .. Len(old) |-> old[i].test]
    BY DEF RunsOf
  <1> HIDE DEF old
  <1>4. /\ Len(old) \in Nat
        /\ Len(new) = Len(old) + 1
        /\ \A i \in 1 .. Len(old) : new[i] = old[i]
        /\ new[Len(old) + 1] = r
    BY <1>1, AppendProperties
  <1> DEFINE tests == [i \in 1 .. Len(old) |-> old[i].test]
  <1>5. tests \in Seq(Nat) /\ r.test \in Nat /\ Len(tests) = Len(old)
    <2>1. \A i \in 1 .. Len(old) : old[i] \in Result
      BY <1>1
    <2>2. \A i \in 1 .. Len(old) : old[i].test \in Nat
      BY <2>1 DEF Result
    <2>3. r.test \in Nat
      BY DEF Result
    <2> QED
      BY <1>4, <2>2, <2>3
  <1>6. \A i \in 1 .. Len(old) : tests[i] = old[i].test
    OBVIOUS
  <1> HIDE DEF new, tests
  <1>7. /\ Append(tests, r.test) \in Seq(Nat)
        /\ Len(Append(tests, r.test)) = Len(old) + 1
        /\ \A i \in 1 .. Len(old) : Append(tests, r.test)[i] = tests[i]
        /\ Append(tests, r.test)[Len(old) + 1] = r.test
    BY <1>5, AppendProperties
  <1>8. \A i \in 1 .. Len(old) + 1 : new[i].test = Append(tests, r.test)[i]
    <2>1. \A i \in 1 .. Len(old) + 1 : i \in 1 .. Len(old) \/ i = Len(old) + 1
      BY <1>4
    <2> QED
      BY <1>4, <1>6, <1>7, <2>1
  <1>9. Append(tests, r.test) = [i \in 1 .. Len(old) + 1 |-> Append(tests, r.test)[i]]
    BY <1>7
  <1> QED
    BY <1>2, <1>3, <1>4, <1>8, <1>9 DEF tests

\* finish_test reports the active test, and the end comes with the last one.
LEMMA FinishRunFollows ==
    ASSUME StressInv, Grows, NEW s \in Subs, FinishRun(s), UNCHANGED <<vars, links>>
    PROVE  Series!Report(s)
  <1> DEFINE r == RunResult(s)
  <1>0. SubTypes /\ InboxInv(s) /\ ActiveInv(s)
    BY DEF StressInv, SubInv
  <1>1. /\ pc[s] = "take"
        /\ results' = [results EXCEPT ![s] = Append(@, r)]
        /\ sExec' = IF Len(results[s]) + 1 >= SubMaxTest
                    THEN [sExec EXCEPT ![s] = "END"] ELSE sExec
        /\ active' = [active EXCEPT ![s] = FALSE]
        /\ UNCHANGED <<inbox, testId, ctrlPos, control, cpuTimes>>
    BY Zenon DEF FinishRun, ReportRun, links, vars, mainVars
  <1>2. active[s] /\ sExec[s] = "EXECUTION" /\ Polled(s) + 1 = 2 * testId[s]
    BY <1>0, <1>1 DEF ActiveInv
  <1>3. r \in Result /\ r.test = testId[s]
    BY <1>1, VerdictType
  <1> HIDE DEF r
  <1>4. /\ testId[s] \in Nat /\ results[s] \in Seq(Result)
        /\ ctrlPos[s] \in Nat /\ Len(inbox[s]) \in Nat
    BY <1>0 DEF SubTypes
  <1>5. AllCurrent[s] = testId[s] /\ testId[s] # 0
    <2>1. Polled(s) \in Int /\ Polled(s) >= 0
      BY <1>0, <1>4 DEF InboxInv, Polled
    <2> QED
      BY <1>2, <1>4, <2>1 DEF AllCurrent, Current
  <1>6. \A t \in Subs \ {s} : Untouched(t)
    BY FinishRunStep
  <1>7. AllCurrent' = [AllCurrent EXCEPT ![s] = 0]
    <2>1. ~active'[s]
      BY <1>0, <1>1 DEF SubTypes
    <2>2. Current(s)' = 0
      BY <2>1 DEF Current
    <2> QED
      BY <1>6, <2>2, OneFollower
  <1>8. AllRuns' = [AllRuns EXCEPT ![s] = Append(@, AllCurrent[s])]
    <2>1. results'[s] = Append(results[s], r)
      BY <1>0, <1>1 DEF SubTypes
    <2>2. RunsOf(s)' = Append(RunsOf(s), r.test)
      BY <1>3, <1>4, <2>1, RunAppended
    <2>3. AllRuns[s] = RunsOf(s)
      BY DEF AllRuns
    <2> QED
      BY <1>3, <1>5, <1>6, <2>2, <2>3, OneFollower
  <1>9. Ended' = IF Len(AllRuns[s]) + 1 >= SubMaxTest THEN Ended \cup {s} ELSE Ended
    <2>1. Len(AllRuns[s]) = Len(results[s])
      BY <1>4 DEF AllRuns, RunsOf
    <2>2. CASE Len(results[s]) + 1 >= SubMaxTest
      <3>1. sExec' = [sExec EXCEPT ![s] = "END"]
        BY <1>1, <2>2
      <3>2. Ended' = Ended \cup {s}
        BY <1>0, <3>1 DEF Ended, SubTypes
      <3> QED
        BY <2>1, <2>2, <3>2
    <2>3. CASE ~(Len(results[s]) + 1 >= SubMaxTest)
      <3>1. Ended' = Ended
        BY <1>1, <2>3 DEF Ended
      <3> QED
        BY <2>1, <2>3, <3>1
    <2> QED
      BY <2>2, <2>3
  <1>10. AllSeen' = AllSeen /\ OfTests' = OfTests /\ s \notin Ended
    BY <1>1, <1>2 DEF AllSeen, Seen, Polled, OfTests, Ended
  <1> QED
    BY <1>5, <1>7, <1>8, <1>9, <1>10, ReportMeans

\* A message that arrives is not polled yet.
LEMMA ArrivalUnseen ==
    ASSUME StressInv, NEW u \in Subs, DeliverControl(u), NEW s \in Subs
    PROVE  Polled(s)' = Polled(s)
  <1>0. SubTypes /\ control \in Seq(ControlMsg)
    BY TopicTypes DEF StressInv
  <1>1. /\ inbox' = [inbox EXCEPT ![u] = Append(@, control[ctrlPos[u] + 1])]
        /\ ctrlPos' = [ctrlPos EXCEPT ![u] = @ + 1]
        /\ ctrlPos[u] < Len(control)
    BY DEF DeliverControl, ReceiveControl
  <1>2. CASE s = u
    <2>1. inbox'[s] = Append(inbox[s], control[ctrlPos[s] + 1])
      BY <1>0, <1>1, <1>2 DEF SubTypes
    <2>2. inbox[s] \in Seq(ControlMsg) /\ ctrlPos[s] \in Nat
      BY <1>0 DEF SubTypes
    <2>3. control[ctrlPos[s] + 1] \in ControlMsg
      BY <1>0, <1>1, <1>2, <2>2
    <2>4. Len(inbox'[s]) = Len(inbox[s]) + 1 /\ Len(inbox[s]) \in Nat
      BY <2>1, <2>2, <2>3
    <2>5. ctrlPos'[s] = ctrlPos[s] + 1
      BY <1>0, <1>1, <1>2 DEF SubTypes
    <2> QED
      BY <2>2, <2>4, <2>5 DEF Polled
  <1>3. CASE s # u
    BY <1>0, <1>1, <1>3 DEF SubTypes, Polled
  <1> QED
    BY <1>2, <1>3

\* Every step of the system is a step of TestSeries or changes nothing there: what the
\* publisher's flags, DDS and the readers' histories do in between does not show.
LEMMA SeriesStep ==
    StressInv /\ [StressNext]_system =>
        [Series!SeriesNext]_<<Series!publisher, Series!subscribers>>
  <1> SUFFICES ASSUME StressInv, [StressNext]_system
               PROVE  [Series!SeriesNext]_<<Series!publisher, Series!subscribers>>
    OBVIOUS
  <1>1. Grows
    BY PublisherTakesPart, TopicsGrow DEF StressInv
  <1>2. ASSUME UNCHANGED <<AllSeen, AllCurrent, AllRuns, Ended>>
        PROVE  UNCHANGED Series!subscribers
    BY <1>2, SeriesState
  <1>3. ASSUME UNCHANGED <<control, cpuTimes>>
        PROVE  UNCHANGED Series!publisher
    BY <1>3, SeriesState DEF OfTests
  <1>4. CASE UNCHANGED <<sExec, inbox, active, testId, results, ctrlPos>>
    <2>1. UNCHANGED Series!subscribers
      <3>1. \A s \in Subs : Polled(s)' = Polled(s)
        BY <1>4 DEF Polled
      <3> QED
        BY <1>2, <1>4, <3>1, SubscribersSame
    <2>2. [Run!Next]_<<(Len(control) + 1) \div 2, cpuTimes, Len(control) \div 2>>
      BY PublisherTakesPart, RunStep DEF StressInv
    <2>3. Run!Next => Series!Next
      BY DEF Run!Next, Series!Next, Run!Announce, Series!Announce, Run!Stream,
         Series!Stream, Run!Stop, Series!Stop
    <2>4. Series!Next \/ UNCHANGED Series!publisher
      BY <2>2, <2>3, SeriesState DEF OfTests
    <2> QED
      BY <2>1, <2>4 DEF Series!SeriesNext, Series!Publisher
  <1>5. ASSUME NEW u \in Subs, DeliverControl(u)
        PROVE  UNCHANGED <<Series!publisher, Series!subscribers>>
    <2>1. UNCHANGED <<control, cpuTimes, sExec, active, testId, results>>
      BY <1>5 DEF DeliverControl, ReceiveControl, ctrlVars, vars, mainVars
    <2>2. \A s \in Subs : Polled(s)' = Polled(s)
      BY <1>5, ArrivalUnseen
    <2> QED
      BY <1>2, <1>3, <2>1, <2>2, SubscribersSame
  <1>6. ASSUME NEW u \in Subs, StartUp(u), UNCHANGED <<vars, links>>
        PROVE  UNCHANGED <<Series!publisher, Series!subscribers>>
    <2>1. UNCHANGED <<control, cpuTimes, inbox, active, testId, results, ctrlPos>>
      BY <1>6 DEF StartUp, ctrlVars, vars, mainVars, links
    <2>2. UNCHANGED Ended
      BY <1>6 DEF StartUp, Ended, StressInv, SubTypes
    <2>3. \A s \in Subs : Polled(s)' = Polled(s)
      BY <2>1 DEF Polled
    <2>4. UNCHANGED <<AllSeen, AllCurrent, AllRuns>>
      BY <2>1, <2>3, SeriesKept DEF AllSeen, AllCurrent, AllRuns
    <2> QED
      BY <1>2, <1>3, <2>1, <2>2, <2>4
  <1>7. ASSUME NEW u \in Subs, Poll(u) \/ FinishRun(u), UNCHANGED <<vars, links>>
        PROVE  Series!SeriesNext
    <2>1. Series!PickUp(u) \/ Series!Drop(u) \/ Series!Report(u)
      BY <1>1, <1>7, PollFollows, FinishRunFollows
    <2> QED
      BY <2>1 DEF Series!SeriesNext
  <1>8. ASSUME NEW u \in Subs, SubscriberStep(u) \/ Dds(u)
        PROVE  \/ UNCHANGED <<sExec, inbox, active, testId, results, ctrlPos>>
               \/ DeliverControl(u)
               \/ StartUp(u) /\ UNCHANGED <<vars, links>>
               \/ (Poll(u) \/ FinishRun(u)) /\ UNCHANGED <<vars, links>>
    <2>1. CASE SubscriberStep(u)
      BY <2>1 DEF SubscriberStep, SubMain, links, CrashAtStart, CrashInPoll,
         BeginTest, Take, CrashInRun, ctrlVars
    <2>2. CASE Dds(u)
      BY <2>2 DEF Dds, LinkData, LinkControl, UnlinkData, UnlinkControl, DeliverData,
         LoseData, NextEntity, ReceiveSample, subVars, ctrlVars
    <2> QED
      BY <1>8, <2>1, <2>2
  <1>9. ASSUME PublisherStep \/ UNCHANGED system
        PROVE  UNCHANGED <<sExec, inbox, active, testId, results, ctrlPos>>
    BY <1>9 DEF PublisherStep, system, subVars, ctrlVars, links
  <1> QED
    BY <1>4, <1>5, <1>6, <1>7, <1>8, <1>9 DEF StressNext

\* Publisher, subscribers and DDS implement TestSeries, for any number of subscribers,
\* of tests and of entities.
THEOREM ImplementsTestSeries == StressSpec => SeriesSpec
  BY SeriesStart, SeriesStep, StressInvariance, PTL
  DEF StressSpec, SeriesSpec, Series!SeriesSpec

------------------------------------------------------------------------------
(* The publisher waits for its subscribers.                                *)

\* As long as nothing is announced, the readers that ever matched are still there.
LinkInv ==
    /\ IsFiniteSet(dataLinked)
    /\ control = <<>> => matched <= Cardinality(dataLinked)

\* A subscriber ends with a run, and a run takes a START (finish_test).
LEMMA NoneEndedYet ==
    ASSUME StressInv, control = <<>>, NEW s \in Subs
    PROVE  sExec[s] # "END"
  <1> SUFFICES ASSUME sExec[s] = "END" PROVE FALSE
    OBVIOUS
  <1>1. /\ results[s] \in Seq(Result) /\ ctrlPos[s] \in Nat /\ Len(inbox[s]) \in Nat
        /\ InboxInv(s) /\ ResultsInv(s) /\ CountInv(s)
    BY DEF StressInv, SubTypes, SubInv
  <1>2. SubTests >= 1 /\ Len(results[s]) = SubTests /\ SubTests \in Nat
    BY <1>1, SubMaxTestAssumption DEF CountInv, SubTests
  <1>3. 1 \in 1 .. Len(results[s])
    BY <1>2
  <1>4. results[s][1].test \in Nat
    <2>1. results[s][1] \in Result
      BY <1>1, <1>3
    <2> QED
      BY <2>1 DEF Result
  <1>5. 1 <= results[s][1].test /\ 2 * results[s][1].test - 1 <= Polled(s)
    BY <1>1, <1>3 DEF ResultsInv
  <1>6. Polled(s) <= 0 /\ Polled(s) \in Int
    <2>1. ctrlPos[s] <= 0
      BY <1>1 DEF InboxInv
    <2> QED
      BY <1>1, <2>1 DEF Polled
  <1> QED
    BY <1>4, <1>5, <1>6

\* Only listeners change matched_, and only the match of an entity reader raises it.
LEMMA LinkInvStep ==
    ASSUME StressInv, LinkInv, [StressNext]_system
    PROVE  LinkInv'
  <1>1. control' = <<>> => control = <<>>
    <2>1. Grows /\ control \in Seq(ControlMsg)
      BY PublisherTakesPart, TopicsGrow, TopicTypes DEF StressInv
    <2> QED
      BY <2>1 DEF Grows
  <1>2. matched \in Nat /\ Cardinality(dataLinked) \in Nat
    BY FS_CardinalityType, WritersAssumption DEF LinkInv, StressInv, IInv, TypeOK, WritersTypeOK
  <1>3. CASE matched' = matched /\ dataLinked' = dataLinked
    BY <1>1, <1>3 DEF LinkInv
  <1>4. ASSUME NEW s \in Subs, LinkData(s)
        PROVE  LinkInv'
    <2>1. /\ matched' = matched + 1
          /\ s \notin dataLinked /\ dataLinked' = dataLinked \cup {s}
      BY <1>4 DEF LinkData, OnDataMatched
    <2>2. IsFiniteSet(dataLinked') /\ Cardinality(dataLinked') = Cardinality(dataLinked) + 1
      BY <2>1, FS_AddElement DEF LinkInv
    <2> QED
      BY <1>1, <1>2, <2>1, <2>2 DEF LinkInv
  <1>5. ASSUME NEW s \in Subs, UnlinkData(s)
        PROVE  LinkInv'
    <2>1. control' # <<>>
      BY <1>1, <1>5, NoneEndedYet DEF UnlinkData
    <2>2. IsFiniteSet(dataLinked')
      BY <1>5, FS_Subset DEF UnlinkData, LinkInv
    <2> QED
      BY <2>1, <2>2 DEF LinkInv
  <1>6. ASSUME NEW s \in Subs, SubscriberStep(s) \/ Dds(s)
        PROVE  LinkData(s) \/ UnlinkData(s) \/ (matched' = matched /\ dataLinked' = dataLinked)
    BY <1>6 DEF SubscriberStep, Dds, LinkControl, UnlinkControl, DeliverControl, DeliverData,
       LoseData, NextEntity, OnControlMatched, OnControlUnmatched, vars, dds, links
  <1>7. CASE PublisherStep
    <2>1. matched' = matched
      <3>1. CASE ExecInit \/ CrashInInit \/ Update
        BY <3>1 DEF ExecInit, CrashInInit, Update, dds
      <3>2. CASE Read
        BY <3>2 DEF Read, dds
      <3>3. CASE Write
        BY <3>3 DEF Write, dds
      <3> QED
        BY <1>7, <3>1, <3>2, <3>3 DEF PublisherStep, Main
    <2> QED
      BY <1>3, <1>7, <2>1 DEF PublisherStep, links
  <1>8. CASE UNCHANGED system
    BY <1>3, <1>8 DEF system, vars, dds, links
  <1> QED
    BY <1>3, <1>4, <1>5, <1>6, <1>7, <1>8 DEF StressNext

\* The first message is a START, and publish_start comes after is_matched().
LEMMA FirstStart ==
    ASSUME StressInv, [StressNext]_system, control = <<>>, control' # <<>>
    PROVE  matched >= MinSubs
  <1>1. [Next]_vars
    BY PublisherTakesPart
  <1>2. matched \in Nat /\ curTest \in Nat /\ MinSubs \in Nat
    BY WritersAssumption DEF StressInv, IInv, TypeOK, WritersTypeOK
  <1>3. CASE ExecInit \/ CrashInInit \/ Update \/ Callback \/ UNCHANGED vars
    BY <1>3 DEF ExecInit, CrashInInit, Update, Callback, vars,
       OnDataMatched, OnDataUnmatched, OnControlMatched, OnControlUnmatched
  <1>4. CASE Read
    <2>1. CASE ReadIdle \/ ReadPause \/ ReadResume
      BY <2>1 DEF ReadIdle, ReadPause, ReadResume
    <2>2. CASE ReadResetTest
      <3>1. exec = "EXECUTION" /\ reset /\ state = "Streaming"
        BY <1>4, <2>2 DEF Read, ReadResetTest
      <3>2. Len(control) = 2 * curTest + 1
        BY <3>1 DEF StressInv, IInv, InStep
      <3> QED
        BY <1>2, <3>2
    <2> QED
      BY <1>4, <2>1, <2>2 DEF Read
  <1>5. CASE Write
    <2>1. CASE WriteAnnounce
      <3>1. IsMatched
        BY <2>1 DEF WriteAnnounce, WriteReady
      <3> QED
        BY <1>2, <3>1 DEF IsMatched, FastIsMatched, OpenIsMatched, CycloneIsMatched
    <2>2. CASE ~WriteAnnounce
      BY <1>5, <2>2 DEF Write, WriteSkip, WriteWarmUp, WriteAnnounceCrash, WriteNormal, WriteLoan
    <2> QED
      BY <2>1, <2>2
  <1> QED
    BY <1>1, <1>3, <1>4, <1>5 DEF Next, Main

\* The count of those that ever matched (total_count) is as good as one of those that are
\* there, for the first START: listener_number subscribers are connected when it is written.
THEOREM FirstStartAwaitsSubscribers == StressSpec => WaitsForSubscribers
  <1>1. StressInit => LinkInv
    BY FS_EmptySet DEF StressInit, Init, WritersInit, LinkInv
  <1>2. StressInv /\ LinkInv /\ [StressNext]_system => LinkInv'
    BY LinkInvStep
  <1>3. StressInv /\ LinkInv /\ [StressNext]_system =>
          [control = <<>> /\ control' # <<>> => Cardinality(dataLinked) >= MinSubs]_system
    <2> SUFFICES ASSUME StressInv, LinkInv, [StressNext]_system, control = <<>>, control' # <<>>
                 PROVE  Cardinality(dataLinked) >= MinSubs
      OBVIOUS
    <2>1. matched >= MinSubs /\ matched <= Cardinality(dataLinked)
      BY FirstStart DEF LinkInv
    <2>2. matched \in Nat /\ MinSubs \in Nat /\ Cardinality(dataLinked) \in Nat
      BY FS_CardinalityType, WritersAssumption
      DEF LinkInv, StressInv, IInv, TypeOK, WritersTypeOK
    <2> QED
      BY <2>1, <2>2
  <1> QED
    BY <1>1, <1>2, <1>3, StressInvariance, PTL DEF StressSpec, WaitsForSubscribers
==============================================================================
