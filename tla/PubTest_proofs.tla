--------------------------- MODULE PubTest_proofs ----------------------------
(***************************************************************************)
(* Proofs about the publisher, for every number of tests, batch size,      *)
(* number of subscribers and pair of offsets that satisfies the two        *)
(* assumptions of PubTest.                                                 *)
(***************************************************************************)
EXTENDS PubTest, SequenceTheorems, TLAPS

\* Before Executive::init: nothing has happened, except that the process may have
\* died in it.
BeforeInit ==
    exec = "INIT" =>
        /\ phase \in {"read", "stopped"}
        /\ state = "WaitingMatch"
        /\ ~send
        /\ control = <<>>
        /\ curTest = 0
        /\ cpuTimes = 0
        /\ warmUp = 0
        /\ cyclesReset = 0

\* The state, the two flags and the two topics go together.  In particular a
\* test that is announced and not yet streamed is not in a pause.
InStep ==
    exec # "INIT" =>
        \/ /\ state = "Announce"
           /\ Len(control) = 2 * curTest
           /\ cpuTimes = curTest
        \/ /\ state = "Streaming"
           /\ Len(control) = 2 * curTest + 1
           /\ send
           /\ ~reset
           /\ cpuTimes = curTest
        \/ /\ state = "Streaming"
           /\ Len(control) = 2 * curTest + 1
           /\ ~send
           /\ cpuTimes = curTest + 1

\* The pause that an uninitialised "reset" may start is counted in step with the
\* warm-up, so it is over before the first test is announced.
SpuriousPause ==
    (send /\ state = "Announce" /\ reset) =>
        /\ warmUp <= cyclesReset
        /\ phase = "write" => warmUp < cyclesReset

\* The tests still to come, and the state in which the end is requested.
TestCount ==
    /\ exec # "END" => curTest < NumTests
    /\ exec = "END" =>
        /\ curTest = NumTests
        /\ state = "Announce"
        /\ ~send
        /\ phase # "read"

IInv ==
    /\ TypeOK
    /\ BeforeInit
    /\ InStep
    /\ SpuriousPause
    /\ TestCount
    /\ ControlAlternates

------------------------------------------------------------------------------
(* Lemmas.                                                                 *)

\* The arithmetic of the schedule of control messages (START and STOP of each
\* test, publish_start and publish_stop).
LEMMA Halves ==
    ASSUME NEW n \in Nat
    PROVE  /\ (2 * n) \div 2 = n
           /\ (2 * n + 1) \div 2 = n
           /\ (2 * n + 1 + 1) \div 2 = n + 1
           /\ (2 * n + 1) % 2 = 1
           /\ (2 * n + 1 + 1) % 2 = 0
  OBVIOUS

\* Writing the message that the schedule foresees keeps the control topic on
\* schedule.
LEMMA AppendScheduled ==
    ASSUME control \in Seq(ControlMsg),
           ControlAlternates,
           processType' = processType,
           NEW msg \in ControlMsg,
           msg = ScheduledMsg(Len(control) + 1),
           control' = Append(control, msg)
    PROVE  ControlAlternates'
  <1>1. \A k \in 1 .. Len(control') : k \in 1 .. Len(control) \/ k = Len(control) + 1
    OBVIOUS
  <1>2. \A k \in 1 .. Len(control) : control'[k] = control[k]
    OBVIOUS
  <1>3. control'[Len(control) + 1] = msg
    OBVIOUS
  <1> SUFFICES ASSUME NEW k \in 1 .. Len(control')
               PROVE  control'[k] = ScheduledMsg(k)'
    BY DEF ControlAlternates
  <1>4. ScheduledMsg(k)' = ScheduledMsg(k)
    BY DEF ScheduledMsg, StartMsg, StopMsg, Loan
  <1>5. control'[k] = ScheduledMsg(k)
    BY <1>1, <1>2, <1>3, Zenon DEF ControlAlternates
  <1> QED
    BY <1>4, <1>5

\* A step that does not write to the control topic keeps it on schedule.
LEMMA KeepsAlternating ==
    ASSUME ControlAlternates, control' = control, processType' = processType
    PROVE  ControlAlternates'
  BY DEF ControlAlternates, ScheduledMsg, StartMsg, StopMsg, Loan

\* Streaming a batch extends the entity topic by entities (write(), publish and
\* publish_loan).
LEMMA PublishType ==
    ASSUME NEW first \in Nat, NEW n \in 0 .. Messages, NEW test \in Nat,
           data \in Seq(Sample), instances \in SUBSET Nat,
           PublishBatch(first, n, test)
    PROVE  data' \in Seq(Sample) /\ instances' \in SUBSET Nat
  <1>1. Batch(first, n, test) \in Seq(Sample)
    <2>1. \A i \in 1 .. n : [id |-> first + i - 1, test |-> test] \in Sample
      BY WritersAssumption DEF Sample
    <2>2. n \in Nat
      BY WritersAssumption
    <2>3. Batch(first, n, test) \in [1 .. n -> Sample]
      BY <2>1 DEF Batch
    <2> QED
      BY <2>2, <2>3, SeqDef
  <1>2. first .. (first + n - 1) \subseteq Nat
    BY WritersAssumption
  <1> QED
    BY <1>1, <1>2 DEF PublishBatch

\* A START or STOP message is a message of the control topic (FastPubControl).
LEMMA MessageTypes ==
    ASSUME NEW k \in Nat
    PROVE  StartMsg(k) \in ControlMsg /\ StopMsg(k) \in ControlMsg
  BY WritersAssumption DEF StartMsg, StopMsg, ControlMsg, Loan

\* A Normal batch is either complete, and the pause begins, or it ends the process
\* and leaves the flags as they were (write()).
LEMMA NormalCases ==
    WriteNormal =>
        \/ /\ cpuTimes' = cpuTimes + 1
           /\ reset' = TRUE
           /\ send' = FALSE
           /\ phase' = "update"
        \/ /\ phase' = "stopped"
           /\ cpuTimes' = cpuTimes
           /\ reset' = reset
           /\ send' = send
  BY Zenon DEF WriteNormal

------------------------------------------------------------------------------
(* Type correctness.                                                       *)

\* The constructor and the member initialisers give each variable a value of its
\* type, "reset" included.
LEMMA TypeInit == Init => TypeOK
  <1> SUFFICES ASSUME Init PROVE TypeOK
    OBVIOUS
  <1>1. control \in Seq(ControlMsg) /\ data \in Seq(Sample)
    BY DEF Init, WritersInit
  <1>2. reset \in BOOLEAN /\ send \in BOOLEAN
    BY DEF Init
  <1>3. cyclesReset \in 0 .. OffsetCyclesReset
    BY CountsAssumption DEF Init
  <1>4. WritersTypeOK
    BY <1>1, WritersAssumption DEF Init, WritersInit, WritersTypeOK
  <1>5. vendor \in Vendors /\ processType \in ProcessTypes
    BY DEF Init, SetupInit
  <1> QED
    BY <1>2, <1>3, <1>4, <1>5 DEF Init, TypeOK

\* A step that leaves both topics and the listeners' counters alone keeps the
\* types of the writers.
LEMMA WritersFrame ==
    ASSUME WritersTypeOK, UNCHANGED <<dds, dataTopic, control>>
    PROVE  WritersTypeOK'
  BY DEF WritersTypeOK, dds, dataTopic

\* So does a step that only writes one message to the control topic.
LEMMA WritersAppend ==
    ASSUME WritersTypeOK, UNCHANGED <<dds, dataTopic>>,
           NEW msg \in ControlMsg, control' = Append(control, msg)
    PROVE  WritersTypeOK'
  <1>1. control' \in Seq(ControlMsg)
    BY DEF WritersTypeOK
  <1> QED
    BY <1>1 DEF WritersTypeOK, dds, dataTopic

\* So does a step that only publishes entities, in either mode and whether or not
\* DDS refuses some of them (publish and publish_loan).
LEMMA WritersPublish ==
    ASSUME WritersTypeOK, UNCHANGED <<dds, control>>,
           NEW first \in Nat, NEW n \in 0 .. Messages, NEW test \in Nat,
           PublishBatch(first, n, test),
           currentId' \in Nat
    PROVE  WritersTypeOK'
  <1>1. data' \in Seq(Sample) /\ instances' \in SUBSET Nat
    BY PublishType DEF WritersTypeOK
  <1> QED
    BY <1>1 DEF WritersTypeOK, dds

\* Every call of the main thread and every listener callback keeps the types of
\* the writers; the listeners' counters never become negative.
LEMMA WritersTypeStep == TypeOK /\ [Next]_vars => WritersTypeOK'
  <1> SUFFICES ASSUME TypeOK, [Next]_vars PROVE WritersTypeOK'
    OBVIOUS
  <1>0. WritersTypeOK /\ curTest \in Nat /\ entityId \in Nat /\ currentId \in Nat
    BY DEF TypeOK, WritersTypeOK
  <1>1. CASE ExecInit
    <2>1. writers' \in SUBSET {"data", "control"}
      <3>1. /\ \A d \in DataWriterInit : d \subseteq {"data"}
            /\ \A c \in ControlWriterInit : c \subseteq {"control"}
        BY VendorsAssumption
        DEF TypeOK, DataWriterInit, ControlWriterInit,
            FastDataWriterInit, OpenDataWriterInit, CycloneDataWriterInit,
            FastControlWriterInit, OpenControlWriterInit, CycloneControlWriterInit
      <3> QED
        BY <1>1, <3>1 DEF ExecInit
    <2>2. UNCHANGED <<matched, ctrlMatched, dataTopic, control>>
      BY <1>1 DEF ExecInit, idVars
    <2> QED
      BY <1>0, <2>1, <2>2 DEF WritersTypeOK, dataTopic
  <1>2. CASE Read
    <2>1. UNCHANGED <<dds, dataTopic>>
      BY <1>2 DEF Read, ReadIdle, ReadPause, ReadResume, ReadResetTest, idVars
    <2>2. control' = control \/ control' = Append(control, StopMsg(curTest + 1))
      BY <1>2 DEF Read, ReadIdle, ReadPause, ReadResume, ReadResetTest, ResetTest
    <2> QED
      BY <1>0, <2>1, <2>2, MessageTypes, WritersFrame, WritersAppend
  <1>3. CASE Write
    <2>0. UNCHANGED dds
      BY <1>3 DEF Write
    <2>1. CASE WriteSkip \/ WriteWarmUp \/ WriteAnnounceCrash
      BY <1>0, <2>0, <2>1, WritersFrame DEF WriteSkip, WriteWarmUp, WriteAnnounceCrash, idVars
    <2>2. CASE WriteAnnounce
      BY <1>0, <2>0, <2>2, MessageTypes, WritersAppend DEF WriteAnnounce, idVars
    <2>3. CASE WriteNormal
      <3>1. PICK n \in 0 .. Messages : PublishBatch(entityId, n, curTest + 1)
        BY <2>3, Zenon DEF WriteNormal
      <3>2. currentId' = currentId /\ control' = control
        BY <2>3, Zenon DEF WriteNormal
      <3> QED
        BY <1>0, <2>0, <3>1, <3>2, WritersPublish
    <2>4. CASE WriteLoan
      <3>1. control' = control /\ PublishLoan(curTest + 1)
        BY <2>4 DEF WriteLoan
      <3>2. CASE FastPublishLoan(curTest + 1)
        <4>1. PICK n \in 0 .. Messages :
                /\ PublishBatch(currentId, n, curTest + 1)
                /\ currentId' = currentId + n \/ currentId' = currentId + n + 1
          BY <3>2, Zenon DEF FastPublishLoan
        <4>2. currentId' \in Nat
          BY <1>0, <4>1, WritersAssumption
        <4> QED
          BY <1>0, <2>0, <3>1, <4>1, <4>2, WritersPublish
      <3>3. CASE OpenPublishLoan
        BY <1>0, <2>0, <3>1, <3>3, WritersFrame DEF OpenPublishLoan
      <3> QED
        BY <3>1, <3>2, <3>3 DEF PublishLoan
    <2> QED
      BY <1>3, <2>1, <2>2, <2>3, <2>4 DEF Write
  <1>4. CASE CrashInInit \/ Update \/ UNCHANGED vars
    BY <1>0, <1>4, WritersFrame DEF CrashInInit, Update, vars, idVars
  <1>5. CASE OnDataMatched
    BY <1>0, <1>5, WritersAssumption DEF WritersTypeOK, OnDataMatched, dataTopic
  <1>6. CASE OnDataUnmatched
    BY <1>0, <1>6 DEF WritersTypeOK, OnDataUnmatched, dataTopic
  <1>7. CASE OnControlMatched
    BY <1>0, <1>7, WritersAssumption DEF WritersTypeOK, OnControlMatched, dataTopic
  <1>8. CASE OnControlUnmatched
    BY <1>0, <1>8, WritersAssumption
    DEF WritersTypeOK, OnControlUnmatched, FastControlLeft, OpenControlLeft, dataTopic
  <1> QED
    BY <1>1, <1>2, <1>3, <1>4, <1>5, <1>6, <1>7, <1>8 DEF Next, Main, Callback

\* The types of pub_test_1_to_1's own members.
MainTypeOK ==
    /\ exec \in {"INIT", "EXECUTION", "END"}
    /\ phase \in {"read", "write", "update", "stopped"}
    /\ reset \in BOOLEAN
    /\ cyclesReset \in 0 .. OffsetCyclesReset
    /\ send \in BOOLEAN
    /\ state \in {"WaitingMatch", "Announce", "Streaming"}
    /\ warmUp \in Nat
    /\ curTest \in Nat
    /\ entityId \in Nat
    /\ cpuTimes \in Nat

\* Every call of the main thread keeps the types of the publisher's members; the
\* pause counter stays within the pause.
LEMMA MainTypeStep == TypeOK /\ [Next]_vars => MainTypeOK'
  <1> SUFFICES ASSUME TypeOK, [Next]_vars PROVE MainTypeOK'
    OBVIOUS
  <1>0. MainTypeOK
    BY DEF TypeOK, MainTypeOK
  <1>1. CASE ExecInit
    BY <1>0, <1>1 DEF MainTypeOK, ExecInit, idVars
  <1>2. CASE Read
    <2>1. CASE ReadIdle
      BY <1>0, <1>2, <2>1 DEF MainTypeOK, Read, ReadIdle, flagVars, idVars
    <2>2. CASE ReadPause
      BY <1>0, <1>2, <2>2, CountsAssumption
      DEF MainTypeOK, Read, ReadPause, PauseOver, idVars
    <2>3. CASE ReadResume
      <3>1. cyclesReset' \in 0 .. OffsetCyclesReset
        BY <2>3, CountsAssumption DEF ReadResume
      <3>2. reset' \in BOOLEAN /\ send' \in BOOLEAN /\ phase' = "write"
        BY <1>2, <2>3 DEF Read, ReadResume
      <3>3. UNCHANGED <<exec, state, warmUp, curTest, entityId, cpuTimes>>
        BY <2>3 DEF ReadResume, idVars
      <3> QED
        BY <1>0, <3>1, <3>2, <3>3 DEF MainTypeOK
    <2>4. CASE ReadResetTest
      <3>1. curTest' \in Nat /\ exec' \in {"INIT", "EXECUTION", "END"}
        BY <1>0, <2>4 DEF MainTypeOK, ReadResetTest, ResetTest, FinishTest
      <3>2. entityId' = 0 \/ entityId' = entityId
        BY <2>4 DEF ReadResetTest, ResetTest
      <3>3. state' = "Announce" \/ state' = state
        BY <2>4 DEF ReadResetTest, ResetTest
      <3>4. reset' \in BOOLEAN
        BY <2>4, Zenon DEF ReadResetTest, ResetTest
      <3>5. cyclesReset' \in 0 .. OffsetCyclesReset
        BY <2>4, CountsAssumption DEF ReadResetTest
      <3>6. UNCHANGED <<send, warmUp, cpuTimes>> /\ phase' = "write"
        BY <1>2, <2>4 DEF Read, ReadResetTest
      <3> QED
        BY <1>0, <3>1, <3>2, <3>3, <3>4, <3>5, <3>6 DEF MainTypeOK
    <2> QED
      BY <1>2, <2>1, <2>2, <2>3, <2>4 DEF Read
  <1>3. CASE Write
    <2>1. CASE WriteSkip
      BY <1>0, <2>1 DEF MainTypeOK, WriteSkip, flagVars, idVars
    <2>2. CASE WriteWarmUp
      BY <1>0, <2>2 DEF MainTypeOK, WriteWarmUp, idVars
    <2>3. CASE WriteAnnounce
      BY <1>0, <2>3 DEF MainTypeOK, WriteAnnounce, idVars
    <2>4. CASE WriteAnnounceCrash
      BY <1>0, <2>4 DEF MainTypeOK, WriteAnnounceCrash, idVars
    <2>5. CASE WriteNormal
      <3>1. PICK n \in 0 .. Messages :
              entityId' = entityId + n \/ entityId' = entityId + n + 1
        BY <2>5, Zenon DEF WriteNormal
      <3>2. entityId' \in Nat
        BY <1>0, <3>1, WritersAssumption DEF MainTypeOK
      <3>3. \/ cpuTimes' = cpuTimes + 1 /\ phase' = "update"
            \/ cpuTimes' = cpuTimes /\ phase' = "stopped"
        BY <2>5, NormalCases, Zenon
      <3>4. cpuTimes' \in Nat /\ phase' \in {"update", "stopped"}
        BY <1>0, <3>3 DEF MainTypeOK
      <3>5. reset' \in BOOLEAN /\ send' \in BOOLEAN
        BY <1>0, <2>5, NormalCases, Zenon DEF MainTypeOK
      <3>6. UNCHANGED <<exec, cyclesReset, state, warmUp, curTest>>
        BY <2>5 DEF WriteNormal
      <3> QED
        BY <1>0, <3>2, <3>4, <3>5, <3>6 DEF MainTypeOK
    <2>6. CASE WriteLoan
      <3>1. reset' \in BOOLEAN /\ send' \in BOOLEAN /\ phase' = "update"
        BY <2>6 DEF WriteLoan
      <3>2. cpuTimes' = cpuTimes + 1
        BY <2>6 DEF WriteLoan
      <3>3. UNCHANGED <<exec, cyclesReset, state, warmUp, curTest, entityId>>
        BY <2>6 DEF WriteLoan
      <3> QED
        BY <1>0, <3>1, <3>2, <3>3 DEF MainTypeOK
    <2> QED
      BY <1>3, <2>1, <2>2, <2>3, <2>4, <2>5, <2>6 DEF Write
  <1>4. CASE Update
    BY <1>0, <1>4 DEF MainTypeOK, Update, flagVars, idVars
  <1>5. CASE CrashInInit
    BY <1>0, <1>5 DEF MainTypeOK, CrashInInit, flagVars, idVars
  <1>6. CASE Callback \/ UNCHANGED vars
    BY <1>0, <1>6 DEF MainTypeOK, Callback, vars, mainVars, flagVars
  <1> QED
    BY <1>1, <1>2, <1>3, <1>4, <1>5, <1>6 DEF Next, Main

\* Vendor and process type are settled before the program starts.
LEMMA ConfigFixed == [Next]_vars => vendor' = vendor /\ processType' = processType
  BY DEF Next, Main, Callback, vars, config

\* Every step of the publisher or of a listener keeps the types.
LEMMA TypeStep == TypeOK /\ [Next]_vars => TypeOK'
  BY ConfigFixed, WritersTypeStep, MainTypeStep DEF TypeOK, MainTypeOK

\* The publisher's variables keep their types in every reachable state: in
\* particular the pause counter never passes offset_cyles_reset and the
\* listeners' counters never become negative.
THEOREM TypeCorrect == Spec => []TypeOK
  BY TypeInit, TypeStep, PTL DEF Spec

------------------------------------------------------------------------------
(* The inductive invariant.                                                *)

\* Number of tests, in a form that arithmetic can use (finish_test).
LEMMA NumTestsFact == NumTests \in Nat /\ NumTests >= 1 /\ NumTests >= MaxTest
  BY CountsAssumption DEF NumTests

\* The inductive invariant holds before the first cycle, whatever reset holds.
LEMMA InvInit == Init => IInv
  <1> SUFFICES ASSUME Init PROVE IInv
    OBVIOUS
  <1>1. TypeOK
    BY TypeInit
  <1>2. BeforeInit /\ InStep /\ SpuriousPause
    BY DEF Init, WritersInit, BeforeInit, InStep, SpuriousPause
  <1>3. TestCount
    BY NumTestsFact DEF Init, WritersInit, TestCount
  <1>4. ControlAlternates
    BY DEF Init, WritersInit, ControlAlternates
  <1> QED
    BY <1>1, <1>2, <1>3, <1>4 DEF IInv

\* All that a step needs to leave alone for the invariant to hold after it.
LEMMA InvFrame ==
    ASSUME IInv, TypeOK', processType' = processType,
           exec' = exec, state' = state, reset' = reset, send' = send,
           cyclesReset' = cyclesReset, warmUp' = warmUp, curTest' = curTest,
           cpuTimes' = cpuTimes, control' = control,
           phase' = "write" => phase = "write",
           phase' = "read" => phase = "read" \/ exec = "EXECUTION",
           phase' = phase \/ phase' = "stopped" \/ exec # "INIT"
    PROVE  IInv'
  <1>1. BeforeInit' /\ InStep'
    BY DEF IInv, BeforeInit, InStep
  <1>2. SpuriousPause'
    BY DEF IInv, SpuriousPause
  <1>3. TestCount'
    BY DEF IInv, TestCount, NumTests
  <1>4. ControlAlternates'
    BY KeepsAlternating DEF IInv
  <1> QED
    BY <1>1, <1>2, <1>3, <1>4 DEF IInv

\* Executive::init leaves the publisher about to announce its first test.
LEMMA InvExecInit == IInv /\ TypeOK' /\ processType' = processType /\ ExecInit => IInv'
  <1> SUFFICES ASSUME IInv, TypeOK', processType' = processType, ExecInit PROVE IInv'
    OBVIOUS
  <1>1. /\ exec = "INIT" /\ phase # "stopped"
        /\ exec' = "EXECUTION" /\ state' = "Announce"
        /\ phase' = phase /\ curTest' = 0 /\ control' = control
        /\ cpuTimes' = cpuTimes /\ warmUp' = warmUp /\ cyclesReset' = cyclesReset
    BY DEF ExecInit, idVars
  <1>2. /\ phase = "read" /\ control = <<>> /\ cpuTimes = 0
        /\ warmUp = 0 /\ cyclesReset = 0
    BY <1>1 DEF IInv, BeforeInit
  <1>3. BeforeInit' /\ InStep'
    BY <1>1, <1>2 DEF BeforeInit, InStep
  <1>4. SpuriousPause'
    BY <1>1, <1>2 DEF SpuriousPause
  <1>5. TestCount'
    BY <1>1, NumTestsFact DEF TestCount, NumTests
  <1>6. ControlAlternates'
    BY <1>1, <1>2 DEF ControlAlternates
  <1> QED
    BY <1>3, <1>4, <1>5, <1>6 DEF IInv

\* read(): a pause advances, ends, or ends with the STOP of the streamed test.
LEMMA InvRead == IInv /\ TypeOK' /\ processType' = processType /\ Read => IInv'
  <1> SUFFICES ASSUME IInv, TypeOK', processType' = processType, Read PROVE IInv'
    OBVIOUS
  <1>0. exec = "EXECUTION" /\ phase = "read" /\ phase' = "write"
    BY DEF Read
  <1>1. CASE ReadIdle
    <2>1. /\ ~reset /\ exec' = exec /\ state' = state /\ reset' = reset /\ send' = send
          /\ cyclesReset' = cyclesReset /\ warmUp' = warmUp /\ curTest' = curTest
          /\ cpuTimes' = cpuTimes /\ control' = control
      BY <1>1 DEF ReadIdle, flagVars, idVars
    <2>2. BeforeInit' /\ InStep'
      BY <1>0, <2>1 DEF IInv, BeforeInit, InStep
    <2>3. SpuriousPause'
      BY <2>1 DEF SpuriousPause
    <2>4. TestCount'
      BY <1>0, <2>1 DEF IInv, TestCount, NumTests
    <2>5. ControlAlternates'
      BY <2>1, KeepsAlternating DEF IInv
    <2> QED
      BY <2>2, <2>3, <2>4, <2>5 DEF IInv
  <1>2. CASE ReadPause
    <2>1. /\ exec' = exec /\ state' = state /\ reset' = reset /\ send' = send
          /\ cyclesReset' = cyclesReset + 1 /\ warmUp' = warmUp /\ curTest' = curTest
          /\ cpuTimes' = cpuTimes /\ control' = control
      BY <1>2 DEF ReadPause, idVars
    <2>2. BeforeInit' /\ InStep'
      BY <1>0, <2>1 DEF IInv, BeforeInit, InStep
    <2>3. SpuriousPause'
      BY <2>1 DEF IInv, TypeOK, WritersTypeOK, SpuriousPause
    <2>4. TestCount'
      BY <1>0, <2>1 DEF IInv, TestCount, NumTests
    <2>5. ControlAlternates'
      BY <2>1, KeepsAlternating DEF IInv
    <2> QED
      BY <2>2, <2>3, <2>4, <2>5 DEF IInv
  <1>3. CASE ReadResume
    <2>1. /\ exec' = exec /\ state = "Announce" /\ state' = state /\ ~reset'
          /\ warmUp' = warmUp /\ curTest' = curTest
          /\ cpuTimes' = cpuTimes /\ control' = control
      BY <1>3 DEF ReadResume, idVars
    <2>2. BeforeInit' /\ InStep'
      BY <1>0, <2>1 DEF IInv, BeforeInit, InStep
    <2>3. SpuriousPause'
      BY <2>1 DEF SpuriousPause
    <2>4. TestCount'
      BY <1>0, <2>1 DEF IInv, TestCount, NumTests
    <2>5. ControlAlternates'
      BY <2>1, KeepsAlternating DEF IInv
    <2> QED
      BY <2>2, <2>3, <2>4, <2>5 DEF IInv
  <1>4. CASE ReadResetTest
    <2>1. /\ reset /\ state = "Streaming" /\ send' = send /\ cpuTimes' = cpuTimes
      BY <1>4 DEF ReadResetTest
    <2>2. /\ Len(control) = 2 * curTest + 1 /\ ~send /\ cpuTimes = curTest + 1
          /\ curTest < NumTests /\ curTest \in Nat
      <3>1. curTest < NumTests /\ curTest \in Nat
        BY <1>0 DEF IInv, TypeOK, WritersTypeOK, TestCount
      <3>2. Len(control) = 2 * curTest + 1 /\ ~send /\ cpuTimes = curTest + 1
        BY <1>0, <2>1 DEF IInv, InStep
      <3> QED
        BY <3>1, <3>2
    <2>3. curTest <= MaxTest
      BY <2>2, CountsAssumption DEF NumTests
    <2>4. /\ control' = Append(control, StopMsg(curTest + 1))
          /\ state' = "Announce" /\ curTest' = curTest + 1
          /\ exec' = IF curTest + 1 >= MaxTest THEN "END" ELSE exec
      BY <1>4, <2>3 DEF ReadResetTest, ResetTest, FinishTest
    <2>5. StopMsg(curTest + 1) = ScheduledMsg(Len(control) + 1)
      BY <2>2, Halves DEF ScheduledMsg
    <2>6. ControlAlternates'
      <3>1. StopMsg(curTest + 1) \in ControlMsg
        BY <2>2, MessageTypes
      <3> QED
        BY <2>4, <2>5, <3>1, AppendScheduled DEF IInv, TypeOK, WritersTypeOK
    <2>7. Len(control') = 2 * curTest'
      <3>1. control \in Seq(ControlMsg)
        BY DEF IInv, TypeOK, WritersTypeOK
      <3> QED
        BY <2>2, <2>4, <3>1
    <2>8. BeforeInit' /\ InStep'
      BY <1>0, <2>1, <2>2, <2>4, <2>7 DEF BeforeInit, InStep
    <2>9. SpuriousPause'
      BY <2>1, <2>2 DEF SpuriousPause
    <2>10. TestCount'
      BY <1>0, <2>1, <2>2, <2>4, CountsAssumption DEF TestCount, NumTests
    <2> QED
      BY <2>6, <2>8, <2>9, <2>10 DEF IInv
  <1> QED
    BY <1>1, <1>2, <1>3, <1>4 DEF Read

\* A batch that is streamed to its end (write()): the pause begins.
LEMMA InvStreamed ==
    ASSUME IInv, TypeOK', processType' = processType, exec # "INIT",
           send, state = "Streaming",
           exec' = exec, state' = state, cyclesReset' = cyclesReset,
           warmUp' = warmUp, curTest' = curTest, control' = control,
           cpuTimes' = cpuTimes + 1, reset' = TRUE, send' = FALSE,
           phase' = "update"
    PROVE  IInv'
  <1>1. InStep'
    BY DEF IInv, TypeOK, WritersTypeOK, InStep
  <1>2. BeforeInit' /\ SpuriousPause'
    BY DEF BeforeInit, SpuriousPause
  <1>3. TestCount'
    BY DEF IInv, TestCount, NumTests
  <1>4. ControlAlternates'
    BY KeepsAlternating DEF IInv
  <1> QED
    BY <1>1, <1>2, <1>3, <1>4 DEF IInv

\* write(): the warm-up keeps behind the spurious pause, a START is written when
\* that pause is over, and a batch only in a test that waits for it.
LEMMA InvWrite == IInv /\ TypeOK' /\ processType' = processType /\ Write => IInv'
  <1> SUFFICES ASSUME IInv, TypeOK', processType' = processType, Write PROVE IInv'
    OBVIOUS
  <1>0. phase = "write"
    BY DEF Write
  <1>1. exec # "INIT"
    BY <1>0 DEF IInv, BeforeInit
  <1>2. CASE WriteSkip
    <2>1. /\ exec' = exec /\ state' = state /\ reset' = reset /\ send' = send
          /\ cyclesReset' = cyclesReset /\ warmUp' = warmUp /\ curTest' = curTest
          /\ cpuTimes' = cpuTimes /\ control' = control /\ phase' = "update"
      BY <1>2 DEF WriteSkip, flagVars, idVars
    <2> QED
      BY <1>0, <1>1, <2>1, InvFrame
  <1>3. CASE WriteWarmUp \/ WriteAnnounceCrash
    <2>1. /\ send /\ state = "Announce" /\ warmUp' = warmUp + 1
          /\ exec' = exec /\ state' = state /\ reset' = reset /\ send' = send
          /\ cyclesReset' = cyclesReset /\ curTest' = curTest
          /\ cpuTimes' = cpuTimes /\ control' = control
          /\ phase' = "update" \/ phase' = "stopped"
      BY <1>3 DEF WriteWarmUp, WriteAnnounceCrash, WriteReady, idVars
    <2>2. BeforeInit' /\ InStep'
      BY <1>1, <2>1 DEF IInv, BeforeInit, InStep
    <2>3. SpuriousPause'
      BY <1>0, <2>1 DEF IInv, TypeOK, WritersTypeOK, SpuriousPause
    <2>4. TestCount'
      BY <2>1 DEF IInv, TestCount, NumTests
    <2>5. ControlAlternates'
      BY <2>1, KeepsAlternating DEF IInv
    <2> QED
      BY <2>2, <2>3, <2>4, <2>5 DEF IInv
  <1>4. CASE WriteAnnounce
    <2>1. /\ send /\ state = "Announce" /\ warmUp >= OffsetCycleStart
          /\ control' = Append(control, StartMsg(curTest + 1)) /\ state' = "Streaming"
          /\ exec' = exec /\ reset' = reset /\ send' = send
          /\ curTest' = curTest /\ cpuTimes' = cpuTimes /\ phase' = "update"
      BY <1>4 DEF WriteAnnounce, WriteReady, idVars
    <2>2. Len(control) = 2 * curTest /\ cpuTimes = curTest
      BY <1>1, <2>1 DEF IInv, InStep
    <2>3. curTest \in Nat /\ control \in Seq(ControlMsg)
      BY DEF IInv, TypeOK, WritersTypeOK
    <2>4. ~reset
      <3>1. /\ warmUp \in Nat
            /\ cyclesReset \in 0 .. OffsetCyclesReset
        BY DEF IInv, TypeOK, WritersTypeOK
      <3>2. reset => warmUp < cyclesReset
        BY <1>0, <2>1 DEF IInv, SpuriousPause
      <3>3. ~(warmUp < cyclesReset)
        BY <2>1, <3>1, CountsAssumption, WarmUpAssumption
      <3> QED
        BY <3>2, <3>3
    <2>5. StartMsg(curTest + 1) = ScheduledMsg(Len(control) + 1)
      BY <2>2, <2>3, Halves DEF ScheduledMsg
    <2>6. ControlAlternates'
      <3>1. StartMsg(curTest + 1) \in ControlMsg
        BY <2>3, MessageTypes
      <3> QED
        BY <2>1, <2>3, <2>5, <3>1, AppendScheduled DEF IInv
    <2>7. Len(control') = 2 * curTest' + 1
      BY <2>1, <2>2, <2>3
    <2>8. BeforeInit' /\ InStep'
      BY <1>1, <2>1, <2>2, <2>4, <2>7 DEF BeforeInit, InStep
    <2>9. SpuriousPause'
      BY <2>1 DEF SpuriousPause
    <2>10. TestCount'
      BY <2>1 DEF IInv, TestCount, NumTests
    <2> QED
      BY <2>6, <2>8, <2>9, <2>10 DEF IInv
  <1>5. CASE WriteNormal
    <2>1. /\ send /\ state = "Streaming"
          /\ exec' = exec /\ state' = state /\ cyclesReset' = cyclesReset
          /\ warmUp' = warmUp /\ curTest' = curTest /\ control' = control
      BY <1>5 DEF WriteNormal, WriteReady
    <2>2. CASE /\ cpuTimes' = cpuTimes + 1
               /\ reset' = TRUE
               /\ send' = FALSE
               /\ phase' = "update"
      BY <1>1, <2>1, <2>2, InvStreamed
    <2>3. CASE /\ phase' = "stopped"
               /\ cpuTimes' = cpuTimes
               /\ reset' = reset
               /\ send' = send
      BY <1>0, <2>1, <2>3, InvFrame
    <2> QED
      BY <1>5, <2>2, <2>3, NormalCases
  <1>6. CASE WriteLoan
    <2>1. /\ send /\ state = "Streaming"
          /\ exec' = exec /\ state' = state /\ cyclesReset' = cyclesReset
          /\ warmUp' = warmUp /\ curTest' = curTest /\ control' = control
          /\ cpuTimes' = cpuTimes + 1 /\ phase' = "update"
      BY <1>6 DEF WriteLoan, WriteReady
    <2>2. reset' = TRUE /\ send' = FALSE
      BY <1>6 DEF WriteLoan
    <2> QED
      BY <1>1, <2>1, <2>2, InvStreamed
  <1> QED
    BY <1>2, <1>3, <1>4, <1>5, <1>6 DEF Write

\* The invariant holds after every step of the publisher.
LEMMA InvStep == IInv /\ [Next]_vars => IInv'
  <1> SUFFICES ASSUME IInv, [Next]_vars PROVE IInv'
    OBVIOUS
  <1>0. TypeOK'
    BY TypeStep DEF IInv
  <1>c. processType' = processType
    BY ConfigFixed
  <1>1. CASE ExecInit
    BY <1>0, <1>c, <1>1, InvExecInit
  <1>2. CASE Read
    BY <1>0, <1>c, <1>2, InvRead
  <1>3. CASE Write
    BY <1>0, <1>c, <1>3, InvWrite
  <1>4. CASE Update
    BY <1>0, <1>c, <1>4, InvFrame DEF Update, flagVars, idVars
  <1>5. CASE CrashInInit
    BY <1>0, <1>c, <1>5, InvFrame DEF CrashInInit, flagVars, idVars
  <1>6. CASE Callback \/ UNCHANGED vars
    <2>1. /\ exec' = exec /\ state' = state /\ reset' = reset /\ send' = send
          /\ cyclesReset' = cyclesReset /\ warmUp' = warmUp /\ curTest' = curTest
          /\ cpuTimes' = cpuTimes /\ control' = control /\ phase' = phase
      BY <1>6 DEF Callback, vars, mainVars, flagVars, OnDataMatched, OnDataUnmatched,
         OnControlMatched, OnControlUnmatched
    <2> QED
      BY <1>0, <1>c, <2>1, InvFrame
  <1> QED
    BY <1>1, <1>2, <1>3, <1>4, <1>5, <1>6 DEF Next, Main

\* The inductive invariant holds in every reachable state.
THEOREM Invariance == Spec => []IInv
  BY InvInit, InvStep, PTL DEF Spec

------------------------------------------------------------------------------
(* What the invariant says about the two topics and the end of the run.    *)

\* The control topic carries START 1, STOP 1, START 2, STOP 2, ... and nothing
\* else (write() and reset_test()).
THEOREM Alternation == Spec => []ControlAlternates
  <1>1. IInv => ControlAlternates
    BY DEF IInv
  <1> QED
    BY <1>1, Invariance, PTL

\* The state of the publisher gives the number of STARTs, STOPs and batches
\* written so far (current_test and the state of pub_test_1_to_1).
LEMMA Progress ==
    ASSUME IInv
    PROVE  /\ cpuTimes \in Nat
           /\ Len(control) \div 2 = curTest
           /\ \/ (Len(control) + 1) \div 2 = curTest /\ cpuTimes = curTest
              \/ (Len(control) + 1) \div 2 = curTest + 1 /\ cpuTimes = curTest
              \/ (Len(control) + 1) \div 2 = curTest + 1 /\ cpuTimes = curTest + 1
  <1>1. curTest \in Nat /\ cpuTimes \in Nat
    BY DEF IInv, TypeOK, WritersTypeOK
  <1>2. CASE exec = "INIT"
    BY <1>2 DEF IInv, BeforeInit
  <1>3. CASE exec # "INIT"
    <2>1. \/ Len(control) = 2 * curTest /\ cpuTimes = curTest
          \/ Len(control) = 2 * curTest + 1 /\ cpuTimes = curTest
          \/ Len(control) = 2 * curTest + 1 /\ cpuTimes = curTest + 1
      BY <1>3 DEF IInv, InStep
    <2> QED
      BY <1>1, <2>1, Halves
  <1> QED
    BY <1>2, <1>3

\* No STOP before the batch of its test, no batch before its START, whatever
\* value the uninitialised "reset" has: this is what the warm-up is long enough
\* for (WarmUpAssumption).
THEOREM BatchesInTests == Spec => []BatchPerTest
  <1>1. IInv => BatchPerTest
    <2> SUFFICES ASSUME IInv PROVE BatchPerTest
      OBVIOUS
    <2>1. curTest \in Nat
      BY DEF IInv, TypeOK, WritersTypeOK
    <2> QED
      BY <2>1, Progress DEF BatchPerTest
  <1> QED
    BY <1>1, Invariance, PTL

\* The end is requested after the last STOP only (make_final_report).
THEOREM EndsLast == Spec => []EndsAfterAllTests
  <1>1. IInv => EndsAfterAllTests
    <2> SUFFICES ASSUME IInv, exec = "END"
                 PROVE  Len(control) = 2 * NumTests /\ cpuTimes = NumTests
      BY DEF EndsAfterAllTests
    <2>1. curTest = NumTests /\ state = "Announce"
      BY DEF IInv, TestCount
    <2>2. Len(control) = 2 * curTest /\ cpuTimes = curTest
      BY <2>1 DEF IInv, InStep
    <2> QED
      BY <2>1, <2>2
  <1> QED
    BY <1>1, Invariance, PTL

------------------------------------------------------------------------------
(* The publisher implements the sequence of tests of TestRun.              *)

\* A step that writes neither topic leaves the abstract run alone.
LEMMA SilentStep ==
    control' = control /\ cpuTimes' = cpuTimes =>
        [Run!Next]_<<(Len(control) + 1) \div 2, cpuTimes, Len(control) \div 2>>
  OBVIOUS

\* A streamed batch is the abstract Stream: its test is announced, and nothing of
\* it is streamed yet (write()).
LEMMA StreamStep ==
    ASSUME IInv, exec # "INIT", send, state = "Streaming",
           control' = control, cpuTimes' = cpuTimes + 1
    PROVE  Run!Stream
  <1>1. curTest \in Nat /\ control \in Seq(ControlMsg)
    BY DEF IInv, TypeOK, WritersTypeOK
  <1>2. Len(control) = 2 * curTest + 1 /\ cpuTimes = curTest
    BY DEF IInv, InStep
  <1> QED
    BY <1>1, <1>2, Halves DEF Run!Stream

\* Each step of the publisher is a step of the abstract run, or none.
LEMMA RunStep ==
    IInv /\ [Next]_vars =>
        [Run!Next]_<<(Len(control) + 1) \div 2, cpuTimes, Len(control) \div 2>>
  <1> SUFFICES ASSUME IInv, [Next]_vars
               PROVE  [Run!Next]_<<(Len(control) + 1) \div 2, cpuTimes, Len(control) \div 2>>
    OBVIOUS
  <1>0. curTest \in Nat /\ control \in Seq(ControlMsg)
    BY DEF IInv, TypeOK, WritersTypeOK
  <1>1. CASE Read
    <2>1. CASE ReadIdle \/ ReadPause \/ ReadResume
      BY <2>1, SilentStep DEF ReadIdle, ReadPause, ReadResume, idVars
    <2>2. CASE ReadResetTest
      <3>1. /\ exec = "EXECUTION" /\ reset /\ state = "Streaming" /\ cpuTimes' = cpuTimes
        BY <1>1, <2>2 DEF Read, ReadResetTest
      <3>2. curTest < NumTests
        BY <3>1 DEF IInv, TestCount
      <3>3. Len(control) = 2 * curTest + 1 /\ cpuTimes = curTest + 1
        BY <3>1 DEF IInv, InStep
      <3>4. curTest <= MaxTest
        BY <1>0, <3>2, CountsAssumption DEF NumTests
      <3>5. control' = Append(control, StopMsg(curTest + 1))
        BY <2>2, <3>4 DEF ReadResetTest, ResetTest
      <3>6. Len(control') = 2 * curTest + 1 + 1
        BY <1>0, <3>3, <3>5
      <3>7. /\ Len(control) \div 2 = curTest
            /\ Len(control') \div 2 = curTest + 1
            /\ (Len(control) + 1) \div 2 = curTest + 1
            /\ (Len(control') + 1) \div 2 = curTest + 1
        BY <1>0, <3>3, <3>6
      <3>8. Run!Stop
        BY <1>0, <3>1, <3>3, <3>7 DEF Run!Stop
      <3> QED
        BY <3>8 DEF Run!Next
    <2> QED
      BY <1>1, <2>1, <2>2 DEF Read
  <1>2. CASE Write
    <2>0. exec # "INIT"
      BY <1>2 DEF Write, IInv, BeforeInit
    <2>1. CASE WriteSkip \/ WriteWarmUp \/ WriteAnnounceCrash
      BY <2>1, SilentStep DEF WriteSkip, WriteWarmUp, WriteAnnounceCrash, idVars
    <2>2. CASE WriteAnnounce
      <3>1. /\ send /\ state = "Announce" /\ cpuTimes' = cpuTimes
            /\ control' = Append(control, StartMsg(curTest + 1))
        BY <2>2 DEF WriteAnnounce, WriteReady, idVars
      <3>2. Len(control) = 2 * curTest
        BY <2>0, <3>1 DEF IInv, InStep
      <3>3. curTest < NumTests
        BY <3>1 DEF IInv, TestCount
      <3>4. Len(control') = 2 * curTest + 1
        BY <1>0, <3>1, <3>2
      <3>5. /\ Len(control) \div 2 = curTest
            /\ Len(control') \div 2 = curTest
            /\ (Len(control) + 1) \div 2 = curTest
            /\ (Len(control') + 1) \div 2 = curTest + 1
        BY <1>0, <3>2, <3>4
      <3>6. Run!Announce
        BY <3>1, <3>3, <3>5 DEF Run!Announce
      <3> QED
        BY <3>6 DEF Run!Next
    <2>3. CASE WriteNormal
      <3>1. send /\ state = "Streaming" /\ control' = control
        BY <2>3 DEF WriteNormal, WriteReady
      <3>2. CASE cpuTimes' = cpuTimes + 1
        BY <2>0, <3>1, <3>2, StreamStep DEF Run!Next
      <3>3. CASE cpuTimes' = cpuTimes
        BY <3>1, <3>3, SilentStep
      <3> QED
        BY <2>3, <3>2, <3>3, NormalCases
    <2>4. CASE WriteLoan
      <3>1. send /\ state = "Streaming" /\ control' = control /\ cpuTimes' = cpuTimes + 1
        BY <2>4 DEF WriteLoan, WriteReady
      <3> QED
        BY <2>0, <3>1, StreamStep DEF Run!Next
    <2> QED
      BY <1>2, <2>1, <2>2, <2>3, <2>4 DEF Write
  <1>3. CASE ExecInit \/ CrashInInit \/ Update
    BY <1>3, SilentStep DEF ExecInit, CrashInInit, Update, idVars
  <1>4. CASE Callback \/ UNCHANGED vars
    BY <1>4, SilentStep DEF Callback, OnDataMatched, OnDataUnmatched,
       OnControlMatched, OnControlUnmatched, vars, mainVars
  <1> QED
    BY <1>1, <1>2, <1>3, <1>4 DEF Next, Main

\* The publisher announces, streams and stops test after test, NumTests of them:
\* the sequence of the comment in pub_test_1_to_1.h:125-129.
THEOREM ImplementsTestRun == Spec => RunSpec
  <1>1. Init => Run!Init
    <2> SUFFICES ASSUME Init PROVE Run!Init
      OBVIOUS
    <2>1. Len(control) = 0 /\ cpuTimes = 0
      BY DEF Init, WritersInit
    <2> QED
      BY <2>1 DEF Run!Init
  <1> QED
    BY <1>1, RunStep, Invariance, PTL DEF Spec, RunSpec, Run!Spec

------------------------------------------------------------------------------
(* Each call brings the end closer.                                        *)

\* After Executive::init the publisher always has something to do: it is in a
\* pause, or write() is not switched off.
NeverMute == exec = "EXECUTION" => send \/ reset

\* write() clears send only when it sets reset, and read() clears reset only when
\* it sets send, or at the end.
LEMMA NeverMuteStep == IInv /\ NeverMute /\ [Next]_vars => NeverMute'
  <1> SUFFICES ASSUME IInv, NeverMute, [Next]_vars PROVE NeverMute'
    OBVIOUS
  <1>1. CASE ExecInit
    BY <1>1 DEF ExecInit, NeverMute
  <1>2. CASE Read
    <2>1. CASE ReadIdle \/ ReadPause \/ ReadResume
      BY <2>1 DEF ReadIdle, ReadPause, ReadResume, flagVars, NeverMute
    <2>2. CASE ReadResetTest
      <3>1. curTest < NumTests /\ curTest \in Nat
        BY <1>2 DEF Read, IInv, TypeOK, TestCount
      <3>2. curTest <= MaxTest
        BY <3>1, CountsAssumption DEF NumTests
      <3> QED
        BY <2>2, <3>2 DEF ReadResetTest, ResetTest, NeverMute
    <2> QED
      BY <1>2, <2>1, <2>2 DEF Read
  <1>3. CASE Write
    <2>1. CASE WriteSkip \/ WriteWarmUp \/ WriteAnnounce \/ WriteAnnounceCrash
      BY <2>1 DEF WriteSkip, WriteWarmUp, WriteAnnounce, WriteAnnounceCrash, flagVars, NeverMute
    <2>2. CASE WriteNormal
      <3>1. exec' = exec /\ (reset' \/ (reset' = reset /\ send' = send))
        <4>1. exec' = exec
          BY <2>2 DEF WriteNormal
        <4> QED
          BY <2>2, <4>1, NormalCases
      <3> QED
        BY <3>1 DEF NeverMute
    <2>3. CASE WriteLoan
      BY <2>3 DEF WriteLoan, NeverMute
    <2> QED
      BY <1>3, <2>1, <2>2, <2>3 DEF Write
  <1>4. CASE CrashInInit \/ Update \/ UNCHANGED vars
    BY <1>4 DEF CrashInInit, Update, vars, mainVars, flagVars, NeverMute
  <1>5. CASE Callback
    BY <1>5 DEF Callback, mainVars, flagVars, NeverMute
  <1> QED
    BY <1>1, <1>2, <1>3, <1>4, <1>5 DEF Next, Main

\* The parts of CyclesLeft count: none of them is negative, and a pause that is on
\* takes at least one more pass.
LEMMA PartsCount ==
    ASSUME IInv
    PROVE  /\ PauseLeft \in 0 .. Pause
           /\ reset => PauseLeft \in Nat \ {0}
           /\ WarmUpLeft \in Nat
           /\ TestLeft \in Nat
           /\ exec # "END" => LaterTests \in Nat
           /\ CyclesLeft \in Nat
  <1>1. /\ cyclesReset \in 0 .. OffsetCyclesReset /\ warmUp \in Nat /\ curTest \in Nat
        /\ exec \in {"INIT", "EXECUTION", "END"}
    BY DEF IInv, TypeOK
  <1>2. PauseLeft \in 0 .. Pause /\ (reset => PauseLeft \in Nat \ {0})
    BY <1>1, CountsAssumption DEF PauseLeft, Pause
  <1>3. WarmUpLeft \in Nat
    BY <1>1, CountsAssumption DEF WarmUpLeft
  <1>4. TestLeft \in Nat
    BY CountsAssumption DEF TestLeft, Pause
  <1>5. exec # "END" => LaterTests \in Nat
    <2> SUFFICES ASSUME exec # "END" PROVE LaterTests \in Nat
      OBVIOUS
    <2>1. NumTests - curTest - 1 \in Nat
      BY <1>1, NumTestsFact DEF IInv, TestCount
    <2>2. 2 * Pause + 2 \in Nat
      BY CountsAssumption DEF Pause
    <2>3. \A m, n \in Nat : m * n \in Nat
      OBVIOUS
    <2> QED
      BY <2>1, <2>2, <2>3 DEF LaterTests
  <1>6. PauseLeft \in Nat
    BY <1>2, CountsAssumption DEF Pause
  <1>7. CyclesLeft \in Nat
    BY <1>1, <1>3, <1>4, <1>5, <1>6 DEF CyclesLeft
  <1> QED
    BY <1>2, <1>3, <1>4, <1>5, <1>7

\* While the executive runs, the passes left are the sum of their parts.
LEMMA Parts ==
    /\ exec = "EXECUTION" => CyclesLeft = PauseLeft + WarmUpLeft + TestLeft + LaterTests
    /\ exec' = "EXECUTION" =>
            CyclesLeft' = PauseLeft' + WarmUpLeft' + TestLeft' + LaterTests'
    /\ exec' = "END" => CyclesLeft' = 0
  BY DEF CyclesLeft

\* A pause takes no pass off the later tests, nor does anything else that leaves
\* current_test alone.
LEMMA SameTests == curTest' = curTest => LaterTests' = LaterTests
  BY DEF LaterTests, NumTests, Pause

\* A call that leaves the publisher's flags and counters alone leaves it as many
\* passes as before.
LEMMA SameCycles ==
    ASSUME exec' = exec, curTest' = curTest, UNCHANGED flagVars
    PROVE  CyclesLeft' = CyclesLeft
  <1>1. /\ PauseLeft' = PauseLeft /\ WarmUpLeft' = WarmUpLeft /\ TestLeft' = TestLeft
    BY DEF flagVars, PauseLeft, WarmUpLeft, TestLeft, Pause
  <1> QED
    BY <1>1, SameTests DEF CyclesLeft

\* Three calls make a pass: arithmetic of the measure.
LEMMA ThreeCalls ==
    ASSUME NEW w \in Nat, NEW v \in Nat, NEW k \in Nat, NEW l \in Nat,
           (v < w /\ l < k + 3) \/ (v = w /\ l < k)
    PROVE  3 * v + l < 3 * w + k
  OBVIOUS

\* A pass less pays for the three calls of a pass: whatever the call that follows
\* is, the measure goes down.
LEMMA PassLess ==
    ASSUME CyclesLeft \in Nat, CyclesLeft' \in Nat, CyclesLeft' < CyclesLeft,
           TypeOK, TypeOK', phase # "stopped",
           phase = "write" => phase' \in {"update", "stopped"}
    PROVE  Measure' < Measure
  <1>1. CallsLeft \in 1 .. 4 /\ (phase # "write" => CallsLeft \in 2 .. 4)
    BY DEF TypeOK, CallsLeft
  <1>2. CallsLeft' \in 0 .. 4 /\ (phase = "write" => CallsLeft' \in 0 .. 3)
    BY DEF TypeOK, CallsLeft
  <1>3. Measure = 3 * CyclesLeft + CallsLeft /\ Measure' = 3 * CyclesLeft' + CallsLeft'
    BY DEF Measure
  <1>4. CallsLeft' < CallsLeft + 3 /\ CallsLeft \in Nat /\ CallsLeft' \in Nat
    BY <1>1, <1>2
  <1> QED
    BY <1>3, <1>4, ThreeCalls

\* The end comes closer in one call, from a state of the invariant.
Closer == CyclesLeft' \in 0 .. CyclesLeft /\ (IsMatched /\ CtrlIsMatched => Measure' < Measure)

\* A pass less is all that is needed.
LEMMA PassTaken ==
    ASSUME IInv, IInv', phase # "stopped", CyclesLeft' < CyclesLeft,
           phase = "write" => phase' \in {"update", "stopped"}
    PROVE  Closer
  <1>1. CyclesLeft \in Nat /\ TypeOK
    BY PartsCount DEF IInv
  <1>2. CyclesLeft' \in Nat /\ TypeOK'
    <2>1. (IInv => CyclesLeft \in Nat /\ TypeOK)'
      BY PartsCount, PTL DEF IInv
    <2> QED
      BY <2>1
  <1>3. Measure' < Measure
    BY <1>1, <1>2, PassLess
  <1> QED
    BY <1>1, <1>2, <1>3 DEF Closer

\* Without one, the call itself has to be one of those that CallsLeft counts.
LEMMA CallTaken ==
    ASSUME IInv, CyclesLeft' = CyclesLeft,
           IsMatched /\ CtrlIsMatched => CallsLeft' < CallsLeft,
           CallsLeft \in Nat, CallsLeft' \in Nat
    PROVE  Closer
  <1>1. CyclesLeft \in Nat
    BY PartsCount
  <1>2. Measure = 3 * CyclesLeft + CallsLeft /\ Measure' = 3 * CyclesLeft' + CallsLeft'
    BY DEF Measure
  <1>3. CyclesLeft' \in 0 .. CyclesLeft
    BY <1>1
  <1>4. CallsLeft' < CallsLeft => Measure' < Measure
    BY <1>1, <1>2, ThreeCalls
  <1> QED
    BY <1>3, <1>4 DEF Closer

\* Executive::init takes the first pass, whatever value reset has.
LEMMA InitCloser ==
    ASSUME IInv, IInv', ExecInit
    PROVE  Closer
  <1>1. /\ exec = "INIT" /\ phase # "stopped" /\ phase' = phase
        /\ exec' = "EXECUTION" /\ state' = "Announce"
        /\ curTest' = 0
        /\ reset' = reset /\ cyclesReset' = cyclesReset /\ warmUp' = warmUp
    BY DEF ExecInit
  <1>2. state = "WaitingMatch" /\ curTest = 0 /\ phase = "read"
    BY <1>1 DEF IInv, BeforeInit
  <1>3. /\ PauseLeft' = PauseLeft /\ WarmUpLeft' = WarmUpLeft
        /\ TestLeft' = TestLeft /\ LaterTests' = LaterTests
    BY <1>1, <1>2, SameTests DEF PauseLeft, WarmUpLeft, TestLeft, Pause
  <1>4. CyclesLeft = PauseLeft + WarmUpLeft + TestLeft + LaterTests + 1
    BY <1>1 DEF CyclesLeft
  <1>5. /\ PauseLeft \in Nat /\ WarmUpLeft \in Nat
        /\ TestLeft \in Nat /\ LaterTests \in Nat
    BY <1>1, PartsCount, CountsAssumption DEF Pause
  <1> QED
    BY <1>1, <1>2, <1>3, <1>4, <1>5, Parts, PassTaken

\* read() in a pause: a pass is taken off the pause, off the test that is over, or
\* the call finds nothing to do and write() has its turn.
LEMMA ReadCloser ==
    ASSUME IInv, IInv', NeverMute, Read
    PROVE  Closer
  <1>1. exec = "EXECUTION" /\ phase = "read" /\ phase' = "write"
    BY DEF Read
  <1>2. /\ PauseLeft \in Nat /\ WarmUpLeft \in Nat
        /\ TestLeft \in Nat /\ LaterTests \in Nat
        /\ CyclesLeft = PauseLeft + WarmUpLeft + TestLeft + LaterTests
        /\ reset => PauseLeft >= 1
    BY <1>1, PartsCount, Parts, CountsAssumption DEF Pause
  <1>3. /\ cyclesReset \in 0 .. OffsetCyclesReset /\ curTest \in Nat
        /\ curTest < NumTests
    BY <1>1 DEF IInv, TypeOK, TestCount
  <1>4. CASE ReadIdle
    <2>1. ~reset /\ exec' = exec /\ curTest' = curTest /\ UNCHANGED flagVars
      BY <1>4 DEF ReadIdle
    <2>2. send /\ send' = send
      BY <1>1, <2>1 DEF NeverMute, flagVars
    <2>3. CallsLeft = 2 /\ CallsLeft' = 1
      BY <1>1, <2>2 DEF CallsLeft
    <2>4. CyclesLeft' = CyclesLeft
      BY <2>1, SameCycles
    <2> QED
      BY <2>3, <2>4, CallTaken
  <1>5. CASE ReadPause
    <2>1. /\ reset /\ cyclesReset' = cyclesReset + 1
          /\ reset' = reset /\ send' = send /\ state' = state /\ warmUp' = warmUp
          /\ exec' = exec /\ curTest' = curTest
      BY <1>5 DEF ReadPause
    <2>2. PauseLeft' = PauseLeft - 1
      BY <1>3, <2>1, CountsAssumption DEF PauseLeft, Pause
    <2>3. /\ WarmUpLeft' = WarmUpLeft /\ TestLeft' = TestLeft /\ LaterTests' = LaterTests
      BY <2>1, SameTests DEF WarmUpLeft, TestLeft, Pause
    <2>4. CyclesLeft' < CyclesLeft
      BY <1>1, <1>2, <2>1, <2>2, <2>3, Parts
    <2> QED
      BY <1>1, <2>4, PassTaken
  <1>6. CASE ReadResume
    <2>1. /\ reset /\ ~reset' /\ state = "Announce" /\ state' = state
          /\ warmUp' = warmUp /\ exec' = exec /\ curTest' = curTest
      BY <1>6 DEF ReadResume
    <2>2. PauseLeft' = 0
      BY <2>1 DEF PauseLeft
    <2>3. /\ WarmUpLeft' = WarmUpLeft /\ TestLeft' = TestLeft /\ LaterTests' = LaterTests
      BY <2>1, SameTests DEF WarmUpLeft, TestLeft, Pause
    <2>4. CyclesLeft' < CyclesLeft
      BY <1>1, <1>2, <2>1, <2>2, <2>3, Parts
    <2> QED
      BY <1>1, <2>4, PassTaken
  <1>7. CASE ReadResetTest
    <2>1. reset /\ state = "Streaming" /\ send' = send /\ warmUp' = warmUp /\ cyclesReset' = 0
      BY <1>7 DEF ReadResetTest
    <2>2. ~send /\ curTest <= MaxTest
      <3>1. ~send
        BY <1>1, <2>1 DEF IInv, InStep
      <3> QED
        BY <1>3, <3>1, CountsAssumption DEF NumTests
    <2>3. /\ state' = "Announce" /\ reset' = TRUE /\ curTest' = curTest + 1
          /\ exec' = IF curTest + 1 >= MaxTest THEN "END" ELSE exec
      BY <1>7, <2>2 DEF ReadResetTest, ResetTest, FinishTest
    <2>4. CASE exec' = "END"
      <3>1. CyclesLeft' = 0
        BY <2>4, Parts
      <3>2. 0 < CyclesLeft
        BY <1>2, <2>1
      <3> QED
        BY <1>1, <3>1, <3>2, PassTaken
    <2>5. CASE exec' = "EXECUTION"
      <3>1. curTest + 1 < MaxTest /\ NumTests = MaxTest
        BY <1>3, <2>3, <2>5, CountsAssumption DEF NumTests
      <3>2. /\ PauseLeft' = Pause /\ TestLeft' = Pause + 2
            /\ TestLeft = 0 /\ WarmUpLeft' = WarmUpLeft
        BY <2>1, <2>2, <2>3, CountsAssumption
        DEF PauseLeft, TestLeft, WarmUpLeft, Pause
      <3>3. LaterTests' = LaterTests - (2 * Pause + 2)
        <4>1. LaterTests' = (NumTests - (curTest + 1) - 1) * (2 * Pause + 2)
          BY <2>3 DEF LaterTests, NumTests, Pause
        <4>2. \A m, n \in Nat : (m + 1) * n = m * n + n
          OBVIOUS
        <4>3. /\ NumTests - (curTest + 1) - 1 \in Nat /\ 2 * Pause + 2 \in Nat
              /\ NumTests - curTest - 1 = (NumTests - (curTest + 1) - 1) + 1
          BY <1>3, <3>1, CountsAssumption DEF Pause
        <4>4. LaterTests = LaterTests' + (2 * Pause + 2)
          BY <4>1, <4>2, <4>3 DEF LaterTests
        <4>5. LaterTests' \in Nat
          BY <4>1, <4>3
        <4> QED
          BY <4>3, <4>4, <4>5
      <3>4. CyclesLeft' = PauseLeft' + WarmUpLeft' + TestLeft' + LaterTests'
        BY <2>5, Parts
      <3>5. Pause \in Nat
        BY CountsAssumption DEF Pause
      <3>6. CyclesLeft' < CyclesLeft
        BY <1>2, <2>1, <3>2, <3>3, <3>4, <3>5
      <3> QED
        BY <1>1, <3>6, PassTaken
    <2> QED
      BY <1>1, <2>3, <2>4, <2>5
  <1> QED
    BY <1>4, <1>5, <1>6, <1>7 DEF Read

\* write(): the warm-up advances, a START is written, a batch is streamed and its
\* pause begins; or it returns at once, and then it is read() that has work to do.
LEMMA WriteCloser ==
    ASSUME IInv, IInv', Write
    PROVE  Closer
  <1>1. phase = "write"
    BY DEF Write
  <1>2. exec # "INIT"
    BY <1>1 DEF IInv, BeforeInit
  <1>3. CASE WriteSkip
    <2>1. /\ exec' = exec /\ curTest' = curTest /\ UNCHANGED flagVars
          /\ phase' = "update"
          /\ IsMatched /\ CtrlIsMatched => ~send
      BY <1>3 DEF WriteSkip
    <2>2. CyclesLeft' = CyclesLeft
      BY <2>1, SameCycles
    <2>3. CallsLeft' = 3 /\ CallsLeft \in Nat /\ (~send => CallsLeft = 4)
      BY <1>1, <2>1 DEF CallsLeft
    <2> QED
      BY <2>1, <2>2, <2>3, CallTaken
  <1>4. CASE ~WriteSkip
    <2>1. send
      BY <1>4 DEF Write, WriteWarmUp, WriteAnnounce, WriteAnnounceCrash, WriteNormal,
         WriteLoan, WriteReady
    <2>2. exec = "EXECUTION"
      BY <1>2, <2>1 DEF IInv, TypeOK, TestCount
    <2>3. /\ PauseLeft \in Nat /\ WarmUpLeft \in Nat
          /\ TestLeft \in Nat /\ LaterTests \in Nat
          /\ CyclesLeft = PauseLeft + WarmUpLeft + TestLeft + LaterTests
      BY <2>2, PartsCount, Parts, CountsAssumption DEF Pause
    <2>4. warmUp \in Nat /\ Pause \in Nat
      BY CountsAssumption DEF IInv, TypeOK, Pause
    <2>5. CASE WriteWarmUp
      <3>1. /\ warmUp < OffsetCycleStart /\ warmUp' = warmUp + 1 /\ phase' = "update"
            /\ exec' = exec /\ reset' = reset /\ cyclesReset' = cyclesReset
            /\ send' = send /\ state' = state /\ curTest' = curTest
        BY <2>5 DEF WriteWarmUp
      <3>2. WarmUpLeft' = WarmUpLeft - 1
        BY <2>4, <3>1, CountsAssumption DEF WarmUpLeft
      <3>3. /\ PauseLeft' = PauseLeft /\ TestLeft' = TestLeft /\ LaterTests' = LaterTests
        BY <3>1, SameTests DEF PauseLeft, TestLeft, Pause
      <3>4. CyclesLeft' < CyclesLeft
        BY <2>2, <2>3, <3>1, <3>2, <3>3, Parts
      <3> QED
        BY <1>1, <3>1, <3>4, PassTaken
    <2>6. CASE WriteAnnounce
      <3>1. /\ warmUp >= OffsetCycleStart /\ warmUp' = warmUp + 1 /\ phase' = "update"
            /\ state = "Announce" /\ state' = "Streaming"
            /\ exec' = exec /\ reset' = reset /\ cyclesReset' = cyclesReset
            /\ send' = send /\ curTest' = curTest
        BY <2>6 DEF WriteAnnounce
      <3>2. TestLeft = Pause + 2 /\ TestLeft' = Pause + 1
        BY <2>1, <3>1 DEF TestLeft, Pause
      <3>3. WarmUpLeft = 0 /\ WarmUpLeft' = 0
        BY <2>4, <3>1, CountsAssumption DEF WarmUpLeft
      <3>4. PauseLeft' = PauseLeft /\ LaterTests' = LaterTests
        BY <3>1, SameTests DEF PauseLeft, Pause
      <3>5. CyclesLeft' < CyclesLeft
        BY <2>2, <2>3, <2>4, <3>1, <3>2, <3>3, <3>4, Parts
      <3> QED
        BY <1>1, <3>1, <3>5, PassTaken
    <2>7. CASE WriteAnnounceCrash
      <3>1. /\ warmUp >= OffsetCycleStart /\ warmUp' = warmUp + 1 /\ phase' = "stopped"
            /\ exec' = exec /\ reset' = reset /\ cyclesReset' = cyclesReset
            /\ send' = send /\ state' = state /\ curTest' = curTest
        BY <2>7 DEF WriteAnnounceCrash
      <3>2. WarmUpLeft = 0 /\ WarmUpLeft' = 0
        BY <2>4, <3>1, CountsAssumption DEF WarmUpLeft
      <3>3. PauseLeft' = PauseLeft /\ TestLeft' = TestLeft /\ LaterTests' = LaterTests
        BY <3>1, SameTests DEF PauseLeft, TestLeft, Pause
      <3>4. CyclesLeft' = CyclesLeft
        BY <2>2, <2>3, <3>1, <3>2, <3>3, Parts
      <3>5. CallsLeft = 1 /\ CallsLeft' = 0
        BY <1>1, <2>1, <3>1 DEF CallsLeft
      <3> QED
        BY <3>4, <3>5, CallTaken
    <2>8. ASSUME state = "Streaming", exec' = exec, state' = state, curTest' = curTest,
                 warmUp' = warmUp, cyclesReset' = cyclesReset,
                 reset' = TRUE, send' = FALSE, phase' = "update"
          PROVE  Closer
      <3>1. ~reset
        BY <2>1, <2>2, <2>8 DEF IInv, InStep
      <3>2. PauseLeft = 0 /\ PauseLeft' \in 0 .. Pause
        <4>1. (IInv => PauseLeft \in 0 .. Pause)'
          BY PartsCount, PTL
        <4>2. Pause' = Pause
          BY DEF Pause
        <4> QED
          BY <3>1, <4>1, <4>2 DEF PauseLeft
      <3>3. TestLeft = Pause + 1 /\ TestLeft' = 0
        BY <2>1, <2>8 DEF TestLeft
      <3>4. WarmUpLeft' = WarmUpLeft /\ LaterTests' = LaterTests
        BY <2>8, SameTests DEF WarmUpLeft
      <3>5. CyclesLeft' < CyclesLeft
        <4>1. CyclesLeft' = PauseLeft' + WarmUpLeft + 0 + LaterTests
          BY <2>2, <2>8, <3>3, <3>4, Parts
        <4>2. CyclesLeft = 0 + WarmUpLeft + (Pause + 1) + LaterTests
          BY <2>3, <3>2, <3>3
        <4>3. PauseLeft' \in Nat /\ PauseLeft' < Pause + 1
          BY <2>4, <3>2
        <4>4. \A p, q, m, n \in Nat : p < q + 1 => p + m + 0 + n < 0 + m + (q + 1) + n
          OBVIOUS
        <4> QED
          BY <2>3, <2>4, <4>1, <4>2, <4>3, <4>4
      <3> QED
        BY <1>1, <2>8, <3>5, PassTaken
    <2>9. CASE WriteNormal
      <3>1. /\ state = "Streaming" /\ exec' = exec /\ state' = state
            /\ curTest' = curTest /\ warmUp' = warmUp /\ cyclesReset' = cyclesReset
        BY <2>9 DEF WriteNormal
      <3>2. CASE reset' = TRUE /\ send' = FALSE /\ phase' = "update"
        BY <2>8, <3>1, <3>2
      <3>3. CASE phase' = "stopped" /\ reset' = reset /\ send' = send
        <4>1. CyclesLeft' = CyclesLeft
          BY <3>1, <3>3, SameCycles DEF flagVars
        <4>2. CallsLeft = 1 /\ CallsLeft' = 0
          BY <1>1, <2>1, <3>3 DEF CallsLeft
        <4> QED
          BY <4>1, <4>2, CallTaken
      <3> QED
        BY <2>9, <3>2, <3>3, NormalCases
    <2>10. CASE WriteLoan
      <3>1. /\ state = "Streaming" /\ exec' = exec /\ state' = state
            /\ curTest' = curTest /\ warmUp' = warmUp /\ cyclesReset' = cyclesReset
            /\ reset' = TRUE /\ send' = FALSE /\ phase' = "update"
        BY <2>10 DEF WriteLoan
      <3> QED
        BY <2>8, <3>1
    <2> QED
      BY <1>4, <2>5, <2>6, <2>7, <2>9, <2>10 DEF Write
  <1> QED
    BY <1>3, <1>4

\* The calls that change none of the flags: update(), and an init() that dies.
LEMMA OtherCloser ==
    ASSUME IInv, Update \/ CrashInInit
    PROVE  Closer
  <1>1. exec' = exec /\ curTest' = curTest /\ UNCHANGED flagVars
    BY DEF Update, CrashInInit
  <1>2. CyclesLeft' = CyclesLeft
    BY <1>1, SameCycles
  <1>3. CASE Update
    <2>1. CallsLeft = 3 /\ CallsLeft' \in {0, 2}
      BY <1>3 DEF Update, CallsLeft
    <2> QED
      BY <1>2, <2>1, CallTaken
  <1>4. CASE CrashInInit
    <2>1. CallsLeft = 2 /\ CallsLeft' = 0
      BY <1>4 DEF CrashInInit, IInv, BeforeInit, CallsLeft
    <2> QED
      BY <1>2, <2>1, CallTaken
  <1> QED
    BY <1>3, <1>4

\* No call and no callback adds a pass to the run, and with both writers matched
\* each call of the main thread brings its end closer.  With the fairness of
\* FairSpec this is why PublisherEnds holds, whatever the number of tests and the
\* offsets are: a natural number cannot decrease for ever.
THEOREM EachCallCounts == Spec => EndComesCloser
  <1>1. Init => NeverMute
    BY DEF Init, NeverMute
  <1>2. Spec => []NeverMute
    BY <1>1, NeverMuteStep, Invariance, PTL DEF Spec
  <1>3. IInv /\ IInv' /\ NeverMute /\ [Next]_vars =>
            [ /\ CyclesLeft' \in 0 .. CyclesLeft
              /\ Main /\ IsMatched /\ CtrlIsMatched => Measure' < Measure ]_vars
    <2> SUFFICES ASSUME IInv, IInv', NeverMute, Next
                 PROVE  /\ CyclesLeft' \in 0 .. CyclesLeft
                        /\ Main /\ IsMatched /\ CtrlIsMatched => Measure' < Measure
      OBVIOUS
    <2>1. CASE Main
      <3>1. Closer
        BY <2>1, InitCloser, ReadCloser, WriteCloser, OtherCloser DEF Main
      <3> QED
        BY <3>1 DEF Closer
    <2>2. CASE Callback /\ ~Main
      <3>1. exec' = exec /\ curTest' = curTest /\ UNCHANGED flagVars
        BY <2>2 DEF Callback, mainVars
      <3>2. CyclesLeft' = CyclesLeft /\ CyclesLeft \in Nat
        BY <3>1, SameCycles, PartsCount
      <3> QED
        BY <2>2, <3>2
    <2> QED
      BY <2>1, <2>2 DEF Next
  <1> QED
    BY <1>2, <1>3, Invariance, PTL DEF Spec, EndComesCloser
==============================================================================
