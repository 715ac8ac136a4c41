--------------------------- MODULE PubKeys_proofs ----------------------------
(***************************************************************************)
(* Proofs about the keys of the entities that the publisher writes, in     *)
(* either mode, for every configuration and every vendor.                  *)
(***************************************************************************)
EXTENDS PubTest_proofs

\* n entities were appended to what had been written, with keys from first on.
Appended(first, n, test) ==
    /\ Len(data') = Len(data) + n
    /\ \A i \in 1 .. Len(data) : data'[i] = data[i]
    /\ \A i \in Len(data) + 1 .. Len(data) + n :
         /\ data'[i].id = first + (i - Len(data)) - 1
         /\ data'[i].test = test

\* A batch appended to the entity topic (publish and publish_loan): what was
\* written stays, and the new entities have consecutive keys.
LEMMA BatchAppended ==
    ASSUME data \in Seq(Sample),
           NEW first \in Nat, NEW n \in Nat, NEW test \in Nat,
           PublishBatch(first, n, test)
    PROVE  Appended(first, n, test)
  <1>1. Batch(first, n, test) \in Seq(Sample) /\ Len(Batch(first, n, test)) = n
    <2>1. \A i \in 1 .. n : [id |-> first + i - 1, test |-> test] \in Sample
      BY DEF Sample
    <2>2. Batch(first, n, test) \in [1 .. n -> Sample]
      BY <2>1 DEF Batch
    <2> QED
      BY <2>2, SeqDef
  <1>2. data' = data \o Batch(first, n, test)
    BY DEF PublishBatch
  <1>3. \A i \in 1 .. n : /\ Batch(first, n, test)[i].id = first + i - 1
                         /\ Batch(first, n, test)[i].test = test
    BY DEF Batch
  <1>4. /\ Len(data') = Len(data) + n
        /\ \A i \in 1 .. Len(data) : data'[i] = data[i]
        /\ \A i \in Len(data) + 1 .. Len(data) + n :
             data'[i] = Batch(first, n, test)[i - Len(data)]
    <2> DEFINE b == Batch(first, n, test)
    <2>1. b \in Seq(Sample) /\ Len(b) = n
      BY <1>1
    <2> HIDE DEF b
    <2>2. Len(data \o b) = Len(data) + Len(b)
      BY <2>1
    <2>3. \A i \in 1 .. Len(data) + Len(b) :
            (data \o b)[i] = IF i <= Len(data) THEN data[i] ELSE b[i - Len(data)]
      BY <2>1
    <2>4. data' = data \o b
      BY <1>2 DEF b
    <2> QED
      BY <2>1, <2>2, <2>3, <2>4 DEF b
  <1>5. \A i \in Len(data) + 1 .. Len(data) + n : i - Len(data) \in 1 .. n
    OBVIOUS
  <1>6. \A i \in Len(data) + 1 .. Len(data) + n :
          /\ data'[i].id = first + (i - Len(data)) - 1
          /\ data'[i].test = test
    BY <1>3, <1>4, <1>5
  <1> QED
    BY <1>4, <1>6 DEF Appended

\* Most steps write no entity and leave the id counters of both modes alone.
Quiet == UNCHANGED <<data, currentId, cpuTimes>> /\ processType' = processType

------------------------------------------------------------------------------
(* Loan mode.                                                              *)

\* Every key written in Loan mode is below current_id.
LoanInv ==
    /\ Loan => \A i \in 1 .. Len(data) : data[i].id < currentId
    /\ LoanKeys

\* publish_loan writes keys from current_id on, and moves it past them.
LEMMA LoanPublishes ==
    ASSUME IInv, LoanInv, Loan, processType' = processType,
           FastPublishLoan(curTest + 1)
    PROVE  LoanInv'
  <1>0. /\ data \in Seq(Sample) /\ currentId \in Nat /\ curTest + 1 \in Nat
    BY DEF IInv, TypeOK, WritersTypeOK
  <1>a. \A i \in 1 .. Len(data) : data[i].id \in Nat
    <2>1. \A i \in 1 .. Len(data) : data[i] \in Sample
      BY <1>0
    <2> QED
      BY <2>1 DEF Sample
  <1>1. PICK n \in 0 .. Messages :
          /\ PublishBatch(currentId, n, curTest + 1)
          /\ currentId' = currentId + n \/ currentId' = currentId + n + 1
    BY Zenon DEF FastPublishLoan
  <1>2. n \in Nat
    BY WritersAssumption
  <1>b. Appended(currentId, n, curTest + 1)
    BY <1>0, <1>1, <1>2, BatchAppended
  <1>3. /\ Len(data') = Len(data) + n
        /\ \A i \in 1 .. Len(data) : data'[i] = data[i]
        /\ \A i \in Len(data) + 1 .. Len(data) + n :
             data'[i].id = currentId + (i - Len(data)) - 1
    BY <1>b DEF Appended
  <1>4. \A i \in 1 .. Len(data') : i \in 1 .. Len(data) \/ i \in Len(data) + 1 .. Len(data) + n
    BY <1>0, <1>2, <1>3
  <1>5. \A i \in 1 .. Len(data) : data[i].id < currentId
    BY DEF LoanInv
  <1>6. \A i \in 1 .. Len(data') : data'[i].id < currentId'
    <2> SUFFICES ASSUME NEW i \in 1 .. Len(data')
                 PROVE  data'[i].id < currentId'
      OBVIOUS
    <2>1. CASE i \in 1 .. Len(data)
      <3>1. data'[i].id = data[i].id /\ data[i].id \in Nat /\ data[i].id < currentId
        BY <1>a, <1>3, <1>5, <2>1, Zenon
      <3>2. currentId <= currentId'
        BY <1>0, <1>1, <1>2
      <3> QED
        BY <1>0, <1>1, <1>2, <3>1, <3>2
    <2>2. CASE i \in Len(data) + 1 .. Len(data) + n
      <3>1. data'[i].id = currentId + (i - Len(data)) - 1
        BY <1>3, <2>2, Zenon
      <3> QED
        BY <1>0, <1>1, <1>2, <2>2, <3>1
    <2> QED
      BY <1>4, <2>1, <2>2
  <1>7. \A i, j \in 1 .. Len(data') : i < j => data'[i].id < data'[j].id
    <2> SUFFICES ASSUME NEW i \in 1 .. Len(data'), NEW j \in 1 .. Len(data'), i < j
                 PROVE  data'[i].id < data'[j].id
      OBVIOUS
    <2>1. CASE j \in 1 .. Len(data)
      BY <1>0, <1>3, <2>1 DEF LoanInv, LoanKeys
    <2>2. CASE j \in Len(data) + 1 .. Len(data) + n
      BY <1>0, <1>a, <1>2, <1>3, <1>4, <1>5, <2>2
    <2> QED
      BY <1>4, <2>1, <2>2
  <1> QED
    BY <1>6, <1>7 DEF LoanInv, LoanKeys

\* A step either is quiet or writes a batch.
LEMMA QuietSteps ==
    ASSUME [Next]_vars
    PROVE  \/ Quiet
           \/ processType' = processType /\ ExecInit
           \/ processType' = processType /\ Write /\ WriteNormal
           \/ processType' = processType /\ Write /\ WriteLoan
  <1>0. processType' = processType
    BY ConfigFixed
  <1>1. CASE ExecInit \/ CrashInInit \/ Update
    BY <1>0, <1>1 DEF Quiet, ExecInit, CrashInInit, Update, idVars, dataTopic
  <1>2. CASE Read
    BY <1>0, <1>2
    DEF Quiet, Read, ReadIdle, ReadPause, ReadResume, ReadResetTest, idVars, dataTopic
  <1>3. CASE Write
    BY <1>0, <1>3
    DEF Quiet, Write, WriteSkip, WriteWarmUp, WriteAnnounce, WriteAnnounceCrash, idVars, dataTopic
  <1>4. CASE Callback \/ UNCHANGED vars
    BY <1>0, <1>4 DEF Quiet, Callback, vars, mainVars, OnDataMatched, OnDataUnmatched,
       OnControlMatched, OnControlUnmatched, dataTopic
  <1> QED
    BY <1>0, <1>1, <1>2, <1>3, <1>4 DEF Next, Main

\* Only publish_loan touches current_id, and it moves it past every key it wrote.
LEMMA LoanStep == IInv /\ LoanInv /\ [Next]_vars => LoanInv'
  <1> SUFFICES ASSUME IInv, LoanInv, [Next]_vars PROVE LoanInv'
    OBVIOUS
  <1>1. CASE Quiet
    BY <1>1 DEF Quiet, LoanInv, LoanKeys, Loan
  <1>2. CASE processType' = processType /\ ExecInit
    BY <1>2 DEF ExecInit, idVars, dataTopic, LoanInv, LoanKeys, Loan
  <1>3. CASE processType' = processType /\ WriteNormal
    BY <1>3 DEF WriteNormal, LoanInv, LoanKeys, Loan
  <1>4. CASE processType' = processType /\ WriteLoan
    <2>1. Loan /\ PublishLoan(curTest + 1)
      BY <1>4 DEF WriteLoan
    <2>2. CASE FastPublishLoan(curTest + 1)
      BY <1>4, <2>1, <2>2, LoanPublishes
    <2>3. CASE OpenPublishLoan
      BY <1>4, <2>3 DEF OpenPublishLoan, dataTopic, LoanInv, LoanKeys, Loan
    <2> QED
      BY <2>1, <2>2, <2>3 DEF PublishLoan
  <1> QED
    BY <1>1, <1>2, <1>3, <1>4, QuietSteps

\* In Loan mode no key is used twice over a whole run, however often DDS refuses a
\* loan or a write (current_id is never reset).
THEOREM LoanKeysIncrease == Spec => []LoanKeys
  <1>1. Init => LoanInv
    BY DEF Init, WritersInit, LoanInv, LoanKeys
  <1>2. LoanInv => LoanKeys
    BY DEF LoanInv
  <1> QED
    BY <1>1, <1>2, LoanStep, Invariance, PTL DEF Spec

------------------------------------------------------------------------------
(* Normal mode.                                                            *)

\* current_entity_id is 0 whenever a batch may start, and as long as the process
\* lives each counted batch has been written to its end.
NormalInv ==
    /\ ~Loan /\ phase # "stopped" =>
        /\ state # "Streaming" \/ send => entityId = 0
        /\ Len(data) = Messages * cpuTimes
    /\ NormalKeys

\* Steps that write no entity.
LEMMA NormalQuiet ==
    ASSUME NormalInv, processType' = processType, UNCHANGED <<data, cpuTimes>>,
           phase' # "stopped" => phase # "stopped",
           ~Loan /\ phase' # "stopped" /\ (state' # "Streaming" \/ send') => entityId' = 0
    PROVE  NormalInv'
  BY DEF NormalInv, NormalKeys, Loan

\* The entities of one write() of a Normal batch: the whole batch, or, before the
\* process dies, its beginning.
LEMMA NormalPublishes ==
    ASSUME IInv, NormalInv, processType' = processType, Write, WriteNormal
    PROVE  NormalInv'
  <1>0. /\ data \in Seq(Sample) /\ curTest \in Nat /\ cpuTimes \in Nat
        /\ Messages \in Nat
    BY WritersAssumption DEF IInv, TypeOK, WritersTypeOK
  <1>a. \A i \in 1 .. Len(data) : data[i].id \in Nat /\ data[i].test \in Nat
    <2>1. \A i \in 1 .. Len(data) : data[i] \in Sample
      BY <1>0
    <2> QED
      BY <2>1 DEF Sample
  <1>1. ~Loan /\ send /\ state = "Streaming" /\ phase = "write"
    BY DEF Write, WriteNormal, WriteReady
  <1>2. entityId = 0 /\ Len(data) = Messages * cpuTimes
    BY <1>1 DEF NormalInv
  <1>3. cpuTimes = curTest
    BY <1>1 DEF IInv, BeforeInit, InStep
  <1>4. PICK n \in 0 .. Messages :
          /\ PublishBatch(entityId, n, curTest + 1)
          /\ \/ n = Messages /\ cpuTimes' = cpuTimes + 1 /\ send' = FALSE
             \/ phase' = "stopped" /\ cpuTimes' = cpuTimes
    BY Zenon DEF WriteNormal
  <1>5. n \in Nat /\ n <= Messages
    BY <1>0
  <1>b. entityId \in Nat /\ curTest + 1 \in Nat
    BY <1>0, <1>2
  <1>c. Appended(entityId, n, curTest + 1)
    BY <1>0, <1>b, <1>4, <1>5, BatchAppended
  <1>6. /\ Len(data') = Len(data) + n
        /\ \A i \in 1 .. Len(data) : data'[i] = data[i]
        /\ \A i \in Len(data) + 1 .. Len(data) + n :
             /\ data'[i].id = entityId + (i - Len(data)) - 1
             /\ data'[i].test = curTest + 1
    BY <1>c, Zenon DEF Appended
  <1>7. \A i \in 1 .. Len(data') :
          /\ data'[i].id \in 0 .. Messages - 1
          /\ i - 1 = Messages * (data'[i].test - 1) + data'[i].id
    <2> SUFFICES ASSUME NEW i \in 1 .. Len(data')
                 PROVE  /\ data'[i].id \in 0 .. Messages - 1
                        /\ i - 1 = Messages * (data'[i].test - 1) + data'[i].id
      OBVIOUS
    <2>1. CASE i \in 1 .. Len(data)
      BY <1>1, <1>6, <2>1 DEF NormalInv, NormalKeys
    <2>2. CASE i \in Len(data) + 1 .. Len(data) + n
      <3>1. data'[i].id = i - Len(data) - 1 /\ data'[i].test - 1 = cpuTimes
        <4>1. data'[i].id = entityId + (i - Len(data)) - 1 /\ data'[i].test = curTest + 1
          BY <1>6, <2>2, Zenon
        <4>2. entityId = 0 /\ Len(data) \in Nat /\ i \in Int /\ curTest \in Int
          BY <1>0, <1>2, <2>2
        <4>3. data'[i].id = i - Len(data) - 1
          BY <4>1, <4>2
        <4>4. data'[i].test - 1 = curTest
          BY <4>1, <4>2
        <4> QED
          BY <1>3, <4>3, <4>4
      <3>2. data'[i].id \in 0 .. Messages - 1
        BY <1>0, <1>5, <2>2, <3>1
      <3>3. Messages * (data'[i].test - 1) = Len(data)
        BY <1>2, <3>1
      <3>4. i - 1 = Len(data) + (i - Len(data) - 1)
        BY <1>0, <2>2
      <3> QED
        BY <3>1, <3>2, <3>3, <3>4
    <2> QED
      BY <1>0, <1>5, <1>6, <2>1, <2>2
  <1>8. CASE n = Messages /\ cpuTimes' = cpuTimes + 1 /\ send' = FALSE
    <2>1. Messages * (cpuTimes + 1) = Messages * cpuTimes + Messages
      BY <1>0
    <2>2. Len(data') = Messages * cpuTimes'
      BY <1>0, <1>2, <1>6, <1>8, <2>1
    <2>3. state' = state
      BY Zenon DEF WriteNormal
    <2>4. Messages * cpuTimes' <= Len(data')
      BY <1>0, <1>6, <1>5, <2>2
    <2> QED
      BY <1>1, <1>7, <1>8, <2>2, <2>3, <2>4 DEF NormalInv, NormalKeys
  <1>9. CASE phase' = "stopped" /\ cpuTimes' = cpuTimes
    <2>1. Messages * cpuTimes' <= Len(data')
      BY <1>0, <1>2, <1>5, <1>6, <1>9
    <2> QED
      BY <1>7, <1>9, <2>1 DEF NormalInv, NormalKeys
  <1> QED
    BY <1>4, <1>8, <1>9

\* Only a batch and reset_test touch current_entity_id; a batch starts from 0.
LEMMA NormalStep == IInv /\ NormalInv /\ [Next]_vars => NormalInv'
  <1> SUFFICES ASSUME IInv, NormalInv, [Next]_vars PROVE NormalInv'
    OBVIOUS
  <1>0. processType' = processType
    BY ConfigFixed
  <1>1. CASE ExecInit
    <2>1. /\ phase # "stopped" /\ state # "Streaming"
          /\ UNCHANGED <<phase, data, cpuTimes, entityId>>
      BY <1>1 DEF ExecInit, idVars, dataTopic, IInv, BeforeInit
    <2> QED
      BY <1>0, <2>1, NormalQuiet DEF NormalInv
  <1>2. CASE CrashInInit \/ Update
    <2>1. /\ phase # "stopped"
          /\ UNCHANGED <<data, cpuTimes, entityId, state, send>>
      BY <1>2 DEF CrashInInit, Update, idVars, dataTopic, flagVars
    <2> QED
      BY <1>0, <2>1, NormalQuiet DEF NormalInv
  <1>3. CASE Read
    <2>1. phase # "stopped" /\ UNCHANGED <<data, cpuTimes>>
      BY <1>3
      DEF Read, ReadIdle, ReadPause, ReadResume, ReadResetTest, idVars, dataTopic
    <2>2. CASE ReadIdle \/ ReadPause
      <3>1. UNCHANGED <<entityId, state, send>>
        BY <2>2 DEF ReadIdle, ReadPause, idVars, flagVars
      <3> QED
        BY <1>0, <2>1, <3>1, NormalQuiet DEF NormalInv
    <2>3. CASE ReadResume
      <3>1. state # "Streaming" /\ entityId' = entityId
        BY <2>3 DEF ReadResume, idVars
      <3> QED
        BY <1>0, <2>1, <3>1, NormalQuiet DEF NormalInv
    <2>4. CASE ReadResetTest
      <3>1. entityId' = 0 \/ UNCHANGED <<entityId, state, send>>
        BY <2>4 DEF ReadResetTest, ResetTest
      <3> QED
        BY <1>0, <2>1, <3>1, NormalQuiet DEF NormalInv
    <2> QED
      BY <1>3, <2>2, <2>3, <2>4 DEF Read
  <1>4. CASE Write /\ ~WriteNormal /\ ~WriteLoan
    <2>1. phase # "stopped" /\ UNCHANGED <<data, cpuTimes, entityId, send>>
      BY <1>4 DEF Write, WriteSkip, WriteWarmUp, WriteAnnounce, WriteAnnounceCrash,
                  flagVars, idVars, dataTopic
    <2>2. state' = state \/ state # "Streaming"
      BY <1>4 DEF Write, WriteSkip, WriteWarmUp, WriteAnnounce, WriteAnnounceCrash, flagVars
    <2> QED
      BY <1>0, <2>1, <2>2, NormalQuiet DEF NormalInv
  <1>5. CASE Write /\ WriteNormal
    BY <1>0, <1>5, NormalPublishes
  <1>6. CASE Write /\ WriteLoan
    <2>1. Loan
      BY <1>6 DEF WriteLoan
    <2> QED
      BY <1>0, <2>1 DEF NormalInv, NormalKeys, Loan
  <1>7. CASE Callback \/ UNCHANGED vars
    <2>1. UNCHANGED <<data, cpuTimes, entityId, state, send, phase>>
      BY <1>7 DEF Callback, vars, mainVars, flagVars, OnDataMatched, OnDataUnmatched,
         OnControlMatched, OnControlUnmatched, dataTopic
    <2> QED
      BY <1>0, <2>1, NormalQuiet DEF NormalInv
  <1> QED
    BY <1>1, <1>2, <1>3, <1>4, <1>5, <1>6, <1>7 DEF Next, Main

\* In Normal mode the batch of each test carries the keys 0 .. Messages - 1 in
\* order, and a batch that is counted is complete (write() and reset_test()).
THEOREM NormalKeysInOrder == Spec => []NormalKeys
  <1>1. Init => NormalInv
    BY WritersAssumption DEF Init, WritersInit, NormalInv, NormalKeys
  <1>2. NormalInv => NormalKeys
    BY DEF NormalInv
  <1> QED
    BY <1>1, <1>2, NormalStep, Invariance, PTL DEF Spec
==============================================================================
