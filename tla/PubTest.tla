------------------------------- MODULE PubTest -------------------------------
(***************************************************************************)
(* The publisher process of the stress test: the executive's loop, the     *)
(* pattern base class and the state machine of pub_test_1_to_1, on the     *)
(* writers of module Writers.                                              *)
(*                                                                         *)
(* One pass of the executive calls read(), write() and update(); a         *)
(* listener's callback may run between any two of these calls.             *)
(***************************************************************************)
EXTENDS Writers

CONSTANTS MaxTest,            \* max_test: test_count of the configuration
          OffsetCyclesReset,  \* offset_cyles_reset (5 in the code)
          OffsetCycleStart    \* offset_cycle_start (50 in the code)

ASSUME CountsAssumption ==
    /\ MaxTest \in Nat
    /\ OffsetCyclesReset \in Nat
    /\ OffsetCycleStart \in Nat

\* The warm-up is at least as long as a reset pause: 50 and 5 cycles.
ASSUME WarmUpAssumption == OffsetCyclesReset <= OffsetCycleStart

VARIABLES
    exec,         \* Executive::currentState
    phase,        \* the call of execute_cycle that comes next; "stopped": main returned
    reset, cyclesReset, send, state,   \* pub_test_1_to_1, same names
    warmUp,       \* current_cycle of pub_test_1_to_1
    curTest,      \* current_test
    entityId,     \* current_entity_id: next id in Normal mode
    cpuTimes      \* number of values in cpu_times: batches streamed

flagVars == <<reset, cyclesReset, send, state, warmUp>>
idVars   == <<entityId, cpuTimes, dataTopic>>
mainVars == <<exec, phase, flagVars, curTest, entityId, cpuTimes>>
vars     == <<config, dds, dataTopic, control, mainVars>>

------------------------------------------------------------------------------
TypeOK ==
    /\ vendor \in Vendors
    /\ processType \in ProcessTypes
    /\ WritersTypeOK
    /\ exec \in {"INIT", "EXECUTION", "END"}
    /\ phase \in {"read", "write", "update", "stopped"}
    /\ reset \in BOOLEAN
    /\ cyclesReset \in 0 .. OffsetCyclesReset
    /\ send \in BOOLEAN
    /\ state \in {"WaitingMatch", "Announce", "Streaming"}
    /\ warmUp \in Nat
    /\ curTest \in Nat
    /\ entityId \in Nat
    /\ cpuTimes \in Nat

\* "reset" has no initialiser: its first value is whatever the memory held.
Init ==
    /\ SetupInit
    /\ WritersInit
    /\ exec = "INIT"
    /\ phase = "read"
    /\ reset \in BOOLEAN
    /\ cyclesReset = 0
    /\ send = FALSE
    /\ state = "WaitingMatch"
    /\ warmUp = 0
    /\ curTest = 0
    /\ entityId = 0
    /\ cpuTimes = 0

------------------------------------------------------------------------------
\* Executive::init.  A writer whose init() fails is reported and the test
\* goes on without it.
ExecInit ==
    /\ exec = "INIT"
    /\ phase # "stopped"
    /\ exec' = "EXECUTION"
    /\ \E d \in DataWriterInit, c \in ControlWriterInit : writers' = d \cup c
    /\ send' = TRUE
    /\ state' = "Announce"
    /\ curTest' = 0
    /\ UNCHANGED <<phase, matched, ctrlMatched, reset, cyclesReset, warmUp, idVars, control>>

\* The process dies on the way.  FastPubControl::init asks its DDS publisher for
\* its QoS before it looks whether there is one; the OpenDDS participant manager
\* and both Cyclone writers throw, and nobody catches.
CrashInInit ==
    /\ exec = "INIT"
    /\ phase # "stopped"
    /\ phase' = "stopped"
    /\ UNCHANGED <<exec, dds, flagVars, curTest, idVars, control>>

FinishTestLate ==  \* variant: one test too many
    /\ curTest' = curTest + 1
    /\ exec' = IF curTest + 1 > MaxTest THEN "END" ELSE exec

\* pattern_base::finish_test, with the publisher's make_final_report.
FinishTest ==
    /\ curTest' = curTest + 1
    /\ exec' = IF curTest + 1 >= MaxTest THEN "END" ELSE exec

ResetTestSwapped ==  \* variant: finish_test before publish_stop
    /\ control' = Append(control, StopMsg(curTest + 2))
    /\ entityId' = 0
    /\ state' = "Announce"
    /\ reset' = TRUE
    /\ FinishTest

ResetTestKeepsIds ==  \* variant: current_entity_id is not reset
    /\ control' = Append(control, StopMsg(curTest + 1))
    /\ state' = "Announce"
    /\ reset' = TRUE
    /\ FinishTest
    /\ UNCHANGED entityId

\* reset_test, called when the pause after a batch is over.  read() has
\* cleared "reset" just before.
ResetTest ==
    /\ IF curTest <= MaxTest
       THEN /\ control' = Append(control, StopMsg(curTest + 1))
            /\ entityId' = 0
            /\ state' = "Announce"
            /\ reset' = TRUE
       ELSE /\ reset' = FALSE
            /\ UNCHANGED <<control, entityId, state>>
    /\ FinishTest

PauseOverPost == cyclesReset > OffsetCyclesReset  \* variant: counts after the test

PauseOver == cyclesReset + 1 > OffsetCyclesReset

ReadIdle ==
    /\ ~reset
    /\ UNCHANGED <<exec, flagVars, curTest, idVars, control>>

ReadPause ==
    /\ reset
    /\ ~PauseOver
    /\ cyclesReset' = cyclesReset + 1
    /\ UNCHANGED <<exec, reset, send, state, warmUp, curTest, idVars, control>>

ReadResumeMute ==  \* variant: send is not set again
    /\ reset
    /\ PauseOver
    /\ state = "Announce"
    /\ cyclesReset' = 0
    /\ reset' = FALSE
    /\ UNCHANGED <<exec, send, state, warmUp, curTest, idVars, control>>

ReadResume ==
    /\ reset
    /\ PauseOver
    /\ state = "Announce"
    /\ cyclesReset' = 0
    /\ reset' = FALSE
    /\ send' = TRUE
    /\ UNCHANGED <<exec, state, warmUp, curTest, idVars, control>>

ReadResetTestLoanIds ==  \* variant: current_id is reset as well
    /\ reset
    /\ PauseOver
    /\ state = "Streaming"
    /\ cyclesReset' = 0
    /\ ResetTest
    /\ currentId' = 0
    /\ UNCHANGED <<send, warmUp, cpuTimes, instances, data>>

ReadResetTest ==
    /\ reset
    /\ PauseOver
    /\ state = "Streaming"
    /\ cyclesReset' = 0
    /\ ResetTest
    /\ UNCHANGED <<send, warmUp, cpuTimes, dataTopic>>

Read ==
    /\ exec = "EXECUTION"
    /\ phase = "read"
    /\ phase' = "write"
    /\ ReadIdle \/ ReadPause \/ ReadResume \/ ReadResetTest
    /\ UNCHANGED dds

\* write() returns at once.
WriteSkip ==
    /\ ~send \/ ~IsMatched \/ ~CtrlIsMatched
    /\ phase' = "update"
    /\ UNCHANGED <<exec, flagVars, curTest, idVars, control>>

WriteReady == send /\ IsMatched /\ CtrlIsMatched

WriteWarmUp ==
    /\ WriteReady
    /\ state = "Announce"
    /\ warmUp < OffsetCycleStart
    /\ warmUp' = warmUp + 1
    /\ phase' = "update"
    /\ UNCHANGED <<exec, reset, cyclesReset, send, state, curTest, idVars, control>>

WriteAnnounceCold ==  \* variant: no warm-up
    /\ WriteReady
    /\ state = "Announce"
    /\ warmUp' = warmUp + 1
    /\ control' = Append(control, StartMsg(curTest + 1))
    /\ state' = "Streaming"
    /\ phase' = "update"
    /\ UNCHANGED <<exec, reset, cyclesReset, send, curTest, idVars>>

WriteAnnounceWarmUpAgain ==  \* variant: each test has a warm-up of its own
    /\ WriteReady
    /\ state = "Announce"
    /\ warmUp >= OffsetCycleStart
    /\ "control" \in writers
    /\ warmUp' = 0
    /\ control' = Append(control, StartMsg(curTest + 1))
    /\ state' = "Streaming"
    /\ phase' = "update"
    /\ UNCHANGED <<exec, reset, cyclesReset, send, curTest, idVars>>

\* publish_start.
WriteAnnounce ==
    /\ WriteReady
    /\ state = "Announce"
    /\ warmUp >= OffsetCycleStart
    /\ "control" \in writers
    /\ warmUp' = warmUp + 1
    /\ control' = Append(control, StartMsg(curTest + 1))
    /\ state' = "Streaming"
    /\ phase' = "update"
    /\ UNCHANGED <<exec, reset, cyclesReset, send, curTest, idVars>>

\* OpenPubControl counts as matched without a writer: publish_start goes through
\* a null reference.
WriteAnnounceCrash ==
    /\ WriteReady
    /\ state = "Announce"
    /\ warmUp >= OffsetCycleStart
    /\ "control" \notin writers
    /\ warmUp' = warmUp + 1
    /\ phase' = "stopped"
    /\ UNCHANGED <<exec, reset, cyclesReset, send, state, curTest, idVars, control>>

WriteNormalAgain ==  \* variant: send is not cleared
    /\ WriteReady
    /\ state = "Streaming"
    /\ ~Loan
    /\ PublishBatch(entityId, Messages, curTest + 1)
    /\ entityId' = entityId + Messages
    /\ cpuTimes' = cpuTimes + 1
    /\ cpuTimes < 2 * MaxTest
    /\ reset' = TRUE
    /\ phase' = "update"
    /\ UNCHANGED <<exec, send, cyclesReset, state, warmUp, curTest, currentId, control>>

\* A refused entity ends a Normal batch with an exception that nobody
\* catches: the process is gone.
WriteNormal ==
    /\ WriteReady
    /\ state = "Streaming"
    /\ ~Loan
    /\ \E n \in 0 .. Messages :
        /\ Accepted(entityId, n)
        /\ PublishBatch(entityId, n, curTest + 1)
        /\ IF n = Messages
           THEN /\ entityId' = entityId + n
                /\ cpuTimes' = cpuTimes + 1
                /\ reset' = TRUE
                /\ send' = FALSE
                /\ phase' = "update"
           ELSE /\ entityId' = entityId + n + 1
                /\ phase' = "stopped"
                /\ UNCHANGED <<cpuTimes, reset, send>>
    /\ UNCHANGED <<exec, cyclesReset, state, warmUp, curTest, currentId, control>>

\* The result of publish_loan is not looked at.
WriteLoan ==
    /\ WriteReady
    /\ state = "Streaming"
    /\ Loan
    /\ PublishLoan(curTest + 1)
    /\ cpuTimes' = cpuTimes + 1
    /\ reset' = TRUE
    /\ send' = FALSE
    /\ phase' = "update"
    /\ UNCHANGED <<exec, cyclesReset, state, warmUp, curTest, entityId, control>>

Write ==
    /\ phase = "write"
    /\ \/ WriteSkip \/ WriteWarmUp \/ WriteAnnounce \/ WriteAnnounceCrash
       \/ WriteNormal \/ WriteLoan
    /\ UNCHANGED dds

\* update() does nothing; then main tests in_execution().
Update ==
    /\ phase = "update"
    /\ phase' = IF exec = "EXECUTION" THEN "read" ELSE "stopped"
    /\ UNCHANGED <<exec, dds, flagVars, curTest, idVars, control>>

Main ==
    /\ ExecInit \/ CrashInInit \/ Read \/ Write \/ Update
    /\ UNCHANGED config

Callback ==
    /\ OnDataMatched \/ OnDataUnmatched \/ OnControlMatched \/ OnControlUnmatched
    /\ UNCHANGED <<config, mainVars>>

Next == Main \/ Callback

Spec == Init /\ [][Next]_vars

\* The main thread never blocks: it sleeps at most 10 ms in a cycle.
FairSpec == Spec /\ WF_vars(Main)

------------------------------------------------------------------------------
(* Properties.                                                             *)

\* finish_test runs at least once, whatever test_count says.
NumTests == IF MaxTest = 0 THEN 1 ELSE MaxTest

\* What the k-th message of the control topic should be.
ScheduledMsg(k) ==
    IF k % 2 = 1 THEN StartMsg((k + 1) \div 2) ELSE StopMsg(k \div 2)

\* The control topic carries START 1, STOP 1, START 2, STOP 2, ...: no test is
\* announced twice, skipped, or stopped under another test's number (the
\* current_test + 1 of write() and of reset_test() agree).
ControlAlternates == \A k \in 1 .. Len(control) : control[k] = ScheduledMsg(k)

\* No STOP is written before the batch of its test is streamed, and no batch is
\* streamed before its START, although "reset" is not initialised: the warm-up
\* outlasts a pause that nobody asked for.
BatchPerTest ==
    /\ Len(control) \div 2 <= cpuTimes
    /\ cpuTimes <= (Len(control) + 1) \div 2

\* In Normal mode each batch carries the keys 0 .. Messages - 1, in order, and
\* belongs to one test: the id counter restarts with each test (reset_test).  No
\* batch is counted that was not written to its end.
NormalKeys ==
    ~Loan =>
        /\ \A i \in 1 .. Len(data) :
            /\ data[i].id \in 0 .. Messages - 1
            /\ i - 1 = Messages * (data[i].test - 1) + data[i].id
        /\ Messages * cpuTimes <= Len(data)

\* In Loan mode no key is ever used twice, over all the tests of a run
\* (current_id of the writer is never reset).
LoanKeys ==
    Loan => \A i, j \in 1 .. Len(data) : i < j => data[i].id < data[j].id

\* The end is requested only when each test has been announced, streamed and
\* stopped (make_final_report is reached by the last finish_test only).
EndsAfterAllTests ==
    exec = "END" => Len(control) = 2 * NumTests /\ cpuTimes = NumTests

\* The code implements the sequence of tests promised to the subscribers.
Run == INSTANCE TestRun WITH
            Tests     <- NumTests,
            announced <- (Len(control) + 1) \div 2,
            streamed  <- cpuTimes,
            stopped   <- Len(control) \div 2

RunSpec == Run!Spec

\* If from some point on both writers have their subscribers, the publisher's
\* process ends: no flag is left in a combination that read() and write() both
\* ignore.
PublisherEnds ==
    <>[](IsMatched /\ CtrlIsMatched) => <>(phase = "stopped")

\* Passes of the executive that the rest of the run takes when the subscribers
\* are there: the present pause, the warm-up, what the present test still needs
\* (START, batch, pause), and START, batch and two pauses for each later test.
Pause == OffsetCyclesReset + 1

PauseLeft  == IF reset THEN Pause - cyclesReset ELSE 0
WarmUpLeft == IF warmUp < OffsetCycleStart THEN OffsetCycleStart - warmUp ELSE 0
TestLeft   == IF state # "Streaming" THEN Pause + 2 ELSE IF send THEN Pause + 1 ELSE 0
LaterTests == (NumTests - curTest - 1) * (2 * Pause + 2)

CyclesLeft ==
    CASE exec = "INIT"      -> PauseLeft + WarmUpLeft + TestLeft + LaterTests + 1
      [] exec = "EXECUTION" -> PauseLeft + WarmUpLeft + TestLeft + LaterTests
      [] exec = "END"       -> 0

\* Calls of read(), write() and update() before the next call that takes a pass off
\* CyclesLeft.
CallsLeft ==
    CASE phase = "read"    -> 2
      [] phase = "write"   -> IF send THEN 1 ELSE 4
      [] phase = "update"  -> 3
      [] phase = "stopped" -> 0

Measure == 3 * CyclesLeft + CallsLeft

\* No call and no callback ever adds a pass to the run, and while both writers
\* have their subscribers each call brings the end closer: the flags reset and
\* send and the three counters are never set back in a way that starts a pause,
\* a warm-up or a test again.
EndComesCloser ==
    [][ /\ CyclesLeft' \in 0 .. CyclesLeft
        /\ Main /\ IsMatched /\ CtrlIsMatched => Measure' < Measure ]_vars
==============================================================================
