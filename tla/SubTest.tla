------------------------------- MODULE SubTest -------------------------------
(***************************************************************************)
(* The subscriber processes of the stress test: for each one the           *)
(* executive's loop, sub_test_1_to_1 with its pattern base class, and the  *)
(* two readers it owns in the three builds: FastSub, OpenSub, CycloneSub   *)
(* for the entities, FastSubControl, OpenSubControl, CycloneSubControl for *)
(* START and STOP.                                                         *)
(*                                                                         *)
(* A subscriber does all its work in read(), one call per cycle; write()   *)
(* and update() do nothing.  The readers' histories fill up behind the     *)
(* subscriber's back, between any two of the calls it makes on them: that  *)
(* is module StressTest's part.                                            *)
(***************************************************************************)
EXTENDS Setup, Integers, Sequences, FiniteSets

CONSTANTS Subs,        \* the subscriber processes
          SubMaxTest   \* max_test: test_count of the subscribers' configuration

ASSUME SubMaxTestAssumption == SubMaxTest \in Nat

VARIABLES
    sExec,     \* Executive::currentState
    pc,        \* "read": between two calls of read(); "take": in its take
               \* loop; "crashed": on a null reader or an exception
    readers,   \* the readers whose init() succeeded
    inbox,     \* history of the control reader: messages not taken yet
    history,   \* history of the entity reader: samples not taken yet
    active,    \* test_active
    testId,    \* current_test_id
    expected,  \* expected_messages_cycle
    loanMode,  \* process_type = Loan
    taken,     \* i, samples taken by the current run
    received,  \* received_ids, with the batches the entities come from
    results,   \* one record per run: the verdict handed to finish_test ...
    totalLost  \* total_lost_samples

ctrlVars == <<active, testId, expected, loanMode>>
runVars  == <<taken, received>>
subVars  == <<sExec, pc, readers, inbox, history, ctrlVars, runVars, results, totalLost>>

\* The verdict of a run, as handed to finish_test: the test it was for, whether
\* all was received, how much was not, and the number that was expected.
\* current_test counts the verdicts.
Result == [test : Nat, valid : BOOLEAN, lost : Int, expected : Nat, batches : SUBSET Nat]

SubInit ==
    /\ sExec = [s \in Subs |-> "INIT"]
    /\ pc = [s \in Subs |-> "read"]
    /\ readers = [s \in Subs |-> {}]
    /\ inbox = [s \in Subs |-> <<>>]
    /\ history = [s \in Subs |-> {}]
    /\ active = [s \in Subs |-> FALSE]
    /\ testId = [s \in Subs |-> 0]
    /\ expected = [s \in Subs |-> 0]
    /\ loanMode = [s \in Subs |-> FALSE]
    /\ taken = [s \in Subs |-> 0]
    /\ received = [s \in Subs |-> {}]
    /\ results = [s \in Subs |-> <<>>]
    /\ totalLost = [s \in Subs |-> 0]

------------------------------------------------------------------------------
(* The readers' histories.                                                 *)

\* A control message reaches s: RELIABLE, in order, depth 1001.
ReceiveControl(s, msg) ==
    /\ inbox' = [inbox EXCEPT ![s] = Append(@, msg)]
    /\ UNCHANGED <<sExec, pc, readers, history, ctrlVars, runVars, results, totalLost>>

\* An entity reaches s: KEEP_LAST 1, so it replaces the entity with its key.
ReceiveSample(s, x) ==
    /\ history' = [history EXCEPT ![s] = {y \in @ : y.id # x.id} \cup {x}]
    /\ UNCHANGED <<sExec, pc, readers, inbox, ctrlVars, runVars, results, totalLost>>

------------------------------------------------------------------------------
(* The main thread of subscriber s.                                        *)

\* init() of the two readers: each DDS entity on the way to the reader may fail
\* to be created, and then there is no reader.  The Cyclone readers are stubs.
FastDataReaderInit    == {{}, {"data"}}
OpenDataReaderInit    == {{}, {"data"}}
CycloneDataReaderInit == {{}}

FastControlReaderInit    == {{}, {"control"}}
OpenControlReaderInit    == {{}, {"control"}}
CycloneControlReaderInit == {{}}

DataReaderInit ==
    CASE vendor = "FastDDS"    -> FastDataReaderInit
      [] vendor = "OpenDDS"    -> OpenDataReaderInit
      [] vendor = "CycloneDDS" -> CycloneDataReaderInit

ControlReaderInit ==
    CASE vendor = "FastDDS"    -> FastControlReaderInit
      [] vendor = "OpenDDS"    -> OpenControlReaderInit
      [] vendor = "CycloneDDS" -> CycloneControlReaderInit

\* Executive::init: a reader whose init() fails is reported, no more.
StartUp(s) ==
    /\ sExec[s] = "INIT"
    /\ pc[s] # "crashed"
    /\ sExec' = [sExec EXCEPT ![s] = "EXECUTION"]
    /\ \E d \in DataReaderInit, c \in ControlReaderInit :
        readers' = [readers EXCEPT ![s] = d \cup c]
    /\ UNCHANGED <<pc, inbox, history, ctrlVars, runVars, results, totalLost>>

\* The participant manager of the OpenDDS build throws when it gets no
\* participant.
CrashAtStart(s) ==
    /\ sExec[s] = "INIT"
    /\ vendor = "OpenDDS"
    /\ pc[s] # "crashed"
    /\ pc' = [pc EXCEPT ![s] = "crashed"]
    /\ UNCHANGED <<sExec, readers, inbox, history, ctrlVars, runVars, results, totalLost>>

InRead(s) == sExec[s] = "EXECUTION" /\ pc[s] = "read"

Reading(s) == InRead(s) /\ "control" \in readers[s]

PollDeaf(s) ==  \* variant: a STOP leaves the test active
    /\ Reading(s)
    /\ inbox[s] # <<>>
    /\ LET last == inbox[s][Len(inbox[s])]
       IN  /\ testId' = [testId EXCEPT ![s] = last.test]
           /\ expected' = [expected EXCEPT ![s] = last.expected]
           /\ loanMode' = [loanMode EXCEPT ![s] = last.loan]
    /\ active' = [active EXCEPT ![s] = TRUE]
    /\ inbox' = [inbox EXCEPT ![s] = <<>>]
    /\ UNCHANGED <<sExec, pc, readers, history, runVars, results, totalLost>>

\* read() with control messages pending: poll_control takes them all and keeps
\* the last.  A START ends the call ("Give 1 cycle range to the publisher"), a
\* STOP ends it because no test is active.
Poll(s) ==
    /\ Reading(s)
    /\ inbox[s] # <<>>
    /\ LET last == inbox[s][Len(inbox[s])]
       IN  /\ testId' = [testId EXCEPT ![s] = last.test]
           /\ expected' = [expected EXCEPT ![s] = last.expected]
           /\ active' = [active EXCEPT ![s] = last.start]
           /\ loanMode' = [loanMode EXCEPT ![s] = last.loan]
    /\ inbox' = [inbox EXCEPT ![s] = <<>>]
    /\ UNCHANGED <<sExec, pc, readers, history, runVars, results, totalLost>>

\* read() with no control message and no active test has no effect; with an
\* active test it begins the run: reset_samples, then the take loop.
BeginTest(s) ==
    /\ Reading(s)
    /\ inbox[s] = <<>>
    /\ active[s]
    /\ pc' = [pc EXCEPT ![s] = "take"]
    /\ taken' = [taken EXCEPT ![s] = 0]
    /\ received' = [received EXCEPT ![s] = {}]
    /\ UNCHANGED <<sExec, readers, inbox, history, ctrlVars, results, totalLost>>

\* expected_messages_cycle as run_without_loan sees it: OpenSub has a member of
\* that name of its own, which hides the one that read() sets.
OpenExpected == 0
Expected(s)  == IF vendor = "OpenDDS" THEN OpenExpected ELSE expected[s]

\* run_without_loan makes at most "expected" takes; run_with_loan takes until
\* nothing is left.
MayTake(s) == loanMode[s] \/ taken[s] < Expected(s)

\* FastSub takes from a null reader; OpenSub has no run_with_loan.
FastRunThrows(s) == MayTake(s) /\ "data" \notin readers[s]
OpenRunThrows(s) == loanMode[s]

RunThrows(s) ==
    \/ vendor = "FastDDS" /\ FastRunThrows(s)
    \/ vendor = "OpenDDS" /\ OpenRunThrows(s)

TakeCopy(s) ==  \* variant: the sample is read, not taken
    /\ pc[s] = "take"
    /\ MayTake(s) /\ ~RunThrows(s)
    /\ \E x \in history[s] : received' = [received EXCEPT ![s] = @ \cup {x}]
    /\ taken' = [taken EXCEPT ![s] = @ + 1]
    /\ UNCHANGED <<sExec, pc, readers, inbox, history, ctrlVars, results, totalLost>>

\* One iteration of the loop.  Which sample comes first is up to DDS.
Take(s) ==
    /\ pc[s] = "take"
    /\ MayTake(s) /\ ~RunThrows(s)
    /\ \E x \in history[s] :
        /\ history' = [history EXCEPT ![s] = @ \ {x}]
        /\ received' = [received EXCEPT ![s] = @ \cup {x}]
    /\ taken' = [taken EXCEPT ![s] = @ + 1]
    /\ UNCHANGED <<sExec, pc, readers, inbox, ctrlVars, results, totalLost>>

ReceivedIds(s) == {x.id : x \in received[s]}

\* OpenSub reports a missing reader here.
FastAllReceived(s) == Cardinality(ReceivedIds(s)) = Expected(s)
OpenAllReceived(s) == "data" \in readers[s] /\ Cardinality(ReceivedIds(s)) = Expected(s)

AllReceived(s) ==
    IF vendor = "OpenDDS" THEN OpenAllReceived(s) ELSE FastAllReceived(s)

LostInRunShort(s) ==  \* variant: one short
    IF AllReceived(s) THEN 0 ELSE Expected(s) - Cardinality(ReceivedIds(s)) - 1

LostInRun(s) == IF AllReceived(s) THEN 0 ELSE Expected(s) - Cardinality(ReceivedIds(s))

\* The verdict, the number it was measured by, and the batches whose entities it
\* counted.
RunResult(s) == [test     |-> testId[s],
                 valid    |-> AllReceived(s),
                 lost     |-> LostInRun(s),
                 expected |-> Expected(s),
                 batches  |-> {x.test : x \in received[s]}]

ReportRunAgain(s) ==  \* variant: reset_test does not clear test_active
    /\ results' = [results EXCEPT ![s] = Append(@, RunResult(s))]
    /\ totalLost' = [totalLost EXCEPT ![s] = @ + LostInRun(s)]
    /\ sExec' = IF Len(results[s]) + 1 >= SubMaxTest
                THEN [sExec EXCEPT ![s] = "END"] ELSE sExec
    /\ UNCHANGED active

ReportRunEarly(s) ==  \* variant: one test too few
    /\ results' = [results EXCEPT ![s] = Append(@, RunResult(s))]
    /\ totalLost' = [totalLost EXCEPT ![s] = @ + LostInRun(s)]
    /\ sExec' = IF Len(results[s]) + 2 >= SubMaxTest
                THEN [sExec EXCEPT ![s] = "END"] ELSE sExec
    /\ active' = [active EXCEPT ![s] = FALSE]

ReportRunLate(s) ==  \* variant: one test too many
    /\ results' = [results EXCEPT ![s] = Append(@, RunResult(s))]
    /\ totalLost' = [totalLost EXCEPT ![s] = @ + LostInRun(s)]
    /\ sExec' = IF Len(results[s]) + 1 > SubMaxTest
                THEN [sExec EXCEPT ![s] = "END"] ELSE sExec
    /\ active' = [active EXCEPT ![s] = FALSE]

\* total_lost_samples, finish_test (whose make_final_report asks for the end)
\* and reset_test.
ReportRun(s) ==
    /\ results' = [results EXCEPT ![s] = Append(@, RunResult(s))]
    /\ totalLost' = [totalLost EXCEPT ![s] = @ + LostInRun(s)]
    /\ sExec' = IF Len(results[s]) + 1 >= SubMaxTest
                THEN [sExec EXCEPT ![s] = "END"] ELSE sExec
    /\ active' = [active EXCEPT ![s] = FALSE]

\* The loop is over: the count is reached, or there is nothing to take.
FinishRun(s) ==
    /\ pc[s] = "take"
    /\ ~RunThrows(s)
    /\ ~MayTake(s) \/ history[s] = {}
    /\ ReportRun(s)
    /\ pc' = [pc EXCEPT ![s] = "read"]
    /\ received' = [received EXCEPT ![s] = {}]
    /\ taken' = [taken EXCEPT ![s] = 0]
    /\ UNCHANGED <<readers, inbox, history, testId, expected, loanMode>>

\* read() always polls the control reader; FastSubControl does not look whether
\* there is one.
CrashInPoll(s) ==
    /\ InRead(s)
    /\ vendor = "FastDDS"
    /\ "control" \notin readers[s]
    /\ pc' = [pc EXCEPT ![s] = "crashed"]
    /\ UNCHANGED <<sExec, readers, inbox, history, ctrlVars, runVars, results, totalLost>>

\* Nobody catches what a run throws.
CrashInRun(s) ==
    /\ pc[s] = "take"
    /\ RunThrows(s)
    /\ pc' = [pc EXCEPT ![s] = "crashed"]
    /\ UNCHANGED <<sExec, readers, inbox, history, ctrlVars, runVars, results, totalLost>>

SubMain(s) ==
    \/ StartUp(s) \/ CrashAtStart(s)
    \/ Poll(s) \/ CrashInPoll(s)
    \/ BeginTest(s)
    \/ Take(s)
    \/ FinishRun(s) \/ CrashInRun(s)
==============================================================================
