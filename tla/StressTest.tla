----------------------------- MODULE StressTest ------------------------------
(***************************************************************************)
(* One publisher process and several subscriber processes, as started by   *)
(* docker-compose.yml, with what DDS does between them: discovery of the   *)
(* two endpoints of each subscriber, delivery of control messages          *)
(* (RELIABLE, TRANSIENT_LOCAL: all of them, in order, as long as the       *)
(* publisher lives) and delivery or loss of entities (BEST_EFFORT,         *)
(* VOLATILE: only those written after the match).                          *)
(*                                                                         *)
(* The processes share no clock: the executive only bounds a cycle from    *)
(* below, so the cycles of two processes interleave in any way.            *)
(***************************************************************************)
EXTENDS PubTest, SubTest

VARIABLES
    ctrlLinked,  \* subscribers whose control reader is matched with the publisher
    dataLinked,  \* subscribers whose entity reader is matched with the publisher
    ctrlPos,     \* number of control messages that reached a subscriber
    dataPos      \* position of a subscriber in the entity topic

links  == <<ctrlLinked, dataLinked, ctrlPos, dataPos>>
system == <<vars, subVars, links>>

StressTypeOK ==
    /\ TypeOK
    /\ sExec \in [Subs -> {"INIT", "EXECUTION", "END"}]
    /\ pc \in [Subs -> {"read", "take", "crashed"}]
    /\ readers \in [Subs -> SUBSET {"data", "control"}]
    /\ inbox \in [Subs -> Seq(ControlMsg)]
    /\ \A s \in Subs : history[s] \subseteq Sample
    /\ active \in [Subs -> BOOLEAN]
    /\ testId \in [Subs -> Nat]
    /\ expected \in [Subs -> {0, Messages}]
    /\ loanMode \in [Subs -> BOOLEAN]
    /\ taken \in [Subs -> Nat]
    /\ \A s \in Subs : received[s] \subseteq Sample
    /\ \A s \in Subs : \A i \in 1 .. Len(results[s]) : results[s][i].lost <= Messages
    /\ totalLost \in [Subs -> Int]
    /\ ctrlLinked \subseteq Subs
    /\ dataLinked \subseteq Subs
    /\ ctrlPos \in [Subs -> 0 .. Len(control)]
    /\ dataPos \in [Subs -> 0 .. Len(data)]

StressInit ==
    /\ Init
    /\ SubInit
    /\ ctrlLinked = {}
    /\ dataLinked = {}
    /\ ctrlPos = [s \in Subs |-> 0]
    /\ dataPos = [s \in Subs |-> 0]

------------------------------------------------------------------------------
PublisherStep == Main /\ UNCHANGED <<subVars, links>>

SubscriberStep(s) == SubMain(s) /\ UNCHANGED <<vars, links>>

Alive(s) == sExec[s] = "EXECUTION" /\ pc[s] # "crashed"

(* Discovery.  Each endpoint is discovered on its own: the two topics use   *)
(* two participants on either side.                                        *)

LinkData(s) ==
    /\ phase # "stopped"
    /\ Alive(s) /\ "data" \in readers[s] /\ s \notin dataLinked
    /\ OnDataMatched /\ UNCHANGED <<config, mainVars>>
    /\ dataLinked' = dataLinked \cup {s}
    /\ dataPos' = [dataPos EXCEPT ![s] = Len(data)]
    /\ UNCHANGED <<subVars, ctrlLinked, ctrlPos>>

LinkControl(s) ==
    /\ phase # "stopped"
    /\ Alive(s) /\ "control" \in readers[s] /\ s \notin ctrlLinked
    /\ OnControlMatched /\ UNCHANGED <<config, mainVars>>
    /\ ctrlLinked' = ctrlLinked \cup {s}
    /\ UNCHANGED <<subVars, dataLinked, ctrlPos, dataPos>>

\* The process of a subscriber that is through takes its endpoints down.  One
\* that crashed is never missed: the lease duration is infinite.
UnlinkData(s) ==
    /\ phase # "stopped"
    /\ sExec[s] = "END" /\ s \in dataLinked
    /\ OnDataUnmatched /\ UNCHANGED <<config, mainVars>>
    /\ dataLinked' = dataLinked \ {s}
    /\ UNCHANGED <<subVars, ctrlLinked, ctrlPos, dataPos>>

UnlinkControl(s) ==
    /\ phase # "stopped"
    /\ sExec[s] = "END" /\ s \in ctrlLinked
    /\ OnControlUnmatched /\ UNCHANGED <<config, mainVars>>
    /\ ctrlLinked' = ctrlLinked \ {s}
    /\ UNCHANGED <<subVars, dataLinked, ctrlPos, dataPos>>

(* Delivery.                                                               *)

DeliverControl(s) ==
    /\ Alive(s) /\ s \in ctrlLinked
    /\ ctrlPos[s] < Len(control)
    /\ ReceiveControl(s, control[ctrlPos[s] + 1])
    /\ ctrlPos' = [ctrlPos EXCEPT ![s] = @ + 1]
    /\ UNCHANGED <<vars, ctrlLinked, dataLinked, dataPos>>

NextEntity(s) ==
    /\ Alive(s) /\ s \in dataLinked
    /\ dataPos[s] < Len(data)
    /\ dataPos' = [dataPos EXCEPT ![s] = @ + 1]
    /\ UNCHANGED <<vars, ctrlLinked, dataLinked, ctrlPos>>

DeliverData(s) == NextEntity(s) /\ ReceiveSample(s, data[dataPos[s] + 1])

LoseData(s) == NextEntity(s) /\ UNCHANGED subVars

Dds(s) ==
    \/ LinkData(s) \/ LinkControl(s)
    \/ UnlinkData(s) \/ UnlinkControl(s)
    \/ DeliverControl(s)
    \/ DeliverData(s) \/ LoseData(s)

StressNext == PublisherStep \/ \E s \in Subs : SubscriberStep(s) \/ Dds(s)

StressSpec == StressInit /\ [][StressNext]_system

\* The main threads run; endpoints that exist are discovered; a control message
\* arrives, but only a live publisher repairs its loss: main returns right after
\* the last STOP, without waiting for acknowledgements.
StressFairness ==
    /\ WF_system(PublisherStep)
    /\ \A s \in Subs :
        /\ WF_system(SubscriberStep(s))
        /\ WF_system(LinkData(s))
        /\ WF_system(LinkControl(s))
        /\ WF_system(phase # "stopped" /\ DeliverControl(s))

FairStressSpec == StressSpec /\ StressFairness

------------------------------------------------------------------------------
(* Properties.                                                             *)

TestsRun(s) == {results[s][i].test : i \in 1 .. Len(results[s])}

\* Each subscriber runs each announced test at most once, in the publisher's
\* order: neither a STOP nor several control messages found by one poll start a
\* run.  It measures each by the number of entities announced with it, except in
\* the OpenDDS build, where the run never sees that number (see
\* ValidMeansReceived).
RunsInOrder ==
    \A s \in Subs :
        /\ \A i \in 1 .. Len(results[s]) :
            /\ vendor # "OpenDDS" => results[s][i].expected = Messages
            /\ 2 * results[s][i].test - 1 <= Len(control)
        /\ \A i, j \in 1 .. Len(results[s]) :
            i < j => results[s][i].test < results[s][j].test

\* With the same test_count on both sides, a subscriber ends only after having
\* run every test of the publisher: one that missed a test does not.
EndsWithEveryTest ==
    SubMaxTest = MaxTest =>
        \A s \in Subs : sExec[s] = "END" => TestsRun(s) = 1 .. NumTests

\* Over all its runs, a subscriber does not report more entities received than
\* were written to the topic since it joined and reached it: none is counted
\* twice, although nothing in an entity tells the batches apart.  (OpenSub counts
\* nothing: see ValidMeansReceived.)
NotOvercounted ==
    vendor # "OpenDDS" =>
        \A s \in Subs : Messages * Len(results[s]) - totalLost[s] <= dataPos[s]

\* The first test is announced only while listener_number entity readers are connected.
\* is_matched() goes by the readers that ever were (matched_ is total_count), but none
\* can have left by then: a subscriber ends with a run, and a run takes a START.
WaitsForSubscribers ==
    [][control = <<>> /\ control' # <<>> => Cardinality(dataLinked) >= MinSubs]_system

\* A subscriber that skipped a test: its STOP has been polled, and it was not
\* run.
MissedTest(s) ==
    \E k \in 1 .. NumTests :
        /\ 2 * k <= ctrlPos[s] - Len(inbox[s])
        /\ k \notin TestsRun(s)
        /\ ~(pc[s] = "take" /\ testId[s] = k)

\* poll_control keeps the last of the messages that it finds and drops the others: a
\* test that was skipped in this way is never run afterwards.
SkippedForGood ==
    [][\A s \in Subs : MissedTest(s) => MissedTest(s)']_system

\* Publisher and subscribers implement TestSeries: whatever DDS delays, and however
\* many messages a poll finds at once, a subscriber goes through the tests in the
\* publisher's order, runs at most the one whose START it found last, once, and ends
\* exactly with the run that completes test_count.
Series == INSTANCE TestSeries WITH
            Tests     <- NumTests,
            Limit     <- SubMaxTest,
            announced <- (Len(control) + 1) \div 2,
            streamed  <- cpuTimes,
            stopped   <- Len(control) \div 2,
            seen      <- [s \in Subs |-> (ctrlPos[s] - Len(inbox[s]) + 1) \div 2],
            current   <- [s \in Subs |-> IF active[s] THEN testId[s] ELSE 0],
            runs      <- [s \in Subs |->
                            [i \in 1 .. Len(results[s]) |-> results[s][i].test]],
            ended     <- {s \in Subs : sExec[s] = "END"}

SeriesSpec == Series!SeriesSpec

\* Control messages that the publisher's exit may have cost s, more than the last
\* STOP, which ends no run.
Deserted(s) == phase = "stopped" /\ ctrlPos[s] < Len(control) - 1

\* Once the publisher is through, each subscriber that could open its readers
\* ends too, unless a poll found a START with its STOP behind it, or the publisher
\* was gone before its last START arrived.
SubscribersEnd ==
    \A s \in Subs :
        <>(exec = "END") =>
            <>[](\/ sExec[s] = "END"
                 \/ pc[s] = "crashed"
                 \/ "control" \notin readers[s]
                 \/ MissedTest(s)
                 \/ Deserted(s))

InitFailed ==
    \/ exec = "INIT" /\ phase = "stopped"
    \/ exec # "INIT" /\ writers # {"data", "control"}
    \/ \E s \in Subs :
        \/ sExec[s] # "INIT" /\ readers[s] # {"data", "control"}
        \/ sExec[s] = "INIT" /\ pc[s] = "crashed"

\* A subscriber that was through with the last test before its batch was written.
LeftInLastTest(s) ==
    /\ sExec[s] = "END"
    /\ Len(control) = 2 * NumTests - 1
    /\ cpuTimes = NumTests - 1

\* If every endpoint was created, and both sides have the same test_count, the
\* publisher runs all its tests to the end: no departure or crash of a subscriber
\* stops it, but for one that leaves in the last test before the batch of that
\* test is written, after which write() finds no reader (pub_test_1_to_1.h:158).
PublisherGetsDone ==
    SubMaxTest = MaxTest =>
        <>[](exec = "END" \/ InitFailed \/ \E s \in Subs : LeftInLastTest(s))

------------------------------------------------------------------------------
(* What comments in the code say, and the code does not do.                *)

\* "Give 1 cycle range to the publisher" (sub_test_1_to_1.h:85): the batch of a
\* test is written before a subscriber starts to take it.
GraceCycleSuffices ==
    \A s \in Subs : pc[s] = "take" => cpuTimes >= testId[s]

\* "How many people we have listening to our topic" (FastPub.hpp:84).
MatchedCountsListeners == matched = Cardinality(dataLinked)

\* "All ... entities received this cycle" (FastSub.hpp:327): a run that is found
\* VALID received the entities of its own test.
ValidMeansOwnBatch ==
    \A s \in Subs : \A i \in 1 .. Len(results[s]) :
        results[s][i].valid => results[s][i].batches = {results[s][i].test}

\* "All ... entities received this cycle" (OpenSub.hpp:223): the runs found VALID
\* received, together, at least as many entities as they were announced with.
ValidMeansReceived ==
    \A s \in Subs :
        Messages * Cardinality({i \in 1 .. Len(results[s]) : results[s][i].valid})
            <= dataPos[s]
==============================================================================
