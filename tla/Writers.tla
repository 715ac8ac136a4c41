------------------------------- MODULE Writers -------------------------------
(***************************************************************************)
(* The two DDS writers of a publisher in the three builds: FastPub,        *)
(* OpenPub, CyclonePub for the entities, FastPubControl, OpenPubControl,   *)
(* CyclonePubControl for START and STOP, with the listener callbacks that  *)
(* the DDS threads run on them.                                            *)
(*                                                                         *)
(* The two topics are logs of all that was written; who receives it is the *)
(* business of module StressTest.                                          *)
(***************************************************************************)
EXTENDS Setup, Integers, Sequences, FiniteSets

CONSTANTS Messages,      \* messages_per_cycle: size of a batch
          MinSubs,       \* min_subs: listener_number of the configuration
          MaxInstances,  \* resource_limits().max_instances of the writer (200)
          MaxMatches     \* bound: endpoints that ever match one writer

ASSUME WritersAssumption ==
    /\ Messages \in Nat
    /\ MinSubs \in Nat
    /\ MaxInstances \in Nat
    /\ MaxMatches \in Nat

VARIABLES
    writers,      \* the writers whose init() succeeded
    matched,      \* matched_ of the data writer's listener: its total_count
    ctrlMatched,  \* matched_ of the control writer's listener
    currentId,    \* current_id of the data writer: next id in Loan mode
    instances,    \* instances registered with the data writer
    control,      \* all that was written to the control topic
    data          \* all that was written to the entity topic

dds       == <<writers, matched, ctrlMatched>>
dataTopic == <<currentId, instances, data>>

------------------------------------------------------------------------------
\* TestControl: the message of the control topic.
StartMsg(k) == [test |-> k, start |-> TRUE, expected |-> Messages, loan |-> Loan]
StopMsg(k)  == [test |-> k, start |-> FALSE, expected |-> 0, loan |-> FALSE]
ControlMsg  == [test : Nat, start : BOOLEAN, expected : {0, Messages}, loan : BOOLEAN]

\* AirEntity, reduced to its key; "test" records the batch it was written in.
\* (The real entity has no such field: no code reads it.)
Sample == [id : Nat, test : Nat]

WritersTypeOK ==
    /\ writers \in SUBSET {"data", "control"}
    /\ matched \in 0 .. MaxMatches
    /\ ctrlMatched \in 0 .. MaxMatches
    /\ currentId \in Nat
    /\ instances \in SUBSET Nat
    /\ control \in Seq(ControlMsg)
    /\ data \in Seq(Sample)

WritersInit ==
    /\ writers = {}
    /\ matched = 0
    /\ ctrlMatched = 0
    /\ currentId = 0
    /\ instances = {}
    /\ control = <<>>
    /\ data = <<>>

------------------------------------------------------------------------------
(* Creation.  Each DDS entity on the way to a writer may fail to be         *)
(* created, and then there is no writer.  Cyclone throws instead: the data  *)
(* writer exists or the process is gone.  Its control writer is never made: *)
(* init() fails on the participant, or hands the participant's handle to    *)
(* Topic as if it were a domain's number, which throws.                     *)

FastDataWriterInit    == {{}, {"data"}}
OpenDataWriterInit    == {{}, {"data"}}
CycloneDataWriterInit == {{"data"}}

FastControlWriterInit    == {{}, {"control"}}
OpenControlWriterInit    == {{}, {"control"}}
CycloneControlWriterInit == {{}}

DataWriterInit ==
    CASE vendor = "FastDDS"    -> FastDataWriterInit
      [] vendor = "OpenDDS"    -> OpenDataWriterInit
      [] vendor = "CycloneDDS" -> CycloneDataWriterInit

ControlWriterInit ==
    CASE vendor = "FastDDS"    -> FastControlWriterInit
      [] vendor = "OpenDDS"    -> OpenControlWriterInit
      [] vendor = "CycloneDDS" -> CycloneControlWriterInit

------------------------------------------------------------------------------
(* The listeners, run by the DDS threads.                                  *)

\* A reader matches the data writer: total_count counts it for good.  The
\* listener of CyclonePub is attached to nothing.
OnDataMatched ==
    /\ vendor # "CycloneDDS"
    /\ "data" \in writers
    /\ matched < MaxMatches
    /\ matched' = matched + 1
    /\ UNCHANGED <<writers, ctrlMatched, dataTopic, control>>

\* A reader leaves the data writer: matched_ is set to total_count again.
OnDataUnmatched ==
    /\ matched > 0
    /\ matched' = matched
    /\ UNCHANGED <<writers, ctrlMatched, dataTopic, control>>

OnControlMatched ==
    /\ "control" \in writers
    /\ ctrlMatched < MaxMatches
    /\ ctrlMatched' = ctrlMatched + 1
    /\ UNCHANGED <<writers, matched, dataTopic, control>>

\* FastPubControl counts who is there, OpenPubControl who ever was.
FastControlLeft == vendor = "FastDDS" /\ ctrlMatched' = ctrlMatched - 1
OpenControlLeft == vendor = "OpenDDS" /\ ctrlMatched' = ctrlMatched

OnControlUnmatched ==
    /\ ctrlMatched > 0
    /\ FastControlLeft \/ OpenControlLeft
    /\ UNCHANGED <<writers, matched, dataTopic, control>>

FastIsMatchedAny == matched > 0   \* variant: does not look at min_subs

\* is_matched() of the data writer.  The counter of CyclonePub is the one that
\* its listener does not write.
FastIsMatched    == matched > 0 /\ matched >= MinSubs
OpenIsMatched    == matched >= MinSubs
CycloneIsMatched == 0 >= MinSubs

IsMatched ==
    \/ vendor = "FastDDS" /\ FastIsMatched
    \/ vendor = "OpenDDS" /\ OpenIsMatched
    \/ vendor = "CycloneDDS" /\ CycloneIsMatched

\* is_matched() of the control writer.  Nobody sets min_subs of OpenPubControl,
\* so it is 0; CyclonePubControl has no writer to ask.
FastCtrlIsMatched    == ctrlMatched > 0
OpenCtrlIsMatched    == ctrlMatched >= 0
CycloneCtrlIsMatched == "control" \in writers /\ ctrlMatched > 0

CtrlIsMatched ==
    \/ vendor = "FastDDS" /\ FastCtrlIsMatched
    \/ vendor = "OpenDDS" /\ OpenCtrlIsMatched
    \/ vendor = "CycloneDDS" /\ CycloneCtrlIsMatched

------------------------------------------------------------------------------
(* Writing.                                                                *)

\* DDS refuses the write of a new instance only when max_instances are in use
\* (it may instead reclaim one).  n is the number of entities of a batch, with
\* keys from first on, that are written before one is refused.
FastAccepted(first, n) ==
    n < Messages =>
        Cardinality(instances \cup first .. (first + n)) > MaxInstances

\* OpenPub may be asked to publish without a writer: its first call goes through
\* a null reference.
OpenAccepted(first, n) ==
    IF "data" \in writers THEN FastAccepted(first, n) ELSE n = 0

Accepted(first, n) ==
    IF vendor = "OpenDDS" THEN OpenAccepted(first, n) ELSE FastAccepted(first, n)

\* The n entities written for a test in one cycle, under consecutive keys.
Batch(first, n, test) == [i \in 1 .. n |-> [id |-> first + i - 1, test |-> test]]

PublishBatch(first, n, test) ==
    /\ data' = data \o Batch(first, n, test)
    /\ instances' = instances \cup first .. (first + n - 1)

\* FastPub::publish_loan gives up at the first refused entity.  Its id is spent if
\* the loan was granted and the write refused, kept if the loan was refused.
FastPublishLoan(test) ==
    \E n \in 0 .. Messages :
        /\ FastAccepted(currentId, n)
        /\ PublishBatch(currentId, n, test)
        /\ \/ currentId' = currentId + n
           \/ n < Messages /\ currentId' = currentId + n + 1

\* OpenPub::publish_loan reports success and writes nothing.
OpenPublishLoan == UNCHANGED dataTopic

PublishLoan(test) ==
    \/ vendor = "FastDDS" /\ FastPublishLoan(test)
    \/ vendor = "OpenDDS" /\ OpenPublishLoan
==============================================================================
