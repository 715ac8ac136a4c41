------------------------------- MODULE TestRun -------------------------------
(***************************************************************************)
(* What a publisher of the stress test promises to its subscribers: tests  *)
(* 1, 2, ..., Tests, one after the other, each one announced, then streamed *)
(* as one batch of entities, then stopped.                                 *)
(*                                                                         *)
(* This is the sequence listed in the comment of pub_test_1_to_1.h:125-129; *)
(* PubTest shows that the code, with its flags and cycle counters,         *)
(* implements it.                                                          *)
(***************************************************************************)
EXTENDS Naturals

CONSTANT Tests  \* how many, a natural number

VARIABLES announced, streamed, stopped  \* tests that have got that far

\* The three counters count tests.
TypeOK ==
    /\ announced \in 0 .. Tests
    /\ streamed \in 0 .. Tests
    /\ stopped \in 0 .. Tests

Init ==
    /\ announced = 0
    /\ streamed = 0
    /\ stopped = 0

\* The control topic carries the START of the next test.
Announce ==
    /\ announced = stopped
    /\ announced < Tests
    /\ announced' = announced + 1
    /\ UNCHANGED <<streamed, stopped>>

\* The entity topic carries the batch of the announced test.
Stream ==
    /\ streamed < announced
    /\ streamed' = streamed + 1
    /\ UNCHANGED <<announced, stopped>>

\* The control topic carries the STOP of the streamed test.
Stop ==
    /\ stopped < streamed
    /\ stopped' = stopped + 1
    /\ UNCHANGED <<announced, streamed>>

Next == Announce \/ Stream \/ Stop

Spec == Init /\ [][Next]_<<announced, streamed, stopped>>
==============================================================================
