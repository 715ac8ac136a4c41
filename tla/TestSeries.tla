------------------------------ MODULE TestSeries -----------------------------
(***************************************************************************)
(* What the publisher and its subscribers promise together: the publisher  *)
(* goes through its tests as in TestRun, and each subscriber follows as    *)
(* well as it can.  It finds STARTs in the publisher's order, not all of   *)
(* them; it runs the test whose START it found last, once, unless it finds *)
(* the STOP first; and it ends with the run that completes its number.     *)
(*                                                                         *)
(* There are no messages, histories and processes here: StressTest shows   *)
(* that the system with all of them implements this.                       *)
(***************************************************************************)
EXTENDS TestRun, Sequences

CONSTANTS Subs,   \* the subscribers
          Limit   \* the number of runs after which a subscriber ends

VARIABLES
    seen,     \* the test whose START or STOP a subscriber found last, or 0
    current,  \* the test it is to run, or 0
    runs,     \* the tests it has run
    ended     \* the subscribers that have ended

publisher   == <<announced, streamed, stopped>>
subscribers == <<seen, current, runs, ended>>

SeriesInit ==
    /\ Init
    /\ seen = [s \in Subs |-> 0]
    /\ current = [s \in Subs |-> 0]
    /\ runs = [s \in Subs |-> <<>>]
    /\ ended = {}

Publisher == Next /\ UNCHANGED subscribers

\* s finds the START of a later test.  It forgets the one it was to run, and
\* knows nothing of those in between.
PickUp(s) ==
    /\ s \notin ended
    /\ \E test \in seen[s] + 1 .. announced :
        /\ seen' = [seen EXCEPT ![s] = test]
        /\ current' = [current EXCEPT ![s] = test]
    /\ UNCHANGED <<publisher, runs, ended>>

\* s finds the STOP of this test or of a later one.
Drop(s) ==
    /\ s \notin ended
    /\ \E test \in seen[s] .. stopped :
        /\ seen' = [seen EXCEPT ![s] = test]
        /\ current' = [current EXCEPT ![s] = 0]
    /\ UNCHANGED <<publisher, runs, ended>>

\* s has run its test.
Report(s) ==
    /\ s \notin ended
    /\ current[s] # 0
    /\ runs' = [runs EXCEPT ![s] = Append(@, current[s])]
    /\ current' = [current EXCEPT ![s] = 0]
    /\ ended' = IF Len(runs[s]) + 1 >= Limit THEN ended \cup {s} ELSE ended
    /\ UNCHANGED <<publisher, seen>>

SeriesNext ==
    \/ Publisher
    \/ \E s \in Subs : PickUp(s) \/ Drop(s) \/ Report(s)

SeriesSpec == SeriesInit /\ [][SeriesNext]_<<publisher, subscribers>>
==============================================================================
