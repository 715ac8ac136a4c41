----------------------------- MODULE FastDomain ------------------------------
(***************************************************************************)
(* The domain of the indra_dds abstraction library: FastDomain owns the    *)
(* participants in a vector of unique_ptr<IParticipant>, a FastParticipant *)
(* owns one DDS participant of the DomainParticipantFactory.               *)
(*                                                                         *)
(* A caller holds plain pointers to participants and calls the domain and  *)
(* the participants in any order.  The library has no locks and is used    *)
(* from one thread.                                                        *)
(***************************************************************************)
EXTENDS Naturals, Sequences, SequencesExt

CONSTANTS Participant,  \* addresses of participants: one per create_participant
          Null          \* a unique_ptr that was moved from

ASSUME NullAssumption == Null \notin Participant

VARIABLES
    status,        \* "running", "destroyed", or the fault that ended the process
    participants,  \* participants_, the vector
    created,       \* addresses given out
    enabled,       \* the participants with "enabled" set
    entities,      \* participants whose DDS participant exists in the factory
    defaultQos,    \* the factory's default QoS
    defaults,      \* the default QoS in force since the last reset() (history)
    qos            \* QoS of each DDS participant

faults == {"removed null", "no participant", "dangling qos"}
qosVars == <<entities, defaultQos, defaults, qos>>
vars == <<status, participants, created, enabled, qosVars>>

Listed == ToSet(participants)

\* QoS values: the default-constructed one, the one that init() sets, one that the
\* caller sets as default, one that the caller applies to a single participant.
DefaultQos == {"initial", "indra", "custom"}
Qos        == DefaultQos \cup {"own"}

\* Type invariant.  As long as the process lives no element of the vector is null,
\* whatever is removed: the domain calls every element without looking.
TypeOK ==
    /\ status \in {"running", "destroyed"} \cup faults
    /\ participants \in Seq(Participant \cup {Null})
    /\ status # "removed null" => Null \notin Listed
    /\ created \in SUBSET Participant
    /\ enabled \in SUBSET Participant
    /\ entities \in SUBSET Participant
    /\ defaultQos \in DefaultQos
    /\ defaults \in SUBSET DefaultQos
    /\ qos \in [Participant -> Qos]

Init ==
    /\ status = "running"
    /\ participants = <<>>
    /\ created = {}
    /\ enabled = {}
    /\ entities = {}
    /\ defaultQos = "initial"
    /\ defaults = {"initial"}
    /\ qos = [p \in Participant |-> "initial"]

------------------------------------------------------------------------------
(* The domain.                                                             *)

\* set_default_participant_qos(): the factory may refuse, which goes no further than
\* a message.
SetDefaultQos(q) == defaultQos' \in {defaultQos, q}

\* A call that changes the default QoS and nothing else.
ChangeQos(q) ==
    /\ status = "running"
    /\ SetDefaultQos(q)
    /\ defaults' = defaults \cup {defaultQos'}
    /\ UNCHANGED <<status, participants, created, enabled, entities, qos>>

\* change_default_participant_qos(): a QoS of the caller's.
ChangeDefaultQos == ChangeQos("custom")

\* change_initial_participant_qos(), on its own: participants stay as they are.
ChangeInitialQos == ChangeQos("initial")

\* init(): user data "indra_participant" becomes part of the default QoS.
DomainInit == ChangeQos("indra")

\* FastParticipant::on_init(): the DDS participant gets the default QoS of the
\* moment.  DDS may fail to create it, which is printed.
OnInit(p) ==
    /\ qos' = [qos EXCEPT ![p] = defaultQos]
    /\ entities' \in {entities, entities \cup {p}}

\* create_participant(): the new participant is listed, whatever on_init() did.
CreateParticipant(p) ==
    /\ status = "running"
    /\ p \notin created
    /\ created' = created \cup {p}
    /\ OnInit(p)
    /\ participants' = Append(participants, p)
    /\ UNCHANGED <<status, enabled, defaultQos, defaults>>

\* std::remove_if on the vector: what is kept moves to the front; behind it, a
\* slot still holds its own element, or Null when that was moved away.  No two
\* unique_ptr own the same participant, so it takes out one element.
Position(p) == CHOOSE i \in DOMAIN participants : participants[i] = p
Kept(p)     == RemoveAt(participants, Position(p))
Behind(p, i) == IF participants[i] = p THEN p ELSE Null
Slot(p, i)   == IF i <= Len(Kept(p)) THEN Kept(p)[i] ELSE Behind(p, i)

RemoveQuietly(p) ==  \* variant: does not disable the participant
    /\ status = "running"
    /\ p \in Listed
    /\ Slot(p, Len(Kept(p)) + 1) # Null
    /\ participants' = Kept(p)
    /\ UNCHANGED <<status, created, enabled, qosVars>>

\* remove_participant(p): the first slot behind what is kept is disabled, and
\* everything from there on erased.  The destructor that erase() calls is
\* IParticipant's, which is not virtual: on_destroy() does not run, and the DDS
\* participant stays in the factory.
RemoveParticipant(p) ==
    /\ status = "running"
    /\ p \in Listed
    /\ LET it == Len(Kept(p)) + 1
       IN  /\ Slot(p, it) # Null
           /\ enabled' = enabled \ {Slot(p, it)}
    /\ participants' = Kept(p)
    /\ UNCHANGED <<status, created, qosVars>>

RemoveLate(p) ==  \* variant: erases from the second slot on, without disable()
    /\ status = "running"
    /\ p \in Listed
    /\ Slot(p, Len(Kept(p)) + 1) = Null
    /\ participants' = [i \in DOMAIN participants |-> Slot(p, i)]
    /\ UNCHANGED <<status, created, enabled, qosVars>>

\* The same call when that slot was moved from: disable() on a null pointer, in
\* the middle of the call.
RemoveFaults(p) ==
    /\ status = "running"
    /\ p \in Listed
    /\ Slot(p, Len(Kept(p)) + 1) = Null
    /\ status' = "removed null"
    /\ participants' = [i \in DOMAIN participants |-> Slot(p, i)]
    /\ UNCHANGED <<created, enabled, qosVars>>

EnableAll ==
    /\ status = "running"
    /\ enabled' = enabled \cup Listed
    /\ UNCHANGED <<status, participants, created, qosVars>>

ShutdownAllQuietly ==  \* variant: clears the vector only
    /\ participants' = <<>>
    /\ UNCHANGED enabled

\* shutdown_all(): every participant is disabled, then the vector cleared.  As
\* in remove_participant, no DDS participant is deleted.
ShutdownAll ==
    /\ enabled' = enabled \ Listed
    /\ participants' = <<>>

Close ==
    /\ status = "running"
    /\ ShutdownAll
    /\ UNCHANGED <<status, created, qosVars>>

ResetKeeps ==  \* variant: restores the default QoS only
    /\ status = "running"
    /\ SetDefaultQos("initial")
    /\ defaults' = {defaultQos'}
    /\ UNCHANGED <<status, participants, created, enabled, entities, qos>>

\* reset(): the original default QoS, then shutdown_all().
Reset ==
    /\ status = "running"
    /\ SetDefaultQos("initial")
    /\ defaults' = {defaultQos'}
    /\ ShutdownAll
    /\ UNCHANGED <<status, created, entities, qos>>

\* ~FastDomain(): shutdown_all(), and no more calls.
Destroy ==
    /\ status = "running"
    /\ status' = "destroyed"
    /\ ShutdownAll
    /\ UNCHANGED <<created, qosVars>>

------------------------------------------------------------------------------
(* A participant p that the caller has a valid pointer to.                 *)

Enable(p) ==
    /\ status = "running"
    /\ p \in Listed
    /\ enabled' = enabled \cup {p}
    /\ UNCHANGED <<status, participants, created, qosVars>>

Disable(p) ==
    /\ status = "running"
    /\ p \in Listed
    /\ enabled' = enabled \ {p}
    /\ UNCHANGED <<status, participants, created, qosVars>>

\* create_topic() or get_qos() on a participant that DDS did not create.
UseMissing(p) ==
    /\ status = "running"
    /\ p \in Listed \ entities
    /\ status' = "no participant"
    /\ UNCHANGED <<participants, created, enabled, qosVars>>

\* qos()->set_user_data(...): qos_ points to the local variable of on_init(),
\* which is gone.  The write is lost in dead memory, or damages live memory; in
\* neither case does the DDS participant see it.
EditQos(p) ==
    /\ status = "running"
    /\ p \in Listed
    /\ status' \in {"running", "dangling qos"}
    /\ UNCHANGED <<participants, created, enabled, qosVars>>

\* apply_qos(), without an argument: set_qos() with the member participant_qos, which
\* nothing has changed since it was default-constructed; with one: set_qos() with
\* a QoS of the caller's.
ApplyQos(p) ==
    /\ status = "running"
    /\ p \in Listed \cap entities
    /\ qos' \in {[qos EXCEPT ![p] = "initial"], [qos EXCEPT ![p] = "own"]}
    /\ UNCHANGED <<status, participants, created, enabled, entities, defaultQos, defaults>>

------------------------------------------------------------------------------
Next ==
    \/ DomainInit
    \/ ChangeDefaultQos
    \/ ChangeInitialQos
    \/ EnableAll
    \/ Close
    \/ Reset
    \/ Destroy
    \/ \E p \in Participant :
        \/ CreateParticipant(p)
        \/ RemoveParticipant(p)
        \/ RemoveFaults(p)
        \/ Enable(p)
        \/ Disable(p)
        \/ UseMissing(p)
        \/ EditQos(p)
        \/ ApplyQos(p)

Spec == Init /\ [][Next]_vars

------------------------------------------------------------------------------
\* No participant is destroyed while enabled: whatever takes it out of the
\* vector (remove_participant, close, reset, the destructor) disables it first.
EnabledAreListed == status \notin faults => enabled \subseteq Listed

\* A reset() leaves nothing behind: whatever the domain and its caller make the
\* default QoS, a listed participant has one that was the default since the last
\* reset(), or one that was applied to it by itself.
QosSinceReset ==
    \A p \in Listed \ {Null} : qos[p] \in defaults \cup {"initial", "own"}

\* "2 If founded, remove" (FastDomain.cpp:53): removing a participant of the
\* domain, whichever it is, does not end the process.
RemoveSucceeds == status # "removed null"
==============================================================================
