-------------------------- MODULE FastDomain_proofs --------------------------
(***************************************************************************)
(* Proofs about the domain of the indra_dds library, for any number of     *)
(* participants and any sequence of calls.                                 *)
(***************************************************************************)
EXTENDS FastDomain, SequenceTheorems, TLAPS

\* The vector holds each participant once, and only participants given out.
VectorInv ==
    /\ \A i, j \in 1 .. Len(participants) : participants[i] = participants[j] => i = j
    /\ Listed \ {Null} \subseteq created

\* Once remove_participant() has met a null pointer, the vector is left half done.
IInv ==
    /\ TypeOK
    /\ status # "removed null" => VectorInv
    /\ EnabledAreListed
    /\ QosSinceReset
    /\ defaultQos \in defaults

------------------------------------------------------------------------------
(* The vector.                                                             *)

\* The elements of a vector.
LEMMA ElementsOf ==
    ASSUME NEW S, NEW s \in Seq(S)
    PROVE  ToSet(s) = {s[i] : i \in 1 .. Len(s)}
  BY DEF ToSet

\* The vector is a sequence.
LEMMA VectorType ==
    ASSUME TypeOK
    PROVE  participants \in Seq(Participant \cup {Null}) /\ Len(participants) \in Nat
  <1>1. participants \in Seq(Participant \cup {Null})
    BY Zenon DEF TypeOK
  <1> QED
    BY <1>1

\* What std::remove_if keeps, in front of the place of what it removes and behind.
LEMMA KeptElements ==
    ASSUME TypeOK, VectorInv, NEW p \in Listed
    PROVE  /\ Position(p) \in 1 .. Len(participants)
           /\ participants[Position(p)] = p
           /\ Kept(p) \in Seq(Participant \cup {Null})
           /\ Len(Kept(p)) = Len(participants) - 1
           /\ \A i \in 1 .. Len(participants) - 1 :
                Kept(p)[i] = participants[IF i < Position(p) THEN i ELSE i + 1]
  <1> DEFINE k == Position(p)
             n == Len(participants)
             S == Participant \cup {Null}
  <1>0. participants \in Seq(S) /\ n \in Nat
    BY VectorType
  <1>1. k \in 1 .. n /\ participants[k] = p
    <2>1. \E i \in DOMAIN participants : participants[i] = p
      BY DEF Listed, ToSet
    <2> QED
      BY <1>0, <2>1 DEF Position
  <1> HIDE DEF k
  <1>2. Kept(p) = SubSeq(participants, 1, k - 1) \o SubSeq(participants, k + 1, n)
    BY DEF Kept, RemoveAt, k
  <1>3. /\ SubSeq(participants, 1, k - 1) \in Seq(S)
        /\ Len(SubSeq(participants, 1, k - 1)) = k - 1
        /\ \A i \in 1 .. k - 1 : SubSeq(participants, 1, k - 1)[i] = participants[i]
    BY <1>0, <1>1
  <1>4. /\ SubSeq(participants, k + 1, n) \in Seq(S)
        /\ Len(SubSeq(participants, k + 1, n)) = n - k
        /\ \A i \in 1 .. n - k : SubSeq(participants, k + 1, n)[i] = participants[i + k]
    BY <1>0, <1>1
  <1> QED
    <2> DEFINE a == SubSeq(participants, 1, k - 1)
               b == SubSeq(participants, k + 1, n)
    <2>1. a \in Seq(S) /\ b \in Seq(S) /\ Len(a) = k - 1 /\ Len(b) = n - k
      BY <1>3, <1>4
    <2>2. /\ \A i \in 1 .. k - 1 : a[i] = participants[i]
          /\ \A i \in 1 .. n - k : b[i] = participants[i + k]
      BY <1>3, <1>4
    <2>3. Kept(p) = a \o b
      BY <1>2
    <2> HIDE DEF a, b
    <2>4. Kept(p) \in Seq(S) /\ Len(Kept(p)) = n - 1
      BY <1>0, <1>1, <2>1, <2>3
    <2>5. \A i \in 1 .. n - 1 : Kept(p)[i] = IF i <= k - 1 THEN a[i] ELSE b[i - (k - 1)]
      BY <1>0, <1>1, <2>1, <2>3
    <2>6. \A i \in 1 .. n - 1 : Kept(p)[i] = participants[IF i < k THEN i ELSE i + 1]
      <3> TAKE i \in 1 .. n - 1
      <3>1. CASE i < k
        BY <1>0, <1>1, <2>2, <2>5, <3>1
      <3>2. CASE ~(i < k)
        <4>1. i - (k - 1) \in 1 .. n - k /\ (i - (k - 1)) + k = i + 1
          BY <1>0, <1>1, <3>2
        <4> QED
          BY <1>0, <1>1, <2>2, <2>5, <3>2, <4>1
      <3> QED
        BY <3>1, <3>2
    <2> QED
      BY <1>1, <2>4, <2>6 DEF k

\* Taking p out takes out p, and nothing else (FastDomain.cpp:47-51).
LEMMA KeptIsTheRest ==
    ASSUME TypeOK, VectorInv, NEW p \in Listed
    PROVE  /\ ToSet(Kept(p)) = Listed \ {p}
           /\ \A i, j \in 1 .. Len(Kept(p)) : Kept(p)[i] = Kept(p)[j] => i = j
  <1> DEFINE k == Position(p)
             n == Len(participants)
             c == Kept(p)
             Place(i) == IF i < k THEN i ELSE i + 1
  <1>0. participants \in Seq(Participant \cup {Null}) /\ n \in Nat
    BY VectorType
  <1>1. /\ k \in 1 .. n
        /\ participants[k] = p
        /\ c \in Seq(Participant \cup {Null})
        /\ Len(c) = n - 1
        /\ \A i \in 1 .. n - 1 : c[i] = participants[Place(i)]
    BY KeptElements
  <1>2. \A i, j \in 1 .. n : participants[i] = participants[j] => i = j
    BY DEF VectorInv
  <1>3. Listed = {participants[i] : i \in 1 .. n} /\ ToSet(c) = {c[i] : i \in 1 .. n - 1}
    <2>1. Listed = {participants[i] : i \in 1 .. n}
      BY <1>0, ElementsOf DEF Listed
    <2>2. ToSet(c) = {c[i] : i \in 1 .. Len(c)}
      BY <1>1, ElementsOf
    <2> QED
      BY <2>1, <2>2, <1>1
  <1> HIDE DEF k, c
  <1>4. \A i \in 1 .. n - 1 : Place(i) \in 1 .. n /\ Place(i) # k
    BY <1>0, <1>1
  <1>5. \A i, j \in 1 .. n - 1 : Place(i) = Place(j) => i = j
    BY <1>0, <1>1
  <1>6. \A m \in 1 .. n : m # k => \E i \in 1 .. n - 1 : Place(i) = m
    <2> TAKE m \in 1 .. n
    <2> HAVE m # k
    <2>1. CASE m < k
      <3>1. m \in 1 .. n - 1 /\ Place(m) = m
        BY <1>0, <1>1, <2>1
      <3> QED
        BY <3>1
    <2>2. CASE m > k
      <3>1. m - 1 \in 1 .. n - 1
        BY <1>0, <1>1, <2>2
      <3>2. Place(m - 1) = m
        BY <1>0, <1>1, <2>2
      <3> QED
        BY <3>1, <3>2
    <2> QED
      BY <1>0, <1>1, <2>1, <2>2
  <1> HIDE DEF Place
  <1>7. ToSet(c) \subseteq Listed \ {p}
    BY <1>1, <1>2, <1>3, <1>4
  <1>8. Listed \ {p} \subseteq ToSet(c)
    <2> SUFFICES ASSUME NEW q \in Listed, q # p PROVE q \in ToSet(c)
      OBVIOUS
    <2>1. PICK m \in 1 .. n : participants[m] = q
      BY <1>3
    <2>2. PICK i \in 1 .. n - 1 : Place(i) = m
      BY <1>1, <1>6, <2>1
    <2> QED
      BY <1>1, <1>3, <2>1, <2>2
  <1>9. \A i, j \in 1 .. Len(c) : c[i] = c[j] => i = j
    BY <1>1, <1>2, <1>4, <1>5
  <1> QED
    BY <1>7, <1>8, <1>9 DEF c

\* The first slot behind what is kept is p's own or null, never another's: no other
\* participant is disabled in the place of p (FastDomain.cpp:55).
LEMMA FirstSlotBehind ==
    ASSUME TypeOK, VectorInv, NEW p \in Listed
    PROVE  Slot(p, Len(Kept(p)) + 1) \in {p, Null}
  <1>1. Len(Kept(p)) \in Nat
    BY KeptElements
  <1>2. ~(Len(Kept(p)) + 1 <= Len(Kept(p)))
    BY <1>1
  <1> QED
    BY <1>2 DEF Slot, Behind

------------------------------------------------------------------------------
(* The steps.                                                              *)

\* Calls that leave the vector, the flags and the QoS alone, or end in a fault.
LEMMA QuietStep ==
    ASSUME IInv,
           UNCHANGED <<participants, created, enabled, entities, qos>>,
           defaultQos' \in DefaultQos, defaults \subseteq defaults',
           defaults' \subseteq DefaultQos, defaultQos' \in defaults',
           status = "running",
           status' \in {"running", "no participant", "dangling qos"}
    PROVE  IInv'
  <1>1. TypeOK'
    <2>1. participants' \in Seq(Participant \cup {Null})
      BY VectorType DEF IInv
    <2>2. Listed' = Listed
      BY DEF Listed
    <2>3. status' \in {"running", "destroyed"} \cup faults
      BY DEF IInv, TypeOK, faults
    <2>4. status' # "removed null" => Null \notin Listed'
      BY <2>2 DEF IInv, TypeOK
    <2> QED
      BY <2>1, <2>3, <2>4 DEF IInv, TypeOK
  <1>2. VectorInv'
    BY DEF IInv, VectorInv, Listed
  <1>3. EnabledAreListed'
    BY DEF IInv, EnabledAreListed, Listed, faults
  <1>4. QosSinceReset'
    BY DEF IInv, QosSinceReset, Listed
  <1> QED
    BY <1>1, <1>2, <1>3, <1>4 DEF IInv

\* shutdown_all() empties the vector and disables who was in it.
LEMMA ShutdownStep ==
    ASSUME IInv, ShutdownAll, UNCHANGED <<created, entities, qos>>, status = "running",
           status' \in {"running", "destroyed"},
           defaultQos' \in defaults', defaults' \subseteq DefaultQos
    PROVE  IInv'
  <1>1. participants' = <<>> /\ enabled' = enabled \ Listed
    BY DEF ShutdownAll
  <1>2. Listed' = {}
    BY <1>1 DEF Listed, ToSet
  <1>3. enabled' = {}
    BY <1>1 DEF IInv, EnabledAreListed, faults
  <1>4. TypeOK'
    BY <1>1, <1>2, <1>3 DEF IInv, TypeOK
  <1>5. VectorInv'
    BY <1>1, <1>2 DEF VectorInv
  <1> QED
    BY <1>2, <1>3, <1>4, <1>5 DEF IInv, EnabledAreListed, QosSinceReset

\* create_participant() puts the new participant at the end of the vector.
LEMMA CreateStep == ASSUME IInv, NEW p \in Participant, CreateParticipant(p) PROVE IInv'
  <1>0. /\ status = "running" /\ status' = "running" /\ p \notin created
        /\ created' = created \cup {p} /\ participants' = Append(participants, p)
        /\ qos' = [qos EXCEPT ![p] = defaultQos]
        /\ entities' \in {entities, entities \cup {p}}
        /\ enabled' = enabled /\ defaultQos' = defaultQos /\ defaults' = defaults
    BY DEF CreateParticipant, OnInit
  <1>1. /\ participants \in Seq(Participant \cup {Null}) /\ Len(participants) \in Nat
        /\ Null \notin Listed
    BY <1>0 DEF IInv, TypeOK
  <1>2. /\ participants' \in Seq(Participant \cup {Null})
        /\ Len(participants') = Len(participants) + 1
        /\ \A i \in 1 .. Len(participants) : participants'[i] = participants[i]
        /\ participants'[Len(participants) + 1] = p
    BY <1>0, <1>1
  <1>3. /\ \A q : q \in Listed <=> \E i \in 1 .. Len(participants) : participants[i] = q
        /\ \A q : q \in Listed' <=> \E i \in 1 .. Len(participants') : participants'[i] = q
    <2>1. ToSet(participants) = {participants[i] : i \in 1 .. Len(participants)}
      BY <1>1, ElementsOf
    <2>2. ToSet(participants') = {participants'[i] : i \in 1 .. Len(participants')}
      BY <1>2, ElementsOf
    <2>3. Listed = ToSet(participants) /\ Listed' = ToSet(participants')
      BY DEF Listed
    <2> QED
      BY <2>1, <2>2, <2>3
  <1>4. Listed' = Listed \cup {p}
    <2>1. \A i \in 1 .. Len(participants') :
            i \in 1 .. Len(participants) \/ i = Len(participants) + 1
      BY <1>1, <1>2
    <2>2. \A i \in 1 .. Len(participants) : i \in 1 .. Len(participants')
      BY <1>1, <1>2
    <2>3. Len(participants) + 1 \in 1 .. Len(participants')
      BY <1>1, <1>2
    <2>4. ASSUME NEW q \in Listed' PROVE q \in Listed \cup {p}
      <3>1. PICK i \in 1 .. Len(participants') : participants'[i] = q
        BY <1>3, <2>4
      <3>2. CASE i \in 1 .. Len(participants)
        BY <1>2, <1>3, <3>1, <3>2
      <3>3. CASE i = Len(participants) + 1
        BY <1>2, <3>1, <3>3
      <3> QED
        BY <2>1, <3>2, <3>3
    <2>5. Listed \subseteq Listed'
      BY <1>2, <1>3, <2>2
    <2>6. p \in Listed'
      <3>1. participants'[Len(participants) + 1] = p
        BY <1>2
      <3> QED
        BY <1>3, <2>3, <3>1
    <2> QED
      BY <2>4, <2>5, <2>6
  <1>5. p \notin Listed
    BY <1>0, NullAssumption DEF IInv, VectorInv
  <1>6. TypeOK'
    <2>1. qos' \in [Participant -> Qos]
      BY <1>0 DEF IInv, TypeOK, Qos
    <2> QED
      BY <1>0, <1>2, <1>4, <1>1, <2>1, NullAssumption DEF IInv, TypeOK
  <1>7. VectorInv'
    <2>1. \A i \in 1 .. Len(participants) : participants[i] # p
      BY <1>3, <1>5
    <2>2. ASSUME NEW i \in 1 .. Len(participants'), NEW j \in 1 .. Len(participants'),
                 participants'[i] = participants'[j]
          PROVE  i = j
      <3>1. \A m \in 1 .. Len(participants') :
              m \in 1 .. Len(participants) \/ m = Len(participants) + 1
        BY <1>1, <1>2
      <3>2. CASE i \in 1 .. Len(participants) /\ j \in 1 .. Len(participants)
        BY <1>0, <1>2, <2>2, <3>2 DEF IInv, VectorInv
      <3>3. CASE i \in 1 .. Len(participants) /\ j = Len(participants) + 1
        BY <1>2, <2>1, <2>2, <3>3
      <3>4. CASE i = Len(participants) + 1 /\ j \in 1 .. Len(participants)
        BY <1>2, <2>1, <2>2, <3>4
      <3> QED
        BY <3>1, <3>2, <3>3, <3>4
    <2> QED
      BY <1>0, <1>4, <2>2 DEF IInv, VectorInv
  <1>8. EnabledAreListed'
    BY <1>0, <1>4 DEF IInv, EnabledAreListed
  <1>9. QosSinceReset' /\ defaultQos' \in defaults'
    BY <1>0, <1>1, <1>4, <1>5 DEF IInv, QosSinceReset, TypeOK
  <1> QED
    BY <1>6, <1>7, <1>8, <1>9 DEF IInv

\* remove_participant() of the last element disables and erases it.
LEMMA RemoveStep == ASSUME IInv, NEW p \in Participant, RemoveParticipant(p) PROVE IInv'
  <1>0. /\ status = "running" /\ status' = "running" /\ p \in Listed
        /\ Slot(p, Len(Kept(p)) + 1) # Null
        /\ enabled' = enabled \ {Slot(p, Len(Kept(p)) + 1)}
        /\ participants' = Kept(p)
        /\ UNCHANGED <<created, entities, defaultQos, defaults, qos>>
    BY DEF RemoveParticipant, qosVars
  <1>1. TypeOK /\ VectorInv
    BY <1>0 DEF IInv
  <1>2. enabled' = enabled \ {p}
    BY <1>0, <1>1, FirstSlotBehind
  <1>3. Listed' = Listed \ {p}
    BY <1>0, <1>1, KeptIsTheRest DEF Listed
  <1>4. Kept(p) \in Seq(Participant \cup {Null})
    BY <1>0, <1>1, KeptElements
  <1>5. TypeOK'
    BY <1>0, <1>1, <1>2, <1>3, <1>4 DEF TypeOK
  <1>6. VectorInv'
    BY <1>0, <1>1, <1>3, KeptIsTheRest DEF VectorInv
  <1>7. EnabledAreListed' /\ QosSinceReset' /\ defaultQos' \in defaults'
    BY <1>0, <1>2, <1>3 DEF IInv, EnabledAreListed, QosSinceReset, faults
  <1> QED
    BY <1>5, <1>6, <1>7 DEF IInv

\* The call that meets the null pointer ends the process; the participants stay
\* as they are otherwise.
LEMMA RemoveFaultsStep == ASSUME IInv, NEW p \in Participant, RemoveFaults(p) PROVE IInv'
  <1> DEFINE n == Len(participants)
             v == [i \in DOMAIN participants |-> Slot(p, i)]
  <1>0. /\ status = "running" /\ status' = "removed null" /\ p \in Listed
        /\ Slot(p, Len(Kept(p)) + 1) = Null
        /\ participants' = v
        /\ UNCHANGED <<created, enabled, entities, defaultQos, defaults, qos>>
    BY DEF RemoveFaults, qosVars
  <1>1. TypeOK /\ VectorInv
    BY <1>0 DEF IInv
  <1>2. /\ Kept(p) \in Seq(Participant \cup {Null})
        /\ Len(Kept(p)) = n - 1
        /\ n \in Nat /\ n \in 1 .. n /\ DOMAIN participants = 1 .. n
    <2>1. participants \in Seq(Participant \cup {Null}) /\ n \in Nat
      BY <1>1, VectorType
    <2>2. Position(p) \in 1 .. n
      BY <1>0, <1>1, KeptElements
    <2>3. Kept(p) \in Seq(Participant \cup {Null}) /\ Len(Kept(p)) = n - 1
      BY <1>0, <1>1, KeptElements
    <2>4. n \in 1 .. n
      BY <2>1, <2>2
    <2> QED
      BY <2>1, <2>3, <2>4
  <1>3. \A i \in 1 .. n : Slot(p, i) \in Listed \cup {Null}
    <2>1. \A i \in 1 .. n - 1 : Slot(p, i) = Kept(p)[i]
      <3> TAKE i \in 1 .. n - 1
      <3>1. i <= Len(Kept(p))
        BY <1>2
      <3> QED
        BY <3>1, Zenon DEF Slot
    <2>2. \A i \in 1 .. n - 1 : Kept(p)[i] \in ToSet(Kept(p))
      BY <1>2, ElementsOf
    <2>3. ToSet(Kept(p)) = Listed \ {p}
      BY <1>0, <1>1, KeptIsTheRest
    <2>4. Slot(p, n) = Null
      <3>1. Len(Kept(p)) + 1 = n
        BY <1>2
      <3> QED
        BY <1>0, <3>1
    <2>5. \A i \in 1 .. n : i \in 1 .. n - 1 \/ i = n
      BY <1>2
    <2> QED
      BY <2>1, <2>2, <2>3, <2>4, <2>5
  <1>4. Listed \subseteq Participant \cup {Null}
    <2>1. participants \in Seq(Participant \cup {Null})
      BY <1>1, VectorType
    <2> QED
      BY <2>1 DEF Listed, ToSet
  <1>5. v \in Seq(Participant \cup {Null}) /\ ToSet(v) \subseteq Listed \cup {Null}
    <2>1. DOMAIN v = 1 .. n /\ \A i \in 1 .. n : v[i] = Slot(p, i)
      BY <1>2
    <2>2. v \in [1 .. n -> Participant \cup {Null}]
      BY <1>2, <1>3, <1>4
    <2> HIDE DEF v
    <2>3. v \in Seq(Participant \cup {Null})
      BY <1>2, <2>2, SeqDef
    <2>4. ToSet(v) \subseteq Listed \cup {Null}
      BY <1>3, <2>1 DEF ToSet
    <2> QED
      BY <2>3, <2>4
  <1> HIDE DEF v
  <1>6. Listed' \subseteq Listed \cup {Null}
    BY <1>0, <1>5 DEF Listed
  <1>7. TypeOK'
    BY <1>0, <1>1, <1>5 DEF TypeOK, faults
  <1>8. EnabledAreListed' /\ QosSinceReset' /\ defaultQos' \in defaults'
    BY <1>0, <1>6 DEF IInv, EnabledAreListed, QosSinceReset, faults
  <1> QED
    BY <1>0, <1>7, <1>8 DEF IInv

\* enable() and disable() concern a participant of the vector, enable_all() all of
\* them.
LEMMA EnableStep ==
    ASSUME IInv, status = "running", UNCHANGED <<status, participants, created, qosVars>>,
           enabled' \subseteq enabled \cup (Listed \ {Null})
    PROVE  IInv'
  <1>1. /\ participants \in Seq(Participant \cup {Null})
        /\ Listed \subseteq Participant \cup {Null}
    BY VectorType DEF IInv, Listed, ToSet
  <1>2. Listed' = Listed
    BY DEF Listed
  <1>3. TypeOK'
    BY <1>1, <1>2 DEF IInv, TypeOK, faults, qosVars
  <1>4. VectorInv'
    BY <1>2 DEF IInv, VectorInv
  <1>5. EnabledAreListed' /\ QosSinceReset' /\ defaultQos' \in defaults'
    BY <1>2 DEF IInv, EnabledAreListed, QosSinceReset, faults, qosVars
  <1> QED
    BY <1>3, <1>4, <1>5 DEF IInv

\* apply_qos() gives a participant the default-constructed QoS, or the caller's.
LEMMA ApplyStep == ASSUME IInv, NEW p \in Participant, ApplyQos(p) PROVE IInv'
  <1>0. /\ status = "running"
        /\ UNCHANGED <<status, participants, created, enabled, entities, defaultQos, defaults>>
        /\ qos' \in {[qos EXCEPT ![p] = "initial"], [qos EXCEPT ![p] = "own"]}
    BY DEF ApplyQos
  <1>1. /\ participants \in Seq(Participant \cup {Null})
        /\ Listed' = Listed
        /\ Listed \subseteq Participant \cup {Null}
    BY <1>0, VectorType DEF IInv, Listed, ToSet
  <1>2. TypeOK'
    <2>1. qos' \in [Participant -> Qos]
      BY <1>0 DEF IInv, TypeOK, Qos, DefaultQos
    <2> QED
      BY <1>0, <1>1, <2>1 DEF IInv, TypeOK, faults
  <1>3. VectorInv' /\ EnabledAreListed'
    BY <1>0, <1>1 DEF IInv, VectorInv, EnabledAreListed
  <1>4. QosSinceReset' /\ defaultQos' \in defaults'
    BY <1>0, <1>1 DEF IInv, QosSinceReset, TypeOK
  <1> QED
    BY <1>2, <1>3, <1>4 DEF IInv

\* No call leads out of the invariant.
LEMMA InvStep == IInv /\ [Next]_vars => IInv'
  <1> SUFFICES ASSUME IInv, [Next]_vars PROVE IInv'
    OBVIOUS
  <1>1. ASSUME NEW q \in DefaultQos, ChangeQos(q) PROVE IInv'
    BY <1>1, QuietStep DEF ChangeQos, SetDefaultQos, IInv, TypeOK
  <1>2. CASE EnableAll
    BY <1>2, EnableStep DEF EnableAll, IInv, TypeOK
  <1>3. CASE Close \/ Destroy
    BY <1>3, ShutdownStep DEF Close, Destroy, qosVars, IInv, TypeOK
  <1>4. CASE Reset
    BY <1>4, ShutdownStep DEF Reset, SetDefaultQos, DefaultQos, IInv, TypeOK
  <1>5. ASSUME NEW p \in Participant,
               CreateParticipant(p) \/ RemoveParticipant(p) \/ RemoveFaults(p) \/ ApplyQos(p)
        PROVE  IInv'
    BY <1>5, CreateStep, RemoveStep, RemoveFaultsStep, ApplyStep
  <1>6. ASSUME NEW p \in Participant, Enable(p) \/ Disable(p)
        PROVE  IInv'
    BY <1>6, EnableStep, NullAssumption DEF Enable, Disable
  <1>7. ASSUME NEW p \in Participant, UseMissing(p) \/ EditQos(p)
        PROVE  IInv'
    BY <1>7, QuietStep DEF UseMissing, EditQos, qosVars, IInv, TypeOK
  <1>8. CASE UNCHANGED vars
    <2>1. Listed' = Listed
      BY <1>8 DEF vars, Listed
    <2>2. TypeOK'
      BY <1>8, <2>1 DEF IInv, TypeOK, vars, qosVars, faults
    <2> QED
      BY <1>8, <2>1, <2>2
      DEF IInv, VectorInv, EnabledAreListed, QosSinceReset, vars, qosVars, faults
  <1>9. CASE DomainInit \/ ChangeDefaultQos \/ ChangeInitialQos
    BY <1>1, <1>9 DEF DomainInit, ChangeDefaultQos, ChangeInitialQos, DefaultQos
  <1> QED
    BY <1>2, <1>3, <1>4, <1>5, <1>6, <1>7, <1>8, <1>9 DEF Next

\* A domain starts with no participant.
LEMMA InvInit == Init => IInv
  <1> SUFFICES ASSUME Init PROVE IInv
    OBVIOUS
  <1>1. participants = <<>> /\ Listed = {}
    BY DEF Init, Listed, ToSet
  <1>2. TypeOK
    BY <1>1 DEF Init, TypeOK, DefaultQos, Qos
  <1> QED
    BY <1>1, <1>2 DEF Init, IInv, VectorInv, EnabledAreListed, QosSinceReset

\* The strengthened invariant holds whatever the calls.
THEOREM Invariance == Spec => []IInv
  BY InvInit, InvStep, PTL DEF Spec

------------------------------------------------------------------------------
(* The theorems.                                                           *)

\* The variables keep their types, and no element of the vector is null as long
\* as the process lives, although the domain calls every element without looking.
THEOREM TypeCorrect == Spec => []TypeOK
  <1>1. IInv => TypeOK
    BY DEF IInv
  <1> QED
    BY <1>1, Invariance, PTL

\* No participant is destroyed while enabled, whichever call takes it out of the
\* vector (FastDomain.cpp:45-105).
THEOREM DisabledBeforeDestroyed == Spec => []EnabledAreListed
  <1>1. IInv => EnabledAreListed
    BY DEF IInv
  <1> QED
    BY <1>1, Invariance, PTL

\* No default QoS from before a reset() is in force at a participant of the vector,
\* however the public calls that change the default are mixed (FastDomain.cpp:60-105).
THEOREM NoStaleQos == Spec => []QosSinceReset
  <1>1. IInv => QosSinceReset
    BY DEF IInv
  <1> QED
    BY <1>1, Invariance, PTL
==============================================================================
