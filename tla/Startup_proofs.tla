---------------------------- MODULE Startup_proofs ----------------------------
(***************************************************************************)
(* Proofs about the start-up: what runs is what was asked for, and the     *)
(* stack grows by questions, for any configuration, any answers and any    *)
(* depth of the stack.                                                     *)
(***************************************************************************)
EXTENDS Startup, TLAPS

Opts == [mode : Int, messages : Int, manual : BOOLEAN, listeners : Int]

\* The calls that are yet to choose, and those that chose.
Choosing == {"create", "switch"}
Chosen   == {"return", "init", "run"}

AllZero == \A i \in 1 .. Len(answers) : answers[i] = 0

\* The number of the innermost call is the last answer, and those before it are 0.
LastAnswer ==
    /\ Len(answers) > 0
    /\ answers[Len(answers)] = number
    /\ \A i \in 1 .. Len(answers) - 1 : answers[i] = 0

\* Until the file is read the options are the defaults.
OptionsInv == pc = "main" => options = Default

\* Where the argument and the number come from if the file has a mode ...
ModeInv ==
    options.mode > 0 =>
        /\ answers = <<>>
        /\ pc = "call" => argument = options.mode
        /\ pc \in Choosing \cup Chosen => number = options.mode

\* ... and if it has none: a number that no menu answer chose any more stays.
AskInv ==
    options.mode <= 0 =>
        /\ pc = "main" => answers = <<>>
        /\ pc = "call" /\ argument <= 0 => AllZero
        /\ pc = "call" => argument \notin {1, 2}
        /\ pc \in Choosing \cup Chosen => number >= 0
        /\ pc \in Choosing \cup Chosen /\ number \in {0, 1, 2} => LastAnswer

PatternInv ==
    /\ pc \in Chosen =>
          \/ pattern = "pub" /\ number = 1
          \/ pattern = "sub" /\ number = 2
    /\ currentState = "EXECUTION" => pc = "run"

Types ==
    /\ file \in File \cup {Mistyped}
    /\ options \in Opts
    /\ argument \in Int
    /\ number \in Int
    /\ answers \in Seq(Answers)

IInv == Types /\ OptionsInv /\ ModeInv /\ AskInv /\ PatternInv

------------------------------------------------------------------------------

\* What a file gives for each field has the type of the field.
LEMMA GivenTypes ==
    ASSUME file \in File
    PROVE  /\ Given("mode") \in Int
           /\ Given("messages") \in Int
           /\ Given("manual") \in BOOLEAN
           /\ Given("listeners") \in Int
           /\ Configured \in Opts
           /\ Configured.mode = Given("mode")
<1>1. Given("mode") \in Int
  BY FileAssumption DEF Given, File, Default
<1>2. Given("messages") \in Int
  BY FileAssumption DEF Given, File, Default
<1>3. Given("manual") \in BOOLEAN
  <2>1. file.manual \in {TRUE, FALSE, Absent}
    BY DEF File
  <2>2. Given("manual") = IF file.manual = Absent THEN TRUE ELSE file.manual
    BY Zenon DEF Given, Default
  <2> QED  BY <2>1, <2>2, Zenon
<1>4. Given("listeners") \in Int
  BY FileAssumption DEF Given, File, Default
<1> QED
  BY <1>1, <1>2, <1>3, <1>4 DEF Configured, FromFile, Opts

\* Reading an answer at the menu: the new answer is the last one.
LEMMA AnswerAppended ==
    ASSUME answers \in Seq(Answers), NEW n \in Answers, answers' = Append(answers, n), AllZero
    PROVE  /\ answers' \in Seq(Answers)
           /\ Len(answers') > 0
           /\ answers'[Len(answers')] = n
           /\ \A i \in 1 .. Len(answers') - 1 : answers'[i] = 0
  BY DEF AllZero

\* The strengthened invariant holds at the start of main().
LEMMA InvInit == Init => IInv
<1> SUFFICES ASSUME Init PROVE IInv
  OBVIOUS
<1>1. Types
  BY DEF Init, Types, Opts, Default
<1> QED
  BY <1>1 DEF Init, IInv, OptionsInv, ModeInv, AskInv, PatternInv, Default,
              Choosing, Chosen

\* Reading the configuration establishes it for the first call of test_patterns.
LEMMA LoadStep == IInv /\ Load => IInv'
<1> SUFFICES ASSUME IInv, Load PROVE IInv'
  OBVIOUS
<1>1. file \in File
  BY DEF Load, IInv, Types
<1>2. answers = <<>> /\ pc = "main"
  BY DEF Load, IInv, OptionsInv, AskInv, Default
<1>3. /\ options' = Configured /\ argument' = Given("mode") /\ pc' = "call"
      /\ vendor' = vendor /\ file' = file /\ answers' = answers /\ number' = number
      /\ currentState' = currentState
  BY DEF Load, Goto, setup
<1>5. options' \in Opts /\ options'.mode = argument' /\ argument' \in Int
  BY <1>1, <1>3, GivenTypes
<1>6. Types'
  BY <1>3, <1>5 DEF IInv, Types
<1>7. OptionsInv'
  BY <1>3 DEF OptionsInv
<1>8. ModeInv' /\ AskInv'
  BY <1>2, <1>3, <1>5 DEF ModeInv, AskInv, AllZero, Choosing, Chosen
<1>9. PatternInv'
  BY <1>2, <1>3 DEF IInv, PatternInv, Chosen
<1> QED  BY <1>6, <1>7, <1>8, <1>9 DEF IInv

\* A process that dies before its first cycle keeps the invariant.
LEMMA DieStep == IInv /\ pc # "run" /\ Die => IInv'
<1> SUFFICES ASSUME IInv, pc # "run", Die PROVE IInv'
  OBVIOUS
<1>1. /\ pc' = "dead" /\ vendor' = vendor /\ file' = file /\ options' = options
      /\ argument' = argument /\ number' = number /\ answers' = answers
      /\ currentState' = currentState
  BY DEF Die, Goto, setup, calls
<1>2. Types' /\ OptionsInv'
  BY <1>1 DEF IInv, Types, OptionsInv
<1>3. ModeInv' /\ AskInv'
  BY <1>1 DEF IInv, ModeInv, AskInv, Choosing, Chosen
<1>4. PatternInv'
  BY <1>1 DEF IInv, PatternInv, Chosen
<1> QED  BY <1>2, <1>3, <1>4 DEF IInv

\* An answer of the menu becomes the number of the call that asked.
LEMMA AskStep == IInv /\ Ask => IInv'
<1> SUFFICES ASSUME IInv, Ask PROVE IInv'
  OBVIOUS
<1>1. /\ pc = "call" /\ argument <= 0 /\ pc' = "create" /\ vendor' = vendor
      /\ file' = file /\ options' = options /\ argument' = argument
      /\ currentState' = currentState
  BY DEF Ask, Goto, setup
<1>2. PICK n \in Answers : number' = n /\ answers' = Append(answers, n)
  BY DEF Ask
<1>3. options \in Opts /\ argument \in Int /\ n \in 0 .. 9
  BY AnswersAssumption DEF IInv, Types
<1>4. options.mode <= 0 /\ AllZero
  BY <1>1, <1>3 DEF IInv, ModeInv, AskInv, Opts
<1>5. LastAnswer' /\ answers' \in Seq(Answers)
  BY <1>2, <1>4, AnswerAppended DEF LastAnswer, IInv, Types
<1>6. Types'
  BY <1>1, <1>2, <1>3, <1>5 DEF IInv, Types
<1>7. OptionsInv'
  BY <1>1 DEF OptionsInv
<1>8. ModeInv' /\ AskInv'
  BY <1>1, <1>2, <1>3, <1>4, <1>5 DEF ModeInv, AskInv, Opts
<1>9. PatternInv'
  BY <1>1 DEF IInv, PatternInv, Chosen
<1> QED  BY <1>6, <1>7, <1>8, <1>9 DEF IInv

\* The steps of a call that read nothing, leave the options alone and do not touch
\* the executive: it remains to be shown where the number comes from.
LEMMA CallStep ==
    ASSUME IInv, pc \notin {"main", "dead", "run"}, pc' \notin {"main", "dead", "run"},
           UNCHANGED <<vendor, file, options, answers, currentState>>,
           argument' \in Int, number' \in Int,
           ModeInv', AskInv',
           pc' \in Chosen =>
              (pattern' = "pub" /\ number' = 1) \/ (pattern' = "sub" /\ number' = 2)
    PROVE  IInv'
<1>1. Types'
  BY DEF IInv, Types
<1>2. OptionsInv'
  BY DEF OptionsInv
<1>3. PatternInv'
  BY DEF IInv, PatternInv
<1> QED  BY <1>1, <1>2, <1>3 DEF IInv

\* A number that the file or the caller gave.
LEMMA ArgumentStep == IInv /\ TakeArgument => IInv'
<1> SUFFICES ASSUME IInv, TakeArgument PROVE IInv'
  OBVIOUS
<1>1. /\ pc = "call" /\ argument > 0 /\ number' = argument /\ pc' = "create"
      /\ UNCHANGED <<vendor, file, options, answers, currentState>>
      /\ argument' = argument
  BY DEF TakeArgument, Goto, setup
<1>2. argument \in Int
  BY DEF IInv, Types
<1>3. ModeInv' /\ AskInv'
  BY <1>1, <1>2 DEF IInv, ModeInv, AskInv, Choosing, Chosen
<1> QED  BY <1>1, <1>2, <1>3, CallStep DEF Chosen

\* The manager, and with OpenDDS the participant.
LEMMA ManagerStep == IInv /\ CreateManager => IInv'
<1> SUFFICES ASSUME IInv, CreateManager PROVE IInv'
  OBVIOUS
<1>1. /\ pc = "create" /\ pc' = "switch"
      /\ UNCHANGED <<vendor, file, options, answers, currentState>>
      /\ argument' = argument /\ number' = number
  BY DEF CreateManager, Goto, setup, calls
<1>2. argument' \in Int /\ number' \in Int
  BY <1>1 DEF IInv, Types
<1>3. ModeInv' /\ AskInv'
  BY <1>1 DEF IInv, ModeInv, AskInv, LastAnswer, Choosing, Chosen
<1> QED  BY <1>1, <1>2, <1>3, CallStep DEF Chosen

\* The pattern, chosen by the number.
LEMMA PatternStep == IInv /\ CreatePattern => IInv'
<1> SUFFICES ASSUME IInv, CreatePattern PROVE IInv'
  OBVIOUS
<1>1. /\ pc = "switch" /\ pc' = "return"
      /\ UNCHANGED <<vendor, file, options, answers, currentState>>
      /\ argument' = argument /\ number' = number
      /\ (pattern' = "pub" /\ number' = 1) \/ (pattern' = "sub" /\ number' = 2)
  BY DEF CreatePattern, Goto, setup, calls
<1>2. argument' \in Int /\ number' \in Int
  BY <1>1 DEF IInv, Types
<1>3. ModeInv' /\ AskInv'
  BY <1>1 DEF IInv, ModeInv, AskInv, LastAnswer, Choosing, Chosen
<1> QED  BY <1>1, <1>2, <1>3, CallStep

\* The call within the call: only a 0 asks again, and then all answers so far are 0.
LEMMA AgainStep == IInv /\ AskAgain => IInv'
<1> SUFFICES ASSUME IInv, AskAgain PROVE IInv'
  OBVIOUS
<1>1. /\ pc = "switch" /\ pc' = "call" /\ number \notin {1, 2}
      /\ UNCHANGED <<vendor, file, options, answers, currentState>>
      /\ argument' = number /\ number' = number
  BY DEF AskAgain, Goto, setup
<1>2. argument' \in Int /\ number' \in Int
  BY <1>1 DEF IInv, Types
<1>3. ModeInv'
  BY <1>1 DEF IInv, ModeInv, Choosing, Chosen
<1>4. ASSUME options.mode <= 0, number = 0 PROVE AllZero
  <2>1. LastAnswer
    BY <1>1, <1>4 DEF IInv, AskInv, Choosing
  <2>2. Len(answers) \in Nat /\ Len(answers) > 0
    BY <2>1 DEF IInv, Types, LastAnswer
  <2>3. ASSUME NEW i \in 1 .. Len(answers) PROVE answers[i] = 0
    <3>1. CASE i = Len(answers)
      BY <2>1, <3>1, <1>4 DEF LastAnswer
    <3>2. CASE i # Len(answers)
      <4>1. i \in 1 .. Len(answers) - 1
        BY <2>2, <3>2
      <4> QED  BY <2>1, <4>1 DEF LastAnswer
    <3> QED  BY <3>1, <3>2
  <2> QED  BY <2>3 DEF AllZero
<1>5. AskInv'
  <2> SUFFICES ASSUME options.mode <= 0 PROVE AskInv'
    BY <1>1 DEF AskInv
  <2>1. number >= 0 /\ number \in Int
    BY <1>1 DEF IInv, AskInv, Types, Choosing
  <2>2. number <= 0 => AllZero
    BY <2>1, <1>4
  <2>3. AllZero' = AllZero
    BY <1>1 DEF AllZero
  <2> QED  BY <1>1, <2>1, <2>2, <2>3 DEF AskInv, Choosing, Chosen
<1> QED  BY <1>1, <1>2, <1>3, <1>5, CallStep DEF Chosen

\* The calls return.
LEMMA ReturnStep == IInv /\ Return => IInv'
<1> SUFFICES ASSUME IInv, Return PROVE IInv'
  OBVIOUS
<1>1. /\ pc = "return" /\ pc' = "init"
      /\ UNCHANGED <<vendor, file, options, answers, currentState>>
      /\ argument' = argument /\ number' = number /\ pattern' = pattern
  BY DEF Return, Goto, setup
<1>2. argument' \in Int /\ number' \in Int
  BY <1>1 DEF IInv, Types
<1>3. ModeInv' /\ AskInv'
  BY <1>1 DEF IInv, ModeInv, AskInv, LastAnswer, Choosing, Chosen
<1>4. (pattern' = "pub" /\ number' = 1) \/ (pattern' = "sub" /\ number' = 2)
  BY <1>1 DEF IInv, PatternInv, Chosen
<1> QED  BY <1>1, <1>2, <1>3, <1>4, CallStep

\* The pattern is initialised, and the executive goes on to its cycles.
LEMMA InitPatternStep == IInv /\ InitPattern => IInv'
<1> SUFFICES ASSUME IInv, InitPattern PROVE IInv'
  OBVIOUS
<1>1. /\ pc = "init" /\ pc' = "run" /\ vendor' = vendor /\ file' = file
      /\ options' = options /\ argument' = argument /\ number' = number
      /\ answers' = answers /\ pattern' = pattern
  BY DEF InitPattern, Goto, setup, calls
<1>2. pattern' = "pub" => options'.messages >= 0
  BY <1>1 DEF InitPattern
<1>3. Types'
  BY <1>1 DEF IInv, Types
<1>4. OptionsInv'
  BY <1>1 DEF OptionsInv
<1>5. ModeInv' /\ AskInv'
  BY <1>1 DEF IInv, ModeInv, AskInv, LastAnswer, Choosing, Chosen
<1>6. PatternInv'
  BY <1>1, <1>2 DEF IInv, PatternInv, Chosen
<1> QED  BY <1>3, <1>4, <1>5, <1>6 DEF IInv

\* Each step keeps the strengthened invariant.
LEMMA InvStep == IInv /\ [Next]_vars => IInv'
<1> SUFFICES ASSUME IInv, [Next]_vars PROVE IInv'
  OBVIOUS
<1>1. CASE Load
  BY <1>1, LoadStep
<1>2. CASE LoadThrows \/ CreateManagerThrows \/ StackOverflow \/ InitThrows
  BY <1>2, DieStep DEF LoadThrows, CreateManagerThrows, StackOverflow, InitThrows
<1>3. CASE Ask \/ TakeArgument
  BY <1>3, AskStep, ArgumentStep
<1>4. CASE CreateManager \/ CreatePattern
  BY <1>4, ManagerStep, PatternStep
<1>5. CASE AskAgain \/ Return \/ InitPattern
  BY <1>5, AgainStep, ReturnStep, InitPatternStep
<1>6. CASE UNCHANGED vars
  <2>1. /\ pc' = pc /\ vendor' = vendor /\ file' = file /\ options' = options
        /\ argument' = argument /\ number' = number /\ answers' = answers
        /\ pattern' = pattern /\ currentState' = currentState
    BY <1>6 DEF vars, setup, calls
  <2>3. Types' /\ OptionsInv' /\ PatternInv'
    BY <2>1 DEF IInv, Types, OptionsInv, PatternInv
  <2>4. ModeInv' /\ AskInv'
    BY <2>1 DEF IInv, ModeInv, AskInv, AllZero, LastAnswer
  <2> QED  BY <2>3, <2>4 DEF IInv
<1> QED
  BY <1>1, <1>2, <1>3, <1>4, <1>5, <1>6 DEF Next, TestPatterns

\* The strengthened invariant holds throughout the start-up (main.cpp:70-155).
THEOREM Invariance == Spec => []IInv
<1> QED  BY InvInit, InvStep, PTL DEF Spec

------------------------------------------------------------------------------
(* The stack.                                                              *)

\* Each call that has not returned read at most one answer, and one that begins
\* has read none yet.
StackInv ==
    /\ vendor \in Vendors
    /\ pc \in {"main", "call", "create", "switch", "return", "init", "run", "dead"}
    /\ pattern \in {"none", "pub", "sub"}
    /\ currentState \in {"INIT", "EXECUTION"}
    /\ frames \in 0 .. MaxFrames
    /\ Len(answers) <= MaxFrames
    /\ pc = "main" => answers = <<>>
    /\ pc = "call" => Len(answers) < frames
    /\ pc \in Choosing => Len(answers) <= frames

\* Each step keeps the bound of the stack (dds_module.cpp:80-100, 189-191).
LEMMA StackStep == IInv /\ StackInv /\ [Next]_vars => StackInv'
<1> SUFFICES ASSUME IInv, StackInv, [Next]_vars PROVE StackInv'
  OBVIOUS
<1> USE DEF StackInv, Choosing, setup, calls, Goto
<1>0. answers \in Seq(Answers) /\ Len(answers) \in Nat /\ MaxFrames \in Nat \ {0}
  BY FramesAssumption DEF IInv, Types
<1>1. CASE Load
  BY <1>0, <1>1 DEF Load
<1>2. CASE LoadThrows \/ CreateManagerThrows \/ StackOverflow \/ InitThrows
  BY <1>2 DEF LoadThrows, CreateManagerThrows, StackOverflow, InitThrows, Die
<1>3. CASE Ask
  <2>1. PICK n \in Answers : answers' = Append(answers, n)
    BY <1>3 DEF Ask
  <2>2. Len(answers') = Len(answers) + 1
    BY <1>0, <2>1
  <2> QED  BY <1>0, <1>3, <2>2 DEF Ask
<1>4. CASE TakeArgument \/ CreateManager \/ CreatePattern \/ Return \/ InitPattern
  BY <1>0, <1>4 DEF TakeArgument, CreateManager, CreatePattern, Return, InitPattern
<1>5. CASE AskAgain
  BY <1>0, <1>5 DEF AskAgain
<1>6. CASE UNCHANGED vars
  BY <1>6 DEF vars
<1> QED
  BY <1>1, <1>2, <1>3, <1>4, <1>5, <1>6 DEF Next, TestPatterns

\* All numbers so far have a case, or are the 0 that leads back to the menu.
Known == options.mode <= 2 /\ \A i \in 1 .. Len(answers) : answers[i] <= 2

\* With known numbers, no call is made for a number but 0 that the file or the menu
\* gave, and each call but the one that takes the file's mode has its answer, as soon
\* as it has chosen.
QuestionsInv ==
    /\ frames \in Int
    /\ Known =>
        /\ frames <= Len(answers) + 1
        /\ options.mode <= 0 =>
              /\ pc = "call" => argument <= 0
              /\ pc \in Choosing => number <= 2 /\ frames <= Len(answers)

\* Each step keeps it: what AskAgain passes on is a 0.
LEMMA QuestionsStep == IInv /\ QuestionsInv /\ [Next]_vars => QuestionsInv'
<1> SUFFICES ASSUME IInv, QuestionsInv, [Next]_vars PROVE QuestionsInv'
  OBVIOUS
<1> USE DEF QuestionsInv, Choosing, setup, calls, Goto
<1>0. /\ answers \in Seq(Answers) /\ Len(answers) \in Nat
      /\ options \in Opts /\ options.mode \in Int /\ argument \in Int /\ number \in Int
  BY DEF IInv, Types, Opts
<1>1. CASE Load
  <2>1. options'.mode = argument' /\ frames' = 1 /\ answers' = answers /\ pc' = "call"
    BY <1>1, GivenTypes DEF Load, IInv, Types
  <2> QED  BY <1>0, <2>1
<1>2. CASE LoadThrows \/ CreateManagerThrows \/ StackOverflow \/ InitThrows
  BY <1>2 DEF LoadThrows, CreateManagerThrows, StackOverflow, InitThrows, Die, Known
<1>3. CASE Ask
  <2>0. frames' = frames
    BY <1>3 DEF Ask
  <2> SUFFICES ASSUME Known' PROVE QuestionsInv'
    BY <2>0
  <2>1. PICK n \in Answers : number' = n /\ answers' = Append(answers, n)
    BY <1>3 DEF Ask
  <2>2. /\ Len(answers') = Len(answers) + 1
        /\ answers'[Len(answers) + 1] = n
        /\ \A i \in 1 .. Len(answers) : answers'[i] = answers[i]
    BY <1>0, <2>1
  <2>3. Known /\ n <= 2
    <3>1. options' = options /\ \A i \in 1 .. Len(answers') : answers'[i] <= 2
      BY <1>3 DEF Ask, Known
    <3>2. Len(answers) + 1 \in 1 .. Len(answers')
      BY <1>0, <2>2
    <3>3. \A i \in 1 .. Len(answers) : i \in 1 .. Len(answers')
      BY <1>0, <2>2
    <3>4. \A i \in 1 .. Len(answers) : answers[i] <= 2
      BY <2>2, <3>1, <3>3
    <3>5. options.mode <= 2
      BY <3>1 DEF Known
    <3> QED  BY <2>2, <3>1, <3>2, <3>4, <3>5 DEF Known
  <2>4. number' = n /\ frames' <= Len(answers')
    BY <1>0, <2>0, <2>1, <2>2, <2>3
  <2>5. pc' = "create" /\ options' = options
    BY <1>3 DEF Ask
  <2> QED  BY <1>0, <2>0, <2>2, <2>3, <2>4, <2>5
<1>4. CASE TakeArgument
  BY <1>0, <1>4 DEF TakeArgument, Known
<1>5. CASE CreateManager
  BY <1>5 DEF CreateManager, Known
<1>6. CASE CreatePattern \/ Return \/ InitPattern
  BY <1>0, <1>6 DEF CreatePattern, Return, InitPattern, Known
<1>7. CASE AskAgain
  <2> SUFFICES ASSUME Known PROVE QuestionsInv'
    BY <1>7 DEF AskAgain, Known
  <2>1. /\ pc = "switch" /\ number \notin {1, 2} /\ frames' = frames + 1 /\ argument' = number
        /\ pc' = "call" /\ options' = options /\ answers' = answers /\ number' = number
    BY <1>7 DEF AskAgain
  <2>2. options.mode <= 0
    <3>1. CASE options.mode > 0
      BY <1>0, <2>1, <3>1 DEF IInv, ModeInv, Known
    <3> QED  BY <1>0, <3>1
  <2>3. number <= 0 /\ frames <= Len(answers)
    BY <1>0, <2>1, <2>2
  <2> QED  BY <1>0, <2>1, <2>2, <2>3
<1>8. CASE UNCHANGED vars
  BY <1>8 DEF vars, Known
<1> QED
  BY <1>1, <1>2, <1>3, <1>4, <1>5, <1>6, <1>7, <1>8 DEF Next, TestPatterns

------------------------------------------------------------------------------
(* The theorems.                                                           *)

\* Every variable keeps its type; in particular no more answers are read than
\* calls of test_patterns fit on the stack.
THEOREM TypeCorrect == Spec => []TypeOK
<1>1. Init => StackInv
  BY FramesAssumption DEF Init, StackInv, Choosing
<1>2. IInv /\ StackInv => TypeOK
  BY DEF IInv, Types, Opts, StackInv, TypeOK
<1> QED  BY <1>1, <1>2, StackStep, Invariance, PTL DEF Spec

\* In the executive's loop there always is a pattern to call (dds_module.cpp:60-72).
THEOREM AlwaysAPattern == Spec => []PatternExists
<1>1. IInv => PatternExists
  BY DEF IInv, PatternInv, PatternExists, Executing, Chosen
<1> QED  BY <1>1, Invariance, PTL

\* What runs is what the file or the first answer other than 0 asked for
\* (dds_module.cpp:80-192).
THEOREM AsAsked == Spec => []RunsWhatWasAsked
<1>1. ASSUME IInv, Executing PROVE RunsWhatWasAsked
  <2> DEFINE choice == IF pattern = "pub" THEN 1 ELSE 2
  <2>1. pc \in Chosen /\ number = choice /\ number \in {1, 2}
    BY <1>1 DEF IInv, PatternInv, Executing, Chosen
  <2>2. options.mode \in Int
    BY <1>1 DEF IInv, Types, Opts
  <2>3. CASE options.mode > 0
    BY <1>1, <2>1, <2>3 DEF IInv, ModeInv, RunsWhatWasAsked
  <2>4. CASE options.mode <= 0
    <3>1. LastAnswer
      BY <1>1, <2>1, <2>4 DEF IInv, AskInv
    <3>2. ~(options.mode > 0)
      BY <2>2, <2>4
    <3> QED  BY <2>1, <3>1, <3>2 DEF LastAnswer, RunsWhatWasAsked
  <2> QED  BY <2>2, <2>3, <2>4
<1>2. IInv => RunsWhatWasAsked
  BY <1>1 DEF RunsWhatWasAsked
<1> QED  BY <1>2, Invariance, PTL

\* With numbers that the switch knows, test_patterns calls itself only to put its
\* question again (dds_module.cpp:84-100, 189-191).
THEOREM OnlyQuestionsRecurse == Spec => []StackGrowsByQuestions
<1>1. Init => QuestionsInv
  BY DEF Init, QuestionsInv, Known, Choosing, Default
<1>2. IInv /\ QuestionsInv => StackGrowsByQuestions
  BY DEF QuestionsInv, Known, StackGrowsByQuestions
<1> QED  BY <1>1, <1>2, QuestionsStep, Invariance, PTL DEF Spec
==============================================================================
