------------------------------- MODULE Startup -------------------------------
(***************************************************************************)
(* One process of the stress test from main() to its first cycle: the      *)
(* options of the configuration file and their defaults, the menu, the     *)
(* participant and the pattern (publisher or subscriber) that the one      *)
(* module of the executive creates and initialises.                        *)
(*                                                                         *)
(* What the pattern does from then on is in PubTest and SubTest.           *)
(***************************************************************************)
EXTENDS Integers, Sequences

CONSTANTS
    Vendors,     \* the builds
    Modes,       \* "mode" of a configuration file
    Counts,      \* "messageCount"
    Listeners,   \* "listeners"
    Answers,     \* digits typed at the menu
    Absent,      \* the value of a field that the file does not have
    Mistyped,    \* a file whose JSON does not have the types asked for
    MaxFrames    \* bound: calls of test_patterns that fit on the stack

ASSUME VendorsAssumption == Vendors \subseteq {"FastDDS", "OpenDDS", "CycloneDDS"}
ASSUME FileAssumption ==
    /\ Modes \cup Counts \cup Listeners \subseteq Int
    /\ Absent \notin Int \cup BOOLEAN
ASSUME AnswersAssumption == Answers \subseteq 0 .. 9 /\ 0 \in Answers
ASSUME FramesAssumption == MaxFrames \in Nat \ {0}

VARIABLES
    vendor,        \* current_library
    file,          \* the configuration file
    options,       \* test_config
    pc,            \* where main() is
    argument,      \* of the innermost call of test_patterns
    frames,        \* calls of test_patterns that have not returned
    number,        \* number, in the innermost call
    answers,       \* what was read at the menu, so far
    pattern,       \* p_pattern
    currentState   \* of the executive

setup == <<vendor, file>>
calls == <<argument, frames, number, answers>>
vars  == <<setup, options, pc, calls, pattern, currentState>>

File == [mode : Modes \cup {Absent}, messages : Counts \cup {Absent},
         manual : {TRUE, FALSE, Absent}, listeners : Listeners \cup {Absent}]

Default == [mode |-> 0, messages |-> 100, manual |-> TRUE, listeners |-> 0]

TypeOK ==
    /\ vendor \in Vendors
    /\ file \in File \cup {Mistyped}
    /\ options \in [mode : Int, messages : Int, manual : BOOLEAN, listeners : Int]
    /\ pc \in {"main", "call", "create", "switch", "return", "init", "run", "dead"}
    /\ argument \in Int
    /\ frames \in 0 .. MaxFrames
    /\ number \in Int
    /\ answers \in Seq(Answers) /\ Len(answers) <= MaxFrames
    /\ pattern \in {"none", "pub", "sub"}
    /\ currentState \in {"INIT", "EXECUTION"}

\* A file that is missing or cannot be parsed reads as one without fields.
Init ==
    /\ vendor \in Vendors
    /\ file \in File \cup {Mistyped}
    /\ options = Default
    /\ pc = "main"
    /\ argument = 0
    /\ frames = 0
    /\ number = 0
    /\ answers = <<>>
    /\ pattern = "none"
    /\ currentState = "INIT"

Goto(label) == pc' = label

\* An exception that nobody catches, or a stack that is used up.
Die == Goto("dead") /\ UNCHANGED <<setup, options, calls, pattern, currentState>>

------------------------------------------------------------------------------
(* main(): the options.                                                    *)

Given(field) == IF file[field] = Absent THEN Default[field] ELSE file[field]

FromFile == [mode |-> Given("mode"), messages |-> Given("messages"),
             manual |-> Given("manual"), listeners |-> Given("listeners")]

\* The constructor of the module: by hand, one listener is waited for.
Configured == [FromFile EXCEPT !.listeners = IF Given("manual") THEN 1 ELSE @]

\* The options, and the first call of test_patterns by cl_dds::init.
Load ==
    /\ pc = "main"
    /\ file # Mistyped
    /\ options' = Configured
    /\ argument' = Given("mode")
    /\ frames' = 1
    /\ Goto("call")
    /\ UNCHANGED <<setup, number, answers, pattern, currentState>>

\* json::value throws, outside of the try block of load_config.
LoadThrows == pc = "main" /\ file = Mistyped /\ Die

------------------------------------------------------------------------------
(* test_patterns().                                                        *)

\* A character that is no digit counts as 0.  At the end of the input the
\* character is never assigned: it may be anything.
Ask ==
    /\ pc = "call"
    /\ argument <= 0
    /\ \E n \in Answers : number' = n /\ answers' = Append(answers, n)
    /\ Goto("create")
    /\ UNCHANGED <<setup, options, argument, frames, pattern, currentState>>

TakeArgument ==
    /\ pc = "call"
    /\ argument > 0
    /\ number' = argument
    /\ Goto("create")
    /\ UNCHANGED <<setup, options, argument, frames, answers, pattern, currentState>>

\* Only the manager for OpenDDS creates a participant; the endpoints get a plain
\* pointer to it, which counts for nothing.
CreateManager ==
    /\ pc = "create"
    /\ Goto("switch")
    /\ UNCHANGED <<setup, options, calls, pattern, currentState>>

CreateManagerThrows == pc = "create" /\ vendor = "OpenDDS" /\ Die

\* The two numbers that the switch has a case for.
CreatePattern ==
    /\ pc = "switch"
    /\ \/ number = 1 /\ pattern' = "pub"
       \/ number = 2 /\ pattern' = "sub"
    /\ Goto("return")
    /\ UNCHANGED <<setup, options, calls, currentState>>

AskAgainBreak ==  \* variant: an unknown number leaves the switch
    /\ pc = "switch"
    /\ number \notin {1, 2}
    /\ Goto("return")
    /\ UNCHANGED <<setup, options, calls, pattern, currentState>>

AskAgainLoop ==  \* variant: a loop instead of a call
    /\ pc = "switch"
    /\ number \notin {1, 2}
    /\ argument' = number
    /\ Goto("call")
    /\ UNCHANGED <<setup, options, frames, number, answers, pattern, currentState>>

AskAgainFallsThrough ==  \* variant: no break behind the subscriber's case
    /\ pc = "switch"
    /\ number # 1
    /\ frames < MaxFrames
    /\ frames' = frames + 1
    /\ argument' = number
    /\ Goto("call")
    /\ UNCHANGED <<setup, options, number, answers, pattern, currentState>>

AskAgainArgument ==  \* variant: the call passes its argument on
    /\ pc = "switch"
    /\ number \notin {1, 2}
    /\ frames < MaxFrames
    /\ frames' = frames + 1
    /\ Goto("call")
    /\ UNCHANGED <<setup, options, argument, number, answers, pattern, currentState>>

\* The default of the switch: test_patterns(number).
AskAgain ==
    /\ pc = "switch"
    /\ number \notin {1, 2}
    /\ frames < MaxFrames
    /\ frames' = frames + 1
    /\ argument' = number
    /\ Goto("call")
    /\ UNCHANGED <<setup, options, number, answers, pattern, currentState>>

StackOverflow == pc = "switch" /\ number \notin {1, 2} /\ frames = MaxFrames /\ Die

\* All calls return.  Each destroys its manager, whose participant the factory of
\* OpenDDS still has.
Return ==
    /\ pc = "return"
    /\ frames' = 0
    /\ Goto("init")
    /\ UNCHANGED <<setup, options, argument, number, answers, pattern, currentState>>

------------------------------------------------------------------------------
(* The rest of Executive::init().                                          *)

\* The publisher allocates its entities: a negative number becomes a size that no
\* vector has, and resize() throws.
InitPattern ==
    /\ pc = "init"
    /\ pattern = "pub" => options.messages >= 0
    /\ currentState' = "EXECUTION"
    /\ Goto("run")
    /\ UNCHANGED <<setup, options, calls, pattern>>

\* That, or an exception of an endpoint's init (CrashInInit of PubTest,
\* CrashAtStart of SubTest).
InitThrows == pc = "init" /\ Die

TestPatterns ==
    \/ Ask \/ TakeArgument
    \/ CreateManager \/ CreateManagerThrows
    \/ CreatePattern \/ AskAgain \/ StackOverflow
    \/ Return

Next == Load \/ LoadThrows \/ TestPatterns \/ InitPattern \/ InitThrows

Spec == Init /\ [][Next]_vars

\* main() runs on one thread; a question at the menu is answered, or the input ends.
FairSpec == Spec /\ WF_vars(Next)

------------------------------------------------------------------------------
(* Properties.                                                             *)

Executing == currentState = "EXECUTION"

\* The executive calls p_pattern in each cycle without looking (dds_module.cpp:60),
\* although init allows for a null one: in the loop there always is a pattern.
PatternExists == Executing => pattern # "none"

\* A pattern runs only if the file or the menu asked for it, and no answer but 0
\* leads back to the menu: choices 3 and 4, which it offers, never come to run
\* anything, nor does any later answer.
RunsWhatWasAsked ==
    Executing =>
        LET choice == IF pattern = "pub" THEN 1 ELSE 2
            n      == Len(answers)
        IN  IF options.mode > 0
            THEN options.mode = choice /\ answers = <<>>
            ELSE n > 0 /\ answers[n] = choice /\ \A i \in 1 .. n - 1 : answers[i] = 0

\* test_patterns calls itself only to put its question again, unless the file or an
\* answer names a number that no case of its switch has: with the numbers 0, 1 and 2
\* the stack holds no more calls than answers, and one that is about to ask or to
\* take the file's mode (dds_module.cpp:84-100, 189-191).
StackGrowsByQuestions ==
    options.mode <= 2 /\ (\A i \in 1 .. Len(answers) : answers[i] <= 2)
        => frames <= Len(answers) + 1

\* The process runs or is dead in the end, whatever is answered.
Decided == <>(pc \in {"run", "dead"})
==============================================================================
