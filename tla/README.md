# indra_dds in TLA+

A TLA+ development of the DDS stress test of this repository: one publisher
process streams batches of entities over DDS, any number of subscriber
processes count what arrives, and both report. It covers the three builds of
the test (Fast DDS, OpenDDS, Cyclone DDS), the start-up of a process, the domain
and the subscriber of the `indra_dds` abstraction library, and the statistics of
the reports.

TLC checks the modules on small instances; TLAPS proves their safety properties
for all values of their constants: for any number of tests, entities, subscribers,
participants, threads and measured values.

Paths below are relative to `src/`. `ST` stands for `src/stress_test`, `FD`, `OD`
and `CD` for the `fast_dds`, `open_dds` and `cyclone_dds` directories of
`src/implementation`, `LIB` for `src/indra_dds`.

## 1. The system

```
 publisher process                                   subscriber process (xN)
 Executive -> cl_dds -> pub_test_1_to_1              Executive -> cl_dds -> sub_test_1_to_1
                         |  FastPubControl --START/STOP--> FastSubControl  |
                         |   (RELIABLE, TRANSIENT_LOCAL)                   |
                         |  FastPub --------entities-----> FastSub         |
                         |   (BEST_EFFORT, VOLATILE)                       |
      listener callbacks on DDS threads                   reader histories filled by DDS
```

`main.cpp` of either process reads a JSON file, builds one module (`cl_dds`),
which chooses a vendor (at compile time) and a test pattern (mode 1 or 2), and
runs the executive until the pattern asks for the end. The configuration in
`config/test_1to1_normal` is mode 1 (publisher) / 2 (subscriber), 100 messages
a test, 25 tests, 3 listeners, and `docker-compose.yml` starts one publisher and
three subscribers.

| Component | State | Operations | Talks to | What makes it correct |
|---|---|---|---|---|
| Executive, main loop (`ST/core/executive.*`, `ST/main.cpp`) | `currentState` | `init`, `execute_cycle` (read, write, update), `in_execution` | module, by virtual calls | the end is seen after a whole cycle; no cycle before `init` |
| Publisher test (`ST/core/tests/1_1/pub_test_1_to_1.h`, `pattern_base.h`) | `reset`, `send`, `state`, `current_cycle`, `current_cyles_reset`, `current_test`, `current_entity_id` | `init`, `read` (pause), `write` (warm-up, START, batch), `reset_test`, `finish_test`, `make_final_report` | the two writers | START 1, batch 1, STOP 1, START 2, ... in that order, `test_count` of them, then the end |
| Fast DDS writers (`FD/FastPub.hpp`, `FastPubControl.hpp`) | `matched_` of each listener, `current_id`, instances in the DDS writer | `init`, `publish`, `publish_loan`, `publish_start`, `publish_stop`, `is_matched`, callbacks | DDS | keys as the subscriber expects them, writer limits respected |
| Subscriber test (`ST/core/tests/1_1/sub_test_1_to_1.h`) | `test_active`, `current_test_id`, `expected_messages_cycle`, `current_test`, `total_lost_samples` | `init`, `read` (poll, grace cycle, run), `reset_test`, `finish_test` | the two readers | each announced test is run once, with its own parameters; what is reported as received was received |
| Fast DDS readers (`FD/FastSub.hpp`, `FastSubControl.hpp`) | reader histories, `received_ids` | `init`, `poll_control`, `run_with_loan`, `run_without_loan`, `reset_samples` | DDS | no entity counted twice, verdict VALID only for the test's own entities |
| Statistics (`ST/stats/Distribution.h`, `TestValidation.h`) | `_values` | `addValue`, `stdDev`, `localJitter`, `mode`, ... | both tests | the numbers are what their names say |
| DDS module, factories (`ST/core/dds_module.*`, `ST/DDSFactory.h`, `ST/DDSParticipantManager.h`) | chosen pattern | constructor, `init`, `test_patterns`, `read/write/update` | executive, pattern | the configured pattern is the one that runs |
| OpenDDS build (`OD`) | as Fast DDS, and one participant shared by the endpoints of a process | as Fast DDS; `publish_loan` and `run_with_loan` are not implemented | DDS | as Fast DDS |
| Cyclone build (`CD`) | writers only, readers are stubs | as Fast DDS | DDS | as Fast DDS |
| RTI build (`src/implementation/rti_dds`) | none, stubs | - | - | - |
| Ping-pong pattern (`ST/core/patterns/ping_pong_pattern.h`) | - | not compiled | - | - |
| Library: domain and participants (`LIB/FastDDS/FastDomain.*`, `Participant/*`, `LIB/Core`) | vector of `unique_ptr`, `enabled`, `qos_`, the factory's default QoS | create, remove, enable, disable, `reset`, `close`, QoS edits | the DDS factory | no null or dangling element is used; nothing is destroyed while enabled |
| Library: subscriber (`LIB/FastDDS/Subscriber/*`, `LIB/Utils/Multithreading/ThreadSafeQueue.h`) | `started_`, queue, mutex | `start`, `stop`, `read_next`, `on_data_available` | DDS thread, threads of the application | each sample is handed out once, in order; what passes a `stop()` is bounded |

`PROJECT.json` lists the rest (interfaces, generated types, the vendor's
example, configuration, tools and vendored libraries).

### What is hard

* **Interleaving without a clock.** The processes only share the two topics. A
  cycle lasts at least 10 ms; nothing bounds it from above. The grace cycle that
  the subscriber gives the publisher is one of the subscriber's own cycles.
* **Two topics, no order between them.** START/STOP are reliable and late
  joiners get all of them; entities are best effort, volatile and keep-last-1
  per key. Both topics use their own participants, so their matches come at
  different times.
* **Flags spread over calls.** The publisher's progress is in two flags, a state
  and two cycle counters, set in different calls of different cycles, and one
  flag (`reset`) has no initial value.
* **Stale data.** Keys restart with each test in Normal mode, the reader is not
  drained between tests, and an entity does not say which test it belongs to.
* **Partial failure.** A failed `init()` is printed and ignored; `publish` throws
  to the top, `publish_loan` gives up silently; `main` returns right after the
  last STOP.
* **Callbacks.** The listeners change the match counters between any two calls of
  the main thread; in the library a listener thread and the application share a
  queue.
* **Three builds behind one interface.** Their writers differ in what they count
  as a match, in what `init()` leaves behind when it fails, and in what they do
  not implement; the test patterns do not know.
* **Start-up by recursion.** `test_patterns` calls itself for a number it does not
  know, with that number as the argument: from the file, from the menu, which offers two
  such numbers, or from a character that was never assigned.

Each of these is a row of `hazards` in `PROJECT.json`, at the line where it bites,
with the properties that would catch it.

## 2. Modules

| Module | Models | Role |
|---|---|---|
| `Setup` | which build runs, and the publisher's process type | chosen by `Init`, shared by the two programs |
| `Writers` | the data and control writers of the three builds, with their listeners | component, extended by `PubTest` |
| `PubTest` | executive loop and publisher test, on the writers | component |
| `SubTest` | executive loop, subscriber test and the readers of the three builds, for a set of subscribers | component |
| `TestRun` | the sequence in the comment `pub_test_1_to_1.h:125-129` | abstract specification: announce, stream, stop, test after test |
| `TestSeries` | the publisher of `TestRun` and the subscribers that follow it | abstract specification of the whole system |
| `StressTest` | `PubTest` and `SubTest` with discovery, delivery, loss and departure between them | composition |
| `Startup` | `main`, the constructor of `cl_dds`, `test_patterns`, the participant manager | component: a process up to its first cycle |
| `ThreadSafeQueue` | the queue of the library | abstract specification |
| `FastSubscriber` | the library's subscriber between listener and application threads | component, implements `ThreadSafeQueue` |
| `FastDomain` | domain and participants of the library | component |
| `Distribution` | the list of values and its statistics | algorithm against reference definitions |
| `MCStressTest`, `MCStartup` | - | model values, symmetry and sets for TLC |
| `PubTest_proofs`, `PubKeys_proofs`, `StressTest_proofs`, `Startup_proofs`, `FastSubscriber_proofs`, `FastDomain_proofs`, `Distribution_proofs` | - | theorems |

Correspondence, module by module (`PROJECT.json` `map` gives the lines of every
definition):

**Setup.** A program is compiled for one vendor (`ST/DDSFactory.h`) and both
programs of a system for the same one. `vendor` and `processType` are variables
that `Init` chooses and nothing changes, so one run covers all combinations.

**Writers.** An operator of each build (`FastIsMatched`, `OpenIsMatched`,
`CycloneIsMatched`, ...) and one that selects it, as `DDSFactory` does. What is
particular to each build:

* Fast DDS: the data writer counts readers that ever matched, the control writer
  those that are there.
* OpenDDS: both count those that ever matched; nothing sets the number that the
  control writer compares with, so it always counts as matched, even without a
  writer. `publish_loan` writes nothing and reports success.
* Cyclone: the listener is attached to nothing and `is_matched` reads another
  counter; the control writer is never made, because `init()` hands the
  participant's handle to `Topic` as a domain's number.

`Accepted` is the writer's instance limit, which DDS may enforce when it is exceeded
or evade by reclaiming an instance. A sample is reduced to its key and the number of
the batch it was written in, which the real entity does not carry and no modelled
code reads. `control` and `data` are logs of the two topics.

**PubTest.** `exec` is `Executive::currentState`; `phase` is the virtual call that
comes next, or `"stopped"` when the process has returned from `main` or died.
`reset`, `send`, `state`, `warmUp` (`current_cycle`), `cyclesReset`, `curTest`,
`entityId` are the members of the pattern. `Read` is `read()` with the `reset_test`
and `finish_test` it calls (in one step: nothing else touches that state);
`WriteSkip`, `WriteWarmUp`, `WriteAnnounce`, `WriteNormal` and `WriteLoan` are the
paths through `write()`. `write()` samples the match counters once; callbacks run
between calls. The process dies in `CrashInInit` (`FastPubControl::init` calls
`get_qos()` on the publisher before it checks it, the other builds throw), in
`WriteAnnounceCrash` (OpenDDS, no control writer) and when a refused entity ends a
Normal batch with an exception nobody catches: `phase` becomes `"stopped"`.

**SubTest.** One function per variable, over `Subs`. `Poll`, `BeginTest`, `Take`
and `FinishRun` are the paths of `read()`: the run is cut into its takes because
entities arrive between them. `results` has one record per call of `finish_test`, with
the number of entities the run was measured by (`Expected`). In the Fast DDS build that
is what `read()` set; in the OpenDDS build it is 0, because `OpenSub` has a member of the
same name that hides the one that is set (`OpenExpected`).
`CrashInPoll` and `CrashInRun` are calls on a reader that `init()` failed to
create, or OpenDDS's `run_with_loan`, which throws; `CrashAtStart` is the OpenDDS
participant manager without a participant. The Cyclone readers are stubs: no
control message is ever polled and no test begins.

**StressTest.** `LinkData`, `LinkControl` are a discovery, seen by the publisher's
listener in the same step; `UnlinkData`, `UnlinkControl` the departure of a
subscriber whose process has ended. One that crashes is never missed because the
lease duration is infinite. `DeliverControl` passes the messages in order from the
first (TRANSIENT_LOCAL); `DeliverData` and `LoseData` move a subscriber through the
entities written after its match (VOLATILE, BEST_EFFORT).

**Startup.** `pc` is the place in `main` and the calls below it, `argument` and
`number` those of the innermost call of `test_patterns`, `frames` the calls that have
not returned. `AskAgain` is the `default` of its `switch`, a call that passes
`number` on: 0 leads back to the menu, anything else to itself until the stack is
used up (`StackOverflow`). What an exhausted input leaves in the uninitialised
character is any answer. `CreateManager` only tells an OpenDDS process whose participant
was created from one that throws; who owns that participant afterwards is not in the model
(section 6). The endpoints' own creation is in `PubTest` and `SubTest`; here the
executive's `init` either reaches the loop or throws.

**FastSubscriber.** `pc` is where each thread is in `read_next`, `stop` or
`on_data_available`; a thread waits for the mutex (`Waiting`), is inside (`Inside`) or
idle. Copying the front and removing it are two steps. `got`, `taken` and `before`
are histories for the properties. The DDS reader has the default QoS, KEEP_LAST 1: a
new sample or a disposal replaces what it holds for the instance. `started_` is read
by no code, and nobody waits for `cond_`. The class is a template that no code of the
repository instantiates, and that none could as it stands: `update()` is declared and has
no body. The model is of the operations that do have one, for the class that it would be
once `update()` is written.

**FastDomain.** A caller may call every public method at any time, those that change the
default QoS included: `DomainInit`, `ChangeDefaultQos` and `ChangeInitialQos` are one
`ChangeQos` with different values, and `Reset` begins with the last of them. A QoS is
named by where it comes from: default-constructed (`"initial"`), set by `init()`
(`"indra"`), set as default by the caller (`"custom"`), or applied to one participant
(`"own"`, one of the two overloads of `apply_qos`). `defaults` is a history: the defaults
in force since the last `reset()`. `Kept` and `Slot` are what `std::remove_if` makes of a vector of
`unique_ptr`: what is kept moves to the front, and the slot behind it still holds the
removed element if that was the last, or is null. One element is taken out, because
no two `unique_ptr` own the same participant (`VectorInv` of the proofs).
Destroying an element does not run `~FastParticipant`, because `IParticipant` has
no virtual destructor, so `entities` never shrinks. A fault (null call, missing
DDS participant, dangling QoS pointer) ends the process and is a value of
`status`.

**Distribution.** Doubles are whole ticks, quotients are exact fractions and a
deviation is represented by its square. The definitions follow the code's loops, each
of which is a recursive function of the number of turns made (`RunningSum`,
`RunningMin`, `RunningMax`, `RunningMode`); the properties use a formula over all pairs
of values, without a mean.

## 3. Properties

| Property | Says |
|---|---|
| `ControlAlternates` | the control topic carries START 1, STOP 1, START 2, ...: none twice, skipped or misnumbered |
| `BatchPerTest` | every batch is written between the START and the STOP of its test |
| `NormalKeys` / `LoanKeys` | Normal: every batch has keys 0..n-1 of its own test; Loan: no key is used twice in a whole run |
| `EndsAfterAllTests` | the end is requested when all tests are announced, streamed and stopped, and not before |
| `RunSpec` | the publisher implements `TestRun` |
| `PublisherEnds` | with both writers matched for good, the publisher's process ends |
| `EndComesCloser` | no call and no callback adds a cycle to the run; with both writers matched each call brings its end closer |
| `RunsInOrder` | a subscriber runs each announced test at most once, in order, and measures it by the number of entities announced with it (but for OpenDDS, which measures by 0, see `open_valid`) |
| `EndsWithEveryTest` | with equal `test_count`, a subscriber that ends has run every test |
| `SkippedForGood` | a test whose START and STOP were found by one poll is never run |
| `SeriesSpec` | publisher, subscribers and DDS implement `TestSeries`: each subscriber goes through the tests in order, runs the one whose START it found last, once, and ends exactly with the run that completes `test_count` |
| `WaitsForSubscribers` | the first START is written only while `listener_number` entity readers are connected |
| `NotOvercounted` | a subscriber never reports more entities received than were written since it joined (Fast DDS; `OpenSub` reports all as received, see `open_valid`) |
| `SubscribersEnd` | a subscriber ends after the publisher, unless it skipped a test, crashed, has no control reader, or the publisher was gone before its last START arrived |
| `PublisherGetsDone` | the publisher ends, whoever leaves or crashes, if every endpoint was created and no subscriber left in the last test before the batch of that test |
| `PatternExists` | the executive never calls a pattern that was not created |
| `RunsWhatWasAsked` | the pattern that runs is the one of the file or of the first answer other than 0 |
| `StackGrowsByQuestions` | `test_patterns` calls itself only to put its question again, unless the file or an answer names a number its `switch` has no case for |
| `Decided` | the start-up ends: the process runs or is dead |
| `QueueSpec` | queue and mutex of the library's subscriber implement `ThreadSafeQueue` |
| `InOrder` | `read_next` hands out the samples of an instance in the order they were written, none twice |
| `StopBoundary` | of what was taken before a `stop()`, at most one sample is queued after it |
| `LockReleased` | a thread that has the mutex gives it back |
| `EnabledAreListed` | the domain destroys no participant while it is enabled |
| `QosSinceReset` | a `reset()` leaves nothing behind: a listed participant has a QoS that was the default since the last one, or that was applied to it by itself |
| `StdDevIsSampleDeviation`, `JitterIsDeviationOfDeltas`, `ModeIsMostFrequent` | the numbers in the report are what their names say |
| `ReportIsConsistent` | the lines of one report fit together: mode and mean between minimum and maximum, no deviation beyond their distance |

The properties of the violation runs are listed with them in section 4
(*Where code and comments disagree*).

Each module with a state also has one type invariant. That of `FastDomain` says
in addition that no element of the vector is null while the process lives.

## 4. Runs

| Run | Config | Bounds | Distinct states |
|---|---|---|---|
| `pub` | `PubTest.cfg` | all builds and process types, 3 tests of 2 entities, offsets 5 and 50, at most 2 matches, 1 instance, with liveness | 23 052 |
| `stress_one` | `StressTest_one.cfg` | all builds and process types, 1 subscriber, 2 tests of 2 entities, 3 instances, offsets 1, with liveness | 56 331 |
| `stress_two` | `StressTest_two.cfg` | the same with 2 interchangeable subscribers that the publisher waits for, 2 tests of 1 entity, 1 instance, safety | 1 400 500 |
| `startup` | `Startup.cfg` | all builds, modes -1 to 3, any field missing or mistyped, answers 0 to 4, 3 calls on the stack, with liveness | 23 334 |
| `library_sub` | `FastSubscriber.cfg` | 2 application threads and the listener, 2 instances, 3 samples or disposals, with liveness and deadlock | 130 710 |
| `domain` | `FastDomain.cfg` | 3 participants, every default QoS of the caller's as one value | 690 696 |
| `statistics` | `Distribution.cfg` | all lists of up to 5 values of {0, 1, 2, 4} | 1 365 |
| `grace`, `listeners`, `stale` | `StressTest_*.cfg` | Fast DDS, Normal mode, otherwise as `stress_one` | counterexamples |
| `open_valid` | `StressTest_open.cfg` | OpenDDS, Normal mode, otherwise as `stress_one` | counterexample |
| `domain_remove` | `FastDomain_remove.cfg` | 2 participants | counterexample |

Why the bounds are enough:

* Two tests show every transition between tests (first to second, last to end);
  three in the publisher's own runs add a test that is neither first nor last.
* `PubTest` uses the real offsets 5 and 50, so that the pause an uninitialised
  `reset` starts is played against the real warm-up. The composition uses 1 and 1,
  the shortest that satisfies `WarmUpAssumption`; the proofs cover the rest.
* Two entities a batch distinguish a full, a partial and an empty batch. Instance
  limits of 1 and 3 against 2 keys in Normal and 4 or 6 in Loan mode make the writer
  refuse in the first batch, in a later one, or never. With the real limit of 200 and 100 messages, Normal
  mode is below the limit and Loan mode meets it in the third test.
* `MinSubs` is 0 in `pub`: only then does the OpenDDS build go on without a match, and
  reach its null reference; in the composition it is the number of subscribers.
* `MaxMatches` bounds how often endpoints match; it is one per subscriber in the
  composition (no subscriber is restarted there).
* Three calls on the stack show a first, a middle and a last one; modes -1, 0, 1, 2
  and 3 are a negative number, the menu, the two patterns and an unknown one.
* Two threads can both be inside `read_next` and `stop`, or one of each; three samples
  are one in the reader, one in the listener's hands and one in the queue, and two
  instances let DDS present them in another order than they were written.
* A participant removed from first, middle and last place needs three of them.
* Five values have three or more deltas, ties for the mode and repeated values;
  the tick 4 makes deltas of 1, 2, 3 and 4.

Deadlock is checked in `library_sub`, whose application may always call again. It
is off in the other runs: the processes of the system stop, a start-up ends, a list
of values is full, and a process that has faulted takes no further step.

Operators whose comment starts with "variant" are near misses of the definition
that follows them; they show which mistake each property would catch.

### Fairness

* `WF(Main)`, `WF(PublisherStep)`, `WF(SubscriberStep(s))`: a main thread never
  waits for anything. The executive sleeps at most 10 ms in a cycle and no call of
  the patterns blocks without limit.
* `WF(LinkData)`, `WF(LinkControl)`: DDS discovery repeats its announcements, and
  the lease is infinite.
* `WF(phase # "stopped" /\ DeliverControl(s))`: RELIABLE delivery repairs a loss as
  long as the writer lives, and no longer: `main` returns after the last STOP
  without waiting for acknowledgements.
* `Startup`: `WF(Next)`, one thread; a question at the menu is answered or the input
  ends.
* `FastSubscriber`: `WF(AppStep(t))`, `WF(ListenerStep)`: a thread inside an operation
  goes on. Weak, because `std::mutex` promises no order among those who wait: a
  thread may be overtaken for ever, so no property says that a call returns. None for
  calls of the application.
* None for entities (BEST_EFFORT) or departures.

### Where code and comments disagree

* `grace`: one cycle of grace (`sub_test_1_to_1.h:85`) does not make the batch
  precede the run. A subscriber can finish a whole test before its batch is
  written.
* `stale`: such a late batch stays in the reader, and since keys restart with
  each test and `reset_samples()` does not drain the reader, the *next* run is
  found VALID on it.
* `listeners`: `matched_` in `FastPub` is `total_count`, i.e. readers that ever
  matched, while the comment speaks of those listening. `FastPubControl` counts
  up and down.
* `domain_remove`: `remove_participant` of any but the last element calls
  `disable()` on a moved-from pointer.
* `open_valid`: `OpenSub` expects 0 entities of every test, and finds every run VALID.

More are visible in the shape of the modules without a run. `localJitter()` of two
values divides zero by zero, where `stdDev()` has a guard (`LocalJitter`).
`config/test_params.txt` says of `mode` "0 = Manual, 1 = Auto", where 0 is the menu, 1
the publisher and 2 the subscriber (`Ask`, `CreatePattern`). The menu offers choices 3 and
4 (`ST/core/dds_module.cpp:87`), which use up the stack (`AskAgain`). In `FastDomain`:
`reset()`, which is documented to delete all participants (`LIB/Core/IDomain.h:35`), deletes
no DDS participant (no action takes anything from `entities`); and `apply_qos()` without an
argument, which is documented to apply what was changed through `qos()`
(`LIB/FastDDS/Participant/FastParticipant.h:46`), applies a default-constructed QoS
(`EditQos`, `ApplyQos`).

`SubscribersEnd` names the two ways in which a subscriber waits for ever:
`MissedTest`, when one poll finds a START with its STOP behind it and keeps only
the last, so the subscriber stays a test short of `test_count`; and `Deserted`,
when the publisher exits before its last START has arrived. The last STOP may be lost
without harm, as it ends no run. `PublisherGetsDone` names the way in which the publisher
does: a subscriber has run the last test before that was streamed and left
(`LeftInLastTest`), so that `write()` waits for a match in the middle of the test.
Everything else that may stop it is a failure of `init()` (`InitFailed`: a writer or a
reader that was not created, or a process that died there); a departure at any other
point and a crash in a run are not excused. That a batch refused in Normal mode kills the
publisher is no case of this run, whose three instances hold the keys of a Normal batch.

## 5. Proofs

Seven modules prove safety for all values of the constants: every property of section 3
other than liveness.

| Theorem | Statement | From the assumptions |
|---|---|---|
| `PubTest_proofs` `TypeCorrect` | `Spec => []TypeOK` | `CountsAssumption`, `WritersAssumption`: the parameters are natural numbers |
| `Alternation` | `Spec => []ControlAlternates` | and `WarmUpAssumption`: `OffsetCyclesReset <= OffsetCycleStart` (5 and 50, constants of the class) |
| `BatchesInTests` | `Spec => []BatchPerTest` | the same |
| `EndsLast` | `Spec => []EndsAfterAllTests` | the same |
| `ImplementsTestRun` | `Spec => RunSpec` | the same |
| `EachCallCounts` | `Spec => EndComesCloser` | the same |
| `PubKeys_proofs` `LoanKeysIncrease` | `Spec => []LoanKeys` | the same |
| `NormalKeysInOrder` | `Spec => []NormalKeys` | the same |
| `StressTest_proofs` `PublisherInSystem` | `StressSpec => Spec` | none |
| `SystemImplementsTestRun` | `StressSpec => RunSpec` | those of `PubTest_proofs` |
| `StressTypeCorrect` | `StressSpec => []StressTypeOK` | and `SubMaxTestAssumption`: the subscribers' `test_count` is a natural number; `VendorsAssumption` |
| `SubscribersRunInOrder` | `StressSpec => []RunsInOrder` | the same |
| `EndsAfterEveryTest` | `StressSpec => []EndsWithEveryTest` | the same |
| `NoEntityCountedTwice` | `StressSpec => []NotOvercounted` | the same |
| `SkippedStays` | `StressSpec => SkippedForGood` | the same |
| `ImplementsTestSeries` | `StressSpec => SeriesSpec` | the same |
| `FirstStartAwaitsSubscribers` | `StressSpec => WaitsForSubscribers` | the same |
| `SkippedNeverEnds` | `StressSpec => [](MissedTest(s) => [](sExec[s] # "END"))` | and `SubMaxTest = MaxTest`: both files give the same `test_count` |
| `FastSubscriber_proofs` `TypeCorrect` | `Spec => []TypeOK` | `ThreadsAssumption`: the listener is no thread of the application; `SentAssumption` |
| `ImplementsQueue` | `Spec => QueueSpec` | the same |
| `HandedOutInOrder` | `Spec => []InOrder` | the same |
| `OneCrossesStop` | `Spec => []StopBoundary` | the same |
| `FastDomain_proofs` `TypeCorrect` | `Spec => []TypeOK` | `NullAssumption`: null is no participant's address |
| `DisabledBeforeDestroyed` | `Spec => []EnabledAreListed` | the same |
| `NoStaleQos` | `Spec => []QosSinceReset` | the same |
| `Startup_proofs` `TypeCorrect` | `Spec => []TypeOK` | the named assumptions of `Startup`: types of the fields, digits as answers |
| `AlwaysAPattern` | `Spec => []PatternExists` | the same |
| `AsAsked` | `Spec => []RunsWhatWasAsked` | the same |
| `OnlyQuestionsRecurse` | `Spec => []StackGrowsByQuestions` | the same |
| `Distribution_proofs` `StdDevIsRight` | `Spec => []StdDevIsSampleDeviation` | `TicksAssumption`: values are whole numbers of ticks, negative ones allowed |
| `JitterIsRight` | `Spec => []JitterIsDeviationOfDeltas` | the same |
| `ModeIsRight` | `Spec => []ModeIsMostFrequent` | the same |
| `ReportFitsTogether` | `Spec => []ReportIsConsistent` | the same |

Each module has its `Invariance` theorem, `Spec => []IInv` (`StressInvariance` in
`StressTest_proofs`, two invariants of their own in `PubKeys_proofs`), from a lemma for
the initial state and one for each step. In `Distribution_proofs` the invariant is no more
than the type of the list (`ListInvariance`): what is hard there is the arithmetic.

### The publisher

The inductive invariant `IInv` is the conjunction of

* `TypeOK`;
* `BeforeInit`: until `Executive::init` nothing has been written or counted, and
  the next call is not `write()`, so the process can only die there;
* `InStep`: state, flags and topics agree: *announcing* test k+1 with 2k control
  messages and k batches; *streaming* it with one more START, `send` set and
  `reset` clear; or *pausing* after it, with `send` clear and one more batch.
  `ControlAlternates` alone is not inductive: whether the next message is a START
  or a STOP depends on state and flags;
* `SpuriousPause`: while the first test is being announced with `reset` set, the
  warm-up counter does not run ahead of the pause counter. This is what excludes
  that the pause started by an uninitialised `reset` is still open when the
  publisher goes on to stream, and would write a STOP for a test that was not
  streamed. The bound `cyclesReset <= OffsetCyclesReset <= OffsetCycleStart` then
  does the rest (step `<2>4` of `InvWrite`). A warm-up shorter than the pause
  breaks it;
* `TestCount`: fewer than `NumTests` tests are over until the end is requested,
  exactly `NumTests` afterwards, and no `read()` follows the end. Without the last
  part a further cycle could begin one more test;
* `ControlAlternates`.

Each call of the main thread is a lemma (`InvExecInit`, `InvRead`, `InvWrite`),
everything that leaves the flags and topics alone goes through `InvFrame`
(callbacks, `update()`, a crash), a completed batch in either mode through
`InvStreamed`. `ImplementsTestRun` maps `announced`, `streamed` and `stopped` to
`(Len(control) + 1) \div 2`, `cpuTimes` and `Len(control) \div 2`; `RunStep` shows
that a START, a completed batch and a STOP are the abstract steps and all others
stutter.

`EachCallCounts` is the half of `PublisherEnds` that is about the code and not about the
scheduler. `CyclesLeft` adds up the passes of the executive that the flags and counters
still stand for, at the start at most
`1 + OffsetCycleStart + NumTests * (2 * Pause + 2)` with `Pause = OffsetCyclesReset + 1`
(93 for the offsets of the code and three tests); `Measure` counts the calls within a
pass too. The theorem says that nothing ever adds a pass, not even a subscriber that
comes and goes, and that each call takes something off `Measure` as long as both writers
are matched. One more invariant is needed, `NeverMute`: between `init()` and the end,
`send` or `reset` is set. `IInv` gives the rest: that a batch is streamed only outside a
pause, and that the pause after it leads to a STOP. There is one lemma per call
(`InitCloser`, `ReadCloser`, `WriteCloser`, `OtherCloser`). That the main thread keeps
making calls is the fairness of `FairSpec`; with it, a natural number that must go down
makes the process end.

`PubKeys_proofs` adds two invariants to `IInv`. `LoanInv`: every key written is below
`current_id`; `LoanKeys` alone does not say what the next batch will use. `NormalInv`:
while the process lives, the topic holds exactly `Messages` entities for each batch
counted, and the id counter is 0 whenever a batch may come next. The lemma about one
batch (`LoanPublishes` and its Normal counterpart) covers a refused loan, a refused
write and a batch cut short by an exception.

### The stress test

Every step of the system is one of the publisher's, a callback of one of its
listeners, or leaves its variables alone (`PublisherTakesPart`). So all that is proved
of `PubTest` holds in the system, with any number of subscribers that join, leave and
crash. `StressInv` adds to `IInv`, for each subscriber s, the types (`SubTypes`) and
`SubInv(s)`:

* `InboxInv`: the control reader holds the stretch of the control topic between what
  `poll_control` has taken (`Polled`) and what has arrived. With `ControlAlternates` the
  last message of a poll is then the one that the publisher's schedule foresees at
  that place (`LastIsScheduled`), and a START exactly at the odd ones;
* `ActiveInv`: an active test is the one whose START was polled last, and a run is only
  under way for an active test;
* `ResultsInv`: the runs are of tests polled, each later than the one before by at least
  the distance in the list, and all before the active one. `RunsInOrder` compares two
  runs only and is not inductive: it is the poll that decides, long before the run
  ends, that the next test is a later one. The distances carry `EndsWithEveryTest`:
  n runs among the tests 1 to n with no room for a gap are 1, 2, ..., n;
* `CountInv`: the number of runs in each state of the executive;
* `EntitiesInv`: what earlier runs counted, what the current run has and what the reader
  holds add up to no more than what has reached the subscriber. `NotOvercounted` is its
  first term alone. The steps that move an entity from one term to the next are
  `NextEntityStep` (an entity may push out one with its key, so the reader gains at most
  one), `TakeStep`, and `FinishRunStep`, where `IdsOfReceived` says that a run has at
  most as many ids as entities.

One lemma for each action of a subscriber, of discovery and of delivery says what it
does to its own subscriber and that it leaves the others alone (`Untouched`); `SubKept`
says that a subscriber that is left alone keeps its invariant while the topics grow
(`TopicsGrow`: nothing is taken back from a topic).

`SkippedForGood` follows from `Advance` (what was polled stays polled, and only the end of
a run adds one, of the active test) and `ActiveInv`. Together with
`EndsWithEveryTest` it says that a subscriber with the publisher's own `test_count` that
finds a START with its STOP behind it in one poll never ends (`SkippedNeverEnds`): the
exception `MissedTest` in `SubscribersEnd` is no weakening of convenience.

`ImplementsTestSeries` maps the two sides of the system to `TestSeries`: the topics to the
counters of `TestRun` (`RunStep` of `PubTest_proofs` serves again); of each subscriber, what
it has polled to `seen`, the active test to `current`, the verdicts to `runs`. A poll is a
`PickUp` or a `Drop` (`PollFollows`: the last message found is the one the publisher's
schedule foresees at that place, so it is of a later test, or the STOP of one that is over),
the end of a run is a `Report` (`FinishRunFollows`), and everything else is a step of the
publisher or a stutter: a message that arrives lengthens the reader's history by what it
takes from the topic (`ArrivalUnseen`).

`WaitsForSubscribers` needs `LinkInv`: as long as nothing is announced, `matched_` is no
more than the number of readers that are connected. It is not so afterwards, which the run
`listeners` shows; but nobody can leave before the first START, because a subscriber ends
with a run and a run takes a START (`NoneEndedYet`). Connected is meant as DDS means it: a
subscriber whose process has crashed stays connected for the infinite lease.

### The domain

`IInv` is `TypeOK`, `EnabledAreListed`, `QosSinceReset`, `defaultQos \in defaults` and
`VectorInv`. The fourth is what makes `QosSinceReset` inductive: a new participant takes the
default of the moment, which may be older than any call since the `reset()`, because the
factory may refuse a change. `VectorInv` says that the vector holds each participant once, and only such as were given out. `VectorInv` is what makes `remove_if`
take out one element and nothing else (`KeptIsTheRest`), so that the vector loses exactly
the participant that was disabled: the slot behind what is kept is that participant's or
null, never another's (`FirstSlotBehind`). It does not hold once `remove_participant` has
faulted, when null may be in the vector several times.

### The library's subscriber

`IInv` is `TypeOK`, `MutexInv` (a thread is inside one of the operations exactly if it
owns the mutex) and `HandsInv` (between its two steps `read_next` holds a copy of what
is still the front; the listener holds one sample from the take to the push and none
otherwise). It is enough for `ImplementsQueue`: `ReadPop`, `PushSample` and
`StopClears` are `TryPop`, `Push` and `Clear`, and all other steps stutter.

`FlowInv` says where the samples of an instance are. `OrderInv` orders what was
handed out, what is queued and what the listener holds, in this order; `ReaderInv`
places everything taken before what the reader still holds; `StopInv` bounds what `before` and the queue have in common by what the listener
has in its hands. `InOrder` and `StopBoundary` are consequences, and not inductive:
both are decided when a sample leaves the reader, several steps before they could
be broken.

### The start-up

`IInv` is made of what is known at each place of `main`: the options are the defaults until
the file is read (`OptionsInv`); with a mode in the file nothing is read and the number never
changes from call to call (`ModeInv`); without one, a call that will ask has seen only
zeros, a call with an argument of 1 or 2 does not exist, and a number that would
choose a pattern is the last answer (`AskInv`); and the pattern created is that of the
number (`PatternInv`). `TypeCorrect` needs `StackInv` besides: no more answers have been read
than calls are on the stack, and one fewer where the next is asked for.
`OnlyQuestionsRecurse` needs the other direction, `QuestionsInv`: while the file and all
answers name numbers up to 2, a call without a mode in the file asks before it can call
again, because the argument that `AskAgain` passes on is then 0.

### The statistics

The properties compare what loops compute with formulas over the whole list, for lists
of any length, so they need induction over the number of turns. The theorems of the
library take the induction hypothesis as an operator, which the provers cannot
instantiate; here it is a set. `Induction` says that a set with 0 that contains n
whenever it contains n - 1 contains 0 .. N, and follows from `LeastElement`: the smallest
turn outside the set would be no turn. `LoopDefined` uses it to show that a recursive
function of this form exists, which is what opens the definitions of `RunningSum`,
`RunningMin`, `RunningMax` and `RunningMode`.

* *Deviation.* `PairsSum` proves, value by value, that the squared differences of all
  pairs of k values add up to k times the sum of the squares less the square of the sum.
  `SumOfDiffs` gives the code's own sum, with its mean, the same form, so
  the two agree up to the factor k (`DiffsArePairs`, `DeviationOf`). The same lemma
  serves the values (`StdDevIsRight`) and the distances between them (`JitterIsRight`).
* *Mode.* `ModeIsBest`: after n turns the best value so far is at least as frequent as the
  first n values of the order of iteration, and is one of the list; `OrderIsComplete` says
  that an order of iteration meets every value of the list.
* *The report.* `MinIsLeast` and `MaxIsLargest` place all values between the two;
  `SumBetween` bounds the mean, `DeviationBound` the deviation (each pair differs by no
  more than the range), and `NoDeviation` with `ZeroSum` says that without deviation all
  values are equal.

### Only model-checked

* Liveness (`PublisherEnds`, `SubscribersEnd`, `PublisherGetsDone`, `Decided`,
  `LockReleased`): fairness and ENABLED are out of the prover's reach. Of
  `PublisherEnds`, `EndComesCloser` is the part that can be proved.

## 6. Not modelled

* The **ping-pong pattern** is not compiled and calls `pub.publish()` and
  `sub.run()`, which no class has any more.
* **RTI** is a stub that `test_patterns` has no case for.
* **Cyclone's `publish` and `publish_loan`** are not reached: the control writer is
  never made, so no test is announced.
* **Destructors of patterns and endpoints**: `p_pattern` is never deleted; the process's
  exit is what takes the endpoints down (`UnlinkData`, `UnlinkControl`).
* **The library's interfaces and wrappers** (`FastPublisher`, `FastTopic`, `IEntity`, ...)
  have no behaviour of their own; the publishers and topics a participant stores are
  removed by nothing; `create_sub` returns null.
* **The executive's module list**: `main` adds one module, so the check for duplicates
  never applies.
* **`TestValidation`** and the printed layout of the reports: a quotient of two doubles
  and output.
* **Generated types, the vendor's example, vendored DDS libraries**, which are nearly
  all of the files of the repository: DDS is modelled from how the code configures and
  uses it.
* **A control message that is not written.** `publish_start` and `publish_stop` return
  false when the write fails, and the pattern looks at neither result
  (`pub_test_1_to_1.h:166`, `217`). In the model a START or STOP is always appended
  (`StartMsg`, `StopMsg`): the writer is RELIABLE with KEEP_LAST 1000
  and no limit on instances or samples (`FastPubControl.hpp:55-65`,
  `OpenPubControl.hpp:99-111`), and a history of this kind replaces its oldest message
  rather than refuse one. A failure of DDS itself, in which `ControlAlternates`, `BatchPerTest` and
  `RunSpec` would not hold, is assumed away; it is a hazard without a property.
* **`FastSub`'s preallocated samples.** `run_without_loan` writes to elements of two
  vectors that were reserved for 1000 elements and never resized (`FastSub.hpp:191`, `290`):
  past `size()` always, past the storage with more than 1000 expected entities. The model
  takes each sample into storage that is there.
* **The owner of the OpenDDS participant.** The manager that creates it is destroyed when
  `test_patterns` returns, and the endpoints keep a plain pointer to the participant. That
  it lives on rests on the factory of OpenDDS, which keeps a reference of its own; the
  model assumes it.
* Timing: durations, thread affinity and the values measured. A cycle is a step.
* Restarted processes: nothing is persisted, and a restarted subscriber is a new
  one with a second match (`listeners` covers what that does to the count).

## 7. Plan

1. **The rest of FastDomain**: the publishers and topics that a participant stores, with
   the theorems carried over.
2. **Restarted subscribers** in the composition: a second match of the same process,
   whose control reader gets all messages again. `ResultsInv` then holds for each life of
   a subscriber, `EntitiesInv` from its last match on.
