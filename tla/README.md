# TLA+ models of hegel-cpp

hegel-cpp is the C++ front end of a property-based tester. An engine (libhegel,
of which the repository has only the C header) chooses the data, searches for
failures and shrinks them; the code here runs test bodies, turns draws into
values, runs stateful tests on several threads and reports failures. The models
cover the parts of this code that keep state and whose order of steps matters.
The engine is external to every module: it gives *any* answer
`libhegel/hegel.h` allows, so what is checked does not depend on its choices.

Paths below are relative to the repository root; in `PROJECT.json` they carry
the prefix `src/`.

## 1. Inventory

| Part | Code | State | Operations | What is hard | Model |
|---|---|---|---|---|---|
| Concurrent stateful test | `stateful.h` `run_concurrent` | `RoundState` (mutex, two condition variables, round number, stop flag, completed count, one event per worker), thread handles | start workers, open a round, wait, apply rules, report, collect, check invariants, stop, join | interleavings, lost and spurious wakeups, exceptions on several threads, thread creation failing half-way | `ConcurrentRounds` refines `Rounds` |
| Sequential stateful test | `stateful.h` `run` | current group, steps run, the engine's span stack | group, rule, draw, reject, fail, print, check | rejections and failures at any depth of a draw; invariants only sampled | `StatefulRun` refines `Rounds` |
| One call of `test()` | `hegel.cpp`, `gtest.h` | counters, nondeterminism flag, captured failure, recorded assertions | next case, body, complete, verdict, replay, report, blob | failures that do not replay, nondeterministic runs, assertion records outliving an exception | `TestRun` refines `PropertyTest` |
| Variable pools | `stateful.h` `Pool`, `ConcurrentPool` | client map of values, engine pool of identifiers, mutex | add, draw, consume, size | two copies of one fact; moves and copies that throw | `ConcurrentPool` refines `Pool` |
| Origins of failures | `hegel.cpp`, `test_case.h` `spawn` | last throw site per thread, carried-over origin | throw, handle, capture, rethrow, spawn, join | exceptions that change threads | `Origins` |
| Notes and grouped report | `test_case.cpp` `note`, `hegel.cpp` `group_concurrent_output` | buffered lines, live output, output mutex | note, round header, group, report | interleaved multi-line output | `Output` |
| Draws | `core.h`, `collections.h`, `combinators.h`, `test_case.cpp` | call stack, `draw_depth`, names used | draw, collections, filter, compose, repeat | exceptions through draws; duplicates; name clashes | `Draws` |
| Basic draws | `numeric.h`, `generators.cpp`, `engine.cpp` | none | resolve parameters, encode, decode | widths, boundaries, defaults | `BasicDraws` |
| Settings, database key, blobs | `settings.h`, `hegel.cpp`, `hegel.h` | the engine's handle, the registry of blobs | defaults and CI detection, apply, key, register, look up | what a profile keeps and a default overwrites; keys and blobs that collide | `Settings`, in `TestRun` |
| Rendering of values | `repr.h` | none | type name, literal of every type | escapes, suffixes, casts: a literal that reads back as something else | `Literals` (in `PrintedDraws`), `Repr` |

How they interact: `test()` runs a body (a case of `TestRun`); the body draws
(`Draws`) and may run a machine (`StatefulRun`, `ConcurrentRounds`), whose rules
draw too and use pools. All of them signal by exceptions: `HegelReject` (this
case, iteration or step is void), `HegelStopTest` (the engine wants the case to
end), anything else is a failure. Worker threads share the test case family
through clones, the output through `output_mutex`, and their exceptions through
the events of a round.

Modelled in part: clones and spawned threads (their exceptions and output, not
the interleaving of their draws: each clone has a stream and a name table of its
own); dates, addresses, uuids, regexes (one engine draw, formatting left out);
`HegelRandom` (a draw that bypasses `TestCase::draw`; the `mt19937` of its
true-random mode is the standard library's); text (its length, not its alphabet).

Not modelled: derived generators (the compiler resolves them to the generators
above, and they keep no state), build and CI, and libhegel itself, of which there
is only the header. Which thread a GoogleTest assertion fails on (`gtest.h:131`)
is GoogleTest's state, and nothing is promised of a `Worker` destroyed without
`join()` but that it joins (`test_case.h:230`). `PROJECT.json` lists each part with
its reason.

## 2. Modules

**RoundEvents** - vocabulary of rounds: workers, event kinds, verdicts, the
first worker that reported a kind (`EventKind`, `Event`).

**Rounds** - the promise of a stateful test with no threads in sight: rounds open
on one group, every worker finishes each round once with one event, a round
closes when all have, and the verdict follows from the closing events by
precedence (control, overrun, invalid, panic).

**ConcurrentRounds** - `run_concurrent`. Two kinds of process. The main thread's
steps follow the function top to bottom: `Create`, `CheckInitial`, `StartWorker`
(or `StartFails`: the vector of joinable threads is destroyed, `std::terminate`),
`NextGroup`, `Publish` (under the mutex), `NotifyStart`, `Await`, `Collect`,
`SampleInvariants`, `CheckFinal`, and on the way out `Stop`, `NotifyStop`, `Join`,
`Return`. A worker's: `WaitStart`, `NextRule`, `ApplyRule`, `RejectRule`,
`Report`, `NotifyDone`. A critical section is one step, a wait evaluates its
predicate and sleeps if it is false, a notification is a step after the unlock,
and either side may wake spuriously.

**StatefulRun** - `run`, with the draws of a rule as a stack of frames and the
engine's spans as another. A draw left by an exception pops its frame and leaves
its span.

**Settings** - no state. `DefaultSettings` under an environment, `apply_settings`
onto a handle that starts as the profile libhegel resolves, `RunsWith` (what the
engine then does), `database_key`, `register_blob` and `reproduce_blobs_for`, and
`apply_test_location`. A mask is a number that the loop over a vector of flags
builds up (`Bits`, `Or`, `Mask`), a key is a sequence of the words the code
concatenates, a name is split at its first dot (`Class`, `Function`). `Fits` is
what the C++ type of each field allows.

**PropertyTest / TestRun** - what a call of `test()` promises, and
`run_test`, `run_from_engine`, `run_from_blob`, `replay_failure`,
`handle_failure`, `run_body` and `run_case`. A call starts by applying its
settings (`ApplySettings`), which may be refused, and three of them change its
course: quiet verbosity (no report), the report of several failures, and no
phases (no case). `bodies` is the history of outcomes; the promise is stated over
it.

**Pool / ConcurrentPool** - an atomic dictionary, and the mutex-guarded pair of
engine pool and client map. With one worker it is `Pool` of the code, which has
no lock.

**Origins** - an exception is identified with its throw site. Throws, handlers,
capture on a helper and rethrow on the main thread are separate steps. `via` and
`handled` are history: how the latest exception came to the main thread, and which
failure of a concurrent machine its body handled last.

**Output** - the notes of one case. The rounds of `ConcurrentRounds` are reduced
to the mutex and the barrier that order the writers. Notes before the first round
are left out, and so are two modes that neither frame nor buffer what they print: the
replay of a blob (`hegel.cpp:599`) and verbose cases of a deterministic search; a final
and quiet case takes the same branches but for the verbosity.

**BasicDraws** - no state. What each constructor asks the engine for, the
contract of the answer, and, independently, the values the parameters' documentation
allows (`Legal`). `BasicRequests` are the parameters the C++ types allow, bounds of
floats being finite. `floats<T>` takes `float`, `double` and `long double`, of 32, 64
and 128 bits, and libhegel answers for the first two widths (`EngineFloat`). Two kinds
of requests are refused although they allow values (`IllPosed`): `long double`, and a
flag that excludes a bound which was not given, when only that bound is left. The digits
of a wide integer are written and gathered by the loops of `encode_u64_le` and
`decode_u64_le` (`Weight`, `Gathered`).

**Draws** - one thread of one case. `stack` is the C++ call stack restricted to
draws, generators and user code; `returned` is the value being returned; `Unwind`
is what a C++ exception does to it, down to `repeat()` or the rule's handler.
`StatefulRun` models the draws for their spans, `Draws` for their values and
names; they share no state.

**Literals** - no state. What `repr` makes of characters, strings and numbers, a text
being the sequence of the words and characters the code appends. Against it stand the
rules of C++ for what such a text means (`ReadsBack`): which escape ends where, which
suffix gives which type. The least value of a signed type has no literal (`IsLeast`). A
byte is its number, and `Char` gives each a word of its own.

**Repr** - `repr` and `cpp_type_name` of every other type: casts, braces, type names,
and the values inside. It recurses over types and has RECURSIVE operators, so it is
kept apart from what is proved about.

**PrintedDraws** - `Draws` with `Literals`: the value of an outermost draw is the
argument of `repr`, and `PrintedLiterals` are what a user's generators make of draws.

`MC*.tla` give TLC its constants. `*_proofs.tla` hold the theorems of section 5, and
**FoldLemmas** what several of them rest on: induction over the naturals and the
existence of the function a fold or a loop computes.

## 3. Runs

Bounds are constants, named in the modules and given in the `.cfg`.

| Run | Bounds | What it shows |
|---|---|---|
| `rounds` | 2 workers, 2 groups, 2 rounds, 2 rules per worker and round | main evaluates invariants and reads events alone; events are of the round that closed; the completed count is the number of reports; rejections are legal; no panic is swallowed; groups never overlap; workers skip no round; rounds close; the call ends and no thread outlives it; `Rounds` is implemented |
| `stateful_run` | 2 rounds, 3 steps, draws 2 deep, 5 open spans, 2 mutations | a machine that passes was checked in its final state; the state last printed is current; `Rounds` is implemented |
| `test_run` | 2 failures, 4 cases; 7 settings of a call, 2 profiles, 21 environments; every setting with 2 to 32 choices, two varied at a time | cases are completed once each; counters are those of the search; what is raised was shown last; every failure has a section; every choice of a setting reaches the engine (`SettingsReachEngine`); keys, blobs and verdicts of two tests do not mix (`TestsStayApart`); `PropertyTest` is implemented |
| `pool` | 2 workers, 2 values, 2 calls each, 4 variables | the two copies agree whenever the mutex is free; `Pool` is implemented; calls return |
| `origins` | 2 helpers, 4 sites, 2 cases, 2 throws per case | a worker's failure keeps its site; the body's own has its own, or that of the worker's failure which the body handled last, if no failure was reported since (section 6.4) |
| `output` | 2 workers, 1 spawned thread, 2 rounds, 1 two-line note each | notes unbroken, rounds apart, lines grouped and none lost, blank lines right |
| `draws` | depth 4, 3 printed draws, collections up to 2 in the first draw, 4-bit integers, floats -1..1 and -2..2; 572 values to print, 521 of them literals | sizes and uniqueness, ranges at every boundary, each draw of the body shown once, every numbered name unlike those before it, every literal reads back as its value and type but those of the least signed values (section 6.5), and, as an assumption TLC evaluates (`EveryValueApart`), no two values print alike |

Why these bounds suffice for what they look at. Two workers are the least with one
that finishes while another has not; two rounds are the least in which something
of an earlier round can be mistaken for the present one (a stale event, count,
header or origin); a second group is needed where groups are told apart. Four
cases let a run be valid, discarded, failing and shrunk. Two settings varied at a
time cover every pair that could share a field of the handle. The widths of
`draws` keep every relation of the real ones: signed/unsigned halves, one more
digit than the value, `float` range inside `double` range, a default maximum below
some minimum; literals have `int` of 3 bits and `long` of 4 for the same reason,
and strings long enough for an escape to run into the next character. The proofs
of section 5 remove the bounds on workers, groups, rounds, cases, calls, throws,
depth, sizes and names for the properties they cover.

`spans`, `rejected`, `assertions`, `origins_spawn` and `minima` are violated:
section 6.

`CHECK_DEADLOCK FALSE` is set where the modelled call ends and nothing is left to
do; `draws` ends in an explicit `Done` step and is checked for deadlock.
`draws` uses symmetry over the two values, which nothing orders; the runs with
liveness use none.

Every property of a passing run has a mutant of the code (`PROJECT.json`
"mutants", operators beside the definition they change) that violates it.

## 4. Fairness and assumptions

- `rounds`: weak fairness of the main thread and of each worker, and none of
  spurious wakeups. An operating system runs every runnable thread; a sleeping one
  is runnable only after a notification. User code inside a rule is assumed to
  return.
- `pool`: weak fairness of each worker; calls are finitely many, so the mutex
  needs no fairness of its own.
- The engine, in `TestRun`: a run is reported `FAILED_NONDETERMINISTIC` only when
  a failure was found in a case it had stamped nondeterministic; failures found
  before keep their blobs; a nondeterministic run stops at the first failure; the
  first machine that may be concurrent in a run not yet marked is rejected, and
  the run is marked when that case ends; a replay is never rejected for it; a blob
  may be refused; with no phase there is no case; more than one failure is reported
  only when `report_multiple_failures` was told to the handle. The handle starts as
  the profile, which has a value for that field (`ProfileAssumption`).
- User code: rules do not mutate and then reject (the documentation asks this);
  in `Origins` no exception is thrown during unwinding or thrown again with
  `throw;` after it was handled. In `ConcurrentPool` moving or copying an element
  may throw, after which (`spoiled`) the two copies may differ.
- `Draws`: the bounds of a float are finite numbers (`FloatRequests`). libhegel refuses
  a width other than 32 and 64 (`libhegel/hegel.h:1890`).
  Equality of elements is an equivalence (NaN as an element of a set is left out).
  Parameters have the types of the C++ ones (`DrawsAssumption`: `Requests` within
  `BasicRequests`); the digits are in an even base, 256 in the code, so that a digit
  has a sign bit, and `float` has no greater range than `double`
  (`BasicDrawsAssumption`).
- `Settings` (`SettingsAssumption`): fields have the values of their types, and a path
  is not empty, as libhegel reads an empty one as "no database".
- Tests and blobs (`TestsAssumption`): the file of each is a path, without `::` in it
  and not the bare name of a GoogleTest suite of the program. With `::` in a file two
  keys could be split in two ways; the name may have it.

## 5. Proofs

`ConcurrentRounds_proofs` proves, for every number of workers, every set of
groups and every bound on rounds and rules (`NAssumption`, `GroupsAssumption`,
`MaxRoundsAssumption`, `MaxRulesAssumption` in `RoundEvents` and
`ConcurrentRounds`), all the safety properties of the run `rounds`:
`TypeCorrect`, `RunsAlone`, `CountsReports`, `FreshEvents`,
`GroupsNeverOverlap`, `RejectionsAccepted`, `FailuresSurface`, `ThreadsJoined`,
`RoundsInOrder`, and the refinement `Implements`.

None of these is inductive alone. That the main thread runs alone, for instance,
needs to know that a full count means that every worker has reported *this* round,
which needs that no worker is a round behind or ahead. The invariant `IInv` joins:

- `StartInv` - exactly the first `started` workers exist, and all of them while
  rounds run;
- `RoundInv` - every worker has observed the current round or is one behind;
  who is in a round, who has yet to see it, and what that leaves in `events`,
  `group` and the engine's outstanding rules, for each place the main thread
  can be in;
- `StopInv` - `stop` is set only on the way out and workers exit only then;
- `VerdictInv` - there is a verdict exactly when the call is ending, and it is
  the one the events call for;
- `TypeOK` and `CounterIsReports`.

Each conjunct has a lemma for the step, which splits into the main thread's
actions, a worker's and the spurious wakeups (`WorkerStep` says once what a
worker's step can change). The refinement shows that each step is a step of
`Rounds` or a stutter under the mapping at the end of `ConcurrentRounds`;
`SameVocabulary` relates the operators of the instance with those of the module.

`ConcurrentPool_proofs` (`Inductive`, `TypeCorrect`, `Agree`, `Implements`), for any
workers, values, calls and variables. Neither pool alone says where an operation
is between its two updates; `MidwayInv` does, for each place a worker can be in, and
`IdsInv` keeps a fresh identifier out of both. Under the
refinement a value is in the abstract dictionary when both copies have it, or when
libhegel's has just given it up to a consume (`ConsumeIds`); the identifier of an
unfinished add (`AddIds`) counts as unused. The step on the client's map is then the
atomic one.

`StatefulRun_proofs` (`StatefulInductive`, `StatefulTyped`, `FinalCheck`,
`StateShown`, `SequentialImplements`), for any groups and bounds. `PrintedInv` says at
which places the printed state is the machine's, `ThrownInv` which exception is in
flight where, `CheckedInv` that passing comes after a check of the present state,
`GroupInv` that a round has a group. `SpansKept` is the positive half of section 6.1: if
every `HegelReject` is thrown where no draw with an open span is left (in the body of the
rule or of a `repeat()`, or by a `filter()` right there), `SpansPaired` holds, for draws of
any depth; its invariant `SpanInv` says that the open spans are those of the draws under
way, level by level.

`TestRun_proofs` (`TestRunInductive`, `TestRunTyped`, `EngineUsedWell`,
`SearchCounted`, `ReportTruthful`, `ReportComplete`, `CallKeepsPromise`), for any
failures, settings and number of cases, from `OriginAssumption`,
`MaxCasesAssumption` and `ProfileAssumption`. A property of the report speaks of
bodies long gone, so the invariant follows them: `ModeInv` and `EndInv` (which phase,
and how it was reached), `OutcomeInv`, `FoundInv` and `LiveInv` (what the engine holds
of the bodies that were marked), `ReportInv` (failures left and sections printed make
up the count), `ShownInv`, and `TallyInv`, which ties the counters to the bodies up
to the first failure.

The rest of the module is about `Settings`, from `SettingsAssumption` and
`TestsAssumption`, whatever the state of the call. `ChoicesReachEngine`: for any
profile and any settings near the call's, each field arrives, which is a matter of
cases but for the flags; a vector of them, in any order and with repetitions, becomes a
mask that has exactly its bits (`MaskHasBits`, by induction over the vector with
`OrSetsBit`), and reading the mask gives the set of flags back (`FlagsOfMask`).
`TestsNeverMix`: a key has one reading because its first `::` ends the file
(`KeyIsUnique`), the registry holds the first registration of each key however many
there are (`RegistryHoldsFirsts`, and `BlobsApart` for any number of registrations
where the property checks three), and two names split at their first dots into the same
class and function only when they are one (`VerdictsApart`).

`Origins_proofs` (`OriginsInductive`, `OriginsTyped`, `WorkerOrigins`, `OwnOrigins`),
for any helpers, sites, cases and throws. The two action properties follow from what
the slots stand for: `HelperSite`, `CapturedSite` and `OwnSite` tie a throw site to
the exception in flight; `CarriedOver` and `LeftOver` say that the carried origin is
that of the failure `run_concurrent` raised while this is in flight, and of the one the
body handled last otherwise. `OwnOrigins` is therefore exact: it says of every failure
of the body's own by which origin it is named, the wrong one included.

`Output_proofs`, for any workers, spawned threads, rounds and notes
(`ThreadsAssumption`, `BoundsAssumption`), proves the four properties of the run
`output`. `OutputInductive` (`IInv`) is about writers: whoever holds the output mutex
has set the body off (`OpenedInv`), a framed report is empty or a blank line and lines
(`BodyInv`), nobody writes once the main thread goes on (`WriterInv`); `BodiesSetOff`
follows. `NotesInductive` (`NInv`) is about lines. That a note is unbroken rests on
`PendingInv`: a thread with half a note written still holds the mutex, and its first
line is the last one of every sink it writes to; `AdjacentInv` keeps that of the notes
completed (`NotesNeverBroken`). That rounds stay apart rests on `HeaderInv`: nobody is
in a round before its header is out, and no line is of a later round (`RoundsInv`);
`CountInv` orders the lines of one thread; `LiveInductive` (`LiveInv`) says the same of
`std::cerr`. The report of a buffered case is not what was written but what
`group_concurrent_output` makes of it, one record after another, flushing at each line
that is no worker's. `GroupingSorts` shows by induction over the records that this loop
computes a permutation of them, which keeps each worker's order, moves nothing across a
line that is no worker's, and sorts what is between two of those by worker;
`ReportedRoundsApart` and `ReportGroupsWorkers` follow from it and `NInv`.

`Draws_proofs` (`DrawsInductive`, `DrawsTyped`, `SizesKept`, `DrawsReported`), for any
names, values, sizes and depth (`DrawsAssumption`). `CallInv` says who may stand above
whom on the call stack, so that a returned value always has a taker; `SizeInv` (`Counted`)
that the engine's count is the elements kept and the one being drawn, which is what
handing a duplicate back restores; `DepthInv` that `draw_depth` counts the draws on
the stack, through every exception; `LinesInv` and `PendingInv` that a number once
printed leaves no free number between the count of its base and itself, which is why
a later number is greater.

`ValuesLegal` is for the parameters in `BasicRequests`, at any width and base
(`BasicDrawsAssumption`). `AnswersTruthful` takes each kind of draw: whatever the
engine may answer to what the constructor asked decodes to a value `Legal` allows, and
a request is refused only when `Legal` allows none or it is `IllPosed`. Unsigned integers go through the
digits; `DigitsRoundTrip`, by induction over the number of digits (`Gathers`,
`Encodes`), says that decoding undoes encoding on the whole unsigned range and that the
extra digit is what keeps the engine from reading a negative number.

`LiteralReadsBack` is for any bytes, any length of a string and any widths of the
integer types (`LiteralsAssumption`), and says when it fails: exactly for the least value
of a signed type, whose digits its type does not hold. `DrawsRendered` applies it to what is drawn, with
`IInv` for its range. Each side is a loop: `Escaped` over the bytes of a string,
`ReadLiteral` over the words of its text. `ReadEscaped` goes by induction over the bytes:
the reader, given the escape of one more byte, is past that byte and in no escape
(`ReadEscape`), or still in a three-digit escape that the next word, whatever it is,
ends (`EndEscape`). That is what the three digits of `%03o` are for. `DecimalReadsBack`
says the same of the digits of a number.

Of the liveness of `rounds`, everything but the fairness rule is proved, in
`ConcurrentRounds_proofs`. `WakeupsKept`: whoever sleeps although what it waits for has
come has a notification on its way. `NobodyStuck`: until the call is over some thread
can take a step that is no spurious wakeup. `EndComesNearer`: the natural number
`StepsLeft` falls with every such step, so that a call with finitely many spurious
wakeups takes finitely many steps. `NobodyDisabled`: what a thread can do, no other
takes from it, so that weak fairness is enough. `MainCanStep` and `WorkerCanStep`
stand for ENABLED, with which TLC found them to agree in every state of the run.

For `pool` likewise, in `ConcurrentPool_proofs`: `HolderGoesOn` (a call goes on or waits
for the mutex, whose holder goes on), `CallsRunOut` (each step lowers one worker's
`StepsLeft` and raises nobody's) and `OnlyTheMutexIsTaken` (a worker that can step is
overtaken at the mutex only). With finitely many workers and calls the mutex comes free
for good in the end, which is why no fairness of its own is asked of it.

Only model-checked: `RoundsClose`, `CallEnds` and `CallsReturn`, whose last step is an
argument about WF and ENABLED, out of the prover's reach (and, for the first two, that
infinitely many spurious wakeups keep nobody from going on); and that no two values of
different types print alike (`EveryValueApart`), as `repr` recurses over types. Every
safety property of a passing run is the conclusion of a theorem.

## 6. Where code and documentation differ

1. `libhegel/hegel.h:1354` pairs each `hegel_start_span` with exactly one
   `hegel_stop_span`. A draw left by `HegelReject` never closes its span, and the
   rule's handler (`stateful.h:1197`) then discards that span in place of its own
   (run `spans`).
2. `include/hegel/gtest.h:28`: a failed assertion must fail the case. One recorded
   by `EXPECT_` is dropped when the body then throws `HegelReject` or
   `HegelStopTest` (run `assertions`).
3. `libhegel/hegel.h:1666`: after a rejected machine the body should be abandoned
   and the case be `INVALID`. `repeat()` and the handler around a rule swallow that
   rejection (run `rejected`).
4. `include/hegel/hegel.h:367`: the origin is the throw site. Two ways lead to another.
   An exception that `join()` raises again on the joining thread is named by that
   thread's last throw (run `origins_spawn`). And the origin that `run_concurrent`
   carries over (`hegel.cpp:782`) is consumed by the next failure (`hegel.cpp:304`)
   even if that is not the one it belongs to: when the body handles the failure of a
   machine and fails otherwise later, in that case or the next on its thread, the
   failure is grouped under the origin of the one that was handled
   (`OwnOriginUnlessHandled`, run `origins`, says so).
5. `include/hegel/repr.h:279`: a value is rendered as one C++ expression. The least
   `long` and `long long` are printed as `-9223372036854775808l` (`ll`), whose digits
   are no literal of the language, as no type its suffix allows holds them; the least
   `int` reads as a `long` (run `minima`).

Seen while reading, with no run:

- `internal.h:191` says the runner skips `mark_complete` after `HegelStopTest`;
  `hegel.cpp:660` marks every case, and the mutant `TallySkipsMark` shows the engine
  would refuse the next one otherwise.
- `include/hegel/settings.h:189` says that a field left at its default takes the value
  of the settings profile. `apply_settings` (`hegel.cpp:464`) always sets verbosity, seed,
  derandomization, phases and the number of reported failures; `SettingsReachEngine` is
  about the values a caller chose.
- `floats<T>` accepts every floating-point type (`numeric.h:81`), but `long double` asks
  libhegel for 128 bits on x86-64 (`numeric.h:122`), where `libhegel/hegel.h:1890` allows
  32 and 64, and for a smallest magnitude that is zero as a double: no draw succeeds
  (`IllPosed`).
- An exclusion flag without its bound excludes the type's extreme when infinities are
  off; `numeric.h:34` speaks of `min_value` only (`IllPosed`).
- A bare name is printed as given on every use, also when a number was printed under it
  before (`x_1` after the first repeatable `x`).
- `settings.h` says of `database_key` that unset disables persistence; a test with a
  location gets the key `file::name` (`include/hegel/hegel.h:429`, `hegel.cpp:175`).
- `Database::unset()` is documented as the default `.hegel` directory; on CI the
  engine's `ci` profile has the database disabled, and unset leaves it so.
- A `TestLocation` name with a dot in it is split like a GoogleTest name;
  `hegel.cpp` says any other name is scoped by its file.

## 7. Plan

Done: everything listed in section 2, and its proofs.

Left, extending the model: a family of clones whose draws interleave on one
collection or pool handle (`HEGEL_E_CONCURRENT_USE`); NaN in sets and unique vectors;
the alphabets of `text()`; the composition of `Draws` with `StatefulRun`, so that the
spans of section 6.1 meet the draws that open them.

Left, proofs: that texts of composites have one reading, which needs an induction over
types.
