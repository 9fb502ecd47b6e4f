-------------------------- MODULE ConcurrentRounds --------------------------
(***************************************************************************)
(* run_concurrent of include/hegel/generators/stateful.h: one main thread  *)
(* and N worker threads that meet at the end of every round.  They share   *)
(* RoundState, a mutex and two condition variables.  A critical section is *)
(* one atomic step; a wait is a step that evaluates the predicate under    *)
(* the mutex and, when it is false, falls asleep; an awoken thread, by a   *)
(* notification or spuriously, evaluates it again.  A notification comes   *)
(* after the unlock, as in the code, and is a step of its own.             *)
(*                                                                         *)
(* The engine is external: what next_group, next_rule, rule_rejected and   *)
(* should_check_invariant answer is any answer libhegel/hegel.h allows.    *)
(***************************************************************************)
EXTENDS RoundEvents

CONSTANT MaxRules    \* bound on the rules handed to a worker in one round

ASSUME MaxRulesAssumption == MaxRules \in Nat

VARIABLES
  main,       \* where the main thread is
  started,    \* how many worker threads it has started
  joined,     \* how many it has joined
  verdict,    \* the exception in flight, or how the call ended
  round_number, stop, num_workers_completed, events,   \* RoundState
  worker,     \* where each worker is
  observed_round_number,                               \* each worker's own
  event,      \* the event a worker has computed and not yet moved out
  group,      \* engine: the current group
  handed,     \* engine: rules handed to each worker this round
  outstanding,\* engine: workers with a rule neither rejected nor superseded
  applying    \* the group of the rule each worker is applying, or NoGroup

roundState == <<round_number, stop, num_workers_completed, events>>
engine == <<group, handed, outstanding>>
mainVars == <<main, started, joined, verdict>>
workerVars == <<worker, observed_round_number, event, applying>>
vars == <<mainVars, roundState, workerVars, engine>>

MainPCs == {"create", "initial", "spawn", "next_group", "publish",
            "notify_start", "await", "asleep", "collect", "sample", "final",
            "stop", "notify_stop", "join", "returned", "terminated"}
WorkerPCs == {"unborn", "check", "asleep", "next_rule", "rule", "reject",
              "report", "notify", "exited"}

TypeOK ==
  /\ main \in MainPCs
  /\ started \in 0..N
  /\ joined \in 0..N
  /\ verdict \in Verdicts
  /\ round_number \in 0..MaxRounds
  /\ stop \in BOOLEAN
  /\ num_workers_completed \in Nat
  /\ events \in [Workers -> EventKinds]
  /\ worker \in [Workers -> WorkerPCs]
  /\ observed_round_number \in [Workers -> 0..MaxRounds]
  /\ event \in [Workers -> EventKinds]
  /\ group \in Groups \cup {NoGroup}
  /\ handed \in [Workers -> 0..MaxRules]
  /\ outstanding \in SUBSET Workers
  /\ applying \in [Workers -> Groups \cup {NoGroup}]

Init ==
  /\ main = "create"
  /\ started = 0
  /\ joined = 0
  /\ verdict = NoVerdict
  /\ round_number = 0
  /\ stop = FALSE
  /\ num_workers_completed = 0
  /\ events = [w \in Workers |-> "RoundDone"]
  /\ worker = [w \in Workers |-> "unborn"]
  /\ observed_round_number = [w \in Workers |-> 0]
  /\ event = [w \in Workers |-> "RoundDone"]
  /\ group = NoGroup
  /\ handed = [w \in Workers |-> 0]
  /\ outstanding = {}
  /\ applying = [w \in Workers |-> NoGroup]

-----------------------------------------------------------------------------
(* The main thread *)

\* An exception leaves the call before any thread exists ...
Raise(kind) ==
  /\ main' = "returned"
  /\ verdict' = Verdict(kind, Main)

\* ... or inside the try block, whose handler runs stop_workers and rethrows.
Throw(v) ==
  /\ main' = "stop"
  /\ verdict' = v

Goto(pc) == main' = pc /\ UNCHANGED verdict

\* The bounds or the rules are refused.  Then StateMachineHandle: the engine
\* draws the concurrency level, or rejects the first machine of the run that
\* may be concurrent, or is out of choices.
Create ==
  /\ main = "create"
  /\ \/ Goto("initial")
     \/ Raise("Control")
     \/ Raise("Invalid")
     \/ Raise("Overrun")
  /\ UNCHANGED <<started, joined, roundState, workerVars, engine>>

CheckInitial ==
  /\ main = "initial"
  /\ \/ Goto("spawn")
     \/ Raise("Violated")
  /\ UNCHANGED <<started, joined, roundState, workerVars, engine>>

\* Mutant of StartWorker: one thread too many.
StartOneTooMany ==
  /\ main = "spawn"
  /\ started <= N
  /\ worker' = [worker EXCEPT ![started] = "check"]
  /\ started' = started + 1
  /\ UNCHANGED <<main, joined, verdict, roundState, observed_round_number,
                 event, applying, engine>>

\* tc.clone() and the std::thread constructor.
StartWorker ==
  /\ main = "spawn"
  /\ started < N
  /\ worker' = [worker EXCEPT ![started] = "check"]
  /\ started' = started + 1
  /\ UNCHANGED <<main, joined, verdict, roundState, observed_round_number,
                 event, applying, engine>>

\* Either may throw, and no handler is installed yet: the vector of threads is
\* destroyed, and a joinable thread in it ends the process.
StartFails ==
  /\ main = "spawn"
  /\ started < N
  /\ verdict' = Verdict("StartFailed", Main)
  /\ main' = IF started = 0 THEN "returned" ELSE "terminated"
  /\ UNCHANGED <<started, joined, roundState, workerVars, engine>>

AllStarted ==
  /\ main = "spawn"
  /\ started = N
  /\ Goto("next_group")
  /\ UNCHANGED <<started, joined, roundState, workerVars, engine>>

NextGroup ==
  /\ main = "next_group"
  /\ \/ /\ round_number < MaxRounds
        /\ group' \in Groups
        /\ Goto("publish")
        /\ handed' = [w \in Workers |-> 0]
        /\ outstanding' = {}
     \/ /\ round_number > 0
        /\ Goto("final")
        /\ UNCHANGED engine
     \/ /\ Throw(Verdict("Overrun", Main))
        /\ UNCHANGED engine
  /\ UNCHANGED <<started, joined, roundState, workerVars>>

\* Mutant of Publish: the counter of the last round is not reset.
PublishKeepsCount ==
  /\ main = "publish"
  /\ round_number' = round_number + 1
  /\ Goto("notify_start")
  /\ UNCHANGED <<started, joined, stop, num_workers_completed, events,
                 workerVars, engine>>

Publish ==
  /\ main = "publish"
  /\ num_workers_completed' = 0
  /\ round_number' = round_number + 1
  /\ Goto("notify_start")
  /\ UNCHANGED <<started, joined, stop, events, workerVars, engine>>

WakeAll == worker' = [w \in Workers |->
                        IF worker[w] = "asleep" THEN "check" ELSE worker[w]]

NotifyStart ==
  /\ main = "notify_start"
  /\ WakeAll
  /\ Goto("await")
  /\ UNCHANGED <<started, joined, roundState, observed_round_number, event,
                 applying, engine>>

\* Mutant of Await: the first report ends the round.
AwaitAny ==
  /\ main = "await"
  /\ IF num_workers_completed > 0 THEN Goto("collect") ELSE Goto("asleep")
  /\ UNCHANGED <<started, joined, roundState, workerVars, engine>>

\* done.wait(lock, num_workers_completed == worker_count)
Await ==
  /\ main = "await"
  /\ IF num_workers_completed = N THEN Goto("collect") ELSE Goto("asleep")
  /\ UNCHANGED <<started, joined, roundState, workerVars, engine>>

SpuriousDone ==
  /\ main = "asleep"
  /\ Goto("await")
  /\ UNCHANGED <<started, joined, roundState, workerVars, engine>>

Saw(k) == Reporting(events, k) # {}

Rethrow(k) == Throw(Verdict(k, First(Reporting(events, k))))

\* Mutants of Collect: a panic does not end the test; an overrun outranks a
\* control exception.
CollectNoPanic ==
  /\ main = "collect"
  /\ IF Saw("Control") THEN Rethrow("Control")
     ELSE IF Saw("Overrun") THEN Throw(Verdict("Overrun", Main))
     ELSE IF Saw("Invalid") THEN Throw(Verdict("Invalid", Main))
     ELSE Goto("sample")
  /\ UNCHANGED <<started, joined, roundState, workerVars, engine>>

CollectOverrunFirst ==
  /\ main = "collect"
  /\ IF Saw("Overrun") THEN Throw(Verdict("Overrun", Main))
     ELSE IF Saw("Control") THEN Rethrow("Control")
     ELSE IF Saw("Invalid") THEN Throw(Verdict("Invalid", Main))
     ELSE IF Saw("Panicked") THEN Rethrow("Panicked")
     ELSE Goto("sample")
  /\ UNCHANGED <<started, joined, roundState, workerVars, engine>>

\* Once every worker has reported, the events decide: control > overrun >
\* invalid > panic > round complete, and the first worker's exception is the
\* one raised again.
Collect ==
  /\ main = "collect"
  /\ IF Saw("Control") THEN Rethrow("Control")
     ELSE IF Saw("Overrun") THEN Throw(Verdict("Overrun", Main))
     ELSE IF Saw("Invalid") THEN Throw(Verdict("Invalid", Main))
     ELSE IF Saw("Panicked") THEN Rethrow("Panicked")
     ELSE Goto("sample")
  /\ UNCHANGED <<started, joined, roundState, workerVars, engine>>

\* check_invariants with the machine handle: the engine samples each invariant,
\* an invariant that runs may throw, and the draw may exhaust the budget.
SampleInvariants ==
  /\ main = "sample"
  /\ \/ Goto("next_group")
     \/ \E kind \in {"Violated", "Overrun"} : Throw(Verdict(kind, Main))
  /\ UNCHANGED <<started, joined, roundState, workerVars, engine>>

CheckFinal ==
  /\ main = "final"
  /\ \E kind \in {"Passed", "Violated"} : Throw(Verdict(kind, Main))
  /\ UNCHANGED <<started, joined, roundState, workerVars, engine>>

\* stop_workers
Stop ==
  /\ main = "stop"
  /\ stop' = TRUE
  /\ Goto("notify_stop")
  /\ UNCHANGED <<started, joined, round_number, num_workers_completed, events,
                 workerVars, engine>>

\* Mutant of NotifyStop: only one of the sleeping workers hears of it.
NotifyStopOne ==
  /\ main = "notify_stop"
  /\ LET sleepers == {w \in Workers : worker[w] = "asleep"}
     IN  worker' = IF sleepers = {} THEN worker
                   ELSE [worker EXCEPT ![First(sleepers)] = "check"]
  /\ Goto("join")
  /\ UNCHANGED <<started, joined, roundState, observed_round_number, event,
                 applying, engine>>

NotifyStop ==
  /\ main = "notify_stop"
  /\ WakeAll
  /\ Goto("join")
  /\ UNCHANGED <<started, joined, roundState, observed_round_number, event,
                 applying, engine>>

Join ==
  /\ main = "join"
  /\ joined < N
  /\ worker[joined] = "exited"
  /\ joined' = joined + 1
  /\ UNCHANGED <<main, started, verdict, roundState, workerVars, engine>>

\* Mutant of Return: the last thread is not joined.
ReturnEarly ==
  /\ main = "join"
  /\ joined = N - 1
  /\ Goto("returned")
  /\ UNCHANGED <<started, joined, roundState, workerVars, engine>>

Return ==
  /\ main = "join"
  /\ joined = N
  /\ Goto("returned")
  /\ UNCHANGED <<started, joined, roundState, workerVars, engine>>

MainNext ==
  \/ Create \/ CheckInitial \/ StartWorker \/ StartFails \/ AllStarted
  \/ NextGroup \/ Publish \/ NotifyStart \/ Await \/ Collect
  \/ SampleInvariants \/ CheckFinal \/ Stop \/ NotifyStop \/ Join \/ Return

-----------------------------------------------------------------------------
(* A worker thread.  Once the process has terminated no thread runs. *)

At(w, pc) == main # "terminated" /\ worker[w] = pc

Move(w, pc) == worker' = [worker EXCEPT ![w] = pc]

\* start.wait(lock, stop || round_number != observed_round_number), then what
\* follows it in the same critical section.
WaitStart(w) ==
  /\ At(w, "check")
  /\ \/ /\ stop
        /\ Move(w, "exited")
        /\ UNCHANGED observed_round_number
     \/ /\ ~stop
        /\ round_number # observed_round_number[w]
        /\ Move(w, "next_rule")
        /\ observed_round_number' = [observed_round_number EXCEPT ![w] = round_number]
     \/ /\ ~stop
        /\ round_number = observed_round_number[w]
        /\ Move(w, "asleep")
        /\ UNCHANGED observed_round_number
  /\ UNCHANGED <<mainVars, roundState, event, applying, engine>>

SpuriousStart(w) ==
  /\ At(w, "asleep")
  /\ Move(w, "check")
  /\ UNCHANGED <<mainVars, roundState, observed_round_number, event, applying,
                 engine>>

\* run_round is over: with RoundDone, or with what classify made of the
\* exception that left it.
EndRound(w, kind) ==
  /\ Move(w, "report")
  /\ event' = [event EXCEPT ![w] = kind]
  /\ applying' = [applying EXCEPT ![w] = NoGroup]

\* The engine hands out a rule of the current group, says the worker is done,
\* or refuses: out of choices, or the case was rejected on another handle.
NextRule(w) ==
  /\ At(w, "next_rule")
  /\ \/ /\ handed[w] < MaxRules
        /\ Move(w, "rule")
        /\ handed' = [handed EXCEPT ![w] = @ + 1]
        /\ outstanding' = outstanding \cup {w}
        /\ applying' = [applying EXCEPT ![w] = group]
        /\ UNCHANGED event
     \/ /\ \E kind \in {"RoundDone", "Overrun", "Invalid"} : EndRound(w, kind)
        /\ UNCHANGED <<handed, outstanding>>
  /\ UNCHANGED <<mainVars, roundState, observed_round_number, group>>

\* The rule returns, rejects, or throws what ends the round.
ApplyRule(w) ==
  /\ At(w, "rule")
  /\ \/ /\ \E pc \in {"next_rule", "reject"} : Move(w, pc)
        /\ applying' = [applying EXCEPT ![w] = NoGroup]
        /\ UNCHANGED event
     \/ \E kind \in {"Overrun", "Control", "Panicked"} : EndRound(w, kind)
  /\ UNCHANGED <<mainVars, roundState, observed_round_number, engine>>

\* Mutant of RejectRule: the rejection may be reported twice.
RejectTwice(w) ==
  /\ At(w, "reject")
  /\ outstanding' = outstanding \ {w}
  /\ \E pc \in {"next_rule", "reject"} : Move(w, pc)
  /\ UNCHANGED <<mainVars, roundState, observed_round_number, event, applying,
                 group, handed>>

\* rule_rejected, called in the handler of the rejection.  The engine refuses a
\* worker that has no outstanding rule (RejectsOutstandingRule).
RejectRule(w) ==
  /\ At(w, "reject")
  /\ outstanding' = outstanding \ {w}
  /\ Move(w, "next_rule")
  /\ UNCHANGED <<mainVars, roundState, observed_round_number, event, applying,
                 group, handed>>

Report(w) ==
  /\ At(w, "report")
  /\ events' = [events EXCEPT ![w] = event[w]]
  /\ num_workers_completed' = num_workers_completed + 1
  /\ event' = [event EXCEPT ![w] = "RoundDone"]
  /\ Move(w, "notify")
  /\ UNCHANGED <<mainVars, round_number, stop, observed_round_number, applying,
                 engine>>

\* Mutant of NotifyDone: the main thread is not woken.
NotifyNobody(w) ==
  /\ At(w, "notify")
  /\ Move(w, "check")
  /\ UNCHANGED <<mainVars, roundState, observed_round_number, event, applying,
                 engine>>

\* done.notify_one(): only the main thread waits on it.
NotifyDone(w) ==
  /\ At(w, "notify")
  /\ Move(w, "check")
  /\ main' = IF main = "asleep" THEN "await" ELSE main
  /\ UNCHANGED <<started, joined, verdict, roundState, observed_round_number,
                 event, applying, engine>>

WorkerNext(w) ==
  \/ WaitStart(w) \/ NextRule(w) \/ ApplyRule(w) \/ RejectRule(w)
  \/ Report(w) \/ NotifyDone(w)

Spurious == SpuriousDone \/ \E w \in Workers : SpuriousStart(w)

Next == MainNext \/ (\E w \in Workers : WorkerNext(w)) \/ Spurious

Spec == Init /\ [][Next]_vars

\* Every thread is scheduled; nothing makes a condition variable wake a thread
\* on its own.
Fairness == WF_vars(MainNext) /\ \A w \in Workers : WF_vars(WorkerNext(w))

FairSpec == Spec /\ Fairness

-----------------------------------------------------------------------------
(* Safety *)

\* The worker is inside run_round, or has not stored what came of it.
InRound(w) == worker[w] \in {"next_rule", "rule", "reject", "report"}

\* The workers that have finished the current round.
Reported == {w \in Workers : /\ observed_round_number[w] = round_number
                             /\ ~InRound(w)}

\* The machine under test is shared and unprotected: the main thread evaluates
\* invariants, reads the events and asks for the next group only while no
\* worker is inside a round.
MainRunsAlone ==
  main \notin {"notify_start", "await", "asleep"} =>
    \A w \in Workers : ~InRound(w)

\* From the moment a round is published until the main thread has read its
\* events, the counter is the number of workers that stored an event of this
\* very round: no late report of an earlier round is ever counted.
CounterIsReports ==
  main \in {"notify_start", "await", "asleep", "collect"} =>
    num_workers_completed = Cardinality(Reported)

\* The events the main thread reads were all stored in the round it waited for.
EventsAreFresh ==
  main = "collect" => Reported = Workers

\* Rules of different groups never overlap.
OneGroupAtATime ==
  \A w \in Workers : applying[w] \in {NoGroup, group}

\* Every rejection is reported for a rule the engine still counts as outstanding.
RejectsOutstandingRule ==
  \A w \in Workers : worker[w] = "reject" => w \in outstanding

\* A call that passes saw no failure in any round, and an exception that is
\* raised again is one that worker's own round ended with.
NoFailureSwallowed ==
  /\ verdict.kind = "Passed" => \A w \in Workers : events[w] = "RoundDone"
  /\ verdict.by # Main => events[verdict.by] = verdict.kind

\* run_concurrent never returns or throws while a thread it started is alive:
\* the threads hold references to its locals.
NoThreadOutlivesCall ==
  main = "returned" =>
    \A w \in Workers : worker[w] \in {"unborn", "exited"}

\* A worker takes part in the rounds one after the other: it enters the round
\* that follows its last one, and none after the stop flag is up.
NoRoundSkipped ==
  [][\A w \in Workers :
       observed_round_number'[w] # observed_round_number[w] =>
         /\ observed_round_number'[w] = observed_round_number[w] + 1
         /\ ~stop]_vars

-----------------------------------------------------------------------------
(* Liveness, under FairSpec *)

\* No wakeup is lost: a main thread that waits for a round sees its end, and a
\* call that begins ends.
RoundsClose == main \in {"await", "asleep"} ~> main = "collect"

CallEnds == <>(main \in {"returned", "terminated"})

-----------------------------------------------------------------------------
(* The rounds of the threads are the rounds of the specification.  A round   *)
(* is open from the moment the engine has chosen its group.                  *)

RoundsPhase ==
  IF verdict # NoVerdict THEN "ended"
  ELSE IF main \in {"create", "initial", "spawn"} THEN "setup"
  ELSE IF main \in {"publish", "notify_start", "await", "asleep", "collect"}
  THEN "round"
  ELSE "join"

RoundsOpened == IF main = "publish" THEN round_number + 1 ELSE round_number

RoundsRunning ==
  IF main = "publish" THEN Workers
  ELSE IF started = N THEN Workers \ Reported
  ELSE {}

RoundsOf == INSTANCE Rounds WITH phase   <- RoundsPhase,
                                 round   <- RoundsOpened,
                                 running <- RoundsRunning,
                                 reports <- events

\* run_concurrent implements the rounds it promises.
ImplementsRounds == RoundsOf!Spec
=============================================================================
