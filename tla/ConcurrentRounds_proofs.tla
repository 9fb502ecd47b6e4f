----------------------- MODULE ConcurrentRounds_proofs -----------------------
(***************************************************************************)
(* Proofs about run_concurrent, for any number of workers, any set of      *)
(* groups and any bound on the rounds.                                     *)
(***************************************************************************)
EXTENDS ConcurrentRounds, FoldLemmas, FiniteSetTheorems, WellFoundedInduction, TLAPS

\* Where the main thread is while workers may be inside a round, once all the
\* threads run and before it begins to stop them, and after that.
Waiting == {"notify_start", "await", "asleep"}
Counting == Waiting \cup {"collect"}
Between == {"sample", "next_group", "publish", "final"}
Ending == {"stop", "notify_stop", "join", "returned", "terminated"}

\* Workers are started in order, all of them before the first round.
StartInv ==
  /\ \A w \in Workers : worker[w] = "unborn" <=> w >= started
  /\ main \in {"create", "initial"} => started = 0
  /\ main \in Counting \cup Between \cup {"stop", "notify_stop", "join"} =>
       started = N
  /\ main = "returned" => started \in {0, N}

\* A worker is at most one round behind, and behind only while the main thread
\* waits for it; it is inside the current round or inside none.
RoundInv ==
  /\ main = "publish" => round_number < MaxRounds
  /\ \A w \in Workers :
       /\ observed_round_number[w] \in {round_number, round_number - 1}
       /\ main \notin Waiting => /\ observed_round_number[w] = round_number
                                 /\ ~InRound(w)
       /\ InRound(w) => observed_round_number[w] = round_number
       /\ applying[w] # NoGroup => /\ worker[w] = "rule"
                                   /\ applying[w] = group
       /\ worker[w] \in {"rule", "reject"} => w \in outstanding

\* Threads are joined only after the stop flag is up, and only stopped threads.
StopInv ==
  /\ stop => main \in {"notify_stop", "join", "returned"}
  /\ main \in {"notify_stop", "join"} => stop
  /\ \A w \in Workers : worker[w] = "exited" => stop
  /\ joined > 0 => main \in {"join", "returned"}
  /\ \A w \in Workers : w < joined => worker[w] = "exited"
  /\ main = "returned" => joined = started

\* A verdict is given only when the call ends, and accounts for the events.
VerdictInv ==
  /\ main \in Ending <=> verdict # NoVerdict
  /\ main \in {"create", "initial", "spawn"} \cup Between =>
       \A w \in Workers : events[w] = "RoundDone"
  /\ NoFailureSwallowed

IInv == TypeOK /\ StartInv /\ RoundInv /\ StopInv /\ VerdictInv /\ CounterIsReports
-----------------------------------------------------------------------------
USE NAssumption, GroupsAssumption, MaxRoundsAssumption, MaxRulesAssumption DEF NAssumption, GroupsAssumption, MaxRoundsAssumption, MaxRulesAssumption

\* First picks a member of a non-empty set of workers.
LEMMA FirstIsMember ==
  ASSUME NEW S \in SUBSET Workers, S # {}
  PROVE  First(S) \in S /\ \A v \in S : First(S) <= v
<1>1. PICK m \in S : \A v \in S : ~ (<<v, m>> \in OpToRel(<, Nat))
  <2>1. S \subseteq Nat
    BY DEF Workers
  <2>2. QED BY <2>1, NatLessThanWellFounded, WFMin
<1>2. \A v \in S : m <= v
  <2>1. TAKE v \in S
  <2>2. v \in Nat /\ m \in Nat  BY DEF Workers
  <2>3. ~(v < m)  BY <1>1, <2>2 DEF OpToRel
  <2>4. QED BY <2>2, <2>3
<1>3. QED BY <1>2 DEF First

LEMMA WorkersFinite == IsFiniteSet(Workers) /\ Cardinality(Workers) = N
BY FS_Interval DEF Workers

LEMMA VerdictType ==
  /\ NoVerdict \in Verdicts
  /\ \A k \in VerdictKinds, w \in Workers \cup {Main} : Verdict(k, w) \in Verdicts
  /\ \A k, w : /\ Verdict(k, w).kind = k /\ Verdict(k, w).by = w
               /\ k # "None" => Verdict(k, w) # NoVerdict
BY DEF NoVerdict, Verdicts, Verdict, VerdictKinds, Main

\* The initial states satisfy the inductive invariant.
LEMMA InitIInv == Init => IInv
<1> SUFFICES ASSUME Init PROVE IInv  OBVIOUS
<1>1. TypeOK
  <2>1. 0 \in 0..N /\ 0 \in 0..MaxRounds /\ 0 \in 0..MaxRules
    OBVIOUS
  <2>2. QED
    BY <2>1, VerdictType DEF Init, TypeOK, MainPCs, WorkerPCs, EventKinds
<1>2. StartInv /\ RoundInv /\ StopInv /\ VerdictInv /\ CounterIsReports
  BY DEF Init, StartInv, RoundInv, StopInv, VerdictInv, CounterIsReports,
         Counting, Between, Waiting, Ending, InRound, NoFailureSwallowed,
         NoVerdict, Verdict, Main, Workers
<1>3. QED BY <1>1, <1>2 DEF IInv

LEMMA TypeStep == TypeOK /\ StartInv /\ RoundInv /\ [Next]_vars => TypeOK'
<1> SUFFICES ASSUME TypeOK, StartInv, RoundInv, [Next]_vars PROVE TypeOK'
  OBVIOUS
<1> USE DEF TypeOK, mainVars, roundState, workerVars, engine
<1>1. ASSUME MainNext PROVE TypeOK'
  <2>1. CASE Create \/ CheckInitial
    BY <2>1, VerdictType DEF Create, CheckInitial, Raise, Goto, MainPCs, Main, VerdictKinds
  <2>2. CASE StartWorker
    <3>1. started' \in 0..N
      BY <2>2 DEF StartWorker
    <3>2. worker' \in [Workers -> WorkerPCs]
      BY <2>2 DEF StartWorker, WorkerPCs
    <3>3. QED BY <2>2, <3>1, <3>2 DEF StartWorker
  <2>3. CASE StartFails \/ AllStarted
    BY <2>3, VerdictType DEF StartFails, AllStarted, Goto, MainPCs, Main, VerdictKinds
  <2>4. CASE NextGroup
    BY <2>4, VerdictType DEF NextGroup, Throw, Goto, MainPCs, Main, VerdictKinds
  <2>5. CASE Publish
    BY <2>5 DEF Publish, Goto, MainPCs, RoundInv
  <2>6. CASE NotifyStart \/ NotifyStop
    BY <2>6 DEF NotifyStart, NotifyStop, WakeAll, Goto, MainPCs, WorkerPCs
  <2>7. CASE Await \/ Return
    BY <2>7 DEF Await, Return, Goto, MainPCs
  <2>8. CASE Collect
    <3>1. \A k : Reporting(events, k) # {} => First(Reporting(events, k)) \in Workers
      BY FirstIsMember DEF Reporting
    <3>2. verdict' \in Verdicts
      BY <2>8, <3>1, VerdictType DEF Collect, Saw, Rethrow, Throw, Goto, VerdictKinds
    <3>3. main' \in MainPCs
      BY <2>8 DEF Collect, Saw, Rethrow, Throw, Goto, MainPCs
    <3>4. QED BY <2>8, <3>2, <3>3 DEF Collect
  <2>9. CASE SampleInvariants \/ CheckFinal
    BY <2>9, VerdictType
    DEF SampleInvariants, CheckFinal, Throw, Goto, MainPCs, Main, VerdictKinds
  <2>10. CASE Stop
    BY <2>10 DEF Stop, Goto, MainPCs
  <2>11. CASE Join
    BY <2>11 DEF Join
  <2>12. QED
    BY <1>1, <2>1, <2>2, <2>3, <2>4, <2>5, <2>6, <2>7, <2>8, <2>9, <2>10, <2>11
    DEF MainNext
<1>2. ASSUME NEW w \in Workers, WorkerNext(w) PROVE TypeOK'
  <2> USE DEF Move, WorkerPCs
  <2>1. CASE WaitStart(w)
    BY <2>1 DEF WaitStart
  <2>2. CASE NextRule(w)
    BY <2>2 DEF NextRule, EndRound, EventKinds
  <2>3. CASE ApplyRule(w)
    BY <2>3 DEF ApplyRule, EndRound, EventKinds
  <2>4. CASE RejectRule(w)
    BY <2>4 DEF RejectRule
  <2>5. CASE Report(w)
    BY <2>5 DEF Report, EventKinds
  <2>6. CASE NotifyDone(w)
    BY <2>6 DEF NotifyDone, MainPCs
  <2>7. QED BY <1>2, <2>1, <2>2, <2>3, <2>4, <2>5, <2>6 DEF WorkerNext
<1>3. CASE Spurious
  BY <1>3 DEF Spurious, SpuriousDone, SpuriousStart, Move, Goto, MainPCs, WorkerPCs
<1>4. CASE UNCHANGED vars
  BY <1>4 DEF vars
<1>5. QED BY <1>1, <1>2, <1>3, <1>4 DEF Next

\* What no worker changes: it moves the main thread only to wake it.
LEMMA WorkerStep ==
  ASSUME NEW w \in Workers, WorkerNext(w)
  PROVE  /\ \/ main' = main
            \/ main = "asleep" /\ main' = "await"
         /\ UNCHANGED <<started, joined, verdict, round_number, stop>>
<1> USE DEF mainVars, roundState
<1>1. CASE WaitStart(w)
  BY <1>1 DEF WaitStart
<1>2. CASE NextRule(w) 
  BY <1>2 DEF NextRule
<1>3. CASE ApplyRule(w)
  BY <1>3 DEF ApplyRule
<1>4. CASE RejectRule(w)
  BY <1>4 DEF RejectRule
<1>5. CASE Report(w)
  BY <1>5 DEF Report
<1>6. CASE NotifyDone(w)
  BY <1>6 DEF NotifyDone
<1>7. QED BY <1>1, <1>2, <1>3, <1>4, <1>5, <1>6 DEF WorkerNext

\* Once a thread is started one worker fewer is unborn.
LEMMA WorkersBorn ==
  ASSUME TypeOK, StartInv, StartWorker
  PROVE  \A v \in Workers : worker'[v] = "unborn" <=> v >= started'
<1>1. started \in Nat
  BY NAssumption DEF TypeOK
<1>2. started' = started + 1
  BY DEF StartWorker
<1>3. \A v \in Workers : worker'[v] = IF v = started THEN "check" ELSE worker[v]
  BY DEF StartWorker, TypeOK
<1>4. \A v \in Workers : worker[v] = "unborn" <=> v >= started
  BY DEF StartInv
<1>5. \A v \in Workers : v \in Int
  BY NAssumption DEF Workers
<1> QED BY <1>1, <1>2, <1>3, <1>4, <1>5

LEMMA StartStep ==
  TypeOK /\ StartInv /\ RoundInv /\ StopInv /\ [Next]_vars => StartInv'
<1> SUFFICES ASSUME TypeOK, StartInv, RoundInv, StopInv, [Next]_vars
             PROVE  StartInv'
  OBVIOUS
<1> USE DEF TypeOK, StartInv, Counting, Between, Waiting, mainVars, roundState,
            workerVars, engine, Workers
<1>1. ASSUME MainNext PROVE StartInv'
  <2>1. CASE Create \/ CheckInitial
    BY <2>1 DEF Create, CheckInitial, Raise, Goto
  <2>2. CASE StartWorker
    <3>1. started' = started + 1 /\ main' = main /\ main = "spawn"
      BY <2>2 DEF StartWorker
    <3>2. \A v \in Workers : worker'[v] = "unborn" <=> v >= started'
      BY <2>2, WorkersBorn
    <3>3. QED BY <3>1, <3>2
  <2>3. CASE StartFails
    BY <2>3 DEF StartFails
  <2>8. CASE AllStarted
    BY <2>8 DEF AllStarted, Goto
  <2>4. CASE NextGroup \/ SampleInvariants \/ CheckFinal \/ Collect
    BY <2>4 DEF NextGroup, SampleInvariants, CheckFinal, Collect, Saw, Rethrow, Throw, Goto
  <2>5. CASE Publish \/ Await \/ Stop \/ Join \/ Return
    BY <2>5 DEF Publish, Await, Stop, Join, Return, Goto
  <2>6. CASE NotifyStart \/ NotifyStop
    BY <2>6 DEF NotifyStart, NotifyStop, WakeAll, Goto
  <2>7. QED BY <1>1, <2>1, <2>2, <2>3, <2>4, <2>5, <2>6, <2>8 DEF MainNext
<1>2. ASSUME NEW w \in Workers, WorkerNext(w) PROVE StartInv'
  <2>1. \/ main' = main
        \/ main = "asleep" /\ main' = "await"
    BY <1>2, WorkerStep
  <2>2. started' = started
    BY <1>2, WorkerStep
  <2>3. \A v \in Workers : worker'[v] = "unborn" <=> worker[v] = "unborn"
    <3> USE DEF Move, At
    <3>1. CASE WaitStart(w)
      BY <3>1 DEF WaitStart
    <3>2. CASE NextRule(w)
      BY <3>2 DEF NextRule, EndRound
    <3>3. CASE ApplyRule(w)
      BY <3>3 DEF ApplyRule, EndRound
    <3>4. CASE RejectRule(w)
      BY <3>4 DEF RejectRule
    <3>5. CASE Report(w)
      BY <3>5 DEF Report
    <3>6. CASE NotifyDone(w)
      BY <3>6 DEF NotifyDone
    <3>7. QED
      BY <1>2, <3>1, <3>2, <3>3, <3>4, <3>5, <3>6 DEF WorkerNext
  <2>4. QED BY <2>1, <2>2, <2>3
<1>3. CASE Spurious
  <2>1. CASE SpuriousDone
    BY <2>1 DEF SpuriousDone, Goto
  <2>2. ASSUME NEW w \in Workers, SpuriousStart(w) PROVE StartInv'
    <3>1. /\ main' = main /\ started' = started
          /\ \A v \in Workers : worker'[v] = "unborn" <=> worker[v] = "unborn"
      BY <2>2 DEF SpuriousStart, Move, At
    <3> QED BY <3>1
  <2> QED BY <1>3, <2>1, <2>2 DEF Spurious
<1>4. CASE UNCHANGED vars
  BY <1>4 DEF vars
<1>5. QED BY <1>1, <1>2, <1>3, <1>4 DEF Next

LEMMA RoundStep ==
  TypeOK /\ StartInv /\ RoundInv /\ StopInv /\ CounterIsReports /\ [Next]_vars
    => RoundInv'
<1> SUFFICES ASSUME TypeOK, StartInv, RoundInv, StopInv, CounterIsReports,
                    [Next]_vars
             PROVE  RoundInv'
  OBVIOUS
<1> USE DEF TypeOK, RoundInv, InRound, Waiting, mainVars, roundState, workerVars,
            engine
<1>1. ASSUME MainNext PROVE RoundInv'
  <2>1. CASE Create \/ CheckInitial
    BY <2>1 DEF Create, CheckInitial, Raise, Goto
  <2>2. CASE StartWorker
    BY <2>2 DEF StartWorker
  <2>3. CASE StartFails \/ AllStarted
    BY <2>3 DEF StartFails, AllStarted, Goto
  <2>4. CASE NextGroup
    BY <2>4 DEF NextGroup, Throw, Goto
  <2>5. CASE Publish
    BY <2>5 DEF Publish, Goto
  <2>6. CASE NotifyStart \/ NotifyStop
    BY <2>6 DEF NotifyStart, NotifyStop, WakeAll, Goto
  <2>7. CASE Await
    <3>1. CASE num_workers_completed = N
      <4>1. Cardinality(Reported) = N
        BY <2>7, <3>1 DEF Await, CounterIsReports
      <4>2. Reported = Workers
        BY <4>1, WorkersFinite, FS_Subset DEF Reported
      <4>3. QED BY <2>7, <4>2 DEF Await, Goto, Reported
    <3>2. CASE num_workers_completed # N
      BY <2>7, <3>2 DEF Await, Goto
    <3>3. QED BY <3>1, <3>2
  <2>8. CASE Collect \/ SampleInvariants \/ CheckFinal
    BY <2>8 DEF Collect, Saw, Rethrow, SampleInvariants, CheckFinal, Throw, Goto
  <2>9. CASE Stop \/ Join \/ Return
    BY <2>9 DEF Stop, Join, Return, Goto
  <2>10. QED
    BY <1>1, <2>1, <2>2, <2>3, <2>4, <2>5, <2>6, <2>7, <2>8, <2>9 DEF MainNext
<1>2. ASSUME NEW w \in Workers, WorkerNext(w) PROVE RoundInv'
  <2> USE DEF Move, At
  <2>1. CASE WaitStart(w)
    BY <2>1 DEF WaitStart
  <2>2. CASE NextRule(w)
    BY <2>2 DEF NextRule, EndRound
  <2>3. CASE ApplyRule(w)
    BY <2>3 DEF ApplyRule, EndRound
  <2>4. CASE RejectRule(w)
    BY <2>4 DEF RejectRule
  <2>5. CASE Report(w)
    BY <2>5 DEF Report
  <2>6. CASE NotifyDone(w)
    BY <2>6 DEF NotifyDone
  <2>7. QED BY <1>2, <2>1, <2>2, <2>3, <2>4, <2>5, <2>6 DEF WorkerNext
<1>3. CASE Spurious
  BY <1>3 DEF Spurious, SpuriousDone, SpuriousStart, Move, Goto, At
<1>4. CASE UNCHANGED vars
  BY <1>4 DEF vars
<1>5. QED BY <1>1, <1>2, <1>3, <1>4 DEF Next

LEMMA StopStep ==
  TypeOK /\ StartInv /\ RoundInv /\ StopInv /\ [Next]_vars => StopInv'
<1> SUFFICES ASSUME TypeOK, StartInv, RoundInv, StopInv, [Next]_vars
             PROVE  StopInv'
  OBVIOUS
<1> USE DEF TypeOK, StopInv, mainVars, roundState, workerVars, engine
<1>1. ASSUME MainNext PROVE StopInv'
  <2>1. CASE Create \/ CheckInitial
    BY <2>1 DEF Create, CheckInitial, Raise, Goto, StartInv
  <2>2. CASE StartWorker
    BY <2>2 DEF StartWorker, StartInv
  <2>3. CASE StartFails \/ AllStarted
    BY <2>3 DEF StartFails, AllStarted, Goto
  <2>4. CASE NextGroup \/ SampleInvariants \/ CheckFinal \/ Collect
    BY <2>4 DEF NextGroup, SampleInvariants, CheckFinal, Collect, Saw, Rethrow, Throw, Goto
  <2>5. CASE Publish \/ Await \/ Stop
    BY <2>5 DEF Publish, Await, Stop, Goto
  <2>6. CASE NotifyStart \/ NotifyStop
    BY <2>6 DEF NotifyStart, NotifyStop, WakeAll, Goto
  <2>7. CASE Join \/ Return
    BY <2>7 DEF Join, Return, Goto, StartInv, Workers
  <2>8. QED BY <1>1, <2>1, <2>2, <2>3, <2>4, <2>5, <2>6, <2>7 DEF MainNext
<1>2. ASSUME NEW w \in Workers, WorkerNext(w) PROVE StopInv'
  <2>1. \/ main' = main
        \/ main = "asleep" /\ main' = "await"
    BY <1>2, WorkerStep
  <2>2. UNCHANGED <<started, joined, stop>>
    BY <1>2, WorkerStep
  <2>3. \A v \in Workers : /\ worker[v] = "exited" => worker'[v] = "exited"
                           /\ worker'[v] = "exited" => (worker[v] = "exited" \/ stop)
    BY <1>2 DEF WorkerNext, WaitStart, NextRule, ApplyRule, RejectRule, Report,
                NotifyDone, EndRound, Move, At
  <2>4. QED BY <2>1, <2>2, <2>3
<1>3. CASE Spurious
  BY <1>3 DEF Spurious, SpuriousDone, SpuriousStart, Move, Goto, At
<1>4. CASE UNCHANGED vars
  BY <1>4 DEF vars
<1>5. QED BY <1>1, <1>2, <1>3, <1>4 DEF Next

LEMMA VerdictStep ==
  TypeOK /\ StartInv /\ RoundInv /\ VerdictInv /\ [Next]_vars => VerdictInv'
<1> SUFFICES ASSUME TypeOK, StartInv, RoundInv, VerdictInv, [Next]_vars
             PROVE  VerdictInv'
  OBVIOUS
<1> USE DEF TypeOK, VerdictInv, NoFailureSwallowed, Ending, Between, mainVars,
            roundState, workerVars, engine
<1>1. ASSUME MainNext PROVE VerdictInv'
  <2>1. CASE Create \/ CheckInitial
    BY <2>1, VerdictType DEF Create, CheckInitial, Raise, Goto
  <2>2. CASE StartWorker
    BY <2>2 DEF StartWorker
  <2>3. CASE StartFails \/ AllStarted
    <3>1. CASE StartFails
      BY <3>1, VerdictType DEF StartFails
    <3>2. CASE AllStarted
      BY <3>2 DEF AllStarted, Goto
    <3>3. QED BY <2>3, <3>1, <3>2
  <2>4. CASE NextGroup
    BY <2>4, VerdictType DEF NextGroup, Throw, Goto
  <2>5. CASE Publish \/ Await \/ Stop
    BY <2>5 DEF Publish, Await, Stop, Goto
  <2>6. CASE NotifyStart \/ NotifyStop
    BY <2>6 DEF NotifyStart, NotifyStop, Goto
  <2>7. CASE Collect
    <3>1. ASSUME NEW k \in {"Control", "Panicked"}, Reporting(events, k) # {}
          PROVE  events[First(Reporting(events, k))] = k
      BY <3>1, FirstIsMember DEF Reporting
    <3>2. CASE main' = "sample"
      <4>1. /\ Reporting(events, "Control") = {}
            /\ Reporting(events, "Overrun") = {}
            /\ Reporting(events, "Invalid") = {}
            /\ Reporting(events, "Panicked") = {}
        BY <2>7, <3>2 DEF Collect, Saw, Rethrow, Throw
      <4>2. \A w \in Workers : events[w] = "RoundDone"
        BY <4>1 DEF Reporting, EventKinds
      <4>3. QED BY <2>7, <3>2, <4>2, VerdictType DEF Collect, Saw, Rethrow, Throw, Goto
    <3>3. CASE main' = "stop"
      <4>1. \/ \E k \in {"Control", "Panicked"} :
                 /\ Reporting(events, k) # {}
                 /\ verdict' = Verdict(k, First(Reporting(events, k)))
            \/ \E k \in {"Overrun", "Invalid"} : verdict' = Verdict(k, Main)
        BY <2>7, <3>3 DEF Collect, Saw, Rethrow, Throw, Goto
      <4>2. events' = events
        BY <2>7 DEF Collect
      <4>3. QED BY <3>1, <3>3, <4>1, <4>2, VerdictType
    <3>4. QED BY <2>7, <3>2, <3>3 DEF Collect, Saw, Rethrow, Throw, Goto
  <2>8. CASE SampleInvariants \/ CheckFinal
    BY <2>8, VerdictType DEF SampleInvariants, CheckFinal, Throw, Goto
  <2>9. CASE Join \/ Return
    BY <2>9 DEF Join, Return, Goto
  <2>10. QED
    BY <1>1, <2>1, <2>2, <2>3, <2>4, <2>5, <2>6, <2>7, <2>8, <2>9 DEF MainNext
<1>2. ASSUME NEW w \in Workers, WorkerNext(w) PROVE VerdictInv'
  <2>1. /\ \/ main' = main
           \/ main = "asleep" /\ main' = "await"
        /\ verdict' = verdict
    BY <1>2, WorkerStep
  <2>2. CASE Report(w)
    <3>1. main \in Waiting /\ verdict = NoVerdict
      BY <2>2 DEF Report, At, RoundInv, InRound, Waiting
    <3>2. QED BY <2>1, <3>1, VerdictType DEF Waiting, NoVerdict
  <2>3. CASE ~Report(w)
    <3>1. events' = events
      BY <1>2, <2>3 DEF WorkerNext, WaitStart, NextRule, ApplyRule, RejectRule, NotifyDone
    <3>2. QED BY <2>1, <3>1
  <2>4. QED BY <2>2, <2>3
<1>3. CASE Spurious
  BY <1>3 DEF Spurious, SpuriousDone, SpuriousStart, Move, Goto, At
<1>4. CASE UNCHANGED vars
  BY <1>4 DEF vars
<1>5. QED BY <1>1, <1>2, <1>3, <1>4 DEF Next

\* A round's reports are counted one by one, from zero.
LEMMA CounterStep ==
  TypeOK /\ StartInv /\ RoundInv /\ CounterIsReports /\ [Next]_vars
    => CounterIsReports'
<1> SUFFICES ASSUME TypeOK, StartInv, RoundInv, CounterIsReports, [Next]_vars
             PROVE  CounterIsReports'
  OBVIOUS
<1> USE DEF TypeOK, CounterIsReports, mainVars, roundState, workerVars, engine
<1>1. ASSUME MainNext PROVE CounterIsReports'
  <2>1. CASE Publish
    <3>1. main \notin Waiting /\ round_number' = round_number + 1
      BY <2>1 DEF Publish, Waiting
    <3>2. \A w \in Workers : observed_round_number'[w] # round_number'
      BY <2>1, <3>1 DEF Publish, RoundInv
    <3>3. Reported' = {}
      BY <3>2 DEF Reported
    <3>4. num_workers_completed' = 0
      BY <2>1 DEF Publish
    <3>5. QED BY <3>3, <3>4, FS_EmptySet
  <2>2. CASE NotifyStart
    <3>1. Reported' = Reported
      BY <2>2 DEF NotifyStart, WakeAll, Reported, InRound
    <3>2. QED BY <2>2, <3>1 DEF NotifyStart, Goto
  <2>3. CASE Await
    <3>1. Reported' = Reported
      BY <2>3 DEF Await, Reported, InRound
    <3>2. QED BY <2>3, <3>1 DEF Await, Goto
  <2>4. CASE Create \/ CheckInitial \/ StartWorker \/ StartFails \/ AllStarted
    BY <2>4 DEF Create, CheckInitial, StartWorker, StartFails, AllStarted, Raise, Goto
  <2>5. CASE NextGroup \/ Collect \/ SampleInvariants \/ CheckFinal
    BY <2>5 DEF NextGroup, Collect, Saw, Rethrow, SampleInvariants, CheckFinal, Throw, Goto
  <2>6. CASE Stop \/ NotifyStop \/ Join \/ Return
    BY <2>6 DEF Stop, NotifyStop, Join, Return, Goto
  <2>7. QED BY <1>1, <2>1, <2>2, <2>3, <2>4, <2>5, <2>6 DEF MainNext
<1>2. ASSUME NEW w \in Workers, WorkerNext(w) PROVE CounterIsReports'
  <2>1. /\ \/ main' = main
           \/ main = "asleep" /\ main' = "await"
        /\ round_number' = round_number
    BY <1>2, WorkerStep
  <2>2. CASE Report(w)
    <3>1. Reported' = Reported \cup {w} /\ w \notin Reported
      BY <2>2 DEF Report, At, Move, Reported, InRound, RoundInv
    <3>2. IsFiniteSet(Reported)
      BY WorkersFinite, FS_Subset DEF Reported
    <3>3. Cardinality(Reported') = Cardinality(Reported) + 1
      BY <3>1, <3>2, FS_AddElement
    <3>4. main' = main /\ num_workers_completed' = num_workers_completed + 1
      BY <2>2 DEF Report
    <3>5. QED BY <3>3, <3>4
  <2>3. CASE ~Report(w)
    <3>1. num_workers_completed' = num_workers_completed
      BY <1>2, <2>3 DEF WorkerNext, WaitStart, NextRule, ApplyRule, RejectRule, NotifyDone
    <3>2. \A v \in Workers : v \in Reported' <=> v \in Reported
      <4> USE DEF Reported, InRound, Move, At
      <4>1. CASE WaitStart(w)
        BY <4>1 DEF WaitStart
      <4>2. CASE NextRule(w)
        BY <4>2 DEF NextRule, EndRound
      <4>3. CASE ApplyRule(w)
        BY <4>3 DEF ApplyRule, EndRound
      <4>4. CASE RejectRule(w)
        BY <4>4 DEF RejectRule
      <4>5. CASE NotifyDone(w)
        BY <4>5 DEF NotifyDone
      <4>6. QED BY <1>2, <2>3, <4>1, <4>2, <4>3, <4>4, <4>5 DEF WorkerNext
    <3>3. Reported' = Reported
      BY <3>2 DEF Reported
    <3>4. QED BY <2>1, <3>1, <3>3
  <2>4. QED BY <2>2, <2>3
<1>3. CASE Spurious
  <2>1. Reported' = Reported
    BY <1>3 DEF Spurious, SpuriousDone, SpuriousStart, Move, At, Reported, InRound
  <2>2. QED BY <1>3, <2>1 DEF Spurious, SpuriousDone, SpuriousStart, Goto
<1>4. CASE UNCHANGED vars
  BY <1>4 DEF vars, Reported, InRound
<1>5. QED BY <1>1, <1>2, <1>3, <1>4 DEF Next

\* The inductive invariant holds of every reachable state.
THEOREM Inductive == Spec => []IInv
<1>1. IInv /\ [Next]_vars => IInv'
  BY TypeStep, StartStep, RoundStep, StopStep, VerdictStep, CounterStep DEF IInv
<1>2. QED BY InitIInv, <1>1, PTL DEF Spec

-----------------------------------------------------------------------------
\* Every variable of run_concurrent keeps its type.
THEOREM TypeCorrect == Spec => []TypeOK
<1>1. IInv => TypeOK  BY DEF IInv
<1>2. QED BY Inductive, <1>1, PTL

\* While the main thread checks invariants, reads the events or asks for the
\* next group, no worker is inside a round: the machine needs no lock.
THEOREM RunsAlone == Spec => []MainRunsAlone
<1>1. IInv => MainRunsAlone
  BY DEF IInv, RoundInv, MainRunsAlone, Waiting
<1>2. QED BY Inductive, <1>1, PTL

\* num_workers_completed counts the reports of the current round, so that the
\* wait for it is a wait for the round.
THEOREM CountsReports == Spec => []CounterIsReports
<1>1. IInv => CounterIsReports  BY DEF IInv
<1>2. QED BY Inductive, <1>1, PTL

\* The events the main thread acts on were all stored in the round it opened.
THEOREM FreshEvents == Spec => []EventsAreFresh
<1>1. IInv => EventsAreFresh
  BY DEF IInv, RoundInv, EventsAreFresh, Waiting, Reported
<1>2. QED BY Inductive, <1>1, PTL

\* Rules of two groups never overlap, whatever the number of workers.
THEOREM GroupsNeverOverlap == Spec => []OneGroupAtATime
<1>1. IInv => OneGroupAtATime
  BY DEF IInv, RoundInv, OneGroupAtATime
<1>2. QED BY Inductive, <1>1, PTL

\* The engine never refuses a rejection for want of an outstanding rule.
THEOREM RejectionsAccepted == Spec => []RejectsOutstandingRule
<1>1. IInv => RejectsOutstandingRule
  BY DEF IInv, RoundInv, RejectsOutstandingRule
<1>2. QED BY Inductive, <1>1, PTL

\* A failure of any worker in any round makes the call fail, and the exception
\* that is raised again is the one that worker reported.
THEOREM FailuresSurface == Spec => []NoFailureSwallowed
<1>1. IInv => NoFailureSwallowed  BY DEF IInv, VerdictInv
<1>2. QED BY Inductive, <1>1, PTL

\* No thread survives the call whose locals it refers to.
THEOREM ThreadsJoined == Spec => []NoThreadOutlivesCall
<1>1. IInv => NoThreadOutlivesCall
  <2> SUFFICES ASSUME IInv, main = "returned", NEW w \in Workers
               PROVE  worker[w] \in {"unborn", "exited"}
    BY DEF NoThreadOutlivesCall
  <2>1. w \in Nat /\ w < N  BY DEF Workers
  <2>2. started \in {0, N} /\ joined = started
    BY DEF IInv, StartInv, StopInv
  <2>3. CASE started = 0
    BY <2>1, <2>3 DEF IInv, StartInv
  <2>4. CASE started = N
    BY <2>1, <2>2, <2>4 DEF IInv, StopInv
  <2>5. QED BY <2>2, <2>3, <2>4
<1>2. QED BY Inductive, <1>1, PTL

\* A worker takes the rounds one by one and enters none once stopped.
THEOREM RoundsInOrder == Spec => NoRoundSkipped
<1> DEFINE InOrder ==
      \A w \in Workers :
        observed_round_number'[w] # observed_round_number[w] =>
          /\ observed_round_number'[w] = observed_round_number[w] + 1
          /\ ~stop
<1>1. ASSUME IInv, [Next]_vars PROVE [InOrder]_vars
  <2> USE DEF IInv, TypeOK, mainVars, roundState, workerVars, engine
  <2>1. ASSUME NEW w \in Workers, WaitStart(w) PROVE InOrder
    BY <1>1, <2>1 DEF WaitStart, RoundInv
  <2>2. CASE \/ MainNext \/ Spurious
             \/ \E w \in Workers : WorkerNext(w) /\ ~WaitStart(w)
    <3>1. observed_round_number' = observed_round_number
      <4>1. CASE MainNext
        BY <4>1 DEF MainNext, Create, CheckInitial, StartWorker, StartFails,
           AllStarted, NextGroup, Publish, NotifyStart, Await, Collect,
           SampleInvariants, CheckFinal, Stop, NotifyStop, Join, Return
      <4>2. CASE Spurious
        BY <4>2 DEF Spurious, SpuriousDone, SpuriousStart
      <4>3. ASSUME NEW w \in Workers, WorkerNext(w), ~WaitStart(w)
            PROVE  observed_round_number' = observed_round_number
        BY <4>3 DEF WorkerNext, NextRule, ApplyRule, RejectRule, Report, NotifyDone
      <4>4. QED BY <2>2, <4>1, <4>2, <4>3
    <3>2. QED BY <3>1
  <2>3. QED BY <1>1, <2>1, <2>2 DEF Next
<1>2. QED BY Inductive, <1>1, PTL DEF Spec, NoRoundSkipped

-----------------------------------------------------------------------------
(* What the ends of the rounds and of the call rest on: as long as the call   *)
(* is not over some thread can take a step, and every step that is not a      *)
(* spurious wakeup brings the end nearer.                                     *)

Over == main \in {"returned", "terminated"}

MainCanStep ==
  \/ main \notin {"asleep", "join", "returned", "terminated"}
  \/ main = "join" /\ (joined = N \/ worker[joined] = "exited")

WorkerCanStep(w) ==
  main # "terminated" /\ worker[w] \notin {"unborn", "asleep", "exited"}

SomeoneCanStep == Over \/ MainCanStep \/ \E w \in Workers : WorkerCanStep(w)

\* No wakeup is lost: the main thread sleeps through the last report, and a
\* worker through a new round or the stop, only while the thread that is to
\* notify it is about to.
NoWakeupLost ==
  /\ main = "asleep" /\ num_workers_completed = N =>
       \E w \in Workers : worker[w] = "notify"
  /\ \A w \in Workers :
       worker[w] = "asleep" /\ (stop \/ observed_round_number[w] # round_number) =>
         main \in {"notify_start", "notify_stop"}

\* How many steps a worker can still take in its round, at most, ...
Place(w) ==
  LET rules == MaxRules - handed[w]
  IN  CASE worker[w] = "exited" -> 0
        [] worker[w] = "asleep" -> 1
        [] worker[w] = "check" -> 2
        [] worker[w] = "unborn" -> 3
        [] worker[w] = "notify" -> 4
        [] worker[w] = "report" -> 5
        [] worker[w] = "next_rule" -> 6 + 3 * rules
        [] worker[w] = "reject" -> 7 + 3 * rules
        [] worker[w] = "rule" -> 8 + 3 * rules

\* ... and in those that follow.
RoundsAhead(w) == (5 + 3 * MaxRules) * (MaxRounds - observed_round_number[w])

WorkerSteps == [w \in Workers |-> Place(w) + RoundsAhead(w)]

\* The same of the main thread; its notifications let every worker step again.
MainPlace ==
  CASE main \in {"returned", "terminated"} -> 0
    [] main = "join" -> 1 + (N - joined)
    [] main = "notify_stop" -> 2 * N + 2
    [] main = "stop" -> 2 * N + 3
    [] main \in {"final", "publish"} -> 2 * N + 4
    [] main = "next_group" -> 2 * N + 5
    [] main \in {"sample", "spawn"} -> 2 * N + 6
    [] main \in {"collect", "initial"} -> 2 * N + 7
    [] main \in {"asleep", "create"} -> 2 * N + 8
    [] main = "await" -> 2 * N + 9
    [] main = "notify_start" -> 3 * N + 10

RoundsToOpen == (N + 7) * (MaxRounds - round_number)

StepsLeft == MainPlace + RoundsToOpen + SumBelow(WorkerSteps, N)

LEMMA WakeupStep == IInv /\ IInv' /\ NoWakeupLost /\ [Next]_vars => NoWakeupLost'
<1> SUFFICES ASSUME IInv, IInv', NoWakeupLost, [Next]_vars PROVE NoWakeupLost'
  OBVIOUS
<1> USE DEF IInv, TypeOK, mainVars, roundState, workerVars, engine
<1>1. ASSUME MainNext PROVE NoWakeupLost'
  <2>1. CASE \/ Create \/ CheckInitial \/ AllStarted \/ NextGroup \/ Await
             \/ SampleInvariants \/ CheckFinal \/ Collect \/ Join \/ Return
    BY <2>1 DEF NoWakeupLost, Create, CheckInitial, AllStarted, NextGroup, Await,
                SampleInvariants, CheckFinal, Collect, Saw, Rethrow, Throw, Join,
                Return, Raise, Goto
  <2>2. CASE Publish \/ Stop
    BY <2>2 DEF NoWakeupLost, Publish, Stop, Goto
  <2>3. CASE NotifyStart \/ NotifyStop
    BY <2>3 DEF NoWakeupLost, NotifyStart, NotifyStop, WakeAll, Goto
  <2>4. CASE StartWorker
    BY <2>4 DEF NoWakeupLost, StartWorker
  <2>5. CASE StartFails
    BY <2>5 DEF NoWakeupLost, StartFails
  <2> QED BY <1>1, <2>1, <2>2, <2>3, <2>4, <2>5 DEF MainNext
<1>2. ASSUME NEW w \in Workers, WorkerNext(w) PROVE NoWakeupLost'
  <2> USE DEF At, Move
  <2>1. CASE WaitStart(w)
    BY <2>1 DEF NoWakeupLost, WaitStart
  <2>2. CASE NextRule(w)
    BY <2>2 DEF NoWakeupLost, NextRule, EndRound
  <2>3. CASE ApplyRule(w)
    BY <2>3 DEF NoWakeupLost, ApplyRule, EndRound
  <2>4. CASE RejectRule(w)
    BY <2>4 DEF NoWakeupLost, RejectRule
  <2>5. CASE Report(w)
    BY <2>5 DEF NoWakeupLost, Report
  <2>6. CASE NotifyDone(w)
    BY <2>6 DEF NoWakeupLost, NotifyDone
  <2> QED BY <1>2, <2>1, <2>2, <2>3, <2>4, <2>5, <2>6 DEF WorkerNext
<1>3. CASE Spurious
  BY <1>3 DEF NoWakeupLost, Spurious, SpuriousDone, SpuriousStart, Move, Goto, At
<1>4. CASE UNCHANGED vars
  BY <1>4 DEF vars, NoWakeupLost
<1> QED BY <1>1, <1>2, <1>3, <1>4 DEF Next

\* A thread that sleeps while what it waits for has happened is about to be
\* notified: neither condition variable loses a wakeup.
THEOREM WakeupsKept == Spec => []NoWakeupLost
<1>1. Init => NoWakeupLost
  BY DEF Init, NoWakeupLost
<1>2. QED BY <1>1, Inductive, WakeupStep, PTL DEF Spec

\* The threads never all wait for one another: as long as the call is not over
\* one of them can take a step that is not a spurious wakeup.
THEOREM NobodyStuck == Spec => []SomeoneCanStep
<1>1. IInv /\ NoWakeupLost => SomeoneCanStep
  <2> SUFFICES ASSUME IInv, NoWakeupLost, ~Over, ~MainCanStep
               PROVE  \E w \in Workers : WorkerCanStep(w)
    BY DEF SomeoneCanStep
  <2> USE DEF IInv, TypeOK
  <2>1. main \in {"asleep", "join"}
    BY DEF MainCanStep, Over
  <2>2. started = N /\ \A w \in Workers : worker[w] # "unborn"
    BY <2>1 DEF StartInv, Counting, Waiting, Workers
  <2>3. CASE main = "join"
    <3>1. joined \in Workers /\ worker[joined] # "exited"
      BY <2>3 DEF MainCanStep, Workers
    <3>2. stop
      BY <2>3 DEF StopInv
    <3>3. worker[joined] # "asleep"
      BY <2>3, <3>1, <3>2 DEF NoWakeupLost
    <3> QED BY <2>2, <2>3, <3>1, <3>3 DEF WorkerCanStep
  <2>4. CASE main = "asleep" /\ num_workers_completed = N
    BY <2>4 DEF NoWakeupLost, WorkerCanStep
  <2>5. CASE main = "asleep" /\ num_workers_completed # N
    <3>1. Reported # Workers
      BY <2>5, WorkersFinite DEF CounterIsReports
    <3>2. PICK w \in Workers : w \notin Reported
      BY <3>1 DEF Reported
    <3>3. observed_round_number[w] # round_number \/ InRound(w)
      BY <3>2 DEF Reported
    <3>4. worker[w] # "exited"
      BY <2>5 DEF StopInv
    <3>5. worker[w] # "asleep"
      BY <2>5, <3>3 DEF NoWakeupLost, InRound
    <3> QED BY <2>2, <2>5, <3>4, <3>5 DEF WorkerCanStep
  <2> QED BY <2>1, <2>3, <2>4, <2>5
<1>2. QED BY Inductive, WakeupsKept, <1>1, PTL

LEMMA Products ==
  ASSUME NEW a \in Nat, NEW b \in Nat
  PROVE  /\ a * b \in Nat
         /\ b > 0 => a * b = a * (b - 1) + a
OBVIOUS

StepsTyped ==
  /\ WorkerSteps \in [0 .. N - 1 -> Nat]
  /\ MainPlace \in Nat
  /\ RoundsToOpen \in Nat
  /\ \A w \in Workers : Place(w) \in Nat /\ RoundsAhead(w) \in Nat

LEMMA StepsType == TypeOK => StepsTyped
<1> SUFFICES ASSUME TypeOK PROVE StepsTyped
  OBVIOUS
<1> USE DEF TypeOK
<1>1. ASSUME NEW w \in Workers PROVE Place(w) \in Nat /\ RoundsAhead(w) \in Nat
  <2>1. handed[w] \in 0 .. MaxRules /\ worker[w] \in WorkerPCs
    OBVIOUS
  <2>2. Place(w) \in Nat
    BY <2>1 DEF Place, WorkerPCs
  <2>3. MaxRounds - observed_round_number[w] \in Nat /\ 5 + 3 * MaxRules \in Nat
    OBVIOUS
  <2> QED BY <2>2, <2>3, Products DEF RoundsAhead
<1>2. MainPlace \in Nat
  BY DEF MainPlace, MainPCs
<1>3. MaxRounds - round_number \in Nat /\ N + 7 \in Nat
  OBVIOUS
<1>4. RoundsToOpen \in Nat
  BY <1>3, Products DEF RoundsToOpen
<1>5. \A w \in Workers : Place(w) + RoundsAhead(w) \in Nat
  BY <1>1
<1> QED BY <1>1, <1>2, <1>4, <1>5 DEF StepsTyped, WorkerSteps, Workers

LEMMA StepsTypeNext == TypeOK' => StepsTyped'
BY StepsType, PTL

\* A step after which the workers have as many steps left as before.
LEMMA MainAlone ==
  ASSUME TypeOK, TypeOK', \A w \in Workers : Place(w)' = Place(w),
         UNCHANGED observed_round_number,
         MainPlace' + RoundsToOpen' < MainPlace + RoundsToOpen
  PROVE  StepsLeft' < StepsLeft
<1>1. \A w \in Workers : RoundsAhead(w)' = RoundsAhead(w)
  BY DEF RoundsAhead
<1>2. WorkerSteps' = WorkerSteps
  BY <1>1 DEF WorkerSteps
<1>3. SumBelow(WorkerSteps, N) \in Nat
  BY StepsType, StepsTypeNext, SumType DEF StepsTyped
<1>4. SumBelow(WorkerSteps, N)' = SumBelow(WorkerSteps, N)
  BY <1>2
<1>5. PICK s \in Nat : s = SumBelow(WorkerSteps, N) /\ s = SumBelow(WorkerSteps, N)'
  BY <1>3, <1>4
<1>6. /\ MainPlace \in Nat /\ RoundsToOpen \in Nat
      /\ MainPlace' \in Nat /\ RoundsToOpen' \in Nat
  BY StepsType, StepsTypeNext DEF StepsTyped
<1>7. PICK m \in Nat, r \in Nat, n \in Nat, q \in Nat :
        m = MainPlace /\ r = RoundsToOpen /\ n = MainPlace' /\ q = RoundsToOpen'
  BY <1>6
<1>8. StepsLeft = m + r + s /\ StepsLeft' = n + q + s
  BY <1>5, <1>7 DEF StepsLeft
<1>9. n + q < m + r
  BY <1>7
<1>10. n + q + s < m + r + s
  BY <1>9
<1> QED BY <1>8, <1>10

\* A step of the main thread that lets every worker step once more.
LEMMA MainWakes ==
  ASSUME TypeOK, TypeOK', \A w \in Workers : Place(w)' <= Place(w) + 1,
         UNCHANGED <<observed_round_number, round_number>>,
         MainPlace' + N < MainPlace
  PROVE  StepsLeft' < StepsLeft
<1>1. \A w \in Workers : RoundsAhead(w)' = RoundsAhead(w)
  BY DEF RoundsAhead
<1>2. \A w \in Workers : WorkerSteps'[w] <= WorkerSteps[w] + 1
  <2> SUFFICES ASSUME NEW w \in Workers PROVE WorkerSteps'[w] <= WorkerSteps[w] + 1
    OBVIOUS
  <2>1. PICK a \in Nat, b \in Nat, c \in Nat : a = Place(w) /\ b = Place(w)' /\ c = RoundsAhead(w)
    BY StepsType, StepsTypeNext DEF StepsTyped
  <2>2. WorkerSteps[w] = a + c /\ WorkerSteps'[w] = b + c
    BY <1>1, <2>1 DEF WorkerSteps
  <2> QED BY <2>1, <2>2
<1>3. /\ WorkerSteps \in [0 .. N - 1 -> Nat] /\ WorkerSteps' \in [0 .. N - 1 -> Nat]
      /\ MainPlace \in Nat /\ RoundsToOpen \in Nat /\ MainPlace' \in Nat
  BY StepsType, StepsTypeNext DEF StepsTyped
<1>4. PICK s \in Nat, t \in Nat : s = SumBelow(WorkerSteps, N) /\ t = SumBelow(WorkerSteps', N)
  BY <1>3, SumType
<1>5. t <= s + N
  <2>1. N \in Nat \ {0} /\ \A v \in 0 .. N - 1 : WorkerSteps'[v] <= WorkerSteps[v] + 1
    BY <1>2 DEF Workers
  <2>2. SumBelow(WorkerSteps', N) <= SumBelow(WorkerSteps, N) + N
    BY <1>3, <2>1, SumGrowth
  <2> QED BY <1>4, <2>2
<1>6. RoundsToOpen' = RoundsToOpen
  BY DEF RoundsToOpen
<1>7. PICK m \in Nat, r \in Nat, n \in Nat :
        m = MainPlace /\ r = RoundsToOpen /\ n = MainPlace'
  BY <1>3
<1>8. StepsLeft = m + r + s /\ StepsLeft' = n + r + t
  BY <1>4, <1>6, <1>7 DEF StepsLeft
<1>9. n + N < m
  BY <1>7
<1>10. n + r + t < m + r + s
  BY <1>5, <1>9
<1> QED BY <1>8, <1>10

\* A step of one worker, which may wake the main thread.
LEMMA OneWorker ==
  ASSUME TypeOK, TypeOK', NEW w \in Workers, NEW d \in {0, 1},
         \A v \in Workers : v # w => WorkerSteps'[v] = WorkerSteps[v],
         UNCHANGED round_number, MainPlace' = MainPlace + d,
         WorkerSteps'[w] + d < WorkerSteps[w]
  PROVE  StepsLeft' < StepsLeft
<1>1. /\ WorkerSteps \in [0 .. N - 1 -> Nat] /\ WorkerSteps' \in [0 .. N - 1 -> Nat]
      /\ MainPlace \in Nat /\ RoundsToOpen \in Nat /\ MainPlace' \in Nat
  BY StepsType, StepsTypeNext DEF StepsTyped
<1>2. PICK s \in Nat, t \in Nat : s = SumBelow(WorkerSteps, N) /\ t = SumBelow(WorkerSteps', N)
  BY <1>1, SumType
<1>3. PICK a \in Nat, b \in Nat : a = WorkerSteps[w] /\ b = WorkerSteps'[w]
  BY <1>1 DEF Workers
<1>4. t + a = s + b
  <2>1. w \in 0 .. N - 1 /\ \A v \in 0 .. N - 1 : v # w => WorkerSteps[v] = WorkerSteps'[v]
    BY DEF Workers
  <2>2. SumBelow(WorkerSteps', N) + WorkerSteps[w] = SumBelow(WorkerSteps, N) + WorkerSteps'[w]
    BY <1>1, <2>1, SumChange
  <2> QED BY <1>2, <1>3, <2>2
<1>5. RoundsToOpen' = RoundsToOpen
  BY DEF RoundsToOpen
<1>6. PICK m \in Nat, r \in Nat, n \in Nat :
        m = MainPlace /\ r = RoundsToOpen /\ n = MainPlace'
  BY <1>1
<1>7. StepsLeft = m + r + s /\ StepsLeft' = n + r + t
  BY <1>2, <1>5, <1>6 DEF StepsLeft
<1>8. b + d < a /\ n = m + d
  BY <1>3, <1>6
<1>9. n + r + t < m + r + s
  BY <1>4, <1>8
<1> QED BY <1>7, <1>9

LEMMA MainNearer ==
  ASSUME IInv, IInv', MainNext
  PROVE  StepsLeft' < StepsLeft
<1> USE DEF mainVars, roundState, workerVars, engine
<1>1. TypeOK /\ TypeOK'
  BY DEF IInv
<1>2. /\ N \in Nat \ {0} /\ joined \in 0 .. N
      /\ MainPlace \in Nat /\ RoundsToOpen \in Nat /\ MainPlace' \in Nat
  BY <1>1, StepsType, StepsTypeNext DEF TypeOK, StepsTyped
<1>3. CASE \/ Create \/ CheckInitial \/ StartFails \/ AllStarted \/ Await \/ Collect
           \/ SampleInvariants \/ CheckFinal \/ Stop \/ Join \/ Return
  <2>1. UNCHANGED <<worker, handed, observed_round_number, round_number>>
    BY <1>3 DEF Create, CheckInitial, StartFails, AllStarted, Await, Collect,
                SampleInvariants, CheckFinal, Stop, Join, Return
  <2>2. (\A w \in Workers : Place(w)' = Place(w)) /\ RoundsToOpen' = RoundsToOpen
    BY <2>1 DEF Place, RoundsToOpen
  <2>3. MainPlace' < MainPlace
    <3>1. CASE Create \/ CheckInitial \/ AllStarted
      BY <1>2, <3>1 DEF Create, CheckInitial, AllStarted, Raise, Goto, MainPlace
    <3>2. CASE StartFails
      BY <1>2, <3>2 DEF StartFails, MainPlace
    <3>3. CASE Await \/ Stop
      BY <1>2, <3>3 DEF Await, Stop, Goto, MainPlace
    <3>4. CASE Collect
      <4>1. main = "collect" /\ main' \in {"stop", "sample"}
        BY <3>4 DEF Collect, Rethrow, Throw, Goto
      <4> QED BY <1>2, <4>1 DEF MainPlace
    <3>5. CASE SampleInvariants \/ CheckFinal
      <4>1. \/ main = "sample" /\ main' \in {"stop", "next_group"}
            \/ main = "final" /\ main' = "stop"
        BY <3>5 DEF SampleInvariants, CheckFinal, Throw, Goto
      <4> QED BY <1>2, <4>1 DEF MainPlace
    <3>6. CASE Join
      BY <1>2, <3>6 DEF Join, MainPlace
    <3>7. CASE Return
      BY <1>2, <3>7 DEF Return, Goto, MainPlace
    <3> QED BY <1>3, <3>1, <3>2, <3>3, <3>4, <3>5, <3>6, <3>7
  <2>4. MainPlace' + RoundsToOpen' < MainPlace + RoundsToOpen
    <3>1. PICK m \in Nat, r \in Nat, n \in Nat :
            m = MainPlace /\ r = RoundsToOpen /\ n = MainPlace'
      BY <1>2
    <3>2. n < m
      BY <2>3, <3>1
    <3>3. n + r < m + r
      BY <3>2
    <3> QED BY <2>2, <3>1, <3>3
  <2> QED BY <1>1, <2>1, <2>2, <2>4, MainAlone
<1>4. CASE NextGroup
  <2>1. UNCHANGED <<worker, observed_round_number, round_number>>
    BY <1>4 DEF NextGroup
  <2>2. \A w \in Workers : ~InRound(w)
    BY <1>4 DEF NextGroup, IInv, RoundInv, Waiting
  <2>3. \A w \in Workers : Place(w)' = Place(w)
    BY <1>1, <2>1, <2>2 DEF Place, InRound, TypeOK, WorkerPCs
  <2>4. main = "next_group" /\ main' \in {"publish", "final", "stop"}
    BY <1>4 DEF NextGroup, Throw, Goto
  <2>5. MainPlace' < MainPlace /\ RoundsToOpen' = RoundsToOpen
    BY <1>2, <2>1, <2>4 DEF MainPlace, RoundsToOpen
  <2>6. MainPlace' + RoundsToOpen' < MainPlace + RoundsToOpen
    <3>1. PICK m \in Nat, r \in Nat, n \in Nat :
            m = MainPlace /\ r = RoundsToOpen /\ n = MainPlace'
      BY <1>2
    <3>2. n < m
      BY <2>5, <3>1
    <3>3. n + r < m + r
      BY <3>2
    <3> QED BY <2>5, <3>1, <3>3
  <2> QED BY <1>1, <2>1, <2>3, <2>6, MainAlone
<1>5. CASE Publish
  <2>1. UNCHANGED <<worker, handed, observed_round_number>>
    BY <1>5 DEF Publish
  <2>2. \A w \in Workers : Place(w)' = Place(w)
    BY <2>1 DEF Place
  <2>3. round_number' = round_number + 1 /\ round_number \in Nat /\ round_number < MaxRounds
    BY <1>1, <1>5 DEF Publish, IInv, RoundInv, TypeOK
  <2>4. PICK b \in Nat : b = MaxRounds - round_number /\ b > 0 /\ MaxRounds - round_number' = b - 1
    BY <2>3
  <2>5. RoundsToOpen = (N + 7) * b /\ RoundsToOpen' = (N + 7) * (b - 1)
    BY <2>4 DEF RoundsToOpen
  <2>6. RoundsToOpen = RoundsToOpen' + (N + 7)
    BY <1>2, <2>4, <2>5, Products
  <2>7. MainPlace = 2 * N + 4 /\ MainPlace' = 3 * N + 10
    BY <1>5 DEF Publish, Goto, MainPlace
  <2>8. RoundsToOpen' \in Nat
    BY <1>1, StepsType, StepsTypeNext DEF StepsTyped
  <2>9. MainPlace' + RoundsToOpen' < MainPlace + RoundsToOpen
    <3>1. PICK r \in Nat : r = RoundsToOpen'
      BY <2>8
    <3>2. RoundsToOpen = r + (N + 7)
      BY <2>6, <3>1
    <3>3. (3 * N + 10) + r < (2 * N + 4) + (r + (N + 7))
      BY <1>2
    <3> QED BY <2>7, <3>1, <3>2, <3>3
  <2> QED BY <1>1, <2>1, <2>2, <2>9, MainAlone
<1>6. CASE NotifyStart \/ NotifyStop
  <2>1. UNCHANGED <<handed, observed_round_number, round_number, joined>>
    BY <1>6 DEF NotifyStart, NotifyStop
  <2>2. ASSUME NEW w \in Workers PROVE Place(w)' <= Place(w) + 1
    <3>1. worker'[w] = IF worker[w] = "asleep" THEN "check" ELSE worker[w]
      BY <1>6 DEF NotifyStart, NotifyStop, WakeAll
    <3>2. CASE worker[w] = "asleep"
      BY <3>1, <3>2 DEF Place
    <3>3. CASE worker[w] # "asleep"
      <4>1. Place(w)' = Place(w)
        BY <2>1, <3>1, <3>3 DEF Place
      <4>2. Place(w) \in Nat
        BY <1>1, StepsType, StepsTypeNext DEF StepsTyped
      <4> QED BY <4>1, <4>2
    <3> QED BY <3>2, <3>3
  <2>3. MainPlace' + N < MainPlace
    BY <1>2, <1>6, <2>1 DEF NotifyStart, NotifyStop, Goto, MainPlace
  <2> QED BY <1>1, <2>1, <2>2, <2>3, MainWakes
<1>7. CASE StartWorker
  <2>1. /\ UNCHANGED <<main, joined, handed, observed_round_number, round_number>>
        /\ started \in Workers
        /\ worker' = [worker EXCEPT ![started] = "check"]
    BY <1>1, <1>7 DEF StartWorker, TypeOK, Workers
  <2>2. PICK w \in Workers : w = started
    BY <2>1
  <2>3. worker[w] = "unborn"
    BY <2>2, <1>1 DEF IInv, StartInv, TypeOK
  <2>4. worker'[w] = "check" /\ \A v \in Workers : v # w => worker'[v] = worker[v]
    BY <1>1, <2>1, <2>2 DEF TypeOK
  <2>5. \A v \in Workers : v # w => WorkerSteps'[v] = WorkerSteps[v]
    <3>1. ASSUME NEW v \in Workers, v # w
          PROVE  Place(v)' = Place(v) /\ RoundsAhead(v)' = RoundsAhead(v)
      <4>1. /\ worker'[v] = worker[v] /\ handed'[v] = handed[v]
            /\ observed_round_number'[v] = observed_round_number[v]
        BY <2>1, <2>4, <3>1
      <4> QED BY <4>1 DEF Place, RoundsAhead
    <3> QED BY <3>1 DEF WorkerSteps
  <2>6. RoundsAhead(w)' = RoundsAhead(w) /\ RoundsAhead(w) \in Nat
    BY <1>1, <2>1, StepsType, StepsTypeNext DEF RoundsAhead, StepsTyped
  <2>7. Place(w) = 3 /\ Place(w)' = 2
    BY <2>3, <2>4 DEF Place
  <2>8. WorkerSteps[w] = 3 + RoundsAhead(w) /\ WorkerSteps'[w] = 2 + RoundsAhead(w)
    BY <2>6, <2>7 DEF WorkerSteps
  <2>9. WorkerSteps'[w] + 0 < WorkerSteps[w]
    BY <2>6, <2>8
  <2>10. MainPlace' = MainPlace + 0
    <3>1. MainPlace' = MainPlace
      BY <2>1 DEF MainPlace
    <3> QED BY <1>2, <3>1
  <2> QED BY <1>1, <2>1, <2>5, <2>9, <2>10, OneWorker
<1> QED BY <1>3, <1>4, <1>5, <1>6, <1>7 DEF MainNext

LEMMA WorkerNearer ==
  ASSUME IInv, IInv', NEW w \in Workers, WorkerNext(w)
  PROVE  StepsLeft' < StepsLeft
<1> USE DEF mainVars, roundState, workerVars, engine
<1>1. TypeOK /\ TypeOK'
  BY DEF IInv
<1>2. /\ MainPlace \in Nat /\ RoundsToOpen \in Nat
      /\ Place(w) \in Nat /\ RoundsAhead(w) \in Nat
      /\ Place(w)' \in Nat /\ RoundsAhead(w)' \in Nat
  BY <1>1, StepsType, StepsTypeNext DEF StepsTyped
<1>3. UNCHANGED round_number
  BY WorkerStep
<1>4. \A v \in Workers : v # w =>
        /\ worker'[v] = worker[v] /\ handed'[v] = handed[v]
        /\ observed_round_number'[v] = observed_round_number[v]
  BY <1>1 DEF WorkerNext, WaitStart, NextRule, ApplyRule, RejectRule, Report,
              NotifyDone, EndRound, Move, TypeOK
<1>5. \A v \in Workers : v # w => WorkerSteps'[v] = WorkerSteps[v]
  <2>1. ASSUME NEW v \in Workers, v # w
        PROVE  Place(v)' = Place(v) /\ RoundsAhead(v)' = RoundsAhead(v)
    <3>1. /\ worker'[v] = worker[v] /\ handed'[v] = handed[v]
          /\ observed_round_number'[v] = observed_round_number[v]
      BY <1>4, <2>1
    <3> QED BY <3>1 DEF Place, RoundsAhead
  <2> QED BY <2>1 DEF WorkerSteps
<1>6. /\ WorkerSteps[w] = Place(w) + RoundsAhead(w)
      /\ WorkerSteps'[w] = Place(w)' + RoundsAhead(w)'
  BY DEF WorkerSteps
<1>7. handed[w] \in 0 .. MaxRules /\ handed'[w] \in 0 .. MaxRules
  BY <1>1 DEF TypeOK
<1>8. CASE NotifyDone(w)
  <2>1. PICK d \in {0, 1} : MainPlace' = MainPlace + d
    <3>1. joined' = joined /\ main' = IF main = "asleep" THEN "await" ELSE main
      BY <1>8 DEF NotifyDone
    <3>2. CASE main = "asleep"
      <4>1. MainPlace = 2 * N + 8 /\ MainPlace' = 2 * N + 9
        BY <3>1, <3>2 DEF MainPlace
      <4> QED BY <4>1
    <3>3. CASE main # "asleep"
      <4>1. MainPlace' = MainPlace
        BY <3>1, <3>3 DEF MainPlace
      <4> QED BY <1>2, <4>1
    <3> QED BY <3>2, <3>3
  <2>2. Place(w) = 4 /\ Place(w)' = 2
    BY <1>1, <1>8 DEF NotifyDone, At, Move, Place, TypeOK
  <2>3. RoundsAhead(w)' = RoundsAhead(w)
    BY <1>8 DEF NotifyDone, RoundsAhead
  <2>4. WorkerSteps'[w] + d < WorkerSteps[w]
    BY <1>2, <1>6, <2>2, <2>3
  <2> QED BY <1>1, <1>3, <1>5, <2>1, <2>4, OneWorker
<1>9. CASE \/ WaitStart(w) \/ NextRule(w) \/ ApplyRule(w) \/ RejectRule(w) \/ Report(w)
  <2>1. UNCHANGED <<main, joined>>
    BY <1>9 DEF WaitStart, NextRule, ApplyRule, RejectRule, Report
  <2>2. MainPlace' = MainPlace + 0
    <3>1. MainPlace' = MainPlace
      BY <2>1 DEF MainPlace
    <3> QED BY <1>2, <3>1
  <2>3. Place(w)' + RoundsAhead(w)' < Place(w) + RoundsAhead(w)
    <3>1. CASE NextRule(w) \/ ApplyRule(w) \/ RejectRule(w) \/ Report(w)
      <4>1. RoundsAhead(w)' = RoundsAhead(w)
        BY <3>1 DEF NextRule, ApplyRule, RejectRule, Report, RoundsAhead
      <4>2. Place(w)' < Place(w)
        <5>1. CASE NextRule(w)
          <6>1. /\ worker[w] = "next_rule"
                /\ \/ worker'[w] = "rule" /\ handed'[w] = handed[w] + 1
                   \/ worker'[w] = "report" /\ handed'[w] = handed[w]
            BY <1>1, <5>1 DEF NextRule, At, Move, EndRound, TypeOK
          <6> QED BY <1>7, <6>1 DEF Place
        <5>2. CASE ApplyRule(w)
          <6>1. /\ worker[w] = "rule" /\ handed'[w] = handed[w]
                /\ worker'[w] \in {"next_rule", "reject", "report"}
            BY <1>1, <5>2 DEF ApplyRule, At, Move, EndRound, TypeOK
          <6> QED BY <1>7, <6>1 DEF Place
        <5>3. CASE RejectRule(w)
          <6>1. worker[w] = "reject" /\ handed'[w] = handed[w] /\ worker'[w] = "next_rule"
            BY <1>1, <5>3 DEF RejectRule, At, Move, TypeOK
          <6> QED BY <1>7, <6>1 DEF Place
        <5>4. CASE Report(w)
          <6>1. worker[w] = "report" /\ worker'[w] = "notify"
            BY <1>1, <5>4 DEF Report, At, Move, TypeOK
          <6> QED BY <6>1 DEF Place
        <5> QED BY <3>1, <5>1, <5>2, <5>3, <5>4
      <4> QED BY <1>2, <4>1, <4>2
    <3>2. CASE WaitStart(w) /\ worker'[w] \in {"exited", "asleep"}
      <4>1. worker[w] = "check" /\ observed_round_number' = observed_round_number
        BY <1>1, <3>2 DEF WaitStart, At, Move, TypeOK
      <4>2. Place(w) = 2 /\ Place(w)' \in {0, 1}
        BY <3>2, <4>1 DEF Place
      <4>3. RoundsAhead(w)' = RoundsAhead(w)
        BY <4>1 DEF RoundsAhead
      <4> QED BY <1>2, <4>2, <4>3
    <3>3. CASE WaitStart(w) /\ worker'[w] \notin {"exited", "asleep"}
      <4>1. /\ worker[w] = "check" /\ worker'[w] = "next_rule"
            /\ round_number # observed_round_number[w]
            /\ observed_round_number'[w] = round_number
        BY <1>1, <3>3 DEF WaitStart, At, Move, TypeOK
      <4>2. /\ observed_round_number[w] \in Nat /\ round_number \in 0 .. MaxRounds
            /\ round_number = observed_round_number[w] + 1
        BY <1>1, <4>1 DEF IInv, RoundInv, TypeOK
      <4>3. PICK b \in Nat : /\ b = MaxRounds - observed_round_number[w] /\ b > 0
                             /\ MaxRounds - observed_round_number'[w] = b - 1
        BY <4>1, <4>2
      <4>4. /\ RoundsAhead(w) = (5 + 3 * MaxRules) * b
            /\ RoundsAhead(w)' = (5 + 3 * MaxRules) * (b - 1)
        BY <4>3 DEF RoundsAhead
      <4>5. RoundsAhead(w) = RoundsAhead(w)' + (5 + 3 * MaxRules)
        BY <4>3, <4>4, Products
      <4>6. Place(w) = 2 /\ Place(w)' = 6 + 3 * (MaxRules - handed'[w])
        BY <4>1 DEF Place
      <4>7. Place(w)' <= 6 + 3 * MaxRules
        BY <1>7, <4>6
      <4> QED BY <1>2, <4>5, <4>6, <4>7
    <3> QED BY <1>9, <3>1, <3>2, <3>3
  <2>4. WorkerSteps'[w] + 0 < WorkerSteps[w]
    BY <1>2, <1>6, <2>3
  <2> QED BY <1>1, <1>3, <1>5, <2>2, <2>4, OneWorker
<1> QED BY <1>8, <1>9 DEF WorkerNext

\* The number of steps left is a natural number, and every step but a spurious
\* wakeup makes it smaller: with finitely many of these the call ends.
THEOREM EndComesNearer ==
  Spec => /\ [](StepsLeft \in Nat)
          /\ [][Spurious \/ StepsLeft' < StepsLeft]_vars
<1>1. IInv => StepsLeft \in Nat
  <2> SUFFICES ASSUME TypeOK PROVE StepsLeft \in Nat
    BY DEF IInv
  <2>1. MainPlace \in Nat /\ RoundsToOpen \in Nat /\ SumBelow(WorkerSteps, N) \in Nat
    BY StepsType, StepsTypeNext, SumType DEF StepsTyped
  <2> QED BY <2>1 DEF StepsLeft
<1>2. IInv /\ IInv' /\ [Next]_vars => [Spurious \/ StepsLeft' < StepsLeft]_vars
  <2> SUFFICES ASSUME IInv, IInv', Next PROVE Spurious \/ StepsLeft' < StepsLeft
    OBVIOUS
  <2> QED BY MainNearer, WorkerNearer DEF Next
<1>3. QED BY Inductive, <1>1, <1>2, PTL DEF Spec

\* A thread that can take a step can until it has taken one, whatever the
\* others do: to go on, a call needs no more of the scheduler than that a
\* thread which stays able to run is run (Fairness).
AbleStaysAble ==
  /\ MainCanStep => MainNext \/ MainCanStep'
  /\ \A w \in Workers : WorkerCanStep(w) => WorkerNext(w) \/ WorkerCanStep(w)' \/ Over'

THEOREM NobodyDisabled == Spec => [][AbleStaysAble]_vars
<1>1. ASSUME IInv, Next PROVE AbleStaysAble
  <2> USE DEF AbleStaysAble, IInv, TypeOK, mainVars
  <2>1. CASE MainNext
    <3> SUFFICES ASSUME NEW w \in Workers, WorkerCanStep(w), ~Over'
                 PROVE  WorkerCanStep(w)'
      BY <2>1
    <3>1. worker'[w] = worker[w]
      <4>1. CASE StartWorker
        <5>1. started \in Workers /\ worker[started] = "unborn"
          BY <1>1, <4>1 DEF StartWorker, StartInv, Workers
        <5> QED BY <1>1, <4>1, <5>1 DEF StartWorker, WorkerCanStep
      <4>2. CASE NotifyStart \/ NotifyStop
        BY <4>2 DEF NotifyStart, NotifyStop, WakeAll, WorkerCanStep
      <4>3. CASE ~StartWorker /\ ~NotifyStart /\ ~NotifyStop
        BY <2>1, <4>3 DEF MainNext, Create, CheckInitial, StartFails, AllStarted,
           NextGroup, Publish, Await, Collect, SampleInvariants, CheckFinal, Stop, Join,
           Return, workerVars
      <4> QED BY <4>1, <4>2, <4>3
    <3> QED BY <3>1 DEF WorkerCanStep, Over
  <2>2. ASSUME NEW v \in Workers, WorkerNext(v) PROVE AbleStaysAble
    <3>1. /\ \/ main' = main
             \/ main = "asleep" /\ main' = "await"
          /\ joined' = joined
      BY <2>2, WorkerStep
    <3>2. \A w \in Workers : w # v => worker'[w] = worker[w]
      BY <1>1, <2>2 DEF WorkerNext, WaitStart, NextRule, ApplyRule, RejectRule, Report,
                        NotifyDone, EndRound, Move
    <3>3. worker[v] # "exited"
      BY <2>2 DEF WorkerNext, WaitStart, NextRule, ApplyRule, RejectRule, Report,
                  NotifyDone, At
    <3>4. MainCanStep => MainCanStep'
      <4> SUFFICES ASSUME MainCanStep PROVE MainCanStep'
        OBVIOUS
      <4>1. main' = main
        BY <3>1 DEF MainCanStep
      <4>2. CASE main # "join" \/ joined = N
        BY <3>1, <4>1, <4>2 DEF MainCanStep
      <4>3. CASE main = "join" /\ joined # N
        <5>1. joined \in Workers /\ worker[joined] = "exited"
          BY <1>1, <4>3 DEF MainCanStep, Workers
        <5>2. worker'[joined] = "exited"
          BY <3>2, <3>3, <5>1
        <5> QED BY <3>1, <4>1, <4>3, <5>2 DEF MainCanStep
      <4> QED BY <4>2, <4>3
    <3>5. \A w \in Workers : w # v /\ WorkerCanStep(w) => WorkerCanStep(w)'
      BY <3>1, <3>2 DEF WorkerCanStep
    <3> QED BY <2>2, <3>4, <3>5
  <2>3. CASE Spurious
    <3>1. CASE SpuriousDone
      BY <3>1 DEF SpuriousDone, Goto, MainCanStep, WorkerCanStep, workerVars
    <3>2. ASSUME NEW v \in Workers, SpuriousStart(v) PROVE AbleStaysAble
      <4>1. /\ main' = main /\ joined' = joined /\ worker[v] = "asleep"
            /\ \A w \in Workers : w # v => worker'[w] = worker[w]
        BY <1>1, <3>2 DEF SpuriousStart, Move, At
      <4>2. MainCanStep => MainCanStep'
        BY <1>1, <4>1 DEF MainCanStep, Workers
      <4> QED BY <4>1, <4>2 DEF WorkerCanStep
    <3> QED BY <2>3, <3>1, <3>2 DEF Spurious
  <2> QED BY <1>1, <2>1, <2>2, <2>3 DEF Next
<1>2. IInv /\ [Next]_vars => [AbleStaysAble]_vars
  BY <1>1
<1>3. QED BY Inductive, <1>2, PTL DEF Spec

-----------------------------------------------------------------------------
(* The threads implement the rounds of the specification. *)

\* The instance has the vocabulary of this module.
LEMMA SameVocabulary ==
  /\ RoundsOf!Workers = Workers /\ RoundsOf!Main = Main
  /\ RoundsOf!NoVerdict = NoVerdict /\ RoundsOf!Verdicts = Verdicts
  /\ RoundsOf!EventKinds = EventKinds
  /\ \A k, w : RoundsOf!Verdict(k, w) = Verdict(k, w)
BY DEF RoundsOf!Workers, Workers, RoundsOf!Main, Main, RoundsOf!NoVerdict,
       NoVerdict, RoundsOf!Verdicts, Verdicts, RoundsOf!VerdictKinds,
       VerdictKinds, RoundsOf!EventKinds, EventKinds, RoundsOf!Verdict, Verdict

\* What the main thread decides from the events is what the specification
\* judges of them: a worker that outranks the others exists and decides.
LEMMA CollectJudges ==
  ASSUME TypeOK, Collect, verdict = NoVerdict
  PROVE  RoundsOf!Judges(verdict', events)
<1> DEFINE Decides(w) ==
      \A u \in Workers : \/ RoundsOf!Rank(events[u]) < RoundsOf!Rank(events[w])
                         \/ /\ events[u] = events[w]
                            /\ w <= u
           First_(k) == First(Reporting(events, k))
<1> USE DEF Saw, Rethrow
<1>1. ASSUME NEW k \in EventKinds, Saw(k),
             \A u \in Workers : \/ events[u] = k
                                \/ RoundsOf!Rank(events[u]) < RoundsOf!Rank(k)
      PROVE  First_(k) \in Workers /\ events[First_(k)] = k /\ Decides(First_(k))
  BY <1>1, FirstIsMember DEF Reporting
<1>2. CASE Saw("Control")
  <2>1. verdict' = Verdict("Control", First_("Control"))
    BY <1>2 DEF Collect, Throw
  <2>2. \A u \in Workers : \/ events[u] = "Control"
                           \/ RoundsOf!Rank(events[u]) < RoundsOf!Rank("Control")
    BY DEF TypeOK, EventKinds, RoundsOf!Rank
  <2>3. QED BY <1>1, <1>2, <2>1, <2>2, SameVocabulary DEF RoundsOf!Judges, EventKinds
<1>3. CASE ~Saw("Control") /\ Saw("Overrun")
  <2>1. verdict' = Verdict("Overrun", Main)
    BY <1>3 DEF Collect, Throw
  <2>2. \A u \in Workers : \/ events[u] = "Overrun"
                           \/ RoundsOf!Rank(events[u]) < RoundsOf!Rank("Overrun")
    BY <1>3 DEF TypeOK, EventKinds, Reporting, RoundsOf!Rank
  <2>3. QED BY <1>1, <1>3, <2>1, <2>2, SameVocabulary DEF RoundsOf!Judges, EventKinds
<1>4. CASE ~Saw("Control") /\ ~Saw("Overrun") /\ Saw("Invalid")
  <2>1. verdict' = Verdict("Invalid", Main)
    BY <1>4 DEF Collect, Throw
  <2>2. \A u \in Workers : \/ events[u] = "Invalid"
                           \/ RoundsOf!Rank(events[u]) < RoundsOf!Rank("Invalid")
    BY <1>4 DEF TypeOK, EventKinds, Reporting, RoundsOf!Rank
  <2>3. QED BY <1>1, <1>4, <2>1, <2>2, SameVocabulary DEF RoundsOf!Judges, EventKinds
<1>5. CASE /\ ~Saw("Control") /\ ~Saw("Overrun") /\ ~Saw("Invalid")
           /\ Saw("Panicked")
  <2>1. verdict' = Verdict("Panicked", First_("Panicked"))
    BY <1>5 DEF Collect, Throw
  <2>2. \A u \in Workers : \/ events[u] = "Panicked"
                           \/ RoundsOf!Rank(events[u]) < RoundsOf!Rank("Panicked")
    BY <1>5 DEF TypeOK, EventKinds, Reporting, RoundsOf!Rank
  <2>3. QED BY <1>1, <1>5, <2>1, <2>2, SameVocabulary DEF RoundsOf!Judges, EventKinds
<1>6. CASE /\ ~Saw("Control") /\ ~Saw("Overrun") /\ ~Saw("Invalid")
           /\ ~Saw("Panicked")
  <2>1. verdict' = NoVerdict
    BY <1>6 DEF Collect, Goto
  <2>2. \A u \in Workers : events[u] = "RoundDone"
    BY <1>6 DEF TypeOK, EventKinds, Reporting
  <2>3. 0 \in Workers /\ \A u \in Workers : 0 <= u
    BY DEF Workers
  <2>4. QED BY <2>1, <2>2, <2>3, SameVocabulary DEF RoundsOf!Judges
<1>7. QED BY <1>2, <1>3, <1>4, <1>5, <1>6

LEMMA InitRefines == Init => RoundsOf!Init
<1> SUFFICES ASSUME Init PROVE RoundsOf!Init  OBVIOUS
<1>1. RoundsPhase = "setup" /\ RoundsOpened = 0 /\ RoundsRunning = {}
  BY DEF Init, RoundsPhase, RoundsOpened, RoundsRunning
<1>2. QED BY <1>1, SameVocabulary DEF Init, RoundsOf!Init

\* A step that leaves what the specification sees alone is a stutter.
LEMMA Stutter ==
  ASSUME UNCHANGED <<RoundsPhase, RoundsOpened, group, RoundsRunning, applying,
                     events, verdict>>
  PROVE  UNCHANGED RoundsOf!vars
BY DEF RoundsOf!vars

\* Between rounds every worker has reported.
LEMMA AllReported ==
  ASSUME IInv, main \notin Waiting
  PROVE  Reported = Workers
BY DEF IInv, RoundInv, Reported

LEMMA MainRefines ==
  ASSUME IInv, IInv', MainNext
  PROVE  RoundsOf!Next \/ UNCHANGED RoundsOf!vars
<1> USE SameVocabulary, VerdictType
    DEF mainVars, roundState, workerVars, engine, RoundsPhase, RoundsOpened,
        Goto, Throw, Raise, Saw, Rethrow
<1>1. ASSUME main \notin Waiting, main' \notin Waiting, main # "publish",
             main' # "publish", started' = started, round_number' = round_number
      PROVE  RoundsRunning' = RoundsRunning
  <2>1. Reported = Workers /\ Reported' = Workers
    BY <1>1, AllReported DEF Reported, IInv, RoundInv
  <2>2. QED BY <1>1, <2>1 DEF RoundsRunning
<1>2. verdict = NoVerdict \/ main \in Ending
  BY DEF IInv, VerdictInv
<1>3. CASE Create \/ CheckInitial
  <2>1. RoundsRunning' = RoundsRunning
    BY <1>1, <1>3 DEF Create, CheckInitial, Waiting
  <2>2. CASE verdict' = verdict
    <3>1. RoundsPhase' = RoundsPhase /\ RoundsOpened' = RoundsOpened
      BY <1>3, <2>2 DEF Create, CheckInitial
    <3>2. QED BY <1>3, <2>1, <2>2, <3>1, Stutter DEF Create, CheckInitial
  <2>3. CASE verdict' # verdict
    <3>1. \E k \in {"Control", "Invalid", "Overrun", "Violated"} : verdict' = Verdict(k, Main)
      BY <1>3, <2>3 DEF Create, CheckInitial
    <3>2. RoundsPhase = "setup" /\ RoundsPhase' = "ended" /\ RoundsOpened' = RoundsOpened
      BY <1>2, <1>3, <3>1 DEF Create, CheckInitial, Ending
    <3>3. RoundsOf!GiveUp
      BY <1>3, <2>1, <3>1, <3>2 DEF Create, CheckInitial, RoundsOf!GiveUp, RoundsOf!End
    <3>4. QED BY <3>3 DEF RoundsOf!Next
  <2>4. QED BY <2>2, <2>3
<1>4. CASE StartWorker
  <2>1. RoundsRunning' = RoundsRunning
    <3>1. Reported' = Workers
      BY <1>4, AllReported DEF StartWorker, Waiting, IInv, RoundInv, Reported
    <3>2. started # N /\ main = "spawn" /\ main' = "spawn"
      BY <1>4 DEF StartWorker, IInv, TypeOK
    <3>3. RoundsRunning = {}
      BY <3>2 DEF RoundsRunning
    <3>4. RoundsRunning' = {}
      BY <3>1, <3>2 DEF RoundsRunning
    <3>5. QED BY <3>3, <3>4
  <2>2. QED BY <1>4, <2>1, Stutter DEF StartWorker
<1>5. CASE StartFails
  <2>1. RoundsRunning' = RoundsRunning
    BY <1>1, <1>5 DEF StartFails, Waiting
  <2>2. RoundsPhase = "setup" /\ RoundsPhase' = "ended" /\ RoundsOpened' = RoundsOpened
    BY <1>2, <1>5 DEF StartFails, Ending
  <2>3. RoundsOf!GiveUp
    BY <1>5, <2>1, <2>2 DEF StartFails, RoundsOf!GiveUp, RoundsOf!End
  <2>4. QED BY <2>3 DEF RoundsOf!Next
<1>6. CASE AllStarted
  <2>1. RoundsRunning' = RoundsRunning
    BY <1>1, <1>6 DEF AllStarted, Waiting
  <2>2. RoundsPhase = "setup" /\ RoundsPhase' = "join" /\ RoundsOpened' = RoundsOpened
    BY <1>2, <1>6 DEF AllStarted, Ending
  <2>3. RoundsOf!Ready
    BY <1>6, <2>1, <2>2 DEF AllStarted, RoundsOf!Ready
  <2>4. QED BY <2>3 DEF RoundsOf!Next
<1>7. CASE NextGroup
  <2>1. CASE main' = "publish"
    <3>1. /\ RoundsPhase = "join" /\ RoundsPhase' = "round"
          /\ RoundsOpened < MaxRounds /\ RoundsOpened' = RoundsOpened + 1
      BY <1>2, <1>7, <2>1 DEF NextGroup, Ending, IInv, TypeOK
    <3>2. RoundsRunning' = Workers
      BY <2>1 DEF RoundsRunning, Workers
    <3>3. group' \in Groups /\ RoundsOf!Open(group')
      BY <1>7, <2>1, <3>1, <3>2 DEF NextGroup, RoundsOf!Open
    <3>4. QED BY <3>3 DEF RoundsOf!Next
  <2>2. CASE main' = "final"
    <3>1. RoundsRunning' = RoundsRunning
      BY <1>1, <1>7, <2>2 DEF NextGroup, Waiting
    <3>2. QED BY <1>7, <2>2, <3>1, Stutter DEF NextGroup
  <2>3. CASE main' = "stop"
    <3>1. RoundsRunning' = RoundsRunning
      BY <1>1, <1>7, <2>3 DEF NextGroup, Waiting
    <3>2. RoundsPhase = "join" /\ RoundsPhase' = "ended" /\ RoundsOpened' = RoundsOpened
      BY <1>2, <1>7, <2>3 DEF NextGroup, Ending
    <3>3. RoundsOf!Conclude
      BY <1>7, <2>3, <3>1, <3>2 DEF NextGroup, RoundsOf!Conclude, RoundsOf!End
    <3>4. QED BY <3>3 DEF RoundsOf!Next
  <2>4. QED BY <1>7, <2>1, <2>2, <2>3 DEF NextGroup
<1>8. CASE Publish
  <2>1. RoundsPhase' = RoundsPhase /\ RoundsOpened' = RoundsOpened
    BY <1>2, <1>8 DEF Publish, Ending
  <2>2. \A w \in Workers : observed_round_number'[w] # round_number'
    BY <1>8 DEF Publish, IInv, RoundInv, TypeOK, Waiting
  <2>3. RoundsRunning' = RoundsRunning
    BY <1>8, <2>2 DEF Publish, RoundsRunning, Reported, IInv, StartInv, Counting, Between
  <2>4. QED BY <1>8, <2>1, <2>3, Stutter DEF Publish
<1>9. CASE NotifyStart
  <2>1. Reported' = Reported
    BY <1>9 DEF NotifyStart, WakeAll, Reported, InRound, IInv, TypeOK
  <2>2. RoundsRunning' = RoundsRunning /\ RoundsPhase' = RoundsPhase /\ RoundsOpened' = RoundsOpened
    BY <1>9, <2>1 DEF NotifyStart, RoundsRunning
  <2>3. QED BY <1>9, <2>2, Stutter DEF NotifyStart
<1>10. CASE Await
  <2>1. Reported' = Reported
    BY <1>10 DEF Await, Reported, InRound
  <2>2. RoundsRunning' = RoundsRunning /\ RoundsPhase' = RoundsPhase /\ RoundsOpened' = RoundsOpened
    BY <1>10, <2>1 DEF Await, RoundsRunning
  <2>3. QED BY <1>10, <2>2, Stutter DEF Await
<1>11. CASE Collect
  <2>1. RoundsRunning = {} /\ RoundsRunning' = {}
    <3>1. Reported = Workers
      BY <1>11, AllReported DEF Collect, Waiting
    <3>2. started = N
      BY <1>11 DEF Collect, IInv, StartInv, Counting
    <3>3. RoundsRunning' = RoundsRunning
      BY <1>1, <1>11 DEF Collect, Waiting
    <3>4. QED BY <1>11, <3>1, <3>2, <3>3 DEF Collect, RoundsRunning
  <2>2. verdict = NoVerdict
    BY <1>2, <1>11 DEF Collect, Ending
  <2>3. verdict' \in Verdicts /\ RoundsOf!Judges(verdict', events)
    BY <1>11, <2>2, CollectJudges DEF IInv, TypeOK
  <2>4. RoundsPhase' = IF verdict' = NoVerdict THEN "join" ELSE "ended"
    <3>1. CASE main' = "sample"
      BY <3>1
    <3>2. CASE main' = "stop"
      BY <3>2 DEF IInv, VerdictInv, Ending
    <3>3. QED BY <1>11, <3>1, <3>2 DEF Collect
  <2>5. RoundsPhase = "round" /\ RoundsOpened' = RoundsOpened
    BY <1>11, <2>2 DEF Collect
  <2>6. RoundsOf!Close
    BY <1>11, <2>1, <2>3, <2>4, <2>5 DEF Collect, RoundsOf!Close
  <2>7. QED BY <2>6 DEF RoundsOf!Next
<1>12. CASE SampleInvariants \/ CheckFinal
  <2>1. RoundsRunning' = RoundsRunning
    BY <1>1, <1>12 DEF SampleInvariants, CheckFinal, Waiting
  <2>2. CASE main' = "next_group"
    BY <1>12, <2>1, <2>2, Stutter DEF SampleInvariants, CheckFinal
  <2>3. CASE main' = "stop"
    <3>1. \E k \in {"Passed", "Overrun", "Violated"} : verdict' = Verdict(k, Main)
      BY <1>12, <2>3 DEF SampleInvariants, CheckFinal
    <3>2. RoundsPhase = "join" /\ RoundsPhase' = "ended" /\ RoundsOpened' = RoundsOpened
      BY <1>2, <1>12, <2>3, <3>1 DEF SampleInvariants, CheckFinal, Ending
    <3>3. RoundsOf!Conclude
      BY <1>12, <2>1, <3>1, <3>2
      DEF SampleInvariants, CheckFinal, RoundsOf!Conclude, RoundsOf!End
    <3>4. QED BY <3>3 DEF RoundsOf!Next
  <2>4. QED BY <1>12, <2>2, <2>3 DEF SampleInvariants, CheckFinal
<1>13. CASE Stop \/ NotifyStop \/ Join \/ Return
  <2>1. /\ main \in Ending /\ main' \in Ending
        /\ UNCHANGED <<started, round_number, verdict, group, applying, events>>
    BY <1>13 DEF Stop, NotifyStop, Join, Return, Ending
  <2>2. verdict # NoVerdict
    BY <2>1 DEF IInv, VerdictInv
  <2>3. RoundsRunning' = RoundsRunning
    BY <1>1, <2>1 DEF Ending, Waiting
  <2>4. QED BY <2>1, <2>2, <2>3, Stutter DEF Ending
<1>14. QED
  BY <1>3, <1>4, <1>5, <1>6, <1>7, <1>8, <1>9, <1>10, <1>11, <1>12, <1>13
  DEF MainNext

LEMMA WorkerRefines ==
  ASSUME IInv, IInv', NEW w \in Workers, WorkerNext(w)
  PROVE  RoundsOf!Next \/ UNCHANGED RoundsOf!vars
<1> USE SameVocabulary
    DEF mainVars, roundState, workerVars, engine, Move, At
<1>1. /\ \/ main' = main
         \/ main = "asleep" /\ main' = "await"
      /\ UNCHANGED <<started, verdict, round_number>>
  BY WorkerStep
<1>2. RoundsPhase' = RoundsPhase /\ RoundsOpened' = RoundsOpened
  BY <1>1 DEF RoundsPhase, RoundsOpened
<1>3. ASSUME Reported' = Reported PROVE RoundsRunning' = RoundsRunning
  BY <1>1, <1>3 DEF RoundsRunning
<1>4. ASSUME InRound(w)
      PROVE  /\ RoundsPhase = "round" /\ w \in RoundsRunning
             /\ main \in Waiting /\ started = N
  <2>1. main \in Waiting /\ started = N /\ w \notin Reported /\ verdict = NoVerdict
    BY <1>4 DEF IInv, RoundInv, StartInv, VerdictInv, Waiting, Counting, Ending, Reported
  <2>2. QED BY <2>1 DEF RoundsPhase, RoundsRunning, Waiting
<1>5. CASE WaitStart(w)
  <2>1. Reported' = Reported
    BY <1>5 DEF WaitStart, Reported, InRound, IInv, TypeOK
  <2>2. QED BY <1>1, <1>2, <1>3, <1>5, <2>1, Stutter DEF WaitStart
<1>6. CASE NextRule(w)
  <2>1. Reported' = Reported
    BY <1>6 DEF NextRule, EndRound, Reported, InRound, IInv, TypeOK
  <2>2. InRound(w) /\ applying[w] = NoGroup
    BY <1>6 DEF NextRule, InRound, IInv, RoundInv
  <2>3. CASE worker'[w] = "rule"
    <3>1. applying' = [applying EXCEPT ![w] = group]
      BY <1>6, <2>3 DEF NextRule, EndRound, IInv, TypeOK
    <3>2. RoundsOf!BeginRule(w)
      BY <1>1, <1>2, <1>3, <1>4, <1>6, <2>1, <2>2, <3>1
      DEF NextRule, RoundsOf!BeginRule
    <3>3. QED BY <3>2 DEF RoundsOf!Next
  <2>4. CASE worker'[w] # "rule"
    <3>1. applying' = [applying EXCEPT ![w] = NoGroup]
      BY <1>6, <2>4 DEF NextRule, EndRound, IInv, TypeOK
    <3>2. applying' = applying
      BY <2>2, <3>1 DEF IInv, TypeOK
    <3>3. QED BY <1>1, <1>2, <1>3, <1>6, <2>1, <3>2, Stutter DEF NextRule
  <2>5. QED BY <2>3, <2>4
<1>7. CASE ApplyRule(w)
  <2>1. Reported' = Reported
    BY <1>7 DEF ApplyRule, EndRound, Reported, InRound, IInv, TypeOK
  <2>2. InRound(w) /\ applying' = [applying EXCEPT ![w] = NoGroup]
    BY <1>7 DEF ApplyRule, EndRound, InRound
  <2>3. CASE applying[w] = NoGroup
    <3>1. applying' = applying
      BY <2>2, <2>3 DEF IInv, TypeOK
    <3>2. QED BY <1>1, <1>2, <1>3, <1>7, <2>1, <3>1, Stutter DEF ApplyRule
  <2>4. CASE applying[w] # NoGroup
    <3>1. RoundsOf!EndRule(w)
      BY <1>1, <1>2, <1>3, <1>4, <1>7, <2>1, <2>2, <2>4
      DEF ApplyRule, RoundsOf!EndRule
    <3>2. QED BY <3>1 DEF RoundsOf!Next
  <2>5. QED BY <2>3, <2>4
<1>8. CASE RejectRule(w)
  <2>1. Reported' = Reported
    BY <1>8 DEF RejectRule, Reported, InRound, IInv, TypeOK
  <2>2. QED BY <1>1, <1>2, <1>3, <1>8, <2>1, Stutter DEF RejectRule
<1>9. CASE Report(w)
  <2>1. InRound(w) /\ applying[w] = NoGroup
    BY <1>9 DEF Report, InRound, IInv, RoundInv
  <2>2. Reported' = Reported \cup {w}
    BY <1>9 DEF Report, Reported, InRound, IInv, TypeOK, RoundInv
  <2>3. RoundsRunning' = RoundsRunning \ {w}
    BY <1>1, <1>4, <2>1, <2>2 DEF RoundsRunning, Waiting
  <2>4. event[w] \in EventKinds
    BY DEF IInv, TypeOK
  <2>5. RoundsOf!Finish(w, event[w])
    BY <1>1, <1>2, <1>4, <1>9, <2>1, <2>3 DEF Report, RoundsOf!Finish
  <2>6. QED BY <2>4, <2>5 DEF RoundsOf!Next
<1>10. CASE NotifyDone(w)
  <2>1. Reported' = Reported
    BY <1>10 DEF NotifyDone, Reported, InRound, IInv, TypeOK
  <2>2. QED BY <1>1, <1>2, <1>3, <1>10, <2>1, Stutter DEF NotifyDone
<1>11. QED BY <1>5, <1>6, <1>7, <1>8, <1>9, <1>10 DEF WorkerNext

\* run_concurrent implements the specification of rounds: every worker takes
\* part exactly once in a round that only ends when all have, and what ends the
\* test is judged from the events of the last round.
THEOREM Implements == Spec => ImplementsRounds
<1>1. ASSUME IInv, IInv', [Next]_vars PROVE [RoundsOf!Next]_(RoundsOf!vars)
  <2>1. CASE MainNext
    BY <1>1, <2>1, MainRefines
  <2>2. CASE \E w \in Workers : WorkerNext(w)
    BY <1>1, <2>2, WorkerRefines
  <2>3. CASE Spurious
    <3> USE DEF mainVars, roundState, workerVars, engine
    <3>1. Reported' = Reported
      BY <1>1, <2>3 DEF Spurious, SpuriousDone, SpuriousStart, Move, At, Reported,
                        InRound, IInv, TypeOK
    <3>2. UNCHANGED <<RoundsPhase, RoundsOpened, RoundsRunning>>
      BY <2>3, <3>1 DEF Spurious, SpuriousDone, SpuriousStart, Goto, RoundsPhase,
                        RoundsOpened, RoundsRunning
    <3>3. QED BY <2>3, <3>2, Stutter DEF Spurious, SpuriousDone, SpuriousStart, Goto
  <2>4. CASE UNCHANGED vars
    <3> USE DEF vars, mainVars, roundState, workerVars, engine
    <3>1. UNCHANGED <<RoundsPhase, RoundsOpened, RoundsRunning>>
      BY <2>4 DEF RoundsPhase, RoundsOpened, RoundsRunning, Reported, InRound
    <3>2. QED BY <2>4, <3>1, Stutter
  <2>5. QED BY <1>1, <2>1, <2>2, <2>3, <2>4 DEF Next
<1>2. QED
  BY InitRefines, Inductive, <1>1, PTL DEF Spec, ImplementsRounds, RoundsOf!Spec
=============================================================================
