---------------------------- MODULE StatefulRun ----------------------------
(***************************************************************************)
(* run of include/hegel/generators/stateful.h: a sequential stateful test, *)
(* "a concurrent stateful test with one group and one worker".  A rule is  *)
(* user code that draws from generators, mutates the machine's state, and  *)
(* ends in any way; as the documentation asks, it does not reject after it *)
(* has mutated.                                                            *)
(*                                                                         *)
(* The draws are modelled for the spans they open: a generator is a frame  *)
(* on the stack of draws under way, the engine keeps a stack of open spans *)
(* (libhegel/hegel.h), and an exception pops frames without closing spans  *)
(* until something catches it: a repeat() loop, the rule's handler, or the *)
(* caller of run.                                                          *)
(***************************************************************************)
EXTENDS RoundEvents, Sequences

CONSTANTS MaxSteps,    \* bound on the steps
          MaxDepth,    \* bound on the draws under way
          MaxSpans,    \* bound on the open spans
          MaxVersion   \* bound on the mutations of the state

ASSUME SequentialAssumption == N = 1
ASSUME BoundsAssumption == {MaxSteps, MaxDepth, MaxSpans, MaxVersion} \subseteq Nat

VARIABLES
  pc,          \* where run is
  thrown,      \* the event the latest round ended with
  steps_run,
  round, group, outstanding,   \* engine: rounds opened, the current group, and
                               \* whether the rule handed out last is outstanding
  frames,      \* the draws under way, outermost first
  spans,       \* engine: the open spans, outermost first
  version,     \* how often the machine's state has changed
  base,        \* ... when the current step began
  printed,     \* ... when the state was last printed
  checked,     \* ... when the invariants were last checked in full
  verdict

drawing == <<frames, spans>>
state == <<version, base, printed, checked>>
engine == <<round, group, outstanding>>
vars == <<pc, thrown, steps_run, engine, drawing, state, verdict>>

Kinds == {"span", "filter", "repeat"}

SpanIds == (0..MaxSteps) \X (0..MaxDepth)

Frames == [kind : Kinds, tries : 0..2]

TypeOK ==
  /\ pc \in {"create", "initial", "next_group", "next_rule", "body", "print",
             "close", "rejected", "discard", "failed", "round_over", "sample",
             "final", "throw_setup", "throw_round", "throw_join", "ended"}
  /\ thrown \in EventKinds
  /\ steps_run \in 0..MaxSteps
  /\ round \in 0..MaxRounds
  /\ group \in Groups \cup {NoGroup}
  /\ outstanding \in BOOLEAN
  /\ frames \in Seq(Frames) /\ Len(frames) <= MaxDepth
  /\ spans \in Seq(SpanIds) /\ Len(spans) <= MaxSpans
  /\ {version, base, printed, checked} \subseteq 0..MaxVersion
  /\ verdict \in Verdicts

Init ==
  /\ pc = "create"
  /\ thrown = "RoundDone"
  /\ steps_run = 0
  /\ round = 0
  /\ group = NoGroup
  /\ outstanding = FALSE
  /\ frames = <<>>
  /\ spans = <<>>
  /\ version = 0
  /\ base = 0
  /\ printed = 0
  /\ checked = 0
  /\ verdict = NoVerdict

Goto(p) == pc' = p

\* An exception leaves run from pc p; Leave says what it makes of the test.
ThrowFrom(p, kind) ==
  /\ pc' = p
  /\ verdict' = Verdict(kind, Main)

-----------------------------------------------------------------------------
(* Spans *)

\* The rule's own span is at level 0, that of the i-th draw under way at level i.
Span(level) == <<steps_run, level>>

StartSpan(level) == spans' = Append(spans, Span(level))

\* Closes the most recently opened span, whosever it is.
StopSpan == spans' = SubSeq(spans, 1, Len(spans) - 1)

-----------------------------------------------------------------------------
(* Before the first step *)

\* No rules; or the engine is out of choices before it has built the machine.
Create ==
  /\ pc = "create"
  /\ \/ Goto("initial") /\ UNCHANGED verdict
     \/ \E kind \in {"Control", "Overrun"} : ThrowFrom("throw_setup", kind)
  /\ UNCHANGED <<thrown, steps_run, engine, drawing, state>>

\* The state is printed, then every invariant is checked.
CheckInitial ==
  /\ pc = "initial"
  /\ printed' = version
  /\ \/ Goto("next_group") /\ checked' = version /\ UNCHANGED verdict
     \/ ThrowFrom("throw_setup", "Violated") /\ UNCHANGED checked
  /\ UNCHANGED <<thrown, steps_run, engine, drawing, version, base>>

-----------------------------------------------------------------------------
(* The rounds *)

NextGroup ==
  /\ pc = "next_group"
  /\ \/ /\ round < MaxRounds
        /\ round' = round + 1
        /\ group' \in Groups
        /\ outstanding' = FALSE
        /\ Goto("next_rule")
        /\ UNCHANGED verdict
     \/ /\ round > 0
        /\ Goto("final")
        /\ UNCHANGED <<engine, verdict>>
     \/ /\ ThrowFrom("throw_join", "Overrun")
        /\ UNCHANGED engine
  /\ UNCHANGED <<thrown, steps_run, drawing, state>>

\* A rule, which begins a step in a span of its own; or the end of the round.
NextRule ==
  /\ pc = "next_rule"
  /\ \/ /\ steps_run < MaxSteps /\ Len(spans) < MaxSpans
        /\ steps_run' = steps_run + 1
        /\ outstanding' = TRUE
        /\ spans' = Append(spans, <<steps_run + 1, 0>>)
        /\ base' = version
        /\ Goto("body")
        /\ UNCHANGED thrown
     \/ /\ Goto("round_over")
        /\ thrown' = "RoundDone"
        /\ UNCHANGED <<steps_run, outstanding, spans, base>>
     \/ /\ Goto("throw_round")
        /\ thrown' = "Overrun"
        /\ UNCHANGED <<steps_run, outstanding, spans, base>>
  /\ UNCHANGED <<round, group, frames, version, printed, checked, verdict>>

\* The inner loop is left.
RoundOver ==
  /\ pc = "round_over"
  /\ Goto("sample")
  /\ UNCHANGED <<thrown, steps_run, engine, drawing, state, verdict>>

\* check_invariants with the machine handle: each invariant is sampled.
Sample ==
  /\ pc = "sample"
  /\ \/ Goto("next_group") /\ UNCHANGED verdict
     \/ \E kind \in {"Violated", "Overrun"} : ThrowFrom("throw_join", kind)
  /\ UNCHANGED <<thrown, steps_run, engine, drawing, state>>

\* Mutant of CheckFinal: the final state is only sampled.
CheckFinalSampled ==
  /\ pc = "final"
  /\ \E kind \in {"Passed", "Violated"} : ThrowFrom("throw_join", kind)
  /\ UNCHANGED <<thrown, steps_run, engine, drawing, state>>

CheckFinal ==
  /\ pc = "final"
  /\ \/ ThrowFrom("throw_join", "Passed") /\ checked' = version
     \/ ThrowFrom("throw_join", "Violated") /\ UNCHANGED checked
  /\ UNCHANGED <<thrown, steps_run, engine, drawing, version, base, printed>>

-----------------------------------------------------------------------------
(* A rule's body *)

Depth == Len(frames)
Top == frames[Depth]

Push(kind) == frames' = Append(frames, [kind |-> kind, tries |-> 0])
Pop == frames' = SubSeq(frames, 1, Depth - 1)

\* A draw begins: of a generator that wraps its draws in a span (vectors, sets,
\* maps, tuples, one_of, optional, map, flat_map), of filter(), or a repeat().
BeginDraw ==
  /\ pc = "body"
  /\ Depth < MaxDepth /\ Len(spans) < MaxSpans
  /\ \/ \E kind \in {"span", "filter"} : Push(kind) /\ StartSpan(Depth + 1)
     \/ Push("repeat") /\ UNCHANGED spans
  /\ UNCHANGED <<pc, thrown, steps_run, engine, state, verdict>>

EndDraw ==
  /\ pc = "body"
  /\ Depth > 0
  /\ Pop
  /\ IF Top.kind = "repeat" THEN UNCHANGED spans ELSE StopSpan
  /\ UNCHANGED <<pc, thrown, steps_run, engine, state, verdict>>

\* Mutant of Retry: one attempt too many.
RetryOnceMore ==
  /\ pc = "body"
  /\ Depth > 0 /\ Top.kind = "filter" /\ Top.tries <= 2
  /\ frames' = [frames EXCEPT ![Depth].tries = @ + 1]
  /\ UNCHANGED <<pc, thrown, steps_run, engine, spans, state, verdict>>

\* The predicate of a filter() does not hold: its span is discarded and another
\* attempt begins in a new one.  (After three, see Reject.)
Retry ==
  /\ pc = "body"
  /\ Depth > 0 /\ Top.kind = "filter" /\ Top.tries < 2
  /\ frames' = [frames EXCEPT ![Depth].tries = @ + 1]
  /\ spans' = [spans EXCEPT ![Len(spans)] = Span(Depth)]
  /\ UNCHANGED <<pc, thrown, steps_run, engine, state, verdict>>

Mutate ==
  /\ pc = "body"
  /\ frames = <<>>
  /\ version < MaxVersion
  /\ version' = version + 1
  /\ UNCHANGED <<pc, thrown, steps_run, engine, drawing, base, printed, checked,
                 verdict>>

\* The innermost repeat() that a HegelReject thrown under the first d draws
\* meets, or 0.
Catcher(d) ==
  LET loops == {i \in 1..d : frames[i].kind = "repeat"}
  IN  IF loops = {} THEN 0 ELSE CHOOSE i \in loops : \A j \in loops : j <= i

\* HegelReject, from assume(), from the engine or from a filter() whose third
\* attempt failed: that one has closed its last span.  It unwinds to the
\* innermost repeat(), which goes on, or to the rule's handler.
Reject ==
  /\ pc = "body"
  /\ version = base
  /\ \E spent \in BOOLEAN :
       /\ IF spent
          THEN /\ Depth > 0 /\ Top.kind = "filter" /\ Top.tries = 2
               /\ StopSpan
          ELSE UNCHANGED spans
       /\ frames' = SubSeq(frames, 1, Catcher(Depth))
       /\ IF Catcher(Depth) = 0 THEN Goto("rejected") ELSE UNCHANGED pc
  /\ UNCHANGED <<thrown, steps_run, engine, state, verdict>>

\* Anything else that a draw or the rule throws unwinds to the handler.
Fail ==
  /\ pc = "body"
  /\ frames' = <<>>
  /\ thrown' \in {"Overrun", "Panicked"}
  /\ Goto("failed")
  /\ UNCHANGED <<steps_run, engine, spans, state, verdict>>

EndBody ==
  /\ pc = "body"
  /\ frames = <<>>
  /\ Goto("print")
  /\ UNCHANGED <<thrown, steps_run, engine, drawing, state, verdict>>

-----------------------------------------------------------------------------
(* What follows the body *)

\* Mutant of PrintState: the state is not printed after a step.
PrintNothing ==
  /\ pc = "print"
  /\ Goto("close")
  /\ UNCHANGED <<thrown, steps_run, engine, drawing, state, verdict>>

PrintState ==
  /\ pc = "print"
  /\ printed' = version
  /\ Goto("close")
  /\ UNCHANGED <<thrown, steps_run, engine, drawing, version, base, checked,
                 verdict>>

Close ==
  /\ pc = "close"
  /\ StopSpan
  /\ Goto("next_rule")
  /\ UNCHANGED <<thrown, steps_run, engine, frames, state, verdict>>

RuleRejected ==
  /\ pc = "rejected"
  /\ outstanding' = FALSE
  /\ Goto("discard")
  /\ UNCHANGED <<thrown, steps_run, round, group, drawing, state, verdict>>

Discard ==
  /\ pc = "discard"
  /\ StopSpan
  /\ Goto("next_rule")
  /\ UNCHANGED <<thrown, steps_run, engine, frames, state, verdict>>

\* Mutant of Failed: the handler forgets to throw again.
FailedSwallowed ==
  /\ pc = "failed"
  /\ StopSpan
  /\ Goto("next_rule")
  /\ UNCHANGED <<thrown, steps_run, engine, frames, state, verdict>>

Failed ==
  /\ pc = "failed"
  /\ StopSpan
  /\ Goto("throw_round")
  /\ UNCHANGED <<thrown, steps_run, engine, frames, state, verdict>>

Leave ==
  /\ pc \in {"throw_setup", "throw_round", "throw_join"}
  /\ Goto("ended")
  /\ verdict' = IF pc # "throw_round" THEN verdict
                ELSE Verdict(thrown, IF thrown = "Panicked" THEN 0 ELSE Main)
  /\ UNCHANGED <<thrown, steps_run, engine, drawing, state>>

Next ==
  \/ Create \/ CheckInitial \/ NextGroup \/ NextRule \/ RoundOver \/ Sample
  \/ CheckFinal \/ BeginDraw \/ EndDraw \/ Retry \/ Mutate \/ Reject \/ Fail
  \/ EndBody \/ PrintState \/ Close \/ RuleRejected \/ Discard \/ Failed \/ Leave

Spec == Init /\ [][Next]_vars

-----------------------------------------------------------------------------
(* Properties *)

\* Every invariant was checked on the very state a passing machine ends in.
FinalStateChecked ==
  pc = "ended" /\ verdict.kind = "Passed" => checked = version

\* The last state shown is the one the failing step started from; between steps
\* it is the current one, so an invariant that fails is shown with its state.
LastStateShown ==
  /\ pc = "failed" => printed = base
  /\ pc \in {"next_rule", "round_over", "sample", "final"} => printed = version

\* libhegel/hegel.h:1354, on start_span: "Pair with exactly one hegel_stop_span
\* call".  stop_span closes the span opened last, so at the end of a step that
\* was a step's own: every draw of the step has closed those it opened.
SpansPaired ==
  pc \in {"close", "discard"} => spans # <<>> /\ spans[Len(spans)] = Span(0)

-----------------------------------------------------------------------------
(* The refinement.  An exception in flight has ended neither the test nor, in *)
(* the rule's handler, the round.                                             *)

RoundsPhase ==
  CASE pc \in {"create", "initial", "throw_setup"} -> "setup"
    [] pc \in {"next_group", "sample", "final", "throw_join"} -> "join"
    [] pc = "ended" -> "ended"
    [] OTHER -> "round"

RoundsRunning ==
  IF pc \in {"next_rule", "body", "print", "close", "rejected", "discard", "failed"}
  THEN Workers ELSE {}

RoundsApplying ==
  [w \in Workers |-> IF pc \in {"body", "print", "close"} THEN group ELSE NoGroup]

RoundsOf == INSTANCE Rounds WITH
  phase    <- RoundsPhase,
  running  <- RoundsRunning,
  applying <- RoundsApplying,
  reports  <- [w \in Workers |-> IF pc = "failed" THEN "RoundDone" ELSE thrown],
  verdict  <- IF pc = "ended" THEN verdict ELSE NoVerdict

\* A sequential machine is a concurrent one with one group and one worker.
ImplementsRounds == RoundsOf!Spec
=============================================================================
