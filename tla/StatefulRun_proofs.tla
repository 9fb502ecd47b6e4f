------------------------ MODULE StatefulRun_proofs ------------------------
(***************************************************************************)
(* A sequential stateful test, for any number of groups, rounds, steps,    *)
(* draws under way, open spans and mutations of the machine's state: what  *)
(* is shown and checked of the state, which spans are open, and the rounds *)
(* it implements.                                                          *)
(***************************************************************************)
EXTENDS StatefulRun, SequenceTheorems, WellFoundedInduction, TLAPS

\* A step starts from a state that was printed, and leaves one behind.
PrintedInv ==
  /\ pc \in {"next_group", "next_rule", "round_over", "sample", "final", "close"} =>
       printed = version
  /\ pc \in {"body", "print", "rejected", "discard", "failed"} => printed = base
  /\ pc \in {"rejected", "discard"} => version = base

\* The events and verdicts of the exceptions in flight: what is thrown before
\* the first round, between rounds, and in a rule.
ThrownInv ==
  /\ pc \notin {"failed", "throw_round", "ended"} => thrown = "RoundDone"
  /\ pc \in {"failed", "throw_round"} => thrown \in {"Overrun", "Panicked"}
  /\ pc = "throw_setup" =>
       verdict \in {Verdict(k, Main) : k \in {"Control", "Overrun", "Violated"}}
  /\ pc = "throw_join" =>
       verdict \in {Verdict(k, Main) : k \in {"Passed", "Overrun", "Violated"}}
  /\ pc \notin {"throw_setup", "throw_join", "ended"} => verdict = NoVerdict

\* A test that is about to pass, or has, checked its invariants last of all.
CheckedInv ==
  pc \in {"throw_join", "ended"} /\ verdict.kind = "Passed" => checked = version

\* A round is open on a group of the machine.
GroupInv ==
  pc \in {"next_rule", "body", "print", "close", "rejected", "discard", "failed"} =>
    group \in Groups

IInv == TypeOK /\ PrintedInv /\ ThrownInv /\ CheckedInv /\ GroupInv

-----------------------------------------------------------------------------
(* Workers, verdicts and sequences *)

\* There is one worker, and it is not the main thread.
LEMMA OneWorker == Workers = {0} /\ Main = 1
  BY SequentialAssumption DEF SequentialAssumption, Workers, Main

\* The bounds, each by itself.
LEMMA Bounds ==
  /\ MaxSteps \in Nat /\ MaxDepth \in Nat /\ MaxSpans \in Nat
  /\ MaxVersion \in Nat /\ MaxRounds \in Nat \ {0}
  BY BoundsAssumption, MaxRoundsAssumption DEF BoundsAssumption, MaxRoundsAssumption

\* The verdicts of the main thread, and that of the only worker.
LEMMA VerdictsTyped ==
  /\ NoVerdict \in Verdicts
  /\ \A k \in VerdictKinds : /\ Verdict(k, Main) \in Verdicts
                             /\ Verdict(k, 0) \in Verdicts
                             /\ Verdict(k, Main).kind = k
                             /\ Verdict(k, 0).kind = k
  BY OneWorker DEF NoVerdict, Verdicts, Verdict, VerdictKinds

\* The first k elements of a sequence are a sequence of the same elements.
LEMMA Prefix ==
  ASSUME NEW S, NEW s \in Seq(S), NEW k \in Int, k <= Len(s)
  PROVE  /\ SubSeq(s, 1, k) \in Seq(S)
         /\ Len(SubSeq(s, 1, k)) <= Len(s)
<1>1. \A i \in 1 .. k : s[i] \in S
  OBVIOUS
<1>2. /\ SubSeq(s, 1, k) \in Seq(S)
      /\ Len(SubSeq(s, 1, k)) = IF 1 <= k THEN k - 1 + 1 ELSE 0
  BY <1>1, SubSeqProperties
<1> QED
  BY <1>2

\* A sequence with one more element, or another in one place, is one still.
LEMMA Changed ==
  ASSUME NEW S, NEW s \in Seq(S), NEW e \in S, NEW i \in Int
  PROVE  /\ Append(s, e) \in Seq(S) /\ Len(Append(s, e)) = Len(s) + 1
         /\ [s EXCEPT ![i] = e] \in Seq(S) /\ Len([s EXCEPT ![i] = e]) = Len(s)
<1>1. Append(s, e) \in Seq(S) /\ Len(Append(s, e)) = Len(s) + 1
  OBVIOUS
<1>2. CASE i \in 1 .. Len(s)
  BY <1>1, <1>2, ExceptSeq
<1>3. CASE i \notin 1 .. Len(s)
  <2>1. [s EXCEPT ![i] = e] = s
    BY <1>3
  <2> QED
    BY <1>1, <2>1
<1> QED
  BY <1>2, <1>3

\* A set of indices has a greatest element: the least distance from the end.
LEMMA Greatest ==
  ASSUME NEW d \in Nat, NEW L \in SUBSET (1 .. d), L # {}
  PROVE  \E i \in L : \A j \in L : j <= i
<1> DEFINE D == {d - i : i \in L}
<1>1. D \in SUBSET Nat /\ D # {}
  <2>1. \A i \in L : d - i \in Nat
    OBVIOUS
  <2> QED
    BY <2>1
<1>2. PICK m \in D : \A n \in D : ~ (<<n, m>> \in OpToRel(<, Nat))
  BY <1>1, NatLessThanWellFounded, WFMin
<1>3. PICK i \in L : m = d - i
  OBVIOUS
<1>4. ASSUME NEW j \in L PROVE j <= i
  <2>1. d - j \in D /\ d - j \in Nat /\ m \in Nat
    BY <1>1
  <2>2. ~(d - j < m)
    BY <1>2, <2>1 DEF OpToRel
  <2> QED
    BY <1>3, <2>1, <2>2
<1> QED
  BY <1>4

\* The catcher is one of the draws under way, or none.
LEMMA CatcherBounded ==
  ASSUME NEW d \in Nat
  PROVE  Catcher(d) \in 0 .. d
<1> DEFINE loops == {i \in 1..d : frames[i].kind = "repeat"}
<1>1. CASE loops = {}
  BY <1>1 DEF Catcher
<1>2. CASE loops # {}
  <2>1. \E i \in loops : \A j \in loops : j <= i
    BY <1>2, Greatest
  <2> QED
    BY <1>2, <2>1 DEF Catcher
<1> QED
  BY <1>1, <1>2

-----------------------------------------------------------------------------
(* Type correctness *)

\* The initial state is typed.
LEMMA InitTyped == Init => TypeOK
<1> SUFFICES ASSUME Init PROVE TypeOK
  OBVIOUS
<1>1. /\ frames \in Seq(Frames) /\ Len(frames) <= MaxDepth
      /\ spans \in Seq(SpanIds) /\ Len(spans) <= MaxSpans
  BY Bounds DEF Init
<1>2. {0} \subseteq (0..MaxVersion) \cap (0..MaxSteps) \cap (0..MaxRounds)
  BY Bounds
<1> QED
  BY <1>1, <1>2, VerdictsTyped DEF Init, TypeOK, EventKinds

\* Closing a span, or opening one where there is room, keeps the stack typed.
LEMMA SpansTyped ==
  ASSUME TypeOK
  PROVE  /\ StopSpan => spans' \in Seq(SpanIds) /\ Len(spans') <= MaxSpans
         /\ \A level \in 0 .. MaxDepth :
              Len(spans) < MaxSpans /\ StartSpan(level) =>
                spans' \in Seq(SpanIds) /\ Len(spans') <= MaxSpans
<1>1. Len(spans) - 1 \in Int /\ Len(spans) - 1 <= Len(spans)
  BY DEF TypeOK
<1>2. ASSUME StopSpan PROVE spans' \in Seq(SpanIds) /\ Len(spans') <= MaxSpans
  <2>1. spans' \in Seq(SpanIds) /\ Len(spans') <= Len(spans)
    BY <1>1, <1>2, Prefix DEF StopSpan, TypeOK
  <2> QED
    BY <2>1, Bounds DEF TypeOK
<1>3. ASSUME NEW level \in 0 .. MaxDepth, Len(spans) < MaxSpans, StartSpan(level)
      PROVE  spans' \in Seq(SpanIds) /\ Len(spans') <= MaxSpans
  <2>1. Span(level) \in SpanIds
    BY DEF Span, SpanIds, TypeOK
  <2> QED
    BY <1>3, <2>1, Bounds DEF StartSpan, TypeOK
<1> QED
  BY <1>2, <1>3

\* A draw that begins where there is room, or ends, keeps the frames typed.
LEMMA FramesTyped ==
  ASSUME TypeOK
  PROVE  /\ \A kind \in Kinds : Depth < MaxDepth /\ Push(kind) =>
              frames' \in Seq(Frames) /\ Len(frames') <= MaxDepth
         /\ Pop => frames' \in Seq(Frames) /\ Len(frames') <= MaxDepth
         /\ frames' = SubSeq(frames, 1, Catcher(Depth)) =>
              frames' \in Seq(Frames) /\ Len(frames') <= MaxDepth
<1>1. frames \in Seq(Frames) /\ Depth \in Nat /\ Depth <= MaxDepth
  BY DEF TypeOK, Depth
<1>2. ASSUME NEW kind \in Kinds, Depth < MaxDepth, Push(kind)
      PROVE  frames' \in Seq(Frames) /\ Len(frames') <= MaxDepth
  <2>1. [kind |-> kind, tries |-> 0] \in Frames
    BY DEF Frames
  <2> QED
    BY <1>1, <1>2, <2>1, Bounds DEF Push, Depth
<1>3. ASSUME NEW k \in Int, k <= Depth, frames' = SubSeq(frames, 1, k)
      PROVE  frames' \in Seq(Frames) /\ Len(frames') <= MaxDepth
  <2>1. frames' \in Seq(Frames) /\ Len(frames') <= Len(frames)
    BY <1>1, <1>3, Prefix DEF Depth
  <2>2. Len(frames') \in Nat
    BY <2>1
  <2> QED
    BY <1>1, <2>1, <2>2, Bounds DEF Depth
<1>4. Depth - 1 \in Int /\ Depth - 1 <= Depth
  BY <1>1
<1>5. Catcher(Depth) \in Int /\ Catcher(Depth) <= Depth
  BY <1>1, CatcherBounded
<1> QED
  BY <1>2, <1>3, <1>4, <1>5 DEF Pop

\* Every state that follows a typed one is typed.
LEMMA NextTyped == IInv /\ [Next]_vars => TypeOK'
<1> SUFFICES ASSUME IInv, [Next]_vars PROVE TypeOK'
  OBVIOUS
<1>0. TypeOK
  BY DEF IInv
<1>b. {"Control", "Overrun", "Violated", "Passed", "Panicked"} \subseteq VerdictKinds
      /\ {"Overrun", "Panicked", "RoundDone"} \subseteq EventKinds
  BY DEF VerdictKinds, EventKinds
<1> USE Bounds, VerdictsTyped DEF Goto, ThrowFrom, drawing, state, engine
<1>1. CASE Create
  BY <1>0, <1>1, <1>b DEF Create, TypeOK
<1>2. CASE CheckInitial
  BY <1>0, <1>2, <1>b DEF CheckInitial, TypeOK
<1>3. CASE NextGroup
  <2>1. round' \in 0 .. MaxRounds
    BY <1>0, <1>3 DEF NextGroup, TypeOK
  <2>2. group' \in Groups \cup {NoGroup} /\ outstanding' \in BOOLEAN
    BY <1>0, <1>3 DEF NextGroup, TypeOK
  <2>3. pc' \in {"next_rule", "final", "throw_join"} /\ verdict' \in Verdicts
    BY <1>0, <1>3, <1>b DEF NextGroup, TypeOK
  <2>4. UNCHANGED <<thrown, steps_run, frames, spans, version, base, printed, checked>>
    BY <1>3 DEF NextGroup
  <2> QED
    BY <1>0, <2>1, <2>2, <2>3, <2>4 DEF TypeOK
<1>4. CASE NextRule
  <2>1. CASE pc' = "body"
    <3>1. <<steps_run + 1, 0>> \in SpanIds /\ steps_run' \in 0 .. MaxSteps
      BY <1>0, <1>4, <2>1 DEF NextRule, TypeOK, SpanIds
    <3>2. spans' \in Seq(SpanIds) /\ Len(spans') <= MaxSpans
      <4>1. spans' = Append(spans, <<steps_run + 1, 0>>) /\ Len(spans) < MaxSpans
        BY <1>4, <2>1 DEF NextRule
      <4> QED
        BY <1>0, <3>1, <4>1, Changed DEF TypeOK
    <3> QED
      BY <1>0, <1>4, <2>1, <3>1, <3>2 DEF NextRule, TypeOK
  <2>2. CASE pc' # "body"
    BY <1>0, <1>4, <2>2, <1>b DEF NextRule, TypeOK
  <2> QED
    BY <2>1, <2>2
<1>5. CASE RoundOver
  BY <1>0, <1>5 DEF RoundOver, TypeOK
<1>6. CASE Sample
  BY <1>0, <1>6, <1>b DEF Sample, TypeOK
<1>7. CASE CheckFinal
  BY <1>0, <1>7, <1>b DEF CheckFinal, TypeOK
<1>8. CASE BeginDraw
  <2>1. Depth + 1 \in 0 .. MaxDepth
    BY <1>0, <1>8 DEF BeginDraw, TypeOK, Depth
  <2>2. frames' \in Seq(Frames) /\ Len(frames') <= MaxDepth
    BY <1>0, <1>8, FramesTyped DEF BeginDraw, Kinds
  <2>3. spans' \in Seq(SpanIds) /\ Len(spans') <= MaxSpans
    BY <1>0, <1>8, <2>1, SpansTyped DEF BeginDraw, TypeOK
  <2> QED
    BY <1>0, <1>8, <2>2, <2>3 DEF BeginDraw, TypeOK
<1>9. CASE EndDraw
  <2>1. frames' \in Seq(Frames) /\ Len(frames') <= MaxDepth
    BY <1>0, <1>9, FramesTyped DEF EndDraw
  <2>2. spans' \in Seq(SpanIds) /\ Len(spans') <= MaxSpans
    BY <1>0, <1>9, SpansTyped DEF EndDraw, TypeOK
  <2> QED
    BY <1>0, <1>9, <2>1, <2>2 DEF EndDraw, TypeOK
<1>10. CASE Retry
  <2>1. Depth \in 1 .. MaxDepth /\ Depth = Len(frames) /\ frames \in Seq(Frames)
    BY <1>0, <1>10 DEF Retry, TypeOK, Depth
  <2>2. Top \in Frames /\ Top = frames[Depth] /\ Top.tries + 1 \in 0..2
    <3>1. Top \in Frames /\ Top = frames[Depth] /\ Top.tries < 2
      BY <1>10, <2>1 DEF Top, Retry
    <3> QED
      BY <3>1 DEF Frames
  <2>3. frames' \in Seq(Frames) /\ Len(frames') <= MaxDepth
    <3>1. frames' = [frames EXCEPT ![Depth] = [Top EXCEPT !.tries = @ + 1]]
      BY <1>10, <2>1, <2>2 DEF Retry
    <3>2. [Top EXCEPT !.tries = @ + 1] \in Frames
      BY <2>2 DEF Frames
    <3> QED
      BY <2>1, <3>1, <3>2
  <2>4. spans' \in Seq(SpanIds) /\ Len(spans') <= MaxSpans
    <3>1. Span(Depth) \in SpanIds
      BY <1>0, <2>1 DEF Span, SpanIds, TypeOK
    <3> QED
      BY <1>0, <1>10, <3>1, Changed DEF Retry, TypeOK
  <2> QED
    BY <1>0, <1>10, <2>3, <2>4 DEF Retry, TypeOK
<1>11. CASE Mutate
  BY <1>0, <1>11 DEF Mutate, TypeOK
<1>12. CASE Reject
  <2>1. frames' \in Seq(Frames) /\ Len(frames') <= MaxDepth
    BY <1>0, <1>12, FramesTyped DEF Reject
  <2>2. spans' \in Seq(SpanIds) /\ Len(spans') <= MaxSpans
    BY <1>0, <1>12, SpansTyped DEF Reject, TypeOK
  <2> QED
    BY <1>0, <1>12, <2>1, <2>2 DEF Reject, TypeOK
<1>13. CASE Fail
  BY <1>0, <1>13, <1>b DEF Fail, TypeOK
<1>14. CASE EndBody
  BY <1>0, <1>14 DEF EndBody, TypeOK
<1>15. CASE PrintState
  BY <1>0, <1>15 DEF PrintState, TypeOK
<1>16. CASE Close
  BY <1>0, <1>16, SpansTyped DEF Close, TypeOK
<1>17. CASE RuleRejected
  BY <1>0, <1>17 DEF RuleRejected, TypeOK
<1>18. CASE Discard
  BY <1>0, <1>18, SpansTyped DEF Discard, TypeOK
<1>19. CASE Failed
  BY <1>0, <1>19, SpansTyped DEF Failed, TypeOK
<1>20. CASE Leave
  <2>1. verdict' \in Verdicts
    <3>1. CASE pc = "throw_round"
      <4>1. thrown \in {"Overrun", "Panicked"}
        BY <3>1 DEF IInv, ThrownInv
      <4> QED
        BY <1>20, <3>1, <4>1, <1>b DEF Leave
    <3>2. CASE pc # "throw_round"
      BY <1>0, <1>20, <3>2 DEF Leave, TypeOK
    <3> QED
      BY <3>1, <3>2
  <2> QED
    BY <1>0, <1>20, <2>1 DEF Leave, TypeOK
<1>21. CASE UNCHANGED vars
  BY <1>0, <1>21 DEF vars, TypeOK
<1> QED
  BY <1>1, <1>2, <1>3, <1>4, <1>5, <1>6, <1>7, <1>8, <1>9, <1>10, <1>11, <1>12,
     <1>13, <1>14, <1>15, <1>16, <1>17, <1>18, <1>19, <1>20, <1>21 DEF Next

-----------------------------------------------------------------------------
(* The invariant *)

\* Nothing is in flight, and nothing printed or checked, at the start.
LEMMA InitInv == Init => IInv
<1> SUFFICES ASSUME Init PROVE IInv
  OBVIOUS
<1>1. TypeOK
  BY InitTyped
<1> QED
  BY <1>1 DEF Init, IInv, PrintedInv, ThrownInv, CheckedInv, GroupInv

\* Every action prints, checks and throws what the invariant says.
LEMMA NextInv == IInv /\ [Next]_vars => IInv'
<1> SUFFICES ASSUME IInv, [Next]_vars PROVE IInv'
  OBVIOUS
<1> DEFINE Rest == PrintedInv /\ ThrownInv /\ CheckedInv /\ GroupInv
<1>0. TypeOK /\ TypeOK' /\ Rest
  BY NextTyped DEF IInv
<1>k. \A k : Verdict(k, Main).kind = k
  BY DEF Verdict
<1>a. ASSUME pc \in {"create", "initial"}, Next PROVE Rest'
  <2>1. Create \/ CheckInitial
    BY <1>a, Zenon DEF Next, Create, CheckInitial, NextGroup, NextRule, RoundOver, Sample,
       CheckFinal, BeginDraw, EndDraw, Retry, Mutate, Reject, Fail, EndBody,
       PrintState, Close, RuleRejected, Discard, Failed, Leave
  <2> QED
    BY <1>0, <1>k, <2>1 DEF Create, CheckInitial, Goto, ThrowFrom, drawing, state, engine,
       PrintedInv, ThrownInv, CheckedInv, GroupInv
<1> USE DEF Goto, ThrowFrom, drawing, state, engine, PrintedInv, ThrownInv,
            CheckedInv, GroupInv
<1>3. ASSUME NextGroup PROVE Rest'
  BY <1>0, <1>k, <1>3 DEF NextGroup
<1>4. ASSUME NextRule PROVE Rest'
  BY <1>0, <1>4 DEF NextRule
<1>5. ASSUME RoundOver PROVE Rest'
  BY <1>0, <1>5 DEF RoundOver
<1>6. ASSUME Sample PROVE Rest'
  BY <1>0, <1>k, <1>6 DEF Sample
<1>7. ASSUME CheckFinal PROVE Rest'
  BY <1>0, <1>k, <1>7 DEF CheckFinal
<1>8. ASSUME BeginDraw \/ EndDraw \/ Retry \/ Mutate \/ EndBody PROVE Rest'
  BY <1>0, <1>8 DEF BeginDraw, EndDraw, Retry, Mutate, EndBody
<1>9. ASSUME Reject PROVE Rest'
  BY <1>0, <1>9 DEF Reject
<1>10. ASSUME Fail PROVE Rest'
  BY <1>0, <1>10 DEF Fail
<1>11. ASSUME PrintState \/ Close \/ RuleRejected \/ Discard \/ Failed PROVE Rest'
  BY <1>0, <1>11 DEF PrintState, Close, RuleRejected, Discard, Failed
<1>12. ASSUME Leave PROVE Rest'
  <2>1. CASE pc = "throw_round"
    <3>1. verdict'.kind = thrown /\ thrown # "Passed"
      BY <1>0, <1>12, <2>1 DEF Leave, Verdict
    <3> QED
      BY <1>0, <1>12, <2>1, <3>1 DEF Leave
  <2>2. CASE pc # "throw_round"
    <3>1. verdict.kind = "Passed" => checked = version
      BY <1>0, <1>12, <1>k, <2>2 DEF Leave
    <3> QED
      BY <1>0, <1>12, <2>2, <3>1 DEF Leave
  <2> QED
    BY <2>1, <2>2
<1>13. ASSUME UNCHANGED vars PROVE Rest'
  BY <1>0, <1>13 DEF vars
<1>14. Rest'
  BY <1>a, <1>3, <1>4, <1>5, <1>6, <1>7, <1>8, <1>9, <1>10, <1>11, <1>12, <1>13
     DEF Next, Create, CheckInitial
<1> QED
  BY <1>0, <1>14 DEF IInv

\* The invariant holds of every state of every run of StatefulRun.
THEOREM StatefulInductive == Spec => []IInv
  BY InitInv, NextInv, PTL DEF Spec

\* Every variable of StatefulRun keeps its type, the two stacks included.
THEOREM StatefulTyped == Spec => []TypeOK
<1>1. IInv => TypeOK
  BY DEF IInv
<1> QED
  BY <1>1, StatefulInductive, PTL

\* A machine passes only after every invariant was checked on the very state it
\* ended in (check_invariants after the loop of run).
THEOREM FinalCheck == Spec => []FinalStateChecked
<1>1. IInv => FinalStateChecked
  BY DEF IInv, CheckedInv, FinalStateChecked
<1> QED
  BY <1>1, StatefulInductive, PTL

\* The state printed last is the one a failing step began from and, between
\* steps, the current one (run's handler, print_state).
THEOREM StateShown == Spec => []LastStateShown
<1>1. IInv => LastStateShown
  BY DEF IInv, PrintedInv, LastStateShown
<1> QED
  BY <1>1, StatefulInductive, PTL

-----------------------------------------------------------------------------
(* Spans.  A step ends with its own span on top (SpansPaired) unless a        *)
(* HegelReject leaves a draw whose span is open, which the code allows: that  *)
(* is all that can go wrong.                                                  *)

\* A HegelReject leaves no span open: it is thrown in the body of the rule or of
\* a repeat(), or by a filter() right there, which has closed its last span.
LeavesNoSpan ==
  \/ Catcher(Depth) = Depth /\ UNCHANGED spans
  \/ Catcher(Depth) = Depth - 1 /\ StopSpan

\* The draws that have a span, and the rule itself.
Holding(f) == {0} \cup {i \in 1 .. Len(f) : f[i].kind # "repeat"}

\* The open spans s are those of the given levels of a step, the outermost first.
Nested(s, step, levels) ==
  /\ s \in Seq(SpanIds)
  /\ \A k \in 1 .. Len(s) : s[k][1] = step /\ s[k][2] \in levels
  /\ \A j, k \in 1 .. Len(s) : j < k => s[j][2] < s[k][2]
  /\ \A i \in levels : \E k \in 1 .. Len(s) : s[k][2] = i

SpanInv ==
  /\ pc = "body" => Nested(spans, steps_run, Holding(frames))
  /\ pc \in {"print", "close", "rejected", "discard"} => spans = <<Span(0)>>
  /\ pc \in {"create", "initial", "next_group", "next_rule", "round_over", "sample",
             "final"} => spans = <<>>
  /\ pc # "body" => frames = <<>>

\* The last span is that of the innermost level, and closing it leaves the others.
LEMMA NestedClose ==
  ASSUME NEW s, NEW step, NEW levels, Nested(s, step, levels),
         NEW d \in levels \cap Int, \A i \in levels : i <= d
  PROVE  /\ Len(s) \in Nat \ {0} /\ s[Len(s)] = <<step, d>>
         /\ Nested(SubSeq(s, 1, Len(s) - 1), step, levels \ {d})
<1> DEFINE n == Len(s)
           t == SubSeq(s, 1, n - 1)
<1>1. s \in Seq(SpanIds) /\ n \in Nat
  BY DEF Nested
<1>2. PICK k \in 1 .. n : s[k][2] = d
  BY DEF Nested
<1>3. \A i \in 1 .. n : s[i] \in SpanIds /\ s[i][2] \in levels \cap Int /\ s[i][1] = step
  <2> SUFFICES ASSUME NEW i \in 1 .. n
               PROVE  s[i] \in SpanIds /\ s[i][2] \in levels \cap Int /\ s[i][1] = step
    OBVIOUS
  <2>1. s[i] \in SpanIds
    BY <1>1
  <2>2. s[i][2] \in Int
    BY <2>1 DEF SpanIds
  <2>3. s[i][1] = step /\ s[i][2] \in levels
    BY DEF Nested
  <2> QED BY <2>1, <2>2, <2>3
<1>4. k = n
  <2>1. n \in 1 .. n /\ (k < n => s[k][2] < s[n][2])
    BY <1>1, <1>2 DEF Nested
  <2> QED BY <1>2, <1>3, <2>1
<1>5. s[n] = <<step, d>>
  BY <1>2, <1>3, <1>4 DEF SpanIds
<1>6. /\ t \in Seq(SpanIds) /\ Len(t) = n - 1
      /\ \A i \in 1 .. n - 1 : t[i] = s[i]
  <2>1. \A i \in 1 .. n - 1 : s[i] \in SpanIds
    BY <1>1, <1>3
  <2>2. n - 1 \in Int /\ 1 \in Int
    BY <1>1
  <2>3. /\ t \in Seq(SpanIds)
        /\ Len(t) = IF 1 <= n - 1 THEN n - 1 - 1 + 1 ELSE 0
        /\ \A i \in 1 .. n - 1 - 1 + 1 : t[i] = s[1 + i - 1]
    BY <2>1, <2>2, SubSeqProperties
  <2> HIDE DEF t
  <2>4. Len(t) = n - 1
    <3>1. n \in Nat \ {0}
      BY <1>1, <1>2
    <3>2. Len(t) = IF 1 <= n - 1 THEN n - 1 - 1 + 1 ELSE 0
      BY <2>3
    <3> HIDE DEF n
    <3> QED BY <3>1, <3>2
  <2>5. ASSUME NEW i \in 1 .. n - 1 PROVE t[i] = s[i]
    <3>1. i \in Int /\ 1 + i - 1 = i /\ i \in 1 .. n - 1 - 1 + 1
      BY <1>1, <2>5
    <3> QED BY <2>3, <3>1
  <2> QED BY <2>3, <2>4, <2>5
<1>7. \A i \in 1 .. n - 1 : s[i][2] < d
  BY <1>2, <1>4 DEF Nested
<1>8. ASSUME NEW i \in levels \ {d} PROVE \E j \in 1 .. n - 1 : s[j][2] = i
  <2>1. PICK j \in 1 .. n : s[j][2] = i
    BY <1>8 DEF Nested
  <2> QED BY <1>1, <1>2, <1>4, <2>1
<1>9. \A i, j \in 1 .. n - 1 : i < j => s[i][2] < s[j][2]
  BY <1>1 DEF Nested
<1>10. Nested(t, step, levels \ {d})
  BY <1>1, <1>3, <1>6, <1>7, <1>8, <1>9 DEF Nested
<1> QED BY <1>1, <1>2, <1>5, <1>10

\* A span opened inside all the others.
LEMMA NestedOpen ==
  ASSUME NEW s, NEW step, NEW levels, Nested(s, step, levels),
         NEW d, <<step, d>> \in SpanIds, \A i \in levels : i < d
  PROVE  Nested(Append(s, <<step, d>>), step, levels \cup {d})
<1> DEFINE n == Len(s)
           t == Append(s, <<step, d>>)
<1>1. s \in Seq(SpanIds) /\ n \in Nat
  BY DEF Nested
<1>2. /\ t \in Seq(SpanIds) /\ Len(t) = n + 1
      /\ \A i \in 1 .. n : t[i] = s[i]
      /\ t[n + 1] = <<step, d>>
  BY <1>1, AppendProperties
<1> HIDE DEF t
<1>3. \A i \in 1 .. n : s[i][1] = step /\ s[i][2] \in levels
  BY DEF Nested
<1>4. ASSUME NEW i \in 1 .. n + 1
      PROVE  t[i][1] = step /\ t[i][2] \in levels \cup {d}
  <2>1. CASE i \in 1 .. n
    BY <1>2, <1>3, <2>1
  <2>2. CASE i = n + 1
    BY <1>2, <2>2
  <2> QED BY <1>1, <2>1, <2>2
<1>5. ASSUME NEW i \in 1 .. n + 1, NEW j \in 1 .. n + 1, i < j
      PROVE  t[i][2] < t[j][2]
  <2>1. i \in 1 .. n /\ t[i] = s[i]
    BY <1>1, <1>2, <1>5
  <2>2. CASE j \in 1 .. n
    BY <1>2, <1>5, <2>1, <2>2 DEF Nested
  <2>3. CASE j = n + 1
    BY <1>2, <1>3, <2>1, <2>3
  <2> QED BY <1>1, <2>2, <2>3
<1>6. ASSUME NEW i \in levels \cup {d} PROVE \E k \in 1 .. n + 1 : t[k][2] = i
  <2>1. CASE i \in levels
    <3>1. PICK k \in 1 .. n : s[k][2] = i
      BY <2>1 DEF Nested
    <3> QED BY <1>1, <1>2, <3>1
  <2>2. CASE i = d
    BY <1>1, <1>2, <2>2
  <2> QED BY <2>1, <2>2
<1> QED BY <1>2, <1>4, <1>5, <1>6 DEF Nested

\* With one level there is one span.
LEMMA NestedOnce ==
  ASSUME NEW s, NEW step, Nested(s, step, {0})
  PROVE  s = <<<<step, 0>>>>
<1> DEFINE one == <<<<step, 0>>>>
<1>1. s \in Seq(SpanIds) /\ Len(s) \in Nat
  BY DEF Nested
<1>2. /\ Len(s) \in Nat \ {0} /\ s[Len(s)] = <<step, 0>>
      /\ Nested(SubSeq(s, 1, Len(s) - 1), step, {0} \ {0})
  <2>1. 0 \in {0} \cap Int /\ \A i \in {0} : i <= 0
    OBVIOUS
  <2> QED BY <2>1, NestedClose
<1>3. Len(s) = 1
  <2>1. \A i, j \in 1 .. Len(s) : i < j => s[i][2] < s[j][2] /\ s[i][2] = 0 /\ s[j][2] = 0
    BY DEF Nested
  <2>2. 1 \in 1 .. Len(s) /\ Len(s) \in 1 .. Len(s)
    BY <1>2
  <2>3. ~(1 < Len(s))
    <3> SUFFICES ASSUME 1 < Len(s) PROVE FALSE
      OBVIOUS
    <3>1. s[1][2] < s[Len(s)][2] /\ s[1][2] = 0 /\ s[Len(s)][2] = 0
      BY <2>1, <2>2
    <3> QED BY <3>1
  <2> DEFINE n == Len(s)
  <2>4. n \in Nat \ {0} /\ ~(1 < n)
    BY <1>2, <2>3
  <2>5. n = 1
    <3> HIDE DEF n
    <3> QED BY <2>4
  <2> QED BY <2>5
<1>4. s[1] = <<step, 0>>
  BY <1>2, <1>3
<1>5. one \in Seq(SpanIds) /\ Len(one) = Len(s) /\ \A i \in 1 .. Len(s) : s[i] = one[i]
  BY <1>1, <1>3, <1>4
<1> QED BY <1>1, <1>5, SeqEqual

\* The levels that hold a span, as draws begin and end.
LEMMA HoldingBounded ==
  ASSUME NEW f \in Seq(Frames)
  PROVE  \A i \in Holding(f) : i \in Int /\ 0 <= i /\ i <= Len(f)
BY DEF Holding

\* No draw under way.
LEMMA HoldingNone == Holding(<<>>) = {0}
BY DEF Holding

\* A draw begins.
LEMMA HoldingPush ==
  ASSUME NEW f \in Seq(Frames), NEW e \in Frames
  PROVE  Holding(Append(f, e)) =
           Holding(f) \cup (IF e.kind = "repeat" THEN {} ELSE {Len(f) + 1})
<1> DEFINE g == Append(f, e)
           n == Len(f)
<1>1. /\ Len(g) = n + 1 /\ n \in Nat
      /\ \A i \in 1 .. n : g[i] = f[i]
      /\ g[n + 1] = e
  BY AppendProperties
<1> HIDE DEF g
<1>2. ASSUME NEW i
      PROVE  i \in 1 .. n + 1 /\ g[i].kind # "repeat" <=>
               \/ i \in 1 .. n /\ f[i].kind # "repeat"
               \/ i = n + 1 /\ e.kind # "repeat"
  <2>1. i \in 1 .. n + 1 <=> i \in 1 .. n \/ i = n + 1
    BY <1>1
  <2>2. i \in 1 .. n => i # n + 1
    BY <1>1
  <2> QED BY <1>1, <2>1, <2>2
<1>3. ASSUME NEW i
      PROVE  i \in Holding(g) <=> i = 0 \/ (i \in 1 .. n + 1 /\ g[i].kind # "repeat")
  BY <1>1 DEF Holding
<1>4. ASSUME NEW i
      PROVE  i \in Holding(f) <=> i = 0 \/ (i \in 1 .. n /\ f[i].kind # "repeat")
  BY DEF Holding
<1> QED BY <1>2, <1>3, <1>4 DEF g

\* A draw ends.
LEMMA HoldingPop ==
  ASSUME NEW f \in Seq(Frames), Len(f) > 0
  PROVE  Holding(SubSeq(f, 1, Len(f) - 1)) = Holding(f) \ {Len(f)}
<1> DEFINE n == Len(f)
           g == SubSeq(f, 1, n - 1)
<1>1. n \in Nat \ {0}
  OBVIOUS
<1>2. Len(g) = n - 1 /\ \A i \in 1 .. n - 1 : g[i] = f[i]
  <2>1. \A i \in 1 .. n - 1 : f[i] \in Frames
    OBVIOUS
  <2>2. n - 1 \in Int /\ 1 \in Int
    BY <1>1
  <2>3. /\ Len(g) = IF 1 <= n - 1 THEN n - 1 - 1 + 1 ELSE 0
        /\ \A i \in 1 .. n - 1 - 1 + 1 : g[i] = f[1 + i - 1]
    BY <2>1, <2>2, SubSeqProperties
  <2> HIDE DEF g, n
  <2>4. Len(g) = n - 1
    BY <1>1, <2>3
  <2>5. ASSUME NEW i \in 1 .. n - 1 PROVE g[i] = f[i]
    <3>1. i \in Int /\ 1 + i - 1 = i /\ i \in 1 .. n - 1 - 1 + 1
      BY <1>1, <2>5
    <3> QED BY <2>3, <3>1
  <2> QED BY <2>4, <2>5
<1> HIDE DEF g
<1>3. ASSUME NEW i
      PROVE  i \in Holding(g) <=> i = 0 \/ (i \in 1 .. n - 1 /\ g[i].kind # "repeat")
  BY <1>2 DEF Holding
<1>4. ASSUME NEW i
      PROVE  i \in Holding(f) <=> i = 0 \/ (i \in 1 .. n /\ f[i].kind # "repeat")
  BY DEF Holding
<1>5. ASSUME NEW i
      PROVE  /\ i \in 1 .. n - 1 <=> i \in 1 .. n /\ i # n
             /\ i = 0 => i # n
  BY <1>1
<1> QED BY <1>2, <1>3, <1>4, <1>5 DEF g

\* The innermost draw, if it has a span, ends: so does its span.
LEMMA DrawEnds ==
  ASSUME TypeOK, Nested(spans, steps_run, Holding(frames)), Depth > 0,
         Top.kind # "repeat"
  PROVE  /\ Len(spans) \in Nat \ {0} /\ spans[Len(spans)] = Span(Depth)
         /\ Nested(SubSeq(spans, 1, Len(spans) - 1), steps_run,
                   Holding(SubSeq(frames, 1, Depth - 1)))
<1>1. frames \in Seq(Frames) /\ Depth = Len(frames) /\ Depth \in Nat
  BY DEF TypeOK, Depth
<1>2. Depth \in Holding(frames) \cap Int
  BY <1>1 DEF Holding, Top
<1>3. \A i \in Holding(frames) : i <= Depth
  BY <1>1, HoldingBounded
<1>4. /\ Len(spans) \in Nat \ {0} /\ spans[Len(spans)] = <<steps_run, Depth>>
      /\ Nested(SubSeq(spans, 1, Len(spans) - 1), steps_run, Holding(frames) \ {Depth})
  BY <1>2, <1>3, NestedClose
<1>5. Holding(SubSeq(frames, 1, Depth - 1)) = Holding(frames) \ {Depth}
  BY <1>1, HoldingPop
<1> QED BY <1>4, <1>5 DEF Span

\* Every step, but for a rejection that leaves a span, keeps the spans nested.
LEMMA SpanStep ==
  IInv /\ IInv' /\ SpanInv /\ [Next]_vars /\ (Reject => LeavesNoSpan) => SpanInv'
<1> SUFFICES ASSUME IInv, IInv', SpanInv, [Next]_vars, Reject => LeavesNoSpan
             PROVE  SpanInv'
  OBVIOUS
<1>0. /\ frames \in Seq(Frames) /\ Depth = Len(frames) /\ Depth \in Nat
      /\ steps_run \in 0 .. MaxSteps /\ TypeOK
  BY DEF IInv, TypeOK, Depth
<1> USE DEF Goto, ThrowFrom, drawing, state, engine
<1>1. CASE Create \/ CheckInitial \/ NextGroup \/ RoundOver \/ Sample \/ CheckFinal
           \/ Mutate \/ PrintState \/ RuleRejected \/ Leave
  BY <1>1 DEF Create, CheckInitial, NextGroup, RoundOver, Sample, CheckFinal, Mutate,
              PrintState, RuleRejected, Leave, SpanInv, Span
<1>2. CASE NextRule
  <2>1. pc' # "body" => SpanInv'
    BY <1>2 DEF NextRule, SpanInv
  <2>2. ASSUME pc' = "body" PROVE SpanInv'
    <3>1. spans = <<>> /\ frames = <<>> /\ frames' = frames
      BY <1>2, <2>2 DEF NextRule, SpanInv
    <3>2. spans' = <<<<steps_run', 0>>>>
      BY <1>2, <2>2, <3>1 DEF NextRule
    <3>3. steps_run' \in 0 .. MaxSteps /\ MaxDepth \in Nat
      BY Bounds DEF IInv, TypeOK
    <3>4. Nested(spans', steps_run', {0})
      BY <3>2, <3>3 DEF Nested, SpanIds
    <3> QED BY <2>2, <3>1, <3>4, HoldingNone DEF SpanInv
  <2> QED BY <2>1, <2>2
<1>3. CASE BeginDraw
  <2>1. PICK kind \in Kinds : /\ Push(kind)
                              /\ \/ kind # "repeat" /\ StartSpan(Depth + 1)
                                 \/ kind = "repeat" /\ UNCHANGED spans
    BY <1>3 DEF BeginDraw, Kinds
  <2>2. pc = "body" /\ pc' = "body" /\ steps_run' = steps_run /\ Depth < MaxDepth
    BY <1>3 DEF BeginDraw
  <2>3. Nested(spans, steps_run, Holding(frames))
    BY <2>2 DEF SpanInv
  <2>4. [kind |-> kind, tries |-> 0] \in Frames
    BY DEF Frames
  <2>5. Holding(frames') =
          Holding(frames) \cup (IF kind = "repeat" THEN {} ELSE {Depth + 1})
    BY <1>0, <2>1, <2>4, HoldingPush DEF Push
  <2>6. CASE kind = "repeat"
    BY <2>1, <2>2, <2>3, <2>5, <2>6 DEF SpanInv
  <2>7. CASE kind # "repeat"
    <3>1. \A i \in Holding(frames) : i < Depth + 1
      BY <1>0, HoldingBounded
    <3>2. <<steps_run, Depth + 1>> \in SpanIds
      BY <1>0, <2>2, Bounds DEF SpanIds
    <3>3. spans' = Append(spans, <<steps_run, Depth + 1>>)
      BY <2>1, <2>7 DEF StartSpan, Span
    <3>4. Nested(spans', steps_run, Holding(frames) \cup {Depth + 1})
      BY <2>3, <3>1, <3>2, <3>3, NestedOpen
    <3> QED BY <2>2, <2>5, <2>7, <3>4 DEF SpanInv
  <2> QED BY <2>6, <2>7
<1>4. CASE EndDraw
  <2>1. pc = "body" /\ pc' = "body" /\ steps_run' = steps_run /\ Depth > 0
    BY <1>4 DEF EndDraw
  <2>2. Nested(spans, steps_run, Holding(frames))
    BY <2>1 DEF SpanInv
  <2>3. frames' = SubSeq(frames, 1, Depth - 1)
    BY <1>4 DEF EndDraw, Pop
  <2>4. CASE Top.kind = "repeat"
    <3>1. Holding(frames') = Holding(frames) \ {Depth}
      BY <1>0, <2>1, <2>3, HoldingPop
    <3>2. Depth \notin Holding(frames)
      BY <1>0, <2>1, <2>4 DEF Holding, Top
    <3>3. Holding(frames') = Holding(frames) /\ spans' = spans
      BY <1>4, <2>4, <3>1, <3>2 DEF EndDraw
    <3> QED BY <2>1, <2>2, <3>3 DEF SpanInv
  <2>5. CASE Top.kind # "repeat"
    <3>1. spans' = SubSeq(spans, 1, Len(spans) - 1)
      BY <1>4, <2>5 DEF EndDraw, StopSpan
    <3>2. Nested(spans', steps_run, Holding(frames'))
      BY <1>0, <2>1, <2>2, <2>3, <2>5, <3>1, DrawEnds
    <3> QED BY <2>1, <3>2 DEF SpanInv
  <2> QED BY <2>4, <2>5
<1>5. CASE Retry
  <2>1. /\ pc = "body" /\ pc' = "body" /\ steps_run' = steps_run /\ Depth > 0
        /\ Top.kind = "filter"
        /\ frames' = [frames EXCEPT ![Depth].tries = @ + 1]
        /\ spans' = [spans EXCEPT ![Len(spans)] = Span(Depth)]
    BY <1>5 DEF Retry
  <2>2. Nested(spans, steps_run, Holding(frames))
    BY <2>1 DEF SpanInv
  <2>3. Len(spans) \in Nat \ {0} /\ spans[Len(spans)] = Span(Depth)
    BY <1>0, <2>1, <2>2, DrawEnds
  <2>4. spans' = spans
    BY <1>0, <2>1, <2>3 DEF TypeOK
  <2>5. Holding(frames') = Holding(frames)
    <3>1. /\ Len(frames') = Len(frames)
          /\ \A i \in 1 .. Len(frames) : frames'[i].kind = frames[i].kind
      BY <1>0, <2>1 DEF Frames
    <3> QED BY <3>1 DEF Holding
  <2> QED BY <2>1, <2>2, <2>4, <2>5 DEF SpanInv
<1>6. CASE Reject
  <2>1. /\ pc = "body" /\ steps_run' = steps_run
        /\ pc' = IF Catcher(Depth) = 0 THEN "rejected" ELSE "body"
        /\ frames' = SubSeq(frames, 1, Catcher(Depth))
    BY <1>6 DEF Reject
  <2>2. Nested(spans, steps_run, Holding(frames))
    BY <2>1 DEF SpanInv
  <2>3. Nested(spans', steps_run, Holding(frames'))
    <3>1. CASE Catcher(Depth) = Depth /\ UNCHANGED spans
      <4>1. frames' = frames
        BY <1>0, <2>1, <3>1
      <4> QED BY <2>2, <3>1, <4>1
    <3>2. CASE Catcher(Depth) = Depth - 1 /\ StopSpan
      <4>1. spans \in Seq(SpanIds) /\ Len(spans) \in Nat \ {0}
        <5>1. 0 \in Holding(frames)
          BY DEF Holding
        <5>2. spans \in Seq(SpanIds) /\ 1 .. Len(spans) # {}
          BY <2>2, <5>1 DEF Nested
        <5> QED BY <5>2
      <4>2. Len(spans') = Len(spans) - 1
        <5>1. Len(spans) - 1 \in Int /\ Len(spans) - 1 <= Len(spans)
          BY <4>1
        <5>2. Len(SubSeq(spans, 1, Len(spans) - 1)) =
                IF 1 <= Len(spans) - 1 THEN Len(spans) - 1 - 1 + 1 ELSE 0
          <6>1. \A i \in 1 .. Len(spans) - 1 : spans[i] \in SpanIds
            BY <4>1
          <6> QED BY <5>1, <6>1, SubSeqProperties
        <5> DEFINE n == Len(spans)
        <5>3. n \in Nat \ {0} /\ Len(spans') = IF 1 <= n - 1 THEN n - 1 - 1 + 1 ELSE 0
          BY <3>2, <4>1, <5>2 DEF StopSpan
        <5>4. Len(spans') = n - 1
          <6> HIDE DEF n
          <6> QED BY <5>3
        <5> QED BY <5>4
      <4>3. spans' # spans
        BY <4>1, <4>2
      <4>4. Depth > 0 /\ Top.kind # "repeat"
        BY <1>6, <4>3 DEF Reject
      <4> QED BY <1>0, <2>1, <2>2, <3>2, <4>4, DrawEnds DEF StopSpan
    <3> QED BY <1>6, <3>1, <3>2 DEF LeavesNoSpan
  <2>4. CASE Catcher(Depth) = 0
    <3>1. frames' = <<>>
      BY <1>0, <2>1, <2>4
    <3>2. spans' = <<<<steps_run, 0>>>>
      BY <2>3, <3>1, HoldingNone, NestedOnce
    <3> QED BY <2>1, <2>4, <3>1, <3>2 DEF SpanInv, Span
  <2>5. CASE Catcher(Depth) # 0
    BY <2>1, <2>3, <2>5 DEF SpanInv
  <2> QED BY <2>4, <2>5
<1>7. CASE Fail \/ Failed
  BY <1>7 DEF Fail, Failed, SpanInv
<1>8. CASE EndBody
  <2>1. /\ pc = "body" /\ frames = <<>> /\ pc' = "print"
        /\ UNCHANGED <<frames, spans, steps_run>>
    BY <1>8 DEF EndBody
  <2>2. Nested(spans, steps_run, {0})
    BY <2>1, HoldingNone DEF SpanInv
  <2>3. spans = <<<<steps_run, 0>>>>
    BY <2>2, NestedOnce
  <2> QED BY <2>1, <2>3 DEF SpanInv, Span
<1>9. CASE Close \/ Discard
  <2>1. /\ spans = <<Span(0)>> /\ frames' = frames /\ frames = <<>>
        /\ pc' = "next_rule" /\ spans' = SubSeq(spans, 1, Len(spans) - 1)
    BY <1>9 DEF Close, Discard, StopSpan, SpanInv
  <2>2. spans' = <<>>
    BY <2>1
  <2> QED BY <2>1, <2>2 DEF SpanInv
<1>10. CASE UNCHANGED vars
  BY <1>10 DEF vars, SpanInv, Span
<1> QED
  BY <1>1, <1>2, <1>3, <1>4, <1>5, <1>6, <1>7, <1>8, <1>9, <1>10 DEF Next

\* Every span is paired with one stop_span call as long as no HegelReject leaves a
\* draw with an open span: whatever else the rules draw, retry, repeat and throw,
\* the span that a step closes is its own.
THEOREM SpansKept == Spec /\ [][Reject => LeavesNoSpan]_vars => []SpansPaired
<1>1. Init => SpanInv
  BY DEF Init, SpanInv
<1>2. IInv /\ SpanInv => SpansPaired
  <2> SUFFICES ASSUME SpanInv, pc \in {"close", "discard"}
               PROVE  spans # <<>> /\ spans[Len(spans)] = Span(0)
    BY DEF SpansPaired
  <2>1. spans = <<Span(0)>>
    BY DEF SpanInv
  <2> QED BY <2>1
<1>3. IInv /\ IInv' /\ SpanInv /\ [Next]_vars /\ [Reject => LeavesNoSpan]_vars
        => SpanInv'
  <2>1. UNCHANGED vars /\ SpanInv => SpanInv'
    BY DEF vars, SpanInv, Span, drawing, state, engine
  <2> QED BY <2>1, SpanStep
<1> QED BY <1>1, <1>2, <1>3, StatefulInductive, PTL DEF Spec

-----------------------------------------------------------------------------
(* A sequential machine implements the rounds of a concurrent one: setting up  *)
(* is the setup, a rule's body is the rule being applied, and an exception has *)
(* ended its round or the test when it reaches the code that decides so.       *)

\* The instance has the vocabulary of this module.
LEMMA SameVocabulary ==
  /\ RoundsOf!Workers = {0} /\ RoundsOf!Main = Main
  /\ RoundsOf!NoVerdict = NoVerdict /\ RoundsOf!Verdicts = Verdicts
  /\ RoundsOf!EventKinds = EventKinds
  /\ \A k, w : RoundsOf!Verdict(k, w) = Verdict(k, w)
  BY OneWorker DEF RoundsOf!Workers, Workers, RoundsOf!Main, Main, RoundsOf!NoVerdict,
     NoVerdict, RoundsOf!Verdicts, Verdicts, RoundsOf!VerdictKinds, VerdictKinds,
     RoundsOf!EventKinds, EventKinds, RoundsOf!Verdict, Verdict

\* What the specification sees of the reports and of the verdict.
RoundsReports == [w \in Workers |-> IF pc = "failed" THEN "RoundDone" ELSE thrown]
RoundsVerdict == IF pc = "ended" THEN verdict ELSE NoVerdict

\* A step that leaves what the specification sees alone is a stutter.
LEMMA Stutter ==
  ASSUME UNCHANGED <<RoundsPhase, round, group, RoundsRunning, RoundsApplying,
                     RoundsReports, RoundsVerdict>>
  PROVE  UNCHANGED RoundsOf!vars
  BY DEF RoundsOf!vars, RoundsReports, RoundsVerdict

\* What one worker reports is what is judged.
LEMMA OneJudged ==
  ASSUME NEW evs, NEW v,
         \/ evs[0] = "RoundDone" /\ v = NoVerdict
         \/ evs[0] = "Overrun" /\ v = Verdict("Overrun", Main)
         \/ evs[0] = "Panicked" /\ v = Verdict("Panicked", 0)
  PROVE  RoundsOf!Judges(v, evs)
<1>1. \A u \in RoundsOf!Workers :
        \/ RoundsOf!Rank(evs[u]) < RoundsOf!Rank(evs[0])
        \/ evs[u] = evs[0] /\ 0 <= u
  BY SameVocabulary
<1> QED
  BY <1>1, SameVocabulary DEF RoundsOf!Judges

\* The machine starts as the specification does.
LEMMA InitRefines == Init => RoundsOf!Init
  BY SameVocabulary, OneWorker
     DEF Init, RoundsOf!Init, RoundsPhase, RoundsRunning, RoundsApplying

\* A step that opens or ends a round, a rule or the test does so in the
\* specification; every other step is a stutter of it.
LEMMA NextRefines ==
  IInv /\ IInv' /\ [Next]_vars => RoundsOf!Next \/ UNCHANGED RoundsOf!vars
<1> SUFFICES ASSUME IInv, IInv', [Next]_vars
             PROVE  RoundsOf!Next \/ UNCHANGED RoundsOf!vars
  OBVIOUS
<1> USE SameVocabulary, OneWorker
    DEF Goto, ThrowFrom, drawing, state, engine, RoundsPhase, RoundsRunning,
        RoundsApplying
<1> DEFINE Reports == [w \in {0} |-> IF pc = "failed" THEN "RoundDone" ELSE thrown]
           Applying == [w \in {0} |-> IF pc \in {"body", "print", "close"}
                                      THEN group ELSE NoGroup]
<1>0. /\ Reports[0] = IF pc = "failed" THEN "RoundDone" ELSE thrown
      /\ Applying[0] = IF pc \in {"body", "print", "close"} THEN group ELSE NoGroup
  OBVIOUS
<1>g. GroupInv /\ ThrownInv
  BY DEF IInv
<1>n. NoGroup \notin Groups
  BY GroupsAssumption DEF GroupsAssumption
<1>1. CASE Create \/ CheckInitial
  <2>1. CASE pc' # "next_group"
    BY <1>1, <2>1, Stutter DEF Create, CheckInitial, RoundsReports, RoundsVerdict
  <2>2. CASE pc' = "next_group"
    <3>1. RoundsOf!Ready
      BY <1>1, <2>2 DEF Create, CheckInitial, RoundsOf!Ready
    <3> QED
      BY <3>1 DEF RoundsOf!Next
  <2> QED
    BY <2>1, <2>2
<1>2. CASE NextGroup
  <2>1. CASE pc' # "next_rule"
    BY <1>2, <2>1, Stutter DEF NextGroup, RoundsReports, RoundsVerdict
  <2>2. CASE pc' = "next_rule"
    <3>1. group' \in Groups /\ RoundsOf!Open(group')
      BY <1>2, <2>2 DEF NextGroup, RoundsOf!Open
    <3> QED
      BY <3>1 DEF RoundsOf!Next
  <2> QED
    BY <2>1, <2>2
<1>3. CASE NextRule
  <2>1. CASE pc' = "body"
    <3>1. [w \in {0} |-> group] = [Applying EXCEPT ![0] = group]
      OBVIOUS
    <3>2. RoundsOf!BeginRule(0)
      BY <1>0, <1>3, <2>1, <3>1 DEF NextRule, RoundsOf!BeginRule
    <3> QED
      BY <3>2 DEF RoundsOf!Next
  <2>2. CASE pc' # "body"
    <3>1. Reports' = [Reports EXCEPT ![0] = thrown']
      BY <1>3, <2>2 DEF NextRule
    <3>2. thrown' \in EventKinds /\ RoundsOf!Finish(0, thrown')
      BY <1>0, <1>3, <2>2, <3>1 DEF NextRule, RoundsOf!Finish, EventKinds
    <3> QED
      BY <3>2 DEF RoundsOf!Next
  <2> QED
    BY <2>1, <2>2
<1>4. CASE RoundOver
  <2>1. RoundsOf!Judges(NoVerdict, Reports)
    BY <1>g, <1>0, <1>4, OneJudged DEF RoundOver, ThrownInv
  <2>2. RoundsOf!Close
    BY <1>4, <2>1, VerdictsTyped DEF RoundOver, RoundsOf!Close
  <2> QED
    BY <2>2 DEF RoundsOf!Next
<1>5. CASE Sample \/ CheckFinal
  BY <1>5, Stutter DEF Sample, CheckFinal, RoundsReports, RoundsVerdict
<1>6. CASE BeginDraw \/ EndDraw \/ Retry \/ Mutate \/ EndBody \/ PrintState
           \/ RuleRejected \/ Discard
  BY <1>6, Stutter DEF BeginDraw, EndDraw, Retry, Mutate, EndBody, PrintState,
     RuleRejected, Discard, RoundsReports, RoundsVerdict
<1>7. CASE Reject \/ Fail \/ Close
  <2>1. CASE pc' = "body"
    BY <1>7, <2>1, Stutter DEF Reject, Fail, Close, RoundsReports, RoundsVerdict
  <2>2. CASE pc' # "body"
    <3>1. /\ pc \in {"body", "close"} /\ pc' \in {"rejected", "failed", "next_rule"}
          /\ UNCHANGED <<round, group, verdict>>
          /\ pc' # "failed" => thrown' = thrown
      BY <1>7, <2>2 DEF Reject, Fail, Close
    <3>2. thrown = "RoundDone" /\ group \in Groups
      BY <1>g, <3>1 DEF ThrownInv, GroupInv
    <3>3. [w \in {0} |-> NoGroup] = [Applying EXCEPT ![0] = NoGroup]
      OBVIOUS
    <3>4. Reports' = Reports
      BY <3>1, <3>2
    <3>5. RoundsOf!EndRule(0)
      BY <1>0, <1>n, <3>1, <3>2, <3>3, <3>4 DEF RoundsOf!EndRule
    <3> QED
      BY <3>5 DEF RoundsOf!Next
  <2> QED
    BY <2>1, <2>2
<1>8. CASE Failed
  <2>1. Reports' = [Reports EXCEPT ![0] = thrown]
    BY <1>8 DEF Failed
  <2>2. thrown \in EventKinds
    BY <1>g, <1>8 DEF Failed, ThrownInv, EventKinds
  <2>3. RoundsOf!Finish(0, thrown)
    BY <1>0, <1>8, <2>1 DEF Failed, RoundsOf!Finish
  <2> QED
    BY <2>2, <2>3 DEF RoundsOf!Next
<1>9. CASE Leave
  <2>1. CASE pc = "throw_setup"
    <3>1. RoundsOf!GiveUp
      BY <1>g, <1>9, <2>1 DEF Leave, ThrownInv, RoundsOf!GiveUp, RoundsOf!End
    <3> QED
      BY <3>1 DEF RoundsOf!Next
  <2>2. CASE pc = "throw_join"
    <3>1. RoundsOf!Conclude
      BY <1>g, <1>9, <2>2 DEF Leave, ThrownInv, RoundsOf!Conclude, RoundsOf!End
    <3> QED
      BY <3>1 DEF RoundsOf!Next
  <2>3. CASE pc = "throw_round"
    <3>1. RoundsOf!Judges(verdict', Reports) /\ verdict' # NoVerdict
      <4>1. \/ thrown = "Overrun" /\ verdict' = Verdict("Overrun", Main)
            \/ thrown = "Panicked" /\ verdict' = Verdict("Panicked", 0)
        BY <1>g, <1>9, <2>3 DEF Leave, ThrownInv
      <4>2. verdict' # NoVerdict
        BY <4>1 DEF NoVerdict, Verdict
      <4> QED
        BY <1>0, <2>3, <4>1, <4>2, OneJudged
    <3>2. verdict' \in Verdicts
      BY DEF IInv, TypeOK
    <3>3. RoundsOf!Close
      BY <1>9, <2>3, <3>1, <3>2 DEF Leave, RoundsOf!Close
    <3> QED
      BY <3>3 DEF RoundsOf!Next
  <2> QED
    BY <1>9, <2>1, <2>2, <2>3 DEF Leave
<1>10. CASE UNCHANGED vars
  BY <1>10, Stutter DEF vars, RoundsReports, RoundsVerdict
<1> QED
  BY <1>1, <1>2, <1>3, <1>4, <1>5, <1>6, <1>7, <1>8, <1>9, <1>10 DEF Next

\* run is run_concurrent with one worker: every behaviour of a sequential
\* machine is one that the rounds of a concurrent machine allow.
THEOREM SequentialImplements == Spec => ImplementsRounds
  BY InitRefines, NextRefines, StatefulInductive, PTL
     DEF Spec, ImplementsRounds, RoundsOf!Spec
=============================================================================
