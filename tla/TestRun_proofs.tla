--------------------------- MODULE TestRun_proofs ---------------------------
(***************************************************************************)
(* One call of hegel::test(), for any settings, any failures of the test   *)
(* body and any number of test cases: the engine is never misused, the     *)
(* report tells the truth and is complete, and the call keeps the promise  *)
(* of PropertyTest.                                                        *)
(*                                                                         *)
(* A call generates, then judges, then replays.  The invariant follows the *)
(* bodies through the three: what was counted and found while generating,  *)
(* which failures are left to replay, and what has been printed of them.   *)
(*                                                                         *)
(* The last part is about Settings: each choice reaches the engine, and    *)
(* the keys, blobs and verdicts of two tests stay apart.                   *)
(***************************************************************************)
EXTENDS TestRun, FoldLemmas, FiniteSetTheorems

\* The body is one of the generation loop's, not of a replay.
Searching == failure = NoOrigin /\ ~given_blobs

Loop == {"settings", "next", "body", "case_over", "mark", "verdict"}
InCase == {"body", "case_over", "mark", "judge"}

\* Which of the call's phases it is in, and how it got there.
ModeInv ==
  /\ given_blobs => /\ failure = NoOrigin /\ run_status = "none"
                    /\ pc \notin {"next", "verdict"}
  /\ ~given_blobs /\ pc \in {"replay", "judge"} => run_status = "FAILED"
  /\ ~given_blobs /\ pc = "judge" => failure # NoOrigin
  /\ failure # NoOrigin => /\ pc \in InCase \cup {"replay", "ended"}
                           /\ run_status = "FAILED"
  /\ pc \in Loop \ {"verdict"} /\ Searching => run_status = "none"
  /\ pc = "verdict" => run_status # "none"
  /\ pc \notin {"settings", "ended"} => ValidSettings(settings)
  /\ pc = "settings" => case = "none"
  /\ run_status # "FAILED" => unreported = {}

\* A call ends once.
EndInv ==
  /\ pc = "ended" <=> ending # "none"
  /\ ending \notin {"none", "raised"} \/ pc # "ended" => raised = 0

\* What run_body returned is what became of the latest body.
OutcomeInv ==
  pc \in {"case_over", "mark", "judge"} =>
    Len(bodies) > 0 /\ outcome = bodies[Len(bodies)]

\* The failures found are those of the bodies that were marked.
FoundInv ==
  /\ IsFiniteSet(found)
  /\ \A o \in found : \E i \in 1 .. Len(bodies) : bodies[i] = Failed(o)
  /\ pc \in Loop /\ Searching =>
       \A i \in 1 .. Len(bodies) :
         Interesting(bodies[i]) =>
           \/ bodies[i].origin \in found
           \/ pc \in {"case_over", "mark"} /\ i = Len(bodies)

\* A failure of a nondeterministic case ends the search, and is kept.
LiveInv ==
  /\ found_live => run_is_nondeterministic /\ found # {} /\ pc # "settings"
  /\ pc \in {"body", "case_over", "mark"} /\ Searching =>
       nondeterministic = run_is_nondeterministic /\ ~found_live
  /\ pc = "mark" /\ Searching /\ nondeterministic /\ Interesting(outcome) =>
       captured = Len(bodies)
  /\ pc \in {"next", "verdict"} /\ found_live =>
       /\ Len(bodies) > 0 /\ captured = Len(bodies)
       /\ Interesting(bodies[Len(bodies)])

\* The failures left to replay and the sections printed make up the report.
ReportInv ==
  /\ run_status = "PASSED" => found = {}
  /\ run_status = "FAILED_NONDETERMINISTIC" => found_live
  /\ run_status = "none" \/ pc = "verdict" => sections = {}
  /\ run_status = "FAILED" =>
       /\ failure_count # 1 => /\ settings.report_multiple_failures
                               /\ \E a, b \in found : a # b
       /\ Cardinality(unreported) <= failure_count
       /\ ~quiet => /\ IsFiniteSet(sections)
                    /\ sections \cap unreported = {}
                    /\ Cardinality(sections) + Cardinality(unreported) = failure_count
       /\ pc \in InCase => failure \in unreported
       /\ ending \in {"raised", "summary"} => unreported = {}

\* The section under way shows the body being judged.
ShownInv ==
  /\ pc = "mark" /\ ~Searching /\ ~quiet => shown = Len(bodies)
  /\ pc = "judge" /\ ~quiet => shown = Len(bodies)
  /\ ReportTellsWhatIsRaised

\* Of the first k bodies: those up to the first failure, and the ones of them
\* that ran to an end or were discarded.
FalsifyingTo(k) == {i \in 1 .. k : \A j \in 1 .. i-1 : ~Interesting(bodies[j])}
RanTo(k) == {i \in FalsifyingTo(k) : bodies[i].status \in {"VALID", "INTERESTING"}}
DiscardedTo(k) == {i \in FalsifyingTo(k) : bodies[i].status = "INVALID"}

\* How many bodies the loop has counted.
Tallied == IF pc = "case_over" THEN Len(bodies) - 1 ELSE Len(bodies)

TallyInv ==
  /\ pc \in Loop /\ Searching =>
       /\ Len(bodies) <= MaxCases
       /\ pc = "body" => Len(bodies) < MaxCases
       /\ pc = "case_over" => Len(bodies) > 0
       /\ seen_interesting = \E i \in 1 .. Tallied : Interesting(bodies[i])
       /\ cases_run = Cardinality(RanTo(Tallied))
       /\ cases_discarded = Cardinality(DiscardedTo(Tallied))

IInv ==
  /\ TypeOK /\ EngineNeverRefuses /\ ModeInv /\ EndInv /\ OutcomeInv /\ FoundInv
  /\ LiveInv /\ ReportInv /\ ShownInv /\ TallyInv

-----------------------------------------------------------------------------
(* Facts about the constants and about sequences of bodies *)

\* The outcomes a body can have.
LEMMA OutcomesOf ==
  /\ Valid \in Property!Outcomes /\ Invalid \in Property!Outcomes
  /\ Overrun \in Property!Outcomes
  /\ ~Interesting(Valid) /\ ~Interesting(Invalid) /\ ~Interesting(Overrun)
  /\ \A o \in Origins : /\ Failed(o) \in Property!Outcomes
                        /\ Interesting(Failed(o)) /\ Failed(o).origin = o
  /\ \A out \in Property!Outcomes :
       Interesting(out) => out.origin \in Origins /\ out = Failed(out.origin)
  /\ \A out \in Property!Outcomes : out.status \in {"VALID", "OVERRUN", "INVALID", "INTERESTING"}
<1> USE DEF Valid, Invalid, Overrun, Failed, Interesting, Property!Outcome,
            Property!Failed, Property!Interesting
<1>1. /\ Valid \in Property!Unremarkable /\ Invalid \in Property!Unremarkable
      /\ Overrun \in Property!Unremarkable
  BY DEF Property!Unremarkable
<1>2. ASSUME NEW out \in Property!Unremarkable
      PROVE  out.status \in {"VALID", "OVERRUN", "INVALID"}
  BY DEF Property!Unremarkable
<1>3. ASSUME NEW o \in Origins PROVE Failed(o) \in Property!Outcomes
  BY DEF Property!Outcomes
<1>4. ASSUME NEW out \in Property!Outcomes
      PROVE  \/ out \in Property!Unremarkable
             \/ \E o \in Origins : out = Failed(o)
  BY DEF Property!Outcomes
<1>5. \A o : /\ Interesting(Failed(o)) /\ Failed(o).origin = o
             /\ Failed(o).status = "INTERESTING"
  OBVIOUS
<1>6. /\ Property!Unremarkable \subseteq Property!Outcomes
      /\ \A out \in Property!Unremarkable : ~Interesting(out)
  BY <1>2 DEF Property!Outcomes
<1> QED
  BY <1>1, <1>2, <1>3, <1>4, <1>5, <1>6

\* The engine is told whether to report several failures.
LEMMA HandleReports ==
  handle.report_multiple_failures = settings.report_multiple_failures
  BY ProfileAssumption, Zenon DEF ProfileAssumption, handle, apply_settings

\* A body that ends is one more body, after those before it.
LEMMA OneMore ==
  ASSUME bodies \in Seq(Property!Outcomes), NEW out \in Property!Outcomes,
         bodies' = Append(bodies, out)
  PROVE  /\ bodies' \in Seq(Property!Outcomes)
         /\ Len(bodies) \in Nat /\ Len(bodies') = Len(bodies) + 1
         /\ bodies'[Len(bodies')] = out
         /\ \A i \in 1 .. Len(bodies) : bodies'[i] = bodies[i]
  OBVIOUS

\* A test body goes on, or it ends in some way, and touches nothing else.
LEMMA BodySteps ==
  ASSUME Next, pc = "body"
  PROVE  /\ UNCHANGED <<caller, counters, nondeterministic, captured, failure,
                        report, result, case, search, verdict>>
         /\ recorded' \in {recorded, TRUE} /\ rejected' \in {rejected, TRUE}
         /\ \/ UNCHANGED <<pc, outcome, bodies>>
            \/ /\ pc' = "case_over"
               /\ \E out \in Property!Outcomes :
                    outcome' = out /\ bodies' = Append(bodies, out)
<1>1. ExpectFails \/ AssertFails \/ CreateMachine \/ EndBody
  BY Zenon DEF Next, ApplySettings, NextTestCase, RunOver, Tally, Replayed,
     MarkComplete, Conclude, RaiseCaptured, BeginReport, ReplayFailure,
     JudgeFailure, JudgeBlob
<1>2. CASE ExpectFails
  BY <1>2 DEF ExpectFails, engine
<1>3. CASE AssertFails
  <2>1. Failed(GTestOrigin) \in Property!Outcomes
    BY OutcomesOf, OriginAssumption DEF OriginAssumption
  <2> QED
    BY <1>3, <2>1 DEF AssertFails, BodyEnds, engine
<1>4. CASE CreateMachine
  BY <1>4, OutcomesOf DEF CreateMachine, BodyEnds
<1>5. CASE EndBody
  <2>1. \E out \in Property!Outcomes : BodyEnds(out)
    BY <1>5, OutcomesOf, OriginAssumption DEF EndBody, OriginAssumption
  <2> QED
    BY <1>5, <2>1 DEF EndBody, BodyEnds, engine
<1> QED
  BY <1>1, <1>2, <1>3, <1>4, <1>5

\* In the actions below a sequence of bodies stays, or has one more.
LEMMA BodiesGrow ==
  ASSUME TypeOK, Next
  PROVE  \/ UNCHANGED bodies
         \/ /\ pc = "body" /\ pc' = "case_over"
            /\ \E out \in Property!Outcomes :
                 outcome' = out /\ bodies' = Append(bodies, out)
<1>1. CASE pc = "body"
  BY <1>1, BodySteps
<1>2. CASE pc # "body"
  BY <1>2, Zenon DEF Next, ApplySettings, NextTestCase, RunOver, ExpectFails, AssertFails,
     CreateMachine, EndBody, Tally, Replayed, MarkComplete, Conclude, RaiseCaptured,
     BeginReport, ReplayFailure, JudgeFailure, JudgeBlob
<1> QED
  BY <1>1, <1>2

-----------------------------------------------------------------------------
(* Where the call is *)

\* The engine's refusals, the phases and the endings do not depend on data.
LEMMA ControlStep ==
  TypeOK /\ EngineNeverRefuses /\ ModeInv /\ EndInv /\ [Next]_vars
    => (EngineNeverRefuses /\ ModeInv /\ EndInv)'
<1> SUFFICES ASSUME TypeOK, EngineNeverRefuses, ModeInv, EndInv, [Next]_vars
             PROVE  (EngineNeverRefuses /\ ModeInv /\ EndInv)'
  OBVIOUS
<1> USE DEF caller, counters, body, report, result, search, engine, verdict,
            EngineNeverRefuses, ModeInv, EndInv, InCase, Loop, Searching
<1>1. CASE ApplySettings
  BY <1>1 DEF ApplySettings, End, Rethrow, TypeOK
<1>2. CASE NextTestCase
  BY <1>2 DEF NextTestCase, Open
<1>3. CASE RunOver
  BY <1>3 DEF RunOver
<1>4. CASE Next /\ pc = "body"
  BY <1>4, BodySteps
<1>5. CASE Tally
  BY <1>5 DEF Tally
<1>6. CASE Replayed
  BY <1>6 DEF Replayed
<1>7. CASE MarkComplete
  BY <1>7 DEF MarkComplete
<1>8. CASE Conclude
  BY <1>8 DEF Conclude, End
<1>9. CASE RaiseCaptured
  BY <1>9 DEF RaiseCaptured, End, Rethrow
<1>10. CASE BeginReport
  BY <1>10 DEF BeginReport
<1>11. CASE ReplayFailure
  BY <1>11, OriginAssumption DEF OriginAssumption, ReplayFailure, Open, End, TypeOK
<1>12. CASE JudgeFailure
  BY <1>12 DEF JudgeFailure, End, Rethrow
<1>13. CASE JudgeBlob
  BY <1>13 DEF JudgeBlob, End, Rethrow
<1>14. CASE UNCHANGED vars
  BY <1>14 DEF vars
<1> QED
  BY <1>1, <1>2, <1>3, <1>4, <1>5, <1>6, <1>7, <1>8, <1>9, <1>10, <1>11, <1>12,
     <1>13, <1>14 DEF Next, ExpectFails, AssertFails, CreateMachine, EndBody

-----------------------------------------------------------------------------
(* The bodies, what was found in them and what was kept of them *)

\* The outcome judged is that of the latest body.
LEMMA OutcomeStep ==
  TypeOK /\ OutcomeInv /\ [Next]_vars => OutcomeInv'
<1> SUFFICES ASSUME TypeOK, OutcomeInv, [Next]_vars PROVE OutcomeInv'
  OBVIOUS
<1> USE DEF OutcomeInv
<1>1. CASE Next /\ pc = "body"
  <2>1. CASE UNCHANGED <<pc, outcome, bodies>>
    BY <2>1
  <2>2. ASSUME NEW out \in Property!Outcomes, outcome' = out, bodies' = Append(bodies, out)
        PROVE  OutcomeInv'
    BY <2>2, OneMore DEF TypeOK
  <2> QED
    BY <1>1, <2>1, <2>2, BodySteps
<1>2. CASE Tally \/ Replayed \/ MarkComplete
  BY <1>2 DEF Tally, Replayed, MarkComplete, body
<1>3. CASE UNCHANGED vars
  BY <1>3 DEF vars, body
<1>4. CASE /\ Next /\ pc # "body"
           /\ ~Tally /\ ~Replayed /\ ~MarkComplete
  <2>1. pc' \notin {"case_over", "mark", "judge"}
    BY <1>4 DEF Next, ApplySettings, NextTestCase, RunOver, ExpectFails, AssertFails,
       CreateMachine, EndBody, Conclude, RaiseCaptured, BeginReport, ReplayFailure,
       JudgeFailure, JudgeBlob, Open, End, Rethrow
  <2> QED
    BY <2>1
<1> QED
  BY <1>1, <1>2, <1>3, <1>4

\* Every failure of the loop is found, and nothing else is.
LEMMA FoundStep ==
  TypeOK /\ ModeInv /\ OutcomeInv /\ FoundInv /\ [Next]_vars => FoundInv'
<1> SUFFICES ASSUME TypeOK, ModeInv, OutcomeInv, FoundInv, [Next]_vars PROVE FoundInv'
  OBVIOUS
<1> USE DEF Loop, Searching
<1>1. CASE Next /\ pc = "body"
  <2>1. found' = found /\ UNCHANGED <<failure, given_blobs>>
    BY <1>1, BodySteps DEF search, caller
  <2>2. CASE UNCHANGED <<pc, outcome, bodies>>
    BY <2>1, <2>2 DEF FoundInv
  <2>3. ASSUME NEW out \in Property!Outcomes, bodies' = Append(bodies, out),
               pc' = "case_over"
        PROVE  FoundInv'
    <3>1. /\ Len(bodies) \in Nat /\ Len(bodies') = Len(bodies) + 1
          /\ \A i \in 1 .. Len(bodies) : bodies'[i] = bodies[i]
      BY <2>3, OneMore DEF TypeOK
    <3>2. \A o \in found : \E i \in 1 .. Len(bodies') : bodies'[i] = Failed(o)
      BY <3>1 DEF FoundInv
    <3>3. ASSUME NEW i \in 1 .. Len(bodies'), Interesting(bodies'[i]), Searching
          PROVE  bodies'[i].origin \in found \/ i = Len(bodies')
      BY <1>1, <3>1, <3>3 DEF FoundInv
    <3> QED
      BY <2>1, <2>3, <3>2, <3>3 DEF FoundInv
  <2> QED
    BY <1>1, <2>2, <2>3, BodySteps
<1>2. CASE MarkComplete
  <2>1. /\ Len(bodies) \in Nat /\ Len(bodies) > 0 /\ bodies' = bodies
        /\ outcome = bodies[Len(bodies)]
        /\ outcome \in Property!Outcomes
    BY <1>2 DEF MarkComplete, OutcomeInv, TypeOK
  <2>2. Interesting(outcome) => outcome = Failed(outcome.origin)
    BY <2>1, OutcomesOf
  <2>3. CASE Searching
    <3>1. /\ found' = IF Interesting(outcome) THEN found \cup {outcome.origin} ELSE found
          /\ pc' = "next" /\ UNCHANGED <<failure, given_blobs>>
      BY <1>2, <2>3 DEF MarkComplete, caller
    <3>2. IsFiniteSet(found')
      BY <3>1, FS_AddElement DEF FoundInv
    <3>3. \A o \in found' : \E i \in 1 .. Len(bodies) : bodies[i] = Failed(o)
      BY <2>1, <2>2, <3>1 DEF FoundInv
    <3>4. \A i \in 1 .. Len(bodies) : Interesting(bodies[i]) => bodies[i].origin \in found'
      BY <1>2, <2>1, <2>3, <3>1 DEF FoundInv, MarkComplete
    <3> QED
      BY <2>1, <3>1, <3>2, <3>3, <3>4 DEF FoundInv
  <2>4. CASE ~Searching
    <3>1. UNCHANGED <<found, bodies>> /\ pc' = "judge"
      BY <1>2, <2>4 DEF MarkComplete, search
    <3> QED
      BY <3>1 DEF FoundInv
  <2> QED
    BY <2>3, <2>4
<1>3. CASE UNCHANGED vars
  BY <1>3 DEF vars, search, engine, caller, FoundInv
<1>4. CASE ReplayFailure
  <2>1. UNCHANGED <<found, bodies>>
    BY <1>4 DEF ReplayFailure, search
  <2>2. ~(pc' \in Loop /\ Searching')
    BY <1>4, OriginAssumption
       DEF OriginAssumption, ReplayFailure, Open, End, TypeOK, caller, ModeInv
  <2> QED
    BY <2>1, <2>2 DEF FoundInv
<1>5. CASE ApplySettings \/ NextTestCase \/ RunOver \/ Tally
  <2>1. UNCHANGED <<found, bodies, failure, given_blobs>>
    BY <1>5 DEF ApplySettings, NextTestCase, RunOver, Tally, search, engine, caller
  <2>2. pc \in Loop /\ (pc = "case_over" => pc' = "mark")
    BY <1>5 DEF ApplySettings, NextTestCase, RunOver, Tally
  <2>3. pc # "mark"
    BY <1>5 DEF ApplySettings, NextTestCase, RunOver, Tally
  <2> QED
    BY <2>1, <2>2, <2>3 DEF FoundInv
<1>6. CASE Replayed \/ Conclude \/ RaiseCaptured \/ BeginReport \/ JudgeFailure \/ JudgeBlob
  <2>1. UNCHANGED <<found, bodies, failure, given_blobs>>
    BY <1>6 DEF Replayed, Conclude, RaiseCaptured, BeginReport, JudgeFailure,
       JudgeBlob, search, engine, caller
  <2>2. ~(pc' \in Loop /\ Searching')
    BY <1>6, <2>1 DEF Replayed, Conclude, RaiseCaptured, BeginReport, JudgeFailure,
       JudgeBlob, End, Rethrow
  <2> QED
    BY <2>1, <2>2 DEF FoundInv
<1> QED
  BY <1>1, <1>2, <1>3, <1>4, <1>5, <1>6
     DEF Next, ExpectFails, AssertFails, CreateMachine, EndBody

\* A nondeterministic failure is the loop's last body, and is captured.
LEMMA LiveStep ==
  TypeOK /\ ModeInv /\ OutcomeInv /\ LiveInv /\ [Next]_vars => LiveInv'
<1> SUFFICES ASSUME TypeOK, ModeInv, OutcomeInv, LiveInv, [Next]_vars PROVE LiveInv'
  OBVIOUS
<1> USE DEF LiveInv, Searching
<1>1. CASE Next /\ pc = "body"
  <2>1. UNCHANGED <<found, found_live, run_is_nondeterministic, failure, given_blobs,
                    nondeterministic>>
        /\ pc' \in {"body", "case_over"}
    BY <1>1, BodySteps DEF search, caller
  <2> QED
    BY <1>1, <2>1
<1>2. CASE MarkComplete
  <2>1. Len(bodies) > 0 /\ outcome = bodies[Len(bodies)] /\ bodies' = bodies
    BY <1>2 DEF MarkComplete, OutcomeInv
  <2>2. {found_live, nondeterministic, run_is_nondeterministic} \subseteq BOOLEAN
    BY DEF TypeOK
  <2>3. CASE Searching
    <3>1. pc' = "next" /\ UNCHANGED <<nondeterministic, captured>>
      BY <1>2, <2>3 DEF MarkComplete
    <3>2. /\ found_live' = (Interesting(outcome) /\ nondeterministic)
          /\ Interesting(outcome) => found' # {}
          /\ run_is_nondeterministic => run_is_nondeterministic'
      BY <1>2, <2>2, <2>3 DEF MarkComplete
    <3>3. found_live' => nondeterministic /\ run_is_nondeterministic
                         /\ captured = Len(bodies)
      BY <1>2, <2>3, <3>2 DEF MarkComplete
    <3> QED
      BY <2>1, <3>1, <3>2, <3>3
  <2>4. CASE ~Searching
    BY <1>2, <2>4 DEF MarkComplete, search
  <2> QED
    BY <2>3, <2>4
<1>3. CASE UNCHANGED vars
  BY <1>3 DEF vars, search, engine, caller, body
<1>4. CASE ReplayFailure
  <2>1. ~(pc' \in {"body", "case_over", "mark"} /\ Searching')
    BY <1>4, OriginAssumption
       DEF OriginAssumption, ReplayFailure, Open, End, TypeOK, caller, ModeInv
  <2>2. pc' \in {"body", "ended"}
    BY <1>4 DEF ReplayFailure, Open, End
  <2> QED
    BY <1>4, <2>1, <2>2 DEF ReplayFailure, search
<1>5. CASE ApplySettings
  BY <1>5 DEF ApplySettings, End, engine, search
<1>6. CASE NextTestCase
  BY <1>6 DEF NextTestCase, Open, search, caller
<1>7. CASE RunOver
  BY <1>7 DEF RunOver, engine, search
<1>8. CASE Tally
  BY <1>8 DEF Tally, engine, search, caller, body
<1>9. CASE Replayed
  BY <1>9 DEF Replayed, engine, search, caller
<1>10. CASE Conclude \/ RaiseCaptured \/ BeginReport \/ JudgeFailure \/ JudgeBlob
  <2>1. pc' \in {"ended", "replay"}
    BY <1>10 DEF Conclude, RaiseCaptured, BeginReport, JudgeFailure, JudgeBlob, End, Rethrow
  <2>2. UNCHANGED <<found, found_live, run_is_nondeterministic>>
    BY <1>10 DEF Conclude, RaiseCaptured, BeginReport, JudgeFailure, JudgeBlob, engine, search
  <2> QED
    BY <2>1, <2>2
<1> QED
  BY <1>1, <1>2, <1>3, <1>4, <1>5, <1>6, <1>7, <1>8, <1>9, <1>10
     DEF Next, ExpectFails, AssertFails, CreateMachine, EndBody

\* The open section shows the body that is judged.
LEMMA ShownStep ==
  ModeInv /\ EndInv /\ ShownInv /\ [Next]_vars => ShownInv'
<1> SUFFICES ASSUME ModeInv, EndInv, ShownInv, [Next]_vars PROVE ShownInv'
  OBVIOUS
<1> USE DEF ShownInv, ReportTellsWhatIsRaised, EndInv, Searching, quiet, caller
<1>1. CASE Next /\ pc = "body"
  <2>1. UNCHANGED <<settings, ending, raised, shown>> /\ pc' \in {"body", "case_over"}
    BY <1>1, BodySteps DEF report, result
  <2> QED
    BY <2>1
<1>2. CASE UNCHANGED vars
  BY <1>2 DEF vars, report, result
<1>3. CASE ApplySettings \/ NextTestCase \/ RunOver \/ BeginReport \/ ReplayFailure
  <2>1. pc' \notin {"mark", "judge"} /\ pc # "ended"
    BY <1>3 DEF ApplySettings, NextTestCase, RunOver, BeginReport, ReplayFailure,
       Open, End
  <2>2. ending' # "raised"
    BY <1>3 DEF ApplySettings, NextTestCase, RunOver, BeginReport, ReplayFailure,
       Open, End, result
  <2> QED
    BY <2>1, <2>2
<1>10. CASE Tally
  BY <1>10 DEF Tally, report, result
<1>4. CASE Replayed
  BY <1>4 DEF Replayed, result
<1>5. CASE MarkComplete
  BY <1>5 DEF MarkComplete, report, result
<1>6. CASE Conclude
  BY <1>6 DEF Conclude, End, report
<1>7. CASE RaiseCaptured
  BY <1>7 DEF RaiseCaptured, End, Rethrow
<1>8. CASE JudgeFailure
  <2>1. pc = "judge" /\ UNCHANGED <<settings, shown, bodies>>
    BY <1>8 DEF JudgeFailure
  <2>2. pc' \in {"ended", "replay"}
    BY <1>8 DEF JudgeFailure, End, Rethrow
  <2>3. ending' = "raised" => raised' = Len(bodies)
    BY <1>8, <2>1 DEF JudgeFailure, End, Rethrow, result
  <2> QED
    BY <2>1, <2>2, <2>3
<1>9. CASE JudgeBlob
  BY <1>9 DEF JudgeBlob, End, Rethrow, report
<1> QED
  BY <1>1, <1>2, <1>3, <1>4, <1>5, <1>6, <1>7, <1>8, <1>9, <1>10
     DEF Next, ExpectFails, AssertFails, CreateMachine, EndBody

-----------------------------------------------------------------------------
(* The report *)

\* A finite set with other than one element has two, or none.
LEMMA TwoOrNone ==
  ASSUME NEW S, IsFiniteSet(S), S # {}, Cardinality(S) # 1
  PROVE  \E a, b \in S : a # b
<1>1. PICK a \in S : TRUE
  OBVIOUS
<1>2. S # {a}
  BY FS_Singleton
<1> QED
  BY <1>1, <1>2

\* What is left to replay, and what was found, are finite.
LEMMA Counted ==
  ASSUME TypeOK, FoundInv
  PROVE  /\ IsFiniteSet(found) /\ Cardinality(found) \in Nat
         /\ IsFiniteSet(unreported) /\ Cardinality(unreported) \in Nat
<1>1. IsFiniteSet(found) /\ IsFiniteSet(unreported)
  BY FS_Subset DEF FoundInv, TypeOK
<1> QED
  BY <1>1, FS_CardinalityType

\* The end of the run decides what there is to report.
LEMMA RunOverReports ==
  ASSUME TypeOK, ModeInv, EndInv, FoundInv, ReportInv, RunOver
  PROVE  ReportInv'
<1>1. /\ run_status = "none" /\ ending = "none" /\ sections = {}
      /\ UNCHANGED <<settings, found, found_live, ending, sections, quiet>>
      /\ pc' = "verdict"
  <2>1. pc = "next" /\ ~given_blobs /\ failure = NoOrigin
    BY DEF RunOver, ModeInv, InCase
  <2>2. run_status = "none" /\ ending = "none"
    BY <2>1 DEF ModeInv, EndInv, Loop, Searching
  <2> QED
    BY <2>2 DEF RunOver, ReportInv, report, engine, search, result, caller, quiet
<1>2. CASE run_status' # "FAILED"
  BY <1>1, <1>2 DEF ReportInv, RunOver
<1>3. CASE run_status' = "FAILED"
  <2>1. /\ found # {} /\ failure_count' = Cardinality(unreported')
        /\ \/ settings.report_multiple_failures /\ unreported' = found
           \/ \E o \in found : unreported' = {o}
    BY <1>3, HandleReports DEF RunOver
  <2>2. IsFiniteSet(found)
    BY DEF FoundInv
  <2>3. /\ IsFiniteSet(unreported') /\ Cardinality(unreported') \in Nat
        /\ Cardinality(unreported') # 1 => settings.report_multiple_failures
                                           /\ \E a, b \in found : a # b
    BY <2>1, <2>2, TwoOrNone, FS_Singleton, FS_CardinalityType
  <2>4. IsFiniteSet({}) /\ Cardinality({}) = 0
    BY FS_EmptySet
  <2> QED
    BY <1>1, <1>3, <2>1, <2>3, <2>4 DEF ReportInv, InCase
<1> QED
  BY <1>2, <1>3

\* Each replay that fails again moves a failure to the report.
LEMMA JudgeReports ==
  ASSUME TypeOK, ModeInv, EndInv, FoundInv, ReportInv, JudgeFailure
  PROVE  ReportInv'
<1>1. /\ run_status = "FAILED" /\ run_status' = "FAILED"
      /\ failure \in unreported /\ ending = "none"
      /\ UNCHANGED <<settings, found, found_live, failure_count, quiet>>
      /\ pc' \notin InCase /\ pc' # "verdict"
  BY DEF JudgeFailure, ModeInv, EndInv, ReportInv, InCase, End, Rethrow, engine,
     search, caller, quiet
<1>2. CASE ~Interesting(outcome)
  <2>1. UNCHANGED <<sections, unreported>> /\ ending' = "flaky"
    BY <1>2 DEF JudgeFailure, End
  <2> QED
    BY <1>1, <2>1 DEF ReportInv
<1>3. CASE Interesting(outcome)
  <2>1. /\ unreported' = unreported \ {failure}
        /\ sections' = IF quiet THEN sections ELSE sections \cup {failure}
        /\ \/ failure_count = 1 /\ ending' = "raised"
           \/ unreported' = {} /\ ending' = "summary"
           \/ ending' = "none"
    BY <1>1, <1>3 DEF JudgeFailure, End, Rethrow, result
  <2>2. /\ IsFiniteSet(unreported) /\ Cardinality(unreported) \in Nat
        /\ IsFiniteSet(unreported') /\ Cardinality(unreported') \in Nat
        /\ Cardinality(unreported') = Cardinality(unreported) - 1
    BY <1>1, <2>1, Counted, FS_RemoveElement, FS_CardinalityType
  <2>3. Cardinality(unreported') = 0 => unreported' = {}
    BY <2>2, FS_EmptySet
  <2>4. failure_count \in Nat /\ Cardinality(unreported) <= failure_count
    BY <1>1 DEF TypeOK, ReportInv
  <2>5. ending' \in {"raised", "summary"} => unreported' = {}
    BY <2>1, <2>2, <2>3, <2>4
  <2>6. ~quiet => /\ IsFiniteSet(sections') /\ sections' \cap unreported' = {}
                  /\ Cardinality(sections') + Cardinality(unreported') = failure_count
    <3>1. ASSUME ~quiet
          PROVE  /\ IsFiniteSet(sections) /\ failure \notin sections
                 /\ sections \cap unreported = {}
                 /\ Cardinality(sections) + Cardinality(unreported) = failure_count
      BY <1>1, <3>1 DEF ReportInv
    <3>2. ASSUME ~quiet
          PROVE  /\ IsFiniteSet(sections') /\ Cardinality(sections) \in Nat
                 /\ Cardinality(sections') = Cardinality(sections) + 1
      BY <2>1, <3>1, <3>2, FS_AddElement, FS_CardinalityType
    <3> QED
      BY <2>1, <2>2, <2>4, <3>1, <3>2
  <2> QED
    BY <1>1, <2>2, <2>4, <2>5, <2>6 DEF ReportInv
<1> QED
  BY <1>2, <1>3

\* The report stays complete: sections printed and failures left make it up.
LEMMA ReportStep ==
  TypeOK /\ ModeInv /\ EndInv /\ FoundInv /\ ReportInv /\ [Next]_vars => ReportInv'
<1> SUFFICES ASSUME TypeOK, ModeInv, EndInv, FoundInv, ReportInv, [Next]_vars
             PROVE  ReportInv'
  OBVIOUS
<1> DEFINE Same == UNCHANGED <<settings, quiet, run_status, unreported, failure_count,
                               sections>>
<1>1. CASE Next /\ pc = "body"
  <2>1. Same /\ UNCHANGED <<found, found_live, failure, ending>>
        /\ pc' \in {"body", "case_over"}
    BY <1>1, BodySteps DEF search, caller, report, verdict, result, quiet
  <2> QED
    BY <1>1, <2>1 DEF ReportInv, InCase
<1>2. CASE Tally \/ Replayed \/ MarkComplete
  <2>1. Same /\ UNCHANGED <<failure, ending>> /\ pc \in InCase /\ pc' # "verdict"
    BY <1>2 DEF Tally, Replayed, MarkComplete, caller, report, verdict, result,
       quiet, InCase
  <2>2. CASE UNCHANGED <<found, found_live>>
    BY <1>2, <2>1, <2>2 DEF ReportInv
  <2>3. CASE MarkComplete /\ Searching
    <3>1. run_status = "none"
      BY <2>3 DEF MarkComplete, ModeInv, Loop
    <3> QED
      BY <2>1, <3>1 DEF ReportInv
  <2> QED
    BY <1>2, <2>2, <2>3 DEF Tally, Replayed, MarkComplete, search, engine, Searching
<1>3. CASE ReplayFailure
  <2>1. Same /\ UNCHANGED <<found, found_live>> /\ pc' # "verdict"
    BY <1>3 DEF ReplayFailure, search, caller, report, verdict, quiet, End, Open
  <2>2. run_status = "FAILED" => failure' \in unreported
    BY <1>3 DEF ReplayFailure, ModeInv, End, result
  <2>3. ending' \notin {"raised", "summary"}
    BY <1>3 DEF ReplayFailure, EndInv, End, result
  <2> QED
    BY <2>1, <2>2, <2>3 DEF ReportInv
<1>4. CASE ApplySettings \/ NextTestCase \/ BeginReport
  <2>1. Same /\ UNCHANGED <<found, found_live, failure>> /\ pc' # "verdict"
    BY <1>4 DEF ApplySettings, NextTestCase, BeginReport, search, engine, caller,
       report, verdict, quiet, End, Open
  <2>2. ending' \notin {"raised", "summary"}
    BY <1>4 DEF ApplySettings, NextTestCase, BeginReport, EndInv, End, result
  <2>3. pc' \in InCase => run_status # "FAILED"
    BY <1>4 DEF ApplySettings, NextTestCase, BeginReport, ModeInv, End, Open, InCase,
       Loop, Searching
  <2> QED
    BY <2>1, <2>2, <2>3 DEF ReportInv
<1>5. CASE Conclude \/ RaiseCaptured \/ JudgeBlob
  <2>1. Same /\ UNCHANGED <<found, found_live>> /\ pc' = "ended"
    BY <1>5 DEF Conclude, RaiseCaptured, JudgeBlob, search, engine, caller, report,
       verdict, quiet, End, Rethrow
  <2>2. run_status # "FAILED"
    BY <1>5 DEF Conclude, RaiseCaptured, JudgeBlob, ModeInv
  <2> QED
    BY <2>1, <2>2 DEF ReportInv
<1>6. CASE UNCHANGED vars
  <2>1. Same /\ UNCHANGED <<pc, found, found_live, failure, ending>>
    BY <1>6 DEF vars, search, engine, caller, report, verdict, result, quiet
  <2> QED
    BY <2>1 DEF ReportInv
<1> QED
  BY <1>1, <1>2, <1>3, <1>4, <1>5, <1>6, RunOverReports, JudgeReports
     DEF Next, ExpectFails, AssertFails, CreateMachine, EndBody

-----------------------------------------------------------------------------
(* The counts *)

\* The n-th body is falsifying unless one before it failed.
LEMMA FalsifyingNext ==
  ASSUME NEW n \in Nat \ {0}
  PROVE  FalsifyingTo(n) = IF \E i \in 1 .. n - 1 : Interesting(bodies[i])
                           THEN FalsifyingTo(n - 1) ELSE FalsifyingTo(n - 1) \cup {n}
<1>1. CASE \E i \in 1 .. n - 1 : Interesting(bodies[i])
  <2>1. n \notin FalsifyingTo(n)
    BY <1>1 DEF FalsifyingTo
  <2>2. \A i \in 1 .. n : i # n => i \in 1 .. n - 1
    OBVIOUS
  <2> QED
    BY <1>1, <2>1, <2>2 DEF FalsifyingTo
<1>2. CASE ~ \E i \in 1 .. n - 1 : Interesting(bodies[i])
  BY <1>2 DEF FalsifyingTo
<1> QED
  BY <1>1, <1>2

\* The counted bodies are among the first k.
LEMMA CountsFinite ==
  ASSUME NEW k \in Nat
  PROVE  /\ IsFiniteSet(RanTo(k)) /\ Cardinality(RanTo(k)) \in 0 .. k
         /\ IsFiniteSet(DiscardedTo(k)) /\ Cardinality(DiscardedTo(k)) \in 0 .. k
<1>1. IsFiniteSet(1 .. k) /\ Cardinality(1 .. k) = k
  BY FS_Interval
<1>2. RanTo(k) \in SUBSET (1 .. k) /\ DiscardedTo(k) \in SUBSET (1 .. k)
  BY DEF RanTo, DiscardedTo, FalsifyingTo
<1>3. /\ IsFiniteSet(RanTo(k)) /\ Cardinality(RanTo(k)) <= k
      /\ IsFiniteSet(DiscardedTo(k)) /\ Cardinality(DiscardedTo(k)) <= k
  BY <1>1, <1>2, FS_Subset
<1> QED
  BY <1>3, FS_CardinalityType

\* Counting the n-th body adds it to one count at most.
LEMMA CountNext ==
  ASSUME NEW n \in Nat \ {0},
         ~ \E i \in 1 .. n - 1 : Interesting(bodies[i])
  PROVE  /\ Cardinality(RanTo(n)) = Cardinality(RanTo(n - 1)) +
              (IF bodies[n].status \in {"VALID", "INTERESTING"} THEN 1 ELSE 0)
         /\ Cardinality(DiscardedTo(n)) = Cardinality(DiscardedTo(n - 1)) +
              (IF bodies[n].status = "INVALID" THEN 1 ELSE 0)
<1>1. FalsifyingTo(n) = FalsifyingTo(n - 1) \cup {n}
  BY FalsifyingNext
<1>2. n \notin RanTo(n - 1) /\ n \notin DiscardedTo(n - 1)
  BY DEF RanTo, DiscardedTo, FalsifyingTo
<1>3. /\ IsFiniteSet(RanTo(n - 1)) /\ Cardinality(RanTo(n - 1)) \in Nat
      /\ IsFiniteSet(DiscardedTo(n - 1)) /\ Cardinality(DiscardedTo(n - 1)) \in Nat
  BY CountsFinite
<1>4. RanTo(n) = IF bodies[n].status \in {"VALID", "INTERESTING"}
                 THEN RanTo(n - 1) \cup {n} ELSE RanTo(n - 1)
  BY <1>1 DEF RanTo
<1>5. DiscardedTo(n) = IF bodies[n].status = "INVALID"
                       THEN DiscardedTo(n - 1) \cup {n} ELSE DiscardedTo(n - 1)
  BY <1>1 DEF DiscardedTo
<1>6. /\ Cardinality(RanTo(n - 1) \cup {n}) = Cardinality(RanTo(n - 1)) + 1
      /\ Cardinality(DiscardedTo(n - 1) \cup {n}) = Cardinality(DiscardedTo(n - 1)) + 1
  BY <1>2, <1>3, FS_AddElement
<1> QED
  BY <1>3, <1>4, <1>5, <1>6

\* A body that ends counts for nothing before it is tallied.
LEMMA CountsKept ==
  ASSUME TypeOK, NEW out \in Property!Outcomes, bodies' = Append(bodies, out),
         pc = "body", pc' = "case_over"
  PROVE  /\ Tallied' = Tallied
         /\ RanTo(Tallied)' = RanTo(Tallied)
         /\ DiscardedTo(Tallied)' = DiscardedTo(Tallied)
         /\ (\E i \in 1 .. Tallied : Interesting(bodies[i]))'
              = \E i \in 1 .. Tallied : Interesting(bodies[i])
<1>1. /\ Len(bodies) \in Nat /\ Len(bodies') = Len(bodies) + 1
      /\ \A i \in 1 .. Len(bodies) : bodies'[i] = bodies[i]
  BY OneMore DEF TypeOK
<1>2. Tallied = Len(bodies) /\ Tallied' = Len(bodies)
  BY <1>1 DEF Tallied
<1>3. FalsifyingTo(Tallied)' = FalsifyingTo(Tallied)
  BY <1>1, <1>2 DEF FalsifyingTo
<1>4. \A i \in FalsifyingTo(Tallied) : bodies'[i] = bodies[i]
  BY <1>1, <1>2 DEF FalsifyingTo
<1> QED
  BY <1>1, <1>2, <1>3, <1>4 DEF RanTo, DiscardedTo

\* A step that leaves the bodies alone, and tallies none, keeps the counts.
LEMMA CountsSame ==
  ASSUME UNCHANGED <<bodies, counters>>, Tallied' = Tallied
  PROVE  /\ RanTo(Tallied)' = RanTo(Tallied)
         /\ DiscardedTo(Tallied)' = DiscardedTo(Tallied)
         /\ (\E i \in 1 .. Tallied : Interesting(bodies[i]))'
              = \E i \in 1 .. Tallied : Interesting(bodies[i])
  BY DEF RanTo, DiscardedTo, FalsifyingTo

\* The loop's counters are those of the bodies it has tallied.
LEMMA TallyStep ==
  TypeOK /\ ModeInv /\ OutcomeInv /\ TallyInv /\ [Next]_vars => TallyInv'
<1> SUFFICES ASSUME TypeOK, ModeInv, OutcomeInv, TallyInv, [Next]_vars
             PROVE  TallyInv'
  OBVIOUS
<1>a. Len(bodies) \in Nat /\ MaxCases \in Nat
  BY MaxCasesAssumption DEF MaxCasesAssumption, TypeOK
<1>1. CASE Next /\ pc = "body"
  <2>1. UNCHANGED <<counters, failure, given_blobs>>
    BY <1>1, BodySteps DEF caller
  <2>2. CASE UNCHANGED <<pc, outcome, bodies>>
    <3>1. Tallied' = Tallied
      BY <2>2 DEF Tallied
    <3> QED
      BY <2>1, <2>2, <3>1, CountsSame DEF TallyInv, Searching, counters
  <2>3. ASSUME NEW out \in Property!Outcomes, bodies' = Append(bodies, out),
               pc' = "case_over"
        PROVE  TallyInv'
    <3>1. Len(bodies') = Len(bodies) + 1
      BY <2>3, OneMore DEF TypeOK
    <3>2. pc \in Loop
      BY <1>1 DEF Loop
    <3>3. CASE Searching
      <4>1. /\ Len(bodies') <= MaxCases /\ Len(bodies') > 0
            /\ seen_interesting = \E i \in 1 .. Tallied : Interesting(bodies[i])
            /\ cases_run = Cardinality(RanTo(Tallied))
            /\ cases_discarded = Cardinality(DiscardedTo(Tallied))
        BY <1>1, <1>a, <3>1, <3>2, <3>3 DEF TallyInv
      <4>2. /\ RanTo(Tallied)' = RanTo(Tallied)
            /\ DiscardedTo(Tallied)' = DiscardedTo(Tallied)
            /\ (\E i \in 1 .. Tallied : Interesting(bodies[i]))'
                 = \E i \in 1 .. Tallied : Interesting(bodies[i])
        BY <1>1, <2>3, CountsKept
      <4> QED
        BY <2>1, <2>3, <4>1, <4>2 DEF TallyInv, counters
    <3>4. CASE ~Searching
      BY <2>1, <3>4 DEF TallyInv, Searching
    <3> QED
      BY <3>3, <3>4
  <2> QED
    BY <1>1, <2>2, <2>3, BodySteps
<1>2. CASE Tally
  <2>1. /\ Searching /\ pc = "case_over" /\ pc' = "mark" /\ Searching'
        /\ UNCHANGED bodies /\ pc \in Loop
    BY <1>2 DEF Tally, Searching, caller, Loop
  <2>2. /\ Len(bodies) \in Nat \ {0} /\ Len(bodies) <= MaxCases
        /\ Tallied = Len(bodies) - 1 /\ Tallied' = Len(bodies)
        /\ outcome = bodies[Len(bodies)]
    BY <1>a, <2>1 DEF TallyInv, OutcomeInv, Tallied
  <2>3. /\ seen_interesting = \E i \in 1 .. Len(bodies) - 1 : Interesting(bodies[i])
        /\ cases_run = Cardinality(RanTo(Len(bodies) - 1))
        /\ cases_discarded = Cardinality(DiscardedTo(Len(bodies) - 1))
    BY <2>1, <2>2 DEF TallyInv
  <2>4. /\ RanTo(Tallied)' = RanTo(Len(bodies))
        /\ DiscardedTo(Tallied)' = DiscardedTo(Len(bodies))
    BY <2>1, <2>2 DEF RanTo, DiscardedTo, FalsifyingTo
  <2>5. /\ cases_run' = Cardinality(RanTo(Len(bodies)))
        /\ cases_discarded' = Cardinality(DiscardedTo(Len(bodies)))
        /\ seen_interesting' = \E i \in 1 .. Len(bodies) : Interesting(bodies[i])
    <3>1. CASE seen_interesting
      <4>1. FalsifyingTo(Len(bodies)) = FalsifyingTo(Len(bodies) - 1)
        BY <2>2, <2>3, <3>1, FalsifyingNext
      <4>2. UNCHANGED counters
        BY <1>2, <3>1 DEF Tally
      <4>3. \E i \in 1 .. Len(bodies) : Interesting(bodies[i])
        <5>1. PICK i \in 1 .. Len(bodies) - 1 : Interesting(bodies[i])
          BY <2>3, <3>1, Zenon
        <5>2. i \in 1 .. Len(bodies)
          BY <2>2
        <5> QED
          BY <5>1, <5>2
      <4>4. seen_interesting = TRUE
        BY <2>3, <3>1
      <4>5. /\ RanTo(Len(bodies)) = RanTo(Len(bodies) - 1)
            /\ DiscardedTo(Len(bodies)) = DiscardedTo(Len(bodies) - 1)
        BY <4>1 DEF RanTo, DiscardedTo
      <4> QED
        BY <2>3, <4>2, <4>3, <4>4, <4>5 DEF counters
    <3>2. CASE ~seen_interesting
      <4>1. /\ seen_interesting' = Interesting(outcome)
            /\ cases_run' = cases_run +
                 (IF outcome.status \in {"VALID", "INTERESTING"} THEN 1 ELSE 0)
            /\ cases_discarded' = cases_discarded +
                 (IF outcome.status = "INVALID" THEN 1 ELSE 0)
        BY <1>2, <3>2 DEF Tally
      <4>2. ~ \E i \in 1 .. Len(bodies) - 1 : Interesting(bodies[i])
        BY <2>3, <3>2
      <4>3. (\E i \in 1 .. Len(bodies) : Interesting(bodies[i])) = Interesting(outcome)
        <5>1. \A i \in 1 .. Len(bodies) : i \in 1 .. Len(bodies) - 1 \/ i = Len(bodies)
          BY <2>2
        <5>2. Interesting(outcome) \in BOOLEAN
          BY DEF Interesting, Property!Interesting
        <5>3. (\E i \in 1 .. Len(bodies) : Interesting(bodies[i])) <=> Interesting(outcome)
          BY <2>2, <4>2, <5>1
        <5> QED
          BY <5>2, <5>3, Zenon
      <4> QED
        BY <2>2, <2>3, <4>1, <4>2, <4>3, CountNext
    <3> QED
      BY <3>1, <3>2
  <2> QED
    BY <2>1, <2>2, <2>4, <2>5 DEF TallyInv
<1>3. CASE MarkComplete
  <2>1. CASE Searching
    <3>1. /\ pc = "mark" /\ pc' = "next" /\ pc \in Loop
          /\ UNCHANGED <<bodies, counters, failure, given_blobs>>
      BY <1>3, <2>1 DEF MarkComplete, caller, Loop, Searching
    <3>2. Tallied' = Tallied
      BY <3>1 DEF Tallied
    <3> QED
      BY <2>1, <3>1, <3>2, CountsSame DEF TallyInv, counters, Searching
  <2>2. CASE ~Searching
    <3>1. pc' = "judge"
      BY <1>3, <2>2 DEF MarkComplete, Searching
    <3> QED
      BY <3>1 DEF TallyInv, Loop
  <2> QED
    BY <2>1, <2>2
<1>4. CASE ApplySettings \/ NextTestCase \/ RunOver
  <2>1. /\ UNCHANGED <<bodies, counters, failure, given_blobs>> /\ pc \in Loop
        /\ pc \in {"settings", "next"} /\ pc' # "case_over"
        /\ pc' = "body" => Len(bodies) < MaxCases
    BY <1>4 DEF ApplySettings, NextTestCase, RunOver, End, Open, caller, Loop
  <2>2. Tallied' = Tallied
    BY <2>1 DEF Tallied
  <2> QED
    BY <2>1, <2>2, CountsSame DEF TallyInv, counters, Searching
<1>5. CASE ReplayFailure
  <2>1. ~(pc' \in Loop /\ Searching')
    BY <1>5, OriginAssumption
       DEF OriginAssumption, ReplayFailure, Open, End, TypeOK, caller, ModeInv,
           Loop, Searching
  <2> QED
    BY <2>1 DEF TallyInv
<1>6. CASE Replayed \/ Conclude \/ RaiseCaptured \/ BeginReport \/ JudgeFailure \/ JudgeBlob
  <2>1. CASE Replayed
    BY <2>1 DEF Replayed, Searching, caller, TallyInv
  <2>2. CASE ~Replayed
    <3>1. pc' \in {"ended", "replay"}
      BY <1>6, <2>2 DEF Conclude, RaiseCaptured, BeginReport, JudgeFailure, JudgeBlob,
         End, Rethrow
    <3> QED
      BY <3>1 DEF TallyInv, Loop
  <2> QED
    BY <2>1, <2>2
<1>7. CASE UNCHANGED vars
  <2>1. UNCHANGED <<pc, bodies, counters, failure, given_blobs>> /\ Tallied' = Tallied
    BY <1>7 DEF vars, caller, Tallied
  <2> QED
    BY <2>1, CountsSame DEF TallyInv, counters, Searching
<1> QED
  BY <1>1, <1>2, <1>3, <1>4, <1>5, <1>6, <1>7
     DEF Next, ExpectFails, AssertFails, CreateMachine, EndBody

-----------------------------------------------------------------------------
(* Type correctness, and the invariant *)

\* Before the call has done anything.
LEMMA InitInv == Init => IInv
<1> SUFFICES ASSUME Init PROVE IInv
  OBVIOUS
<1>1. bodies = <<>> /\ Len(bodies) = 0 /\ 0 \in 0 .. MaxCases /\ 0 \in Nat
  BY MaxCasesAssumption DEF MaxCasesAssumption, Init
<1>2. bodies \in Seq(Property!Outcomes) /\ 0 \in 0 .. Len(bodies)
  BY <1>1
<1>3. TypeOK
  BY <1>1, <1>2, OutcomesOf DEF Init, TypeOK, Endings, RunStatuses
<1>4. EngineNeverRefuses /\ ModeInv /\ EndInv /\ OutcomeInv
  BY DEF Init, EngineNeverRefuses, ModeInv, EndInv, OutcomeInv, InCase, Loop, Searching
<1>5. FoundInv /\ LiveInv
  BY <1>1, FS_EmptySet DEF Init, FoundInv, LiveInv
<1>6. ReportInv /\ ShownInv
  BY DEF Init, ReportInv, ShownInv, ReportTellsWhatIsRaised
<1>7. TallyInv
  <2>1. RanTo(Tallied) = {} /\ DiscardedTo(Tallied) = {} /\ Tallied = 0
    BY <1>1 DEF Init, RanTo, DiscardedTo, FalsifyingTo, Tallied
  <2> QED
    <3>1. ~ \E i \in 1 .. Tallied : Interesting(bodies[i])
      BY <2>1
    <3>2. Cardinality({}) = 0 /\ 0 <= MaxCases
      BY FS_EmptySet, MaxCasesAssumption DEF MaxCasesAssumption
    <3>3. /\ pc = "settings" /\ seen_interesting = FALSE
          /\ cases_run = 0 /\ cases_discarded = 0
      BY DEF Init
    <3> QED
      BY <1>1, <2>1, <3>1, <3>2, <3>3 DEF TallyInv
<1> QED
  BY <1>3, <1>4, <1>5, <1>6, <1>7 DEF IInv

\* The counters stay below the bound: a case is counted once.
LEMMA CountersTyped ==
  ASSUME TypeOK, TallyInv, [Next]_vars, TallyInv', Len(bodies') \in Nat
  PROVE  cases_run' \in 0 .. MaxCases /\ cases_discarded' \in 0 .. MaxCases
<1>1. CASE Tally
  <2>1. pc' \in Loop /\ Searching' /\ pc' # "case_over"
    BY <1>1 DEF Tally, Searching, caller, Loop
  <2>2. /\ Len(bodies') <= MaxCases /\ Tallied' = Len(bodies')
        /\ cases_run' = Cardinality(RanTo(Tallied)')
        /\ cases_discarded' = Cardinality(DiscardedTo(Tallied)')
    BY <2>1 DEF TallyInv, Tallied
  <2>3. bodies' = bodies
    BY <1>1 DEF Tally
  <2>4. /\ RanTo(Tallied)' = RanTo(Len(bodies))
        /\ DiscardedTo(Tallied)' = DiscardedTo(Len(bodies))
    BY <2>2, <2>3 DEF RanTo, DiscardedTo, FalsifyingTo
  <2> QED
    <3>1. 0 .. Len(bodies) \subseteq 0 .. MaxCases
      BY <2>2, <2>3, MaxCasesAssumption DEF MaxCasesAssumption
    <3>2. /\ Cardinality(RanTo(Len(bodies))) \in 0 .. Len(bodies)
          /\ Cardinality(DiscardedTo(Len(bodies))) \in 0 .. Len(bodies)
      BY <2>3, CountsFinite
    <3> QED
      BY <2>2, <2>4, <3>1, <3>2
<1>2. CASE ~Tally
  <2>1. UNCHANGED counters
    BY <1>2, BodySteps, Zenon DEF Next, ApplySettings, NextTestCase, RunOver, ExpectFails,
       AssertFails, CreateMachine, EndBody, Replayed, MarkComplete, Conclude,
       RaiseCaptured, BeginReport, ReplayFailure, JudgeFailure, JudgeBlob, vars
  <2> QED
    BY <2>1 DEF TypeOK, counters
<1> QED
  BY <1>1, <1>2

\* Every state that follows a typed one is typed.
LEMMA TypeStep ==
  TypeOK /\ FoundInv /\ TallyInv /\ TallyInv' /\ [Next]_vars => TypeOK'
<1> SUFFICES ASSUME TypeOK, FoundInv, TallyInv, TallyInv', [Next]_vars PROVE TypeOK'
  OBVIOUS
<1>l. Len(bodies) \in Nat /\ Len(bodies) \in 0 .. Len(bodies)
  BY DEF TypeOK
<1>b. /\ bodies' \in Seq(Property!Outcomes) /\ Len(bodies') \in Nat
      /\ 0 .. Len(bodies) \subseteq 0 .. Len(bodies')
  <2>1. CASE UNCHANGED bodies
    BY <2>1, <1>l DEF TypeOK
  <2>2. ASSUME NEW out \in Property!Outcomes, bodies' = Append(bodies, out)
        PROVE  /\ bodies' \in Seq(Property!Outcomes) /\ Len(bodies') \in Nat
               /\ 0 .. Len(bodies) \subseteq 0 .. Len(bodies')
    BY <2>2, OneMore DEF TypeOK
  <2> QED
    BY <2>1, <2>2, BodiesGrow DEF vars
<1>c. cases_run' \in 0 .. MaxCases /\ cases_discarded' \in 0 .. MaxCases
  BY <1>b, CountersTyped
<1>u. ASSUME RunOver PROVE unreported' \in SUBSET found
  <2>1. \/ unreported' = {} \/ unreported' = found
        \/ \E o \in found : unreported' = {o}
    BY <1>u DEF RunOver
  <2> QED
    BY <2>1
<1>14. CASE UNCHANGED vars
  BY <1>14, Zenon DEF vars, caller, counters, body, report, result, search, engine,
     verdict, TypeOK
<1> USE DEF TypeOK, caller, counters, body, report, result, search, engine, verdict,
            Endings, RunStatuses
<1>1. CASE ApplySettings
  BY <1>1 DEF ApplySettings, End
<1>2. CASE NextTestCase
  BY <1>2 DEF NextTestCase, Open
<1>3. CASE RunOver
  <2>1. unreported' \in SUBSET found
    BY <1>3, <1>u
  <2>2. failure_count' \in Nat
    BY <1>3, <2>1, FS_Subset, FS_CardinalityType DEF RunOver, FoundInv
  <2> QED
    BY <1>3, <2>1, <2>2 DEF RunOver
<1>4. CASE Next /\ pc = "body"
  <2>1. /\ {recorded', rejected'} \subseteq BOOLEAN
        /\ captured' \in 0 .. Len(bodies') /\ shown' \in 0 .. Len(bodies')
        /\ raised' \in 0 .. Len(bodies')
    BY <1>4, <1>b, BodySteps
  <2>2. outcome' \in Property!Outcomes /\ pc' \in {"body", "case_over"}
    BY <1>4, BodySteps
  <2>3. UNCHANGED <<given_blobs, settings, seen_interesting, nondeterministic, failure,
                    failure_count, sections, ending, case, run_is_nondeterministic,
                    found, found_live, run_status, unreported>>
    BY <1>4, BodySteps
  <2> QED
    BY <1>b, <1>c, <2>1, <2>2, <2>3
<1>5. CASE Tally
  <2>1. captured' \in 0 .. Len(bodies)
    BY <1>5, <1>l DEF Tally
  <2>2. seen_interesting' \in BOOLEAN
    BY <1>5 DEF Tally, Interesting, Property!Interesting
  <2> QED
    BY <1>5, <1>c, <2>1, <2>2 DEF Tally
<1>6. CASE Replayed
  BY <1>6, <1>l DEF Replayed
<1>7. CASE MarkComplete
  <2>3. found' = found \/ (Interesting(outcome) /\ found' = found \cup {outcome.origin})
    BY <1>7 DEF MarkComplete, search
  <2>4. Interesting(outcome) => outcome.origin \in Origins
    BY OutcomesOf, Zenon
  <2>5. unreported' = unreported
    BY <1>7 DEF MarkComplete, verdict
  <2>1. found' \in SUBSET Origins /\ unreported' \in SUBSET found'
    BY <2>3, <2>4, <2>5
  <2>2. {found_live', run_is_nondeterministic'} \subseteq BOOLEAN
    BY <1>7 DEF MarkComplete, Interesting, Property!Interesting
  <2> QED
    BY <1>7, <2>1, <2>2 DEF MarkComplete
<1>8. CASE Conclude
  BY <1>8 DEF Conclude, End
<1>9. CASE RaiseCaptured
  BY <1>9 DEF RaiseCaptured, End, Rethrow
<1>10. CASE BeginReport
  BY <1>10 DEF BeginReport
<1>11. CASE ReplayFailure
  BY <1>11 DEF ReplayFailure, Open, End
<1>12. CASE JudgeFailure
  <2>1. failure # NoOrigin /\ failure \in Origins
    BY <1>12 DEF JudgeFailure
  <2>2. sections' \in SUBSET Origins /\ unreported' \in SUBSET found
    BY <1>12, <2>1 DEF JudgeFailure
  <2>3. pc' \in {"ended", "replay"} /\ ending' \in Endings /\ raised' \in 0 .. Len(bodies)
    BY <1>12, <1>l DEF JudgeFailure, End, Rethrow
  <2> QED
    BY <1>12, <2>2, <2>3 DEF JudgeFailure
<1>13. CASE JudgeBlob
  BY <1>13, <1>l DEF JudgeBlob, End, Rethrow
<1> QED
  BY <1>1, <1>2, <1>3, <1>4, <1>5, <1>6, <1>7, <1>8, <1>9, <1>10, <1>11, <1>12,
     <1>13, <1>14 DEF Next, ExpectFails, AssertFails, CreateMachine, EndBody

\* The invariant holds of every state of every call.
THEOREM TestRunInductive == Spec => []IInv
<1>1. IInv /\ [Next]_vars => IInv'
  BY ControlStep, OutcomeStep, FoundStep, LiveStep, ReportStep, ShownStep, TallyStep,
     TypeStep, Zenon DEF IInv
<1> QED
  BY InitInv, <1>1, PTL DEF Spec

\* Every variable of a call keeps its type.
THEOREM TestRunTyped == Spec => []TypeOK
<1>1. IInv => TypeOK
  BY DEF IInv
<1> QED
  BY <1>1, TestRunInductive, PTL

\* Every case is marked exactly once before the next is asked for, whatever the
\* body does and however the call ends (run_from_engine, replay_failure).
THEOREM EngineUsedWell == Spec => []EngineNeverRefuses
<1>1. IInv => EngineNeverRefuses
  BY DEF IInv
<1> QED
  BY <1>1, TestRunInductive, PTL

\* The numbers of the report are those of the search for the first failure
\* (cases_run and cases_discarded of run_from_engine).
THEOREM SearchCounted == Spec => []CountsCoverSearch
<1>1. IInv => CountsCoverSearch
  <2> SUFFICES ASSUME IInv, pc = "verdict"
               PROVE  /\ cases_run = Cardinality({i \in Falsifying :
                           bodies[i].status \in {"VALID", "INTERESTING"}})
                      /\ cases_discarded = Cardinality({i \in Falsifying :
                           bodies[i].status = "INVALID"})
    BY DEF CountsCoverSearch
  <2>1. pc \in Loop /\ Searching
    BY DEF IInv, ModeInv, Loop, InCase, Searching
  <2>2. Tallied = Len(bodies)
    BY DEF Tallied
  <2> QED
    BY <2>1, <2>2 DEF IInv, TallyInv, RanTo, DiscardedTo, FalsifyingTo, Falsifying
<1> QED
  BY <1>1, TestRunInductive, PTL

\* The report above an exception is that of the body that threw it
\* (handle_failure, CapturedFailure).
THEOREM ReportTruthful == Spec => []ReportTellsWhatIsRaised
<1>1. IInv => ReportTellsWhatIsRaised
  BY DEF IInv, ShownInv
<1> QED
  BY <1>1, TestRunInductive, PTL

\* Every failure of the run has been replayed, and its section printed, when the
\* call reports them (the loop over failures of run_from_engine).
THEOREM ReportComplete == Spec => []EveryFailureReported
<1>1. IInv => EveryFailureReported
  <2> SUFFICES ASSUME IInv, ending \in {"raised", "summary"}, run_status = "FAILED"
               PROVE  /\ unreported = {}
                      /\ ~quiet => Cardinality(sections) = failure_count
    BY DEF EveryFailureReported
  <2>1. unreported = {}
    BY DEF IInv, ReportInv
  <2>2. ASSUME ~quiet PROVE Cardinality(sections) = failure_count
    <3>1. IsFiniteSet(sections) /\ Cardinality(sections) + 0 = failure_count
      BY <2>1, <2>2, FS_EmptySet DEF IInv, ReportInv
    <3> QED
      BY <3>1, FS_CardinalityType
  <2> QED
    BY <2>1, <2>2
<1> QED
  BY <1>1, TestRunInductive, PTL

-----------------------------------------------------------------------------
(* A call keeps the promise of PropertyTest. *)

\* The instance counts as this module does.
LEMMA SameCardinality == \A S : Property!Cardinality(S) = Cardinality(S)
  BY Zenon DEF Property!Cardinality, Cardinality

\* Two failures found are failures of two bodies.
LEMMA TwoFailed ==
  ASSUME TypeOK, FoundInv, NEW a \in found, NEW b \in found, a # b
  PROVE  Cardinality(Property!Failures) >= 2
<1>1. PICK i \in 1 .. Len(bodies) : bodies[i] = Failed(a)
  BY DEF FoundInv
<1>2. PICK j \in 1 .. Len(bodies) : bodies[j] = Failed(b)
  BY DEF FoundInv
<1>3. a \in Origins /\ b \in Origins
  BY DEF TypeOK
<1>4. i # j /\ {i, j} \subseteq Property!Failures
  BY <1>1, <1>2, <1>3, OutcomesOf DEF Property!Failures, Interesting
<1>5. IsFiniteSet(Property!Failures)
  <2>1. IsFiniteSet(1 .. Len(bodies))
    BY FS_Interval DEF TypeOK
  <2> QED
    BY <2>1, FS_Subset DEF Property!Failures
<1>6. Cardinality({i} \cup {j}) = 2
  <2>1. IsFiniteSet({i}) /\ Cardinality({i}) = 1 /\ j \notin {i}
    BY <1>4, FS_Singleton
  <2>2. Cardinality({i} \cup {j}) =
          IF j \in {i} THEN Cardinality({i}) ELSE Cardinality({i}) + 1
    BY <2>1, FS_AddElement
  <2>3. Cardinality({i} \cup {j}) = Cardinality({i}) + 1
    BY <2>1, <2>2, Zenon
  <2>4. Cardinality({i} \cup {j}) = 1 + 1
    BY <2>1, <2>3, Zenon
  <2> QED
    BY <2>4
<1>7. Cardinality({i} \cup {j}) <= Cardinality(Property!Failures)
  <2>1. {i} \cup {j} \in SUBSET Property!Failures
    BY <1>4
  <2> QED
    BY <1>5, <2>1, FS_Subset
<1> QED
  BY <1>5, <1>6, <1>7, FS_CardinalityType

\* The exception of a body that failed is raised while it is the latest.
LEMMA Raises ==
  ASSUME TypeOK, ending = "none", Len(bodies) > 0, Interesting(bodies[Len(bodies)]),
         ending' = "raised", raised' = Len(bodies), UNCHANGED <<settings, bodies>>
  PROVE  Property!Raise
<1>1. Len(bodies) \in 1 .. Len(bodies)
  BY DEF TypeOK
<1> QED
  BY <1>1 DEF Property!Raise, Property!Failures, Interesting

\* A call starts as the promise does.
LEMMA InitKeeps == Init => Property!Init
  BY DEF Init, Property!Init

\* A body that ends is a run of it; an ending is one of the promise's, and the
\* promise allows it there; nothing else is seen.
LEMMA NextKeeps ==
  IInv /\ [Next]_vars => Property!Next \/ UNCHANGED Property!vars
<1> SUFFICES ASSUME IInv, [Next]_vars
             PROVE  Property!Next \/ UNCHANGED Property!vars
  OBVIOUS
<1>i. TypeOK /\ ModeInv /\ EndInv /\ OutcomeInv /\ FoundInv /\ LiveInv /\ ReportInv
  BY DEF IInv
<1>e. pc # "ended" => ending = "none"
  BY <1>i DEF EndInv
<1>1. CASE Next /\ pc = "body"
  <2>1. UNCHANGED <<settings, ending, raised>>
    BY <1>1, BodySteps DEF caller, result
  <2>2. CASE UNCHANGED bodies
    BY <2>1, <2>2 DEF Property!vars
  <2>3. ASSUME NEW out \in Property!Outcomes, bodies' = Append(bodies, out)
        PROVE  Property!Next
    <3>1. settings.stateful_step_count >= 1
      BY <1>1, <1>i DEF ModeInv, ValidSettings
    <3>2. Property!Run(out)
      BY <1>1, <1>e, <2>1, <2>3, <3>1 DEF Property!Run
    <3> QED
      BY <3>2 DEF Property!Next
  <2> QED
    BY <1>1, <2>2, <2>3, BodySteps
<1>2. ASSUME UNCHANGED <<settings, bodies, raised>>, ending = "none",
             ending' \in {"invalid argument", "run error", "flaky", "not reproduced"}
      PROVE  Property!Next
  BY <1>2 DEF Property!Next, Property!Complain
<1>3. CASE ApplySettings
  <2>1. CASE ending' = ending
    BY <1>3, <2>1 DEF ApplySettings, End, result, caller, Property!vars
  <2>2. CASE ending' # ending
    BY <1>2, <1>3, <1>e, <2>2 DEF ApplySettings, End, result, caller
  <2> QED
    BY <2>1, <2>2
<1>4. CASE ReplayFailure
  <2>1. CASE ending' = ending
    BY <1>4, <2>1 DEF ReplayFailure, End, result, caller, Property!vars
  <2>2. CASE ending' # ending
    BY <1>2, <1>4, <1>e, <2>2 DEF ReplayFailure, End, result, caller
  <2> QED
    BY <2>1, <2>2
<1>5. CASE NextTestCase \/ RunOver \/ Tally \/ Replayed \/ MarkComplete \/ BeginReport
  BY <1>5 DEF NextTestCase, RunOver, Tally, Replayed, MarkComplete, BeginReport,
     result, caller, Property!vars
<1>6. CASE Conclude
  <2>1. CASE run_status = "PASSED" /\ End("passed")
    <3>1. found = {} /\ pc = "verdict" /\ Searching /\ pc \in Loop
      BY <1>6, <1>i, <2>1 DEF Conclude, ReportInv, ModeInv, Loop, InCase, Searching
    <3>2. Property!Failures = {}
      BY <1>i, <3>1 DEF FoundInv, Property!Failures, Interesting
    <3>3. settings.stateful_step_count >= 1
      BY <1>i, <3>1 DEF ModeInv, ValidSettings
    <3>4. Property!Pass
      BY <1>6, <1>e, <2>1, <3>1, <3>2, <3>3 DEF Conclude, End, caller, Property!Pass
    <3> QED
      BY <3>4 DEF Property!Next
  <2>2. CASE End("run error")
    BY <1>2, <1>6, <1>e, <2>2 DEF Conclude, End, caller
  <2> QED
    BY <1>6, <2>1, <2>2 DEF Conclude
<1>7. CASE RaiseCaptured
  <2>1. /\ Len(bodies) > 0 /\ captured = Len(bodies) /\ captured # 0
        /\ Interesting(bodies[Len(bodies)])
    <3>1. pc = "verdict" /\ found_live
      BY <1>7, <1>i DEF RaiseCaptured, ReportInv
    <3>2. Len(bodies) \in Nat
      BY <1>i DEF TypeOK
    <3> QED
      BY <1>i, <3>1, <3>2 DEF LiveInv
  <2>2. ending' = "raised" /\ raised' = Len(bodies) /\ UNCHANGED <<settings, bodies>>
    BY <1>7, <2>1 DEF RaiseCaptured, Rethrow, caller
  <2>3. Property!Raise
    BY <1>7, <1>i, <1>e, <2>1, <2>2, Raises DEF RaiseCaptured
  <2> QED
    BY <2>3 DEF Property!Next
<1>8. CASE JudgeFailure
  <2>0. /\ pc = "judge" /\ ending = "none" /\ UNCHANGED <<settings, bodies>>
        /\ Len(bodies) > 0 /\ outcome = bodies[Len(bodies)] /\ run_status = "FAILED"
    BY <1>8, <1>i, <1>e DEF JudgeFailure, OutcomeInv, ModeInv, caller
  <2>1. CASE ~Interesting(outcome)
    BY <1>2, <1>8, <2>0, <2>1 DEF JudgeFailure, End
  <2>2. CASE Interesting(outcome) /\ failure_count = 1
    <3>1. ending' = "raised" /\ raised' = Len(bodies)
      BY <1>8, <2>2 DEF JudgeFailure, Rethrow
    <3>2. Property!Raise
      BY <1>i, <2>0, <2>2, <3>1, Raises
    <3> QED
      BY <3>2 DEF Property!Next
  <2>3. CASE Interesting(outcome) /\ failure_count # 1 /\ unreported' = {}
    <3>1. ending' = "summary" /\ raised' = raised
      BY <1>8, <2>3 DEF JudgeFailure, End
    <3>2. settings.report_multiple_failures /\ \E a, b \in found : a # b
      BY <1>i, <2>0, <2>3 DEF ReportInv
    <3>3. Cardinality(Property!Failures) >= 2
      BY <1>i, <3>2, TwoFailed
    <3>4. Property!Summarise
      BY <2>0, <3>1, <3>2, <3>3, SameCardinality DEF Property!Summarise
    <3> QED
      BY <3>4 DEF Property!Next
  <2>4. CASE Interesting(outcome) /\ failure_count # 1 /\ unreported' # {}
    BY <1>8, <2>0, <2>4 DEF JudgeFailure, result, Property!vars
  <2> QED
    BY <2>1, <2>2, <2>3, <2>4
<1>9. CASE JudgeBlob
  <2>0. /\ pc = "judge" /\ ending = "none" /\ UNCHANGED <<settings, bodies>>
        /\ Len(bodies) > 0 /\ outcome = bodies[Len(bodies)]
    BY <1>9, <1>i, <1>e DEF JudgeBlob, OutcomeInv, caller
  <2>1. CASE Interesting(outcome)
    <3>1. ending' = "raised" /\ raised' = Len(bodies)
      BY <1>9, <2>1 DEF JudgeBlob, Rethrow
    <3>2. Property!Raise
      BY <1>i, <2>0, <2>1, <3>1, Raises
    <3> QED
      BY <3>2 DEF Property!Next
  <2>2. CASE ~Interesting(outcome)
    BY <1>2, <1>9, <2>0, <2>2 DEF JudgeBlob, End
  <2> QED
    BY <2>1, <2>2
<1>10. CASE UNCHANGED vars
  BY <1>10 DEF vars, result, caller, Property!vars
<1> QED
  BY <1>1, <1>3, <1>4, <1>5, <1>6, <1>7, <1>8, <1>9, <1>10
     DEF Next, ExpectFails, AssertFails, CreateMachine, EndBody

\* A call of hegel::test() keeps its promise: it passes only when no body failed,
\* raises the exception of the very last body, and sums failures up only when it
\* was asked to and saw two.
THEOREM CallKeepsPromise == Spec => ImplementsProperty
<1>1. IInv /\ [Next]_vars => [Property!Next]_(Property!vars)
  BY NextKeeps
<1> QED
  BY InitKeeps, <1>1, TestRunInductive, PTL DEF Spec, ImplementsProperty, Property!Spec

-----------------------------------------------------------------------------
(* Masks *)

\* A mask sets one bit after another.
LEMMA MaskFold ==
  ASSUME NEW s \in Seq(Nat \ {0})
  PROVE  \E acc :
           /\ acc[0] = 0
           /\ \A n \in 0 .. Len(s) - 1 : acc[n + 1] = Or(acc[n], s[n + 1])
           /\ FoldLeft(Or, 0, s) = acc[Len(s)]
<1> DEFINE A == Nat
           S == Nat \ {0}
           step == [q \in A \X S |-> Or(q[1], q[2])]
           iter == CHOOSE f : f = [x \in SUBSET DOMAIN s |->
                     IF x = {} THEN 0 ELSE Or(f[x \ {Max(x)}], s[Max(x)])]
<1>1. step \in [A \X S -> A]
  BY DEF Or
<1>2. PICK g \in [SUBSET DOMAIN s -> A] :
        \A x \in SUBSET DOMAIN s :
          g[x] = IF x = {} THEN 0 ELSE step[<<g[x \ {Max(x)}], s[Max(x)]>>]
  <2>1. 0 \in A
    OBVIOUS
  <2> HIDE DEF A, S, step
  <2>2. s \in Seq(S)
    BY DEF S
  <2>3. \E g \in [SUBSET DOMAIN s -> A] : IsFold(0, step, s, g)
    BY <1>1, <2>1, <2>2, FoldExists
  <2> QED BY <2>3 DEF IsFold
<1>3. g = [x \in SUBSET DOMAIN s |->
             IF x = {} THEN 0 ELSE Or(g[x \ {Max(x)}], s[Max(x)])]
  <2> SUFFICES ASSUME NEW x \in SUBSET DOMAIN s, x # {}
               PROVE  g[x] = Or(g[x \ {Max(x)}], s[Max(x)])
    BY <1>2
  <2>1. Max(x) \in x
    <3>1. x \in SUBSET (1 .. Len(s)) /\ Len(s) \in Nat
      OBVIOUS
    <3> QED BY <3>1, MaxIsMember
  <2>2. s[Max(x)] \in S /\ g[x \ {Max(x)}] \in A
    BY <2>1
  <2> QED BY <1>2, <2>2
<1>4. iter = [x \in SUBSET DOMAIN s |->
                IF x = {} THEN 0 ELSE Or(iter[x \ {Max(x)}], s[Max(x)])]
  <2> HIDE DEF A, S, step
  <2> QED BY <1>3
<1>5. FoldLeft(Or, 0, s) = iter[DOMAIN s]
  BY DEF FoldLeft, MapThenFoldSet
<1> HIDE DEF iter
<1> DEFINE acc == [n \in Nat |-> iter[1 .. n]]
<1>6. DOMAIN s = 1 .. Len(s) /\ Len(s) \in Nat
  OBVIOUS
<1>7. acc[0] = 0
  <2>1. 1 .. 0 = {} /\ {} \in SUBSET DOMAIN s
    OBVIOUS
  <2>2. iter[{}] = 0
    BY <1>4, <2>1
  <2> QED BY <2>1, <2>2
<1>8. ASSUME NEW n \in 0 .. Len(s) - 1 PROVE acc[n + 1] = Or(acc[n], s[n + 1])
  <2>1. /\ n \in Nat /\ n + 1 \in Nat
        /\ n + 1 \in 1 .. n + 1 /\ 1 .. n + 1 \in SUBSET DOMAIN s /\ 1 .. n + 1 # {}
    <3>1. n \in Nat /\ n + 1 \in Nat /\ n + 1 <= Len(s)
      BY <1>6
    <3>2. n + 1 \in 1 .. n + 1 /\ \A i \in 1 .. n + 1 : i \in 1 .. Len(s)
      BY <1>6, <3>1
    <3> QED BY <1>6, <3>1, <3>2
  <2>2. iter[1 .. n + 1] = Or(iter[(1 .. n + 1) \ {Max(1 .. n + 1)}], s[Max(1 .. n + 1)])
    BY <1>4, <2>1
  <2>3. Max(1 .. n + 1) = n + 1 /\ (1 .. n + 1) \ {n + 1} = 1 .. n
    BY <2>1, PrefixOfIndices
  <2>4. iter[1 .. n + 1] = Or(iter[1 .. n], s[n + 1])
    BY <2>2, <2>3
  <2> QED BY <2>1, <2>4
<1>9. FoldLeft(Or, 0, s) = acc[Len(s)]
  BY <1>5, <1>6
<1> HIDE DEF acc
<1> QED BY <1>7, <1>8, <1>9

Bit == {1, 2, 4, 8, 16}
HasBit(mask, bit) == (mask \div bit) % 2 = 1

\* Setting a bit sets it and leaves the others.
LEMMA OrSetsBit ==
  ASSUME NEW mask \in 0 .. 31, NEW bit \in Bit
  PROVE  /\ Or(mask, bit) \in 0 .. 31
         /\ \A b \in Bit : HasBit(Or(mask, bit), b) <=> b = bit \/ HasBit(mask, b)
<1>1. CASE bit = 1
  BY <1>1 DEF Or, HasBit, Bit
<1>2. CASE bit = 2
  BY <1>2 DEF Or, HasBit, Bit
<1>3. CASE bit = 4
  BY <1>3 DEF Or, HasBit, Bit
<1>4. CASE bit = 8
  BY <1>4 DEF Or, HasBit, Bit
<1>5. CASE bit = 16
  BY <1>5 DEF Or, HasBit, Bit
<1> QED BY <1>1, <1>2, <1>3, <1>4, <1>5 DEF Bit

\* The bits of a mask are those that were set, in any order and however often.
LEMMA MaskHasBits ==
  ASSUME NEW s \in Seq(Bit)
  PROVE  /\ FoldLeft(Or, 0, s) \in 0 .. 31
         /\ \A b \in Bit : HasBit(FoldLeft(Or, 0, s), b) <=> \E i \in 1 .. Len(s) : s[i] = b
<1>1. Len(s) \in Nat /\ s \in Seq(Nat \ {0}) /\ \A i \in 1 .. Len(s) : s[i] \in Bit
  BY DEF Bit
<1>2. PICK acc : /\ acc[0] = 0
                 /\ \A n \in 0 .. Len(s) - 1 : acc[n + 1] = Or(acc[n], s[n + 1])
                 /\ FoldLeft(Or, 0, s) = acc[Len(s)]
  BY <1>1, MaskFold
<1> DEFINE Holds(n) == /\ acc[n] \in 0 .. 31
                       /\ \A b \in Bit : HasBit(acc[n], b) <=> \E i \in 1 .. n : s[i] = b
           P == {n \in Nat : n <= Len(s) => Holds(n)}
<1>3. 0 \in P
  <2>1. \A b \in Bit : ~HasBit(0, b)
    BY DEF HasBit, Bit
  <2> QED BY <1>2, <2>1
<1>4. ASSUME NEW n \in P PROVE n + 1 \in P
  <2> SUFFICES ASSUME n + 1 <= Len(s) PROVE Holds(n + 1)
    OBVIOUS
  <2>1. n \in 0 .. Len(s) - 1 /\ n + 1 \in 1 .. Len(s) /\ Holds(n)
    BY <1>1
  <2>2. PICK m : m = acc[n]
    OBVIOUS
  <2>3. PICK c \in Bit : c = s[n + 1]
    BY <1>1, <2>1
  <2>4. acc[n + 1] = Or(m, c) /\ m \in 0 .. 31
    BY <1>2, <2>1, <2>2, <2>3
  <2>5. /\ Or(m, c) \in 0 .. 31
        /\ \A b \in Bit : HasBit(Or(m, c), b) <=> b = c \/ HasBit(m, b)
    BY <2>4, OrSetsBit
  <2>6. \A b \in Bit : HasBit(m, b) <=> \E i \in 1 .. n : s[i] = b
    BY <2>1, <2>2
  <2>7. \A b : (\E i \in 1 .. n + 1 : s[i] = b) <=> (b = c \/ \E i \in 1 .. n : s[i] = b)
    BY <2>1, <2>3
  <2> QED BY <2>4, <2>5, <2>6, <2>7
<1>5. P = Nat
  <2>1. P \in SUBSET Nat
    OBVIOUS
  <2> HIDE DEF P
  <2> QED BY <1>3, <1>4, <2>1, SetInduction
<1>6. Holds(Len(s))
  <2> HIDE DEF Holds
  <2> QED BY <1>1, <1>5
<1> QED BY <1>2, <1>6

\* libhegel reads back the flags that were asked for.
LEMMA FlagsOfMask ==
  ASSUME NEW enum, \A f \in DOMAIN enum : enum[f] \in Bit,
         \A f, g \in DOMAIN enum : enum[f] = enum[g] => f = g,
         NEW flags \in Seq(DOMAIN enum)
  PROVE  /\ Flags(enum, Mask(enum, flags)) = ToSet(flags)
         /\ Mask(enum, flags) \in 0 .. 31
         /\ flags # <<>> => Mask(enum, flags) # 0
<1> DEFINE bits == Bits(enum, flags)
<1>1. /\ Len(flags) \in Nat /\ DOMAIN flags = 1 .. Len(flags)
      /\ \A i \in 1 .. Len(flags) : flags[i] \in DOMAIN enum
  OBVIOUS
<1>2. /\ bits \in Seq(Bit) /\ Len(bits) = Len(flags)
      /\ \A i \in 1 .. Len(flags) : bits[i] = enum[flags[i]]
  BY <1>1 DEF Bits
<1> HIDE DEF bits
<1>3. /\ FoldLeft(Or, 0, bits) \in 0 .. 31
      /\ \A b \in Bit : HasBit(FoldLeft(Or, 0, bits), b) <=> \E i \in 1 .. Len(bits) : bits[i] = b
  BY <1>2, MaskHasBits
<1>4. PICK m : m = Mask(enum, flags)
  OBVIOUS
<1>5. /\ m \in 0 .. 31
      /\ \A b \in Bit : HasBit(m, b) <=> \E i \in 1 .. Len(flags) : bits[i] = b
  BY <1>2, <1>3, <1>4 DEF Mask, bits
<1>6. ToSet(flags) = {flags[i] : i \in 1 .. Len(flags)}
  BY <1>1 DEF ToSet
<1>7. Flags(enum, m) = {f \in DOMAIN enum : HasBit(m, enum[f])}
  BY DEF Flags, HasBit
<1>8. \A f \in DOMAIN enum : HasBit(m, enum[f]) <=> \E i \in 1 .. Len(flags) : flags[i] = f
  BY <1>1, <1>2, <1>5
<1>9. Flags(enum, m) = ToSet(flags)
  BY <1>1, <1>6, <1>7, <1>8
<1>10. ASSUME flags # <<>> PROVE m # 0
  <2>1. 1 \in 1 .. Len(flags)
    BY <1>1, <1>10
  <2>2. bits[1] \in Bit /\ HasBit(m, bits[1])
    BY <1>1, <1>2, <1>5, <2>1
  <2>3. \A b \in Bit : ~HasBit(0, b)
    BY DEF HasBit, Bit
  <2> QED BY <2>2, <2>3
<1> QED BY <1>4, <1>5, <1>9, <1>10

-----------------------------------------------------------------------------
(* The settings of a call on the engine's handle *)

WellTyped(s) == /\ s = [f \in SettingFields |-> s[f]]
                /\ \A f \in SettingFields : Fits(f, s[f])

\* Settings near those of a call have the types of their fields.
LEMMA NearTyped ==
  ASSUME NEW c \in CallSettings, NEW s \in Near(c)
  PROVE  WellTyped(s)
<1>1. c = [f \in SettingFields |-> c[f]] /\ \A f \in SettingFields : Fits(f, c[f])
  BY SettingsAssumption
<1>2. PICK f \in SettingFields, g \in SettingFields :
        \E v \in Options[f], w \in Options[g] : s = [c EXCEPT ![f] = v, ![g] = w]
  <2>1. DOMAIN c = SettingFields
    BY <1>1
  <2> QED BY <2>1 DEF Near
<1> PICK v \in Options[f], w \in Options[g] : s = [c EXCEPT ![f] = v, ![g] = w]
  BY <1>2
<1>3. Fits(f, v) /\ Fits(g, w)
  BY SettingsAssumption
<1>4. \A h \in SettingFields : s[h] = IF h = g THEN w ELSE IF h = f THEN v ELSE c[h]
  BY <1>1, <1>2
<1>5. s = [h \in SettingFields |-> s[h]]
  BY <1>1, <1>2
<1>6. \A h \in SettingFields : Fits(h, s[h])
  BY <1>1, <1>3, <1>4
<1> QED BY <1>5, <1>6 DEF WellTyped

\* What the handle holds after apply_settings, field by field.
LEMMA Applied ==
  ASSUME NEW p \in Profiles, NEW s
  PROVE  LET h == apply_settings(p, s)
         IN  /\ DOMAIN h = HandleFields
             /\ h.test_cases = IF s.test_cases = Unset THEN p.test_cases ELSE s.test_cases
             /\ h.verbosity = hegel_verbosity_t[s.verbosity]
             /\ h.seed = s.seed
             /\ h.derandomize = s.derandomize
             /\ h.report_multiple_failures = s.report_multiple_failures
             /\ h.database = CASE s.database.kind = "Unset"    -> p.database
                               [] s.database.kind = "Disabled" -> ""
                               [] s.database.kind = "Path"     -> s.database.path
             /\ h.database_key =
                  IF s.database_key = Unset THEN p.database_key ELSE s.database_key
             /\ h.suppress_health_check =
                  IF Mask(hegel_health_check_t, s.suppress_health_check) = 0
                  THEN p.suppress_health_check
                  ELSE Mask(hegel_health_check_t, s.suppress_health_check)
             /\ h.phases = Mask(hegel_phase_t, s.phases)
             /\ h.backend = IF s.backend = "Auto" THEN p.backend
                            ELSE hegel_backend_t[s.backend]
<1>1. DOMAIN p = HandleFields
  BY SettingsAssumption
<1>2. PICK h : h = apply_settings(p, s)
  OBVIOUS
<1>3. DOMAIN h = HandleFields
  BY <1>1, <1>2 DEF apply_settings, HandleFields, SettingFields
<1>4. h.test_cases = IF s.test_cases = Unset THEN p.test_cases ELSE s.test_cases
  BY <1>1, <1>2 DEF apply_settings, HandleFields, SettingFields
<1>5. /\ h.verbosity = hegel_verbosity_t[s.verbosity]
      /\ h.seed = s.seed
      /\ h.derandomize = s.derandomize
      /\ h.report_multiple_failures = s.report_multiple_failures
  BY <1>1, <1>2 DEF apply_settings, HandleFields, SettingFields
<1>6. h.database = CASE s.database.kind = "Unset"    -> p.database
                     [] s.database.kind = "Disabled" -> ""
                     [] s.database.kind = "Path"     -> s.database.path
  BY <1>1, <1>2 DEF apply_settings, HandleFields, SettingFields
<1>7. h.database_key = IF s.database_key = Unset THEN p.database_key ELSE s.database_key
  BY <1>1, <1>2 DEF apply_settings, HandleFields, SettingFields
<1>8. h.suppress_health_check =
        IF Mask(hegel_health_check_t, s.suppress_health_check) = 0
        THEN p.suppress_health_check
        ELSE Mask(hegel_health_check_t, s.suppress_health_check)
  BY <1>1, <1>2 DEF apply_settings, HandleFields, SettingFields
<1>9. /\ h.phases = Mask(hegel_phase_t, s.phases)
      /\ h.backend = IF s.backend = "Auto" THEN p.backend ELSE hegel_backend_t[s.backend]
  BY <1>1, <1>2 DEF apply_settings, HandleFields, SettingFields
<1> QED BY <1>2, <1>3, <1>4, <1>5, <1>6, <1>7, <1>8, <1>9

\* What the engine runs with, field by field.
LEMMA Read ==
  ASSUME NEW h, DOMAIN h = HandleFields
  PROVE  LET r == RunsWith(h)
         IN  /\ r.test_cases = h.test_cases
             /\ r.verbosity = Enumerator(hegel_verbosity_t, h.verbosity)
             /\ r.seed = h.seed
             /\ r.derandomize = h.derandomize
             /\ r.report_multiple_failures = h.report_multiple_failures
             /\ r.database = IF h.database = "" THEN Database("Disabled", "")
                             ELSE Database("Path", h.database)
             /\ r.database_key = h.database_key
             /\ r.suppress_health_check = Flags(hegel_health_check_t, h.suppress_health_check)
             /\ r.phases = Flags(hegel_phase_t, h.phases)
             /\ r.backend = Enumerator(hegel_backend_t, h.backend)
BY DEF RunsWith, HandleFields, SettingFields

\* Distinct enumerators have distinct codes.
LEMMA Enumerates ==
  /\ \A c \in DOMAIN hegel_verbosity_t : Enumerator(hegel_verbosity_t, hegel_verbosity_t[c]) = c
  /\ \A c \in DOMAIN hegel_backend_t : Enumerator(hegel_backend_t, hegel_backend_t[c]) = c
<1>1. \A c, d \in DOMAIN hegel_verbosity_t : hegel_verbosity_t[c] = hegel_verbosity_t[d] => c = d
  BY DEF hegel_verbosity_t
<1>2. \A c, d \in DOMAIN hegel_backend_t : hegel_backend_t[c] = hegel_backend_t[d] => c = d
  BY DEF hegel_backend_t
<1>3. ASSUME NEW enum, \A c, d \in DOMAIN enum : enum[c] = enum[d] => c = d,
             NEW c \in DOMAIN enum
      PROVE  Enumerator(enum, enum[c]) = c
  BY <1>3 DEF Enumerator
<1> QED BY <1>1, <1>2, <1>3

LEMMA FlagBits ==
  /\ \A f \in DOMAIN hegel_phase_t : hegel_phase_t[f] \in Bit
  /\ \A f, g \in DOMAIN hegel_phase_t : hegel_phase_t[f] = hegel_phase_t[g] => f = g
  /\ \A f \in DOMAIN hegel_health_check_t : hegel_health_check_t[f] \in Bit
  /\ \A f, g \in DOMAIN hegel_health_check_t :
       hegel_health_check_t[f] = hegel_health_check_t[g] => f = g
BY DEF hegel_phase_t, hegel_health_check_t, Bit

\* Each value chosen is the one the engine runs with.
LEMMA ChoicesKept ==
  ASSUME NEW p \in Profiles, NEW s, WellTyped(s)
  PROVE  KeepsChoices(s, RunsWith(apply_settings(p, s)))
<1> DEFINE h == apply_settings(p, s)
           r == RunsWith(h)
<1>1. /\ DOMAIN h = HandleFields
      /\ h.test_cases = IF s.test_cases = Unset THEN p.test_cases ELSE s.test_cases
      /\ h.verbosity = hegel_verbosity_t[s.verbosity]
      /\ h.seed = s.seed
      /\ h.derandomize = s.derandomize
      /\ h.report_multiple_failures = s.report_multiple_failures
      /\ h.database = CASE s.database.kind = "Unset"    -> p.database
                        [] s.database.kind = "Disabled" -> ""
                        [] s.database.kind = "Path"     -> s.database.path
      /\ h.database_key =
           IF s.database_key = Unset THEN p.database_key ELSE s.database_key
      /\ h.suppress_health_check =
           IF Mask(hegel_health_check_t, s.suppress_health_check) = 0
           THEN p.suppress_health_check
           ELSE Mask(hegel_health_check_t, s.suppress_health_check)
      /\ h.phases = Mask(hegel_phase_t, s.phases)
      /\ h.backend = IF s.backend = "Auto" THEN p.backend
                     ELSE hegel_backend_t[s.backend]
  BY Applied
<1> HIDE DEF h
<1>2. /\ r.test_cases = h.test_cases
      /\ r.verbosity = Enumerator(hegel_verbosity_t, h.verbosity)
      /\ r.seed = h.seed
      /\ r.derandomize = h.derandomize
      /\ r.report_multiple_failures = h.report_multiple_failures
      /\ r.database = IF h.database = "" THEN Database("Disabled", "")
                      ELSE Database("Path", h.database)
      /\ r.database_key = h.database_key
      /\ r.suppress_health_check = Flags(hegel_health_check_t, h.suppress_health_check)
      /\ r.phases = Flags(hegel_phase_t, h.phases)
      /\ r.backend = Enumerator(hegel_backend_t, h.backend)
  BY <1>1, Read
<1> HIDE DEF r
<1>3. /\ DOMAIN s = SettingFields
      /\ s.verbosity \in DOMAIN hegel_verbosity_t
      /\ s.database.kind \in {"Unset", "Disabled", "Path"}
      /\ s.database.kind = "Path" <=> s.database.path # ""
      /\ s.database = Database(s.database.kind, s.database.path)
      /\ s.suppress_health_check \in Seq(DOMAIN hegel_health_check_t)
      /\ s.phases \in Seq(DOMAIN hegel_phase_t)
      /\ s.backend \in {"Auto"} \cup DOMAIN hegel_backend_t
  BY DEF WellTyped, Fits, SettingFields
<1>4. r.verbosity = s.verbosity
  BY <1>1, <1>2, <1>3, Enumerates
<1>5. s.backend # "Auto" => r.backend = s.backend
  BY <1>1, <1>2, <1>3, Enumerates
<1>6. r.phases = ToSet(s.phases)
  <2>1. Flags(hegel_phase_t, Mask(hegel_phase_t, s.phases)) = ToSet(s.phases)
    BY <1>3, FlagBits, FlagsOfMask, Zenon
  <2> QED BY <1>1, <1>2, <2>1
<1>7. s.suppress_health_check # <<>> =>
        r.suppress_health_check = ToSet(s.suppress_health_check)
  <2> DEFINE mask == Mask(hegel_health_check_t, s.suppress_health_check)
  <2>1. /\ Flags(hegel_health_check_t, mask) = ToSet(s.suppress_health_check)
        /\ s.suppress_health_check # <<>> => mask # 0
    BY <1>3, FlagBits, FlagsOfMask, Zenon
  <2> QED BY <1>1, <1>2, <2>1
<1> SUFFICES ASSUME NEW f \in SettingFields, ~Left(s, f) PROVE r[f] = Asked(s, f)
  BY <1>3 DEF KeepsChoices, r, h
<1>8. CASE f \in {"test_cases", "seed", "derandomize", "report_multiple_failures",
                  "database_key"}
  BY <1>1, <1>2, <1>8 DEF Left, Asked
<1>9. CASE f \in {"verbosity", "backend"}
  BY <1>4, <1>5, <1>9 DEF Left, Asked
<1>10. CASE f \in {"phases", "suppress_health_check"}
  BY <1>6, <1>7, <1>10 DEF Left, Asked
<1>11. CASE f = "database"
  <2>1. CASE s.database.kind = "Disabled"
    <3>1. h.database = "" /\ s.database.path = ""
      BY <1>1, <1>3, <2>1
    <3>2. r.database = Database("Disabled", "")
      BY <1>2, <3>1
    <3>3. s.database = Database("Disabled", "")
      BY <1>3, <2>1, <3>1
    <3> QED BY <1>11, <3>2, <3>3 DEF Asked
  <2>2. CASE s.database.kind = "Path"
    <3>1. h.database = s.database.path /\ s.database.path # ""
      BY <1>1, <1>3, <2>2
    <3>2. r.database = Database("Path", s.database.path)
      BY <1>2, <3>1
    <3>3. s.database = Database("Path", s.database.path)
      BY <1>3, <2>2
    <3> QED BY <1>11, <3>2, <3>3 DEF Asked
  <2>3. s.database.kind # "Unset"
    BY <1>11 DEF Left
  <2> QED BY <1>3, <2>1, <2>2, <2>3
<1>12. CASE f = "stateful_step_count"
  BY <1>12 DEF Left
<1> QED BY <1>8, <1>9, <1>10, <1>11, <1>12 DEF SettingFields

-----------------------------------------------------------------------------
(* Keys, blobs and verdicts *)

Named(t) == /\ t.file \in Seq(STRING) /\ t.name \in Seq(STRING)
            /\ ~Contains(t.file, "::")

\* The parts of a sequence of words put together from two around a word.
LEMMA Joined ==
  ASSUME NEW S, NEW a \in Seq(S), NEW b \in Seq(S), NEW w \in S
  PROVE  LET s == a \o <<w>> \o b
         IN  /\ s \in Seq(S) /\ Len(s) = Len(a) + 1 + Len(b)
             /\ \A i \in 1 .. Len(a) : s[i] = a[i]
             /\ s[Len(a) + 1] = w
             /\ \A i \in 1 .. Len(b) : s[Len(a) + 1 + i] = b[i]
<1>1. <<w>> \in Seq(S) /\ Len(<<w>>) = 1 /\ <<w>>[1] = w
  OBVIOUS
<1>2. PICK h : h = a \o <<w>>
  OBVIOUS
<1>3. /\ h \in Seq(S) /\ Len(h) = Len(a) + 1
      /\ \A i \in 1 .. Len(h) : h[i] = IF i <= Len(a) THEN a[i] ELSE <<w>>[i - Len(a)]
  BY <1>1, <1>2, ConcatProperties
<1>4. PICK s : s = h \o b
  OBVIOUS
<1>5. /\ s \in Seq(S) /\ Len(s) = Len(h) + Len(b)
      /\ \A i \in 1 .. Len(s) : s[i] = IF i <= Len(h) THEN h[i] ELSE b[i - Len(h)]
  <2>1. h \in Seq(S) /\ b \in Seq(S)
    BY <1>3
  <2>2. /\ h \o b \in Seq(S) /\ Len(h \o b) = Len(h) + Len(b)
        /\ \A i \in 1 .. Len(h) + Len(b) :
             (h \o b)[i] = IF i <= Len(h) THEN h[i] ELSE b[i - Len(h)]
    BY <2>1, ConcatProperties
  <2> QED BY <1>4, <2>2
<1>6. Len(a) \in Nat /\ Len(b) \in Nat
  OBVIOUS
<1>7. \A i \in 1 .. Len(a) : s[i] = a[i]
  BY <1>3, <1>5, <1>6
<1>8. s[Len(a) + 1] = w
  <2>1. Len(a) + 1 \in 1 .. Len(h) /\ Len(a) + 1 \in 1 .. Len(s)
    BY <1>3, <1>5, <1>6
  <2>2. h[Len(a) + 1] = <<w>>[1]
    <3>1. ~(Len(a) + 1 <= Len(a)) /\ (Len(a) + 1) - Len(a) = 1
      BY <1>6
    <3> QED BY <1>3, <2>1, <3>1
  <2> QED BY <1>1, <1>5, <2>1, <2>2
<1>9. ASSUME NEW i \in 1 .. Len(b) PROVE s[Len(a) + 1 + i] = b[i]
  <2>1. /\ Len(a) + 1 + i \in 1 .. Len(s) /\ ~(Len(a) + 1 + i <= Len(h))
        /\ (Len(a) + 1 + i) - Len(h) = i
    BY <1>3, <1>5, <1>6
  <2> QED BY <1>5, <2>1
<1> QED BY <1>2, <1>3, <1>4, <1>5, <1>6, <1>7, <1>8, <1>9

\* Two sequences that agree everywhere are equal.
LEMMA SameWords ==
  ASSUME NEW S, NEW a \in Seq(S), NEW b \in Seq(S), Len(a) = Len(b),
         \A i \in 1 .. Len(a) : a[i] = b[i]
  PROVE  a = b
OBVIOUS

\* A key tells its file from its name: the first "::" is between them.
LEMMA KeyIsUnique ==
  ASSUME NEW t, NEW u, Named(t), Named(u), Key(t.file, t.name) = Key(u.file, u.name)
  PROVE  t.file = u.file /\ t.name = u.name
<1>1. PICK a \in Seq(STRING), b \in Seq(STRING) : a = t.file /\ b = t.name
  BY DEF Named
<1>2. PICK c \in Seq(STRING), d \in Seq(STRING) : c = u.file /\ d = u.name
  BY DEF Named
<1>3. /\ Len(a) \in Nat /\ Len(b) \in Nat /\ Len(c) \in Nat /\ Len(d) \in Nat
      /\ \A i \in 1 .. Len(a) : a[i] # "::"
      /\ \A i \in 1 .. Len(c) : c[i] # "::"
  BY <1>1, <1>2 DEF Named, Contains
<1>4. PICK s : s = Key(a, b)
  OBVIOUS
<1>5. /\ Len(s) = Len(a) + 1 + Len(b)
      /\ \A i \in 1 .. Len(a) : s[i] = a[i]
      /\ s[Len(a) + 1] = "::"
      /\ \A i \in 1 .. Len(b) : s[Len(a) + 1 + i] = b[i]
  BY <1>4, Joined DEF Key
<1>6. s = Key(c, d)
  BY <1>1, <1>2, <1>4
<1>7. /\ Len(s) = Len(c) + 1 + Len(d)
      /\ \A i \in 1 .. Len(c) : s[i] = c[i]
      /\ s[Len(c) + 1] = "::"
      /\ \A i \in 1 .. Len(d) : s[Len(c) + 1 + i] = d[i]
  BY <1>6, Joined DEF Key
<1>8. Len(a) = Len(c)
  <2>1. ~(Len(a) < Len(c))
    <3> SUFFICES ASSUME Len(a) < Len(c) PROVE FALSE
      OBVIOUS
    <3>1. Len(a) + 1 \in 1 .. Len(c)
      BY <1>3
    <3> QED BY <1>3, <1>5, <1>7, <3>1
  <2>2. ~(Len(c) < Len(a))
    <3> SUFFICES ASSUME Len(c) < Len(a) PROVE FALSE
      OBVIOUS
    <3>1. Len(c) + 1 \in 1 .. Len(a)
      BY <1>3
    <3> QED BY <1>3, <1>5, <1>7, <3>1
  <2> QED BY <1>3, <2>1, <2>2
<1>9. Len(b) = Len(d)
  BY <1>3, <1>5, <1>7, <1>8
<1>10. a = c
  BY <1>5, <1>7, <1>8, SameWords
<1>11. \A i \in 1 .. Len(b) : b[i] = d[i]
  BY <1>5, <1>7, <1>8, <1>9
<1>12. b = d
  BY <1>9, <1>11, SameWords
<1> QED BY <1>1, <1>2, <1>10, <1>12

\* Two calls with the same default key are calls of one test.
LEMMA KeysApart ==
  ASSUME NEW s, s.database_key = Unset
  PROVE  KeysStayApart(s)
<1> SUFFICES ASSUME NEW t \in Tests, NEW u \in Tests
             PROVE  /\ database_key(t, s) # Unset /\ database_key(t, s) = database_key(u, s)
                         => t.file = u.file /\ t.name = u.name
                    /\ t.name # <<>> /\ s.database.kind # "Disabled"
                         => database_key(t, s) # Unset
  BY DEF KeysStayApart
<1>1. \A v \in Tests : Named(v) /\ Key(v.file, v.name) # Unset
  BY TestsAssumption DEF Named
<1>2. \A v \in Tests :
        database_key(v, s) = IF v.via # "macro" /\ (v.name = <<>> \/ s.database.kind = "Disabled")
                             THEN Unset ELSE Key(v.file, v.name)
  BY DEF database_key
<1>3. ASSUME database_key(t, s) # Unset, database_key(t, s) = database_key(u, s)
      PROVE  t.file = u.file /\ t.name = u.name
  <2>1. Key(t.file, t.name) = Key(u.file, u.name)
    BY <1>2, <1>3
  <2> QED BY <1>1, <2>1, KeyIsUnique
<1> QED BY <1>1, <1>2, <1>3

\* The name of a test, from where its first dot splits it.
LEMMA SplitAtDot ==
  ASSUME NEW name \in Seq(STRING), Contains(name, ".")
  PROVE  /\ FirstDot(name) \in 1 .. Len(name) /\ name[FirstDot(name)] = "."
         /\ Class(name) \in Seq(STRING) /\ Function(name) \in Seq(STRING)
         /\ name = Class(name) \o <<".">> \o Function(name)
<1>1. Len(name) \in Nat /\ DOMAIN name = 1 .. Len(name)
  OBVIOUS
<1> DEFINE dots == {i \in 1 .. Len(name) : name[i] = "."}
<1>2. dots \in SUBSET Nat /\ dots # {}
  BY <1>1 DEF Contains
<1>3. PICK m \in dots : \A n \in dots : <<n, m>> \notin OpToRel(<, Nat)
  BY <1>2, NatLessThanWellFounded, WFMin
<1>4. \A j \in 1 .. m - 1 : name[j] # "."
  <2> SUFFICES ASSUME NEW j \in 1 .. m - 1, name[j] = "." PROVE FALSE
    OBVIOUS
  <2>1. j \in dots /\ j \in Nat /\ m \in Nat /\ j < m
    BY <1>1
  <2> QED BY <1>3, <2>1 DEF OpToRel
<1>5. PICK k : k = FirstDot(name)
  OBVIOUS
<1>6. k \in 1 .. Len(name) /\ name[k] = "."
  BY <1>1, <1>4, <1>5 DEF FirstDot
<1>7. PICK a : a = SubSeq(name, 1, k - 1)
  OBVIOUS
<1>8. PICK b : b = SubSeq(name, k + 1, Len(name))
  OBVIOUS
<1>9. /\ a \in Seq(STRING) /\ Len(a) = k - 1
      /\ \A i \in 1 .. k - 1 : a[i] = name[i]
  BY <1>1, <1>6, <1>7
<1>10. /\ b \in Seq(STRING) /\ Len(b) = Len(name) - k
       /\ \A i \in 1 .. Len(name) - k : b[i] = name[k + i]
  <2>1. k + 1 \in 1 .. Len(name) + 1 /\ Len(name) \in (k + 1) - 1 .. Len(name)
    BY <1>1, <1>6
  <2>2. /\ b \in Seq(STRING) /\ Len(b) = (Len(name) - (k + 1)) + 1
        /\ \A i \in 1 .. (Len(name) - (k + 1)) + 1 : b[i] = name[((k + 1) + i) - 1]
    BY <1>8, <2>1, SubSeqProperties
  <2> QED BY <1>1, <1>6, <2>2
<1>11. PICK s : s = a \o <<".">> \o b
  OBVIOUS
<1>12. /\ s \in Seq(STRING) /\ Len(s) = Len(a) + 1 + Len(b)
       /\ \A i \in 1 .. Len(a) : s[i] = a[i]
       /\ s[Len(a) + 1] = "."
       /\ \A i \in 1 .. Len(b) : s[Len(a) + 1 + i] = b[i]
  <2>1. "." \in STRING /\ a \in Seq(STRING) /\ b \in Seq(STRING)
    BY <1>9, <1>10
  <2> QED BY <1>11, <2>1, Joined
<1>13. Len(s) = Len(name)
  BY <1>1, <1>6, <1>9, <1>10, <1>12
<1>14. ASSUME NEW i \in 1 .. Len(name) PROVE s[i] = name[i]
  <2>1. CASE i < k
    BY <1>1, <1>6, <1>9, <1>12, <2>1
  <2>2. CASE i = k
    BY <1>1, <1>6, <1>9, <1>12, <2>2
  <2>3. CASE i > k
    <3>1. i - k \in 1 .. Len(b) /\ i - k \in 1 .. Len(name) - k /\ Len(a) + 1 + (i - k) = i
          /\ k + (i - k) = i
      BY <1>1, <1>6, <1>9, <1>10, <2>3
    <3> QED BY <1>10, <1>12, <3>1
  <2> QED BY <1>1, <1>6, <2>1, <2>2, <2>3
<1>15. s = name
  BY <1>12, <1>13, <1>14, SameWords
<1> QED BY <1>5, <1>6, <1>7, <1>8, <1>9, <1>10, <1>11, <1>15 DEF Class, Function

\* Two tests have two verdicts.
LEMMA VerdictsApart == VerdictsStayApart
<1> SUFFICES ASSUME NEW t \in Tests, NEW u \in Tests,
                    Contains(t.name, ".") => t.via = "framework",
                    Contains(u.name, ".") => u.via = "framework",
                    apply_test_location(t) = apply_test_location(u)
             PROVE  t.name = u.name /\ (Contains(t.name, ".") \/ t.file = u.file)
  BY DEF VerdictsStayApart
<1>1. t.name \in Seq(STRING) /\ u.name \in Seq(STRING)
  BY TestsAssumption
<1>2. \A v \in Tests : Contains(t.name, ".") => v.file # Class(t.name)
  BY TestsAssumption
<1>3. \A v \in Tests : Contains(u.name, ".") => v.file # Class(u.name)
  BY TestsAssumption
<1>4. CASE Contains(t.name, ".") /\ Contains(u.name, ".")
  <2>1. Class(t.name) = Class(u.name) /\ Function(t.name) = Function(u.name)
    BY <1>4 DEF apply_test_location
  <2> QED BY <1>1, <1>4, <2>1, SplitAtDot
<1>5. CASE Contains(t.name, ".") /\ ~Contains(u.name, ".")
  BY <1>2, <1>5 DEF apply_test_location
<1>6. CASE ~Contains(t.name, ".") /\ Contains(u.name, ".")
  BY <1>3, <1>6 DEF apply_test_location
<1>7. CASE ~Contains(t.name, ".") /\ ~Contains(u.name, ".")
  BY <1>7 DEF apply_test_location
<1> QED BY <1>4, <1>5, <1>6, <1>7

KeyOf(b) == Key(b.file, b.name)
Keys == {KeyOf(b) : b \in Blobs}
Entry(b) == [key |-> KeyOf(b), blob |-> Head(b.blobs)]
Entries == [key : Keys, blob : {Head(b.blobs) : b \in Blobs}]

\* The registry is made by one registration after another.
LEMMA RegistryFold ==
  ASSUME NEW s \in Seq(Blobs)
  PROVE  \E acc :
           /\ acc[0] = {}
           /\ \A n \in 0 .. Len(s) - 1 : acc[n + 1] = register_blob(acc[n], s[n + 1])
           /\ blob_registry(s) = acc[Len(s)]
<1> DEFINE A == SUBSET Entries
           step == [q \in A \X Blobs |-> register_blob(q[1], q[2])]
           iter == CHOOSE f : f = [x \in SUBSET DOMAIN s |->
                     IF x = {} THEN {} ELSE register_blob(f[x \ {Max(x)}], s[Max(x)])]
<1>1. step \in [A \X Blobs -> A]
  <2> SUFFICES ASSUME NEW r \in A, NEW b \in Blobs PROVE register_blob(r, b) \in A
    OBVIOUS
  <2>1. [key |-> Key(b.file, b.name), blob |-> Head(b.blobs)] \in Entries
    BY DEF Entries, Keys, KeyOf
  <2> QED BY <2>1 DEF register_blob
<1>2. PICK g \in [SUBSET DOMAIN s -> A] :
        \A x \in SUBSET DOMAIN s :
          g[x] = IF x = {} THEN {} ELSE step[<<g[x \ {Max(x)}], s[Max(x)]>>]
  <2>1. {} \in A
    OBVIOUS
  <2> HIDE DEF A, step
  <2>2. \E g \in [SUBSET DOMAIN s -> A] : IsFold({}, step, s, g)
    BY <1>1, <2>1, FoldExists
  <2> QED BY <2>2 DEF IsFold
<1>3. g = [x \in SUBSET DOMAIN s |->
             IF x = {} THEN {} ELSE register_blob(g[x \ {Max(x)}], s[Max(x)])]
  <2> SUFFICES ASSUME NEW x \in SUBSET DOMAIN s, x # {}
               PROVE  g[x] = register_blob(g[x \ {Max(x)}], s[Max(x)])
    BY <1>2
  <2>1. Max(x) \in x
    <3>1. x \in SUBSET (1 .. Len(s)) /\ Len(s) \in Nat
      OBVIOUS
    <3> QED BY <3>1, MaxIsMember
  <2> HIDE DEF A
  <2>2. s[Max(x)] \in Blobs /\ g[x \ {Max(x)}] \in A
    BY <2>1
  <2> QED BY <1>2, <2>2
<1>4. iter = [x \in SUBSET DOMAIN s |->
                IF x = {} THEN {} ELSE register_blob(iter[x \ {Max(x)}], s[Max(x)])]
  <2> HIDE DEF A, step
  <2> QED BY <1>3
<1>5. blob_registry(s) = iter[DOMAIN s]
  BY DEF blob_registry, FoldLeft, MapThenFoldSet
<1> HIDE DEF iter
<1> DEFINE acc == [n \in Nat |-> iter[1 .. n]]
<1>6. DOMAIN s = 1 .. Len(s) /\ Len(s) \in Nat
  OBVIOUS
<1>7. acc[0] = {}
  <2>1. 1 .. 0 = {} /\ {} \in SUBSET DOMAIN s
    OBVIOUS
  <2>2. iter[{}] = {}
    BY <1>4, <2>1
  <2> QED BY <2>1, <2>2
<1>8. ASSUME NEW n \in 0 .. Len(s) - 1 PROVE acc[n + 1] = register_blob(acc[n], s[n + 1])
  <2>1. /\ n \in Nat /\ n + 1 \in Nat
        /\ n + 1 \in 1 .. n + 1 /\ 1 .. n + 1 \in SUBSET DOMAIN s /\ 1 .. n + 1 # {}
    <3>1. n \in Nat /\ n + 1 \in Nat /\ n + 1 <= Len(s)
      BY <1>6
    <3>2. n + 1 \in 1 .. n + 1 /\ \A i \in 1 .. n + 1 : i \in 1 .. Len(s)
      BY <1>6, <3>1
    <3> QED BY <1>6, <3>1, <3>2
  <2>2. iter[1 .. n + 1]
          = register_blob(iter[(1 .. n + 1) \ {Max(1 .. n + 1)}], s[Max(1 .. n + 1)])
    BY <1>4, <2>1
  <2>3. Max(1 .. n + 1) = n + 1 /\ (1 .. n + 1) \ {n + 1} = 1 .. n
    BY <2>1, PrefixOfIndices
  <2>4. iter[1 .. n + 1] = register_blob(iter[1 .. n], s[n + 1])
    BY <2>2, <2>3
  <2> QED BY <2>1, <2>4
<1>9. blob_registry(s) = acc[Len(s)]
  BY <1>5, <1>6
<1> HIDE DEF acc
<1> QED BY <1>7, <1>8, <1>9

\* The first registration of each key.
Firsts(s, n) == {i \in 1 .. n : \A j \in 1 .. i - 1 : KeyOf(s[j]) # KeyOf(s[i])}

\* The registry holds the blob first registered for each key.
LEMMA RegistryHoldsFirsts ==
  ASSUME NEW s \in Seq(Blobs)
  PROVE  blob_registry(s) = {Entry(s[i]) : i \in Firsts(s, Len(s))}
<1>1. Len(s) \in Nat
  OBVIOUS
<1>2. PICK acc : /\ acc[0] = {}
                 /\ \A n \in 0 .. Len(s) - 1 : acc[n + 1] = register_blob(acc[n], s[n + 1])
                 /\ blob_registry(s) = acc[Len(s)]
  BY RegistryFold
<1> DEFINE Holds(n) == /\ acc[n] = {Entry(s[i]) : i \in Firsts(s, n)}
                       /\ \A j \in 1 .. n : \E i \in Firsts(s, n) : KeyOf(s[i]) = KeyOf(s[j])
           P == {n \in Nat : n <= Len(s) => Holds(n)}
<1>3. 0 \in P
  <2>1. Firsts(s, 0) = {}
    BY DEF Firsts
  <2> QED BY <1>2, <2>1
<1>4. ASSUME NEW n \in P PROVE n + 1 \in P
  <2> SUFFICES ASSUME n + 1 <= Len(s) PROVE Holds(n + 1)
    OBVIOUS
  <2>1. n \in 0 .. Len(s) - 1 /\ n \in Nat /\ Holds(n)
    BY <1>1
  <2>2. PICK b : b = s[n + 1]
    OBVIOUS
  <2>3. acc[n + 1] = IF \E r \in acc[n] : r.key = KeyOf(b) THEN acc[n]
                     ELSE acc[n] \cup {Entry(b)}
    BY <1>2, <2>1, <2>2 DEF register_blob, KeyOf, Entry
  <2>4. (\E r \in acc[n] : r.key = KeyOf(b)) <=> \E i \in Firsts(s, n) : KeyOf(s[i]) = KeyOf(b)
    <3>1. \A i : Entry(s[i]).key = KeyOf(s[i])
      BY DEF Entry
    <3>2. acc[n] = {Entry(s[i]) : i \in Firsts(s, n)}
      BY <2>1
    <3> QED BY <3>1, <3>2
  <2>5. Firsts(s, n) \subseteq 1 .. n
    BY DEF Firsts
  <2>6. CASE \E i \in Firsts(s, n) : KeyOf(s[i]) = KeyOf(b)
    <3>1. Firsts(s, n + 1) = Firsts(s, n)
      BY <2>1, <2>2, <2>5, <2>6, SMTT(30) DEF Firsts
    <3>2. acc[n + 1] = acc[n]
      BY <2>3, <2>4, <2>6
    <3>3. \A j \in 1 .. n + 1 : j \in 1 .. n \/ j = n + 1
      BY <2>1
    <3> QED BY <2>1, <2>2, <2>6, <3>1, <3>2, <3>3
  <2>7. CASE ~(\E i \in Firsts(s, n) : KeyOf(s[i]) = KeyOf(b))
    <3>1. \A j \in 1 .. n : KeyOf(s[j]) # KeyOf(b)
      BY <2>1, <2>7
    <3>2. Firsts(s, n + 1) = Firsts(s, n) \cup {n + 1}
      BY <2>1, <2>2, <3>1 DEF Firsts
    <3>3. acc[n + 1] = acc[n] \cup {Entry(b)}
      BY <2>3, <2>4, <2>7
    <3>4. \A j \in 1 .. n + 1 : j \in 1 .. n \/ j = n + 1
      BY <2>1
    <3> QED BY <2>1, <2>2, <3>2, <3>3, <3>4
  <2> QED BY <2>6, <2>7
<1>5. P = Nat
  <2>1. P \in SUBSET Nat
    OBVIOUS
  <2> HIDE DEF P
  <2> QED BY <1>3, <1>4, <2>1, SetInduction
<1>6. Holds(Len(s))
  <2> HIDE DEF Holds
  <2> QED BY <1>1, <1>5
<1> QED BY <1>2, <1>6

\* A test replays the first blob registered for it (register_blob,
\* reproduce_blobs_for), of however many, and no other.
THEOREM BlobsApart ==
  ASSUME NEW s \in Seq(Blobs), NEW t \in Tests
  PROVE  LET own == {i \in DOMAIN s : s[i].file = t.file /\ s[i].name = t.name}
         IN  reproduce_blobs_for(t, s) =
               {Head(s[i].blobs) : i \in {i \in own : \A j \in own : i <= j}}
<1> DEFINE own == {i \in DOMAIN s : s[i].file = t.file /\ s[i].name = t.name}
           least == {i \in own : \A j \in own : i <= j}
<1>1. Len(s) \in Nat /\ DOMAIN s = 1 .. Len(s) /\ \A i \in 1 .. Len(s) : s[i] \in Blobs
  OBVIOUS
<1>2. \A i \in 1 .. Len(s) : i \in own <=> KeyOf(s[i]) = KeyOf(t)
  <2> SUFFICES ASSUME NEW i \in 1 .. Len(s), KeyOf(s[i]) = KeyOf(t)
               PROVE  s[i].file = t.file /\ s[i].name = t.name
    BY <1>1 DEF KeyOf
  <2>1. Named(s[i]) /\ Named(t)
    BY <1>1, TestsAssumption DEF Named
  <2> QED BY <2>1, KeyIsUnique DEF KeyOf
<1>3. \A i : i \in least <=> i \in Firsts(s, Len(s)) /\ KeyOf(s[i]) = KeyOf(t)
  <2> SUFFICES ASSUME NEW i
               PROVE  i \in least <=> i \in Firsts(s, Len(s)) /\ KeyOf(s[i]) = KeyOf(t)
    OBVIOUS
  <2> HIDE DEF own
  <2>1. own \subseteq 1 .. Len(s)
    BY <1>1 DEF own
  <2>2. ASSUME i \in least PROVE i \in Firsts(s, Len(s)) /\ KeyOf(s[i]) = KeyOf(t)
    BY <1>1, <1>2, <2>1, <2>2 DEF Firsts
  <2>3. ASSUME i \in Firsts(s, Len(s)), KeyOf(s[i]) = KeyOf(t) PROVE i \in least
    <3>1. i \in own /\ i \in 1 .. Len(s)
      BY <1>2, <2>3 DEF Firsts
    <3>2. ASSUME NEW j \in own, j < i PROVE FALSE
      <4>1. j \in 1 .. i - 1 /\ KeyOf(s[j]) = KeyOf(t)
        BY <1>1, <1>2, <2>1, <3>1, <3>2
      <4> QED BY <2>3, <4>1 DEF Firsts
    <3> QED BY <2>1, <3>1, <3>2
  <2> QED BY <2>2, <2>3
<1> HIDE DEF least
<1>4. reproduce_blobs_for(t, s) =
        {r.blob : r \in {e \in {Entry(s[i]) : i \in Firsts(s, Len(s))} : e.key = KeyOf(t)}}
  BY RegistryHoldsFirsts DEF reproduce_blobs_for, KeyOf
<1>5. \A i : Entry(s[i]).key = KeyOf(s[i]) /\ Entry(s[i]).blob = Head(s[i].blobs)
  BY DEF Entry
<1>6. reproduce_blobs_for(t, s) =
        {Head(s[i].blobs) : i \in {i \in Firsts(s, Len(s)) : KeyOf(s[i]) = KeyOf(t)}}
  BY <1>4, <1>5
<1>7. {i \in Firsts(s, Len(s)) : KeyOf(s[i]) = KeyOf(t)} = least
  BY <1>3
<1>8. reproduce_blobs_for(t, s) = {Head(s[i].blobs) : i \in least}
  BY <1>6, <1>7
<1> QED BY <1>8 DEF least

LEMMA AllBlobsApart == BlobsStayApart
<1> SUFFICES ASSUME NEW s \in UNION {[1 .. n -> Blobs] : n \in 0 .. 3}, NEW t \in Tests
             PROVE  LET own == {i \in DOMAIN s : s[i].file = t.file /\ s[i].name = t.name}
                    IN  reproduce_blobs_for(t, s) =
                          {Head(s[i].blobs) : i \in {i \in own : \A j \in own : i <= j}}
  BY DEF BlobsStayApart
<1>1. PICK n \in 0 .. 3 : s \in [1 .. n -> Blobs]
  OBVIOUS
<1>2. s \in Seq(Blobs)
  BY <1>1
<1> QED BY <1>2, BlobsApart

\* The engine runs with each value the caller chose (apply_settings), for any
\* profile, any vectors of flags and any values of the fields.
THEOREM ChoicesReachEngine == Spec => []SettingsReachEngine
<1>1. ASSUME TypeOK PROVE SettingsReachEngine
  <2> SUFFICES ASSUME NEW p \in Profiles, NEW s \in Near(settings)
               PROVE  KeepsChoices(s, RunsWith(apply_settings(p, s)))
    BY DEF SettingsReachEngine
  <2>1. settings \in CallSettings
    BY <1>1 DEF TypeOK
  <2> QED BY <2>1, NearTyped, ChoicesKept
<1> QED BY TestRunTyped, <1>1, PTL

\* Database keys, blobs and verdicts of two tests do not mix (database_key,
\* reproduce_blobs_for, apply_test_location), for any tests, files and blobs.
THEOREM TestsNeverMix == Spec => []TestsStayApart
<1>1. TestsStayApart
  BY KeysApart, AllBlobsApart, VerdictsApart DEF TestsStayApart
<1> QED BY <1>1, PTL
=============================================================================
