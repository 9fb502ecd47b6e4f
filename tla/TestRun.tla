------------------------------ MODULE TestRun ------------------------------
(***************************************************************************)
(* One call of hegel::test() (src/hegel.cpp): the settings, the generation *)
(* loop of run_from_engine, the verdict, the replay of every failure, and  *)
(* run_from_blob.  The test body is user code: it may create a concurrent  *)
(* state machine, fail GoogleTest assertions, and end in any way.          *)
(*                                                                         *)
(* The engine is external: it hands test cases out one at a time, flips    *)
(* the run when a body first creates a machine that may be concurrent, and *)
(* decides when the run is over, as libhegel/hegel.h documents.            *)
(***************************************************************************)
EXTENDS Settings

CONSTANTS Origins, NoOrigin,
          GTestOrigin,  \* the origin of a case that failed assertions
          Profile,      \* the handle hegel_settings_new gives
          MaxCases      \* bound on the cases of the generation loop

ASSUME OriginAssumption == GTestOrigin \in Origins /\ NoOrigin \notin Origins
ASSUME MaxCasesAssumption == MaxCases \in Nat
ASSUME ProfileAssumption == "report_multiple_failures" \in DOMAIN Profile

VARIABLES
  pc,             \* where the call is
  given_blobs,    \* the caller passed failure blobs
  settings,       \* the caller's
  cases_run, cases_discarded, seen_interesting,    \* run_from_engine's locals
  nondeterministic,
  captured,       \* nondeterministic_failure: which body it came from, or 0
  outcome,        \* what run_body returned
  failure,        \* the failure being replayed, or NoOrigin
  failure_count,
  recorded,       \* the GoogleTest failures of this case
  shown,          \* the body whose notes the open section of the report shows
  sections,       \* the failures whose section of the report is complete
  ending, raised, \* how the call ended, and whose exception it raised
  case,           \* engine: the current test case
  rejected,       \* engine: it has rejected this case's machine
  run_is_nondeterministic,  \* engine: it marks the cases that follow so
  found, found_live,        \* engine: the failures so far, and whether one
                            \* of them is of a case marked nondeterministic
  run_status, unreported,                          \* engine: the run's result
  bodies          \* what became of each body that ran

caller == <<given_blobs, settings>>
counters == <<cases_run, cases_discarded, seen_interesting>>
body == <<outcome, recorded>>
report == <<shown, sections>>
result == <<ending, raised>>
search == <<run_is_nondeterministic, found, found_live>>
engine == <<case, rejected, search>>
verdict == <<run_status, unreported, failure_count>>
vars == <<pc, caller, counters, nondeterministic, captured, body, failure,
          report, result, engine, verdict, bodies>>

Property == INSTANCE PropertyTest

quiet == settings.verbosity = "Quiet"

\* What the engine has been told.
handle == apply_settings(Profile, settings)

Failed(o) == Property!Failed(o)
Interesting(out) == Property!Interesting(out)
Valid == Property!Outcome("VALID", NoOrigin)
Invalid == Property!Outcome("INVALID", NoOrigin)
Overrun == Property!Outcome("OVERRUN", NoOrigin)

RunStatuses == {"none", "PASSED", "FAILED", "ERROR", "FAILED_NONDETERMINISTIC"}

Endings == {"none", "passed", "raised", "summary", "invalid argument",
            "run error", "flaky", "not reproduced", "internal error"}

TypeOK ==
  /\ pc \in {"settings", "next", "body", "case_over", "mark", "verdict",
             "report", "replay", "judge", "ended"}
  /\ settings \in CallSettings
  /\ {given_blobs, seen_interesting, nondeterministic, recorded,
      rejected, run_is_nondeterministic, found_live} \subseteq BOOLEAN
  /\ cases_run \in 0..MaxCases
  /\ cases_discarded \in 0..MaxCases
  /\ captured \in 0..Len(bodies)
  /\ outcome \in Property!Outcomes
  /\ failure \in Origins \cup {NoOrigin}
  /\ failure_count \in Nat
  /\ shown \in 0..Len(bodies)
  /\ sections \in SUBSET Origins
  /\ ending \in Endings
  /\ raised \in 0..Len(bodies)
  /\ case \in {"none", "open", "complete"}
  /\ found \in SUBSET Origins
  /\ unreported \in SUBSET found
  /\ run_status \in RunStatuses
  /\ bodies \in Seq(Property!Outcomes)

Init ==
  /\ pc = "settings"
  /\ given_blobs \in BOOLEAN
  /\ settings \in CallSettings
  /\ cases_run = 0
  /\ cases_discarded = 0
  /\ seen_interesting = FALSE
  /\ nondeterministic = FALSE
  /\ captured = 0
  /\ outcome = Valid
  /\ failure = NoOrigin
  /\ failure_count = 0
  /\ recorded = FALSE
  /\ shown = 0
  /\ sections = {}
  /\ ending = "none"
  /\ raised = 0
  /\ case = "none"
  /\ rejected = FALSE
  /\ run_is_nondeterministic = FALSE
  /\ found = {}
  /\ found_live = FALSE
  /\ run_status = "none"
  /\ unreported = {}
  /\ bodies = <<>>

-----------------------------------------------------------------------------
(* How the call ends *)

\* hegel::test() returns, or throws an exception of its own ...
End(kind) ==
  /\ pc' = "ended"
  /\ ending' = kind
  /\ UNCHANGED raised

\* ... or raises the exception the i-th body threw.
Rethrow(i) ==
  /\ pc' = "ended"
  /\ ending' = "raised"
  /\ raised' = i

-----------------------------------------------------------------------------
(* run_test *)

\* The engine cannot resolve the profile, or a setting is out of range.
ApplySettings ==
  /\ pc = "settings"
  /\ \/ End("run error")
     \/ ~ValidSettings(settings) /\ End("invalid argument")
     \/ /\ ValidSettings(settings)
        /\ pc' = (IF given_blobs THEN "replay" ELSE "next")
        /\ UNCHANGED result
  /\ UNCHANGED <<caller, counters, nondeterministic, captured, body, failure,
                 report, engine, verdict, bodies>>

-----------------------------------------------------------------------------
(* The generation loop *)

\* A body begins: no assertion has failed, no machine was rejected.
Open ==
  /\ case' = "open"
  /\ recorded' = FALSE
  /\ rejected' = FALSE
  /\ pc' = "body"

\* The engine, asked for no phase, runs no case.
NextTestCase ==
  /\ pc = "next"
  /\ Len(bodies) < MaxCases
  /\ Flags(hegel_phase_t, handle.phases) # {}
  /\ ~(run_is_nondeterministic /\ found # {})
  /\ Open
  /\ nondeterministic' = run_is_nondeterministic
  /\ UNCHANGED <<caller, counters, captured, outcome, failure, report, result,
                 search, verdict, bodies>>

\* The run is over: at any time without a verdict, otherwise with what it found.
\* Of several failures the engine reports one or, when asked to, all.  A failure
\* of a case marked nondeterministic has no blob.
RunOver ==
  /\ pc = "next"
  /\ pc' = "verdict"
  /\ \/ run_status' = "ERROR" /\ unreported' = {}
     \/ found = {} /\ run_status' = "PASSED" /\ unreported' = {}
     \/ /\ found # {} /\ ~found_live
        /\ run_status' = "FAILED"
        /\ IF handle.report_multiple_failures THEN unreported' = found
           ELSE \E o \in found : unreported' = {o}
     \/ /\ found_live
        /\ run_status' = "FAILED_NONDETERMINISTIC"
        /\ unreported' = {}
  /\ failure_count' = Cardinality(unreported')
  /\ UNCHANGED <<caller, counters, nondeterministic, captured, body, failure,
                 report, result, engine, bodies>>

-----------------------------------------------------------------------------
(* run_body: the user's body, inside the framework integration *)

\* The body returned out, or threw what run_body classifies as out.
BodyEnds(out) ==
  /\ pc' = "case_over"
  /\ outcome' = out
  /\ bodies' = Append(bodies, out)

\* EXPECT_*: recorded, and the body goes on.
ExpectFails ==
  /\ pc = "body"
  /\ recorded' = TRUE
  /\ UNCHANGED <<pc, caller, counters, nondeterministic, captured, outcome,
                 failure, report, result, engine, verdict, bodies>>

\* ASSERT_*: recorded, and FatalFailure ends the body; raise_failures then
\* throws GTestFailure.
AssertFails ==
  /\ pc = "body"
  /\ recorded' = TRUE
  /\ BodyEnds(Failed(GTestOrigin))
  /\ UNCHANGED <<caller, counters, nondeterministic, captured, failure, report,
                 result, engine, verdict>>

\* The first machine of a run that may be concurrent is rejected, except in a
\* replay: HegelReject leaves the body, or a rule of a sequential machine or an
\* iteration of repeat() that created it catches HegelReject and goes on.
CreateMachine ==
  /\ pc = "body"
  /\ failure = NoOrigin /\ ~given_blobs
  /\ ~run_is_nondeterministic /\ ~rejected
  /\ rejected' = TRUE
  /\ \/ BodyEnds(Invalid)
     \/ UNCHANGED <<pc, outcome, bodies>>
  /\ UNCHANGED <<caller, counters, nondeterministic, captured, recorded,
                 failure, report, result, case, search, verdict>>

\* The body returns, and raise_failures turns recorded assertions into
\* GTestFailure; or it throws, past raise_failures.
EndBody ==
  /\ pc = "body"
  /\ \/ BodyEnds(IF recorded THEN Failed(GTestOrigin) ELSE Valid)
     \/ BodyEnds(Overrun)
     \/ BodyEnds(Invalid)
     \/ \E o \in Origins \ {GTestOrigin} : BodyEnds(Failed(o))
  /\ UNCHANGED <<caller, counters, nondeterministic, captured, recorded,
                 failure, report, result, engine, verdict>>

-----------------------------------------------------------------------------
(* After run_body *)

\* Mutants of Tally: every case is counted; the body is off by one; a case the
\* engine stopped is not marked.
TallyAll ==
  /\ pc = "case_over"
  /\ failure = NoOrigin /\ ~given_blobs
  /\ pc' = "mark"
  /\ captured' = IF nondeterministic /\ Interesting(outcome)
                 THEN Len(bodies) ELSE captured
  /\ seen_interesting' = Interesting(outcome)
  /\ cases_run' = cases_run +
       (IF outcome.status \in {"VALID", "INTERESTING"} THEN 1 ELSE 0)
  /\ cases_discarded' = cases_discarded +
       (IF outcome.status = "INVALID" THEN 1 ELSE 0)
  /\ UNCHANGED <<caller, nondeterministic, body, failure, report, result,
                 engine, verdict, bodies>>

TallyOffByOne ==
  /\ pc = "case_over"
  /\ failure = NoOrigin /\ ~given_blobs
  /\ pc' = "mark"
  /\ captured' = IF nondeterministic /\ Interesting(outcome)
                 THEN Len(bodies) + 1 ELSE captured
  /\ UNCHANGED <<caller, counters, nondeterministic, body, failure, report,
                 result, engine, verdict, bodies>>

TallySkipsMark ==
  /\ pc = "case_over"
  /\ failure = NoOrigin /\ ~given_blobs
  /\ pc' = IF outcome.status = "OVERRUN" THEN "next" ELSE "mark"
  /\ UNCHANGED <<caller, counters, nondeterministic, captured, body, failure,
                 report, result, engine, verdict, bodies>>

\* In the generation loop: keep a nondeterministic failure, since it cannot be
\* replayed, and count the case unless a failure was seen before.
Tally ==
  /\ pc = "case_over"
  /\ failure = NoOrigin /\ ~given_blobs
  /\ pc' = "mark"
  /\ captured' = IF nondeterministic /\ Interesting(outcome)
                 THEN Len(bodies) ELSE captured
  /\ IF seen_interesting THEN UNCHANGED counters
     ELSE /\ seen_interesting' = Interesting(outcome)
          /\ cases_run' = cases_run +
               (IF outcome.status \in {"VALID", "INTERESTING"} THEN 1 ELSE 0)
          /\ cases_discarded' = cases_discarded +
               (IF outcome.status = "INVALID" THEN 1 ELSE 0)
  /\ UNCHANGED <<caller, nondeterministic, body, failure, report, result,
                 engine, verdict, bodies>>

\* In a replay: the notes it printed are the body of this section.
Replayed ==
  /\ pc = "case_over"
  /\ failure # NoOrigin \/ given_blobs
  /\ pc' = "mark"
  /\ shown' = IF quiet THEN shown ELSE Len(bodies)
  /\ UNCHANGED <<caller, counters, nondeterministic, captured, body, failure,
                 sections, result, engine, verdict, bodies>>

\* The engine records a failure of the run's own cases, and flips the run at
\* the end of a case whose machine it rejected.
MarkComplete ==
  /\ pc = "mark"
  /\ case = "open"
  /\ case' = "complete"
  /\ IF failure = NoOrigin /\ ~given_blobs
     THEN /\ pc' = "next"
          /\ found' = IF Interesting(outcome) THEN found \cup {outcome.origin}
                      ELSE found
          /\ found_live' = (found_live \/ (Interesting(outcome) /\ nondeterministic))
          /\ run_is_nondeterministic' = (run_is_nondeterministic \/ rejected)
     ELSE /\ pc' = "judge"
          /\ UNCHANGED search
  /\ UNCHANGED <<caller, counters, nondeterministic, captured, body, failure,
                 report, result, rejected, verdict, bodies>>
-----------------------------------------------------------------------------
(* The verdict *)

\* Mutant of Conclude: a run that failed by itself counts as a pass.
ConcludeOptimistic ==
  /\ pc = "verdict"
  /\ run_status \in {"PASSED", "ERROR"}
  /\ End("passed")
  /\ UNCHANGED <<caller, counters, nondeterministic, captured, body, failure,
                 report, engine, verdict, bodies>>

\* The run found nothing, or failed by itself.
Conclude ==
  /\ pc = "verdict"
  /\ \/ run_status = "PASSED" /\ End("passed")
     \/ run_status = "ERROR" /\ End("run error")
  /\ UNCHANGED <<caller, counters, nondeterministic, captured, body, failure,
                 report, engine, verdict, bodies>>

\* Mutant of RaiseCaptured: the kept output is not printed.
RaiseSilently ==
  /\ pc = "verdict"
  /\ run_status = "FAILED_NONDETERMINISTIC"
  /\ IF captured = 0 THEN End("internal error") ELSE Rethrow(captured)
  /\ UNCHANGED <<caller, counters, nondeterministic, captured, body, failure,
                 report, engine, verdict, bodies>>

\* The report shows the output kept from the case that failed.
RaiseCaptured ==
  /\ pc = "verdict"
  /\ run_status = "FAILED_NONDETERMINISTIC"
  /\ IF captured = 0 THEN End("internal error") ELSE Rethrow(captured)
  /\ shown' = IF quiet \/ captured = 0 THEN shown ELSE captured
  /\ UNCHANGED <<caller, counters, nondeterministic, captured, body, failure,
                 sections, engine, verdict, bodies>>

\* The header of the report; then every failure is replayed.
BeginReport ==
  /\ pc = "verdict"
  /\ run_status = "FAILED"
  /\ pc' = "replay"
  /\ UNCHANGED <<caller, counters, nondeterministic, captured, body, failure,
                 report, result, engine, verdict, bodies>>

-----------------------------------------------------------------------------
(* replay_failure, handle_failure and run_from_blob *)

\* The next failure of the run, or the first of the caller's blobs, which the
\* engine may refuse.
ReplayFailure ==
  /\ pc = "replay"
  /\ \/ given_blobs /\ Open /\ UNCHANGED <<failure, result>>
     \/ \E f \in unreported : failure' = f /\ Open /\ UNCHANGED result
     \/ given_blobs /\ End("run error") /\ UNCHANGED <<failure, case, recorded, rejected>>
  /\ UNCHANGED <<caller, counters, nondeterministic, captured, outcome, report,
                 search, verdict, bodies>>

\* Mutant of JudgeFailure: the first replay that fails is raised at once.
JudgeFirstOnly ==
  /\ pc = "judge"
  /\ failure # NoOrigin
  /\ IF ~Interesting(outcome)
     THEN End("flaky") /\ UNCHANGED <<sections, unreported>>
     ELSE /\ sections' = IF quiet THEN sections ELSE sections \cup {failure}
          /\ unreported' = unreported \ {failure}
          /\ Rethrow(Len(bodies))
  /\ UNCHANGED <<caller, counters, nondeterministic, captured, body, failure,
                 shown, engine, run_status, failure_count, bodies>>

\* A failure that does not fail again is flaky.  A single failure is raised;
\* several are summed up after the last one.
JudgeFailure ==
  /\ pc = "judge"
  /\ failure # NoOrigin
  /\ IF ~Interesting(outcome)
     THEN End("flaky") /\ UNCHANGED <<sections, unreported>>
     ELSE /\ sections' = IF quiet THEN sections ELSE sections \cup {failure}
          /\ unreported' = unreported \ {failure}
          /\ IF failure_count = 1 THEN Rethrow(Len(bodies))
             ELSE IF unreported' = {} THEN End("summary")
             ELSE pc' = "replay" /\ UNCHANGED result
  /\ UNCHANGED <<caller, counters, nondeterministic, captured, body, failure,
                 shown, engine, run_status, failure_count, bodies>>

JudgeBlob ==
  /\ pc = "judge"
  /\ given_blobs
  /\ IF Interesting(outcome) THEN Rethrow(Len(bodies)) ELSE End("not reproduced")
  /\ UNCHANGED <<caller, counters, nondeterministic, captured, body, failure,
                 report, engine, verdict, bodies>>

Next ==
  \/ ApplySettings \/ NextTestCase \/ RunOver
  \/ ExpectFails \/ AssertFails \/ CreateMachine \/ EndBody
  \/ Tally \/ Replayed \/ MarkComplete
  \/ Conclude \/ RaiseCaptured \/ BeginReport
  \/ ReplayFailure \/ JudgeFailure \/ JudgeBlob

Spec == Init /\ [][Next]_vars

-----------------------------------------------------------------------------
(* Properties *)

\* The engine refuses the next case while one is open, and a second
\* mark_complete: every case is marked exactly once before the next one is
\* asked for, and none is left open when the call ends, however it ends.
EngineNeverRefuses ==
  /\ pc \in {"next", "verdict", "replay", "judge", "ended"} => case # "open"
  /\ pc \in {"body", "case_over", "mark"} => case = "open"

\* The bodies up to and including the first that failed.
Falsifying == {i \in 1..Len(bodies) : \A j \in 1..i-1 : ~Interesting(bodies[j])}

\* "Falsified after N test cases (M discarded)" counts the search for the first
\* failure: not the cases that ran out of choices, nor those of the shrinker.
CountsCoverSearch ==
  pc = "verdict" =>
    /\ cases_run = Cardinality({i \in Falsifying :
                      bodies[i].status \in {"VALID", "INTERESTING"}})
    /\ cases_discarded = Cardinality({i \in Falsifying :
                            bodies[i].status = "INVALID"})

\* The exception a call raises is the one of the body whose notes and drawn
\* values the report shows above it.
ReportTellsWhatIsRaised ==
  ending = "raised" /\ ~quiet => shown = raised

\* A call that reports its failures leaves none of them out.
EveryFailureReported ==
  ending \in {"raised", "summary"} /\ run_status = "FAILED" =>
    /\ unreported = {}
    /\ ~quiet => Cardinality(sections) = failure_count

\* The engine runs with each value the caller chose, whatever the settings
\* profile and the other fields: no field is lost on the way, takes another's
\* value, or stops counting when it is given twice.
SettingsReachEngine ==
  pc = "settings" =>
    \A p \in Profiles : \A s \in Near(settings) :
      KeepsChoices(s, RunsWith(apply_settings(p, s)))

\* What the run stores or reports of a test, and the blob pasted above it, come
\* back to that test only.
TestsStayApart ==
  pc = "settings" /\ settings.database_key = Unset =>
    KeysStayApart(settings) /\ BlobsStayApart /\ VerdictsStayApart

\* A call of test() keeps its promise: in particular it passes only when no
\* body failed, and it never ends with the internal error of a nondeterministic
\* failure that was not captured.
ImplementsProperty == Property!Spec

\* libhegel/hegel.h:1666: when a machine's creation is rejected, the caller
\* should abandon the body and report the case INVALID.
RejectedMachineEndsCase ==
  pc = "mark" /\ rejected => outcome.status = "INVALID"

\* include/hegel/gtest.h:28: Hegel must see a failed assertion to fail the test
\* case that ran it.
AssertionsFailTheCase ==
  pc = "mark" /\ recorded => Interesting(outcome)
=============================================================================
