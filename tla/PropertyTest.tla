---------------------------- MODULE PropertyTest ----------------------------
(***************************************************************************)
(* What one call of hegel::test() promises (include/hegel/hegel.h,         *)
(* src/hegel.cpp), whatever the engine does in between: it runs the test   *)
(* body some number of times and then ends.  It passes only when no body   *)
(* failed.  When it raises the test's own exception, that exception comes  *)
(* from the very last body it ran, so that whatever that body printed is   *)
(* the story of the exception; and when it sums several failures up, at    *)
(* least that many bodies failed.  Settings out of range run nothing.      *)
(***************************************************************************)
EXTENDS Naturals, Sequences, FiniteSets

CONSTANTS Origins,       \* the distinct failures of the test
          NoOrigin,      \* the origin of an outcome that is no failure
          CallSettings   \* the settings a call may be given

Outcome(status, origin) == [status |-> status, origin |-> origin]

Unremarkable == {Outcome(s, NoOrigin) : s \in {"VALID", "OVERRUN", "INVALID"}}

Failed(o) == Outcome("INTERESTING", o)

Outcomes == Unremarkable \cup {Failed(o) : o \in Origins}

Interesting(out) == out.status = "INTERESTING"

VARIABLES settings, \* what the caller asked for
          bodies,   \* what became of each body the call has run
          ending,   \* how the call has ended
          raised    \* the body whose exception it raised, or 0

vars == <<settings, bodies, ending, raised>>

Init ==
  /\ settings \in CallSettings
  /\ bodies = <<>>
  /\ ending = "none"
  /\ raised = 0

Run(out) ==
  /\ ending = "none"
  /\ settings.stateful_step_count >= 1
  /\ bodies' = Append(bodies, out)
  /\ UNCHANGED <<settings, ending, raised>>

Failures == {i \in 1..Len(bodies) : Interesting(bodies[i])}

Pass ==
  /\ ending = "none"
  /\ settings.stateful_step_count >= 1
  /\ Failures = {}
  /\ ending' = "passed"
  /\ UNCHANGED <<settings, bodies, raised>>

Raise ==
  /\ ending = "none"
  /\ Len(bodies) \in Failures
  /\ ending' = "raised"
  /\ raised' = Len(bodies)
  /\ UNCHANGED <<settings, bodies>>

Summarise ==
  /\ ending = "none"
  /\ settings.report_multiple_failures
  /\ Cardinality(Failures) >= 2
  /\ ending' = "summary"
  /\ UNCHANGED <<settings, bodies, raised>>

\* The settings or the blob are refused, the run itself failed, or what failed
\* once does not fail again.
Complain ==
  /\ ending = "none"
  /\ ending' \in {"invalid argument", "run error", "flaky", "not reproduced"}
  /\ UNCHANGED <<settings, bodies, raised>>

Next == (\E out \in Outcomes : Run(out)) \/ Pass \/ Raise \/ Summarise \/ Complain

Spec == Init /\ [][Next]_vars
=============================================================================
