----------------------------- MODULE MCTestRun -----------------------------
(* Values for the constants of TestRun and Settings: one failure of the    *)
(* test's own and the failed assertions; the calls whose settings change   *)
(* the course of a run; several choices for every setting.                 *)
EXTENDS TestRun

CONSTANTS thrown, asserted

TwoOrigins == {thrown, asserted}

NoVariable == [v \in DOMAIN ci_vars |-> Unset]
MCEnvironments ==
  {NoVariable} \cup {[NoVariable EXCEPT ![v] = value] :
                       v \in DOMAIN ci_vars, value \in {"true", "false"}}

Development ==
  [test_cases |-> 100, verbosity |-> hegel_verbosity_t.Normal, seed |-> Unset,
   derandomize |-> FALSE, report_multiple_failures |-> FALSE,
   database |-> ".hegel", database_key |-> Unset, suppress_health_check |-> 0,
   phases |-> Mask(hegel_phase_t, all_phases), backend |-> hegel_backend_t.Default]

\* A profile of a hegel.toml.
Team == [Development EXCEPT !.test_cases = 7, !.report_multiple_failures = TRUE,
                            !.suppress_health_check = hegel_health_check_t.TooSlow]

MCProfiles == {Development, Team}

Vectors(S) == UNION {[1 .. n -> S] : n \in 0 .. 2}

MCOptions ==
  [test_cases |-> {Unset, 0, 7}, verbosity |-> DOMAIN hegel_verbosity_t,
   seed |-> {Unset, 0, 7}, derandomize |-> BOOLEAN,
   report_multiple_failures |-> BOOLEAN,
   database |-> {Database("Unset", ""), Database("Disabled", ""),
                 Database("Path", "dir")},
   database_key |-> {Unset, <<"key">>},
   suppress_health_check |-> Vectors(DOMAIN hegel_health_check_t),
   phases |-> {all_phases} \cup Vectors(DOMAIN hegel_phase_t),
   backend |-> {"Auto"} \cup DOMAIN hegel_backend_t,
   stateful_step_count |-> {0, 1, 50}]

Files == {<<"a.cpp">>, <<"b.cpp">>}
Identifiers == {<<"f">>, <<"g">>}

MCTests ==
  [via : {"macro", "function"}, file : Files, name : Identifiers]
    \cup [via : {"framework"}, file : {<<"a.cpp">>},
          name : {<<"Suite", ".", "f">>, <<"Suite", ".", "g", ".", "0">>}]
    \cup [via : {"location"}, file : Files \cup {<<>>},
          name : Identifiers \cup {<<>>, <<"ns", "::", "f">>, <<"v1", ".", "2">>}]

MCBlobs == [file : Files, name : {<<"f">>}, blobs : {<<"x">>, <<"y", "x">>}]

Defaults == DefaultSettings(NoVariable)
InCI == DefaultSettings([NoVariable EXCEPT !.CI = "true"])

MCCallSettings ==
  {[Defaults EXCEPT !.verbosity = v, !.report_multiple_failures = m] :
     v \in {"Normal", "Quiet"}, m \in BOOLEAN}
    \cup {[Defaults EXCEPT !.stateful_step_count = 0], [Defaults EXCEPT !.phases = <<>>], InCI}
=============================================================================
