------------------------------ MODULE Settings ------------------------------
(***************************************************************************)
(* The settings of a call of hegel::test(): their defaults                 *)
(* (include/hegel/settings.h), their translation onto the engine's handle  *)
(* (apply_settings in src/hegel.cpp), the key under which the database     *)
(* keeps a test's examples, the registry of failure blobs, and the name    *)
(* under which the engine reports a test's verdict.                        *)
(*                                                                         *)
(* A handle is a record of what the engine was last told.  It starts as    *)
(* the settings profile that hegel_settings_new resolves, which is         *)
(* external.  A string is a sequence of the words the code tells apart.    *)
(***************************************************************************)
EXTENDS Integers, SequencesExt

CONSTANTS
  Unset,         \* a std::optional without a value
  Environments,  \* what getenv may answer, by variable
  Profiles,      \* the handles hegel_settings_new may give
  Options,       \* the values tried for each field of Settings
  CallSettings,  \* the settings a call may be given
  Tests,         \* calls of hegel::test(), as [via, file, name]
  Blobs          \* the blobs a program registers

-----------------------------------------------------------------------------
(* The constants of libhegel/hegel.h *)

hegel_verbosity_t == [Normal |-> 0, Quiet |-> 1, Verbose |-> 2, Debug |-> 3]

hegel_backend_t == [Default |-> 1, Urandom |-> 2]

hegel_phase_t ==
  [Explicit |-> 1, Reuse |-> 2, Generate |-> 4, Target |-> 8, Shrink |-> 16]

hegel_health_check_t ==
  [FilterTooMuch |-> 1, TooSlow |-> 2, TestCasesTooLarge |-> 4,
   LargeInitialTestCase |-> 8]

\* The flags of a mask, and the enumerator of a code.
Flags(enum, mask) == {f \in DOMAIN enum : (mask \div enum[f]) % 2 = 1}
Enumerator(enum, code) == CHOOSE c \in DOMAIN enum : enum[c] = code

-----------------------------------------------------------------------------
(* Settings and their defaults *)

all_phases == <<"Explicit", "Reuse", "Generate", "Target", "Shrink">>

Database(kind, path) == [kind |-> kind, path |-> path]

\* The variables of CI servers, and the value each must have, if any.
ci_vars ==
  [CI |-> Unset, TF_BUILD |-> "true", BUILDKITE |-> "true", CIRCLECI |-> "true",
   CIRRUS_CI |-> "true", CODEBUILD_BUILD_ID |-> Unset,
   GITHUB_ACTIONS |-> "true", GITLAB_CI |-> Unset,
   HEROKU_TEST_RUN_ID |-> Unset, TEAMCITY_VERSION |-> Unset]

in_ci(env) == \E v \in DOMAIN ci_vars : /\ env[v] # Unset
                                        /\ ci_vars[v] \in {Unset, env[v]}

DefaultSettings(env) ==
  [test_cases |-> Unset, verbosity |-> "Normal", seed |-> Unset,
   derandomize |-> in_ci(env), report_multiple_failures |-> FALSE,
   database |-> Database(IF in_ci(env) THEN "Disabled" ELSE "Unset", ""),
   database_key |-> Unset, suppress_health_check |-> <<>>,
   phases |-> all_phases, backend |-> "Auto", stateful_step_count |-> 50]

-----------------------------------------------------------------------------
(* apply_settings.  Setting a bit twice sets it: the vectors may repeat.   *)

Bits(enum, flags) == [i \in DOMAIN flags |-> enum[flags[i]]]

\* Mutant of Mask: the flags are added up.
MaskAdds(enum, flags) == FoldLeft(LAMBDA mask, bit : mask + bit, 0, Bits(enum, flags))

\* mask |= bit
Or(mask, bit) == IF (mask \div bit) % 2 = 1 THEN mask ELSE mask + bit

Mask(enum, flags) == FoldLeft(Or, 0, Bits(enum, flags))

SettingFields ==
  {"test_cases", "verbosity", "seed", "derandomize", "report_multiple_failures",
   "database", "database_key", "suppress_health_check", "phases", "backend",
   "stateful_step_count"}
HandleFields == SettingFields \ {"stateful_step_count"}

\* What the type of a field lets it be.  A path is not empty: libhegel reads an
\* empty one as a database that is disabled.
Fits(f, v) ==
  CASE f = "verbosity"             -> v \in DOMAIN hegel_verbosity_t
    [] f = "database"              -> /\ v = Database(v.kind, v.path)
                                      /\ v.kind \in {"Unset", "Disabled", "Path"}
                                      /\ v.kind = "Path" <=> v.path # ""
    [] f = "suppress_health_check" -> v \in Seq(DOMAIN hegel_health_check_t)
    [] f = "phases"                -> v \in Seq(DOMAIN hegel_phase_t)
    [] f = "backend"               -> v \in {"Auto"} \cup DOMAIN hegel_backend_t
    [] OTHER                       -> TRUE

ASSUME SettingsAssumption ==
  /\ \A s \in CallSettings : /\ s = [f \in SettingFields |-> s[f]]
                             /\ \A f \in SettingFields : Fits(f, s[f])
  /\ \A f \in SettingFields : \A v \in Options[f] : Fits(f, v)
  /\ \A p \in Profiles : DOMAIN p = HandleFields

ValidSettings(s) == s.stateful_step_count >= 1

\* Every field is told to the engine, but the optional ones without a value, an
\* Unset database, an empty list of suppressed checks and the Auto backend.
apply_settings(handle, s) ==
  [handle EXCEPT
     !.test_cases = IF s.test_cases = Unset THEN @ ELSE s.test_cases,
     !.verbosity = hegel_verbosity_t[s.verbosity],
     !.seed = s.seed,
     !.derandomize = s.derandomize,
     !.report_multiple_failures = s.report_multiple_failures,
     !.database = CASE s.database.kind = "Unset"    -> @
                    [] s.database.kind = "Disabled" -> ""
                    [] s.database.kind = "Path"     -> s.database.path,
     !.database_key = IF s.database_key = Unset THEN @ ELSE s.database_key,
     !.suppress_health_check =
        LET suppress == Mask(hegel_health_check_t, s.suppress_health_check)
        IN IF suppress = 0 THEN @ ELSE suppress,
     !.phases = Mask(hegel_phase_t, s.phases),
     !.backend = IF s.backend = "Auto" THEN @ ELSE hegel_backend_t[s.backend]]

\* What the engine then runs with, in the words of Settings.
RunsWith(handle) ==
  [handle EXCEPT
     !.verbosity = Enumerator(hegel_verbosity_t, @),
     !.database = IF @ = "" THEN Database("Disabled", "") ELSE Database("Path", @),
     !.suppress_health_check = Flags(hegel_health_check_t, @),
     !.phases = Flags(hegel_phase_t, @),
     !.backend = Enumerator(hegel_backend_t, @)]

-----------------------------------------------------------------------------
(* The database key.  A test is reached through a HEGEL_TEST macro, through *)
(* test() with a location, inside a GoogleTest test, or in any function.    *)

Key(file, name) == file \o <<"::">> \o name

\* Mutant of database_key: the file is left out.
KeyOfName(t, s) ==
  CASE s.database_key # Unset                   -> s.database_key
    [] s.database_key = Unset /\ t.name = <<>>  -> Unset
    [] OTHER                                    -> t.name

\* A macro always has a key; the others only where there is a database.
database_key(t, s) ==
  CASE s.database_key # Unset -> s.database_key
    [] /\ s.database_key = Unset
       /\ t.via # "macro"
       /\ t.name = <<>> \/ s.database.kind = "Disabled" -> Unset
    [] OTHER -> Key(t.file, t.name)

-----------------------------------------------------------------------------
(* The blobs of HEGEL_REPRODUCE_FAILURE, registered in the order in which  *)
(* the program's static initialisers run, and the one a test replays.      *)

register_blob(registry, b) ==
  IF \E r \in registry : r.key = Key(b.file, b.name) THEN registry
  ELSE registry \cup {[key |-> Key(b.file, b.name), blob |-> Head(b.blobs)]}

blob_registry(registrations) == FoldLeft(register_blob, {}, registrations)

reproduce_blobs_for(t, registrations) ==
  {r.blob : r \in {b \in blob_registry(registrations) : b.key = Key(t.file, t.name)}}

-----------------------------------------------------------------------------
(* The name of the verdict: a location's name is split at its first dot.   *)

HasLocation(t) == t.via # "function"

FirstDot(name) ==
  CHOOSE i \in DOMAIN name : name[i] = "." /\ \A j \in 1 .. i - 1 : name[j] # "."
Class(name) == SubSeq(name, 1, FirstDot(name) - 1)
Function(name) == SubSeq(name, FirstDot(name) + 1, Len(name))

apply_test_location(t) ==
  IF Contains(t.name, ".") THEN <<Class(t.name), Function(t.name)>> ELSE <<t.file, t.name>>

\* Files are paths: none has a C++ scope in it, and none is the name of a test
\* class.
ASSUME TestsAssumption ==
  /\ \A t \in Tests \cup Blobs : /\ t.file \in Seq(STRING) /\ t.name \in Seq(STRING)
                                /\ ~Contains(t.file, "::")
                                /\ Key(t.file, t.name) # Unset
  /\ \A t, u \in Tests : Contains(t.name, ".") /\ t.via = "framework"
                            => u.file # Class(t.name)

-----------------------------------------------------------------------------
(* What the properties of a call rest on *)

\* Settings with at most two fields away from s.
Near(s) ==
  UNION {{[s EXCEPT ![f] = v, ![g] = w] : v \in Options[f], w \in Options[g]} :
           f \in DOMAIN s, g \in DOMAIN s}

\* The choices that leave a field to the profile.
Left(s, f) ==
  CASE f \in {"test_cases", "database_key"} -> s[f] = Unset
    [] f = "database"                       -> s[f].kind = "Unset"
    [] f = "suppress_health_check"          -> s[f] = <<>>
    [] f = "backend"                        -> s[f] = "Auto"
    [] OTHER                                -> f = "stateful_step_count"

Asked(s, f) ==
  IF f \in {"phases", "suppress_health_check"} THEN ToSet(s[f]) ELSE s[f]

KeepsChoices(s, runs) ==
  \A f \in {f \in DOMAIN s : ~Left(s, f)} : runs[f] = Asked(s, f)

\* Two calls share a database key they were not given only when they are of one
\* test of one file; every named test with a database has a key.
KeysStayApart(s) ==
  \A t, u \in Tests :
    LET key == database_key(t, s)
    IN /\ key # Unset /\ key = database_key(u, s) => t.file = u.file /\ t.name = u.name
       /\ t.name # <<>> /\ s.database.kind # "Disabled" => key # Unset

\* A HEGEL_TEST replays the blob first registered for it, whatever the blobs of
\* other tests and files and the order of their registration.  Three
\* registrations let one come before, between and after those of another test.
BlobsStayApart ==
  \A registrations \in UNION {[1 .. n -> Blobs] : n \in 0 .. 3}, t \in Tests :
    LET own == {i \in DOMAIN registrations :
                  registrations[i].file = t.file /\ registrations[i].name = t.name}
    IN reproduce_blobs_for(t, registrations) =
         {Head(registrations[i].blobs) : i \in {i \in own : \A j \in own : i <= j}}

\* Two tests have two verdicts, when a name with a dot is GoogleTest's, of which
\* a program has one each.
VerdictsStayApart ==
  \A t, u \in {v \in Tests : /\ HasLocation(v)
                             /\ Contains(v.name, ".") => v.via = "framework"} :
    apply_test_location(t) = apply_test_location(u)
      => t.name = u.name /\ (Contains(t.name, ".") \/ t.file = u.file)
=============================================================================
