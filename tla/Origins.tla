------------------------------ MODULE Origins ------------------------------
(***************************************************************************)
(* How a failure gets the origin the engine groups it under                *)
(* (src/hegel.cpp).  __cxa_throw keeps the site of the latest throw of     *)
(* each thread; run_body names a failure by the exception itself, when it  *)
(* names its origin, or by that site.  An exception that crosses threads   *)
(* is thrown on one and raised again on the other, and raising again is no *)
(* throw: run_concurrent carries the origin over, TestCase::spawn does not.*)
(*                                                                         *)
(* A test body is user code: it throws, handles exceptions, spawns threads *)
(* on clones and runs concurrent machines.  An exception is identified by  *)
(* the site that threw it.                                                 *)
(***************************************************************************)
EXTENDS Naturals

CONSTANTS
  Sites,      \* where exceptions are thrown
  Named,      \* ... those of exceptions derived from FailureOrigin
  Control,    \* ... those of HegelReject and HegelStopTest
  NoSite,
  Helpers,    \* threads that a body starts
  Main,
  MaxCases,   \* bound on the test cases
  MaxThrows   \* bound on the throws of one test case

ASSUME SitesAssumption ==
  Named \subseteq Sites /\ Control \subseteq Sites \ Named /\ NoSite \notin Sites
ASSUME ThreadsAssumption == Main \notin Helpers
ASSUME BoundsAssumption == {MaxCases, MaxThrows} \subseteq Nat

VARIABLES
  pc,         \* where the main thread is
  case,       \* how many bodies have begun
  throws,     \* how many exceptions this body has thrown
  role,       \* what each helper thread was started for
  running,    \* the helpers that have not ended
  flight,     \* the exception in flight on each thread, or NoSite
  ended_with, \* the exception each helper ended with, or NoSite
  captured,   \* the origin run_concurrent captured on each helper
  last_throw_address, concurrent_exception_origin,  \* thread_local
  via,        \* how the latest exception came to the main thread
  handled,    \* the latest failure of a concurrent machine that the body
              \* handled, NoSite when there is none or a failure has followed
  outcome     \* what run_body made of the last body

threads == <<role, running, ended_with, captured>>
locals == <<last_throw_address, concurrent_exception_origin>>
history == <<via, handled>>
vars == <<pc, case, throws, threads, flight, locals, history, outcome>>

Threads == {Main} \cup Helpers

MaybeSite == Sites \cup {NoSite}

Outcome(status, origin) == [status |-> status, origin |-> origin]

TypeOK ==
  /\ pc \in {"next", "body", "concurrent"}
  /\ case \in 0..MaxCases
  /\ throws \in 0..MaxThrows
  /\ role \in [Helpers -> {"none", "spawned", "worker"}]
  /\ running \in SUBSET {h \in Helpers : role[h] # "none"}
  /\ flight \in [Threads -> MaybeSite]
  /\ \A h \in Helpers \ running : flight[h] = NoSite
  /\ ended_with \in [Helpers -> MaybeSite]
  /\ captured \in [Helpers -> MaybeSite]
  /\ last_throw_address \in [Threads -> MaybeSite]
  /\ concurrent_exception_origin \in MaybeSite
  /\ via \in {"throw", "join", "run_concurrent"}
  /\ handled \in MaybeSite
  /\ outcome \in [status : {"VALID", "INVALID", "INTERESTING"}, origin : MaybeSite]

Init ==
  /\ pc = "next"
  /\ case = 0
  /\ throws = 0
  /\ role = [h \in Helpers |-> "none"]
  /\ running = {}
  /\ flight = [t \in Threads |-> NoSite]
  /\ ended_with = [h \in Helpers |-> NoSite]
  /\ captured = [h \in Helpers |-> NoSite]
  /\ last_throw_address = [t \in Threads |-> NoSite]
  /\ concurrent_exception_origin = NoSite
  /\ via = "throw"
  /\ handled = NoSite
  /\ outcome = Outcome("VALID", NoSite)

\* origin_of, on thread t
OriginOf(t, e) == IF e \in Named THEN e ELSE last_throw_address[t]

-----------------------------------------------------------------------------
(* The test body *)

BeginCase ==
  /\ pc = "next"
  /\ case < MaxCases
  /\ pc' = "body"
  /\ case' = case + 1
  /\ throws' = 0
  /\ UNCHANGED <<threads, flight, locals, history, outcome>>

\* User code runs on t.
Active(t) ==
  /\ flight[t] = NoSite
  /\ IF t = Main THEN pc = "body" ELSE t \in running

\* throw: __cxa_throw notes the site.
Throw(t) ==
  /\ Active(t)
  /\ throws < MaxThrows
  /\ throws' = throws + 1
  /\ \E s \in Sites :
       /\ flight' = [flight EXCEPT ![t] = s]
       /\ last_throw_address' = [last_throw_address EXCEPT ![t] = s]
  /\ via' = IF t = Main THEN "throw" ELSE via
  /\ UNCHANGED <<pc, case, threads, concurrent_exception_origin, handled,
                 outcome>>

\* User code, or a loop of the library, handles the exception.
Handle(t) ==
  /\ flight[t] # NoSite
  /\ flight' = [flight EXCEPT ![t] = NoSite]
  /\ handled' = IF t = Main /\ via = "run_concurrent" /\ flight[t] \notin Control
                THEN flight[t] ELSE handled
  /\ UNCHANGED <<pc, case, throws, threads, locals, via, outcome>>

\* A new thread has thrown nothing.
Start(h, r) ==
  /\ Active(Main)
  /\ role[h] = "none"
  /\ role' = [role EXCEPT ![h] = r]
  /\ running' = running \cup {h}
  /\ last_throw_address' = [last_throw_address EXCEPT ![h] = NoSite]

\* TestCase::spawn
Spawn(h) ==
  /\ Start(h, "spawned")
  /\ UNCHANGED <<pc, case, throws, flight, ended_with, captured,
                 concurrent_exception_origin, history, outcome>>

\* run_concurrent, of one worker; the main thread waits for it.
RunConcurrent(h) ==
  /\ Start(h, "worker")
  /\ pc' = "concurrent"
  /\ UNCHANGED <<case, throws, flight, ended_with, captured,
                 concurrent_exception_origin, history, outcome>>

\* Mutant of HelperEnds: the exception is still in flight.
HelperEndsInFlight(h) ==
  /\ h \in running
  /\ running' = running \ {h}
  /\ ended_with' = [ended_with EXCEPT ![h] = flight[h]]
  /\ UNCHANGED <<pc, case, throws, role, flight, captured, locals, history,
                 outcome>>

\* The packaged task keeps the exception, and so does capture_current_exception,
\* with its origin.
HelperEnds(h) ==
  /\ h \in running
  /\ running' = running \ {h}
  /\ flight' = [flight EXCEPT ![h] = NoSite]
  /\ ended_with' = [ended_with EXCEPT ![h] = flight[h]]
  /\ captured' = [captured EXCEPT ![h] =
                    IF role[h] = "worker" /\ flight[h] # NoSite
                    THEN OriginOf(h, flight[h]) ELSE NoSite]
  /\ UNCHANGED <<pc, case, throws, role, locals, history, outcome>>

\* Worker::join raises the exception again on the main thread.
Join(h) ==
  /\ Active(Main)
  /\ role[h] = "spawned" /\ h \notin running
  /\ role' = [role EXCEPT ![h] = "none"]
  /\ flight' = [flight EXCEPT ![Main] = ended_with[h]]
  /\ via' = IF ended_with[h] = NoSite THEN via ELSE "join"
  /\ UNCHANGED <<pc, case, throws, running, ended_with, captured, locals,
                 handled, outcome>>

\* A Worker is destroyed: its destructor joins, and what it threw is dropped.
Drop(h) ==
  /\ pc = "body"
  /\ role[h] = "spawned" /\ h \notin running
  /\ role' = [role EXCEPT ![h] = "none"]
  /\ UNCHANGED <<pc, case, throws, running, ended_with, captured, flight,
                 locals, history, outcome>>

\* Mutant of ConcurrentOver: the origin stays on the worker's thread.
ConcurrentOverPlain(h) ==
  /\ pc = "concurrent"
  /\ role[h] = "worker" /\ h \notin running
  /\ pc' = "body"
  /\ role' = [role EXCEPT ![h] = "none"]
  /\ flight' = [flight EXCEPT ![Main] = ended_with[h]]
  /\ via' = IF ended_with[h] = NoSite THEN via ELSE "run_concurrent"
  /\ UNCHANGED <<case, throws, running, ended_with, captured, locals, handled,
                 outcome>>

\* The worker's event decides.  A control-flow exception is thrown anew; any
\* other is raised again by CapturedException::rethrow, with its origin.
ConcurrentOver(h) ==
  /\ pc = "concurrent"
  /\ role[h] = "worker" /\ h \notin running
  /\ pc' = "body"
  /\ role' = [role EXCEPT ![h] = "none"]
  /\ flight' = [flight EXCEPT ![Main] = ended_with[h]]
  /\ via' = IF ended_with[h] = NoSite THEN via ELSE "run_concurrent"
  /\ last_throw_address' = IF ended_with[h] \in Control
                           THEN [last_throw_address EXCEPT ![Main] = ended_with[h]]
                           ELSE last_throw_address
  /\ concurrent_exception_origin' =
       IF ended_with[h] \in Control \cup {NoSite}
       THEN concurrent_exception_origin ELSE captured[h]
  /\ UNCHANGED <<case, throws, running, ended_with, captured, handled, outcome>>

-----------------------------------------------------------------------------
(* run_body *)

AllJoined == \A h \in Helpers : role[h] = "none"

\* Mutant of Fails: the origin that was carried over is not reset.
FailsKeepsOrigin ==
  /\ pc = "body" /\ AllJoined
  /\ flight[Main] \notin Control \cup {NoSite}
  /\ outcome' = Outcome("INTERESTING",
                        IF concurrent_exception_origin # NoSite
                        THEN concurrent_exception_origin
                        ELSE OriginOf(Main, flight[Main]))
  /\ pc' = "next"
  /\ flight' = [flight EXCEPT ![Main] = NoSite]
  /\ handled' = NoSite
  /\ UNCHANGED <<case, throws, threads, locals, via>>

\* The origin carried over, if there is one, is moved out.
Fails ==
  /\ pc = "body" /\ AllJoined
  /\ flight[Main] \notin Control \cup {NoSite}
  /\ outcome' = Outcome("INTERESTING",
                        IF concurrent_exception_origin # NoSite
                        THEN concurrent_exception_origin
                        ELSE OriginOf(Main, flight[Main]))
  /\ concurrent_exception_origin' = NoSite
  /\ pc' = "next"
  /\ flight' = [flight EXCEPT ![Main] = NoSite]
  /\ handled' = NoSite
  /\ UNCHANGED <<case, throws, threads, last_throw_address, via>>

EndsOtherwise ==
  /\ pc = "body" /\ AllJoined
  /\ flight[Main] \in Control \cup {NoSite}
  /\ outcome' = Outcome(IF flight[Main] = NoSite THEN "VALID" ELSE "INVALID", NoSite)
  /\ pc' = "next"
  /\ flight' = [flight EXCEPT ![Main] = NoSite]
  /\ UNCHANGED <<case, throws, threads, locals, history>>

Next ==
  \/ BeginCase \/ Fails \/ EndsOtherwise
  \/ \E t \in Threads : Throw(t) \/ Handle(t)
  \/ \E h \in Helpers :
       \/ Spawn(h) \/ RunConcurrent(h) \/ HelperEnds(h)
       \/ Join(h) \/ Drop(h) \/ ConcurrentOver(h)

Spec == Init /\ [][Next]_vars

-----------------------------------------------------------------------------
(* Properties.  An exception is its throw site, and for one that names its   *)
(* own origin the two are the same.                                          *)

\* The main thread's body ends in a failure.
Failing == pc = "body" /\ flight[Main] # NoSite /\ outcome'.status = "INTERESTING"

\* A failure of a concurrent machine is grouped by the site its worker threw it
\* from, whatever either thread threw before.
WorkerOriginSurvives ==
  [][pc' = "next" /\ Failing /\ via = "run_concurrent" =>
       outcome'.origin = flight[Main]]_vars

\* So is a failure of the main thread's own, whatever was thrown, joined or raised
\* before, with one exception: the origin that was carried over for a failure of a
\* concurrent machine outlives the handler that takes that failure, and names the
\* next one in its place (against include/hegel/hegel.h:367).
OwnOriginUnlessHandled ==
  [][pc' = "next" /\ Failing /\ via = "throw" =>
       outcome'.origin = IF handled = NoSite THEN flight[Main] ELSE handled]_vars

\* include/hegel/hegel.h:367: the origin of a thrown exception is its type and
\* the site it was thrown from.
OriginIsThrowSite ==
  [][pc' = "next" /\ Failing => outcome'.origin = flight[Main]]_vars
=============================================================================
