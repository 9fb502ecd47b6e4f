--------------------------- MODULE Origins_proofs ---------------------------
(***************************************************************************)
(* The origins of Origins, for any sites and any number of helper threads, *)
(* cases and throws.                                                       *)
(*                                                                         *)
(* run_body sees an exception and three thread-local slots, so what it     *)
(* concludes is right only if the slots agree with the exception at that   *)
(* moment.  The invariant says when they do: the throw site of a running   *)
(* helper is that of the exception in flight on it; what run_concurrent    *)
(* captured is the exception its worker ended with; and the origin carried *)
(* over is that of the exception run_concurrent raised while this is in    *)
(* flight on the main thread, and then that of the one the body handled.   *)
(***************************************************************************)
EXTENDS Origins, TLAPS

\* The exceptions run_body reports as failures.
Failure(e) == e \notin Control \cup {NoSite}

\* The latest throw of a running helper is the exception in flight on it.
HelperSite ==
  \A h \in running : flight[h] # NoSite => last_throw_address[h] = flight[h]

\* What was captured from a worker is the exception it ended with.
CapturedSite ==
  \A h \in Helpers \ running :
    role[h] = "worker" /\ ended_with[h] # NoSite => captured[h] = ended_with[h]

\* Nothing is in flight on the main thread unless its body runs.
MainIdle == pc # "body" => flight[Main] = NoSite

\* A failure raised by run_concurrent has its origin carried over.
CarriedOver ==
  via = "run_concurrent" /\ Failure(flight[Main]) =>
    concurrent_exception_origin = flight[Main]

\* Otherwise the origin that is carried over is the one of the failure that the
\* body handled last, or none.
LeftOver ==
  ~(via = "run_concurrent" /\ Failure(flight[Main])) =>
    concurrent_exception_origin = handled

\* An exception the main thread threw is its latest throw.
OwnSite ==
  via = "throw" /\ flight[Main] # NoSite => last_throw_address[Main] = flight[Main]

IInv ==
  TypeOK /\ HelperSite /\ CapturedSite /\ MainIdle /\ CarriedOver
  /\ LeftOver /\ OwnSite

USE SitesAssumption, ThreadsAssumption
    DEF SitesAssumption, ThreadsAssumption, Threads, MaybeSite

-----------------------------------------------------------------------------
(* Type correctness *)

\* The bounds, each by itself.
LEMMA Bounds == MaxCases \in Nat /\ MaxThrows \in Nat
  BY BoundsAssumption DEF BoundsAssumption

\* The initial state is typed.
LEMMA InitTyped == Init => TypeOK
<1> SUFFICES ASSUME Init PROVE TypeOK
  OBVIOUS
<1>1. outcome \in [status : {"VALID", "INVALID", "INTERESTING"}, origin : MaybeSite]
  BY DEF Init, Outcome
<1>2. 0 \in 0..MaxCases /\ 0 \in 0..MaxThrows
  BY Bounds
<1> QED
  BY <1>1, <1>2 DEF Init, TypeOK

\* So is every state that follows a typed one.
LEMMA NextTyped == TypeOK /\ [Next]_vars => TypeOK'
<1> SUFFICES ASSUME TypeOK, [Next]_vars PROVE TypeOK'
  OBVIOUS
<1> USE DEF TypeOK, threads, locals, history
<1>1. CASE BeginCase
  BY <1>1, Bounds DEF BeginCase
<1>2. CASE Fails
  BY <1>2 DEF Fails, Outcome, OriginOf
<1>3. CASE EndsOtherwise
  BY <1>3 DEF EndsOtherwise, Outcome
<1>4. ASSUME NEW t \in Threads, Throw(t) PROVE TypeOK'
  BY <1>4, Bounds DEF Throw, Active
<1>5. ASSUME NEW t \in Threads, Handle(t) PROVE TypeOK'
  BY <1>5 DEF Handle
<1>6. ASSUME NEW h \in Helpers, Spawn(h) PROVE TypeOK'
  BY <1>6 DEF Spawn, Start
<1>7. ASSUME NEW h \in Helpers, RunConcurrent(h) PROVE TypeOK'
  BY <1>7 DEF RunConcurrent, Start
<1>8. ASSUME NEW h \in Helpers, HelperEnds(h) PROVE TypeOK'
  BY <1>8 DEF HelperEnds, OriginOf
<1>9. ASSUME NEW h \in Helpers, Join(h) PROVE TypeOK'
  BY <1>9 DEF Join, Active
<1>10. ASSUME NEW h \in Helpers, Drop(h) PROVE TypeOK'
  BY <1>10 DEF Drop
<1>11. ASSUME NEW h \in Helpers, ConcurrentOver(h) PROVE TypeOK'
  BY <1>11 DEF ConcurrentOver
<1>12. CASE UNCHANGED vars
  BY <1>12 DEF vars
<1> QED
  BY <1>1, <1>2, <1>3, <1>4, <1>5, <1>6, <1>7, <1>8, <1>9, <1>10, <1>11, <1>12
     DEF Next

-----------------------------------------------------------------------------
(* The invariant *)

\* The slots agree with the exceptions before the first case.
LEMMA InitInv == Init => IInv
<1> SUFFICES ASSUME Init PROVE IInv
  OBVIOUS
<1>1. TypeOK
  BY InitTyped
<1> QED
  BY <1>1 DEF Init, IInv, HelperSite, CapturedSite, MainIdle, CarriedOver,
     LeftOver, OwnSite, Failure

\* Every action keeps them in agreement.
LEMMA NextInv == IInv /\ [Next]_vars => IInv'
<1> SUFFICES ASSUME IInv, [Next]_vars PROVE IInv'
  OBVIOUS
<1>0. TypeOK /\ TypeOK'
  BY NextTyped DEF IInv
<1> USE DEF threads, locals, history, HelperSite, CapturedSite, MainIdle,
            CarriedOver, LeftOver, OwnSite, Failure
<1> DEFINE Rest == HelperSite /\ CapturedSite /\ MainIdle /\ CarriedOver
                   /\ LeftOver /\ OwnSite
<1>a. Rest
  BY DEF IInv
<1>1. CASE BeginCase
  BY <1>1, <1>0, <1>a DEF BeginCase, IInv
<1>2. CASE Fails
  BY <1>2, <1>0, <1>a DEF Fails, TypeOK, IInv
<1>3. CASE EndsOtherwise
  BY <1>3, <1>0, <1>a DEF EndsOtherwise, TypeOK, IInv
<1>4. ASSUME NEW t \in Threads, Throw(t) PROVE IInv'
  BY <1>4, <1>0, <1>a DEF Throw, Active, TypeOK, IInv
<1>5. ASSUME NEW t \in Threads, Handle(t) PROVE IInv'
  BY <1>5, <1>0, <1>a DEF Handle, TypeOK, IInv
<1>6. ASSUME NEW h \in Helpers, Spawn(h) PROVE IInv'
  BY <1>6, <1>0, <1>a DEF Spawn, Start, Active, TypeOK, IInv
<1>7. ASSUME NEW h \in Helpers, RunConcurrent(h) PROVE IInv'
  BY <1>7, <1>0, <1>a DEF RunConcurrent, Start, Active, TypeOK, IInv
<1>8. ASSUME NEW h \in Helpers, HelperEnds(h) PROVE IInv'
  BY <1>8, <1>0, <1>a DEF HelperEnds, OriginOf, TypeOK, IInv
<1>9. ASSUME NEW h \in Helpers, Join(h) PROVE IInv'
  BY <1>9, <1>0, <1>a DEF Join, Active, TypeOK, IInv
<1>10. ASSUME NEW h \in Helpers, Drop(h) PROVE IInv'
  BY <1>10, <1>0, <1>a DEF Drop, TypeOK, IInv
<1>11. ASSUME NEW h \in Helpers, ConcurrentOver(h) PROVE IInv'
  BY <1>11, <1>0, <1>a DEF ConcurrentOver, TypeOK, IInv
<1>12. CASE UNCHANGED vars
  BY <1>12, <1>0, <1>a DEF vars, IInv
<1> QED
  BY <1>1, <1>2, <1>3, <1>4, <1>5, <1>6, <1>7, <1>8, <1>9, <1>10, <1>11, <1>12
     DEF Next

\* The invariant holds of every state of every run of Origins.
THEOREM OriginsInductive == Spec => []IInv
  BY InitInv, NextInv, PTL DEF Spec

\* Every variable of Origins keeps its type.
THEOREM OriginsTyped == Spec => []TypeOK
<1>1. IInv => TypeOK
  BY DEF IInv
<1> QED
  BY <1>1, OriginsInductive, PTL

-----------------------------------------------------------------------------
(* The properties *)

\* Only a failure that run_body reports ends a body as INTERESTING.
LEMMA FailingFails ==
  ASSUME TypeOK, Next, pc' = "next", Failing
  PROVE  Fails
<1>1. Fails \/ EndsOtherwise
  BY Zenon DEF Next, Failing, BeginCase, Throw, Handle, Spawn, Start, RunConcurrent,
         HelperEnds, Join, Drop, ConcurrentOver
<1>2. ~EndsOtherwise
  BY DEF EndsOtherwise, Failing, Outcome
<1> QED
  BY <1>1, <1>2

\* A failure of a concurrent machine keeps the site its worker threw it from,
\* whatever was thrown before on either thread (run_concurrent, run_body).
THEOREM WorkerOrigins == Spec => WorkerOriginSurvives
<1>1. ASSUME IInv, [Next]_vars
      PROVE  [pc' = "next" /\ Failing /\ via = "run_concurrent" =>
                outcome'.origin = flight[Main]]_vars
  <2> SUFFICES ASSUME Next, pc' = "next", Failing, via = "run_concurrent"
               PROVE  outcome'.origin = flight[Main]
    BY <1>1
  <2>1. Fails
    BY <1>1, FailingFails DEF IInv
  <2>2. Failure(flight[Main])
    BY <2>1 DEF Fails, Failure
  <2>3. concurrent_exception_origin = flight[Main]
    BY <1>1, <2>2 DEF IInv, CarriedOver
  <2> QED
    BY <2>1, <2>2, <2>3 DEF Fails, Outcome, Failure
<1> QED
  BY <1>1, OriginsInductive, PTL DEF Spec, WorkerOriginSurvives

\* A failure the main thread threw is named by its own site, or, when the body
\* handled a failure of a concurrent machine and none has been reported since, by
\* the origin of that one (CapturedException::rethrow, origin_of, run_body).
THEOREM OwnOrigins == Spec => OwnOriginUnlessHandled
<1>1. ASSUME IInv, [Next]_vars
      PROVE  [pc' = "next" /\ Failing /\ via = "throw" =>
                outcome'.origin = IF handled = NoSite THEN flight[Main] ELSE handled]_vars
  <2> SUFFICES ASSUME Next, pc' = "next", Failing, via = "throw"
               PROVE  outcome'.origin = IF handled = NoSite THEN flight[Main] ELSE handled
    BY <1>1
  <2>1. Fails
    BY <1>1, FailingFails DEF IInv
  <2>2. concurrent_exception_origin = handled
    BY <1>1 DEF IInv, LeftOver
  <2>3. last_throw_address[Main] = flight[Main]
    BY <1>1, <2>1 DEF IInv, OwnSite, Fails
  <2> QED
    BY <2>1, <2>2, <2>3 DEF Fails, Outcome, OriginOf
<1> QED
  BY <1>1, OriginsInductive, PTL DEF Spec, OwnOriginUnlessHandled
=============================================================================
