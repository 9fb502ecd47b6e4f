--------------------------- MODULE ConcurrentPool ---------------------------
(***************************************************************************)
(* ConcurrentPool of include/hegel/generators/stateful.h: a pool of        *)
(* variables kept twice.  libhegel's pool holds the identifiers and draws  *)
(* one of them; the client's map holds the value of each identifier.  A    *)
(* mutex makes the two updates of an operation one.                        *)
(*                                                                         *)
(* The values are of the user's type: moving or copying one may throw, and *)
(* the exception leaves the operation between the two updates.  libhegel's *)
(* pool is external.  With one worker this is Pool, which needs no lock.   *)
(***************************************************************************)
EXTENDS Naturals, FiniteSets

CONSTANTS Workers, Values, Nothing, Nobody,
          MaxCalls,  \* bound on the calls of each worker
          MaxIds     \* bound on the variables libhegel hands out

ASSUME NobodyAssumption == Nobody \notin Workers
ASSUME MaxCallsAssumption == MaxCalls \in Nat
ASSUME MaxIdsAssumption == MaxIds \in Nat

VARIABLES
  pc,        \* where each worker is in its call
  calls,     \* how many calls it has made
  request,   \* what it asks for ...
  value,     \* ... and the value it adds
  variable,  \* the identifier libhegel answered
  holder,    \* who holds mutex_
  values,    \* values_
  available, \* libhegel: the variables of its pool
  next_id,   \* libhegel: the next fresh identifier
  got,       \* the variable a worker's latest successful draw returned
  counted,   \* what size() returned to it last
  spoiled    \* a move or a copy of a value has thrown

call == <<calls, request, value>>
engine == <<available, next_id>>
results == <<got, counted>>
vars == <<pc, call, variable, holder, values, engine, results, spoiled>>

Requests == {"add", "reuse", "consume", "size"}

Ids == 1 .. MaxIds

TypeOK ==
  /\ pc \in [Workers -> {"idle", "lock", "engine", "client", "unlock"}]
  /\ calls \in [Workers -> 0..MaxCalls]
  /\ request \in [Workers -> Requests]
  /\ value \in [Workers -> Values]
  /\ variable \in [Workers -> {0} \cup Ids]
  /\ holder \in Workers \cup {Nobody}
  /\ \A w \in Workers : holder = w <=> pc[w] \in {"engine", "client", "unlock"}
  /\ DOMAIN values \subseteq Ids /\ \A i \in DOMAIN values : values[i] \in Values
  /\ available \subseteq Ids
  /\ next_id \in 1 .. MaxIds + 1
  /\ got \in [Workers -> (Ids \X Values) \cup {Nothing}]
  /\ counted \in [Workers -> 0..Cardinality(Ids)]
  /\ spoiled \in BOOLEAN

Init ==
  /\ pc = [w \in Workers |-> "idle"]
  /\ calls = [w \in Workers |-> 0]
  /\ request = [w \in Workers |-> "size"]
  /\ value \in {[w \in Workers |-> v] : v \in Values}
  /\ variable = [w \in Workers |-> 0]
  /\ holder = Nobody
  /\ values = <<>>
  /\ available = {}
  /\ next_id = 1
  /\ got = [w \in Workers |-> Nothing]
  /\ counted = [w \in Workers |-> 0]
  /\ spoiled = FALSE

Goto(w, p) == pc' = [pc EXCEPT ![w] = p]

-----------------------------------------------------------------------------
\* A rule calls add(), draws values_reusable() or values_consumed(), or calls
\* size() or empty().
Call(w) ==
  /\ pc[w] = "idle"
  /\ calls[w] < MaxCalls
  /\ calls' = [calls EXCEPT ![w] = @ + 1]
  /\ \E r \in Requests, v \in Values :
       /\ r # "add" => v = value[w]
       /\ request' = [request EXCEPT ![w] = r]
       /\ value' = [value EXCEPT ![w] = v]
  /\ Goto(w, "lock")
  /\ UNCHANGED <<variable, holder, values, engine, results, spoiled>>

\* Mutant of Lock: the operation is not guarded.
LockLate(w) ==
  /\ pc[w] = "lock"
  /\ holder' = holder
  /\ Goto(w, IF request[w] = "size" THEN "client" ELSE "engine")
  /\ UNCHANGED <<call, variable, values, engine, results, spoiled>>

Lock(w) ==
  /\ pc[w] = "lock"
  /\ holder = Nobody
  /\ holder' = w
  /\ Goto(w, IF request[w] = "size" THEN "client" ELSE "engine")
  /\ UNCHANGED <<call, variable, values, engine, results, spoiled>>

\* PoolHandle::add: a fresh variable, or the engine is out of choices.
EngineAdd(w) ==
  /\ pc[w] = "engine"
  /\ request[w] = "add"
  /\ \/ /\ next_id <= MaxIds
        /\ variable' = [variable EXCEPT ![w] = next_id]
        /\ next_id' = next_id + 1
        /\ available' = available \cup {next_id}
        /\ Goto(w, "client")
     \/ Goto(w, "unlock") /\ UNCHANGED <<variable, engine>>
  /\ UNCHANGED <<call, holder, values, results, spoiled>>

\* PoolHandle::draw_variable: a variable of the pool, which it leaves when it is
\* consumed; HegelReject when there is none; or the engine is out of choices.
EngineDraw(w) ==
  /\ pc[w] = "engine"
  /\ request[w] \in {"reuse", "consume"}
  /\ \/ \E i \in available :
          /\ variable' = [variable EXCEPT ![w] = i]
          /\ available' = IF request[w] = "consume" THEN available \ {i}
                          ELSE available
          /\ Goto(w, "client")
     \/ Goto(w, "unlock") /\ UNCHANGED <<variable, available>>
  /\ UNCHANGED <<call, holder, values, next_id, results, spoiled>>

\* values_.emplace; the value's move may throw.
Emplace(w) ==
  /\ pc[w] = "client"
  /\ request[w] = "add"
  /\ \/ /\ values' = [i \in DOMAIN values \cup {variable[w]} |->
                        IF i = variable[w] THEN value[w] ELSE values[i]]
        /\ UNCHANGED spoiled
     \/ spoiled' = TRUE /\ UNCHANGED values
  /\ Goto(w, "unlock")
  /\ UNCHANGED <<call, variable, holder, engine, results>>

\* Mutant of Take: a consumed value stays in the map.
TakeKeeps(w) ==
  /\ pc[w] = "client"
  /\ request[w] \in {"reuse", "consume"}
  /\ variable[w] \in DOMAIN values
  /\ got' = [got EXCEPT ![w] = <<variable[w], values[variable[w]]>>]
  /\ Goto(w, "unlock")
  /\ UNCHANGED <<call, variable, holder, values, engine, counted, spoiled>>

\* values_.at: the value is copied, or moved out and erased.  It throws for a
\* variable whose value never reached the map; so may the copy or the move, and
\* then nothing is erased.
Take(w) ==
  /\ pc[w] = "client"
  /\ request[w] \in {"reuse", "consume"}
  /\ \/ /\ variable[w] \in DOMAIN values
        /\ got' = [got EXCEPT ![w] = <<variable[w], values[variable[w]]>>]
        /\ values' = IF request[w] = "reuse" THEN values
                     ELSE [i \in DOMAIN values \ {variable[w]} |-> values[i]]
        /\ UNCHANGED spoiled
     \/ /\ variable[w] \in DOMAIN values
        /\ spoiled' = TRUE
        /\ UNCHANGED <<values, got>>
     \/ /\ variable[w] \notin DOMAIN values
        /\ UNCHANGED <<values, got, spoiled>>
  /\ Goto(w, "unlock")
  /\ UNCHANGED <<call, variable, holder, engine, counted>>

\* size(); empty() tells whether it is 0.
Size(w) ==
  /\ pc[w] = "client"
  /\ request[w] = "size"
  /\ counted' = [counted EXCEPT ![w] = Cardinality(DOMAIN values)]
  /\ Goto(w, "unlock")
  /\ UNCHANGED <<call, variable, holder, values, engine, got, spoiled>>

\* Mutant of Unlock: the lock is not released.
UnlockForgets(w) ==
  /\ pc[w] = "unlock"
  /\ holder' = IF variable[w] = 0 THEN holder ELSE Nobody
  /\ Goto(w, "idle")
  /\ UNCHANGED <<call, variable, values, engine, results, spoiled>>

\* The guard releases the mutex however the operation ends.
Unlock(w) ==
  /\ pc[w] = "unlock"
  /\ holder' = Nobody
  /\ Goto(w, "idle")
  /\ UNCHANGED <<call, variable, values, engine, results, spoiled>>

WorkerNext(w) ==
  \/ Call(w) \/ Lock(w) \/ EngineAdd(w) \/ EngineDraw(w)
  \/ Emplace(w) \/ Take(w) \/ Size(w) \/ Unlock(w)

Next == \E w \in Workers : WorkerNext(w)

Spec == Init /\ [][Next]_vars

\* A worker goes on as long as it can; with boundedly many calls no fairness is
\* asked of the mutex.
FairSpec == Spec /\ \A w \in Workers : WF_vars(WorkerNext(w))

-----------------------------------------------------------------------------
\* Between operations, the engine can draw exactly the variables the client
\* keeps a value for, unless a move or a copy of a value has thrown: a draw
\* never meets a variable without its value, and size() never counts one that
\* cannot be drawn.
PoolsAgree == holder = Nobody /\ ~spoiled => available = DOMAIN values

\* Every operation releases the mutex, whatever it throws, and ends.
CallsReturn == \A w \in Workers : pc[w] # "idle" ~> pc[w] = "idle"

-----------------------------------------------------------------------------
(* The refinement: an operation takes effect in its step on the client's map. *)

Adding == {w \in Workers : pc[w] = "client" /\ request[w] = "add"}
Consuming == {w \in Workers : pc[w] = "client" /\ request[w] = "consume"}

Drawable == DOMAIN values \cap (available \cup {variable[w] : w \in Consuming})

PoolOf == INSTANCE Pool WITH
  contents <- [i \in Drawable |-> values[i]],
  used     <- (1 .. next_id - 1) \ {variable[w] : w \in Adding},
  lost     <- Cardinality(DOMAIN values) - Cardinality(Drawable)

\* include/hegel/generators/stateful.h:495: selecting a value and updating the
\* pool is one atomic operation, and no value is consumed twice.
ImplementsPool == PoolOf!Spec
=============================================================================
