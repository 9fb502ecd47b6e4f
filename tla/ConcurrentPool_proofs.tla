------------------------ MODULE ConcurrentPool_proofs ------------------------
(***************************************************************************)
(* Proofs about ConcurrentPool, for any set of workers, any values, and    *)
(* any bounds on the calls and on the variables.                           *)
(***************************************************************************)
EXTENDS ConcurrentPool, FiniteSetTheorems, TLAPS

\* libhegel's variables and the client's were handed out before, and so was the
\* one an operation is about.
IdsInv ==
  /\ available \subseteq 1 .. next_id - 1
  /\ DOMAIN values \subseteq 1 .. next_id - 1
  /\ \A w \in Workers : pc[w] = "client" /\ request[w] # "size" =>
                          variable[w] \in 1 .. next_id - 1

\* Between the two updates of an operation, the variable it is about is in one
\* of the pools and not in the other.
MidwayInv ==
  \A w \in Workers :
    /\ pc[w] = "engine" => request[w] # "size"
    /\ pc[w] = "client" =>
         /\ request[w] = "add" => variable[w] \in available \ DOMAIN values
         /\ request[w] = "reuse" => variable[w] \in available
         /\ request[w] = "consume" => variable[w] \notin available

\* Where the operation of the holder leaves the two pools while no value has
\* been lost.
AgreeInv ==
  ~spoiled =>
    /\ holder = Nobody => available = DOMAIN values
    /\ \A w \in Workers :
         /\ pc[w] \in {"engine", "unlock"} => available = DOMAIN values
         /\ pc[w] = "client" =>
              /\ request[w] \in {"size", "reuse"} => available = DOMAIN values
              /\ request[w] = "add" => available = DOMAIN values \cup {variable[w]}
              /\ request[w] = "consume" =>
                   /\ available = DOMAIN values \ {variable[w]}
                   /\ variable[w] \in DOMAIN values

IInv == TypeOK /\ IdsInv /\ MidwayInv /\ AgreeInv
-----------------------------------------------------------------------------
USE NobodyAssumption, MaxCallsAssumption, MaxIdsAssumption
    DEF NobodyAssumption, MaxCallsAssumption, MaxIdsAssumption

LEMMA Counted ==
  ASSUME NEW S \in SUBSET Ids
  PROVE  IsFiniteSet(S) /\ Cardinality(S) \in 0 .. Cardinality(Ids)
<1>1. IsFiniteSet(Ids)
  BY FS_Interval DEF Ids
<1>2. QED BY <1>1, FS_Subset, FS_CardinalityType

\* The identifier handed out is one of Ids, and so are those before it.
LEMMA FreshId ==
  /\ 1 \in 1 .. MaxIds + 1
  /\ \A n \in 1 .. MaxIds + 1 :
       /\ n <= MaxIds => n \in Ids /\ n + 1 \in 1 .. MaxIds + 1
       /\ 1 .. n - 1 \subseteq Ids
BY DEF Ids

LEMMA InitInv == Init => IInv
<1> SUFFICES ASSUME Init PROVE IInv
  OBVIOUS
<1>1. TypeOK
  <2>1. DOMAIN values = {}
    BY DEF Init
  <2>2. 0 \in 0 .. Cardinality(Ids)
    BY Counted
  <2>3. value \in [Workers -> Values]
    BY DEF Init
  <2>4. /\ pc \in [Workers -> {"idle", "lock", "engine", "client", "unlock"}]
        /\ calls \in [Workers -> 0..MaxCalls]
        /\ request \in [Workers -> Requests]
        /\ variable \in [Workers -> {0} \cup Ids]
        /\ \A w \in Workers : holder # w /\ pc[w] = "idle"
    BY DEF Init, Requests
  <2>5. /\ got \in [Workers -> (Ids \X Values) \cup {Nothing}]
        /\ counted \in [Workers -> 0..Cardinality(Ids)]
        /\ next_id \in 1 .. MaxIds + 1
        /\ available \subseteq Ids
    BY <2>2, FreshId DEF Init
  <2>6. QED BY <2>1, <2>3, <2>4, <2>5 DEF Init, TypeOK
<1>2. IdsInv /\ MidwayInv /\ AgreeInv
  BY DEF Init, IdsInv, MidwayInv, AgreeInv
<1>3. QED BY <1>1, <1>2 DEF IInv

\* At most one worker is in an operation.
LEMMA Alone ==
  ASSUME TypeOK, NEW w \in Workers, NEW v \in Workers,
         pc[w] \in {"engine", "client", "unlock"},
         pc[v] \in {"engine", "client", "unlock"}
  PROVE  v = w
BY DEF TypeOK

LEMMA TypeStep == IInv /\ [Next]_vars => TypeOK'
<1> SUFFICES ASSUME IInv, [Next]_vars PROVE TypeOK'
  OBVIOUS
<1> USE DEF IInv, call, engine, results
<1>1. CASE UNCHANGED vars
  BY <1>1 DEF vars, TypeOK
<1>2. ASSUME NEW w \in Workers, Call(w) PROVE TypeOK'
  BY <1>2 DEF Call, Goto, TypeOK
<1>3. ASSUME NEW w \in Workers, Lock(w) PROVE TypeOK'
  BY <1>3 DEF Lock, Goto, TypeOK
<1>4. ASSUME NEW w \in Workers, EngineAdd(w) PROVE TypeOK'
  BY <1>4, FreshId DEF EngineAdd, Goto, TypeOK
<1>5. ASSUME NEW w \in Workers, EngineDraw(w) PROVE TypeOK'
  BY <1>5 DEF EngineDraw, Goto, TypeOK
<1>6. ASSUME NEW w \in Workers, Emplace(w) PROVE TypeOK'
  <2>1. DOMAIN values' \subseteq Ids /\ \A i \in DOMAIN values' : values'[i] \in Values
    <3>1. variable[w] \in Ids
      BY <1>6, FreshId DEF Emplace, TypeOK, IdsInv
    <3>2. value[w] \in Values
      BY DEF TypeOK
    <3>3. QED BY <1>6, <3>1, <3>2 DEF Emplace, TypeOK
  <2>2. QED BY <1>6, <2>1 DEF Emplace, Goto, TypeOK
<1>7. ASSUME NEW w \in Workers, Take(w) PROVE TypeOK'
  <2>1. DOMAIN values' \subseteq Ids /\ \A i \in DOMAIN values' : values'[i] \in Values
    BY <1>7 DEF Take, TypeOK
  <2>2. got' \in [Workers -> (Ids \X Values) \cup {Nothing}]
    BY <1>7 DEF Take, TypeOK
  <2>3. QED BY <1>7, <2>1, <2>2 DEF Take, Goto, TypeOK
<1>8. ASSUME NEW w \in Workers, Size(w) PROVE TypeOK'
  <2>1. Cardinality(DOMAIN values) \in 0 .. Cardinality(Ids)
    BY Counted DEF TypeOK
  <2>2. QED BY <1>8, <2>1 DEF Size, Goto, TypeOK
<1>9. ASSUME NEW w \in Workers, Unlock(w) PROVE TypeOK'
  BY <1>9 DEF Unlock, Goto, TypeOK
<1>10. QED
  BY <1>1, <1>2, <1>3, <1>4, <1>5, <1>6, <1>7, <1>8, <1>9 DEF Next, WorkerNext

LEMMA PoolStep == IInv /\ [Next]_vars => (IdsInv /\ MidwayInv /\ AgreeInv)'
<1> SUFFICES ASSUME IInv, [Next]_vars PROVE (IdsInv /\ MidwayInv /\ AgreeInv)'
  OBVIOUS
<1> USE DEF IInv, call, engine, results, IdsInv, MidwayInv, AgreeInv
<1>0. TypeOK'
  BY TypeStep
<1>1. CASE UNCHANGED vars
  BY <1>1 DEF vars
<1>2. ASSUME NEW w \in Workers, Call(w) PROVE (IdsInv /\ MidwayInv /\ AgreeInv)'
  BY <1>2 DEF Call, Goto, TypeOK
<1>3. ASSUME NEW w \in Workers, Lock(w) PROVE (IdsInv /\ MidwayInv /\ AgreeInv)'
  BY <1>3 DEF Lock, Goto, TypeOK, Requests
<1>4. ASSUME NEW w \in Workers, EngineAdd(w) PROVE (IdsInv /\ MidwayInv /\ AgreeInv)'
  <2>1. /\ pc[w] = "engine" /\ request[w] = "add"
        /\ UNCHANGED <<request, holder, values, spoiled>>
        /\ holder = w
    BY <1>4 DEF EngineAdd, TypeOK
  <2>2. \A v \in Workers : v # w => pc[v] \notin {"engine", "client", "unlock"}
                                  /\ pc'[v] = pc[v]
    BY <1>4, <2>1 DEF EngineAdd, Goto, TypeOK
  <2>3. CASE /\ pc'[w] = "unlock" /\ UNCHANGED <<variable, engine>>
    BY <1>0, <2>1, <2>2, <2>3 DEF TypeOK
  <2>4. CASE /\ pc'[w] = "client" /\ variable'[w] = next_id
             /\ next_id' = next_id + 1
             /\ available' = available \cup {next_id}
    <3>1. /\ next_id \in Nat /\ next_id \in 1 .. next_id' - 1
          /\ 1 .. next_id - 1 \subseteq 1 .. next_id' - 1
          /\ next_id \notin 1 .. next_id - 1
      BY <2>4 DEF TypeOK
    <3>2. IdsInv'
      BY <2>1, <2>2, <2>4, <3>1
    <3>3. MidwayInv'
      BY <2>1, <2>2, <2>4, <3>1
    <3>4. AgreeInv'
      BY <1>0, <2>1, <2>2, <2>4 DEF TypeOK
    <3>5. QED BY <3>2, <3>3, <3>4
  <2>5. QED BY <1>4, <2>3, <2>4 DEF EngineAdd, Goto, TypeOK
<1>5. ASSUME NEW w \in Workers, EngineDraw(w) PROVE (IdsInv /\ MidwayInv /\ AgreeInv)'
  BY <1>0, <1>5, Alone DEF EngineDraw, Goto, TypeOK
<1>6. ASSUME NEW w \in Workers, Emplace(w) PROVE (IdsInv /\ MidwayInv /\ AgreeInv)'
  <2>1. /\ pc[w] = "client" /\ request[w] = "add"
        /\ UNCHANGED <<request, variable, holder, available, next_id>>
        /\ holder = w /\ pc' = [pc EXCEPT ![w] = "unlock"]
        /\ variable[w] \in 1 .. next_id - 1
    BY <1>6 DEF Emplace, Goto, TypeOK
  <2>2. \A v \in Workers : v # w => pc[v] \notin {"engine", "client", "unlock"}
                                  /\ pc'[v] = pc[v]
    BY <2>1 DEF TypeOK
  <2>3. pc'[w] = "unlock"
    BY <2>1 DEF TypeOK
  <2>4. \/ DOMAIN values' = DOMAIN values \cup {variable[w]} /\ spoiled' = spoiled
        \/ values' = values /\ spoiled' = TRUE
    BY <1>6 DEF Emplace
  <2>5. IdsInv'
    BY <2>1, <2>2, <2>3, <2>4
  <2>6. MidwayInv'
    BY <2>1, <2>2, <2>3
  <2>7. ~spoiled' => available = DOMAIN values'
    BY <2>1, <2>4
  <2>8. QED BY <2>1, <2>2, <2>3, <2>5, <2>6, <2>7, <1>0 DEF TypeOK
<1>7. ASSUME NEW w \in Workers, Take(w) PROVE (IdsInv /\ MidwayInv /\ AgreeInv)'
  <2>1. /\ pc[w] = "client" /\ pc' = [pc EXCEPT ![w] = "unlock"]
        /\ UNCHANGED <<request, variable, holder, available, next_id>>
        /\ holder = w
    BY <1>7 DEF Take, Goto, TypeOK
  <2>2. \A v \in Workers : v # w => pc[v] \notin {"engine", "client", "unlock"}
                                  /\ pc'[v] = pc[v]
    BY <2>1 DEF TypeOK
  <2>3. DOMAIN values' \subseteq DOMAIN values
    BY <1>7 DEF Take
  <2>4. pc'[w] = "unlock"
    BY <2>1 DEF TypeOK
  <2>5. (IdsInv /\ MidwayInv)'
    BY <2>1, <2>2, <2>3, <2>4
  <2>6. ~spoiled' => available = DOMAIN values'
    <3>1. CASE request[w] = "consume"
      BY <1>7, <2>1, <3>1 DEF Take
    <3>2. CASE request[w] = "reuse"
      BY <1>7, <2>1, <3>2 DEF Take
    <3>3. QED BY <1>7, <3>1, <3>2 DEF Take
  <2>7. spoiled => spoiled'
    BY <1>7 DEF Take, TypeOK
  <2>8. QED BY <2>1, <2>2, <2>4, <2>5, <2>6, <2>7, <1>0 DEF TypeOK
<1>8. ASSUME NEW w \in Workers, Size(w) PROVE (IdsInv /\ MidwayInv /\ AgreeInv)'
  BY <1>8 DEF Size, Goto, TypeOK
<1>9. ASSUME NEW w \in Workers, Unlock(w) PROVE (IdsInv /\ MidwayInv /\ AgreeInv)'
  BY <1>9 DEF Unlock, Goto, TypeOK
<1>10. QED
  BY <1>1, <1>2, <1>3, <1>4, <1>5, <1>6, <1>7, <1>8, <1>9 DEF Next, WorkerNext

\* Mutual exclusion, and what each step of an operation leaves in the two pools.
THEOREM Inductive == Spec => []IInv
<1>1. IInv /\ [Next]_vars => IInv'
  BY TypeStep, PoolStep DEF IInv
<1>2. QED BY InitInv, <1>1, PTL DEF Spec

\* The types, and mutual exclusion under mutex_.
THEOREM TypeCorrect == Spec => []TypeOK
BY Inductive, PTL DEF IInv

\* While no move or copy has thrown, libhegel's pool and the client's map hold
\* the same variables whenever the mutex is free.
THEOREM Agree == Spec => []PoolsAgree
<1>1. IInv => PoolsAgree
  BY DEF IInv, AgreeInv, PoolsAgree
<1>2. QED BY Inductive, <1>1, PTL

-----------------------------------------------------------------------------
(* Progress.  That every call returns (CallsReturn) follows from these facts *)
(* by the weak fairness of each worker: a call waits for nothing but the     *)
(* mutex, whose holder can go on, and no worker has steps for ever.          *)

\* When WorkerNext(w) is enabled.
CanStep(w) ==
  \/ pc[w] = "idle" /\ calls[w] < MaxCalls
  \/ pc[w] = "lock" /\ holder = Nobody
  \/ pc[w] = "engine" /\ request[w] # "size"
  \/ pc[w] \in {"client", "unlock"}

Waits(w) == holder \in Workers \ {w} /\ CanStep(holder)

Place == [idle |-> 0, unlock |-> 1, client |-> 2, engine |-> 3, lock |-> 4]

\* A bound on the steps a worker has left.
StepsLeft(w) == 5 * (MaxCalls - calls[w]) + Place[pc[w]]

LEMMA WorkerMoves ==
  ASSUME TypeOK, NEW w \in Workers, WorkerNext(w)
  PROVE  /\ \A v \in Workers \ {w} : /\ pc'[v] = pc[v] /\ calls'[v] = calls[v]
                                     /\ request'[v] = request[v]
         /\ \/ /\ pc[w] = "idle" /\ pc'[w] = "lock" /\ calls'[w] = calls[w] + 1
            \/ /\ calls'[w] = calls[w]
               /\ \/ pc[w] = "lock" /\ pc'[w] \in {"engine", "client"}
                  \/ pc[w] = "engine" /\ pc'[w] \in {"client", "unlock"}
                  \/ pc[w] = "client" /\ pc'[w] = "unlock"
                  \/ pc[w] = "unlock" /\ pc'[w] = "idle"
<1> USE DEF TypeOK, call, engine, results, Goto
<1>1. CASE Call(w)
  BY <1>1 DEF Call
<1>2. CASE Lock(w)
  BY <1>2 DEF Lock
<1>3. CASE EngineAdd(w)
  BY <1>3 DEF EngineAdd
<1>4. CASE EngineDraw(w)
  BY <1>4 DEF EngineDraw
<1>5. CASE Emplace(w) \/ Size(w)
  BY <1>5 DEF Emplace, Size
<1>6. CASE Take(w)
  BY <1>6 DEF Take
<1>7. CASE Unlock(w)
  BY <1>7 DEF Unlock
<1>8. QED BY <1>1, <1>2, <1>3, <1>4, <1>5, <1>6, <1>7 DEF WorkerNext

\* A call that is not over can go on, or waits for the mutex while its holder can
\* go on: no operation keeps the mutex, whatever it throws, and nobody deadlocks.
THEOREM HolderGoesOn ==
  Spec => [](\A w \in Workers : pc[w] # "idle" => CanStep(w) \/ Waits(w))
<1>1. ASSUME IInv, NEW w \in Workers, pc[w] # "idle" PROVE CanStep(w) \/ Waits(w)
  <2>1. pc[w] \in {"lock", "engine", "client", "unlock"}
    BY <1>1 DEF IInv, TypeOK
  <2>2. ASSUME NEW v \in Workers, pc[v] \in {"engine", "client", "unlock"}
        PROVE  CanStep(v)
    BY <1>1, <2>2 DEF IInv, MidwayInv, CanStep
  <2>3. CASE pc[w] = "lock" /\ holder # Nobody
    <3>1. holder \in Workers
      BY <1>1, <2>3 DEF IInv, TypeOK
    <3>2. pc[holder] \in {"engine", "client", "unlock"}
      BY <1>1, <3>1 DEF IInv, TypeOK
    <3>3. holder # w
      BY <2>3, <3>2
    <3>4. CanStep(holder)
      BY <3>1, <3>2, <2>2
    <3>5. QED BY <3>1, <3>3, <3>4 DEF Waits
  <2>4. CASE pc[w] = "lock" /\ holder = Nobody
    BY <2>4 DEF CanStep
  <2>5. QED BY <2>1, <2>2, <2>3, <2>4
<1>2. IInv => \A w \in Workers : pc[w] # "idle" => CanStep(w) \/ Waits(w)
  BY <1>1
<1>3. QED BY <1>2, Inductive, PTL

\* Every step takes one worker nearer to its last and no other away from it.
THEOREM CallsRunOut ==
  Spec => /\ [](\A w \in Workers : StepsLeft(w) \in Nat)
          /\ [][\E w \in Workers :
                  /\ StepsLeft(w)' < StepsLeft(w)
                  /\ \A v \in Workers \ {w} : StepsLeft(v)' = StepsLeft(v)]_vars
<1>1. ASSUME IInv, NEW w \in Workers PROVE StepsLeft(w) \in Nat
  <2>1. calls[w] \in 0 .. MaxCalls /\ Place[pc[w]] \in Nat
    BY <1>1 DEF IInv, TypeOK, Place
  <2>2. QED BY <2>1 DEF StepsLeft
<1>2. ASSUME IInv, NEW w \in Workers, WorkerNext(w)
      PROVE  /\ StepsLeft(w)' < StepsLeft(w)
             /\ \A v \in Workers \ {w} : StepsLeft(v)' = StepsLeft(v)
  <2>1. calls[w] \in 0 .. MaxCalls
    BY <1>2 DEF IInv, TypeOK
  <2>2. StepsLeft(w)' < StepsLeft(w)
    BY <1>2, <2>1, WorkerMoves DEF IInv, StepsLeft, Place
  <2>3. QED BY <1>2, <2>2, WorkerMoves DEF IInv, StepsLeft
<1>3. IInv => \A w \in Workers : StepsLeft(w) \in Nat
  BY <1>1
<1>4. ASSUME IInv, Next
      PROVE  \E w \in Workers : /\ StepsLeft(w)' < StepsLeft(w)
                                /\ \A v \in Workers \ {w} : StepsLeft(v)' = StepsLeft(v)
  BY <1>2, <1>4 DEF Next
<1>5. QED BY <1>3, <1>4, Inductive, PTL DEF Spec

\* A worker that can take a step can still take one after a step of another,
\* unless it wants the mutex and the other got it.
THEOREM OnlyTheMutexIsTaken ==
  Spec => [][\A w \in Workers : CanStep(w) =>
               \/ WorkerNext(w) \/ CanStep(w)'
               \/ pc[w] = "lock" /\ holder' \in Workers \ {w}]_vars
<1>1. ASSUME IInv, NEW w \in Workers, CanStep(w), NEW v \in Workers, v # w, WorkerNext(v)
      PROVE  CanStep(w)' \/ (pc[w] = "lock" /\ holder' \in Workers \ {w})
  <2>1. pc'[w] = pc[w] /\ calls'[w] = calls[w] /\ request'[w] = request[w]
    BY <1>1, WorkerMoves DEF IInv
  <2>2. holder' = holder \/ holder' = Nobody \/ holder' = v
    BY <1>1 DEF WorkerNext, Call, Lock, EngineAdd, EngineDraw, Emplace, Take, Size,
                Unlock
  <2>3. QED BY <1>1, <2>1, <2>2 DEF CanStep
<1>2. ASSUME IInv, Next
      PROVE  \A w \in Workers : CanStep(w) =>
               \/ WorkerNext(w) \/ CanStep(w)'
               \/ pc[w] = "lock" /\ holder' \in Workers \ {w}
  BY <1>1, <1>2 DEF Next
<1>3. QED BY <1>2, Inductive, PTL DEF Spec

-----------------------------------------------------------------------------
(* The refinement *)

AddIds == {variable[w] : w \in Adding}
ConsumeIds == {variable[w] : w \in Consuming}
Used == (1 .. next_id - 1) \ AddIds

\* An operation is midway in the holder only.
LEMMA Midway ==
  ASSUME TypeOK, NEW w \in Workers, holder \in {w, Nobody}
  PROVE  /\ AddIds = IF pc[w] = "client" /\ request[w] = "add" THEN {variable[w]} ELSE {}
         /\ ConsumeIds = IF pc[w] = "client" /\ request[w] = "consume"
                         THEN {variable[w]} ELSE {}
<1>1. \A v \in Workers : pc[v] = "client" => v = w
  BY DEF TypeOK
<1>2. QED BY <1>1 DEF AddIds, ConsumeIds, Adding, Consuming

LEMMA MidwayNext ==
  ASSUME TypeOK', NEW w \in Workers, holder' \in {w, Nobody}
  PROVE  /\ AddIds' = IF pc'[w] = "client" /\ request'[w] = "add"
                      THEN {variable'[w]} ELSE {}
         /\ ConsumeIds' = IF pc'[w] = "client" /\ request'[w] = "consume"
                          THEN {variable'[w]} ELSE {}
<1>1. \A v \in Workers : pc'[v] = "client" => v = w
  BY DEF TypeOK
<1>2. QED BY <1>1 DEF AddIds, ConsumeIds, Adding, Consuming

LEMMA Sizes ==
  ASSUME TypeOK
  PROVE  /\ IsFiniteSet(DOMAIN values) /\ Cardinality(DOMAIN values) \in Nat
         /\ IsFiniteSet(Drawable) /\ Cardinality(Drawable) \in Nat
<1>1. DOMAIN values \in SUBSET Ids /\ Drawable \in SUBSET Ids
  BY DEF TypeOK, Drawable
<1>2. QED BY <1>1, Counted, FS_CardinalityType

\* A step that leaves the map, what can be drawn of it and the used identifiers.
LEMMA Stutter ==
  ASSUME UNCHANGED <<values, results, Drawable, Used>>
  PROVE  UNCHANGED PoolOf!vars
BY DEF PoolOf!vars, Used, AddIds, results

\* The instance counts as FiniteSets does.
LEMMA SameCardinality == \A S : PoolOf!Cardinality(S) = Cardinality(S)
BY Zenon DEF PoolOf!Cardinality, Cardinality

LEMMA InitRefines == Init => PoolOf!Init
<1> SUFFICES ASSUME Init PROVE PoolOf!Init
  OBVIOUS
<1>1. Drawable = {} /\ DOMAIN values = {}
  BY DEF Init, Drawable
<1>2. [i \in Drawable |-> values[i]] = <<>>
  BY <1>1
<1>3. Cardinality(DOMAIN values) - Cardinality(Drawable) = 0
  BY <1>1, FS_EmptySet
<1>4. Used = {}
  BY DEF Init, Used
<1>5. QED BY <1>2, <1>3, <1>4 DEF PoolOf!Init, Init, Used, AddIds

\* The steps before and after the one on the client's map.
LEMMA EngineRefines ==
  ASSUME IInv, IInv', NEW w \in Workers,
         Lock(w) \/ EngineAdd(w) \/ EngineDraw(w) \/ Unlock(w)
  PROVE  UNCHANGED PoolOf!vars
<1> USE DEF IInv, call, engine, results
<1>1. holder \in {w, Nobody} /\ holder' \in {w, Nobody}
  BY DEF Lock, EngineAdd, EngineDraw, Unlock, TypeOK
<1> DEFINE Mid(r) == pc[w] = "client" /\ request[w] = r
<1>2. /\ AddIds = IF Mid("add") THEN {variable[w]} ELSE {}
      /\ ConsumeIds = IF Mid("consume") THEN {variable[w]} ELSE {}
      /\ AddIds' = IF Mid("add")' THEN {variable'[w]} ELSE {}
      /\ ConsumeIds' = IF Mid("consume")' THEN {variable'[w]} ELSE {}
  BY <1>1, Midway, MidwayNext
<1>3. UNCHANGED <<values, results, request>>
  BY DEF Lock, EngineAdd, EngineDraw, Unlock
<1>4. ~Mid("add") /\ ~Mid("consume")
  BY DEF Lock, EngineAdd, EngineDraw, Unlock
<1>5. CASE Lock(w) \/ Unlock(w)
  <2>1. ~Mid("add")' /\ ~Mid("consume")' /\ UNCHANGED <<available, next_id>>
    BY <1>5 DEF Lock, Unlock, Goto, TypeOK
  <2>2. QED BY <1>2, <1>3, <1>4, <2>1, Stutter DEF Drawable, Used, ConsumeIds
<1>6. CASE EngineAdd(w)
  <2>1. ~Mid("consume")'
    BY <1>6 DEF EngineAdd
  <2>2. CASE /\ Mid("add")' /\ variable'[w] = next_id /\ next_id' = next_id + 1
             /\ available' = available \cup {next_id}
    <3>1. next_id \notin DOMAIN values
      BY DEF IdsInv, TypeOK
    <3>2. Drawable' = Drawable
      BY <1>2, <1>3, <1>4, <2>1, <2>2, <3>1 DEF Drawable, ConsumeIds
    <3>3. next_id' - 1 = next_id /\ next_id \in Nat
      BY <2>2 DEF TypeOK
    <3>4. (1 .. next_id) \ {next_id} = 1 .. next_id - 1
      BY <3>3
    <3>5. Used' = Used
      BY <1>2, <1>4, <2>2, <3>3, <3>4 DEF Used
    <3>6. QED BY <1>3, <3>2, <3>5, Stutter
  <2>3. CASE pc'[w] = "unlock" /\ UNCHANGED <<available, next_id>>
    BY <1>2, <1>3, <1>4, <2>3, Stutter DEF Drawable, Used, ConsumeIds
  <2>4. QED BY <1>6, <2>2, <2>3 DEF EngineAdd, Goto, TypeOK
<1>7. CASE EngineDraw(w)
  <2>1. ~Mid("add")' /\ next_id' = next_id
    BY <1>7 DEF EngineDraw
  <2>2. available' \cup ConsumeIds' = available
    BY <1>2, <1>7 DEF EngineDraw, Goto, TypeOK
  <2>3. QED BY <1>2, <1>3, <1>4, <2>1, <2>2, Stutter DEF Drawable, Used, ConsumeIds
<1>8. QED BY <1>5, <1>6, <1>7

\* The step on the client's map is the operation, or its failure.
LEMMA ClientRefines ==
  ASSUME IInv, IInv', NEW w \in Workers, Emplace(w) \/ Take(w) \/ Size(w)
  PROVE  [PoolOf!Next]_(PoolOf!vars)
<1> USE DEF IInv, call, engine, results
<1>1. /\ pc[w] = "client" /\ pc'[w] = "unlock" /\ holder = w /\ holder' = w
      /\ UNCHANGED <<request, variable, value, available, next_id>>
  BY DEF Emplace, Take, Size, Goto, TypeOK
<1> DEFINE i == variable[w]
<1>2. /\ AddIds = IF request[w] = "add" THEN {i} ELSE {}
      /\ ConsumeIds = IF request[w] = "consume" THEN {i} ELSE {}
      /\ AddIds' = {} /\ ConsumeIds' = {}
  BY <1>1, Midway, MidwayNext
<1>3. Drawable = DOMAIN values \cap (available \cup ConsumeIds)
  BY DEF Drawable, ConsumeIds
<1>4. Drawable' = DOMAIN values' \cap available
  BY <1>1, <1>2 DEF Drawable, ConsumeIds
<1>5. Used' = 1 .. next_id - 1 /\ Used = (1 .. next_id - 1) \ AddIds
  BY <1>1, <1>2 DEF Used
<1>6. /\ IsFiniteSet(DOMAIN values) /\ Cardinality(DOMAIN values) \in Nat
      /\ IsFiniteSet(Drawable) /\ Cardinality(Drawable) \in Nat
  BY Sizes
<1>7. request[w] \in Requests
  BY DEF TypeOK
<1>8. CASE Emplace(w)
  <2>1. /\ request[w] = "add" /\ i \in available \ DOMAIN values
        /\ i \in 1 .. next_id - 1 /\ i \in Ids /\ value[w] \in Values
        /\ UNCHANGED <<got, counted>>
    BY <1>1, <1>8 DEF Emplace, MidwayInv, IdsInv, TypeOK
  <2>2. i \in Ids \ Used /\ Used' = Used \cup {i}
    BY <1>2, <1>5, <2>1
  <2>3. CASE values' = [j \in DOMAIN values \cup {i} |->
                         IF j = i THEN value[w] ELSE values[j]]
    <3>1. Drawable' = Drawable \cup {i} /\ i \notin Drawable
      BY <1>2, <1>3, <1>4, <2>1, <2>3
    <3>2. [j \in Drawable' |-> values'[j]] =
            [j \in DOMAIN [j \in Drawable |-> values[j]] \cup {i} |->
               IF j = i THEN value[w] ELSE [k \in Drawable |-> values[k]][j]]
      BY <1>3, <2>3, <3>1
    <3>3. /\ Cardinality(DOMAIN values') = Cardinality(DOMAIN values) + 1
          /\ Cardinality(Drawable') = Cardinality(Drawable) + 1
      BY <1>6, <2>1, <2>3, <3>1, FS_AddElement
    <3>4. Cardinality(DOMAIN values') - Cardinality(Drawable') =
            Cardinality(DOMAIN values) - Cardinality(Drawable)
      BY <1>6, <3>3
    <3>5. PoolOf!Add
      BY <2>1, <2>2, <3>2, <3>4 DEF PoolOf!Add, Used, AddIds
    <3>6. QED BY <3>5 DEF PoolOf!Next
  <2>4. CASE values' = values
    <3>1. Drawable' = Drawable
      BY <1>2, <1>3, <1>4, <2>1, <2>4
    <3>2. PoolOf!Waste
      BY <2>1, <2>2, <2>4, <3>1 DEF PoolOf!Waste, Used, AddIds
    <3>3. QED BY <3>2 DEF PoolOf!Next
  <2>5. QED BY <1>8, <2>3, <2>4 DEF Emplace
<1>9. CASE Take(w) /\ request[w] = "reuse"
  <2>1. i \in available /\ UNCHANGED <<values, counted>>
    BY <1>1, <1>9 DEF Take, MidwayInv
  <2>2. Drawable' = Drawable /\ Used' = Used
    BY <1>2, <1>3, <1>4, <1>5, <1>9, <2>1
  <2>3. CASE i \in DOMAIN values /\ got' = [got EXCEPT ![w] = <<i, values[i]>>]
    <3>1. i \in Drawable
      BY <1>3, <2>1, <2>3
    <3>2. PoolOf!Reuse(w)
      BY <2>1, <2>2, <2>3, <3>1 DEF PoolOf!Reuse, Used, AddIds
    <3>3. QED BY <3>2 DEF PoolOf!Next
  <2>4. CASE UNCHANGED got
    BY <2>1, <2>2, <2>4, Stutter
  <2>5. QED BY <1>9, <2>3, <2>4 DEF Take
<1>10. CASE Take(w) /\ request[w] = "consume"
  <2>1. i \notin available /\ UNCHANGED counted /\ Used' = Used
    BY <1>1, <1>2, <1>5, <1>10 DEF Take, MidwayInv
  <2>2. CASE i \notin DOMAIN values
    <3>1. UNCHANGED <<values, got>>
      BY <1>10, <2>2 DEF Take
    <3>2. Drawable' = Drawable
      BY <1>2, <1>3, <1>4, <1>10, <2>2, <3>1
    <3>3. QED BY <2>1, <3>1, <3>2, Stutter
  <2>3. CASE i \in DOMAIN values
    <3>1. i \in Drawable
      BY <1>2, <1>3, <1>10, <2>3
    <3>2. CASE /\ values' = [j \in DOMAIN values \ {i} |-> values[j]]
               /\ got' = [got EXCEPT ![w] = <<i, values[i]>>]
      <4>1. Drawable' = Drawable \ {i}
        BY <1>2, <1>3, <1>4, <1>10, <2>1, <3>2
      <4>2. [j \in Drawable' |-> values'[j]] =
              [j \in DOMAIN [j \in Drawable |-> values[j]] \ {i} |->
                 [k \in Drawable |-> values[k]][j]]
        BY <1>3, <3>2, <4>1
      <4>3. /\ Cardinality(DOMAIN values') = Cardinality(DOMAIN values) - 1
            /\ Cardinality(Drawable') = Cardinality(Drawable) - 1
        BY <1>6, <2>3, <3>1, <3>2, <4>1, FS_RemoveElement
      <4>4. Cardinality(DOMAIN values') - Cardinality(Drawable') =
              Cardinality(DOMAIN values) - Cardinality(Drawable)
        BY <1>6, <4>3
      <4>5. PoolOf!Consume(w)
        BY <2>1, <3>1, <3>2, <4>2, <4>4
           DEF PoolOf!Consume, PoolOf!Without, Used, AddIds
      <4>6. QED BY <4>5 DEF PoolOf!Next
    <3>3. CASE UNCHANGED <<values, got>>
      <4>1. Drawable' = Drawable \ {i}
        BY <1>2, <1>3, <1>4, <1>10, <2>1, <3>3
      <4>2. [j \in Drawable' |-> values'[j]] =
              [j \in DOMAIN [j \in Drawable |-> values[j]] \ {i} |->
                 [k \in Drawable |-> values[k]][j]]
        BY <1>3, <3>3, <4>1
      <4>3. Cardinality(Drawable') = Cardinality(Drawable) - 1
        BY <1>6, <3>1, <4>1, FS_RemoveElement
      <4>4. Cardinality(DOMAIN values') - Cardinality(Drawable') =
              Cardinality(DOMAIN values) - Cardinality(Drawable) + 1
        BY <1>6, <3>3, <4>3
      <4>5. PoolOf!Lose
        BY <2>1, <3>1, <3>3, <4>2, <4>4
           DEF PoolOf!Lose, PoolOf!Without, Used, AddIds
      <4>6. QED BY <4>5 DEF PoolOf!Next
    <3>4. QED BY <1>10, <2>3, <3>2, <3>3 DEF Take
  <2>4. QED BY <2>2, <2>3
<1>11. CASE Size(w)
  <2>1. request[w] = "size" /\ UNCHANGED <<values, got>>
    BY <1>11 DEF Size
  <2>2. Drawable' = Drawable /\ Used' = Used
    BY <1>2, <1>3, <1>4, <1>5, <2>1
  <2>3. DOMAIN [j \in Drawable |-> values[j]] = Drawable
    OBVIOUS
  <2>4. Cardinality(DOMAIN values) =
          PoolOf!Cardinality(DOMAIN [j \in Drawable |-> values[j]])
            + (Cardinality(DOMAIN values) - Cardinality(Drawable))
    BY <1>6, <2>3, SameCardinality
  <2>5. counted' = [counted EXCEPT ![w] = Cardinality(DOMAIN values)]
    BY <1>11 DEF Size
  <2>6. counted' = [counted EXCEPT ![w] =
                      PoolOf!Cardinality(DOMAIN [j \in Drawable |-> values[j]])
                        + (Cardinality(DOMAIN values) - Cardinality(Drawable))]
    BY <2>4, <2>5, Zenon
  <2>7. UNCHANGED <<[j \in Drawable |-> values[j]], Used,
                    Cardinality(DOMAIN values) - Cardinality(Drawable), got>>
    BY <2>1, <2>2
  <2>8. PoolOf!Count(w)
    BY <2>6, <2>7, Zenon DEF PoolOf!Count, Used, AddIds
  <2>9. QED BY <2>8 DEF PoolOf!Next
<1>12. QED
  BY <1>8, <1>9, <1>10, <1>11 DEF Take

\* The two updates and the mutex implement a pool on which every operation
\* takes effect at once, whatever throws.
THEOREM Implements == Spec => ImplementsPool
<1>1. ASSUME IInv, IInv', [Next]_vars PROVE [PoolOf!Next]_(PoolOf!vars)
  <2>1. CASE UNCHANGED vars
    <3>1. UNCHANGED <<values, results, Drawable, Used>>
      BY <2>1 DEF vars, call, engine, results, Drawable, Used, AddIds, Adding, Consuming
    <3>2. QED BY <3>1, Stutter
  <2>2. ASSUME NEW w \in Workers, Call(w) PROVE UNCHANGED PoolOf!vars
    <3>1. Adding' = Adding /\ Consuming' = Consuming
      BY <1>1, <2>2 DEF Call, Goto, Adding, Consuming, IInv, TypeOK
    <3>2. UNCHANGED <<values, results, Drawable, Used>>
      BY <2>2, <3>1 DEF Call, engine, results, Drawable, Used, AddIds
    <3>3. QED BY <3>2, Stutter
  <2>3. ASSUME NEW w \in Workers,
               Lock(w) \/ EngineAdd(w) \/ EngineDraw(w) \/ Unlock(w)
        PROVE  UNCHANGED PoolOf!vars
    BY ONLY <1>1, <2>3, EngineRefines
  <2>4. ASSUME NEW w \in Workers, Emplace(w) \/ Take(w) \/ Size(w)
        PROVE  [PoolOf!Next]_(PoolOf!vars)
    BY ONLY <1>1, <2>4, ClientRefines
  <2>5. QED BY <1>1, <2>1, <2>2, <2>3, <2>4 DEF Next, WorkerNext
<1>2. QED
  BY InitRefines, Inductive, <1>1, PTL DEF Spec, ImplementsPool, PoolOf!Spec
=============================================================================
