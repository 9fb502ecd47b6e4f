-------------------------------- MODULE Pool --------------------------------
(***************************************************************************)
(* What a pool of variables promises the workers that share it             *)
(* (include/hegel/generators/stateful.h, Pool and ConcurrentPool): one     *)
(* map of identified values on which every operation takes effect at once. *)
(* An identifier names one value for ever, and a value that was consumed   *)
(* is never drawn again.  A value whose copy threw on its way out may be   *)
(* lost: it is still counted and cannot be drawn.                          *)
(***************************************************************************)
EXTENDS Naturals, FiniteSets

CONSTANTS Workers, Values,
          Ids,     \* the identifiers of variables
          Nothing  \* what a worker holds that has drawn no value

VARIABLES
  contents,  \* the values that can be drawn, by identifier
  used,      \* the identifiers that name, or named, a value
  lost,      \* how many values are counted and cannot be drawn
  got,       \* the variable each worker drew last
  counted    \* what size() told each worker last

vars == <<contents, used, lost, got, counted>>

Init ==
  /\ contents = <<>>
  /\ used = {}
  /\ lost = 0
  /\ got = [w \in Workers |-> Nothing]
  /\ counted = [w \in Workers |-> 0]

Without(f, i) == [j \in DOMAIN f \ {i} |-> f[j]]

Add ==
  \E i \in Ids \ used, v \in Values :
    /\ used' = used \cup {i}
    /\ contents' = [j \in DOMAIN contents \cup {i} |->
                      IF j = i THEN v ELSE contents[j]]
    /\ UNCHANGED <<lost, got, counted>>

\* The value's move into the pool threw: its identifier names nothing.
Waste ==
  /\ \E i \in Ids \ used : used' = used \cup {i}
  /\ UNCHANGED <<contents, lost, got, counted>>

Reuse(w) ==
  /\ \E i \in DOMAIN contents : got' = [got EXCEPT ![w] = <<i, contents[i]>>]
  /\ UNCHANGED <<contents, used, lost, counted>>

Consume(w) ==
  /\ \E i \in DOMAIN contents :
       /\ got' = [got EXCEPT ![w] = <<i, contents[i]>>]
       /\ contents' = Without(contents, i)
  /\ UNCHANGED <<used, lost, counted>>

Lose ==
  /\ \E i \in DOMAIN contents : contents' = Without(contents, i)
  /\ lost' = lost + 1
  /\ UNCHANGED <<used, got, counted>>

Count(w) ==
  /\ counted' = [counted EXCEPT ![w] = Cardinality(DOMAIN contents) + lost]
  /\ UNCHANGED <<contents, used, lost, got>>

Next ==
  \/ Add \/ Waste \/ Lose
  \/ \E w \in Workers : Reuse(w) \/ Consume(w) \/ Count(w)

Spec == Init /\ [][Next]_vars
=============================================================================
