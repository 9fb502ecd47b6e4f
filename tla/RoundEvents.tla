---------------------------- MODULE RoundEvents ----------------------------
(***************************************************************************)
(* The vocabulary run_concurrent and its specification share: the workers, *)
(* the concurrency groups, the event a worker ends a round with, and the   *)
(* verdict the call ends with (include/hegel/generators/stateful.h).       *)
(***************************************************************************)
EXTENDS Naturals, FiniteSets

CONSTANTS N,         \* the concurrency level the engine drew
          Groups,    \* the concurrency groups of the machine's rules
          NoGroup,   \* no group is current, or no rule is being applied
          MaxRounds  \* stateful_step_count: the engine opens no more rounds

ASSUME NAssumption == N \in Nat \ {0}
ASSUME GroupsAssumption == Groups # {} /\ NoGroup \notin Groups
ASSUME MaxRoundsAssumption == MaxRounds \in Nat \ {0}

Workers == 0 .. N-1

EventKinds == {"RoundDone", "Invalid", "Overrun", "Control", "Panicked"}

\* A verdict names the worker whose exception is raised again, or Main when
\* the main thread raises an exception of its own (or none).
Main == N

VerdictKinds == {"None", "Passed", "Overrun", "Invalid", "Control", "Panicked",
                 "Violated", "StartFailed"}

Verdict(kind, by) == [kind |-> kind, by |-> by]

NoVerdict == Verdict("None", Main)

Verdicts == [kind : VerdictKinds, by : Workers \cup {Main}]

\* The workers whose event is of kind k, and the first of a set of workers.
Reporting(evs, k) == {w \in Workers : evs[w] = k}

First(S) == CHOOSE w \in S : \A v \in S : w <= v
=============================================================================
