------------------------------- MODULE Rounds -------------------------------
(***************************************************************************)
(* What a concurrent stateful test promises, with no threads in sight      *)
(* (include/hegel/generators/stateful.h, run_concurrent).  Execution is a  *)
(* sequence of rounds.  A round opens on one concurrency group; every      *)
(* worker takes part in it exactly once, applying rules of that group and  *)
(* no other, and finishes with one event; the round closes only when every *)
(* worker has finished.  Invariants are evaluated only between rounds.     *)
(* What ended the test is decided from the events of the last round.       *)
(***************************************************************************)
EXTENDS RoundEvents

\* control > overrun > invalid > panic > round complete
Rank(k) == CASE k = "Control"   -> 4
             [] k = "Overrun"   -> 3
             [] k = "Invalid"   -> 2
             [] k = "Panicked"  -> 1
             [] k = "RoundDone" -> 0

\* v is what a round that ended with the events evs makes of the test: the
\* event that outranks the others and, when it carries an exception of a
\* worker's own, the first worker that has it.
Judges(v, evs) ==
  \E w \in Workers :
    /\ \A u \in Workers : \/ Rank(evs[u]) < Rank(evs[w])
                          \/ /\ evs[u] = evs[w]
                             /\ w <= u
    /\ v = CASE evs[w] = "RoundDone" -> NoVerdict
             [] evs[w] \in {"Overrun", "Invalid"} -> Verdict(evs[w], Main)
             [] evs[w] \in {"Control", "Panicked"} -> Verdict(evs[w], w)

VARIABLES
  phase,    \* "setup", "join" (between rounds), "round" or "ended"
  round,    \* how many rounds have opened
  group,    \* the group of the open round
  running,  \* the workers that have not finished the open round
  applying, \* the group of the rule each worker is applying, or NoGroup
  reports,  \* the event each worker finished the latest round with
  verdict   \* what ended the test

vars == <<phase, round, group, running, applying, reports, verdict>>

TypeOK ==
  /\ phase \in {"setup", "join", "round", "ended"}
  /\ round \in 0..MaxRounds
  /\ group \in Groups \cup {NoGroup}
  /\ running \in SUBSET Workers
  /\ applying \in [Workers -> Groups \cup {NoGroup}]
  /\ reports \in [Workers -> EventKinds]
  /\ verdict \in Verdicts

Init ==
  /\ phase = "setup"
  /\ round = 0
  /\ group = NoGroup
  /\ running = {}
  /\ applying = [w \in Workers |-> NoGroup]
  /\ reports = [w \in Workers |-> "RoundDone"]
  /\ verdict = NoVerdict

End(v) ==
  /\ phase' = "ended"
  /\ verdict' = v
  /\ UNCHANGED <<round, group, running, applying, reports>>

Ready ==
  /\ phase = "setup"
  /\ phase' = "join"
  /\ UNCHANGED <<round, group, running, applying, reports, verdict>>

GiveUp ==
  /\ phase = "setup"
  /\ \E k \in {"Control", "Invalid", "Overrun", "Violated", "StartFailed"} :
       End(Verdict(k, Main))

Open(g) ==
  /\ phase = "join"
  /\ round < MaxRounds
  /\ phase' = "round"
  /\ round' = round + 1
  /\ group' = g
  /\ running' = Workers
  /\ UNCHANGED <<applying, reports, verdict>>

BeginRule(w) ==
  /\ phase = "round"
  /\ w \in running
  /\ applying[w] = NoGroup
  /\ applying' = [applying EXCEPT ![w] = group]
  /\ UNCHANGED <<phase, round, group, running, reports, verdict>>

EndRule(w) ==
  /\ phase = "round"
  /\ applying[w] # NoGroup
  /\ applying' = [applying EXCEPT ![w] = NoGroup]
  /\ UNCHANGED <<phase, round, group, running, reports, verdict>>

Finish(w, e) ==
  /\ phase = "round"
  /\ w \in running
  /\ applying[w] = NoGroup
  /\ running' = running \ {w}
  /\ reports' = [reports EXCEPT ![w] = e]
  /\ UNCHANGED <<phase, round, group, applying, verdict>>

Close ==
  /\ phase = "round"
  /\ running = {}
  /\ verdict' \in Verdicts
  /\ Judges(verdict', reports)
  /\ phase' = IF verdict' = NoVerdict THEN "join" ELSE "ended"
  /\ UNCHANGED <<round, group, running, applying, reports>>

\* The engine ends the machine, or its budget; or an invariant fails.
Conclude ==
  /\ phase = "join"
  /\ \E k \in {"Passed", "Overrun", "Violated"} : End(Verdict(k, Main))

Next ==
  \/ Ready
  \/ GiveUp
  \/ \E g \in Groups : Open(g)
  \/ \E w \in Workers : BeginRule(w) \/ EndRule(w)
  \/ \E w \in Workers, e \in EventKinds : Finish(w, e)
  \/ Close
  \/ Conclude

Spec == Init /\ [][Next]_vars
=============================================================================
