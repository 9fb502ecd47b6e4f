------------------------- MODULE MCConcurrentRounds -------------------------
(* Values for the constants of ConcurrentRounds. *)
EXTENDS ConcurrentRounds

CONSTANTS readers, writers

TwoGroups == {readers, writers}
=============================================================================
