-------------------------- MODULE MCConcurrentPool --------------------------
(* Values for the constants of ConcurrentPool. *)
EXTENDS ConcurrentPool

CONSTANTS alice, bob, red, blue

TwoWorkers == {alice, bob}
TwoValues == {red, blue}
=============================================================================
