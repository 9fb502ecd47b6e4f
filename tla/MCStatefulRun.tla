--------------------------- MODULE MCStatefulRun ---------------------------
(* Values for the constants of StatefulRun: one group, as run declares. *)
EXTENDS StatefulRun

CONSTANT rules

OneGroup == {rules}
=============================================================================
