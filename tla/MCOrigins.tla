----------------------------- MODULE MCOrigins -----------------------------
(* Values for the constants of Origins: one exception of each sort, and a
   second plain one. *)
EXTENDS Origins

CONSTANTS here, there, named, reject, helper, other

FourSites == {here, there, named, reject}
NamedSites == {named}
ControlSites == {reject}
TwoHelpers == {helper, other}
=============================================================================
