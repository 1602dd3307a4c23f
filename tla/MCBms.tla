------------------------------- MODULE MCBms -------------------------------
(***************************************************************************)
(* Instances of BmsDaemon for TLC: a current that discharges, one that     *)
(* charges, none, and one beyond the limit on each side.                   *)
(***************************************************************************)
EXTENDS BmsDaemon

LoadCurrents == {-5, -2, 0, 2, 5}
=============================================================================
