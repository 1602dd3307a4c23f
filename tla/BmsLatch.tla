------------------------------ MODULE BmsLatch ------------------------------
(***************************************************************************)
(* What the battery daemon promises about its protection: once it has      *)
(* tripped, the cell is frozen (its charge and temperature no longer move) *)
(* and it stays tripped until a reset that was asked for is carried out.   *)
(* Each request releases the protection at most once.                      *)
(***************************************************************************)
VARIABLES
  tripped,  \* is the protection latched?
  asked,    \* has a reset been asked for and not been carried out yet?
  charge,   \* state of charge
  heat      \* temperature

latchVars == <<tripped, asked, charge, heat>>

Ask == ~asked /\ asked' /\ UNCHANGED <<tripped, charge, heat>>

Trip == ~tripped /\ tripped' /\ UNCHANGED <<asked, charge, heat>>

Release == asked /\ ~asked' /\ ~tripped' /\ UNCHANGED <<charge, heat>>

Evolve == ~tripped /\ ~tripped' /\ UNCHANGED asked

LatchSpec ==
  ~tripped /\ ~asked /\ [][Ask \/ Trip \/ Release \/ Evolve]_latchVars
=============================================================================
