---------------------------- MODULE DosingBatch ----------------------------
(***************************************************************************)
(* What the dosing controller promises about one batch, whatever the       *)
(* threads, registers and clients underneath do: a batch belongs to one    *)
(* RFID tag from its first millilitre to its last, liquid is dispensed     *)
(* only while the batch runs, the batch is finished by the very amount     *)
(* that reaches the target, and nothing is added to a finished batch.      *)
(***************************************************************************)
EXTENDS Integers

CONSTANTS
  Tags,      \* the RFID tags a batch can belong to
  NoTag,     \* no batch is open
  Target,    \* the volume of a batch
  MaxPour    \* the most that can flow between two looks at the volume

VARIABLES
  stage,      \* "ready", "running" or "done"
  dispensed,  \* volume given out in this batch
  owner       \* the tag the batch belongs to

batchVars == <<stage, dispensed, owner>>

BatchInit == stage = "ready" /\ dispensed = 0 /\ owner = NoTag

Begin ==
  /\ stage = "ready"
  /\ stage' = "running"
  /\ owner' \in Tags
  /\ UNCHANGED dispensed

Dispense ==
  /\ stage = "running"
  /\ dispensed' \in (dispensed + 1)..(dispensed + MaxPour)
  /\ stage' = IF dispensed' >= Target THEN "done" ELSE "running"
  /\ UNCHANGED owner

Abandon ==
  /\ stage' = "ready"
  /\ dispensed' = 0
  /\ owner' = NoTag

BatchNext == Begin \/ Dispense \/ Abandon

BatchSpec == BatchInit /\ [][BatchNext]_batchVars
=============================================================================
