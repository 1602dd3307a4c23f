----------------------------- MODULE DosingFsm -----------------------------
(***************************************************************************)
(* The four-state dosing machine of controller/src/DosingFsm.cpp.  Its     *)
(* only operation is update(), called once per cycle of the main loop with *)
(* what that cycle sampled.  Volume is counted in whole units (the code    *)
(* adds flow_rate * dt / 60 as a double); the increment of one cycle is    *)
(* any amount up to MaxPour, the jitter of dt and of the flow sensor.      *)
(***************************************************************************)
EXTENDS Integers

CONSTANTS
  Tags,      \* EPC codes the reader can return
  NoTag,     \* std::nullopt from scan(), "" in active_tag_
  Target,    \* target_volume_ml_
  MaxPour    \* bound on the volume of one cycle

ASSUME TagAssumption == NoTag \notin Tags
ASSUME VolumeAssumption == Target \in Nat \ {0} /\ MaxPour \in Nat \ {0}

VARIABLES
  state,     \* state_
  acc,       \* accumulated_ml_
  activeTag  \* active_tag_

fsmVars == <<state, acc, activeTag>>

States == {"IDLE", "DOSING", "PAUSE", "COMPLETE"}

FsmInit == state = "IDLE" /\ acc = 0 /\ activeTag = NoTag

\* reset(): also what update() does first when reset_cmd is set.
ResetFsm ==
  /\ state' = "IDLE"
  /\ acc' = 0
  /\ activeTag' = NoTag

\* Slip: the valve command alone starts a batch.
StartWithoutTag(valve, tag) ==
  /\ state = "IDLE"
  /\ IF valve THEN state' = "DOSING" /\ activeTag' = tag
              ELSE UNCHANGED <<state, activeTag>>
  /\ UNCHANGED acc

\* case IDLE: a tag and an open command in the same cycle start a batch.
StartBatch(valve, tag) ==
  /\ state = "IDLE"
  /\ IF tag # NoTag /\ valve
       THEN state' = "DOSING" /\ activeTag' = tag
       ELSE UNCHANGED <<state, activeTag>>
  /\ UNCHANGED acc

\* Slip: the close command is looked at before the target.
PourPauseFirst(valve, pour) ==
  /\ state = "DOSING"
  /\ acc' = acc + pour
  /\ state' = IF ~valve THEN "PAUSE"
              ELSE IF acc' >= Target THEN "COMPLETE" ELSE "DOSING"
  /\ UNCHANGED activeTag

\* case DOSING: the volume is added before the command is looked at, and
\* reaching the target wins over closing the valve.
PourBatch(valve, pour) ==
  /\ state = "DOSING"
  /\ acc' = acc + pour
  /\ state' = IF acc' >= Target THEN "COMPLETE"
              ELSE IF ~valve THEN "PAUSE" ELSE "DOSING"
  /\ UNCHANGED activeTag

\* Slip: resuming starts the count again.
ResumeFromZero(valve) ==
  /\ state = "PAUSE"
  /\ IF valve THEN state' = "DOSING" /\ acc' = 0 ELSE UNCHANGED <<state, acc>>
  /\ UNCHANGED activeTag

\* Slip: a pause is latched.
NeverResume(valve) == state = "PAUSE" /\ UNCHANGED fsmVars

\* case PAUSE: an open command resumes, whatever the reader sees.
ResumeBatch(valve) ==
  /\ state = "PAUSE"
  /\ state' = IF valve THEN "DOSING" ELSE "PAUSE"
  /\ UNCHANGED <<acc, activeTag>>

\* case COMPLETE: latched until reset.
StayComplete == state = "COMPLETE" /\ UNCHANGED fsmVars

\* Slip: only a finished batch can be reset.
UpdateResetsOnlyComplete(valve, reset, pour, tag) ==
  \/ reset /\ state = "COMPLETE" /\ ResetFsm
  \/ StartBatch(valve, tag)
  \/ PourBatch(valve, pour)
  \/ ResumeBatch(valve)
  \/ ~reset /\ StayComplete

Update(valve, reset, pour, tag) ==
  \/ reset /\ ResetFsm
  \/ /\ ~reset
     /\ \/ StartBatch(valve, tag)
        \/ PourBatch(valve, pour)
        \/ ResumeBatch(valve)
        \/ StayComplete
=============================================================================
