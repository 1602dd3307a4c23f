----------------------------- MODULE BmsDaemon -----------------------------
(***************************************************************************)
(* The battery management daemon of ev_battery_hil/bms: the 1 kHz physics  *)
(* thread of main.cpp, which calls BmsStateMachine::update(), and the      *)
(* command thread of TelemetryServer.cpp, which changes the same object.   *)
(*                                                                         *)
(* Commands and telemetry exclude each other by state_mu_, but the physics *)
(* thread never takes that mutex, so update() is cut at each access to a   *)
(* variable the commands also write, and RESET at each of its stores.      *)
(* Every such variable is at most one word and is read and written in      *)
(* program order.  Steps that touch only what no command writes are part   *)
(* of the access before them.                                              *)
(*                                                                         *)
(* The physics is abstracted to bands: state of charge and temperature in  *)
(* levels that move by at most one per step, Joule energy in units.        *)
(***************************************************************************)
EXTENDS Integers

CONSTANTS
  Currents,   \* load currents a command can set, in A, positive = discharge
  IMax,       \* I_MAX
  IIdle,      \* kIdleThreshold
  SocMax, SocLow, SocHigh, SocStart,  \* levels of charge; SOC_LOW, SOC_HIGH
  TWarn, TFault,                      \* levels above ambient
  EWarn, EFault, MaxHeat,  \* Joule energy; the most a permitted current adds
  Commands    \* commands the client sends

ASSUME CurrentAssumption ==
  /\ Currents \subseteq Int /\ 0 \in Currents
  /\ IMax \in Nat /\ IIdle \in Nat /\ IIdle < IMax
ASSUME LevelAssumption ==
  /\ SocMax \in Nat /\ SocLow \in Nat /\ SocHigh \in Nat /\ SocStart \in 0..SocMax
  /\ SocLow < SocHigh /\ SocHigh < SocMax
  /\ TWarn \in Nat /\ TFault \in Nat /\ TWarn <= TFault
ASSUME EnergyAssumption ==
  /\ EWarn \in Nat \ {0} /\ EFault \in Nat /\ MaxHeat \in Nat \ {0}
  /\ EWarn + MaxHeat <= EFault
ASSUME CommandAssumption == Commands \subseteq {"SET_CURRENT", "SET_FAULT", "RESET"}

VARIABLES
  state, faultCode, warned, joule,   \* members of BmsStateMachine
  iLoad, blockCooling, soc, temp,    \* fields of BatteryState
  pc,      \* next step of update()
  fc,      \* local: the fault found so far
  sum,     \* local: the energy about to be stored
  iSeen,   \* local i of the transition table
  tcp      \* next store of RESET, or "ready" when no RESET is being served

fsmVars == <<state, faultCode, warned, joule>>
batteryVars == <<iLoad, blockCooling, soc, temp>>
localVars == <<pc, fc, sum, iSeen>>
vars == <<fsmVars, batteryVars, localVars, tcp>>

BmsStates == {"IDLE", "DISCHARGING", "CHARGING", "FAULT"}
FaultCodes ==
  {"NONE", "OVERTEMPERATURE", "UNDERVOLTAGE", "OVERVOLTAGE", "OVERCURRENT"}

\* Bounds: a race can make the energy grow with every RESET, and nothing
\* cools in FAULT; levels beyond the thresholds are not told apart.
JouleCap == EFault + MaxHeat
TempCap == TFault + 1

AtMost(x, cap) == IF x > cap THEN cap ELSE x

Init ==
  /\ state = "IDLE" /\ faultCode = "NONE" /\ warned = FALSE /\ joule = 0
  /\ iLoad = 0 /\ blockCooling = FALSE /\ soc = SocStart /\ temp = 0
  /\ pc = "begin" /\ fc = "NONE" /\ sum = 0 /\ iSeen = 0
  /\ tcp = "ready"
-----------------------------------------------------------------------------
(* BmsStateMachine::update() on the physics thread. *)

\* Slip: the sign of a charging current is forgotten.
OverCurrentSigned(i) == i > IMax

OverCurrent(i) == i > IMax \/ -i > IMax

\* Slip: update() goes on in FAULT.
BeginInFault ==
  /\ pc = "begin"
  /\ IF OverCurrent(iLoad)
       THEN pc' = "fault" /\ fc' = "OVERCURRENT"
       ELSE pc' = "step" /\ fc' = "NONE"
  /\ UNCHANGED <<fsmVars, batteryVars, sum, iSeen, tcp>>

\* Slip: FAULT is left by itself once the load is gone.
BeginClears ==
  /\ pc = "begin"
  /\ IF state = "FAULT"
       THEN iLoad = 0 /\ state' = "IDLE" /\ UNCHANGED <<pc, fc>>
       ELSE /\ UNCHANGED state
            /\ IF OverCurrent(iLoad)
                 THEN pc' = "fault" /\ fc' = "OVERCURRENT"
                 ELSE pc' = "step" /\ fc' = "NONE"
  /\ UNCHANGED <<faultCode, warned, joule, batteryVars, sum, iSeen, tcp>>

\* FAULT is latched: update() returns at once, here by not starting.  A
\* rejected current faults before anything is integrated.
BeginUpdate ==
  /\ pc = "begin"
  /\ state # "FAULT"
  /\ IF OverCurrent(iLoad)
       THEN pc' = "fault" /\ fc' = "OVERCURRENT"
       ELSE pc' = "step" /\ fc' = "NONE"
  /\ UNCHANGED <<fsmVars, batteryVars, sum, iSeen, tcp>>

\* Slip: the charge is not clamped.
NextSocUnclamped(i) ==
  {soc} \cup IF i > 0 THEN {soc - 1} ELSE IF i < 0 THEN {soc + 1} ELSE {}

\* Discharging lowers the charge, charging raises it; clamped to [0, 1].
NextSoc(i) ==
  {soc} \cup IF i > 0 /\ soc > 0 THEN {soc - 1}
             ELSE IF i < 0 /\ soc < SocMax THEN {soc + 1} ELSE {}

\* A current heats; the cooling, unless blocked, works against it.
NextTemp(i) ==
  {temp} \cup (IF i # 0 THEN {AtMost(temp + 1, TempCap)} ELSE {})
         \cup (IF ~blockCooling /\ temp > 0 THEN {temp - 1} ELSE {})

SafetyCheck(s, t, i) ==
  IF t > TFault THEN "OVERTEMPERATURE"
  ELSE IF s < SocLow THEN "UNDERVOLTAGE"
  ELSE IF s > SocHigh /\ i < 0 THEN "OVERVOLTAGE"
  ELSE "NONE"

\* BatteryModel::step(), which reads i_load once more and checks it again.
StepModel ==
  /\ pc = "step"
  /\ IF OverCurrent(iLoad)
       THEN fc' = "OVERCURRENT" /\ UNCHANGED <<soc, temp>>
       ELSE /\ soc' \in NextSoc(iLoad)
            /\ temp' \in NextTemp(iLoad)
            /\ fc' = SafetyCheck(soc', temp', iLoad)
  /\ pc' = "addHeat"
  /\ UNCHANGED <<fsmVars, iLoad, blockCooling, sum, iSeen, tcp>>

\* The energy of one step: at most MaxHeat for a permitted current, any
\* amount for one beyond the limit, which no command bounds.
Heat(i) == IF i = 0 THEN {0} ELSE IF OverCurrent(i) THEN 0..JouleCap ELSE 0..MaxHeat

\* joule_energy_ += i_load^2 * R0 * DT: a read, an addition and a store.  The
\* current is read again here, after both checks of the limit.
AddHeat ==
  /\ pc = "addHeat"
  /\ \E h \in Heat(iLoad) : sum' = AtMost(joule + h, JouleCap)
  /\ pc' = "storeHeat"
  /\ UNCHANGED <<fsmVars, batteryVars, fc, iSeen, tcp>>

StoreHeat ==
  /\ pc = "storeHeat"
  /\ joule' = sum
  /\ sum' = 0  \* a local is forgotten after its last use
  /\ pc' = "warn"
  /\ UNCHANGED <<state, faultCode, warned, batteryVars, fc, iSeen, tcp>>

\* Slip: the energy warning waits for the fault level.
WarnTooLate ==
  /\ pc = "warn"
  /\ pc' = IF ~warned /\ (temp >= TWarn \/ joule >= EFault)
             THEN "setWarned" ELSE "judge"
  /\ UNCHANGED <<fsmVars, batteryVars, fc, sum, iSeen, tcp>>

Warn ==
  /\ pc = "warn"
  /\ pc' = IF ~warned /\ (temp >= TWarn \/ joule >= EWarn)
             THEN "setWarned" ELSE "judge"
  /\ UNCHANGED <<fsmVars, batteryVars, fc, sum, iSeen, tcp>>

SetWarned ==
  /\ pc = "setWarned"
  /\ warned' = TRUE
  /\ pc' = "judge"
  /\ UNCHANGED <<state, faultCode, joule, batteryVars, fc, sum, iSeen, tcp>>

\* Slip: the energy fault keeps the code of the model, which found none.
JudgeWithoutCode ==
  /\ pc = "judge"
  /\ IF fc # "NONE" \/ joule >= EFault
       THEN pc' = "fault" /\ UNCHANGED iSeen
       ELSE pc' = "transition" /\ iSeen' = iLoad
  /\ UNCHANGED <<fsmVars, batteryVars, fc, sum, tcp>>

\* A fault of the model comes first, then the energy, then i is read.
Judge ==
  /\ pc = "judge"
  /\ IF fc # "NONE" THEN pc' = "fault" /\ UNCHANGED <<fc, iSeen>>
     ELSE IF joule >= EFault
       THEN pc' = "fault" /\ fc' = "OVERTEMPERATURE" /\ UNCHANGED iSeen
       ELSE pc' = "transition" /\ iSeen' = iLoad /\ UNCHANGED fc
  /\ UNCHANGED <<fsmVars, batteryVars, sum, tcp>>

\* Slip: leaving DISCHARGING needs a charging current.
NextStateSticky(s, i) ==
  CASE s = "IDLE" -> IF i > IIdle THEN "DISCHARGING"
                     ELSE IF i < -IIdle THEN "CHARGING" ELSE "IDLE"
    [] s = "DISCHARGING" -> IF i < -IIdle THEN "IDLE" ELSE s
    [] s = "CHARGING" -> IF i >= -IIdle THEN "IDLE" ELSE s
    [] s = "FAULT" -> s

NextState(s, i) ==
  CASE s = "IDLE" -> IF i > IIdle THEN "DISCHARGING"
                     ELSE IF i < -IIdle THEN "CHARGING" ELSE "IDLE"
    [] s = "DISCHARGING" -> IF i <= IIdle THEN "IDLE" ELSE s
    [] s = "CHARGING" -> IF i >= -IIdle THEN "IDLE" ELSE s
    [] s = "FAULT" -> s

Transition ==
  /\ pc = "transition"
  /\ state' = NextState(state, iSeen)
  /\ iSeen' = 0
  /\ pc' = "begin"
  /\ UNCHANGED <<faultCode, warned, joule, batteryVars, fc, sum, tcp>>

\* enter_fault(): the state is stored before the code.
EnterFault ==
  /\ pc = "fault"
  /\ state' = "FAULT"
  /\ pc' = "code"
  /\ UNCHANGED <<faultCode, warned, joule, batteryVars, fc, sum, iSeen, tcp>>

StoreCode ==
  /\ pc = "code"
  /\ faultCode' = fc
  /\ fc' = "NONE"
  /\ pc' = "begin"
  /\ UNCHANGED <<state, warned, joule, batteryVars, sum, iSeen, tcp>>

Physics ==
  BeginUpdate \/ StepModel \/ AddHeat \/ StoreHeat \/ Warn \/ SetWarned
    \/ Judge \/ Transition \/ EnterFault \/ StoreCode
-----------------------------------------------------------------------------
(* TelemetryServer::handle_command() on the receive thread, under state_mu_. *)

SetCurrent ==
  /\ tcp = "ready" /\ "SET_CURRENT" \in Commands
  /\ iLoad' \in Currents
  /\ UNCHANGED <<fsmVars, blockCooling, soc, temp, localVars, tcp>>

SetFault ==
  /\ tcp = "ready" /\ "SET_FAULT" \in Commands
  /\ blockCooling' = TRUE
  /\ UNCHANGED <<fsmVars, iLoad, soc, temp, localVars, tcp>>

ReceiveReset ==
  /\ tcp = "ready" /\ "RESET" \in Commands
  /\ tcp' = "state"
  /\ UNCHANGED <<fsmVars, batteryVars, localVars>>

\* BmsStateMachine::reset(), store by store.
ResetState ==
  /\ tcp = "state"
  /\ state' = "IDLE"
  /\ tcp' = "code"
  /\ UNCHANGED <<faultCode, warned, joule, batteryVars, localVars>>

\* Slip: RESET leaves the fault code standing.
ResetKeepsCode ==
  /\ tcp = "code"
  /\ tcp' = "warned"
  /\ UNCHANGED <<fsmVars, batteryVars, localVars>>

ResetCode ==
  /\ tcp = "code"
  /\ faultCode' = "NONE"
  /\ tcp' = "warned"
  /\ UNCHANGED <<state, warned, joule, batteryVars, localVars>>

ResetWarned ==
  /\ tcp = "warned"
  /\ warned' = FALSE
  /\ tcp' = "joule"
  /\ UNCHANGED <<state, faultCode, joule, batteryVars, localVars>>

ResetJoule ==
  /\ tcp = "joule"
  /\ joule' = 0
  /\ tcp' = "cooling"
  /\ UNCHANGED <<state, faultCode, warned, batteryVars, localVars>>

ResetCooling ==
  /\ tcp = "cooling"
  /\ blockCooling' = FALSE
  /\ tcp' = "load"
  /\ UNCHANGED <<fsmVars, iLoad, soc, temp, localVars>>

ResetLoad ==
  /\ tcp = "load"
  /\ iLoad' = 0
  /\ tcp' = "ready"
  /\ UNCHANGED <<fsmVars, blockCooling, soc, temp, localVars>>

FinishReset ==
  ResetState \/ ResetCode \/ ResetWarned \/ ResetJoule \/ ResetCooling \/ ResetLoad

Command == SetCurrent \/ SetFault \/ ReceiveReset \/ FinishReset
-----------------------------------------------------------------------------
Next == Physics \/ Command

Spec == Init /\ [][Next]_vars

\* The physics thread is woken every millisecond; a RESET that has begun is
\* carried to its end.  Nobody is obliged to send commands.
FairSpec == Spec /\ WF_vars(Physics) /\ WF_vars(FinishReset)
-----------------------------------------------------------------------------
(* What should be true of it. *)

Steps == {"begin", "step", "addHeat", "storeHeat", "warn", "setWarned", "judge",
          "transition", "fault", "code"}

TypeOK ==
  /\ state \in BmsStates /\ faultCode \in FaultCodes /\ warned \in BOOLEAN
  /\ joule \in 0..JouleCap /\ sum \in 0..JouleCap
  /\ iLoad \in Currents /\ iSeen \in Currents /\ blockCooling \in BOOLEAN
  /\ soc \in 0..SocMax /\ temp \in 0..TempCap
  /\ pc \in Steps /\ fc \in FaultCodes
  /\ tcp \in {"ready", "state", "code", "warned", "joule", "cooling", "load"}

\* The protection latches and freezes the cell, even when RESET and update()
\* overlap: nothing is integrated once the state is FAULT (cpp:25), and each
\* time it is left, a RESET received for that purpose is being carried out.
Latch == INSTANCE BmsLatch
           WITH tripped <- state = "FAULT", asked <- tcp = "state",
                charge <- soc, heat <- temp
ImplementsLatch == Latch!LatchSpec

\* No RESET overlaps update(): each is carried out between two updates.
Apart == tcp # "ready" => pc = "begin"

\* No command puts a current beyond the limit under the feet of an update.
CurrentHeld == pc = "addHeat" => ~OverCurrent(iLoad)

\* State and code go together: between updates and resets, FAULT has a code
\* and nothing else has one (test_bms.cpp:93-94, what a telemetry frame shows).
FaultAndCodeAgree ==
  pc = "begin" /\ tcp = "ready" => (state = "FAULT" <=> faultCode # "NONE")

\* "WARN must have fired before FAULT" (test_bms.cpp:126), for a fault by
\* temperature as for one by energy.
WarnedWhenHot == state = "FAULT" /\ faultCode = "OVERTEMPERATURE" => warned

\* "WARN step must precede FAULT step" (test_bms.cpp:127): the energy reaches
\* the fault level only in a step that had been warned about in an earlier one.
WarnBeforeFault == pc = "warn" /\ joule >= EFault => warned

\* Through any number of faults and RESETs none of which overlaps update(),
\* the code tells the state and no heat fault comes unwarned; and if, besides,
\* no update is overtaken by a current beyond the limit, the warning comes in
\* an earlier step.  An overlapping RESET breaks the first, and a current
\* that takes the energy over both levels at once the second.
ProtectedUnlessOverlapped ==
  /\ []Apart => [](FaultAndCodeAgree /\ WarnedWhenHot)
  /\ [](Apart /\ CurrentHeld) => []WarnBeforeFault

\* A current beyond the limit, in either direction, trips the protection
\* unless it is taken back first ("Daemon rejects -> FAULT state").
OvercurrentTrips ==
  iLoad \notin -IMax..IMax ~> state = "FAULT" \/ iLoad \in -IMax..IMax

\* With the load gone for good, the machine comes to rest.
RemovedLoadSettles == <>[](iLoad = 0) => <>[](state \in {"IDLE", "FAULT"})

\* What the repository says and the code does not do.

\* test_bms.cpp:93, after reset() "EXPECT_EQ(fsm.state(), BmsState::IDLE)":
\* when RESET has been carried out, the machine is not in FAULT.
ResetLeavesFault == [][ResetLoad => state' # "FAULT"]_vars
=============================================================================
