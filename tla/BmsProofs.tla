----------------------------- MODULE BmsProofs -----------------------------
(***************************************************************************)
(* Proofs about BmsDaemon, for any currents, thresholds and commands.      *)
(***************************************************************************)
EXTENDS BmsDaemon, TLAPS

\* While update() is under way the state is not FAULT: only the physics
\* thread stores FAULT, as its last step but one.
InUpdate == pc \notin {"begin", "code"} => state # "FAULT"

IInv == TypeOK /\ InUpdate

LEMMA InitIInv == Init => IInv
  <1>1. 0 \in 0..JouleCap /\ 0 \in 0..TempCap
    BY LevelAssumption, EnergyAssumption DEF JouleCap, TempCap
  <1>2. 0 \in Currents /\ SocStart \in 0..SocMax
    BY CurrentAssumption, LevelAssumption
  <1> QED
    BY <1>1, <1>2 DEF Init, IInv, TypeOK, InUpdate, BmsStates, FaultCodes, Steps

LEMMA SocType == ASSUME TypeOK, NEW i PROVE NextSoc(i) \subseteq 0..SocMax
  BY LevelAssumption DEF TypeOK, NextSoc

LEMMA TempType == ASSUME TypeOK, NEW i PROVE NextTemp(i) \subseteq 0..TempCap
  BY LevelAssumption DEF TypeOK, NextTemp, AtMost, TempCap

LEMMA HeatIsEnergy == ASSUME NEW i PROVE Heat(i) \subseteq Nat
  BY EnergyAssumption DEF Heat, JouleCap

LEMMA PhysicsStep == ASSUME IInv, Physics PROVE IInv'
  <1> USE DEF IInv, TypeOK, InUpdate, Steps, BmsStates, FaultCodes
  <1>1. CASE BeginUpdate
    BY <1>1 DEF BeginUpdate, fsmVars, batteryVars
  <1>2. CASE StepModel
    <2>1. soc' \in 0..SocMax /\ temp' \in 0..TempCap
      BY <1>2, SocType, TempType DEF StepModel
    <2>2. fc' \in FaultCodes BY <1>2 DEF StepModel, SafetyCheck
    <2> QED BY <1>2, <2>1, <2>2 DEF StepModel, fsmVars
  <1>3. CASE AddHeat
    <2>1. sum' \in 0..JouleCap
      BY <1>3, HeatIsEnergy, EnergyAssumption DEF AddHeat, AtMost, JouleCap
    <2> QED BY <1>3, <2>1 DEF AddHeat, fsmVars, batteryVars
  <1>4. CASE StoreHeat
    <2>1. 0 \in 0..JouleCap BY EnergyAssumption DEF JouleCap
    <2> QED BY <1>4, <2>1 DEF StoreHeat, batteryVars
  <1>5. CASE Warn BY <1>5 DEF Warn, fsmVars, batteryVars
  <1>6. CASE SetWarned BY <1>6 DEF SetWarned, batteryVars
  <1>7. CASE Judge BY <1>7 DEF Judge, fsmVars, batteryVars
  <1>8. CASE Transition
    <2>1. state' \in BmsStates BY <1>8 DEF Transition, NextState
    <2> QED BY <1>8, <2>1, CurrentAssumption DEF Transition, batteryVars
  <1>9. CASE EnterFault BY <1>9 DEF EnterFault, batteryVars
  <1>10. CASE StoreCode BY <1>10 DEF StoreCode, batteryVars
  <1> QED BY <1>1, <1>2, <1>3, <1>4, <1>5, <1>6, <1>7, <1>8, <1>9, <1>10
          DEF Physics

LEMMA CommandStep == ASSUME IInv, Command PROVE IInv'
  <1> USE CurrentAssumption, EnergyAssumption
      DEF IInv, TypeOK, InUpdate, BmsStates, FaultCodes, fsmVars, batteryVars, localVars
  <1>1. CASE SetCurrent BY <1>1 DEF SetCurrent
  <1>2. CASE SetFault BY <1>2 DEF SetFault
  <1>3. CASE ResetState BY <1>3 DEF ResetState
  <1>4. CASE ResetCode BY <1>4 DEF ResetCode
  <1>5. CASE ResetWarned BY <1>5 DEF ResetWarned
  <1>6. CASE ResetJoule BY <1>6 DEF ResetJoule, JouleCap
  <1>7. CASE ResetCooling BY <1>7 DEF ResetCooling
  <1>8. CASE ResetLoad BY <1>8 DEF ResetLoad
  <1>9. CASE ReceiveReset BY <1>9 DEF ReceiveReset
  <1> QED BY <1>1, <1>2, <1>3, <1>4, <1>5, <1>6, <1>7, <1>8, <1>9 DEF Command, FinishReset

LEMMA StepIInv == IInv /\ [Next]_vars => IInv'
  <1> SUFFICES ASSUME IInv, [Next]_vars PROVE IInv' OBVIOUS
  <1>1. CASE UNCHANGED vars
    BY <1>1 DEF vars, fsmVars, batteryVars, localVars, IInv, TypeOK, InUpdate
  <1> QED BY <1>1, PhysicsStep, CommandStep DEF Next

LEMMA Invariance == Spec => []IInv
  BY InitIInv, StepIInv, PTL DEF Spec
-----------------------------------------------------------------------------
\* Every variable keeps its type and its bound.
THEOREM TypeCorrect == Spec => []TypeOK
  <1>1. IInv => TypeOK BY DEF IInv
  <1> QED BY <1>1, Invariance, PTL

\* The protection latches and freezes the cell, even against a RESET that
\* overlaps the update: no step integrates in FAULT, and whatever leaves FAULT
\* is a RESET that was received and had not yet been carried out.
THEOREM LatchRefinement == Spec => ImplementsLatch
  <1> DEFINE LNext ==
        Latch!Ask \/ Latch!Trip \/ Latch!Release \/ Latch!Evolve
  <1>1. Init => ~(state = "FAULT") /\ ~(tcp = "state") BY DEF Init
  <1>2. IInv /\ [Next]_vars => [LNext]_(Latch!latchVars)
    <2> SUFFICES ASSUME IInv, [Next]_vars PROVE [LNext]_(Latch!latchVars) OBVIOUS
    <2> USE DEF Latch!Ask, Latch!Trip, Latch!Release, Latch!Evolve, Latch!latchVars
    <2>1. CASE StepModel
      BY <2>1 DEF StepModel, IInv, InUpdate, fsmVars
    <2>2. CASE EnterFault
      BY <2>2 DEF EnterFault, IInv, InUpdate, batteryVars
    <2>3. CASE Transition
      <3>1. state # "FAULT" /\ state' # "FAULT"
        BY <2>3 DEF Transition, NextState, IInv, InUpdate, TypeOK, BmsStates
      <3> QED BY <2>3, <3>1 DEF Transition
    <2>4. CASE ReceiveReset
      BY <2>4 DEF ReceiveReset, fsmVars, batteryVars
    <2>5. CASE ResetState
      BY <2>5 DEF ResetState, batteryVars
    <2>6. CASE UNCHANGED <<state, tcp = "state", soc, temp>>
      BY <2>6
    <2>7. StepModel \/ EnterFault \/ Transition \/ ReceiveReset \/ ResetState
            \/ UNCHANGED <<state, tcp = "state", soc, temp>>
      BY DEF Next, Physics, Command, FinishReset, BeginUpdate, AddHeat, StoreHeat,
         Warn, SetWarned, Judge, StoreCode, SetCurrent, SetFault, ResetCode,
         ResetWarned, ResetJoule, ResetCooling, ResetLoad, vars, fsmVars, batteryVars
    <2> QED BY <2>1, <2>2, <2>3, <2>4, <2>5, <2>6, <2>7
  <1> QED BY <1>1, <1>2, Invariance, PTL DEF Spec, ImplementsLatch, Latch!LatchSpec
-----------------------------------------------------------------------------
(* As long as no RESET overlaps update(), the two threads share nothing that *)
(* matters: the state and the code go together, and heat is warned about.    *)

\* The code is stored one step after the state, and cleared one after it.
Coded ==
  /\ pc = "begin" /\ tcp \in {"ready", "state"} =>
       (state = "FAULT" <=> faultCode # "NONE")
  /\ pc # "begin" => faultCode = "NONE"
  /\ pc \in {"fault", "code"} => fc # "NONE"
  /\ pc = "code" => state = "FAULT"
  /\ tcp \notin {"ready", "state"} => state # "FAULT"
  /\ tcp \notin {"ready", "state", "code"} => faultCode = "NONE"

\* A fault by temperature is warned about between the model and the judgement.
HotWarned ==
  /\ pc \in {"addHeat", "storeHeat", "warn", "setWarned"} /\ fc = "OVERTEMPERATURE" =>
       temp > TFault
  /\ pc = "judge" /\ (fc = "OVERTEMPERATURE" \/ joule >= EWarn) => warned
  /\ pc \in {"fault", "code"} /\ fc = "OVERTEMPERATURE" => warned
  /\ state = "FAULT" /\ faultCode = "OVERTEMPERATURE" => warned

ApartInv == IInv /\ Apart /\ Coded /\ HotWarned

LEMMA ApartPhysics ==
  ASSUME ApartInv, Physics, Apart' PROVE (Coded /\ HotWarned)'
  <1>1. tcp' = tcp
    BY DEF Physics, BeginUpdate, StepModel, AddHeat, StoreHeat,
       Warn, SetWarned, Judge, Transition, EnterFault, StoreCode
  <1> USE EnergyAssumption, LevelAssumption
      DEF ApartInv, IInv, TypeOK, InUpdate, Apart, Coded, HotWarned,
          fsmVars, batteryVars, Steps, JouleCap
  <1>2. CASE BeginUpdate BY <1>1, <1>2 DEF BeginUpdate
  <1>3. CASE StepModel BY <1>1, <1>3 DEF StepModel, SafetyCheck
  <1>4. CASE AddHeat BY <1>1, <1>4 DEF AddHeat
  <1>5. CASE StoreHeat BY <1>1, <1>5 DEF StoreHeat
  <1>6. CASE Warn BY <1>1, <1>6 DEF Warn, TempCap
  <1>7. CASE SetWarned BY <1>1, <1>7 DEF SetWarned
  <1>8. CASE Judge BY <1>1, <1>8 DEF Judge
  <1>9. CASE Transition
    <2>1. state' # "FAULT" BY <1>9 DEF Transition, NextState, BmsStates
    <2> QED BY <1>1, <1>9, <2>1 DEF Transition
  <1>10. CASE EnterFault BY <1>1, <1>10 DEF EnterFault
  <1>11. CASE StoreCode BY <1>1, <1>11 DEF StoreCode
  <1> QED BY <1>2, <1>3, <1>4, <1>5, <1>6, <1>7, <1>8, <1>9, <1>10, <1>11
          DEF Physics

LEMMA ApartCommand ==
  ASSUME ApartInv, Command, Apart' PROVE (Coded /\ HotWarned)'
  <1> USE DEF ApartInv, IInv, TypeOK, InUpdate, Apart, Coded, HotWarned,
          fsmVars, batteryVars, localVars
  <1>1. CASE SetCurrent BY <1>1 DEF SetCurrent
  <1>2. CASE SetFault BY <1>2 DEF SetFault
  <1>3. CASE ReceiveReset BY <1>3 DEF ReceiveReset
  <1>4. CASE ResetState BY <1>4 DEF ResetState
  <1>5. CASE ResetCode BY <1>5 DEF ResetCode
  <1>6. CASE ResetWarned BY <1>6 DEF ResetWarned
  <1>7. CASE ResetJoule BY <1>7 DEF ResetJoule
  <1>8. CASE ResetCooling BY <1>8 DEF ResetCooling
  <1>9. CASE ResetLoad BY <1>9 DEF ResetLoad
  <1> QED BY <1>1, <1>2, <1>3, <1>4, <1>5, <1>6, <1>7, <1>8, <1>9
          DEF Command, FinishReset

LEMMA ApartStep == ASSUME ApartInv, [Next]_vars, Apart' PROVE ApartInv'
  <1>1. IInv' BY StepIInv DEF ApartInv
  <1>2. CASE Physics BY <1>1, <1>2, ApartPhysics DEF ApartInv
  <1>3. CASE Command BY <1>1, <1>3, ApartCommand DEF ApartInv
  <1>4. CASE UNCHANGED vars
    BY <1>1, <1>4 DEF vars, fsmVars, batteryVars, localVars, ApartInv, Coded, HotWarned
  <1> QED BY <1>2, <1>3, <1>4 DEF Next

\* If, besides, no update is overtaken by a current beyond the limit, the
\* energy stored so far has been warned about, but for the steps between
\* storing it and looking at it; while RESET clears it, it does not matter.
StepwiseWarned ==
  /\ pc \notin {"warn", "setWarned"} /\ tcp # "joule" /\ joule >= EWarn => warned
  /\ pc = "storeHeat" => sum <= joule + MaxHeat
  /\ pc = "warn" /\ joule >= EFault => warned

StepwiseInv == ApartInv /\ CurrentHeld /\ StepwiseWarned

LEMMA StepwisePhysics ==
  ASSUME StepwiseInv, Physics, Apart' PROVE StepwiseWarned'
  <1>1. tcp' = tcp
    BY DEF Physics, BeginUpdate, StepModel, AddHeat, StoreHeat,
       Warn, SetWarned, Judge, Transition, EnterFault, StoreCode
  <1> USE EnergyAssumption
      DEF StepwiseInv, StepwiseWarned, ApartInv, IInv, TypeOK, Apart,
          fsmVars, batteryVars, Steps, JouleCap
  <1>2. CASE BeginUpdate BY <1>1, <1>2 DEF BeginUpdate
  <1>3. CASE StepModel BY <1>1, <1>3 DEF StepModel
  <1>4. CASE AddHeat
    <2>1. PICK h \in Heat(iLoad) : sum' = AtMost(joule + h, JouleCap)
      BY <1>4 DEF AddHeat
    <2>2. h \in 0..MaxHeat BY <1>4, <2>1 DEF AddHeat, CurrentHeld, Heat
    <2>3. sum' <= joule + MaxHeat BY <2>1, <2>2 DEF AtMost
    <2> QED BY <1>1, <1>4, <2>3 DEF AddHeat
  <1>5. CASE StoreHeat BY <1>1, <1>5 DEF StoreHeat
  <1>6. CASE Warn BY <1>1, <1>6 DEF Warn
  <1>7. CASE SetWarned BY <1>1, <1>7 DEF SetWarned
  <1>8. CASE Judge BY <1>1, <1>8 DEF Judge
  <1>9. CASE Transition BY <1>1, <1>9 DEF Transition
  <1>10. CASE EnterFault BY <1>1, <1>10 DEF EnterFault
  <1>11. CASE StoreCode BY <1>1, <1>11 DEF StoreCode
  <1> QED BY <1>2, <1>3, <1>4, <1>5, <1>6, <1>7, <1>8, <1>9, <1>10, <1>11
          DEF Physics

LEMMA StepwiseCommand ==
  ASSUME StepwiseInv, Command, Apart' PROVE StepwiseWarned'
  <1> USE EnergyAssumption
      DEF StepwiseInv, StepwiseWarned, ApartInv, Apart, fsmVars, localVars
  <1>1. CASE SetCurrent BY <1>1 DEF SetCurrent
  <1>2. CASE SetFault BY <1>2 DEF SetFault
  <1>3. CASE ReceiveReset BY <1>3 DEF ReceiveReset
  <1>4. CASE ResetState BY <1>4 DEF ResetState
  <1>5. CASE ResetCode BY <1>5 DEF ResetCode
  <1>6. CASE ResetWarned BY <1>6 DEF ResetWarned
  <1>7. CASE ResetJoule BY <1>7 DEF ResetJoule
  <1>8. CASE ResetCooling BY <1>8 DEF ResetCooling
  <1>9. CASE ResetLoad BY <1>9 DEF ResetLoad
  <1> QED BY <1>1, <1>2, <1>3, <1>4, <1>5, <1>6, <1>7, <1>8, <1>9
          DEF Command, FinishReset

LEMMA StepwiseStep ==
  ASSUME StepwiseInv, [Next]_vars, (Apart /\ CurrentHeld)' PROVE StepwiseInv'
  <1>1. ApartInv' BY ApartStep DEF StepwiseInv
  <1>2. CASE Physics BY <1>1, <1>2, StepwisePhysics DEF StepwiseInv
  <1>3. CASE Command BY <1>1, <1>3, StepwiseCommand DEF StepwiseInv
  <1>4. CASE UNCHANGED vars
    BY <1>1, <1>4 DEF vars, fsmVars, localVars, StepwiseInv, StepwiseWarned
  <1> QED BY <1>2, <1>3, <1>4 DEF Next

\* Through any number of faults and RESETs none of which overlaps update(),
\* a machine in FAULT has a code and no other has one, and no heat fault comes
\* unwarned, even if a current beyond the limit takes the energy over both
\* levels at once; without such a current the warning comes a step earlier.
THEOREM Protection == Spec => ProtectedUnlessOverlapped
  <1>1. Init => Apart /\ ApartInv
    BY InitIInv, EnergyAssumption DEF Init, ApartInv, Apart, Coded, HotWarned
  <1>2. ApartInv /\ [Next]_vars /\ Apart' => ApartInv'
    BY ApartStep
  <1>3. ApartInv => FaultAndCodeAgree /\ WarnedWhenHot
    BY DEF ApartInv, Coded, HotWarned, FaultAndCodeAgree, WarnedWhenHot
  <1>4. Init => StepwiseInv
    BY <1>1, EnergyAssumption DEF Init, StepwiseInv, StepwiseWarned, CurrentHeld
  <1>5. StepwiseInv /\ [Next]_vars /\ (Apart /\ CurrentHeld)' => StepwiseInv'
    BY StepwiseStep
  <1>6. StepwiseInv => WarnBeforeFault
    BY DEF StepwiseInv, StepwiseWarned, WarnBeforeFault
  <1>7. Spec => ([]Apart => [](FaultAndCodeAgree /\ WarnedWhenHot))
    BY <1>1, <1>2, <1>3, PTL DEF Spec
  <1>8. Spec => ([](Apart /\ CurrentHeld) => []WarnBeforeFault)
    BY <1>4, <1>5, <1>6, PTL DEF Spec
  <1> QED BY <1>7, <1>8 DEF ProtectedUnlessOverlapped
=============================================================================
