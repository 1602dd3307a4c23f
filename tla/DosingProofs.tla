---------------------------- MODULE DosingProofs ----------------------------
(***************************************************************************)
(* Proofs about DosingController, for any tags, clients, target volume and *)
(* backlog.  The server and the clients never touch the machine, the main  *)
(* loop's program counter or the published registers, so the argument is   *)
(* about the seven steps of the main loop.                                 *)
(***************************************************************************)
EXTENDS DosingController, TLAPS

\* Where the published registers may lag behind the machine.
Lag ==
  /\ pc \in {"sample", "update"} => regs.state = state /\ regs.volume = acc
  /\ pc \in {"rfid", "state"} => regs.volume = acc
  /\ pc \in {"flow", "valve", "volume"} =>
       /\ regs.volume <= acc \/ (acc = 0 /\ state = "IDLE")
       /\ regs.state = "COMPLETE" => regs.volume >= Target
  /\ regs.state = "COMPLETE" => state \in {"COMPLETE", "IDLE"}

IInv ==
  /\ TypeOK
  /\ NoOverdose
  /\ pc = "update" => flowing = (state = "DOSING")
  /\ Lag

\* What the server thread and the clients cannot change.
LEMMA Bystanders ==
  ASSUME Server \/ \E c \in Clients : Client(c)
  PROVE  UNCHANGED <<state, acc, activeTag, pc, scanned, flowing, valveCmd, regs>>
  <1>1. CASE Server
    BY <1>1 DEF Server, Accept, Serve, HangUp, loopVars, fsmVars
  <1>2. CASE \E c \in Clients : Client(c)
    BY <1>2 DEF Client, Connect, Poll, WriteValve, Command, Drop, Send, loopVars, fsmVars
  <1> QED BY <1>1, <1>2

\* A query or a closed end leaves a connection a connection.
LEMMA ConnectionTypes ==
  ASSUME NEW conn \in Connection, NEW c, NEW req \in Request, NEW lost \in BOOLEAN
  PROVE  WithQuery(conn, c, req) \in Connection /\ Closed(conn, c, lost) \in Connection
  BY DEF WithQuery, Closed, Connection, Request, NoRequest, Coils, OwnedBy

LEMMA MapSeq ==
  ASSUME NEW S, NEW s \in Seq(S), NEW t, DOMAIN t = DOMAIN s,
         t = [i \in DOMAIN s |-> t[i]], \A i \in DOMAIN s : t[i] \in S
  PROVE  t \in Seq(S)
  <1>1. PICK n \in Nat : s \in [1..n -> S]
    OBVIOUS
  <1>2. t \in [1..n -> S] BY <1>1
  <1> QED BY <1>1, <1>2

LEMMA InitIInv == Init => IInv
  <1> SUFFICES ASSUME Init PROVE IInv OBVIOUS
  <1>1. /\ regs.state = "IDLE" /\ regs.volume = 0 /\ state = "IDLE" /\ acc = 0
        /\ pc = "sample"
        /\ regs \in [flow: BOOLEAN, valve: BOOLEAN, volume: Nat,
                     rfid: Tags \cup {NoTag}, state: States]
    BY DEF Init, FsmInit, States
  <1>2. serving \in Connection /\ backlog \in Seq(Connection)
    BY DEF Init, Connection, NoConnection, Request, NoRequest, Coils
  <1>3. TypeOK
    BY <1>1, <1>2 DEF TypeOK, Init, FsmInit, States, Coils
  <1> QED BY <1>1, <1>3, VolumeAssumption DEF IInv, NoOverdose, Lag

\* The server and the clients keep the types of what they do change.
LEMMA ServerTypes == ASSUME TypeOK, Server PROVE TypeOK'
  <1>1. UNCHANGED <<state, acc, activeTag, pc, scanned, flowing, valveCmd, regs>>
    BY Bystanders
  <1>2. /\ coils' \in [Coils -> BOOLEAN] /\ tabBits' \in [Coils -> BOOLEAN]
        /\ serving' \in Connection /\ backlog' \in Seq(Connection)
        /\ phase' \in [Clients -> {"down", "idle", "waiting", "answered"}]
        /\ valve' \in [Plcs -> BOOLEAN]
    <2>1. CASE Accept
      BY <2>1 DEF Accept, TypeOK, clientVars
    <2>2. CASE HangUp
      BY <2>2 DEF HangUp, TypeOK, clientVars, NoConnection, Connection, Request,
                  NoRequest, Coils
    <2>3. CASE Serve
      <3>1. serving' \in Connection
        BY <2>3 DEF Serve, TypeOK, Connection, Request, NoRequest, Coils
      <3>2. tabBits' \in [Coils -> BOOLEAN] /\ coils' \in [Coils -> BOOLEAN]
        BY <2>3 DEF Serve, TypeOK, Connection, Request, Coils
      <3>3. DecideValve(regs) \in BOOLEAN
        BY DEF DecideValve, TypeOK
      <3>4. /\ phase' \in [Clients -> {"down", "idle", "waiting", "answered"}]
            /\ valve' \in [Plcs -> BOOLEAN]
        BY <2>3, <3>3 DEF Serve, TypeOK, ReadAnswered, clientVars
      <3> QED BY <2>3, <3>1, <3>2, <3>4 DEF Serve, TypeOK
    <2> QED BY <2>1, <2>2, <2>3 DEF Server
  <1> QED BY <1>1, <1>2 DEF TypeOK

LEMMA ClientTypes == ASSUME TypeOK, NEW c \in Clients, Client(c) PROVE TypeOK'
  <1> DEFINE Phases == {"down", "idle", "waiting", "answered"}
  <1> DEFINE Good == /\ coils' \in [Coils -> BOOLEAN] /\ tabBits' \in [Coils -> BOOLEAN]
                     /\ serving' \in Connection /\ backlog' \in Seq(Connection)
                     /\ phase' \in [Clients -> Phases] /\ valve' \in [Plcs -> BOOLEAN]
  <1>1. UNCHANGED <<state, acc, activeTag, pc, scanned, flowing, valveCmd, regs>>
    BY Bystanders
  <1>2. \A i \in DOMAIN backlog : backlog[i] \in Connection
    BY DEF TypeOK
  <1>3. ASSUME NEW from, NEW req \in Request, Send(c, from, req) PROVE Good
    <2>1. \A i \in DOMAIN backlog : WithQuery(backlog[i], c, req) \in Connection
      BY <1>2, ConnectionTypes
    <2>2. backlog' \in Seq(Connection)
      BY <1>3, <2>1, MapSeq DEF Send, TypeOK
    <2>3. serving' \in Connection
      BY <1>3, ConnectionTypes DEF Send, TypeOK
    <2> QED BY <1>3, <2>2, <2>3 DEF Send, TypeOK
  <1>4. Good
    <2>1. CASE Connect(c)
      <3>1. [owner |-> c, req |-> NoRequest, open |-> TRUE] \in Connection
        BY DEF Connection, Request, NoRequest, Coils
      <3> QED BY <2>1, <3>1 DEF Connect, TypeOK
    <2>2. CASE Poll(c)
      <3>1. ReadRegisters \in Request
        BY DEF ReadRegisters, Request, NoRequest, Coils
      <3> QED BY <2>2, <3>1, <1>3 DEF Poll
    <2>3. CASE WriteValve(c)
      <3>1. WriteCoil("valve", valve[c]) \in Request
        BY <2>3 DEF WriteCoil, WriteValve, Request, Coils, TypeOK
      <3> QED BY <2>3, <3>1, <1>3 DEF WriteValve
    <2>4. CASE Command(c)
      <3>1. \A coil \in Coils, value \in BOOLEAN : WriteCoil(coil, value) \in Request
        BY DEF WriteCoil, Request
      <3> QED BY <2>4, <3>1, <1>3 DEF Command
    <2>5. CASE Drop(c)
      <3>1. PICK lost \in BOOLEAN :
              /\ serving' = Closed(serving, c, lost)
              /\ backlog' = [i \in DOMAIN backlog |-> Closed(backlog[i], c, lost)]
        BY <2>5 DEF Drop
      <3>2. NoRequest \in Request BY DEF NoRequest, Request, Coils
      <3>3. \A conn \in Connection : Closed(conn, c, lost) \in Connection
        BY <3>2, ConnectionTypes
      <3>4. serving' \in Connection BY <3>1, <3>3 DEF TypeOK
      <3>5. backlog' \in Seq(Connection)
        BY <3>1, <3>3, <1>2, MapSeq DEF TypeOK
      <3> QED BY <2>5, <3>4, <3>5 DEF Drop, TypeOK
    <2> QED BY <2>1, <2>2, <2>3, <2>4, <2>5 DEF Client
  <1> QED BY <1>1, <1>4 DEF TypeOK

\* One update() keeps the machine typed and under its target.
LEMMA UpdateBound ==
  ASSUME TypeOK, NoOverdose, NEW v \in BOOLEAN, NEW r \in BOOLEAN,
         NEW p \in 0..MaxPour, NEW t \in Tags \cup {NoTag}, Update(v, r, p, t)
  PROVE  /\ state' \in States /\ acc' \in Nat /\ activeTag' \in Tags \cup {NoTag}
         /\ NoOverdose'
         /\ acc' >= acc \/ (acc' = 0 /\ state' = "IDLE")
         /\ state = "COMPLETE" => state' \in {"COMPLETE", "IDLE"}
  <1> USE VolumeAssumption DEF TypeOK, NoOverdose, States
  <1>1. CASE r /\ ResetFsm BY <1>1 DEF ResetFsm
  <1>2. CASE StartBatch(v, t) BY <1>2 DEF StartBatch
  <1>3. CASE PourBatch(v, p) BY <1>3 DEF PourBatch
  <1>4. CASE ResumeBatch(v) BY <1>4 DEF ResumeBatch
  <1>5. CASE StayComplete BY <1>5 DEF StayComplete, fsmVars
  <1> QED BY <1>1, <1>2, <1>3, <1>4, <1>5 DEF Update

LEMMA LoopStep == ASSUME IInv, MainLoop PROVE IInv'
  <1> USE DEF IInv
  <1>1. UNCHANGED <<coils, tabBits, serving, backlog, phase, valve>>
    BY DEF MainLoop, Sample, RunFsm, PublishFlow, PublishValve, PublishVolume,
           PublishRfid, PublishState, Publish, serverVars, clientVars
  <1>2. CASE Sample
    BY <1>1, <1>2 DEF Sample, Scans, TypeOK, NoOverdose, Lag, fsmVars, Coils
  <1>3. CASE RunFsm
    <2>1. PICK p \in Pours : Update(valveCmd, coils["reset"], p, scanned)
      BY <1>3 DEF RunFsm
    <2>2. p \in 0..MaxPour /\ coils["reset"] \in BOOLEAN
      BY VolumeAssumption DEF Pours, TypeOK, Coils
    <2>3. /\ state' \in States /\ acc' \in Nat /\ activeTag' \in Tags \cup {NoTag}
          /\ NoOverdose'
          /\ acc' >= acc \/ (acc' = 0 /\ state' = "IDLE")
          /\ state = "COMPLETE" => state' \in {"COMPLETE", "IDLE"}
      BY <2>1, <2>2, UpdateBound DEF TypeOK
    <2>4. TypeOK' BY <1>1, <1>3, <2>3 DEF RunFsm, TypeOK
    <2>5. Lag'
      BY <1>3, <2>3 DEF RunFsm, Lag, NoOverdose, TypeOK
    <2> QED BY <1>3, <2>3, <2>4, <2>5 DEF RunFsm
  <1>4. CASE PublishFlow
    BY <1>1, <1>4 DEF PublishFlow, Publish, TypeOK, NoOverdose, Lag, fsmVars
  <1>5. CASE PublishValve
    BY <1>1, <1>5 DEF PublishValve, Publish, TypeOK, NoOverdose, Lag, fsmVars
  <1>6. CASE PublishVolume
    BY <1>1, <1>6 DEF PublishVolume, Publish, TypeOK, NoOverdose, Lag, fsmVars
  <1>7. CASE PublishRfid
    BY <1>1, <1>7 DEF PublishRfid, Publish, TypeOK, NoOverdose, Lag, fsmVars
  <1>8. CASE PublishState
    BY <1>1, <1>8 DEF PublishState, Publish, TypeOK, NoOverdose, Lag, fsmVars
  <1> QED BY <1>2, <1>3, <1>4, <1>5, <1>6, <1>7, <1>8 DEF MainLoop

LEMMA StepIInv == IInv /\ [Next]_vars => IInv'
  <1> SUFFICES ASSUME IInv, [Next]_vars PROVE IInv' OBVIOUS
  <1>1. CASE MainLoop BY <1>1, LoopStep
  <1>2. CASE Server \/ \E c \in Clients : Client(c)
    <2>1. TypeOK' BY <1>2, ServerTypes, ClientTypes DEF IInv
    <2>2. UNCHANGED <<state, acc, activeTag, pc, scanned, flowing, valveCmd, regs>>
      BY <1>2, Bystanders
    <2> QED BY <2>1, <2>2 DEF IInv, NoOverdose, Lag
  <1>3. CASE UNCHANGED vars
    BY <1>3 DEF vars, fsmVars, loopVars, serverVars, clientVars, IInv, TypeOK,
                NoOverdose, Lag
  <1> QED BY <1>1, <1>2, <1>3 DEF Next

LEMMA Invariance == Spec => []IInv
  BY InitIInv, StepIInv, PTL DEF Spec
-----------------------------------------------------------------------------
\* Every variable keeps its type, for any number of clients and connections.
THEOREM TypeCorrect == Spec => []TypeOK
  <1>1. IInv => TypeOK BY DEF IInv
  <1> QED BY <1>1, Invariance, PTL

\* No batch exceeds its target by a whole cycle's flow, and COMPLETE means
\* exactly that the target has been reached.
THEOREM Overdose == Spec => []NoOverdose
  <1>1. IInv => NoOverdose BY DEF IInv
  <1> QED BY <1>1, Invariance, PTL

\* A published COMPLETE comes with the full volume, torn reads included.
THEOREM PublishedComplete == Spec => []CompletePublished
  <1>1. IInv => CompletePublished
    BY VolumeAssumption DEF IInv, TypeOK, NoOverdose, Lag, CompletePublished, States
  <1> QED BY <1>1, Invariance, PTL

\* What is published as the volume of a batch falls only when it is zeroed.
THEOREM PublishedVolume == Spec => VolumeFallsOnlyByReset
  <1>1. IInv /\ [Next]_vars =>
          [regs'.volume < regs.volume => regs'.volume = 0 /\ state = "IDLE"]_vars
    <2> SUFFICES ASSUME IInv, [Next]_vars, vars' # vars, regs'.volume < regs.volume
                 PROVE  regs'.volume = 0 /\ state = "IDLE"
      BY DEF vars
    <2>1. regs' # regs BY DEF IInv, TypeOK
    <2>2. MainLoop BY <2>1, Bystanders DEF Next, vars
    <2>3. regs.volume \in Nat BY DEF IInv, TypeOK
    <2>4. CASE PublishVolume
      BY <2>4 DEF PublishVolume, Publish, IInv, TypeOK, Lag
    <2>5. ASSUME NEW step, NEW field \in {"flow", "valve", "rfid", "state"}, NEW value,
                 NEW next, Publish(step, field, value, next)
          PROVE  FALSE
      BY <2>3, <2>5 DEF Publish, IInv, TypeOK
    <2> QED
      BY <2>1, <2>2, <2>4, <2>5 DEF MainLoop, Sample, RunFsm, PublishFlow,
         PublishValve, PublishRfid, PublishState
  <1> QED BY <1>1, Invariance, PTL DEF Spec, VolumeFallsOnlyByReset
-----------------------------------------------------------------------------
(* The daemon implements DosingBatch. *)

LEMMA UpdateImplementsBatch ==
  ASSUME IInv, RunFsm
  PROVE  [Batch!BatchNext]_(Batch!batchVars)
  <1> USE DEF IInv, TypeOK, Batch!BatchNext, Batch!batchVars
  <1>1. PICK p \in Pours : Update(valveCmd, coils["reset"], p, scanned)
    BY DEF RunFsm
  <1>2. flowing = (state = "DOSING") BY DEF RunFsm
  <1>3. CASE ResetFsm
    BY <1>3 DEF ResetFsm, Batch!Abandon
  <1>4. CASE StartBatch(valveCmd, scanned)
    BY <1>4 DEF StartBatch, Batch!Begin
  <1>5. CASE PourBatch(valveCmd, p)
    <2>1. p \in 1..MaxPour BY <1>2, <1>5 DEF Pours, PourBatch
    <2>2. acc' \in (acc + 1)..(acc + MaxPour)
      BY <2>1, <1>5, VolumeAssumption DEF PourBatch
    <2>3. Batch!Dispense
      BY <2>2, <1>5 DEF PourBatch, Batch!Dispense
    <2> QED BY <2>3
  <1>6. CASE ResumeBatch(valveCmd)
    BY <1>6 DEF ResumeBatch
  <1>7. CASE StayComplete
    BY <1>7 DEF StayComplete, fsmVars
  <1> QED BY <1>1, <1>3, <1>4, <1>5, <1>6, <1>7 DEF Update

\* One tag per batch, liquid only while it runs, done by the amount that
\* reaches the target: every step of the daemon, its server and its clients
\* is a step of the batch or leaves it alone.
THEOREM Refinement == Spec => ImplementsBatch
  <1>1. Init => Batch!BatchInit
    BY DEF Init, FsmInit, Batch!BatchInit
  <1>2. IInv /\ [Next]_vars => [Batch!BatchNext]_(Batch!batchVars)
    <2> SUFFICES ASSUME IInv, [Next]_vars PROVE [Batch!BatchNext]_(Batch!batchVars)
      OBVIOUS
    <2>1. CASE RunFsm BY <2>1, UpdateImplementsBatch
    <2>2. CASE UNCHANGED <<state, acc, activeTag>>
      BY <2>2 DEF Batch!batchVars
    <2>3. RunFsm \/ UNCHANGED <<state, acc, activeTag>>
      BY Bystanders DEF Next, MainLoop, Sample, PublishFlow, PublishValve,
         PublishVolume, PublishRfid, PublishState, Publish, vars, fsmVars
    <2> QED BY <2>1, <2>2, <2>3
  <1> QED BY <1>1, <1>2, Invariance, PTL DEF Spec, ImplementsBatch, Batch!BatchSpec
=============================================================================
