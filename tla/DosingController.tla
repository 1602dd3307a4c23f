-------------------------- MODULE DosingController --------------------------
(***************************************************************************)
(* The dosing daemon and the Modbus clients around it.                     *)
(*                                                                         *)
(*  - the main loop of controller/src/main.cpp: sample the reader, the     *)
(*    flow sensor and the two coils, drive the machine, then publish five  *)
(*    registers, each under a lock of its own;                             *)
(*  - the server thread of controller/src/ModbusServer.cpp: one connection *)
(*    at a time; every query first copies the coils out of the Modbus      *)
(*    mapping and the registers into it, and only then is answered, so a   *)
(*    coil written by a query reaches the main loop with the next one;     *)
(*  - its clients: the PLC simulator (reads, decides, writes the valve     *)
(*    coil), the collector (reads only) and operator consoles, which       *)
(*    write any coil.  A client may lose its connection at any point; the  *)
(*    request it had sent may still be read by the server.                 *)
(*                                                                         *)
(* ModbusServer::stop() is not modelled: main() never returns.  The copy   *)
(* of the registers at accept is not modelled either, since the copy each  *)
(* query makes overwrites it before any reply is built.                    *)
(***************************************************************************)
EXTENDS DosingFsm, Sequences

CONSTANTS
  Plcs,        \* PLC simulators
  Collectors,  \* collectors
  Operators,   \* consoles that write coils by hand
  NoClient,    \* owner of no connection
  MayDrop,     \* the clients that may lose their connection
  Backlog      \* connections the kernel completes before accept()

Clients == Plcs \cup Collectors \cup Operators

ASSUME ClientAssumption ==
  /\ NoClient \notin Clients
  /\ Plcs \cap Collectors = {} /\ Plcs \cap Operators = {}
  /\ Collectors \cap Operators = {}
  /\ MayDrop \subseteq Clients
ASSUME BacklogAssumption == Backlog \in Nat \ {0}

VARIABLES
  pc,        \* next step of the main loop
  scanned,   \* local tag of this cycle
  flowing,   \* local flow_read of this cycle, as "is there flow"
  valveCmd,  \* local valve of this cycle
  regs,      \* regs_, the published registers
  coils,     \* coils_, what the main loop reads
  tabBits,   \* mb_map->tab_bits, what clients write
  serving,   \* the accepted connection
  backlog,   \* connections waiting for accept()
  phase,     \* what each client is doing
  valve      \* the PLC's local: the decision it is about to write

loopVars == <<pc, scanned, flowing, valveCmd>>
serverVars == <<coils, tabBits, serving, backlog>>
clientVars == <<phase, valve>>
vars == <<fsmVars, loopVars, regs, serverVars, clientVars>>

Coils == {"valve", "reset"}
Request == [kind: {"none", "read", "write"}, coil: Coils, value: BOOLEAN]
NoRequest == [kind |-> "none", coil |-> "valve", value |-> FALSE]
ReadRegisters == [NoRequest EXCEPT !.kind = "read"]
WriteCoil(coil, value) == [kind |-> "write", coil |-> coil, value |-> value]

\* A TCP connection: whose it is, the query sent on it and not yet
\* received, and whether the client still holds its end.
Connection == [owner: Clients \cup {NoClient}, req: Request, open: BOOLEAN]
NoConnection == [owner |-> NoClient, req |-> NoRequest, open |-> FALSE]

Init ==
  /\ FsmInit
  /\ pc = "sample" /\ scanned = NoTag /\ flowing = FALSE /\ valveCmd = FALSE
  /\ regs = [flow |-> FALSE, valve |-> FALSE, volume |-> 0, rfid |-> NoTag,
             state |-> "IDLE"]
  /\ coils = [c \in Coils |-> FALSE]
  /\ tabBits = [c \in Coils |-> FALSE]
  /\ serving = NoConnection
  /\ backlog = <<>>
  /\ phase = [c \in Clients |-> "down"]
  /\ valve = [c \in Plcs |-> FALSE]
-----------------------------------------------------------------------------
(* The main loop. *)

\* A scan sees any tag of the pool, or none.
Scans == Tags \cup {NoTag}

\* scan(), then a flow reading that is positive exactly while dosing, then
\* get_valve_cmd() under the lock.
Sample ==
  /\ pc = "sample"
  /\ scanned' \in Scans
  /\ flowing' = (state = "DOSING")
  /\ valveCmd' = coils["valve"]
  /\ pc' = "update"
  /\ UNCHANGED <<fsmVars, regs, serverVars, clientVars>>

\* Slip: FlowSensor::read() without its clamp at zero.
PoursUnclamped == IF flowing THEN (-1)..MaxPour ELSE {0}

\* What one cycle can dispense: the reading is clamped at zero and is never
\* zero at the nominal flow; without a nominal flow there is no noise either.
Pours == IF flowing THEN 1..MaxPour ELSE {0}

\* get_reset_cmd() under a second lock, then fsm.update().
RunFsm ==
  /\ pc = "update"
  /\ \E pour \in Pours : Update(valveCmd, coils["reset"], pour, scanned)
  /\ pc' = "flow"
  /\ UNCHANGED <<scanned, flowing, valveCmd, regs, serverVars, clientVars>>

\* One set_*() of ModbusServer: a single register group, under the lock.
Publish(step, field, value, next) ==
  /\ pc = step
  /\ regs' = [regs EXCEPT ![field] = value]
  /\ pc' = next
  /\ UNCHANGED <<fsmVars, scanned, flowing, valveCmd, serverVars, clientVars>>

\* Slip: the state goes out together with the valve, ahead of the volume.
PublishValveAndState ==
  /\ pc = "valve"
  /\ regs' = [regs EXCEPT !.valve = valveCmd, !.state = state]
  /\ pc' = "volume"
  /\ UNCHANGED <<fsmVars, scanned, flowing, valveCmd, serverVars, clientVars>>

PublishFlow == Publish("flow", "flow", flowing, "valve")
PublishValve == Publish("valve", "valve", valveCmd, "volume")
PublishVolume == Publish("volume", "volume", acc, "rfid")
PublishRfid == Publish("rfid", "rfid", scanned, "state")
PublishState == Publish("state", "state", state, "sample")

MainLoop ==
  Sample \/ RunFsm \/ PublishFlow \/ PublishValve \/ PublishVolume
    \/ PublishRfid \/ PublishState
-----------------------------------------------------------------------------
(* The server thread. *)

Accept ==
  /\ serving = NoConnection
  /\ backlog # <<>>
  /\ serving' = Head(backlog)
  /\ backlog' = Tail(backlog)
  /\ UNCHANGED <<fsmVars, loopVars, regs, coils, tabBits, clientVars>>

DecideValve(snapshot) == snapshot.flow /\ snapshot.state # "COMPLETE"

\* The answer to a register read, at the client.  The PLC decides at once;
\* the collector stores the snapshot and goes back to sleep.
ReadAnswered(c) ==
  IF c \in Plcs
    THEN /\ phase' = [phase EXCEPT ![c] = "answered"]
         /\ valve' = [valve EXCEPT ![c] = DecideValve(regs)]
    ELSE /\ phase' = [phase EXCEPT ![c] = "idle"]
         /\ UNCHANGED valve

\* modbus_receive() returned a query.  The coils are copied before the
\* query is carried out by modbus_reply().  The reply reaches the client
\* unless it has closed its end.
Serve ==
  LET c == serving.owner
      req == serving.req
  IN /\ req.kind # "none"
     /\ coils' = tabBits
     /\ tabBits' = IF req.kind = "write"
                     THEN [tabBits EXCEPT ![req.coil] = req.value]
                     ELSE tabBits
     /\ serving' = [serving EXCEPT !.req = NoRequest]
     /\ IF ~serving.open THEN UNCHANGED clientVars
        ELSE IF req.kind = "read" THEN ReadAnswered(c)
        ELSE phase' = [phase EXCEPT ![c] = "idle"] /\ UNCHANGED valve
     /\ UNCHANGED <<fsmVars, loopVars, regs, backlog>>

\* modbus_receive() failed: the client is gone and nothing is left to read.
HangUp ==
  /\ serving # NoConnection
  /\ serving.req.kind = "none"
  /\ ~serving.open
  /\ serving' = NoConnection
  /\ UNCHANGED <<fsmVars, loopVars, regs, coils, tabBits, backlog, clientVars>>

Server == Accept \/ Serve \/ HangUp
-----------------------------------------------------------------------------
(* The clients. *)

Connect(c) ==
  /\ phase[c] = "down"
  /\ Len(backlog) < Backlog
  /\ backlog' = Append(backlog, [owner |-> c, req |-> NoRequest, open |-> TRUE])
  /\ phase' = [phase EXCEPT ![c] = "idle"]
  /\ UNCHANGED <<fsmVars, loopVars, regs, coils, tabBits, serving, valve>>

OwnedBy(conn, c) == conn.owner = c /\ conn.open

\* A query put on the connection if it is the client's.
WithQuery(conn, c, req) ==
  IF OwnedBy(conn, c) THEN [conn EXCEPT !.req = req] ELSE conn

\* The client's end closed; lost says whether the query goes with it.
Closed(conn, c, lost) ==
  IF OwnedBy(conn, c)
    THEN [conn EXCEPT !.open = FALSE, !.req = IF lost THEN NoRequest ELSE @]
    ELSE conn

\* A client sends a query and awaits the answer.
Send(c, from, req) ==
  /\ phase[c] = from
  /\ serving' = WithQuery(serving, c, req)
  /\ backlog' = [i \in DOMAIN backlog |-> WithQuery(backlog[i], c, req)]
  /\ phase' = [phase EXCEPT ![c] = "waiting"]
  /\ UNCHANGED <<fsmVars, loopVars, regs, coils, tabBits, valve>>

\* read_holding_registers(0, 13), by the PLC and the collector alike.
Poll(c) == c \in Plcs \cup Collectors /\ Send(c, "idle", ReadRegisters)

\* Slip: the PLC writes the coil only to open the valve.
WriteOnlyToOpen(c) ==
  /\ c \in Plcs
  /\ IF valve[c] THEN Send(c, "answered", WriteCoil("valve", TRUE))
     ELSE /\ phase[c] = "answered"
          /\ phase' = [phase EXCEPT ![c] = "idle"]
          /\ UNCHANGED <<fsmVars, loopVars, regs, serverVars, valve>>

\* The PLC writes the decision it took on the registers it read.
WriteValve(c) ==
  c \in Plcs /\ Send(c, "answered", WriteCoil("valve", valve[c]))

Command(c) ==
  /\ c \in Operators
  /\ \E coil \in Coils, value \in BOOLEAN : Send(c, "idle", WriteCoil(coil, value))

\* A crash, a restart or a request timeout: the connection is closed.  The
\* query in flight is either lost with it or still there to be received.
Drop(c) ==
  /\ c \in MayDrop
  /\ phase[c] # "down"
  /\ \E lost \in BOOLEAN :
       /\ serving' = Closed(serving, c, lost)
       /\ backlog' = [i \in DOMAIN backlog |-> Closed(backlog[i], c, lost)]
  /\ phase' = [phase EXCEPT ![c] = "down"]
  /\ UNCHANGED <<fsmVars, loopVars, regs, coils, tabBits, valve>>

Client(c) ==
  Connect(c) \/ Poll(c) \/ WriteValve(c) \/ Command(c) \/ Drop(c)
-----------------------------------------------------------------------------
Next == MainLoop \/ Server \/ \E c \in Clients : Client(c)

Spec == Init /\ [][Next]_vars

\* The main loop and the server thread always run on; the PLC and the
\* collector loop for ever; the reader sees a tag with probability 0.3 in
\* every scan.  Nobody forces an operator to act or a client to drop.
Fairness ==
  /\ WF_vars(MainLoop)
  /\ SF_vars(Sample /\ scanned' # NoTag)
  /\ WF_vars(Server)
  /\ \A c \in Plcs \cup Collectors :
       WF_vars(Connect(c) \/ Poll(c) \/ WriteValve(c))

FairSpec == Spec /\ Fairness
-----------------------------------------------------------------------------
(* What should be true of it. *)

TypeOK ==
  /\ state \in States /\ acc \in Nat /\ activeTag \in Tags \cup {NoTag}
  /\ pc \in {"sample", "update", "flow", "valve", "volume", "rfid", "state"}
  /\ scanned \in Tags \cup {NoTag} /\ flowing \in BOOLEAN /\ valveCmd \in BOOLEAN
  /\ regs \in [flow: BOOLEAN, valve: BOOLEAN, volume: Nat,
               rfid: Tags \cup {NoTag}, state: States]
  /\ coils \in [Coils -> BOOLEAN] /\ tabBits \in [Coils -> BOOLEAN]
  /\ serving \in Connection /\ backlog \in Seq(Connection)
  /\ phase \in [Clients -> {"down", "idle", "waiting", "answered"}]
  /\ valve \in [Plcs -> BOOLEAN]

\* A batch never exceeds its target by as much as one cycle's flow, and it
\* is COMPLETE exactly when it has reached it: closing the valve in the very
\* cycle that reaches the target must not hide the target (DosingFsm.cpp:36).
NoOverdose ==
  /\ acc < Target + MaxPour
  /\ acc >= Target <=> state = "COMPLETE"

\* The five registers are published under five locks, so a client may read
\* a mixture of two cycles.  A register file that says COMPLETE nevertheless
\* shows the full volume, except while a reset is being published.
CompletePublished ==
  regs.state = "COMPLETE" /\ regs.volume < Target =>
    pc \in {"rfid", "state"} /\ state = "IDLE"

\* The published volume falls only to zero, and only by a reset; pausing and
\* resuming never lose what was dispensed (main.cpp:40, DosingFsm.cpp:45).
VolumeFallsOnlyByReset ==
  [][regs'.volume < regs.volume => regs'.volume = 0 /\ state = "IDLE"]_vars

\* The daemon keeps the promise of DosingBatch: one tag for a whole batch,
\* liquid only while it runs, done by the amount that reaches the target.
Batch == INSTANCE DosingBatch WITH
  stage <- CASE state = "IDLE" -> "ready"
             [] state \in {"DOSING", "PAUSE"} -> "running"
             [] state = "COMPLETE" -> "done",
  dispensed <- acc,
  owner <- activeTag
ImplementsBatch == Batch!BatchSpec

\* An open valve that stays open, with no reset, completes a batch from
\* wherever the machine is, a pause included.
HeldValveCompletes ==
  <>[](coils["valve"] /\ ~coils["reset"]) => <>(state = "COMPLETE")

\* From some point on one of the PLCs is the client that is served.
PlcStaysServed == \E p \in Plcs : <>[](OwnedBy(serving, p))

\* The reset coil is a level: once it has been accepted and is not taken back,
\* the machine stays in IDLE from any state ("any -> IDLE when reset_cmd = 1",
\* DosingFsm.h:17).  The write itself takes effect with the next query, so
\* some client must go on polling.
ResetHolds ==
  PlcStaysServed /\ <>[](tabBits["reset"]) => <>[](state = "IDLE")

\* A PLC that keeps being served closes the valve of a finished batch.
PlcClosesValve ==
  PlcStaysServed => (state = "COMPLETE" ~> ~coils["valve"] \/ state # "COMPLETE")

\* What the repository says and the code does not do.

\* README.md:18, "a Python PLC simulator polls and controls valve state":
\* left alone with the daemon, the PLC opens the valve some day.
PlcOpensValve == <>(coils["valve"])

\* README.md:18, "telemetry is persisted in SQLite": a collector, which waits
\* for the registers and connects again when it has lost its connection, is
\* served some day, although a PLC holds a connection as well.
TelemetryIsPersisted == \A c \in Collectors : <>(OwnedBy(serving, c))
=============================================================================
