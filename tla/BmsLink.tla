------------------------------- MODULE BmsLink -------------------------------
(***************************************************************************)
(* The TCP link between the orchestrator (client.py, sequences.py,         *)
(* fault_injector.py) and the battery daemon (TelemetryServer.cpp).  The   *)
(* daemon accepts one connection and serves it for the rest of its life:   *)
(* the send loop of serve_client() never looks at what send() returns.     *)
(* Later connections wait in the listen queue.  A connection is a number;  *)
(* a number no one refers to is used again.                                *)
(***************************************************************************)
EXTENDS Integers, Sequences, SequencesExt

CONSTANTS
  Ids,        \* sequence ids as the API receives them; two may name one file
  Spec0,      \* currents each sequence sets, in order: [Ids -> Seq(Int)]
  Delays,     \* number of reconnect delays
  Backlog,    \* length given to listen(); the kernel holds one more
  MaxStarts,  \* bound: sequences started
  MaxManual,  \* bound: commands sent through the API or the injector
  MaxCrashes  \* bound: crashes of the daemon

ASSUME LinkAssumption ==
  /\ Spec0 \in [Ids -> Seq(Int)]
  /\ {Delays, Backlog} \subseteq Nat \ {0}
  /\ {MaxStarts, MaxManual, MaxCrashes} \subseteq Nat

Conns == 1 .. Backlog + 3
None == 0
Overcurrent == 300

VARIABLES
  up, serving, backlog, wire,   \* daemon process, its connection, listen queue
  load, full, volts,            \* i_load, SoC still near 1, v_terminal against 4.2
  running, pc, writer, closing, attempt, frame,  \* OrchestratorClient
  run,                          \* step each sequence is at, 0 = not running
  starts, manual, crashes,      \* counters of the bounds
  dropped,      \* history: the client gave a connection up in this daemon's life
  undisturbed   \* history: the last current sent came from a sequence, in time

daemon  == <<up, serving, backlog, crashes>>
battery == <<load, full, volts>>
client  == <<running, pc, writer, closing, attempt, frame, dropped>>
engine  == <<run, starts, undisturbed>>
vars    == <<daemon, wire, battery, client, engine, manual>>

Alive == ({serving} \union ToSet(backlog)) \ {None}
Open  == writer \in Alive /\ ~closing
Unused == Conns \ (Alive \union {writer})

\* A command on its way.
Message == [command : {"SET_CURRENT", "SET_FAULT", "RESET"}, value : Int]

TypeOK ==
  /\ up \in BOOLEAN /\ serving \in Conns \union {None}
  /\ backlog \in Seq(Conns) /\ Len(backlog) <= Backlog + 1
  /\ wire \in [Conns -> Seq(Message)]
  /\ load \in Int /\ full \in BOOLEAN /\ volts \in {"ok", "over"}
  /\ running \in BOOLEAN /\ pc \in {"connect", "read", "sleep", "end"}
  /\ writer \in Conns \union {None} /\ closing \in BOOLEAN
  /\ attempt \in 0 .. Delays - 1 /\ frame \in {"none", "live", "stale"}
  /\ run \in [Ids -> Nat] /\ \A i \in Ids : run[i] <= Len(Spec0[i]) + 1
  /\ starts \in 0 .. MaxStarts /\ manual \in 0 .. MaxManual
  /\ crashes \in 0 .. MaxCrashes /\ dropped \in BOOLEAN /\ undisturbed \in BOOLEAN

Init ==
  /\ up = TRUE /\ serving = None /\ backlog = <<>> /\ crashes = 0
  /\ wire = [c \in Conns |-> <<>>]
  /\ load = 0 /\ full = TRUE /\ volts = "ok"
  /\ running = TRUE /\ pc = "connect" /\ writer = None /\ closing = FALSE
  /\ attempt = 0 /\ frame = "none" /\ dropped = FALSE
  /\ run = [i \in Ids |-> 0] /\ starts = 0 /\ undisturbed = TRUE /\ manual = 0

-----------------------------------------------------------------------------
(* The daemon. *)

Accept ==
  /\ up /\ serving = None /\ backlog # <<>>
  /\ serving' = Head(backlog) /\ backlog' = Tail(backlog)
  /\ UNCHANGED <<up, crashes, wire, battery, client, engine, manual>>

\* The receive thread of the connection that is served.
HandleCommand ==
  /\ serving # None /\ wire[serving] # <<>>
  /\ LET msg == Head(wire[serving])
     IN  load' = CASE msg.command = "SET_CURRENT" -> msg.value
                   [] msg.command = "SET_FAULT" -> load    \* blocks the cooling
                   [] msg.command = "RESET" -> 0
  /\ wire' = [wire EXCEPT ![serving] = Tail(@)]
  /\ UNCHANGED <<daemon, full, volts, client, engine, manual>>

\* One step of the model as the telemetry shows it.  V = 3.2 + 1.2 SoC - I R0
\* - V_RC exceeds the 4.2 V of models.py while SoC is near 1 and I < 20 A, or
\* when the pack is charged; V_RC may hide it for some seconds.
Physics ==
  /\ up
  /\ volts' \in IF load >= 20 \/ (~full /\ load >= 0) THEN {"ok"} ELSE {"ok", "over"}
  /\ full' \in IF load > 0 THEN {full, FALSE} ELSE {full}
  /\ UNCHANGED <<daemon, wire, load, client, engine, manual>>

\* The process ends, its sockets with it, and comes back in its first state.
Crash ==
  /\ up /\ crashes < MaxCrashes
  /\ up' = FALSE /\ crashes' = crashes + 1 /\ serving' = None /\ backlog' = <<>>
  /\ wire' = [c \in Conns |-> <<>>]
  /\ load' = 0 /\ full' = TRUE /\ volts' = "ok" /\ dropped' = FALSE
  /\ UNCHANGED <<running, pc, writer, closing, attempt, frame, engine, manual>>

Restart ==
  /\ ~up /\ up' = TRUE
  /\ UNCHANGED <<serving, backlog, crashes, wire, battery, client, engine, manual>>

-----------------------------------------------------------------------------
(* OrchestratorClient._connect_loop() and _read_loop(). *)

Connect ==
  /\ pc = "connect" /\ up /\ Len(backlog) <= Backlog
  /\ \E c \in Unused :
       /\ c = CHOOSE d \in Unused : TRUE
       /\ backlog' = Append(backlog, c)
       /\ wire' = [wire EXCEPT ![c] = <<>>]
       /\ writer' = c
  /\ closing' = FALSE /\ attempt' = 0 /\ pc' = "read"
  /\ UNCHANGED <<up, serving, crashes, battery, running, frame, dropped, engine, manual>>

\* A slip: the delay index runs past the list.
NoConnectionUncapped ==
  /\ pc = "connect" /\ (~up \/ Len(backlog) > Backlog)
  /\ pc' = "sleep"
  /\ attempt' = attempt + 1
  /\ UNCHANGED <<daemon, wire, battery, running, writer, closing, frame, dropped, engine, manual>>

\* Refused, or timed out because the listen queue is full.
NoConnection ==
  /\ pc = "connect" /\ (~up \/ Len(backlog) > Backlog)
  /\ pc' = "sleep"
  /\ attempt' = IF attempt < Delays - 1 THEN attempt + 1 ELSE attempt
  /\ UNCHANGED <<daemon, wire, battery, running, writer, closing, frame, dropped, engine, manual>>

WakeUp ==
  /\ pc = "sleep" /\ pc' = "connect"
  /\ UNCHANGED <<daemon, wire, battery, running, writer, closing, attempt, frame, dropped, engine, manual>>

\* The `finally` of the loop; the next connection is tried at once.
LeaveReadLoop ==
  /\ pc' = IF running THEN "connect" ELSE "end"
  /\ writer' = None /\ closing' = FALSE
  /\ frame' = IF frame = "none" THEN "none" ELSE "stale"

\* A slip: the read loop that ends with the connection it had.
EndOfFileGivesUp ==
  /\ pc = "read" /\ ~Open
  /\ pc' = "end" /\ writer' = None /\ closing' = FALSE
  /\ frame' = IF frame = "none" THEN "none" ELSE "stale"
  /\ UNCHANGED <<daemon, wire, battery, running, attempt, dropped, engine, manual>>

EndOfFile ==
  /\ pc = "read" /\ ~Open /\ LeaveReadLoop
  /\ UNCHANGED <<daemon, wire, battery, running, attempt, dropped, engine, manual>>

\* A frame TelemetryFrame accepts is kept; any other ends the read loop.
ReadFrame ==
  /\ pc = "read" /\ Open /\ writer = serving
  /\ \/ volts = "ok" /\ frame' = "live"
        /\ UNCHANGED <<pc, writer, closing, dropped>>
     \/ volts = "over" /\ LeaveReadLoop /\ dropped' = TRUE
  /\ UNCHANGED <<daemon, wire, battery, running, attempt, engine, manual>>

\* send_command(): what is written to no connection, or to a dead one, is lost.
Send(cmd, val) ==
  wire' = IF Open THEN [wire EXCEPT ![writer] = Append(@, [command |-> cmd, value |-> val])]
          ELSE wire

-----------------------------------------------------------------------------
(* The API, and FaultInjector behind it. *)

ByHand == running /\ manual < MaxManual /\ manual' = manual + 1

\* POST /api/command.
PostCommand ==
  /\ ByHand
  /\ \/ Send("SET_CURRENT", Overcurrent) /\ undisturbed' = FALSE
     \/ Send("RESET", 0) /\ UNCHANGED undisturbed
  /\ UNCHANGED <<daemon, battery, client, run, starts>>

\* THERMAL_RUNAWAY and OVERCURRENT of POST /api/faults/inject.
InjectCommand ==
  /\ ByHand
  /\ \/ Send("SET_FAULT", 0) /\ UNCHANGED undisturbed
     \/ Send("SET_CURRENT", Overcurrent) /\ undisturbed' = FALSE
  /\ UNCHANGED <<daemon, battery, client, run, starts>>

\* Its SENSOR_DROPOUT: the connection is closed, and the read loop finds out.
SensorDropout ==
  /\ ByHand /\ writer # None /\ ~closing
  /\ closing' = TRUE /\ dropped' = TRUE
  /\ UNCHANGED <<daemon, wire, battery, running, pc, writer, attempt, frame, engine>>

-----------------------------------------------------------------------------
(* SequenceEngine. *)

StartRun(i) ==
  /\ running /\ run[i] = 0 /\ starts < MaxStarts
  /\ run' = [run EXCEPT ![i] = 1] /\ starts' = starts + 1
  /\ UNCHANGED <<daemon, wire, battery, client, undisturbed, manual>>

StepRun(i) ==
  /\ run[i] \in 1 .. Len(Spec0[i])
  /\ Send("SET_CURRENT", Spec0[i][run[i]]) /\ undisturbed' = Open
  /\ run' = [run EXCEPT ![i] = @ + 1]
  /\ UNCHANGED <<daemon, battery, client, starts, manual>>

\* The `finally` clause takes the load off.
UnloadAndEnd(i) ==
  /\ Send("SET_CURRENT", 0) /\ undisturbed' = Open
  /\ run' = [run EXCEPT ![i] = 0]
  /\ UNCHANGED <<daemon, battery, client, starts, manual>>

PassRun(i) == run[i] > Len(Spec0[i]) /\ UnloadAndEnd(i)

\* A slip: the load taken off by the last step only.
FailRunLoaded(i) ==
  /\ run[i] # 0 /\ undisturbed' = Open
  /\ run' = [run EXCEPT ![i] = 0]
  /\ UNCHANGED <<daemon, wire, battery, client, starts, manual>>

\* The database fails: no table at the start, or no snapshot after a step.
FailRun(i) == run[i] # 0 /\ UnloadAndEnd(i)

\* Shutdown: client.stop(), then the event loop cancels the sequences, whose
\* last command finds no connection.
Stop ==
  /\ running /\ running' = FALSE
  /\ closing' = (writer # None)
  /\ pc' = IF writer # None THEN pc ELSE "end"
  /\ run' = [i \in Ids |-> 0]
  /\ undisturbed' = (undisturbed /\ \A i \in Ids : run[i] = 0)
  /\ UNCHANGED <<daemon, wire, battery, writer, attempt, frame, dropped, starts, manual>>

Daemon == Accept \/ HandleCommand \/ Physics \/ Crash \/ Restart
Loop == Connect \/ NoConnection \/ WakeUp \/ EndOfFile \/ ReadFrame
Users ==
  PostCommand \/ InjectCommand \/ SensorDropout \/ Stop \/ \E i \in Ids : StartRun(i)
Runs == \E i \in Ids : StepRun(i) \/ PassRun(i) \/ FailRun(i)

Next == Daemon \/ Loop \/ Users \/ Runs
Spec == Init /\ [][Next]_vars

\* The daemon's threads run, systemd restarts it, and the event loop carries on.
FairSpec == Spec /\ WF_vars(Accept) /\ WF_vars(HandleCommand) /\ WF_vars(Restart) /\ WF_vars(Loop)

-----------------------------------------------------------------------------
\* Once every sequence is over and every command read, the pack carries no
\* load, however many sequences overlapped or failed half-way, unless an
\* operator set a current or a command was lost with its connection
\* (the finally clause of SequenceEngine._run).
EndsUnloaded ==
  (/\ undisturbed
   /\ \A i \in Ids : run[i] = 0
   /\ \A c \in Alive : wire[c] = <<>>) => load = 0

\* A link lost with the daemon comes back with it: after a crash the client
\* gets telemetry again, unless it is stopped or gives its connection up itself
\* (_connect_loop and its growing delays).
CrashIsRepaired == ~up ~> (frame = "live" \/ dropped \/ ~running)

\* docs/ev-battery-hil.md:64 of SENSOR_DROPOUT: "Client reconnects
\* automatically": a client that closed its connection gets telemetry again.
DropoutIsRepaired == dropped ~> (frame = "live" \/ ~running)
=============================================================================
