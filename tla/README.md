# Formal models of the IoT controller repository

TLA+ specifications of the programs in this repository, the TLC configurations that check them on
small instances, and TLAPS proofs of what holds for every instance. Paths below are relative to the
root of the repository.

## Inventory

The repository holds seven systems that share no code. The first two are the machines the
repository is named for, and the ones where threads meet hardware.

| System | Processes and components | State | Operations | What is hard |
|---|---|---|---|---|
| Dosing controller (`controller`, `plc_simulator`, `collector`, `api`) | C++ daemon: main loop and Modbus server thread; PLC simulator; collector; dashboard API over SQLite | dosing machine, 13 registers, 2 coils, one accepted connection | sample-update-publish cycle, one Modbus query at a time, poll-decide-write | five registers published under five locks; coils that reach the loop one query late; one client served at a time |
| EV battery HIL (`ev_battery_hil`) | C++ daemon: physics thread and telemetry server; Python orchestrator: client, sequences, injector, API | battery state machine, cell, warning latch, Joule energy; connection, last frame, running sequences | 1 kHz `update()`, commands on the TCP thread, 100 Hz frames, reconnection, drive cycles | `update()` does not take the mutex the commands take; the server never leaves its first client; sequences overlap and fail half-way |
| Renewables dispatch (`renewables_portfolio_dispatch`) | FastAPI, PostgreSQL, blob archive, Celery | assets, telemetry, forecast runs, schedules, archive | ingest, forecast, optimise, POST/GET/PATCH a Fahrplan, re-optimise | commit and upload are two steps; retries; PATCHes computed from old reads |
| Grid load forecasting (`grid_load_forecasting`) | FastAPI, two background workers | nodes, readings, forecasts | ingest, query, periodic forecast loop | check-then-insert races, two workers on one table, stopping the loop |
| AWS sensor API (`aws_sensor_api`) | FastAPI, PostgreSQL, S3 | events and their S3 keys | create, list, archive in the background | fire-and-forget after the commit, nothing retries |
| Fleet routing (`fleet_routing_api`) | FastAPI, Redis cache, nearest-neighbour optimiser | cached routes, deliveries | optimise with cache, CRUD, login | a cache key that leaves ids out, Redis failing between ping and use |
| SLM analytics (`slm_sensor_analytics`) | FastAPI, PostgreSQL, model files | readings, trained models, caches | ingest, train, score, aggregate | a cache against a file that is written in place |

What makes each component correct, and where that is stated:

| Component | Properties |
|---|---|
| Dosing machine | a batch has one tag, liquid only while it runs, is done by the amount that reaches the target (`DosingBatch`) |
| Dosing daemon | the registers never show a finished batch without its volume; a reset that is held holds; a held valve completes |
| PLC simulator | closes the valve of a finished batch; opens it some day (it does not) |
| Battery machine | the protection freezes the cell and is left only for a RESET that was received (`BmsLatch`); a warning precedes the heat fault and state and code agree; an overcurrent of either sign trips |
| Telemetry link | what is over leaves no load; a link lost with the daemon comes back; one that the client drops comes back (it does not) |
| Fahrplan store | the archive holds committed schedules only; readers see whole ones; PATCHes do not undo each other; a retried POST is archived (it is not) |
| Telemetry, forecast and optimiser | posts are all or nothing and none waits for ever; a forecast rests on enough rows within the capacity; an optimisation takes no superseded forecast; a stored schedule is feasible (`DayAhead`) |
| Re-optimisation | a deviation is acted upon only while it is fresh, and never again by a redelivery (`Reoptimisation`) |
| Grid forecast worker | the forecasts settle on the latest readings although two workers write them; a sleeping worker holds no row; a stop is heeded |
| Grid ingest | the readings of a post are stored together and once, before its 201 (`IngestLog`) |
| Dosing collector | the dashboard shows the newest row while the clock is not set back (`Collector`); every reading is persisted (not beside the PLC) |
| AWS archival | a key in the table names the object of its event; a walk over the pages misses nothing that was there (`EventArchive`) |
| Route cache | an answer is a nearest-neighbour tour of the places asked for, with its own length (`FleetRouting`) |
| Model store | a prediction comes from the last fit of its key, and alerts are the anomalies answered (`ModelStore`) |

`PROJECT.json` lists every component with its status, and under "hazards" the places where the code is
hard to test, with the properties aimed at each.

## Modules

```
DosingBatch  <=(refines)=  DosingController --EXTENDS--> DosingFsm     MCDosing        DosingProofs
BmsLatch     <=(refines)=  BmsDaemon                                   MCBms           BmsProofs
                           BmsLink                                     MCBmsLink       BmsLinkProofs
                           Fahrplan                                    MCFahrplan      FahrplanProofs
                           DayAhead                                    MCDayAhead      DayAheadProofs
                           GridForecast                                MCGridForecast  GridForecastProofs
IngestLog    <=(refines)=  GridIngest        \
                           EventArchive       |
                           ModelStore         +--EXTENDS--             MCServices      ServicesProofs
                           FleetRouting       |
                           Reoptimisation     |
                           Collector         /
```

`Induction` holds the facts about numbers that `GridForecastProofs` and `ServicesProofs` share.

`MCServices` puts six small instances side by side. They share no state in the code either, so the
variable `service` picks the one that runs while the others rest; nothing is lost by it, and one run
serves for all.

Operators whose comment starts with "Slip" or "A slip" are not part of any specification: each is a plausible
mistake in the operator that follows it, and is used to confirm that the properties notice it.

### DosingFsm and DosingController

`DosingFsm` is `DosingFsm::update()`: one operator per `case`, and `ResetFsm` before them. Volume is
counted in units; one cycle adds any amount from 1 to `MaxPour` (the reading of `FlowSensor::read()` is
clamped at zero and jitters).

`DosingController` puts it in the daemon. The main loop (`main.cpp:26-49`) is `Sample` (scan, flow, valve
command), `RunFsm` (reset command and `update()`), then five `Publish...` steps, because each `set_*()` of
`ModbusServer` takes and releases the lock by itself. The server thread is `Accept`, `Serve`, `HangUp`.
`Serve` follows the order of `ModbusServer.cpp:103-114`: it copies the coils out of the Modbus mapping
*before* `modbus_reply()` carries the query out, so a coil that a query writes is seen by the main loop
only after the next query. Clients are the PLC simulator (`Poll`, `WriteValve`), the collector (`Poll`)
and an operator's console (`Command`); a client in `MayDrop` may lose its connection at any moment, with
or without the query it had sent.

`DosingBatch` is the promise: `Begin` a batch for a tag, `Dispense`, `Abandon`. The refinement mapping
takes DOSING and PAUSE to "running".

### BmsDaemon and BmsLatch

`BmsStateMachine::update()` runs on the physics thread without the mutex, `handle_command()` on the
receive thread with it. `BmsDaemon` cuts `update()` at each access to a variable that a command also
writes (`BeginUpdate`, `StepModel`, `AddHeat`, `StoreHeat`, `Warn`, `SetWarned`, `Judge`, `Transition`,
`EnterFault`, `StoreCode`) and RESET at its receipt (`ReceiveReset`) and each of its stores (`ResetState` to `ResetLoad`, in the
order of `BmsStateMachine.cpp:84-93`). The continuous cell is abstracted to levels: charge and temperature move by
at most one level per step in the direction the current and the cooling push, energy in units. `Heat` is the energy of one step: at
most `MaxHeat` for a permitted current, anything for one beyond the limit, since no command is bounded (`TelemetryServer.cpp:96-98`) and
`BmsStateMachine.cpp:36` reads the current after both of its checks. Currents are numbers; NaN is left out. Outcomes of the data race
are those of word-sized accesses in program order.

`BmsLatch` says what protection means: `Trip`, `Evolve` of charge and temperature only while it is not tripped, and `Release`, which needs
a reset that was asked for (`Ask`) and uses it up. In the daemon a reset is asked for from its receipt to its store of the
state, so a machine that left FAULT on its own, or twice for one RESET, would not implement the latch.

What a RESET that overlaps `update()` does to the protection is in `bms_reset_lost`. `ProtectedUnlessOverlapped` says what holds otherwise,
through any number of faults and RESETs: while none overlaps (`Apart`), state and code agree and a heat fault was warned about; while,
besides, no over-limit current overtakes the checks of an update (`CurrentHeld`), the warning came in an earlier step. Both
conditions are needed: such a current can take the energy past both levels in one step.

### BmsLink

The TCP link seen from both ends. Daemon: `Accept` (once: `serve_client()` loops `while (running_)` over a
`send` whose result it ignores), `HandleCommand` on the served connection, `Physics` as far as the
telemetry shows it (is `V_terminal` within the 4.2 V that `models.py` accepts?), `Crash` and `Restart`.
Client: `Connect`, `NoConnection` with its growing delay, `WakeUp`, `EndOfFile`, `ReadFrame`. `Send` drops what
it cannot write, as `send_command()` does. Users: `PostCommand`, `InjectCommand` for the faults that are commands, and
`SensorDropout`, which closes the connection and lets the read loop find out. Sequences: `StartRun`,
`StepRun`, `PassRun`, and `FailRun`, a snapshot or a table that the database refuses; both ends go through
`UnloadAndEnd`, the `finally` clause that takes the load off. `Stop` is the shutdown. The sequence file is given by the
constant `Spec0`; two ids may name one file, as two spellings of an id do in `load_sequence()`.
Connections are numbers that are used again, so reconnecting needs no bound.

### Fahrplan

A worker is a request in flight, cut at its awaits. POST: `Insert` (`flush()`, the header is inserted and
not yet visible; a second insert of the id waits), `Conflict` (the id is committed already:
IntegrityError, 500), `Commit`, `Archive` or `ArchiveFails`. `/api/schedule/optimise` shares `Insert` and `Commit` and
does not archive. PATCH: `Load`, `Write`, then the two queries of `get_fahrplan()`, `Find` and `Fetch`. `Flush` is
what the unit of work of the library does: UPDATE names the columns that differ from what the session
loaded, and the database applies it to the row as it is by then. A deadlock of two UPDATEs, which the
database ends by aborting one, is the request that does not go on (`Crash`). A row stands for all the hours
of an asset, because PATCH matches by `asset_id` only.

### GridForecast

The compose file runs `ForecastWorker` twice, inside the API (`main.py:18`) and in the worker container
(`standalone.py`), on the same tables. A worker is cut at its awaits: `Cycle` (the while condition and the summaries),
`TakeNode` (the recent readings of the next node and their average), `Get` and `Flush` (the two halves of
`upsert_forecast()`), `Commit`, and `Wake` from the interval or from the pause after an error. `Conflict` is the INSERT of
a row that the other worker has committed meanwhile, `Deadlocked` the database's choice of a victim, `Fail` a lost
connection or a crash: each closes the session, which rolls the whole cycle back. `Stop` sets the stop event and `Cancel` is
`stop()` losing patience, or `main()` of the container returning first. `Ingest` is the transaction of
`POST /readings` as it commits; a timestamp is the meter's, so a reading can arrive out of order. A row that is written stays
locked until its transaction ends and then goes to one that waits for it, as PostgreSQL does. An UPDATE
names `forecast_kwh` only if it differs from what was loaded. The sliding window of `compute_sma()` is
`Window`; `Sum` of the last K readings is its definition, the last of the running sums `Sums`. Division by K is left out, and with it the rounding of floats.

### DayAhead

The chain of the renewables service from a measurement to a schedule. A bulk post is `Validate` (schema, assets,
capacity, in that order of the code and all before the first insert), then one `Insert` per row, since each takes the
unique key of its asset and instant and another transaction that wants it waits; `Commit`, `Duplicate` (IntegrityError) or
`Deadlocked` end it. A forecast is `Trigger` (the answer goes out before the task runs, for any id), `ReadTelemetry`,
`Fit` on an executor thread, `Save`, or `Abandon` at any await. An optimisation is `Start` (the assets by id, in whatever
order the database returns them), then `ReadRun` and `ReadMeans` for one asset after the other, and `Store` or
`Refuse`. `Plans` are the outputs the solver may call optimal: all constraints hold up to its accuracy `Eps`, which stands for
`OPTIMAL_INACCURATE` too, so an output may be slightly negative and is then refused by the schema. The forecast stores
intervals of 15 minutes and the optimiser takes the first T of them for T hours, without an order that tells them apart;
`Series` says so.

### GridIngest and IngestLog

`POST /readings` and `/readings/batch` flush by flush. `ensure_node()` looks for the node and inserts it later: a second
insert of the same key waits for the first transaction and then fails. The readings of a batch run at once on one
session, which may refuse (`gather()`); the coroutines left behind go on with it until the session closes. `IngestLog` is what a client
relies on: the readings of a post enter together, once, and before the 201.

### EventArchive

`Create` commits the row and starts a task that shares the session of the request (`CloseSession` may come first).
`PutObject`, `PutFails`, `ExecuteUpdate`, `CommitKey` are the task; two processes serve (`ecs_desired_count`), and `CrashOf` ends the one that holds the task
at any moment. The key holds the day on which the task starts, not that of the event, and is formed once. `CountRows` and `Pages` are the two statements of
a list, and a reader walks from page to page while events arrive.

### FleetRouting

`Login`, `TokenExpires`, `RequireDispatcher`, and the handler `Ping`, `GetCached`, `Compute`, `SetCached` over a Redis that
comes and goes (`RedisTurns`) and forgets (`Expire`). A route is found by the depot and the places, not by the ids of the waypoints:
a hit may carry the ids of another request. `NearestNeighborRoute` is where the code's loop is after its last turn: `Tours` is the
function from the number of turns to the state of the loop, and `Visit` one turn. `Legs` is the running sum of
`total_route_distance()`. The reference definition of the route is in the property: each stop is one of the nearest that are left.
Distances are whole numbers, any the constant `Km` gives to two places.

### ModelStore

`Train` (query, then fit, dump and cache in one step) and `Predict` (query, score with the model of the cache or the file,
alert) are coroutines of one process, so what lies between two awaits is one step; dumps fail half-way (`Torn`), and the process ends
and comes back with an empty cache. Two series whose
names run together have one key.

### Reoptimisation and Collector

`Reoptimisation` follows a deviation through the Redis channel, the subscriber's loop, Celery's queue and the task, each of which may
lose it or carry it twice. Celery and Redis are external: `celery_app.py` leaves their defaults, so the model takes at-least-once hand-over (a
command whose answer is lost is repeated, up to `Attempts` times; when the last attempt fails too, `.delay()` raises past the `except` of
`worker.py:72` and the loop ends, losing what it had not read), early acknowledgement (a worker that ends loses the task: `TaskLost`), and
redelivery of what no worker has acknowledged within the `Visibility` timeout (one hour by default; `Redeliver`). The queue is a bag, and `runs` keeps
how each delivery ended: "ok", "skipped_stale", "lost", or "failed" when the change is no number or the timestamp no text, which raises past `except
ValueError` (`worker.py:28,39`). Publisher, broker and workers are taken to share one clock. `Collector` is the poll, its row named by the wall clock, and the row the dashboard picks.

## Runs

| Run | Instance | Question and result |
|---|---|---|
| `dosing` | one tag, target 2, one PLC, one operator that may drop, 0.9 M states | Types; no overdose; COMPLETE is published with its volume; the volume falls only by reset; the batch promise; held valve completes; held reset holds; the PLC closes the valve. All hold. |
| `dosing_plc_alone` | one PLC | Violated: `decide_valve()` wants flow before it opens the valve, and there is no flow before the valve is open. The PLC alone never starts a batch, contrary to `README.md:18`. |
| `bms` | currents -5, -2, 0, 2, 5 A against limit 4, four levels of charge, all commands, 0.4 M states | Types; the latch, left only for a RESET; warning before heat fault and state consistent with code while no RESET overlaps `update()`; overcurrent of either sign trips; removed load settles. All hold. |
| `bms_reset_lost` | the same currents and commands | Violated: a RESET can end in FAULT, because it opens the machine before it clears what tripped it. |
| `bms_link` | a pulse and a discharge sequence, two starts, one manual command, fault or dropout, one crash, 0.6 M states | Types; `EndsUnloaded`; `CrashIsRepaired`. All hold. |
| `bms_link_dropout` | one dropout, no crash | Violated: the client connects again, waits in the listen queue and never gets a frame (`docs/ev-battery-hil.md:64`: "Client reconnects automatically"). |
| `fahrplan` | one id, two requests, two assets, two powers, three statuses, 0.6 M states | Types; archive is committed; reads are whole; PATCHes change only what they name. All hold. |
| `fahrplan_retry` | one id, one client that posts again and again, no optimisation and no crash | Violated: a POST stores the schedule, its upload fails, and each retry ends in the IntegrityError. With the upsert that `fahrplan/router.py:21` announces the property holds. |
| `grid_forecast` | two nodes with one reading each, window of two, two readings to come, two workers, one failure, 0.4 M states | Types; the window is the mean of its definition; forecasts were due; sleepers hold nothing; forecasts settle; a stop is heeded. All hold. |
| `dosing_starved` | a PLC and a collector, no operator | Violated: the PLC is accepted first and polls for ever, and the collector waits in the queue (`README.md:18`: "telemetry is persisted in SQLite"). |
| `day_ahead` | two assets, one of them created on the way; three posts, two forecasts, one optimisation over two hours, 0.1 M states | Types; posts are atomic; forecasts are grounded and fresh; schedules are feasible; posts are answered. All hold. |
| `services` | the six small instances of `MCServices`, 0.6 M states | Types; the key names the object; the walk misses nothing; answers are nearest; predictions are backed; deviations are fresh; the ingest implements its log; the status is the latest. All hold. |

### Bounds

* `dosing`: one cycle of volume less than the target gives a batch that pours, pauses, resumes and completes; one
  PLC and one operator are enough for two writers of the valve coil, a queue in front of the server, and a
  connection lost with its query pending. With more clients nothing new is shared: all wait for the same
  connection.
* `bms`: the smallest levels in which every threshold of the code is separate from its neighbours; one
  current beyond the limit in each direction, one permitted in each direction, and none. `JouleCap` and `TempCap` stop
  counting beyond the last threshold, where the code makes no further distinction.
* `bms_link`: two sequences, because what is in question is one taking the other's load off;
  two delays, because only the cap on their index matters; one crash, since a daemon that has restarted is in
  its first state. `MaxStarts`, `MaxManual` and `MaxCrashes` bound the users, not the program.
* `fahrplan`: nothing is counted, so the only bounds are the sets; two requests meet in every pair of kinds,
  and the theorems hold for any number.
* `grid_forecast`: with one reading stored and a window of two, both nodes can get their first forecast (the workers
  conflict or wait for each other) or one of them a second (the window slides, an old average meets a new one). Only the table's
  size and the failures are counted. The limit of 4K rows is not reached: a window of K lies inside it.
* `day_ahead`: two posts that overlap in opposite order are the smallest deadlock, the third is above a capacity; one row suffices
  (`MinRows`) where the code wants 40, since only enough or not enough matters. One optimisation, because
  optimisations do not share anything; two forecasts, so that one supersedes the other while it reads. The
  capacities and ramps are such that a plan read with the wrong order of assets breaks a limit. Of the outputs the
  solver may return one is below zero and one above a capacity, each within its accuracy: the first is refused, the second is stored.
* `services`: three events of two plants, two with one timestamp, pages of one, two days; three requests of which two ask
  for the same places under other ids and one from another depot; two series with one key and two trainings; two batches
  that name two new nodes in opposite order and one single reading; two messages of any kind, handed over up to twice each,
  three tasks in all, and an hour on either side of the limit; three polls and three readings of the clock.
  `Init` of `MCServices` fixes what a service that rests would otherwise start with in several ways.

### Fairness

* Dosing: weak fairness of the main loop, of the server thread and of the loops of PLC and collector, all of
  which are endless loops of their own threads or processes. Strong fairness of a scan that sees a tag: the
  simulated reader returns one with probability 0.3 in each scan, independently. None for operators or drops.
* Battery daemon: weak fairness of the physics thread and of a RESET that has begun. None for commands.
* Link: weak fairness of accept, of the receive thread, of the restart by systemd (`Restart=on-failure`) and of the
  connection loop. Users and sequences need not act.
* Fahrplan, only in `fahrplan_retry` (`RetrySpec`, whose steps are posts, PATCHes and reads, without optimisations and crashes): the client retries for ever, requests go on, and an upload
  that is tried infinitely often succeeds. The assumption is generous on purpose: the property still fails.
* Grid: weak fairness of each worker's loop, a task of its own event loop. None for readings, stops and failures. That
  a waiter is not passed over is not assumed but modelled: the database hands it the row.
* Day ahead: weak fairness of each post that is in progress, a coroutine of the event loop or a statement the database
  carries on, its detection of deadlocks included. None for assets, forecasts or optimisations.
* `dosing_starved`: the fairness of the dosing daemon, and of the loops of both clients.
* Services: no liveness, no fairness.

## Proofs

All theorems hold for every value of the constants that satisfies the named assumptions of the module. They are
checked by TLAPS with SMT, Zenon and LS4.

| Module | Theorem | Says |
|---|---|---|
| `DosingProofs` | `TypeCorrect`, `Overdose`, `PublishedComplete`, `PublishedVolume`, `Refinement` | the type invariant, `NoOverdose`, `CompletePublished`, `VolumeFallsOnlyByReset`, and that the daemon implements `DosingBatch` |
| `BmsProofs` | `TypeCorrect`, `LatchRefinement`, `Protection` | the type invariant, that the daemon implements `BmsLatch` although RESET races with `update()`, and the protection through any RESETs that do not overlap it (`ProtectedUnlessOverlapped`) |
| `FahrplanProofs` | `Invariant`, `TypeCorrect`, `Archived`, `WholeReads`, `NoLostUpdate` | the safety properties of the `fahrplan` run |
| `BmsLinkProofs` | `TypeCorrect`, `LoadEndsWithTheRuns` | the type invariant and `EndsUnloaded`, for any sequences, any number of runs, commands and crashes, and any listen queue |
| `GridForecastProofs` | `Invariant`, `TypeCorrect`, `Unlocked`, `WasDue`, `SmaCorrect` | the type invariant, `SleepsUnlocked`, `ForecastWasDue`, `SmaIsTheMean` |
| `DayAheadProofs` | `TypeCorrect`, `IngestAtomic`, `ForecastsGrounded`, `ForecastsFresh`, `SchedulesFeasible` | the safety properties of the `day_ahead` run |
| `ServicesProofs` | `KeyIsGood`, `WalkComplete` | `KeyNamesObject` and `WalkMissesNothing` of `EventArchive` |
| | `NearestAnswers` | `AnswersAreNearest` of `FleetRouting` |
| | `StoreTyped`, `Backed` | the types and `PredictionsAreBacked` of `ModelStore` |
| | `GridTyped`, `Refinement` | the types of `GridIngest`, and that it implements `IngestLog` |
| | `FreshDeviations`, `DashboardLatest` | `OnlyFreshDeviations` of `Reoptimisation` and `StatusIsLatest` of `Collector` |
| | `ServicesTyped` | `TypeOK` of `MCServices`, which composes the six |
| `Induction` | lemmas `Least`, `UpTo`, `TotalsType`, `TotalsExist` | a set of numbers has a least one; running totals exist and are numbers |

So every invariant and every action property of a passing run is a theorem as well.

**Dosing.** `NoOverdose` alone is not inductive: it needs that the flow sampled in this cycle belongs to the
state in which it is used, and the published properties need to say how far the registers lag behind the
machine at each step of publication (`Lag`). `IInv` is the conjunction; `StepIInv` has one lemma for the main
loop and one for everything else (`Bystanders`: server and clients touch neither machine nor registers).
The assumptions are that target and flow are positive and the sets of clients are disjoint.

**Battery.** `InUpdate` says what the locals of the interrupted `update()` can be at each step. The refinement
follows per action: a step that moves charge or temperature is taken only when the fault was not latched when
`update()` began, no step of the command thread sets FAULT, and only `ResetState` leaves it, which is the moment at which a received
RESET stops being asked for. `Protection` (`ProtectedUnlessOverlapped`) has two invariants, each about behaviours in which its condition
always holds, since without it the race does break the property. `ApartInv` adds to the types `Coded`, where the code is between
`enter_fault()` and RESET, and `HotWarned`, that a fault by heat passed the warning between the model and the judgement. `StepwiseInv` adds
`CurrentHeld` and that stored energy at the warning level was warned about (`StepwiseWarned`). It needs `EWarn + MaxHeat <= EFault`: one
step at a *permitted* current cannot jump the gap between the two thresholds (in the code 500 J against 0.625 J, 250 A through 10 mOhm for 1 ms).

**Fahrplan.** `Inv` adds to the types what a request may rely on at each await: who has inserted an id is alone with
it until it commits, who archives holds the body that was committed, who writes has found the schedule. A
schedule has rows exactly when it has a header. `NoLostUpdate` is the action property: from the invariant, only `Commit`
and `Write` change rows, `Commit` only those of a new id, and `UntouchedRow` says that the two flushes of a PATCH leave a
column it does not name as the table has it.

**Grid.** `Inv` says that rows and drafts belong to an open transaction (`LockInv`) and that what a worker carries, has
drafted or has stored was due for the node it is kept under (`DueInv`). One lemma, `CloseInv`, serves every way a cycle can
end. `SmaCorrect` is about data, not steps. The sum of readings `i` to `j` is the difference of two running sums, and by the least
index at which it would fail, so is every place of the sliding window; the window of the 4K readings that are fetched ends where
the window of all of them does.

**Link.** `EndsUnloaded` says nothing of the moment between the end of a run and the reading of its last command, nor of what is
queued behind it. `Settled` does: when every run is over and the last current sent came from one in time, then either a
connection that is not the daemon's first still carries commands, which nobody will ever read, or the commands on the first one
leave no load (`Quiet`: some command unloads, and none after it loads). `First` is the connection the daemon serves or will accept next; it
stays the same until a crash, which is why a stuck command stays stuck. `QuietAppend` and `QuietTail` are the two facts about
sequences, `SendSettled` the step of every command, and `QueueInv` keeps the listen queue free of duplicates.

**Day ahead.** The types come with `Reading`: an optimisation that reads a forecast is inside its list. `IngestAtomic` needs who
holds which key: `KeysApart` says that two open transactions, and a transaction and the table, never have a key in common, and
`Stored` that the table is made of whole posts, each of validated rows. `ForecastsGrounded` follows because telemetry is never
deleted, so what was enough for `fit()` stays enough. `ForecastsFresh` is carried by `Fresh` while the assets are read one by one:
runs are never deleted and `clock` only grows, so the newest run read later is no older than the one that was there at `Start`.
`SchedulesFeasible` needs that the list the database returned has exactly the assets asked for, each once. The code checks only
that the numbers agree, and `FoundAll` shows that this is enough: `asset_ids` with a repetition is refused, since the database finds
fewer. Then `OneRowEach` gives one row for each asset and hour, so that a row is the number the solver planned for it. The
assumptions are that capacities and ramps are numbers, that fitting takes at least one row (40 in the code), and that the mark for a
missing forecast is none of the forecasts.

**Ingest.** The refinement maps the log to the committed readings and the acknowledgements to the posts that answered 201. Only `CommitPost` and
the answer are steps of the log; the rest is a stutter because what is flushed belongs to an open session. The invariant says which posts
may have one, and that the readings of a post are either all stored or none.

**Archive.** `KeyNamesObject` needs to know where each task is: an update that was executed, or a key about to be committed, belongs
to a put that succeeded, and objects are never removed. `WalkMissesNothing` is about positions: the `Rank` of an event is the number of
matching events that are newer, and it can only grow. `WalkOn` says that what the walk has not seen has a rank of at least the
`offset` it has reached. A page starts there, so the event is on it or its rank is at least `offset` plus the page's limit
(`PagePasses`), and then the total, which is larger than every rank and is read later, sends the walk to the next page. This is why
the order of the two statements does no harm.

**Routes.** `TourOK` is the invariant of the loop after `k` turns: ordered and remaining waypoints together are those of the request, each
as often (`Count`), and each leg so far was to a nearest of those that were left then. `VisitKeeps` is one turn; `ToursAre` and
`RouteIsNearest` carry it to the last one by the least turn at which it would fail. `FromRequests` says that whatever Redis keeps or
an answer holds was `Computed` for a request with the same key, and the key determines depot and places.

**Re-optimisation.** `Decided` says that each run was judged by the age of its message at that moment. `Paid` counts: as long as the broker
cannot have delivered a message again, the runs that acted and the tasks that wait are no more than the subscriber handed over; once it can,
a visibility timeout has passed since the first hand-over (`Under` orders publication, hand-over and now), hence `MaxAge`, so no further run acts.
This is where `MaxAge <= Visibility` is used, an assumption about a default: with a shorter timeout a redelivery could act again.

**Collector.** `Rows`: one row per instant, and a row at least as new as what the dashboard shows is always there, since a row gives way only to
one of its own instant. `Ordered` holds while the clock is not set back, and says that the last row stored is the greatest.

**Composition.** `Composed`: a behaviour of `MCServices` is one of each service, because a step of another service leaves its variables
alone. `ServicesTyped` follows from the theorems of the parts, without a step of its own.

**Model store.** `Backed` needs that the file of a key is torn or holds what was fitted last, that a cached model is the one of the last
fit, and that a prediction in progress carries what it was given.

**Data without induction theorems.** The library's induction theorems take an operator as a parameter, which the provers cannot
instantiate. Where a proof needs induction, on the turns of a loop or the length of a list, it takes the set of numbers at which the claim
fails and its least element (`Least`, from the well-foundedness of `<`), which is first-order. The loops are recursive functions
or their running totals, never RECURSIVE operators.

**Only model-checked.** The liveness properties: `ForecastsSettle`, `StopIsHeeded`, `HeldValveCompletes`, `ResetHolds`, `PlcClosesValve`,
`OvercurrentTrips`, `RemovedLoadSettles`, `CrashIsRepaired`, `PostsAreAnswered`. TLAPS has no support for fairness and ENABLED here.

## What the runs found

1. The PLC simulator and the daemon wait for each other (`dosing_plc_alone`).
2. RESET can be lost to the physics thread (`bms_reset_lost`).
3. A client that closed its connection is never served again (`bms_link_dropout`). A full pack at rest
   shows 4.4 V, which the frame model refuses, with the same effect.
4. POST of a Fahrplan is not an upsert, so a failed upload cannot be made good (`fahrplan_retry`). Likewise a schedule that
   `/api/schedule/optimise` has stored cannot be posted, hence not archived.
5. The dosing daemon serves one client until that one leaves, and the PLC never does: beside it no collector is ever served and nothing is
   persisted (`dosing_starved`).

Met while modelling, and part of the models, without a run of their own: Redis that goes after the ping makes a route request fail,
although `docs/fleet-routing-api.md:25` says it degrades gracefully; the optimiser takes forecast intervals of 15
minutes for hours, and all of them start at one instant; `GET /api/forecast/{id}/latest` cannot build its answer, because `ForecastRunRead` wants a
`run_id` the row does not have; `dosing_events` is never written, so `/api/events` is always empty; a valve coil left set by a
client that is gone stays set for the next batch (`ModbusServer.cpp:79`), about which the repository promises nothing;
docker-compose starts `collector.main`, which does not exist, and a Celery worker on the queues `forecast,reopt`, while tasks are sent to
the default one; `docs/aws-sensor-api.md:21` promises "COUNT(*) + SELECT in one round-trip" where `repository.py:49-50` executes two statements
(`WalkMissesNothing` shows that the order they have does no harm); `grid_load_forecasting/tests/test_integration.py:67` expects 201 for
a batch of 1000 readings, which `gather()` runs at once on one session, and a session refuses concurrent use.

## Not modelled

* `ModbusServer::stop()`: `main()` of the daemon never returns.
* The orchestrator's list of events, run snapshots and watchdog ping: written, and read by people only.
* The arithmetic of SARIMA, XGBoost, the isolation forest and the linear program: numerical libraries. Their results are any that the code around
  them lets through.
* Deliveries of the fleet service (create, list, change of status): single statements on rows that routing does not read.
* The read-only queries of the services, their metrics and health checks: they change no state.
* What the coroutines left behind by `gather()` (`GatherRaises`) still insert: only the commit of their post would publish it, and that does
  not come.
* A `window_size` of 0, 1 or below (`slm_sensor_analytics/app/api/v1/schemas.py:23` does not bound it): such a training ends in an error and changes nothing.
* A command of the orchestrator that finds no connection is dropped in `BmsLink` as in the code, and the last frame outlives its
  connection there too; no text of the repository says otherwise, so no property does.
* A PATCH that resets the status of an interval to DRAFT (`fahrplan/router.py:105`) is modelled as the code does it; no text of the
  repository says what should happen, so no property does.
* `tools/plot_fault_timeline.py`, migrations, tests, infrastructure: no run-time state of the systems.

## Plan

1. The safety that the liveness properties rest on, proved: that in `DayAhead` and `GridForecast` the transactions that wait for one another
   form a cycle only until the database breaks it, and that a step of each loop is always enabled.
2. Composition of `DayAhead` with `Fahrplan`: a schedule the optimiser stores, patched and archived, over one database.
3. The walk over pages with deletions, should the AWS service get them; the deliveries of the fleet service, should routing read them.
