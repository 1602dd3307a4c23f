---------------------------- MODULE GridForecast ----------------------------
(***************************************************************************)
(* The load forecasts of the grid service: ForecastWorker of               *)
(* workers/forecaster.py on the tables of db/models.py.  Two processes run  *)
(* one worker each, the API (main.py) and the worker container              *)
(* (standalone.py), and nothing but the database lies between them.  A     *)
(* SELECT sees what is committed when it runs; a row that was inserted or   *)
(* updated stays locked until its transaction ends.                        *)
(***************************************************************************)
EXTENDS Integers, Sequences, FiniteSets, SequencesExt

CONSTANTS
  Nodes, Workers,
  Kwh,           \* what a meter may report
  K,             \* SMA_WINDOW_SIZE
  Stored,        \* the readings in the table when the service starts
  MaxReadings,   \* bound on the readings in the table
  MaxFailures,   \* bound on lost connections and crashes
  None

ASSUME GridAssumption ==
  /\ Kwh \subseteq Nat /\ K \in Nat \ {0}
  /\ Stored \in [Nodes -> Seq(Kwh)]
  /\ MaxReadings \in Nat /\ MaxFailures \in Nat
  /\ None \notin Workers

VARIABLES
  readings,   \* committed readings of a node, by timestamp
  forecast,   \* committed forecast_kwh
  lock,       \* the worker whose open transaction has written the row
  pc, todo, node, sma, seen,   \* per worker: the locals of _run()
  draft,      \* per worker: what its transaction has written
  stopping,   \* _stop_event
  failures,
  current     \* history: what the forecast of a node has ever been due to be

vars == <<readings, forecast, lock, pc, todo, node, sma, seen, draft, stopping, failures, current>>
local == <<todo, node, sma, seen>>
tables == <<readings, forecast, current>>

-----------------------------------------------------------------------------
(* compute_sma().  Sums stand for means: the division is by K throughout.  *)

\* sum() of what is before each place, and of all.
Sums(s) ==
  LET f[i \in 0..Len(s)] == IF i = 0 THEN 0 ELSE f[i - 1] + s[i]
  IN  f

Sum(s) == Sums(s)[Len(s)]

\* A slip: the reading that leaves the window is taken one too late.
WindowLate(s) ==
  LET f[i \in K..Len(s)] == IF i = K THEN Sum(SubSeq(s, 1, K)) ELSE f[i - 1] + s[i] - s[i - K + 1]
  IN  f

\* The sliding window, defined from its first full position on.
Window(s) ==
  LET f[i \in K..Len(s)] == IF i = K THEN Sum(SubSeq(s, 1, K)) ELSE f[i - 1] + s[i] - s[i - K]
  IN  f

\* get_recent(limit = 4K), put in ascending order.
Recent(s) == IF Len(s) <= 4 * K THEN s ELSE SubSeq(s, Len(s) - 4 * K + 1, Len(s))

\* last_sma; None where the series is too short.
LastSma(s) == IF Len(s) < K THEN None ELSE Window(Recent(s))[Len(Recent(s))]

-----------------------------------------------------------------------------

TypeOK ==
  /\ readings \in [Nodes -> Seq(Kwh)]
  /\ lock \in [Nodes -> Workers \union {None}]
  /\ pc \in [Workers -> {"top", "next", "get", "flush", "retry", "wait", "done"}]
  /\ todo \in [Workers -> SUBSET Nodes]
  /\ node \in [Workers -> Nodes \union {None}]
  /\ stopping \in [Workers -> BOOLEAN]
  /\ failures \in 0..MaxFailures
  /\ DOMAIN forecast = Nodes /\ DOMAIN current = Nodes
  /\ DOMAIN sma = Workers /\ DOMAIN seen = Workers
  /\ DOMAIN draft = Workers /\ \A w \in Workers : DOMAIN draft[w] = Nodes

Nothing == [n \in Nodes |-> None]

Init ==
  /\ readings = Stored
  /\ forecast = Nothing /\ lock = Nothing
  /\ pc = [w \in Workers |-> "top"]
  /\ todo = [w \in Workers |-> {}]
  /\ node = [w \in Workers |-> None]
  /\ sma = [w \in Workers |-> None] /\ seen = [w \in Workers |-> None]
  /\ draft = [w \in Workers |-> Nothing]
  /\ stopping = [w \in Workers |-> FALSE]
  /\ failures = 0
  /\ current = [n \in Nodes |-> {LastSma(Stored[n])}]

GoTo(w, place) == pc' = [pc EXCEPT ![w] = place]

\* The locals of one turn of the loop.
ForgetNode(w) ==
  /\ node' = [node EXCEPT ![w] = None]
  /\ sma' = [sma EXCEPT ![w] = None] /\ seen' = [seen EXCEPT ![w] = None]

\* The database hands a row to one of those who wait for it.
Waiting(n) == {w \in Workers : pc[w] = "flush" /\ node[w] = n /\ lock[n] # w}
Heirs(w, n) == IF lock[n] # w THEN {lock[n]} ELSE IF Waiting(n) = {} THEN {None} ELSE Waiting(n)

\* A session that is closed: its rows are free again, its locals are gone.
CloseSession(w) ==
  /\ lock' \in [Nodes -> Workers \union {None}] /\ \A n \in Nodes : lock'[n] \in Heirs(w, n)
  /\ draft' = [draft EXCEPT ![w] = Nothing]
  /\ todo' = [todo EXCEPT ![w] = {}] /\ ForgetNode(w)

-----------------------------------------------------------------------------
(* The clients. *)

\* load_readings.
Rows == UNION {{<<n, i>> : i \in DOMAIN readings[n]} : n \in Nodes}

\* A slip: a reading of zero, which the schema refuses.
IngestZero(n, kwh) ==
  /\ Cardinality(Rows) < MaxReadings
  /\ readings' = [readings EXCEPT ![n] = Append(@, 0)]
  /\ current' = [current EXCEPT ![n] = @ \union {LastSma(readings'[n])}]
  /\ UNCHANGED <<forecast, lock, pc, local, draft, stopping, failures>>

\* A reading commits.  Its timestamp is the meter's, so it need not be last.
Ingest(n, kwh) ==
  /\ Cardinality(Rows) < MaxReadings
  /\ \E i \in 1..(Len(readings[n]) + 1) :
       readings' = [readings EXCEPT ![n] = InsertAt(@, i, kwh)]
  /\ current' = [current EXCEPT ![n] = @ \union {LastSma(readings'[n])}]
  /\ UNCHANGED <<forecast, lock, pc, local, draft, stopping, failures>>

-----------------------------------------------------------------------------
(* ForecastWorker._run(). *)

\* A slip: the loop does not look at the stop event.
CycleForever(w) ==
  /\ pc[w] = "top"
  /\ todo' = [todo EXCEPT ![w] = {n \in Nodes : readings[n] # <<>>}]
  /\ GoTo(w, "next")
  /\ UNCHANGED <<tables, lock, node, sma, seen, draft, stopping, failures>>

\* The while condition and get_node_summaries(): nodes in no order of note.
Cycle(w) ==
  /\ pc[w] = "top" /\ ~stopping[w]
  /\ todo' = [todo EXCEPT ![w] = {n \in Nodes : readings[n] # <<>>}]
  /\ GoTo(w, "next")
  /\ UNCHANGED <<tables, lock, node, sma, seen, draft, stopping, failures>>

LeaveLoop(w) ==
  /\ pc[w] = "top" /\ stopping[w] /\ GoTo(w, "done")
  /\ UNCHANGED <<tables, lock, local, draft, stopping, failures>>

\* A slip: a series too short is averaged over what there is.
TakeShortSeries(w) ==
  /\ pc[w] = "next" /\ ~stopping[w]
  /\ \E n \in todo[w] :
       /\ todo' = [todo EXCEPT ![w] = @ \ {n}]
       /\ node' = [node EXCEPT ![w] = n]
       /\ sma' = [sma EXCEPT ![w] = Sum(readings[n])]
       /\ GoTo(w, "get")
  /\ UNCHANGED <<tables, lock, seen, draft, stopping, failures>>

\* The next node: its recent readings, and their average if they fill a window.
TakeNode(w) ==
  /\ pc[w] = "next" /\ ~stopping[w]
  /\ \E n \in todo[w] :
       /\ todo' = [todo EXCEPT ![w] = @ \ {n}]
       /\ IF Len(readings[n]) < K
          THEN UNCHANGED <<pc, node, sma>>
          ELSE /\ node' = [node EXCEPT ![w] = n]
               /\ sma' = [sma EXCEPT ![w] = LastSma(readings[n])]
               /\ GoTo(w, "get")
  /\ UNCHANGED <<tables, lock, seen, draft, stopping, failures>>

\* upsert_forecast(): the row as committed by now.
Get(w) ==
  /\ pc[w] = "get" /\ GoTo(w, "flush")
  /\ seen' = [seen EXCEPT ![w] = forecast[node[w]]]
  /\ UNCHANGED <<tables, lock, todo, node, sma, draft, stopping, failures>>

\* The row is locked by the other worker.
Blocked(w) == pc[w] = "flush" /\ lock[node[w]] \notin {None, w}

\* A slip: only the INSERT half of the upsert.
FlushInsertOnly(w) ==
  /\ pc[w] = "flush" /\ ~Blocked(w)
  /\ seen[w] = None => forecast[node[w]] = None
  /\ lock' = [lock EXCEPT ![node[w]] = w]
  /\ draft' = [draft EXCEPT ![w][node[w]] = IF seen[w] = None THEN sma[w] ELSE None]
  /\ GoTo(w, "next") /\ ForgetNode(w)
  /\ UNCHANGED <<tables, todo, stopping, failures>>

\* INSERT, or UPDATE of the columns that differ from what was loaded.
Flush(w) ==
  /\ pc[w] = "flush" /\ ~Blocked(w)
  /\ seen[w] = None => forecast[node[w]] = None
  /\ lock' = [lock EXCEPT ![node[w]] = w]
  /\ draft' = [draft EXCEPT ![w][node[w]] = IF seen[w] = sma[w] THEN None ELSE sma[w]]
  /\ GoTo(w, "next") /\ ForgetNode(w)
  /\ UNCHANGED <<tables, todo, stopping, failures>>

\* The INSERT of a row that was committed since Get: IntegrityError.
Conflict(w) ==
  /\ pc[w] = "flush" /\ ~Blocked(w)
  /\ seen[w] = None /\ forecast[node[w]] # None
  /\ GoTo(w, "retry") /\ CloseSession(w)
  /\ UNCHANGED <<tables, stopping, failures>>

\* The database ends a circle of waiting workers by aborting one of them.
Deadlocked(w) ==
  /\ \E S \in SUBSET Workers :
       /\ w \in S
       /\ \A v \in S : Blocked(v) /\ lock[node[v]] \in S
       /\ \A v \in S : \E u \in S : lock[node[u]] = v
  /\ GoTo(w, "retry") /\ CloseSession(w)
  /\ UNCHANGED <<tables, stopping, failures>>

\* A slip: the session stays open while the loop sleeps.
CommitKeepsLocks(w) ==
  /\ pc[w] = "next" /\ (todo[w] = {} \/ stopping[w])
  /\ forecast' = [n \in Nodes |-> IF draft[w][n] = None THEN forecast[n] ELSE draft[w][n]]
  /\ GoTo(w, "wait")
  /\ UNCHANGED <<readings, current, lock, draft, local, stopping, failures>>

\* All nodes done, or a stop was asked for: commit what there is.
Commit(w) ==
  /\ pc[w] = "next" /\ (todo[w] = {} \/ stopping[w])
  /\ forecast' = [n \in Nodes |-> IF draft[w][n] = None THEN forecast[n] ELSE draft[w][n]]
  /\ GoTo(w, "wait") /\ CloseSession(w)
  /\ UNCHANGED <<readings, current, stopping, failures>>

\* The interval is over, or the pause of five seconds after an exception.
Wake(w) ==
  /\ pc[w] \in {"wait", "retry"} /\ GoTo(w, "top")
  /\ UNCHANGED <<tables, lock, local, draft, stopping, failures>>

\* The connection is lost, or the process, which is started again.
Fail(w) ==
  /\ pc[w] \in {"next", "get", "flush"} /\ failures < MaxFailures
  /\ failures' = failures + 1
  /\ GoTo(w, "retry") /\ CloseSession(w)
  /\ UNCHANGED <<tables, stopping>>

\* stop(), or a signal to the worker process.
Stop(w) ==
  /\ pc[w] # "done" /\ ~stopping[w]
  /\ stopping' = [stopping EXCEPT ![w] = TRUE]
  /\ UNCHANGED <<tables, lock, pc, local, draft, failures>>

\* stop() waits no longer, or main() of the worker process has returned.
Cancel(w) ==
  /\ stopping[w] /\ pc[w] # "done"
  /\ GoTo(w, "done") /\ CloseSession(w)
  /\ UNCHANGED <<tables, stopping, failures>>

Run(w) ==
  \/ Cycle(w) \/ LeaveLoop(w) \/ TakeNode(w) \/ Get(w) \/ Flush(w)
  \/ Conflict(w) \/ Deadlocked(w) \/ Commit(w) \/ Wake(w)

Next ==
  \/ \E n \in Nodes, kwh \in Kwh : Ingest(n, kwh)
  \/ \E w \in Workers : Run(w) \/ Fail(w) \/ Stop(w) \/ Cancel(w)

\* The event loop runs a ready task, and the database answers.
Fairness == \A w \in Workers : WF_vars(Run(w))

Spec == Init /\ [][Next]_vars /\ Fairness

-----------------------------------------------------------------------------
(* Properties. *)

\* The sliding window of compute_sma() ends at the average of the last K
\* readings, whatever order they came in (forecaster.py:2).
SmaIsTheMean ==
  \A n \in Nodes :
    Len(readings[n]) >= K =>
      LastSma(readings[n]) = Sum(SubSeq(readings[n], Len(readings[n]) - K + 1, Len(readings[n])))

\* A stored forecast was the average of its own node at some moment: it may be
\* old, it is never that of another node or of a series too short.
ForecastWasDue ==
  \A n \in Nodes : forecast[n] # None => forecast[n] \in current[n]

\* A worker that sleeps holds no rows: the other one is not blocked for the
\* interval, nor are the rows of a failed or cancelled cycle.
SleepsUnlocked ==
  \A w \in Workers :
    pc[w] \in {"top", "wait", "retry", "done"} =>
      draft[w] = Nothing /\ \A n \in Nodes : lock[n] # w

\* While one worker is never stopped, the forecasts become those of the
\* latest readings and stay so, although workers overwrite each other with
\* old averages, abort each other's cycles and wait for each other's rows.
ForecastsSettle ==
  (\E w \in Workers : [](~stopping[w])) =>
    \A n \in Nodes : <>[](forecast[n] = LastSma(readings[n]))

\* A worker that is told to stop ends by itself, wherever it was.
StopIsHeeded == \A w \in Workers : stopping[w] ~> pc[w] = "done"
=============================================================================
