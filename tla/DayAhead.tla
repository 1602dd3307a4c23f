------------------------------- MODULE DayAhead -------------------------------
(***************************************************************************)
(* The day-ahead chain of the renewables service: telemetry/router.py      *)
(* stores what the assets produced, forecast/tasks.py turns it into        *)
(* forecast runs, optimizer/router.py turns the latest runs into a         *)
(* schedule.  Every await may let another request run.  A SELECT sees      *)
(* what is committed when it runs, a transaction becomes visible when it   *)
(* commits, and a key it has inserted makes another insert of it wait.     *)
(* What fit() and the LP solver compute is left open within what they      *)
(* promise.                                                                *)
(***************************************************************************)
EXTENDS Integers, Sequences, FiniteSets, SequencesExt, FiniteSetsExt

CONSTANTS
  Assets, Known,   \* assets that may be created, and those there are at first
  Capacity, Ramp,  \* MW, and MW per hour: [Assets -> Nat]
  Posts, Rows,     \* bulk ingests, and the rows of each
  Jobs,            \* forecasts that may be asked for
  MinRows,         \* rows a forecast needs: 40
  Curves,          \* what predict() may return: MW per interval of 15 minutes
  Requests,        \* optimisations that may be asked for
  Asked, Hours,    \* asset_ids of each, and the length of its price curve
  Outputs,         \* MW the solver may return, in whole units
  Tolerance,       \* imbalance_tol_mwh
  Eps,             \* accuracy of the solver
  None

Row == [asset : Assets, at : Nat, mw : Int]
Run == [asset : Assets, created : Nat \ {0}, mean : Curves]

ASSUME DayAheadAssumption ==
  /\ Known \subseteq Assets
  /\ Capacity \in [Assets -> Nat] /\ Ramp \in [Assets -> Nat]
  /\ Rows \in [Posts -> Seq(Row)]
  /\ Curves \subseteq Seq(Nat) /\ Outputs \subseteq Int
  /\ Asked \in [Requests -> Seq(Assets)] /\ Hours \in [Requests -> Nat \ {0}]
  /\ MinRows \in Nat \ {0} /\ {Tolerance, Eps} \subseteq Nat
  /\ None \notin Nat \union Run

VARIABLES
  assets,      \* table assets
  telemetry,   \* table telemetry: the rows by post and position
  runs,        \* tables forecast_runs and forecast_intervals
  schedules,   \* tables schedules and schedule_intervals, by request
  clock,       \* created_at of the last run computed
  ppc, held,   \* per post: its place, and how many rows its transaction holds
  jpc, for, draft,          \* per job: its place, its asset, the run not yet stored
  qpc, list, picked, mus,   \* per request: its place and its locals
  base         \* history: per request, the latest run of each asset when it began

ingest   == <<ppc, held>>
job      == <<jpc, for, draft>>
optimise == <<qpc, list, picked, mus, base>>
vars == <<assets, telemetry, runs, schedules, clock, ingest, job, optimise>>

\* The intervals of a schedule.
Interval == [asset : Assets, hour : Nat, mw : Int]

TypeOK ==
  /\ assets \subseteq Assets
  /\ telemetry \subseteq Posts \X (Nat \ {0})
  /\ runs \subseteq Run
  /\ schedules \in [Requests -> SUBSET Interval]
  /\ clock \in Nat
  /\ ppc \in [Posts -> {"new", "insert", "stored", "refused"}] /\ held \in [Posts -> Nat]
  /\ jpc \in [Jobs -> {"idle", "accepted", "fit", "save", "stored", "short", "failed"}]
  /\ for \in [Jobs -> Assets \union {None}] /\ draft \in [Jobs -> Run \union {None}]
  /\ qpc \in [Requests -> {"new", "run", "means", "solve", "stored", "refused"}]
  /\ list \in [Requests -> Seq(Assets)]
  /\ picked \in [Requests -> Seq(Run \union {None})]
  /\ mus \in [Requests -> Seq(Seq(Nat))]
  /\ base \in [Requests -> [Assets -> Nat]]

Init ==
  /\ assets = Known /\ telemetry = {} /\ runs = {} /\ clock = 0
  /\ schedules = [q \in Requests |-> {}]
  /\ ppc = [p \in Posts |-> "new"] /\ held = [p \in Posts |-> 0]
  /\ jpc = [j \in Jobs |-> "idle"]
  /\ for = [j \in Jobs |-> None] /\ draft = [j \in Jobs |-> None]
  /\ qpc = [q \in Requests |-> "new"] /\ list = [q \in Requests |-> <<>>]
  /\ picked = [q \in Requests |-> <<>>] /\ mus = [q \in Requests |-> <<>>]
  /\ base = [q \in Requests |-> [a \in Assets |-> 0]]

-----------------------------------------------------------------------------
(* telemetry/router.py. *)

CreateAsset(a) ==
  /\ a \notin assets /\ assets' = assets \union {a}
  /\ UNCHANGED <<telemetry, runs, schedules, clock, ingest, job, optimise>>

Key(p, i) == <<Rows[p][i].asset, Rows[p][i].at>>

\* A slip: the capacity is not looked up.
AcceptableAnyPower(p) == \A i \in DOMAIN Rows[p] : Rows[p][i].mw >= 0 /\ Rows[p][i].asset \in assets

\* The schema, the assets there are by now, and the capacity of each.
Acceptable(p) ==
  \A i \in DOMAIN Rows[p] :
    LET r == Rows[p][i] IN r.mw >= 0 /\ r.asset \in assets /\ r.mw <= Capacity[r.asset]

Validate(p) ==
  /\ ppc[p] = "new"
  /\ ppc' = [ppc EXCEPT ![p] = IF Acceptable(p) THEN "insert" ELSE "refused"]
  /\ UNCHANGED <<assets, telemetry, runs, schedules, clock, held, job, optimise>>

\* Unique keys: those that are committed, and those a transaction holds.
Committed == {Key(x[1], x[2]) : x \in telemetry}
Holds(p) == {Key(p, i) : i \in 1 .. held[p]}
NextKey(p) == Key(p, held[p] + 1)
Blocked(p) ==
  ppc[p] = "insert" /\ held[p] < Len(Rows[p]) /\ \E o \in Posts \ {p} : NextKey(p) \in Holds(o)

\* A slip: every row committed by itself.
InsertCommitted(p) ==
  /\ ppc[p] = "insert" /\ held[p] < Len(Rows[p]) /\ ~Blocked(p)
  /\ NextKey(p) \notin Committed
  /\ held' = [held EXCEPT ![p] = @ + 1]
  /\ telemetry' = telemetry \union {<<p, held[p] + 1>>}
  /\ UNCHANGED <<assets, ppc, runs, schedules, clock, job, optimise>>

\* One row of the bulk insert.
Insert(p) ==
  /\ ppc[p] = "insert" /\ held[p] < Len(Rows[p]) /\ ~Blocked(p)
  /\ NextKey(p) \notin Committed \union Holds(p)
  /\ held' = [held EXCEPT ![p] = @ + 1]
  /\ UNCHANGED <<assets, telemetry, ppc, runs, schedules, clock, job, optimise>>

Commit(p) ==
  /\ ppc[p] = "insert" /\ held[p] = Len(Rows[p])
  /\ telemetry' = telemetry \union {<<p, i>> : i \in DOMAIN Rows[p]}
  /\ ppc' = [ppc EXCEPT ![p] = "stored"] /\ held' = [held EXCEPT ![p] = 0]
  /\ UNCHANGED <<assets, runs, schedules, clock, job, optimise>>

\* A slip: the session is left open when an insert raises.
LeftOpen(p) ==
  /\ ppc' = [ppc EXCEPT ![p] = "refused"]
  /\ UNCHANGED <<assets, held, telemetry, runs, schedules, clock, job, optimise>>

Rollback(p) ==
  /\ ppc' = [ppc EXCEPT ![p] = "refused"] /\ held' = [held EXCEPT ![p] = 0]
  /\ UNCHANGED <<assets, telemetry, runs, schedules, clock, job, optimise>>

\* IntegrityError: nothing of the post stays.
Duplicate(p) ==
  /\ ppc[p] = "insert" /\ held[p] < Len(Rows[p]) /\ ~Blocked(p)
  /\ NextKey(p) \in Committed \union Holds(p)
  /\ Rollback(p)

\* The database ends a circle of waiting posts by refusing one of them.
Deadlocked(p) ==
  /\ \E S \in SUBSET Posts :
       /\ p \in S
       /\ \A o \in S : Blocked(o) /\ \E u \in S \ {o} : NextKey(o) \in Holds(u)
  /\ Rollback(p)

-----------------------------------------------------------------------------
(* forecast/router.py and forecast/tasks.py. *)

\* Any asset id is accepted; the task runs when the answer is out.
Trigger(j, a) ==
  /\ jpc[j] = "idle" /\ jpc' = [jpc EXCEPT ![j] = "accepted"]
  /\ for' = [for EXCEPT ![j] = a]
  /\ UNCHANGED <<assets, telemetry, runs, schedules, clock, ingest, draft, optimise>>

RowsOf(a) == {x \in telemetry : Rows[x[1]][x[2]].asset = a}

ReadTelemetry(j) ==
  /\ jpc[j] = "accepted"
  /\ jpc' = [jpc EXCEPT ![j] = IF Cardinality(RowsOf(for[j])) < MinRows THEN "short" ELSE "fit"]
  /\ UNCHANGED <<assets, telemetry, runs, schedules, clock, ingest, for, draft, optimise>>

\* fit() and predict(), and the time they are done.
Fit(j) ==
  /\ jpc[j] = "fit" /\ jpc' = [jpc EXCEPT ![j] = "save"]
  /\ clock' = clock + 1
  /\ \E c \in Curves :
       draft' = [draft EXCEPT ![j] = [asset |-> for[j], created |-> clock + 1, mean |-> c]]
  /\ UNCHANGED <<assets, telemetry, runs, schedules, ingest, for, optimise>>

\* A slip: saved once more when the answer of the commit is lost.
SaveAgain(j) ==
  /\ jpc[j] = "save" /\ runs' = runs \union {draft[j]}
  /\ draft' = [draft EXCEPT ![j] = None]
  /\ UNCHANGED <<assets, jpc, telemetry, schedules, clock, ingest, for, optimise>>

\* The run and all its intervals, in one transaction.
Save(j) ==
  /\ jpc[j] = "save" /\ jpc' = [jpc EXCEPT ![j] = "stored"]
  /\ runs' = runs \union {draft[j]}
  /\ draft' = [draft EXCEPT ![j] = None]
  /\ UNCHANGED <<assets, telemetry, schedules, clock, ingest, for, optimise>>

\* The model does not converge, the connection is lost, the process ends.
Abandon(j) ==
  /\ jpc[j] \in {"accepted", "fit", "save"} /\ jpc' = [jpc EXCEPT ![j] = "failed"]
  /\ draft' = [draft EXCEPT ![j] = None]
  /\ UNCHANGED <<assets, telemetry, runs, schedules, clock, ingest, for, optimise>>

-----------------------------------------------------------------------------
(* optimizer/router.py. *)

\* ORDER BY created_at DESC LIMIT 1, without the limit.
RunsOf(a) == {r \in runs : r.asset = a}
NewestCreated(a) == Max({r.created : r \in RunsOf(a)} \union {0})

\* A slip: no ORDER BY.
AnyRun(a) == RunsOf(a)

Newest(a) == {r \in RunsOf(a) : r.created = NewestCreated(a)}

\* The assets by id, each once, in no particular order; the solver takes no
\* empty list of them.
Start(q) ==
  LET found == {a \in assets : \E i \in DOMAIN Asked[q] : Asked[q][i] = a}
  IN  /\ qpc[q] = "new"
      /\ IF Cardinality(found) # Len(Asked[q]) \/ found = {}
         THEN qpc' = [qpc EXCEPT ![q] = "refused"] /\ UNCHANGED list
         ELSE /\ qpc' = [qpc EXCEPT ![q] = "run"]
              /\ \E s \in SetToSeqs(found) : list' = [list EXCEPT ![q] = s]
      /\ base' = [base EXCEPT ![q] = [a \in Assets |-> NewestCreated(a)]]
      /\ UNCHANGED <<assets, telemetry, runs, schedules, clock, ingest, job, picked, mus>>

\* The asset whose forecast the loop fetches.
Current(q) == list[q][Len(mus[q]) + 1]

ReadRun(q) ==
  /\ qpc[q] = "run" /\ qpc' = [qpc EXCEPT ![q] = "means"]
  /\ \E r \in IF RunsOf(Current(q)) = {} THEN {None} ELSE Newest(Current(q)) :
       picked' = [picked EXCEPT ![q] = Append(@, r)]
  /\ UNCHANGED <<assets, telemetry, runs, schedules, clock, ingest, job, list, mus, base>>

\* LIMIT T of the intervals, in any order: they all start at the same instant;
\* filled up with zeros.
Series(r, n) ==
  IF r = None THEN {[t \in 1 .. n |-> 0]}
  ELSE LET k == Min({n, Len(r.mean)})
       IN  {[t \in 1 .. n |-> IF t <= k THEN r.mean[pos[t]] ELSE 0] :
              pos \in {f \in [1 .. k -> DOMAIN r.mean] : IsInjective(f)}}

ReadMeans(q) ==
  /\ qpc[q] = "means"
  /\ \E s \in Series(Last(picked[q]), Hours[q]) : mus' = [mus EXCEPT ![q] = Append(@, s)]
  /\ qpc' = [qpc EXCEPT ![q] = IF Len(mus'[q]) = Len(list[q]) THEN "solve" ELSE "run"]
  /\ UNCHANGED <<assets, telemetry, runs, schedules, clock, ingest, job, list, picked, base>>

\* sum over the hours of | sum of the plan - sum of the forecasts |.
Imbalance(plan, mu, n) ==
  LET gap(t) == MapThenSumSet(LAMBDA i : plan[i][t] - mu[i][t], DOMAIN mu)
  IN  MapThenSumSet(LAMBDA t : IF gap(t) < 0 THEN -gap(t) ELSE gap(t), 1 .. n)

\* What the solver calls optimal: every constraint holds up to its accuracy.
Plans(l, mu, n) ==
  {plan \in [DOMAIN l -> [1 .. n -> Outputs]] :
     /\ \A i \in DOMAIN l, t \in 1 .. n : plan[i][t] >= -Eps /\ plan[i][t] <= Capacity[l[i]] + Eps
     /\ \A i \in DOMAIN l, t \in 1 .. n - 1 :
          /\ plan[i][t + 1] - plan[i][t] <= Ramp[l[i]] + Eps
          /\ plan[i][t] - plan[i][t + 1] <= Ramp[l[i]] + Eps
     /\ Imbalance(plan, mu, n) <= Tolerance + Eps}

Refuse(q) ==
  /\ qpc[q] = "solve" /\ qpc' = [qpc EXCEPT ![q] = "refused"]
  /\ UNCHANGED <<assets, telemetry, runs, schedules, clock, ingest, job, list, picked, mus, base>>

\* The rows of a plan, taken for the assets of l.
Intervals(l, plan, n) ==
  {[asset |-> l[i], hour |-> t - 1, mw |-> plan[i][t]] : i \in DOMAIN l, t \in 1 .. n}

\* A slip: the rows of the plan taken for those of asset_ids.
StoreAsAsked(q) ==
  /\ qpc[q] = "solve" /\ qpc' = [qpc EXCEPT ![q] = "stored"]
  /\ \E plan \in Plans(list[q], mus[q], Hours[q]) :
       /\ \A i \in DOMAIN plan : \A t \in DOMAIN plan[i] : plan[i][t] >= 0
       /\ schedules' = [schedules EXCEPT ![q] = Intervals(Asked[q], plan, Hours[q])]
  /\ UNCHANGED <<assets, telemetry, runs, clock, ingest, job, list, picked, mus, base>>

\* The schedule and its intervals, in one transaction; an output below zero
\* raises in ScheduleInterval before it, and so does any error of the solver.
Store(q) ==
  /\ qpc[q] = "solve" /\ qpc' = [qpc EXCEPT ![q] = "stored"]
  /\ \E plan \in Plans(list[q], mus[q], Hours[q]) :
       /\ \A i \in DOMAIN plan : \A t \in DOMAIN plan[i] : plan[i][t] >= 0
       /\ schedules' = [schedules EXCEPT ![q] = Intervals(list[q], plan, Hours[q])]
  /\ UNCHANGED <<assets, telemetry, runs, clock, ingest, job, list, picked, mus, base>>

-----------------------------------------------------------------------------

Ingest(p) == Validate(p) \/ Insert(p) \/ Commit(p) \/ Duplicate(p) \/ Deadlocked(p)
Forecast(j) == ReadTelemetry(j) \/ Fit(j) \/ Save(j) \/ Abandon(j)
Optimise(q) == Start(q) \/ ReadRun(q) \/ ReadMeans(q) \/ Refuse(q) \/ Store(q)

Next ==
  \/ \E a \in Assets : CreateAsset(a)
  \/ \E p \in Posts : Ingest(p)
  \/ \E j \in Jobs : Forecast(j) \/ \E a \in Assets : Trigger(j, a)
  \/ \E q \in Requests : Optimise(q)

\* The event loop runs a ready handler, and the database answers.
Fairness == \A p \in Posts : WF_vars(Ingest(p))

Spec == Init /\ [][Next]_vars /\ Fairness

-----------------------------------------------------------------------------
(* Properties. *)

\* A bulk ingest is all or nothing, and one instant of an asset has one value,
\* although posts overlap and wait for each other's keys
\* (ingest_telemetry and UNIQUE(asset_id, measured_at)).
IngestIsAtomic ==
  /\ \A p \in Posts :
       {x \in telemetry : x[1] = p} =
         IF ppc[p] = "stored" THEN {<<p, i>> : i \in DOMAIN Rows[p]} ELSE {}
  /\ \A x, y \in telemetry : Key(x[1], x[2]) = Key(y[1], y[2]) => x = y

\* A stored forecast belongs to an asset that exists and that has the rows a
\* forecast needs, none of them above its capacity (_run_forecast_async on
\* what ingest_telemetry let in).
RunsAreGrounded ==
  \A r \in runs :
    /\ r.asset \in assets /\ Cardinality(RowsOf(r.asset)) >= MinRows
    /\ \A x \in RowsOf(r.asset) : Rows[x[1]][x[2]].mw \in 0 .. Capacity[r.asset]

\* An optimisation uses, for each of its assets, a run of that asset, and none
\* that was already superseded when it began, whatever is stored meanwhile
\* (optimise_schedule reads the assets one by one).
ForecastsAreFresh ==
  \A q \in Requests : \A i \in DOMAIN picked[q] :
    IF picked[q][i] = None THEN base[q][list[q][i]] = 0
    ELSE /\ picked[q][i] \in runs /\ picked[q][i].asset = list[q][i]
         /\ picked[q][i].created >= base[q][list[q][i]]

\* A stored schedule gives each asset asked for one value per hour, within the
\* asset's own capacity and ramp up to the accuracy of the solver, never below
\* zero, and keeps the balance with the forecasts read for those assets
\* (dispatch.py, and the loop of optimise_schedule that stores its result).
SchedulesAreFeasible ==
  \A q \in Requests : qpc[q] = "stored" =>
    LET At(a, h) == {v \in schedules[q] : v.asset = a /\ v.hour = h}
        MW(a, h) == (CHOOSE v \in At(a, h) : TRUE).mw
        plan == [i \in DOMAIN list[q] |-> [t \in 1 .. Hours[q] |-> MW(list[q][i], t - 1)]]
    IN  /\ Cardinality(schedules[q]) = Len(Asked[q]) * Hours[q]
        /\ \A i \in DOMAIN Asked[q], h \in 0 .. Hours[q] - 1 :
             LET a == Asked[q][i]
             IN  /\ At(a, h) # {} /\ MW(a, h) \in 0 .. Capacity[a] + Eps
                 /\ h > 0 => MW(a, h) - MW(a, h - 1) \in -(Ramp[a] + Eps) .. Ramp[a] + Eps
        /\ Imbalance(plan, mus[q], Hours[q]) <= Tolerance + Eps

\* No post waits for ever: those that wait for each other's keys are told apart
\* by the database (ingest_telemetry has no order of its rows).
PostsAreAnswered == \A p \in Posts : ppc[p] = "insert" ~> ppc[p] \in {"stored", "refused"}
=============================================================================
