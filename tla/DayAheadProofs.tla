---------------------------- MODULE DayAheadProofs ----------------------------
(***************************************************************************)
(* Theorems about DayAhead, for any assets, posts, forecasts and           *)
(* optimisations.  Three invariants stand side by side: what the ingestion *)
(* of telemetry holds and has stored, what a forecast in progress rests    *)
(* on, and what an optimisation has read.  They meet in the tables, which  *)
(* only grow.                                                              *)
(***************************************************************************)
EXTENDS DayAhead, FiniteSetTheorems, Induction

LEMMA Constants ==
  /\ MinRows \in Nat \ {0} /\ Tolerance \in Nat /\ Eps \in Nat /\ None \notin Run
  /\ Known \subseteq Assets /\ Curves \subseteq Seq(Nat) /\ Outputs \subseteq Int
  /\ \A a \in Assets : Capacity[a] \in Nat /\ Ramp[a] \in Nat
  /\ \A p \in Posts : Rows[p] \in Seq(Row)
  /\ \A q \in Requests : Asked[q] \in Seq(Assets) /\ Hours[q] \in Nat \ {0}
  BY DayAheadAssumption

-----------------------------------------------------------------------------
(* Greatest elements. *)

LEMMA Greatest ==
  ASSUME NEW S \in SUBSET Nat, S # {}, NEW b \in Nat, \A x \in S : x <= b
  PROVE  Max(S) \in S /\ \A x \in S : x <= Max(S)
<1> DEFINE T == {n \in Nat : \A x \in S : x <= n}
<1>1. PICK n \in T : \A m \in T : n <= m
  <2>1. T \in SUBSET Nat /\ b \in T
    OBVIOUS
  <2> HIDE DEF T
  <2> QED BY <2>1, Least
<1>2. n \in S
  <2> SUFFICES ASSUME n \notin S PROVE FALSE
    OBVIOUS
  <2>1. \A x \in S : x <= n - 1
    BY <1>1
  <2>2. n - 1 \in T
    <3>1. PICK x \in S : x <= n - 1
      BY <2>1
    <3> QED BY <2>1, <3>1
  <2> QED BY <1>1, <2>2
<1>3. n \in S /\ \A x \in S : n >= x
  BY <1>1, <1>2
<1> QED BY <1>3 DEF Max

LEMMA Smaller ==
  ASSUME NEW m \in Nat, NEW n \in Nat
  PROVE  Min({m, n}) \in {m, n} /\ Min({m, n}) <= m /\ Min({m, n}) <= n
<1>1. \E x \in {m, n} : \A y \in {m, n} : x <= y
  OBVIOUS
<1> QED BY <1>1 DEF Min

-----------------------------------------------------------------------------
(* Types. *)

LEMMA Newest0 ==
  ASSUME NEW a \in Assets, TypeOK, \A r \in runs : r.created <= clock
  PROVE  /\ NewestCreated(a) \in Nat
         /\ \A r \in RunsOf(a) : r.created <= NewestCreated(a)
         /\ NewestCreated(a) = 0 \/ \E r \in RunsOf(a) : r.created = NewestCreated(a)
<1> DEFINE S == {r.created : r \in RunsOf(a)} \union {0}
<1>1. S \in SUBSET Nat /\ 0 \in S /\ clock \in Nat /\ \A x \in S : x <= clock
  BY DEF TypeOK, Run, RunsOf
<1>2. Max(S) \in S /\ \A x \in S : x <= Max(S)
  <2> HIDE DEF S
  <2> QED BY <1>1, Greatest
<1>3. NewestCreated(a) = Max(S)
  BY DEF NewestCreated
<1> QED BY <1>1, <1>2, <1>3

\* The orders Start may give to n assets.
LEMMA Orders ==
  ASSUME NEW S, NEW n \in Nat, Cardinality(S) = n, NEW s \in SetToSeqs(S)
  PROVE  /\ s \in Seq(S) /\ Len(s) = n /\ DOMAIN s = 1 .. n
         /\ \A i, j \in 1 .. n : s[i] = s[j] => i = j
<1>1. s \in [1 .. n -> S] /\ \A i, j \in 1 .. n : i # j => s[i] # s[j]
  BY DEF SetToSeqs
<1> QED BY <1>1

LEMMA SeriesType ==
  ASSUME NEW r \in Run \union {None}, NEW n \in Nat, NEW s \in Series(r, n)
  PROVE  s \in Seq(Nat)
<1>1. s \in [1 .. n -> Nat]
  <2>1. CASE r = None
    BY <2>1 DEF Series
  <2>2. CASE r # None
    <3> DEFINE k == Min({n, Len(r.mean)})
    <3>1. r.mean \in Seq(Nat) /\ Len(r.mean) \in Nat
      BY <2>2, Constants DEF Run
    <3>2. k \in Nat
      BY <3>1, Smaller
    <3>3. PICK pos \in [1 .. k -> DOMAIN r.mean] :
            s = [t \in 1 .. n |-> IF t <= k THEN r.mean[pos[t]] ELSE 0]
      BY <2>2 DEF Series
    <3>4. \A t \in 1 .. n : t <= k => r.mean[pos[t]] \in Nat
      <4> HIDE DEF k
      <4> QED BY <3>1, <3>2, <3>3
    <3> HIDE DEF k
    <3> QED BY <3>3, <3>4
  <2> QED BY <2>1, <2>2
<1> QED BY <1>1

LEMMA TypeInit == Init => TypeOK
<1> SUFFICES ASSUME Init PROVE TypeOK
  OBVIOUS
<1>1. assets \subseteq Assets /\ telemetry \subseteq Posts \X (Nat \ {0}) /\ runs \subseteq Run /\ clock \in Nat
  BY Constants DEF Init
<1>2. /\ schedules \in [Requests -> SUBSET Interval]
      /\ list \in [Requests -> Seq(Assets)] /\ picked \in [Requests -> Seq(Run \union {None})]
      /\ mus \in [Requests -> Seq(Seq(Nat))] /\ base \in [Requests -> [Assets -> Nat]]
  BY DEF Init
<1>3. /\ ppc \in [Posts -> {"new", "insert", "stored", "refused"}] /\ held \in [Posts -> Nat]
      /\ jpc \in [Jobs -> {"idle", "accepted", "fit", "save", "stored", "short", "failed"}]
      /\ for \in [Jobs -> Assets \union {None}] /\ draft \in [Jobs -> Run \union {None}]
      /\ qpc \in [Requests -> {"new", "run", "means", "solve", "stored", "refused"}]
  BY DEF Init
<1> QED BY <1>1, <1>2, <1>3 DEF TypeOK

\* What a job keeps, apart from its type: a run that is saved has been fitted,
\* at an instant the clock has passed.
Fitted ==
  /\ \A r \in runs : r.created <= clock
  /\ \A j \in Jobs :
       /\ jpc[j] # "idle" => for[j] \in Assets
       /\ jpc[j] = "save" => draft[j] \in Run /\ draft[j].asset = for[j] /\ draft[j].created <= clock

TypeInv == TypeOK /\ Fitted

LEMMA IngestType ==
  ASSUME TypeInv, NEW p \in Posts, Ingest(p) PROVE TypeInv'
<1> USE DEF job, optimise, TypeInv
<1>1. UNCHANGED <<assets, runs, schedules, clock, jpc, for, draft, qpc, list, picked, mus, base>>
  BY DEF Ingest, Validate, Insert, Commit, Duplicate, Deadlocked, Rollback
<1>2. ppc' \in [Posts -> {"new", "insert", "stored", "refused"}] /\ held' \in [Posts -> Nat]
  <2>1. CASE Validate(p)
    BY <2>1 DEF Validate, TypeOK
  <2>2. CASE Insert(p)
    BY <2>2 DEF Insert, TypeOK
  <2>3. CASE Commit(p)
    BY <2>3 DEF Commit, TypeOK
  <2>4. CASE Rollback(p)
    BY <2>4 DEF Rollback, TypeOK
  <2> QED BY <2>1, <2>2, <2>3, <2>4 DEF Ingest, Duplicate, Deadlocked
<1>3. telemetry' \subseteq Posts \X (Nat \ {0})
  <2>1. CASE Commit(p)
    <3>1. \A i \in DOMAIN Rows[p] : i \in Nat \ {0}
      BY Constants
    <3> QED BY <2>1, <3>1 DEF Commit, TypeOK
  <2> QED BY <2>1 DEF Ingest, Validate, Insert, Duplicate, Deadlocked, Rollback, TypeOK
<1> QED BY <1>1, <1>2, <1>3 DEF TypeOK, Fitted

LEMMA JobType ==
  ASSUME TypeInv, NEW j \in Jobs, Forecast(j) \/ \E a \in Assets : Trigger(j, a) PROVE TypeInv'
<1> USE DEF ingest, optimise, TypeInv
<1>1. UNCHANGED <<assets, telemetry, schedules, ppc, held, qpc, list, picked, mus, base>>
  BY DEF Forecast, Trigger, ReadTelemetry, Fit, Save, Abandon
<1>2. SUFFICES
        /\ runs' \subseteq Run /\ clock' \in Nat
        /\ jpc' \in [Jobs -> {"idle", "accepted", "fit", "save", "stored", "short", "failed"}]
        /\ for' \in [Jobs -> Assets \union {None}] /\ draft' \in [Jobs -> Run \union {None}]
        /\ Fitted'
  BY <1>1 DEF TypeOK
<1>3. CASE \E a \in Assets : Trigger(j, a)
  BY <1>3 DEF Trigger, TypeOK, Fitted
<1>4. CASE ReadTelemetry(j)
  BY <1>4 DEF ReadTelemetry, TypeOK, Fitted
<1>5. CASE Fit(j)
  <2>1. PICK c \in Curves :
          draft' = [draft EXCEPT ![j] = [asset |-> for[j], created |-> clock + 1, mean |-> c]]
    BY <1>5 DEF Fit
  <2> DEFINE d == [asset |-> for[j], created |-> clock + 1, mean |-> c]
  <2>2. d \in Run /\ d.asset = for[j] /\ d.created = clock + 1
    BY <1>5 DEF Fit, TypeOK, Fitted, Run
  <2>3. draft' = [draft EXCEPT ![j] = d]
    BY <2>1
  <2> HIDE DEF d
  <2>4. /\ clock' = clock + 1 /\ clock \in Nat /\ runs' = runs /\ for' = for
        /\ jpc' = [jpc EXCEPT ![j] = "save"] /\ jpc[j] = "fit"
    BY <1>5 DEF Fit, TypeOK
  <2>5. Fitted'
    <3>1. \A r \in runs' : r.created <= clock'
      BY <2>4 DEF TypeOK, Fitted, Run
    <3>2. ASSUME NEW k \in Jobs
          PROVE  /\ jpc'[k] # "idle" => for'[k] \in Assets
                 /\ jpc'[k] = "save" => draft'[k] \in Run /\ draft'[k].asset = for'[k] /\ draft'[k].created <= clock'
      <4>1. CASE k = j
        BY <2>2, <2>3, <2>4, <4>1 DEF TypeOK, Fitted
      <4>2. CASE k # j
        <5>1. jpc'[k] = jpc[k] /\ draft'[k] = draft[k] /\ for'[k] = for[k]
          BY <2>3, <2>4, <4>2 DEF TypeOK
        <5>2. draft[k] \in Run => draft[k].created \in Nat
          BY DEF Run
        <5> QED BY <2>4, <5>1, <5>2 DEF Fitted
      <4> QED BY <4>1, <4>2
    <3> QED BY <3>1, <3>2 DEF Fitted
  <2> QED BY <2>2, <2>3, <2>4, <2>5 DEF TypeOK
<1>6. CASE Save(j)
  BY <1>6 DEF Save, TypeOK, Fitted
<1>7. CASE Abandon(j)
  BY <1>7 DEF Abandon, TypeOK, Fitted
<1> QED BY <1>3, <1>4, <1>5, <1>6, <1>7 DEF Forecast

LEMMA StartType ==
  ASSUME TypeInv, NEW q \in Requests, Start(q)
  PROVE  /\ list' \in [Requests -> Seq(Assets)] /\ base' \in [Requests -> [Assets -> Nat]]
         /\ qpc'[q] = "run" => list'[q] # <<>> /\ \A i \in DOMAIN list'[q] : list'[q][i] \in assets
<1> DEFINE found == {a \in assets : \E i \in DOMAIN Asked[q] : Asked[q][i] = a}
           n == Len(Asked[q])
<1>1. base' \in [Requests -> [Assets -> Nat]]
  <2>1. base' = [base EXCEPT ![q] = [a \in Assets |-> NewestCreated(a)]]
    BY DEF Start
  <2>2. [a \in Assets |-> NewestCreated(a)] \in [Assets -> Nat]
    BY Newest0 DEF TypeInv, Fitted
  <2> QED BY <2>1, <2>2 DEF TypeInv, TypeOK
<1>2. CASE Cardinality(found) # n \/ found = {}
  BY <1>1, <1>2 DEF Start, TypeInv, TypeOK
<1>3. CASE Cardinality(found) = n /\ found # {}
  <2>1. PICK s \in SetToSeqs(found) : list' = [list EXCEPT ![q] = s]
    BY <1>3 DEF Start
  <2>2. n \in Nat /\ n # 0 /\ found \subseteq Assets
    <3>1. Asked[q] \in Seq(Assets) /\ Asked[q] # <<>>
      BY <1>3, Constants
    <3> QED BY <3>1 DEF TypeInv, TypeOK
  <2>3. s \in Seq(found) /\ Len(s) = n /\ DOMAIN s = 1 .. n
    <3> HIDE DEF found, n
    <3> QED BY <1>3, <2>2, Orders
  <2>4. s \in Seq(Assets) /\ s # <<>> /\ \A i \in DOMAIN s : s[i] \in assets
    BY <2>2, <2>3
  <2>5. list'[q] = s
    BY <2>1 DEF TypeInv, TypeOK
  <2> QED BY <1>1, <2>1, <2>4, <2>5 DEF TypeInv, TypeOK
<1> QED BY <1>2, <1>3

\* Where an optimisation is in its list of assets.
Reading ==
  \A q \in Requests :
    /\ qpc[q] = "new" => picked[q] = <<>> /\ mus[q] = <<>>
    /\ qpc[q] = "run" => Len(picked[q]) = Len(mus[q]) /\ Len(mus[q]) < Len(list[q])
    /\ qpc[q] = "means" => Len(picked[q]) = Len(mus[q]) + 1 /\ Len(mus[q]) < Len(list[q])
    /\ qpc[q] = "solve" => Len(mus[q]) = Len(list[q])

LEMMA OptimiseType ==
  ASSUME TypeInv, Reading, NEW q \in Requests, Optimise(q) PROVE TypeInv' /\ Reading'
<1> USE DEF ingest, job, TypeInv
<1>1. UNCHANGED <<assets, telemetry, runs, clock, ppc, held, jpc, for, draft>>
  BY DEF Optimise, Start, ReadRun, ReadMeans, Refuse, Store
<1>2. SUFFICES
        /\ schedules' \in [Requests -> SUBSET Interval]
        /\ qpc' \in [Requests -> {"new", "run", "means", "solve", "stored", "refused"}]
        /\ list' \in [Requests -> Seq(Assets)] /\ base' \in [Requests -> [Assets -> Nat]]
        /\ picked' \in [Requests -> Seq(Run \union {None})]
        /\ mus' \in [Requests -> Seq(Seq(Nat))]
        /\ Reading'
  BY <1>1 DEF TypeOK, Fitted
<1>3. CASE Start(q)
  <2>1. qpc[q] = "new" /\ picked[q] = <<>> /\ mus[q] = <<>> /\ UNCHANGED <<schedules, picked, mus>>
    BY <1>3 DEF Start, Reading
  <2>2. /\ qpc' \in [Requests -> {"new", "run", "means", "solve", "stored", "refused"}]
        /\ qpc'[q] \in {"run", "refused"}
        /\ \A r \in Requests \ {q} : qpc'[r] = qpc[r] /\ list'[r] = list[r]
    BY <1>3 DEF Start, TypeOK
  <2>3. list' \in [Requests -> Seq(Assets)] /\ base' \in [Requests -> [Assets -> Nat]]
        /\ (qpc'[q] = "run" => list'[q] # <<>>)
    BY <1>3, StartType
  <2>4. Reading'
    <3>1. list'[q] \in Seq(Assets)
      BY <2>3
    <3>2. qpc'[q] = "run" => Len(mus'[q]) < Len(list'[q]) /\ Len(picked'[q]) = Len(mus'[q])
      BY <2>1, <2>3, <3>1
    <3> QED BY <2>1, <2>2, <3>2 DEF Reading
  <2> QED BY <2>1, <2>2, <2>3, <2>4 DEF TypeOK
<1>4. CASE ReadRun(q)
  <2>1. PICK r \in Run \union {None} : picked' = [picked EXCEPT ![q] = Append(@, r)]
    BY <1>4 DEF ReadRun, Newest, RunsOf, TypeOK
  <2>2. /\ qpc[q] = "run" /\ qpc' = [qpc EXCEPT ![q] = "means"]
        /\ UNCHANGED <<schedules, list, mus, base>>
    BY <1>4 DEF ReadRun
  <2>3. picked[q] \in Seq(Run \union {None}) /\ mus[q] \in Seq(Seq(Nat))
    BY DEF TypeOK
  <2>4. picked'[q] = Append(picked[q], r) /\ Len(picked'[q]) = Len(picked[q]) + 1
        /\ picked'[q] \in Seq(Run \union {None})
    BY <2>1, <2>3 DEF TypeOK
  <2>5. picked' \in [Requests -> Seq(Run \union {None})]
    BY <2>1, <2>3, <2>4 DEF TypeOK
  <2>6. Reading'
    BY <2>1, <2>2, <2>3, <2>4 DEF Reading, TypeOK
  <2> QED BY <2>2, <2>5, <2>6 DEF TypeOK
<1>5. CASE ReadMeans(q)
  <2>1. PICK s \in Series(Last(picked[q]), Hours[q]) : mus' = [mus EXCEPT ![q] = Append(@, s)]
    BY <1>5 DEF ReadMeans
  <2>2. /\ qpc[q] = "means" /\ UNCHANGED <<schedules, list, picked, base>>
        /\ qpc' = [qpc EXCEPT ![q] = IF Len(mus'[q]) = Len(list[q]) THEN "solve" ELSE "run"]
    BY <1>5 DEF ReadMeans
  <2>3. picked[q] \in Seq(Run \union {None}) /\ mus[q] \in Seq(Seq(Nat)) /\ list[q] \in Seq(Assets)
    BY DEF TypeOK
  <2>4. Last(picked[q]) \in Run \union {None}
    <3>1. Len(picked[q]) \in 1 .. Len(picked[q])
      BY <2>2, <2>3 DEF Reading
    <3> QED BY <2>3, <3>1 DEF Last
  <2>5. s \in Seq(Nat)
    BY <2>4, SeriesType, Constants
  <2>6. mus'[q] = Append(mus[q], s) /\ Len(mus'[q]) = Len(mus[q]) + 1 /\ mus'[q] \in Seq(Seq(Nat))
    BY <2>1, <2>3, <2>5 DEF TypeOK
  <2>7. mus' \in [Requests -> Seq(Seq(Nat))]
    BY <2>1, <2>3, <2>6 DEF TypeOK
  <2>8. Reading'
    BY <2>1, <2>2, <2>3, <2>6 DEF Reading, TypeOK
  <2> QED BY <2>2, <2>7, <2>8 DEF TypeOK
<1>6. CASE Refuse(q)
  BY <1>6 DEF Refuse, TypeOK, Reading
<1>7. CASE Store(q)
  <2>1. PICK plan \in Plans(list[q], mus[q], Hours[q]) :
          schedules' = [schedules EXCEPT ![q] = Intervals(list[q], plan, Hours[q])]
    BY <1>7 DEF Store
  <2>2. plan \in [DOMAIN list[q] -> [1 .. Hours[q] -> Outputs]]
    BY DEF Plans
  <2>3. Intervals(list[q], plan, Hours[q]) \subseteq Interval
    <3>1. list[q] \in Seq(Assets) /\ Hours[q] \in Nat
      BY Constants DEF TypeOK
    <3>2. ASSUME NEW i \in DOMAIN list[q], NEW t \in 1 .. Hours[q]
          PROVE  [asset |-> list[q][i], hour |-> t - 1, mw |-> plan[i][t]] \in Interval
      <4>1. plan[i] \in [1 .. Hours[q] -> Outputs]
        BY <2>2
      <4>2. plan[i][t] \in Outputs
        BY <4>1, Zenon
      <4>3. t - 1 \in Nat
        BY <3>1
      <4>4. list[q][i] \in Assets
        BY <3>1
      <4> QED BY <4>2, <4>3, <4>4, Constants DEF Interval
    <3> QED BY <3>2 DEF Intervals
  <2>4. schedules' \in [Requests -> SUBSET Interval]
    BY <2>1, <2>3 DEF TypeOK
  <2> QED BY <1>7, <2>4 DEF Store, TypeOK, Reading
<1> QED BY <1>3, <1>4, <1>5, <1>6, <1>7 DEF Optimise

LEMMA TypeNext ==
  ASSUME TypeInv, Reading, [Next]_vars PROVE TypeInv' /\ Reading'
<1>1. CASE \E a \in Assets : CreateAsset(a)
  BY <1>1 DEF CreateAsset, ingest, job, optimise, TypeInv, TypeOK, Fitted, Reading
<1>2. CASE \E p \in Posts : Ingest(p)
  <2>1. PICK p \in Posts : Ingest(p)
    BY <1>2
  <2>2. UNCHANGED <<qpc, list, picked, mus>>
    BY <2>1 DEF Ingest, Validate, Insert, Commit, Duplicate, Deadlocked, Rollback, optimise
  <2> QED BY <2>1, <2>2, IngestType DEF Reading
<1>3. CASE \E j \in Jobs : Forecast(j) \/ \E a \in Assets : Trigger(j, a)
  <2>1. PICK j \in Jobs : Forecast(j) \/ \E a \in Assets : Trigger(j, a)
    BY <1>3
  <2>2. UNCHANGED <<qpc, list, picked, mus>>
    BY <2>1 DEF Forecast, Trigger, ReadTelemetry, Fit, Save, Abandon, optimise
  <2> QED BY <2>1, <2>2, JobType DEF Reading
<1>4. CASE \E q \in Requests : Optimise(q)
  BY <1>4, OptimiseType
<1>5. CASE UNCHANGED vars
  BY <1>5 DEF vars, ingest, job, optimise, TypeInv, TypeOK, Fitted, Reading
<1> QED BY <1>1, <1>2, <1>3, <1>4, <1>5 DEF Next

LEMMA TypeHolds == Spec => [](TypeInv /\ Reading)
<1>1. Init => TypeInv /\ Reading
  BY TypeInit DEF TypeInv, Fitted, Reading, Init
<1>2. TypeInv /\ Reading /\ [Next]_vars => (TypeInv /\ Reading)'
  BY TypeNext
<1> QED BY <1>1, <1>2, PTL DEF Spec

\* Every table, task and request of the renewables service has its type, and an
\* optimisation that reads a forecast is inside its list of assets
\* (ingest_telemetry, _run_forecast_async, optimise_schedule).
THEOREM TypeCorrect == Spec => []TypeOK
<1>1. TypeInv => TypeOK
  BY DEF TypeInv
<1> QED BY <1>1, TypeHolds, PTL

-----------------------------------------------------------------------------
(* Ingestion. *)

\* What is stored is the rows of the posts that are stored, and only rows that
\* were validated; what is held is the beginning of a post in its transaction.
Stored ==
  /\ IsFiniteSet(telemetry)
  /\ \A x \in telemetry : ppc[x[1]] = "stored" /\ x[2] \in DOMAIN Rows[x[1]]
  /\ \A p \in Posts :
       /\ ppc[p] = "stored" => \A i \in DOMAIN Rows[p] : <<p, i>> \in telemetry
       /\ ppc[p] \in {"insert", "stored"} => Acceptable(p)
       /\ held[p] <= Len(Rows[p]) /\ (ppc[p] # "insert" => held[p] = 0)

\* No two transactions hold one key, none holds a key that is stored, and none
\* holds a key twice.
KeysApart ==
  /\ \A p, o \in Posts : \A i \in 1 .. held[p], k \in 1 .. held[o] :
       Key(p, i) = Key(o, k) => p = o /\ i = k
  /\ \A p \in Posts : \A i \in 1 .. held[p] : Key(p, i) \notin Committed
  /\ \A x, y \in telemetry : Key(x[1], x[2]) = Key(y[1], y[2]) => x = y

LEMMA StoredNext ==
  ASSUME TypeInv, Stored, KeysApart, NEW p \in Posts, Ingest(p) PROVE Stored' /\ KeysApart'
<1> USE DEF TypeInv
<1>0. /\ telemetry \subseteq Posts \X (Nat \ {0}) /\ held \in [Posts -> Nat]
      /\ ppc \in [Posts -> {"new", "insert", "stored", "refused"}]
      /\ \A o \in Posts : Rows[o] \in Seq(Row)
  BY Constants DEF TypeOK
<1>a. UNCHANGED assets
  BY DEF Ingest, Validate, Insert, Commit, Duplicate, Deadlocked, Rollback
<1>b. \A o \in Posts : Acceptable(o) = Acceptable(o)'
  BY <1>a DEF Acceptable
<1>1. CASE Validate(p)
  <2>1. UNCHANGED <<telemetry, held>> /\ ppc[p] = "new"
    BY <1>1 DEF Validate
  <2>2. \A x \in telemetry : x[1] # p
    BY <2>1 DEF Stored
  <2>3. /\ ppc' = [ppc EXCEPT ![p] = IF Acceptable(p) THEN "insert" ELSE "refused"]
    BY <1>1 DEF Validate
  <2>4. Stored'
    BY <1>0, <1>b, <2>1, <2>2, <2>3 DEF Stored
  <2>5. KeysApart'
    BY <2>1 DEF KeysApart, Committed, Key
  <2> QED BY <2>4, <2>5
<1>2. CASE Insert(p)
  <2>1. /\ UNCHANGED <<telemetry, ppc>> /\ ppc[p] = "insert" /\ held[p] < Len(Rows[p])
        /\ held' = [held EXCEPT ![p] = @ + 1] /\ NextKey(p) \notin Committed \union Holds(p)
        /\ \A o \in Posts \ {p} : NextKey(p) \notin Holds(o)
    BY <1>2 DEF Insert, Blocked
  <2>2. Stored'
    BY <1>0, <1>b, <2>1 DEF Stored
  <2>3. \A o \in Posts : held'[o] = IF o = p THEN held[p] + 1 ELSE held[o]
    BY <1>0, <2>1
  <2>4. \A o \in Posts : \A i \in 1 .. held[o] : Key(o, i) # NextKey(p)
    BY <2>1 DEF Holds
  <2>5. \A o \in Posts : \A i \in 1 .. held'[o] : i \in 1 .. held[o] \/ (o = p /\ i = held[p] + 1)
    BY <1>0, <2>3
  <2>6. \A o, u \in Posts : \A i \in 1 .. held'[o], k \in 1 .. held'[u] :
          Key(o, i) = Key(u, k) => o = u /\ i = k
    <3> SUFFICES ASSUME NEW o \in Posts, NEW u \in Posts, NEW i \in 1 .. held'[o], NEW k \in 1 .. held'[u],
                        Key(o, i) = Key(u, k)
                 PROVE  o = u /\ i = k
      OBVIOUS
    <3>1. CASE i \in 1 .. held[o] /\ k \in 1 .. held[u]
      BY <3>1 DEF KeysApart
    <3>2. CASE i \in 1 .. held[o] /\ ~ (k \in 1 .. held[u])
      BY <2>4, <2>5, <3>2 DEF NextKey
    <3>3. CASE ~ (i \in 1 .. held[o]) /\ k \in 1 .. held[u]
      BY <2>4, <2>5, <3>3 DEF NextKey
    <3>4. CASE ~ (i \in 1 .. held[o]) /\ ~ (k \in 1 .. held[u])
      BY <2>5, <3>4
    <3> QED BY <3>1, <3>2, <3>3, <3>4
  <2>7. \A o \in Posts : \A i \in 1 .. held'[o] : Key(o, i) \notin Committed
    BY <2>1, <2>5 DEF KeysApart, NextKey
  <2>8. KeysApart'
    BY <2>1, <2>6, <2>7 DEF KeysApart, Committed, Key
  <2> QED BY <2>2, <2>8
<1>3. CASE Commit(p)
  <2> DEFINE new == {<<p, i>> : i \in DOMAIN Rows[p]}
  <2>1. /\ telemetry' = telemetry \union new /\ ppc[p] = "insert" /\ held[p] = Len(Rows[p])
        /\ ppc' = [ppc EXCEPT ![p] = "stored"] /\ held' = [held EXCEPT ![p] = 0]
    BY <1>3 DEF Commit
  <2>2. DOMAIN Rows[p] = 1 .. held[p]
    BY <1>0, <2>1
  <2>3. \A x \in new : x[1] = p /\ x[2] \in 1 .. held[p]
    BY <2>2
  <2>4. IsFiniteSet(new)
    <3>1. IsFiniteSet(1 .. held[p])
      BY <1>0, FS_Interval
    <3>2. [i \in 1 .. held[p] |-> <<p, i>>] \in Surjection(1 .. held[p], new)
      BY <2>2 DEF Surjection
    <3> HIDE DEF new
    <3> QED BY <3>1, <3>2, FS_Surjection
  <2>5. IsFiniteSet(telemetry')
    BY <2>1, <2>4, FS_Union DEF Stored
  <2>6. Stored'
    <3>1. \A x \in telemetry' : ppc'[x[1]] = "stored" /\ x[2] \in DOMAIN Rows[x[1]]
      <4>1. \A x \in telemetry : x[1] # p /\ x[1] \in Posts
        BY <1>0, <2>1 DEF Stored
      <4> QED BY <1>0, <2>1, <2>2, <2>3, <4>1 DEF Stored
    <3>2. ASSUME NEW o \in Posts
          PROVE /\ ppc'[o] = "stored" => \A i \in DOMAIN Rows[o] : <<o, i>> \in telemetry'
                /\ ppc'[o] \in {"insert", "stored"} => Acceptable(o)'
                /\ held'[o] <= Len(Rows[o]) /\ (ppc'[o] # "insert" => held'[o] = 0)
      BY <1>0, <1>b, <2>1 DEF Stored
    <3> QED BY <2>5, <3>1, <3>2 DEF Stored
  <2>7. \A o \in Posts : \A i \in 1 .. held'[o] : o # p /\ i \in 1 .. held[o]
    BY <1>0, <2>1
  <2>8. \A o \in Posts : \A i \in 1 .. held'[o] : Key(o, i) \notin Committed'
    <3> SUFFICES ASSUME NEW o \in Posts, NEW i \in 1 .. held'[o], NEW x \in telemetry',
                        Key(o, i) = Key(x[1], x[2])
                 PROVE  FALSE
      BY DEF Committed, Key
    <3>1. CASE x \in telemetry
      BY <2>7, <3>1 DEF KeysApart, Committed
    <3>2. CASE x \in new
      BY <2>3, <2>7, <3>2 DEF KeysApart
    <3> QED BY <2>1, <3>1, <3>2
  <2>9. \A x, y \in telemetry' : Key(x[1], x[2]) = Key(y[1], y[2]) => x = y
    <3> SUFFICES ASSUME NEW x \in telemetry', NEW y \in telemetry', Key(x[1], x[2]) = Key(y[1], y[2])
                 PROVE  x = y
      OBVIOUS
    <3>1. CASE x \in telemetry /\ y \in telemetry
      BY <3>1 DEF KeysApart
    <3>2. CASE x \in telemetry /\ y \in new
      BY <2>3, <3>2 DEF KeysApart, Committed
    <3>3. CASE x \in new /\ y \in telemetry
      BY <2>3, <3>3 DEF KeysApart, Committed
    <3>4. CASE x \in new /\ y \in new
      BY <2>3, <3>4 DEF KeysApart
    <3> QED BY <2>1, <3>1, <3>2, <3>3, <3>4
  <2>10. KeysApart'
    BY <2>7, <2>8, <2>9 DEF KeysApart, Key
  <2> QED BY <2>6, <2>10
<1>4. CASE Rollback(p) /\ ppc[p] = "insert"
  <2>1. /\ UNCHANGED telemetry /\ ppc[p] = "insert"
        /\ ppc' = [ppc EXCEPT ![p] = "refused"] /\ held' = [held EXCEPT ![p] = 0]
    BY <1>4 DEF Rollback
  <2>2. \A x \in telemetry : x[1] # p /\ x[1] \in Posts
    BY <1>0, <2>1 DEF Stored
  <2>3. Stored'
    BY <1>0, <1>b, <2>1, <2>2 DEF Stored
  <2>4. \A o \in Posts : \A i \in 1 .. held'[o] : o # p /\ i \in 1 .. held[o]
    BY <1>0, <2>1
  <2>5. KeysApart'
    BY <2>1, <2>4 DEF KeysApart, Committed, Key
  <2> QED BY <2>3, <2>5
<1>5. Duplicate(p) \/ Deadlocked(p) => Rollback(p) /\ ppc[p] = "insert"
  <2>1. Duplicate(p) => Rollback(p) /\ ppc[p] = "insert"
    BY DEF Duplicate
  <2>2. Deadlocked(p) => Rollback(p) /\ Blocked(p)
    BY DEF Deadlocked
  <2> QED BY <2>1, <2>2 DEF Blocked
<1> HIDE DEF TypeInv
<1> QED BY <1>1, <1>2, <1>3, <1>4, <1>5 DEF Ingest

\* A step of the forecasts or of the optimisations, or a new asset, leaves the
\* ingestion alone.
LEMMA StoredElse ==
  ASSUME TypeInv, Stored, KeysApart, UNCHANGED <<telemetry, ppc, held>>, assets \subseteq assets'
  PROVE  Stored' /\ KeysApart'
<1>1. \A p \in Posts : Acceptable(p) => Acceptable(p)'
  BY DEF Acceptable
<1>2. Stored'
  BY <1>1 DEF Stored
<1> QED BY <1>2 DEF KeysApart, Committed, Key

\* What the steps outside the ingestion leave alone.
LEMMA OutsideIngest ==
  ASSUME [Next]_vars, ~ \E p \in Posts : Ingest(p)
  PROVE  UNCHANGED <<telemetry, ppc, held>> /\ assets \subseteq assets'
<1>1. CASE \E a \in Assets : CreateAsset(a)
  BY <1>1 DEF CreateAsset, ingest
<1>2. CASE \E j \in Jobs : Forecast(j) \/ \E a \in Assets : Trigger(j, a)
  BY <1>2 DEF Forecast, Trigger, ReadTelemetry, Fit, Save, Abandon, ingest
<1>3. CASE \E q \in Requests : Optimise(q)
  BY <1>3 DEF Optimise, Start, ReadRun, ReadMeans, Refuse, Store, ingest
<1>4. CASE UNCHANGED vars
  BY <1>4 DEF vars, ingest
<1> QED BY <1>1, <1>2, <1>3, <1>4 DEF Next

IngestInv == TypeInv /\ Reading /\ Stored /\ KeysApart

LEMMA IngestHolds == Spec => []IngestInv
<1>1. Init => IngestInv
  <2> SUFFICES ASSUME Init PROVE Stored /\ KeysApart
    BY TypeInit DEF IngestInv, TypeInv, Fitted, Reading, Init
  <2>1. \A p \in Posts : ppc[p] = "new" /\ held[p] = 0 /\ Len(Rows[p]) \in Nat
    BY Constants DEF Init
  <2>2. telemetry = {} /\ IsFiniteSet(telemetry)
    BY FS_EmptySet DEF Init
  <2> QED BY <2>1, <2>2 DEF Stored, KeysApart, Committed
<1>2. IngestInv /\ [Next]_vars => IngestInv'
  BY TypeNext, StoredNext, StoredElse, OutsideIngest DEF IngestInv
<1> QED BY <1>1, <1>2, PTL DEF Spec

\* A bulk ingest is all or nothing and the key of a row is unique, for any
\* number of posts that overlap (ingest_telemetry and UNIQUE(asset_id,
\* measured_at)): what makes it so is that the keys a transaction holds are
\* those of no other transaction and of no committed row.
THEOREM IngestAtomic == Spec => []IngestIsAtomic
<1>1. IngestInv => IngestIsAtomic
  <2> SUFFICES ASSUME IngestInv PROVE IngestIsAtomic
    OBVIOUS
  <2>1. ASSUME NEW p \in Posts
        PROVE  {x \in telemetry : x[1] = p} =
                 IF ppc[p] = "stored" THEN {<<p, i>> : i \in DOMAIN Rows[p]} ELSE {}
    <3>1. CASE ppc[p] = "stored"
      <4>1. \A x \in telemetry : x = <<x[1], x[2]>> /\ x[2] \in DOMAIN Rows[x[1]]
        BY DEF IngestInv, TypeInv, TypeOK, Stored
      <4>2. \A i \in DOMAIN Rows[p] : <<p, i>> \in telemetry
        BY <3>1 DEF IngestInv, Stored
      <4> QED BY <3>1, <4>1, <4>2
    <3>2. CASE ppc[p] # "stored"
      BY <3>2 DEF IngestInv, Stored
    <3> QED BY <3>1, <3>2
  <2> QED BY <2>1 DEF IngestIsAtomic, IngestInv, KeysApart
<1> QED BY <1>1, IngestHolds, PTL

-----------------------------------------------------------------------------
(* Forecasts. *)

Enough(a) == Cardinality(RowsOf(a)) >= MinRows

\* A job that has read its telemetry, and every run, rests on enough rows.
Grounded ==
  /\ \A j \in Jobs : jpc[j] \in {"fit", "save"} => Enough(for[j])
  /\ \A r \in runs : Enough(r.asset)

\* Telemetry is never deleted, and what is enough stays enough.
LEMMA TelemetryGrows ==
  ASSUME IngestInv, IngestInv', [Next]_vars
  PROVE  \A a : Enough(a) => Enough(a)'
<1>1. telemetry \subseteq telemetry'
  <2>1. CASE \E p \in Posts : Ingest(p)
    BY <2>1 DEF Ingest, Validate, Insert, Commit, Duplicate, Deadlocked, Rollback
  <2> QED BY <2>1, OutsideIngest
<1>2. ASSUME NEW a, Enough(a) PROVE Enough(a)'
  <2>1. IsFiniteSet(RowsOf(a)') /\ Cardinality(RowsOf(a)') \in Nat
    <3>1. IsFiniteSet(telemetry') /\ RowsOf(a)' \in SUBSET telemetry'
      BY DEF IngestInv, Stored, RowsOf
    <3> QED BY <3>1, FS_Subset, FS_CardinalityType
  <2>2. RowsOf(a) \in SUBSET RowsOf(a)'
    BY <1>1 DEF RowsOf
  <2>3. IsFiniteSet(RowsOf(a)) /\ Cardinality(RowsOf(a)) <= Cardinality(RowsOf(a)')
    BY <2>1, <2>2, FS_Subset
  <2>4. Cardinality(RowsOf(a)) \in Nat
    BY <2>3, FS_CardinalityType
  <2> QED BY <1>2, <2>1, <2>3, <2>4, Constants DEF Enough
<1> QED BY <1>2

LEMMA GroundedNext ==
  ASSUME IngestInv, IngestInv', Grounded, [Next]_vars PROVE Grounded'
<1>1. \A a : Enough(a) => Enough(a)'
  BY TelemetryGrows
<1>2. CASE UNCHANGED <<runs, jpc, for>>
  BY <1>1, <1>2 DEF Grounded
<1>3. CASE \E j \in Jobs : Forecast(j) \/ \E a \in Assets : Trigger(j, a)
  <2>1. PICK j \in Jobs : Forecast(j) \/ \E a \in Assets : Trigger(j, a)
    BY <1>3
  <2> USE DEF IngestInv, TypeInv
  <2>2. CASE \E a \in Assets : Trigger(j, a)
    BY <1>1, <2>2 DEF Trigger, Grounded, TypeOK
  <2>3. CASE ReadTelemetry(j)
    <3>1. ~ (Cardinality(RowsOf(for[j])) < MinRows) => Enough(for[j])
      <4>1. IsFiniteSet(RowsOf(for[j]))
        BY FS_Subset DEF Stored, RowsOf
      <4> QED BY <4>1, FS_CardinalityType, Constants DEF Enough
    <3>2. jpc'[j] = "fit" => Enough(for[j])
      BY <2>3, <3>1 DEF ReadTelemetry, TypeOK
    <3>3. /\ UNCHANGED <<runs, for>> /\ jpc'[j] \in {"fit", "short"}
          /\ \A k \in Jobs \ {j} : jpc'[k] = jpc[k]
      BY <2>3 DEF ReadTelemetry, TypeOK
    <3>4. \A k \in Jobs : jpc'[k] \in {"fit", "save"} => Enough(for[k])'
      BY <1>1, <3>2, <3>3 DEF Grounded
    <3> QED BY <1>1, <3>3, <3>4 DEF Grounded
  <2>4. CASE Fit(j)
    BY <1>1, <2>4 DEF Fit, Grounded, TypeOK
  <2>5. CASE Save(j)
    <3>1. /\ draft[j].asset = for[j] /\ Enough(for[j]) /\ UNCHANGED for
          /\ runs' = runs \union {draft[j]} /\ jpc' = [jpc EXCEPT ![j] = "stored"]
      BY <2>5 DEF Save, Fitted, Grounded
    <3> QED BY <1>1, <3>1 DEF Grounded, TypeOK
  <2>6. CASE Abandon(j)
    BY <1>1, <2>6 DEF Abandon, Grounded, TypeOK
  <2> QED BY <2>1, <2>2, <2>3, <2>4, <2>5, <2>6 DEF Forecast
<1>4. CASE \E a \in Assets : CreateAsset(a)
  BY <1>2, <1>4 DEF CreateAsset, job
<1>5. CASE \E p \in Posts : Ingest(p)
  BY <1>2, <1>5 DEF Ingest, Validate, Insert, Commit, Duplicate, Deadlocked, Rollback, job
<1>6. CASE \E q \in Requests : Optimise(q)
  BY <1>2, <1>6 DEF Optimise, Start, ReadRun, ReadMeans, Refuse, Store, job
<1>7. CASE UNCHANGED vars
  BY <1>2, <1>7 DEF vars, job
<1> QED BY <1>3, <1>4, <1>5, <1>6, <1>7 DEF Next

\* Whatever is ingested, forecast and optimised at the same time, a run that is
\* stored is one of an asset that exists, with the rows fit() needs, all of
\* them within its capacity (_run_forecast_async, ingest_telemetry).
THEOREM ForecastsGrounded == Spec => []RunsAreGrounded
<1>1. Init => Grounded
  BY DEF Init, Grounded
<1>2. IngestInv /\ IngestInv' /\ Grounded /\ [Next]_vars => Grounded'
  BY GroundedNext
<1>3. IngestInv /\ Grounded => RunsAreGrounded
  <2> SUFFICES ASSUME IngestInv, Grounded, NEW r \in runs
               PROVE  /\ r.asset \in assets /\ Cardinality(RowsOf(r.asset)) >= MinRows
                      /\ \A x \in RowsOf(r.asset) : Rows[x[1]][x[2]].mw \in 0 .. Capacity[r.asset]
    BY DEF RunsAreGrounded
  <2>1. Cardinality(RowsOf(r.asset)) >= MinRows /\ RowsOf(r.asset) # {}
    <3>1. Cardinality(RowsOf(r.asset)) >= MinRows
      BY DEF Grounded, Enough
    <3>2. ASSUME RowsOf(r.asset) = {} PROVE FALSE
      <4>1. Cardinality(RowsOf(r.asset)) = 0
        BY <3>2, FS_EmptySet
      <4> QED BY <3>1, <4>1, Constants
    <3> QED BY <3>1, <3>2
  <2>2. ASSUME NEW x \in RowsOf(r.asset)
        PROVE  r.asset \in assets /\ Rows[x[1]][x[2]].mw \in 0 .. Capacity[r.asset]
    <3>1. /\ x \in telemetry /\ Rows[x[1]][x[2]].asset = r.asset /\ x[1] \in Posts
          /\ x[2] \in DOMAIN Rows[x[1]] /\ Acceptable(x[1])
      BY DEF IngestInv, TypeInv, TypeOK, Stored, RowsOf
    <3>2. Rows[x[1]] \in Seq(Row)
      BY <3>1, Constants
    <3>3. Rows[x[1]][x[2]] \in Row
      BY <3>1, <3>2
    <3>4. r.asset \in assets /\ Rows[x[1]][x[2]].mw >= 0 /\ Rows[x[1]][x[2]].mw <= Capacity[r.asset]
      BY <3>1 DEF Acceptable
    <3>5. Rows[x[1]][x[2]].mw \in Int /\ Capacity[r.asset] \in Nat
      BY <3>1, <3>3, Constants DEF Row
    <3> QED BY <3>4, <3>5
  <2> QED BY <2>1, <2>2
<1> QED BY <1>1, <1>2, <1>3, IngestHolds, PTL DEF Spec

-----------------------------------------------------------------------------
(* Optimisations. *)

\* What an optimisation has read is the latest or later than what there was
\* when it began.
Fresh ==
  /\ \A q \in Requests : qpc[q] # "new" =>
       \A a \in Assets : base[q][a] = 0 \/ \E r \in RunsOf(a) : r.created = base[q][a]
  /\ ForecastsAreFresh

\* Runs are never deleted.
LEMMA RunsGrow ==
  ASSUME [Next]_vars PROVE runs \subseteq runs'
<1>1. CASE \E a \in Assets : CreateAsset(a)
  BY <1>1 DEF CreateAsset
<1>2. CASE \E p \in Posts : Ingest(p)
  BY <1>2 DEF Ingest, Validate, Insert, Commit, Duplicate, Deadlocked, Rollback
<1>3. CASE \E j \in Jobs : Forecast(j) \/ \E a \in Assets : Trigger(j, a)
  BY <1>3 DEF Forecast, Trigger, ReadTelemetry, Fit, Save, Abandon
<1>4. CASE \E q \in Requests : Optimise(q)
  BY <1>4 DEF Optimise, Start, ReadRun, ReadMeans, Refuse, Store
<1>5. CASE UNCHANGED vars
  BY <1>5 DEF vars
<1> QED BY <1>1, <1>2, <1>3, <1>4, <1>5 DEF Next

\* Only a step of an optimisation changes what it has read.
LEMMA OutsideOptimise ==
  ASSUME [Next]_vars, ~ \E q \in Requests : Optimise(q) PROVE UNCHANGED optimise
<1>1. CASE \E a \in Assets : CreateAsset(a)
  BY <1>1 DEF CreateAsset
<1>2. CASE \E p \in Posts : Ingest(p)
  BY <1>2 DEF Ingest, Validate, Insert, Commit, Duplicate, Deadlocked, Rollback
<1>3. CASE \E j \in Jobs : Forecast(j) \/ \E a \in Assets : Trigger(j, a)
  BY <1>3 DEF Forecast, Trigger, ReadTelemetry, Fit, Save, Abandon
<1>4. CASE UNCHANGED vars
  BY <1>4 DEF vars
<1> QED BY <1>1, <1>2, <1>3, <1>4 DEF Next

\* What one entry of the forecasts read says.
FreshEntry(r, a, b) ==
  IF r = None THEN b = 0 ELSE r \in runs /\ r.asset = a /\ r.created >= b

LEMMA FreshNext ==
  ASSUME TypeInv, Reading, Fresh, [Next]_vars PROVE Fresh'
<1>1. runs \subseteq runs'
  BY RunsGrow
<1>2. \A a : RunsOf(a) \subseteq RunsOf(a)'
  BY <1>1 DEF RunsOf
<1>3. CASE UNCHANGED optimise
  BY <1>1, <1>2, <1>3 DEF optimise, Fresh, ForecastsAreFresh
<1>4. ASSUME NEW q \in Requests, Optimise(q) PROVE Fresh'
  <2> USE DEF TypeInv
  <2>1. UNCHANGED runs
    BY <1>4 DEF Optimise, Start, ReadRun, ReadMeans, Refuse, Store
  <2>2. \A a : RunsOf(a) = RunsOf(a)'
    BY <2>1 DEF RunsOf
  <2>3. CASE Start(q)
    <3>1. base' = [base EXCEPT ![q] = [a \in Assets |-> NewestCreated(a)]]
      BY <2>3 DEF Start
    <3>2. /\ qpc[q] = "new" /\ picked[q] = <<>> /\ UNCHANGED picked
          /\ \A u \in Requests \ {q} : qpc'[u] = qpc[u] /\ list'[u] = list[u] /\ base'[u] = base[u]
      BY <2>3, <3>1 DEF Start, Reading, TypeOK
    <3>3. \A a \in Assets : base'[q][a] = 0 \/ \E r \in RunsOf(a) : r.created = base'[q][a]
      <4>1. \A a \in Assets : base'[q][a] = NewestCreated(a)
        BY <3>1 DEF TypeOK
      <4> QED BY <4>1, Newest0 DEF Fitted
    <3>4. \A u \in Requests : qpc'[u] # "new" =>
            \A a \in Assets : base'[u][a] = 0 \/ \E r \in RunsOf(a)' : r.created = base'[u][a]
      BY <2>2, <3>2, <3>3 DEF Fresh
    <3>5. ForecastsAreFresh'
      BY <2>1, <3>2 DEF Fresh, ForecastsAreFresh
    <3> QED BY <3>4, <3>5 DEF Fresh
  <2>4. CASE ReadRun(q)
    <3> DEFINE c == Current(q)
               k == Len(picked[q]) + 1
    <3>1. PICK r \in (IF RunsOf(c) = {} THEN {None} ELSE Newest(c)) :
            picked' = [picked EXCEPT ![q] = Append(@, r)]
      BY <2>4 DEF ReadRun
    <3>2. /\ qpc[q] = "run" /\ UNCHANGED <<list, base>>
          /\ qpc' = [qpc EXCEPT ![q] = "means"]
      BY <2>4 DEF ReadRun
    <3>3. picked[q] \in Seq(Run \union {None}) /\ list[q] \in Seq(Assets) /\ mus[q] \in Seq(Seq(Nat))
      BY DEF TypeOK
    <3>4. k \in 1 .. Len(list[q]) /\ c = list[q][k] /\ c \in Assets
      BY <3>2, <3>3 DEF Reading, Current
    <3>5. FreshEntry(r, c, base[q][c])
      <4>1. base[q][c] = 0 \/ \E x \in RunsOf(c) : x.created = base[q][c]
        BY <3>2, <3>4 DEF Fresh
      <4>2. CASE RunsOf(c) = {}
        BY <3>1, <4>1, <4>2 DEF FreshEntry
      <4>3. CASE RunsOf(c) # {}
        <5>1. r \in runs /\ r.asset = c /\ r.created = NewestCreated(c)
          BY <3>1, <4>3 DEF Newest, RunsOf
        <5>2. r # None
          BY <5>1, Constants DEF TypeOK
        <5>3. NewestCreated(c) \in Nat /\ \A x \in RunsOf(c) : x.created <= NewestCreated(c)
          BY <3>4, Newest0 DEF Fitted
        <5>4. base[q][c] \in Nat
          BY <3>4 DEF TypeOK
        <5>5. base[q][c] <= NewestCreated(c)
          BY <4>1, <5>3, <5>4
        <5> QED BY <5>1, <5>2, <5>3, <5>4, <5>5 DEF FreshEntry
      <4> QED BY <4>2, <4>3
    <3>6. picked'[q] = Append(picked[q], r) /\ \A u \in Requests \ {q} : picked'[u] = picked[u]
      BY <3>1 DEF TypeOK
    <3> HIDE DEF c
    <3>7. ASSUME NEW u \in Requests, NEW i \in DOMAIN picked'[u]
          PROVE  FreshEntry(picked'[u][i], list[u][i], base[u][list[u][i]])
      <4>1. CASE u = q /\ i = k
        BY <3>3, <3>4, <3>5, <3>6, <4>1
      <4>2. CASE u # q \/ i # k
        <5>1. i \in DOMAIN picked[u] /\ picked'[u][i] = picked[u][i]
          <6>1. CASE u = q
            <7>1. i \in 1 .. Len(picked[q]) + 1 /\ i # Len(picked[q]) + 1
              BY <3>3, <3>6, <4>2, <6>1
            <7> QED BY <3>3, <3>6, <6>1, <7>1
          <6> QED BY <3>6, <6>1
        <5> QED BY <5>1 DEF Fresh, ForecastsAreFresh, FreshEntry
      <4> QED BY <4>1, <4>2
    <3>8. ForecastsAreFresh'
      BY <2>1, <3>2, <3>7 DEF ForecastsAreFresh, FreshEntry
    <3> QED BY <2>2, <3>2, <3>8 DEF Fresh, TypeOK
  <2>5. CASE ReadMeans(q)
    <3>1. UNCHANGED <<runs, picked, list, base>> /\ \A u \in Requests : qpc[u] = "new" => qpc'[u] = "new"
      BY <2>5 DEF ReadMeans, TypeOK
    <3>2. \A u \in Requests : qpc'[u] # "new" => qpc[u] # "new"
      BY <3>1
    <3> QED BY <2>2, <3>1, <3>2 DEF Fresh, ForecastsAreFresh
  <2>6. CASE Refuse(q) \/ Store(q)
    <3>1. UNCHANGED <<runs, picked, list, base>> /\ \A u \in Requests : qpc[u] = "new" => qpc'[u] = "new"
      BY <2>6 DEF Refuse, Store, TypeOK
    <3> QED BY <2>2, <3>1 DEF Fresh, ForecastsAreFresh
  <2> QED BY <1>4, <2>3, <2>4, <2>5, <2>6 DEF Optimise
<1> QED BY <1>3, <1>4, OutsideOptimise

\* However forecasts are stored while optimise_schedule reads its assets one
\* after the other, it never uses a run that was superseded before it began.
THEOREM ForecastsFresh == Spec => []ForecastsAreFresh
<1>1. Init => Fresh
  BY DEF Init, Fresh, ForecastsAreFresh
<1>2. TypeInv /\ Reading /\ Fresh /\ [Next]_vars => Fresh'
  BY FreshNext
<1>3. Fresh => ForecastsAreFresh
  BY DEF Fresh
<1> QED BY <1>1, <1>2, <1>3, TypeHolds, PTL DEF Spec

\* l gives every asset of asked once.
Listed(l, asked) ==
  /\ Len(l) = Len(asked)
  /\ \A i, k \in DOMAIN l : l[i] = l[k] => i = k
  /\ \A i \in DOMAIN asked : \E k \in DOMAIN l : l[k] = asked[i]

\* A plan the solver returned and ScheduleInterval took.
Taken(plan, l, mu, n) ==
  /\ plan \in Plans(l, mu, n)
  /\ \A i \in DOMAIN plan : \A t \in DOMAIN plan[i] : plan[i][t] >= 0

Planned ==
  \A q \in Requests :
    /\ qpc[q] \in {"run", "means", "solve", "stored"} => Listed(list[q], Asked[q])
    /\ qpc[q] = "stored" => \E plan : Taken(plan, list[q], mus[q], Hours[q])
                                      /\ schedules[q] = Intervals(list[q], plan, Hours[q])

\* The count of the assets found is the length of asset_ids only when each is
\* there once; then every order of those found lists exactly them.
LEMMA FoundAll ==
  ASSUME NEW asked \in Seq(Assets), NEW n \in Nat, Len(asked) = n,
         NEW found, \A a \in found : \E i \in DOMAIN asked : asked[i] = a,
         Cardinality(found) = n, NEW l \in SetToSeqs(found)
  PROVE  Listed(l, asked)
<1> DEFINE all == {asked[i] : i \in 1 .. n}
<1>1. DOMAIN asked = 1 .. n /\ IsFiniteSet(1 .. n) /\ Cardinality(1 .. n) = n
  BY UpTo
<1>2. /\ \A i \in 1 .. n : asked[i] \in all
      /\ \A a \in all : \E i \in 1 .. n : asked[i] = a
  OBVIOUS
<1>3. found \in SUBSET all
  BY <1>1
<1> HIDE DEF all
<1>4. IsFiniteSet(all) /\ Cardinality(all) <= n /\ Cardinality(all) \in Nat
  <2>1. [i \in 1 .. n |-> asked[i]] \in Surjection(1 .. n, all)
    BY <1>2 DEF Surjection
  <2> QED BY <1>1, <2>1, FS_Surjection, FS_CardinalityType
<1>5. IsFiniteSet(found) /\ found = all
  <2>1. IsFiniteSet(found) /\ Cardinality(found) <= Cardinality(all)
        /\ (Cardinality(all) = Cardinality(found) => all = found)
    BY <1>3, <1>4, FS_Subset
  <2> QED BY <1>4, <2>1
<1>6. /\ l \in Seq(found) /\ Len(l) = n /\ DOMAIN l = 1 .. n
      /\ \A i, k \in 1 .. n : l[i] = l[k] => i = k
  BY Orders
<1>7. l \in Surjection(1 .. n, found)
  <2>1. l \in Injection(1 .. n, found)
    BY <1>6 DEF Injection, IsInjective
  <2> QED BY <1>1, <1>5, <2>1, FS_Injection
<1>8. \A i \in 1 .. n : \E k \in 1 .. n : l[k] = asked[i]
  BY <1>2, <1>5, <1>7 DEF Surjection
<1> QED BY <1>1, <1>6, <1>8 DEF Listed

LEMMA PlannedNext ==
  ASSUME TypeInv, Reading, Planned, [Next]_vars PROVE Planned'
<1>1. CASE UNCHANGED optimise /\ UNCHANGED schedules
  BY <1>1 DEF optimise, Planned
<1>2. ASSUME ~ \E q \in Requests : Optimise(q) PROVE UNCHANGED schedules
  <2>1. CASE \E a \in Assets : CreateAsset(a)
    BY <2>1 DEF CreateAsset
  <2>2. CASE \E p \in Posts : Ingest(p)
    BY <2>2 DEF Ingest, Validate, Insert, Commit, Duplicate, Deadlocked, Rollback
  <2>3. CASE \E j \in Jobs : Forecast(j) \/ \E a \in Assets : Trigger(j, a)
    BY <2>3 DEF Forecast, Trigger, ReadTelemetry, Fit, Save, Abandon
  <2>4. CASE UNCHANGED vars
    BY <2>4 DEF vars
  <2> QED BY <1>2, <2>1, <2>2, <2>3, <2>4 DEF Next
<1>3. ASSUME NEW q \in Requests, Optimise(q) PROVE Planned'
  <2> USE DEF TypeInv
  <2>1. CASE Start(q)
    <3> DEFINE found == {a \in assets : \E i \in DOMAIN Asked[q] : Asked[q][i] = a}
    <3>1. /\ UNCHANGED <<schedules, mus>> /\ qpc'[q] \in {"run", "refused"}
          /\ \A u \in Requests \ {q} : qpc'[u] = qpc[u] /\ list'[u] = list[u]
      BY <2>1 DEF Start, TypeOK
    <3>2. qpc'[q] = "run" => Listed(list'[q], Asked[q])
      <4>1. CASE Cardinality(found) # Len(Asked[q]) \/ found = {}
        BY <2>1, <4>1 DEF Start, TypeOK
      <4>2. CASE Cardinality(found) = Len(Asked[q]) /\ found # {}
        <5>1. PICK s \in SetToSeqs(found) : list' = [list EXCEPT ![q] = s]
          BY <2>1, <4>2 DEF Start
        <5>2. list'[q] = s
          BY <5>1 DEF TypeOK
        <5>3. Asked[q] \in Seq(Assets) /\ Len(Asked[q]) \in Nat
              /\ \A a \in found : \E i \in DOMAIN Asked[q] : Asked[q][i] = a
          BY Constants
        <5> HIDE DEF found
        <5> QED BY <4>2, <5>1, <5>2, <5>3, FoundAll
      <4> QED BY <4>1, <4>2
    <3> QED BY <3>1, <3>2 DEF Planned
  <2>2. CASE ReadRun(q)
    BY <2>2 DEF ReadRun, Planned, TypeOK
  <2>3. CASE ReadMeans(q)
    <3>1. /\ UNCHANGED <<schedules, list>> /\ qpc[q] = "means" /\ qpc'[q] \in {"solve", "run"}
          /\ \A u \in Requests \ {q} : qpc'[u] = qpc[u] /\ mus'[u] = mus[u]
      BY <2>3 DEF ReadMeans, TypeOK
    <3> QED BY <3>1 DEF Planned
  <2>4. CASE Refuse(q)
    BY <2>4 DEF Refuse, Planned, TypeOK
  <2>5. CASE Store(q)
    <3>1. PICK plan \in Plans(list[q], mus[q], Hours[q]) :
            /\ \A i \in DOMAIN plan : \A t \in DOMAIN plan[i] : plan[i][t] >= 0
            /\ schedules' = [schedules EXCEPT ![q] = Intervals(list[q], plan, Hours[q])]
      BY <2>5 DEF Store
    <3>2. Taken(plan, list[q], mus[q], Hours[q]) /\ schedules'[q] = Intervals(list[q], plan, Hours[q])
      BY <3>1 DEF Taken, TypeOK
    <3>3. /\ UNCHANGED <<list, mus>> /\ qpc[q] = "solve"
          /\ \A u \in Requests \ {q} : qpc'[u] = qpc[u] /\ schedules'[u] = schedules[u]
      BY <2>5, <3>1 DEF Store, TypeOK
    <3> QED BY <3>2, <3>3 DEF Planned
  <2> QED BY <1>3, <2>1, <2>2, <2>3, <2>4, <2>5 DEF Optimise
<1> QED BY <1>1, <1>2, <1>3, OutsideOptimise

\* A row of a plan.  For a list without repetition there is one for every
\* asset and hour.
RowAt(l, plan, i, t) == [asset |-> l[i], hour |-> t - 1, mw |-> plan[i][t]]

LEMMA OneRowEach ==
  ASSUME NEW l \in Seq(Assets), \A i, k \in DOMAIN l : l[i] = l[k] => i = k, NEW n \in Nat, NEW plan
  PROVE  /\ Cardinality(Intervals(l, plan, n)) = Len(l) * n
         /\ \A i \in DOMAIN l, t \in 1 .. n :
              /\ RowAt(l, plan, i, t) \in Intervals(l, plan, n)
              /\ \A v \in Intervals(l, plan, n) :
                   v.asset = l[i] /\ v.hour = t - 1 => v = RowAt(l, plan, i, t)
<1> DEFINE S == (1 .. Len(l)) \X (1 .. n)
           R == Intervals(l, plan, n)
           Cell(i, t) == RowAt(l, plan, i, t)
           f == [x \in S |-> Cell(x[1], x[2])]
<1>0. /\ DOMAIN l = 1 .. Len(l) /\ Len(l) \in Nat
      /\ \A i, t : Cell(i, t).asset = l[i] /\ Cell(i, t).hour = t - 1
  BY DEF RowAt
<1>1. R = {Cell(i, t) : i \in 1 .. Len(l), t \in 1 .. n}
  BY <1>0 DEF Intervals, RowAt
<1> HIDE DEF Cell, R
<1>2. IsFiniteSet(S) /\ Cardinality(S) = Len(l) * n
  <2>1. /\ IsFiniteSet(1 .. Len(l)) /\ Cardinality(1 .. Len(l)) = Len(l)
        /\ IsFiniteSet(1 .. n) /\ Cardinality(1 .. n) = n
    BY <1>0, UpTo
  <2> QED BY <2>1, FS_Product, ZenonT(30)
<1>3. f \in [S -> R]
  BY <1>1
<1>4. \A x, y \in S : f[x] = f[y] => x = y
  <2> SUFFICES ASSUME NEW x \in S, NEW y \in S, f[x] = f[y] PROVE x = y
    OBVIOUS
  <2>1. x = <<x[1], x[2]>> /\ y = <<y[1], y[2]>> /\ x[1] \in 1 .. Len(l) /\ y[1] \in 1 .. Len(l)
        /\ x[2] \in 1 .. n /\ y[2] \in 1 .. n
    OBVIOUS
  <2>2. l[x[1]] = l[y[1]] /\ x[2] - 1 = y[2] - 1
    <3>1. Cell(x[1], x[2]) = Cell(y[1], y[2])
      OBVIOUS
    <3> QED BY <1>0, <3>1
  <2> QED BY <1>0, <2>1, <2>2
<1>5. \A r \in R : \E x \in S : f[x] = r
  <2>1. ASSUME NEW i \in 1 .. Len(l), NEW t \in 1 .. n PROVE \E x \in S : f[x] = Cell(i, t)
    <3>1. <<i, t>> \in S /\ f[<<i, t>>] = Cell(i, t)
      OBVIOUS
    <3> QED BY <3>1
  <2> QED BY <1>1, <2>1
<1>6. Cardinality(R) = Len(l) * n
  <2> HIDE DEF f, S
  <2>1. f \in Bijection(S, R)
    BY <1>3, <1>4, <1>5 DEF Bijection, Injection, Surjection, IsInjective
  <2>2. ExistsBijection(S, R)
    BY <2>1 DEF ExistsBijection
  <2> QED BY <1>2, <2>2, FS_Bijection
<1>7. ASSUME NEW i \in 1 .. Len(l), NEW t \in 1 .. n
      PROVE  /\ Cell(i, t) \in R
             /\ \A v \in R : v.asset = l[i] /\ v.hour = t - 1 => v = Cell(i, t)
  <2>1. Cell(i, t) \in R
    BY <1>1
  <2>2. ASSUME NEW k \in 1 .. Len(l), NEW h \in 1 .. n, Cell(k, h).asset = l[i], Cell(k, h).hour = t - 1
        PROVE  Cell(k, h) = Cell(i, t)
    <3>1. l[k] = l[i] /\ h - 1 = t - 1
      BY <1>0, <2>2
    <3>2. k = i /\ h = t
      BY <1>0, <3>1
    <3> QED BY <3>2
  <2> QED BY <1>1, <2>1, <2>2
<1> QED BY <1>0, <1>6, <1>7 DEF R, Cell

\* Whatever the solver returns within its promise, the schedule that is stored
\* has one row for each asset asked for and each hour, within that asset's own
\* limits, although the assets are read in an order the database chooses
\* (optimise_schedule, dispatch.py): the order is one of exactly the assets
\* asked for, and the rows are written along the same order as the plan.
THEOREM SchedulesFeasible == Spec => []SchedulesAreFeasible
<1>1. Init => Planned
  BY DEF Init, Planned
<1>2. TypeInv /\ Reading /\ Planned /\ [Next]_vars => Planned'
  BY PlannedNext
<1>3. ASSUME TypeInv, Planned, NEW q \in Requests, qpc[q] = "stored"
      PROVE
    LET At(a, h) == {v \in schedules[q] : v.asset = a /\ v.hour = h}
        MW(a, h) == (CHOOSE v \in At(a, h) : TRUE).mw
        plan == [i \in DOMAIN list[q] |-> [t \in 1 .. Hours[q] |-> MW(list[q][i], t - 1)]]
    IN  /\ Cardinality(schedules[q]) = Len(Asked[q]) * Hours[q]
        /\ \A i \in DOMAIN Asked[q], h \in 0 .. Hours[q] - 1 :
             LET a == Asked[q][i]
             IN  /\ At(a, h) # {} /\ MW(a, h) \in 0 .. Capacity[a] + Eps
                 /\ h > 0 => MW(a, h) - MW(a, h - 1) \in -(Ramp[a] + Eps) .. Ramp[a] + Eps
        /\ Imbalance(plan, mus[q], Hours[q]) <= Tolerance + Eps
  <2> DEFINE l == list[q]
             n == Hours[q]
             At(a, h) == {v \in schedules[q] : v.asset = a /\ v.hour = h}
             MW(a, h) == (CHOOSE v \in At(a, h) : TRUE).mw
             stored == [i \in DOMAIN l |-> [t \in 1 .. n |-> MW(l[i], t - 1)]]
  <2>1. PICK plan : Taken(plan, l, mus[q], n) /\ schedules[q] = Intervals(l, plan, n)
    BY <1>3 DEF Planned
  <2>2. l \in Seq(Assets) /\ n \in Nat \ {0} /\ Asked[q] \in Seq(Assets) /\ Listed(l, Asked[q])
    BY <1>3, Constants DEF TypeInv, TypeOK, Planned
  <2> HIDE DEF l, n
  <2>3. /\ Cardinality(Intervals(l, plan, n)) = Len(l) * n
        /\ \A i \in DOMAIN l, t \in 1 .. n :
             /\ RowAt(l, plan, i, t) \in Intervals(l, plan, n)
             /\ \A v \in Intervals(l, plan, n) :
                  v.asset = l[i] /\ v.hour = t - 1 => v = RowAt(l, plan, i, t)
    <3>1. n \in Nat /\ \A i, k \in DOMAIN l : l[i] = l[k] => i = k
      BY <2>2 DEF Listed
    <3> HIDE DEF At, MW, stored
    <3> QED BY <2>2, <3>1, OneRowEach
  <2>4. ASSUME NEW i \in DOMAIN l, NEW t \in 1 .. n
        PROVE  At(l[i], t - 1) # {} /\ MW(l[i], t - 1) = plan[i][t]
    <3> DEFINE row == RowAt(l, plan, i, t)
    <3>1. row.mw = plan[i][t] /\ row.asset = l[i] /\ row.hour = t - 1
      BY DEF RowAt
    <3> HIDE DEF row
    <3>2. row \in At(l[i], t - 1) /\ \A v \in At(l[i], t - 1) : v = row
      BY <2>1, <2>3, <3>1 DEF row
    <3> HIDE DEF At
    <3>3. (CHOOSE v \in At(l[i], t - 1) : TRUE) = row
      BY <3>2
    <3> QED BY <3>1, <3>2, <3>3
  <2>5. /\ plan \in [DOMAIN l -> [1 .. n -> Outputs]]
        /\ \A i \in DOMAIN l, t \in 1 .. n : plan[i][t] >= -Eps /\ plan[i][t] <= Capacity[l[i]] + Eps
        /\ \A i \in DOMAIN l, t \in 1 .. n - 1 :
             /\ plan[i][t + 1] - plan[i][t] <= Ramp[l[i]] + Eps
             /\ plan[i][t] - plan[i][t + 1] <= Ramp[l[i]] + Eps
        /\ Imbalance(plan, mus[q], n) <= Tolerance + Eps
        /\ \A i \in DOMAIN plan : \A t \in DOMAIN plan[i] : plan[i][t] >= 0
    BY <2>1 DEF Taken, Plans
  <2> HIDE DEF At, MW
  <2>6. stored = plan
    <3>1. ASSUME NEW i \in DOMAIN l PROVE stored[i] = plan[i]
      <4>1. plan[i] \in [1 .. n -> Outputs]
        BY <2>5
      <4> QED BY <2>4, <4>1
    <3> QED BY <2>5, <3>1
  <2>7. ASSUME NEW i \in DOMAIN Asked[q], NEW h \in 0 .. n - 1
        PROVE  /\ At(Asked[q][i], h) # {} /\ MW(Asked[q][i], h) \in 0 .. Capacity[Asked[q][i]] + Eps
               /\ h > 0 => MW(Asked[q][i], h) - MW(Asked[q][i], h - 1)
                             \in -(Ramp[Asked[q][i]] + Eps) .. Ramp[Asked[q][i]] + Eps
    <3>1. PICK k \in DOMAIN l : l[k] = Asked[q][i]
      BY <2>2 DEF Listed
    <3>2. l[k] \in Assets /\ Capacity[l[k]] \in Nat /\ Ramp[l[k]] \in Nat /\ Eps \in Nat
      BY <2>2, Constants
    <3>3. \A t \in 1 .. n : plan[k][t] \in Int /\ plan[k][t] >= 0
      <4>1. plan[k] \in [1 .. n -> Outputs]
        BY <2>5
      <4> QED BY <2>5, <4>1, Constants
    <3>4. h + 1 \in 1 .. n /\ h = (h + 1) - 1
      BY <2>2
    <3>5. At(l[k], h) # {} /\ MW(l[k], h) = plan[k][h + 1]
      <4>1. At(l[k], (h + 1) - 1) # {} /\ MW(l[k], (h + 1) - 1) = plan[k][h + 1]
        BY <2>4, <3>4
      <4> QED BY <3>4, <4>1
    <3>6. plan[k][h + 1] \in 0 .. Capacity[l[k]] + Eps
      BY <2>5, <3>2, <3>3, <3>4
    <3>7. ASSUME h > 0
          PROVE  MW(l[k], h) - MW(l[k], h - 1) \in -(Ramp[l[k]] + Eps) .. Ramp[l[k]] + Eps
      <4>1. h \in 1 .. n /\ h \in 1 .. n - 1
        BY <2>2, <3>7
      <4>2. MW(l[k], h - 1) = plan[k][h]
        BY <2>4, <4>1
      <4> QED BY <2>5, <3>2, <3>3, <3>4, <3>5, <4>1, <4>2
    <3> QED BY <3>1, <3>5, <3>6, <3>7
  <2>8. Cardinality(schedules[q]) = Len(Asked[q]) * n
    BY <2>1, <2>2, <2>3 DEF Listed
  <2>9. Imbalance(stored, mus[q], n) <= Tolerance + Eps
    BY <2>5, <2>6
  <2> QED BY <2>7, <2>8, <2>9 DEF l, n, At, MW
<1>4. TypeInv /\ Planned => SchedulesAreFeasible
  BY <1>3 DEF SchedulesAreFeasible
<1> QED BY <1>1, <1>2, <1>4, TypeHolds, PTL DEF Spec
=============================================================================
