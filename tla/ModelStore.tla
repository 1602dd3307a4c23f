------------------------------ MODULE ModelStore ------------------------------
(***************************************************************************)
(* The SLM sensor service: readings come in, a training fits the model of  *)
(* a device and sensor, writes it to a file and caches it, a prediction    *)
(* takes the cached model or else the file and stores an alert.  Handlers  *)
(* are coroutines of one process: what lies between two awaits is one      *)
(* step, fit() included.  A crash takes the cache and may leave the file   *)
(* torn; so may a dump that fails.                                         *)
(***************************************************************************)
EXTENDS Integers, FiniteSets

CONSTANTS
  Series,           \* pairs of device and sensor type
  ModelKey,         \* _key() of each: device and sensor may run together
  MaxRows,          \* bound: readings of a series
  Trainings, Predictions,
  SeriesOf,         \* the series each of them names
  WindowSize,       \* window_size of each training
  NoModel, Torn     \* a file that is not there, and one cut short

ASSUME ModelStoreAssumption ==
  /\ DOMAIN ModelKey = Series
  /\ SeriesOf \in [Trainings \union Predictions -> Series]
  /\ WindowSize \in [Trainings -> Nat \ {0, 1}]
  /\ MaxRows \in Nat /\ NoModel # Torn

VARIABLES
  rows,        \* table measurements: how many of each series
  file,        \* the .joblib files, by key
  cached,      \* ModelStore._cache
  completed,   \* history: the model of the last fit that came through, by key
  tpc, windows,         \* per training: its place, and the windows it cut
  ppc, scoredBy,        \* per prediction: its place, and the model that scored it
  anomalous, alerts     \* per prediction: its verdict; table alerts

training   == <<tpc, windows>>
prediction == <<ppc, scoredBy, anomalous, alerts>>
storeVars  == <<rows, file, cached, completed, training, prediction>>

ModelKeys == {ModelKey[s] : s \in Series}
Model == [of : Series, windows : 1 .. MaxRows]

StoreTypeOK ==
  /\ rows \in [Series -> 0 .. MaxRows]
  /\ file \in [ModelKeys -> Model \union {NoModel, Torn}]
  /\ cached \in [ModelKeys -> Model \union {NoModel}]
  /\ completed \in [ModelKeys -> Model \union {NoModel}]
  /\ tpc \in [Trainings -> {"new", "fit", "answered", "refused", "failed"}]
  /\ windows \in [Trainings -> 0 .. MaxRows]
  /\ ppc \in [Predictions -> {"new", "score", "alert", "answered", "refused", "failed"}]
  /\ scoredBy \in [Predictions -> Model \union {NoModel}]
  /\ anomalous \in [Predictions -> BOOLEAN] /\ alerts \subseteq Predictions

StoreInit ==
  /\ rows = [s \in Series |-> 0]
  /\ file = [k \in ModelKeys |-> NoModel] /\ cached = file /\ completed = file
  /\ tpc = [t \in Trainings |-> "new"] /\ windows = [t \in Trainings |-> 0]
  /\ ppc = [p \in Predictions |-> "new"]
  /\ scoredBy = [p \in Predictions |-> NoModel]
  /\ anomalous = [p \in Predictions |-> FALSE] /\ alerts = {}

\* ingest_measurements: the readings of a post, in one commit.
IngestReadings(s) ==
  /\ \E n \in 1 .. MaxRows - rows[s] : rows' = [rows EXCEPT ![s] = @ + n]
  /\ UNCHANGED <<file, cached, completed, training, prediction>>

-----------------------------------------------------------------------------
(* train_model. *)

\* A slip: too few readings are not refused.
QueryUnchecked(t) ==
  /\ tpc[t] = "new" /\ tpc' = [tpc EXCEPT ![t] = "fit"]
  /\ \E n \in 0 .. rows[SeriesOf[t]] : windows' = [windows EXCEPT ![t] = n \div WindowSize[t]]
  /\ UNCHANGED <<rows, file, cached, completed, prediction>>

\* The readings between start and end, cut into windows without overlap.
QueryTraining(t) ==
  /\ tpc[t] = "new"
  /\ \E n \in 0 .. rows[SeriesOf[t]] :
       IF n < WindowSize[t]
       THEN tpc' = [tpc EXCEPT ![t] = "refused"] /\ UNCHANGED windows
       ELSE /\ tpc' = [tpc EXCEPT ![t] = "fit"]
            /\ windows' = [windows EXCEPT ![t] = n \div WindowSize[t]]
  /\ UNCHANGED <<rows, file, cached, completed, prediction>>

KeyFor(x) == ModelKey[SeriesOf[x]]
Fitted(t) == [of |-> SeriesOf[t], windows |-> windows[t]]

\* A slip: a model that is cached already stays.
FitKeepsCached(t) ==
  LET k == KeyFor(t)
  IN  /\ tpc[t] = "fit" /\ tpc' = [tpc EXCEPT ![t] = "answered"]
      /\ file' = [file EXCEPT ![k] = Fitted(t)]
      /\ cached' = [cached EXCEPT ![k] = IF @ = NoModel THEN Fitted(t) ELSE @]
      /\ completed' = [completed EXCEPT ![k] = Fitted(t)]
      /\ UNCHANGED <<rows, windows, prediction>>

\* ModelStore.fit(): the file first, then the cache.
Fit(t) ==
  LET k == KeyFor(t)
  IN  /\ tpc[t] = "fit" /\ tpc' = [tpc EXCEPT ![t] = "answered"]
      /\ file' = [file EXCEPT ![k] = Fitted(t)]
      /\ cached' = [cached EXCEPT ![k] = Fitted(t)]
      /\ completed' = [completed EXCEPT ![k] = Fitted(t)]
      /\ UNCHANGED <<rows, windows, prediction>>

\* The dump raises: it has cut the file to nothing, or not yet opened it.
FitFails(t) ==
  /\ tpc[t] = "fit" /\ tpc' = [tpc EXCEPT ![t] = "failed"]
  /\ file' \in {file, [file EXCEPT ![KeyFor(t)] = Torn]}
  /\ UNCHANGED <<rows, cached, completed, windows, prediction>>

-----------------------------------------------------------------------------
(* predict_anomaly. *)

\* The readings of the last minutes: two at least.
QueryPrediction(p) ==
  /\ ppc[p] = "new"
  /\ \E n \in 0 .. rows[SeriesOf[p]] :
       ppc' = [ppc EXCEPT ![p] = IF n < 2 THEN "refused" ELSE "score"]
  /\ UNCHANGED <<rows, file, cached, completed, training, scoredBy, anomalous, alerts>>

\* get_model(): the cache, or else the file.
Available(k) == IF cached[k] # NoModel THEN cached[k] ELSE file[k]

\* No file: 422.  A file that cannot be read: an error.
NoScore(p) ==
  /\ ppc[p] = "score"
  /\ \/ Available(KeyFor(p)) = NoModel /\ ppc' = [ppc EXCEPT ![p] = "refused"]
     \/ Available(KeyFor(p)) = Torn /\ ppc' = [ppc EXCEPT ![p] = "failed"]
  /\ UNCHANGED <<rows, file, cached, completed, training, scoredBy, anomalous, alerts>>

\* The forest decides; the model stays cached.
Score(p) ==
  LET k == KeyFor(p)
  IN  /\ ppc[p] = "score" /\ Available(k) \notin {NoModel, Torn}
      /\ cached' = [cached EXCEPT ![k] = Available(k)]
      /\ scoredBy' = [scoredBy EXCEPT ![p] = Available(k)]
      /\ \E verdict \in BOOLEAN :
           /\ anomalous' = [anomalous EXCEPT ![p] = verdict]
           /\ ppc' = [ppc EXCEPT ![p] = IF verdict THEN "alert" ELSE "answered"]
      /\ UNCHANGED <<rows, file, completed, training, alerts>>

\* insert_alert(): committed; the row may then not be readable.
InsertAlert(p) ==
  /\ ppc[p] = "alert" /\ alerts' = alerts \union {p}
  /\ \E end \in {"answered", "failed"} : ppc' = [ppc EXCEPT ![p] = end]
  /\ UNCHANGED <<rows, file, cached, completed, training, scoredBy, anomalous>>

AlertFails(p) ==
  /\ ppc[p] = "alert" /\ ppc' = [ppc EXCEPT ![p] = "failed"]
  /\ UNCHANGED <<rows, file, cached, completed, training, scoredBy, anomalous, alerts>>

-----------------------------------------------------------------------------

\* The process ends and starts again, without its cache and its requests; the
\* fit it was in may have cut the file short, or just have written it.
Crash ==
  /\ cached' = [k \in ModelKeys |-> NoModel]
  /\ tpc' = [t \in Trainings |-> IF tpc[t] = "fit" THEN "failed" ELSE tpc[t]]
  /\ ppc' = [p \in Predictions |-> IF ppc[p] \in {"score", "alert"} THEN "failed" ELSE ppc[p]]
  /\ \/ UNCHANGED <<file, completed>>
     \/ \E t \in Trainings : tpc[t] = "fit" /\
          \/ file' = [file EXCEPT ![KeyFor(t)] = Torn] /\ UNCHANGED completed
          \/ /\ file' = [file EXCEPT ![KeyFor(t)] = Fitted(t)]
             /\ completed' = [completed EXCEPT ![KeyFor(t)] = Fitted(t)]
  /\ UNCHANGED <<rows, windows, scoredBy, anomalous, alerts>>

Train(t) == QueryTraining(t) \/ Fit(t) \/ FitFails(t)
Predict(p) == QueryPrediction(p) \/ NoScore(p) \/ Score(p) \/ InsertAlert(p) \/ AlertFails(p)

StoreNext ==
  \/ \E s \in Series : IngestReadings(s)
  \/ \E t \in Trainings : Train(t)
  \/ \E p \in Predictions : Predict(p)
  \/ Crash

StoreSpec == StoreInit /\ [][StoreNext]_storeVars

-----------------------------------------------------------------------------
(* Properties. *)

\* Whatever is trained, fails or crashes between: a prediction can only get the
\* model of the last fit that came through for its key, from the cache or from
\* the file, or none; and an answered prediction has an alert in the table
\* exactly when it was an anomaly (ModelStore, predict_anomaly).
PredictionsAreBacked ==
  /\ \A k \in ModelKeys :
       /\ cached[k] \in {NoModel, completed[k]}
       /\ file[k] \in {NoModel, Torn, completed[k]}
  /\ \A p \in Predictions : ppc[p] = "answered" =>
       /\ anomalous[p] <=> p \in alerts
       /\ ModelKey[scoredBy[p].of] = KeyFor(p)
=============================================================================
