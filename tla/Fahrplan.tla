------------------------------ MODULE Fahrplan ------------------------------
(***************************************************************************)
(* The schedule store of the renewables dispatcher: fahrplan/router.py,    *)
(* fahrplan/blob_store.py and the persisting half of optimizer/router.py.  *)
(* A worker is a request in flight.  Every await may let another request   *)
(* run; a transaction becomes visible when it commits, and an inserted     *)
(* primary key makes a second insert of it wait for the first to end.      *)
(* A row stands for all the intervals of its asset: PATCH finds them by    *)
(* asset_id alone.                                                         *)
(***************************************************************************)
CONSTANTS
  Ids,       \* schedule ids
  Workers,   \* requests that can be in flight at once
  Assets, MWs,
  Statuses,  \* ScheduleStatusLiteral
  Draft,     \* its default
  Bodies, Patches,   \* what clients post and patch with
  None       \* no body, no worker, a field a PATCH leaves out

Row  == [mw : MWs, status : Statuses]
Body == [Assets -> Row]

\* The intervals of a PATCH name some assets; None stands for the others.
Patch == [status : Statuses \union {None}, intervals : [Assets -> Row \union {None}]]

ASSUME FahrplanAssumption ==
  /\ Draft \in Statuses /\ Ids # {}
  /\ Bodies \subseteq Body /\ Patches \subseteq Patch
  /\ None \notin Body \union Patch \union Row \union Workers \union Statuses

VARIABLES
  headers,   \* ids committed to table schedules
  rows,      \* committed rows of table schedule_intervals
  claims,    \* the worker whose open transaction has inserted the id
  blobs,     \* the archive
  pc, kind, target, body, patch,   \* per worker
  created    \* history: the body an id was first committed with

vars == <<headers, rows, claims, blobs, pc, kind, target, body, patch, created>>
store == <<headers, rows, claims, blobs, created>>

TypeOK ==
  /\ headers \subseteq Ids
  /\ rows \in [Ids -> Body \union {None}]
  /\ claims \in [Ids -> Workers \union {None}]
  /\ blobs \in [Ids -> Body \union {None}]
  /\ pc \in [Workers -> {"idle", "insert", "commit", "archive", "load", "write", "find", "fetch"}]
  /\ kind \in [Workers -> {"post", "optimise", "patch", "get"}]
  /\ target \in [Workers -> Ids]
  /\ body \in [Workers -> Body \union {None}]
  /\ patch \in [Workers -> Patch \union {None}]
  /\ created \in [Ids -> Body \union {None}]

Init ==
  /\ headers = {}
  /\ rows = [s \in Ids |-> None] /\ claims = [s \in Ids |-> None]
  /\ blobs = [s \in Ids |-> None] /\ created = [s \in Ids |-> None]
  /\ pc = [w \in Workers |-> "idle"] /\ kind = [w \in Workers |-> "get"]
  /\ target \in [Workers -> {CHOOSE s \in Ids : TRUE}]
  /\ body = [w \in Workers |-> None] /\ patch = [w \in Workers |-> None]

GoTo(w, place) == pc' = [pc EXCEPT ![w] = place]

\* A request arrives.
Receive(w, k, place, s, b, p) ==
  /\ pc[w] = "idle" /\ GoTo(w, place)
  /\ kind' = [kind EXCEPT ![w] = k] /\ target' = [target EXCEPT ![w] = s]
  /\ body' = [body EXCEPT ![w] = b] /\ patch' = [patch EXCEPT ![w] = p]
  /\ UNCHANGED store

\* The answer goes out and the session is closed.
Answer(w) ==
  /\ GoTo(w, "idle")
  /\ body' = [body EXCEPT ![w] = None] /\ patch' = [patch EXCEPT ![w] = None]
  /\ UNCHANGED <<kind, target>>

-----------------------------------------------------------------------------
(* create_fahrplan() and the end of optimise_schedule(). *)

StartPost(w) == \E s \in Ids, b \in Bodies : Receive(w, "post", "insert", s, b, None)

\* A new uuid4, and every interval a draft.
StartOptimise(w) ==
  \E s \in Ids \ headers, b \in Bodies :
    /\ \A a \in Assets : b[a].status = Draft
    /\ \A v \in Workers : target[v] # s \/ pc[v] = "idle"
    /\ Receive(w, "optimise", "insert", s, b, None)

\* A slip: the header committed by itself.
InsertCommitted(w) ==
  /\ pc[w] = "insert" /\ target[w] \notin headers /\ claims[target[w]] = None
  /\ claims' = [claims EXCEPT ![target[w]] = w] /\ GoTo(w, "commit")
  /\ headers' = headers \union {target[w]}
  /\ UNCHANGED <<rows, blobs, created, kind, target, body, patch>>

\* flush(): the header is inserted, not yet committed.
Insert(w) ==
  /\ pc[w] = "insert" /\ target[w] \notin headers /\ claims[target[w]] = None
  /\ claims' = [claims EXCEPT ![target[w]] = w] /\ GoTo(w, "commit")
  /\ UNCHANGED <<headers, rows, blobs, created, kind, target, body, patch>>

\* A slip: the IntegrityError taken for "already stored".
ConflictArchives(w) ==
  /\ pc[w] = "insert" /\ target[w] \in headers /\ GoTo(w, "archive")
  /\ UNCHANGED <<store, kind, target, body, patch>>

\* flush(): the primary key exists, IntegrityError, status 500.
Conflict(w) ==
  /\ pc[w] = "insert" /\ target[w] \in headers
  /\ Answer(w) /\ UNCHANGED store

\* The intervals are flushed and everything is committed.
Commit(w) ==
  LET s == target[w]
  IN  /\ pc[w] = "commit"
      /\ headers' = headers \union {s}
      /\ rows' = [rows EXCEPT ![s] = body[w]]
      /\ created' = [created EXCEPT ![s] = IF @ = None THEN body[w] ELSE @]
      /\ claims' = [claims EXCEPT ![s] = None]
      /\ UNCHANGED blobs
      /\ IF kind[w] = "post"
         THEN GoTo(w, "archive") /\ UNCHANGED <<kind, target, body, patch>>
         ELSE Answer(w)

Archive(w) ==
  /\ pc[w] = "archive"
  /\ blobs' = [blobs EXCEPT ![target[w]] = body[w]]
  /\ Answer(w)
  /\ UNCHANGED <<headers, rows, claims, created>>

\* The upload raises: status 500, the schedule stays.
ArchiveFails(w) == pc[w] = "archive" /\ Answer(w) /\ UNCHANGED store

-----------------------------------------------------------------------------
(* patch_fahrplan() and get_fahrplan(). *)

StartPatch(w) == \E s \in Ids, p \in Patches : Receive(w, "patch", "load", s, None, p)

StartGet(w) == \E s \in Ids : Receive(w, "get", "find", s, None, None)

NotFound(w) ==
  /\ pc[w] \in {"load", "find"} /\ target[w] \notin headers
  /\ Answer(w) /\ UNCHANGED store

\* The rows as this session will know them: it keeps what it loaded first.
Load(w) ==
  /\ pc[w] = "load" /\ target[w] \in headers
  /\ body' = [body EXCEPT ![w] = rows[target[w]]]
  /\ GoTo(w, "write")
  /\ UNCHANGED <<store, kind, target, patch>>

\* A slip: the status a PATCH leaves out is written too.
WithStatusAlways(b, st) == [a \in Assets |-> [b[a] EXCEPT !.status = st]]

WithStatus(b, st) == IF st = None THEN b ELSE [a \in Assets |-> [b[a] EXCEPT !.status = st]]
WithIntervals(b, ivls) == [a \in Assets |-> IF ivls[a] = None THEN b[a] ELSE ivls[a]]

\* UPDATE names only the columns that differ from what the session loaded.
Flush(db, known, new) ==
  [a \in Assets |->
    [mw     |-> IF new[a].mw = known[a].mw THEN db[a].mw ELSE new[a].mw,
     status |-> IF new[a].status = known[a].status THEN db[a].status ELSE new[a].status]]

\* A slip: UPDATE writes back the whole row that was loaded.
WriteWholeRows(w) ==
  /\ pc[w] = "write"
  /\ rows' = [rows EXCEPT ![target[w]] =
       WithIntervals(WithStatus(body[w], patch[w].status), patch[w].intervals)]
  /\ body' = [body EXCEPT ![w] = None] /\ patch' = [patch EXCEPT ![w] = None]
  /\ GoTo(w, "find")
  /\ UNCHANGED <<headers, claims, blobs, created, kind, target>>

\* The new status is flushed by the second SELECT, the intervals by commit().
Write(w) ==
  LET s   == target[w]
      mid == WithStatus(body[w], patch[w].status)
      new == WithIntervals(mid, patch[w].intervals)
  IN  /\ pc[w] = "write"
      /\ rows' = [rows EXCEPT ![s] = Flush(Flush(@, body[w], mid), mid, new)]
      /\ body' = [body EXCEPT ![w] = None] /\ patch' = [patch EXCEPT ![w] = None]
      /\ GoTo(w, "find")
      /\ UNCHANGED <<headers, claims, blobs, created, kind, target>>

Find(w) ==
  /\ pc[w] = "find" /\ target[w] \in headers
  /\ GoTo(w, "fetch") /\ UNCHANGED <<store, kind, target, body, patch>>

Fetch(w) == pc[w] = "fetch" /\ Answer(w) /\ UNCHANGED store

-----------------------------------------------------------------------------
\* The process ends: open transactions are rolled back.
Crash ==
  /\ \E w \in Workers : pc[w] # "idle"
  /\ pc' = [w \in Workers |-> "idle"]
  /\ claims' = [s \in Ids |-> None]
  /\ body' = [w \in Workers |-> None] /\ patch' = [w \in Workers |-> None]
  /\ UNCHANGED <<headers, rows, blobs, created, kind, target>>

Start(w) == StartPost(w) \/ StartOptimise(w) \/ StartPatch(w) \/ StartGet(w)
Create(w) == Insert(w) \/ Conflict(w) \/ Commit(w) \/ Archive(w) \/ ArchiveFails(w)
Change(w) == NotFound(w) \/ Load(w) \/ Write(w) \/ Find(w) \/ Fetch(w)

Next == Crash \/ \E w \in Workers : Start(w) \/ Create(w) \/ Change(w)
Spec == Init /\ [][Next]_vars

\* Requests but for optimise, of a process that does not end: what is stored
\* was posted, and its upload came through or failed.  They proceed, the archive
\* accepts an upload now and then, and the client posts again and again.
RetryNext ==
  \E w \in Workers :
    StartPost(w) \/ StartPatch(w) \/ StartGet(w) \/ Create(w) \/ Change(w)

RetrySpec ==
  /\ Init /\ [][RetryNext]_vars
  /\ \A w \in Workers : /\ SF_vars(StartPost(w)) /\ SF_vars(Insert(w)) /\ SF_vars(Commit(w))
                        /\ SF_vars(Archive(w)) /\ WF_vars(Create(w)) /\ WF_vars(Change(w))

-----------------------------------------------------------------------------
\* What is archived is a committed schedule, as it was first committed: no
\* request that lost the race for the id, or was rolled back, reaches the
\* archive (create_fahrplan commits before it archives).
ArchiveIsCommitted ==
  \A s \in Ids : blobs[s] # None => s \in headers /\ blobs[s] = created[s]

\* A reader that finds a schedule gets all of its intervals, whatever other
\* requests do between its two queries (get_fahrplan).
ReadsAreWhole ==
  \A w \in Workers : pc[w] \in {"write", "fetch"} => rows[target[w]] # None

\* A committed row changes only by a PATCH that names its asset or carries a
\* status, and its power only by one that names the asset: a PATCH made from an
\* old read does not take back what another has written meanwhile.
ChangesOnlyWhatWasAsked ==
  [][\A s \in Ids, a \in Assets :
       rows[s] # None /\ rows'[s][a] # rows[s][a] =>
         \E w \in Workers :
           /\ pc[w] = "write" /\ target[w] = s
           /\ IF rows'[s][a].mw # rows[s][a].mw
              THEN patch[w].intervals[a] # None
              ELSE patch[w].intervals[a] # None \/ patch[w].status # None]_vars

\* renewables_portfolio_dispatch/app/fahrplan/router.py:21 "Persist (upsert by
\* schedule_id)": a schedule that was posted and stored, and is posted until it
\* succeeds, is archived in the end.
RetryArchives == \A s \in Ids : s \in headers ~> blobs[s] # None
=============================================================================
