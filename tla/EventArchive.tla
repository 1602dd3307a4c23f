----------------------------- MODULE EventArchive -----------------------------
(***************************************************************************)
(* The AWS sensor service: an event is committed and answered, a task that *)
(* nobody awaits then uploads it to S3 and writes the object's key back    *)
(* through the session of the request, which closes meanwhile.  A list is  *)
(* two statements, and a client that wants everything walks its pages.     *)
(***************************************************************************)
EXTENDS Integers, Sequences, FiniteSets, SequencesExt, FiniteSetsExt

CONSTANTS
  Events, Archived,   \* events that may come, and those there from before
  Plant, Stamp,       \* plant_id and timestamp of each
  Filters,            \* the plant_id a client may ask for; NoFilter for all
  PageLimit,          \* limit of a page
  MaxDay,             \* bound: days the model runs through
  NoFilter, NoKey

ASSUME EventArchiveAssumption ==
  /\ IsFiniteSet(Events) /\ Archived \subseteq Events
  /\ DOMAIN Plant = Events /\ Stamp \in [Events -> Nat]
  /\ PageLimit \in Nat \ {0} /\ MaxDay \in Nat \ {0}

VARIABLES
  stored,     \* table sensor_events
  rowKey,     \* column raw_s3_key
  objects,    \* the bucket: the keys of its objects
  today,      \* date.today()
  request,    \* per event: the request that brings it, and its session
  task, key,  \* per event: the task that archives it, and its local key
  walk        \* the client that walks the pages

archiveVars == <<stored, rowKey, objects, today, request, task, key, walk>>

Keys == [day : 1 .. MaxDay, plant : Range(Plant), event : Events]

ArchiveTypeOK ==
  /\ stored \subseteq Events /\ objects \subseteq Keys /\ today \in 1 .. MaxDay
  /\ rowKey \in [Events -> Keys \union {NoKey}] /\ key \in [Events -> Keys \union {NoKey}]
  /\ request \in [Events -> {"new", "open", "closed"}]
  /\ task \in [Events -> {"none", "ready", "put", "update", "commit", "ended"}]
  /\ walk \in [at : {"start", "rows", "total", "done"}, filter : Filters, offset : Nat,
               page : SUBSET Events, seen : SUBSET Events, base : SUBSET Events]

\* _s3_key().
KeyOf(e, day) == [day |-> day, plant |-> Plant[e], event |-> e]

ArchiveInit ==
  /\ stored = Archived /\ objects = {KeyOf(e, 1) : e \in Archived} /\ today = 1
  /\ rowKey = [e \in Events |-> IF e \in Archived THEN KeyOf(e, 1) ELSE NoKey]
  /\ request = [e \in Events |-> IF e \in Archived THEN "closed" ELSE "new"]
  /\ task = [e \in Events |-> IF e \in Archived THEN "ended" ELSE "none"]
  /\ key = [e \in Events |-> NoKey]
  /\ \E f \in Filters :
       walk = [at |-> "start", filter |-> f, offset |-> 0, page |-> {}, seen |-> {}, base |-> {}]

-----------------------------------------------------------------------------
(* create_event. *)

\* The event is committed; when the row cannot be read again the request fails
\* and no task is made.
Create(e) ==
  /\ request[e] = "new" /\ stored' = stored \union {e}
  /\ \/ request' = [request EXCEPT ![e] = "open"] /\ task' = [task EXCEPT ![e] = "ready"]
     \/ request' = [request EXCEPT ![e] = "closed"] /\ UNCHANGED task
  /\ UNCHANGED <<rowKey, objects, today, key, walk>>

\* The session of an answered request closes, and rolls back what the task has
\* not committed on it yet; either may get in the other's way.
CloseSession(e) ==
  /\ request[e] = "open" /\ request' = [request EXCEPT ![e] = "closed"]
  /\ \/ UNCHANGED task
     \/ task[e] = "commit" /\ task' = [task EXCEPT ![e] = "ended"]
  /\ UNCHANGED <<stored, rowKey, objects, today, key, walk>>

-----------------------------------------------------------------------------
(* _archive_and_update. *)

\* The task starts some time after it was made, and only then forms the key.
StartTask(e) ==
  /\ task[e] = "ready" /\ task' = [task EXCEPT ![e] = "put"]
  /\ key' = [key EXCEPT ![e] = KeyOf(e, today)]
  /\ UNCHANGED <<stored, rowKey, objects, today, request, walk>>

PutObject(e) ==
  /\ task[e] = "put" /\ task' = [task EXCEPT ![e] = "update"]
  /\ objects' = objects \union {key[e]}
  /\ UNCHANGED <<stored, rowKey, today, request, key, walk>>

\* archive() returns None: refused, or stored with its answer lost.
PutFails(e) ==
  /\ task[e] = "put" /\ task' = [task EXCEPT ![e] = "ended"]
  /\ objects' \in {objects, objects \union {key[e]}}
  /\ UNCHANGED <<stored, rowKey, today, request, key, walk>>

ExecuteUpdate(e) ==
  /\ task[e] = "update" /\ task' = [task EXCEPT ![e] = "commit"]
  /\ UNCHANGED <<stored, rowKey, objects, today, request, key, walk>>

\* A slip: the key formed once more for the row.
CommitKeyOfToday(e) ==
  /\ task[e] = "commit" /\ task' = [task EXCEPT ![e] = "ended"]
  /\ rowKey' = [rowKey EXCEPT ![e] = KeyOf(e, today)]
  /\ UNCHANGED <<stored, objects, today, request, key, walk>>

CommitKey(e) ==
  /\ task[e] = "commit" /\ task' = [task EXCEPT ![e] = "ended"]
  /\ rowKey' = [rowKey EXCEPT ![e] = key[e]]
  /\ UNCHANGED <<stored, objects, today, request, key, walk>>

\* The process that holds the request ends, the upload in any state.
CrashOf(e) ==
  /\ task[e] \in {"ready", "put", "update", "commit"}
  /\ task' = [task EXCEPT ![e] = "ended"] /\ request' = [request EXCEPT ![e] = "closed"]
  /\ objects' \in {objects} \union (IF task[e] = "put" THEN {objects \union {key[e]}} ELSE {})
  /\ UNCHANGED <<stored, rowKey, today, key, walk>>

NextDay ==
  /\ today < MaxDay /\ today' = today + 1
  /\ UNCHANGED <<stored, rowKey, objects, request, task, key, walk>>

-----------------------------------------------------------------------------
(* list_events, called for page after page. *)

Matching(f) == {e \in stored : f = NoFilter \/ Plant[e] = f}

\* ORDER BY timestamp DESC, in any order among equals; LIMIT and OFFSET.
Pages(f, offset) ==
  {ToSet(SubSeq(s, offset + 1, Min({offset + PageLimit, Len(s)}))) :
     s \in {o \in SetToSeqs(Matching(f)) :
              \A i, j \in DOMAIN o : i < j => Stamp[o[i]] >= Stamp[o[j]]}}

StartWalk ==
  /\ walk.at = "start"
  /\ walk' = [walk EXCEPT !.at = "rows", !.base = Matching(walk.filter)]
  /\ UNCHANGED <<stored, rowKey, objects, today, request, task, key>>

\* The first statement.
SelectRows ==
  /\ walk.at = "rows"
  /\ \E p \in Pages(walk.filter, walk.offset) : walk' = [walk EXCEPT !.at = "total", !.page = p]
  /\ UNCHANGED <<stored, rowKey, objects, today, request, task, key>>

\* A slip: the total of the page instead of the table.
CountPage ==
  /\ walk.at = "total"
  /\ walk' = [walk EXCEPT !.seen = @ \union walk.page, !.page = {},
                          !.offset = @ + PageLimit,
                          !.at = IF Cardinality(walk.page) <= walk.offset + PageLimit
                                   THEN "done" ELSE "rows"]
  /\ UNCHANGED <<stored, rowKey, objects, today, request, task, key>>

\* The second statement, and the client: it goes on while the total says that
\* there is more.
CountRows ==
  /\ walk.at = "total"
  /\ walk' = [walk EXCEPT !.seen = @ \union walk.page, !.page = {},
                          !.offset = @ + PageLimit,
                          !.at = IF Cardinality(Matching(walk.filter)) <= walk.offset + PageLimit
                                   THEN "done" ELSE "rows"]
  /\ UNCHANGED <<stored, rowKey, objects, today, request, task, key>>

-----------------------------------------------------------------------------

Archive(e) ==
  StartTask(e) \/ PutObject(e) \/ PutFails(e) \/ ExecuteUpdate(e) \/ CommitKey(e)

ListEvents == StartWalk \/ SelectRows \/ CountRows

ArchiveNext ==
  \/ \E e \in Events : Create(e) \/ CloseSession(e) \/ Archive(e) \/ CrashOf(e)
  \/ NextDay
  \/ ListEvents

ArchiveSpec == ArchiveInit /\ [][ArchiveNext]_archiveVars

-----------------------------------------------------------------------------
(* Properties. *)

\* A key in a row names an object of the bucket that holds this very event, and
\* an event has one object at most, whatever day it is when the task starts and
\* ends, and whoever fails between the upload and the update
\* (_archive_and_update).
KeyNamesObject ==
  /\ \A e \in Events : rowKey[e] # NoKey =>
       e \in stored /\ rowKey[e] \in objects /\ rowKey[e].event = e /\ rowKey[e].plant = Plant[e]
  /\ \A o, p \in objects : o.event = p.event => o = p

\* A client that follows total through the pages has seen every event that was
\* there when it began and has its timestamp to itself, although events go on
\* arriving between the two statements of a page and between the pages
\* (list_events reads the rows before it counts them, and nothing is deleted).
WalkMissesNothing ==
  walk.at = "done" =>
    \A e \in walk.base : (\A o \in stored \ {e} : Stamp[o] # Stamp[e]) => e \in walk.seen
=============================================================================
