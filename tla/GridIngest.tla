------------------------------ MODULE GridIngest ------------------------------
(***************************************************************************)
(* Ingestion of load readings.  A post runs in one session: for each of    *)
(* its readings it looks the node up, inserts it if it is not there, and   *)
(* inserts the reading; one commit ends it.  The readings of a batch run   *)
(* concurrently on that one session, which may refuse: then the handler    *)
(* answers with an error while its other coroutines go on and keep the     *)
(* transaction open until the session is collected.  First readings of a   *)
(* node meet at the key of table nodes.                                    *)
(***************************************************************************)
EXTENDS Integers, Sequences, FiniteSets

CONSTANTS
  GridNodes, Existing,    \* nodes, and those there at first
  GridPosts, NodesOf      \* posts, and the node of each of their readings

ASSUME GridIngestAssumption ==
  /\ Existing \subseteq GridNodes
  /\ NodesOf \in [GridPosts -> Seq(GridNodes)]

VARIABLES
  nodes,      \* table nodes
  readings,   \* table load_readings: by post and position
  gpc,        \* per post: what it does with its current reading
  at,         \* per post: readings flushed so far
  inserted    \* per post: keys of nodes its open transaction has inserted

gridVars == <<nodes, readings, gpc, at, inserted>>

GridTypeOK ==
  /\ nodes \subseteq GridNodes
  /\ readings \subseteq GridPosts \X (Nat \ {0})
  /\ gpc \in [GridPosts -> {"get", "node", "reading", "answer", "answered", "leaked", "failed"}]
  /\ at \in [GridPosts -> Nat] /\ inserted \in [GridPosts -> SUBSET GridNodes]

GridInit ==
  /\ nodes = Existing /\ readings = {}
  /\ gpc = [p \in GridPosts |-> "get"]
  /\ at = [p \in GridPosts |-> 0] /\ inserted = [p \in GridPosts |-> {}]

Goes(p, to) == gpc' = [gpc EXCEPT ![p] = to]

\* The node of the reading at hand.
NodeAt(p) == NodesOf[p][at[p] + 1]
More(p) == at[p] < Len(NodesOf[p])

\* ensure_node(): session.get() sees what is committed and its own.
GetNode(p) ==
  /\ gpc[p] = "get" /\ More(p)
  /\ Goes(p, IF NodeAt(p) \in nodes \union inserted[p] THEN "reading" ELSE "node")
  /\ UNCHANGED <<nodes, readings, at, inserted>>

\* The INSERT of a key that another open transaction has inserted waits.
NodeTaken(p) == gpc[p] = "node" /\ \E o \in GridPosts \ {p} : NodeAt(p) \in inserted[o]

InsertNode(p) ==
  /\ gpc[p] = "node" /\ ~NodeTaken(p) /\ NodeAt(p) \notin nodes
  /\ inserted' = [inserted EXCEPT ![p] = @ \union {NodeAt(p)}]
  /\ Goes(p, "reading")
  /\ UNCHANGED <<nodes, readings, at>>

\* The session is closed: nothing of the transaction stays.
Fails(p) ==
  /\ Goes(p, "failed") /\ inserted' = [inserted EXCEPT ![p] = {}]
  /\ UNCHANGED <<nodes, readings, at>>

\* IntegrityError: somebody committed the node in between.
NodeExists(p) == gpc[p] = "node" /\ NodeAt(p) \in nodes /\ Fails(p)

\* The database refuses one of a circle of posts that wait.
NodeDeadlock(p) ==
  /\ \E S \in SUBSET GridPosts :
       /\ p \in S
       /\ \A o \in S : NodeTaken(o) /\ \E u \in S \ {o} : NodeAt(o) \in inserted[u]
  /\ Fails(p)

\* The reading is flushed: it refers to a node that is there.
InsertReading(p) ==
  /\ gpc[p] = "reading" /\ at' = [at EXCEPT ![p] = @ + 1]
  /\ Goes(p, "get")
  /\ UNCHANGED <<nodes, readings, inserted>>

\* Two coroutines on one session, of which one raises.
GatherRaises(p) ==
  /\ Len(NodesOf[p]) > 1 /\ gpc[p] \in {"get", "node", "reading"} /\ More(p)
  /\ Goes(p, "leaked")
  /\ UNCHANGED <<nodes, readings, at, inserted>>

SessionCollected(p) == gpc[p] = "leaked" /\ Fails(p)

\* A slip: each reading committed by itself.
CommitEach(p) ==
  /\ gpc[p] = "get" /\ at[p] > 0
  /\ nodes' = nodes \union inserted[p] /\ inserted' = [inserted EXCEPT ![p] = {}]
  /\ readings' = readings \union {<<p, i>> : i \in 1 .. at[p]}
  /\ Goes(p, IF More(p) THEN "get" ELSE "answer")
  /\ UNCHANGED at

CommitPost(p) ==
  /\ gpc[p] = "get" /\ ~More(p)
  /\ nodes' = nodes \union inserted[p] /\ inserted' = [inserted EXCEPT ![p] = {}]
  /\ readings' = readings \union {<<p, i>> : i \in DOMAIN NodesOf[p]}
  /\ Goes(p, "answer")
  /\ UNCHANGED at

\* 201; the answer, or the process, may also be lost at any time.
AnswerPost(p) ==
  /\ gpc[p] = "answer" /\ Goes(p, "answered")
  /\ UNCHANGED <<nodes, readings, at, inserted>>

PostLost(p) == gpc[p] \in {"get", "node", "reading", "answer"} /\ Fails(p)

IngestPost(p) ==
  \/ GetNode(p) \/ InsertNode(p) \/ NodeExists(p) \/ NodeDeadlock(p) \/ InsertReading(p)
  \/ GatherRaises(p) \/ SessionCollected(p) \/ CommitPost(p) \/ AnswerPost(p) \/ PostLost(p)

GridNext == \E p \in GridPosts : IngestPost(p)

GridSpec == GridInit /\ [][GridNext]_gridVars

-----------------------------------------------------------------------------
(* Properties. *)

\* The readings that can be seen are a log of whole posts, each there once, and
\* only a post that is there was answered with 201, although posts race for
\* the rows of nodes, batches break down half way and sessions leak
\* (ingest_reading, ingest_batch).
Log == INSTANCE IngestLog WITH
  LogPosts <- GridPosts,
  Entries <- [p \in GridPosts |-> {<<p, i>> : i \in DOMAIN NodesOf[p]}],
  log <- readings,
  acknowledged <- {p \in GridPosts : gpc[p] = "answered"}
ImplementsLog == Log!LogSpec
=============================================================================
