------------------------------- MODULE IngestLog -------------------------------
(***************************************************************************)
(* What the ingestion of readings promises: the readings of a post enter   *)
(* the log together and once, or not at all, and only a post whose         *)
(* readings are in the log is acknowledged.                                *)
(***************************************************************************)
CONSTANTS LogPosts, Entries      \* posts, and the entries of each

VARIABLES log, acknowledged

logVars == <<log, acknowledged>>

LogInit == log = {} /\ acknowledged = {}

AppendAll(p) ==
  /\ Entries[p] \cap log = {}
  /\ log' = log \union Entries[p]
  /\ UNCHANGED acknowledged

Acknowledge(p) ==
  /\ p \notin acknowledged /\ Entries[p] \subseteq log
  /\ acknowledged' = acknowledged \union {p}
  /\ UNCHANGED log

LogNext == \E p \in LogPosts : AppendAll(p) \/ Acknowledge(p)

LogSpec == LogInit /\ [][LogNext]_logVars
=============================================================================
