------------------------------- MODULE Collector -------------------------------
(***************************************************************************)
(* The collector of the dosing controller and the dashboard that reads     *)
(* what it stores.  A poll reads all registers of the daemon at once; the  *)
(* row it becomes is named by the wall clock of the collector, which may   *)
(* be set back; the dashboard takes the row with the greatest name.  A     *)
(* poll may fail or its row may not be stored; a connection that breaks    *)
(* ends the collector.                                                     *)
(***************************************************************************)
EXTENDS Integers, FiniteSets, FiniteSetsExt

CONSTANTS
  Registers,   \* contents of the register file
  MaxPolls,    \* bound: polls
  MaxClock     \* bound: readings of the wall clock

ASSUME CollectorAssumption == MaxPolls \in Nat /\ MaxClock \in Nat \ {0}

VARIABLES
  published,   \* the registers of the daemon
  clock,       \* wall clock of the collector
  steppedBack, \* history: has it been set back
  collector,   \* what the collector does
  snapshot,    \* its local: the snapshot just parsed
  polls,       \* history: the snapshots parsed so far
  last,        \* history: the snapshot stored last
  table,       \* table sensor_metrics
  status       \* what /api/status answered last

collectorVars ==
  <<published, clock, steppedBack, collector, snapshot, polls, last, table, status>>

Snapshot == [ts : 1 .. MaxClock, regs : Registers]
NoSnapshot == [ts |-> 0, regs |-> CHOOSE r \in Registers : TRUE]

CollectorTypeOK ==
  /\ published \in Registers /\ clock \in 1 .. MaxClock /\ steppedBack \in BOOLEAN
  /\ collector \in {"down", "polling", "write"}
  /\ snapshot \in Snapshot \union {NoSnapshot} /\ last \in Snapshot \union {NoSnapshot}
  /\ polls \subseteq Snapshot /\ table \subseteq Snapshot
  /\ status \in Snapshot \union {NoSnapshot}

CollectorInit ==
  /\ published \in Registers /\ clock = 1 /\ steppedBack = FALSE
  /\ collector = "down" /\ snapshot = NoSnapshot /\ last = NoSnapshot
  /\ polls = {} /\ table = {} /\ status = NoSnapshot

PublishRegisters ==
  /\ \E r \in Registers \ {published} : published' = r
  /\ UNCHANGED <<clock, steppedBack, collector, snapshot, polls, last, table, status>>

ClockRuns ==
  /\ clock < MaxClock /\ clock' = clock + 1
  /\ UNCHANGED <<published, steppedBack, collector, snapshot, polls, last, table, status>>

ClockSetBack ==
  /\ \E t \in 1 .. clock - 1 : clock' = t
  /\ steppedBack' = TRUE
  /\ UNCHANGED <<published, collector, snapshot, polls, last, table, status>>

\* init_db() keeps the table that is there.
Start ==
  /\ collector = "down" /\ collector' = "polling"
  /\ UNCHANGED <<published, clock, steppedBack, snapshot, polls, last, table, status>>

\* read_holding_registers() raises, or the process is stopped.
ConnectionBreaks ==
  /\ collector # "down" /\ collector' = "down"
  /\ snapshot' = NoSnapshot
  /\ UNCHANGED <<published, clock, steppedBack, polls, last, table, status>>

\* parse_registers(); a reply that is an error is skipped without a trace.
PollRegisters ==
  /\ collector = "polling" /\ Cardinality(polls) < MaxPolls
  /\ collector' = "write"
  /\ snapshot' = [ts |-> clock, regs |-> published]
  /\ polls' = polls \union {snapshot'}
  /\ UNCHANGED <<published, clock, steppedBack, last, table, status>>

\* INSERT OR REPLACE: the row of that instant is gone.
WriteMetric ==
  /\ collector = "write" /\ collector' = "polling"
  /\ table' = {s \in table : s.ts # snapshot.ts} \union {snapshot}
  /\ last' = snapshot /\ snapshot' = NoSnapshot
  /\ UNCHANGED <<published, clock, steppedBack, polls, status>>

\* The database is locked: logged, and the snapshot is lost.
WriteFails ==
  /\ collector = "write" /\ collector' = "polling" /\ snapshot' = NoSnapshot
  /\ UNCHANGED <<published, clock, steppedBack, polls, last, table, status>>

\* A slip: ORDER BY ts without DESC.
Oldest(n) ==
  {s \in table : Cardinality({o \in table : o.ts < s.ts}) < n}

\* ORDER BY ts DESC LIMIT n, of /api/status and /api/metrics.
Latest(n) ==
  {s \in table : Cardinality({o \in table : o.ts > s.ts}) < n}

\* /api/status.
Status ==
  /\ status' = IF table = {} THEN NoSnapshot ELSE CHOOSE s \in Latest(1) : TRUE
  /\ UNCHANGED <<published, clock, steppedBack, collector, snapshot, polls, last, table>>

CollectorNext ==
  \/ PublishRegisters \/ ClockRuns \/ ClockSetBack
  \/ Start \/ ConnectionBreaks \/ PollRegisters \/ WriteMetric \/ WriteFails
  \/ Status

CollectorSpec == CollectorInit /\ [][CollectorNext]_collectorVars

-----------------------------------------------------------------------------
(* Properties. *)

\* What the dashboard shows was in the registers at one moment, all of it; it
\* never goes back to an earlier instant than it has shown, restarts and lost
\* rows included; and as long as the clock was not set back it is the snapshot
\* that was stored last when the dashboard asked (status, write_metric).
StatusIsLatest ==
  [][status' # status =>
       /\ status' \in polls /\ status'.ts >= status.ts
       /\ ~steppedBack => status' = last]_collectorVars
=============================================================================
