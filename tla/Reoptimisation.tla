---------------------------- MODULE Reoptimisation ----------------------------
(***************************************************************************)
(* Deviations of a plant on their way to the re-optimisation: published on *)
(* a Redis channel, which forgets what nobody listens to, handed over to   *)
(* Celery by the subscriber's loop, and judged by the task when a worker   *)
(* gets to it: dropped when they are more than an hour old by then.        *)
(*                                                                         *)
(* Neither half of the way delivers exactly once.  A command to Redis is   *)
(* repeated when its answer is lost, although it may have been carried     *)
(* out, and celery_app.py leaves Celery's Redis broker its defaults: tasks *)
(* are acknowledged before they run, and one that no worker has            *)
(* acknowledged for the visibility timeout is delivered again.             *)
(***************************************************************************)
EXTENDS Integers, Sequences, FiniteSetsExt

CONSTANTS
  Deviations,   \* messages, copies of which may be about
  MaxAge,       \* the hour after which a message is stale
  Visibility,   \* the broker's visibility timeout, an hour unless it is set
  Attempts,     \* a command is sent to Redis at most so often
  MaxTime, MaxTasks    \* bounds: the clock; tasks put into the queue

\* What may be published: as publish_deviation() does, with a timestamp that
\* cannot be read, with one that is no text or a change that is no number, not
\* JSON or without a field, JSON but not an object.
Kinds == {"plain", "undated", "unfit", "malformed", "foreign"}

\* How a task that was taken from the queue may end.
Results == {"ok", "skipped_stale", "failed", "lost"}

\* A message is stale before its task can be delivered again.
ASSUME ReoptimisationAssumption ==
  /\ MaxAge \in Nat /\ Visibility \in Nat /\ MaxAge <= Visibility
  /\ Attempts \in Nat \ {0} /\ MaxTime \in Nat /\ MaxTasks \in Nat

VARIABLES
  now,          \* hours
  listening,    \* does the subscriber run
  channel,      \* copies sent to it and not yet read
  queue,        \* per message: tasks of Celery no worker has acknowledged
  kind, sent,   \* per message: what it is like; when it was published, or Unsent
  handed, handedAt,  \* per message: tasks put into the queue by the subscriber;
                     \* when it put the first one there
  runs          \* per message: when tasks were taken from the queue, how they ended

reoptVars ==
  <<now, listening, channel, queue, kind, sent, handed, handedAt, runs>>

Unsent == MaxTime + 1
Run == [at : 0 .. MaxTime, result : Results]

ReoptTypeOK ==
  /\ now \in 0 .. MaxTime /\ listening \in BOOLEAN
  /\ channel \in Seq(Deviations)
  /\ queue \in [Deviations -> Nat] /\ handed \in [Deviations -> Nat]
  /\ kind \in [Deviations -> Kinds]
  /\ sent \in [Deviations -> 0 .. Unsent] /\ handedAt \in [Deviations -> 0 .. Unsent]
  /\ runs \in [Deviations -> Seq(Run)]

ReoptInit ==
  /\ now = 0 /\ listening = FALSE /\ channel = <<>>
  /\ queue = [d \in Deviations |-> 0] /\ handed = queue
  /\ kind = [d \in Deviations |-> "plain"]
  /\ sent = [d \in Deviations |-> Unsent] /\ handedAt = sent
  /\ runs = [d \in Deviations |-> <<>>]

HourPasses ==
  /\ now < MaxTime /\ now' = now + 1
  /\ UNCHANGED <<listening, channel, queue, kind, sent, handed, handedAt, runs>>

\* publish_deviation(), or another publisher on the channel.  Who listens gets
\* a copy per PUBLISH that was carried out.
Publish(d, k) ==
  /\ sent[d] = Unsent
  /\ sent' = [sent EXCEPT ![d] = now] /\ kind' = [kind EXCEPT ![d] = k]
  /\ \E n \in 0 .. (IF listening THEN Attempts ELSE 0) :
       channel' = channel \o [i \in 1 .. n |-> d]
  /\ UNCHANGED <<now, listening, queue, handed, handedAt, runs>>

Subscribe ==
  /\ ~listening /\ listening' = TRUE
  /\ UNCHANGED <<now, channel, queue, kind, sent, handed, handedAt, runs>>

\* The loop ends, for whatever reason, and loses what it had not read.
LoopEnds == listening' = FALSE /\ channel' = <<>>

ConnectionLost ==
  /\ listening /\ LoopEnds
  /\ UNCHANGED <<now, queue, kind, sent, handed, handedAt, runs>>

\* All that have been in the queue so far.
TasksOf(d) == queue[d] + Len(runs[d])
Tasks == MapThenSumSet(TasksOf, Deviations)

\* intraday_reforecast.delay(): each attempt may have put a task into the
\* queue.  When the last one has failed too, the exception ends the loop.
HandOver(d) ==
  \E n \in 0 .. Attempts :
    /\ Tasks + n <= MaxTasks
    /\ queue' = [queue EXCEPT ![d] = @ + n]
    /\ handed' = [handed EXCEPT ![d] = @ + n]
    /\ handedAt' = IF n = 0 \/ handed[d] > 0 THEN handedAt
                   ELSE [handedAt EXCEPT ![d] = now]
    /\ \/ n > 0 /\ channel' = Tail(channel) /\ UNCHANGED listening
       \/ LoopEnds
    /\ UNCHANGED <<now, kind, sent, runs>>

\* One turn of the loop: a message that is no JSON object ends it, a malformed
\* one is skipped, any other becomes a task, whatever its fields are.
Listen ==
  /\ channel # <<>>
  /\ LET d == Head(channel)
     IN  \/ /\ kind[d] = "foreign" /\ LoopEnds
            /\ UNCHANGED <<now, queue, kind, sent, handed, handedAt, runs>>
         \/ /\ kind[d] = "malformed" /\ channel' = Tail(channel)
            /\ UNCHANGED <<now, listening, queue, kind, sent, handed, handedAt, runs>>
         \/ kind[d] \in {"plain", "undated", "unfit"} /\ HandOver(d)

\* A task no worker has acknowledged for the visibility timeout is delivered
\* again, while the copy some worker holds stays where it is.
Redeliver(d) ==
  /\ queue[d] > 0 /\ now - handedAt[d] > Visibility
  /\ Tasks < MaxTasks
  /\ queue' = [queue EXCEPT ![d] = @ + 1]
  /\ UNCHANGED <<now, listening, channel, kind, sent, handed, handedAt, runs>>

\* A worker acknowledges one task of d, and this is what becomes of it.
Taken(d, result) ==
  /\ queue[d] > 0 /\ queue' = [queue EXCEPT ![d] = @ - 1]
  /\ runs' = [runs EXCEPT ![d] = Append(@, [at |-> now, result |-> result])]
  /\ UNCHANGED <<now, listening, channel, kind, sent, handed, handedAt>>

\* A slip: the sign of the age.
RunAnyAge(d) ==
  Taken(d, IF kind[d] = "unfit" THEN "failed"
           ELSE IF kind[d] = "plain" /\ sent[d] - now > MaxAge THEN "skipped_stale" ELSE "ok")

\* A timestamp that cannot be read counts as fresh.
Stale(d) == kind[d] = "plain" /\ now - sent[d] > MaxAge

\* The task, whenever a worker gets to it.  One whose change is no number or
\* whose timestamp is no text raises past the guard.
RunTask(d) ==
  Taken(d, IF kind[d] = "unfit" THEN "failed"
           ELSE IF Stale(d) THEN "skipped_stale" ELSE "ok")

\* A worker ends between acknowledging a task and the end of its run.
TaskLost(d) == Taken(d, "lost")

ReoptNext ==
  \/ HourPasses \/ Subscribe \/ ConnectionLost \/ Listen
  \/ \E d \in Deviations :
       \/ \E k \in Kinds : Publish(d, k)
       \/ Redeliver(d) \/ RunTask(d) \/ TaskLost(d)

ReoptSpec == ReoptInit /\ [][ReoptNext]_reoptVars

-----------------------------------------------------------------------------
(* Properties. *)

\* The runs of d that acted upon it.
Acted(d) == {i \in DOMAIN runs[d] : runs[d][i].result = "ok"}

\* However long copies of a deviation wait in the channel or the queue, and
\* however often they are delivered: each run acts upon it only when it is at
\* most an hour old at that moment, unless nobody can tell, and drops it as
\* stale only when it is older; and a second delivery by the broker never makes
\* one whose age can be told act again (_reopt_cycle): no more runs act than
\* tasks were put into the queue by the subscriber.
OnlyFreshDeviations ==
  \A d \in Deviations :
    /\ \A i \in DOMAIN runs[d] :
         /\ runs[d][i].result = "ok" => kind[d] = "undated" \/ runs[d][i].at - sent[d] <= MaxAge
         /\ runs[d][i].result = "skipped_stale" => runs[d][i].at - sent[d] > MaxAge
    /\ kind[d] = "plain" => Cardinality(Acted(d)) <= handed[d]
=============================================================================
