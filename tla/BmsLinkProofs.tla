---------------------------- MODULE BmsLinkProofs ----------------------------
(***************************************************************************)
(* Theorems about BmsLink, for any sequences, queue length and bounds.     *)
(* That a finished test leaves no load behind is no inductive fact: the    *)
(* last SET_CURRENT 0 is still on its way, behind other commands, or stuck *)
(* on a connection the daemon never comes to.  The invariant says which of *)
(* these it is.                                                            *)
(***************************************************************************)
EXTENDS BmsLink, TLAPS

\* A command after which there is no load, and one that adds none.
Unloads(msg) == msg.command = "RESET" \/ (msg.command = "SET_CURRENT" /\ msg.value = 0)
Harmless(msg) == Unloads(msg) \/ msg.command = "SET_FAULT"

\* With load l, the commands w leave none.
Quiet(l, w) ==
  \/ l = 0 /\ \A j \in DOMAIN w : Harmless(w[j])
  \/ \E k \in DOMAIN w : Unloads(w[k]) /\ \A j \in DOMAIN w : j > k => Harmless(w[j])

\* The connection the daemon serves or will serve, for the rest of its life.
First == IF serving # None THEN serving ELSE IF backlog # <<>> THEN Head(backlog) ELSE None

Calm == IF First = None THEN load = 0 ELSE Quiet(load, wire[First])
Stuck == \E c \in Alive \ {First} : wire[c] # <<>>

QueueInv ==
  /\ \A i, j \in DOMAIN backlog : backlog[i] = backlog[j] => i = j
  /\ serving \notin ToSet(backlog)
  /\ serving = None => load = 0
  /\ ~up => serving = None /\ backlog = <<>>

Settled == undisturbed /\ (\A i \in Ids : run[i] = 0) => Stuck \/ Calm

Inv == TypeOK /\ QueueInv /\ Settled

-----------------------------------------------------------------------------
(* Commands in a row. *)

LEMMA QuietAppend ==
  ASSUME NEW l \in Int, NEW w \in Seq(Message), NEW msg \in Message, Harmless(msg),
         Unloads(msg) \/ Quiet(l, w)
  PROVE  Quiet(l, Append(w, msg))
<1> DEFINE v == Append(w, msg)
<1>1. /\ DOMAIN v = 1 .. Len(w) + 1 /\ DOMAIN w = 1 .. Len(w) /\ Len(w) \in Nat
      /\ v[Len(w) + 1] = msg
      /\ \A j \in 1 .. Len(w) : v[j] = w[j]
  OBVIOUS
<1> HIDE DEF v
<1>2. CASE Unloads(msg)
  <2>1. Len(w) + 1 \in DOMAIN v /\ \A j \in DOMAIN v : ~(j > Len(w) + 1)
    BY <1>1
  <2> QED BY <1>1, <1>2, <2>1 DEF Quiet
<1>3. CASE l = 0 /\ \A j \in DOMAIN w : Harmless(w[j])
  <2>1. \A j \in DOMAIN v : Harmless(v[j])
    BY <1>1, <1>3
  <2> QED BY <1>3, <2>1 DEF Quiet
<1>4. ASSUME NEW k \in DOMAIN w, Unloads(w[k]), \A j \in DOMAIN w : j > k => Harmless(w[j])
      PROVE  Quiet(l, v)
  <2>1. k \in DOMAIN v /\ Unloads(v[k]) /\ \A j \in DOMAIN v : j > k => Harmless(v[j])
    BY <1>1, <1>4
  <2> QED BY <2>1 DEF Quiet
<1> QED BY <1>2, <1>3, <1>4 DEF Quiet, v

\* Carrying out the first of them.
LEMMA QuietTail ==
  ASSUME NEW l \in Int, NEW w \in Seq(Message), w # <<>>, Quiet(l, w), NEW new \in Int,
         Unloads(Head(w)) => new = 0,
         Head(w).command = "SET_FAULT" => new = l
  PROVE  Quiet(new, Tail(w))
<1> DEFINE v == Tail(w)
<1>1. /\ DOMAIN w = 1 .. Len(w) /\ DOMAIN v = 1 .. Len(w) - 1 /\ Len(w) \in Nat \ {0}
      /\ Head(w) = w[1]
      /\ \A j \in 1 .. Len(w) - 1 : v[j] = w[j + 1]
  OBVIOUS
<1> HIDE DEF v
<1>2. ASSUME l = 0, \A j \in DOMAIN w : Harmless(w[j])
      PROVE  Quiet(new, v)
  <2>1. new = 0
    BY <1>1, <1>2 DEF Harmless
  <2>2. \A j \in DOMAIN v : Harmless(v[j])
    BY <1>1, <1>2, SMTT(30)
  <2> QED BY <2>1, <2>2 DEF Quiet
<1>3. ASSUME NEW k \in DOMAIN w, Unloads(w[k]), \A j \in DOMAIN w : j > k => Harmless(w[j])
      PROVE  Quiet(new, v)
  <2>1. CASE k = 1
    <3>1. new = 0 /\ \A j \in DOMAIN v : Harmless(v[j])
      BY <1>1, <1>3, <2>1
    <3> QED BY <3>1 DEF Quiet
  <2>2. CASE k > 1
    <3>1. k - 1 \in DOMAIN v /\ Unloads(v[k - 1])
          /\ \A j \in DOMAIN v : j > k - 1 => Harmless(v[j])
      BY <1>1, <1>3, <2>2
    <3> QED BY <3>1 DEF Quiet
  <2> QED BY <1>1, <2>1, <2>2
<1> QED BY <1>2, <1>3 DEF Quiet, v

-----------------------------------------------------------------------------
(* Types. *)

LEMMA Bounds ==
  /\ Delays \in Nat \ {0} /\ Backlog \in Nat \ {0}
  /\ MaxStarts \in Nat /\ MaxManual \in Nat /\ MaxCrashes \in Nat
  /\ \A i \in Ids : Spec0[i] \in Seq(Int) /\ Len(Spec0[i]) \in Nat
<1>1. \A i \in Ids : Spec0[i] \in Seq(Int)
  BY LinkAssumption
<1> QED BY <1>1, LinkAssumption

LEMMA TypeInit == Init => TypeOK
<1> SUFFICES ASSUME Init PROVE TypeOK
  OBVIOUS
<1>1. wire \in [Conns -> Seq(Message)] /\ backlog \in Seq(Conns) /\ Len(backlog) <= Backlog + 1
  BY Bounds DEF Init
<1>2. run \in [Ids -> Nat] /\ \A i \in Ids : run[i] <= Len(Spec0[i]) + 1
  BY Bounds DEF Init
<1>3. attempt \in 0 .. Delays - 1 /\ starts \in 0 .. MaxStarts /\ manual \in 0 .. MaxManual /\ crashes \in 0 .. MaxCrashes
  BY Bounds DEF Init
<1>4. /\ up \in BOOLEAN /\ serving \in Conns \union {None} /\ load \in Int
      /\ full \in BOOLEAN /\ volts \in {"ok", "over"} /\ running \in BOOLEAN
      /\ pc \in {"connect", "read", "sleep", "end"} /\ writer \in Conns \union {None}
      /\ closing \in BOOLEAN /\ frame \in {"none", "live", "stale"}
      /\ dropped \in BOOLEAN /\ undisturbed \in BOOLEAN
  <2>1. up = TRUE /\ serving = None /\ load = 0 /\ full = TRUE /\ volts = "ok"
    BY DEF Init
  <2>2. running = TRUE /\ pc = "connect" /\ writer = None /\ closing = FALSE
    BY DEF Init
  <2>3. frame = "none" /\ dropped = FALSE /\ undisturbed = TRUE
    BY DEF Init
  <2>4. /\ up \in BOOLEAN /\ full \in BOOLEAN /\ running \in BOOLEAN
        /\ closing \in BOOLEAN /\ dropped \in BOOLEAN /\ undisturbed \in BOOLEAN
    BY <2>1, <2>2, <2>3, Zenon
  <2>5. /\ serving \in Conns \union {None} /\ writer \in Conns \union {None}
        /\ volts \in {"ok", "over"} /\ pc \in {"connect", "read", "sleep", "end"}
        /\ frame \in {"none", "live", "stale"}
    BY <2>1, <2>2, <2>3, Zenon
  <2>6. load \in Int
    BY <2>1
  <2> QED BY <2>4, <2>5, <2>6
<1> QED BY <1>1, <1>2, <1>3, <1>4 DEF TypeOK

LEMMA SendType ==
  ASSUME TypeOK, NEW cmd \in {"SET_CURRENT", "SET_FAULT", "RESET"}, NEW val \in Int, Send(cmd, val)
  PROVE  wire' \in [Conns -> Seq(Message)]
<1>1. [command |-> cmd, value |-> val] \in Message
  BY DEF Message
<1>2. Open => writer \in Conns
  BY DEF Open, Alive, TypeOK, None
<1> QED BY <1>1, <1>2 DEF Send, TypeOK

LEMMA TypeStep == TypeOK /\ [Next]_vars => TypeOK'
<1> SUFFICES ASSUME TypeOK, [Next]_vars PROVE TypeOK'
  OBVIOUS
<1> USE Bounds DEF daemon, battery, client, engine
<1>1. CASE UNCHANGED vars
  BY <1>1 DEF vars, TypeOK
<1>2. CASE Daemon
  <2>1. CASE Accept
    BY <2>1 DEF Accept, TypeOK
  <2>2. CASE HandleCommand
    <3>1. Head(wire[serving]) \in Message /\ Tail(wire[serving]) \in Seq(Message)
      BY <2>2 DEF HandleCommand, TypeOK
    <3>2. load' \in Int
      BY <2>2, <3>1, SMTT(30) DEF HandleCommand, TypeOK, Message
    <3>3. wire' \in [Conns -> Seq(Message)]
      BY <2>2, <3>1 DEF HandleCommand, TypeOK
    <3>4. UNCHANGED <<daemon, full, volts, client, engine, manual>>
      BY <2>2 DEF HandleCommand
    <3> QED BY <3>2, <3>3, <3>4 DEF TypeOK
  <2>3. CASE Physics
    BY <2>3, ZenonT(30) DEF Physics, TypeOK
  <2>4. CASE Crash
    <3>1. wire' \in [Conns -> Seq(Message)] /\ backlog' \in Seq(Conns) /\ Len(backlog') <= Backlog + 1
      BY <2>4 DEF Crash
    <3>2. /\ up' = FALSE /\ serving' = None /\ crashes' = crashes + 1 /\ crashes < MaxCrashes
          /\ load' = 0 /\ full' = TRUE /\ volts' = "ok" /\ dropped' = FALSE
      BY <2>4 DEF Crash
    <3>3. UNCHANGED <<running, pc, writer, closing, attempt, frame, engine, manual>>
      BY <2>4 DEF Crash
    <3>4. up' \in BOOLEAN /\ full' \in BOOLEAN /\ dropped' \in BOOLEAN
      BY <3>2, Zenon
    <3>5. serving' \in Conns \union {None} /\ volts' \in {"ok", "over"}
      BY <3>2, Zenon
    <3>6. load' \in Int /\ crashes' \in 0 .. MaxCrashes
      BY <3>2 DEF TypeOK
    <3> QED BY <3>1, <3>3, <3>4, <3>5, <3>6 DEF TypeOK
  <2>5. CASE Restart
    BY <2>5 DEF Restart, TypeOK
  <2> QED BY <1>2, <2>1, <2>2, <2>3, <2>4, <2>5 DEF Daemon
<1>3. CASE Loop
  <2>1. CASE Connect
    <3>1. PICK c \in Conns : /\ backlog' = Append(backlog, c)
                             /\ wire' = [wire EXCEPT ![c] = <<>>] /\ writer' = c
      BY <2>1 DEF Connect, Unused
    <3>2. backlog' \in Seq(Conns) /\ Len(backlog') <= Backlog + 1
      <4>1. backlog \in Seq(Conns) /\ Len(backlog) <= Backlog
        BY <2>1 DEF Connect, TypeOK
      <4> HIDE DEF Conns
      <4> QED BY <3>1, <4>1
    <3>3. wire' \in [Conns -> Seq(Message)]
      BY <3>1 DEF TypeOK
    <3>4. writer' \in Conns
      BY <3>1
    <3>5. attempt' \in 0 .. Delays - 1
      BY <2>1 DEF Connect
    <3> QED BY <2>1, <3>2, <3>3, <3>4, <3>5 DEF Connect, TypeOK
  <2>2. CASE NoConnection
    BY <2>2 DEF NoConnection, TypeOK
  <2>3. CASE WakeUp
    BY <2>3 DEF WakeUp, TypeOK
  <2>4. CASE EndOfFile
    BY <2>4 DEF EndOfFile, LeaveReadLoop, TypeOK
  <2>5. CASE ReadFrame
    BY <2>5 DEF ReadFrame, LeaveReadLoop, TypeOK
  <2> QED BY <1>3, <2>1, <2>2, <2>3, <2>4, <2>5 DEF Loop
<1>4. CASE Users
  <2>1. CASE PostCommand
    <3>1. wire' \in [Conns -> Seq(Message)]
      BY <2>1, SendType DEF PostCommand, Overcurrent
    <3>2. undisturbed' \in BOOLEAN
      BY <2>1 DEF PostCommand, TypeOK
    <3>3. manual' \in 0 .. MaxManual
      BY <2>1 DEF PostCommand, ByHand, TypeOK
    <3>4. UNCHANGED <<daemon, battery, client, run, starts>>
      BY <2>1 DEF PostCommand
    <3> QED BY <3>1, <3>2, <3>3, <3>4 DEF TypeOK
  <2>2. CASE InjectCommand
    <3>1. wire' \in [Conns -> Seq(Message)]
      BY <2>2, SendType DEF InjectCommand, Overcurrent
    <3>2. undisturbed' \in BOOLEAN
      BY <2>2 DEF InjectCommand, TypeOK
    <3>3. manual' \in 0 .. MaxManual
      BY <2>2 DEF InjectCommand, ByHand, TypeOK
    <3>4. UNCHANGED <<daemon, battery, client, run, starts>>
      BY <2>2 DEF InjectCommand
    <3> QED BY <3>1, <3>2, <3>3, <3>4 DEF TypeOK
  <2>3. CASE SensorDropout
    BY <2>3 DEF SensorDropout, ByHand, TypeOK
  <2>4. CASE Stop
    <3>1. undisturbed' \in BOOLEAN /\ closing' \in BOOLEAN
      BY <2>4, Zenon DEF Stop
    <3>2. run' \in [Ids -> Nat] /\ \A i \in Ids : run'[i] <= Len(Spec0[i]) + 1
      BY <2>4 DEF Stop
    <3>3. running' \in BOOLEAN /\ pc' \in {"connect", "read", "sleep", "end"}
      BY <2>4 DEF Stop, TypeOK
    <3>4. UNCHANGED <<daemon, wire, battery, writer, attempt, frame, dropped, starts, manual>>
      BY <2>4 DEF Stop
    <3> QED BY <3>1, <3>2, <3>3, <3>4 DEF TypeOK
  <2>5. ASSUME NEW i \in Ids, StartRun(i) PROVE TypeOK'
    BY <2>5 DEF StartRun, TypeOK
  <2> QED BY <1>4, <2>1, <2>2, <2>3, <2>4, <2>5 DEF Users
<1>5. ASSUME NEW i \in Ids, StepRun(i) PROVE TypeOK'
  <2>1. Spec0[i][run[i]] \in Int
    BY <1>5 DEF StepRun, TypeOK
  <2>2. wire' \in [Conns -> Seq(Message)]
    BY <1>5, <2>1, SendType DEF StepRun
  <2>3. undisturbed' \in BOOLEAN
    BY <1>5, Zenon DEF StepRun, Open
  <2>4. run' \in [Ids -> Nat] /\ \A j \in Ids : run'[j] <= Len(Spec0[j]) + 1
    BY <1>5, SMTT(30) DEF StepRun, TypeOK
  <2>5. UNCHANGED <<daemon, battery, client, starts, manual>>
    BY <1>5 DEF StepRun
  <2> QED BY <2>2, <2>3, <2>4, <2>5 DEF TypeOK
<1>6. ASSUME NEW i \in Ids, UnloadAndEnd(i) PROVE TypeOK'
  <2>1. wire' \in [Conns -> Seq(Message)]
    BY <1>6, SendType DEF UnloadAndEnd
  <2>2. undisturbed' \in BOOLEAN
    BY <1>6, Zenon DEF UnloadAndEnd, Open
  <2>3. run' \in [Ids -> Nat] /\ \A j \in Ids : run'[j] <= Len(Spec0[j]) + 1
    BY <1>6 DEF UnloadAndEnd, TypeOK
  <2>4. UNCHANGED <<daemon, battery, client, starts, manual>>
    BY <1>6 DEF UnloadAndEnd
  <2> QED BY <2>1, <2>2, <2>3, <2>4 DEF TypeOK
<1> QED BY <1>1, <1>2, <1>3, <1>4, <1>5, <1>6 DEF Next, Runs, PassRun, FailRun

\* Every variable keeps its type: the delays are never indexed past their end,
\* the listen queue is never longer than the kernel lets it be, and no run
\* goes past the last of its steps (_connect_loop, SequenceEngine._run).
THEOREM TypeCorrect == Spec => []TypeOK
  BY TypeInit, TypeStep, PTL DEF Spec
-----------------------------------------------------------------------------
(* The connections the daemon has. *)

LEMMA RealConns == None \notin Conns
  BY Bounds DEF Conns, None

LEMMA Enqueued ==
  ASSUME NEW s \in Seq(Conns), NEW c \in Conns
  PROVE  /\ ToSet(Append(s, c)) = ToSet(s) \union {c}
         /\ Append(s, c) # <<>>
         /\ Head(Append(s, c)) = IF s = <<>> THEN c ELSE Head(s)
<1>1. /\ DOMAIN s = 1 .. Len(s) /\ DOMAIN Append(s, c) = 1 .. Len(s) + 1 /\ Len(s) \in Nat
      /\ \A j \in 1 .. Len(s) : Append(s, c)[j] = s[j]
      /\ Append(s, c)[Len(s) + 1] = c
  OBVIOUS
<1>2. Append(s, c) # <<>> /\ Head(Append(s, c)) = Append(s, c)[1]
  BY <1>1
<1>3. s # <<>> => Head(s) = s[1] /\ Len(s) # 0
  OBVIOUS
<1>4. s = <<>> => Len(s) = 0
  OBVIOUS
<1>5. Head(Append(s, c)) = IF s = <<>> THEN c ELSE Head(s)
  BY <1>1, <1>2, <1>3, <1>4
<1>6. \A j \in 1 .. Len(s) + 1 : j \in 1 .. Len(s) \/ j = Len(s) + 1
  BY <1>1
<1>7. ToSet(Append(s, c)) = ToSet(s) \union {c}
  BY <1>1, <1>6 DEF ToSet
<1> QED BY <1>2, <1>5, <1>7

LEMMA Dequeued ==
  ASSUME NEW s \in Seq(Conns), s # <<>>
  PROVE  ToSet(s) = {Head(s)} \union ToSet(Tail(s))
<1>1. /\ DOMAIN s = 1 .. Len(s) /\ DOMAIN Tail(s) = 1 .. Len(s) - 1 /\ Len(s) \in Nat \ {0}
      /\ Head(s) = s[1]
      /\ \A j \in 1 .. Len(s) - 1 : Tail(s)[j] = s[j + 1]
  OBVIOUS
<1>2. \A j \in DOMAIN s : j = 1 \/ (j - 1 \in DOMAIN Tail(s) /\ s[j] = Tail(s)[j - 1])
  BY <1>1
<1>3. ToSet(s) \subseteq {Head(s)} \union ToSet(Tail(s))
  BY <1>1, <1>2 DEF ToSet
<1>4. ToSet(Tail(s)) \subseteq ToSet(s)
  <2>1. \A j \in DOMAIN Tail(s) : j + 1 \in DOMAIN s /\ Tail(s)[j] = s[j + 1]
    BY <1>1
  <2> QED BY <2>1 DEF ToSet
<1>5. Head(s) \in ToSet(s)
  BY <1>1 DEF ToSet
<1> QED BY <1>3, <1>4, <1>5

LEMMA FirstIsAlive ==
  ASSUME TypeOK, First # None
  PROVE  First \in Alive /\ First \in Conns
<1>1. ASSUME serving = None, backlog # <<>>
      PROVE  Head(backlog) \in ToSet(backlog) /\ Head(backlog) \in Conns
  BY <1>1, Dequeued DEF TypeOK
<1> QED BY <1>1 DEF First, Alive, TypeOK

LEMMA AliveConns == TypeOK => Alive \subseteq Conns /\ (Alive # {} => First # None)
<1> SUFFICES ASSUME TypeOK PROVE Alive \subseteq Conns /\ (Alive # {} => First # None)
  OBVIOUS
<1>1. ToSet(backlog) \subseteq Conns
  BY DEF ToSet, TypeOK
<1>2. backlog = <<>> => ToSet(backlog) = {}
  BY DEF ToSet
<1>3. backlog # <<>> => Head(backlog) \in Conns
  BY DEF TypeOK
<1> QED BY <1>1, <1>2, <1>3 DEF Alive, First, TypeOK, None, Conns

\* A command on a connection the daemon has joins those that leave no load, or
\* waits with a connection that is not its first.
LEMMA SendSettled ==
  ASSUME TypeOK, NEW cmd \in {"SET_CURRENT", "SET_FAULT", "RESET"}, NEW val \in Int,
         Send(cmd, val), Harmless([command |-> cmd, value |-> val]),
         UNCHANGED <<serving, backlog, load>>,
         (Open /\ Unloads([command |-> cmd, value |-> val])) \/ Stuck \/ Calm
  PROVE  (Stuck \/ Calm)'
<1> DEFINE msg == [command |-> cmd, value |-> val]
<1>1. msg \in Message
  BY DEF Message
<1>2. Alive' = Alive /\ First' = First
  BY DEF Alive, First
<1>3. CASE ~Open
  <2>1. wire' = wire
    BY <1>3 DEF Send
  <2> QED BY <1>2, <1>3, <2>1 DEF Stuck, Calm, Alive, First
<1>4. CASE Open
  <2>1. writer \in Alive /\ writer \in Conns /\ First # None /\ First \in Conns
    BY <1>4, AliveConns, FirstIsAlive DEF Open
  <2>2. wire' = [wire EXCEPT ![writer] = Append(@, msg)] /\ wire \in [Conns -> Seq(Message)]
    BY <1>4 DEF Send, TypeOK
  <2>3. wire'[writer] = Append(wire[writer], msg) /\ wire'[writer] # <<>>
    <3>1. wire[writer] \in Seq(Message)
      BY <2>1, <2>2
    <3>2. wire'[writer] = Append(wire[writer], msg)
      BY <2>1, <2>2, Zenon
    <3>3. Append(wire[writer], msg) # <<>>
      <4> HIDE DEF msg
      <4> QED BY <1>1, <3>1
    <3> QED BY <3>2, <3>3
  <2>4. CASE writer # First
    BY <1>2, <2>1, <2>3, <2>4 DEF Stuck
  <2>5. CASE writer = First /\ Stuck
    <3>1. PICK c \in Alive \ {First} : wire[c] # <<>>
      BY <2>5 DEF Stuck
    <3>2. wire'[c] = wire[c]
      BY <2>2, <2>5, <3>1, AliveConns
    <3> QED BY <1>2, <3>1, <3>2 DEF Stuck
  <2>6. CASE writer = First /\ ~Stuck
    <3>1. Unloads(msg) \/ Quiet(load, wire[First])
      BY <2>1, <2>6 DEF Calm
    <3>2. Quiet(load, Append(wire[First], msg))
      BY <1>1, <2>1, <3>1, QuietAppend DEF TypeOK
    <3>3. Quiet(load', wire'[First'])
      BY <1>2, <2>3, <2>6, <3>2
    <3> QED BY <1>2, <2>1, <3>3 DEF Calm
  <2> QED BY <2>4, <2>5, <2>6
<1> QED BY <1>3, <1>4

-----------------------------------------------------------------------------
(* The invariant, action by action. *)

LEMMA QueueStep ==
  ASSUME TypeOK, QueueInv, [Next]_vars PROVE QueueInv'
<1> USE DEF daemon, battery
<1>1. CASE Accept
  <2>1. /\ serving = None /\ backlog # <<>> /\ up /\ serving' = Head(backlog)
        /\ backlog' = Tail(backlog) /\ up' = up
    BY <1>1 DEF Accept
  <2>2. /\ DOMAIN backlog = 1 .. Len(backlog) /\ DOMAIN backlog' = 1 .. Len(backlog) - 1
        /\ Len(backlog) \in Nat \ {0} /\ Head(backlog) = backlog[1]
        /\ \A j \in 1 .. Len(backlog) - 1 : backlog'[j] = backlog[j + 1]
    BY <2>1 DEF TypeOK
  <2>3. \A i, j \in DOMAIN backlog' : backlog'[i] = backlog'[j] => i = j
    <3> SUFFICES ASSUME NEW i \in DOMAIN backlog', NEW j \in DOMAIN backlog', backlog'[i] = backlog'[j]
                 PROVE  i = j
      OBVIOUS
    <3>1. i + 1 \in DOMAIN backlog /\ j + 1 \in DOMAIN backlog /\ backlog[i + 1] = backlog[j + 1]
      BY <2>2
    <3>2. i + 1 = j + 1
      BY <3>1 DEF QueueInv
    <3> QED BY <2>2, <3>2
  <2>4. serving' \notin ToSet(backlog')
    <3> SUFFICES ASSUME NEW j \in DOMAIN backlog', backlog'[j] = serving' PROVE FALSE
      BY DEF ToSet
    <3>1. 1 \in DOMAIN backlog /\ j + 1 \in DOMAIN backlog /\ backlog[j + 1] = backlog[1]
      BY <2>1, <2>2
    <3>2. j + 1 = 1
      BY <3>1 DEF QueueInv
    <3> QED BY <2>2, <3>2
  <2>5. serving' # None
    <3>1. serving' \in Conns
      BY <2>1 DEF TypeOK
    <3> QED BY <3>1, RealConns
  <2> QED BY <2>1, <2>3, <2>4, <2>5 DEF QueueInv
<1>2. CASE HandleCommand
  BY <1>2 DEF HandleCommand, QueueInv
<1>3. CASE Crash
  <2>1. serving' = None /\ backlog' = <<>> /\ load' = 0
    BY <1>3 DEF Crash
  <2>2. DOMAIN backlog' = {}
    BY <2>1
  <2> QED BY <2>1, <2>2 DEF QueueInv, ToSet
<1>4. CASE Connect
  <2>1. PICK c \in Unused : backlog' = Append(backlog, c)
    BY <1>4 DEF Connect
  <2>2. up /\ up' = up /\ serving' = serving /\ load' = load
    BY <1>4 DEF Connect
  <2>3. c \in Conns /\ c # None /\ c # serving /\ c \notin ToSet(backlog)
    BY <2>1 DEF Unused, Alive, Conns, None
  <2>4. /\ DOMAIN backlog = 1 .. Len(backlog) /\ DOMAIN backlog' = 1 .. Len(backlog) + 1
        /\ Len(backlog) \in Nat
        /\ \A j \in 1 .. Len(backlog) : backlog'[j] = backlog[j]
        /\ backlog'[Len(backlog) + 1] = c
    <3>1. backlog \in Seq(Conns)
      BY DEF TypeOK
    <3> HIDE DEF Conns
    <3> QED BY <2>1, <2>3, <3>1
  <2>5. \A j \in DOMAIN backlog : backlog[j] # c
    BY <2>3 DEF ToSet
  <2>6. \A i, j \in DOMAIN backlog' : backlog'[i] = backlog'[j] => i = j
    BY <2>4, <2>5 DEF QueueInv
  <2>7. serving' \notin ToSet(backlog')
    BY <2>1, <2>2, <2>3, Enqueued DEF QueueInv, TypeOK
  <2> QED BY <2>2, <2>6, <2>7 DEF QueueInv
<1>5. CASE Restart
  BY <1>5 DEF Restart, QueueInv
<1>6. CASE UNCHANGED <<up, serving, backlog, load>>
  BY <1>6 DEF QueueInv
<1>7. CASE Daemon
  BY <1>1, <1>2, <1>3, <1>5, <1>6, <1>7 DEF Daemon, Physics
<1>8. CASE Loop
  BY <1>4, <1>6, <1>8 DEF Loop, NoConnection, WakeUp, EndOfFile, ReadFrame
<1>9. CASE Users
  BY <1>6, <1>9 DEF Users, PostCommand, InjectCommand, SensorDropout, Stop, StartRun
<1>10. CASE Runs
  BY <1>6, <1>10 DEF Runs, StepRun, PassRun, FailRun, UnloadAndEnd
<1> QED BY <1>6, <1>7, <1>8, <1>9, <1>10 DEF Next, vars

\* Steps that touch neither the connections nor the load, and settle nothing.
LEMMA SettledFrame ==
  ASSUME Settled, UNCHANGED <<serving, backlog, load, wire>>,
         undisturbed' => undisturbed,
         (\A i \in Ids : run'[i] = 0) => \A i \in Ids : run[i] = 0
  PROVE  Settled'
<1>1. Alive' = Alive /\ First' = First
  BY DEF Alive, First
<1>2. Stuck' = Stuck /\ Calm' = Calm
  BY <1>1 DEF Stuck, Calm
<1> QED BY <1>2 DEF Settled

LEMMA AcceptSettled == Inv /\ Accept => Settled'
<1> SUFFICES ASSUME Inv, Accept PROVE Settled'
  OBVIOUS
<1>1. /\ serving = None /\ backlog # <<>> /\ backlog \in Seq(Conns)
      /\ serving' = Head(backlog) /\ backlog' = Tail(backlog)
      /\ UNCHANGED <<wire, load, run, undisturbed>>
  BY DEF Accept, Inv, TypeOK, battery, engine
<1>2. Head(backlog) # None
  <2>1. Head(backlog) \in Conns
    BY <1>1
  <2> QED BY <2>1, RealConns
<1>3. First' = First /\ Alive' = Alive
  BY <1>1, <1>2, Dequeued DEF First, Alive
<1>4. Stuck' = Stuck /\ Calm' = Calm
  BY <1>1, <1>3 DEF Stuck, Calm
<1> QED BY <1>1, <1>4 DEF Inv, Settled

LEMMA HandleSettled == Inv /\ HandleCommand => Settled'
<1> SUFFICES ASSUME Inv, HandleCommand PROVE Settled'
  OBVIOUS
<1> DEFINE w == wire[serving]
<1>1. /\ serving \in Conns /\ serving # None /\ w # <<>> /\ w \in Seq(Message) /\ load \in Int
      /\ wire \in [Conns -> Seq(Message)]
  BY DEF HandleCommand, Inv, TypeOK
<1>2. /\ wire' = [wire EXCEPT ![serving] = Tail(@)]
      /\ UNCHANGED <<serving, backlog, run, undisturbed>>
  BY DEF HandleCommand, daemon, engine
<1>3. First = serving /\ First' = First /\ Alive' = Alive
  BY <1>1, <1>2 DEF First, Alive
<1>4. Stuck => Stuck'
  <2> SUFFICES ASSUME NEW c \in Alive \ {First}, wire[c] # <<>> PROVE Stuck'
    BY DEF Stuck
  <2>1. wire'[c] = wire[c]
    BY <1>1, <1>2, <1>3, AliveConns DEF Inv
  <2> QED BY <1>3, <2>1 DEF Stuck
<1>5. Calm => Calm'
  <2> SUFFICES ASSUME Quiet(load, w) PROVE Calm'
    BY <1>1, <1>3 DEF Calm
  <2>1. /\ load' \in Int
        /\ Unloads(Head(w)) => load' = 0
        /\ Head(w).command = "SET_FAULT" => load' = load
    <3>1. Head(w) \in Message
      BY <1>1
    <3>2. load' = CASE Head(w).command = "SET_CURRENT" -> Head(w).value
                    [] Head(w).command = "SET_FAULT" -> load
                    [] Head(w).command = "RESET" -> 0
      BY DEF HandleCommand
    <3> HIDE DEF w
    <3> QED BY <1>1, <3>1, <3>2 DEF Message, Unloads
  <2>2. wire'[serving] = Tail(w)
    BY <1>1, <1>2
  <2>3. Quiet(load', Tail(w))
    <3> HIDE DEF w
    <3> QED BY <1>1, <2>1, QuietTail
  <2> QED BY <1>1, <1>3, <2>2, <2>3 DEF Calm
<1> QED BY <1>2, <1>4, <1>5 DEF Inv, Settled

LEMMA CrashSettled == Crash => Settled'
<1> SUFFICES ASSUME Crash PROVE Settled'
  OBVIOUS
<1>1. serving' = None /\ backlog' = <<>> /\ load' = 0
  BY DEF Crash
<1> QED BY <1>1 DEF Settled, Calm, First

LEMMA ConnectSettled == Inv /\ Connect => Settled'
<1> SUFFICES ASSUME Inv, Connect PROVE Settled'
  OBVIOUS
<1>1. PICK c \in Unused : backlog' = Append(backlog, c) /\ wire' = [wire EXCEPT ![c] = <<>>]
  BY DEF Connect
<1>2. UNCHANGED <<serving, load, run, undisturbed>>
  BY DEF Connect, battery, engine
<1>3. c \in Conns /\ c \notin Alive /\ backlog \in Seq(Conns) /\ wire \in [Conns -> Seq(Message)]
  BY <1>1 DEF Unused, Inv, TypeOK
<1>4. Alive \subseteq Alive'
  BY <1>1, <1>2, <1>3, Enqueued DEF Alive
<1>5. \A d \in Alive : wire'[d] = wire[d]
  BY <1>1, <1>3, AliveConns DEF Inv
<1>6. CASE First = None
  <2>1. serving = None /\ backlog = <<>> /\ c # None
    <3>1. backlog # <<>> => Head(backlog) \in Conns
      BY <1>3
    <3> QED BY <1>3, <1>6, <3>1, RealConns DEF First
  <2>2. First' = c /\ load' = 0 /\ wire'[c] = <<>>
    BY <1>1, <1>2, <1>3, <2>1, Enqueued DEF First, Inv, QueueInv
  <2>3. Quiet(0, <<>>)
    BY DEF Quiet
  <2> QED BY <2>1, <2>2, <2>3 DEF Settled, Calm
<1>7. CASE First # None
  <2>1. First' = First
    BY <1>1, <1>2, <1>3, <1>7, Enqueued DEF First
  <2>2. wire'[First] = wire[First]
    BY <1>5, <1>7, FirstIsAlive DEF Inv
  <2>3. Stuck => Stuck'
    BY <1>4, <1>5, <2>1 DEF Stuck
  <2>4. Calm => Calm'
    BY <1>2, <1>7, <2>1, <2>2 DEF Calm
  <2> QED BY <1>2, <2>3, <2>4 DEF Inv, Settled
<1> QED BY <1>6, <1>7

\* A command of the API or the injector.
LEMMA CommandSettled ==
  ASSUME Inv, NEW cmd \in {"SET_FAULT", "RESET"}, Send(cmd, 0),
         UNCHANGED <<serving, backlog, load, run, undisturbed>>
  PROVE  Settled'
<1>1. Harmless([command |-> cmd, value |-> 0])
  BY DEF Harmless, Unloads
<1>2. Stuck \/ Calm => (Stuck \/ Calm)'
  BY <1>1, SendSettled DEF Inv
<1> QED BY <1>2 DEF Inv, Settled

LEMMA UnloadSettled ==
  ASSUME Inv, NEW i \in Ids, UnloadAndEnd(i) PROVE Settled'
<1>1. Send("SET_CURRENT", 0) /\ undisturbed' = Open /\ UNCHANGED <<serving, backlog, load>>
  BY DEF UnloadAndEnd, daemon, battery
<1>2. Harmless([command |-> "SET_CURRENT", value |-> 0]) /\ Unloads([command |-> "SET_CURRENT", value |-> 0])
  BY DEF Harmless, Unloads
<1>3. Open => (Stuck \/ Calm)'
  BY <1>1, <1>2, SendSettled DEF Inv
<1> QED BY <1>1, <1>3 DEF Settled

LEMMA InvInit == Init => Inv
<1> SUFFICES ASSUME Init PROVE Inv
  OBVIOUS
<1>1. serving = None /\ backlog = <<>> /\ load = 0 /\ up = TRUE
  BY DEF Init
<1>2. QueueInv
  BY <1>1 DEF QueueInv, ToSet
<1>3. Settled
  BY <1>1 DEF Settled, Calm, First
<1> QED BY <1>2, <1>3, TypeInit DEF Inv

LEMMA InvStep == Inv /\ [Next]_vars => Inv'
<1> SUFFICES ASSUME Inv, [Next]_vars PROVE Inv'
  OBVIOUS
<1> USE DEF daemon, battery, engine
<1>1. TypeOK' /\ QueueInv'
  BY TypeStep, QueueStep DEF Inv
<1> SUFFICES Settled'
  BY <1>1 DEF Inv
<1>2. CASE UNCHANGED <<serving, backlog, load, wire, undisturbed, run>>
  BY <1>2, SettledFrame DEF Inv
<1>3. CASE Daemon
  BY <1>2, <1>3, AcceptSettled, HandleSettled, CrashSettled DEF Daemon, Physics, Restart
<1>4. CASE Loop
  BY <1>2, <1>4, ConnectSettled DEF Loop, NoConnection, WakeUp, EndOfFile, ReadFrame
<1>5. CASE Users
  <2>1. CASE PostCommand
    <3>1. CASE undisturbed' = FALSE
      BY <3>1 DEF Settled
    <3>2. CASE Send("RESET", 0) /\ UNCHANGED undisturbed
      BY <2>1, <3>2, CommandSettled DEF PostCommand
    <3> QED BY <2>1, <3>1, <3>2 DEF PostCommand
  <2>2. CASE InjectCommand
    <3>1. CASE undisturbed' = FALSE
      BY <3>1 DEF Settled
    <3>2. CASE Send("SET_FAULT", 0) /\ UNCHANGED undisturbed
      BY <2>2, <3>2, CommandSettled DEF InjectCommand
    <3> QED BY <2>2, <3>1, <3>2 DEF InjectCommand
  <2>3. CASE SensorDropout
    BY <1>2, <2>3 DEF SensorDropout
  <2>4. CASE Stop
    <3>1. undisturbed' => undisturbed /\ \A i \in Ids : run[i] = 0
      BY <2>4, Zenon DEF Stop
    <3>2. UNCHANGED <<serving, backlog, load, wire>>
      BY <2>4 DEF Stop
    <3>3. ASSUME ~undisturbed' PROVE Settled'
      BY <3>3 DEF Settled
    <3>4. ASSUME undisturbed' PROVE Settled'
      BY <3>1, <3>2, <3>4, SettledFrame DEF Inv
    <3> QED BY <3>3, <3>4
  <2>5. ASSUME NEW i \in Ids, StartRun(i) PROVE Settled'
    <3>1. run'[i] = 1
      BY <2>5 DEF StartRun, Inv, TypeOK
    <3> QED BY <3>1 DEF Settled
  <2> QED BY <1>5, <2>1, <2>2, <2>3, <2>4, <2>5 DEF Users
<1>6. ASSUME NEW i \in Ids, StepRun(i) PROVE Settled'
  <2>1. run'[i] = run[i] + 1 /\ run[i] \in Nat
    BY <1>6 DEF StepRun, Inv, TypeOK
  <2> QED BY <2>1 DEF Settled
<1>7. CASE Runs
  BY <1>6, <1>7, UnloadSettled DEF Runs, PassRun, FailRun
<1> QED BY <1>2, <1>3, <1>4, <1>5, <1>7 DEF Next, vars

\* Whatever overlaps, fails or crashes, once every sequence is over and every
\* command read the pack carries no load, unless an operator set a current or
\* the last command found no connection (SequenceEngine._run, TelemetryServer).
THEOREM LoadEndsWithTheRuns == Spec => []EndsUnloaded
<1>1. Inv => EndsUnloaded
  <2> SUFFICES ASSUME Inv, undisturbed, \A i \in Ids : run[i] = 0, \A c \in Alive : wire[c] = <<>>
               PROVE  load = 0
    BY DEF EndsUnloaded
  <2>1. Calm
    BY DEF Inv, Settled, Stuck
  <2>2. CASE First # None
    <3>1. wire[First] = <<>> /\ DOMAIN wire[First] = {}
      BY <2>2, FirstIsAlive DEF Inv
    <3> QED BY <2>1, <2>2, <3>1 DEF Calm, Quiet
  <2> QED BY <2>1, <2>2 DEF Calm
<1> QED BY <1>1, InvInit, InvStep, PTL DEF Spec
=============================================================================
