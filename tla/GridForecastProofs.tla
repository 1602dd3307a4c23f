------------------------- MODULE GridForecastProofs -------------------------
(***************************************************************************)
(* Proofs about GridForecast, for any number of nodes and workers, any      *)
(* window and any readings.                                                *)
(***************************************************************************)
EXTENDS GridForecast, SequenceTheorems, Induction

InCycle == {"next", "get", "flush"}

\* Rows and drafts belong to a transaction that is open.
LockInv ==
  \A w \in Workers : pc[w] \notin InCycle => draft[w] = Nothing /\ \A n \in Nodes : lock[n] # w

\* What a worker carries was due for the node it carries it to.
DueInv ==
  /\ \A n \in Nodes : forecast[n] \in current[n] \union {None}
  /\ \A n \in Nodes : LastSma(readings[n]) \in current[n]
  /\ \A w \in Workers, n \in Nodes : draft[w][n] \in current[n] \union {None}
  /\ \A w \in Workers :
       pc[w] \in {"get", "flush"} => node[w] \in Nodes /\ sma[w] \in current[node[w]]

Inv == TypeOK /\ LockInv /\ DueInv

-----------------------------------------------------------------------------

\* The tables and the workers start within their types, nothing locked and
\* nothing stored (Init, db/models.py).
LEMMA InitInv == Init => Inv
  BY GridAssumption DEF GridAssumption, Init, Inv, TypeOK, LockInv, DueInv, InCycle, Nothing

\* A reading keeps what was due before and adds what is due now
\* (reading_service.py:22-43).
LEMMA IngestInv ==
  ASSUME Inv, NEW n \in Nodes, NEW kwh \in Kwh, Ingest(n, kwh)
  PROVE  Inv'
<1> USE GridAssumption DEF GridAssumption
<1>1. PICK i \in 1..(Len(readings[n]) + 1) :
        readings' = [readings EXCEPT ![n] = InsertAt(@, i, kwh)]
  BY DEF Ingest
<1>2. InsertAt(readings[n], i, kwh) \in Seq(Kwh)
  <2>1. readings[n] \in Seq(Kwh)
    BY DEF Inv, TypeOK
  <2> QED
    BY <2>1 DEF InsertAt
<1>3. TypeOK'
  BY <1>1, <1>2 DEF Inv, TypeOK, Ingest, local
<1>4. LockInv'
  BY DEF Inv, LockInv, Ingest, local, InCycle, Nothing
<1>5. DueInv'
  BY <1>1 DEF Inv, TypeOK, DueInv, Ingest, local
<1> QED
  BY <1>3, <1>4, <1>5 DEF Inv

\* A session that ends, whatever ends it, leaves its worker without rows and
\* without a draft, and takes none from another (CloseSession).
LEMMA CloseInv ==
  ASSUME Inv, NEW w \in Workers, CloseSession(w), NEW place \in {"retry", "wait", "done"},
         GoTo(w, place), readings' = readings, current' = current, failures' \in 0..MaxFailures,
         stopping' = stopping, DOMAIN forecast' = Nodes,
         \A n \in Nodes : forecast'[n] \in current[n] \union {None}
  PROVE  Inv'
<1> USE GridAssumption DEF GridAssumption
<1>1. TypeOK'
  BY DEF Inv, TypeOK, CloseSession, ForgetNode, GoTo, Nothing
<1>2. LockInv'
  <2> SUFFICES ASSUME NEW v \in Workers, pc'[v] \notin InCycle
               PROVE  draft'[v] = Nothing' /\ \A n \in Nodes : lock'[n] # v
    BY DEF LockInv
  <2>1. draft'[v] = Nothing' /\ (v # w => pc[v] \notin InCycle)
    BY DEF Inv, TypeOK, LockInv, CloseSession, GoTo, Nothing
  <2>2. ASSUME NEW n \in Nodes PROVE lock'[n] # v
    <3>1. lock'[n] \in Heirs(w, n)
      BY DEF CloseSession
    <3>2. CASE lock[n] # w
      BY <2>1, <3>1, <3>2 DEF Heirs, Inv, LockInv
    <3>3. CASE lock[n] = w
      <4>1. lock'[n] = None \/ lock'[n] \in Waiting(n)
        BY <3>1, <3>3 DEF Heirs
      <4>2. \A u \in Waiting(n) : u # w /\ pc[u] = "flush"
        BY <3>3 DEF Waiting
      <4> QED
        BY <2>1, <4>1, <4>2 DEF InCycle
    <3> QED
      BY <3>2, <3>3
  <2> QED
    BY <2>1, <2>2
<1>3. DueInv'
  BY DEF Inv, TypeOK, DueInv, CloseSession, ForgetNode, GoTo, Nothing
<1> QED
  BY <1>1, <1>2, <1>3 DEF Inv

\* The turns of the loop that keep the session open or open it
\* (forecaster.py:84-108).
LEMMA LoopInv ==
  ASSUME Inv, NEW w \in Workers, Cycle(w) \/ TakeNode(w) \/ Get(w) \/ Flush(w)
  PROVE  Inv'
<1> USE GridAssumption DEF GridAssumption
<1>1. CASE Cycle(w)
  BY <1>1 DEF Inv, TypeOK, LockInv, DueInv, Cycle, GoTo, tables, InCycle, Nothing
<1>2. CASE TakeNode(w)
  <2>1. PICK n \in todo[w] :
          IF Len(readings[n]) < K
          THEN UNCHANGED <<pc, node, sma>>
          ELSE /\ node' = [node EXCEPT ![w] = n]
               /\ sma' = [sma EXCEPT ![w] = LastSma(readings[n])]
               /\ GoTo(w, "get")
    BY <1>2 DEF TakeNode
  <2>2. n \in Nodes /\ pc[w] = "next"
    BY <1>2 DEF TakeNode, Inv, TypeOK
  <2>3. /\ todo' \in [Workers -> SUBSET Nodes]
        /\ UNCHANGED <<tables, lock, seen, draft, stopping, failures>>
    BY <1>2 DEF TakeNode, Inv, TypeOK
  <2>4. CASE Len(readings[n]) < K
    BY <2>1, <2>3, <2>4 DEF Inv, TypeOK, LockInv, DueInv, tables, Nothing
  <2>5. CASE ~(Len(readings[n]) < K)
    <3>1. /\ node' = [node EXCEPT ![w] = n]
          /\ sma' = [sma EXCEPT ![w] = LastSma(readings[n])]
          /\ pc' = [pc EXCEPT ![w] = "get"]
      BY <2>1, <2>5 DEF GoTo
    <3>2. TypeOK'
      BY <2>2, <2>3, <3>1 DEF Inv, TypeOK, tables
    <3>3. LockInv'
      BY <2>2, <2>3, <3>1 DEF Inv, TypeOK, LockInv, tables, InCycle, Nothing
    <3>4. DueInv'
      BY <2>2, <2>3, <3>1 DEF Inv, TypeOK, DueInv, tables
    <3> QED
      BY <3>2, <3>3, <3>4 DEF Inv
  <2> QED
    BY <2>4, <2>5
<1>3. CASE Get(w)
  BY <1>3 DEF Inv, TypeOK, LockInv, DueInv, Get, GoTo, tables, InCycle, Nothing
<1>4. CASE Flush(w)
  BY <1>4 DEF Inv, TypeOK, LockInv, DueInv, Flush, Blocked, ForgetNode, GoTo, tables, InCycle, Nothing
<1> QED
  BY <1>1, <1>2, <1>3, <1>4

\* Commit writes drafts, each due for its node (forecaster.py:109).
LEMMA CommitInv ==
  ASSUME Inv, NEW w \in Workers, Commit(w)
  PROVE  Inv'
<1>1. /\ CloseSession(w) /\ GoTo(w, "wait")
      /\ readings' = readings /\ current' = current /\ stopping' = stopping
      /\ failures' \in 0..MaxFailures
  BY DEF Commit, Inv, TypeOK
<1>2. /\ DOMAIN forecast' = Nodes
      /\ \A n \in Nodes : forecast'[n] \in current[n] \union {None}
  BY DEF Commit, Inv, DueInv
<1> QED
  BY <1>1, <1>2, CloseInv

\* A cycle that ends early leaves the tables alone.
LEMMA AbortInv ==
  ASSUME Inv, NEW w \in Workers, Conflict(w) \/ Deadlocked(w) \/ Fail(w) \/ Cancel(w)
  PROVE  Inv'
<1>1. /\ CloseSession(w) /\ (GoTo(w, "retry") \/ GoTo(w, "done"))
      /\ readings' = readings /\ current' = current /\ stopping' = stopping
      /\ forecast' = forecast /\ failures' \in 0..MaxFailures
  BY GridAssumption DEF GridAssumption, Conflict, Deadlocked, Fail, Cancel, tables, Inv, TypeOK
<1>2. /\ DOMAIN forecast' = Nodes
      /\ \A n \in Nodes : forecast'[n] \in current[n] \union {None}
  BY <1>1 DEF Inv, TypeOK, DueInv
<1> QED
  BY <1>1, <1>2, CloseInv

\* Steps that touch only the loop's place or the stop event.
LEMMA QuietInv ==
  ASSUME Inv, NEW w \in Workers, LeaveLoop(w) \/ Wake(w) \/ Stop(w)
  PROVE  Inv'
<1>1. CASE LeaveLoop(w)
  BY <1>1 DEF Inv, TypeOK, LockInv, DueInv, LeaveLoop, GoTo, tables, local, InCycle, Nothing
<1>2. CASE Wake(w)
  BY <1>2 DEF Inv, TypeOK, LockInv, DueInv, Wake, GoTo, tables, local, InCycle, Nothing
<1>3. CASE Stop(w)
  BY <1>3 DEF Inv, TypeOK, LockInv, DueInv, Stop, GoTo, tables, local, InCycle, Nothing
<1> QED
  BY <1>1, <1>2, <1>3

LEMMA StepInv == Inv /\ [Next]_vars => Inv'
<1> SUFFICES ASSUME Inv, [Next]_vars PROVE Inv'
  OBVIOUS
<1>1. ASSUME NEW n \in Nodes, NEW kwh \in Kwh, Ingest(n, kwh) PROVE Inv'
  BY <1>1, IngestInv
<1>2. ASSUME NEW w \in Workers, Run(w) \/ Fail(w) \/ Stop(w) \/ Cancel(w) PROVE Inv'
  BY <1>2, LoopInv, CommitInv, AbortInv, QuietInv DEF Run
<1>3. CASE UNCHANGED vars
  BY <1>3 DEF vars, local, Inv, TypeOK, LockInv, DueInv, InCycle, Nothing
<1> QED
  BY <1>1, <1>2, <1>3 DEF Next

-----------------------------------------------------------------------------
(* compute_sma().  Its sums are running totals, and a sum of a part is the   *)
(* difference of two of them, which is what the sliding window maintains.   *)

\* Sums is the running total of a series.
LEMMA SumsAre ==
  ASSUME NEW s \in Seq(Int)
  PROVE  /\ Sums(s) \in [0 .. Len(s) -> Int] /\ Sums(s)[0] = 0
         /\ \A i \in 1 .. Len(s) : Sums(s)[i] = Sums(s)[i - 1] + s[i]
<1>1. Len(s) \in Nat /\ \A i \in 0 + 1 .. Len(s) : s[i] \in Int
  OBVIOUS
<1>2. PICK g : Totals(g, 0, Len(s), 0, s)
  BY <1>1, TotalsExist
<1> DEFINE Is(f) == f = [i \in 0 .. Len(s) |-> IF i = 0 THEN 0 ELSE f[i - 1] + s[i]]
<1>3. Is(g)
  <2>1. g = [i \in 0 .. Len(s) |-> g[i]] /\ g[0] = 0
    BY <1>2 DEF Totals
  <2>2. ASSUME NEW i \in 0 .. Len(s), i # 0 PROVE g[i] = g[i - 1] + s[i]
    <3>1. i \in 0 + 1 .. Len(s)
      BY <1>1, <2>2
    <3> QED BY <1>2, <3>1 DEF Totals
  <2> QED BY <2>1, <2>2
<1>4. Is(Sums(s))
  <2>1. Sums(s) = CHOOSE f : Is(f)
    BY DEF Sums
  <2> HIDE DEF Is
  <2> QED BY <1>3, <2>1
<1>5. Totals(Sums(s), 0, Len(s), 0, s)
  <2>1. ASSUME NEW w, Is(w) PROVE Totals(w, 0, Len(s), 0, s)
    <3>1. w = [i \in 0 .. Len(s) |-> w[i]] /\ w[0] = 0
      BY <1>1, <2>1
    <3>2. \A i \in 0 + 1 .. Len(s) : i \in 0 .. Len(s) /\ i # 0
      BY <1>1
    <3> QED BY <2>1, <3>1, <3>2 DEF Totals
  <2> HIDE DEF Is
  <2> QED BY <1>4, <2>1
<1> HIDE DEF Is
<1>6. Sums(s) \in [0 .. Len(s) -> Int]
  BY <1>1, <1>5, TotalsType
<1>7. \A i \in 1 .. Len(s) : i \in 0 + 1 .. Len(s)
  BY <1>1
<1> QED BY <1>5, <1>6, <1>7 DEF Totals

\* The entries of a part of a series.
LEMMA PartOf ==
  ASSUME NEW s \in Seq(Int), NEW a \in Nat, NEW b \in Nat, a <= b, b <= Len(s)
  PROVE  LET u == SubSeq(s, a + 1, b)
         IN  u \in Seq(Int) /\ Len(u) = b - a /\ \A i \in 1 .. b - a : u[i] = s[a + i]
  OBVIOUS

\* The sum of a part of a series is the difference of two running totals.
LEMMA SumOfPart ==
  ASSUME NEW s \in Seq(Int), NEW a \in Nat, NEW b \in Nat, a <= b, b <= Len(s)
  PROVE  Sum(SubSeq(s, a + 1, b)) = Sums(s)[b] - Sums(s)[a]
<1> DEFINE u == SubSeq(s, a + 1, b)
           n == b - a
<1>1. u \in Seq(Int) /\ Len(u) = n /\ n \in Nat /\ \A i \in 1 .. n : u[i] = s[a + i]
  <2>1. /\ SubSeq(s, a + 1, b) \in Seq(Int) /\ Len(SubSeq(s, a + 1, b)) = b - a
        /\ \A i \in 1 .. b - a : SubSeq(s, a + 1, b)[i] = s[a + i]
    BY PartOf
  <2>2. b - a \in Nat
    OBVIOUS
  <2> QED BY <2>1, <2>2
<1> HIDE DEF u
<1>2. /\ Sums(u) \in [0 .. n -> Int] /\ Sums(u)[0] = 0
      /\ \A i \in 1 .. n : Sums(u)[i] = Sums(u)[i - 1] + u[i]
  BY <1>1, SumsAre
<1>3. /\ Sums(s) \in [0 .. Len(s) -> Int]
      /\ \A i \in 1 .. Len(s) : Sums(s)[i] = Sums(s)[i - 1] + s[i]
  BY SumsAre
<1>5. \A k \in 0 .. n : a + k \in 0 .. Len(s) /\ Sums(s)[a + k] \in Int /\ Sums(s)[a] \in Int
  <2>1. \A k \in 0 .. n : a + k \in 0 .. Len(s)
    BY <1>1
  <2>2. a \in 0 .. Len(s)
    OBVIOUS
  <2> HIDE DEF n
  <2> QED BY <1>3, <2>1, <2>2
<1> DEFINE T == {k \in 0 .. n : Sums(u)[k] # Sums(s)[a + k] - Sums(s)[a]}
<1>4. ASSUME T # {} PROVE FALSE
  <2>1. PICK k \in T : \A m \in T : k <= m
    <3>1. T \in SUBSET Nat
      BY <1>1
    <3> HIDE DEF T
    <3> QED BY <1>4, <3>1, Least
  <2>2. k \in 1 .. n
    <3>1. 0 \in 0 .. n /\ a + 0 = a
      BY <1>1
    <3>2. Sums(u)[0] = 0 /\ Sums(s)[a] \in Int
      BY <1>2, <1>5, <3>1
    <3>3. 0 \notin T
      BY <3>1, <3>2
    <3>4. k \in 0 .. n
      OBVIOUS
    <3> HIDE DEF T, n
    <3>5. k # 0
      BY <3>3
    <3> QED BY <1>1, <3>4, <3>5
  <2>3. k - 1 \in 0 .. n /\ k - 1 \notin T
    BY <1>1, <2>1, <2>2
  <2>4. Sums(u)[k - 1] = Sums(s)[a + k - 1] - Sums(s)[a]
    BY <1>1, <2>3
  <2>5. a + k \in 1 .. Len(s) /\ a + k - 1 = a + (k - 1)
    BY <1>1, <2>2
  <2>6. Sums(s)[a + k] = Sums(s)[a + k - 1] + s[a + k] /\ s[a + k] \in Int
    <3>1. PICK i \in 1 .. Len(s) : i = a + k
      BY <2>5
    <3>2. Sums(s)[i] = Sums(s)[i - 1] + s[i] /\ s[i] \in Int
      BY <1>3
    <3> QED BY <3>1, <3>2
  <2>7. Sums(u)[k] = Sums(u)[k - 1] + s[a + k]
    BY <1>1, <1>2, <2>2
  <2>8. Sums(s)[a + k - 1] \in Int /\ Sums(s)[a] \in Int
    <3> HIDE DEF T, n
    <3> QED BY <1>5, <2>3, <2>5
  <2>9. Sums(u)[k] # Sums(s)[a + k] - Sums(s)[a]
    OBVIOUS
  <2> HIDE DEF T, n
  <2> QED BY <2>4, <2>6, <2>7, <2>8, <2>9
<1>6. Sums(u)[n] = Sums(s)[a + n] - Sums(s)[a]
  <2>1. n \in 0 .. n
    BY <1>1
  <2> QED BY <1>4, <2>1
<1>7. a + n = b
  OBVIOUS
<1> QED BY <1>1, <1>6, <1>7 DEF Sum, u

\* Each place of the sliding window holds the sum of the last K readings before
\* it, although the code only adds and drops one at a time.
LEMMA WindowIsSum ==
  ASSUME NEW s \in Seq(Int), K \in Nat \ {0}, K <= Len(s)
  PROVE  \A i \in K .. Len(s) : Window(s)[i] = Sums(s)[i] - Sums(s)[i - K]
<1> DEFINE b == Sum(SubSeq(s, 1, K))
           d == [i \in K + 1 .. Len(s) |-> s[i] - s[i - K]]
           Is(f) == f = [i \in K .. Len(s) |-> IF i = K THEN b ELSE f[i - 1] + s[i] - s[i - K]]
<1>1. /\ Sums(s) \in [0 .. Len(s) -> Int] /\ Sums(s)[0] = 0
      /\ \A i \in 1 .. Len(s) : Sums(s)[i] = Sums(s)[i - 1] + s[i]
  BY SumsAre
<1>2. b = Sums(s)[K] - Sums(s)[0] /\ b \in Int
  <2>1. Sum(SubSeq(s, 0 + 1, K)) = Sums(s)[K] - Sums(s)[0]
    BY SumOfPart
  <2>2. b = Sums(s)[K] - Sums(s)[0]
    <3>1. 0 + 1 = 1
      OBVIOUS
    <3> QED BY <2>1, <3>1
  <2>3. K \in 0 .. Len(s) /\ 0 \in 0 .. Len(s)
    OBVIOUS
  <2> HIDE DEF b
  <2> QED BY <1>1, <2>2, <2>3
<1>3. /\ Len(s) \in Nat /\ K \in Nat
      /\ \A i \in 1 .. Len(s) : s[i] \in Int
      /\ \A i \in K + 1 .. Len(s) : d[i] = s[i] - s[i - K] /\ d[i] \in Int /\ s[i] \in Int /\ s[i - K] \in Int
  OBVIOUS
<1> HIDE DEF b, d
<1>4. PICK g : Totals(g, K, Len(s), b, d)
  BY <1>2, <1>3, TotalsExist
<1>5. Is(g)
  <2>1. g \in [K .. Len(s) -> Int]
    BY <1>2, <1>3, <1>4, TotalsType
  <2>2. ASSUME NEW i \in K + 1 .. Len(s) PROVE g[i] = g[i - 1] + s[i] - s[i - K]
    <3>1. g[i] = g[i - 1] + d[i]
      BY <1>4 DEF Totals
    <3>2. i - 1 \in K .. Len(s)
      BY <1>3
    <3>3. g[i - 1] \in Int /\ d[i] = s[i] - s[i - K] /\ s[i] \in Int /\ s[i - K] \in Int
      BY <1>3, <2>1, <3>2
    <3> QED BY <3>1, <3>3
  <2>3. g = [i \in K .. Len(s) |-> g[i]] /\ g[K] = b
    BY <1>4 DEF Totals
  <2>4. \A i \in K .. Len(s) : i = K \/ i \in K + 1 .. Len(s)
    BY <1>3
  <2> QED BY <2>2, <2>3, <2>4
<1>6. Is(Window(s))
  <2>1. Window(s) = CHOOSE f : Is(f)
    BY DEF Window, b
  <2> HIDE DEF Is
  <2> QED BY <1>5, <2>1
<1>7. ASSUME NEW w, Is(w)
      PROVE  /\ w[K] = b
             /\ \A i \in K + 1 .. Len(s) : w[i] = w[i - 1] + s[i] - s[i - K]
  <2>1. K \in K .. Len(s)
    BY <1>3
  <2>2. \A i \in K + 1 .. Len(s) : i \in K .. Len(s) /\ i # K
    BY <1>3
  <2> QED BY <1>7, <2>1, <2>2
<1>a. /\ Window(s)[K] = b
      /\ \A i \in K + 1 .. Len(s) : Window(s)[i] = Window(s)[i - 1] + s[i] - s[i - K]
  <2> HIDE DEF Is
  <2> QED BY <1>6, <1>7
<1> HIDE DEF Is
<1> DEFINE T == {i \in K .. Len(s) : Window(s)[i] # Sums(s)[i] - Sums(s)[i - K]}
<1>8. ASSUME T # {} PROVE FALSE
  <2>1. PICK k \in T : \A m \in T : k <= m
    <3>1. T \in SUBSET Nat
      BY <1>3
    <3> HIDE DEF T
    <3> QED BY <1>8, <3>1, Least
  <2>2. k \in K + 1 .. Len(s)
    <3>1. k \in K .. Len(s) /\ K - K = 0
      BY <1>3
    <3>2. k # K
      BY <1>2, <1>a, <3>1
    <3> QED BY <1>3, <3>1, <3>2
  <2>3. k - 1 \in K .. Len(s) /\ k - 1 \notin T
    BY <1>3, <2>1, <2>2
  <2>4. Window(s)[k - 1] = Sums(s)[k - 1] - Sums(s)[k - 1 - K]
    BY <2>3
  <2>5. /\ Sums(s)[k] = Sums(s)[k - 1] + s[k] /\ Sums(s)[k - K] = Sums(s)[k - K - 1] + s[k - K]
        /\ Sums(s)[k - 1] \in Int /\ Sums(s)[k - K - 1] \in Int /\ k - K - 1 = k - 1 - K
        /\ s[k] \in Int /\ s[k - K] \in Int
    <3>1. /\ k \in 1 .. Len(s) /\ k - K \in 1 .. Len(s) /\ k - 1 \in 0 .. Len(s)
          /\ k - K - 1 \in 0 .. Len(s) /\ k - K - 1 = k - 1 - K
      BY <1>3, <2>2
    <3> HIDE DEF T
    <3> QED BY <1>1, <1>3, <3>1
  <2>6. Window(s)[k] = Window(s)[k - 1] + s[k] - s[k - K]
    BY <1>a, <2>2
  <2>7. Window(s)[k] # Sums(s)[k] - Sums(s)[k - K]
    OBVIOUS
  <2> HIDE DEF T
  <2> QED BY <2>4, <2>5, <2>6, <2>7, SMTT(30)
<1> QED BY <1>8

\* The last m entries of a series.
LEMMA LastEntries ==
  ASSUME NEW s \in Seq(Int), NEW n \in Nat, n = Len(s), NEW m \in Nat, m <= n
  PROVE  LET u == SubSeq(s, n - m + 1, n)
         IN  u \in Seq(Int) /\ Len(u) = m /\ u = [i \in 1 .. m |-> s[n - m + i]]
<1> DEFINE u == SubSeq(s, n - m + 1, n)
<1>1. u \in Seq(Int) /\ Len(u) = m /\ \A i \in 1 .. m : u[i] = s[n - m + i]
  <2>1. PICK a \in Nat : a = n - m /\ m = n - a /\ a <= n
    <3>1. n - m \in Nat /\ m = n - (n - m) /\ n - m <= n
      OBVIOUS
    <3> QED BY <3>1
  <2> HIDE DEF u
  <2>2. /\ SubSeq(s, a + 1, n) \in Seq(Int) /\ Len(SubSeq(s, a + 1, n)) = n - a
        /\ \A i \in 1 .. n - a : SubSeq(s, a + 1, n)[i] = s[a + i]
    BY <2>1, PartOf
  <2>3. u = SubSeq(s, a + 1, n)
    BY <2>1 DEF u
  <2> QED BY <2>1, <2>2, <2>3
<1> HIDE DEF u
<1>2. u = [i \in 1 .. m |-> s[n - m + i]]
  BY <1>1
<1> QED BY <1>1, <1>2 DEF u

\* The service fetches the last 4K readings at most, which changes nothing: the
\* last K of them are the last K of the series (reading_service.get_recent).
LEMMA LastSmaIsSum ==
  ASSUME NEW s \in Seq(Nat), K \in Nat \ {0}, K <= Len(s)
  PROVE  LastSma(s) = Sum(SubSeq(s, Len(s) - K + 1, Len(s)))
<1> DEFINE r == Recent(s)
           c == Len(s) - Len(r)
<1>1. /\ r \in Seq(Int) /\ Len(r) \in Nat /\ K <= Len(r) /\ Len(r) <= Len(s)
      /\ \A i \in 1 .. Len(r) : r[i] = s[c + i]
  <2>1. CASE Len(s) <= 4 * K
    BY <2>1 DEF Recent
  <2>2. CASE ~ (Len(s) <= 4 * K)
    <3> DEFINE n == Len(s)
               m == 4 * K
    <3>1. m \in Nat /\ n \in Nat /\ m <= n /\ s \in Seq(Int) /\ K <= m
      BY <2>2
    <3>2. r = SubSeq(s, n - m + 1, n)
      BY <2>2 DEF Recent
    <3>3. r \in Seq(Int) /\ Len(r) = m /\ r = [i \in 1 .. m |-> s[n - m + i]]
      <4> HIDE DEF m, r
      <4> QED BY <3>1, <3>2, LastEntries
    <3> HIDE DEF m, r
    <3> QED BY <3>1, <3>3
  <2> QED BY <2>1, <2>2
<1> HIDE DEF r
<1>2. LastSma(s) = Sums(r)[Len(r)] - Sums(r)[Len(r) - K]
  <2>1. Len(r) \in K .. Len(r) /\ ~ (Len(s) < K)
    BY <1>1
  <2> QED BY <1>1, <2>1, WindowIsSum DEF LastSma, r
<1>3. Sum(SubSeq(r, Len(r) - K + 1, Len(r))) = Sums(r)[Len(r)] - Sums(r)[Len(r) - K]
  <2>1. Len(r) - K \in Nat /\ Len(r) - K <= Len(r)
    BY <1>1
  <2> QED BY <1>1, <2>1, SumOfPart
<1>4. SubSeq(r, Len(r) - K + 1, Len(r)) = SubSeq(s, Len(s) - K + 1, Len(s))
  <2> DEFINE u == SubSeq(r, Len(r) - K + 1, Len(r))
             v == SubSeq(s, Len(s) - K + 1, Len(s))
  <2>1. u = [i \in 1 .. K |-> r[Len(r) - K + i]]
    BY <1>1, LastEntries
  <2>2. v = [i \in 1 .. K |-> s[Len(s) - K + i]]
    <3>1. s \in Seq(Int) /\ Len(s) \in Nat
      OBVIOUS
    <3> QED BY <3>1, LastEntries
  <2>3. ASSUME NEW i \in 1 .. K PROVE r[Len(r) - K + i] = s[Len(s) - K + i]
    <3>1. Len(r) - K + i \in 1 .. Len(r) /\ c + (Len(r) - K + i) = Len(s) - K + i
      BY <1>1
    <3> QED BY <1>1, <3>1
  <2> HIDE DEF c
  <2> QED BY <2>1, <2>2, <2>3
<1> QED BY <1>2, <1>3, <1>4

-----------------------------------------------------------------------------

\* The invariant from which the theorems below follow.
THEOREM Invariant == Spec => []Inv
  BY InitInv, StepInv, PTL DEF Spec

\* Tables and workers keep their types (db/models.py, forecaster.py:58-62).
THEOREM TypeCorrect == Spec => []TypeOK
<1>1. Inv => TypeOK
  BY DEF Inv
<1> QED
  BY <1>1, Invariant, PTL

\* No worker sleeps on a locked row (forecaster.py:87, 118-129).
THEOREM Unlocked == Spec => []SleepsUnlocked
<1>1. Inv => SleepsUnlocked
  BY DEF Inv, LockInv, SleepsUnlocked, InCycle
<1> QED
  BY <1>1, Invariant, PTL

\* A stored forecast was the average of its own node at some moment
\* (forecaster.py:95-102, reading_service.py:85-103).
THEOREM WasDue == Spec => []ForecastWasDue
<1>1. Inv => ForecastWasDue
  BY DEF Inv, DueInv, ForecastWasDue
<1> QED
  BY <1>1, Invariant, PTL

\* The O(n) sliding window of compute_sma() ends at the sum of the last K
\* readings of the node, for any window and any series, although it is computed
\* from 4K readings at most and by adding one and dropping one
\* (forecaster.py:28-39, reading_service.py:85-103).
THEOREM SmaCorrect == Spec => []SmaIsTheMean
<1>1. Inv => SmaIsTheMean
  <2> SUFFICES ASSUME Inv, NEW n \in Nodes, Len(readings[n]) >= K
               PROVE  LastSma(readings[n]) =
                        Sum(SubSeq(readings[n], Len(readings[n]) - K + 1, Len(readings[n])))
    BY DEF SmaIsTheMean
  <2>1. readings[n] \in Seq(Nat) /\ K \in Nat \ {0}
    <3>1. readings[n] \in Seq(Kwh) /\ Kwh \subseteq Nat /\ K \in Nat \ {0}
      BY GridAssumption DEF Inv, TypeOK
    <3> QED BY <3>1, SeqMonotonic
  <2>2. K <= Len(readings[n])
    BY <2>1
  <2> QED BY <2>1, <2>2, LastSmaIsSum
<1> QED BY <1>1, Invariant, PTL
=============================================================================
