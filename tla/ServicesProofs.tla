----------------------------- MODULE ServicesProofs -----------------------------
(***************************************************************************)
(* Theorems about the services that keep to themselves: each on its own,   *)
(* for any values of its constants, and at the end their composition.      *)
(***************************************************************************)
EXTENDS MCServices, SequenceTheorems, Induction

-----------------------------------------------------------------------------
(* EventArchive: the key of an object.  The invariant follows the one key a task
   forms from its local variable to the bucket and to the row. *)

\* The types the argument needs; the walk of a client plays no part in it.
ArchiveTyped ==
  /\ stored \subseteq Events /\ objects \subseteq Keys /\ today \in 1 .. MaxDay
  /\ rowKey \in [Events -> Keys \union {NoKey}] /\ key \in [Events -> Keys \union {NoKey}]
  /\ request \in [Events -> {"new", "open", "closed"}]
  /\ task \in [Events -> {"none", "ready", "put", "update", "commit", "ended"}]

\* A key that is in its task's hands.
KeyFormed(e) == key[e] \in Keys /\ key[e].event = e /\ key[e].plant = Plant[e]

NoObject(e) == \A o \in objects : o.event # e

EventInv(e) ==
  /\ request[e] = "new" => task[e] = "none"
  /\ task[e] # "none" => e \in stored
  /\ task[e] # "ended" => rowKey[e] = NoKey
  /\ task[e] \in {"none", "ready", "put"} => NoObject(e)
  /\ task[e] \in {"put", "update", "commit"} => KeyFormed(e)
  /\ task[e] \in {"update", "commit"} =>
       key[e] \in objects /\ \A o \in objects : o.event = e => o = key[e]

ArchiveInv == ArchiveTyped /\ KeyNamesObject /\ \A e \in Events : EventInv(e)

\* The key a task forms for its event is one of the bucket's.
LEMMA KeyOfIsKey ==
  ASSUME NEW e \in Events, NEW day \in 1 .. MaxDay
  PROVE  KeyOf(e, day) \in Keys /\ KeyOf(e, day).event = e /\ KeyOf(e, day).plant = Plant[e]
<1>1. Plant[e] \in Range(Plant)
  BY EventArchiveAssumption DEF Range
<1> QED BY <1>1 DEF KeyOf, Keys

LEMMA ArchiveInitInv == ArchiveInit => ArchiveInv
<1> SUFFICES ASSUME ArchiveInit PROVE ArchiveInv
  OBVIOUS
<1>1. \A e \in Events : KeyOf(e, 1) \in Keys /\ KeyOf(e, 1).event = e /\ KeyOf(e, 1).plant = Plant[e]
  BY KeyOfIsKey, EventArchiveAssumption
<1>2. objects = {KeyOf(e, 1) : e \in Archived} /\ Archived \subseteq Events
  BY EventArchiveAssumption DEF ArchiveInit
<1>3. ArchiveTyped
  BY <1>1, <1>2, EventArchiveAssumption DEF ArchiveInit, ArchiveTyped
<1>4. KeyNamesObject
  <2>1. \A e \in Events : rowKey[e] # NoKey => e \in Archived /\ rowKey[e] = KeyOf(e, 1)
    BY DEF ArchiveInit
  <2>2. stored = Archived
    BY DEF ArchiveInit
  <2>3. \A o \in objects : o = KeyOf(o.event, 1)
    BY <1>1, <1>2
  <2> QED BY <1>1, <1>2, <2>1, <2>2, <2>3 DEF KeyNamesObject
<1>5. \A e \in Events : EventInv(e)
  <2>1. \A e \in Events \ Archived : NoObject(e)
    BY <1>1, <1>2 DEF NoObject
  <2> QED BY <2>1, EventArchiveAssumption DEF ArchiveInit, EventInv
<1> QED BY <1>3, <1>4, <1>5 DEF ArchiveInv

\* An object that a task adds is the only one of its event.
LEMMA UploadKeeps ==
  ASSUME ArchiveInv, NEW e \in Events, task[e] = "put", NEW to \in {"update", "ended"},
         task' = [task EXCEPT ![e] = to],
         objects' \in {objects, objects \union {key[e]}},
         to = "update" => objects' = objects \union {key[e]},
         UNCHANGED <<stored, rowKey, today, key>>,
         request' \in {request, [request EXCEPT ![e] = "closed"]}
  PROVE  ArchiveInv'
<1> USE DEF ArchiveInv, ArchiveTyped, EventInv, NoObject, KeyFormed
<1>1. ArchiveTyped'
  OBVIOUS
<1>2. \A o \in objects' : o.event = e => o = key[e]
  OBVIOUS
<1>3. \A o \in objects' : o.event # e => o \in objects
  OBVIOUS
<1>4. KeyNamesObject'
  <2>1. \A d \in Events : rowKey[d] # NoKey =>
          d \in stored /\ rowKey[d] \in objects' /\ rowKey[d].event = d /\ rowKey[d].plant = Plant[d]
    BY DEF KeyNamesObject
  <2>2. \A o, p \in objects' : o.event = p.event => o = p
    BY <1>2, <1>3 DEF KeyNamesObject
  <2> QED BY <2>1, <2>2 DEF KeyNamesObject
<1>5. EventInv(e)'
  BY <1>2
<1>6. \A d \in Events \ {e} : EventInv(d)'
  BY <1>2, <1>3
<1> QED BY <1>1, <1>4, <1>5, <1>6

LEMMA ArchiveStep == ArchiveInv /\ [ArchiveNext]_archiveVars => ArchiveInv'
<1> SUFFICES ASSUME ArchiveInv, [ArchiveNext]_archiveVars PROVE ArchiveInv'
  OBVIOUS
<1> USE DEF ArchiveInv, ArchiveTyped, EventInv, NoObject, KeyFormed
<1>1. CASE UNCHANGED archiveVars
  BY <1>1 DEF archiveVars, KeyNamesObject
<1>2. ASSUME NEW e \in Events, Create(e) PROVE ArchiveInv'
  BY <1>2 DEF Create, KeyNamesObject
<1>3. ASSUME NEW e \in Events, CloseSession(e) PROVE ArchiveInv'
  BY <1>3 DEF CloseSession, KeyNamesObject
<1>4. ASSUME NEW e \in Events, StartTask(e) PROVE ArchiveInv'
  BY <1>4, KeyOfIsKey DEF StartTask, KeyNamesObject
<1>5. ASSUME NEW e \in Events, PutObject(e) PROVE ArchiveInv'
  BY <1>5, UploadKeeps DEF PutObject
<1>6. ASSUME NEW e \in Events, PutFails(e) PROVE ArchiveInv'
  BY <1>6, UploadKeeps DEF PutFails
<1>7. ASSUME NEW e \in Events, ExecuteUpdate(e) PROVE ArchiveInv'
  BY <1>7 DEF ExecuteUpdate, KeyNamesObject
<1>8. ASSUME NEW e \in Events, CommitKey(e) PROVE ArchiveInv'
  BY <1>8 DEF CommitKey, KeyNamesObject
<1>9. ASSUME NEW e \in Events, CrashOf(e) PROVE ArchiveInv'
  <2>1. CASE task[e] = "put"
    BY <1>9, <2>1, UploadKeeps DEF CrashOf
  <2>2. CASE task[e] # "put"
    BY <1>9, <2>2 DEF CrashOf, KeyNamesObject
  <2> QED BY <2>1, <2>2
<1>10. CASE NextDay
  BY <1>10, EventArchiveAssumption DEF NextDay, KeyNamesObject
<1>11. CASE ListEvents
  <2>1. UNCHANGED <<stored, rowKey, objects, today, request, task, key>>
    BY <1>11, Zenon DEF ListEvents, StartWalk, SelectRows, CountRows
  <2> QED BY <2>1 DEF KeyNamesObject
<1> QED
  BY <1>1, <1>2, <1>3, <1>4, <1>5, <1>6, <1>7, <1>8, <1>9, <1>10, <1>11
  DEF ArchiveNext, Archive

\* A key in a row names the one object of its event, whatever day it is when
\* the task starts and ends and whoever fails in between
\* (_archive_and_update).
THEOREM KeyIsGood == ArchiveSpec => []KeyNamesObject
<1>1. ArchiveInv => KeyNamesObject
  BY DEF ArchiveInv
<1> QED BY <1>1, ArchiveInitInv, ArchiveStep, PTL DEF ArchiveSpec

-----------------------------------------------------------------------------
(* EventArchive: the walk.  What it has not seen has at least as many newer
   events before it as the walk has passed. *)

\* The events that a list shows before e, and how many.
Newer(e) == {o \in Matching(walk.filter) : Stamp[o] > Stamp[e]}
Rank(e) == Cardinality(Newer(e))

Alone(e) == \A o \in stored \ {e} : Stamp[o] # Stamp[e]

WalkTyped ==
  /\ stored \subseteq Events
  /\ walk \in [at : {"start", "rows", "total", "done"}, filter : Filters, offset : Nat,
               page : SUBSET Events, seen : SUBSET Events, base : SUBSET Events]

\* What the walk has not seen is still to come: newer events only push it on.
WalkOn ==
  /\ walk.at = "start" => walk.offset = 0
  /\ walk.at # "start" => walk.base \subseteq Matching(walk.filter)
  /\ \A e \in walk.base : Alone(e) /\ e \notin walk.seen =>
       /\ walk.at = "rows" => Rank(e) >= walk.offset
       /\ walk.at = "total" /\ e \notin walk.page => Rank(e) >= walk.offset + PageLimit
       /\ walk.at # "done"

WalkInv == WalkTyped /\ WalkOn

LEMMA MinOfTwo ==
  \A x, y \in Int : Min({x, y}) \in {x, y} /\ Min({x, y}) <= x /\ Min({x, y}) <= y
<1> SUFFICES ASSUME NEW x \in Int, NEW y \in Int
             PROVE  Min({x, y}) \in {x, y} /\ Min({x, y}) <= x /\ Min({x, y}) <= y
  OBVIOUS
<1>1. \E z \in {x, y} : \A v \in {x, y} : z <= v
  BY DEF Min
<1> QED BY <1>1 DEF Min

\* An event that matches has fewer newer ones than the list counts.
LEMMA RankType ==
  ASSUME WalkTyped, NEW e
  PROVE  /\ IsFiniteSet(Matching(walk.filter)) /\ Cardinality(Matching(walk.filter)) \in Nat
         /\ IsFiniteSet(Newer(e)) /\ Rank(e) \in Nat /\ Rank(e) <= Cardinality(Matching(walk.filter))
         /\ e \in Matching(walk.filter) => Rank(e) < Cardinality(Matching(walk.filter))
<1> DEFINE M == Matching(walk.filter)
<1>1. M \subseteq Events /\ IsFiniteSet(Events)
  BY EventArchiveAssumption DEF WalkTyped, Matching
<1>2. IsFiniteSet(M) /\ Cardinality(M) \in Nat
  BY <1>1, FS_Subset, FS_CardinalityType
<1> HIDE DEF M
<1>3. Newer(e) \subseteq M
  BY DEF Newer, M
<1>4. IsFiniteSet(Newer(e)) /\ Rank(e) \in Nat /\ Rank(e) <= Cardinality(M)
  BY <1>2, <1>3, FS_Subset, FS_CardinalityType DEF Rank
<1>5. ASSUME e \in M PROVE Rank(e) < Cardinality(M)
  <2>1. Stamp[e] \in Nat
    BY <1>1, <1>5, EventArchiveAssumption
  <2>2. e \notin Newer(e)
    BY <2>1 DEF Newer
  <2>3. Newer(e) # M
    BY <1>5, <2>2
  <2>4. Cardinality(Newer(e)) # Cardinality(M)
    BY <1>2, <1>3, <2>3, FS_Subset
  <2> QED BY <1>2, <1>4, <2>4 DEF Rank
<1> QED BY <1>2, <1>4, <1>5 DEF M

\* A page has events of the table.
LEMMA PageTyped ==
  ASSUME WalkTyped, NEW p \in Pages(walk.filter, walk.offset)
  PROVE  p \subseteq Events
<1> DEFINE M == Matching(walk.filter)  n == Cardinality(M)
<1>1. PICK s \in SetToSeqs(M) :
        p = ToSet(SubSeq(s, walk.offset + 1, Min({walk.offset + PageLimit, Len(s)})))
  BY DEF Pages
<1>2. n \in Nat /\ M \subseteq Events
  BY RankType DEF WalkTyped, Matching
<1> HIDE DEF n, M
<1>3. s \in [1 .. n -> M]
  BY <1>1 DEF SetToSeqs, n
<1>4. s \in Seq(M) /\ Len(s) = n
  BY <1>2, <1>3
<1> DEFINE a == walk.offset + 1
           b == Min({walk.offset + PageLimit, Len(s)})
<1>5. walk.offset \in Nat /\ PageLimit \in Nat
  BY EventArchiveAssumption DEF WalkTyped
<1>6. a \in Int /\ a >= 1 /\ b \in Int /\ b <= n
  <2>1. walk.offset + PageLimit \in Int /\ Len(s) \in Int
    BY <1>2, <1>4, <1>5
  <2>2. b \in {walk.offset + PageLimit, Len(s)} /\ b <= Len(s)
    BY <2>1, MinOfTwo
  <2> HIDE DEF b
  <2> QED BY <1>4, <1>5, <2>1, <2>2
<1>7. \A j \in a .. b : s[j] \in M
  BY <1>2, <1>3, <1>6
<1>8. SubSeq(s, a, b) \in Seq(M)
  <2> HIDE DEF a, b
  <2> QED BY <1>6, <1>7, SubSeqProperties
<1> DEFINE u == SubSeq(s, a, b)
<1>9. \A i \in DOMAIN u : u[i] \in M
  <2> HIDE DEF a, b, u
  <2>1. u \in Seq(M)
    BY <1>8 DEF u
  <2> QED BY <2>1
<1> QED BY <1>1, <1>2, <1>9 DEF ToSet

\* A page that starts at or before the place of an event, and does not have
\* it, ends before it.
LEMMA PagePasses ==
  ASSUME WalkTyped, NEW e \in Matching(walk.filter), Alone(e), Rank(e) >= walk.offset,
         NEW p \in Pages(walk.filter, walk.offset), e \notin p
  PROVE  Rank(e) >= walk.offset + PageLimit
<1> DEFINE M == Matching(walk.filter)  n == Cardinality(M)
<1>1. PICK s \in SetToSeqs(M) :
        /\ \A i, j \in DOMAIN s : i < j => Stamp[s[i]] >= Stamp[s[j]]
        /\ p = ToSet(SubSeq(s, walk.offset + 1, Min({walk.offset + PageLimit, Len(s)})))
  BY DEF Pages
<1>2. n \in Nat /\ IsFiniteSet(M) /\ Rank(e) \in Nat
  BY RankType
<1>3. M \subseteq Events /\ M \subseteq stored /\ \A o \in M : Stamp[o] \in Nat
  BY EventArchiveAssumption DEF WalkTyped, Matching
<1> HIDE DEF n, M
<1>4. s \in [1 .. n -> M] /\ \A i, j \in 1 .. n : i # j => s[i] # s[j]
  BY <1>1 DEF SetToSeqs, n
<1>5. \A o \in M : \E i \in 1 .. n : s[i] = o
  <2>1. s \in Injection(1 .. n, M)
    BY <1>4 DEF Injection, IsInjective
  <2>2. Cardinality(1 .. n) = n
    BY <1>2, UpTo
  <2>3. s \in Surjection(1 .. n, M)
    BY <1>2, <2>1, <2>2, FS_Injection DEF n
  <2> QED BY <2>3 DEF Surjection
<1>6. PICK i \in 1 .. n : s[i] = e
  BY <1>5 DEF M
<1>7. Rank(e) = i - 1
  <2>1. Newer(e) = {s[j] : j \in 1 .. i - 1}
    <3>1. ASSUME NEW o \in Newer(e) PROVE \E j \in 1 .. i - 1 : o = s[j]
      <4>1. o \in M /\ Stamp[o] > Stamp[e]
        BY DEF Newer, M
      <4>2. PICK j \in 1 .. n : s[j] = o
        BY <1>5, <4>1
      <4>3. ~(i <= j)
        <5>1. i = j => o = e
          BY <1>6, <4>2
        <5>2. i < j => Stamp[e] >= Stamp[o]
          BY <1>1, <1>4, <1>6, <4>2
        <5>3. Stamp[o] \in Nat /\ Stamp[e] \in Nat
          BY <1>3, <4>1 DEF M
        <5> QED BY <4>1, <5>1, <5>2, <5>3
      <4> QED BY <1>2, <4>2, <4>3
    <3>2. ASSUME NEW j \in 1 .. i - 1 PROVE s[j] \in Newer(e)
      <4>1. j \in 1 .. n /\ j < i /\ j # i
        BY <1>2
      <4>2. s[j] \in M /\ s[j] # e /\ Stamp[s[j]] >= Stamp[e]
        BY <1>1, <1>4, <1>6, <4>1
      <4>3. Stamp[s[j]] # Stamp[e] /\ Stamp[s[j]] \in Nat /\ Stamp[e] \in Nat
        BY <1>3, <4>2 DEF Alone, M
      <4> QED BY <4>2, <4>3 DEF Newer, M
    <3> QED BY <3>1, <3>2
  <2> DEFINE g == [j \in 1 .. i - 1 |-> s[j]]
  <2>2. g \in Injection(1 .. i - 1, Newer(e)) /\ g \in Surjection(1 .. i - 1, Newer(e))
    <3>1. g \in [1 .. i - 1 -> Newer(e)]
      BY <2>1
    <3>2. \A j, k \in 1 .. i - 1 : g[j] = g[k] => j = k
      BY <1>2, <1>4
    <3>3. \A o \in Newer(e) : \E j \in 1 .. i - 1 : g[j] = o
      BY <2>1
    <3> HIDE DEF g
    <3> QED BY <3>1, <3>2, <3>3 DEF Injection, Surjection, IsInjective
  <2> HIDE DEF g
  <2>3. IsFiniteSet(Newer(e))
    BY RankType
  <2>4. Cardinality(1 .. i - 1) = Cardinality(Newer(e))
    BY <2>2, <2>3, FS_Injection
  <2>5. Cardinality(1 .. i - 1) = i - 1
    <3>1. i - 1 \in Nat
      BY <1>2
    <3> QED BY <3>1, UpTo
  <2> QED BY <2>4, <2>5 DEF Rank
<1>8. ASSUME i <= walk.offset + PageLimit PROVE FALSE
  <2> DEFINE a == walk.offset + 1
             b == Min({walk.offset + PageLimit, Len(s)})
             u == SubSeq(s, a, b)
  <2>1. walk.offset \in Nat /\ PageLimit \in Nat
    BY EventArchiveAssumption DEF WalkTyped
  <2>2. s \in Seq(M) /\ Len(s) = n
    BY <1>2, <1>4
  <2>3. b \in Int /\ i <= b /\ b <= n
    <3>2. walk.offset + PageLimit \in Int /\ Len(s) \in Int /\ i <= Len(s)
      BY <1>2, <2>1, <2>2
    <3>3. b \in {walk.offset + PageLimit, Len(s)} /\ b <= Len(s)
      BY <3>2, MinOfTwo
    <3> HIDE DEF b
    <3> QED BY <1>8, <2>2, <3>2, <3>3
  <2>4. \A j \in a .. b : s[j] \in M
    BY <1>2, <1>4, <2>1, <2>3
  <2>5. /\ u \in Seq(M) /\ Len(u) = IF a <= b THEN b - a + 1 ELSE 0
        /\ \A j \in 1 .. b - a + 1 : u[j] = s[a + j - 1]
    <3>1. a \in Int
      BY <2>1
    <3> HIDE DEF a, b
    <3> QED BY <2>3, <2>4, <3>1, SubSeqProperties
  <2>6. i - a + 1 \in 1 .. Len(u) /\ u[i - a + 1] = e
    <3>1. a <= i /\ a \in Int /\ a + (i - a + 1) - 1 = i /\ i - a + 1 \in 1 .. b - a + 1
      BY <1>2, <1>7, <2>1, <2>3
    <3> HIDE DEF a, b, u
    <3> QED BY <1>6, <2>3, <2>5, <3>1
  <2>7. e \in ToSet(u)
    BY <2>5, <2>6 DEF ToSet
  <2> QED BY <1>1, <2>7
<1> QED BY <1>2, <1>7, <1>8, EventArchiveAssumption DEF WalkTyped

\* An event that comes in moves nothing forward.
LEMMA TableGrows ==
  ASSUME WalkInv, WalkTyped', stored \subseteq stored', UNCHANGED walk
  PROVE  WalkInv'
<1>1. Matching(walk.filter) \subseteq Matching(walk.filter)'
  BY DEF Matching
<1>2. ASSUME NEW e PROVE Rank(e) <= Rank(e)' /\ Rank(e) \in Nat /\ Rank(e)' \in Nat
  <2>1. Newer(e) \subseteq Newer(e)'
    BY <1>1 DEF Newer
  <2>2. IsFiniteSet(Newer(e)')
    <3>1. stored' \subseteq Events /\ Newer(e)' \subseteq stored'
      BY DEF WalkTyped, Newer, Matching
    <3> QED BY <3>1, EventArchiveAssumption, FS_Subset
  <2> QED BY <2>1, <2>2, RankType, FS_Subset, FS_CardinalityType DEF Rank, WalkInv
<1>3. \A e : Alone(e)' => Alone(e)
  BY DEF Alone
<1>4. walk.offset \in Nat /\ PageLimit \in Nat
  BY EventArchiveAssumption DEF WalkInv, WalkTyped
<1>5. WalkOn'
  BY <1>1, <1>2, <1>3, <1>4 DEF WalkInv, WalkOn
<1> QED BY <1>5 DEF WalkInv

LEMMA WalkStep == WalkInv /\ [ArchiveNext]_archiveVars => WalkInv'
<1> SUFFICES ASSUME WalkInv, [ArchiveNext]_archiveVars PROVE WalkInv'
  OBVIOUS
<1>1. CASE UNCHANGED walk /\ stored' = stored
  BY <1>1, TableGrows DEF WalkInv, WalkTyped
<1>2. ASSUME NEW e \in Events, Create(e) PROVE WalkInv'
  <2>1. UNCHANGED walk /\ stored' = stored \union {e}
    BY <1>2 DEF Create
  <2>2. WalkTyped'
    BY <2>1 DEF WalkInv, WalkTyped
  <2> QED BY <2>1, <2>2, TableGrows
<1>3. CASE StartWalk
  <2>1. /\ walk.at = "start" /\ stored' = stored
        /\ walk' = [walk EXCEPT !.at = "rows", !.base = Matching(walk.filter)]
    BY <1>3 DEF StartWalk
  <2>2. Matching(walk.filter) \subseteq Events
    BY DEF Matching, WalkInv, WalkTyped
  <2>3. /\ walk'.at = "rows" /\ walk'.base = Matching(walk.filter) /\ walk'.filter = walk.filter
        /\ walk'.offset = 0 /\ WalkTyped'
    BY <2>1, <2>2 DEF WalkInv, WalkTyped, WalkOn
  <2>4. Matching(walk.filter)' = Matching(walk.filter)
    BY <2>1, <2>3 DEF Matching
  <2>5. \A e : Rank(e)' = Rank(e) /\ Rank(e) \in Nat
    BY <2>1, <2>3, <2>4, RankType DEF Rank, Newer, WalkInv
  <2> QED BY <2>3, <2>4, <2>5 DEF WalkInv, WalkOn
<1>4. CASE SelectRows
  <2>1. PICK p \in Pages(walk.filter, walk.offset) :
          walk' = [walk EXCEPT !.at = "total", !.page = p]
    BY <1>4 DEF SelectRows
  <2>2. walk.at = "rows" /\ stored' = stored
    BY <1>4 DEF SelectRows
  <2>3. p \subseteq Events
    BY PageTyped DEF WalkInv
  <2>4. /\ walk'.at = "total" /\ walk'.page = p /\ walk'.base = walk.base /\ walk'.seen = walk.seen
        /\ walk'.filter = walk.filter /\ walk'.offset = walk.offset /\ WalkTyped'
    BY <2>1, <2>2, <2>3 DEF WalkInv, WalkTyped
  <2>5. Matching(walk.filter)' = Matching(walk.filter) /\ \A e : Alone(e)' <=> Alone(e)
    BY <2>2, <2>4 DEF Matching, Alone
  <2>6. \A e : Rank(e)' = Rank(e)
    BY <2>2, <2>4, <2>5 DEF Rank, Newer
  <2>7. ASSUME NEW e \in walk.base, Alone(e), e \notin walk.seen, e \notin p
        PROVE  Rank(e) >= walk.offset + PageLimit
    <3>1. e \in Matching(walk.filter) /\ Rank(e) >= walk.offset
      BY <2>2, <2>7 DEF WalkInv, WalkOn
    <3> QED BY <2>1, <2>7, <3>1, PagePasses DEF WalkInv
  <2>8. walk.base \subseteq Matching(walk.filter)
    BY <2>2 DEF WalkInv, WalkOn
  <2> QED BY <2>4, <2>5, <2>6, <2>7, <2>8 DEF WalkInv, WalkOn
<1>5. CASE CountRows
  <2> DEFINE to == IF Cardinality(Matching(walk.filter)) <= walk.offset + PageLimit
                   THEN "done" ELSE "rows"
  <2>1. /\ walk.at = "total" /\ stored' = stored
        /\ walk' = [walk EXCEPT !.seen = walk.seen \union walk.page, !.page = {},
                                !.offset = walk.offset + PageLimit, !.at = to]
    BY <1>5 DEF CountRows
  <2>2. to \in {"done", "rows"}
    OBVIOUS
  <2>3. walk.offset \in Nat /\ PageLimit \in Nat
    BY EventArchiveAssumption DEF WalkInv, WalkTyped
  <2>4. /\ walk'.at = to /\ walk'.base = walk.base /\ walk'.seen = walk.seen \union walk.page
        /\ walk'.filter = walk.filter /\ walk'.offset = walk.offset + PageLimit
    <3> HIDE DEF to
    <3> QED BY <2>1 DEF WalkInv, WalkTyped
  <2>5. WalkTyped'
    <3> HIDE DEF to
    <3>1. /\ walk' = [at |-> to, filter |-> walk.filter, offset |-> walk.offset + PageLimit,
                      page |-> {}, seen |-> walk.seen \union walk.page, base |-> walk.base]
          /\ walk.filter \in Filters /\ walk.base \subseteq Events
          /\ walk.seen \union walk.page \subseteq Events
      BY <2>1 DEF WalkInv, WalkTyped
    <3> QED BY <2>1, <2>2, <2>3, <3>1 DEF WalkInv, WalkTyped
  <2>6. Matching(walk.filter)' = Matching(walk.filter) /\ \A e : Alone(e)' <=> Alone(e)
    BY <2>1, <2>4 DEF Matching, Alone
  <2>7. \A e : Rank(e)' = Rank(e)
    BY <2>1, <2>4, <2>6 DEF Rank, Newer
  <2>8. ASSUME NEW e \in walk.base, Alone(e), e \notin walk.seen \union walk.page
        PROVE  Rank(e) >= walk.offset + PageLimit /\ to = "rows"
    <3>1. e \in Matching(walk.filter) /\ Rank(e) >= walk.offset + PageLimit
      BY <2>1, <2>8 DEF WalkInv, WalkOn
    <3>2. Rank(e) \in Nat /\ Cardinality(Matching(walk.filter)) \in Nat
          /\ Rank(e) < Cardinality(Matching(walk.filter))
      BY <3>1, RankType DEF WalkInv
    <3> QED BY <2>3, <3>1, <3>2
  <2>9. walk.base \subseteq Matching(walk.filter)
    BY <2>1 DEF WalkInv, WalkOn
  <2> HIDE DEF to
  <2> QED BY <2>2, <2>4, <2>5, <2>6, <2>7, <2>8, <2>9 DEF WalkInv, WalkOn
<1>6. ASSUME NEW e \in Events, CloseSession(e) \/ Archive(e) \/ CrashOf(e)
      PROVE  UNCHANGED walk /\ stored' = stored
  BY <1>6 DEF CloseSession, Archive, CrashOf, StartTask, PutObject, PutFails, ExecuteUpdate, CommitKey
<1>7. NextDay => UNCHANGED walk /\ stored' = stored
  BY DEF NextDay
<1>8. UNCHANGED archiveVars => UNCHANGED walk /\ stored' = stored
  BY DEF archiveVars
<1> QED BY <1>1, <1>2, <1>3, <1>4, <1>5, <1>6, <1>7, <1>8 DEF ArchiveNext, ListEvents

LEMMA WalkInvariance == ArchiveSpec => []WalkInv
<1>1. ArchiveInit => WalkInv
  BY EventArchiveAssumption DEF ArchiveInit, WalkInv, WalkTyped, WalkOn
<1> QED BY <1>1, WalkStep, PTL DEF ArchiveSpec

\* A client that walks the pages of list_events until offset passes total has
\* seen every event that was there when it began and has its timestamp to
\* itself: an event that is not seen yet has at least as many newer ones before
\* it as the walk has passed, so the total read after it lets the walk go on.
THEOREM WalkComplete == ArchiveSpec => []WalkMissesNothing
<1>1. WalkInv => WalkMissesNothing
  BY DEF WalkInv, WalkOn, WalkMissesNothing, Alone
<1> QED BY <1>1, WalkInvariance, PTL

-----------------------------------------------------------------------------
(* FleetRouting.  The loop pops a nearest place at each turn and loses nothing;
   what is answered or kept was computed for a request with the same key. *)

\* Where s has a waypoint of W, and how often.
Spots(s, W) == {i \in DOMAIN s : s[i] \in W}
Count(s, W) == Cardinality(Spots(s, W))

LEMMA CountType ==
  ASSUME NEW s \in Seq(Waypoint), NEW W
  PROVE  IsFiniteSet(Spots(s, W)) /\ Count(s, W) \in Nat
<1>1. Len(s) \in Nat /\ DOMAIN s = 1 .. Len(s)
  OBVIOUS
<1>2. IsFiniteSet(1 .. Len(s)) /\ Spots(s, W) \subseteq 1 .. Len(s)
  BY <1>1, UpTo DEF Spots
<1> QED BY <1>2, FS_Subset, FS_CardinalityType DEF Count

\* append(): one more of the waypoint that is added.
LEMMA CountAppend ==
  ASSUME NEW s \in Seq(Waypoint), NEW w \in Waypoint, NEW W
  PROVE  Count(Append(s, w), W) = Count(s, W) + (IF w \in W THEN 1 ELSE 0)
<1> DEFINE n == Len(s)  t == Append(s, w)
<1>1. n \in Nat /\ DOMAIN s = 1 .. n /\ DOMAIN t = 1 .. n + 1
  OBVIOUS
<1>2. t[n + 1] = w /\ \A i \in 1 .. n : t[i] = s[i]
  OBVIOUS
<1>3. IsFiniteSet(Spots(s, W)) /\ Count(s, W) \in Nat
  BY CountType
<1> HIDE DEF n, t
<1>4. CASE w \in W
  <2>1. Spots(t, W) = Spots(s, W) \union {n + 1}
    BY <1>1, <1>2, <1>4 DEF Spots
  <2>2. n + 1 \notin Spots(s, W)
    BY <1>1 DEF Spots
  <2> QED BY <1>3, <1>4, <2>1, <2>2, FS_AddElement DEF Count, t
<1>5. CASE w \notin W
  <2>1. Spots(t, W) = Spots(s, W)
    BY <1>1, <1>2, <1>5 DEF Spots
  <2> QED BY <1>3, <1>5, <2>1 DEF Count, t
<1> QED BY <1>4, <1>5

\* pop(): the others move up.
LEMMA Popped ==
  ASSUME NEW s \in Seq(Waypoint), NEW i \in 1 .. Len(s)
  PROVE  /\ RemoveAt(s, i) \in Seq(Waypoint) /\ Len(RemoveAt(s, i)) = Len(s) - 1
         /\ \A j \in 1 .. Len(s) - 1 : RemoveAt(s, i)[j] = s[IF j < i THEN j ELSE j + 1]
<1> DEFINE a == SubSeq(s, 1, i - 1)  b == SubSeq(s, i + 1, Len(s))
<1>1. Len(s) \in Nat
  OBVIOUS
<1>2. /\ a \in Seq(Waypoint) /\ Len(a) = i - 1
      /\ \A j \in 1 .. i - 1 : a[j] = s[j]
  BY <1>1
<1>3. /\ b \in Seq(Waypoint) /\ Len(b) = Len(s) - i
      /\ \A j \in 1 .. Len(s) - i : b[j] = s[i + j]
  BY <1>1
<1> HIDE DEF a, b
<1>4. /\ a \o b \in Seq(Waypoint) /\ Len(a \o b) = Len(s) - 1
      /\ \A j \in 1 .. Len(s) - 1 : (a \o b)[j] = IF j < i THEN a[j] ELSE b[j - (i - 1)]
  <2>1. /\ a \o b \in Seq(Waypoint) /\ Len(a \o b) = Len(a) + Len(b)
        /\ \A j \in 1 .. Len(a) + Len(b) :
             (a \o b)[j] = IF j <= Len(a) THEN a[j] ELSE b[j - Len(a)]
    BY <1>2, <1>3, ConcatProperties
  <2>2. Len(a) + Len(b) = Len(s) - 1 /\ Len(a) = i - 1
    BY <1>1, <1>2, <1>3
  <2>3. \A j \in 1 .. Len(s) - 1 : j <= i - 1 <=> j < i
    BY <1>1
  <2> QED BY <2>1, <2>2, <2>3
<1>5. ASSUME NEW j \in 1 .. Len(s) - 1
      PROVE  (a \o b)[j] = s[IF j < i THEN j ELSE j + 1]
  <2>1. CASE j < i
    BY <1>1, <1>2, <1>4, <2>1
  <2>2. CASE ~(j < i)
    <3>1. j - (i - 1) \in 1 .. Len(s) - i /\ i + (j - (i - 1)) = j + 1
      BY <1>1, <2>2
    <3> QED BY <1>3, <1>4, <2>2, <3>1
  <2> QED BY <2>1, <2>2
<1> QED BY <1>4, <1>5 DEF RemoveAt, a, b

\* One less of the waypoint that is popped, all others as often.
LEMMA CountPopped ==
  ASSUME NEW s \in Seq(Waypoint), NEW i \in 1 .. Len(s), NEW W
  PROVE  Count(s, W) = Count(RemoveAt(s, i), W) + (IF s[i] \in W THEN 1 ELSE 0)
<1> DEFINE n == Len(s)  t == RemoveAt(s, i)
           A == Spots(t, W)  B == Spots(s, W) \ {i}
           f == [j \in A |-> IF j < i THEN j ELSE j + 1]
<1>1. /\ n \in Nat /\ DOMAIN s = 1 .. n /\ t \in Seq(Waypoint) /\ DOMAIN t = 1 .. n - 1
      /\ \A j \in 1 .. n - 1 : t[j] = s[IF j < i THEN j ELSE j + 1]
  <2>1. RemoveAt(s, i) \in Seq(Waypoint) /\ Len(RemoveAt(s, i)) = Len(s) - 1
    BY Popped
  <2>2. \A j \in 1 .. Len(s) - 1 : RemoveAt(s, i)[j] = s[IF j < i THEN j ELSE j + 1]
    BY Popped
  <2> QED BY <2>1, <2>2
<1>2. IsFiniteSet(Spots(s, W)) /\ Count(s, W) \in Nat
  BY CountType
<1>3. IsFiniteSet(B) /\ Cardinality(B) = IF s[i] \in W THEN Count(s, W) - 1 ELSE Count(s, W)
  <2>1. i \in Spots(s, W) <=> s[i] \in W
    BY <1>1 DEF Spots
  <2> QED BY <1>2, <2>1, FS_RemoveElement DEF Count
<1> HIDE DEF n, t
<1>4. A \subseteq 1 .. n - 1 /\ \A j \in 1 .. n - 1 : j \in A <=> t[j] \in W
  BY <1>1 DEF Spots
<1>5. B \subseteq 1 .. n /\ \A j \in 1 .. n : j \in B <=> j # i /\ s[j] \in W
  BY <1>1 DEF Spots
<1> HIDE DEF A, B
<1>6. f \in [A -> B]
  <2> SUFFICES ASSUME NEW j \in A PROVE (IF j < i THEN j ELSE j + 1) \in B
    OBVIOUS
  <2>1. j \in 1 .. n - 1 /\ t[j] \in W
    BY <1>4
  <2>2. CASE j < i
    BY <1>1, <1>5, <2>1, <2>2
  <2>3. CASE ~(j < i)
    <3>1. t[j] = s[j + 1] /\ j + 1 \in 1 .. n /\ j + 1 # i
      BY <1>1, <2>1, <2>3 DEF n
    <3> QED BY <1>5, <2>1, <2>3, <3>1
  <2> QED BY <2>2, <2>3
<1>7. \A j, k \in A : f[j] = f[k] => j = k
  BY <1>1, <1>4 DEF n
<1>8. \A k \in B : \E j \in A : f[j] = k
  <2> SUFFICES ASSUME NEW k \in B PROVE \E j \in A : f[j] = k
    OBVIOUS
  <2>1. k \in 1 .. n /\ k # i /\ s[k] \in W
    BY <1>5
  <2>2. CASE k < i
    <3>1. k \in 1 .. n - 1 /\ t[k] = s[k]
      BY <1>1, <2>1, <2>2 DEF n
    <3> QED BY <1>4, <2>1, <2>2, <3>1
  <2>3. CASE k > i
    <3>1. k - 1 \in 1 .. n - 1 /\ ~(k - 1 < i) /\ (k - 1) + 1 = k
      BY <1>1, <2>1, <2>3 DEF n
    <3>2. t[k - 1] = s[k]
      BY <1>1, <3>1
    <3> QED BY <1>4, <2>1, <3>1, <3>2
  <2> QED BY <1>1, <2>1, <2>2, <2>3 DEF n
<1> HIDE DEF f
<1>9. f \in Injection(A, B) /\ f \in Surjection(A, B)
  BY <1>6, <1>7, <1>8 DEF Injection, Surjection, IsInjective
<1>10. Cardinality(A) = Cardinality(B)
  BY <1>3, <1>9, FS_Injection
<1>11. Count(t, W) = Cardinality(A)
  BY DEF Count, A
<1> QED BY <1>2, <1>3, <1>10, <1>11 DEF t

LEMMA HaversineType == \A p, q \in Places : Haversine(p, q) \in Nat
  BY FleetAssumption DEF Haversine

\* index(min()): there is a nearest one.
LEMMA NearestIs ==
  ASSUME NEW from \in Places, NEW left \in Seq(Waypoint), Len(left) >= 1
  PROVE  /\ NearestIndex(from, left) \in 1 .. Len(left)
         /\ \A j \in 1 .. Len(left) :
              Haversine(from, left[NearestIndex(from, left)].at) <= Haversine(from, left[j].at)
<1> DEFINE n == Len(left)
           D == [j \in 1 .. n |-> Haversine(from, left[j].at)]
           Is(i) == /\ i \in DOMAIN left
                    /\ \A j \in DOMAIN left :
                         /\ Haversine(from, left[i].at) <= Haversine(from, left[j].at)
                         /\ j < i => Haversine(from, left[i].at) < Haversine(from, left[j].at)
<1>1. n \in Nat /\ n >= 1 /\ DOMAIN left = 1 .. n
  OBVIOUS
<1>2. D \in [1 .. n -> Nat]
  <2>1. \A j \in 1 .. n : left[j] \in Waypoint
    BY <1>1
  <2>2. \A j \in 1 .. n : Haversine(from, left[j].at) \in Nat
    BY <2>1, HaversineType DEF Waypoint
  <2> QED BY <2>2
<1>3. \A j \in 1 .. n : D[j] = Haversine(from, left[j].at)
  OBVIOUS
<1> HIDE DEF n, D
<1>4. PICK i \in 1 .. n : \A j \in 1 .. n : D[i] <= D[j] /\ (j < i => D[i] < D[j])
  <2> DEFINE V == {D[j] : j \in 1 .. n}
  <2>1. V \subseteq Nat /\ V # {}
    <3>1. 1 \in 1 .. n
      BY <1>1
    <3> QED BY <1>2, <3>1
  <2>2. PICK v \in V : \A w \in V : v <= w
    BY <2>1, Least
  <2> DEFINE T == {j \in 1 .. n : D[j] = v}
  <2>3. T \subseteq Nat /\ T # {}
    BY <2>2
  <2>4. PICK i \in T : \A j \in T : i <= j
    BY <2>3, Least
  <2>5. ASSUME NEW j \in 1 .. n PROVE D[i] <= D[j] /\ (j < i => D[i] < D[j])
    <3>1. v = D[i] /\ D[i] <= D[j] /\ D[i] \in Nat /\ D[j] \in Nat /\ i \in 1 .. n
      BY <1>2, <2>2, <2>4
    <3>2. j < i => D[j] # v
      BY <1>1, <2>4, <3>1
    <3> QED BY <3>1, <3>2
  <2> QED BY <2>4, <2>5
<1>5. Is(i)
  BY <1>1, <1>3, <1>4
<1>6. NearestIndex(from, left) = CHOOSE k \in DOMAIN left : Is(k)
  BY Zenon DEF NearestIndex
<1> HIDE DEF Is
<1>7. Is(NearestIndex(from, left))
  BY <1>1, <1>5, <1>6
<1> QED BY <1>1, <1>7 DEF Is, n

\* Where the loop is after k turns: nothing lost, each leg to a nearest place.
TourOK(depot, stops, t, k) ==
  /\ t.current = Before(depot, t.ordered, k + 1) /\ t.current \in Places
  /\ t.ordered \in Seq(Waypoint) /\ Len(t.ordered) = k
  /\ t.remaining \in Seq(Waypoint) /\ Len(t.remaining) = Len(stops) - k
  /\ \A W \in SUBSET Waypoint : Count(t.ordered, W) + Count(t.remaining, W) = Count(stops, W)
  /\ \A m \in 1 .. k :
       /\ \A j \in m .. k : Leg(depot, t.ordered, m) <= Haversine(Before(depot, t.ordered, m), t.ordered[j].at)
       /\ \A j \in 1 .. Len(stops) - k :
            Leg(depot, t.ordered, m) <= Haversine(Before(depot, t.ordered, m), t.remaining[j].at)

\* A turn of the loop pops a nearest place and keeps what TourOK says.
LEMMA VisitKeeps ==
  ASSUME NEW depot \in Places, NEW stops \in Seq(Waypoint), NEW k \in 0 .. Len(stops) - 1,
         NEW t, TourOK(depot, stops, t, k)
  PROVE  TourOK(depot, stops, Visit(t), k + 1)
<1> DEFINE i == NearestIndex(t.current, t.remaining)
           w == t.remaining[i]  o == t.ordered  l == t.remaining
           oo == Append(o, w)  ll == RemoveAt(l, i)  n == Len(stops)
<1>1. /\ n \in Nat /\ k \in Nat /\ k < n
      /\ o \in Seq(Waypoint) /\ Len(o) = k /\ l \in Seq(Waypoint) /\ Len(l) = n - k
      /\ t.current = Before(depot, o, k + 1) /\ t.current \in Places
  BY DEF TourOK
<1>2. i \in 1 .. n - k /\ \A j \in 1 .. n - k : Haversine(t.current, w.at) <= Haversine(t.current, l[j].at)
  <2>1. Len(l) >= 1
    BY <1>1
  <2> QED BY <1>1, <2>1, NearestIs
<1> HIDE DEF i
<1>3. w \in Waypoint /\ w.at \in Places
  <2>1. i \in 1 .. Len(l)
    BY <1>1, <1>2
  <2>2. w \in Waypoint
    BY <1>1, <2>1, ElementOfSeq
  <2> QED BY <2>2 DEF Waypoint
<1>4. /\ ll \in Seq(Waypoint) /\ Len(ll) = n - (k + 1)
      /\ \A j \in 1 .. n - (k + 1) : \E m \in 1 .. n - k : ll[j] = l[m]
  <2>1. i \in 1 .. Len(l)
    BY <1>1, <1>2
  <2>2. /\ ll \in Seq(Waypoint) /\ Len(ll) = Len(l) - 1
        /\ \A j \in 1 .. Len(l) - 1 : ll[j] = l[IF j < i THEN j ELSE j + 1]
    BY <1>1, <2>1, Popped
  <2>3. \A j \in 1 .. n - (k + 1) : (IF j < i THEN j ELSE j + 1) \in 1 .. n - k
    BY <1>1
  <2>4. Len(l) - 1 = n - (k + 1)
    BY <1>1
  <2> HIDE DEF ll, l, n
  <2> QED BY <2>2, <2>3, <2>4
<1>5. /\ oo \in Seq(Waypoint) /\ Len(oo) = k + 1 /\ oo[k + 1] = w
      /\ \A j \in 1 .. k : oo[j] = o[j]
  BY <1>1, <1>3
<1>6. \A W \in SUBSET Waypoint : Count(oo, W) + Count(ll, W) = Count(stops, W)
  <2> SUFFICES ASSUME NEW W \in SUBSET Waypoint PROVE Count(oo, W) + Count(ll, W) = Count(stops, W)
    OBVIOUS
  <2>1. Count(o, W) + Count(l, W) = Count(stops, W)
    BY DEF TourOK
  <2>2. Count(oo, W) = Count(o, W) + (IF w \in W THEN 1 ELSE 0)
    BY <1>1, <1>3, CountAppend
  <2>3. Count(l, W) = Count(ll, W) + (IF w \in W THEN 1 ELSE 0)
    <3>1. i \in 1 .. Len(l)
      BY <1>1, <1>2
    <3> QED BY <1>1, <3>1, CountPopped
  <2>4. Count(o, W) \in Nat /\ Count(ll, W) \in Nat
    BY <1>1, <1>4, CountType
  <2> HIDE DEF oo, ll, o, l
  <2> QED BY <2>1, <2>2, <2>3, <2>4
<1>7. Visit(t) = [current |-> w.at, remaining |-> ll, ordered |-> oo]
  BY Zenon DEF Visit, i
<1>8. w.at = Before(depot, oo, (k + 1) + 1)
  <2>1. (k + 1) + 1 # 1 /\ ((k + 1) + 1) - 1 = k + 1
    BY <1>1
  <2> QED BY <1>5, <2>1 DEF Before
<1>9. \A m \in 1 .. k + 1 : Before(depot, oo, m) = Before(depot, o, m)
  <2> SUFFICES ASSUME NEW m \in 1 .. k + 1 PROVE Before(depot, oo, m) = Before(depot, o, m)
    OBVIOUS
  <2>1. m # 1 => m - 1 \in 1 .. k
    BY <1>1
  <2> QED BY <1>5, <2>1 DEF Before
<1>10. ASSUME NEW m \in 1 .. k + 1
       PROVE  /\ \A j \in m .. k + 1 : Leg(depot, oo, m) <= Haversine(Before(depot, oo, m), oo[j].at)
              /\ \A j \in 1 .. n - k : Leg(depot, oo, m) <= Haversine(Before(depot, oo, m), l[j].at)
  <2>1. CASE m = k + 1
    <3>1. Leg(depot, oo, m) = Haversine(t.current, w.at) /\ Before(depot, oo, m) = t.current
      BY <1>1, <1>5, <1>9, <2>1 DEF Leg
    <3>2. \A j \in m .. k + 1 : oo[j] = w
      BY <1>1, <1>5, <2>1
    <3>3. Haversine(t.current, w.at) \in Nat
      BY <1>1, <1>3, HaversineType
    <3> QED BY <1>2, <3>1, <3>2, <3>3
  <2>2. CASE m # k + 1
    <3>1. m \in 1 .. k
      BY <1>1, <2>2
    <3>2. Leg(depot, oo, m) = Leg(depot, o, m) /\ Before(depot, oo, m) = Before(depot, o, m)
      BY <1>5, <1>9, <3>1 DEF Leg
    <3>3. \A j \in m .. k : Leg(depot, o, m) <= Haversine(Before(depot, o, m), o[j].at)
      BY <3>1 DEF TourOK
    <3>4. \A j \in 1 .. n - k : Leg(depot, o, m) <= Haversine(Before(depot, o, m), l[j].at)
      BY <3>1 DEF TourOK
    <3>5. \A j \in m .. k + 1 : j = k + 1 \/ (j \in m .. k /\ j \in 1 .. k)
      BY <1>1, <3>1
    <3>6. \A j \in m .. k + 1 : Leg(depot, o, m) <= Haversine(Before(depot, o, m), oo[j].at)
      <4>1. oo[k + 1] = l[i]
        BY <1>5
      <4> QED BY <1>2, <1>5, <3>3, <3>4, <3>5, <4>1
    <3> QED BY <3>2, <3>4, <3>6
  <2> QED BY <2>1, <2>2
<1> HIDE DEF oo, ll, o, l, w, n
<1>11. \A m \in 1 .. k + 1 : \A j \in 1 .. n - (k + 1) :
         Leg(depot, oo, m) <= Haversine(Before(depot, oo, m), ll[j].at)
  BY <1>4, <1>10
<1> QED BY <1>3, <1>4, <1>5, <1>6, <1>7, <1>8, <1>10, <1>11 DEF TourOK, n

\* What the loop starts with.
LEMMA TourStarts ==
  ASSUME NEW depot \in Places, NEW stops \in Seq(Waypoint)
  PROVE  TourOK(depot, stops, [current |-> depot, remaining |-> stops, ordered |-> <<>>], 0)
<1>1. \A W \in SUBSET Waypoint : Count(<<>>, W) = 0 /\ Count(stops, W) \in Nat
  <2> SUFFICES ASSUME NEW W PROVE Count(<<>>, W) = 0 /\ Count(stops, W) \in Nat
    OBVIOUS
  <2>1. Spots(<<>>, W) = {}
    BY DEF Spots
  <2> QED BY <2>1, FS_EmptySet, CountType DEF Count
<1>2. <<>> \in Seq(Waypoint) /\ Len(<<>>) = 0
  OBVIOUS
<1>3. depot = Before(depot, <<>>, 0 + 1)
  BY DEF Before
<1> QED BY <1>1, <1>2, <1>3 DEF TourOK

\* The states of the loop are those the definition describes.
LEMMA ToursAre ==
  ASSUME NEW depot \in Places, NEW stops \in Seq(Waypoint)
  PROVE  /\ Tours(depot, stops)[0] = [current |-> depot, remaining |-> stops, ordered |-> <<>>]
         /\ \A k \in 1 .. Len(stops) : Tours(depot, stops)[k] = Visit(Tours(depot, stops)[k - 1])
<1> DEFINE b == [current |-> depot, remaining |-> stops, ordered |-> <<>>]
           Is(g, n) == g = [k \in 0 .. n |-> IF k = 0 THEN b ELSE Visit(g[k - 1])]
           T == {n \in Nat : ~ \E g : Is(g, n)}
<1>1. Len(stops) \in Nat
  OBVIOUS
<1>2. ASSUME T # {} PROVE FALSE
  <2>1. PICK n \in T : \A m \in T : n <= m
    <3>1. T \in SUBSET Nat
      OBVIOUS
    <3> HIDE DEF T
    <3> QED BY <1>2, <3>1, Least
  <2>2. n \in Nat /\ ~ \E g : Is(g, n)
    OBVIOUS
  <2>3. CASE n = 0
    <3> DEFINE h == [k \in 0 .. 0 |-> b]
    <3>1. Is(h, 0)
      OBVIOUS
    <3> HIDE DEF Is
    <3> QED BY <2>2, <2>3, <3>1
  <2>4. CASE n # 0
    <3>1. n - 1 \in Nat /\ n - 1 \notin T
      <4>1. n - 1 \in Nat /\ ~(n <= n - 1)
        BY <2>2, <2>4
      <4> HIDE DEF T
      <4> QED BY <2>1, <4>1
    <3>2. PICK g : Is(g, n - 1)
      <4> HIDE DEF Is
      <4> QED BY <3>1
    <3> DEFINE h == [k \in 0 .. n |-> IF k = n THEN Visit(g[n - 1]) ELSE g[k]]
    <3>3. ASSUME NEW k \in 0 .. n PROVE h[k] = IF k = 0 THEN b ELSE Visit(h[k - 1])
      <4>1. CASE k = n
        <5>1. h[k] = Visit(g[n - 1]) /\ h[k - 1] = g[n - 1]
          BY <2>2, <2>4, <4>1
        <5> QED BY <2>4, <4>1, <5>1
      <4>2. CASE k # n
        <5>1. k \in 0 .. n - 1 /\ h[k] = g[k] /\ (k # 0 => h[k - 1] = g[k - 1])
          BY <2>2, <4>2
        <5>2. g[k] = IF k = 0 THEN b ELSE Visit(g[k - 1])
          BY <3>2, <5>1
        <5> QED BY <5>1, <5>2
      <4> QED BY <4>1, <4>2
    <3>4. h = [k \in 0 .. n |-> h[k]]
      OBVIOUS
    <3> HIDE DEF h
    <3>5. Is(h, n)
      BY <3>3, <3>4
    <3> HIDE DEF Is
    <3> QED BY <2>2, <3>5
  <2> QED BY <2>3, <2>4
<1>3. PICK g : Is(g, Len(stops))
  BY <1>1, <1>2
<1>4. Is(Tours(depot, stops), Len(stops))
  <2>1. Tours(depot, stops) = CHOOSE f : Is(f, Len(stops))
    BY DEF Tours
  <2> HIDE DEF Is
  <2> QED BY <1>3, <2>1
<1>5. ASSUME NEW w, Is(w, Len(stops))
      PROVE  w[0] = b /\ \A k \in 1 .. Len(stops) : w[k] = Visit(w[k - 1])
  <2>1. \A k \in 0 .. Len(stops) : w[k] = IF k = 0 THEN b ELSE Visit(w[k - 1])
    BY <1>5
  <2>2. 0 \in 0 .. Len(stops) /\ \A k \in 1 .. Len(stops) : k \in 0 .. Len(stops) /\ k # 0
    BY <1>1
  <2> HIDE DEF b
  <2> QED BY <2>1, <2>2
<1> HIDE DEF Is
<1> QED BY <1>4, <1>5

\* After the last turn nothing remains.
LEMMA RouteIsNearest ==
  ASSUME NEW depot \in Places, NEW stops \in Seq(Waypoint)
  PROVE  LET o == NearestNeighborRoute(depot, stops)
         IN  /\ o \in Seq(Waypoint) /\ Len(o) = Len(stops)
             /\ \A W \in SUBSET Waypoint : Count(o, W) = Count(stops, W)
             /\ \A k \in 1 .. Len(o) : \A j \in k .. Len(o) :
                  Leg(depot, o, k) <= Haversine(Before(depot, o, k), o[j].at)
<1> DEFINE n == Len(stops)  tour == Tours(depot, stops)
           T == {k \in 0 .. n : ~TourOK(depot, stops, tour[k], k)}
<1>1. n \in Nat
  OBVIOUS
<1>2. ASSUME T # {} PROVE FALSE
  <2>1. PICK k \in T : \A m \in T : k <= m
    <3>1. T \in SUBSET Nat
      BY <1>1
    <3> HIDE DEF T
    <3> QED BY <1>2, <3>1, Least
  <2>2. k \in 0 .. n /\ ~TourOK(depot, stops, tour[k], k)
    OBVIOUS
  <2>3. k # 0
    BY <2>2, ToursAre, TourStarts
  <2>4. k - 1 \in 0 .. n - 1 /\ k \in 1 .. n /\ k - 1 \in 0 .. n /\ (k - 1) + 1 = k
    BY <1>1, <2>2, <2>3
  <2>5. k - 1 \notin T
    <3>1. ~(k <= k - 1)
      BY <2>2
    <3> HIDE DEF T
    <3> QED BY <2>1, <3>1
  <2>6. TourOK(depot, stops, tour[k - 1], k - 1)
    BY <2>4, <2>5
  <2>7. tour[k] = Visit(tour[k - 1])
    BY <2>4, ToursAre
  <2> HIDE DEF tour
  <2>8. TourOK(depot, stops, Visit(tour[k - 1]), (k - 1) + 1)
    BY <2>4, <2>6, VisitKeeps
  <2> QED BY <2>2, <2>4, <2>7, <2>8
<1>3. TourOK(depot, stops, tour[n], n)
  BY <1>1, <1>2
<1> DEFINE o == tour[n].ordered  l == tour[n].remaining
<1>4. NearestNeighborRoute(depot, stops) = o
  BY DEF NearestNeighborRoute
<1> HIDE DEF tour
<1>5. \A W \in SUBSET Waypoint : Count(o, W) = Count(stops, W)
  <2> SUFFICES ASSUME NEW W \in SUBSET Waypoint PROVE Count(o, W) = Count(stops, W)
    OBVIOUS
  <2>1. o \in Seq(Waypoint) /\ l \in Seq(Waypoint) /\ Len(l) = n - n
    BY <1>3 DEF TourOK
  <2>2. DOMAIN l = {}
    BY <1>1, <2>1
  <2>3. Spots(l, W) = {}
    BY <2>2 DEF Spots
  <2>4. Count(l, W) = 0
    BY <2>3, FS_EmptySet DEF Count
  <2>5. Count(o, W) + Count(l, W) = Count(stops, W) /\ Count(o, W) \in Nat
    BY <1>3, <2>1, CountType DEF TourOK
  <2> QED BY <2>4, <2>5
<1>6. o \in Seq(Waypoint) /\ Len(o) = n
  BY <1>3 DEF TourOK
<1>7. \A k \in 1 .. n : \A j \in k .. n :
        Leg(depot, o, k) <= Haversine(Before(depot, o, k), o[j].at)
  BY <1>3 DEF TourOK
<1> HIDE DEF o
<1> QED BY <1>4, <1>5, <1>6, <1>7 DEF n

\* The sum of the legs is a number.
LEMMA DistanceType ==
  ASSUME NEW depot \in Places, NEW s \in Seq(Waypoint)
  PROVE  TotalRouteDistance(depot, s) \in Nat
<1> DEFINE n == Len(s)  d == [k \in 1 .. n |-> Leg(depot, s, k)]
           Is(f) == f = [k \in 0 .. n |-> IF k = 0 THEN 0 ELSE f[k - 1] + Leg(depot, s, k)]
<1>1. n \in Nat
  OBVIOUS
<1>2. ASSUME NEW k \in 1 .. n PROVE Leg(depot, s, k) \in Nat
  <2>0. \A i \in 1 .. Len(s) : s[i].at \in Places
    <3>1. \A i \in 1 .. Len(s) : s[i] \in Waypoint
      BY ElementOfSeq
    <3> QED BY <3>1 DEF Waypoint
  <2>1. s[k].at \in Places
    BY <1>2, <2>0
  <2>2. CASE k = 1
    BY <2>1, <2>2, HaversineType DEF Leg, Before
  <2>3. CASE k # 1
    <3>1. k - 1 \in 1 .. Len(s)
      BY <1>1, <1>2, <2>3
    <3>2. s[k - 1].at \in Places
      BY <2>0, <3>1
    <3> QED BY <2>1, <2>3, <3>2, HaversineType DEF Leg, Before
  <2> QED BY <2>2, <2>3
<1> HIDE DEF n
<1>3. \A k \in 0 + 1 .. n : d[k] = Leg(depot, s, k) /\ d[k] \in Nat /\ d[k] \in Int
  BY <1>1, <1>2
<1> HIDE DEF d
<1>4. PICK g : Totals(g, 0, n, 0, d)
  <2>1. \A k \in 0 + 1 .. n : d[k] \in Int
    BY <1>3
  <2>2. 0 \in Nat /\ 0 \in Int /\ 0 <= n
    BY <1>1
  <2> HIDE DEF Is
  <2> QED BY ONLY <1>1, <2>1, <2>2, TotalsExist
<1>5. Is(g)
  <2>1. g = [k \in 0 .. n |-> g[k]] /\ g[0] = 0
    BY <1>4 DEF Totals
  <2>2. ASSUME NEW k \in 0 .. n, k # 0 PROVE g[k] = g[k - 1] + Leg(depot, s, k)
    <3>1. k \in 0 + 1 .. n
      BY <1>1, <2>2
    <3> QED BY <1>3, <1>4, <3>1 DEF Totals
  <2> QED BY <2>1, <2>2
<1>6. Is(Legs(depot, s))
  <2>1. Legs(depot, s) = CHOOSE f : Is(f)
    BY DEF Legs, n
  <2> HIDE DEF Is
  <2> QED BY <1>5, <2>1
<1>7. ASSUME NEW f, Is(f) PROVE f[n] \in Nat
  <2> DEFINE T == {k \in 0 .. n : f[k] \notin Nat}
  <2>0. \A k \in 0 .. n : f[k] = IF k = 0 THEN 0 ELSE f[k - 1] + Leg(depot, s, k)
    BY <1>7
  <2> HIDE DEF Is
  <2>1. ASSUME T # {} PROVE FALSE
    <3>1. PICK k \in T : \A m \in T : k <= m
      <4>1. T \in SUBSET Nat
        BY <1>1
      <4> HIDE DEF T
      <4> QED BY <2>1, <4>1, Least
    <3>2. k \in 0 .. n /\ f[k] \notin Nat
      OBVIOUS
    <3>3. k \in 1 .. n /\ k - 1 \in 0 .. n
      BY <1>1, <2>0, <3>2
    <3>4. k - 1 \notin T
      <4>1. ~(k <= k - 1)
        BY <3>2
      <4> HIDE DEF T
      <4> QED BY <3>1, <4>1
    <3>5. f[k - 1] \in Nat
      BY <3>3, <3>4
    <3> QED BY <1>2, <2>0, <3>2, <3>3, <3>5
  <2> QED BY <1>1, <2>1
<1> HIDE DEF Is
<1> QED BY <1>6, <1>7 DEF TotalRouteDistance, n

\* What optimise_route() computes for a request.
Computed(r) ==
  [ordered |-> NearestNeighborRoute(Ask[r].depot, Ask[r].stops),
   km |-> TotalRouteDistance(Ask[r].depot, NearestNeighborRoute(Ask[r].depot, Ask[r].stops))]

\* Whatever is kept or answered was computed for a request with this key; what
\* a request computes itself was computed for it.
FromRequests ==
  /\ \A k \in DOMAIN cache : cache[k] # NoRoute =>
       \E q \in Routes : RouteKey(q) = k /\ cache[k] = Computed(q)
  /\ \A r \in Routes :
       /\ fromCache[r] => rpc[r] = "answered"
       /\ rpc[r] \in {"set", "answered"} /\ ~fromCache[r] => answer[r] = Computed(r)
       /\ fromCache[r] => \E q \in Routes : RouteKey(q) = RouteKey(r) /\ answer[r] = Computed(q)

FleetInv == FleetTypeOK /\ FromRequests

LEMMA Asked == \A r \in Routes : Ask[r].depot \in Places /\ Ask[r].stops \in Seq(Waypoint)
  BY FleetAssumption

LEMMA ComputedType == \A r \in Routes : Computed(r) \in Result
<1> SUFFICES ASSUME NEW r \in Routes PROVE Computed(r) \in Result
  OBVIOUS
<1> DEFINE o == NearestNeighborRoute(Ask[r].depot, Ask[r].stops)
<1>1. Ask[r].depot \in Places /\ Ask[r].stops \in Seq(Waypoint)
  BY Asked
<1>2. o \in Seq(Waypoint)
  BY <1>1, RouteIsNearest
<1>3. TotalRouteDistance(Ask[r].depot, o) \in Nat
  BY <1>1, <1>2, DistanceType
<1> QED BY <1>2, <1>3 DEF Computed, Result

LEMMA FleetStep == FleetInv /\ [FleetNext]_fleetVars => FleetInv'
<1> SUFFICES ASSUME FleetInv, [FleetNext]_fleetVars PROVE FleetInv'
  OBVIOUS
<1> USE FleetAssumption DEF FleetInv, FleetTypeOK, FromRequests
<1>1. CASE UNCHANGED fleetVars
  BY <1>1 DEF fleetVars
<1>2. CASE RedisTurns
  BY <1>2 DEF RedisTurns
<1>3. ASSUME NEW k \in DOMAIN cache, Expire(k) PROVE FleetInv'
  <2>1. UNCHANGED <<redis, token, rpc, client, answer, fromCache>>
    BY <1>3 DEF Expire
  <2>2. /\ cache' \in [{RouteKey(q) : q \in Routes} -> Result \union {NoRoute}]
        /\ \A i \in DOMAIN cache' : i \in DOMAIN cache /\ (cache'[i] # NoRoute => cache'[i] = cache[i])
    BY <1>3 DEF Expire
  <2>3. FleetTypeOK'
    BY <2>1, <2>2
  <2>4. /\ \A i \in DOMAIN cache : cache[i] # NoRoute =>
             \E q \in Routes : RouteKey(q) = i /\ cache[i] = Computed(q)
        /\ \A r \in Routes :
             /\ fromCache[r] => rpc[r] = "answered"
             /\ rpc[r] \in {"set", "answered"} /\ ~fromCache[r] => answer[r] = Computed(r)
             /\ fromCache[r] => \E q \in Routes : RouteKey(q) = RouteKey(r) /\ answer[r] = Computed(q)
    BY ONLY FleetInv DEF FleetInv, FromRequests
  <2>5. \A i \in DOMAIN cache' : cache'[i] # NoRoute =>
          \E q \in Routes : RouteKey(q) = i /\ cache'[i] = Computed(q)
    BY ONLY <2>2, <2>4
  <2>6. FromRequests'
    BY ONLY <2>1, <2>4, <2>5 DEF FromRequests
  <2> QED BY <2>3, <2>6
<1>4. ASSUME NEW u \in Users, Login(u) PROVE FleetInv'
  BY <1>4 DEF Login
<1>5. ASSUME NEW u \in Users, TokenExpires(u) PROVE FleetInv'
  BY <1>5 DEF TokenExpires
<1>6. ASSUME NEW r \in Routes, RequireDispatcher(r) PROVE FleetInv'
  BY <1>6 DEF RequireDispatcher
<1>7. ASSUME NEW r \in Routes, Ping(r) PROVE FleetInv'
  BY <1>7 DEF Ping
<1>8. ASSUME NEW r \in Routes, GetCached(r) PROVE FleetInv'
  <2>1. RouteKey(r) \in DOMAIN cache
    OBVIOUS
  <2>2. CASE Lost(r) \/ (IF client[r] THEN cache[RouteKey(r)] ELSE NoRoute) = NoRoute
    BY <1>8, <2>2 DEF GetCached
  <2>3. CASE ~(Lost(r) \/ (IF client[r] THEN cache[RouteKey(r)] ELSE NoRoute) = NoRoute)
    <3>1. /\ cache[RouteKey(r)] # NoRoute
          /\ rpc' = [rpc EXCEPT ![r] = "answered"]
          /\ answer' = [answer EXCEPT ![r] = cache[RouteKey(r)]]
          /\ fromCache' = [fromCache EXCEPT ![r] = TRUE]
          /\ UNCHANGED <<redis, cache, token, client>>
      BY <1>8, <2>3 DEF GetCached
    <3> QED BY <2>1, <3>1
  <2> QED BY <2>2, <2>3
<1>9. ASSUME NEW r \in Routes, Compute(r) PROVE FleetInv'
  <2>1. /\ rpc[r] = "compute" /\ rpc' = [rpc EXCEPT ![r] = "set"]
        /\ answer' = [answer EXCEPT ![r] = Computed(r)]
        /\ UNCHANGED <<redis, cache, token, client, fromCache>>
    BY <1>9 DEF Compute, Computed
  <2> QED BY <2>1, ComputedType
<1>10. ASSUME NEW r \in Routes, SetCached(r) PROVE FleetInv'
  BY <1>10, ComputedType DEF SetCached
<1> QED
  BY <1>1, <1>2, <1>3, <1>4, <1>5, <1>6, <1>7, <1>8, <1>9, <1>10 DEF FleetNext, OptimiseRoute

LEMMA FleetInvariance == FleetSpec => []FleetInv
<1>1. FleetInit => FleetInv
  <2> SUFFICES ASSUME FleetInit PROVE FleetInv
    OBVIOUS
  <2>1. FleetTypeOK
    <3>1. redis \in BOOLEAN
      BY Zenon DEF FleetInit
    <3> QED BY <3>1 DEF FleetInit, FleetTypeOK
  <2>2. FromRequests
    BY DEF FleetInit, FromRequests
  <2> QED BY <2>1, <2>2 DEF FleetInv
<1> QED BY <1>1, FleetStep, PTL DEF FleetSpec

\* Two lists with the same waypoints have the same places, each as often.
LEMMA SameCounts ==
  ASSUME NEW s \in Seq(Waypoint), NEW t \in Seq(Waypoint),
         \A W \in SUBSET Waypoint : Count(s, W) = Count(t, W)
  PROVE  PlacesOf(s) = PlacesOf(t) /\ SameWaypoints(s, t)
<1>1. ASSUME NEW p \in Places
      PROVE  Cardinality({k \in DOMAIN s : s[k].at = p}) = Cardinality({k \in DOMAIN t : t[k].at = p})
  <2> DEFINE W == {w \in Waypoint : w.at = p}
  <2>1. {k \in DOMAIN s : s[k].at = p} = Spots(s, W)
    BY ElementOfSeq DEF Spots
  <2>2. {k \in DOMAIN t : t[k].at = p} = Spots(t, W)
    BY ElementOfSeq DEF Spots
  <2>3. Count(s, W) = Count(t, W)
    OBVIOUS
  <2> HIDE DEF W
  <2> QED BY <2>1, <2>2, <2>3 DEF Count
<1>2. PlacesOf(s) = PlacesOf(t)
  BY <1>1 DEF PlacesOf
<1>3. ASSUME NEW w \in Range(s) \union Range(t)
      PROVE  Cardinality({k \in DOMAIN s : s[k] = w}) = Cardinality({k \in DOMAIN t : t[k] = w})
  <2>1. w \in Waypoint
    BY ElementOfSeq DEF Range
  <2>2. {k \in DOMAIN s : s[k] = w} = Spots(s, {w}) /\ {k \in DOMAIN t : t[k] = w} = Spots(t, {w})
    BY DEF Spots
  <2>3. Count(s, {w}) = Count(t, {w})
    BY <2>1
  <2> QED BY <2>2, <2>3 DEF Count
<1>4. SameWaypoints(s, t)
  BY <1>3 DEF SameWaypoints
<1> QED BY <1>2, <1>4

\* An answer visits the places asked for, from this depot to a nearest one left
\* each time, and tells its own length, for any places and distances, any
\* requests at once and whatever Redis forgets (optimise_route over
\* nearest_neighbor_route, total_route_distance and RouteCache): what is found
\* in the cache was computed for a request with the same key, and the key holds
\* all that the tour depends on but the ids.
THEOREM NearestAnswers == FleetSpec => []AnswersAreNearest
<1>1. FleetInv => AnswersAreNearest
  <2> SUFFICES ASSUME FleetInv, NEW r \in Routes, rpc[r] = "answered"
               PROVE  LET a == answer[r]
                          from(k) == Before(Ask[r].depot, a.ordered, k)
                      IN  /\ PlacesOf(a.ordered) = PlacesOf(Ask[r].stops)
                          /\ \A k \in DOMAIN a.ordered : \A j \in k .. Len(a.ordered) :
                               Haversine(from(k), a.ordered[k].at) <= Haversine(from(k), a.ordered[j].at)
                          /\ a.km = TotalRouteDistance(Ask[r].depot, a.ordered)
                          /\ \E q \in IF fromCache[r] THEN Routes ELSE {r} :
                               SameWaypoints(a.ordered, Ask[q].stops)
    BY DEF AnswersAreNearest
  <2>1. PICK q \in Routes : /\ RouteKey(q) = RouteKey(r) /\ answer[r] = Computed(q)
                            /\ fromCache[r] \/ q = r
    BY DEF FleetInv, FleetTypeOK, FromRequests
  <2> DEFINE o == NearestNeighborRoute(Ask[q].depot, Ask[q].stops)
  <2>2. Ask[q].depot = Ask[r].depot /\ PlacesOf(Ask[q].stops) = PlacesOf(Ask[r].stops)
    BY <2>1 DEF RouteKey
  <2>3. Ask[q].depot \in Places /\ Ask[q].stops \in Seq(Waypoint)
    BY Asked
  <2>4. /\ o \in Seq(Waypoint) /\ \A W \in SUBSET Waypoint : Count(o, W) = Count(Ask[q].stops, W)
        /\ \A k \in 1 .. Len(o) : \A j \in k .. Len(o) :
             Leg(Ask[q].depot, o, k) <= Haversine(Before(Ask[q].depot, o, k), o[j].at)
    BY <2>3, RouteIsNearest
  <2>5. answer[r].ordered = o /\ answer[r].km = TotalRouteDistance(Ask[q].depot, o)
    BY <2>1 DEF Computed
  <2> HIDE DEF o
  <2>6. PlacesOf(o) = PlacesOf(Ask[q].stops) /\ SameWaypoints(o, Ask[q].stops)
    BY <2>3, <2>4, SameCounts
  <2>7. DOMAIN o = 1 .. Len(o)
    BY <2>4
  <2> QED BY <2>1, <2>2, <2>4, <2>5, <2>6, <2>7 DEF Leg
<1> QED BY <1>1, FleetInvariance, PTL

-----------------------------------------------------------------------------
(* ModelStore.  The invariant adds what a prediction has in hand between its
   awaits, and that a model is kept under a key its own series has. *)

ModelInv(k) ==
  /\ cached[k] \in {NoModel, completed[k]}
  /\ file[k] \in {NoModel, Torn, completed[k]}
  /\ completed[k] # NoModel => ModelKey[completed[k].of] = k

PredictionInv(p) ==
  /\ ppc[p] \in {"new", "score", "alert"} => p \notin alerts
  /\ ppc[p] = "alert" => anomalous[p]
  /\ ppc[p] = "answered" => (anomalous[p] <=> p \in alerts)
  /\ ppc[p] \in {"alert", "answered"} => ModelKey[scoredBy[p].of] = KeyFor(p)

StoreInv ==
  /\ StoreTypeOK
  /\ \A t \in Trainings : tpc[t] = "fit" => windows[t] >= 1
  /\ \A k \in ModelKeys : ModelInv(k)
  /\ \A p \in Predictions : PredictionInv(p)

\* As many whole windows as fit: at least one, never more than readings.
LEMMA WindowCount ==
  ASSUME NEW n \in 0 .. MaxRows, NEW w \in Nat \ {0}
  PROVE  n \div w \in 0 .. MaxRows /\ (n >= w => n \div w >= 1)
<1> DEFINE q == n \div w
<1>1. MaxRows \in Nat
  BY ModelStoreAssumption
<1>2. q \in Int /\ w * q <= n /\ n < w * q + w
  BY <1>1
<1> HIDE DEF q
<1>3. q >= 0
  <2> SUFFICES ASSUME q <= -1 PROVE FALSE
    BY <1>2
  <2>1. w * (q + 1) <= 0
    BY <1>2
  <2> QED BY <1>1, <1>2, <2>1
<1>4. q <= w * q
  BY <1>2, <1>3
<1>5. n >= w => q >= 1
  BY <1>1, <1>2, <1>3
<1> QED BY <1>1, <1>2, <1>3, <1>4, <1>5 DEF q

LEMMA Keyed ==
  /\ \A x \in Trainings \union Predictions : SeriesOf[x] \in Series /\ KeyFor(x) \in ModelKeys
  /\ \A t \in Trainings : WindowSize[t] \in Nat \ {0}
  BY ModelStoreAssumption DEF KeyFor, ModelKeys

LEMMA StoreInitInv == StoreInit => StoreInv
  BY ModelStoreAssumption DEF StoreInit, StoreInv, StoreTypeOK, ModelInv, PredictionInv

\* What is fitted is a model of its own series.
LEMMA FittedModel ==
  ASSUME StoreInv, NEW t \in Trainings, tpc[t] = "fit"
  PROVE  Fitted(t) \in Model /\ ModelKey[Fitted(t).of] = KeyFor(t)
  BY Keyed DEF StoreInv, StoreTypeOK, Fitted, Model, KeyFor

LEMMA StoreStep == StoreInv /\ [StoreNext]_storeVars => StoreInv'
<1> SUFFICES ASSUME StoreInv, [StoreNext]_storeVars PROVE StoreInv'
  OBVIOUS
<1> USE Keyed DEF StoreInv, StoreTypeOK, ModelInv, PredictionInv, training, prediction
<1>1. CASE UNCHANGED storeVars
  BY <1>1 DEF storeVars, KeyFor
<1>2. ASSUME NEW s \in Series, IngestReadings(s) PROVE StoreInv'
  BY <1>2, ModelStoreAssumption DEF IngestReadings, KeyFor
<1>3. ASSUME NEW t \in Trainings, QueryTraining(t) PROVE StoreInv'
  <2>1. PICK n \in 0 .. rows[SeriesOf[t]] :
          IF n < WindowSize[t]
          THEN tpc' = [tpc EXCEPT ![t] = "refused"] /\ UNCHANGED windows
          ELSE /\ tpc' = [tpc EXCEPT ![t] = "fit"]
               /\ windows' = [windows EXCEPT ![t] = n \div WindowSize[t]]
    BY <1>3 DEF QueryTraining
  <2>2. n \in 0 .. MaxRows
    BY ModelStoreAssumption
  <2>3. n \div WindowSize[t] \in 0 .. MaxRows /\ (n >= WindowSize[t] => n \div WindowSize[t] >= 1)
    BY <2>2, WindowCount
  <2> QED BY <1>3, <2>1, <2>2, <2>3 DEF QueryTraining, KeyFor
<1>4. ASSUME NEW t \in Trainings, Fit(t) PROVE StoreInv'
  BY <1>4, FittedModel DEF Fit, KeyFor
<1>5. ASSUME NEW t \in Trainings, FitFails(t) PROVE StoreInv'
  BY <1>5 DEF FitFails, KeyFor
<1>6. ASSUME NEW p \in Predictions, QueryPrediction(p) PROVE StoreInv'
  BY <1>6 DEF QueryPrediction, KeyFor
<1>7. ASSUME NEW p \in Predictions, NoScore(p) PROVE StoreInv'
  BY <1>7 DEF NoScore, KeyFor
<1>8. ASSUME NEW p \in Predictions, Score(p) PROVE StoreInv'
  <2> DEFINE k == KeyFor(p)
  <2>1. Available(k) = completed[k] /\ Available(k) \in Model
    BY <1>8 DEF Score, Available
  <2> QED BY <1>8, <2>1 DEF Score, KeyFor
<1>9. ASSUME NEW p \in Predictions, InsertAlert(p) PROVE StoreInv'
  BY <1>9 DEF InsertAlert, KeyFor
<1>10. ASSUME NEW p \in Predictions, AlertFails(p) PROVE StoreInv'
  BY <1>10 DEF AlertFails, KeyFor
<1>11. CASE Crash
  BY <1>11, FittedModel DEF Crash, KeyFor
<1> QED
  BY <1>1, <1>2, <1>3, <1>4, <1>5, <1>6, <1>7, <1>8, <1>9, <1>10, <1>11
  DEF StoreNext, Train, Predict

\* The variables keep their types: nothing is fitted from less than a window,
\* and a file, the cache and a prediction hold models or what stands for none
\* (train_model, ModelStore).
THEOREM StoreTyped == StoreSpec => []StoreTypeOK
<1>1. StoreInv => StoreTypeOK
  BY DEF StoreInv
<1> QED BY <1>1, StoreInitInv, StoreStep, PTL DEF StoreSpec

\* A prediction gets the model of the last fit that came through for its key,
\* or none, through failed dumps and crashes; and there is an alert exactly
\* for the anomalies that were answered (ModelStore, predict_anomaly).
THEOREM Backed == StoreSpec => []PredictionsAreBacked
<1>1. StoreInv => PredictionsAreBacked
  BY DEF StoreInv, ModelInv, PredictionInv, PredictionsAreBacked
<1> QED BY <1>1, StoreInitInv, StoreStep, PTL DEF StoreSpec

-----------------------------------------------------------------------------
(* GridIngest.  The readings of a post are nowhere until its commit, and all in
   the table once it is committed. *)

EntriesOf(p) == {<<p, i>> : i \in DOMAIN NodesOf[p]}

PostInv(p) ==
  /\ gpc[p] \in {"get", "node", "reading", "leaked"} => EntriesOf(p) \cap readings = {}
  /\ gpc[p] \in {"answer", "answered"} => EntriesOf(p) \subseteq readings
  /\ gpc[p] \in {"node", "reading"} => More(p)

GridInv == GridTypeOK /\ \A p \in GridPosts : at[p] <= Len(NodesOf[p]) /\ PostInv(p)

LEMMA NodesOfType == \A p \in GridPosts : NodesOf[p] \in Seq(GridNodes)
  BY GridIngestAssumption

\* The variables keep their types, and no post flushes more readings than it
\* has (ensure_node, ingest, commit).
THEOREM GridTyped == GridSpec => [](GridTypeOK /\ \A p \in GridPosts : at[p] <= Len(NodesOf[p]))
<1> DEFINE IInv == GridTypeOK /\ \A p \in GridPosts :
                     /\ at[p] <= Len(NodesOf[p])
                     /\ gpc[p] \in {"node", "reading"} => More(p)
<1>1. GridInit => IInv
  BY NodesOfType, GridIngestAssumption DEF GridInit, GridTypeOK, More
<1>2. IInv /\ [GridNext]_gridVars => IInv'
  <2> SUFFICES ASSUME IInv, [GridNext]_gridVars PROVE IInv'
    OBVIOUS
  <2> USE DEF GridTypeOK, More, Goes, NodeAt
  <2>1. CASE UNCHANGED gridVars
    BY <2>1 DEF gridVars
  <2>2. ASSUME NEW p \in GridPosts, IngestPost(p) PROVE IInv'
    <3> NodesOf[p] \in Seq(GridNodes) BY NodesOfType
    <3> at[p] < Len(NodesOf[p]) => NodeAt(p) \in GridNodes
      BY DEF GridTypeOK
    <3>1. CASE GetNode(p) BY <3>1 DEF GetNode
    <3>2. CASE InsertNode(p) BY <3>2 DEF InsertNode
    <3>3. CASE Fails(p) BY <3>3 DEF Fails
    <3>4. CASE InsertReading(p) BY <3>4, NodesOfType DEF InsertReading
    <3>5. CASE GatherRaises(p) BY <3>5 DEF GatherRaises
    <3>6. CASE CommitPost(p) BY <3>6, NodesOfType DEF CommitPost
    <3>7. CASE AnswerPost(p) BY <3>7 DEF AnswerPost
    <3> QED
      BY <2>2, <3>1, <3>2, <3>3, <3>4, <3>5, <3>6, <3>7
      DEF IngestPost, NodeExists, NodeDeadlock, SessionCollected, PostLost
  <2> QED BY <2>1, <2>2 DEF GridNext
<1>3. IInv => GridTypeOK /\ \A p \in GridPosts : at[p] <= Len(NodesOf[p])
  OBVIOUS
<1> HIDE DEF IInv
<1> QED BY <1>1, <1>2, <1>3, PTL DEF GridSpec

\* The readings of another post are other rows.
LEMMA EntriesApart ==
  \A p, q \in GridPosts : p # q => EntriesOf(p) \cap EntriesOf(q) = {}
  BY DEF EntriesOf

LEMMA GridInvariance == GridSpec => []GridInv
<1>1. GridInit => \A p \in GridPosts : PostInv(p)
  BY NodesOfType, GridIngestAssumption DEF GridInit, GridTypeOK, PostInv, More
<1> DEFINE Typed == GridTypeOK /\ \A p \in GridPosts : at[p] <= Len(NodesOf[p])
           Placed == \A p \in GridPosts : PostInv(p)
<1>2. Typed /\ Placed /\ [GridNext]_gridVars => Placed'
  <2> SUFFICES ASSUME Typed, Placed, [GridNext]_gridVars, NEW q \in GridPosts
               PROVE  PostInv(q)'
    OBVIOUS
  <2> USE DEF GridTypeOK, PostInv, More, Goes
  <2>1. CASE UNCHANGED gridVars
    BY <2>1 DEF gridVars
  <2>2. ASSUME NEW p \in GridPosts, IngestPost(p) PROVE PostInv(q)'
    <3>1. CASE CommitPost(p)
      <4>1. readings' = readings \union EntriesOf(p)
        BY <3>1 DEF CommitPost, EntriesOf
      <4>2. gpc' = [gpc EXCEPT ![p] = "answer"] /\ at' = at
        BY <3>1 DEF CommitPost
      <4>3. CASE q = p
        BY <4>1, <4>2, <4>3
      <4>4. CASE q # p
        BY <4>1, <4>2, <4>4, EntriesApart
      <4> QED BY <4>3, <4>4
    <3>2. CASE GetNode(p) BY <3>2 DEF GetNode
    <3>3. CASE InsertNode(p) BY <3>3 DEF InsertNode
    <3>4. CASE Fails(p) BY <3>4 DEF Fails
    <3>5. CASE InsertReading(p) BY <3>5 DEF InsertReading
    <3>6. CASE GatherRaises(p) BY <3>6 DEF GatherRaises
    <3>7. CASE AnswerPost(p) BY <3>7 DEF AnswerPost
    <3> QED
      BY <2>2, <3>1, <3>2, <3>3, <3>4, <3>5, <3>6, <3>7
      DEF IngestPost, NodeExists, NodeDeadlock, SessionCollected, PostLost
  <2> QED BY <2>1, <2>2 DEF GridNext
<1>3. Typed /\ Placed => GridInv
  BY DEF GridInv
<1> HIDE DEF Typed, Placed
<1>4. GridSpec => []Typed
  BY GridTyped DEF Typed
<1>5. GridInit => Placed
  BY <1>1 DEF Placed
<1> QED BY <1>2, <1>3, <1>4, <1>5, PTL DEF GridSpec

\* Whole posts, each there once, and no 201 without them: the one commit of a
\* post is the step of the log, its answer the acknowledgement, and nothing
\* else that its coroutines, its rivals or a deadlock do can be seen
\* (ingest_batch).
THEOREM Refinement == GridSpec => ImplementsLog
<1> USE DEF Log!LogInit, Log!logVars
<1>1. GridInit => Log!LogInit
  BY DEF GridInit
<1>2. GridInv /\ [GridNext]_gridVars => [Log!LogNext]_(Log!logVars)
  <2> SUFFICES ASSUME GridInv, [GridNext]_gridVars PROVE [Log!LogNext]_(Log!logVars)
    OBVIOUS
  <2> USE DEF GridInv, GridTypeOK
  <2> DEFINE Entries == [p \in GridPosts |-> {<<p, i>> : i \in DOMAIN NodesOf[p]}]
             Acked == {p \in GridPosts : gpc[p] = "answered"}
  <2>1. CASE UNCHANGED gridVars
    BY <2>1 DEF gridVars
  <2>2. ASSUME NEW p \in GridPosts, CommitPost(p) PROVE Log!AppendAll(p)
    <3>1. Entries[p] = EntriesOf(p)
      BY DEF EntriesOf
    <3>2. EntriesOf(p) \cap readings = {}
      BY <2>2 DEF CommitPost, PostInv
    <3>3. readings' = readings \union EntriesOf(p)
      BY <2>2 DEF CommitPost, EntriesOf
    <3>4. Acked' = Acked
      BY <2>2 DEF CommitPost, Goes
    <3> QED BY <3>1, <3>2, <3>3, <3>4 DEF Log!AppendAll
  <2>3. ASSUME NEW p \in GridPosts, AnswerPost(p) PROVE Log!Acknowledge(p)
    <3>1. Entries[p] \subseteq readings
      BY <2>3 DEF AnswerPost, PostInv, EntriesOf
    <3>2. p \notin Acked /\ Acked' = Acked \union {p} /\ readings' = readings
      BY <2>3 DEF AnswerPost, Goes
    <3> QED BY <3>1, <3>2 DEF Log!Acknowledge
  <2>4. ASSUME NEW p \in GridPosts, IngestPost(p), ~CommitPost(p), ~AnswerPost(p)
        PROVE  UNCHANGED <<readings, Acked>>
    <3> USE <2>4 DEF Goes
    <3>1. CASE GetNode(p) BY <3>1 DEF GetNode
    <3>2. CASE InsertNode(p) BY <3>2 DEF InsertNode
    <3>3. CASE InsertReading(p) BY <3>3 DEF InsertReading
    <3>4. CASE GatherRaises(p) BY <3>4 DEF GatherRaises
    <3>5. CASE Fails(p) /\ gpc[p] \in {"get", "node", "reading", "answer", "leaked"}
      BY <3>5 DEF Fails
    <3>6. NodeDeadlock(p) => gpc[p] = "node"
      BY DEF NodeDeadlock, NodeTaken
    <3> QED
      BY <3>1, <3>2, <3>3, <3>4, <3>5, <3>6
      DEF IngestPost, NodeExists, NodeDeadlock, SessionCollected, PostLost
  <2> QED BY <2>1, <2>2, <2>3, <2>4 DEF GridNext, Log!LogNext
<1> QED BY <1>1, <1>2, GridInvariance, PTL DEF GridSpec, ImplementsLog, Log!LogSpec

-----------------------------------------------------------------------------
(* Reoptimisation.  Every run was decided by the age at its moment, and what the
   broker delivers once more is too old to be acted upon. *)

OkIn(q) == {i \in DOMAIN q : q[i].result = "ok"}
Okays(d) == Cardinality(OkIn(runs[d]))

\* When copies and tasks can be about, and when the first task came.
Under(d) ==
  /\ sent[d] = Unsent => queue[d] = 0 /\ handed[d] = 0 /\ runs[d] = <<>>
  /\ sent[d] # Unsent => sent[d] <= now
  /\ queue[d] > 0 => handed[d] > 0 /\ kind[d] \in {"plain", "undated", "unfit"}
  /\ handed[d] > 0 => sent[d] <= handedAt[d] /\ handedAt[d] <= now

\* A run was decided by the age of the message.
Decided(d) == \A i \in DOMAIN runs[d] :
  /\ runs[d][i].result = "ok" => kind[d] = "undated" \/ runs[d][i].at - sent[d] <= MaxAge
  /\ runs[d][i].result = "skipped_stale" => runs[d][i].at - sent[d] > MaxAge

\* As long as nothing can have been delivered again, the runs that acted and
\* the tasks that wait are among those handed over.
Paid(d) == kind[d] = "plain" =>
  /\ Okays(d) <= handed[d]
  /\ (Okays(d) + queue[d] <= handed[d]) \/ (handed[d] > 0 /\ now - handedAt[d] > Visibility)

ReoptInv ==
  /\ ReoptTypeOK
  /\ \A i \in DOMAIN channel : sent[channel[i]] # Unsent
  /\ \A d \in Deviations : Under(d) /\ Decided(d) /\ Paid(d)

LEMMA OkaysType ==
  ASSUME NEW s \in Seq(Run)
  PROVE  IsFiniteSet(OkIn(s)) /\ Cardinality(OkIn(s)) \in Nat
<1>1. Len(s) \in Nat /\ DOMAIN s = 1 .. Len(s)
  OBVIOUS
<1>2. IsFiniteSet(1 .. Len(s)) /\ OkIn(s) \subseteq 1 .. Len(s)
  BY <1>1, UpTo DEF OkIn
<1> QED BY <1>2, FS_Subset, FS_CardinalityType

\* The types of what concerns one message.
LEMMA OfMessage ==
  ASSUME ReoptTypeOK, NEW d \in Deviations
  PROVE  /\ now \in 0 .. MaxTime /\ now \in Nat /\ now # Unsent
         /\ queue[d] \in Nat /\ handed[d] \in Nat /\ Okays(d) \in Nat
         /\ sent[d] \in Nat /\ handedAt[d] \in Nat /\ kind[d] \in Kinds
         /\ runs[d] \in Seq(Run)
<1>1. Unsent \in Nat /\ now # Unsent
  BY ReoptimisationAssumption DEF Unsent, ReoptTypeOK
<1>2. runs[d] \in Seq(Run)
  BY DEF ReoptTypeOK
<1> QED BY <1>1, <1>2, OkaysType DEF ReoptTypeOK, Okays

\* One more run, and whether it acted.
LEMMA OneMoreRun ==
  ASSUME NEW s \in Seq(Run), NEW r \in Run
  PROVE  /\ Append(s, r) \in Seq(Run)
         /\ r.result = "ok" =>
              Cardinality(OkIn(Append(s, r))) = Cardinality(OkIn(s)) + 1
         /\ r.result # "ok" =>
              Cardinality(OkIn(Append(s, r))) = Cardinality(OkIn(s))
         /\ DOMAIN Append(s, r) = DOMAIN s \union {Len(s) + 1}
         /\ Append(s, r)[Len(s) + 1] = r
         /\ \A i \in DOMAIN s : Append(s, r)[i] = s[i]
<1> DEFINE t == Append(s, r)  n == Len(s)  S == OkIn(s)  T == OkIn(t)
<1>1. n \in Nat /\ DOMAIN s = 1 .. n /\ DOMAIN t = 1 .. n + 1 /\ t \in Seq(Run)
  OBVIOUS
<1>2. t[n + 1] = r /\ \A i \in 1 .. n : t[i] = s[i]
  OBVIOUS
<1>3. IsFiniteSet(S) /\ Cardinality(S) \in Nat
  BY <1>1, OkaysType
<1>4. 1 .. n + 1 = (1 .. n) \union {n + 1} /\ n + 1 \notin 1 .. n
  BY <1>1
<1>5. Cardinality(T) = Cardinality(S) + (IF r.result = "ok" THEN 1 ELSE 0)
  <2>1. CASE r.result = "ok"
    <3>1. T = S \union {n + 1} /\ n + 1 \notin S
      BY <1>1, <1>2, <1>4, <2>1 DEF OkIn
    <3> HIDE DEF S, T
    <3> QED BY <1>3, <2>1, <3>1, FS_AddElement
  <2>2. CASE r.result # "ok"
    <3>1. T = S
      BY <1>1, <1>2, <1>4, <2>2 DEF OkIn
    <3> HIDE DEF S, T
    <3> QED BY <1>3, <2>2, <3>1
  <2> QED BY <2>1, <2>2
<1> QED BY <1>1, <1>2, <1>3, <1>4, <1>5

\* Nothing that concerns d has changed but the hour.
LEMMA OthersKeep ==
  ASSUME ReoptInv, NEW d \in Deviations, now' \in 0 .. MaxTime, now <= now',
         UNCHANGED <<queue[d], kind[d], sent[d], handed[d], handedAt[d], runs[d]>>
  PROVE  Under(d)' /\ Decided(d)' /\ Paid(d)'
<1>1. Under(d) /\ Decided(d) /\ Paid(d) /\ ReoptTypeOK
  BY DEF ReoptInv
<1>2. now' \in Nat /\ Visibility \in Nat
  BY ReoptimisationAssumption
<1>3. Okays(d)' = Okays(d)
  BY DEF Okays
<1>4. Under(d)'
  BY <1>1, <1>2, OfMessage DEF Under
<1>5. Decided(d)'
  BY <1>1 DEF Decided
<1>6. Paid(d)'
  BY <1>1, <1>2, <1>3, OfMessage DEF Paid
<1> QED BY <1>4, <1>5, <1>6

\* A worker takes a task: a run that acts is paid for by a task handed over,
\* because one that may have been delivered again is stale.
LEMMA TakenKeeps ==
  ASSUME ReoptInv, NEW d \in Deviations, NEW result \in Results, Taken(d, result),
         result = "ok" => kind[d] = "undated" \/ (kind[d] = "plain" /\ ~Stale(d)),
         result = "skipped_stale" => Stale(d)
  PROVE  ReoptInv'
<1> DEFINE r == [at |-> now, result |-> result]
<1>1. /\ queue \in [Deviations -> Nat] /\ runs \in [Deviations -> Seq(Run)] /\ r \in Run
      /\ queue[d] > 0 /\ queue' = [queue EXCEPT ![d] = @ - 1]
      /\ runs' = [runs EXCEPT ![d] = Append(@, r)]
      /\ UNCHANGED <<now, listening, channel, kind, sent, handed, handedAt>>
  BY DEF ReoptInv, ReoptTypeOK, Taken, Run
<1>2. /\ runs'[d] = Append(runs[d], r) /\ runs[d] \in Seq(Run) /\ queue'[d] = queue[d] - 1
      /\ \A e \in Deviations : e # d => runs'[e] = runs[e] /\ queue'[e] = queue[e]
  BY <1>1
<1>3. /\ runs'[d] \in Seq(Run)
      /\ Okays(d)' = Okays(d) + (IF result = "ok" THEN 1 ELSE 0)
      /\ DOMAIN runs'[d] = DOMAIN runs[d] \union {Len(runs[d]) + 1}
      /\ runs'[d][Len(runs[d]) + 1] = r
      /\ \A i \in DOMAIN runs[d] : runs'[d][i] = runs[d][i]
  <2>1. r.result = result
    OBVIOUS
  <2> HIDE DEF r
  <2> DEFINE t == runs'[d]
  <2>2. t = Append(runs[d], r) /\ runs[d] \in Seq(Run) /\ r \in Run
    BY <1>1, <1>2
  <2> HIDE DEF t
  <2>3. /\ t \in Seq(Run)
        /\ r.result = "ok" => Cardinality(OkIn(t)) = Cardinality(OkIn(runs[d])) + 1
        /\ r.result # "ok" => Cardinality(OkIn(t)) = Cardinality(OkIn(runs[d]))
        /\ DOMAIN t = DOMAIN runs[d] \union {Len(runs[d]) + 1} /\ t[Len(runs[d]) + 1] = r
        /\ \A i \in DOMAIN runs[d] : t[i] = runs[d][i]
    BY <2>2, OneMoreRun
  <2>4. Okays(d)' = Cardinality(OkIn(t)) /\ Okays(d) = Cardinality(OkIn(runs[d]))
    BY DEF Okays, t
  <2>5. Okays(d) \in Nat
    BY <2>2, <2>4, OkaysType
  <2>6. Okays(d)' = Okays(d) + (IF result = "ok" THEN 1 ELSE 0)
    BY <2>1, <2>3, <2>4, <2>5
  <2> QED BY <2>3, <2>6 DEF t
<1>4. ReoptTypeOK'
  BY <1>1, <1>2, <1>3 DEF ReoptInv, ReoptTypeOK
<1>5. \A i \in DOMAIN channel' : sent'[channel'[i]] # Unsent
  BY <1>1 DEF ReoptInv
<1> HIDE DEF r
<1>6. Under(d) /\ Decided(d) /\ Paid(d)
  BY DEF ReoptInv
<1>7. sent[d] # Unsent /\ handed[d] > 0 /\ sent[d] <= handedAt[d] /\ handedAt[d] <= now
  BY <1>1, <1>6 DEF Under
<1>8. Under(d)'
  BY <1>1, <1>2, <1>6, <1>7 DEF Under, ReoptInv, ReoptTypeOK
<1>9. Decided(d)'
  <2>1. r.at = now /\ r.result = result
    BY DEF r
  <2>2. /\ result = "ok" => kind[d] = "undated" \/ now - sent[d] <= MaxAge
        /\ result = "skipped_stale" => now - sent[d] > MaxAge
    BY OfMessage, ReoptimisationAssumption DEF Stale, ReoptInv
  <2>3. kind'[d] = kind[d] /\ sent'[d] = sent[d]
    BY <1>1
  <2> SUFFICES ASSUME NEW i \in DOMAIN runs'[d]
               PROVE  LET q == runs'[d][i]
                      IN  /\ q.result = "ok" => kind[d] = "undated" \/ q.at - sent[d] <= MaxAge
                          /\ q.result = "skipped_stale" => q.at - sent[d] > MaxAge
    BY <2>3 DEF Decided
  <2>4. CASE i \in DOMAIN runs[d]
    BY <1>3, <1>6, <2>4 DEF Decided
  <2>5. CASE i = Len(runs[d]) + 1
    BY <1>3, <2>1, <2>2, <2>5
  <2> QED BY <1>3, <2>4, <2>5
<1>10. Paid(d)'
  <2> SUFFICES ASSUME kind[d] = "plain"
               PROVE  /\ Okays(d)' <= handed[d]
                      /\ \/ Okays(d)' + queue'[d] <= handed[d]
                         \/ handed[d] > 0 /\ now - handedAt[d] > Visibility
    BY <1>1 DEF Paid
  <2>1. /\ Okays(d) <= handed[d]
        /\ (Okays(d) + queue[d] <= handed[d]) \/ (now - handedAt[d] > Visibility)
    BY <1>6 DEF Paid
  <2>2. /\ now \in Nat /\ sent[d] \in Nat /\ handedAt[d] \in Nat /\ handed[d] \in Nat
        /\ queue[d] \in Nat /\ Okays(d) \in Nat
    BY OfMessage DEF ReoptInv
  <2>3. CASE result = "ok"
    <3>1. now - sent[d] <= MaxAge
      BY <2>2, <2>3, ReoptimisationAssumption DEF Stale
    <3>2. ~(now - handedAt[d] > Visibility)
      BY <1>7, <2>2, <3>1, ReoptimisationAssumption
    <3> QED BY <1>1, <1>2, <1>3, <2>1, <2>2, <2>3, <3>2
  <2>4. CASE result # "ok"
    BY <1>2, <1>3, <1>7, <2>1, <2>2, <2>4
  <2> QED BY <2>3, <2>4
<1>11. ASSUME NEW e \in Deviations, e # d PROVE Under(e)' /\ Decided(e)' /\ Paid(e)'
  <2>1. now' \in 0 .. MaxTime /\ now <= now'
    BY <1>1, OfMessage DEF ReoptInv
  <2> QED BY <1>1, <1>2, <1>11, <2>1, OthersKeep
<1> QED BY <1>4, <1>5, <1>8, <1>9, <1>10, <1>11 DEF ReoptInv

\* What the loop reads, or loses, leaves fewer copies of what was sent.
LEMMA ChannelKeeps ==
  ASSUME ReoptInv, UNCHANGED sent, channel' = <<>> \/ (channel # <<>> /\ channel' = Tail(channel))
  PROVE  /\ channel' \in Seq(Deviations)
         /\ \A i \in DOMAIN channel' : sent'[channel'[i]] # Unsent
<1>1. channel \in Seq(Deviations)
  BY DEF ReoptInv, ReoptTypeOK
<1>2. CASE channel' = <<>>
  BY <1>2
<1>3. CASE channel # <<>> /\ channel' = Tail(channel)
  <2>1. channel' \in Seq(Deviations) /\ DOMAIN channel' = 1 .. Len(channel) - 1
    BY <1>1, <1>3
  <2>2. \A i \in DOMAIN channel' : channel'[i] = channel[i + 1] /\ i + 1 \in DOMAIN channel
    BY <1>1, <1>3, <2>1
  <2> QED BY <2>1, <2>2 DEF ReoptInv
<1> QED BY <1>2, <1>3

LEMMA HandOverKeeps ==
  ASSUME ReoptInv, channel # <<>>, NEW d, d = Head(channel), HandOver(d),
         kind[d] \in {"plain", "undated", "unfit"}
  PROVE  ReoptInv'
<1>1. d \in Deviations /\ sent[d] # Unsent
  BY DEF ReoptInv, ReoptTypeOK
<1>2. PICK n \in 0 .. Attempts :
        /\ queue' = [queue EXCEPT ![d] = @ + n]
        /\ handed' = [handed EXCEPT ![d] = @ + n]
        /\ handedAt' = IF n = 0 \/ handed[d] > 0 THEN handedAt
                       ELSE [handedAt EXCEPT ![d] = now]
        /\ \/ n > 0 /\ channel' = Tail(channel) /\ UNCHANGED listening
           \/ LoopEnds
        /\ UNCHANGED <<now, kind, sent, runs>>
  BY DEF HandOver
<1>3. n \in Nat
  BY <1>2, ReoptimisationAssumption
<1>4. /\ channel' \in Seq(Deviations) /\ listening' \in BOOLEAN
      /\ \A i \in DOMAIN channel' : sent'[channel'[i]] # Unsent
  BY <1>2, ChannelKeeps, Zenon DEF LoopEnds, ReoptInv, ReoptTypeOK
<1>5. ReoptTypeOK'
  <2>0. queue \in [Deviations -> Nat] /\ handed \in [Deviations -> Nat]
    BY DEF ReoptInv, ReoptTypeOK
  <2>1. queue' \in [Deviations -> Nat] /\ handed' \in [Deviations -> Nat]
    <3>1. queue[d] + n \in Nat /\ handed[d] + n \in Nat
      BY <1>1, <1>3, <2>0
    <3> QED BY <1>2, <2>0, <3>1
  <2>2. handedAt' \in [Deviations -> 0 .. Unsent]
    <3>1. handedAt \in [Deviations -> 0 .. Unsent] /\ now \in 0 .. Unsent
      BY ReoptimisationAssumption DEF ReoptInv, ReoptTypeOK, Unsent
    <3>2. CASE UNCHANGED handedAt
      BY <3>1, <3>2
    <3>3. CASE handedAt' = [handedAt EXCEPT ![d] = now]
      BY <3>1, <3>3
    <3> QED BY <1>2, <3>2, <3>3
  <2> QED BY <1>2, <1>4, <2>1, <2>2 DEF ReoptInv, ReoptTypeOK
<1>6. Under(d) /\ Decided(d) /\ Paid(d)
  BY <1>1 DEF ReoptInv
<1>7. /\ now \in Nat /\ sent[d] \in Nat /\ sent[d] <= now /\ handedAt[d] \in Nat
      /\ handed[d] \in Nat /\ queue[d] \in Nat /\ Okays(d) \in Nat
  BY <1>1, <1>6, OfMessage DEF ReoptInv, Under
<1>8. /\ queue'[d] = queue[d] + n /\ handed'[d] = handed[d] + n
      /\ handed[d] > 0 => handedAt'[d] = handedAt[d]
      /\ handed[d] = 0 /\ n > 0 => handedAt'[d] = now
      /\ runs'[d] = runs[d] /\ kind'[d] = kind[d] /\ sent'[d] = sent[d] /\ now' = now
  <2>1. /\ DOMAIN queue = Deviations /\ DOMAIN handed = Deviations
        /\ DOMAIN handedAt = Deviations
    BY DEF ReoptInv, ReoptTypeOK
  <2>2. queue'[d] = queue[d] + n /\ handed'[d] = handed[d] + n
    BY <1>1, <1>2, <2>1
  <2>3. handed[d] > 0 => handedAt' = handedAt
    BY <1>2
  <2>4. handed[d] = 0 /\ n > 0 => handedAt'[d] = now
    BY <1>1, <1>2, <2>1
  <2> QED BY <1>2, <2>2, <2>3, <2>4
<1>9. Under(d)'
  <2>1. /\ queue[d] + n > 0 => handed[d] + n > 0
        /\ handed[d] + n > 0 => sent[d] <= handedAt'[d] /\ handedAt'[d] <= now
    BY <1>1, <1>3, <1>6, <1>7, <1>8 DEF Under
  <2>2. Unsent' = Unsent
    BY DEF Unsent
  <2> QED BY <1>1, <1>7, <1>8, <2>1, <2>2 DEF Under
<1>10. Decided(d)'
  BY <1>6, <1>8 DEF Decided
<1>11. Paid(d)'
  <2>1. Okays(d)' = Okays(d)
    BY <1>8 DEF Okays
  <2>2. handed[d] = 0 => queue[d] = 0
    BY <1>6, <1>7 DEF Under
  <2> SUFFICES ASSUME kind[d] = "plain"
               PROVE  /\ Okays(d) <= handed[d] + n
                      /\ \/ Okays(d) + (queue[d] + n) <= handed[d] + n
                         \/ handed[d] + n > 0 /\ now - handedAt'[d] > Visibility
    BY <1>8, <2>1 DEF Paid
  <2>3. /\ Okays(d) <= handed[d]
        /\ \/ Okays(d) + queue[d] <= handed[d]
           \/ handed[d] > 0 /\ now - handedAt[d] > Visibility
    BY <1>6 DEF Paid
  <2> QED BY <1>3, <1>7, <1>8, <2>3
<1>12. ASSUME NEW e \in Deviations, e # d PROVE Under(e)' /\ Decided(e)' /\ Paid(e)'
  <2>1. UNCHANGED <<queue[e], kind[e], sent[e], handed[e], handedAt[e], runs[e]>>
    BY <1>1, <1>2, <1>12 DEF ReoptInv, ReoptTypeOK
  <2>2. now' \in 0 .. MaxTime /\ now <= now'
    BY <1>2, <1>7 DEF ReoptInv, ReoptTypeOK
  <2> QED BY <2>1, <2>2, OthersKeep
<1> QED BY <1>4, <1>5, <1>9, <1>10, <1>11, <1>12 DEF ReoptInv

LEMMA PublishKeeps ==
  ASSUME ReoptInv, NEW d \in Deviations, NEW k \in Kinds, Publish(d, k)
  PROVE  ReoptInv'
<1>1. PICK n \in 0 .. (IF listening THEN Attempts ELSE 0) :
        channel' = channel \o [i \in 1 .. n |-> d]
  BY DEF Publish
<1>2. n \in Nat /\ [i \in 1 .. n |-> d] \in Seq(Deviations) /\ channel \in Seq(Deviations)
  BY <1>1, ReoptimisationAssumption DEF ReoptInv, ReoptTypeOK
<1>3. /\ sent[d] = Unsent /\ sent' = [sent EXCEPT ![d] = now]
      /\ kind' = [kind EXCEPT ![d] = k]
      /\ UNCHANGED <<now, listening, queue, handed, handedAt, runs>>
  BY DEF Publish
<1>4. now \in 0 .. MaxTime /\ now # Unsent /\ sent \in [Deviations -> 0 .. Unsent]
  BY ReoptimisationAssumption DEF ReoptInv, ReoptTypeOK, Unsent
<1>5. /\ channel' \in Seq(Deviations)
      /\ \A i \in DOMAIN channel' : channel'[i] = d \/ sent[channel'[i]] # Unsent
  <2> DEFINE c == [i \in 1 .. n |-> d]
  <2>1. Len(channel) \in Nat /\ Len(c) = n /\ DOMAIN channel = 1 .. Len(channel)
    BY <1>2
  <2>2. /\ channel \o c \in Seq(Deviations)
        /\ DOMAIN (channel \o c) = 1 .. Len(channel) + n
        /\ \A i \in 1 .. Len(channel) + n :
             (channel \o c)[i] = IF i <= Len(channel) THEN channel[i] ELSE c[i - Len(channel)]
    BY <1>2, <2>1
  <2>3. \A i \in 1 .. Len(channel) + n :
          i \in DOMAIN channel \/ c[i - Len(channel)] = d
    BY <1>2, <2>1
  <2> QED BY <1>1, <1>2, <2>1, <2>2, <2>3 DEF ReoptInv
<1>6. ReoptTypeOK'
  BY <1>3, <1>4, <1>5, ReoptimisationAssumption DEF ReoptInv, ReoptTypeOK, Unsent
<1>7. \A i \in DOMAIN channel' : sent'[channel'[i]] # Unsent
  <2>1. \A i \in DOMAIN channel' : channel'[i] \in Deviations
    BY <1>5
  <2> QED BY <1>3, <1>4, <1>5, <2>1
<1>8. Under(d)' /\ Decided(d)' /\ Paid(d)'
  <2>1. queue[d] = 0 /\ handed[d] = 0 /\ runs[d] = <<>>
    BY <1>3 DEF ReoptInv, Under
  <2>2. Okays(d)' = 0 /\ DOMAIN runs'[d] = {}
    <3>1. DOMAIN runs'[d] = {}
      BY <1>3, <2>1
    <3>2. OkIn(runs'[d]) = {}
      BY <3>1 DEF OkIn
    <3> QED BY <3>1, <3>2, FS_EmptySet DEF Okays
  <2>3. sent'[d] = now
    BY <1>3, <1>4
  <2> QED BY <1>3, <1>4, <2>1, <2>2, <2>3 DEF Under, Decided, Paid
<1>9. ASSUME NEW e \in Deviations, e # d PROVE Under(e)' /\ Decided(e)' /\ Paid(e)'
  <2>1. UNCHANGED <<queue[e], kind[e], sent[e], handed[e], handedAt[e], runs[e]>>
    BY <1>3, <1>9 DEF ReoptInv, ReoptTypeOK
  <2>2. now' \in 0 .. MaxTime /\ now <= now'
    BY <1>3, <1>4
  <2> QED BY <2>1, <2>2, OthersKeep
<1> QED BY <1>6, <1>7, <1>8, <1>9 DEF ReoptInv

\* What is delivered again has waited longer than the visibility timeout.
LEMMA RedeliverKeeps ==
  ASSUME ReoptInv, NEW d \in Deviations, Redeliver(d)
  PROVE  ReoptInv'
<1>1. /\ queue[d] > 0 /\ now - handedAt[d] > Visibility
      /\ queue' = [queue EXCEPT ![d] = @ + 1]
      /\ UNCHANGED <<now, listening, channel, kind, sent, handed, handedAt, runs>>
  BY DEF Redeliver
<1>2. now \in 0 .. MaxTime /\ queue \in [Deviations -> Nat]
  BY DEF ReoptInv, ReoptTypeOK
<1>3. ReoptTypeOK' /\ \A i \in DOMAIN channel' : sent'[channel'[i]] # Unsent
  BY <1>1 DEF ReoptInv, ReoptTypeOK
<1>4. Under(d)' /\ Decided(d)' /\ Paid(d)'
  <2>1. Under(d) /\ Decided(d) /\ Paid(d) /\ Okays(d)' = Okays(d)
    BY <1>1 DEF ReoptInv, Okays
  <2>2. queue'[d] = queue[d] + 1 /\ queue[d] \in Nat
    BY <1>1, <1>2
  <2>3. Under(d)' /\ Decided(d)'
    BY <1>1, <2>1, <2>2 DEF Under, Decided
  <2>4. Paid(d)'
    BY <1>1, <2>1, <2>2 DEF Under, Paid
  <2> QED BY <2>3, <2>4
<1>5. ASSUME NEW e \in Deviations, e # d PROVE Under(e)' /\ Decided(e)' /\ Paid(e)'
  <2>1. now' \in 0 .. MaxTime /\ now <= now'
    BY <1>1, <1>2
  <2> QED BY <1>1, <1>2, <1>5, <2>1, OthersKeep
<1> QED BY <1>3, <1>4, <1>5 DEF ReoptInv

LEMMA ReoptStep == ReoptInv /\ [ReoptNext]_reoptVars => ReoptInv'
<1> SUFFICES ASSUME ReoptInv, [ReoptNext]_reoptVars PROVE ReoptInv'
  OBVIOUS
<1>1. now \in 0 .. MaxTime
  BY DEF ReoptInv, ReoptTypeOK
<1>2. ASSUME UNCHANGED <<queue, kind, sent, handed, handedAt, runs>>, ReoptTypeOK',
             now <= now', \A i \in DOMAIN channel' : sent'[channel'[i]] # Unsent
      PROVE  ReoptInv'
  <2>1. now' \in 0 .. MaxTime
    BY <1>2 DEF ReoptTypeOK
  <2> QED BY <1>1, <1>2, <2>1, OthersKeep DEF ReoptInv
<1>3. CASE UNCHANGED reoptVars
  BY <1>1, <1>2, <1>3 DEF reoptVars, ReoptInv, ReoptTypeOK
<1>4. CASE HourPasses
  BY <1>1, <1>2, <1>4, ReoptimisationAssumption DEF HourPasses, ReoptInv, ReoptTypeOK
<1>5. CASE Subscribe
  BY <1>1, <1>2, <1>5 DEF Subscribe, ReoptInv, ReoptTypeOK
<1>6. ASSUME LoopEnds, UNCHANGED <<now, queue, kind, sent, handed, handedAt, runs>>
      PROVE  ReoptInv'
  <2>1. /\ channel' \in Seq(Deviations)
        /\ \A i \in DOMAIN channel' : sent'[channel'[i]] # Unsent
    BY <1>6, ChannelKeeps DEF LoopEnds
  <2>2. ReoptTypeOK'
    BY <1>6, <2>1, Zenon DEF LoopEnds, ReoptInv, ReoptTypeOK
  <2> QED BY <1>1, <1>2, <1>6, <2>1, <2>2
<1>7. CASE ConnectionLost
  BY <1>6, <1>7 DEF ConnectionLost
<1>8. CASE Listen
  <2>1. CASE /\ kind[Head(channel)] \in {"plain", "undated", "unfit"}
             /\ HandOver(Head(channel))
    BY <1>8, <2>1, HandOverKeeps DEF Listen
  <2>2. CASE /\ channel' = Tail(channel)
             /\ UNCHANGED <<now, listening, queue, kind, sent, handed, handedAt, runs>>
    <3>1. /\ channel' \in Seq(Deviations)
          /\ \A i \in DOMAIN channel' : sent'[channel'[i]] # Unsent
      BY <1>8, <2>2, ChannelKeeps DEF Listen
    <3>2. ReoptTypeOK'
      BY <2>2, <3>1 DEF ReoptInv, ReoptTypeOK
    <3> QED BY <1>1, <1>2, <2>2, <3>1, <3>2
  <2> QED BY <1>6, <1>8, <2>1, <2>2 DEF Listen
<1>9. ASSUME NEW d \in Deviations, RunTask(d) PROVE ReoptInv'
  <2>1. CASE kind[d] = "unfit"
    BY <1>9, <2>1, TakenKeeps DEF RunTask, Results
  <2>2. CASE kind[d] # "unfit" /\ Stale(d)
    BY <1>9, <2>2, TakenKeeps DEF RunTask, Results
  <2>3. CASE kind[d] \in {"plain", "undated"} /\ ~Stale(d)
    BY <1>9, <2>3, TakenKeeps DEF RunTask, Results
  <2>4. kind[d] \in {"plain", "undated", "unfit"}
    BY <1>9 DEF RunTask, Taken, ReoptInv, Under
  <2> QED BY <2>1, <2>2, <2>3, <2>4
<1>10. ASSUME NEW d \in Deviations, TaskLost(d) PROVE ReoptInv'
  BY <1>10, TakenKeeps DEF TaskLost, Results
<1> QED
  BY <1>3, <1>4, <1>5, <1>7, <1>8, <1>9, <1>10, PublishKeeps, RedeliverKeeps DEF ReoptNext

LEMMA ReoptInvariance == ReoptSpec => []ReoptInv
<1>1. ReoptInit => ReoptInv
  <2> SUFFICES ASSUME ReoptInit PROVE ReoptInv
    OBVIOUS
  <2>1. /\ now = 0 /\ channel = <<>> /\ DOMAIN channel = {}
        /\ \A d \in Deviations :
             /\ queue[d] = 0 /\ handed[d] = 0 /\ kind[d] = "plain"
             /\ sent[d] = Unsent /\ runs[d] = <<>> /\ DOMAIN runs[d] = {}
    BY DEF ReoptInit
  <2>2. ReoptTypeOK
    <3>1. listening \in BOOLEAN
      BY Zenon DEF ReoptInit
    <3> QED BY <3>1, ReoptimisationAssumption DEF ReoptInit, ReoptTypeOK, Unsent, Kinds
  <2>3. ASSUME NEW d \in Deviations PROVE Under(d) /\ Decided(d) /\ Paid(d)
    <3>1. Okays(d) = 0
      <4>1. OkIn(runs[d]) = {}
        BY <2>1 DEF OkIn
      <4> QED BY <4>1, FS_EmptySet DEF Okays
    <3> QED BY <2>1, <3>1 DEF Under, Decided, Paid
  <2> QED BY <2>1, <2>2, <2>3 DEF ReoptInv
<1> QED BY <1>1, ReoptStep, PTL DEF ReoptSpec

\* However often a deviation is published, handed over and delivered, its age at
\* the moment of each run decides whether that run acts upon it, and a second
\* delivery by the broker never makes it act again, because the message is stale
\* before the visibility timeout is over (start_deviation_subscriber,
\* _reopt_cycle), for any number of messages, attempts and tasks.
THEOREM FreshDeviations == ReoptSpec => []OnlyFreshDeviations
<1>1. ReoptInv => OnlyFreshDeviations
  BY DEF ReoptInv, Decided, Paid, Okays, OkIn, Acted, OnlyFreshDeviations
<1> QED BY <1>1, ReoptInvariance, PTL

-----------------------------------------------------------------------------
(* Collector.  A row per instant, and while the clock runs on the row stored last
   is the latest. *)

\* One row per instant; what the dashboard shows has not been overtaken.
Rows ==
  /\ table \subseteq polls /\ IsFiniteSet(table)
  /\ \A s, t \in table : s.ts = t.ts => s = t
  /\ status.ts = 0 \/ \E s \in table : s.ts >= status.ts
  /\ collector = "write" => snapshot \in polls

\* While the clock only runs on, the row stored last is the latest.
Ordered == ~steppedBack =>
  /\ \A s \in polls : s.ts <= clock
  /\ collector = "write" => \A s \in table : s.ts <= snapshot.ts
  /\ table # {} => last \in table /\ \A s \in table : s.ts <= last.ts

CollectorInv == CollectorTypeOK /\ Rows /\ Ordered

LEMMA CollectorTypes == \A s \in Snapshot \union {NoSnapshot} : s.ts \in 0 .. MaxClock
  BY CollectorAssumption DEF Snapshot, NoSnapshot

\* The row of an instant takes the place of the one before (INSERT OR REPLACE).
LEMMA WriteKeeps ==
  ASSUME CollectorInv, WriteMetric
  PROVE  CollectorInv'
<1> USE CollectorAssumption, CollectorTypes DEF CollectorInv, CollectorTypeOK, WriteMetric
<1>1. snapshot \in polls /\ snapshot \in Snapshot
  BY DEF Rows
<1>2. \A s \in table' : s = snapshot \/ (s \in table /\ s.ts # snapshot.ts)
  OBVIOUS
<1>3. snapshot \in table' /\ \A s \in table : s.ts = snapshot.ts \/ s \in table'
  OBVIOUS
<1>4. CollectorTypeOK'
  BY <1>1
<1>5. Rows'
  <2>1. table' \subseteq polls' /\ \A s, t \in table' : s.ts = t.ts => s = t
    BY <1>1, <1>2 DEF Rows
  <2>2. IsFiniteSet(table')
    <3>1. IsFiniteSet({s \in table : s.ts # snapshot.ts})
      BY FS_Subset DEF Rows
    <3> QED BY <3>1, FS_AddElement
  <2>3. status'.ts = 0 \/ \E s \in table' : s.ts >= status'.ts
    <3>1. CASE status.ts = 0
      BY <3>1
    <3>2. CASE status.ts # 0
      <4>1. PICK s \in table : s.ts >= status.ts
        BY <3>2 DEF Rows
      <4> QED BY <1>3, <4>1
    <3> QED BY <3>1, <3>2
  <2>4. collector' # "write"
    OBVIOUS
  <2> QED BY <2>1, <2>2, <2>3, <2>4 DEF Rows
<1>6. Ordered'
  BY <1>1, <1>2, <1>3 DEF Ordered
<1> QED BY <1>4, <1>5, <1>6

\* The greatest row, for the one statement that reads the table.
LEMMA LatestRows ==
  ASSUME CollectorInv
  PROVE  \A s \in Latest(1) : s \in table /\ \A o \in table : o.ts <= s.ts
<1> SUFFICES ASSUME NEW s \in Latest(1), NEW o \in table, o.ts > s.ts PROVE FALSE
  BY CollectorTypes DEF Latest, CollectorInv, CollectorTypeOK
<1> DEFINE Above == {p \in table : p.ts > s.ts}
<1>1. IsFiniteSet(Above) /\ Cardinality(Above) < 1
  BY FS_Subset DEF Latest, CollectorInv, Rows
<1>2. Cardinality(Above) \in Nat /\ (Cardinality(Above) = 0 <=> Above = {})
  BY <1>1, FS_CardinalityType, FS_EmptySet
<1> QED BY <1>1, <1>2

LEMMA SomeLatest == CollectorInv /\ table # {} => Latest(1) # {}
<1> SUFFICES ASSUME CollectorInv, table # {} PROVE Latest(1) # {}
  OBVIOUS
<1> USE CollectorAssumption, CollectorTypes DEF CollectorInv, CollectorTypeOK
<1> DEFINE Ages == {MaxClock - s.ts : s \in table}
<1>1. Ages \subseteq Nat /\ Ages # {}
  OBVIOUS
<1>2. PICK a \in Ages : \A b \in Ages : a <= b
  BY <1>1, Least
<1>3. PICK s \in table : a = MaxClock - s.ts
  BY <1>2
<1>4. ASSUME NEW o \in table, o.ts > s.ts PROVE FALSE
  <2>1. o.ts \in 0 .. MaxClock /\ s.ts \in 0 .. MaxClock /\ MaxClock - o.ts \in Ages
    OBVIOUS
  <2>2. a <= MaxClock - o.ts
    BY <1>2, <2>1
  <2> QED BY <1>3, <1>4, <2>1, <2>2
<1> DEFINE Above == {o \in table : o.ts > s.ts}
<1>5. Above = {}
  BY <1>4
<1>6. Cardinality(Above) = 0
  BY <1>5, FS_EmptySet, Zenon
<1> QED BY <1>6 DEF Latest

LEMMA CollectorStep == CollectorInv /\ [CollectorNext]_collectorVars => CollectorInv'
<1> SUFFICES ASSUME CollectorInv, [CollectorNext]_collectorVars PROVE CollectorInv'
  OBVIOUS
<1> USE CollectorAssumption, CollectorTypes DEF CollectorInv, CollectorTypeOK, Rows, Ordered
<1>1. CASE UNCHANGED collectorVars
  BY <1>1 DEF collectorVars
<1>2. CASE PublishRegisters
  BY <1>2 DEF PublishRegisters
<1>3. CASE ClockRuns
  BY <1>3 DEF ClockRuns
<1>4. CASE ClockSetBack
  BY <1>4 DEF ClockSetBack
<1>5. CASE Start
  BY <1>5 DEF Start
<1>6. CASE ConnectionBreaks
  BY <1>6 DEF ConnectionBreaks
<1>7. CASE PollRegisters
  <2>1. snapshot' = [ts |-> clock, regs |-> published] /\ snapshot' \in Snapshot
    BY <1>7 DEF PollRegisters, Snapshot
  <2> QED BY <1>7, <2>1 DEF PollRegisters
<1>8. CASE WriteMetric
  BY <1>8, WriteKeeps
<1>9. CASE WriteFails
  BY <1>9 DEF WriteFails
<1>10. CASE Status
  <2>1. UNCHANGED <<published, clock, steppedBack, collector, snapshot, polls, last, table>>
    BY <1>10 DEF Status
  <2>2. CASE table = {}
    BY <1>10, <2>1, <2>2 DEF Status, NoSnapshot
  <2>3. CASE table # {}
    <3>1. status' \in table
      BY <1>10, <2>3, LatestRows, SomeLatest DEF Status
    <3>2. status'.ts \in 0 .. MaxClock
      BY <3>1
    <3> QED BY <2>1, <3>1, <3>2
  <2> QED BY <2>2, <2>3
<1> QED BY <1>1, <1>2, <1>3, <1>4, <1>5, <1>6, <1>7, <1>8, <1>9, <1>10 DEF CollectorNext

LEMMA CollectorInvariance == CollectorSpec => []CollectorInv
<1>1. CollectorInit => CollectorInv
  <2> SUFFICES ASSUME CollectorInit PROVE CollectorInv
    OBVIOUS
  <2>1. CollectorTypeOK
    <3>1. clock \in 1 .. MaxClock
      BY CollectorAssumption DEF CollectorInit
    <3> QED BY <3>1, Zenon DEF CollectorInit, CollectorTypeOK
  <2>2. Rows /\ Ordered
    <3>1. NoSnapshot.ts = 0
      BY DEF NoSnapshot
    <3> QED BY <3>1, FS_EmptySet DEF CollectorInit, Rows, Ordered
  <2> QED BY <2>1, <2>2 DEF CollectorInv
<1> QED BY <1>1, CollectorStep, PTL DEF CollectorSpec

\* What the dashboard shows was polled in one piece, is never followed by an
\* older row, and is the row stored last while the clock is not set back
\* (status, parse_registers and write_metric): the table has one row per instant,
\* and a row gives way only to one of its own instant.
THEOREM DashboardLatest == CollectorSpec => StatusIsLatest
<1> DEFINE Answered == status' # status =>
             /\ status' \in polls /\ status'.ts >= status.ts
             /\ ~steppedBack => status' = last
<1>1. CollectorInv /\ [CollectorNext]_collectorVars => [Answered]_collectorVars
  <2> SUFFICES ASSUME CollectorInv, [CollectorNext]_collectorVars, status' # status PROVE Answered
    OBVIOUS
  <2>1. Status
    BY DEF collectorVars, CollectorNext, PublishRegisters, ClockRuns, ClockSetBack, Start,
           ConnectionBreaks, PollRegisters, WriteMetric, WriteFails
  <2>2. table # {}
    BY <2>1 DEF Status, CollectorInv, CollectorTypeOK, Rows, Snapshot, NoSnapshot
  <2>3. status' \in Latest(1)
    BY <2>1, <2>2, SomeLatest DEF Status
  <2>4. status' \in table /\ \A o \in table : o.ts <= status'.ts
    BY <2>3, LatestRows
  <2> QED BY <2>2, <2>4, CollectorTypes DEF CollectorInv, CollectorTypeOK, Rows, Ordered
<1> QED BY <1>1, CollectorInvariance, PTL DEF CollectorSpec, StatusIsLatest

-----------------------------------------------------------------------------
(* The composition. *)

\* A step of the composition is one of each service, or leaves it alone.
LEMMA EachService ==
  [Next]_<<service, archiveVars, fleetVars, storeVars, gridVars, reoptVars, collectorVars>> =>
    /\ [ArchiveNext]_archiveVars /\ [FleetNext]_fleetVars /\ [StoreNext]_storeVars
    /\ [GridNext]_gridVars /\ [ReoptNext]_reoptVars /\ [CollectorNext]_collectorVars
<1> SUFFICES ASSUME [Next]_<<service, archiveVars, fleetVars, storeVars, gridVars, reoptVars, collectorVars>>
             PROVE  /\ [ArchiveNext]_archiveVars /\ [FleetNext]_fleetVars /\ [StoreNext]_storeVars
                    /\ [GridNext]_gridVars /\ [ReoptNext]_reoptVars /\ [CollectorNext]_collectorVars
  OBVIOUS
<1> QED BY DEF Next, Only

\* The services that share nothing behave together as each does alone.
LEMMA Composed ==
  Spec => /\ ArchiveSpec /\ FleetSpec /\ StoreSpec
          /\ GridSpec /\ ReoptSpec /\ CollectorSpec
<1>1. Init => /\ ArchiveInit /\ FleetInit /\ StoreInit
              /\ GridInit /\ ReoptInit /\ CollectorInit
  BY DEF Init
<1> QED
  BY <1>1, EachService, PTL
  DEF Spec, ArchiveSpec, FleetSpec, StoreSpec, GridSpec, ReoptSpec, CollectorSpec

\* Every service keeps its types, whichever of them runs (the handlers, tasks
\* and loops of the six services, the walk of a client through list_events and
\* the results of nearest_neighbor_route and total_route_distance included).
THEOREM ServicesTyped == Spec => []TypeOK
<1>1. ArchiveInv /\ WalkInv => ArchiveTypeOK
  BY DEF ArchiveInv, ArchiveTyped, WalkInv, WalkTyped, ArchiveTypeOK
<1>2. FleetInv => FleetTypeOK
  BY DEF FleetInv
<1>3. ReoptInv => ReoptTypeOK
  BY DEF ReoptInv
<1>4. CollectorInv => CollectorTypeOK
  BY DEF CollectorInv
<1>5. ArchiveSpec => []ArchiveInv
  BY ArchiveInitInv, ArchiveStep, PTL DEF ArchiveSpec
<1>6. GridSpec => []GridTypeOK
  BY GridTyped, PTL
<1> QED
  BY <1>1, <1>2, <1>3, <1>4, <1>5, <1>6, Composed, WalkInvariance, FleetInvariance, StoreTyped,
     ReoptInvariance, CollectorInvariance, PTL
  DEF TypeOK
=============================================================================
