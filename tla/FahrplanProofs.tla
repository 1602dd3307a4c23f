--------------------------- MODULE FahrplanProofs ---------------------------
(***************************************************************************)
(* Theorems about Fahrplan, for any ids, number of requests, assets and    *)
(* contents.  The inductive invariant says what a request may rely on at   *)
(* each await: who has inserted an id is alone with it until it commits,   *)
(* who archives holds the body that was committed.                         *)
(***************************************************************************)
EXTENDS Fahrplan, TLAPS

\* A header is committed with its rows; an id without one was never created.
StoreInv ==
  /\ \A s \in headers : rows[s] # None /\ created[s] # None
  /\ \A s \in Ids \ headers : rows[s] = None /\ created[s] = None
  /\ ArchiveIsCommitted

RequestInv(w) ==
  /\ pc[w] \in {"insert", "commit", "archive", "write"} => body[w] # None
  /\ pc[w] \in {"load", "write"} => patch[w] # None
  /\ pc[w] = "commit" => claims[target[w]] = w /\ target[w] \notin headers
  /\ pc[w] = "archive" => target[w] \in headers /\ created[target[w]] = body[w]
  /\ pc[w] \in {"write", "fetch"} => target[w] \in headers

Inv == TypeOK /\ StoreInv /\ \A w \in Workers : RequestInv(w)

-----------------------------------------------------------------------------
\* What a PATCH computes is a body (WithStatus, WithIntervals, Flush).
LEMMA PatchedIsBody ==
  ASSUME NEW b \in Body, NEW p \in Patch
  PROVE  /\ WithStatus(b, p.status) \in Body
         /\ WithIntervals(b, p.intervals) \in Body
<1>1. \A a \in Assets : b[a] \in Row
  BY DEF Body
<1>2. WithStatus(b, p.status) \in Body
  <2>1. CASE p.status = None
    BY <2>1 DEF WithStatus
  <2>2. CASE p.status # None
    <3>1. p.status \in Statuses
      BY <2>2 DEF Patch
    <3>2. \A a \in Assets : [b[a] EXCEPT !.status = p.status] \in Row
      BY <1>1, <3>1 DEF Row
    <3> QED BY <2>2, <3>2 DEF WithStatus, Body
  <2> QED BY <2>1, <2>2
<1>3. WithIntervals(b, p.intervals) \in Body
  <2>1. \A a \in Assets : p.intervals[a] \in Row \union {None}
    BY DEF Patch
  <2>2. \A a \in Assets : (IF p.intervals[a] = None THEN b[a] ELSE p.intervals[a]) \in Row
    BY <1>1, <2>1
  <2> QED BY <2>2 DEF WithIntervals, Body
<1> QED BY <1>2, <1>3

LEMMA FlushIsBody ==
  ASSUME NEW db \in Body, NEW known \in Body, NEW new \in Body
  PROVE  Flush(db, known, new) \in Body
<1>1. \A a \in Assets : db[a] \in Row /\ new[a] \in Row
  BY DEF Body
<1>2. \A a \in Assets :
        [mw     |-> IF new[a].mw = known[a].mw THEN db[a].mw ELSE new[a].mw,
         status |-> IF new[a].status = known[a].status THEN db[a].status ELSE new[a].status]
        \in Row
  BY <1>1 DEF Row
<1> QED BY <1>2 DEF Flush, Body

\* The two flushes of Write leave a body in the store.
LEMMA WrittenIsBody ==
  ASSUME Inv, NEW w \in Workers, pc[w] = "write"
  PROVE  LET mid == WithStatus(body[w], patch[w].status)
             new == WithIntervals(mid, patch[w].intervals)
         IN  Flush(Flush(rows[target[w]], body[w], mid), mid, new) \in Body
<1> DEFINE mid == WithStatus(body[w], patch[w].status)
           new == WithIntervals(mid, patch[w].intervals)
<1>1. body[w] \in Body /\ patch[w] \in Patch /\ rows[target[w]] \in Body
  BY DEF Inv, RequestInv, StoreInv, TypeOK
<1>2. mid \in Body
  BY <1>1, PatchedIsBody
<1>3. new \in Body
  BY <1>1, <1>2, PatchedIsBody
<1> HIDE DEF mid, new
<1>4. Flush(rows[target[w]], body[w], mid) \in Body
  BY <1>1, <1>2, FlushIsBody
<1>5. Flush(Flush(rows[target[w]], body[w], mid), mid, new) \in Body
  BY <1>2, <1>3, <1>4, FlushIsBody
<1> QED BY <1>5 DEF mid, new

LEMMA InitInv == Init => Inv
<1> SUFFICES ASSUME Init PROVE Inv
  OBVIOUS
<1>1. (CHOOSE s \in Ids : TRUE) \in Ids
  BY FahrplanAssumption
<1>2. TypeOK
  BY <1>1 DEF Init, TypeOK
<1>3. StoreInv /\ \A w \in Workers : RequestInv(w)
  BY DEF Init, StoreInv, ArchiveIsCommitted, RequestInv
<1> QED BY <1>2, <1>3 DEF Inv

\* A request that starts, and any step that leaves the store alone.
LEMMA ReceiveInv ==
  ASSUME Inv, NEW w \in Workers, Start(w)
  PROVE  Inv'
<1>1. PICK k \in {"post", "optimise", "patch", "get"},
           place \in {"insert", "load", "find"}, s \in Ids,
           b \in Body \union {None}, p \in Patch \union {None} :
        /\ Receive(w, k, place, s, b, p)
        /\ place = "insert" => b # None
        /\ place = "load" => p # None
  <2>1. CASE StartPost(w)
    BY <2>1, FahrplanAssumption DEF StartPost
  <2>2. CASE StartOptimise(w)
    BY <2>2, FahrplanAssumption DEF StartOptimise
  <2>3. CASE StartPatch(w)
    BY <2>3, FahrplanAssumption DEF StartPatch
  <2>4. CASE StartGet(w)
    BY <2>4 DEF StartGet
  <2> QED BY <2>1, <2>2, <2>3, <2>4 DEF Start
<1>2. TypeOK'
  BY <1>1 DEF Inv, TypeOK, Receive, GoTo, store
<1>3. StoreInv'
  BY <1>1 DEF Inv, StoreInv, ArchiveIsCommitted, Receive, store
<1>4. \A v \in Workers : RequestInv(v)'
  BY <1>1 DEF Inv, TypeOK, RequestInv, Receive, GoTo, store
<1> QED BY <1>2, <1>3, <1>4 DEF Inv
LEMMA CreateInv ==
  ASSUME Inv, NEW w \in Workers, Create(w)
  PROVE  Inv'
<1> USE DEF Inv
<1>1. CASE Insert(w)
  <2>1. TypeOK'
    BY <1>1 DEF TypeOK, Insert, GoTo
  <2>2. StoreInv'
    BY <1>1 DEF StoreInv, ArchiveIsCommitted, Insert
  <2>3. \A v \in Workers : RequestInv(v)'
    BY <1>1, FahrplanAssumption DEF TypeOK, RequestInv, Insert, GoTo
  <2> QED BY <2>1, <2>2, <2>3
<1>2. CASE Conflict(w)
  <2>1. TypeOK'
    BY <1>2 DEF TypeOK, Conflict, Answer, GoTo, store
  <2>2. StoreInv'
    BY <1>2 DEF StoreInv, ArchiveIsCommitted, Conflict, store
  <2>3. \A v \in Workers : RequestInv(v)'
    BY <1>2 DEF TypeOK, RequestInv, Conflict, Answer, GoTo, store
  <2> QED BY <2>1, <2>2, <2>3
<1>3. CASE Commit(w)
  <2> DEFINE s == target[w]
  <2>0. /\ s \in Ids /\ s \notin headers /\ claims[s] = w
        /\ body[w] \in Body /\ body[w] # None /\ created[s] = None
    BY <1>3 DEF TypeOK, StoreInv, RequestInv, Commit
  <2>1. TypeOK'
    BY <1>3, <2>0 DEF TypeOK, Commit, Answer, GoTo
  <2>2. StoreInv'
    <3>1. /\ headers' = headers \union {s} /\ rows' = [rows EXCEPT ![s] = body[w]]
          /\ created' = [created EXCEPT ![s] = body[w]] /\ blobs' = blobs
      BY <1>3, <2>0 DEF TypeOK, Commit
    <3>2. blobs[s] = None
      BY <2>0 DEF StoreInv, ArchiveIsCommitted
    <3> QED BY <2>0, <3>1, <3>2 DEF TypeOK, StoreInv, ArchiveIsCommitted
  <2>3. ASSUME NEW v \in Workers PROVE RequestInv(v)'
    <3>1. CASE v = w
      BY <1>3, <2>0, <3>1 DEF TypeOK, RequestInv, Commit, Answer, GoTo
    <3>2. CASE v # w
      <4>1. pc'[v] = pc[v] /\ body'[v] = body[v] /\ patch'[v] = patch[v] /\ target'[v] = target[v]
        BY <1>3, <3>2 DEF TypeOK, Commit, Answer, GoTo
      <4>2. pc[v] = "commit" => target[v] # s
        BY <2>0, <3>2 DEF RequestInv
      <4>3. pc[v] = "archive" => target[v] # s
        BY <2>0 DEF RequestInv
      <4> QED BY <1>3, <4>1, <4>2, <4>3 DEF TypeOK, RequestInv, Commit
    <3> QED BY <3>1, <3>2
  <2> QED BY <2>1, <2>2, <2>3
<1>4. CASE Archive(w)
  <2>0. /\ target[w] \in headers /\ created[target[w]] = body[w]
        /\ body[w] \in Body \union {None}
    BY <1>4 DEF TypeOK, RequestInv, Archive
  <2>1. TypeOK'
    BY <1>4, <2>0 DEF TypeOK, Archive, Answer, GoTo
  <2>2. StoreInv'
    BY <1>4, <2>0 DEF TypeOK, StoreInv, ArchiveIsCommitted, Archive
  <2>3. \A v \in Workers : RequestInv(v)'
    BY <1>4 DEF TypeOK, RequestInv, Archive, Answer, GoTo
  <2> QED BY <2>1, <2>2, <2>3
<1>5. CASE ArchiveFails(w)
  <2>1. TypeOK'
    BY <1>5 DEF TypeOK, ArchiveFails, Answer, GoTo, store
  <2>2. StoreInv'
    BY <1>5 DEF StoreInv, ArchiveIsCommitted, ArchiveFails, store
  <2>3. \A v \in Workers : RequestInv(v)'
    BY <1>5 DEF TypeOK, RequestInv, ArchiveFails, Answer, GoTo, store
  <2> QED BY <2>1, <2>2, <2>3
<1> QED BY <1>1, <1>2, <1>3, <1>4, <1>5 DEF Create

LEMMA ChangeInv ==
  ASSUME Inv, NEW w \in Workers, Change(w)
  PROVE  Inv'
<1> USE DEF Inv
<1>1. CASE NotFound(w)
  <2>1. TypeOK'
    BY <1>1 DEF TypeOK, NotFound, Answer, GoTo, store
  <2>2. StoreInv'
    BY <1>1 DEF StoreInv, ArchiveIsCommitted, NotFound, store
  <2>3. \A v \in Workers : RequestInv(v)'
    BY <1>1 DEF TypeOK, RequestInv, NotFound, Answer, GoTo, store
  <2> QED BY <2>1, <2>2, <2>3
<1>2. CASE Load(w)
  <2>0. rows[target[w]] # None
    BY <1>2 DEF StoreInv, Load
  <2>1. TypeOK'
    BY <1>2 DEF TypeOK, Load, GoTo, store
  <2>2. StoreInv'
    BY <1>2 DEF StoreInv, ArchiveIsCommitted, Load, store
  <2>3. \A v \in Workers : RequestInv(v)'
    BY <1>2, <2>0 DEF TypeOK, RequestInv, Load, GoTo, store
  <2> QED BY <2>1, <2>2, <2>3
<1>3. CASE Write(w)
  <2> DEFINE mid == WithStatus(body[w], patch[w].status)
             new == WithIntervals(mid, patch[w].intervals)
             db  == Flush(Flush(rows[target[w]], body[w], mid), mid, new)
  <2>0. db \in Body /\ db # None
    BY <1>3, WrittenIsBody, FahrplanAssumption DEF Write
  <2>1. rows' = [rows EXCEPT ![target[w]] = db]
    BY <1>3 DEF Write
  <2> HIDE DEF db
  <2>2. TypeOK'
    BY <1>3, <2>0, <2>1 DEF TypeOK, Write, GoTo
  <2>3. StoreInv'
    <3>1. target[w] \in headers /\ UNCHANGED <<headers, blobs, created>>
      BY <1>3 DEF RequestInv, Write
    <3> QED BY <2>0, <2>1, <3>1 DEF TypeOK, StoreInv, ArchiveIsCommitted
  <2>4. \A v \in Workers : RequestInv(v)'
    BY <1>3 DEF TypeOK, RequestInv, Write, GoTo
  <2> QED BY <2>2, <2>3, <2>4
<1>4. CASE Find(w)
  <2>1. TypeOK'
    BY <1>4 DEF TypeOK, Find, GoTo, store
  <2>2. StoreInv'
    BY <1>4 DEF StoreInv, ArchiveIsCommitted, Find, store
  <2>3. \A v \in Workers : RequestInv(v)'
    BY <1>4 DEF TypeOK, RequestInv, Find, GoTo, store
  <2> QED BY <2>1, <2>2, <2>3
<1>5. CASE Fetch(w)
  <2>1. TypeOK'
    BY <1>5 DEF TypeOK, Fetch, Answer, GoTo, store
  <2>2. StoreInv'
    BY <1>5 DEF StoreInv, ArchiveIsCommitted, Fetch, store
  <2>3. \A v \in Workers : RequestInv(v)'
    BY <1>5 DEF TypeOK, RequestInv, Fetch, Answer, GoTo, store
  <2> QED BY <2>1, <2>2, <2>3
<1> QED BY <1>1, <1>2, <1>3, <1>4, <1>5 DEF Change

LEMMA CrashInv ==
  ASSUME Inv, Crash
  PROVE  Inv'
BY DEF Inv, TypeOK, StoreInv, ArchiveIsCommitted, RequestInv, Crash

LEMMA StutterInv ==
  ASSUME Inv, UNCHANGED vars
  PROVE  Inv'
<1>1. TypeOK'
  BY DEF Inv, TypeOK, vars
<1>2. StoreInv'
  BY DEF Inv, StoreInv, ArchiveIsCommitted, vars
<1>3. \A w \in Workers : RequestInv(w)'
  BY DEF Inv, RequestInv, vars
<1> QED BY <1>1, <1>2, <1>3 DEF Inv

-----------------------------------------------------------------------------
\* The inductive invariant holds in every state of the schedule store.
THEOREM Invariant == Spec => []Inv
<1>1. Init => Inv
  BY InitInv
<1>2. Inv /\ [Next]_vars => Inv'
  BY ReceiveInv, CreateInv, ChangeInv, CrashInv, StutterInv DEF Next
<1> QED BY <1>1, <1>2, PTL DEF Spec

\* Every table, claim and request keeps its type, through races and crashes.
THEOREM TypeCorrect == Spec => []TypeOK
BY Invariant, PTL DEF Inv

\* What create_fahrplan archives is committed, and is what was committed.
THEOREM Archived == Spec => []ArchiveIsCommitted
<1>1. Inv => ArchiveIsCommitted
  BY DEF Inv, StoreInv
<1> QED BY <1>1, Invariant, PTL

\* get_fahrplan and patch_fahrplan never find a schedule without its rows.
THEOREM WholeReads == Spec => []ReadsAreWhole
<1>1. Inv => ReadsAreWhole
  BY DEF Inv, TypeOK, StoreInv, RequestInv, ReadsAreWhole
<1> QED BY <1>1, Invariant, PTL

\* A column no part of the PATCH names stays as the table has it (Flush).
LEMMA UntouchedRow ==
  ASSUME NEW db \in Body, NEW b \in Body, NEW p \in Patch, NEW a \in Assets,
         p.intervals[a] = None
  PROVE  LET mid == WithStatus(b, p.status)
             new == WithIntervals(mid, p.intervals)
             out == Flush(Flush(db, b, mid), mid, new)
         IN  out[a].mw = db[a].mw /\ (p.status = None => out[a] = db[a])
<1> DEFINE mid == WithStatus(b, p.status)
           new == WithIntervals(mid, p.intervals)
           out == Flush(Flush(db, b, mid), mid, new)
<1>1. db[a] \in Row /\ b[a] \in Row
  BY DEF Body
<1>2. mid[a].mw = b[a].mw
  BY <1>1 DEF WithStatus, Row
<1>3. new[a] = mid[a]
  BY DEF WithIntervals
<1>4. p.status = None => mid[a] = b[a]
  BY DEF WithStatus
<1> HIDE DEF mid, new
<1>5. out[a].mw = db[a].mw
  BY <1>2, <1>3 DEF Flush
<1>6. p.status = None => out[a].status = db[a].status
  BY <1>3, <1>4 DEF Flush
<1>7. out[a] = [mw |-> out[a].mw, status |-> out[a].status]
  BY DEF Flush
<1>8. db[a] = [mw |-> db[a].mw, status |-> db[a].status]
  BY <1>1 DEF Row
<1>9. p.status = None => out[a] = db[a]
  BY <1>5, <1>6, <1>7, <1>8
<1> QED BY <1>5, <1>9 DEF mid, new

\* Two PATCHes made from the same read do not undo each other's columns: a
\* committed row changes only as some PATCH in flight asks (patch_fahrplan).
THEOREM NoLostUpdate == Spec => ChangesOnlyWhatWasAsked
<1> DEFINE Asked(s, a) ==
      \E w \in Workers :
        /\ pc[w] = "write" /\ target[w] = s
        /\ IF rows'[s][a].mw # rows[s][a].mw
           THEN patch[w].intervals[a] # None
           ELSE patch[w].intervals[a] # None \/ patch[w].status # None
<1>1. ASSUME Inv, [Next]_vars, NEW s \in Ids, NEW a \in Assets,
             rows[s] # None, rows'[s][a] # rows[s][a]
      PROVE  Asked(s, a)
  <2>1. s \in headers /\ rows[s] \in Body
    BY <1>1 DEF Inv, TypeOK, StoreInv
  <2>2. PICK w \in Workers : Commit(w) \/ Write(w)
    <3>1. rows' # rows
      BY <1>1
    <3>2. \A w \in Workers : Start(w) => rows' = rows
      BY DEF Start, StartPost, StartOptimise, StartPatch, StartGet, Receive, store
    <3>3. \A w \in Workers : Create(w) => Commit(w) \/ rows' = rows
      BY DEF Create, Insert, Conflict, Archive, ArchiveFails, store
    <3>4. \A w \in Workers : Change(w) => Write(w) \/ rows' = rows
      BY DEF Change, NotFound, Load, Find, Fetch, store
    <3> QED BY <1>1, <3>1, <3>2, <3>3, <3>4 DEF Next, Crash, vars
  <2>3. CASE Commit(w)
    <3>1. target[w] # s
      BY <1>1, <2>1, <2>3 DEF Inv, RequestInv, Commit
    <3> QED BY <1>1, <2>3, <3>1 DEF Inv, TypeOK, Commit
  <2>4. CASE Write(w)
    <3>1. target[w] = s
      BY <1>1, <2>4 DEF Inv, TypeOK, Write
    <3>2. body[w] \in Body /\ patch[w] \in Patch /\ pc[w] = "write"
      BY <1>1, <2>4 DEF Inv, TypeOK, RequestInv, Write
    <3> DEFINE mid == WithStatus(body[w], patch[w].status)
               new == WithIntervals(mid, patch[w].intervals)
               out == Flush(Flush(rows[s], body[w], mid), mid, new)
    <3>3. rows'[s] = out
      BY <1>1, <2>4, <3>1 DEF Inv, TypeOK, Write
    <3>4. patch[w].intervals[a] = None =>
            out[a].mw = rows[s][a].mw /\ (patch[w].status = None => out[a] = rows[s][a])
      BY <2>1, <3>2, UntouchedRow
    <3> HIDE DEF out
    <3> QED BY <1>1, <3>1, <3>2, <3>3, <3>4
  <2> QED BY <2>2, <2>3, <2>4
<1>2. Inv /\ [Next]_vars =>
        [\A s \in Ids, a \in Assets : rows[s] # None /\ rows'[s][a] # rows[s][a] => Asked(s, a)]_vars
  BY <1>1
<1> QED BY <1>2, Invariant, PTL DEF Spec, ChangesOnlyWhatWasAsked
=============================================================================
