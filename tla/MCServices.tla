------------------------------ MODULE MCServices ------------------------------
(* One small instance of each of the services that keep to themselves.  They
   share nothing, so a behaviour runs one of them, named by service, while the
   others rest in one of their initial states. *)
EXTENDS EventArchive, FleetRouting, ModelStore, GridIngest, Reoptimisation, Collector

VARIABLE service

\* An event from before, two that come in, and one timestamp used twice.
SomePlant == [e \in {"e1", "e2", "e3"} |-> IF e = "e3" THEN "B" ELSE "A"]
SomeStamp == [e \in {"e1", "e2", "e3"} |-> IF e = "e1" THEN 1 ELSE 2]

\* Places on a line, the depots at both ends.
Position == [p \in {"a", "b", "c"} |-> CASE p = "a" -> 0 [] p = "b" -> 2 [] p = "c" -> 3]
SomeKm == [pq \in {"a", "b", "c"} \X {"a", "b", "c"} |->
  LET d == Position[pq[1]] - Position[pq[2]] IN IF d < 0 THEN -d ELSE d]
Stop(n, p) == [id |-> n, at |-> p]
SomeAsk == [r \in {"r1", "r2", "r3"} |->
  CASE r = "r1" -> [depot |-> "a", stops |-> <<Stop(1, "c"), Stop(2, "b"), Stop(3, "b")>>]
    [] r = "r2" -> [depot |-> "a", stops |-> <<Stop(8, "b"), Stop(9, "c"), Stop(7, "b")>>]
    [] r = "r3" -> [depot |-> "c", stops |-> <<Stop(1, "c"), Stop(2, "b"), Stop(3, "b")>>]]
SomeRole == [u \in {"dispatcher1", "viewer1"} |->
  IF u = "viewer1" THEN "viewer" ELSE "dispatcher"]
SomeCaller == [r \in {"r1", "r2", "r3"} |-> "dispatcher1"]

\* Two series whose names run together.
SomeKeys == [s \in {"s1", "s2"} |-> "k"]
SomeSeries == [x \in {"t1", "t2", "p1"} |-> IF x = "t2" THEN "s2" ELSE "s1"]
SomeWindow == [t \in {"t1", "t2"} |-> 2]

\* Batches that name two new nodes in opposite order, and single readings.
SomeNodes == [p \in {"b1", "b2", "g1"} |->
  CASE p = "b1" -> <<"m", "n">> [] p = "b2" -> <<"n", "m", "n">> [] p = "g1" -> <<"m">>]

Init ==
  /\ service \in {"archive", "fleet", "store", "grid", "reopt", "collector"}
  /\ ArchiveInit /\ FleetInit /\ StoreInit /\ GridInit /\ ReoptInit /\ CollectorInit
  /\ service # "archive" => walk.filter = NoFilter
  /\ service # "collector" => published = CHOOSE r \in Registers : TRUE

Only(s) ==
  /\ service = s /\ UNCHANGED service
  /\ s = "archive" \/ UNCHANGED archiveVars
  /\ s = "fleet" \/ UNCHANGED fleetVars
  /\ s = "store" \/ UNCHANGED storeVars
  /\ s = "grid" \/ UNCHANGED gridVars
  /\ s = "reopt" \/ UNCHANGED reoptVars
  /\ s = "collector" \/ UNCHANGED collectorVars

Next ==
  \/ ArchiveNext /\ Only("archive")
  \/ FleetNext /\ Only("fleet")
  \/ StoreNext /\ Only("store")
  \/ GridNext /\ Only("grid")
  \/ ReoptNext /\ Only("reopt")
  \/ CollectorNext /\ Only("collector")

Spec == Init /\ [][Next]_<<service, archiveVars, fleetVars, storeVars, gridVars, reoptVars, collectorVars>>

\* Every service keeps its types.
TypeOK ==
  /\ ArchiveTypeOK /\ FleetTypeOK /\ StoreTypeOK
  /\ GridTypeOK /\ ReoptTypeOK /\ CollectorTypeOK
=============================================================================
