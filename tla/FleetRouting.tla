----------------------------- MODULE FleetRouting -----------------------------
(***************************************************************************)
(* The fleet routing service: tokens, the nearest-neighbour order, and the *)
(* Redis cache before it.  Handlers run in threads, Redis may go away      *)
(* between any two of their calls and forget a route whenever its time is  *)
(* up.  A cached route is found by the places, not by the ids of the       *)
(* waypoints.                                                              *)
(***************************************************************************)
EXTENDS Integers, Sequences, FiniteSets, Functions, SequencesExt, FiniteSetsExt

CONSTANTS
  Places, Km,      \* coordinates, and the kilometres between two of them
  Routes, Ask,     \* route requests, and the body of each
  Users, Role,     \* USERS, and the role of each
  Caller,          \* the user whose token a request carries
  NoRoute

Waypoint == [id : Nat, at : Places]

ASSUME FleetAssumption ==
  /\ Km \in [Places \X Places -> Nat]
  /\ Ask \in [Routes -> [depot : Places, stops : Seq(Waypoint)]]
  /\ Role \in [Users -> {"dispatcher", "viewer"}] /\ Caller \in [Routes -> Users]

VARIABLES
  redis,       \* is Redis reachable
  cache,       \* what it keeps, by key
  token,       \* the token each user holds
  rpc,         \* per request: its place
  client,      \* per request: did get_cache() find Redis
  answer,      \* per request: the result, computed or found
  fromCache    \* per request: the field cached of the answer

fleetVars == <<redis, cache, token, rpc, client, answer, fromCache>>

-----------------------------------------------------------------------------
(* routing/haversine.py and routing/optimizer.py. *)

Haversine(p, q) == Km[<<p, q>>]

\* The index of the first of the nearest.
NearestIndex(from, left) ==
  CHOOSE i \in DOMAIN left :
    \A j \in DOMAIN left :
      /\ Haversine(from, left[i].at) <= Haversine(from, left[j].at)
      /\ j < i => Haversine(from, left[i].at) < Haversine(from, left[j].at)

\* One turn of the loop: the nearest of what remains is popped and appended.
Visit(tour) ==
  LET i == NearestIndex(tour.current, tour.remaining)
      next == tour.remaining[i]
  IN  [current |-> next.at, remaining |-> RemoveAt(tour.remaining, i),
       ordered |-> Append(tour.ordered, next)]

\* The locals of the loop before its first turn and after each.
Tours(depot, stops) ==
  LET tour[k \in 0 .. Len(stops)] ==
        IF k = 0 THEN [current |-> depot, remaining |-> stops, ordered |-> <<>>]
        ELSE Visit(tour[k - 1])
  IN  tour

NearestNeighborRoute(depot, stops) == Tours(depot, stops)[Len(stops)].ordered

\* The place before the k-th stop, and the leg from there.
Before(depot, ordered, k) == IF k = 1 THEN depot ELSE ordered[k - 1].at
Leg(depot, ordered, k) == Haversine(Before(depot, ordered, k), ordered[k].at)

\* sum() of the legs, leg by leg.
Legs(depot, ordered) ==
  LET sum[k \in 0 .. Len(ordered)] == IF k = 0 THEN 0 ELSE sum[k - 1] + Leg(depot, ordered, k)
  IN  sum

TotalRouteDistance(depot, ordered) == Legs(depot, ordered)[Len(ordered)]

-----------------------------------------------------------------------------
(* api/routes.py: the cache. *)

\* How often each place is asked for: the sorted list of coordinates.
PlacesOf(stops) == [p \in Places |-> Cardinality({k \in DOMAIN stops : stops[k].at = p})]

\* A slip: the depot left out of the key.
KeyOfPlaces(r) == [depot |-> CHOOSE p \in Places : TRUE, wps |-> PlacesOf(Ask[r].stops)]

\* _make_key().
RouteKey(r) == [depot |-> Ask[r].depot, wps |-> PlacesOf(Ask[r].stops)]

Result == [ordered : Seq(Waypoint), km : Nat]

FleetTypeOK ==
  /\ redis \in BOOLEAN /\ client \in [Routes -> BOOLEAN] /\ fromCache \in [Routes -> BOOLEAN]
  /\ cache \in [{RouteKey(r) : r \in Routes} -> Result \union {NoRoute}]
  /\ token \in [Users -> {"none", "valid", "expired"}]
  /\ rpc \in [Routes -> {"new", "ping", "get", "compute", "set", "answered", "refused", "failed"}]
  /\ answer \in [Routes -> Result \union {NoRoute}]

FleetInit ==
  /\ redis = TRUE /\ cache = [k \in {RouteKey(r) : r \in Routes} |-> NoRoute]
  /\ token = [u \in Users |-> "none"]
  /\ rpc = [r \in Routes |-> "new"] /\ client = [r \in Routes |-> FALSE]
  /\ answer = [r \in Routes |-> NoRoute] /\ fromCache = [r \in Routes |-> FALSE]

\* Redis goes away or comes back.
RedisTurns ==
  /\ redis' = ~redis
  /\ UNCHANGED <<cache, token, rpc, client, answer, fromCache>>

\* setex: an entry's time is up.
Expire(k) ==
  /\ cache[k] # NoRoute /\ cache' = [cache EXCEPT ![k] = NoRoute]
  /\ UNCHANGED <<redis, token, rpc, client, answer, fromCache>>

-----------------------------------------------------------------------------
(* api/auth.py and auth/. *)

Login(u) ==
  /\ token[u] # "valid" /\ token' = [token EXCEPT ![u] = "valid"]
  /\ UNCHANGED <<redis, cache, rpc, client, answer, fromCache>>

TokenExpires(u) ==
  /\ token[u] = "valid" /\ token' = [token EXCEPT ![u] = "expired"]
  /\ UNCHANGED <<redis, cache, rpc, client, answer, fromCache>>

\* The token is looked at once, before anything else.
RequireDispatcher(r) ==
  /\ rpc[r] = "new"
  /\ rpc' = [rpc EXCEPT ![r] =
       IF token[Caller[r]] = "valid" /\ Role[Caller[r]] = "dispatcher" THEN "ping" ELSE "refused"]
  /\ UNCHANGED <<redis, cache, token, client, answer, fromCache>>

-----------------------------------------------------------------------------
(* api/routes.py: the handler. *)

\* get_cache().
Ping(r) ==
  /\ rpc[r] = "ping" /\ rpc' = [rpc EXCEPT ![r] = "get"]
  /\ client' = [client EXCEPT ![r] = redis]
  /\ UNCHANGED <<redis, cache, token, answer, fromCache>>

\* A call to a Redis that was there when it was pinged: an error nobody catches.
Lost(r) == client[r] /\ ~redis

GetCached(r) ==
  LET found == IF client[r] THEN cache[RouteKey(r)] ELSE NoRoute
  IN  /\ rpc[r] = "get"
      /\ rpc' = [rpc EXCEPT ![r] = IF Lost(r) THEN "failed"
                                   ELSE IF found # NoRoute THEN "answered" ELSE "compute"]
      /\ IF Lost(r) \/ found = NoRoute THEN UNCHANGED <<answer, fromCache>>
         ELSE /\ answer' = [answer EXCEPT ![r] = found]
              /\ fromCache' = [fromCache EXCEPT ![r] = TRUE]
      /\ UNCHANGED <<redis, cache, token, client>>

Compute(r) ==
  LET ordered == NearestNeighborRoute(Ask[r].depot, Ask[r].stops)
  IN  /\ rpc[r] = "compute" /\ rpc' = [rpc EXCEPT ![r] = "set"]
      /\ answer' = [answer EXCEPT ![r] =
           [ordered |-> ordered, km |-> TotalRouteDistance(Ask[r].depot, ordered)]]
      /\ UNCHANGED <<redis, cache, token, client, fromCache>>

\* The route is kept and answered; a route that cannot be kept is not answered.
SetCached(r) ==
  /\ rpc[r] = "set" /\ rpc' = [rpc EXCEPT ![r] = IF Lost(r) THEN "failed" ELSE "answered"]
  /\ cache' = IF client[r] /\ redis THEN [cache EXCEPT ![RouteKey(r)] = answer[r]] ELSE cache
  /\ UNCHANGED <<redis, token, client, answer, fromCache>>

-----------------------------------------------------------------------------

OptimiseRoute(r) == RequireDispatcher(r) \/ Ping(r) \/ GetCached(r) \/ Compute(r) \/ SetCached(r)

FleetNext ==
  \/ RedisTurns
  \/ \E k \in DOMAIN cache : Expire(k)
  \/ \E u \in Users : Login(u) \/ TokenExpires(u)
  \/ \E r \in Routes : OptimiseRoute(r)

FleetSpec == FleetInit /\ [][FleetNext]_fleetVars

-----------------------------------------------------------------------------
(* Properties. *)

\* The same waypoints, each as often, in whatever order.
SameWaypoints(s, t) ==
  \A w \in Range(s) \union Range(t) :
    Cardinality({k \in DOMAIN s : s[k] = w}) = Cardinality({k \in DOMAIN t : t[k] = w})

\* An answer, computed or found, visits the places that were asked for as often
\* as they were asked for, goes from the depot of this request to one of the
\* nearest places left each time, and tells the length of just that route.  The
\* waypoints keep the ids of the request when it is computed; when it is found
\* they are those of one request for the same places, this one or another
\* (optimise_route and the key of RouteCache).
AnswersAreNearest ==
  \A r \in Routes : rpc[r] = "answered" =>
    LET a == answer[r]
        from(k) == Before(Ask[r].depot, a.ordered, k)
    IN  /\ PlacesOf(a.ordered) = PlacesOf(Ask[r].stops)
        /\ \A k \in DOMAIN a.ordered : \A j \in k .. Len(a.ordered) :
             Haversine(from(k), a.ordered[k].at) <= Haversine(from(k), a.ordered[j].at)
        /\ a.km = TotalRouteDistance(Ask[r].depot, a.ordered)
        /\ \E q \in IF fromCache[r] THEN Routes ELSE {r} : SameWaypoints(a.ordered, Ask[q].stops)
=============================================================================
