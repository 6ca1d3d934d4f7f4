----------------------------- MODULE Reservation -----------------------------
(***************************************************************************)
(* The reservation service of benchmarks/hotel-app.  Its instances (pods   *)
(* that Knative starts as needed) share a memcached, which caches how many *)
(* rooms are taken per hotel and night, and a MongoDB that stores the      *)
(* reservations.  A request handler is a sequence of accesses of the two   *)
(* without any lock or transaction.                                        *)
(*                                                                         *)
(* Dates are integers, and the night that ends on day n is night n.  The   *)
(* capacity of a hotel never changes, so its cached copy (the key          *)
(* <hotel>_cap) always equals the stored one and is left out.              *)
(***************************************************************************)
EXTENDS Integers, Sequences, FiniteSets, FiniteSetsExt

CONSTANTS
  Hotel,          \* hotels of the number collection
  NumberOfRoom,   \* [Hotel -> Nat], their capacity
  Day,            \* the dates that occur
  Handler,        \* requests, each one run of a handler
  Loads,          \* what a behaviour may ask of the service: records of type Load
  FirstDocuments, \* documents main() stores into the emptied collection
  Miss            \* memcache.ErrCacheMiss

Request == [op : {"make", "check"}, hotels : Seq(Hotel), inDate : Day, outDate : Day,
            rooms : Nat]

(* The requests that arrive, how many of them at once, and the bounds on   *)
(* the instances started and on evictions and failing writes of the cache. *)
Load == [requests : SUBSET Request, atOnce : Nat \ {0}, instances : Nat \ {0}, faults : Nat]

ASSUME ReservationAssumption ==
  /\ NumberOfRoom \in [Hotel -> Nat]
  /\ Day \subseteq Int
  /\ Loads \subseteq Load
  /\ \A l \in Loads : \A r \in l.requests : (r.inDate + 1)..r.outDate \subseteq Day
  /\ Miss \notin Int
  /\ \A d \in FirstDocuments : d.by \notin Handler

VARIABLES
  load,          \* the load of this behaviour, fixed when it begins
  live,          \* the running instances
  started,       \* instances started so far
  faults,        \* faults of the cache so far
  cache,         \* cache[x][n]: memcached's count of rooms taken, or Miss
  documents,     \* the reservation collection, with what wrote each document
  pc,            \* where each handler is
  instance,      \* the instance a handler runs in
  req,           \* its request
  local,         \* its locals
  result         \* the HotelId list it returned

environment == <<load, live, started, faults>>
stores == <<cache, documents>>
vars == <<environment, stores, pc, instance, req, local, result>>

NoTotals == [n \in {} |-> 0]

Start(r) == [k |-> 1, day |-> r.inDate, count |-> 0, totals |-> NoTotals]

Init ==
  /\ load \in Loads
  /\ live = {1}
  /\ started = 1
  /\ faults = 0
  /\ cache = [x \in Hotel |-> [n \in Day |-> Miss]]
  /\ documents = FirstDocuments
  /\ pc = [h \in Handler |-> "idle"]
  /\ instance = [h \in Handler |-> 1]
  /\ req \in [Handler -> load.requests]
  /\ local = [h \in Handler |-> Start(req[h])]
  /\ result = [h \in Handler |-> {}]

Steps == {"count", "find", "fill", "capacity", "cache", "insert"}
Running == {h \in Handler : pc[h] \in Steps}

At(h, p) == pc[h] = p /\ instance[h] \in live

(* The hotel and the night handler h is at. *)
HotelOf(h) == req[h].hotels[local[h].k]
Night(h) == local[h].day + 1
Rooms(h) == req[h].rooms
IsMake(h) == req[h].op = "make"

-------------------------------------------------------------------------------
(* main(): initializeDatabase drops the reservation collection, stores the *)
(* first documents and, if they are missing, the capacities.               *)
StartInstance ==
  /\ started < load.instances
  /\ started' = started + 1
  /\ live' = live \cup {started + 1}
  /\ documents' = FirstDocuments
  /\ UNCHANGED <<load, faults, cache, pc, instance, req, local, result>>

(* panic(err), when memcached or MongoDB fails: the process ends and the   *)
(* requests it was serving with it.                                        *)
Panic(h) ==
  /\ h \in Running
  /\ instance[h] \in live
  /\ live' = live \ {instance[h]}
  /\ pc' = [g \in Handler |-> IF g \in Running /\ instance[g] = instance[h]
                                THEN "killed" ELSE pc[g]]
  /\ UNCHANGED <<load, started, faults, stores, instance, req, local, result>>

(* memcached drops an entry. *)
Evict(x, n) ==
  /\ faults < load.faults
  /\ cache[x][n] # Miss
  /\ cache' = [cache EXCEPT ![x][n] = Miss]
  /\ faults' = faults + 1
  /\ UNCHANGED <<load, live, started, documents, pc, instance, req, local, result>>

-------------------------------------------------------------------------------
(* A handler at the loop over the nights of one hotel. *)
Loop(r) == IF r.inDate < r.outDate THEN "count" ELSE "done"

(* MakeReservation takes the first hotel, CheckAvailability all of them.   *)
(* Without a night neither loop runs.                                      *)
Begin(h, i) ==
  /\ pc[h] = "idle"
  /\ i \in live
  /\ Cardinality(Running) < load.atOnce
  /\ req[h].hotels # <<>>
  /\ instance' = [instance EXCEPT ![h] = i]
  /\ pc' = [pc EXCEPT ![h] = Loop(req[h])]
  /\ result' = [result EXCEPT ![h] =
                  IF IsMake(h) /\ Loop(req[h]) = "done" THEN {HotelOf(h)} ELSE {}]
  /\ UNCHANGED <<environment, stores, req, local>>

(* MemcClient.Get(memc_key) *)
GetCount(h) ==
  LET cached == cache[HotelOf(h)][Night(h)] IN
  /\ At(h, "count")
  /\ IF cached # Miss
       THEN /\ local' = [local EXCEPT ![h].count = cached]
            /\ pc' = [pc EXCEPT ![h] = "capacity"]
       ELSE /\ pc' = [pc EXCEPT ![h] = "find"]
            /\ UNCHANGED local
  /\ UNCHANGED <<environment, stores, instance, req, result>>

(* The fields of a stored document, by their bson names, and the query for *)
(* the reservations of a night.                                            *)
Fields(d) == [f \in {"hotelid", "indate", "outdate"} |->
                CASE f = "hotelid" -> d.hotel [] f = "indate" -> d.night - 1
                  [] f = "outdate" -> d.night]
Query(x, n) == [f \in {"hotelid", "inDate", "outDate"} |->
                  CASE f = "hotelid" -> x [] f = "inDate" -> n - 1 [] f = "outDate" -> n]

(* MongoDB matches a document that has every field of the query.           *)
Found(x, n) == {d \in documents :
  \A f \in DOMAIN Query(x, n) : f \in DOMAIN Fields(d) /\ Fields(d)[f] = Query(x, n)[f]}

RoomsIn(ds) == MapThenSumSet(LAMBDA d : d.rooms, ds)

(* c.Find(...).All(&reserve) after a miss; CheckAvailability then fills    *)
(* the cache.                                                              *)
FindReservations(h) ==
  /\ At(h, "find")
  /\ local' = [local EXCEPT ![h].count = RoomsIn(Found(HotelOf(h), Night(h)))]
  /\ pc' = [pc EXCEPT ![h] = IF IsMake(h) THEN "capacity" ELSE "fill"]
  /\ UNCHANGED <<environment, stores, instance, req, result>>

(* MemcClient.Set stores the value or fails, which is only logged. *)
Set(x, n, count) ==
  \/ /\ cache' = [cache EXCEPT ![x][n] = count]
     /\ UNCHANGED faults
  \/ /\ faults < load.faults
     /\ faults' = faults + 1
     /\ UNCHANGED cache

FillCache(h) ==
  /\ At(h, "fill")
  /\ Set(HotelOf(h), Night(h), local[h].count)
  /\ pc' = [pc EXCEPT ![h] = "capacity"]
  /\ UNCHANGED <<load, live, started, documents, instance, req, local, result>>

(* count + RoomNumber > hotel_cap *)
FullWhenReached(count, rooms, capacity) == count > capacity
Full(count, rooms, capacity) == count + rooms > capacity

(* The next hotel of CheckAvailability. *)
NextHotel(h) ==
  /\ local' = [local EXCEPT ![h].k = @ + 1, ![h].day = req[h].inDate]
  /\ pc' = [pc EXCEPT ![h] = IF local[h].k < Len(req[h].hotels) THEN "count" ELSE "done"]

(* Not enough space left. *)
RefuseNight(h) ==
  /\ At(h, "capacity")
  /\ Full(local[h].count, Rooms(h), NumberOfRoom[HotelOf(h)])
  /\ \/ IsMake(h) /\ pc' = [pc EXCEPT ![h] = "done"] /\ UNCHANGED local
     \/ ~IsMake(h) /\ NextHotel(h)
  /\ UNCHANGED <<environment, stores, instance, req, result>>

(* MakeReservation remembers the new total and goes on to the next night,  *)
(* after the last one to the cache.                                        *)
AcceptNight(h) ==
  /\ At(h, "capacity")
  /\ IsMake(h)
  /\ ~Full(local[h].count, Rooms(h), NumberOfRoom[HotelOf(h)])
  /\ local' = [local EXCEPT
       ![h].day = IF Night(h) < req[h].outDate THEN @ + 1 ELSE req[h].inDate,
       ![h].totals = [n \in DOMAIN @ \cup {Night(h)} |->
                        IF n = Night(h) THEN local[h].count + Rooms(h) ELSE @[n]]]
  /\ pc' = [pc EXCEPT ![h] = IF Night(h) < req[h].outDate THEN "count" ELSE "cache"]
  /\ UNCHANGED <<environment, stores, instance, req, result>>

(* CheckAvailability goes on to the next night; after the last one the     *)
(* hotel is available.                                                     *)
NightAvailable(h) ==
  /\ At(h, "capacity")
  /\ ~IsMake(h)
  /\ ~Full(local[h].count, Rooms(h), NumberOfRoom[HotelOf(h)])
  /\ \/ /\ Night(h) < req[h].outDate
        /\ local' = [local EXCEPT ![h].day = @ + 1]
        /\ pc' = [pc EXCEPT ![h] = "count"]
        /\ UNCHANGED result
     \/ /\ Night(h) = req[h].outDate
        /\ result' = [result EXCEPT ![h] = @ \cup {HotelOf(h)}]
        /\ NextHotel(h)
  /\ UNCHANGED <<environment, stores, instance, req>>

(* The new totals are written to memcached in the order of a Go map. *)
CacheTotal(h, n) ==
  /\ At(h, "cache")
  /\ n \in DOMAIN local[h].totals
  /\ Set(HotelOf(h), n, local[h].totals[n])
  /\ local' = [local EXCEPT ![h].totals = [m \in DOMAIN @ \ {n} |-> @[m]]]
  /\ pc' = [pc EXCEPT ![h] = IF DOMAIN local[h].totals = {n} THEN "insert" ELSE "cache"]
  /\ UNCHANGED <<load, live, started, documents, instance, req, result>>

ReturnsEarly(h) == Night(h) >= req[h].outDate - 1
LastNight(h) == Night(h) = req[h].outDate

(* The reservation is stored night by night. *)
Insert(h) ==
  /\ At(h, "insert")
  /\ documents' = documents \cup
       {[by |-> h, hotel |-> HotelOf(h), night |-> Night(h), rooms |-> Rooms(h)]}
  /\ IF LastNight(h)
       THEN /\ result' = [result EXCEPT ![h] = {HotelOf(h)}]
            /\ pc' = [pc EXCEPT ![h] = "done"]
            /\ UNCHANGED local
       ELSE /\ local' = [local EXCEPT ![h].day = @ + 1]
            /\ UNCHANGED <<result, pc>>
  /\ UNCHANGED <<environment, cache, instance, req>>

Handle(h) ==
  \/ \E i \in live : Begin(h, i)
  \/ GetCount(h) \/ FindReservations(h) \/ FillCache(h)
  \/ RefuseNight(h) \/ AcceptNight(h) \/ NightAvailable(h)
  \/ \E n \in Day : CacheTotal(h, n)
  \/ Insert(h)

Next ==
  \/ StartInstance
  \/ \E h \in Handler : Handle(h)
  \/ \E h \in Handler : Panic(h)
  \/ \E x \in Hotel, n \in Day : Evict(x, n)

Spec == Init /\ [][Next]_vars

-------------------------------------------------------------------------------
(* What the requests have reserved; main()'s own document is not counted.  *)
Reserved(x, n) == RoomsIn({d \in documents : d.by \in Handler /\ d.hotel = x /\ d.night = n})

(* "only update reservation number cache after check succeeds": whatever   *)
(* the interleaving of the handlers' reads and writes, no count above the  *)
(* capacity gets into the cache.                                           *)
CachedWithinCapacity ==
  \A x \in Hotel, n \in Day : cache[x][n] # Miss => cache[x][n] <= NumberOfRoom[x]

(* A reservation that MakeReservation confirmed is stored for every one of *)
(* its nights, unless an instance that started later emptied the           *)
(* collection.                                                             *)
ConfirmedIsStored == started = 1 =>
  \A h \in Handler : pc[h] = "done" /\ IsMake(h) /\ result[h] # {} =>
    \A n \in (req[h].inDate + 1)..req[h].outDate :
      [by |-> h, hotel |-> req[h].hotels[1], night |-> n, rooms |-> Rooms(h)] \in documents

(* Requests that come one at a time, to a single instance with a cache     *)
(* that loses nothing.                                                     *)
Serial == load.atOnce = 1 /\ load.instances = 1 /\ load.faults = 0

(* "check capacity": no night has more rooms reserved by requests than the *)
(* hotel has, as long as they are served one at a time.                    *)
NoOverbooking == Serial =>
  \A x \in Hotel, n \in Day : Reserved(x, n) <= NumberOfRoom[x]

-------------------------------------------------------------------------------
(* Serial requests are served as if each were answered in one step from    *)
(* exact counts.                                                           *)
Finished(h) == h \in Handler /\ pc[h] = "done"

Atomic == INSTANCE ReservationSpec WITH
  booked <- {d \in documents : Finished(d.by)},
  answered <- {h \in Handler : Finished(h)},
  answer <- [h \in Handler |-> IF Finished(h) THEN result[h] ELSE {}]

(* The service implements the atomic reservation book.                     *)
ImplementsAtomic ==
  /\ Serial => Atomic!Init
  /\ [][~Serial \/ Atomic!Next]_(Atomic!specVars)
===============================================================================
