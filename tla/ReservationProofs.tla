-------------------------- MODULE ReservationProofs --------------------------
(***************************************************************************)
(* The reservation service, for any hotels, requests and faults: the cache *)
(* under any number of concurrent requests and instances, the stays that   *)
(* were confirmed, and, for requests that come one at a time, that no      *)
(* night is overbooked and that the service implements ReservationSpec.    *)
(***************************************************************************)
EXTENDS Reservation, FiniteSetTheorems, WellFoundedInduction, TLAPS

(* Requests never change; a handler at work is at one of the hotels and    *)
(* nights of its request, and MakeReservation at the first hotel.          *)
AtNight ==
  /\ load \in Loads
  /\ req \in [Handler -> load.requests]
  /\ pc \in [Handler -> Steps \cup {"idle", "done", "killed"}]
  /\ local = [h \in Handler |-> local[h]]
  /\ \A h \in Handler :
       /\ DOMAIN local[h] = {"k", "day", "count", "totals"}
       /\ local[h].count \in Int
       /\ pc[h] = "idle" => local[h] = Start(req[h])
       /\ pc[h] \in Steps => /\ local[h].k \in 1..Len(req[h].hotels)
                             /\ local[h].day \in req[h].inDate..(req[h].outDate - 1)
                             /\ IsMake(h) => local[h].k = 1
       /\ pc[h] \in {"cache", "insert"} => IsMake(h)

(* What a handler is about to cache fits: the totals passed the check, and *)
(* a count after a miss is that of no reservation at all.                  *)
Checked ==
  \A h \in Handler :
    /\ ~IsMake(h) => DOMAIN local[h].totals = {}
    /\ pc[h] = "fill" => local[h].count = 0
    /\ pc[h] \in Steps => \A n \in DOMAIN local[h].totals :
         local[h].totals[n] \in Int /\ local[h].totals[n] <= NumberOfRoom[HotelOf(h)]

(* memcached holds counts by hotel and night. *)
Cached ==
  /\ cache \in [Hotel -> [Day -> Int \cup {Miss}]]
  /\ CachedWithinCapacity

IInv == AtNight /\ Checked /\ Cached

(* No reservation is counted when none is found.                           *)
LEMMA NoRooms == RoomsIn({}) = 0
BY DEF RoomsIn, MapThenSumSet, MapThenFoldSet

(* A stored document has not the fields that the query asks for.           *)
LEMMA NothingFound == ASSUME NEW x, NEW n PROVE Found(x, n) = {}
BY DEF Found, Query, Fields

(* The length of a sequence is a number.                                   *)
LEMMA LenInNat == ASSUME NEW S, NEW s \in Seq(S) PROVE Len(s) \in Nat
OBVIOUS

(* What is known of a request, and of the hotel and night it is at.        *)
LEMMA Requested ==
  ASSUME AtNight, NEW h \in Handler
  PROVE  /\ req[h] \in Request
         /\ req[h].inDate \in Int /\ req[h].outDate \in Int /\ Rooms(h) \in Nat
         /\ req[h].hotels \in Seq(Hotel) /\ Len(req[h].hotels) \in Nat
         /\ (req[h].inDate + 1)..req[h].outDate \subseteq Day
         /\ pc[h] \in Steps => HotelOf(h) \in Hotel /\ Night(h) \in Day
                               /\ NumberOfRoom[HotelOf(h)] \in Nat
<1>1. req[h] \in load.requests /\ load \in Load
  BY ReservationAssumption DEF AtNight
<1>2. req[h] \in Request
  BY <1>1 DEF Load
<1>3. /\ req[h].inDate \in Int /\ req[h].outDate \in Int /\ Rooms(h) \in Nat
      /\ req[h].hotels \in Seq(Hotel) /\ Len(req[h].hotels) \in Nat
  <2>1. /\ req[h].inDate \in Day /\ req[h].outDate \in Day /\ req[h].rooms \in Nat
        /\ req[h].hotels \in Seq(Hotel)
    BY <1>2 DEF Request
  <2>2. Len(req[h].hotels) \in Nat
    BY <2>1, LenInNat
  <2> QED BY <2>1, <2>2, ReservationAssumption DEF Rooms
<1>4. (req[h].inDate + 1)..req[h].outDate \subseteq Day
  BY <1>1, ReservationAssumption DEF AtNight
<1>5. ASSUME pc[h] \in Steps
      PROVE  HotelOf(h) \in Hotel /\ Night(h) \in Day
  <2>1. HotelOf(h) \in Hotel
    BY <1>3, <1>5 DEF AtNight, HotelOf
  <2>2. Night(h) \in (req[h].inDate + 1)..req[h].outDate
    BY <1>3, <1>5 DEF AtNight, Night
  <2> QED BY <1>4, <2>1, <2>2
<1> QED BY <1>2, <1>3, <1>4, <1>5, ReservationAssumption

(* The invariant holds with an empty cache and no request begun.           *)
LEMMA InitIInv == Init => IInv
<1> SUFFICES ASSUME Init PROVE IInv
  OBVIOUS
<1>1. AtNight
  BY DEF Init, AtNight, Start, Steps, NoTotals
<1>2. Checked
  BY DEF Init, Checked, Start, Steps, NoTotals
<1>3. Cached
  BY DEF Init, Cached, CachedWithinCapacity
<1> QED BY <1>1, <1>2, <1>3 DEF IInv

(* Handlers that are killed or left alone keep what is known of them.      *)
LEMMA OthersKeep ==
  IInv /\ (StartInstance \/ (\E h \in Handler : Panic(h))
             \/ (\E x \in Hotel, n \in Day : Evict(x, n)) \/ UNCHANGED vars) => IInv'
<1> SUFFICES ASSUME IInv,
                    StartInstance \/ (\E h \in Handler : Panic(h))
                      \/ (\E x \in Hotel, n \in Day : Evict(x, n)) \/ UNCHANGED vars
             PROVE  IInv'
  OBVIOUS
<1>1. CASE StartInstance \/ UNCHANGED vars
  BY <1>1 DEF StartInstance, vars, environment, stores, IInv, AtNight, Checked, Cached,
              CachedWithinCapacity, IsMake, HotelOf
<1>2. ASSUME NEW h \in Handler, Panic(h) PROVE IInv'
  <2>1. /\ \A g \in Handler : pc'[g] = pc[g] \/ pc'[g] = "killed"
        /\ pc' \in [Handler -> Steps \cup {"idle", "done", "killed"}]
        /\ UNCHANGED <<load, cache, req, local>>
    BY <1>2 DEF Panic, stores, IInv, AtNight
  <2> QED BY <2>1 DEF IInv, AtNight, Checked, Cached, CachedWithinCapacity, IsMake, HotelOf, Steps
<1>3. ASSUME NEW x \in Hotel, NEW n \in Day, Evict(x, n) PROVE IInv'
  <2>1. UNCHANGED <<load, pc, req, local>>
    BY <1>3 DEF Evict
  <2>2. cache' = [cache EXCEPT ![x][n] = Miss]
    BY <1>3 DEF Evict
  <2>3. Cached'
    BY <2>2 DEF IInv, Cached, CachedWithinCapacity
  <2> QED BY <2>1, <2>3 DEF IInv, AtNight, Checked, IsMake, HotelOf
<1> QED BY <1>1, <1>2, <1>3

(* A count stored for a hotel and night, or a fault, leaves counts that    *)
(* fit if that one does.                                                   *)
LEMMA SetKeeps ==
  ASSUME Cached, NEW x \in Hotel, NEW n \in Day, NEW count \in Int,
         count <= NumberOfRoom[x], Set(x, n, count)
  PROVE  Cached'
BY DEF Cached, CachedWithinCapacity, Set

(* A step of a handler that changes only its own locals.                   *)
LEMMA StepKeeps ==
  ASSUME IInv, NEW h \in Handler, UNCHANGED <<load, req>>, Cached',
         NEW stage \in Steps \cup {"done"}, pc' = [pc EXCEPT ![h] = stage],
         NEW l, local' = [local EXCEPT ![h] = l],
         DOMAIN l = {"k", "day", "count", "totals"}, l.count \in Int,
         stage \in Steps => /\ l.k \in 1..Len(req[h].hotels)
                            /\ l.day \in req[h].inDate..(req[h].outDate - 1)
                            /\ IsMake(h) => l.k = 1,
         stage \in {"cache", "insert"} => IsMake(h),
         ~IsMake(h) => DOMAIN l.totals = {},
         stage = "fill" => l.count = 0,
         stage \in Steps => \A n \in DOMAIN l.totals :
           l.totals[n] \in Int /\ l.totals[n] <= NumberOfRoom[req[h].hotels[l.k]]
  PROVE  IInv'
<1>1. /\ local'[h] = l /\ pc'[h] = stage
      /\ \A g \in Handler : g # h => local'[g] = local[g] /\ pc'[g] = pc[g]
      /\ local' = [g \in Handler |-> local'[g]]
      /\ pc' \in [Handler -> Steps \cup {"idle", "done", "killed"}]
  BY DEF IInv, AtNight
<1>2. stage # "idle"
  BY DEF Steps
<1>3. AtNight'
  <2>1. load' \in Loads /\ req' \in [Handler -> load'.requests]
    BY DEF IInv, AtNight
  <2>2. ASSUME NEW g \in Handler
        PROVE  /\ DOMAIN local'[g] = {"k", "day", "count", "totals"}
               /\ local'[g].count \in Int
               /\ pc'[g] = "idle" => local'[g] = Start(req'[g])
               /\ pc'[g] \in Steps => /\ local'[g].k \in 1..Len(req'[g].hotels)
                                      /\ local'[g].day \in req'[g].inDate..(req'[g].outDate - 1)
                                      /\ IsMake(g) => local'[g].k = 1
               /\ pc'[g] \in {"cache", "insert"} => IsMake(g)
    BY <1>1, <1>2 DEF IInv, AtNight
  <2>3. \A g : IsMake(g)' <=> IsMake(g)
    BY DEF IsMake
  <2> QED BY <1>1, <2>1, <2>2, <2>3 DEF AtNight
<1>4. Checked'
  BY <1>1 DEF IInv, Checked, HotelOf, IsMake
<1> QED BY <1>3, <1>4 DEF IInv

(* A step of a handler that leaves its locals alone, too.                  *)
LEMMA StageKeeps ==
  ASSUME IInv, NEW h \in Handler, UNCHANGED <<load, req, local>>, Cached', pc[h] \in Steps,
         NEW stage \in {"find", "capacity", "done"}, pc' = [pc EXCEPT ![h] = stage]
  PROVE  IInv'
<1>1. /\ pc' \in [Handler -> Steps \cup {"idle", "done", "killed"}]
      /\ \A g \in Handler :
           /\ pc'[g] \in Steps => pc[g] \in Steps
           /\ pc'[g] = "idle" => pc[g] = "idle"
           /\ pc'[g] \in {"cache", "insert"} => pc[g] \in {"cache", "insert"}
           /\ pc'[g] = "fill" => pc[g] = "fill"
  BY DEF IInv, AtNight, Steps
<1>2. UNCHANGED <<load, req, local>>
  OBVIOUS
<1>3. AtNight'
  BY <1>1, <1>2 DEF IInv, AtNight, IsMake
<1>4. Checked'
  BY <1>1, <1>2 DEF IInv, Checked, IsMake, HotelOf
<1> QED BY <1>3, <1>4 DEF IInv

(* Every step of a handler keeps the invariant.                            *)
LEMMA HandlerKeeps ==
  ASSUME IInv, NEW h \in Handler, Handle(h)
  PROVE  IInv'
<1> DEFINE l == local[h]
<1>1. /\ DOMAIN l = {"k", "day", "count", "totals"} /\ l.count \in Int
      /\ pc[h] \in Steps => /\ l.k \in 1..Len(req[h].hotels)
                            /\ l.day \in req[h].inDate..(req[h].outDate - 1)
                            /\ IsMake(h) => l.k = 1
      /\ ~IsMake(h) => DOMAIN l.totals = {}
      /\ pc[h] \in Steps => \A n \in DOMAIN l.totals :
           l.totals[n] \in Int /\ l.totals[n] <= NumberOfRoom[req[h].hotels[l.k]]
  BY DEF IInv, AtNight, Checked, HotelOf
<1>2. /\ req[h].inDate \in Int /\ req[h].outDate \in Int /\ Rooms(h) \in Nat
      /\ Len(req[h].hotels) \in Nat
      /\ pc[h] \in Steps => HotelOf(h) \in Hotel /\ Night(h) \in Day
                            /\ NumberOfRoom[HotelOf(h)] \in Nat
  BY Requested DEF IInv
<1>3. local = [local EXCEPT ![h] = l]
  BY DEF IInv, AtNight
<1>4. ASSUME UNCHANGED cache PROVE Cached'
  BY <1>4 DEF IInv, Cached, CachedWithinCapacity
<1>5. ASSUME NEW i \in live, Begin(h, i) PROVE IInv'
  <2>1. l = Start(req[h]) /\ req[h].hotels # <<>>
    BY <1>5 DEF Begin, IInv, AtNight
  <2>2. l.k = 1 /\ l.day = req[h].inDate /\ DOMAIN l.totals = {}
    BY <2>1 DEF Start, NoTotals
  <2>3. 1 \in 1..Len(req[h].hotels)
    BY <2>1, Requested DEF IInv
  <2> DEFINE s == Loop(req[h])
  <2>4. /\ pc' = [pc EXCEPT ![h] = s] /\ UNCHANGED <<load, req, cache>>
        /\ local' = [local EXCEPT ![h] = l]
    BY <1>3, <1>5 DEF Begin, environment, stores
  <2>5. s \in {"count", "done"}
    BY DEF Loop
  <2>6. s = "count" => l.day \in req[h].inDate..(req[h].outDate - 1)
    BY <1>2, <2>2 DEF Loop
  <2>7. \A n \in DOMAIN l.totals :
          l.totals[n] \in Int /\ l.totals[n] <= NumberOfRoom[req[h].hotels[l.k]]
    BY <2>2
  <2> HIDE DEF l, s
  <2> QED BY <1>1, <1>4, <2>2, <2>3, <2>4, <2>5, <2>6, <2>7, StepKeeps DEF Steps, IsMake
<1>6. CASE GetCount(h)
  <2> DEFINE cached == cache[HotelOf(h)][Night(h)]
  <2>1. pc[h] = "count" /\ UNCHANGED <<load, req, cache>>
    BY <1>6 DEF GetCount, At, environment, stores
  <2>2. CASE cached # Miss
    <3> DEFINE m == [l EXCEPT !.count = cached]
    <3>1. local' = [local EXCEPT ![h] = m] /\ pc' = [pc EXCEPT ![h] = "capacity"]
      BY <1>6, <2>2 DEF GetCount
    <3>2. cached \in Int
      BY <1>2, <2>1, <2>2 DEF IInv, Cached, Steps
    <3>3. /\ DOMAIN m = {"k", "day", "count", "totals"} /\ m.count \in Int
          /\ m.k = l.k /\ m.day = l.day /\ m.totals = l.totals
      BY <1>1, <3>2
    <3>4. /\ pc[h] \in Steps /\ pc[h] \notin {"cache", "insert"}
          /\ "capacity" \in Steps \cup {"done"} /\ Cached'
      BY <1>4, <2>1 DEF Steps
    <3>5. UNCHANGED <<load, req>>
      BY <2>1
    <3> HIDE DEF m, l, cached
    <3> QED BY <1>1, <3>1, <3>3, <3>4, <3>5, StepKeeps DEF IsMake
  <2>3. CASE cached = Miss
    <3>1. pc' = [pc EXCEPT ![h] = "find"] /\ UNCHANGED local
      BY <1>6, <2>3 DEF GetCount
    <3>2. pc[h] \in Steps /\ Cached'
      BY <1>4, <2>1 DEF Steps
    <3> HIDE DEF l
    <3> QED BY <2>1, <3>1, <3>2, StageKeeps
  <2> QED BY <2>2, <2>3
<1>7. CASE FindReservations(h)
  <2> DEFINE m == [l EXCEPT !.count = 0]
             s == IF IsMake(h) THEN "capacity" ELSE "fill"
  <2>1. /\ pc[h] = "find" /\ UNCHANGED <<load, req, cache>>
        /\ local' = [local EXCEPT ![h] = m] /\ pc' = [pc EXCEPT ![h] = s]
    BY <1>7, NothingFound, NoRooms DEF FindReservations, At, environment, stores
  <2>2. /\ DOMAIN m = {"k", "day", "count", "totals"} /\ m.count = 0 /\ m.count \in Int
        /\ m.k = l.k /\ m.day = l.day /\ m.totals = l.totals
    BY <1>1
  <2>3. s \in {"capacity", "fill"}
    OBVIOUS
  <2> HIDE DEF m, s, l
  <2> QED BY <1>1, <1>4, <2>1, <2>2, <2>3, StepKeeps DEF Steps, IsMake
<1>8. CASE FillCache(h)
  <2>1. /\ pc[h] = "fill" /\ UNCHANGED <<load, req, local>>
        /\ pc' = [pc EXCEPT ![h] = "capacity"] /\ Set(HotelOf(h), Night(h), l.count)
    BY <1>8 DEF FillCache, At
  <2>2. l.count = 0
    BY <2>1 DEF IInv, Checked
  <2>3. Cached'
    BY <1>2, <2>1, <2>2, SetKeeps DEF IInv, Steps
  <2>4. pc[h] \in Steps
    BY <2>1 DEF Steps
  <2> HIDE DEF l
  <2> QED BY <2>1, <2>3, <2>4, StageKeeps
<1>9. ASSUME NextHotel(h), pc[h] = "capacity", ~IsMake(h), UNCHANGED <<load, req, cache>>
      PROVE  IInv'
  <2> DEFINE m == [l EXCEPT !.k = @ + 1, !.day = req[h].inDate]
             s == IF l.k < Len(req[h].hotels) THEN "count" ELSE "done"
  <2>1. local' = [local EXCEPT ![h] = m] /\ pc' = [pc EXCEPT ![h] = s]
    BY <1>9 DEF NextHotel
  <2>2. /\ DOMAIN m = {"k", "day", "count", "totals"} /\ m.count \in Int
        /\ m.k = l.k + 1 /\ m.day = req[h].inDate /\ DOMAIN m.totals = {}
    BY <1>1, <1>9
  <2>3. s \in {"count", "done"} /\ (s = "count" => m.k \in 1..Len(req[h].hotels))
    BY <1>1, <1>2, <1>9, <2>2 DEF Steps
  <2>4. m.day \in req[h].inDate..(req[h].outDate - 1)
    BY <1>1, <1>2, <1>9, <2>2 DEF Steps
  <2> HIDE DEF m, s, l
  <2> QED BY <1>4, <1>9, <2>1, <2>2, <2>3, <2>4, StepKeeps DEF Steps
<1>10. CASE RefuseNight(h)
  <2>1. pc[h] = "capacity" /\ UNCHANGED <<load, req, cache>>
    BY <1>10 DEF RefuseNight, At, environment, stores
  <2>2. CASE IsMake(h)
    <3>1. pc' = [pc EXCEPT ![h] = "done"] /\ UNCHANGED local
      BY <1>10, <2>2 DEF RefuseNight
    <3>2. pc[h] \in Steps /\ Cached'
      BY <1>4, <2>1 DEF Steps
    <3> HIDE DEF l
    <3> QED BY <2>1, <3>1, <3>2, StageKeeps
  <2>3. CASE ~IsMake(h)
    BY <1>9, <1>10, <2>1, <2>3 DEF RefuseNight
  <2> QED BY <2>2, <2>3
<1>11. CASE AcceptNight(h)
  <2> DEFINE t == [n \in DOMAIN l.totals \cup {Night(h)} |->
                     IF n = Night(h) THEN l.count + Rooms(h) ELSE l.totals[n]]
             m == [l EXCEPT !.day = IF Night(h) < req[h].outDate THEN @ + 1 ELSE req[h].inDate,
                            !.totals = t]
             s == IF Night(h) < req[h].outDate THEN "count" ELSE "cache"
  <2>1. /\ pc[h] = "capacity" /\ IsMake(h) /\ UNCHANGED <<load, req, cache>>
        /\ ~(l.count + Rooms(h) > NumberOfRoom[HotelOf(h)])
        /\ local' = [local EXCEPT ![h] = m] /\ pc' = [pc EXCEPT ![h] = s]
    BY <1>11 DEF AcceptNight, At, Full, environment, stores
  <2>2. /\ DOMAIN m = {"k", "day", "count", "totals"} /\ m.count \in Int
        /\ m.k = l.k /\ m.totals = t
        /\ m.day = IF Night(h) < req[h].outDate THEN l.day + 1 ELSE req[h].inDate
    BY <1>1
  <2>3. m.day \in req[h].inDate..(req[h].outDate - 1)
    <3>1. l.day \in req[h].inDate..(req[h].outDate - 1) /\ Night(h) = l.day + 1
      BY <1>1, <2>1 DEF Night, Steps
    <3> HIDE DEF m, l
    <3>2. CASE Night(h) < req[h].outDate
      BY <1>2, <2>2, <3>1, <3>2
    <3>3. CASE ~(Night(h) < req[h].outDate)
      BY <1>2, <2>2, <3>1, <3>3
    <3> QED BY <3>2, <3>3
  <2>4. \A n \in DOMAIN t : t[n] \in Int /\ t[n] <= NumberOfRoom[req[h].hotels[l.k]]
    BY <1>1, <1>2, <2>1 DEF HotelOf, Steps
  <2>5. s \in {"count", "cache"}
    OBVIOUS
  <2>6. m.k \in 1..Len(req[h].hotels) /\ m.k = 1
    BY <1>1, <2>1, <2>2 DEF Steps
  <2> HIDE DEF m, s, t, l
  <2> QED BY <1>4, <2>1, <2>2, <2>3, <2>4, <2>5, <2>6, StepKeeps DEF Steps
<1>12. CASE NightAvailable(h)
  <2>1. pc[h] = "capacity" /\ ~IsMake(h) /\ UNCHANGED <<load, req, cache>>
    BY <1>12 DEF NightAvailable, At, environment, stores
  <2>2. CASE NextHotel(h)
    BY <1>9, <2>1, <2>2
  <2>3. CASE ~NextHotel(h)
    <3> DEFINE m == [l EXCEPT !.day = @ + 1]
    <3>1. /\ local' = [local EXCEPT ![h] = m] /\ pc' = [pc EXCEPT ![h] = "count"]
          /\ Night(h) < req[h].outDate
      BY <1>12, <2>3 DEF NightAvailable
    <3>2. /\ DOMAIN m = {"k", "day", "count", "totals"} /\ m.count \in Int
          /\ m.k = l.k /\ m.totals = l.totals /\ m.day = l.day + 1
      BY <1>1
    <3>3. m.day \in req[h].inDate..(req[h].outDate - 1)
      BY <1>1, <1>2, <2>1, <3>1, <3>2 DEF Night, Steps
    <3> HIDE DEF m, l
    <3> QED BY <1>1, <1>4, <2>1, <3>1, <3>2, <3>3, StepKeeps DEF Steps
  <2> QED BY <2>2, <2>3
<1>13. ASSUME NEW n \in Day, CacheTotal(h, n) PROVE IInv'
  <2> DEFINE t == [q \in DOMAIN l.totals \ {n} |-> l.totals[q]]
             m == [l EXCEPT !.totals = t]
             s == IF DOMAIN l.totals = {n} THEN "insert" ELSE "cache"
  <2>1. /\ pc[h] = "cache" /\ n \in DOMAIN l.totals /\ UNCHANGED <<load, req>>
        /\ Set(HotelOf(h), n, l.totals[n])
        /\ local' = [local EXCEPT ![h] = m] /\ pc' = [pc EXCEPT ![h] = s]
    BY <1>13 DEF CacheTotal, At
  <2>2. Cached'
    BY <1>1, <1>2, <2>1, SetKeeps DEF IInv, HotelOf, Steps
  <2>3. /\ DOMAIN m = {"k", "day", "count", "totals"} /\ m.count \in Int
        /\ m.k = l.k /\ m.day = l.day /\ m.totals = t
    BY <1>1
  <2>4. IsMake(h) /\ s \in {"insert", "cache"}
    BY <2>1 DEF IInv, AtNight
  <2>5. \A q \in DOMAIN t : t[q] \in Int /\ t[q] <= NumberOfRoom[req[h].hotels[l.k]]
    BY <1>1, <2>1 DEF Steps
  <2> HIDE DEF m, s, t, l
  <2> QED BY <1>1, <2>1, <2>2, <2>3, <2>4, <2>5, StepKeeps DEF Steps
<1>14. CASE Insert(h)
  <2>1. pc[h] = "insert" /\ IsMake(h) /\ UNCHANGED <<load, req, cache>>
    BY <1>14 DEF Insert, At, environment, IInv, AtNight
  <2>2. CASE LastNight(h)
    <3>1. pc' = [pc EXCEPT ![h] = "done"] /\ local' = [local EXCEPT ![h] = l]
      BY <1>3, <1>14, <2>2 DEF Insert
    <3> HIDE DEF l
    <3> QED BY <1>1, <1>4, <2>1, <3>1, StepKeeps DEF Steps
  <2>3. CASE ~LastNight(h)
    <3> DEFINE m == [l EXCEPT !.day = @ + 1]
    <3>1. /\ local' = [local EXCEPT ![h] = m] /\ pc' = [pc EXCEPT ![h] = "insert"]
      BY <1>14, <2>1, <2>3 DEF Insert, IInv, AtNight
    <3>2. /\ DOMAIN m = {"k", "day", "count", "totals"} /\ m.count \in Int
          /\ m.k = l.k /\ m.totals = l.totals /\ m.day = l.day + 1
      BY <1>1
    <3>3. m.day \in req[h].inDate..(req[h].outDate - 1)
      BY <1>1, <1>2, <2>1, <2>3, <3>2 DEF Night, Steps, LastNight
    <3> HIDE DEF m, l
    <3> QED BY <1>1, <1>4, <2>1, <3>1, <3>2, <3>3, StepKeeps DEF Steps
  <2> QED BY <2>2, <2>3
<1> QED BY <1>5, <1>6, <1>7, <1>8, <1>10, <1>11, <1>12, <1>13, <1>14 DEF Handle

(* No interleaving of handlers, in any number of instances that die and    *)
(* start, lets a count above a hotel's capacity get into the cache.        *)
THEOREM CountsFit == Spec => []CachedWithinCapacity
<1>1. IInv /\ [Next]_vars => IInv'
  BY OthersKeep, HandlerKeeps DEF Next
<1>2. IInv => CachedWithinCapacity
  BY DEF IInv, Cached
<1> QED BY InitIInv, <1>1, <1>2, PTL DEF Spec

-------------------------------------------------------------------------------
(* What Insert stores for a night, and whether it has for those up to one. *)
Stay(h, n) == [by |-> h, hotel |-> req[h].hotels[1], night |-> n, rooms |-> Rooms(h)]
StoredUntil(h, last) == \A n \in (req[h].inDate + 1)..last : Stay(h, n) \in documents

(* MakeReservation inserts the nights in order, from the first one on, and *)
(* confirms after the last.                                                *)
Booked(h) ==
  IsMake(h) =>
    /\ pc[h] \in Steps => result[h] = {}
    /\ pc[h] = "cache" => local[h].day = req[h].inDate
    /\ pc[h] = "insert" => StoredUntil(h, local[h].day)
    /\ pc[h] = "done" /\ result[h] # {} => StoredUntil(h, req[h].outDate)

Booking ==
  /\ started \in Nat \ {0}
  /\ result = [h \in Handler |-> result[h]]
  /\ started = 1 => \A h \in Handler : Booked(h)

(* Nothing is booked before the first request.                             *)
LEMMA InitBooking == Init => Booking
BY DEF Init, Booking, Booked, Steps

(* The handler itself: whatever it does, what it has inserted stays.       *)
LEMMA OwnBooking ==
  ASSUME IInv, Booking, NEW h \in Handler, Handle(h), started = 1, IsMake(h)
  PROVE  Booked(h)'
<1> DEFINE l == local[h]
<1>1. /\ Booked(h) /\ IsMake(h)' /\ UNCHANGED req
      /\ pc' = [pc EXCEPT ![h] = pc'[h]]
  BY DEF Booking, IsMake, Handle, Begin, GetCount, FindReservations, FillCache, RefuseNight,
         AcceptNight, NightAvailable, CacheTotal, Insert, NextHotel, IInv, AtNight
<1>2. req[h].inDate \in Int /\ req[h].outDate \in Int
  BY Requested DEF IInv
<1>3. ASSUME NEW i \in live, Begin(h, i) PROVE Booked(h)'
  <2>1. /\ pc'[h] = Loop(req[h])
        /\ result'[h] = IF Loop(req[h]) = "done" THEN {HotelOf(h)} ELSE {}
    BY <1>3 DEF Begin, IInv, AtNight, Booking
  <2>2. CASE req[h].inDate < req[h].outDate
    BY <2>1, <2>2 DEF Loop, Booked, Steps
  <2>3. CASE ~(req[h].inDate < req[h].outDate)
    <3>1. (req[h].inDate + 1)..req[h].outDate = {}
      BY <1>2, <2>3
    <3> QED BY <1>1, <2>1, <2>3, <3>1 DEF Loop, Booked, StoredUntil, Steps
  <2> QED BY <2>2, <2>3
<1>4. CASE GetCount(h) \/ FindReservations(h) \/ FillCache(h) \/ RefuseNight(h)
  <2>1. /\ pc[h] \in Steps /\ result' = result
        /\ pc'[h] \in {"find", "fill", "capacity", "done"}
    BY <1>1, <1>4 DEF GetCount, FindReservations, FillCache, RefuseNight, At, Steps, IInv, AtNight
  <2> QED BY <1>1, <2>1 DEF Booked, Steps
<1>5. CASE AcceptNight(h)
  <2>1. /\ pc[h] \in Steps /\ result' = result
        /\ pc'[h] = IF Night(h) < req[h].outDate THEN "count" ELSE "cache"
        /\ local'[h].day = IF Night(h) < req[h].outDate THEN l.day + 1 ELSE req[h].inDate
    BY <1>5 DEF AcceptNight, At, Steps, IInv, AtNight
  <2> QED BY <1>1, <2>1 DEF Booked, Steps
<1>6. ASSUME NEW n \in Day, CacheTotal(h, n) PROVE Booked(h)'
  <2>1. /\ pc[h] = "cache" /\ pc'[h] \in {"insert", "cache"} /\ result' = result
        /\ local'[h].day = l.day
    BY <1>6 DEF CacheTotal, At, IInv, AtNight
  <2>2. (req[h].inDate + 1)..req[h].inDate = {}
    BY <1>2
  <2> QED BY <1>1, <2>1, <2>2 DEF Booked, StoredUntil, Steps
<1>7. CASE Insert(h)
  <2>1. /\ pc[h] = "insert" /\ l.k = 1
        /\ l.day \in req[h].inDate..(req[h].outDate - 1)
    BY <1>7 DEF Insert, At, IInv, AtNight, Steps
  <2>2. /\ Stay(h, l.day + 1) \in documents' /\ documents \subseteq documents'
        /\ \A n : Stay(h, n)' = Stay(h, n)
    BY <1>1, <1>7, <2>1 DEF Insert, Stay, HotelOf, Night, Rooms
  <2>3. StoredUntil(h, l.day)
    BY <1>1, <2>1 DEF Booked
  <2>4. \A n \in (req[h].inDate + 1)..(l.day + 1) : Stay(h, n)' \in documents'
    BY <1>2, <2>1, <2>2, <2>3 DEF StoredUntil
  <2>5. CASE LastNight(h)
    <3>1. pc'[h] = "done" /\ l.day + 1 = req[h].outDate
      BY <1>7, <2>5 DEF Insert, LastNight, Night, IInv, AtNight
    <3> QED BY <1>1, <2>4, <3>1 DEF Booked, StoredUntil, Steps
  <2>6. CASE ~LastNight(h)
    <3>1. pc'[h] = "insert" /\ local'[h].day = l.day + 1 /\ result' = result
      BY <1>7, <2>1, <2>6 DEF Insert, IInv, AtNight
    <3> QED BY <1>1, <2>1, <2>4, <3>1 DEF Booked, StoredUntil, Steps
  <2> QED BY <2>5, <2>6
<1> QED BY <1>3, <1>4, <1>5, <1>6, <1>7 DEF Handle, NightAvailable

(* No handler takes from another's booking.                                *)
LEMMA HandlerBooks ==
  ASSUME IInv, Booking, NEW h \in Handler, Handle(h)
  PROVE  Booking'
<1>1. /\ UNCHANGED <<started, req>> /\ documents \subseteq documents'
      /\ result' = [g \in Handler |-> result'[g]]
      /\ \A g \in Handler : g # h => /\ pc'[g] = pc[g] /\ local'[g] = local[g]
                                     /\ result'[g] = result[g]
  BY DEF Booking, Handle, Begin, GetCount, FindReservations, FillCache, RefuseNight, AcceptNight,
         NightAvailable, CacheTotal, Insert, NextHotel, IInv, AtNight, environment, stores
<1>2. ASSUME started = 1, NEW g \in Handler, g # h PROVE Booked(g)'
  BY <1>1, <1>2 DEF Booking, Booked, StoredUntil, Stay, IsMake, Rooms
<1>3. ASSUME started = 1 PROVE Booked(h)'
  BY <1>1, <1>3, OwnBooking DEF Booked, IsMake
<1> QED BY <1>1, <1>2, <1>3 DEF Booking

(* Steps of the environment: a new instance ends the promise.              *)
LEMMA OthersBook ==
  ASSUME IInv, Booking,
         StartInstance \/ (\E h \in Handler : Panic(h))
           \/ (\E x \in Hotel, n \in Day : Evict(x, n)) \/ UNCHANGED vars
  PROVE  Booking'
<1>1. CASE StartInstance
  BY <1>1 DEF StartInstance, Booking
<1>2. CASE ~StartInstance
  <2>1. /\ UNCHANGED <<started, req, local, result, documents>>
        /\ \A g \in Handler : pc'[g] = pc[g] \/ pc'[g] = "killed"
    BY <1>2 DEF Panic, Evict, vars, environment, stores, IInv, AtNight
  <2>2. \A g \in Handler : Booked(g) => Booked(g)'
    BY <2>1 DEF Booked, StoredUntil, Stay, IsMake, Rooms, Steps
  <2> QED BY <2>1, <2>2 DEF Booking
<1> QED BY <1>1, <1>2

(* Unless another instance has started and emptied the collection, what    *)
(* MakeReservation confirmed is stored for every night of the stay.        *)
THEOREM ConfirmedStays == Spec => []ConfirmedIsStored
<1>1. IInv /\ Booking /\ [Next]_vars => (IInv /\ Booking)'
  BY OthersKeep, HandlerKeeps, OthersBook, HandlerBooks DEF Next
<1>2. Booking => ConfirmedIsStored
  BY DEF Booking, Booked, StoredUntil, Stay, ConfirmedIsStored
<1> QED BY InitIInv, InitBooking, <1>1, <1>2, PTL DEF Spec
-------------------------------------------------------------------------------
(* Sums over sets of documents.  RoomsIn is a fold: a function on the      *)
(* subsets of the set it adds up, defined by recursion.  That this         *)
(* function exists and that the order of the summands does not matter      *)
(* rests on the least element of a set of natural numbers.                 *)
LEMMA LeastElement ==
  ASSUME NEW T \in SUBSET Nat, T # {}
  PROVE  \E k \in T : \A m \in T : k <= m
<1> DEFINE R == OpToRel(<, Nat)
<1>1. IsWellFoundedOn(R, Nat)
  BY NatLessThanWellFounded
<1>2. \A k, m \in Nat : m < k => <<m, k>> \in R
  BY DEF OpToRel
<1> HIDE DEF R
<1>3. PICK k \in T : \A m \in T : ~ (<<m, k>> \in R)
  BY <1>1, WFMin
<1>4. k \in Nat /\ \A m \in T : m \in Nat /\ ~(m < k)
  BY <1>2, <1>3
<1> QED
  BY <1>4

LEMMA AllNumbers ==
  ASSUME NEW T, 0 \in T, \A k \in Nat : k \in T => k + 1 \in T
  PROVE  Nat \subseteq T
<1> SUFFICES ASSUME Nat \ T # {} PROVE FALSE
  OBVIOUS
<1>1. PICK k \in Nat \ T : \A m \in Nat \ T : k <= m
  BY LeastElement
<1>2. k # 0 /\ k - 1 \in Nat
  BY <1>1
<1>3. k - 1 \in T
  BY <1>1, <1>2
<1> QED
  BY <1>1, <1>2, <1>3

(* A set with one element taken out. *)
LEMMA Smaller ==
  ASSUME NEW n \in Nat, NEW S, IsFiniteSet(S), Cardinality(S) = n + 1, NEW d \in S
  PROVE  IsFiniteSet(S \ {d}) /\ Cardinality(S \ {d}) = n
<1>1. Cardinality(S \ {d}) = Cardinality(S) - 1 /\ IsFiniteSet(S \ {d})
  BY FS_RemoveElement
<1> QED
  BY <1>1

(* A family of sets that has the empty set, and each finite set of which   *)
(* some subset with one element less is in the family, has all finite sets.*)
LEMMA FiniteSetsAll ==
  ASSUME NEW F, NEW U, {} \in F,
         \A S \in SUBSET U : IsFiniteSet(S) /\ S # {} /\ (\A d \in S : S \ {d} \in F) => S \in F
  PROVE  \A S \in SUBSET U : IsFiniteSet(S) => S \in F
<1> DEFINE T == {n \in Nat : \A S \in SUBSET U : IsFiniteSet(S) /\ Cardinality(S) = n => S \in F}
<1>1. 0 \in T
  BY FS_EmptySet
<1>2. ASSUME NEW n \in Nat, n \in T PROVE n + 1 \in T
  <2> SUFFICES ASSUME NEW S \in SUBSET U, IsFiniteSet(S), Cardinality(S) = n + 1 PROVE S \in F
    OBVIOUS
  <2>1. S # {}
    BY FS_EmptySet
  <2>2. ASSUME NEW d \in S PROVE S \ {d} \in F
    <3>1. IsFiniteSet(S \ {d}) /\ Cardinality(S \ {d}) = n
      BY Smaller
    <3> QED
      BY <1>2, <3>1
  <2> QED
    BY <2>1, <2>2
<1> HIDE DEF T
<1>3. Nat \subseteq T
  BY <1>1, <1>2, AllNumbers
<1>4. \A S \in SUBSET U : IsFiniteSet(S) => Cardinality(S) \in Nat
  BY FS_CardinalityType
<1> QED
  BY <1>3, <1>4 DEF T

One(s) == CHOOSE d \in s : TRUE
Adds(g, S) == g = [s \in SUBSET S |-> IF s = {} THEN 0 ELSE One(s).rooms + g[s \ {One(s)}]]

LEMMA OneIsIn == ASSUME NEW s, s # {} PROVE One(s) \in s
BY DEF One

(* Two such functions agree on the finite sets that both have. *)
LEMMA AddsAgree ==
  ASSUME NEW S, NEW T, NEW g, NEW h, Adds(g, S), Adds(h, T)
  PROVE  \A s \in SUBSET (S \cap T) : IsFiniteSet(s) => g[s] = h[s]
<1> DEFINE U == S \cap T
           F == {s \in SUBSET U : g[s] = h[s]}
<1>1. {} \in F
  BY DEF Adds
<1>2. ASSUME NEW s \in SUBSET U, s # {}, \A d \in s : s \ {d} \in F PROVE s \in F
  <2>1. One(s) \in s
    BY <1>2, OneIsIn
  <2>2. s \in SUBSET S /\ s \in SUBSET T
    OBVIOUS
  <2>3. g[s] = One(s).rooms + g[s \ {One(s)}] /\ h[s] = One(s).rooms + h[s \ {One(s)}]
    BY <1>2, <2>2 DEF Adds
  <2> QED
    BY <1>2, <2>1, <2>3
<1> HIDE DEF U, F
<1>3. \A s \in SUBSET U : IsFiniteSet(s) => s \in F
  BY <1>1, <1>2, FiniteSetsAll
<1> QED
  BY <1>3 DEF U, F

(* There is one for each finite set. *)
LEMMA AddsExists ==
  ASSUME NEW S, IsFiniteSet(S)
  PROVE  \E g : Adds(g, S)
<1> DEFINE F == {s \in SUBSET S : \E g : Adds(g, s)}
<1>1. {} \in F
  <2> DEFINE z == [s \in SUBSET {} |-> 0]
  <2>1. Adds(z, {})
    BY DEF Adds
  <2> QED
    BY <2>1
<1>2. ASSUME NEW s \in SUBSET S, s # {}, IsFiniteSet(s), \A d \in s : s \ {d} \in F
      PROVE  s \in F
  <2> DEFINE sum(t) == (CHOOSE g : Adds(g, t))[t]
             g == [t \in SUBSET s |-> IF t = {} THEN 0 ELSE One(t).rooms + sum(t \ {One(t)})]
  <2>1. ASSUME NEW t \in SUBSET s, t # s PROVE \E h : Adds(h, t)
    <3>1. PICK d \in s : t \subseteq s \ {d}
      BY <2>1
    <3>2. PICK h : Adds(h, s \ {d})
      BY <1>2
    <3> DEFINE k == [r \in SUBSET t |-> h[r]]
    <3>3. Adds(k, t)
      <4>1. ASSUME NEW r \in SUBSET t
            PROVE  k[r] = IF r = {} THEN 0 ELSE One(r).rooms + k[r \ {One(r)}]
        <5>1. r \in SUBSET (s \ {d}) /\ r \ {One(r)} \in SUBSET t
          BY <3>1
        <5>2. h[r] = IF r = {} THEN 0 ELSE One(r).rooms + h[r \ {One(r)}]
          BY <3>2, <5>1 DEF Adds
        <5> QED
          BY <5>1, <5>2
      <4>2. k = [r \in SUBSET t |-> k[r]]
        OBVIOUS
      <4> HIDE DEF k
      <4> QED
        BY <4>1, <4>2 DEF Adds
    <3> QED
      BY <3>3
  <2>2. ASSUME NEW t \in SUBSET s, t # s PROVE sum(t) = IF t = {} THEN 0 ELSE One(t).rooms + sum(t \ {One(t)})
    <3> DEFINE r == t \ {One(t)}
               h == CHOOSE f : Adds(f, t)
               k == CHOOSE f : Adds(f, r)
    <3>1. r \in SUBSET s /\ r # s /\ r \in SUBSET t /\ r \in SUBSET (t \cap r) /\ t \in SUBSET t
      BY <2>2
    <3>2. Adds(h, t) /\ Adds(k, r)
      BY <2>1, <2>2, <3>1
    <3>3. IsFiniteSet(r)
      BY <1>2, <3>1, FS_Subset
    <3> HIDE DEF h, k
    <3>4. h[t] = IF t = {} THEN 0 ELSE One(t).rooms + h[r]
      BY <3>1, <3>2 DEF Adds
    <3>5. h[r] = k[r]
      BY <3>1, <3>2, <3>3, AddsAgree
    <3> QED
      BY <3>4, <3>5 DEF h, k
  <2>3. ASSUME NEW t \in SUBSET s
        PROVE  g[t] = IF t = {} THEN 0 ELSE One(t).rooms + g[t \ {One(t)}]
    <3>1. CASE t = {}
      BY <3>1
    <3>2. CASE t # {}
      <4> DEFINE r == t \ {One(t)}
      <4>1. r \in SUBSET s /\ r # s
        BY <3>2, OneIsIn
      <4>2. g[r] = sum(r)
        BY <2>2, <4>1
      <4>3. g[t] = One(t).rooms + sum(r)
        BY <3>2
      <4> QED
        BY <3>2, <4>2, <4>3
    <3> QED
      BY <3>1, <3>2
  <2>4. g = [t \in SUBSET s |-> g[t]]
    OBVIOUS
  <2> HIDE DEF g
  <2>5. Adds(g, s)
    BY <2>3, <2>4 DEF Adds
  <2> QED
    BY <2>5
<1> HIDE DEF F
<1>3. S \in F
  BY <1>1, <1>2, FiniteSetsAll
<1> QED
  BY <1>3 DEF F

(* So the rooms of a finite set are those of one element and of the rest. *)
LEMMA RoomsOfOne ==
  ASSUME NEW S, IsFiniteSet(S), S # {}
  PROVE  RoomsIn(S) = One(S).rooms + RoomsIn(S \ {One(S)})
<1> DEFINE R == S \ {One(S)}
           g == CHOOSE f : Adds(f, S)
           h == CHOOSE f : Adds(f, R)
<1>1. IsFiniteSet(R) /\ R \in SUBSET S /\ R \in SUBSET (S \cap R) /\ S \in SUBSET S
  BY FS_RemoveElement
<1>2. Adds(g, S) /\ Adds(h, R)
  BY <1>1, AddsExists
<1>3. RoomsIn(S) = g[S] /\ RoomsIn(R) = h[R]
  BY DEF RoomsIn, MapThenSumSet, MapThenFoldSet, Adds, One
<1> HIDE DEF g, h
<1>4. g[S] = One(S).rooms + g[R]
  BY <1>1, <1>2 DEF Adds
<1>5. g[R] = h[R]
  BY <1>1, <1>2, AddsAgree
<1> QED
  BY <1>3, <1>4, <1>5

(* It does not matter which. *)
LEMMA RoomsWithout ==
  ASSUME NEW S, IsFiniteSet(S), \A d \in S : d.rooms \in Nat
  PROVE  /\ RoomsIn(S) \in Nat
         /\ \A d \in S : RoomsIn(S) = d.rooms + RoomsIn(S \ {d})
<1> DEFINE F == {T \in SUBSET S : /\ \A R \in SUBSET T : RoomsIn(R) \in Nat
                                  /\ \A d \in T : RoomsIn(T) = d.rooms + RoomsIn(T \ {d})}
<1>1. {} \in F
  BY NoRooms
<1>2. ASSUME NEW T \in SUBSET S, IsFiniteSet(T), T # {}, \A d \in T : T \ {d} \in F
      PROVE  T \in F
  <2> DEFINE p == One(T)
  <2>1. p \in T /\ p.rooms \in Nat
    BY <1>2, OneIsIn
  <2>2. RoomsIn(T) = p.rooms + RoomsIn(T \ {p})
    BY <1>2, RoomsOfOne
  <2>3. RoomsIn(T \ {p}) \in Nat
    BY <1>2, <2>1
  <2> HIDE DEF p
  <2>4. ASSUME NEW R \in SUBSET T PROVE RoomsIn(R) \in Nat
    <3>1. CASE R = T
      BY <2>1, <2>2, <2>3, <3>1
    <3>2. CASE R # T
      <4>1. PICK d \in T : R \in SUBSET (T \ {d})
        BY <3>2
      <4> QED
        BY <1>2, <4>1
    <3> QED
      BY <3>1, <3>2
  <2>5. ASSUME NEW d \in T, d # p PROVE RoomsIn(T) = d.rooms + RoomsIn(T \ {d})
    <3> DEFINE rest == RoomsIn(T \ {d, p})
    <3>1. (T \ {p}) \ {d} = T \ {d, p} /\ (T \ {d}) \ {p} = T \ {d, p}
      OBVIOUS
    <3>2. RoomsIn(T \ {p}) = d.rooms + rest
      BY <1>2, <2>1, <2>5, <3>1
    <3>3. RoomsIn(T \ {d}) = p.rooms + rest
      BY <1>2, <2>1, <2>5, <3>1
    <3>4. d.rooms \in Nat /\ rest \in Nat
      BY <2>4
    <3> QED
      BY <2>1, <2>2, <3>2, <3>3, <3>4
  <2> QED
    BY <2>1, <2>2, <2>4, <2>5
<1> HIDE DEF F
<1>3. S \in F
  BY <1>1, <1>2, FiniteSetsAll
<1> QED
  BY <1>3 DEF F

(* One more document adds its rooms. *)
LEMMA RoomsWith ==
  ASSUME NEW S, IsFiniteSet(S), NEW d, d \notin S, \A e \in S \cup {d} : e.rooms \in Nat
  PROVE  RoomsIn(S \cup {d}) = RoomsIn(S) + d.rooms /\ RoomsIn(S) \in Nat
<1>1. IsFiniteSet(S \cup {d})
  BY FS_AddElement
<1>2. RoomsIn(S \cup {d}) = d.rooms + RoomsIn((S \cup {d}) \ {d})
  BY <1>1, RoomsWithout
<1>3. (S \cup {d}) \ {d} = S
  OBVIOUS
<1>4. RoomsIn(S) \in Nat
  BY RoomsWithout
<1>5. d.rooms \in Nat
  OBVIOUS
<1>6. RoomsIn(S \cup {d}) = d.rooms + RoomsIn(S)
  BY <1>2, <1>3
<1> QED
  BY <1>4, <1>5, <1>6

-------------------------------------------------------------------------------
(* Requests one at a time.  What is sold are the rooms of the requests     *)
(* that were answered; the cache counts just these, and those of the stay  *)
(* that is being booked for the nights whose total has been written.       *)
NightsOf(h) == (req[h].inDate + 1)..req[h].outDate
Guests == {d \in documents : d.by \in Handler}
Final == {d \in documents : Finished(d.by)}
SoldAt(x, n) == {d \in Final : d.hotel = x /\ d.night = n}
Sold(x, n) == RoomsIn(SoldAt(x, n))
Fits(h, x, n) == Sold(x, n) + Rooms(h) <= NumberOfRoom[x]
AllFit(h, x) == \A n \in NightsOf(h) : Fits(h, x, n)

CountOf(x, n) == IF cache[x][n] = Miss THEN 0 ELSE cache[x][n]

Written(h, x, n) ==
  /\ pc[h] \in {"cache", "insert"}
  /\ x = HotelOf(h) /\ n \in NightsOf(h)
  /\ pc[h] = "cache" => n \notin DOMAIN local[h].totals

Counts == \A x \in Hotel, n \in Day :
  /\ (\A h \in Handler : ~Written(h, x, n)) => CountOf(x, n) = Sold(x, n)
  /\ \A h \in Handler : Written(h, x, n) => CountOf(x, n) = Sold(x, n) + Rooms(h)

(* Only MakeReservation inserts, and the nights of its stay in order.      *)
Inserted ==
  /\ IsFiniteSet(Guests)
  /\ \A d \in Guests : /\ d.night \in NightsOf(d.by) /\ d = Stay(d.by, d.night) /\ IsMake(d.by)
                       /\ pc[d.by] \in {"insert", "done", "killed"}
                       /\ pc[d.by] = "insert" => d.night <= local[d.by].day

(* What a handler has found out so far is exact.                           *)
NightsFit(h) ==
  /\ pc[h] \in {"find", "fill"} => cache[HotelOf(h)][Night(h)] = Miss
  /\ pc[h] = "capacity" => local[h].count = Sold(HotelOf(h), Night(h))
  /\ pc[h] \in {"count", "find", "fill", "capacity"} =>
       \A n \in (req[h].inDate + 1)..local[h].day : Fits(h, HotelOf(h), n)
  /\ pc[h] \in {"cache", "insert"} => AllFit(h, HotelOf(h))

MakesFit(h) == IsMake(h) =>
  /\ pc[h] # "fill"
  /\ pc[h] \in {"count", "find", "capacity"} =>
       DOMAIN local[h].totals = (req[h].inDate + 1)..local[h].day
  /\ pc[h] = "cache" => DOMAIN local[h].totals \subseteq NightsOf(h)
  /\ pc[h] \in Steps => \A n \in DOMAIN local[h].totals :
       local[h].totals[n] = Sold(HotelOf(h), n) + Rooms(h)

Listed(h, last) ==
  {x \in Hotel : AllFit(h, x) /\ \E k \in 1..last : req[h].hotels[k] = x}

ChecksFit(h) == ~IsMake(h) /\ pc[h] \in Steps => result[h] = Listed(h, local[h].k - 1)

Deciding(h) == NightsFit(h) /\ MakesFit(h) /\ ChecksFit(h)

Lone ==
  /\ started = 1 /\ faults = 0 /\ live \subseteq {1}
  /\ \A g, h \in Running : g = h

Exact == live # {} =>
  /\ \A h \in Handler : pc[h] # "killed"
  /\ Counts
  /\ \A h \in Handler : Deciding(h)

SerialInv == Serial => Lone /\ Inserted /\ NoOverbooking /\ Exact

(* The initial state satisfies it: main()'s document is no request's.      *)
LEMMA InitSerialInv == Init => SerialInv
<1> SUFFICES ASSUME Init PROVE Lone /\ Inserted /\ NoOverbooking /\ Exact
  BY DEF SerialInv
<1>1. Guests = {} /\ \A h : Finished(h) => FALSE
  BY ReservationAssumption DEF Init, Guests, Finished
<1>2. \A x, n : /\ {d \in documents : d.by \in Handler /\ d.hotel = x /\ d.night = n} = {}
                /\ SoldAt(x, n) = {}
  BY <1>1 DEF Guests, SoldAt, Final
<1>3. \A x, n : Reserved(x, n) = 0 /\ Sold(x, n) = 0
  BY <1>2, NoRooms DEF Reserved, Sold
<1>4. NoOverbooking
  BY <1>3, ReservationAssumption DEF NoOverbooking
<1>5. Lone /\ Inserted
  BY <1>1, FS_EmptySet DEF Init, Lone, Inserted, Running, Steps
<1>6. \A h \in Handler : pc[h] = "idle" /\ Deciding(h) /\ \A x, n : ~Written(h, x, n)
  BY DEF Init, Deciding, NightsFit, MakesFit, ChecksFit, Written, Steps
<1>7. Counts
  BY <1>3, <1>6 DEF Counts, CountOf, Init
<1> QED
  BY <1>4, <1>5, <1>6, <1>7 DEF Exact

(* Sums of what is stored are numbers.                                     *)
LEMMA SoldIsNumber ==
  ASSUME IInv, Inserted, NEW S \in SUBSET Guests
  PROVE  IsFiniteSet(S) /\ (\A d \in S : d.rooms \in Nat) /\ RoomsIn(S) \in Nat
<1>1. IsFiniteSet(S)
  BY FS_Subset DEF Inserted
<1>2. ASSUME NEW d \in S PROVE d.rooms \in Nat
  <2>1. d.by \in Handler /\ d = Stay(d.by, d.night)
    BY DEF Inserted, Guests
  <2>2. Rooms(d.by) \in Nat
    BY <2>1, Requested DEF IInv
  <2>3. d.rooms = Rooms(d.by)
    BY <2>1 DEF Stay
  <2> QED
    BY <2>2, <2>3
<1> QED
  BY <1>1, <1>2, RoomsWithout

LEMMA SoldNat ==
  ASSUME IInv, Inserted, NEW x, NEW n
  PROVE  Sold(x, n) \in Nat
<1>1. SoldAt(x, n) \in SUBSET Guests
  BY DEF SoldAt, Final, Guests, Finished
<1> QED
  BY <1>1, SoldIsNumber DEF Sold

(* A handler at work is the only one.                                      *)
LEMMA OthersRest ==
  ASSUME Lone, NEW h \in Handler, pc[h] \in Steps
  PROVE  \A g \in Handler \ {h} : pc[g] \notin Steps
BY DEF Lone, Running

LEMMA NoneRuns ==
  ASSUME Lone, Serial, Cardinality(Running) < load.atOnce
  PROVE  \A g \in Handler : pc[g] \notin Steps
<1> SUFFICES ASSUME NEW g \in Running PROVE FALSE
  BY DEF Running
<1>1. Running = {g}
  BY DEF Lone
<1>2. Cardinality(Running) = 1
  BY <1>1, FS_Singleton
<1> QED
  BY <1>2 DEF Serial

(* A step of the only handler at work keeps the invariant if it leaves the *)
(* counts exact and what the handler knows true.                           *)
LEMMA StepOfOne ==
  ASSUME Lone, Exact, live # {}, UNCHANGED <<load, live, started, faults>>,
         NEW h \in Handler, pc'[h] # "killed",
         \A g \in Handler \ {h} : pc[g] \notin Steps /\ pc'[g] = pc[g],
         Counts', Deciding(h)', Inserted', NoOverbooking'
  PROVE  SerialInv'
<1>1. Lone'
  BY DEF Lone, Running
<1>2. \A g \in Handler : pc'[g] # "killed"
  BY DEF Exact
<1>3. \A g \in Handler : Deciding(g)'
  BY DEF Deciding, NightsFit, MakesFit, ChecksFit, Steps
<1> QED
  BY <1>1, <1>2, <1>3 DEF SerialInv, Exact

(* A handler that has not inserted yet and does not do so now changes      *)
(* nothing about what is sold.                                             *)
LEMMA NothingInserted ==
  ASSUME Inserted, UNCHANGED <<documents, req>>,
         NEW h \in Handler, pc[h] \notin {"insert", "done", "killed"},
         \A g \in Handler \ {h} : pc'[g] = pc[g] /\ local'[g] = local[g]
  PROVE  /\ Inserted' /\ Final' = Final
         /\ \A x, n : Sold(x, n)' = Sold(x, n)
         /\ \A g, x, n : Fits(g, x, n)' <=> Fits(g, x, n)
         /\ \A g, x : AllFit(g, x)' <=> AllFit(g, x)
         /\ NoOverbooking /\ UNCHANGED load => NoOverbooking'
<1>1. \A d \in Guests : d.by \in Handler /\ d.by # h
  BY DEF Inserted, Guests
<1>2. Guests' = Guests
  BY DEF Guests
<1>3. Inserted'
  <2>1. ASSUME NEW d \in Guests
        PROVE  /\ d.night \in NightsOf(d.by)' /\ d = Stay(d.by, d.night)' /\ IsMake(d.by)'
               /\ pc'[d.by] \in {"insert", "done", "killed"}
               /\ pc'[d.by] = "insert" => d.night <= local'[d.by].day
    BY <1>1 DEF Inserted, NightsOf, Stay, Rooms, IsMake
  <2> QED
    BY <1>2, <2>1 DEF Inserted
<1>4. Final' = Final
  BY <1>1 DEF Final, Guests, Finished
<1>5. \A x, n : Sold(x, n)' = Sold(x, n)
  BY <1>4 DEF Sold, SoldAt
<1>6. \A g, x, n : Fits(g, x, n)' <=> Fits(g, x, n)
  BY <1>5 DEF Fits, Rooms
<1>7. \A g, x : AllFit(g, x)' <=> AllFit(g, x)
  BY <1>6 DEF AllFit, NightsOf
<1>8. NoOverbooking /\ UNCHANGED load => NoOverbooking'
  BY DEF NoOverbooking, Serial, Reserved
<1> QED
  BY <1>3, <1>4, <1>5, <1>6, <1>7, <1>8

(* The counts stay exact if the cache is left alone.                       *)
LEMMA CountsStay ==
  ASSUME Counts, UNCHANGED <<cache, req>>, NEW h \in Handler,
         \A x, n : Sold(x, n)' = Sold(x, n),
         \A g \in Handler \ {h} : pc[g] \notin Steps /\ pc'[g] = pc[g],
         \A x, n : Written(h, x, n)' <=> Written(h, x, n)
  PROVE  Counts'
<1>1. \A g \in Handler : \A x, n : Written(g, x, n)' <=> Written(g, x, n)
  BY DEF Written, Steps
<1>2. \A x, n : CountOf(x, n)' = CountOf(x, n)
  BY DEF CountOf
<1>3. \A g : Rooms(g)' = Rooms(g)
  BY DEF Rooms
<1> QED
  BY <1>1, <1>2, <1>3 DEF Counts

(* The state that a request which is served alone finds.                   *)
Calm == /\ IInv /\ Booking /\ Serial /\ live # {}
        /\ Lone /\ Inserted /\ NoOverbooking /\ Exact

(* What Calm says of the handler at work.                                  *)
LEMMA AtWork ==
  ASSUME Calm, NEW h \in Handler, pc[h] \in Steps
  PROVE  /\ \A g \in Handler \ {h} : pc[g] \notin Steps
         /\ Counts /\ NightsFit(h) /\ MakesFit(h) /\ ChecksFit(h)
         /\ local[h].k \in 1..Len(req[h].hotels)
         /\ local[h].day \in req[h].inDate..(req[h].outDate - 1)
         /\ Night(h) \in NightsOf(h)
         /\ IsMake(h) => local[h].k = 1 /\ HotelOf(h) = req[h].hotels[1]
         /\ HotelOf(h) \in Hotel /\ Night(h) \in Day /\ NightsOf(h) \subseteq Day
         /\ req[h].inDate \in Int /\ req[h].outDate \in Int /\ Rooms(h) \in Nat
         /\ \A x, n : Sold(x, n) \in Nat
<1>1. \A g \in Handler \ {h} : pc[g] \notin Steps
  BY OthersRest DEF Calm
<1>2. Counts /\ NightsFit(h) /\ MakesFit(h) /\ ChecksFit(h)
  BY DEF Calm, Exact, Deciding
<1>3. /\ local[h].k \in 1..Len(req[h].hotels)
      /\ local[h].day \in req[h].inDate..(req[h].outDate - 1)
      /\ IsMake(h) => local[h].k = 1
  BY DEF Calm, IInv, AtNight
<1>4. /\ HotelOf(h) \in Hotel /\ Night(h) \in Day /\ NightsOf(h) \subseteq Day
      /\ req[h].inDate \in Int /\ req[h].outDate \in Int /\ Rooms(h) \in Nat
  BY Requested DEF Calm, IInv, NightsOf
<1>5. Night(h) \in NightsOf(h)
  BY <1>3, <1>4 DEF Night, NightsOf
<1>6. IsMake(h) => HotelOf(h) = req[h].hotels[1]
  BY <1>3 DEF HotelOf
<1>7. \A x, n : Sold(x, n) \in Nat
  BY SoldNat DEF Calm
<1> QED
  BY <1>1, <1>2, <1>3, <1>4, <1>5, <1>6, <1>7

(* A step that neither inserts nor writes to the cache.                    *)
LEMMA ThinkingStep ==
  ASSUME Calm, NEW h \in Handler, pc[h] \notin {"insert", "done", "killed"},
         UNCHANGED <<environment, documents, req>>, pc'[h] # "killed",
         \A g \in Handler \ {h} : pc[g] \notin Steps /\ pc'[g] = pc[g] /\ local'[g] = local[g],
         Counts', Deciding(h)'
  PROVE  SerialInv'
<1>1. Inserted' /\ NoOverbooking'
  BY NothingInserted DEF Calm, environment
<1> QED
  BY <1>1, StepOfOne DEF Calm, environment

(* A request arrives.                                                      *)
LEMMA BeginSerial ==
  ASSUME Calm, NEW h \in Handler, NEW i \in live, Begin(h, i)
  PROVE  SerialInv'
<1>1. \A g \in Handler : pc[g] \notin Steps
  BY NoneRuns DEF Calm, Begin
<1>2. /\ pc[h] = "idle" /\ pc'[h] = Loop(req[h]) /\ UNCHANGED <<environment, stores, req, local>>
      /\ result'[h] = IF IsMake(h) /\ Loop(req[h]) = "done" THEN {HotelOf(h)} ELSE {}
      /\ \A g \in Handler \ {h} : pc'[g] = pc[g]
  BY DEF Begin, Calm, IInv, AtNight, Booking
<1>3. local[h] = Start(req[h])
  BY <1>2 DEF Calm, IInv, AtNight
<1>4. pc'[h] \in {"count", "done"}
  BY <1>2 DEF Loop
<1>5. /\ \A x, n : Sold(x, n)' = Sold(x, n)
      /\ \A g, x, n : Fits(g, x, n)' <=> Fits(g, x, n)
      /\ \A g, x : AllFit(g, x)' <=> AllFit(g, x)
  BY <1>2, NothingInserted DEF Calm, stores
<1>6. Counts'
  <2>1. \A x, n : ~Written(h, x, n)' /\ ~Written(h, x, n)
    BY <1>2, <1>4 DEF Written
  <2> QED
    BY <1>1, <1>2, <1>5, <2>1, CountsStay DEF Calm, Exact, stores
<1>7. Deciding(h)'
  <2>1. req[h].inDate \in Int /\ (req[h].inDate + 1)..req[h].inDate = {}
    <3>1. req[h].inDate \in Int
      BY Requested DEF Calm, IInv
    <3> QED
      BY <3>1
  <2>2. local'[h].day = req[h].inDate /\ DOMAIN local'[h].totals = {} /\ local'[h].k = 1
    BY <1>2, <1>3 DEF Start, NoTotals
  <2>3. NightsFit(h)'
    BY <1>2, <1>4, <2>1, <2>2 DEF NightsFit
  <2>4. MakesFit(h)'
    BY <1>2, <1>4, <2>1, <2>2 DEF MakesFit
  <2>5. ChecksFit(h)'
    <3> SUFFICES ASSUME ~IsMake(h) PROVE result'[h] = Listed(h, local[h].k - 1)'
      BY <1>2 DEF ChecksFit, IsMake
    <3>1. result'[h] = {}
      BY <1>2
    <3>2. 1..(local'[h].k - 1) = {}
      BY <2>2
    <3> QED
      BY <3>1, <3>2 DEF Listed
  <2> QED
    BY <2>3, <2>4, <2>5 DEF Deciding
<1> QED
  BY <1>1, <1>2, <1>4, <1>6, <1>7, ThinkingStep DEF stores

(* The count of a night, from the cache or from an answer without          *)
(* documents, is what is sold.                                             *)
LEMMA CountSerial ==
  ASSUME Calm, NEW h \in Handler, GetCount(h) \/ FindReservations(h)
  PROVE  SerialInv'
<1>1. /\ pc[h] \in {"count", "find"} /\ UNCHANGED <<environment, stores, req, result>>
      /\ pc'[h] \in {"find", "fill", "capacity"}
      /\ \A g \in Handler \ {h} : pc'[g] = pc[g] /\ local'[g] = local[g]
      /\ local'[h].k = local[h].k /\ local'[h].day = local[h].day
      /\ local'[h].totals = local[h].totals
  BY DEF GetCount, FindReservations, At, Calm, IInv, AtNight
<1>2. pc[h] \in Steps
  BY <1>1 DEF Steps
<1>3. /\ \A x, n : Sold(x, n)' = Sold(x, n)
      /\ \A g, x, n : Fits(g, x, n)' <=> Fits(g, x, n)
      /\ \A g, x : AllFit(g, x)' <=> AllFit(g, x)
  BY <1>1, NothingInserted DEF Calm, stores
<1>4. HotelOf(h)' = HotelOf(h) /\ Night(h)' = Night(h) /\ Rooms(h)' = Rooms(h)
      /\ (IsMake(h)' <=> IsMake(h))
  BY <1>1 DEF HotelOf, Night, Rooms, IsMake
<1>5. Counts'
  <2>1. \A x, n : ~Written(h, x, n)' /\ ~Written(h, x, n)
    BY <1>1 DEF Written
  <2> QED
    BY <1>1, <1>2, <1>3, <2>1, AtWork, CountsStay DEF stores
<1>6. CountOf(HotelOf(h), Night(h)) = Sold(HotelOf(h), Night(h))
  <2>1. \A g \in Handler : ~Written(g, HotelOf(h), Night(h))
    BY <1>1, <1>2, AtWork DEF Written, Steps
  <2> QED
    BY <1>2, <2>1, AtWork DEF Counts
<1>7. NightsFit(h)'
  <2>1. pc'[h] \in {"find", "fill"} => cache'[HotelOf(h)][Night(h)] = Miss
    <3>1. CASE GetCount(h)
      BY <1>1, <3>1 DEF GetCount, Calm, IInv, AtNight, stores
    <3>2. CASE FindReservations(h)
      BY <1>1, <1>2, <3>2, AtWork DEF FindReservations, At, NightsFit, stores
    <3> QED
      BY <3>1, <3>2
  <2>2. pc'[h] = "capacity" => local'[h].count = Sold(HotelOf(h), Night(h))
    <3>1. CASE GetCount(h)
      BY <1>6, <3>1 DEF GetCount, CountOf, Calm, IInv, AtNight
    <3>2. CASE FindReservations(h)
      <4>1. local'[h].count = 0
        BY <3>2, NothingFound, NoRooms DEF FindReservations, Calm, IInv, AtNight
      <4>2. cache[HotelOf(h)][Night(h)] = Miss
        BY <1>2, <3>2, AtWork DEF FindReservations, At, NightsFit
      <4> QED
        BY <1>6, <4>1, <4>2 DEF CountOf
    <3> QED
      BY <3>1, <3>2
  <2>3. \A n \in (req[h].inDate + 1)..local[h].day : Fits(h, HotelOf(h), n)
    BY <1>1, <1>2, AtWork DEF NightsFit
  <2> QED
    BY <1>1, <1>3, <1>4, <2>1, <2>2, <2>3 DEF NightsFit
<1>8. MakesFit(h)'
  <2>1. MakesFit(h)
    BY <1>2, AtWork
  <2>2. IsMake(h) => pc'[h] # "fill"
    BY <1>1 DEF GetCount, FindReservations, Calm, IInv, AtNight
  <2> QED
    BY <1>1, <1>2, <1>3, <1>4, <2>1, <2>2 DEF MakesFit
<1>9. ChecksFit(h)'
  <2>1. ChecksFit(h)
    BY <1>2, AtWork
  <2> QED
    BY <1>1, <1>2, <1>3, <2>1 DEF ChecksFit, Listed, IsMake
<1>10. Deciding(h)'
  BY <1>7, <1>8, <1>9 DEF Deciding
<1> QED
  BY <1>1, <1>2, <1>5, <1>10, AtWork, ThinkingStep DEF stores

(* A check's 0 goes into the cache in place of no count.                   *)
LEMMA FillSerial ==
  ASSUME Calm, NEW h \in Handler, FillCache(h)
  PROVE  SerialInv'
<1> DEFINE x == HotelOf(h)
           m == Night(h)
<1>1. /\ pc[h] = "fill" /\ pc[h] \in Steps /\ pc'[h] = "capacity"
      /\ UNCHANGED <<load, live, started, documents, req, local, result>>
      /\ \A g \in Handler \ {h} : pc'[g] = pc[g]
      /\ Set(x, m, local[h].count)
  BY DEF FillCache, At, Calm, IInv, AtNight, Steps
<1>2. /\ faults' = faults /\ cache' = [cache EXCEPT ![x][m] = 0]
  <2>1. load.faults = 0 /\ faults = 0 /\ local[h].count = 0
    BY <1>1 DEF Calm, Serial, Lone, IInv, Checked
  <2> QED
    BY <1>1, <2>1 DEF Set
<1>3. /\ \A y, n : Sold(y, n)' = Sold(y, n)
      /\ \A g, y, n : Fits(g, y, n)' <=> Fits(g, y, n)
      /\ \A g, y : AllFit(g, y)' <=> AllFit(g, y)
  BY <1>1, NothingInserted DEF Calm
<1>4. /\ HotelOf(h)' = x /\ Night(h)' = m /\ Rooms(h)' = Rooms(h) /\ (IsMake(h)' <=> IsMake(h))
      /\ x \in Hotel /\ m \in Day
  BY <1>1, AtWork DEF HotelOf, Night, Rooms, IsMake
<1>5. cache[x][m] = Miss /\ ~IsMake(h)
  BY <1>1, AtWork DEF NightsFit, MakesFit
<1>6. \A g \in Handler : \A y, n : ~Written(g, y, n)' /\ ~Written(g, y, n)
  BY <1>1, AtWork DEF Written, Steps
<1>7. \A y \in Hotel, n \in Day : CountOf(y, n)' = CountOf(y, n)
  <2>1. 0 # Miss /\ cache \in [Hotel -> [Day -> Int \cup {Miss}]]
    BY ReservationAssumption DEF Calm, IInv, Cached
  <2> HIDE DEF x, m
  <2> QED
    BY <1>2, <1>4, <1>5, <2>1 DEF CountOf
<1>8. Counts'
  BY <1>1, <1>3, <1>6, <1>7, AtWork DEF Counts
<1>9. Deciding(h)'
  <2>1. CountOf(x, m) = Sold(x, m)
    BY <1>1, <1>4, <1>6, AtWork DEF Counts
  <2>2. local[h].count = Sold(x, m)
    BY <1>1, <1>5, <2>1 DEF Calm, IInv, Checked, CountOf
  <2>3. NightsFit(h)'
    BY <1>1, <1>3, <1>4, <2>2, AtWork DEF NightsFit
  <2>4. MakesFit(h)' /\ ChecksFit(h)'
    BY <1>1, <1>3, <1>4, <1>5, AtWork DEF MakesFit, ChecksFit, Listed
  <2> QED
    BY <2>3, <2>4 DEF Deciding
<1> QED
  BY <1>1, <1>2, <1>8, <1>9, AtWork, ThinkingStep DEF environment

(* A night has no room: MakeReservation gives up, CheckAvailability goes   *)
(* on to the next hotel and does not list this one.                        *)
LEMMA Refused ==
  ASSUME Calm, NEW h \in Handler, RefuseNight(h)
  PROVE  ~AllFit(h, HotelOf(h))
<1>1. pc[h] = "capacity" /\ pc[h] \in Steps
  BY DEF RefuseNight, At, Steps
<1>2. /\ local[h].count = Sold(HotelOf(h), Night(h))
      /\ Night(h) \in NightsOf(h) /\ Sold(HotelOf(h), Night(h)) \in Nat
      /\ Rooms(h) \in Nat /\ NumberOfRoom[HotelOf(h)] \in Nat
  BY <1>1, AtWork, ReservationAssumption DEF NightsFit
<1>3. ~Fits(h, HotelOf(h), Night(h))
  BY <1>2 DEF RefuseNight, Full, Fits
<1> QED
  BY <1>2, <1>3 DEF AllFit

(* A hotel that has room for all nights is listed, another one is not.     *)
LEMMA ListedNext ==
  ASSUME NEW h \in Handler, NEW k \in Nat \ {0}, req[h].hotels[k] \in Hotel
  PROVE  Listed(h, k) = IF AllFit(h, req[h].hotels[k])
                          THEN Listed(h, k - 1) \cup {req[h].hotels[k]} ELSE Listed(h, k - 1)
<1>1. \A j : j \in 1..k <=> j \in 1..(k - 1) \/ j = k
  OBVIOUS
<1> QED
  BY <1>1 DEF Listed

(* The next hotel of a check. *)
LEMMA NextHotelSerial ==
  ASSUME Calm, NEW h \in Handler, ~IsMake(h), pc[h] = "capacity", NextHotel(h),
         UNCHANGED <<environment, stores, req>>, result'[h] = Listed(h, local[h].k)
  PROVE  SerialInv'
<1>1. /\ pc[h] \in Steps /\ pc'[h] \in {"count", "done"}
      /\ \A g \in Handler \ {h} : pc'[g] = pc[g] /\ local'[g] = local[g]
      /\ local'[h].k = local[h].k + 1 /\ local'[h].day = req[h].inDate
  BY DEF NextHotel, Calm, IInv, AtNight, Steps
<1>2. /\ \A x, n : Sold(x, n)' = Sold(x, n)
      /\ \A g, x : AllFit(g, x)' <=> AllFit(g, x)
  BY <1>1, NothingInserted DEF Calm, stores
<1>3. Counts'
  <2>1. \A x, n : ~Written(h, x, n)' /\ ~Written(h, x, n)
    BY <1>1 DEF Written
  <2> QED
    BY <1>1, <1>2, <2>1, AtWork, CountsStay DEF stores
<1>4. local'[h].k - 1 = local[h].k
  <2>1. local[h].k \in 1..Len(req[h].hotels) /\ Len(req[h].hotels) \in Nat
    BY <1>1, AtWork, Requested DEF Calm, IInv
  <2> QED
    BY <1>1, <2>1
<1>5. (req[h].inDate + 1)..req[h].inDate = {}
  <2>1. req[h].inDate \in Int
    BY <1>1, AtWork
  <2> QED
    BY <2>1
<1>6. Deciding(h)'
  BY <1>1, <1>2, <1>4, <1>5 DEF Deciding, NightsFit, MakesFit, ChecksFit, Listed, IsMake
<1> QED
  BY <1>1, <1>3, <1>6, AtWork, ThinkingStep DEF stores

LEMMA RefuseSerial ==
  ASSUME Calm, NEW h \in Handler, RefuseNight(h)
  PROVE  SerialInv'
<1>1. /\ pc[h] = "capacity" /\ pc[h] \in Steps /\ UNCHANGED <<environment, stores, req, result>>
  BY DEF RefuseNight, At, Steps
<1>2. CASE IsMake(h)
  <2>1. /\ pc'[h] = "done" /\ local' = local
        /\ \A g \in Handler \ {h} : pc'[g] = pc[g]
    BY <1>2 DEF RefuseNight, Calm, IInv, AtNight
  <2>2. \A x, n : Sold(x, n)' = Sold(x, n)
    BY <1>1, <2>1, NothingInserted DEF Calm, stores
  <2>3. \A x, n : ~Written(h, x, n)' /\ ~Written(h, x, n)
    BY <1>1, <2>1 DEF Written
  <2>4. Counts'
    BY <1>1, <2>1, <2>2, <2>3, AtWork, CountsStay DEF stores
  <2>5. Deciding(h)'
    BY <2>1 DEF Deciding, NightsFit, MakesFit, ChecksFit, Steps
  <2> QED
    BY <1>1, <2>1, <2>4, <2>5, AtWork, ThinkingStep DEF stores
<1>3. CASE ~IsMake(h)
  <2>1. NextHotel(h)
    BY <1>3 DEF RefuseNight
  <2>2. result'[h] = Listed(h, local[h].k - 1)
    BY <1>1, <1>3, AtWork DEF ChecksFit
  <2>3. local[h].k \in Nat \ {0} /\ req[h].hotels[local[h].k] \in Hotel
    BY <1>1, AtWork, Requested DEF Calm, IInv, HotelOf
  <2>4. Listed(h, local[h].k) = Listed(h, local[h].k - 1)
    BY <2>3, ListedNext, Refused DEF HotelOf
  <2> QED
    BY <1>1, <1>3, <2>1, <2>2, <2>4, NextHotelSerial
<1> QED
  BY <1>2, <1>3

(* A night has room.                                                       *)
LEMMA Accepted ==
  ASSUME Calm, NEW h \in Handler, AcceptNight(h) \/ NightAvailable(h)
  PROVE  /\ pc[h] = "capacity" /\ pc[h] \in Steps
         /\ local[h].count = Sold(HotelOf(h), Night(h))
         /\ \A n \in (req[h].inDate + 1)..Night(h) : Fits(h, HotelOf(h), n)
         /\ Night(h) >= req[h].outDate => AllFit(h, HotelOf(h))
<1>1. /\ pc[h] = "capacity" /\ pc[h] \in Steps
      /\ ~Full(local[h].count, Rooms(h), NumberOfRoom[HotelOf(h)])
  BY DEF AcceptNight, NightAvailable, At, Steps
<1>2. /\ local[h].count = Sold(HotelOf(h), Night(h))
      /\ Sold(HotelOf(h), Night(h)) \in Nat /\ Rooms(h) \in Nat
      /\ NumberOfRoom[HotelOf(h)] \in Nat
      /\ \A n \in (req[h].inDate + 1)..local[h].day : Fits(h, HotelOf(h), n)
      /\ req[h].inDate \in Int /\ req[h].outDate \in Int
      /\ local[h].day \in req[h].inDate..(req[h].outDate - 1)
  BY <1>1, AtWork, ReservationAssumption DEF NightsFit
<1>3. Fits(h, HotelOf(h), Night(h))
  BY <1>1, <1>2 DEF Full, Fits
<1>4. \A n \in (req[h].inDate + 1)..Night(h) : n \in (req[h].inDate + 1)..local[h].day \/ n = Night(h)
  BY <1>2 DEF Night
<1>5. \A n \in (req[h].inDate + 1)..Night(h) : Fits(h, HotelOf(h), n)
  BY <1>2, <1>3, <1>4
<1>6. ASSUME Night(h) >= req[h].outDate
      PROVE  NightsOf(h) \subseteq (req[h].inDate + 1)..Night(h)
  BY <1>2, <1>6 DEF NightsOf, Night
<1> QED
  BY <1>1, <1>2, <1>5, <1>6 DEF AllFit

LEMMA AvailableSerial ==
  ASSUME Calm, NEW h \in Handler, NightAvailable(h)
  PROVE  SerialInv'
<1>1. /\ pc[h] = "capacity" /\ pc[h] \in Steps /\ ~IsMake(h)
      /\ UNCHANGED <<environment, stores, req>>
      /\ \A n \in (req[h].inDate + 1)..Night(h) : Fits(h, HotelOf(h), n)
      /\ Night(h) >= req[h].outDate => AllFit(h, HotelOf(h))
  BY Accepted DEF NightAvailable
<1>2. result[h] = Listed(h, local[h].k - 1)
  BY <1>1, AtWork DEF ChecksFit
<1>3. CASE Night(h) < req[h].outDate
  <2>1. /\ pc'[h] = "count" /\ result' = result
        /\ \A g \in Handler \ {h} : pc'[g] = pc[g] /\ local'[g] = local[g]
        /\ local'[h].k = local[h].k /\ local'[h].day = Night(h)
    <3>1. req[h].outDate \in Int /\ Night(h) \in Int
      BY <1>1, AtWork, ReservationAssumption
    <3>2. Night(h) # req[h].outDate
      BY <1>3, <3>1
    <3> QED
      BY <3>2 DEF NightAvailable, Night, Calm, IInv, AtNight
  <2>2. /\ \A x, n : Sold(x, n)' = Sold(x, n)
        /\ \A g, x, n : Fits(g, x, n)' <=> Fits(g, x, n)
        /\ \A g, x : AllFit(g, x)' <=> AllFit(g, x)
    BY <1>1, <2>1, NothingInserted DEF Calm, stores
  <2>3. Counts'
    <3>1. \A x, n : ~Written(h, x, n)' /\ ~Written(h, x, n)
      BY <1>1, <2>1 DEF Written
    <3> QED
      BY <1>1, <2>1, <2>2, <3>1, AtWork, CountsStay DEF stores
  <2>4. HotelOf(h)' = HotelOf(h) /\ (IsMake(h)' <=> IsMake(h))
    BY <1>1, <2>1 DEF HotelOf, IsMake
  <2>5. NightsFit(h)'
    BY <1>1, <2>1, <2>2, <2>4 DEF NightsFit
  <2>6. MakesFit(h)' /\ ChecksFit(h)'
    BY <1>1, <1>2, <2>1, <2>2, <2>4 DEF MakesFit, ChecksFit, Listed
  <2>7. Deciding(h)'
    BY <2>5, <2>6 DEF Deciding
  <2> QED
    BY <1>1, <2>1, <2>3, <2>7, AtWork, ThinkingStep DEF stores
<1>4. CASE Night(h) = req[h].outDate
  <2>1. req[h].outDate \in Int
    BY <1>1, AtWork
  <2>2. NextHotel(h) /\ result'[h] = result[h] \cup {HotelOf(h)} /\ AllFit(h, HotelOf(h))
    BY <1>1, <1>4, <2>1 DEF NightAvailable, Calm, Booking
  <2>3. local[h].k \in Nat \ {0} /\ req[h].hotels[local[h].k] \in Hotel
    BY <1>1, AtWork, Requested DEF Calm, IInv, HotelOf
  <2>4. result'[h] = Listed(h, local[h].k)
    BY <1>2, <2>2, <2>3, ListedNext DEF HotelOf
  <2> QED
    BY <1>1, <2>2, <2>4, NextHotelSerial
<1> QED
  BY <1>3, <1>4 DEF NightAvailable

(* MakeReservation remembers the total of a night.                         *)
LEMMA AcceptSerial ==
  ASSUME Calm, NEW h \in Handler, AcceptNight(h)
  PROVE  SerialInv'
<1> DEFINE more == Night(h) < req[h].outDate
           last == Night(h)
<1>1. /\ pc[h] = "capacity" /\ pc[h] \in Steps /\ IsMake(h)
      /\ UNCHANGED <<environment, stores, req, result>>
      /\ local[h].count = Sold(HotelOf(h), Night(h))
      /\ \A n \in (req[h].inDate + 1)..Night(h) : Fits(h, HotelOf(h), n)
      /\ Night(h) >= req[h].outDate => AllFit(h, HotelOf(h))
  BY Accepted DEF AcceptNight
<1>2. /\ pc'[h] = (IF more THEN "count" ELSE "cache")
      /\ \A g \in Handler \ {h} : pc'[g] = pc[g] /\ local'[g] = local[g]
      /\ local'[h].k = local[h].k
      /\ local'[h].day = IF more THEN last ELSE req[h].inDate
      /\ local'[h].totals = [n \in DOMAIN local[h].totals \cup {last} |->
                              IF n = last THEN local[h].count + Rooms(h) ELSE local[h].totals[n]]
  BY DEF AcceptNight, Night, Calm, IInv, AtNight
<1>3. /\ \A x, n : Sold(x, n)' = Sold(x, n)
      /\ \A g, x, n : Fits(g, x, n)' <=> Fits(g, x, n)
      /\ \A g, x : AllFit(g, x)' <=> AllFit(g, x)
  BY <1>1, <1>2, NothingInserted DEF Calm, stores
<1>4. /\ HotelOf(h)' = HotelOf(h) /\ Rooms(h)' = Rooms(h) /\ (IsMake(h)' <=> IsMake(h))
      /\ NightsOf(h)' = NightsOf(h)
  BY <1>1, <1>2 DEF HotelOf, Rooms, IsMake, NightsOf
<1>5. /\ req[h].inDate \in Int /\ req[h].outDate \in Int
      /\ local[h].day \in req[h].inDate..(req[h].outDate - 1)
      /\ last = local[h].day + 1
  BY <1>1, AtWork DEF Night
<1>6. /\ DOMAIN local'[h].totals = (req[h].inDate + 1)..last
      /\ \A n \in DOMAIN local'[h].totals : local'[h].totals[n] = Sold(HotelOf(h), n) + Rooms(h)
  <2>1. /\ DOMAIN local[h].totals = (req[h].inDate + 1)..local[h].day
        /\ \A n \in DOMAIN local[h].totals :
             local[h].totals[n] = Sold(HotelOf(h), n) + Rooms(h)
    BY <1>1, AtWork DEF MakesFit
  <2>2. ((req[h].inDate + 1)..local[h].day) \cup {last} = (req[h].inDate + 1)..last
    BY <1>5
  <2> HIDE DEF last
  <2> QED
    BY <1>1, <1>2, <2>1, <2>2 DEF last
<1>7. ~more => NightsOf(h) = (req[h].inDate + 1)..last
  BY <1>5 DEF NightsOf
<1> HIDE DEF more, last
<1>8. Counts'
  <2>1. \A x, n : ~Written(h, x, n)' /\ ~Written(h, x, n)
    BY <1>1, <1>2, <1>4, <1>6, <1>7 DEF Written
  <2> QED
    BY <1>1, <1>2, <1>3, <2>1, AtWork, CountsStay DEF stores
<1>9. NightsFit(h)'
  <2>1. ~more => AllFit(h, HotelOf(h))
    BY <1>1, <1>7 DEF AllFit, last
  <2> QED
    BY <1>1, <1>2, <1>3, <1>4, <2>1 DEF NightsFit, last
<1>10. MakesFit(h)' /\ ChecksFit(h)'
  BY <1>1, <1>2, <1>3, <1>4, <1>6, <1>7 DEF MakesFit, ChecksFit
<1>11. Deciding(h)'
  BY <1>9, <1>10 DEF Deciding
<1> QED
  BY <1>1, <1>2, <1>8, <1>11, AtWork, ThinkingStep DEF stores

(* A new total is written to the cache.                                    *)
LEMMA CacheSerial ==
  ASSUME Calm, NEW h \in Handler, NEW m \in Day, CacheTotal(h, m)
  PROVE  SerialInv'
<1> DEFINE x == HotelOf(h)
           total == local[h].totals[m]
<1>1. /\ pc[h] = "cache" /\ pc[h] \in Steps /\ m \in DOMAIN local[h].totals
      /\ UNCHANGED <<load, live, started, documents, req, result>>
      /\ pc'[h] = (IF DOMAIN local[h].totals = {m} THEN "insert" ELSE "cache")
      /\ \A g \in Handler \ {h} : pc'[g] = pc[g] /\ local'[g] = local[g]
      /\ local'[h].k = local[h].k /\ local'[h].day = local[h].day
      /\ local'[h].totals = [n \in DOMAIN local[h].totals \ {m} |-> local[h].totals[n]]
      /\ Set(x, m, total)
  BY DEF CacheTotal, At, Calm, IInv, AtNight, Steps
<1>2. /\ IsMake(h) /\ x \in Hotel /\ Rooms(h) \in Nat /\ Sold(x, m) \in Nat
      /\ DOMAIN local[h].totals \subseteq NightsOf(h)
      /\ \A n \in DOMAIN local[h].totals : local[h].totals[n] = Sold(x, n) + Rooms(h)
      /\ AllFit(h, x)
  <2>1. IsMake(h)
    BY <1>1 DEF Calm, IInv, AtNight
  <2> QED
    BY <1>1, <2>1, AtWork DEF MakesFit, NightsFit
<1>3. total = Sold(x, m) + Rooms(h) /\ total \in Int /\ total # Miss
  BY <1>1, <1>2, ReservationAssumption
<1>4. /\ HotelOf(h)' = x /\ Rooms(h)' = Rooms(h) /\ (IsMake(h)' <=> IsMake(h))
      /\ NightsOf(h)' = NightsOf(h)
  BY <1>1 DEF HotelOf, Rooms, IsMake, NightsOf
<1> HIDE DEF x, total
<1>5. faults' = faults /\ cache' = [cache EXCEPT ![x][m] = total]
  BY <1>1 DEF Set, Calm, Serial, Lone
<1>6. /\ \A y, n : Sold(y, n)' = Sold(y, n)
      /\ \A g, y, n : Fits(g, y, n)' <=> Fits(g, y, n)
      /\ \A g, y : AllFit(g, y)' <=> AllFit(g, y)
  BY <1>1, NothingInserted DEF Calm
<1>7. \A y \in Hotel, n \in Day :
        CountOf(y, n)' = IF y = x /\ n = m THEN total ELSE CountOf(y, n)
  <2>1. cache \in [Hotel -> [Day -> Int \cup {Miss}]]
    BY DEF Calm, IInv, Cached
  <2> QED
    BY <1>2, <1>3, <1>5, <2>1 DEF CountOf
<1>8. /\ \A g \in Handler \ {h} : \A y, n : ~Written(g, y, n)' /\ ~Written(g, y, n)
      /\ \A y, n : Written(h, y, n)' <=> Written(h, y, n) \/ (y = x /\ n = m)
  <2>1. \A g \in Handler \ {h} : \A y, n : ~Written(g, y, n)' /\ ~Written(g, y, n)
    BY <1>1, AtWork DEF Written, Steps
  <2>2. \A y, n : Written(h, y, n) <=> y = x /\ n \in NightsOf(h) /\ n \notin DOMAIN local[h].totals
    BY <1>1 DEF Written, x
  <2>3. \A y, n : Written(h, y, n)' <=>
                    y = x /\ n \in NightsOf(h) /\ (n \notin DOMAIN local[h].totals \/ n = m)
    BY <1>1, <1>4 DEF Written
  <2> QED
    BY <1>1, <1>2, <2>1, <2>2, <2>3
<1>9. Counts'
  <2>1. ASSUME NEW y \in Hotel, NEW n \in Day
        PROVE  /\ (\A g \in Handler : ~Written(g, y, n)') => CountOf(y, n)' = Sold(y, n)'
               /\ \A g \in Handler : Written(g, y, n)' => CountOf(y, n)' = Sold(y, n)' + Rooms(g)'
    <3>1. CASE y = x /\ n = m
      BY <1>3, <1>4, <1>6, <1>7, <1>8, <3>1
    <3>2. CASE ~(y = x /\ n = m)
      BY <1>1, <1>4, <1>6, <1>7, <1>8, <3>2, AtWork DEF Counts
    <3> QED
      BY <3>1, <3>2
  <2> QED
    BY <2>1 DEF Counts
<1>10. Deciding(h)'
  <2>1. pc'[h] \in {"cache", "insert"}
    BY <1>1
  <2>2. NightsFit(h)'
    BY <1>2, <1>4, <1>6, <2>1 DEF NightsFit
  <2>3. MakesFit(h)'
    BY <1>1, <1>2, <1>4, <1>6, <2>1 DEF MakesFit
  <2>4. ChecksFit(h)'
    BY <1>2, <1>4 DEF ChecksFit
  <2> QED
    BY <2>2, <2>3, <2>4 DEF Deciding
<1> QED
  BY <1>1, <1>5, <1>9, <1>10, AtWork, ThinkingStep DEF environment

(* What Insert does when it runs alone.                                    *)
LEMMA Inserting ==
  ASSUME Calm, NEW h \in Handler, Insert(h)
  PROVE  /\ pc[h] = "insert" /\ pc[h] \in Steps /\ IsMake(h)
         /\ UNCHANGED <<environment, cache, req>>
         /\ documents' = documents \cup {Stay(h, Night(h))}
         /\ pc'[h] = (IF LastNight(h) THEN "done" ELSE "insert")
         /\ \A g \in Handler \ {h} : pc'[g] = pc[g] /\ local'[g] = local[g]
         /\ local'[h].k = local[h].k /\ local'[h].totals = local[h].totals
         /\ ~LastNight(h) => local'[h].day = Night(h) /\ result' = result
         /\ AllFit(h, HotelOf(h)) /\ HotelOf(h) = req[h].hotels[1]
<1>1. /\ pc[h] = "insert" /\ pc[h] \in Steps
      /\ UNCHANGED <<environment, cache, req>>
      /\ pc'[h] = (IF LastNight(h) THEN "done" ELSE "insert")
      /\ \A g \in Handler \ {h} : pc'[g] = pc[g] /\ local'[g] = local[g]
      /\ local'[h].k = local[h].k /\ local'[h].totals = local[h].totals
      /\ ~LastNight(h) => local'[h].day = Night(h) /\ result' = result
  BY DEF Insert, At, Steps, Night, Calm, IInv, AtNight
<1>2. IsMake(h)
  BY <1>1 DEF Calm, IInv, AtNight
<1>3. AllFit(h, HotelOf(h)) /\ HotelOf(h) = req[h].hotels[1]
  BY <1>1, <1>2, AtWork DEF NightsFit
<1>4. documents' = documents \cup {Stay(h, Night(h))}
  BY <1>3 DEF Insert, Stay
<1> QED
  BY <1>1, <1>2, <1>3, <1>4

(* The nights are inserted in order.                                       *)
LEMMA InsertInOrder ==
  ASSUME Calm, NEW h \in Handler, Insert(h)
  PROVE  Inserted'
<1> DEFINE s == Stay(h, Night(h))
<1>1. /\ pc[h] = "insert" /\ pc[h] \in Steps /\ IsMake(h)
      /\ UNCHANGED req
      /\ documents' = documents \cup {s}
      /\ pc'[h] = (IF LastNight(h) THEN "done" ELSE "insert")
      /\ \A g \in Handler \ {h} : pc'[g] = pc[g] /\ local'[g] = local[g]
      /\ ~LastNight(h) => local'[h].day = Night(h)
  BY Inserting
<1>2. s.by = h /\ s.night = Night(h)
  BY DEF Stay
<1>3. /\ \A g : NightsOf(g)' = NightsOf(g) /\ (IsMake(g)' <=> IsMake(g))
      /\ \A g, n : Stay(g, n)' = Stay(g, n)
  BY <1>1 DEF NightsOf, IsMake, Stay, Rooms
<1>4. Guests' = Guests \cup {s}
  BY <1>1, <1>2 DEF Guests
<1> HIDE DEF s
<1>5. IsFiniteSet(Guests')
  BY <1>4, FS_AddElement DEF Calm, Inserted
<1>6. ASSUME NEW d \in Guests'
      PROVE  /\ d.night \in NightsOf(d.by) /\ d = Stay(d.by, d.night) /\ IsMake(d.by)
             /\ pc'[d.by] \in {"insert", "done", "killed"}
             /\ pc'[d.by] = "insert" => d.night <= local'[d.by].day
  <2>1. Night(h) \in NightsOf(h) /\ Night(h) \in Int /\ Night(h) = local[h].day + 1
        /\ local[h].day \in Int
    <3>1. /\ Night(h) \in NightsOf(h) /\ req[h].inDate \in Int /\ req[h].outDate \in Int
          /\ local[h].day \in req[h].inDate..(req[h].outDate - 1)
      BY <1>1, AtWork
    <3> QED
      BY <3>1 DEF Night
  <2>2. CASE d = s
    BY <1>1, <1>2, <2>1, <2>2 DEF s
  <2>3. CASE d # s
    <3>1. /\ d \in Guests /\ d.by \in Handler
          /\ d.night \in NightsOf(d.by) /\ d = Stay(d.by, d.night) /\ IsMake(d.by)
          /\ pc[d.by] \in {"insert", "done", "killed"}
          /\ pc[d.by] = "insert" => d.night <= local[d.by].day
      BY <1>4, <2>3 DEF Calm, Inserted, Guests
    <3>2. CASE d.by = h
      <4>1. d.night \in Int
        <5>1. req[h].inDate \in Int /\ req[h].outDate \in Int
          BY <1>1, AtWork
        <5> QED
          BY <3>1, <3>2, <5>1 DEF NightsOf
      <4> QED
        BY <1>1, <2>1, <3>1, <3>2, <4>1
    <3>3. CASE d.by # h
      BY <1>1, <3>1, <3>3
    <3> QED
      BY <3>2, <3>3
  <2> QED
    BY <2>2, <2>3
<1> QED
  BY <1>3, <1>5, <1>6 DEF Inserted

(* The rooms of the night are those that the check found free.             *)
LEMMA InsertFits ==
  ASSUME Calm, NEW h \in Handler, Insert(h)
  PROVE  NoOverbooking'
<1> DEFINE s == Stay(h, Night(h))
           x == HotelOf(h)
           of(y, n) == {d \in documents : d.by \in Handler /\ d.hotel = y /\ d.night = n}
           S == of(x, Night(h))
<1>1. /\ pc[h] = "insert" /\ pc[h] \in Steps /\ IsMake(h) /\ UNCHANGED <<environment, req>>
      /\ documents' = documents \cup {s} /\ AllFit(h, x) /\ x = req[h].hotels[1]
      /\ Night(h) \in NightsOf(h) /\ req[h].inDate \in Int /\ req[h].outDate \in Int
      /\ local[h].day \in req[h].inDate..(req[h].outDate - 1) /\ Rooms(h) \in Nat
      /\ \A g \in Handler \ {h} : pc[g] \notin Steps
  BY Inserting, AtWork
<1>2. s.by = h /\ s.hotel = x /\ s.night = Night(h) /\ s.rooms = Rooms(h)
  BY <1>1 DEF Stay
<1>3. s \notin documents
  BY <1>1, <1>2 DEF Calm, Inserted, Guests, Night
<1>4. S = SoldAt(x, Night(h))
  <2>1. ASSUME NEW d \in S PROVE Finished(d.by)
    <3>1. d \in Guests /\ d.by \in Handler /\ d.night = Night(h)
      BY DEF Guests
    <3>2. d.by # h
      BY <1>1, <3>1 DEF Calm, Inserted, Night
    <3>3. pc[d.by] \in {"insert", "done", "killed"}
      BY <3>1 DEF Calm, Inserted
    <3>4. pc[d.by] # "killed" /\ pc[d.by] # "insert"
      BY <1>1, <3>1, <3>2 DEF Calm, Exact, Steps
    <3> QED
      BY <3>1, <3>3, <3>4 DEF Finished
  <2> HIDE DEF x
  <2> QED
    BY <2>1 DEF SoldAt, Final, Finished
<1>5. IsFiniteSet(S) /\ (\A d \in S : d.rooms \in Nat) /\ RoomsIn(S) \in Nat
  <2>1. S \in SUBSET Guests
    BY DEF Guests
  <2> HIDE DEF S
  <2> QED
    BY <2>1, SoldIsNumber DEF Calm
<1>6. RoomsIn(S \cup {s}) = RoomsIn(S) + Rooms(h)
  <2>1. s \notin S /\ \A d \in S \cup {s} : d.rooms \in Nat
    BY <1>1, <1>2, <1>3, <1>5
  <2> HIDE DEF S, s
  <2> QED
    BY <1>2, <1>5, <2>1, RoomsWith
<1>7. RoomsIn(S \cup {s}) <= NumberOfRoom[x]
  <2>1. Fits(h, x, Night(h))
    BY <1>1 DEF AllFit
  <2> HIDE DEF S, s, x
  <2> QED
    BY <1>4, <1>6, <2>1 DEF Fits, Sold
<1>8. ASSUME NEW y \in Hotel, NEW n \in Day PROVE Reserved(y, n)' <= NumberOfRoom[y]
  <2>1. Reserved(y, n)' = RoomsIn({d \in documents' : d.by \in Handler /\ d.hotel = y /\ d.night = n})
    BY DEF Reserved
  <2>2. CASE y = x /\ n = Night(h)
    <3>1. {d \in documents' : d.by \in Handler /\ d.hotel = y /\ d.night = n} = S \cup {s}
      <4> HIDE DEF s, x
      <4> QED
        BY <1>1, <1>2, <2>2
    <3> QED
      BY <1>7, <2>1, <2>2, <3>1
  <2>3. CASE ~(y = x /\ n = Night(h))
    <3>1. {d \in documents' : d.by \in Handler /\ d.hotel = y /\ d.night = n} = of(y, n)
      <4> HIDE DEF s, x
      <4> QED
        BY <1>1, <1>2, <2>3
    <3>2. Reserved(y, n) <= NumberOfRoom[y]
      BY DEF Calm, NoOverbooking
    <3> QED
      BY <2>1, <3>1, <3>2 DEF Reserved
  <2> QED
    BY <2>2, <2>3
<1> QED
  BY <1>8 DEF NoOverbooking

(* The last insert completes the stay: every night of it is sold.          *)
LEMMA LastInserted ==
  ASSUME Calm, NEW h \in Handler, Insert(h), LastNight(h)
  PROVE  Final' = Final \cup {Stay(h, n) : n \in NightsOf(h)}
<1>1. /\ pc[h] = "insert" /\ pc[h] \in Steps /\ IsMake(h) /\ UNCHANGED req
      /\ documents' = documents \cup {Stay(h, Night(h))} /\ pc'[h] = "done"
      /\ \A g \in Handler \ {h} : pc'[g] = pc[g]
      /\ req[h].inDate \in Int /\ req[h].outDate \in Int
      /\ local[h].day \in req[h].inDate..(req[h].outDate - 1)
      /\ Night(h) \in NightsOf(h)
  BY Inserting, AtWork
<1>2. \A n : Stay(h, n).by = h
  BY DEF Stay
<1>3. \A n \in NightsOf(h) : Stay(h, n) \in documents'
  <2>1. StoredUntil(h, local[h].day)
    BY <1>1 DEF Calm, Lone, Booking, Booked
  <2>2. \A n \in NightsOf(h) : n \in (req[h].inDate + 1)..local[h].day \/ n = Night(h)
    BY <1>1 DEF NightsOf, Night, LastNight
  <2> QED
    BY <1>1, <2>1, <2>2 DEF StoredUntil
<1>4. ASSUME NEW d \in documents', d.by = h
      PROVE  d \in {Stay(h, n) : n \in NightsOf(h)}
  <2>1. Inserted'
    BY InsertInOrder
  <2>2. d.night \in NightsOf(h)' /\ d = Stay(h, d.night)'
    BY <1>4, <2>1 DEF Inserted, Guests
  <2>3. NightsOf(h)' = NightsOf(h) /\ Stay(h, d.night)' = Stay(h, d.night)
    BY <1>1 DEF NightsOf, Stay, Rooms
  <2> QED
    BY <2>2, <2>3
<1>5. \A g : Finished(g)' <=> Finished(g) \/ g = h
  BY <1>1 DEF Finished
<1>6. ~Finished(h)
  BY <1>1 DEF Finished
<1>7. ASSUME NEW d \in documents', d.by # h PROVE d \in documents
  BY <1>1, <1>2, <1>7
<1>8. documents \subseteq documents'
  BY <1>1
<1> QED
  BY <1>2, <1>3, <1>4, <1>5, <1>6, <1>7, <1>8 DEF Final

(* While a stay is being stored nothing more is sold; with its last night  *)
(* all of it is.                                                           *)
LEMMA InsertSells ==
  ASSUME Calm, NEW h \in Handler, Insert(h)
  PROVE  \A y, n : Sold(y, n)' =
           IF LastNight(h) /\ y = HotelOf(h) /\ n \in NightsOf(h)
             THEN Sold(y, n) + Rooms(h) ELSE Sold(y, n)
<1>1. /\ pc[h] = "insert" /\ IsMake(h) /\ UNCHANGED req
      /\ documents' = documents \cup {Stay(h, Night(h))}
      /\ pc'[h] = (IF LastNight(h) THEN "done" ELSE "insert")
      /\ \A g \in Handler \ {h} : pc'[g] = pc[g]
      /\ HotelOf(h) = req[h].hotels[1] /\ Rooms(h) \in Nat
  BY Inserting, AtWork
<1>2. \A n : LET s == Stay(h, n) IN
        s.by = h /\ s.hotel = HotelOf(h) /\ s.night = n /\ s.rooms = Rooms(h)
  BY <1>1 DEF Stay
<1>3. ~Finished(h)
  BY <1>1 DEF Finished
<1>4. CASE ~LastNight(h)
  <2>1. \A g : Finished(g)' <=> Finished(g)
    BY <1>1, <1>4 DEF Finished
  <2>2. Final' = Final
    BY <1>1, <1>2, <1>3, <2>1 DEF Final
  <2> QED
    BY <1>4, <2>2 DEF Sold, SoldAt
<1>5. CASE LastNight(h)
  <2> SUFFICES ASSUME NEW y, NEW n
               PROVE  Sold(y, n)' = IF y = HotelOf(h) /\ n \in NightsOf(h)
                                      THEN Sold(y, n) + Rooms(h) ELSE Sold(y, n)
    BY <1>5
  <2> DEFINE S == SoldAt(y, n)
             s == Stay(h, n)
  <2>1. Final' = Final \cup {Stay(h, m) : m \in NightsOf(h)}
    BY <1>5, LastInserted
  <2>2. Sold(y, n)' = RoomsIn({d \in Final' : d.hotel = y /\ d.night = n})
    BY DEF Sold, SoldAt
  <2>3. CASE ~(y = HotelOf(h) /\ n \in NightsOf(h))
    <3>1. {d \in Final' : d.hotel = y /\ d.night = n} = S
      BY <1>2, <2>1, <2>3 DEF SoldAt
    <3> QED
      BY <2>2, <2>3, <3>1 DEF Sold
  <2>4. CASE y = HotelOf(h) /\ n \in NightsOf(h)
    <3>1. {d \in Final' : d.hotel = y /\ d.night = n} = S \cup {s}
      BY <1>2, <2>1, <2>4 DEF SoldAt
    <3>2. s \notin S /\ s.rooms = Rooms(h)
      BY <1>2, <1>3 DEF SoldAt, Final
    <3>3. IsFiniteSet(S) /\ \A d \in S : d.rooms \in Nat
      <4>1. S \in SUBSET Guests
        BY DEF SoldAt, Final, Guests, Finished
      <4> HIDE DEF S
      <4> QED
        BY <4>1, SoldIsNumber DEF Calm
    <3>4. \A d \in S \cup {s} : d.rooms \in Nat
      BY <1>1, <3>2, <3>3
    <3> HIDE DEF S, s
    <3>5. RoomsIn(S \cup {s}) = RoomsIn(S) + Rooms(h)
      BY <3>2, <3>3, <3>4, RoomsWith
    <3> QED
      BY <2>2, <2>4, <3>1, <3>5 DEF Sold, S
  <2> QED
    BY <2>3, <2>4
<1> QED
  BY <1>4, <1>5

(* A night is stored.                                                      *)
LEMMA InsertSerial ==
  ASSUME Calm, NEW h \in Handler, Insert(h)
  PROVE  SerialInv'
<1>1. /\ pc[h] = "insert" /\ pc[h] \in Steps /\ IsMake(h)
      /\ UNCHANGED <<environment, cache, req>>
      /\ pc'[h] = (IF LastNight(h) THEN "done" ELSE "insert")
      /\ \A g \in Handler \ {h} : /\ pc[g] \notin Steps
                                  /\ pc'[g] = pc[g] /\ local'[g] = local[g]
      /\ local'[h].k = local[h].k /\ local'[h].totals = local[h].totals
      /\ AllFit(h, HotelOf(h))
  BY Inserting, AtWork
<1>2. /\ HotelOf(h)' = HotelOf(h) /\ NightsOf(h)' = NightsOf(h)
      /\ \A g : Rooms(g)' = Rooms(g) /\ (IsMake(g)' <=> IsMake(g))
  BY <1>1 DEF HotelOf, NightsOf, Rooms, IsMake
<1>3. \A g \in Handler \ {h} : \A y, n : ~Written(g, y, n)' /\ ~Written(g, y, n)
  BY <1>1 DEF Written, Steps
<1>4. \A y, n : CountOf(y, n)' = CountOf(y, n)
  BY <1>1 DEF CountOf
<1>5. Counts'
  <2>1. Counts
    BY <1>1, AtWork
  <2>2. \A y, n : Written(h, y, n) <=> y = HotelOf(h) /\ n \in NightsOf(h)
    BY <1>1 DEF Written
  <2>3. \A y, n : Written(h, y, n)' <=> ~LastNight(h) /\ y = HotelOf(h) /\ n \in NightsOf(h)
    BY <1>1, <1>2 DEF Written
  <2>4. ASSUME NEW y \in Hotel, NEW n \in Day
        PROVE  /\ (\A g \in Handler : ~Written(g, y, n)') => CountOf(y, n)' = Sold(y, n)'
               /\ \A g \in Handler : Written(g, y, n)' => CountOf(y, n)' = Sold(y, n)' + Rooms(g)'
    <3>1. CASE y = HotelOf(h) /\ n \in NightsOf(h)
      <4>1. CountOf(y, n) = Sold(y, n) + Rooms(h)
        BY <2>1, <2>2, <3>1 DEF Counts
      <4>2. Sold(y, n)' = IF LastNight(h) THEN Sold(y, n) + Rooms(h) ELSE Sold(y, n)
        BY <3>1, InsertSells
      <4> QED
        BY <1>2, <1>3, <1>4, <2>3, <3>1, <4>1, <4>2
    <3>2. CASE ~(y = HotelOf(h) /\ n \in NightsOf(h))
      <4>1. CountOf(y, n) = Sold(y, n)
        BY <1>3, <2>1, <2>2, <3>2 DEF Counts
      <4>2. Sold(y, n)' = Sold(y, n)
        BY <3>2, InsertSells
      <4> QED
        BY <1>3, <1>4, <2>3, <3>2, <4>1, <4>2
    <3> QED
      BY <3>1, <3>2
  <2> QED
    BY <2>4 DEF Counts
<1>6. Deciding(h)'
  <2>1. CASE LastNight(h)
    BY <1>1, <2>1 DEF Deciding, NightsFit, MakesFit, ChecksFit, Steps
  <2>2. CASE ~LastNight(h)
    <3>1. \A y, n : Sold(y, n)' = Sold(y, n)
      BY <2>2, InsertSells
    <3>2. \A n : Fits(h, HotelOf(h), n)' <=> Fits(h, HotelOf(h), n)
      BY <1>2, <3>1 DEF Fits
    <3>3. NightsFit(h)'
      BY <1>1, <1>2, <2>2, <3>2 DEF NightsFit, AllFit
    <3>4. MakesFit(h)'
      BY <1>1, <1>2, <2>2, <3>1, AtWork DEF MakesFit
    <3>5. ChecksFit(h)'
      BY <1>1, <1>2 DEF ChecksFit
    <3> QED
      BY <3>3, <3>4, <3>5 DEF Deciding
  <2> QED
    BY <2>1, <2>2
<1>7. Inserted' /\ NoOverbooking'
  BY InsertInOrder, InsertFits
<1>8. pc'[h] # "killed"
  BY <1>1
<1> QED
  BY <1>1, <1>5, <1>6, <1>7, <1>8, StepOfOne DEF Calm, environment

(* The instance dies with the request it serves, and nothing is served     *)
(* again; there is no fault of the cache and no second instance.           *)
LEMMA OthersSerial ==
  ASSUME IInv, SerialInv,
         StartInstance \/ (\E h \in Handler : Panic(h))
           \/ (\E x \in Hotel, n \in Day : Evict(x, n)) \/ UNCHANGED vars
  PROVE  SerialInv'
<1> SUFFICES ASSUME Serial PROVE Lone' /\ Inserted' /\ NoOverbooking' /\ Exact'
  BY DEF SerialInv, Serial, StartInstance, Panic, Evict, vars, environment
<1>1. Lone /\ Inserted /\ NoOverbooking /\ Exact
  BY DEF SerialInv
<1>2. ~StartInstance /\ ~(\E x \in Hotel, n \in Day : Evict(x, n))
  BY <1>1 DEF Serial, Lone, StartInstance, Evict
<1>3. CASE UNCHANGED vars
  <2>1. UNCHANGED <<load, live, started, faults, cache, documents, pc, instance, req, local, result>>
    BY <1>3 DEF vars, environment, stores
  <2>2. Lone' /\ NoOverbooking'
    BY <1>1, <2>1 DEF Lone, Running, NoOverbooking, Reserved, Serial
  <2>3. Inserted'
    BY <1>1, <2>1 DEF Inserted, Guests, NightsOf, Stay, IsMake, Rooms
  <2>4. \A g, x, n : /\ Sold(x, n)' = Sold(x, n) /\ Rooms(g)' = Rooms(g)
                    /\ CountOf(x, n)' = CountOf(x, n)
                    /\ Written(g, x, n)' = Written(g, x, n)
    BY <2>1 DEF Sold, SoldAt, Final, Finished, CountOf, Written, HotelOf, NightsOf, Rooms
  <2>5. \A g, x : AllFit(g, x)' <=> AllFit(g, x)
    BY <2>1 DEF AllFit, Fits, NightsOf, Sold, SoldAt, Final, Finished, Rooms
  <2>6. ASSUME NEW g \in Handler PROVE Deciding(g) => Deciding(g)'
    <3>1. NightsFit(g) => NightsFit(g)'
      BY <2>1, <2>4, <2>5 DEF NightsFit, Fits, HotelOf, Night
    <3>2. MakesFit(g) => MakesFit(g)'
      <4>1. HotelOf(g)' = HotelOf(g) /\ Rooms(g)' = Rooms(g) /\ (IsMake(g)' <=> IsMake(g))
        BY <2>1 DEF HotelOf, Rooms, IsMake
      <4>2. \A n : Sold(HotelOf(g), n)' = Sold(HotelOf(g), n)
        BY <2>4, <4>1
      <4> QED
        BY <2>1, <4>1, <4>2 DEF MakesFit, NightsOf
    <3>3. ChecksFit(g) => ChecksFit(g)'
      BY <2>1, <2>5 DEF ChecksFit, Listed, IsMake
    <3> QED
      BY <3>1, <3>2, <3>3 DEF Deciding
  <2>7. Counts => Counts'
    BY <2>4 DEF Counts
  <2>8. Exact'
    BY <1>1, <2>1, <2>6, <2>7 DEF Exact
  <2> QED
    BY <2>2, <2>3, <2>8
<1>4. ASSUME NEW h \in Handler, Panic(h)
      PROVE  Lone' /\ Inserted' /\ NoOverbooking' /\ Exact'
  <2>1. /\ UNCHANGED <<load, started, faults, documents, req, local>>
        /\ \A g \in Handler : pc'[g] = pc[g] \/ (pc[g] \in Steps /\ pc'[g] = "killed")
        /\ instance[h] \in live /\ live' = live \ {instance[h]}
    BY <1>4 DEF Panic, Running, stores
  <2>2. live' = {}
    BY <1>1, <2>1 DEF Lone
  <2>3. Exact'
    BY <2>2 DEF Exact
  <2>4. Lone' /\ NoOverbooking'
    BY <1>1, <2>1, <2>2 DEF Lone, Running, NoOverbooking, Reserved, Serial, Steps
  <2>5. Inserted'
    BY <1>1, <2>1 DEF Inserted, Guests, NightsOf, Stay, IsMake, Rooms
  <2> QED
    BY <2>3, <2>4, <2>5
<1> QED
  BY <1>2, <1>3, <1>4

(* A handler runs in a live instance.                                      *)
LEMMA CalmWhenHandled ==
  ASSUME IInv, Booking, SerialInv, Serial, NEW h \in Handler, Handle(h)
  PROVE  Calm
<1>1. live # {}
  BY DEF Handle, Begin, GetCount, FindReservations, FillCache, RefuseNight, AcceptNight,
         NightAvailable, CacheTotal, Insert, At
<1> QED
  BY <1>1 DEF Calm, SerialInv

LEMMA NextSerialInv ==
  ASSUME IInv, Booking, SerialInv, [Next]_vars
  PROVE  SerialInv'
<1>1. ASSUME NEW h \in Handler, Handle(h) PROVE SerialInv'
  <2>1. CASE ~Serial
    <3>1. load' = load
      BY <1>1 DEF Handle, Begin, GetCount, FindReservations, FillCache, RefuseNight, AcceptNight,
                  NightAvailable, CacheTotal, Insert, environment
    <3> QED
      BY <2>1, <3>1 DEF SerialInv, Serial
  <2>2. CASE Serial
    <3>1. Calm
      BY <1>1, <2>2, CalmWhenHandled
    <3> QED
      BY <1>1, <3>1, BeginSerial, CountSerial, FillSerial, RefuseSerial, AcceptSerial,
         AvailableSerial, CacheSerial, InsertSerial DEF Handle
  <2> QED
    BY <2>1, <2>2
<1> QED
  BY <1>1, OthersSerial DEF Next

(* However often a single instance dies, and whatever is asked of it one   *)
(* request at a time: no night has more rooms reserved than the hotel has. *)
THEOREM NeverOverbooked == Spec => []NoOverbooking
<1>1. IInv /\ Booking /\ SerialInv /\ [Next]_vars => (IInv /\ Booking /\ SerialInv)'
  BY OthersKeep, HandlerKeeps, OthersBook, HandlerBooks, NextSerialInv DEF Next
<1>2. SerialInv => NoOverbooking
  BY DEF SerialInv, NoOverbooking
<1> QED BY InitIInv, InitBooking, InitSerialInv, <1>1, <1>2, PTL DEF Spec

-------------------------------------------------------------------------------
(* The refinement.  A request counts as answered, and its stay as booked,  *)
(* with the step that returns; all others leave the book alone.  What is   *)
(* taken of a night is what is sold.                                       *)
LEMMA TakenIsSold == ASSUME NEW x, NEW n PROVE Atomic!Taken(x, n) = Sold(x, n)
BY DEF Atomic!Taken, Atomic!MapThenSumSet, Atomic!MapThenFoldSet, Sold, SoldAt, Final,
       RoomsIn, MapThenSumSet, MapThenFoldSet

LEMMA AvailableIsFit ==
  ASSUME NEW h \in Handler, NEW x
  PROVE  /\ Atomic!Available(req[h], x) <=> AllFit(h, x)
         /\ Atomic!Nights(req[h]) = NightsOf(h)
BY TakenIsSold DEF Atomic!Available, Atomic!Nights, AllFit, Fits, NightsOf, Rooms

Answered == {h \in Handler : Finished(h)}
Answers == [h \in Handler |-> IF Finished(h) THEN result[h] ELSE {}]

LEMMA AtomicSteps ==
  /\ Atomic!specVars = <<req, Final, Answered, Answers>>
  /\ Atomic!specVars' = <<req, Final, Answered, Answers>>'
  /\ Atomic!Next <=>
       \E h \in Handler \ Answered :
         /\ Answered' = Answered \cup {h}
         /\ Atomic!Make(h) \/ Atomic!Check(h)
         /\ UNCHANGED req
BY DEF Atomic!specVars, Atomic!Next, Final, Answered, Answers

(* A request that was not answered is answered now.                        *)
LEMMA Reply ==
  ASSUME NEW h \in Handler, pc[h] # "done", pc'[h] = "done",
         \A g \in Handler \ {h} : pc'[g] = pc[g] /\ result'[g] = result[g]
  PROVE  /\ h \notin Answered /\ Answered' = Answered \cup {h}
         /\ Answers[h] = {} /\ Answers' = [Answers EXCEPT ![h] = result'[h]]
         /\ h \in DOMAIN Answers
<1>1. /\ \A g : Finished(g)' <=> Finished(g) \/ g = h
      /\ ~Finished(h)
  BY DEF Finished
<1>2. h \notin Answered /\ Answered' = Answered \cup {h} /\ h \in DOMAIN Answers /\ Answers[h] = {}
  BY <1>1 DEF Answered, Answers
<1>3. Answers' = [g \in Handler |-> IF g = h THEN result'[h] ELSE Answers[g]]
  <2>1. ASSUME NEW g \in Handler
        PROVE  (IF Finished(g)' THEN result'[g] ELSE {}) =
                 IF g = h THEN result'[h] ELSE Answers[g]
    BY <1>1 DEF Answers
  <2> QED
    BY <2>1 DEF Answers
<1>4. Answers = [g \in Handler |-> Answers[g]]
  BY DEF Answers
<1> HIDE DEF Answers
<1> QED
  BY <1>2, <1>3, <1>4

(* The answer to MakeReservation.                                          *)
LEMMA ReplyToMake ==
  ASSUME NEW h \in Handler, pc[h] # "done", pc'[h] = "done", UNCHANGED req,
         \A g \in Handler \ {h} : pc'[g] = pc[g] /\ result'[g] = result[g],
         IsMake(h),
         \/ /\ AllFit(h, req[h].hotels[1])
            /\ Final' = Final \cup {Stay(h, n) : n \in NightsOf(h)}
            /\ result'[h] = {req[h].hotels[1]}
         \/ ~AllFit(h, req[h].hotels[1]) /\ Final' = Final /\ result'[h] = {}
  PROVE  Atomic!Next
<1>1. /\ h \notin Answered /\ Answered' = Answered \cup {h}
      /\ Answers[h] = {} /\ Answers' = [Answers EXCEPT ![h] = result'[h]]
      /\ h \in DOMAIN Answers
  BY Reply
<1>2. Atomic!Make(h) <=>
        LET x == req[h].hotels[1] IN
        /\ req[h].op = "make"
        /\ IF Atomic!Available(req[h], x)
             THEN /\ Answers' = [Answers EXCEPT ![h] = {x}]
                  /\ Final' = Final \cup {[by |-> h, hotel |-> x, night |-> n,
                                           rooms |-> req[h].rooms] : n \in Atomic!Nights(req[h])}
             ELSE Answers' = Answers /\ Final' = Final
  BY DEF Atomic!Make, Answers, Final
<1>3. /\ Atomic!Available(req[h], req[h].hotels[1]) <=> AllFit(h, req[h].hotels[1])
      /\ Atomic!Nights(req[h]) = NightsOf(h)
  BY AvailableIsFit
<1>4. req[h].op = "make"
  BY DEF IsMake
<1>5. Answers = [g \in Handler |-> Answers[g]]
  BY DEF Answers
<1>6. Atomic!Make(h)
  <2>1. CASE AllFit(h, req[h].hotels[1])
    <3>1. {Stay(h, n) : n \in NightsOf(h)} =
            {[by |-> h, hotel |-> req[h].hotels[1], night |-> n, rooms |-> req[h].rooms] :
              n \in NightsOf(h)}
      BY DEF Stay, Rooms
    <3>2. /\ Final' = Final \cup {Stay(h, n) : n \in NightsOf(h)}
          /\ result'[h] = {req[h].hotels[1]}
      BY <2>1
    <3> HIDE DEF Answers
    <3> QED
      BY <1>1, <1>2, <1>3, <1>4, <2>1, <3>1, <3>2
  <2>2. CASE ~AllFit(h, req[h].hotels[1])
    <3>1. Final' = Final /\ result'[h] = {}
      BY <2>2
    <3>2. Answers' = Answers
      <4> HIDE DEF Answers
      <4> QED
        BY <1>1, <1>5, <3>1
    <3> QED
      BY <1>2, <1>3, <1>4, <2>2, <3>1, <3>2
  <2> QED
    BY <2>1, <2>2
<1> QED
  BY <1>1, <1>6, AtomicSteps

(* The answer to CheckAvailability.                                        *)
LEMMA ReplyToCheck ==
  ASSUME IInv, NEW h \in Handler, pc[h] # "done", pc'[h] = "done", UNCHANGED req,
         \A g \in Handler \ {h} : pc'[g] = pc[g] /\ result'[g] = result[g],
         ~IsMake(h), Final' = Final,
         result'[h] = {x \in Hotel : /\ \E k \in 1..Len(req[h].hotels) : req[h].hotels[k] = x
                                     /\ NightsOf(h) # {}
                                     /\ AllFit(h, x)}
  PROVE  Atomic!Next
<1>1. /\ h \notin Answered /\ Answered' = Answered \cup {h}
      /\ Answers' = [Answers EXCEPT ![h] = result'[h]]
  BY Reply
<1>2. Atomic!Check(h) <=>
        /\ req[h].op = "check"
        /\ Answers' = [Answers EXCEPT ![h] =
             {x \in Hotel : /\ \E k \in 1..Len(req[h].hotels) : req[h].hotels[k] = x
                            /\ Atomic!Nights(req[h]) # {}
                            /\ Atomic!Available(req[h], x)}]
        /\ Final' = Final
  BY DEF Atomic!Check, Answers, Final
<1>3. req[h].op = "check"
  <2>1. req[h] \in Request
    BY Requested DEF IInv
  <2> QED
    BY <2>1 DEF Request, IsMake
<1>4. result'[h] =
        {x \in Hotel : /\ \E k \in 1..Len(req[h].hotels) : req[h].hotels[k] = x
                       /\ Atomic!Nights(req[h]) # {}
                       /\ Atomic!Available(req[h], x)}
  <2>1. \A x : Atomic!Available(req[h], x) <=> AllFit(h, x)
    BY AvailableIsFit
  <2>2. Atomic!Nights(req[h]) = NightsOf(h)
    BY AvailableIsFit
  <2> QED
    BY <2>1, <2>2
<1>5. Atomic!Check(h)
  BY <1>1, <1>2, <1>3, <1>4
<1> QED
  BY <1>1, <1>5, AtomicSteps

(* A step that answers nothing.                                            *)
LEMMA Stutters ==
  ASSUME UNCHANGED req, Final' = Final,
         \A g \in Handler : pc'[g] = "done" <=> pc[g] = "done",
         \A g \in Handler : pc[g] = "done" => result'[g] = result[g]
  PROVE  Atomic!specVars' = Atomic!specVars
<1>1. Answered' = Answered
  BY DEF Answered, Finished
<1>2. Answers' = Answers
  BY DEF Answers, Finished
<1> QED
  BY <1>1, <1>2, AtomicSteps

LEMMA QuietStep ==
  ASSUME Calm, NEW h \in Handler, pc[h] \notin {"insert", "done", "killed"}, pc'[h] # "done",
         UNCHANGED <<documents, req>>,
         \A g \in Handler \ {h} : /\ pc'[g] = pc[g] /\ local'[g] = local[g]
                                  /\ result'[g] = result[g]
  PROVE  Atomic!specVars' = Atomic!specVars
<1>1. Final' = Final
  BY NothingInserted DEF Calm
<1> QED
  BY <1>1, Stutters

(* A request for no night is answered at once.                             *)
LEMMA BeginImplements ==
  ASSUME Calm, NEW h \in Handler, NEW i \in live, Begin(h, i)
  PROVE  Atomic!Next \/ Atomic!specVars' = Atomic!specVars
<1>1. /\ pc[h] = "idle" /\ pc'[h] = Loop(req[h]) /\ UNCHANGED <<documents, req, local>>
      /\ result'[h] = IF IsMake(h) /\ Loop(req[h]) = "done" THEN {HotelOf(h)} ELSE {}
      /\ \A g \in Handler \ {h} : pc'[g] = pc[g] /\ result'[g] = result[g]
  BY DEF Begin, Calm, IInv, AtNight, Booking, stores
<1>2. CASE Loop(req[h]) # "done"
  BY <1>1, <1>2, QuietStep
<1>3. CASE Loop(req[h]) = "done"
  <2>1. NightsOf(h) = {}
    <3>1. req[h].inDate \in Int /\ req[h].outDate \in Int
      BY Requested DEF Calm, IInv
    <3>2. ~(req[h].inDate < req[h].outDate)
      BY <1>3 DEF Loop
    <3> QED
      BY <3>1, <3>2 DEF NightsOf
  <2>2. Final' = Final
    BY <1>1, NothingInserted DEF Calm
  <2>3. CASE IsMake(h)
    <3>1. HotelOf(h) = req[h].hotels[1]
      BY <1>1 DEF Calm, IInv, AtNight, Start, HotelOf
    <3>2. /\ AllFit(h, req[h].hotels[1]) /\ result'[h] = {req[h].hotels[1]}
          /\ Final' = Final \cup {Stay(h, n) : n \in NightsOf(h)}
      BY <1>1, <1>3, <2>1, <2>2, <2>3, <3>1 DEF AllFit
    <3> QED
      BY <1>1, <1>3, <2>3, <3>2, ReplyToMake
  <2>4. CASE ~IsMake(h)
    <3>1. result'[h] = {}
      BY <1>1, <2>4
    <3>2. {x \in Hotel : /\ \E k \in 1..Len(req[h].hotels) : req[h].hotels[k] = x
                         /\ NightsOf(h) # {}
                         /\ AllFit(h, x)} = {}
      BY <2>1
    <3> QED
      BY <1>1, <1>3, <2>2, <2>4, <3>1, <3>2, ReplyToCheck DEF Calm
  <2> QED
    BY <2>3, <2>4
<1> QED
  BY <1>2, <1>3

(* A check has listed the right hotels when it goes on to the next.        *)
LEMMA ListedSoFar ==
  ASSUME Calm, NEW h \in Handler, ~IsMake(h), RefuseNight(h) \/ NightAvailable(h),
         pc'[h] = "done"
  PROVE  result'[h] = Listed(h, local[h].k) /\ NextHotel(h) /\ pc[h] = "capacity"
<1>1. pc[h] = "capacity" /\ pc[h] \in Steps
  BY DEF RefuseNight, NightAvailable, At, Steps
<1>2. result[h] = Listed(h, local[h].k - 1)
  BY <1>1, AtWork DEF ChecksFit
<1>3. local[h].k \in Nat \ {0} /\ req[h].hotels[local[h].k] \in Hotel
  BY <1>1, AtWork, Requested DEF Calm, IInv, HotelOf
<1>4. CASE RefuseNight(h)
  <2>1. result' = result /\ NextHotel(h)
    BY <1>4 DEF RefuseNight
  <2>2. ~AllFit(h, req[h].hotels[local[h].k])
    BY <1>4, Refused DEF HotelOf
  <2> QED
    BY <1>1, <1>2, <1>3, <2>1, <2>2, ListedNext
<1>5. CASE NightAvailable(h)
  <2>1. NextHotel(h) /\ result'[h] = result[h] \cup {HotelOf(h)} /\ Night(h) = req[h].outDate
    BY <1>5 DEF NightAvailable, Calm, IInv, AtNight, Booking
  <2>2. req[h].outDate \in Int
    BY <1>1, AtWork
  <2>3. AllFit(h, req[h].hotels[local[h].k])
    BY <1>5, <2>1, <2>2, Accepted DEF HotelOf
  <2> QED
    BY <1>1, <1>2, <1>3, <2>1, <2>3, ListedNext DEF HotelOf
<1> QED
  BY <1>4, <1>5

(* A decision about a night answers the request or nothing.                *)
LEMMA DecisionImplements ==
  ASSUME Calm, NEW h \in Handler, RefuseNight(h) \/ AcceptNight(h) \/ NightAvailable(h)
  PROVE  Atomic!Next \/ Atomic!specVars' = Atomic!specVars
<1>1. /\ pc[h] = "capacity" /\ pc[h] \in Steps /\ UNCHANGED <<documents, req>>
      /\ \A g \in Handler \ {h} : /\ pc'[g] = pc[g] /\ local'[g] = local[g]
                                  /\ result'[g] = result[g]
  BY DEF RefuseNight, AcceptNight, NightAvailable, NextHotel, At, Steps, Calm, IInv, AtNight,
         Booking, stores
<1>2. Final' = Final
  BY <1>1, NothingInserted DEF Calm
<1>3. CASE pc'[h] # "done"
  BY <1>1, <1>3, QuietStep
<1>4. CASE pc'[h] = "done" /\ IsMake(h)
  <2>1. RefuseNight(h)
    BY <1>4 DEF AcceptNight, NightAvailable, Calm, IInv, AtNight
  <2>2. ~AllFit(h, req[h].hotels[1])
    BY <1>1, <1>4, <2>1, Refused, AtWork
  <2>3. result'[h] = {}
    BY <1>1, <1>4, <2>1 DEF RefuseNight, Calm, Lone, Booking, Booked
  <2> QED
    BY <1>1, <1>2, <1>4, <2>2, <2>3, ReplyToMake
<1>5. CASE pc'[h] = "done" /\ ~IsMake(h)
  <2>1. RefuseNight(h) \/ NightAvailable(h)
    BY <1>5 DEF AcceptNight
  <2>2. result'[h] = Listed(h, local[h].k) /\ NextHotel(h)
    BY <1>5, <2>1, ListedSoFar
  <2>3. local[h].k = Len(req[h].hotels)
    <3>1. ~(local[h].k < Len(req[h].hotels))
      BY <1>5, <2>2 DEF NextHotel, Calm, IInv, AtNight
    <3>2. Len(req[h].hotels) \in Nat /\ local[h].k \in 1..Len(req[h].hotels)
      BY <1>1, AtWork, Requested DEF Calm, IInv
    <3> QED
      BY <3>1, <3>2
  <2>4. NightsOf(h) # {}
    BY <1>1, AtWork
  <2>5. result'[h] = {x \in Hotel : /\ \E k \in 1..Len(req[h].hotels) : req[h].hotels[k] = x
                                    /\ NightsOf(h) # {}
                                    /\ AllFit(h, x)}
    BY <2>2, <2>3, <2>4 DEF Listed
  <2> QED
    BY <1>1, <1>2, <1>5, <2>5, ReplyToCheck DEF Calm
<1> QED
  BY <1>3, <1>4, <1>5

(* The last insert answers MakeReservation, and books the stay.            *)
LEMMA InsertImplements ==
  ASSUME Calm, NEW h \in Handler, Insert(h)
  PROVE  Atomic!Next \/ Atomic!specVars' = Atomic!specVars
<1>1. /\ pc[h] = "insert" /\ IsMake(h) /\ UNCHANGED req
      /\ documents' = documents \cup {Stay(h, Night(h))}
      /\ pc'[h] = (IF LastNight(h) THEN "done" ELSE "insert")
      /\ \A g \in Handler \ {h} : pc'[g] = pc[g]
      /\ AllFit(h, HotelOf(h)) /\ HotelOf(h) = req[h].hotels[1]
      /\ ~LastNight(h) => result' = result
  BY Inserting
<1>2. CASE LastNight(h)
  <2>1. /\ result'[h] = {HotelOf(h)}
        /\ \A g \in Handler \ {h} : result'[g] = result[g]
    BY <1>2 DEF Insert, Calm, Booking
  <2>2. Final' = Final \cup {Stay(h, n) : n \in NightsOf(h)}
    BY <1>2, LastInserted
  <2> QED
    BY <1>1, <1>2, <2>1, <2>2, ReplyToMake
<1>3. CASE ~LastNight(h)
  <2>1. \A g \in Handler : pc'[g] = pc[g]
    BY <1>1, <1>3
  <2>2. Stay(h, Night(h)).by = h
    BY DEF Stay
  <2>3. Final' = Final
    BY <1>1, <2>1, <2>2 DEF Final, Finished
  <2> QED
    BY <1>1, <1>3, <2>1, <2>3, Stutters
<1> QED
  BY <1>2, <1>3

(* What a serial request does between its arrival and its answer, and what *)
(* the environment does, cannot be told from the answers.                  *)
LEMMA StepImplements ==
  ASSUME IInv, Booking, SerialInv, Serial, [Next]_vars
  PROVE  Atomic!Next \/ Atomic!specVars' = Atomic!specVars
<1>1. ASSUME NEW h \in Handler, Handle(h)
      PROVE  Atomic!Next \/ Atomic!specVars' = Atomic!specVars
  <2>1. Calm
    BY <1>1, CalmWhenHandled
  <2>2. ASSUME GetCount(h) \/ FindReservations(h) \/ FillCache(h) \/ \E n \in Day : CacheTotal(h, n)
        PROVE  Atomic!specVars' = Atomic!specVars
    <3>1. /\ pc[h] \in {"count", "find", "fill", "cache"} /\ pc'[h] # "done"
          /\ UNCHANGED <<documents, req>>
          /\ \A g \in Handler \ {h} : /\ pc'[g] = pc[g] /\ local'[g] = local[g]
                                      /\ result'[g] = result[g]
      BY <2>2 DEF GetCount, FindReservations, FillCache, CacheTotal, At, IInv, AtNight, stores
    <3> QED
      BY <2>1, <3>1, QuietStep
  <2> QED
    BY <1>1, <2>1, <2>2, BeginImplements, DecisionImplements, InsertImplements DEF Handle
<1>2. CASE (\E h \in Handler : Panic(h)) \/ UNCHANGED vars
  <2>1. /\ UNCHANGED <<req, documents, result>>
        /\ \A g \in Handler : pc'[g] = "done" <=> pc[g] = "done"
    BY <1>2 DEF Panic, Running, Steps, vars, environment, stores
  <2>2. Final' = Final
    BY <2>1 DEF Final, Finished
  <2> QED
    BY <2>1, <2>2, Stutters
<1>3. ~StartInstance /\ ~(\E x \in Hotel, n \in Day : Evict(x, n))
  BY DEF SerialInv, Serial, Lone, StartInstance, Evict
<1> QED
  BY <1>1, <1>2, <1>3 DEF Next

(* Served one at a time, requests are answered as if each took one step    *)
(* from exact counts: a stay is booked as a whole exactly when there is    *)
(* room, and a check lists exactly the hotels that have.                   *)
THEOREM SerialIsAtomic == Spec => ImplementsAtomic
<1>1. Init => (Serial => Atomic!Init)
  <2> SUFFICES ASSUME Init PROVE Atomic!Init
    OBVIOUS
  <2>1. \A g : ~Finished(g)
    BY ReservationAssumption DEF Init, Finished
  <2> QED
    BY <2>1 DEF Atomic!Init
<1>2. IInv /\ Booking /\ SerialInv /\ [Next]_vars => (IInv /\ Booking /\ SerialInv)'
  BY OthersKeep, HandlerKeeps, OthersBook, HandlerBooks, NextSerialInv DEF Next
<1>3. IInv /\ Booking /\ SerialInv /\ [Next]_vars => [~Serial \/ Atomic!Next]_(Atomic!specVars)
  BY StepImplements
<1> QED
  BY InitIInv, InitBooking, InitSerialInv, <1>1, <1>2, <1>3, PTL DEF Spec, ImplementsAtomic
===============================================================================
