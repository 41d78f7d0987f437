------------------------- MODULE RateLimiterProofs -------------------------
(***************************************************************************)
(* Proofs about the rate limiter, for any keys, limits, windows, capacity  *)
(* and number of requests between the clock and the mutex: the map stays   *)
(* bounded, and a key that was never evicted is let through exactly as     *)
(* often as its limit says, neither more nor less.                         *)
(***************************************************************************)
EXTENDS RateLimiter, FiniteSetTheorems, TLAPS

Types ==
    /\ clock \in Nat
    /\ entries \in [Keys -> RateWindow \cup {None}]
    /\ req \in [Requests -> [key : Keys, now : Nat] \cup {None}]
    /\ opened \in [Keys -> Nat \cup {None}]
    /\ passed \in [Keys -> Nat]
    /\ evicted \subseteq Keys
    /\ \A k \in Keys : entries[k] # None => entries[k].start <= clock
    /\ \A r \in Requests : req[r] # None => req[r].now <= clock

AtMost(n, limit) == IF n <= limit THEN n ELSE limit

(* What the map says of a key that was never evicted is what its requests
   alone determine: the same window, and as many let through as were counted,
   up to the limit. *)
Agrees(k) ==
    IF entries[k] = None
    THEN opened[k] = None /\ passed[k] = 0
    ELSE opened[k] = entries[k].start /\ passed[k] = AtMost(entries[k].count, LimitOf[k])

MapAgrees == \A k \in Keys \ evicted : Agrees(k)

(* The count of the map is the count of a finite set, whatever the keys. *)
MapFits == IsFiniteSet(Stored(entries)) /\ BoundedEntries

LimiterInv == Types /\ MapAgrees /\ MapFits

-----------------------------------------------------------------------------
(* The parts of the critical section, for the key and the time at hand. *)
LEMMA CountedIs ==
    ASSUME Types, NEW k \in Keys, NEW t \in Nat, t <= clock
    PROVE  /\ Counted(k, t) \in RateWindow /\ Counted(k, t) # None
           /\ Counted(k, t).start <= clock
           /\ entries[k] = None \/ IsOver(t, entries[k].start, WindowOf[k]) =>
                 Counted(k, t).start = t /\ Counted(k, t).count = 1
           /\ ~(entries[k] = None \/ IsOver(t, entries[k].start, WindowOf[k])) =>
                 /\ Counted(k, t).start = entries[k].start
                 /\ Counted(k, t).count = Increment(entries[k].count)
  <1>1. CASE entries[k] = None \/ IsOver(t, entries[k].start, WindowOf[k])
    <2>1. Counted(k, t) = [start |-> t, count |-> 1]
      BY <1>1 DEF Counted
    <2> QED BY <1>1, <2>1, LimiterAssumption DEF RateWindow
  <1>2. CASE ~(entries[k] = None \/ IsOver(t, entries[k].start, WindowOf[k]))
    <2>1. entries[k] \in RateWindow /\ entries[k].start <= clock
      BY <1>2 DEF Types
    <2>2. Counted(k, t) = [entries[k] EXCEPT !.count = Increment(@)]
      BY <1>2 DEF Counted
    <2>3. Increment(entries[k].count) \in Nat
      BY <2>1, LimiterAssumption DEF RateWindow, Increment
    <2> QED BY <1>2, <2>1, <2>2, <2>3, LimiterAssumption DEF RateWindow
  <1> QED BY <1>1, <1>2

(* The cleanup takes entries away, and leaves no more than fit. *)
LEMMA EvictionsFit ==
    ASSUME NEW map \in [Keys -> RateWindow \cup {None}], IsFiniteSet(Stored(map)),
           NEW t, NEW window, NEW rest \in Evictions(map, t, window)
    PROVE  /\ rest \in [Keys -> RateWindow \cup {None}]
           /\ \A k \in Keys : rest[k] \in {map[k], None}
           /\ IsFiniteSet(Stored(rest)) /\ Cardinality(Stored(rest)) <= Capacity
           /\ Cardinality(Stored(map)) <= Capacity => rest = map
  <1>1. CASE Cardinality(Stored(map)) <= Capacity
    BY <1>1 DEF Evictions
  <1>2. CASE ~(Cardinality(Stored(map)) <= Capacity)
    <2> DEFINE left == {k \in Stored(map) : ~IsOver(t, map[k].start, window)}
    <2>1. PICK kept \in SUBSET left :
            /\ IF Cardinality(left) <= Capacity THEN kept = left ELSE Cardinality(kept) = Capacity
            /\ rest = [k \in Keys |-> IF k \in kept THEN map[k] ELSE None]
      BY <1>2 DEF Evictions
    <2>2. kept \in SUBSET Stored(map) /\ IsFiniteSet(kept)
      BY FS_Subset
    <2>3. Stored(rest) = kept
      BY <2>1, <2>2 DEF Stored
    <2>4. Cardinality(kept) <= Capacity
      <3> HIDE DEF left
      <3>1. CASE Cardinality(left) <= Capacity
        BY <2>1, <3>1
      <3>2. CASE ~(Cardinality(left) <= Capacity)
        BY <2>1, <3>2, LimiterAssumption
      <3> QED BY <3>1, <3>2
    <2> QED BY <1>2, <2>1, <2>2, <2>3, <2>4
  <1> QED BY <1>1, <1>2

LEMMA LimitIs ==
    ASSUME LimiterInv, NEW r \in Requests, Limit(r)
    PROVE  \E k \in Keys, t \in Nat :
              /\ t <= clock
              /\ entries' \in Evictions([entries EXCEPT ![k] = Counted(k, t)], t, WindowOf[k])
              /\ Record(k, t, Counted(k, t).count <= LimitOf[k], Stored(entries) \cup {k})
              /\ req' = [req EXCEPT ![r] = None] /\ clock' = clock
  <1>1. req[r] \in [key : Keys, now : Nat] /\ req[r].now <= clock
    BY DEF Limit, LimiterInv, Types
  <1> QED BY <1>1 DEF Limit

-----------------------------------------------------------------------------
LEMMA InitHolds == Init => LimiterInv
  <1> SUFFICES ASSUME Init PROVE LimiterInv
    OBVIOUS
  <1>1. Types /\ MapAgrees
    BY DEF Init, Types, MapAgrees, Agrees
  <1>2. Stored(entries) = {}
    BY DEF Init, Stored
  <1> QED BY <1>1, <1>2, FS_EmptySet, LimiterAssumption DEF LimiterInv, MapFits, BoundedEntries

(* The history of a key that is counted, in the map and in the requests. *)
LEMMA KeyAgrees ==
    ASSUME Types, NEW k \in Keys, NEW t \in Nat, t <= clock, Agrees(k), NEW stored,
           entries'[k] = Counted(k, t),
           Record(k, t, Counted(k, t).count <= LimitOf[k], stored)
    PROVE  Agrees(k)'
  <1> DEFINE over == entries[k] = None \/ IsOver(t, entries[k].start, WindowOf[k])
             reopens == opened[k] = None \/ IsOver(t, opened[k], WindowOf[k])
             before == IF reopens THEN 0 ELSE passed[k]
  <1>1. /\ opened'[k] = IF reopens THEN t ELSE opened[k]
        /\ passed'[k] = IF Counted(k, t).count <= LimitOf[k] THEN Increment(before) ELSE before
    BY DEF Record, Types
  <1>2. reopens <=> over
    BY LimiterAssumption DEF Agrees, Types, RateWindow
  <1>3. entries'[k] # None /\ LimitOf[k] \in Nat /\ MaxCount \in Nat /\ LimitOf[k] < MaxCount
    BY CountedIs, LimiterAssumption
  <1>4. CASE over
    <2>1. Counted(k, t).start = t /\ Counted(k, t).count = 1
      BY <1>4, CountedIs
    <2>2. opened'[k] = t /\ passed'[k] = IF 1 <= LimitOf[k] THEN Increment(0) ELSE 0
      BY <1>1, <1>2, <1>4, <2>1
    <2>3. passed'[k] = AtMost(1, LimitOf[k])
      BY <1>3, <2>2 DEF Increment, AtMost
    <2> QED BY <1>3, <2>1, <2>2, <2>3 DEF Agrees
  <1>5. CASE ~over
    <2> DEFINE count == entries[k].count
    <2>1. count \in Nat /\ opened[k] = entries[k].start /\ passed[k] = AtMost(count, LimitOf[k])
      BY <1>5 DEF Agrees, Types, RateWindow
    <2>2. Counted(k, t).start = entries[k].start /\ Counted(k, t).count = Increment(count)
      BY <1>5, CountedIs
    <2>3. /\ opened'[k] = opened[k]
          /\ passed'[k] = IF Increment(count) <= LimitOf[k]
                          THEN Increment(AtMost(count, LimitOf[k])) ELSE AtMost(count, LimitOf[k])
      BY <1>1, <1>2, <1>5, <2>1, <2>2
    <2>4. passed'[k] = AtMost(Increment(count), LimitOf[k])
      <3> HIDE DEF count
      <3> QED BY <1>3, <2>1, <2>3 DEF Increment, AtMost
    <2> QED BY <1>3, <2>1, <2>2, <2>3, <2>4 DEF Agrees
  <1> QED BY <1>4, <1>5

LEMMA LimitKeeps ==
    ASSUME LimiterInv, NEW r \in Requests, Limit(r)
    PROVE  LimiterInv'
  <1>1. PICK k \in Keys, t \in Nat :
          /\ t <= clock
          /\ entries' \in Evictions([entries EXCEPT ![k] = Counted(k, t)], t, WindowOf[k])
          /\ Record(k, t, Counted(k, t).count <= LimitOf[k], Stored(entries) \cup {k})
          /\ req' = [req EXCEPT ![r] = None] /\ clock' = clock
    BY LimitIs
  <1> DEFINE entry == Counted(k, t)
             map == [entries EXCEPT ![k] = entry]
             stored == Stored(entries) \cup {k}
  <1>2. entry \in RateWindow /\ entry # None /\ entry.start <= clock
    BY <1>1, CountedIs DEF LimiterInv
  <1>3. /\ map \in [Keys -> RateWindow \cup {None}]
        /\ map[k] = entry /\ \A q \in Keys \ {k} : map[q] = entries[q]
    <2> HIDE DEF entry
    <2> QED BY <1>2 DEF LimiterInv, Types
  <1>4. Stored(map) = stored
    <2> HIDE DEF map, entry
    <2> QED BY <1>2, <1>3 DEF Stored
  <1>5. IsFiniteSet(Stored(map))
    BY <1>4, FS_AddElement DEF LimiterInv, MapFits
  <1> HIDE DEF map
  <1>6. /\ entries' \in [Keys -> RateWindow \cup {None}]
        /\ \A q \in Keys : entries'[q] \in {map[q], None}
        /\ IsFiniteSet(Stored(entries')) /\ Cardinality(Stored(entries')) <= Capacity
    BY <1>1, <1>3, <1>5, EvictionsFit DEF map
  <1>7. MapFits'
    BY <1>6 DEF MapFits, BoundedEntries, Stored
  <1> HIDE DEF entry
  <1>8. /\ opened' \in [Keys -> Nat \cup {None}] /\ passed' \in [Keys -> Nat]
        /\ evicted' = evicted \cup (stored \ Stored(entries'))
        /\ \A q \in Keys \ {k} : opened'[q] = opened[q] /\ passed'[q] = passed[q]
    BY <1>1, LimiterAssumption DEF Record, LimiterInv, Types, Increment
  <1>9. Types'
    <2>1. evicted' \subseteq Keys
      BY <1>8 DEF LimiterInv, Types, Stored
    <2>2. \A q \in Keys : entries'[q] # None => entries'[q].start <= clock'
      BY <1>1, <1>2, <1>3, <1>6 DEF LimiterInv, Types
    <2> QED BY <1>1, <1>6, <1>8, <2>1, <2>2 DEF LimiterInv, Types
  <1>10. ASSUME NEW q \in Keys \ evicted' PROVE Agrees(q)'
    <2>1. q \notin evicted /\ (q \in stored => entries'[q] = map[q])
      BY <1>6, <1>8 DEF Stored
    <2>2. Agrees(q)
      BY <2>1 DEF LimiterInv, MapAgrees
    <2>3. CASE q = k
      BY <1>1, <1>3, <2>1, <2>2, <2>3, KeyAgrees DEF entry, LimiterInv
    <2>4. CASE q # k
      <3>1. entries'[q] = entries[q]
        BY <1>3, <1>6, <2>1, <2>4 DEF Stored
      <3> QED BY <1>8, <2>2, <2>4, <3>1 DEF Agrees
    <2> QED BY <2>3, <2>4
  <1> QED BY <1>7, <1>9, <1>10 DEF LimiterInv, MapAgrees

LEMMA StepHolds == LimiterInv /\ [Next]_vars => LimiterInv'
  <1> SUFFICES ASSUME LimiterInv, [Next]_vars PROVE LimiterInv'
    OBVIOUS
  <1>1. CASE Tick
    <2>1. clock' = clock + 1 /\ UNCHANGED <<entries, req, opened, passed, evicted>>
      BY <1>1 DEF Tick, history
    <2>2. Types'
      BY <2>1 DEF LimiterInv, Types, RateWindow
    <2> QED BY <2>1, <2>2
            DEF LimiterInv, MapAgrees, Agrees, MapFits, BoundedEntries, Stored
  <1>2. ASSUME NEW r \in Requests, NEW k \in Keys, Arrive(r, k) PROVE LimiterInv'
    <2>1. UNCHANGED <<clock, entries, opened, passed, evicted>>
          /\ req' = [req EXCEPT ![r] = [key |-> k, now |-> clock]]
      BY <1>2 DEF Arrive, history
    <2>2. Types'
      BY <2>1 DEF LimiterInv, Types
    <2> QED BY <2>1, <2>2
            DEF LimiterInv, MapAgrees, Agrees, MapFits, BoundedEntries, Stored
  <1>3. CASE UNCHANGED vars
    BY <1>3 DEF vars, LimiterInv, Types, MapAgrees, Agrees, MapFits, BoundedEntries, Stored
  <1> QED BY <1>1, <1>2, <1>3, LimitKeeps DEF Next

THEOREM LimiterInvariant == Spec => []LimiterInv
  BY InitHolds, StepHolds, PTL DEF Spec

-----------------------------------------------------------------------------
(* The map, the requests in flight and the histories are well formed, and no
   window starts in the future (RateLimiter.Limit, handlers/security.go). *)
THEOREM LimiterTypeOK == Spec => []TypeOK
  <1>1. LimiterInv => TypeOK
    BY DEF LimiterInv, Types, TypeOK
  <1> QED BY <1>1, LimiterInvariant, PTL

(* However many requests overtake each other between reading the clock and
   taking the mutex, no window of a key lets more than its limit through, as
   long as the cleanup never took the key out of the map. *)
THEOREM LimitHolds == Spec => []LimitUnlessEvicted
  <1>1. LimiterInv => LimitUnlessEvicted
    BY LimiterAssumption
       DEF LimiterInv, Types, RateWindow, MapAgrees, Agrees, AtMost, LimitUnlessEvicted
  <1> QED BY <1>1, LimiterInvariant, PTL

(* The map of the limiter holds at most Capacity entries after every request,
   however many clients there are and whichever keys they come with. *)
THEOREM MapStaysBounded == Spec => []BoundedEntries
  <1>1. LimiterInv => BoundedEntries
    BY DEF LimiterInv, MapFits
  <1> QED BY <1>1, LimiterInvariant, PTL

(* The other half of the limit: a key the map refuses (its count is above the
   limit) has had every request of its limit let through in this window. *)
NobodyRefusedEarly ==
    \A k \in Keys \ evicted :
        entries[k] # None /\ entries[k].count > LimitOf[k] => passed[k] = LimitOf[k]

(* A client that was never evicted is not refused before its limit is used
   up: the verdict of Limit is exact, and not merely safe. *)
THEOREM RefusedOnlyAtTheLimit == Spec => []NobodyRefusedEarly
  <1>1. LimiterInv => NobodyRefusedEarly
    BY LimiterAssumption
       DEF LimiterInv, Types, RateWindow, MapAgrees, Agrees, AtMost, NobodyRefusedEarly
  <1> QED BY <1>1, LimiterInvariant, PTL

-----------------------------------------------------------------------------
RoomForAll == IsFiniteSet(Keys) /\ Cardinality(Keys) <= Capacity

(* When every key has room in the map, the cleanup never runs. *)
NothingEvicted == RoomForAll /\ evicted = {}

LEMMA NoEviction ==
    ASSUME LimiterInv, NothingEvicted, NEW r \in Requests, Limit(r)
    PROVE  NothingEvicted'
  <1>1. PICK k \in Keys, t \in Nat :
          /\ t <= clock
          /\ entries' \in Evictions([entries EXCEPT ![k] = Counted(k, t)], t, WindowOf[k])
          /\ Record(k, t, Counted(k, t).count <= LimitOf[k], Stored(entries) \cup {k})
          /\ req' = [req EXCEPT ![r] = None] /\ clock' = clock
    BY LimitIs
  <1> DEFINE entry == Counted(k, t)
             map == [entries EXCEPT ![k] = entry]
  <1>2. entry \in RateWindow /\ entry # None
    BY <1>1, CountedIs DEF LimiterInv
  <1> HIDE DEF entry
  <1>3. map \in [Keys -> RateWindow \cup {None}]
        /\ map[k] = entry /\ \A q \in Keys \ {k} : map[q] = entries[q]
    BY <1>2 DEF LimiterInv, Types
  <1> HIDE DEF map
  <1>4. Stored(map) = Stored(entries) \cup {k}
    BY <1>2, <1>3 DEF Stored
  <1>5. /\ Stored(map) \subseteq Keys /\ IsFiniteSet(Stored(map))
        /\ Cardinality(Stored(map)) <= Cardinality(Keys)
    BY FS_Subset DEF Stored, NothingEvicted, RoomForAll
  <1>6. Cardinality(Stored(map)) <= Capacity
    BY <1>5, FS_CardinalityType, LimiterAssumption DEF NothingEvicted, RoomForAll
  <1>7. entries' = map
    <2>1. entries' \in Evictions(map, t, WindowOf[k])
      BY <1>1 DEF map, entry
    <2> QED BY <1>3, <1>5, <1>6, <2>1, EvictionsFit
  <1> QED BY <1>1, <1>4, <1>7 DEF Record, NothingEvicted, Stored

(* With room for every client the limit has no exception: only the eviction of
   windows that are still open (Limiter.cleanup at capacity) can break it. *)
THEOREM LimitEnforcedWhenRoomForAll == RoomForAll /\ Spec => []LimitEnforced
  <1>1. RoomForAll /\ Init => NothingEvicted
    BY DEF Init, NothingEvicted
  <1>2. LimiterInv /\ NothingEvicted /\ [Next]_vars => NothingEvicted'
    <2> SUFFICES ASSUME LimiterInv, NothingEvicted, [Next]_vars PROVE NothingEvicted'
      OBVIOUS
    <2>1. CASE Tick \/ (\E r \in Requests, k \in Keys : Arrive(r, k)) \/ UNCHANGED vars
      BY <2>1 DEF Tick, Arrive, vars, history, NothingEvicted
    <2> QED BY <2>1, NoEviction DEF Next
  <1>3. LimiterInv /\ NothingEvicted => LimitEnforced
    BY LimiterAssumption
       DEF LimiterInv, NothingEvicted, Types, RateWindow, MapAgrees, Agrees, AtMost, LimitEnforced
  <1> QED BY <1>1, <1>2, <1>3, LimiterInvariant, PTL DEF Spec
=============================================================================
