---------------------------- MODULE RateLimiter ----------------------------
(***************************************************************************)
(* The fixed-window rate limiter (handlers/security.go).  A request reads  *)
(* the clock, then takes the mutex, so other requests may come between and *)
(* the time it works with may be in the past.  Under the mutex it opens or *)
(* continues the window of its key, and when the map has outgrown its      *)
(* capacity it also evicts entries, its own possibly among them.           *)
(*                                                                         *)
(* One limiter serves all routes: a key stands for a route's scope and a   *)
(* client address, and carries the limit and the window of that route.     *)
(***************************************************************************)
EXTENDS Integers, FiniteSets

CONSTANTS
    Keys,           \* scope ":" client address
    LimitOf,        \* key -> requests allowed in a window
    WindowOf,       \* key -> length of the window
    Capacity,       \* entries the map may hold (10_000)
    Requests,       \* requests that can be in flight at the same time
    None,
    MaxTime,        \* bound on the clock
    MaxCount        \* bound on the requests counted in a window

RateWindow == [start : Nat, count : Nat]

ASSUME LimiterAssumption ==
    /\ None \notin RateWindow /\ None \notin Nat
    /\ LimitOf \in [Keys -> Nat] /\ WindowOf \in [Keys -> Nat \ {0}]
    /\ Capacity \in Nat \ {0} /\ MaxTime \in Nat /\ MaxCount \in Nat
    /\ \A k \in Keys : LimitOf[k] < MaxCount

VARIABLES
    clock,
    entries,    \* key -> rateWindow, or None when the map has no such key
    req,        \* request -> the key and the time it has in hand, or None
    opened,     \* history: key -> when its current window opened, or None
    passed,     \* history: key -> requests let through in that window
    evicted     \* history: keys that have been evicted

vars == <<clock, entries, req, opened, passed, evicted>>
history == <<opened, passed, evicted>>

Stored(map) == {k \in Keys : map[k] # None}

(* A window of key k that opened at start is over for a request at time t. *)
IsOver(t, start, window) == t - start >= window

-----------------------------------------------------------------------------
Init ==
    /\ clock = 0
    /\ entries = [k \in Keys |-> None]
    /\ req = [r \in Requests |-> None]
    /\ opened = [k \in Keys |-> None]
    /\ passed = [k \in Keys |-> 0]
    /\ evicted = {}

Tick ==
    /\ clock < MaxTime
    /\ clock' = clock + 1
    /\ UNCHANGED <<entries, req, history>>

(* The clock is read before the mutex is taken. *)
Arrive(r, k) ==
    /\ req[r] = None
    /\ req' = [req EXCEPT ![r] = [key |-> k, now |-> clock]]
    /\ UNCHANGED <<clock, entries, history>>

(* Bound: a count that has passed every limit says no more by growing. *)
Increment(n) == IF n < MaxCount THEN n + 1 ELSE n

(* Mutant: a new window is dated back. *)
CountedBackdated(k, t) ==
    IF entries[k] = None \/ IsOver(t, entries[k].start, WindowOf[k])
    THEN [start |-> t - 1, count |-> 1]
    ELSE [entries[k] EXCEPT !.count = Increment(@)]

(* Mutant: a window is over one instant early. *)
CountedEarly(k, t) ==
    IF entries[k] = None \/ t - entries[k].start >= WindowOf[k] - 1
    THEN [start |-> t, count |-> 1]
    ELSE [entries[k] EXCEPT !.count = Increment(@)]

(* The window of the key with this request counted in. *)
Counted(k, t) ==
    IF entries[k] = None \/ IsOver(t, entries[k].start, WindowOf[k])
    THEN [start |-> t, count |-> 1]
    ELSE [entries[k] EXCEPT !.count = Increment(@)]

(* Mutant: only windows that are over are removed. *)
EvictOverOnly(map, t, window) ==
    IF Cardinality(Stored(map)) <= Capacity THEN {map}
    ELSE {[k \in Keys |-> IF map[k] # None /\ IsOver(t, map[k].start, window)
                          THEN None ELSE map[k]]}

(* What the cleanup may leave: first every entry that is over by the window of
   the CURRENT request goes, then any entries until the map fits again. *)
Evictions(map, t, window) ==
    IF Cardinality(Stored(map)) <= Capacity THEN {map}
    ELSE LET left == {k \in Stored(map) : ~IsOver(t, map[k].start, window)}
             fits == {kept \in SUBSET left :
                         IF Cardinality(left) <= Capacity
                         THEN kept = left ELSE Cardinality(kept) = Capacity}
         IN {[k \in Keys |-> IF k \in kept THEN map[k] ELSE None] : kept \in fits}

(* The windows of the key as they follow from the requests alone, and which of
   the keys stored this step evicts. *)
Record(k, t, admitted, stored) ==
    LET reopens == opened[k] = None \/ IsOver(t, opened[k], WindowOf[k])
        before  == IF reopens THEN 0 ELSE passed[k]
    IN /\ opened' = IF reopens THEN [opened EXCEPT ![k] = t] ELSE opened
       /\ passed' = [passed EXCEPT ![k] = IF admitted THEN Increment(before) ELSE before]
       /\ evicted' = evicted \cup (stored \ Stored(entries'))

(* The critical section and the verdict. *)
Limit(r) ==
    /\ req[r] # None
    /\ LET k == req[r].key
           t == req[r].now
           entry == Counted(k, t)
       IN /\ entries' \in Evictions([entries EXCEPT ![k] = entry], t, WindowOf[k])
          /\ Record(k, t, entry.count <= LimitOf[k], Stored(entries) \cup {k})
    /\ req' = [req EXCEPT ![r] = None]
    /\ UNCHANGED clock

Next ==
    \/ Tick
    \/ \E r \in Requests : Limit(r) \/ \E k \in Keys : Arrive(r, k)

Spec == Init /\ [][Next]_vars

-----------------------------------------------------------------------------
(* The map and the histories are well formed; windows start in the past. *)
TypeOK ==
    /\ clock \in Nat
    /\ \A k \in Keys :
          /\ \/ entries[k] = None
             \/ entries[k] \in RateWindow /\ entries[k].start <= clock
          /\ opened[k] = None \/ opened[k] \in Nat
          /\ passed[k] \in Nat
    /\ evicted \subseteq Keys
    /\ \A r \in Requests : req[r] = None \/ req[r] \in [key : Keys, now : 0..clock]

(* However requests overtake each other between the clock and the mutex, no
   window of a key lets more than its limit through, unless the key has been
   evicted. *)
LimitUnlessEvicted == \A k \in Keys \ evicted : passed[k] <= LimitOf[k]

(* "Limit rejects requests above limit within window", with no exception. *)
LimitEnforced == \A k \in Keys : passed[k] <= LimitOf[k]

(* "bounded, in-process": the map never outgrows its capacity, whatever keys
   the clients come with. *)
BoundedEntries == Cardinality(Stored(entries)) <= Capacity
=============================================================================
