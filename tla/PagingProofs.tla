---------------------------- MODULE PagingProofs ----------------------------
(* Proofs about keyset pagination: for both lists, on either backend, with
   lists, pages and clocks of any size, a walk shows nothing twice and misses
   nothing that is there for all of it. *)
EXTENDS Paging, TLAPS

Shown == UNION {pages[i] : i \in DOMAIN pages}

Walking == walk.pc = "page"

(* Everything shown lies at the cursor or before it, and every steady link is
   shown or lies behind it. *)
BetweenPages ==
    Walking =>
        \/ pages = <<>> /\ walk.cursor = NoCursor
        \/ /\ pages # <<>> /\ walk.cursor # NoCursor
           /\ \A x \in Shown : x = walk.cursor \/ Before(x, walk.cursor)
           /\ \A x \in steady : x \in Shown \/ Before(walk.cursor, x)

FreshWhenIdle == walk = Idle => pages = <<>> /\ steady = {}

PagingInv ==
    TypeOK /\ BetweenPages /\ FreshWhenIdle /\ PagesDescend /\ SteadyLinksShown

(* The order of the list. *)
LEMMA BeforeTransitive ==
    ASSUME NEW x \in Key, NEW y \in Key, NEW z \in Key, Before(x, y), Before(y, z)
    PROVE  Before(x, z)
  <1>1. /\ x.createdAt \in Nat /\ y.createdAt \in Nat /\ z.createdAt \in Nat
        /\ x.shortCode \in Nat /\ y.shortCode \in Nat /\ z.shortCode \in Nat
    BY PagingAssumption DEF Key
  <1> QED
    BY <1>1 DEF Before

(* Two links that are not in one order are in the other, or the same. *)
LEMMA BeforeTotal ==
    ASSUME NEW x \in Key, NEW y \in Key, ~Before(y, x)
    PROVE  x = y \/ Before(x, y)
  <1>1. /\ x.createdAt \in Nat /\ y.createdAt \in Nat
        /\ x.shortCode \in Nat /\ y.shortCode \in Nat
    BY PagingAssumption DEF Key
  <1>2. x.createdAt = y.createdAt /\ x.shortCode = y.shortCode => x = y
    BY DEF Key
  <1> QED
    BY <1>1, <1>2 DEF Before

(* What a user sees are positions of the list. *)
LEMMA VisibleType ==
    ASSUME TypeOK, NEW user
    PROVE  Visible(user) \subseteq Key
  <1>1. CASE list = "users"
    BY <1>1 DEF Visible, KeyOf, Key
  <1>2. CASE list = "urls"
    <2>1. \A code \in Codes : Active(code) => rows[code] \in Link
      BY <1>2 DEF TypeOK, Active
    <2>2. \A code \in Codes : Active(code) => KeyOf(code) \in Key
      BY <1>2, <2>1 DEF KeyOf, Key, Link
    <2> QED
      BY <2>2 DEF Visible
  <1> QED
    BY <1>1, <1>2 DEF TypeOK

(* The initial state. *)
LEMMA InitPaging == Init => PagingInv
  <1> SUFFICES ASSUME Init PROVE PagingInv
    OBVIOUS
  <1>1. walk = [pc |-> "idle"] /\ pages = <<>> /\ steady = {}
    BY DEF Init, Idle
  <1>2. TypeOK
    BY DEF Init, TypeOK
  <1> QED
    BY <1>1, <1>2
    DEF PagingInv, BetweenPages, Walking, FreshWhenIdle, PagesDescend, SteadyLinksShown

(* What changes the list does not touch the walk. *)
LEMMA StoreStep ==
    ASSUME PagingInv, UNCHANGED <<list, backend, client>>, TypeOK'
    PROVE  PagingInv'
  BY DEF PagingInv, client, BetweenPages, Walking, Shown, FreshWhenIdle, PagesDescend,
         SteadyLinksShown, Before

(* The steps of the clock and of the store, one lemma each. *)
LEMMA TickKeeps == ASSUME PagingInv, Tick PROVE PagingInv'
  <1>1. TypeOK'
    BY DEF PagingInv, TypeOK, Tick, client
  <1> QED
    BY <1>1, StoreStep DEF Tick

LEMMA CreateKeeps ==
    ASSUME PagingInv, NEW r \in Requests, NEW user \in Users, NEW code \in Codes,
           NEW ttl \in TTLs, CreateShortURL(r, user, code, ttl)
    PROVE  PagingInv'
  <1> DEFINE link == [createdAt |-> now, expiresAt |-> now + ttl, createdBy |-> user]
             new == [pc |-> "create", shortCode |-> code, link |-> link]
  <1>1. now \in Nat /\ now + ttl \in Nat
    BY PagingAssumption DEF PagingInv, TypeOK
  <1>2. link \in Link
    BY <1>1 DEF Link
  <1>3. new \in Creating
    BY <1>2 DEF Creating
  <1>4. TypeOK'
    BY <1>3 DEF PagingInv, TypeOK, CreateShortURL, client
  <1> QED
    BY <1>4, StoreStep DEF CreateShortURL

LEMMA InsertKeeps ==
    ASSUME PagingInv, NEW r \in Requests, Insert(r)
    PROVE  PagingInv'
  <1>1. list = "urls" /\ req[r] \in Creating
    BY DEF PagingInv, TypeOK, Insert, Idle
  <1>2. req[r].shortCode \in Codes /\ req[r].link \in Link
    BY <1>1 DEF Creating
  <1>3. TypeOK'
    BY <1>1, <1>2 DEF PagingInv, TypeOK, Insert, client
  <1> QED
    BY <1>3, StoreStep DEF Insert

LEMMA DeleteKeeps ==
    ASSUME PagingInv, NEW code \in Codes, Delete(code)
    PROVE  PagingInv'
  <1>1. TypeOK'
    BY DEF PagingInv, TypeOK, Delete, client
  <1> QED
    BY <1>1, StoreStep DEF Delete

LEMMA AccountsKeep ==
    ASSUME PagingInv, NEW name \in Codes, CreateUser(name) \/ DeleteUser(name)
    PROVE  PagingInv'
  <1>1. /\ list = "users" /\ UNCHANGED <<list, backend, now, req, walk, pages, steady>>
        /\ rows' \in {[rows EXCEPT ![name] = Account], [rows EXCEPT ![name] = NoRow]}
    BY DEF CreateUser, DeleteUser, client
  <1>2. TypeOK'
    BY <1>1 DEF PagingInv, TypeOK
  <1> QED
    BY <1>1, <1>2, StoreStep DEF client

(* A walk starts before the first page, and ends with nothing to remember. *)
LEMMA StartKeeps ==
    ASSUME PagingInv, NEW user \in Users, StartWalk(user)
    PROVE  PagingInv'
  <1>1. /\ walk' = [pc |-> "page", viewer |-> user, cursor |-> NoCursor]
        /\ UNCHANGED <<list, backend, now, rows, req, pages, steady>>
        /\ pages = <<>> /\ steady = {}
    BY DEF StartWalk, PagingInv, FreshWhenIdle
  <1>2. TypeOK'
    BY <1>1 DEF PagingInv, TypeOK, Walk
  <1> QED
    BY <1>1, <1>2
    DEF PagingInv, BetweenPages, FreshWhenIdle, Idle, PagesDescend, SteadyLinksShown

(* A walk that is under way has a viewer and a position. *)
LEMMA WalkType ==
    ASSUME TypeOK, walk.pc # "idle"
    PROVE  /\ walk \in Walk /\ walk.viewer \in Users /\ walk.cursor \in Key \cup {NoCursor}
  <1>1. walk \in Walk
    BY DEF TypeOK, Idle
  <1> QED
    BY <1>1 DEF Walk

LEMMA EndKeeps ==
    ASSUME PagingInv, EndWalk
    PROVE  PagingInv'
  <1>1. TypeOK'
    BY DEF PagingInv, TypeOK, EndWalk
  <1> QED
    BY <1>1 DEF EndWalk, PagingInv, Idle, BetweenPages, Walking, FreshWhenIdle,
                PagesDescend, SteadyLinksShown

(* A page takes the links behind the cursor from the front, so that nothing
   steady stays between it and the next cursor. *)
LEMMA ListKeeps ==
    ASSUME PagingInv, ListPage
    PROVE  PagingInv'
  <1>1. PICK items \in SUBSET Rest :
          IsPage(items) /\ pages' = Append(pages, items) /\ Advance(items)
    BY DEF ListPage
  <1>2. Walking /\ walk.pc # "idle"
    BY DEF ListPage, Walking
  <1>3. walk \in Walk /\ walk.cursor \in Key \cup {NoCursor}
    BY <1>2, WalkType DEF PagingInv
  <1>4. Visible(walk.viewer) \subseteq Key
    BY VisibleType DEF PagingInv
  <1>5. items \subseteq Key /\ Rest \subseteq Key
    BY <1>4 DEF Rest
  <1>6. pages \in Seq(SUBSET Key) /\ pages' \in Seq(SUBSET Key)
        /\ Len(pages') = Len(pages) + 1
        /\ \A i \in 1..Len(pages) : pages'[i] = pages[i]
    BY <1>1, <1>5 DEF PagingInv, TypeOK
  <1>6a. pages'[Len(pages) + 1] = items
    BY <1>1, <1>5 DEF PagingInv, TypeOK
  <1>7. \A x : x \in Shown' <=> x \in Shown \/ x \in items
    <2>1. DOMAIN pages = 1..Len(pages) /\ DOMAIN pages' = 1..(Len(pages) + 1)
          /\ Len(pages) \in Nat
      BY <1>6
    <2>2. \A x : x \in Shown <=> \E i \in 1..Len(pages) : x \in pages[i]
      BY <2>1 DEF Shown
    <2>3. \A x : x \in Shown' <=> \E i \in 1..(Len(pages) + 1) : x \in pages'[i]
      BY <2>1 DEF Shown
    <2>4. \A i \in 1..(Len(pages) + 1) : i \in 1..Len(pages) \/ i = Len(pages) + 1
      BY <2>1
    <2>5. ASSUME NEW x PROVE x \in Shown' <=> x \in Shown \/ x \in items
      <3>1. ASSUME x \in Shown' PROVE x \in Shown \/ x \in items
        <4>1. PICK i \in 1..(Len(pages) + 1) : x \in pages'[i]
          BY <3>1, <2>3
        <4>2. CASE i \in 1..Len(pages)
          <5>1. pages'[i] = pages[i]
            BY <1>6, <4>2
          <5> QED
            BY <2>2, <4>1, <4>2, <5>1
        <4>3. CASE i = Len(pages) + 1
          <5>1. pages'[i] = items
            BY <1>6a, <4>3
          <5> QED
            BY <4>1, <5>1
        <4> QED
          BY <2>4, <4>1, <4>2, <4>3
      <3>2. ASSUME x \in Shown PROVE x \in Shown'
        <4>1. PICK i \in 1..Len(pages) : x \in pages[i]
          BY <3>2, <2>2
        <4>2. i \in 1..(Len(pages) + 1) /\ x \in pages'[i]
          BY <4>1, <2>1, <1>6
        <4> QED
          BY <4>2, <2>3
      <3>3. ASSUME x \in items PROVE x \in Shown'
        <4> DEFINE last == Len(pages) + 1
        <4>1. last \in 1..(Len(pages) + 1)
          BY <2>1
        <4>2. pages'[last] = items
          BY <1>6a
        <4>3. x \in pages'[last]
          BY <3>3, <4>2
        <4> HIDE DEF last
        <4> QED
          BY <2>3, <4>1, <4>3
      <3> QED
        BY <3>1, <3>2, <3>3
    <2> QED
      BY <2>5
  <1>8. Shown \subseteq Key
    BY <1>6 DEF Shown
  <1>9. steady' = IF pages = <<>> THEN Visible(walk.viewer)
                                  ELSE steady \cap Visible(walk.viewer)
    BY DEF ListPage
  <1>10. ASSUME NEW x \in Shown, NEW y \in Rest PROVE Before(x, y)
    <2>1. pages # <<>> /\ walk.cursor # NoCursor /\ walk.cursor \in Key
      BY <1>2, <1>3 DEF PagingInv, BetweenPages, Shown
    <2>2. x = walk.cursor \/ Before(x, walk.cursor)
      BY <1>2, <2>1 DEF PagingInv, BetweenPages
    <2>3. Before(walk.cursor, y)
      BY <2>1 DEF Rest
    <2>4. x \in Key /\ y \in Key
      BY <1>5, <1>8
    <2> QED
      BY <2>1, <2>2, <2>3, <2>4, BeforeTransitive
  <1>11. PagesDescend'
    <2>1. SUFFICES ASSUME NEW i \in 1..(Len(pages) + 1), NEW j \in 1..(Len(pages) + 1), i < j,
                          NEW x \in pages'[i], NEW y \in pages'[j]
                   PROVE  Before(x, y)
      BY <1>6 DEF PagesDescend, Before
    <2>2. Len(pages) \in Nat /\ i \in 1..Len(pages) /\ pages'[i] = pages[i]
          /\ DOMAIN pages = 1..Len(pages)
      BY <1>6, <2>1
    <2>3. CASE j \in 1..Len(pages)
      BY <1>6, <2>1, <2>2, <2>3 DEF PagingInv, PagesDescend
    <2>4. CASE j = Len(pages) + 1
      <3>1. x \in Shown /\ y \in Rest
        BY <1>6, <1>6a, <2>2, <2>4 DEF Shown
      <3> QED
        BY <1>10, <3>1
    <2> QED
      BY <2>2, <2>3, <2>4
  <1>12. \A x \in steady' : x \in Shown \/ x \in Rest
    <2>1. CASE pages = <<>>
      BY <1>2, <1>9, <2>1 DEF PagingInv, BetweenPages, Rest
    <2>2. CASE pages # <<>>
      BY <1>2, <1>9, <2>2 DEF PagingInv, BetweenPages, Rest
    <2> QED
      BY <2>1, <2>2
  <1>13. pages' # <<>> /\ steady' \subseteq Key
    BY <1>4, <1>6, <1>9
  <1>14. CASE items = Rest
    <2>1. walk' \in Walk /\ walk'.pc = "done"
      BY <1>1, <1>3, <1>14 DEF Advance, Walk
    <2>2. TypeOK'
      BY <1>6, <1>13, <2>1 DEF ListPage, PagingInv, TypeOK
    <2>3. SteadyLinksShown'
      BY <1>7, <1>12, <1>14 DEF SteadyLinksShown, Shown
    <2> QED
      BY <1>11, <2>1, <2>2, <2>3
      DEF PagingInv, BetweenPages, Walking, FreshWhenIdle, Idle
  <1>15. CASE items # Rest
    <2>1. PICK last \in items :
            IsLast(last, items) /\ walk' = [walk EXCEPT !.pc = "page", !.cursor = last]
      BY <1>1, <1>15 DEF Advance
    <2>2. walk' \in Walk /\ walk'.pc = "page" /\ walk'.cursor = last /\ last \in Key
      BY <1>3, <1>5, <2>1 DEF Walk
    <2>3. last # NoCursor
      BY <2>2, PagingAssumption DEF Key
    <2>4. TypeOK'
      BY <1>6, <1>13, <2>2 DEF ListPage, PagingInv, TypeOK
    <2>5. \A x \in Shown' : x = last \/ Before(x, last)
      <3>1. \A x \in items : x = last \/ Before(x, last)
        BY <1>5, <2>1, <2>2, BeforeTotal DEF IsLast
      <3> QED
        BY <1>7, <1>10, <2>1, <3>1
    <2>6. \A x \in steady' : x \in Shown' \/ Before(last, x)
      <3>1. ASSUME NEW x \in Rest \ items PROVE Before(last, x)
        BY <1>1, <1>5, <2>1, <3>1, BeforeTotal DEF IsPage
      <3> QED
        BY <1>7, <1>12, <3>1
    <2>7. BetweenPages'
      BY <1>13, <2>2, <2>3, <2>5, <2>6 DEF BetweenPages, Before
    <2> QED
      BY <1>11, <2>2, <2>4, <2>7 DEF PagingInv, FreshWhenIdle, Idle, SteadyLinksShown
  <1> QED
    BY <1>14, <1>15

(* The steps together. *)
LEMMA StepPaging == PagingInv /\ [Next]_vars => PagingInv'
  <1> SUFFICES ASSUME PagingInv, [Next]_vars PROVE PagingInv'
    OBVIOUS
  <1>1. CASE UNCHANGED vars
    <2>1. TypeOK'
      BY <1>1 DEF vars, PagingInv, TypeOK
    <2> QED
      BY <1>1, <2>1, StoreStep DEF vars, client
  <1> QED
    BY <1>1, TickKeeps, CreateKeeps, InsertKeeps, DeleteKeeps, AccountsKeep, StartKeeps,
       ListKeeps, EndKeeps DEF Next, ListURLs, ListUsers

(* The invariant that the theorems below are read off. *)
THEOREM PagingInvariant == Spec => []PagingInv
  BY InitPaging, StepPaging, PTL DEF Spec

(* Links, creations and the walk keep their types. *)
THEOREM PagingTypeOK == Spec => []TypeOK
  <1>1. PagingInv => TypeOK
    BY DEF PagingInv
  <1> QED
    BY <1>1, PagingInvariant, PTL

(* No walk shows anything twice, and its pages go on in the order of the list. *)
THEOREM NothingTwice == Spec => []PagesDescend
  <1>1. PagingInv => PagesDescend
    BY DEF PagingInv
  <1> QED
    BY <1>1, PagingInvariant, PTL

(* A finished walk has shown everything that was there for all of it. *)
THEOREM NothingMissed == Spec => []SteadyLinksShown
  <1>1. PagingInv => SteadyLinksShown
    BY DEF PagingInv
  <1> QED
    BY <1>1, PagingInvariant, PTL
=============================================================================
