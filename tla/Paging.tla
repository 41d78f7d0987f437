------------------------------- MODULE Paging -------------------------------
(***************************************************************************)
(* Keyset pagination: a client walks through the pages of                  *)
(* GET /api/v1/urls while links are created, deleted and expire, or an     *)
(* administrator through those of GET /api/v1/auth/users while accounts    *)
(* come and go.                                                            *)
(*                                                                         *)
(* The links are ordered newest first, ties by short code, the accounts by *)
(* username, and a cursor is the position of the last item of the page     *)
(* before (URLCursor, UserCursor).  A page is selected under one lock in   *)
(* memory and by one statement on PostgreSQL; the total that comes with it *)
(* steers nothing and is left out.  A link carries the time at which its   *)
(* creation began, which may be some steps before it is inserted.          *)
(*                                                                         *)
(* Short codes and usernames are numbers here: what matters of them is     *)
(* that the ORDER BY and the comparison with the cursor use the same       *)
(* order.  The position of an account has no time: it is 0.                *)
(***************************************************************************)
EXTENDS Naturals, Sequences, FiniteSets

CONSTANTS
    Codes,      \* short codes, or usernames, as numbers
    Users, Admins,
    TTLs,       \* durations of the configured TTL options
    Requests,   \* creations in flight
    Limit,      \* items on a page, after NormalizeLimit
    NoRow,      \* nothing under that code or name
    Account,    \* an account under that name
    NoCursor,   \* the first page
    MaxTime     \* bound on the clock

ASSUME PagingAssumption ==
    /\ Codes \subseteq Nat /\ IsFiniteSet(Codes)
    /\ Admins \subseteq Users
    /\ TTLs \subseteq Nat /\ MaxTime \in Nat
    /\ Limit \in Nat \ {0}
    /\ NoRow \notin [createdAt : Nat, expiresAt : Nat, createdBy : Users]
    /\ NoRow # Account
    /\ NoCursor \notin [createdAt : Nat, shortCode : Codes]

VARIABLES
    list,       \* the list that is walked through
    backend,    \* the URLStore of this deployment
    now,        \* the clock
    rows,       \* short code -> link, or username -> account
    req,        \* creation -> the link it is about to insert
    walk,       \* the client's walk: position and who it is
    pages,      \* the pages it was answered so far, as sets of keys
    steady      \* history: the keys the client could see at every page so far

vars == <<list, backend, now, rows, req, walk, pages, steady>>

Link == [createdAt : Nat, expiresAt : Nat, createdBy : Users]
Key == [createdAt : Nat, shortCode : Codes]

Idle == [pc |-> "idle"]
Creating == [pc : {"create"}, shortCode : Codes, link : Link]
Walk == [pc : {"page", "done"}, viewer : Users, cursor : Key \cup {NoCursor}]

(* Mutant: the ties are not broken. *)
BeforeNoTies(x, y) == x.createdAt > y.createdAt

(* NewerThan; and AfterKeyset(cursor) is its converse. *)
Before(x, y) ==
    \/ x.createdAt > y.createdAt
    \/ x.createdAt = y.createdAt /\ x.shortCode < y.shortCode

(* In memory a link still counts at the instant it expires. *)
Active(code) ==
    /\ rows[code] # NoRow
    /\ CASE list = "users" -> TRUE
         [] list = "urls" /\ backend = "memory" -> now <= rows[code].expiresAt
         [] list = "urls" /\ backend = "postgres" -> now < rows[code].expiresAt

(* Mutant: the position has no tie-breaker. *)
KeyOfTime(code) ==
    [createdAt |-> IF list = "users" THEN 0 ELSE rows[code].createdAt, shortCode |-> 0]

KeyOf(code) ==
    [createdAt |-> IF list = "users" THEN 0 ELSE rows[code].createdAt,
     shortCode |-> code]

(* A user sees the own links, an administrator all links and all accounts. *)
MaySee(user, code) == user \in Admins \/ rows[code].createdBy = user

Visible(user) == {KeyOf(code) : code \in {c \in Codes : Active(c) /\ MaySee(user, c)}}

-----------------------------------------------------------------------------
Init ==
    /\ list \in {"urls", "users"}
    /\ backend \in {"memory", "postgres"}
    /\ now = 1
    /\ rows = [code \in Codes |-> NoRow]
    /\ req = [r \in Requests |-> Idle]
    /\ walk = Idle /\ pages = <<>> /\ steady = {}

client == <<walk, pages, steady>>

Tick ==
    /\ now < MaxTime
    /\ now' = now + 1
    /\ UNCHANGED <<list, backend, rows, req, client>>

CreateShortURL(r, user, code, ttl) ==
    /\ list = "urls"
    /\ req[r] = Idle
    /\ req' = [req EXCEPT ![r] =
                 [pc |-> "create", shortCode |-> code,
                  link |-> [createdAt |-> now, expiresAt |-> now + ttl,
                            createdBy |-> user]]]
    /\ UNCHANGED <<list, backend, now, rows, client>>

(* SetIfAbsent: an active code is refused and the request ends, or draws
   another code, as if it began again. *)
Insert(r) ==
    /\ req[r].pc = "create"
    /\ LET code == req[r].shortCode IN
          rows' = IF Active(code) THEN rows
                   ELSE [rows EXCEPT ![code] = req[r].link]
    /\ req' = [req EXCEPT ![r] = Idle]
    /\ UNCHANGED <<list, backend, now, client>>

Delete(code) ==
    /\ list = "urls"
    /\ Active(code)
    /\ rows' = [rows EXCEPT ![code] = NoRow]
    /\ UNCHANGED <<list, backend, now, req, client>>

(* ErrUsernameExists refuses a name that is taken. *)
CreateUser(name) ==
    /\ list = "users"
    /\ rows[name] = NoRow
    /\ rows' = [rows EXCEPT ![name] = Account]
    /\ UNCHANGED <<list, backend, now, req, client>>

DeleteUser(name) ==
    /\ list = "users"
    /\ rows[name] = Account
    /\ rows' = [rows EXCEPT ![name] = NoRow]
    /\ UNCHANGED <<list, backend, now, req, client>>

(* The users' list is for administrators only. *)
StartWalk(user) ==
    /\ list = "users" => user \in Admins
    /\ walk = Idle
    /\ walk' = [pc |-> "page", viewer |-> user, cursor |-> NoCursor]
    /\ UNCHANGED <<list, backend, now, rows, req, pages, steady>>

(* Mutant: pages are counted off by an offset instead of the cursor. *)
RestByOffset ==
    {key \in Visible(walk.viewer) :
        Len(pages) * Limit <=
            Cardinality({x \in Visible(walk.viewer) : Before(x, key)})}

(* What lies behind the cursor. *)
Rest ==
    {key \in Visible(walk.viewer) :
        walk.cursor # NoCursor => Before(walk.cursor, key)}

(* The first Limit items of the rest, or all of it. *)
IsPage(items) ==
    /\ items \subseteq Rest
    /\ \/ items = Rest /\ Cardinality(items) <= Limit
       \/ Cardinality(items) = Limit
    /\ \A x \in items, y \in Rest \ items : ~Before(y, x)

IsLast(key, items) == key \in items /\ \A x \in items : ~Before(key, x)

(* The client's walk after a page: on with the last item as the cursor while
   the page says that there is more, which it says when it left something. *)
Advance(items) ==
    IF items = Rest
    THEN walk' = [walk EXCEPT !.pc = "done"]
    ELSE \E last \in items :
            /\ IsLast(last, items)
            /\ walk' = [walk EXCEPT !.pc = "page", !.cursor = last]

ListPage ==
    /\ walk.pc = "page"
    /\ \E items \in SUBSET Rest :
          /\ IsPage(items)
          /\ pages' = Append(pages, items)
          /\ Advance(items)
    /\ steady' = IF pages = <<>> THEN Visible(walk.viewer)
                                 ELSE steady \cap Visible(walk.viewer)
    /\ UNCHANGED <<list, backend, now, rows, req>>

ListURLs == list = "urls" /\ ListPage
ListUsers == list = "users" /\ ListPage

(* The client has all it wanted and may look again later. *)
EndWalk ==
    /\ walk.pc = "done"
    /\ walk' = Idle /\ pages' = <<>> /\ steady' = {}
    /\ UNCHANGED <<list, backend, now, rows, req>>

Next ==
    \/ Tick
    \/ \E r \in Requests :
          \/ \E user \in Users, code \in Codes, ttl \in TTLs :
                CreateShortURL(r, user, code, ttl)
          \/ Insert(r)
    \/ \E code \in Codes : Delete(code) \/ CreateUser(code) \/ DeleteUser(code)
    \/ \E user \in Users : StartWalk(user)
    \/ ListURLs \/ ListUsers
    \/ EndWalk

Spec == Init /\ [][Next]_vars

-----------------------------------------------------------------------------
(* The list, creations and the walk are well formed. *)
TypeOK ==
    /\ list \in {"urls", "users"} /\ backend \in {"memory", "postgres"}
    /\ now \in Nat
    /\ rows \in [Codes -> (IF list = "users" THEN {Account} ELSE Link) \cup {NoRow}]
    /\ req \in [Requests -> {Idle} \cup (IF list = "users" THEN {} ELSE Creating)]
    /\ walk \in {Idle} \cup Walk
    /\ pages \in Seq(SUBSET Key)
    /\ steady \subseteq Key

(* The pages of a walk never overlap and go on where the last one ended,
   in the order of the list, although it changes between them: nothing is
   shown twice. *)
PagesDescend ==
    \A i, j \in DOMAIN pages : i < j =>
        \A x \in pages[i], y \in pages[j] : Before(x, y)

(* A walk that has come to its end has shown every link, or account, that was
   there for all of it: whatever is created, deleted or expires between
   the pages moves none of the others off a page. *)
SteadyLinksShown ==
    walk.pc = "done" => steady \subseteq UNION {pages[i] : i \in DOMAIN pages}
=============================================================================
