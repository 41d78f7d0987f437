------------------------------- MODULE Links -------------------------------
(***************************************************************************)
(* Short links with a time to live: services.URLService on either of the   *)
(* backends main.go chooses from, the in-memory storage.Storage and the    *)
(* table urls of storage.PostgresStore.                                    *)
(*                                                                         *)
(* The service's CreateShortURL reads the clock and draws an id before it  *)
(* tries to reserve a code, and DeleteURL looks the link up before it      *)
(* deletes the code, so each is several steps of a request, between which  *)
(* the clock moves and other requests, the cleanup and the deletion of     *)
(* accounts run.  Every call of a backend is one step: in memory it holds  *)
(* the mutex, on PostgreSQL it is one statement, which takes effect at one *)
(* instant under READ COMMITTED.                                           *)
(*                                                                         *)
(* What PostgreSQL adds: there can be several replicas; expiry is judged   *)
(* by the clock of the database but computed with that of a replica; urls  *)
(* refers to users, so a creation can meet the deletion of its owner; a    *)
(* statement can fail, or succeed without its caller ever knowing; and the *)
(* cleanup selects the ids of a batch of expired rows before it deletes    *)
(* them, while the rows may be taken over by new links.                    *)
(***************************************************************************)
EXTENDS Naturals, FiniteSets

CONSTANTS
    ShortCodes,     \* what GenerateShortCode(6) draws from
    LongCodes,      \* what GenerateShortCode(10) draws from
    Users,          \* ids of the accounts
    Admins,         \* those whose requests carry the role "admin"
    TTLs,           \* durations of the configured TTL options
    ClockSkew,      \* how far a replica is behind the database
    Requests,       \* requests in flight at the same time, of any replica
    MaxAttempts,    \* draws of a random code before giving up (100)
    BatchSize,      \* rows a cleanup removes at most (500)
    NoLink, NoCode, \* nothing under that code; no custom code
    MaxLinks, MaxTime, MaxVisits    \* bounds on what is explored

Codes == ShortCodes \cup LongCodes

(* utils.GenerateID never repeats itself, and ids are only compared: the id of
   a link is its number in the order of creation. *)
LinkIds == 1..MaxLinks

Link == [id : LinkIds, createdBy : Users, expiresAt : Nat, visits : Nat]

ASSUME LinksAssumption ==
    /\ NoLink \notin Link /\ NoCode \notin Codes
    /\ NoLink \notin [id : LinkIds, owner : Users, until : Nat, visits : Nat]
    /\ Admins \subseteq Users
    /\ ClockSkew \in Nat
    /\ TTLs \subseteq Nat /\ \A ttl \in TTLs : ClockSkew <= ttl
    /\ MaxAttempts \in Nat /\ BatchSize \in Nat \ {0}
    /\ MaxLinks \in Nat /\ MaxTime \in Nat /\ MaxVisits \in Nat

VARIABLES
    backend,    \* the store main.go opened
    now,        \* the clock that expiry is judged by
    lastId,     \* the last id that was drawn
    users,      \* ids of the accounts that exist
    urls,       \* Storage.data, or the table urls: code -> link
    req,        \* request -> its position in the service and its locals
    batch,      \* the rows the running cleanup statement selected, if any
    granted,    \* history: the links callers were told they have
    deleted,    \* history: ids of the links DeleteURL removed
    served,     \* history: id -> redirects answered from that link
    unanswered  \* history: ids with a counted redirect that was not answered

history == <<granted, deleted, served, unanswered>>
vars == <<backend, now, lastId, users, urls, req, batch, history>>

Idle == [pc |-> "idle"]
Creating == [pc : {"create"}, id : LinkIds, createdBy : Users, expiresAt : Nat,
             custom : Codes \cup {NoCode}, attempt : Nat]
Deleting == [pc : {"delete"}, code : Codes, user : Users]
Selected == [code : Codes, id : LinkIds]

Grant == [id : LinkIds, code : Codes, createdBy : Users, expiresAt : Nat]

InMemory == backend = "memory"
InPostgres == backend = "postgres"

Stored(code) == urls[code] # NoLink

(* now.After(ExpiresAt): in memory a link still works at the instant it expires. *)
ExpiredInMemory(code) == now > urls[code].expiresAt

(* expires_at > NOW(): in the table it is gone at that instant. *)
ExpiredInTable(code) == ~(urls[code].expiresAt > now)

Expired(code) ==
    /\ Stored(code)
    /\ \/ InMemory /\ ExpiredInMemory(code)
       \/ InPostgres /\ ExpiredInTable(code)

Active(code) == Stored(code) /\ ~Expired(code)

MayDelete(user, link) == user \in Admins \/ link.createdBy = user

-----------------------------------------------------------------------------
Init ==
    /\ backend \in {"memory", "postgres"}
    /\ now = 0 /\ lastId = 0
    /\ users = Users
    /\ urls = [code \in Codes |-> NoLink]
    /\ req = [r \in Requests |-> Idle]
    /\ batch = {}
    /\ granted = {} /\ deleted = {} /\ unanswered = {}
    /\ served = [id \in LinkIds |-> 0]

Goto(r, state) == req' = [req EXCEPT ![r] = state]

Tick ==
    /\ now < MaxTime
    /\ now' = now + 1
    /\ UNCHANGED <<backend, lastId, users, urls, req, batch, history>>

(* The request ends with an error and without an effect. *)
EndRequest(r) ==
    /\ Goto(r, Idle)
    /\ UNCHANGED <<backend, now, lastId, users, urls, batch, history>>

(* A timeout or a lost connection before the statement took effect. *)
Fail(r) ==
    /\ InPostgres
    /\ req[r] # Idle
    /\ EndRequest(r)

-----------------------------------------------------------------------------
(* Creations.  The expiry is computed with the clock of the replica, before
   any code is tried. *)
CreateShortURL(r, user, ttl, custom) ==
    /\ req[r] = Idle
    /\ lastId < MaxLinks
    /\ lastId' = lastId + 1
    /\ \E behind \in 0..(IF InMemory THEN 0 ELSE ClockSkew) :
          Goto(r, [pc |-> "create", id |-> lastId', createdBy |-> user,
                   expiresAt |-> now + ttl - behind, custom |-> custom,
                   attempt |-> 1])
    /\ UNCHANGED <<backend, now, users, urls, batch, history>>

(* Mutant: the link that replaces an expired one keeps its counter. *)
NewLinkKeepsVisits(state, code) ==
    [id |-> state.id, createdBy |-> state.createdBy, expiresAt |-> state.expiresAt,
     visits |-> IF Stored(code) THEN urls[code].visits ELSE 0]

(* What an insertion leaves under the code, whatever was there. *)
NewLink(state, code) ==
    [id |-> state.id, createdBy |-> state.createdBy, expiresAt |-> state.expiresAt,
     visits |-> 0]

GrantOf(state, code) ==
    [id |-> state.id, code |-> code, createdBy |-> state.createdBy,
     expiresAt |-> state.expiresAt]

Put(r, code) == urls' = [urls EXCEPT ![code] = NewLink(req[r], code)]

(* In memory: an active code is refused, an expired entry is replaced. *)
SetIfAbsentInMemory(r, code) ==
    /\ InMemory /\ ~Active(code)
    /\ Put(r, code)
    /\ granted' = granted \cup {GrantOf(req[r], code)}

(* One INSERT ... ON CONFLICT: it takes a free code or an expired row, if the
   owner exists.  When the acknowledgement is lost, the caller is told of a
   failure. *)
SetIfAbsentInTable(r, code) ==
    /\ InPostgres /\ ~Active(code)
    /\ req[r].createdBy \in users
    /\ Put(r, code)
    /\ granted' \in {granted, granted \cup {GrantOf(req[r], code)}}

(* The foreign key: the owner was deleted since the request authenticated. *)
OwnerMissing(r, code) ==
    /\ InPostgres /\ ~Active(code)
    /\ req[r].createdBy \notin users
    /\ EndRequest(r)

(* Mutant: the loop goes on after a code was reserved. *)
ReserveNoBreak(r, code) ==
    /\ SetIfAbsentInMemory(r, code) \/ SetIfAbsentInTable(r, code)
    /\ Goto(r, IF req[r].custom = NoCode /\ req[r].attempt < MaxAttempts
               THEN [req[r] EXCEPT !.attempt = @ + 1] ELSE Idle)
    /\ UNCHANGED <<backend, now, lastId, users, batch, deleted, served, unanswered>>

Reserve(r, code) ==
    /\ SetIfAbsentInMemory(r, code) \/ SetIfAbsentInTable(r, code)
    /\ Goto(r, Idle)
    /\ UNCHANGED <<backend, now, lastId, users, batch, deleted, served, unanswered>>

(* Mutant: the attempts are not counted. *)
KeyExistsUncounted(r, code) ==
    /\ Active(code)
    /\ Goto(r, IF req[r].custom = NoCode THEN req[r] ELSE Idle)
    /\ UNCHANGED <<backend, now, lastId, users, urls, batch, history>>

(* ErrKeyExists ends a request for a custom code and the last random draw. *)
KeyExists(r, code) ==
    /\ Active(code)
    /\ Goto(r, IF req[r].custom = NoCode /\ req[r].attempt < MaxAttempts
               THEN [req[r] EXCEPT !.attempt = @ + 1] ELSE Idle)
    /\ UNCHANGED <<backend, now, lastId, users, urls, batch, history>>

Candidates(state) ==
    IF state.custom # NoCode THEN {state.custom}
    ELSE IF state.attempt = MaxAttempts THEN LongCodes ELSE ShortCodes

TryReserve(r) ==
    /\ req[r].pc = "create"
    /\ \E code \in Candidates(req[r]) :
          Reserve(r, code) \/ KeyExists(r, code) \/ OwnerMissing(r, code)

-----------------------------------------------------------------------------
(* Mutant: the counter goes down. *)
GetAndDecrement(code) ==
    /\ Active(code)
    /\ urls[code].visits < MaxVisits
    /\ urls' = [urls EXCEPT ![code].visits = @ - 1]

(* Looked up and counted in one critical section, or by UPDATE ... RETURNING. *)
GetAndIncrement(code) ==
    /\ Active(code)
    /\ urls[code].visits < MaxVisits
    /\ urls' = [urls EXCEPT ![code].visits = @ + 1]

(* On PostgreSQL the visit may be counted while its row does not reach the
   handler, which then answers 404. *)
Redirect(code) ==
    /\ GetAndIncrement(code)
    /\ \/ /\ served' = [served EXCEPT ![urls[code].id] = @ + 1]
          /\ UNCHANGED unanswered
       \/ /\ InPostgres
          /\ unanswered' = unanswered \cup {urls[code].id}
          /\ UNCHANGED served
    /\ UNCHANGED <<backend, now, lastId, users, req, batch, granted, deleted>>

(* DeleteURL: Get and the owner check, then the deletion by code. *)
DeleteURL(r, code, user) ==
    /\ req[r] = Idle
    /\ Active(code)
    /\ MayDelete(user, urls[code])
    /\ Goto(r, [pc |-> "delete", code |-> code, user |-> user])
    /\ UNCHANGED <<backend, now, lastId, users, urls, batch, history>>

(* In memory whatever is under the code goes; in the table an expired row is
   not found, and left to the cleanup. *)
DeleteInMemory(code) == InMemory /\ Stored(code)
DeleteInTable(code) == InPostgres /\ Active(code)

Delete(r) ==
    /\ req[r].pc = "delete"
    /\ LET code == req[r].code IN
       IF DeleteInMemory(code) \/ DeleteInTable(code)
       THEN /\ urls' = [urls EXCEPT ![code] = NoLink]
            /\ deleted' = deleted \cup {urls[code].id}
       ELSE UNCHANGED <<urls, deleted>>
    /\ Goto(r, Idle)
    /\ UNCHANGED <<backend, now, lastId, users, batch, granted, served, unanswered>>

(* Mutant: the deletion of a user leaves the links. *)
CascadeNothing(user) == urls

(* ON DELETE CASCADE of the table; the in-memory stores know nothing of each
   other. *)
Cascade(user) ==
    IF InMemory THEN urls
    ELSE [code \in Codes |->
            IF Stored(code) /\ urls[code].createdBy = user THEN NoLink ELSE urls[code]]

DeleteUser(user) ==
    /\ user \in users
    /\ users' = users \ {user}
    /\ urls' = Cascade(user)
    /\ UNCHANGED <<backend, now, lastId, req, batch, history>>

-----------------------------------------------------------------------------
(* Mutants: the pass is off by one, early; it is late by one. *)
CleanupExpiredEarly ==
    /\ InMemory
    /\ urls' = [code \in Codes |->
                  IF Stored(code) /\ now >= urls[code].expiresAt THEN NoLink ELSE urls[code]]
    /\ UNCHANGED <<backend, now, lastId, users, req, batch, history>>
CleanupExpiredLate ==
    /\ InMemory
    /\ urls' = [code \in Codes |->
                  IF Stored(code) /\ now > urls[code].expiresAt + 1 THEN NoLink
                                                                    ELSE urls[code]]
    /\ UNCHANGED <<backend, now, lastId, users, req, batch, history>>

(* In memory, the ticker's turn: one pass over the map under the lock. *)
CleanupExpired ==
    /\ InMemory
    /\ urls' = [code \in Codes |-> IF Expired(code) THEN NoLink ELSE urls[code]]
    /\ UNCHANGED <<backend, now, lastId, users, req, batch, history>>

ExpiredCodes == {code \in Codes : Expired(code)}

(* ORDER BY expires_at LIMIT BatchSize *)
Oldest(selection) ==
    /\ selection \subseteq ExpiredCodes
    /\ Cardinality(selection) <= BatchSize
    /\ selection = ExpiredCodes \/ Cardinality(selection) = BatchSize
    /\ \A code \in selection, other \in ExpiredCodes \ selection :
          urls[code].expiresAt <= urls[other].expiresAt

(* A tick of a replica's cleanup: the inner SELECT of its statement. *)
CleanupSelect ==
    /\ InPostgres
    /\ batch = {}
    /\ \E selection \in SUBSET Codes :
          /\ Oldest(selection)
          /\ batch' = {[code |-> code, id |-> urls[code].id] : code \in selection}
    /\ UNCHANGED <<backend, now, lastId, users, urls, req, history>>

(* Mutant: the rows are matched by code instead of id. *)
InBatchByCode(code) == \E row \in batch : row.code = code

(* WHERE id IN (...): a row that a new link took over has another id. *)
InBatch(code) == Stored(code) /\ \E row \in batch : row.id = urls[code].id

CleanupDelete ==
    /\ batch # {}
    /\ urls' = [code \in Codes |-> IF InBatch(code) THEN NoLink ELSE urls[code]]
    /\ batch' = {}
    /\ UNCHANGED <<backend, now, lastId, users, req, history>>

(* The error of a cleanup is ignored: the next tick tries again. *)
CleanupFail ==
    /\ batch # {}
    /\ batch' = {}
    /\ UNCHANGED <<backend, now, lastId, users, urls, req, history>>

Next ==
    \/ Tick
    \/ CleanupExpired
    \/ CleanupSelect \/ CleanupDelete \/ CleanupFail
    \/ \E code \in Codes : Redirect(code)
    \/ \E user \in Users : DeleteUser(user)
    \/ \E r \in Requests :
          \/ \E user \in users, ttl \in TTLs, custom \in Codes \cup {NoCode} :
                CreateShortURL(r, user, ttl, custom)
          \/ TryReserve(r)
          \/ \E code \in Codes, user \in Users : DeleteURL(r, code, user)
          \/ Delete(r)
          \/ Fail(r)

Spec == Init /\ [][Next]_vars

(* The tickers of the cleanups never stop, and a database that is asked again
   and again completes a cleanup some time; a goroutine with a request in hand
   runs on.  Nothing is assumed of failures. *)
FairSpec ==
    /\ Spec
    /\ WF_vars(CleanupExpired)
    /\ WF_vars(CleanupSelect) /\ SF_vars(CleanupDelete)
    /\ \A r \in Requests : WF_vars(TryReserve(r) \/ Delete(r))

-----------------------------------------------------------------------------
(* Links, requests and histories are well formed. *)
TypeOK ==
    /\ backend \in {"memory", "postgres"}
    /\ now \in Nat /\ lastId \in 0..MaxLinks
    /\ users \subseteq Users
    /\ urls \in [Codes -> Link \cup {NoLink}]
    /\ req \in [Requests -> {Idle} \cup Creating \cup Deleting]
    /\ batch \subseteq Selected
    /\ granted \subseteq Grant /\ deleted \subseteq LinkIds
    /\ served \in [LinkIds -> Nat] /\ unanswered \subseteq LinkIds

(* No link is stored under two codes, whatever retries its creation took: on
   PostgreSQL the ids are the primary key. *)
StoredOnce ==
    \A code, other \in Codes :
        Stored(code) /\ Stored(other) /\ urls[code].id = urls[other].id => code = other

(* A link a caller was given answers under its code until the clock reaches
   its expiry, unless a DeleteURL removed it or its owner was deleted: in
   particular no race of creations with expiry drops it, and no cleanup, whose
   statement selected an expired row before, removes the link that took the
   row over. *)
GrantedLinksWork ==
    \A g \in granted :
        now < g.expiresAt /\ g.id \notin deleted /\ g.createdBy \in users =>
            Stored(g.code) /\ urls[g.code].id = g.id

(* On PostgreSQL no link outlives its owner, even if its creation was under
   way when the account was deleted. *)
NoOrphans ==
    InPostgres => \A code \in Codes : Stored(code) => urls[code].createdBy \in users

(* The counter of a link has every redirect answered from that very link, none
   lost and none inherited from an expired link of that code, and no others
   than redirects whose answer was lost. *)
VisitsCoverRedirects ==
    \A code \in Codes : Stored(code) =>
        LET id == urls[code].id IN
        /\ urls[code].visits >= served[id]
        /\ id \notin unanswered => urls[code].visits = served[id]

(* DeleteURL removes a link only for its owner or an administrator. *)
OnlyOwnerDeletes ==
    [][\A r \in Requests :
          req[r].pc = "delete" /\ Delete(r) /\ Active(req[r].code) =>
             MayDelete(req[r].user, urls[req[r].code])]_vars

(* Every expired link leaves the store, although on PostgreSQL a pass is
   limited, may fail and may race with creations. *)
ExpiredArePurged == \A code \in Codes : Expired(code) ~> ~Expired(code)

(* Every creation is answered: drawing random codes cannot go on for ever. *)
CreationsEnd == \A r \in Requests : req[r].pc = "create" ~> req[r] = Idle

-----------------------------------------------------------------------------
(* The working links, with the first instant at which each no longer works. *)
Until(code) == urls[code].expiresAt + (IF InMemory THEN 1 ELSE 0)
Working(code) ==
    IF Active(code)
    THEN [id |-> urls[code].id, owner |-> urls[code].createdBy,
          until |-> Until(code), visits |-> urls[code].visits]
    ELSE NoLink

Promise == INSTANCE LinkStoreSpec WITH
    owners <- users,
    links <- [code \in Codes |-> Working(code)],
    deleting <- [r \in Requests |-> IF req[r].pc = "delete" THEN req[r].code ELSE NoCode]

(* On both backends, the handlers and their stores behave as the one-step
   specification: no step of a creation, a deletion, a cleanup or the passing
   of time does to a working link what LinkStoreSpec does not allow. *)
ImplementsLinkStore == Promise!Spec
=============================================================================
