# A TLA+ model of GoShorty

GoShorty is a URL shortener: a Go HTTP service (gin) with accounts, bearer
tokens, short links with a time to live, and two interchangeable storage
backends, in-memory maps for development and PostgreSQL for production. This
directory holds TLA+ specifications of the parts of it where several requests,
the clock, a cleanup loop or a crash meet, TLC configurations that check them
on small instances, and proofs, checked by TLAPS, of the account, session, link,
token, rate limit, pagination and migration properties for instances of every
size.

Contents: [the system](#the-system) · [modules](#modules-and-the-code) ·
[runs](#runs) · [findings](#findings) · [fairness](#fairness) ·
[proofs](#proofs) · [not modelled](#not-modelled) · [plan](#plan)

## The system

| component | code | state | operations |
|---|---|---|---|
| authentication handlers | `handlers/auth.go` | none of their own; locals of a request | register, login, password change, session revocation, role change, account deletion, the two middlewares |
| user store | `storage/interfaces.go`, `storage/user.go`, `storage/postgres.go` | accounts: username, password hash, role, token version | create, look up, verify, update password, revoke tokens, update role, delete, bootstrap |
| token service | `services/token_service.go` | two signing keys, lifetime | generate, verify |
| URL service | `services/url_service.go`, `handlers/handler.go` | none | create, redirect, look up, delete, list, statistics |
| URL store | `storage/storage.go`, `storage/postgres.go` | links: code, owner, expiry, visit counter | reserve a code, get, count and get, delete, list, clean up |
| rate limiter | `handlers/security.go` | windows by route and client | count and decide, evict |
| pagination | `services/pagination.go`, `models/pagination.go` | cursors held by clients | encode, decode, page |
| migration runner | `storage/postgres.go` (`migrate`), `storage/migrations` | ledger with checksums | apply in order under an advisory lock |
| process | `main.go` | listener, storage handles | start, shut down on a signal |
| browser client | `static/js/app.js` | current token and user, local storage | restore session, login, logout, lists |
| observability, middleware, configuration | `observability.go`, `middleware.go`, `config/config.go` | request counters | per request |

How they interact. A request passes the rate limiter of its route, then, on a
protected route, the authentication middleware: the token service verifies the
token and the user store is asked for the account, whose version must be the
token's and whose role is copied into the request's context. The handler then
calls the user store or the URL service, which calls the URL store. Requests
are goroutines, each of a few store calls, and share nothing but the stores
and the limiter: everything that can go wrong between two requests goes wrong
between two store calls. Each in-memory store has a mutex, and one call is one
critical section; on PostgreSQL most calls are one statement and two are
transactions. A goroutine of each URL store removes expired links. Several
replicas may share one database.

What is hard:

- *Two store calls with something in between.* Login verifies the password with
  one call and reads the account with another; a password change verifies, then
  writes; `DeleteURL` checks the owner, then deletes by code; the middleware's
  copy of the role is used later.
- *Revocation.* No token may come back to life, whatever passwords, accounts
  and usernames do after it was issued.
- *The last administrator.* Two administrators demoting or deleting each other
  at the same time, on either backend, with failures and crashes between the
  statements of a transaction.
- *Expiry.* Creation, redirect, deletion and cleanup of one code around the
  instant it expires.
- *The database.* A creation, a cleanup statement and the deletion of an owner
  meet on one row; statements fail, or succeed without anybody being told.
- *Starts and stops.* Replicas of different releases start together on one
  ledger, fail half way, are drained for five seconds and killed.
- *Deployments.* Replicas with old and new keys and settings, and clocks that
  differ, verify each other's tokens.
- *Lists that change.* A client that pages through its links must miss none.
- *A full map.* The limiter bounds its memory by forgetting windows.

## Modules and the code

`PROJECT.json` maps every definition to the lines it stands for.

**`UserStoreSpec`** is the contract: what `storage.UserStore` promises to its
callers, on any backend. Its only variable is `accounts`; each method that
changes something is one atomic action; ids are never reused, usernames are
unique, `Admins` never becomes empty. `BootstrapAdmin` is the insertion that
every start performs against a database without an account named `admin`.

**`AuthSessions`** (EXTENDS `UserStoreSpec`) runs the handlers on the contract,
as the Go handlers run on the interface. `req[r]` is a request's position with
the locals it carries to the next store call: the username and password of a
verified login, the id, username and role of the middleware, the new password
of a verified change. `issued` holds the tokens that verify; any of them may be
presented at any time. One action is one store call with the local code after
it. Signatures and expiry belong to the token service: removing tokens from
`issued` when they expire would only remove behaviours, and every property here
is about what a token may still do.

**`UserStorage`** is the in-memory backend: the maps `users` (by name) and
`byID` point into a heap `user` of records, because both Go maps hold the same
pointer and `UpdatePassword` finds through one what `GetUser` reads through the
other. `ImplementsUserStore` is the refinement of `UserStoreSpec`: a user is
live when `byID` finds it, deleted when its record is no longer reachable.

**`PgUsers`** is the PostgreSQL backend. `UpdateUserRole` and `DeleteUser` are
transactions of five round trips (begin, advisory lock 7348201, `SELECT ... FOR
UPDATE`, the count, the write) and a commit; between two of them other calls
run, the call fails (its five-second context, a lost connection), everything
crashes, or a replica starts and runs the bootstrap while others serve. All other methods are single
statements. What the server does is an assumption: under READ COMMITTED a
statement sees committed rows, writers wait for row locks, the end of a
transaction releases its locks. It refines `UserStoreSpec` with the commit as
the step that changes an account.

**`LinkStoreSpec`** is what the link service promises: a code names at most one
working link, and every request of the service is one step, but for a deletion,
which is two: the entitlement is judged at one time, the code is emptied at a
later one. Expired links are no state of it, so the whole of the clean-up has
to be invisible.

**`Links`** is `URLService` on either backend; `backend` says which one `main.go`
opened. Creation takes the time and an id first, then tries codes (`TryReserve`);
`DeleteURL` is a lookup with the owner check and then a `Delete` by code; every
call of a store is one step, in memory because of its mutex, on PostgreSQL
because it is one statement. `Tick` moves the clock between any two steps.
Histories (`granted`, `deleted`, `served`, `unanswered`) record what callers
were told, and the properties compare the store with them. The backends differ
where the code does: at the instant of expiry (`ExpiredInMemory`,
`ExpiredInTable`), in what a deletion finds (`DeleteInMemory`, `DeleteInTable`),
in the cascade from an account, and in the cleanup. In memory that is one pass
under the lock; on PostgreSQL `CleanupSelect` and `CleanupDelete` are the inner
and the outer part of one statement, between which a row may be taken over by a
new link, which has another id. On PostgreSQL a statement can also fail, or lose
its acknowledgement (`granted` stays as it was) or its answer after a visit was
counted (`unanswered`); the expiry was computed with a replica's clock, up to
`ClockSkew` behind the database's. `DeleteUser` is the commit of the transaction
that `PgUsers` models, with what it cascades to. `ImplementsLinkStore` is the
refinement: a link of `LinkStoreSpec` is one that a lookup would find now.

**`Replicas`** is the life of the processes on one database: `migrate`, one
transaction per file under the advisory lock 7348200, the bootstrap, the server,
the signal, the drain and the closing of the pool. A replica starts with any
release, a sequence of migration files. `ledger` is the table
`schema_migrations`, and `applied` what was really committed to the schema, so
that the two can be compared. `CREATE TABLE IF NOT EXISTS` is two steps outside
the lock, as PostgreSQL executes it. `FailStartup` is any error or timeout of a
start, with or without the effect of the commit it interrupted; after a crash
PostgreSQL may keep the lock of the dead session for a while.

**`Tokens`** is the token service on several replicas. A replica has the
configuration `conf[r]` it read when it started; the operator changes `env`, and
`Start` is a replica's start with it, so old and new configurations run side by
side for as long as a deployment takes. A key is its number in the order of the
rotations, because an HMAC verifies under the key that made it and no other.
`VerifyToken` is the conjunction of the checks of the Go function. The operator
does what `OPERATIONS.md` tells: one change at a time, `SECRET_KEY_PREVIOUS`
removed when the last token of that key has expired; an emergency rotation may
come at any moment, also in the middle of another deployment.

**`Paging`** is a client that walks through `GET /api/v1/urls`, or an administrator
who walks through `GET /api/v1/auth/users` (`list` says which). The walk's state
is the cursor it holds and the pages it got. A page is selected at one instant
on both backends (`backend` says which one decides what is still active); links
carry the time at which their creation began, and are inserted later; the order
of the accounts has no time. `IsPage` says what `ORDER BY ... LIMIT` or sort and
slice return, without computing it.

**`RateLimiter`** is the fixed-window limiter: the clock is read in `Arrive`,
outside the mutex, and `Limit` is the critical section. `opened`, `passed` and
`evicted` are histories: the windows as the requests alone determine them, what
was let through, which keys the full map dropped.

## Runs

| run | instance | question |
|---|---|---|
| `auth_sessions` | 2 requests, 3 ids, 2 usernames, 2 passwords, versions to 2 | Can a refused token come back, a session outlive a change, a change reach another account, the last administrator go? |
| `user_storage` | 4 ids, 3 usernames, 2 passwords, versions to 1 | Do the two maps stay in agreement and keep the contract? |
| `pg_users` | 2 transactions, 3 ids, 2 usernames, versions to 1 | Do concurrent transactions, failures and crashes keep the contract, leak no lock and leave no call waiting? |
| `links` | both backends, 1 user, 1 short and 1 long code, 2 creations, 2 requests, batches of 1, time to 2 | Does the service keep its promises step by step, does every link work until it expires, is deleted or loses its owner, with a counter that covers its redirects? Are expired links purged and creations answered? |
| `rate_limiter` | 2 keys of different windows, capacity 1, 2 requests, time to 5 | Does a key that was never evicted keep its limit? Is the map bounded? |
| `tokens` | 2 replicas, clocks 1 apart, 1 issuer, lifetimes 0 to 2, 3 keys, 1 token, time to 6 | Do sessions survive a smooth rotation, end with an emergency, and never come back? |
| `paging` | both lists, 3 codes or names, 1 user and 1 administrator, 1 creation in flight, 1 item on a page, time to 3 | Is an item shown twice, or one that was there all the time missed? |
| `replicas` | 2 replicas, 3 releases (old, with a second migration, with the first one edited), 1 request each, 2 failures | Does each migration take effect once, does a release with other files stay out, does a clean exit cut nobody, does nothing hang? |
| `login_password` | as `auth_sessions` | violation: see findings |
| `only_owner_deletes` | 2 users, 2 creations | violation: see findings |
| `rate_limit_full_map` | as `rate_limiter` | violation: see findings |
| `previous_key` | as `tokens`, 2 keys, lifetime 1, time to 3 | violation: see findings |

Why these bounds suffice. Two administrators, two requests and a spare id are
the least with which the races above exist: one id to delete, one to take its
username, one administrator left to do it. One short code makes every two
creations collide, and one long code is the last attempt. With a time to live of
1 and time to 2 a link expires and another one takes its code. Two limiter keys
with windows of 1 and 3 let the short route judge the long one's window. One
token is enough for the token properties, which speak of one token each; three
keys are an emergency rotation followed by a smooth one. A batch of 1 makes a
cleanup pass leave something, and two links are the one that expires and the
one that takes its row. Pages of one item and three codes are the shortest walk
whose cursor has links on both sides that come and go; a larger page is reached
by the proof. Two replicas are one that holds the lock and one that waits or
serves; of the releases, one has a migration more and one an edited file, so
that every order of deployment, rollback and drift occurs; two failures let a
retry fail again, or a crash meet a timeout. The bounds are constants of the
modules (`MaxVersion`, `MaxTime`, `MaxVisits`, `MaxLinks`, `MaxCount`, `MaxKey`,
`MaxTokens`, `MaxInflight`, `MaxFailures`) and appear in guards only. Symmetry is
used for interchangeable requests, passwords, ids and replicas in runs without
liveness.

What each property says is written above its definition. In short:
`RefusedForGood`, `BumpEndsSessions` and `TokensNotAhead` are revocation;
`OnlyOwnPassword` is the safety of carrying an id rather than a name across
two calls; `AdminExists` and `CheckedStillHolds` are the last-administrator
guard and why the advisory lock makes its count trustworthy; `MapsAgree` is
the joint invariant of the two maps; `GrantedLinksWork`, `StoredOnce` and
`VisitsCoverRedirects` are what a caller who was told of a link may rely on, and
`NoOrphans` what the foreign key adds; `ImplementsLinkStore` says that a request
of several steps cannot be told from one that takes effect at one instant;
`LimitUnlessEvicted` and `BoundedEntries` are the two halves of the limiter's
compromise; `SessionsSurviveRotation`, `EmergencyEndsSessions` and `NoRevival` are
the two kinds of rotation seen from one token; `PagesDescend` and
`SteadyLinksShown` say that keyset pages neither repeat nor miss;
`LedgerTellsTheTruth`, `ServesOwnSchema` and `RefusedOnlyForDrift` are what
`AUDIT_VA_KE_HOACH_CAI_TIEN.md` and `SECURITY.md` say of migrations: applied once, refused
after an edit, safe to start together; `CleanExitCutsNobody` is the log line
"Server exited cleanly".

Deadlock is checked in every run.

## Findings

- **A login can outrun a password change** (`login_password`). `Login` verifies
  the password and then reads the account again; a change that commits in
  between has already bumped the version, so the old password is answered with
  a token of the new version, which the change was to make impossible.
- **`DeleteURL` can delete another user's link** (`only_owner_deletes`). Between
  the owner check and the deletion the link can expire and its code be reserved
  by somebody else; the deletion goes by the code.
- **A full limiter forgets counted requests** (`rate_limit_full_map`). Above its
  capacity it evicts live windows of any route, which then begin again.
- **The previous key is not reserved for legacy tokens** (`previous_key`). The
  comments of the token service and `SECURITY.md` say that it only verifies
  tokens without a `kid`; `VerifyToken` tries it for every token, as a rotation
  without forced logout needs. Here the comments are behind the code.

Not listed as findings, because no text of the repository is precise enough to
contradict them: two concurrent password changes that verified the same old
password both succeed; a request that passed the middleware keeps the role it
read there; a deleted account named `admin` comes back at the next start;
during a rolling deployment a replica that has not got the new key refuses the
tokens of those that have, so a client may be sent to the login page by the
replica it happens to reach (and, after an emergency rotation, stays accepted by
the replicas that still run the old configuration).

## Fairness

Safety properties are checked without fairness. `PgUsers!FairSpec` assumes that
a transaction whose next statement can run gets to run it (its goroutine and
the server are scheduled: weak fairness) and that PostgreSQL does not pass over
a waiter for the advisory lock for ever (its lock queue is served in order:
strong fairness). No timeout, failure or restart is assumed to happen, so
`CallsReturn` does not hold merely because a context expires. `Links!FairSpec`
assumes that the tickers of the cleanups fire again and again and that a request
in hand goes on; nothing makes a client send a request. On PostgreSQL every
cleanup may fail, but a database that is asked once a minute for ever completes
one some time (strong fairness of `CleanupDelete`). `Replicas!FairSpec` assumes
that a starting or stopping process goes on, that the lock is granted in the
order of asking (strong fairness), that a statement ends (its context has a
timeout) and that PostgreSQL notices a dead session. Requests need not end: the
five seconds of the shutdown do. No failure, crash, signal or start is assumed.

## Proofs

Checked by TLAPS from no assumption but the named ones on the constants.

**`AuthSessionsProofs`, the contract.** Of `UserStoreSpec` alone, `Inv` is the type
invariant with `AdminExists` and `UniqueUsernames`; it is inductive: unique
usernames are needed because a role change or a deletion finds its account by
name, and the guard `~IsLastAdmin(i)` only protects the account found.
`StoreKeepsAdmin`, `StoreUsernamesUnique` and `StoreVersionsOnlyGrow` follow.

**`AuthSessionsProofs`, the handlers.** Every step of the handlers is a step of the
contract or leaves the accounts alone (`StepIsStoreCall`), so `AuthSpec` implies
the contract's `Spec` (`HandlersKeepTheContract`) and its theorems carry over.
`AuthInv` adds the types of `req` and `issued` and `TokensNotAhead`, the
strengthening that makes revocation provable: a token is refused because its
account is gone or has a larger version, and `NextVersions` says neither is ever
undone. From it: `RevocationIsFinal`, `ChangeEndsSessions`, `PasswordsAreOwn`.

**`UserStorageProofs`.** The inductive invariant is `TypeOK`, `MapsAgree` and
`AdminExists`. `adminCountLocked` counts a finite set, and the lemmas on it
turn `AdminCount <= 1` into "no other administrator" for the refinement
`StorageImplementsContract`: initial states map to initial states, and every
step to a step or a stutter of the contract. Unique usernames are `MapsAgree` read
the other way round; `StorageVersionsOnlyGrow` rests on one lemma about the objects
behind the pointers (`NextObjects`): an object that left `byID` is garbage.

**`TokensProofs`.** `TokensInv` strengthens `TypeOK` by three facts about a
deployment under way. `KeyOrder`: no replica is ahead of the environment, and no
previous key is older than the last emergency. `Covered`, of the environment and
of every replica: a token older than the active key has the previous key, was
ended by an emergency, or has expired on every clock. `IssueTimes`: a key no
replica signs with has signed nothing since the last deployment, which with
`TransitionOver` makes the removal of the previous key harmless. From it:
`RotationIsSmooth`, `EmergencyIsFinal` and, as an action property,
`RefusedTokensStayRefused`.

**`PagingProofs`.** `PagingInv` adds to the properties what is true between two
pages: everything shown lies at the cursor or before it, and every steady link
has been shown or lies behind it. That the order is transitive and total
(`BeforeTransitive`, `BeforeTotal`) is all the proof needs of it. A step of the
store changes neither the walk nor what was shown, so one lemma (`StoreStep`)
disposes of creations, deletions and expiry. `NothingTwice` and `NothingMissed`
hold for lists, pages and cursors of every size.

**`LinksProofs`.** `LinksInv` adds to the properties where an id can be while its
creation is under way (`FreshIds`: nowhere but in that request until its code is
reserved, which is why a row taken over has an id no cleanup selected), that
what a cleanup selected has expired (`BatchExpired`), and that a link still stored
under its code is the one that was granted (`GrantsAgree`). Every way a link can
go is a removal (`Removes`), and `RemovalKeeps` reduces each action to who may
remove what: an expired row, a deleted one, one of a deleted owner. The proof has
no bound on users, codes or requests, and so lifts the one-user instance of the
run. `LinksImplementStore` maps every step to one of `LinkStoreSpec` or a stutter;
`StepSpares` is its core: what a step of one request does to a code it is not
working on is at most the end of a link that had stopped working before.
Through the refinement the links inherit what the abstract store says of one
step: `LinksEndOnlyForAReason` proves the action property `LinksEndForAReason` of
`LinkStoreSpec` for both backends, with cleanups, races for a code and failures.

**`ReplicasProofs`.** `ReplicasInv` says of each replica what it may rely on. While
it has a transaction open, what it read of the ledger holds (`ReadsHold`): the
others would need the lock to write, which is where the advisory lock enters the
proof. What it has migrated stays in the ledger (`Migrated`), because a commit
only fills a missing row or a missing checksum (`StepGrowsLedger`); for the same
reason a refused file stays refused (`Refused`). `Exits` ties the two halves of a
shutdown together. `OthersHold` disposes of the steps of all other replicas at
once; the rest is one case per step. Two consequences no run checks:
`LedgerIsAppendOnly`, an action property, and `ServingReplicasAgree`, which says
that releases whose files contradict each other never serve side by side.

**`PgUsersProofs`.** `PgInv` adds to `CheckedStillHolds` and `AdminExists` who holds
which lock (`LockDiscipline`) and that only finitely many ids were generated, so
that the count of the administrators means something. The argument is the one
the comments of `storage/postgres.go` leave to the reader: past the advisory lock
there is one transaction at a time (`TransactionMoves` for its steps), other
statements keep the username and the role of every row (`RowsKept`), so what the
count found still holds at the commit (`CommitKeeps`), and a rollback or a crash
releases everything. Row locks are not needed for it: they only enter
`PgLeaksNoLock` and `PgNeverDeadlocks`. The latter is the safety half of
`CallsReturn`: who waits, for either lock, waits for a call that does not wait.
`PgImplementsContract` is the refinement, with the commit as the step of the
contract. `Writes` says what any statement does to the one row it writes;
`PgUsernamesUnique` and `PgVersionsOnlyGrow` follow from it.

**`RateLimiterProofs`.** `LimiterInv` relates the map to the requests alone:
`Agrees(k)` says that the window stored for a key is the one its requests opened,
and that as many were let through as were counted, up to the limit. A request
that was overtaken between the clock and the mutex counts in the window it finds
and never reopens it, so the order of the mutex is the order of the argument
(`KeyAgrees`). Eviction (`EvictionsFit`) only takes entries away; a key it took is
outside the invariant for good. `LimitHolds` and `RefusedOnlyAtTheLimit` are the two
directions: the verdict is exact. `MapStaysBounded` assumes nothing about the
number of keys, only that the map starts empty, which keeps it finite (`MapFits`).
`LimitEnforcedWhenRoomForAll` is the other side of the run `rate_limit_full_map`: when
the capacity covers every key, nothing is evicted and the limit has no exception.

Every invariant and action property of the passing runs is a theorem. Left to TLC
for good is liveness (`CallsReturn`, `ExpiredArePurged`, `CreationsEnd`,
`NeitherStartNorStopHangs`): the prover has neither `ENABLED` nor fairness.

## Not modelled

The browser client: `static/js/app.js` keeps one token and the lists it shows, in
one thread, and an answer that arrives late overwrites what is there (`app.js:57`
clears whatever session is current when a 401 arrives). The server keeps no
state for it, so it composes with nothing here. The total of a list and the
statistics steer nothing. Metrics, logging, headers, CORS, route tables, pprof
and the embedded OpenAPI document keep no state that a decision depends on; the
configuration is read once, and its values are constants of the modules, but
for the token settings, which `Tokens` lets a deployment change. `cmd/localdb`
starts a third-party database for development. A negative `TOKEN_TTL`, which the
validation accepts, is outside the constants of `Tokens`: every token would be
refused at once. `Replicas` does not interpret the SQL of a migration, nor whether
an old release works on a newer schema, which nothing in the code checks.

## Plan

1. *Done:* the user store contract, both backends, the handlers, the link service
   on both backends with its abstract specification, the limiter, the tokens, the
   pages of both lists, migrations and process lifecycle; the proofs for the
   contract, the handlers, both user stores, the links, the tokens, the pages, the
   replicas and the limiter.
2. A model of the browser client's late answers, if its state grows beyond one
   token and the lists on the screen.
