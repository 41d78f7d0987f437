------------------------------ MODULE PgUsers ------------------------------
(***************************************************************************)
(* The users table behind storage.PostgresStore (storage/postgres.go).     *)
(*                                                                         *)
(* UpdateUserRole and DeleteUser are transactions of several round trips:  *)
(* begin, take the advisory lock 7348201, SELECT ... FOR UPDATE, COUNT the *)
(* administrators, write, commit.  Each round trip is a step, and between  *)
(* two of them other calls run, the call times out (databaseContext) or    *)
(* the process dies.  The other methods are single statements, which       *)
(* PostgreSQL commits by themselves: one step each.                        *)
(*                                                                         *)
(* What the server does is modelled from how the code uses it, under READ  *)
(* COMMITTED: a statement sees the committed rows when it starts, a write  *)
(* waits for the row locks of others, commit publishes the write and       *)
(* releases every lock of the transaction, and so does any failure,        *)
(* without the write.                                                      *)
(***************************************************************************)
EXTENDS Naturals, FiniteSets

CONSTANTS UserIds, Usernames, Passwords, DefaultAdmin, Unused, Deleted,
          Calls,        \* store calls that can be in flight, of any replica
          None,         \* nobody holds the lock
          NoRow,        \* no row with that id
          MaxVersion    \* bound on the token versions explored

VARIABLES
    rows,           \* committed rows of the table users, by id
    generated,      \* history: ids that have been inserted
    call,           \* call -> position in the transaction and its locals
    advisoryLock,   \* holder of pg_advisory_xact_lock(7348201)
    rowLock,        \* id -> transaction that holds the row
    up              \* the service is running

vars == <<rows, generated, call, advisoryLock, rowLock, up>>

Roles == {"admin", "user"}
Row == [username : Usernames, password : Passwords,
        role : Roles, tokenVersion : Nat]

ASSUME PgAssumption ==
    /\ None \notin Calls
    /\ NoRow \notin Row /\ Unused \notin Row /\ Deleted \notin Row
    /\ Unused # Deleted
    /\ Deleted \notin Roles
    /\ MaxVersion \in Nat /\ DefaultAdmin \in Usernames

(* A transaction: what it does to which username, and the id and the role it
   scanned from the locked row (meaningful from "selected" on). *)
Idle == [pc |-> "idle"]
Op == [username : Usernames, to : Roles \cup {Deleted}]
TxState ==
    [pc : {"begun", "locked"}, op : Op]
        \cup [pc : {"selected", "counted", "written"}, op : Op,
              id : UserIds, role : Roles]

Present == {i \in UserIds : rows[i] # NoRow}
Named(name) == {i \in Present : rows[i].username = name}
Admins == {i \in Present : rows[i].role = "admin"}

(* The guard of both transactions: an administrator stops being one. *)
RemovesAdmin(state) == state.role = "admin" /\ state.op.to # "admin"

-----------------------------------------------------------------------------
NewRow(name, password, role) ==
    [username |-> name, password |-> password, role |-> role, tokenVersion |-> 0]

(* An empty database, migrated and bootstrapped. *)
Init ==
    /\ \E i \in UserIds, password \in Passwords :
          /\ generated = {i}
          /\ rows = [j \in UserIds |->
                       IF j = i THEN NewRow(DefaultAdmin, password, "admin") ELSE NoRow]
    /\ call = [c \in Calls |-> Idle]
    /\ advisoryLock = None
    /\ rowLock = [i \in UserIds |-> None]
    /\ up = TRUE

locks == <<advisoryLock, rowLock>>
table == <<rows, generated>>

(* The username is UNIQUE: a row being deleted makes the insertion wait for
   that transaction, any other row of that name makes it fail. *)
Insert(name, password, role) ==
    \E i \in UserIds \ generated :
        /\ Named(name) = {}
        /\ rows' = [rows EXCEPT ![i] = NewRow(name, password, role)]
        /\ generated' = generated \cup {i}

CreateUser(name, password) ==
    /\ up
    /\ Insert(name, password, "user")
    /\ UNCHANGED <<call, locks, up>>

(* UPDATE ... WHERE id = $2 waits while another transaction has the row. *)
Writable(i) == i \in Present /\ rowLock[i] = None /\ rows[i].tokenVersion < MaxVersion

UpdatePassword(i, password) ==
    /\ up /\ Writable(i)
    /\ rows' = [rows EXCEPT ![i].password = password, ![i].tokenVersion = @ + 1]
    /\ UNCHANGED <<generated, call, locks, up>>

(* Mutant: the version goes down. *)
RevokeTokensDown(i) ==
    /\ up /\ Writable(i)
    /\ rows' = [rows EXCEPT ![i].tokenVersion = @ - 1]
    /\ UNCHANGED <<generated, call, locks, up>>

RevokeTokens(i) ==
    /\ up /\ Writable(i)
    /\ rows' = [rows EXCEPT ![i].tokenVersion = @ + 1]
    /\ UNCHANGED <<generated, call, locks, up>>

-----------------------------------------------------------------------------
Goto(c, state) == call' = [call EXCEPT ![c] = state]

BeginTx(c, name, to) ==
    /\ up
    /\ call[c] = Idle
    /\ Goto(c, [pc |-> "begun", op |-> [username |-> name, to |-> to]])
    /\ UNCHANGED <<table, locks, up>>

(* Mutant: the transactions do not exclude each other. *)
LockNothing(c) ==
    /\ call[c].pc = "begun"
    /\ Goto(c, [call[c] EXCEPT !.pc = "locked"])
    /\ UNCHANGED <<table, locks, up>>

LockAdminInvariant(c) ==
    /\ call[c].pc = "begun"
    /\ advisoryLock = None
    /\ advisoryLock' = c
    /\ Goto(c, [call[c] EXCEPT !.pc = "locked"])
    /\ UNCHANGED <<table, rowLock, up>>

(* The end of a transaction, committed or not, releases what it holds. *)
ReleaseLocks(c) ==
    /\ advisoryLock' = IF advisoryLock = c THEN None ELSE advisoryLock
    /\ rowLock' = [i \in UserIds |-> IF rowLock[i] = c THEN None ELSE rowLock[i]]

Rollback(c) ==
    /\ ReleaseLocks(c)
    /\ Goto(c, Idle)
    /\ UNCHANGED <<table, up>>

SelectForUpdate(c) ==
    /\ call[c].pc = "locked"
    /\ \E i \in Named(call[c].op.username) :
          /\ rowLock[i] = None
          /\ rowLock' = [rowLock EXCEPT ![i] = c]
          /\ Goto(c, [pc |-> "selected", op |-> call[c].op, id |-> i,
                      role |-> rows[i].role])
    /\ UNCHANGED <<table, advisoryLock, up>>

(* Mutant: the early return without the deferred rollback. *)
UserNotFoundKeepsLocks(c) ==
    /\ call[c].pc = "locked"
    /\ Named(call[c].op.username) = {}
    /\ Goto(c, Idle)
    /\ UNCHANGED <<table, locks, up>>

UserNotFound(c) ==
    /\ call[c].pc = "locked"
    /\ Named(call[c].op.username) = {}
    /\ Rollback(c)

(* Mutant: off by one in the last-administrator guard. *)
CountAdminsOffByOne(c) ==
    /\ call[c].pc = "selected"
    /\ IF RemovesAdmin(call[c]) /\ Cardinality(Admins) < 1
       THEN Rollback(c)
       ELSE /\ Goto(c, [call[c] EXCEPT !.pc = "counted"])
            /\ UNCHANGED <<table, locks, up>>

(* The count of the administrators, taken only when this call removes one. *)
CountAdmins(c) ==
    /\ call[c].pc = "selected"
    /\ IF RemovesAdmin(call[c]) /\ Cardinality(Admins) <= 1
       THEN Rollback(c)          \* ErrLastAdmin
       ELSE /\ Goto(c, [call[c] EXCEPT !.pc = "counted"])
            /\ UNCHANGED <<table, locks, up>>

(* The UPDATE or DELETE: visible to others only once committed. *)
Write(c) ==
    /\ call[c].pc = "counted"
    /\ Goto(c, [call[c] EXCEPT !.pc = "written"])
    /\ UNCHANGED <<table, locks, up>>

Apply(state) ==
    IF state.op.to = Deleted
    THEN [rows EXCEPT ![state.id] = NoRow]
    ELSE [rows EXCEPT ![state.id].role = state.op.to]

(* Whether the acknowledgement reaches the handler does not matter here. *)
Commit(c) ==
    /\ call[c].pc = "written"
    /\ rows' = Apply(call[c])
    /\ ReleaseLocks(c)
    /\ Goto(c, Idle)
    /\ UNCHANGED <<generated, up>>

(* The five-second context, a lost connection or a failed statement. *)
Fail(c) ==
    /\ call[c] # Idle
    /\ Rollback(c)

(* Bound: a crash is explored while an id is left for the bootstrap. *)
CanBootstrap == generated # UserIds \/ Named(DefaultAdmin) # {}

(* The process dies, or the server does: open transactions are undone. *)
Crash ==
    /\ up /\ CanBootstrap
    /\ up' = FALSE
    /\ call' = [c \in Calls |-> Idle]
    /\ advisoryLock' = None
    /\ rowLock' = [i \in UserIds |-> None]
    /\ UNCHANGED table

(* Mutant: ON CONFLICT (username) DO UPDATE: every start resets the account. *)
RestartUpserts ==
    /\ up' = TRUE
    /\ \E password \in Passwords :
          \/ Insert(DefaultAdmin, password, "admin")
          \/ /\ Named(DefaultAdmin) # {}
             /\ rows' = [i \in UserIds |->
                           IF i \in Named(DefaultAdmin)
                           THEN NewRow(DefaultAdmin, password, "admin") ELSE rows[i]]
             /\ UNCHANGED generated
    /\ UNCHANGED <<call, locks>>

(* bootstrapAdmin: INSERT ... ON CONFLICT (username) DO NOTHING.  A replica may
   also start, or restart, while the others serve. *)
Restart ==
    /\ up' = TRUE
    /\ \/ \E password \in Passwords : Insert(DefaultAdmin, password, "admin")
       \/ Named(DefaultAdmin) # {} /\ UNCHANGED table
    /\ UNCHANGED <<call, locks>>

TxStep(c) ==
    \/ SelectForUpdate(c)
    \/ UserNotFound(c)
    \/ CountAdmins(c)
    \/ Write(c)
    \/ Commit(c)

Next ==
    \/ \E name \in Usernames, password \in Passwords : CreateUser(name, password)
    \/ \E i \in UserIds, password \in Passwords : UpdatePassword(i, password)
    \/ \E i \in UserIds : RevokeTokens(i)
    \/ \E c \in Calls :
          \/ \E name \in Usernames, to \in Roles \cup {Deleted} : BeginTx(c, name, to)
          \/ LockAdminInvariant(c)
          \/ TxStep(c)
          \/ Fail(c)
    \/ Crash
    \/ Restart

Spec == Init /\ [][Next]_vars

(* Every call is driven to its end by its goroutine; the server grants the
   advisory lock in arrival order, so a waiting call gets it in the end.
   Nothing is assumed of timeouts and failures. *)
Fairness ==
    \A c \in Calls : WF_vars(TxStep(c)) /\ SF_vars(LockAdminInvariant(c))

FairSpec == Spec /\ Fairness

-----------------------------------------------------------------------------
(* Tables, locks and transaction states are well formed. *)
TypeOK ==
    /\ rows \in [UserIds -> Row \cup {NoRow}]
    /\ generated \subseteq UserIds
    /\ call \in [Calls -> {Idle} \cup TxState]
    /\ advisoryLock \in Calls \cup {None}
    /\ rowLock \in [UserIds -> Calls \cup {None}]
    /\ up \in BOOLEAN

(* Concurrent demotions and deletions, crashes included, never commit a
   table without an administrator. *)
AdminExists == Admins # {}

(* What a transaction checked is still so when it commits: the row it
   scanned has kept its username and role, and if it removes an administrator
   another one is there. *)
CheckedStillHolds ==
    \A c \in Calls :
        call[c].pc \in {"selected", "counted", "written"} =>
            LET i == call[c].id IN
            /\ i \in Named(call[c].op.username)
            /\ rows[i].role = call[c].role
            /\ call[c].pc # "selected" /\ RemovesAdmin(call[c]) => Admins \ {i} # {}

(* A transaction that has ended, however it ended, holds no lock. *)
NoLeakedLock ==
    /\ advisoryLock # None => call[advisoryLock] # Idle
    /\ \A i \in UserIds : rowLock[i] # None => call[rowLock[i]] # Idle

(* Every role change and deletion is answered, even if no timeout fires: the
   locks never make two calls wait for each other. *)
CallsReturn == \A c \in Calls : call[c] # Idle ~> call[c] = Idle

AccountOf(i) ==
    IF rows[i] # NoRow THEN rows[i]
    ELSE IF i \in generated THEN Deleted ELSE Unused

Contract == INSTANCE UserStoreSpec
              WITH accounts <- [i \in UserIds |-> AccountOf(i)]

(* Seen through its committed rows, PostgreSQL keeps the promises of the
   interface: a role change or deletion happens at its commit or not at all. *)
ImplementsUserStore == Contract!Spec
=============================================================================
