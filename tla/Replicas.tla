------------------------------ MODULE Replicas ------------------------------
(***************************************************************************)
(* The life of the processes that serve one PostgreSQL database: main.go   *)
(* opens the store, which migrates the schema under an advisory lock and   *)
(* bootstraps the administrator, serves HTTP until a signal, drains it for *)
(* five seconds and closes the pool.                                       *)
(*                                                                         *)
(* Several replicas start, stop, crash and are restarted with any release  *)
(* (a rolling deployment, a rollback) while others migrate or serve.  A    *)
(* release embeds its migration files; the files of a release are numbered *)
(* here in the order of their names, which are their versions.  Each       *)
(* migration is one transaction: lock, look the version up in the ledger,  *)
(* apply or compare, commit.  The lock is held to the end of it.           *)
(***************************************************************************)
EXTENDS Naturals, Sequences

CONSTANTS
    Replicas,       \* processes that run at the same time
    Releases,
    Contents,       \* what a migration file can say; its SHA-256 tells it
    Files,          \* release -> its migrations, in order
    LegacyContent,  \* what a release from before the checksums applied first
    Absent,         \* no row of that version in the ledger
    NoChecksum,     \* a row from before the checksums
    Nobody,         \* the lock is free
    DeadSession,    \* the lock is held by a session whose client is gone
    MaxInflight,    \* bound on the requests a replica serves at a time
    MaxFailures     \* bound on crashes, timeouts and lost connections

Versions == UNION {DOMAIN Files[release] : release \in Releases}

ASSUME ReplicasAssumption ==
    /\ Files \in [Releases -> Seq(Contents)]
    /\ LegacyContent \in Contents
    /\ Absent \notin Contents /\ NoChecksum \notin Contents /\ Absent # NoChecksum
    /\ Nobody \notin Replicas /\ DeadSession \notin Replicas /\ Nobody # DeadSession
    /\ MaxInflight \in Nat /\ MaxFailures \in Nat

VARIABLES
    hasLedger,  \* the table schema_migrations exists
    ledger,     \* its rows: version -> checksum
    applied,    \* what was really committed to the schema: version -> files
    lock,       \* pg_advisory_xact_lock(7348200): who holds it
    pc,         \* replica -> its phase
    release,    \* replica -> the release it runs
    file,       \* replica -> the migration at hand
    seen,       \* replica -> the checksum its transaction read
    inflight,   \* replica -> requests accepted and not answered
    conns,      \* replica -> connections taken from the pool
    cut,        \* history: replica -> a request of this run met the end of it
    outcome,    \* history: replica -> how this run ended, or will
    failures    \* the failures so far

db == <<hasLedger, ledger, applied>>
http == <<inflight, cut>>
vars == <<db, lock, pc, release, file, seen, http, conns, outcome, failures>>

Starting == {"ledger", "creating", "lock", "check", "apply", "commit", "bootstrap"}
InTransaction == {"check", "apply", "commit"}
Outcomes == {"running", "clean", "forced", "failure", "mismatch", "raced", "conflict"}

Legacy(version) == applied[version] = <<LegacyContent>> /\ version = 1

-----------------------------------------------------------------------------
(* A new database, or one of a release that kept no checksums. *)
Init ==
    /\ \/ /\ hasLedger = FALSE
          /\ ledger = [version \in Versions |-> Absent]
          /\ applied = [version \in Versions |-> <<>>]
       \/ /\ hasLedger = TRUE
          /\ ledger = [version \in Versions |-> IF version = 1 THEN NoChecksum ELSE Absent]
          /\ applied = [version \in Versions |->
                          IF version = 1 THEN <<LegacyContent>> ELSE <<>>]
    /\ lock = Nobody
    /\ pc = [r \in Replicas |-> "down"]
    /\ release \in [Replicas -> Releases]
    /\ file = [r \in Replicas |-> 1]
    /\ seen = [r \in Replicas |-> Absent]
    /\ inflight = [r \in Replicas |-> 0]
    /\ conns = [r \in Replicas |-> 0]
    /\ cut = [r \in Replicas |-> FALSE]
    /\ outcome = [r \in Replicas |-> "running"]
    /\ failures = 0

At(r, phase) == pc[r] = phase
Goto(r, phase) == pc' = [pc EXCEPT ![r] = phase]

(* The end of a transaction returns its connection and releases the lock. *)
EndTransaction(r) ==
    /\ conns' = [conns EXCEPT ![r] = 0]
    /\ lock' = IF lock = r THEN Nobody ELSE lock

(* An error on the way ends in pool.Close() and log.Fatalf. *)
Refuse(r, why) ==
    /\ Goto(r, "close")
    /\ outcome' = [outcome EXCEPT ![r] = why]

-----------------------------------------------------------------------------
(* main(): a replica starts, first or again, with any release. *)
Start(r, new) ==
    /\ At(r, "down")
    /\ Goto(r, "ledger")
    /\ release' = [release EXCEPT ![r] = new]
    /\ file' = [file EXCEPT ![r] = 1]
    /\ seen' = [seen EXCEPT ![r] = Absent]
    /\ cut' = [cut EXCEPT ![r] = FALSE]
    /\ outcome' = [outcome EXCEPT ![r] = "running"]
    /\ UNCHANGED <<db, lock, inflight, conns, failures>>

(* CREATE TABLE IF NOT EXISTS looks the name up, and creates the table in the
   catalog later: the second of two replicas that found nothing is refused by
   the catalog's unique index. *)
FindLedger(r) ==
    /\ At(r, "ledger")
    /\ Goto(r, IF hasLedger THEN "lock" ELSE "creating")
    /\ UNCHANGED <<db, lock, release, file, seen, http, conns, outcome, failures>>

CreateLedger(r) ==
    /\ At(r, "creating")
    /\ IF hasLedger THEN Refuse(r, "raced") ELSE Goto(r, "lock") /\ UNCHANGED outcome
    /\ hasLedger' = TRUE
    /\ UNCHANGED <<ledger, applied, lock, release, file, seen, http, conns, failures>>

(* Mutant: the transaction goes on without the lock. *)
LockNothing(r) ==
    /\ At(r, "lock") /\ file[r] <= Len(Files[release[r]])
    /\ Goto(r, "check")
    /\ conns' = [conns EXCEPT ![r] = 1]
    /\ UNCHANGED <<db, lock, release, file, seen, http, outcome, failures>>

(* BeginTx and SELECT pg_advisory_xact_lock, which waits. *)
LockMigrations(r) ==
    /\ At(r, "lock") /\ file[r] <= Len(Files[release[r]])
    /\ lock = Nobody
    /\ lock' = r
    /\ Goto(r, "check")
    /\ conns' = [conns EXCEPT ![r] = 1]
    /\ UNCHANGED <<db, release, file, seen, http, outcome, failures>>

Checksum(r) == Files[release[r]][file[r]]

(* Mutants: a drift is refused without a Rollback; it is accepted. *)
MismatchKeepsTransaction(r) ==
    /\ Refuse(r, "mismatch")
    /\ UNCHANGED <<conns, lock>>
MismatchAccepted(r) ==
    /\ Goto(r, "commit")
    /\ UNCHANGED <<conns, lock, outcome>>

(* The version was applied from another file: Rollback and an error. *)
Mismatch(r) ==
    /\ Refuse(r, "mismatch")
    /\ EndTransaction(r)

(* SELECT checksum: a version without a row is applied, a row without a
   checksum is completed, a row with another checksum is refused. *)
CheckMigration(r) ==
    /\ At(r, "check")
    /\ LET row == ledger[file[r]] IN
          /\ seen' = [seen EXCEPT ![r] = row]
          /\ \/ row = Absent /\ Goto(r, "apply") /\ UNCHANGED <<conns, lock, outcome>>
             \/ row \in {NoChecksum, Checksum(r)} /\ Goto(r, "commit")
                                                  /\ UNCHANGED <<conns, lock, outcome>>
             \/ row \notin {Absent, NoChecksum, Checksum(r)} /\ Mismatch(r)
    /\ UNCHANGED <<db, release, file, http, failures>>

(* Mutant: the file is executed on the pool, outside the transaction. *)
ApplyOnPool(r) ==
    /\ At(r, "apply")
    /\ Goto(r, "commit")
    /\ applied' = [applied EXCEPT ![file[r]] = Append(@, Checksum(r))]
    /\ UNCHANGED <<hasLedger, ledger, lock, release, file, seen, http, conns, outcome,
                   failures>>

(* The statements of the file and the INSERT into the ledger, in the
   transaction: nothing of them is visible before the commit. *)
ApplyMigration(r) ==
    /\ At(r, "apply")
    /\ Goto(r, "commit")
    /\ UNCHANGED <<db, lock, release, file, seen, http, conns, outcome, failures>>

(* The primary key of the ledger: somebody else applied the version since. *)
Conflicts(r) == seen[r] = Absent /\ ledger[file[r]] # Absent

CommitEffect(r) ==
    /\ ledger' = [ledger EXCEPT ![file[r]] = Checksum(r)]
    /\ applied' = IF seen[r] = Absent
                  THEN [applied EXCEPT ![file[r]] = Append(@, Checksum(r))]
                  ELSE applied
    /\ UNCHANGED hasLedger

CommitMigration(r) ==
    /\ At(r, "commit")
    /\ EndTransaction(r)
    /\ IF Conflicts(r)
       THEN Refuse(r, "conflict") /\ UNCHANGED <<db, file>>
       ELSE /\ CommitEffect(r)
            /\ Goto(r, "lock")
            /\ file' = [file EXCEPT ![r] = @ + 1]
            /\ UNCHANGED outcome
    /\ UNCHANGED <<release, seen, http, failures>>

EndMigrations(r) ==
    /\ At(r, "lock") /\ file[r] > Len(Files[release[r]])
    /\ Goto(r, "bootstrap")
    /\ UNCHANGED <<db, lock, release, file, seen, http, conns, outcome, failures>>

(* INSERT ... ON CONFLICT DO NOTHING (see UserStoreSpec), then the server. *)
BootstrapAdmin(r) ==
    /\ At(r, "bootstrap")
    /\ Goto(r, "serve")
    /\ UNCHANGED <<db, lock, release, file, seen, http, conns, outcome, failures>>

-----------------------------------------------------------------------------
(* Requests, each of several statements with a connection of the pool. *)
Accept(r) ==
    /\ At(r, "serve")
    /\ inflight[r] < MaxInflight
    /\ inflight' = [inflight EXCEPT ![r] = @ + 1]
    /\ UNCHANGED <<db, lock, pc, release, file, seen, cut, conns, outcome, failures>>

(* pool.Acquire; a closed pool refuses, and the request fails. *)
Acquire(r) ==
    /\ pc[r] \in {"serve", "drain", "close"}
    /\ conns[r] < inflight[r]
    /\ IF At(r, "close")
       THEN /\ cut' = [cut EXCEPT ![r] = TRUE]
            /\ inflight' = [inflight EXCEPT ![r] = @ - 1]
            /\ UNCHANGED conns
       ELSE /\ conns' = [conns EXCEPT ![r] = @ + 1]
            /\ UNCHANGED http
    /\ UNCHANGED <<db, lock, pc, release, file, seen, outcome, failures>>

(* The statement ends, after databaseOperationTimeout at the latest. *)
Release(r) ==
    /\ pc[r] \in {"serve", "drain", "close"}
    /\ inflight[r] > 0 /\ conns[r] > 0
    /\ conns' = [conns EXCEPT ![r] = @ - 1]
    /\ UNCHANGED <<db, lock, pc, release, file, seen, http, outcome, failures>>

Answer(r) ==
    /\ conns[r] < inflight[r]
    /\ inflight' = [inflight EXCEPT ![r] = @ - 1]
    /\ UNCHANGED <<db, lock, pc, release, file, seen, cut, conns, outcome, failures>>

-----------------------------------------------------------------------------
(* SIGTERM: srv.Shutdown accepts nothing more and waits. *)
Signal(r) ==
    /\ At(r, "serve")
    /\ Goto(r, "drain")
    /\ UNCHANGED <<db, lock, release, file, seen, http, conns, outcome, failures>>

(* Mutant: the server is closed under its requests. *)
ShutdownAtOnce(r) ==
    /\ At(r, "drain")
    /\ Goto(r, "close")
    /\ outcome' = [outcome EXCEPT ![r] = "clean"]
    /\ UNCHANGED <<db, lock, release, file, seen, http, conns, failures>>

Shutdown(r) ==
    /\ At(r, "drain")
    /\ inflight[r] = 0
    /\ Goto(r, "close")
    /\ outcome' = [outcome EXCEPT ![r] = "clean"]
    /\ UNCHANGED <<db, lock, release, file, seen, http, conns, failures>>

(* Five seconds are over: closeStorage, then log.Fatalf. *)
ShutdownTimeout(r) ==
    /\ At(r, "drain")
    /\ inflight[r] > 0
    /\ Refuse(r, "forced")
    /\ UNCHANGED <<db, lock, release, file, seen, http, conns, failures>>

(* pool.Close returns when every connection was returned; then the process
   exits, whatever is still in flight. *)
CloseStorage(r) ==
    /\ At(r, "close")
    /\ conns[r] = 0
    /\ Goto(r, "down")
    /\ cut' = [cut EXCEPT ![r] = @ \/ inflight[r] > 0]
    /\ inflight' = [inflight EXCEPT ![r] = 0]
    /\ UNCHANGED <<db, lock, release, file, seen, conns, outcome, failures>>

-----------------------------------------------------------------------------
(* A session whose client is gone is noticed at once, or some time later. *)
LoseSession(r) ==
    /\ conns' = [conns EXCEPT ![r] = 0]
    /\ lock' \in (IF lock = r THEN {Nobody, DeadSession} ELSE {lock})

Fault ==
    /\ failures < MaxFailures
    /\ failures' = failures + 1

(* The ten seconds of the startup are over, a connection or a statement fails;
   a commit whose acknowledgement is lost may have taken effect. *)
FailStartup(r) ==
    /\ Fault
    /\ pc[r] \in Starting
    /\ \/ LoseSession(r) /\ UNCHANGED db
       \/ At(r, "commit") /\ ~Conflicts(r) /\ CommitEffect(r) /\ EndTransaction(r)
    /\ Refuse(r, "failure")
    /\ UNCHANGED <<release, file, seen, http>>

(* ListenAndServe fails: closeStorage, then log.Fatalf. *)
FailServer(r) ==
    /\ Fault
    /\ At(r, "serve")
    /\ Refuse(r, "failure")
    /\ UNCHANGED <<db, lock, release, file, seen, http, conns>>

(* The process is killed. *)
Crash(r) ==
    /\ Fault
    /\ ~At(r, "down")
    /\ LoseSession(r)
    /\ Goto(r, "down")
    /\ outcome' = [outcome EXCEPT ![r] = "failure"]
    /\ cut' = [cut EXCEPT ![r] = @ \/ inflight[r] > 0]
    /\ inflight' = [inflight EXCEPT ![r] = 0]
    /\ UNCHANGED <<db, release, file, seen>>

(* PostgreSQL ends the transaction of a client that is gone. *)
EndDeadSession ==
    /\ lock = DeadSession
    /\ lock' = Nobody
    /\ UNCHANGED <<db, pc, release, file, seen, http, conns, outcome, failures>>

-----------------------------------------------------------------------------
StartupStep(r) ==
    \/ FindLedger(r) \/ CreateLedger(r)
    \/ CheckMigration(r) \/ ApplyMigration(r) \/ CommitMigration(r)
    \/ EndMigrations(r) \/ BootstrapAdmin(r)

ShutdownStep(r) == Shutdown(r) \/ ShutdownTimeout(r) \/ CloseStorage(r)

Next ==
    \/ EndDeadSession
    \/ \E r \in Replicas :
          \/ \E new \in Releases : Start(r, new)
          \/ StartupStep(r) \/ LockMigrations(r)
          \/ Accept(r) \/ Acquire(r) \/ Release(r) \/ Answer(r)
          \/ Signal(r) \/ ShutdownStep(r)
          \/ FailStartup(r) \/ FailServer(r) \/ Crash(r)

Spec == Init /\ [][Next]_vars

(* A process that runs takes its steps; the lock is granted in the order of
   asking, so nobody is passed over for ever; statements and dead sessions
   end.  Nobody has to start a replica, to send it requests or to stop it. *)
FairSpec ==
    /\ Spec
    /\ WF_vars(EndDeadSession)
    /\ \A r \in Replicas :
          /\ WF_vars(StartupStep(r)) /\ SF_vars(LockMigrations(r))
          /\ WF_vars(Release(r)) /\ WF_vars(ShutdownStep(r))

-----------------------------------------------------------------------------
(* Every variable has its type, and the lock belongs to a transaction. *)
TypeOK ==
    /\ hasLedger \in BOOLEAN
    /\ ledger \in [Versions -> Contents \cup {Absent, NoChecksum}]
    /\ applied \in [Versions -> Seq(Contents)]
    /\ lock \in Replicas \cup {Nobody, DeadSession}
    /\ pc \in [Replicas -> Starting \cup {"down", "serve", "drain", "close"}]
    /\ release \in [Replicas -> Releases]
    /\ file \in [Replicas -> Nat \ {0}]
    /\ seen \in [Replicas -> Contents \cup {Absent, NoChecksum}]
    /\ inflight \in [Replicas -> 0..MaxInflight]
    /\ conns \in [Replicas -> Nat]
    /\ cut \in [Replicas -> BOOLEAN] /\ outcome \in [Replicas -> Outcomes]
    /\ failures \in 0..MaxFailures
    /\ \A r \in Replicas : lock = r <=> pc[r] \in InTransaction

(* Whatever crashes, retries and replicas there were, a migration took effect
   at most once, exactly when the ledger has its version, and from the file
   whose checksum the ledger has, except for one applied before there were
   checksums. *)
LedgerTellsTheTruth ==
    \A version \in Versions :
        /\ ledger[version] = Absent <=> applied[version] = <<>>
        /\ \/ applied[version] \in {<<>>, <<ledger[version]>>}
           \/ Legacy(version)

(* A replica that serves requests does so on a schema with all of its
   migrations, each from the very file it carries, by the ledger. *)
ServesOwnSchema ==
    \A r \in Replicas : pc[r] \in {"bootstrap", "serve", "drain"} =>
        \A version \in DOMAIN Files[release[r]] :
            ledger[version] = Files[release[r]][version]

(* A replica that met no failure and did not race for the creation of the
   ledger itself is refused only when one of its files was edited after it was
   applied: replicas that migrate together do not get in each other's way. *)
RefusedOnlyForDrift ==
    \A r \in Replicas :
        /\ outcome[r] # "conflict"
        /\ outcome[r] = "mismatch" =>
              \E version \in DOMAIN Files[release[r]] :
                  ledger[version] \notin {Absent, NoChecksum, Files[release[r]][version]}

(* "Server exited cleanly" is true: no accepted request met a closed pool or
   the end of the process. *)
CleanExitCutsNobody == \A r \in Replicas : outcome[r] = "clean" => ~cut[r]

(* No startup waits for ever for the lock of another replica, dead or alive,
   and no shutdown for its requests or its pool. *)
NeitherStartNorStopHangs ==
    \A r \in Replicas :
        /\ pc[r] \in Starting ~> pc[r] \in {"serve", "down"}
        /\ pc[r] \in {"drain", "close"} ~> pc[r] = "down"
=============================================================================
