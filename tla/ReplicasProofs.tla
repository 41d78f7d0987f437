--------------------------- MODULE ReplicasProofs ---------------------------
(***************************************************************************)
(* Proofs about the migrations and the life of the replicas, for any       *)
(* number of replicas, releases, migrations and failures.                  *)
(***************************************************************************)
EXTENDS Replicas, TLAPS

Own(r) == Files[release[r]]

(* A transaction has a migration of its release at hand, and what it read
   of the ledger still holds. *)
ReadsHold(r) ==
    /\ pc[r] \in InTransaction => file[r] \in DOMAIN Own(r)
    /\ pc[r] \in {"apply", "commit"} => ledger[file[r]] = seen[r]
    /\ pc[r] = "apply" => seen[r] = Absent
    /\ pc[r] = "commit" => seen[r] \in {Absent, NoChecksum, Checksum(r)}

Prefix(r) ==
    \A version \in DOMAIN Own(r) : version < file[r] => ledger[version] = Own(r)[version]

(* The migrations before the one at hand are in the ledger as this release
   has them, and a replica leaves the loop when all of them are. *)
Migrated(r) ==
    /\ pc[r] \in Starting \cup {"serve", "drain"} => Prefix(r)
    /\ pc[r] \in {"bootstrap", "serve", "drain"} => file[r] > Len(Own(r))

Drifted(r) ==
    \E version \in DOMAIN Own(r) :
        ledger[version] \notin {Absent, NoChecksum, Own(r)[version]}

Refused(r) == outcome[r] # "conflict" /\ (outcome[r] = "mismatch" => Drifted(r))

(* A replica is cut off from its requests only after it began to close, and a
   clean one has none then. *)
Exits(r) ==
    /\ pc[r] \notin {"close", "down"} => ~cut[r]
    /\ outcome[r] = "clean" => pc[r] \in {"close", "down"} /\ inflight[r] = 0 /\ ~cut[r]

LocalInv(r) == ReadsHold(r) /\ Migrated(r) /\ Refused(r) /\ Exits(r)

ReplicasInv == TypeOK /\ LedgerTellsTheTruth /\ \A r \in Replicas : LocalInv(r)
-----------------------------------------------------------------------------
LEMMA FilesTypes ==
    ASSUME NEW rel \in Releases
    PROVE  /\ Files[rel] \in Seq(Contents) /\ Len(Files[rel]) \in Nat
           /\ DOMAIN Files[rel] = 1..Len(Files[rel])
           /\ \A version \in DOMAIN Files[rel] :
                 version \in Versions /\ version \in Nat \ {0} /\ Files[rel][version] \in Contents
  <1>1. Files[rel] \in Seq(Contents)
    BY ReplicasAssumption
  <1>2. \A version \in DOMAIN Files[rel] : version \in Versions
    BY DEF Versions
  <1> QED BY <1>1, <1>2

(* A transaction commits the file of its release, once: as long as what it
   read holds, the ledger's primary key does not refuse it. *)
LEMMA CommitEffectIs ==
    ASSUME TypeOK, NEW r \in Replicas, ReadsHold(r), At(r, "commit"), CommitEffect(r)
    PROVE  /\ file[r] \in Versions /\ file[r] \in DOMAIN Own(r)
           /\ Checksum(r) = Own(r)[file[r]] /\ Checksum(r) \in Contents
           /\ ledger[file[r]] = seen[r]
           /\ ledger' = [ledger EXCEPT ![file[r]] = Checksum(r)]
           /\ ledger' \in [Versions -> Contents \cup {Absent, NoChecksum}]
           /\ applied' \in [Versions -> Seq(Contents)]
  <1>1. file[r] \in DOMAIN Own(r) /\ ledger[file[r]] = seen[r]
    BY DEF ReadsHold, At, InTransaction
  <1>2. release[r] \in Releases
    BY DEF TypeOK
  <1>3. file[r] \in Versions /\ Own(r)[file[r]] \in Contents
    BY <1>1, <1>2, FilesTypes DEF Own
  <1>4. Checksum(r) = Own(r)[file[r]]
    BY DEF Checksum, Own
  <1>5. ledger' = [ledger EXCEPT ![file[r]] = Checksum(r)]
    BY DEF CommitEffect
  <1>6. ledger' \in [Versions -> Contents \cup {Absent, NoChecksum}]
    BY <1>3, <1>4, <1>5 DEF TypeOK
  <1>7. applied' \in [Versions -> Seq(Contents)]
    <2>1. CASE seen[r] = Absent
      <3>1. applied[file[r]] \in Seq(Contents)
        BY <1>3 DEF TypeOK
      <3>2. Append(applied[file[r]], Checksum(r)) \in Seq(Contents)
        BY <3>1, <1>3, <1>4
      <3> QED BY <2>1, <3>2 DEF CommitEffect, TypeOK
    <2>2. CASE seen[r] # Absent
      BY <2>2 DEF CommitEffect, TypeOK
    <2> QED BY <2>1, <2>2
  <1> QED BY <1>1, <1>3, <1>4, <1>5, <1>6, <1>7

(* Every variable keeps its type, and the lock its owner. *)
LEMMA InitTypes == Init => TypeOK
  <1> SUFFICES ASSUME Init PROVE TypeOK
    OBVIOUS
  <1>1. applied \in [Versions -> Seq(Contents)]
    <2>1. <<>> \in Seq(Contents) /\ <<LegacyContent>> \in Seq(Contents)
      BY ReplicasAssumption
    <2> QED BY <2>1 DEF Init
  <1>2. hasLedger \in BOOLEAN /\ ledger \in [Versions -> Contents \cup {Absent, NoChecksum}]
    BY DEF Init
  <1>3. /\ lock \in Replicas \cup {Nobody, DeadSession}
        /\ \A r \in Replicas : lock = r <=> pc[r] \in InTransaction
    BY ReplicasAssumption DEF Init, InTransaction
  <1>4. failures \in 0..MaxFailures /\ inflight \in [Replicas -> 0..MaxInflight]
    BY ReplicasAssumption DEF Init
  <1> QED BY <1>1, <1>2, <1>3, <1>4 DEF Init, TypeOK, Starting, Outcomes

LEMMA StartupTypes ==
    ASSUME TypeOK, NEW r \in Replicas, ReadsHold(r), StartupStep(r) \/ LockMigrations(r)
    PROVE  TypeOK'
  <1> USE ReplicasAssumption DEF Starting, InTransaction, Outcomes
  <1>1. CASE FindLedger(r)
    BY <1>1 DEF FindLedger, TypeOK, Goto, At, db, http
  <1>2. CASE CreateLedger(r)
    BY <1>2 DEF CreateLedger, Refuse, TypeOK, Goto, At, http
  <1>3. CASE LockMigrations(r)
    BY <1>3 DEF LockMigrations, TypeOK, Goto, At, db, http
  <1>4. CASE CheckMigration(r)
    <2>1. file[r] \in Versions
      BY <1>4, FilesTypes DEF CheckMigration, At, ReadsHold, Own, TypeOK
    <2>2. ledger[file[r]] \in Contents \cup {Absent, NoChecksum}
      BY <2>1 DEF TypeOK
    <2>3. /\ seen' = [seen EXCEPT ![r] = ledger[file[r]]]
          /\ pc[r] = "check" /\ lock = r
          /\ UNCHANGED <<hasLedger, ledger, applied, release, file, inflight, cut, failures>>
      BY <1>4 DEF CheckMigration, At, TypeOK, db, http
    <2>4. seen' \in [Replicas -> Contents \cup {Absent, NoChecksum}]
      BY <2>2, <2>3 DEF TypeOK
    <2>5. CASE Mismatch(r)
      <3>1. pc' = [pc EXCEPT ![r] = "close"] /\ lock' = Nobody
        BY <2>3, <2>5 DEF Mismatch, Refuse, EndTransaction, Goto
      <3>2. \A q \in Replicas : lock' = q <=> pc'[q] \in InTransaction
        BY <2>3, <3>1 DEF TypeOK
      <3>3. /\ outcome' \in [Replicas -> Outcomes] /\ conns' \in [Replicas -> Nat]
            /\ pc' \in [Replicas -> Starting \cup {"down", "serve", "drain", "close"}]
        BY <2>5, <3>1 DEF Mismatch, Refuse, EndTransaction, TypeOK
      <3> QED BY <2>3, <2>4, <3>1, <3>2, <3>3 DEF TypeOK
    <2>6. CASE (Goto(r, "apply") \/ Goto(r, "commit")) /\ UNCHANGED <<conns, lock, outcome>>
      <3>1. \A q \in Replicas : lock' = q <=> pc'[q] \in InTransaction
        BY <2>3, <2>6 DEF TypeOK, Goto
      <3>2. pc' \in [Replicas -> Starting \cup {"down", "serve", "drain", "close"}]
        BY <2>6 DEF Goto, TypeOK
      <3> QED BY <2>3, <2>4, <2>6, <3>1, <3>2 DEF TypeOK
    <2> QED BY <1>4, <2>5, <2>6 DEF CheckMigration
  <1>5. CASE ApplyMigration(r)
    BY <1>5 DEF ApplyMigration, TypeOK, Goto, At, db, http
  <1>6. CASE CommitMigration(r)
    <2>1. CASE Conflicts(r)
      BY <1>6, <2>1 DEF CommitMigration, Refuse, EndTransaction, TypeOK, Goto, At, db, http
    <2>2. CASE ~Conflicts(r)
      <3>1. CommitEffect(r) /\ Goto(r, "lock") /\ UNCHANGED outcome /\ At(r, "commit")
            /\ file' = [file EXCEPT ![r] = @ + 1]
        BY <1>6, <2>2 DEF CommitMigration
      <3>2. /\ ledger' \in [Versions -> Contents \cup {Absent, NoChecksum}]
            /\ applied' \in [Versions -> Seq(Contents)]
        BY <3>1, CommitEffectIs
      <3>3. hasLedger' \in BOOLEAN
        BY <3>1 DEF CommitEffect, TypeOK
      <3> QED BY <1>6, <3>1, <3>2, <3>3
              DEF CommitMigration, EndTransaction, TypeOK, Goto, At, http
    <2> QED BY <2>1, <2>2
  <1>7. CASE EndMigrations(r)
    BY <1>7 DEF EndMigrations, TypeOK, Goto, At, db, http
  <1>8. CASE BootstrapAdmin(r)
    BY <1>8 DEF BootstrapAdmin, TypeOK, Goto, At, db, http
  <1> QED BY <1>1, <1>2, <1>3, <1>4, <1>5, <1>6, <1>7, <1>8 DEF StartupStep

LEMMA ServingTypes ==
    ASSUME TypeOK, NEW r \in Replicas,
           \/ \E new \in Releases : Start(r, new)
           \/ Accept(r) \/ Acquire(r) \/ Release(r) \/ Answer(r)
           \/ Signal(r) \/ ShutdownStep(r)
    PROVE  TypeOK'
  <1> USE ReplicasAssumption DEF Starting, InTransaction, Outcomes
  <1>1. ASSUME NEW new \in Releases, Start(r, new) PROVE TypeOK'
    BY <1>1 DEF Start, TypeOK, Goto, At, db
  <1>2. CASE Accept(r)
    BY <1>2 DEF Accept, TypeOK, At, db
  <1>3. CASE Acquire(r)
    <2>1. conns[r] \in Nat /\ inflight[r] \in 0..MaxInflight /\ conns[r] < inflight[r]
      BY <1>3 DEF Acquire, TypeOK
    <2>2. inflight[r] - 1 \in 0..MaxInflight /\ conns[r] + 1 \in Nat
      BY <2>1
    <2>3. /\ conns' \in [Replicas -> Nat] /\ inflight' \in [Replicas -> 0..MaxInflight]
          /\ cut' \in [Replicas -> BOOLEAN]
      <3>1. CASE At(r, "close")
        BY <1>3, <2>2, <3>1 DEF Acquire, TypeOK
      <3>2. CASE ~At(r, "close")
        BY <1>3, <2>2, <3>2 DEF Acquire, TypeOK, http
      <3> QED BY <3>1, <3>2
    <2> QED BY <1>3, <2>3 DEF Acquire, TypeOK, db
  <1>4. CASE Release(r)
    BY <1>4 DEF Release, TypeOK, db, http
  <1>5. CASE Answer(r)
    BY <1>5 DEF Answer, TypeOK, db
  <1>6. CASE Signal(r)
    BY <1>6 DEF Signal, TypeOK, Goto, At, db, http
  <1>7. CASE Shutdown(r)
    BY <1>7 DEF Shutdown, TypeOK, Goto, At, db, http
  <1>8. CASE ShutdownTimeout(r)
    BY <1>8 DEF ShutdownTimeout, Refuse, TypeOK, Goto, At, db, http
  <1>9. CASE CloseStorage(r)
    BY <1>9 DEF CloseStorage, TypeOK, Goto, At, db
  <1> QED BY <1>1, <1>2, <1>3, <1>4, <1>5, <1>6, <1>7, <1>8, <1>9 DEF ShutdownStep

LEMMA FaultTypes ==
    ASSUME TypeOK, NEW r \in Replicas, ReadsHold(r),
           FailStartup(r) \/ FailServer(r) \/ Crash(r)
    PROVE  TypeOK'
  <1> USE ReplicasAssumption DEF Starting, InTransaction, Outcomes
  <1>1. failures' \in 0..MaxFailures
    BY DEF FailStartup, FailServer, Crash, Fault, TypeOK
  <1>2. CASE FailStartup(r) /\ LoseSession(r) /\ UNCHANGED db
    BY <1>1, <1>2 DEF FailStartup, LoseSession, Refuse, TypeOK, Goto, db, http
  <1>3. CASE FailStartup(r) /\ At(r, "commit") /\ CommitEffect(r) /\ EndTransaction(r)
    <2>1. /\ ledger' \in [Versions -> Contents \cup {Absent, NoChecksum}]
          /\ applied' \in [Versions -> Seq(Contents)]
      BY <1>3, CommitEffectIs
    <2>2. hasLedger' \in BOOLEAN
      BY <1>3 DEF CommitEffect, TypeOK
    <2> QED BY <1>1, <1>3, <2>1, <2>2
            DEF FailStartup, EndTransaction, Refuse, TypeOK, Goto, At, http
  <1>4. CASE FailServer(r)
    BY <1>1, <1>4 DEF FailServer, Refuse, TypeOK, Goto, At, db, http
  <1>5. CASE Crash(r)
    BY <1>1, <1>5 DEF Crash, LoseSession, TypeOK, Goto, At, db
  <1> QED BY <1>2, <1>3, <1>4, <1>5 DEF FailStartup

LEMMA StepTypes == TypeOK /\ (\A r \in Replicas : ReadsHold(r)) /\ [Next]_vars => TypeOK'
  <1> SUFFICES ASSUME TypeOK, \A r \in Replicas : ReadsHold(r), [Next]_vars PROVE TypeOK'
    OBVIOUS
  <1>1. CASE EndDeadSession
    BY <1>1, ReplicasAssumption DEF EndDeadSession, TypeOK, db, http
  <1>2. CASE UNCHANGED vars
    BY <1>2 DEF vars, db, http, TypeOK
  <1> QED BY <1>1, <1>2, StartupTypes, ServingTypes, FaultTypes DEF Next
-----------------------------------------------------------------------------
(* The steps of one replica. *)
StepOf(r) ==
    \/ \E new \in Releases : Start(r, new)
    \/ StartupStep(r) \/ LockMigrations(r)
    \/ Accept(r) \/ Acquire(r) \/ Release(r) \/ Answer(r)
    \/ Signal(r) \/ ShutdownStep(r)
    \/ FailStartup(r) \/ FailServer(r) \/ Crash(r)

LEMMA NextIsAStepOf == Next <=> EndDeadSession \/ \E r \in Replicas : StepOf(r)
  BY DEF Next, StepOf

Kept(q) ==
    /\ pc'[q] = pc[q] /\ release'[q] = release[q] /\ file'[q] = file[q]
    /\ seen'[q] = seen[q] /\ inflight'[q] = inflight[q]
    /\ cut'[q] = cut[q] /\ outcome'[q] = outcome[q]

LEMMA OthersAreKept ==
    ASSUME TypeOK, NEW r \in Replicas, StepOf(r), NEW q \in Replicas \ {r}
    PROVE  Kept(q)
  <1> USE DEF TypeOK, Kept, Goto, http
  <1>1. ASSUME NEW new \in Releases, Start(r, new) PROVE Kept(q)
    BY <1>1 DEF Start
  <1>2. CASE FindLedger(r) \/ CreateLedger(r) \/ LockMigrations(r)
    BY <1>2 DEF FindLedger, CreateLedger, LockMigrations, Refuse
  <1>3. CASE CheckMigration(r)
    BY <1>3 DEF CheckMigration, Mismatch, Refuse
  <1>4. CASE ApplyMigration(r) \/ CommitMigration(r)
    BY <1>4 DEF ApplyMigration, CommitMigration, Refuse
  <1>5. CASE EndMigrations(r) \/ BootstrapAdmin(r)
    BY <1>5 DEF EndMigrations, BootstrapAdmin
  <1>6. CASE Accept(r) \/ Acquire(r) \/ Release(r) \/ Answer(r)
    BY <1>6 DEF Accept, Acquire, Release, Answer
  <1>7. CASE Signal(r) \/ ShutdownStep(r)
    BY <1>7 DEF Signal, ShutdownStep, Shutdown, ShutdownTimeout, CloseStorage, Refuse
  <1>8. CASE FailStartup(r) \/ FailServer(r) \/ Crash(r)
    BY <1>8 DEF FailStartup, FailServer, Crash, Refuse
  <1> QED BY <1>1, <1>2, <1>3, <1>4, <1>5, <1>6, <1>7, <1>8 DEF StepOf, StartupStep

(* Only a commit, with the lock held, changes the ledger and the schema. *)
LEMMA OnlyCommitsWrite ==
    ASSUME NEW r \in Replicas, StepOf(r)
    PROVE  UNCHANGED <<ledger, applied>> \/ (At(r, "commit") /\ CommitEffect(r))
  <1>1. CASE StartupStep(r) \/ LockMigrations(r)
    BY <1>1 DEF StartupStep, FindLedger, CreateLedger, LockMigrations, CheckMigration,
                ApplyMigration, CommitMigration, EndMigrations, BootstrapAdmin, db
  <1>2. CASE Accept(r) \/ Acquire(r) \/ Release(r) \/ Answer(r)
    BY <1>2 DEF Accept, Acquire, Release, Answer, db
  <1>3. CASE Signal(r) \/ ShutdownStep(r)
    BY <1>3 DEF Signal, ShutdownStep, Shutdown, ShutdownTimeout, CloseStorage, db
  <1>4. CASE FailStartup(r) \/ FailServer(r) \/ Crash(r)
    BY <1>4 DEF FailStartup, FailServer, Crash, db
  <1>5. ASSUME NEW new \in Releases, Start(r, new) PROVE UNCHANGED <<ledger, applied>>
    BY <1>5 DEF Start, db
  <1> QED BY <1>1, <1>2, <1>3, <1>4, <1>5 DEF StepOf

(* A checksum in the ledger is there for good. *)
LedgerGrows == \A version \in Versions : ledger[version] \in Contents => ledger'[version] = ledger[version]

LEMMA StepGrowsLedger ==
    ASSUME TypeOK, NEW r \in Replicas, ReadsHold(r), StepOf(r)
    PROVE  LedgerGrows
  <1>1. CASE UNCHANGED <<ledger, applied>>
    BY <1>1 DEF LedgerGrows
  <1>2. CASE At(r, "commit") /\ CommitEffect(r)
    <2>1. /\ ledger[file[r]] = seen[r] /\ ledger' = [ledger EXCEPT ![file[r]] = Checksum(r)]
      BY <1>2, CommitEffectIs
    <2>2. seen[r] \in {Absent, NoChecksum, Checksum(r)}
      BY <1>2 DEF ReadsHold, At
    <2> QED BY <2>1, <2>2, ReplicasAssumption DEF LedgerGrows, TypeOK
  <1> QED BY <1>1, <1>2, OnlyCommitsWrite

LEMMA StepKeepsTruth ==
    ASSUME TypeOK, LedgerTellsTheTruth, NEW r \in Replicas, ReadsHold(r), StepOf(r)
    PROVE  LedgerTellsTheTruth'
  <1>1. CASE UNCHANGED <<ledger, applied>>
    BY <1>1 DEF LedgerTellsTheTruth, Legacy
  <1>2. CASE At(r, "commit") /\ CommitEffect(r)
    <2>1. PICK version \in Versions : version = file[r]
      BY <1>2, CommitEffectIs
    <2>2. /\ ledger[version] = seen[r] /\ Checksum(r) \in Contents
          /\ ledger' = [ledger EXCEPT ![version] = Checksum(r)]
      BY <1>2, <2>1, CommitEffectIs
    <2>3. seen[r] \in {Absent, NoChecksum, Checksum(r)}
      BY <1>2 DEF ReadsHold, At
    <2>4. ledger'[version] = Checksum(r) /\ Checksum(r) # Absent /\ Checksum(r) # NoChecksum
      BY <2>2, ReplicasAssumption DEF TypeOK
    <2>5. ASSUME NEW other \in Versions, other # version
          PROVE  ledger'[other] = ledger[other] /\ applied'[other] = applied[other]
      BY <1>2, <2>1, <2>2, <2>5 DEF CommitEffect, TypeOK
    <2>6. applied'[version] # <<>>
          /\ (applied'[version] = <<Checksum(r)>> \/ Legacy(version)')
      <3>1. CASE seen[r] = Absent
        <4>1. applied[version] = <<>>
          BY <2>2, <3>1 DEF LedgerTellsTheTruth
        <4>2. applied'[version] = Append(applied[version], Checksum(r))
          BY <1>2, <2>1, <3>1 DEF CommitEffect, TypeOK
        <4>3. applied'[version] = <<Checksum(r)>>
          BY <4>1, <4>2
        <4> QED BY <4>3
      <3>2. CASE seen[r] # Absent
        <4>1. applied' = applied
          BY <1>2, <3>2 DEF CommitEffect
        <4>2. applied[version] # <<>>
          BY <2>2, <3>2 DEF LedgerTellsTheTruth
        <4>3. applied[version] = <<seen[r]>> \/ Legacy(version)
          BY <2>2, <4>2 DEF LedgerTellsTheTruth
        <4>4. CASE Legacy(version)
          BY <4>1, <4>2, <4>4 DEF Legacy
        <4>5. CASE applied[version] = <<seen[r]>>
          <5>1. applied[version][1] \in Contents
            <6>1. applied[version] \in Seq(Contents) /\ Len(applied[version]) = 1
              BY <4>5 DEF TypeOK
            <6> QED BY <6>1
          <5>2. seen[r] = Checksum(r)
            BY <2>3, <4>5, <5>1, ReplicasAssumption
          <5> QED BY <4>1, <4>2, <4>5, <5>2
        <4> QED BY <4>3, <4>4, <4>5
      <3> QED BY <3>1, <3>2
    <2> SUFFICES ASSUME NEW any \in Versions
                 PROVE  /\ ledger'[any] = Absent <=> applied'[any] = <<>>
                        /\ applied'[any] \in {<<>>, <<ledger'[any]>>} \/ Legacy(any)'
      BY DEF LedgerTellsTheTruth
    <2>7. CASE any = version
      BY <2>4, <2>6, <2>7
    <2>8. CASE any # version
      BY <2>5, <2>8 DEF LedgerTellsTheTruth, Legacy
    <2> QED BY <2>7, <2>8
  <1> QED BY <1>1, <1>2, OnlyCommitsWrite

-----------------------------------------------------------------------------
(* What a replica knows of the ledger stays true while the ledger grows. *)
LEMMA LedgerGrowsFor ==
    ASSUME TypeOK, LedgerGrows, NEW r \in Replicas, release'[r] = release[r]
    PROVE  /\ Own(r)' = Own(r)
           /\ \A version \in DOMAIN Own(r) :
                 ledger[version] = Own(r)[version] => ledger'[version] = Own(r)[version]
           /\ Drifted(r) => Drifted(r)'
           /\ file'[r] = file[r] => Checksum(r)' = Checksum(r) /\ (Prefix(r) => Prefix(r)')
  <1>1. Own(r)' = Own(r) /\ release[r] \in Releases
    BY DEF Own, TypeOK
  <1>2. \A version \in DOMAIN Own(r) : version \in Versions /\ Own(r)[version] \in Contents
    BY <1>1, FilesTypes DEF Own
  <1>3. \A version \in DOMAIN Own(r) :
           ledger[version] = Own(r)[version] => ledger'[version] = Own(r)[version]
    BY <1>2 DEF LedgerGrows
  <1>4. Drifted(r) => Drifted(r)'
    <2> SUFFICES ASSUME NEW version \in DOMAIN Own(r),
                        ledger[version] \notin {Absent, NoChecksum, Own(r)[version]}
                 PROVE  ledger'[version] \notin {Absent, NoChecksum, Own(r)[version]}
      BY <1>1 DEF Drifted
    <2>1. ledger[version] \in Contents
      BY <1>2 DEF TypeOK
    <2> QED BY <1>2, <2>1 DEF LedgerGrows
  <1>5. ASSUME file'[r] = file[r] PROVE Checksum(r)' = Checksum(r) /\ (Prefix(r) => Prefix(r)')
    BY <1>1, <1>3, <1>5 DEF Checksum, Prefix
  <1> QED BY <1>1, <1>3, <1>4, <1>5

(* The lock keeps the others from disturbing a transaction. *)
LEMMA OthersHold ==
    ASSUME TypeOK, NEW r \in Replicas, ReadsHold(r), StepOf(r),
           NEW q \in Replicas \ {r}, LocalInv(q)
    PROVE  LocalInv(q)'
  <1>1. Kept(q) /\ LedgerGrows
    BY OthersAreKept, StepGrowsLedger
  <1>2. /\ Own(q)' = Own(q) /\ Checksum(q)' = Checksum(q)
        /\ Prefix(q) => Prefix(q)'
        /\ Drifted(q) => Drifted(q)'
    BY <1>1, LedgerGrowsFor DEF Kept
  <1>3. pc[q] \in {"apply", "commit"} => ledger' = ledger
    <2>1. pc[q] \in {"apply", "commit"} => ~At(r, "commit")
      BY DEF TypeOK, InTransaction, At
    <2> QED BY <2>1, OnlyCommitsWrite
  <1>4. ReadsHold(q)'
    BY <1>1, <1>2, <1>3 DEF LocalInv, ReadsHold, Kept
  <1>5. Migrated(q)'
    BY <1>1, <1>2 DEF LocalInv, Migrated, Kept
  <1>6. Refused(q)' /\ Exits(q)'
    BY <1>1, <1>2 DEF LocalInv, Refused, Exits, Kept
  <1> QED BY <1>4, <1>5, <1>6 DEF LocalInv

(* A step of a replica that leaves the ledger, its release and its migration
   alone leaves true what it knows of them. *)
LEMMA Unmoved ==
    ASSUME TypeOK, NEW r \in Replicas, LocalInv(r),
           ledger' = ledger, release' = release, file' = file
    PROVE  /\ Own(r)' = Own(r) /\ Checksum(r)' = Checksum(r)
           /\ Prefix(r) => Prefix(r)'
           /\ Drifted(r) => Drifted(r)'
  BY LedgerGrowsFor DEF LedgerGrows

LEMMA StartupHolds ==
    ASSUME TypeOK, NEW r \in Replicas, LocalInv(r), StartupStep(r) \/ LockMigrations(r)
    PROVE  LocalInv(r)'
  <1> USE DEF Goto, At, Starting, InTransaction
  <1>1. /\ release[r] \in Releases /\ file[r] \in Nat \ {0}
        /\ DOMAIN Own(r) = 1..Len(Own(r)) /\ Len(Own(r)) \in Nat
    BY FilesTypes DEF TypeOK, Own
  <1>2. CASE FindLedger(r) \/ CreateLedger(r) \/ ApplyMigration(r) \/ BootstrapAdmin(r)
    BY <1>2, Unmoved DEF FindLedger, CreateLedger, ApplyMigration, BootstrapAdmin, Refuse,
          TypeOK, LocalInv, ReadsHold, Migrated, Refused, Exits, db, http
  <1>3. CASE LockMigrations(r) \/ EndMigrations(r)
    BY <1>1, <1>3, Unmoved DEF LockMigrations, EndMigrations, Own,
          TypeOK, LocalInv, ReadsHold, Migrated, Refused, Exits, db, http
  <1>4. CASE CheckMigration(r)
    <2>1. /\ ledger' = ledger /\ release' = release /\ file' = file /\ pc[r] = "check"
          /\ UNCHANGED <<inflight, cut>> /\ seen'[r] = ledger[file[r]]
      BY <1>4 DEF CheckMigration, TypeOK, db, http
    <2>2. /\ Own(r)' = Own(r) /\ Checksum(r)' = Checksum(r)
          /\ Prefix(r) => Prefix(r)'
          /\ Drifted(r) => Drifted(r)'
      BY <2>1, Unmoved
    <2>3. file[r] \in DOMAIN Own(r) /\ Prefix(r) /\ ~cut[r]
          /\ Checksum(r) = Own(r)[file[r]] /\ outcome[r] # "clean"
      BY <2>1 DEF LocalInv, ReadsHold, Migrated, Exits, Checksum, Own
    <2>4. CASE ledger[file[r]] \in {Absent, NoChecksum, Checksum(r)}
      <3>1. /\ outcome' = outcome
            /\ \/ pc'[r] = "apply" /\ seen'[r] = Absent
               \/ pc'[r] = "commit" /\ seen'[r] \in {NoChecksum, Checksum(r)}
        BY <1>4, <2>1, <2>4 DEF CheckMigration, TypeOK
      <3> QED BY <2>1, <2>2, <2>3, <3>1 DEF LocalInv, ReadsHold, Migrated, Refused, Exits
    <2>5. CASE ledger[file[r]] \notin {Absent, NoChecksum, Checksum(r)}
      <3>1. pc'[r] = "close" /\ outcome'[r] = "mismatch"
        BY <1>4, <2>5 DEF CheckMigration, Mismatch, Refuse, TypeOK
      <3>2. Drifted(r)
        BY <2>3, <2>5 DEF Drifted
      <3> QED BY <2>1, <2>2, <3>1, <3>2 DEF LocalInv, ReadsHold, Migrated, Refused, Exits
    <2> QED BY <2>4, <2>5
  <1>5. CASE CommitMigration(r)
    <2>1. At(r, "commit") /\ ~Conflicts(r) /\ Prefix(r)
      BY <1>5 DEF CommitMigration, LocalInv, ReadsHold, Migrated, Conflicts
    <2>2. /\ CommitEffect(r) /\ file' = [file EXCEPT ![r] = @ + 1]
          /\ pc' = [pc EXCEPT ![r] = "lock"]
          /\ UNCHANGED <<release, outcome, inflight, cut>>
      BY <1>5, <2>1 DEF CommitMigration, http
    <2>3. LedgerGrows
      BY <1>5, StepGrowsLedger DEF StepOf, StartupStep, LocalInv
    <2>4. /\ Own(r)' = Own(r)
          /\ \A version \in DOMAIN Own(r) :
                ledger[version] = Own(r)[version] => ledger'[version] = Own(r)[version]
          /\ Drifted(r) => Drifted(r)'
      BY <2>2, <2>3, LedgerGrowsFor
    <2>5. ledger'[file[r]] = Own(r)[file[r]]
      BY <2>1, <2>2, CommitEffectIs DEF TypeOK, LocalInv
    <2>6. Prefix(r)'
      <3> SUFFICES ASSUME NEW version \in DOMAIN Own(r), version < file[r] + 1
                   PROVE  ledger'[version] = Own(r)[version]
        BY <2>2, <2>4 DEF Prefix, TypeOK
      <3>1. version < file[r] \/ version = file[r]
        BY <1>1
      <3> QED BY <2>1, <2>4, <2>5, <3>1 DEF Prefix
    <2>7. pc'[r] = "lock" /\ pc[r] = "commit"
      BY <2>1, <2>2 DEF TypeOK
    <2> QED BY <2>2, <2>4, <2>6, <2>7 DEF LocalInv, ReadsHold, Migrated, Refused, Exits
  <1> QED BY <1>2, <1>3, <1>4, <1>5 DEF StartupStep

LEMMA ServingHolds ==
    ASSUME TypeOK, NEW r \in Replicas, LocalInv(r),
           Accept(r) \/ Acquire(r) \/ Release(r) \/ Answer(r) \/ Signal(r) \/ ShutdownStep(r)
    PROVE  LocalInv(r)'
  <1> USE DEF Goto, At, Starting, InTransaction
  <1>1. conns[r] \in Nat /\ inflight[r] \in Nat
    BY DEF TypeOK
  <1>2. /\ ledger' = ledger /\ release' = release /\ file' = file
        /\ seen' = seen
    BY DEF Accept, Acquire, Release, Answer, Signal, ShutdownStep, Shutdown,
           ShutdownTimeout, CloseStorage, db
  <1>3. /\ Own(r)' = Own(r) /\ Checksum(r)' = Checksum(r)
        /\ Prefix(r) => Prefix(r)'
        /\ Drifted(r) => Drifted(r)'
    BY <1>2, Unmoved
  <1>4. \/ pc' = pc
        \/ pc[r] \in {"serve", "drain", "close"} /\ pc'[r] \in {"close", "down"}
        \/ pc[r] = "serve" /\ pc'[r] = "drain"
    BY DEF Accept, Acquire, Release, Answer, Signal, ShutdownStep, Shutdown,
           ShutdownTimeout, CloseStorage, Refuse, TypeOK
  <1>5. ReadsHold(r)' /\ Migrated(r)'
    BY <1>2, <1>3, <1>4 DEF LocalInv, ReadsHold, Migrated
  <1>6. outcome'[r] \in {outcome[r], "clean", "forced"}
    BY DEF Accept, Acquire, Release, Answer, Signal, ShutdownStep, Shutdown,
           ShutdownTimeout, CloseStorage, Refuse, TypeOK
  <1>7. Refused(r)'
    BY <1>3, <1>6 DEF LocalInv, Refused
  <1>8. Exits(r)'
    <2> USE DEF LocalInv, Exits, TypeOK
    <2>1. CASE Accept(r) \/ Release(r) \/ Answer(r)
      BY <1>1, <2>1 DEF Accept, Release, Answer, http
    <2>2. CASE Acquire(r)
      BY <1>1, <2>2 DEF Acquire, http
    <2>3. CASE Signal(r) \/ Shutdown(r) \/ ShutdownTimeout(r)
      BY <1>1, <2>3 DEF Signal, Shutdown, ShutdownTimeout, Refuse, http
    <2>4. CASE CloseStorage(r)
      BY <1>1, <2>4 DEF CloseStorage
    <2> QED BY <2>1, <2>2, <2>3, <2>4 DEF ShutdownStep
  <1> QED BY <1>5, <1>7, <1>8 DEF LocalInv

LEMMA StartAndFaultsHold ==
    ASSUME TypeOK, NEW r \in Replicas, LocalInv(r),
           \/ \E new \in Releases : Start(r, new)
           \/ FailStartup(r) \/ FailServer(r) \/ Crash(r)
    PROVE  LocalInv(r)'
  <1> USE DEF Goto, At, Starting, InTransaction
  <1>1. ASSUME NEW new \in Releases, Start(r, new) PROVE LocalInv(r)'
    <2>1. /\ pc'[r] = "ledger" /\ release'[r] = new /\ file'[r] = 1
          /\ cut'[r] = FALSE /\ outcome'[r] = "running"
      BY <1>1 DEF Start, TypeOK
    <2>2. Prefix(r)'
      BY <2>1, FilesTypes DEF Prefix, Own
    <2> QED BY <2>1, <2>2 DEF LocalInv, ReadsHold, Migrated, Refused, Exits
  <1>2. CASE FailStartup(r) \/ FailServer(r) \/ Crash(r)
    <2>1. pc'[r] \in {"close", "down"} /\ outcome'[r] = "failure"
      BY <1>2 DEF FailStartup, FailServer, Crash, Refuse, TypeOK
    <2> QED BY <2>1 DEF LocalInv, ReadsHold, Migrated, Refused, Exits
  <1> QED BY <1>1, <1>2

-----------------------------------------------------------------------------
LEMMA InitHolds == Init => ReplicasInv
  <1> SUFFICES ASSUME Init PROVE ReplicasInv
    OBVIOUS
  <1>1. LedgerTellsTheTruth
    <2> SUFFICES ASSUME NEW version \in Versions
                 PROVE  /\ ledger[version] = Absent <=> applied[version] = <<>>
                        /\ applied[version] \in {<<>>, <<ledger[version]>>} \/ Legacy(version)
      BY DEF LedgerTellsTheTruth
    <2>1. \/ ledger[version] = Absent /\ applied[version] = <<>>
          \/ ledger[version] = NoChecksum /\ applied[version] = <<LegacyContent>> /\ version = 1
      BY DEF Init
    <2>2. <<>> # <<LegacyContent>>
      OBVIOUS
    <2> QED BY <2>1, <2>2, ReplicasAssumption DEF Legacy
  <1>2. \A r \in Replicas : LocalInv(r)
    BY DEF Init, LocalInv, ReadsHold, Migrated, Refused, Exits, Starting, InTransaction
  <1> QED BY <1>1, <1>2, InitTypes DEF ReplicasInv

LEMMA StepHolds == ReplicasInv /\ [Next]_vars => ReplicasInv'
  <1> SUFFICES ASSUME ReplicasInv, [Next]_vars PROVE ReplicasInv'
    OBVIOUS
  <1>1. TypeOK /\ LedgerTellsTheTruth /\ \A r \in Replicas : LocalInv(r) /\ ReadsHold(r)
    BY DEF ReplicasInv, LocalInv
  <1>2. TypeOK'
    BY <1>1, StepTypes
  <1>3. CASE EndDeadSession \/ UNCHANGED vars
    <2>1. UNCHANGED <<ledger, applied, pc, release, file, seen, inflight, cut, outcome>>
      BY <1>3 DEF EndDeadSession, vars, db, http
    <2>2. LedgerTellsTheTruth'
      BY <1>1, <2>1 DEF LedgerTellsTheTruth, Legacy
    <2>3. ASSUME NEW r \in Replicas PROVE LocalInv(r)'
      BY <1>1, <2>1, Unmoved DEF LocalInv, ReadsHold, Migrated, Refused, Exits
    <2> QED BY <1>2, <2>2, <2>3 DEF ReplicasInv
  <1>4. ASSUME NEW r \in Replicas, StepOf(r) PROVE ReplicasInv'
    <2>1. LedgerTellsTheTruth'
      BY <1>1, <1>4, StepKeepsTruth
    <2>2. LocalInv(r)'
      BY <1>1, <1>4, StartupHolds, ServingHolds, StartAndFaultsHold DEF StepOf
    <2>3. ASSUME NEW q \in Replicas \ {r} PROVE LocalInv(q)'
      BY <1>1, <1>4, OthersHold
    <2> QED BY <1>2, <2>1, <2>2, <2>3 DEF ReplicasInv
  <1> QED BY <1>3, <1>4, NextIsAStepOf

LEMMA InvHolds == Spec => []ReplicasInv
  BY InitHolds, StepHolds, PTL DEF Spec

(* The variables have their types, and the advisory lock belongs to a replica
   exactly while a migration transaction of it is open. *)
THEOREM ReplicasTypeOK == Spec => []TypeOK
  <1>1. ReplicasInv => TypeOK
    BY DEF ReplicasInv
  <1> QED BY <1>1, InvHolds, PTL

(* However many replicas of however many releases start, crash and retry in
   runMigrations, each migration took effect at most once and the ledger says
   from which file. *)
THEOREM EachMigrationOnce == Spec => []LedgerTellsTheTruth
  <1>1. ReplicasInv => LedgerTellsTheTruth
    BY DEF ReplicasInv
  <1> QED BY <1>1, InvHolds, PTL

(* A replica past runMigrations has every one of its files in the ledger, and
   no later deployment or rollback changes that under it. *)
THEOREM ServesMigratedSchema == Spec => []ServesOwnSchema
  <1>1. ReplicasInv => ServesOwnSchema
    <2> SUFFICES ASSUME ReplicasInv, NEW r \in Replicas, pc[r] \in {"bootstrap", "serve", "drain"},
                        NEW version \in DOMAIN Files[release[r]]
                 PROVE  ledger[version] = Files[release[r]][version]
      BY DEF ServesOwnSchema
    <2>1. Prefix(r) /\ file[r] > Len(Own(r)) /\ file[r] \in Nat
      BY DEF ReplicasInv, LocalInv, Migrated, TypeOK, Starting
    <2>2. version \in 1..Len(Own(r)) /\ Len(Own(r)) \in Nat
      BY FilesTypes DEF ReplicasInv, TypeOK, Own
    <2>3. version < file[r]
      BY <2>1, <2>2
    <2> QED BY <2>1, <2>3 DEF Prefix, Own
  <1> QED BY <1>1, InvHolds, PTL

(* A migration is refused only when its file and the ledger disagree for good:
   the advisory lock keeps replicas from refusing each other's work. *)
THEOREM OnlyDriftIsRefused == Spec => []RefusedOnlyForDrift
  <1>1. ReplicasInv => RefusedOnlyForDrift
    BY DEF ReplicasInv, LocalInv, Refused, Drifted, Own, RefusedOnlyForDrift
  <1> QED BY <1>1, InvHolds, PTL

(* A shutdown that reports success answered every request it had accepted
   before it closed the pool. *)
THEOREM CleanShutdownAnswersAll == Spec => []CleanExitCutsNobody
  <1>1. ReplicasInv => CleanExitCutsNobody
    BY DEF ReplicasInv, LocalInv, Exits, CleanExitCutsNobody
  <1> QED BY <1>1, InvHolds, PTL

-----------------------------------------------------------------------------
(* No step of any replica, its crash and its retries included, takes a version
   out of the ledger or writes another checksum over one that is there: the
   ledger of runMigrations is append-only, row by row. *)
THEOREM LedgerIsAppendOnly == Spec => [][LedgerGrows]_vars
  <1>1. ReplicasInv /\ [Next]_vars => [LedgerGrows]_vars
    <2> SUFFICES ASSUME ReplicasInv, Next PROVE LedgerGrows
      BY DEF vars
    <2>1. CASE EndDeadSession
      BY <2>1 DEF EndDeadSession, db, LedgerGrows
    <2>2. ASSUME NEW r \in Replicas, StepOf(r) PROVE LedgerGrows
      BY <2>2, StepGrowsLedger DEF ReplicasInv, LocalInv
    <2> QED BY <2>1, <2>2, NextIsAStepOf
  <1> QED BY <1>1, InvHolds, PTL DEF Spec

(* Replicas that have finished runMigrations carry the same file for every
   version they share. *)
ServingFilesAgree ==
    \A r, q \in Replicas :
        pc[r] \in {"bootstrap", "serve", "drain"} /\ pc[q] \in {"bootstrap", "serve", "drain"} =>
            \A version \in DOMAIN Own(r) \cap DOMAIN Own(q) : Own(r)[version] = Own(q)[version]

(* Two releases whose migration files contradict each other never serve side
   by side, in whichever order and however often they are deployed. *)
THEOREM ServingReplicasAgree == Spec => []ServingFilesAgree
  <1>1. ServesOwnSchema => ServingFilesAgree
    BY DEF ServesOwnSchema, ServingFilesAgree, Own
  <1> QED BY <1>1, ServesMigratedSchema, PTL
=============================================================================
