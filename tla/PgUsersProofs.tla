--------------------------- MODULE PgUsersProofs ---------------------------
(***************************************************************************)
(* Proofs about the users table, for any number of ids, names and calls:   *)
(* the locks of the two transactions, what a transaction checked when it   *)
(* commits, the last administrator, and that PostgreSQL implements the     *)
(* contract UserStoreSpec.                                                 *)
(***************************************************************************)
EXTENDS PgUsers, FiniteSetTheorems, TLAPS

Checked == {"selected", "counted", "written"}
Holding == {"locked"} \cup Checked

(* The advisory lock belongs to the one transaction that got past it, and row
   locks to transactions that selected a row. *)
LockDiscipline ==
    /\ \A c \in Calls : call[c].pc \in Holding => advisoryLock = c
    /\ advisoryLock # None => call[advisoryLock].pc \in Holding
    /\ \A i \in UserIds : rowLock[i] # None => call[rowLock[i]].pc \in Checked

(* Rows have ids that were generated, finitely many so far: the count of the
   administrators is the count of a finite set. *)
GeneratedIds == Present \subseteq generated /\ IsFiniteSet(generated)

PgInv == TypeOK /\ GeneratedIds /\ LockDiscipline /\ AdminExists /\ CheckedStillHolds

-----------------------------------------------------------------------------
LEMMA RowTypes ==
    ASSUME TypeOK, NEW i \in Present
    PROVE  /\ i \in UserIds /\ rows[i] \in Row
           /\ rows[i].username \in Usernames /\ rows[i].password \in Passwords
           /\ rows[i].role \in Roles /\ rows[i].tokenVersion \in Nat
  BY DEF Present, TypeOK, Row

LEMMA CallTypes ==
    ASSUME TypeOK, NEW c \in Calls
    PROVE  /\ call[c] = Idle <=> call[c].pc = "idle"
           /\ call[c].pc \in {"begun", "locked"} => call[c] \in [pc : {"begun", "locked"}, op : Op]
           /\ call[c].pc \in Checked => call[c] \in [pc : Checked, op : Op, id : UserIds, role : Roles]
           /\ call[c].pc \in {"idle", "begun", "locked"} \cup Checked
  <1>1. call[c] \in {Idle} \cup TxState
    BY DEF TypeOK
  <1>2. CASE call[c] = Idle
    BY <1>2 DEF Idle, Checked
  <1>3. CASE call[c] \in [pc : {"begun", "locked"}, op : Op]
    BY <1>3 DEF Idle, Checked
  <1>4. CASE call[c] \in [pc : Checked, op : Op, id : UserIds, role : Roles]
    BY <1>4 DEF Idle, Checked
  <1> QED BY <1>1, <1>2, <1>3, <1>4 DEF TxState, Checked

LEMMA NewRowType ==
    ASSUME NEW name \in Usernames, NEW password \in Passwords, NEW role \in Roles
    PROVE  /\ NewRow(name, password, role) \in Row
           /\ NewRow(name, password, role) # NoRow
           /\ NewRow(name, password, role).role = role
  BY PgAssumption DEF NewRow, Row

(* The administrators are finitely many, so a count above one is two. *)
LEMMA AnotherAdmin ==
    ASSUME GeneratedIds, NEW i \in Admins, ~(Cardinality(Admins) <= 1)
    PROVE  Admins \ {i} # {}
  <1> SUFFICES ASSUME Admins = {i} PROVE FALSE
    OBVIOUS
  <1>1. Cardinality({i}) = 1
    BY FS_Singleton
  <1> QED BY <1>1

-----------------------------------------------------------------------------
(* Statements that keep the username and the role of every row. *)
KeepsRows ==
    \A i \in Present : /\ rows'[i] # NoRow
                       /\ rows'[i].username = rows[i].username
                       /\ rows'[i].role = rows[i].role

LEMMA RowsKept ==
    ASSUME PgInv, TypeOK', GeneratedIds', KeepsRows, UNCHANGED <<call, locks>>
    PROVE  PgInv'
  <1>1. \A i \in Present : i \in Present' /\ (i \in Admins => i \in Admins')
    BY DEF KeepsRows, Present, Admins
  <1>2. AdminExists'
    BY <1>1 DEF PgInv, AdminExists, Admins
  <1>3. LockDiscipline'
    BY DEF PgInv, LockDiscipline, locks
  <1>4. CheckedStillHolds'
    <2> SUFFICES ASSUME NEW c \in Calls, call[c].pc \in Checked
                 PROVE  /\ call[c].id \in Named(call[c].op.username)'
                        /\ rows'[call[c].id].role = call[c].role
                        /\ call[c].pc # "selected" /\ RemovesAdmin(call[c]) =>
                              Admins' \ {call[c].id} # {}
      BY DEF CheckedStillHolds, Checked, locks, Named, Present, RemovesAdmin
    <2>1. /\ call[c].id \in Named(call[c].op.username)
          /\ rows[call[c].id].role = call[c].role
          /\ call[c].pc # "selected" /\ RemovesAdmin(call[c]) => Admins \ {call[c].id} # {}
      BY DEF PgInv, CheckedStillHolds, Checked
    <2>2. call[c].id \in Present /\ Admins \subseteq Admins'
      BY <1>1, <2>1 DEF Named, Admins
    <2> QED BY <1>1, <2>1, <2>2 DEF KeepsRows, Named
  <1> QED BY <1>2, <1>3, <1>4 DEF PgInv

LEMMA InsertKeeps ==
    ASSUME PgInv, NEW name \in Usernames, NEW password \in Passwords, NEW role \in Roles,
           Insert(name, password, role), UNCHANGED <<call, locks>>, up' \in BOOLEAN
    PROVE  PgInv'
  <1>1. PICK i \in UserIds \ generated :
          /\ rows' = [rows EXCEPT ![i] = NewRow(name, password, role)]
          /\ generated' = generated \cup {i}
    BY DEF Insert
  <1>2. TypeOK'
    BY <1>1, NewRowType DEF PgInv, TypeOK, locks
  <1>3. i \notin Present
    BY DEF PgInv, GeneratedIds
  <1>4. Present' = Present \cup {i}
    BY <1>1, NewRowType DEF Present, PgInv, TypeOK
  <1>5. GeneratedIds'
    BY <1>1, <1>4, FS_AddElement DEF PgInv, GeneratedIds
  <1>6. KeepsRows
    BY <1>1, <1>3 DEF KeepsRows, Present, PgInv, TypeOK
  <1> QED BY <1>2, <1>5, <1>6, RowsKept

(* An UPDATE of one row that keeps its username. *)
LEMMA UpdateIs ==
    ASSUME TypeOK, GeneratedIds, NEW i \in Present, NEW row \in Row,
           rows' = [rows EXCEPT ![i] = row], generated' = generated
    PROVE  /\ rows' \in [UserIds -> Row \cup {NoRow}]
           /\ Present' = Present /\ GeneratedIds'
           /\ rows'[i] = row /\ \A j \in UserIds \ {i} : rows'[j] = rows[j]
  <1>1. i \in UserIds /\ row # NoRow /\ rows[i] # NoRow
    BY PgAssumption DEF Present
  <1>2. Present' = Present
    BY <1>1 DEF Present, TypeOK
  <1> QED BY <1>1, <1>2 DEF TypeOK, GeneratedIds

LEMMA UpdatePasswordIs ==
    ASSUME TypeOK, NEW i \in Present, NEW password \in Passwords
    PROVE  LET row == [rows[i] EXCEPT !.password = password, !.tokenVersion = @ + 1] IN
           /\ row \in Row /\ row.username = rows[i].username /\ row.role = rows[i].role
  <1> DEFINE b == [rows[i] EXCEPT !.password = password]
             row == [b EXCEPT !.tokenVersion = rows[i].tokenVersion + 1]
  <1>1. rows[i] \in Row /\ rows[i].tokenVersion + 1 \in Nat
    BY RowTypes
  <1>2. b \in Row /\ b.username = rows[i].username /\ b.role = rows[i].role
        /\ b.tokenVersion = rows[i].tokenVersion
    BY <1>1 DEF Row
  <1>3. row \in Row /\ row.username = rows[i].username /\ row.role = rows[i].role
    <2> HIDE DEF b
    <2> QED BY <1>1, <1>2 DEF Row
  <1> QED BY <1>2, <1>3

LEMMA UpdatePasswordKeeps ==
    ASSUME PgInv, NEW i \in UserIds, NEW password \in Passwords, UpdatePassword(i, password)
    PROVE  PgInv'
  <1> DEFINE row == [rows[i] EXCEPT !.password = password, !.tokenVersion = @ + 1]
  <1>1. i \in Present /\ UNCHANGED <<generated, call, locks, up>>
    BY DEF UpdatePassword, Writable
  <1>2. rows' = [rows EXCEPT ![i] = row]
    BY DEF UpdatePassword, PgInv, TypeOK
  <1>3. row \in Row /\ row.username = rows[i].username /\ row.role = rows[i].role
    BY <1>1, UpdatePasswordIs DEF PgInv
  <1> HIDE DEF row
  <1>4. /\ rows' \in [UserIds -> Row \cup {NoRow}]
        /\ Present' = Present /\ GeneratedIds'
        /\ rows'[i] = row /\ \A j \in UserIds \ {i} : rows'[j] = rows[j]
    BY <1>1, <1>2, <1>3, UpdateIs DEF PgInv
  <1>5. TypeOK'
    BY <1>1, <1>4 DEF PgInv, TypeOK, locks
  <1>6. KeepsRows
    BY <1>3, <1>4, PgAssumption DEF KeepsRows, Present
  <1> QED BY <1>1, <1>4, <1>5, <1>6, RowsKept

LEMMA RevokeTokensKeeps ==
    ASSUME PgInv, NEW i \in UserIds, RevokeTokens(i)
    PROVE  PgInv'
  <1> DEFINE row == [rows[i] EXCEPT !.tokenVersion = @ + 1]
  <1>1. i \in Present /\ UNCHANGED <<generated, call, locks, up>>
    BY DEF RevokeTokens, Writable
  <1>2. rows' = [rows EXCEPT ![i] = row]
    BY DEF RevokeTokens, PgInv, TypeOK
  <1>3. row \in Row /\ row.username = rows[i].username /\ row.role = rows[i].role
    BY <1>1, RowTypes DEF PgInv, Row
  <1> HIDE DEF row
  <1>4. /\ rows' \in [UserIds -> Row \cup {NoRow}]
        /\ Present' = Present /\ GeneratedIds'
        /\ rows'[i] = row /\ \A j \in UserIds \ {i} : rows'[j] = rows[j]
    BY <1>1, <1>2, <1>3, UpdateIs DEF PgInv
  <1>5. TypeOK'
    BY <1>1, <1>4 DEF PgInv, TypeOK, locks
  <1>6. KeepsRows
    BY <1>3, <1>4, PgAssumption DEF KeepsRows, Present
  <1> QED BY <1>1, <1>4, <1>5, <1>6, RowsKept

-----------------------------------------------------------------------------
(* What CheckedStillHolds says of one transaction. *)
Holds(state) ==
    /\ state.id \in Named(state.op.username)
    /\ rows[state.id].role = state.role
    /\ state.pc # "selected" /\ RemovesAdmin(state) => Admins \ {state.id} # {}

LEMMA ChecksHold == CheckedStillHolds <=> \A c \in Calls : call[c].pc \in Checked => Holds(call[c])
  BY DEF CheckedStillHolds, Holds, Checked

(* The locks follow a transaction that moves to a state. *)
LocksFollow(c, state) ==
    /\ advisoryLock' \in Calls \cup {None}
    /\ rowLock' \in [UserIds -> Calls \cup {None}]
    /\ state.pc \in Holding => advisoryLock' = c
    /\ state.pc \notin Holding => advisoryLock' # c
    /\ \A q \in Calls \ {c} : advisoryLock' = q <=> advisoryLock = q
    /\ \A i \in UserIds : rowLock'[i] \notin {None, rowLock[i]} => rowLock'[i] = c
    /\ state.pc \notin Checked => \A i \in UserIds : rowLock'[i] # c

(* One transaction moves, and the committed rows stay as they are. *)
LEMMA TransactionMoves ==
    ASSUME PgInv, NEW c \in Calls, NEW state \in {Idle} \cup TxState,
           Goto(c, state), UNCHANGED <<table, up>>, LocksFollow(c, state),
           state.pc \in Checked => Holds(state)
    PROVE  PgInv'
  <1>1. /\ rows' = rows /\ generated' = generated /\ up' = up
        /\ call' = [call EXCEPT ![c] = state]
        /\ call'[c] = state /\ \A q \in Calls \ {c} : call'[q] = call[q]
    BY DEF table, Goto, PgInv, TypeOK
  <1>2. TypeOK' /\ GeneratedIds' /\ AdminExists'
    BY <1>1 DEF PgInv, TypeOK, GeneratedIds, AdminExists, Admins, Present, LocksFollow
  <1>3. CheckedStillHolds'
    <2>1. ASSUME NEW q \in Calls, call'[q].pc \in Checked PROVE Holds(call'[q])
      BY <1>1, <2>1, ChecksHold DEF PgInv
    <2>2. \A name : Named(name)' = Named(name)
      BY <1>1 DEF Named, Present
    <2>3. Admins' = Admins
      BY <1>1 DEF Admins, Present
    <2> SUFFICES ASSUME NEW q \in Calls, call'[q].pc \in Checked
                 PROVE  /\ call'[q].id \in Named(call[q].op.username)'
                        /\ rows'[call'[q].id].role = call'[q].role
                        /\ call'[q].pc # "selected" /\ RemovesAdmin(call[q])' =>
                              Admins' \ {call'[q].id} # {}
      BY DEF CheckedStillHolds, Checked
    <2>4. PICK now \in {Idle} \cup TxState : now = call'[q]
      BY <1>2 DEF TypeOK
    <2>5. Holds(now)
      BY <2>1, <2>4
    <2>6. Named(call[q].op.username)' = Named(now.op.username)
      BY <1>1, <2>4 DEF Named, Present
    <2> QED BY <1>1, <2>3, <2>4, <2>5, <2>6 DEF Holds, RemovesAdmin
  <1>4. LockDiscipline'
    <2>1. ASSUME NEW q \in Calls, call'[q].pc \in Holding PROVE advisoryLock' = q
      BY <1>1, <2>1 DEF PgInv, LockDiscipline, LocksFollow
    <2>2. advisoryLock' # None => call'[advisoryLock'].pc \in Holding
      BY <1>1, PgAssumption DEF PgInv, LockDiscipline, LocksFollow
    <2>3. ASSUME NEW i \in UserIds, rowLock'[i] # None PROVE call'[rowLock'[i]].pc \in Checked
      <3>1. CASE rowLock'[i] = c
        BY <1>1, <3>1 DEF LocksFollow
      <3>2. CASE rowLock'[i] # c
        BY <1>1, <2>3, <3>2 DEF PgInv, LockDiscipline, LocksFollow
      <3> QED BY <3>1, <3>2
    <2> QED BY <2>1, <2>2, <2>3 DEF LockDiscipline
  <1> QED BY <1>2, <1>3, <1>4 DEF PgInv

(* The locks of the others are not touched by the end of a transaction. *)
LEMMA ReleaseFollows ==
    ASSUME TypeOK, NEW c \in Calls, ReleaseLocks(c)
    PROVE  LocksFollow(c, Idle)
  BY PgAssumption DEF TypeOK, ReleaseLocks, LocksFollow, Idle, Holding, Checked

LEMMA RollbackKeeps ==
    ASSUME PgInv, NEW c \in Calls, Rollback(c)
    PROVE  PgInv'
  <1>1. LocksFollow(c, Idle) /\ Idle.pc \notin Checked
    BY ReleaseFollows DEF Rollback, PgInv, Idle, Checked
  <1> QED BY <1>1, TransactionMoves DEF Rollback

LEMMA BeginTxKeeps ==
    ASSUME PgInv, NEW c \in Calls, NEW name \in Usernames, NEW to \in Roles \cup {Deleted},
           BeginTx(c, name, to)
    PROVE  PgInv'
  <1> DEFINE state == [pc |-> "begun", op |-> [username |-> name, to |-> to]]
  <1>1. state \in TxState /\ state.pc = "begun"
    BY DEF TxState, Op
  <1>2. call[c].pc = "idle"
    BY DEF BeginTx, Idle
  <1>3. LocksFollow(c, state)
    BY <1>1, <1>2, PgAssumption
       DEF BeginTx, LocksFollow, locks, PgInv, TypeOK, LockDiscipline, Holding, Checked
  <1>4. Goto(c, state) /\ UNCHANGED <<table, up>> /\ state.pc \notin Checked
    BY <1>1 DEF BeginTx, Checked
  <1> HIDE DEF state
  <1> QED BY <1>1, <1>3, <1>4, TransactionMoves

LEMMA LockKeeps ==
    ASSUME PgInv, NEW c \in Calls, LockAdminInvariant(c)
    PROVE  PgInv'
  <1> DEFINE state == [call[c] EXCEPT !.pc = "locked"]
  <1>1. call[c] \in [pc : {"begun", "locked"}, op : Op] /\ call[c].pc = "begun"
    BY CallTypes DEF LockAdminInvariant, PgInv
  <1>2. state \in TxState /\ state.pc = "locked"
    BY <1>1 DEF TxState
  <1>3. LocksFollow(c, state)
    BY <1>1, <1>2, PgAssumption
       DEF LockAdminInvariant, LocksFollow, PgInv, TypeOK, LockDiscipline, Holding, Checked
  <1>4. Goto(c, state) /\ UNCHANGED <<table, up>> /\ state.pc \notin Checked
    BY <1>2 DEF LockAdminInvariant, Checked
  <1> HIDE DEF state
  <1> QED BY <1>2, <1>3, <1>4, TransactionMoves

LEMMA SelectKeeps ==
    ASSUME PgInv, NEW c \in Calls, SelectForUpdate(c)
    PROVE  PgInv'
  <1>1. PICK i \in Named(call[c].op.username) :
          /\ rowLock[i] = None
          /\ rowLock' = [rowLock EXCEPT ![i] = c]
          /\ Goto(c, [pc |-> "selected", op |-> call[c].op, id |-> i, role |-> rows[i].role])
    BY DEF SelectForUpdate
  <1> DEFINE state == [pc |-> "selected", op |-> call[c].op, id |-> i, role |-> rows[i].role]
  <1>2. i \in Present /\ i \in UserIds /\ rows[i].role \in Roles
    BY <1>1, RowTypes DEF Named, PgInv
  <1>3. call[c].pc = "locked" /\ call[c].op \in Op
    BY CallTypes DEF SelectForUpdate, PgInv
  <1>4. state \in TxState
    BY <1>2, <1>3 DEF TxState
  <1>5. Holds(state) /\ state.pc = "selected" /\ Goto(c, state)
    BY <1>1 DEF Holds
  <1>6. LocksFollow(c, state)
    <2>1. advisoryLock = c /\ advisoryLock' = advisoryLock
      BY <1>3 DEF PgInv, LockDiscipline, Holding, SelectForUpdate
    <2> QED BY <1>1, <1>2, <1>5, <2>1, PgAssumption
            DEF LocksFollow, PgInv, TypeOK, Holding, Checked
  <1>7. UNCHANGED <<table, up>>
    BY DEF SelectForUpdate
  <1> HIDE DEF state
  <1> QED BY <1>4, <1>5, <1>6, <1>7, TransactionMoves

(* A transaction that has selected its row goes on with what it knows. *)
LEMMA GoesOn ==
    ASSUME PgInv, NEW c \in Calls, NEW pc \in {"counted", "written"}, call[c].pc \in Checked,
           Goto(c, [call[c] EXCEPT !.pc = pc]), UNCHANGED <<table, locks, up>>,
           RemovesAdmin(call[c]) => Admins \ {call[c].id} # {}
    PROVE  PgInv'
  <1> DEFINE state == [call[c] EXCEPT !.pc = pc]
  <1>1. call[c] \in [pc : Checked, op : Op, id : UserIds, role : Roles]
    BY CallTypes DEF PgInv
  <1>2. /\ state \in TxState /\ state.pc = pc /\ state.op = call[c].op
        /\ state.id = call[c].id /\ state.role = call[c].role
    BY <1>1 DEF TxState, Checked
  <1>3. Holds(state)
    <2>1. Holds(call[c])
      BY ChecksHold DEF PgInv
    <2> HIDE DEF state
    <2> QED BY <1>2, <2>1 DEF Holds, RemovesAdmin
  <1>4. LocksFollow(c, state)
    <2>1. advisoryLock = c
      BY DEF PgInv, LockDiscipline, Holding
    <2> QED BY <1>2, <2>1, PgAssumption DEF LocksFollow, locks, PgInv, TypeOK, Holding, Checked
  <1>5. Goto(c, state) /\ UNCHANGED <<table, up>>
    OBVIOUS
  <1> HIDE DEF state
  <1> QED BY <1>2, <1>3, <1>4, <1>5, TransactionMoves

LEMMA CountKeeps ==
    ASSUME PgInv, NEW c \in Calls, CountAdmins(c)
    PROVE  PgInv'
  <1>1. CASE RemovesAdmin(call[c]) /\ Cardinality(Admins) <= 1
    BY <1>1, RollbackKeeps DEF CountAdmins
  <1>2. CASE ~(RemovesAdmin(call[c]) /\ Cardinality(Admins) <= 1)
    <2>1. call[c].pc \in Checked /\ Holds(call[c])
      BY ChecksHold DEF CountAdmins, PgInv, Checked
    <2>2. ASSUME RemovesAdmin(call[c]) PROVE Admins \ {call[c].id} # {}
      <3>1. call[c].id \in Admins
        BY <2>1, <2>2 DEF Holds, RemovesAdmin, Admins, Named
      <3> QED BY <1>2, <2>2, <3>1, AnotherAdmin DEF PgInv
    <2> QED BY <1>2, <2>1, <2>2, GoesOn DEF CountAdmins
  <1> QED BY <1>1, <1>2

LEMMA WriteKeeps ==
    ASSUME PgInv, NEW c \in Calls, Write(c)
    PROVE  PgInv'
  <1>1. call[c].pc = "counted" /\ Holds(call[c])
    BY ChecksHold DEF Write, PgInv, Checked
  <1>2. RemovesAdmin(call[c]) => Admins \ {call[c].id} # {}
    BY <1>1 DEF Holds
  <1> QED BY <1>1, <1>2, GoesOn DEF Write, Checked

-----------------------------------------------------------------------------
(* What a commit does to the row it selected, and to no other. *)
LEMMA CommitIs ==
    ASSUME PgInv, NEW c \in Calls, Commit(c)
    PROVE  /\ call[c].id \in Present /\ call[c].id \in Named(call[c].op.username)
           /\ rows[call[c].id].role = call[c].role
           /\ RemovesAdmin(call[c]) => Admins \ {call[c].id} # {}
           /\ call[c].op \in Op /\ call[c].pc = "written"
           /\ advisoryLock = c
           /\ rows' = [rows EXCEPT ![call[c].id] =
                         IF call[c].op.to = Deleted THEN NoRow
                         ELSE [rows[call[c].id] EXCEPT !.role = call[c].op.to]]
           /\ rows' \in [UserIds -> Row \cup {NoRow}]
  <1>1. call[c].pc = "written" /\ call[c].op \in Op /\ call[c].id \in UserIds
    BY CallTypes DEF Commit, PgInv, Checked
  <1>2. Holds(call[c]) /\ advisoryLock = c
    BY <1>1, ChecksHold DEF PgInv, Checked, Holding, LockDiscipline
  <1>3. call[c].id \in Present
    BY <1>2 DEF Holds, Named
  <1>4. rows' = [rows EXCEPT ![call[c].id] =
                   IF call[c].op.to = Deleted THEN NoRow
                   ELSE [rows[call[c].id] EXCEPT !.role = call[c].op.to]]
    BY <1>1 DEF Commit, Apply, PgInv, TypeOK
  <1>5. call[c].op.to # Deleted => [rows[call[c].id] EXCEPT !.role = call[c].op.to] \in Row
    BY <1>1, <1>3, RowTypes DEF PgInv, Op, Row
  <1>6. rows' \in [UserIds -> Row \cup {NoRow}]
    BY <1>4, <1>5 DEF PgInv, TypeOK
  <1> QED BY <1>1, <1>2, <1>3, <1>4, <1>6 DEF Holds

LEMMA CommitKeeps ==
    ASSUME PgInv, NEW c \in Calls, Commit(c)
    PROVE  PgInv'
  <1>1. PICK i \in UserIds : i = call[c].id
    BY CommitIs DEF Present
  <1>2. PICK to \in Roles \cup {Deleted} : to = call[c].op.to
    BY CommitIs DEF Op
  <1>3. /\ i \in Present /\ rows' \in [UserIds -> Row \cup {NoRow}]
        /\ rows'[i] = IF to = Deleted THEN NoRow ELSE [rows[i] EXCEPT !.role = to]
        /\ \A j \in UserIds \ {i} : rows'[j] = rows[j]
        /\ rows[i] \in Row /\ rows[i].role = call[c].role
    BY <1>1, <1>2, CommitIs, RowTypes DEF PgInv, TypeOK
  <1>4. GeneratedIds'
    <2>1. Present' \subseteq Present
      BY <1>3 DEF Present
    <2> QED BY <2>1 DEF PgInv, GeneratedIds, Commit
  <1>5. AdminExists'
    <2>1. PICK j \in Admins : TRUE
      BY DEF PgInv, AdminExists
    <2>2. ASSUME NEW k \in Admins \ {i} PROVE k \in Admins'
      BY <1>3 DEF Admins, Present
    <2>3. CASE to = "admin"
      <3>1. rows'[i].role = "admin" /\ rows'[i] # NoRow
        BY <1>3, <2>3, PgAssumption DEF Roles, Row
      <3> QED BY <3>1 DEF AdminExists, Admins, Present
    <2>4. CASE to # "admin" /\ rows[i].role = "admin"
      <3>1. Admins \ {i} # {}
        BY <1>1, <1>2, <1>3, <2>4, CommitIs DEF RemovesAdmin
      <3> QED BY <2>2, <3>1 DEF AdminExists
    <2>5. CASE rows[i].role # "admin"
      <3>1. j # i
        BY <2>1, <2>5 DEF Admins
      <3> QED BY <2>1, <2>2, <3>1 DEF AdminExists
    <2> QED BY <2>3, <2>4, <2>5
  <1>6. /\ LocksFollow(c, Idle)
        /\ call'[c] = Idle /\ \A q \in Calls \ {c} : call'[q] = call[q]
        /\ call' = [call EXCEPT ![c] = Idle]
    BY ReleaseFollows DEF Commit, Goto, PgInv, TypeOK
  <1>7. TypeOK'
    BY <1>3, <1>6 DEF PgInv, TypeOK, LocksFollow, Commit
  <1>8. \A q \in Calls : call'[q].pc \notin Holding
    <2>1. \A q \in Calls \ {c} : call[q].pc \notin Holding
      BY CommitIs DEF PgInv, LockDiscipline
    <2> QED BY <1>6, <2>1 DEF Idle, Holding, Checked
  <1>9. CheckedStillHolds'
    BY <1>8 DEF CheckedStillHolds, Holding, Checked
  <1>10. LockDiscipline'
    <2>1. advisoryLock' = None
      BY CommitIs DEF Commit, ReleaseLocks
    <2>2. ASSUME NEW j \in UserIds PROVE rowLock'[j] = None
      <3>1. rowLock[j] \in {None, c}
        BY CommitIs DEF PgInv, TypeOK, LockDiscipline, Holding
      <3> QED BY <3>1 DEF Commit, ReleaseLocks
    <2> QED BY <1>8, <2>1, <2>2 DEF LockDiscipline
  <1> QED BY <1>4, <1>5, <1>7, <1>9, <1>10 DEF PgInv

LEMMA CrashKeeps ==
    ASSUME PgInv, Crash
    PROVE  PgInv'
  <1>1. /\ rows' = rows /\ generated' = generated /\ up' = FALSE
        /\ call' = [c \in Calls |-> Idle] /\ advisoryLock' = None
        /\ rowLock' = [i \in UserIds |-> None]
    BY DEF Crash, table
  <1>2. TypeOK' /\ GeneratedIds' /\ AdminExists'
    BY <1>1 DEF PgInv, TypeOK, GeneratedIds, AdminExists, Admins, Present
  <1>3. \A c \in Calls : call'[c].pc \notin Holding
    BY <1>1 DEF Idle, Holding, Checked
  <1> QED BY <1>1, <1>2, <1>3
          DEF PgInv, LockDiscipline, CheckedStillHolds, Holding, Checked

LEMMA InitKeeps == Init => PgInv
  <1> SUFFICES ASSUME Init PROVE PgInv
    OBVIOUS
  <1>1. PICK i \in UserIds, password \in Passwords :
          /\ generated = {i}
          /\ rows = [j \in UserIds |->
                       IF j = i THEN NewRow(DefaultAdmin, password, "admin") ELSE NoRow]
    BY DEF Init
  <1> DEFINE row == NewRow(DefaultAdmin, password, "admin")
  <1>2. row \in Row /\ row # NoRow /\ row.role = "admin"
    BY NewRowType, PgAssumption DEF Roles
  <1> HIDE DEF row
  <1>3. Present = {i} /\ rows[i] = row
    BY <1>1, <1>2 DEF Present, row
  <1>4. TypeOK
    BY <1>1, <1>2 DEF Init, TypeOK, row
  <1>5. GeneratedIds /\ AdminExists
    BY <1>1, <1>2, <1>3, FS_Singleton DEF GeneratedIds, AdminExists, Admins
  <1>6. \A c \in Calls : call[c].pc = "idle"
    BY DEF Init, Idle
  <1> QED BY <1>4, <1>5, <1>6
          DEF PgInv, Init, LockDiscipline, CheckedStillHolds, Holding, Checked

LEMMA StepKeeps == PgInv /\ [Next]_vars => PgInv'
  <1> SUFFICES ASSUME PgInv, [Next]_vars PROVE PgInv'
    OBVIOUS
  <1>1. ASSUME NEW name \in Usernames, NEW password \in Passwords, CreateUser(name, password)
        PROVE  PgInv'
    BY <1>1, InsertKeeps DEF CreateUser, Roles, PgInv, TypeOK
  <1>2. ASSUME NEW c \in Calls, TxStep(c) \/ Fail(c) \/ LockAdminInvariant(c) PROVE PgInv'
    BY <1>2, SelectKeeps, RollbackKeeps, CountKeeps, WriteKeeps, CommitKeeps, LockKeeps
       DEF TxStep, UserNotFound, Fail
  <1>3. CASE Restart
    <2>1. ASSUME NEW password \in Passwords, Insert(DefaultAdmin, password, "admin") PROVE PgInv'
      BY <1>3, <2>1, InsertKeeps, PgAssumption DEF Restart, Roles
    <2>2. CASE UNCHANGED table
      <3>1. UNCHANGED <<rows, generated, call, locks>> /\ up' = TRUE
        BY <1>3, <2>2 DEF Restart, table
      <3>2. TypeOK' /\ GeneratedIds' /\ KeepsRows
        BY <3>1 DEF PgInv, TypeOK, GeneratedIds, Present, KeepsRows, locks
      <3> QED BY <3>1, <3>2, RowsKept
    <2> QED BY <1>3, <2>1, <2>2 DEF Restart
  <1>4. CASE UNCHANGED vars
    <2>1. TypeOK' /\ GeneratedIds' /\ KeepsRows /\ UNCHANGED <<call, locks>>
      BY <1>4 DEF vars, PgInv, TypeOK, GeneratedIds, Present, KeepsRows, locks
    <2> QED BY <2>1, RowsKept
  <1> QED BY <1>1, <1>2, <1>3, <1>4, UpdatePasswordKeeps, RevokeTokensKeeps, BeginTxKeeps,
             CrashKeeps DEF Next

LEMMA PgInvHolds == Spec => []PgInv
  BY InitKeeps, StepKeeps, PTL DEF Spec

(* Rows, locks and transactions are well formed in every state. *)
THEOREM PgTypeOK == Spec => []TypeOK
  <1>1. PgInv => TypeOK
    BY DEF PgInv
  <1> QED BY <1>1, PgInvHolds, PTL

(* ErrLastAdmin on PostgreSQL: no interleaving of UpdateUserRole and
   DeleteUser, with failures and crashes between their statements, commits a
   table without an administrator. *)
THEOREM PgKeepsAdmin == Spec => []AdminExists
  <1>1. PgInv => AdminExists
    BY DEF PgInv
  <1> QED BY <1>1, PgInvHolds, PTL

(* What UpdateUserRole and DeleteUser read under the advisory lock is still so
   when they commit. *)
THEOREM PgChecksHold == Spec => []CheckedStillHolds
  <1>1. PgInv => CheckedStillHolds
    BY DEF PgInv
  <1> QED BY <1>1, PgInvHolds, PTL

(* Whatever way a transaction ends (commit, the deferred rollback, a crash), it
   leaves no lock behind. *)
THEOREM PgLeaksNoLock == Spec => []NoLeakedLock
  <1>1. PgInv => NoLeakedLock
    BY DEF PgInv, LockDiscipline, NoLeakedLock, Idle, Holding, Checked
  <1> QED BY <1>1, PgInvHolds, PTL

-----------------------------------------------------------------------------
(* The account function of the contract. *)
Accounts == [i \in UserIds |-> AccountOf(i)]

(* The contract sees the committed rows. *)
LEMMA AccountsAreRows ==
    ASSUME PgInv
    PROVE  /\ \A i \in UserIds : i \in Contract!Live <=> i \in Present
           /\ \A i \in Present : Accounts[i] = rows[i] /\ i \in UserIds
           /\ \A name : Contract!Named(name) = Named(name)
           /\ Contract!Admins = Admins
           /\ \A i \in UserIds \ generated : Accounts[i] = Unused
  <1>1. \A i \in Present : i \in UserIds /\ rows[i] \notin {Unused, Deleted, NoRow}
    BY RowTypes, PgAssumption DEF PgInv
  <1>2. \A i \in UserIds : i \in Contract!Live <=> i \in Present
    <2>1. ASSUME NEW i \in UserIds, i \notin Present PROVE Accounts[i] \in {Unused, Deleted}
      BY <2>1 DEF Accounts, AccountOf, Present
    <2>2. ASSUME NEW i \in Present PROVE Accounts[i] = rows[i]
      BY <1>1, <2>2 DEF Accounts, AccountOf
    <2> QED BY <1>1, <2>1, <2>2 DEF Contract!Live, Accounts
  <1>3. \A i \in Present : Accounts[i] = rows[i]
    BY <1>1 DEF Accounts, AccountOf
  <1>4. Contract!Live = Present
    BY <1>1, <1>2 DEF Contract!Live
  <1>5. \A name : Contract!Named(name) = Named(name)
    BY <1>3, <1>4 DEF Contract!Named, Named, Accounts
  <1>6. Contract!Admins = Admins
    BY <1>3, <1>4 DEF Contract!Admins, Admins, Accounts
  <1>7. \A i \in UserIds \ generated : Accounts[i] = Unused
    BY DEF Accounts, AccountOf, PgInv, GeneratedIds, Present
  <1> QED BY <1>1, <1>2, <1>3, <1>5, <1>6, <1>7

LEMMA InitMaps == Init => Contract!Init
  <1> SUFFICES ASSUME Init PROVE Contract!Init
    OBVIOUS
  <1>1. PICK i \in UserIds, password \in Passwords :
          /\ generated = {i}
          /\ rows = [j \in UserIds |->
                       IF j = i THEN NewRow(DefaultAdmin, password, "admin") ELSE NoRow]
    BY DEF Init
  <1>2. NewRow(DefaultAdmin, password, "admin") # NoRow
    BY NewRowType, PgAssumption DEF Roles
  <1>3. \A j \in UserIds :
          AccountOf(j) = IF j = i THEN NewRow(DefaultAdmin, password, "admin") ELSE Unused
    BY <1>1, <1>2 DEF AccountOf
  <1> QED BY <1>1, <1>3 DEF Contract!Init, Contract!NewAccount, NewRow

(* A write of one row is that write of its account. *)
LEMMA WriteMaps ==
    ASSUME PgInv, NEW i \in Present, NEW row, row # NoRow,
           rows' = [rows EXCEPT ![i] = row], generated' = generated
    PROVE  Accounts' = [Accounts EXCEPT ![i] = row]
  <1>1. \A j \in UserIds : AccountOf(j)' = IF j = i THEN row ELSE AccountOf(j)
    BY DEF AccountOf, PgInv, TypeOK, Present
  <1> QED BY <1>1 DEF Accounts

LEMMA InsertMaps ==
    ASSUME PgInv, NEW name \in Usernames, NEW password \in Passwords, NEW role \in Roles,
           Insert(name, password, role)
    PROVE  \E i \in UserIds : Contract!Insert(i, name, password, role)
  <1>1. PICK i \in UserIds \ generated :
          /\ rows' = [rows EXCEPT ![i] = NewRow(name, password, role)]
          /\ generated' = generated \cup {i}
          /\ Named(name) = {}
    BY DEF Insert
  <1>2. Accounts[i] = Unused /\ Contract!Named(name) = {}
    BY <1>1, AccountsAreRows
  <1> DEFINE row == NewRow(name, password, role)
  <1>3. row # NoRow
    BY NewRowType
  <1>4. \A j \in UserIds : AccountOf(j)' = IF j = i THEN row ELSE AccountOf(j)
    <2> HIDE DEF row
    <2>1. rows' = [rows EXCEPT ![i] = row]
      BY <1>1 DEF row
    <2> QED BY <1>1, <1>3, <2>1 DEF AccountOf, PgInv, TypeOK
  <1>5. Accounts' = [Accounts EXCEPT ![i] = row]
    BY <1>4 DEF Accounts
  <1> QED BY <1>2, <1>5 DEF Contract!Insert, Contract!NewAccount, NewRow, Accounts

LEMMA UpdatePasswordMaps ==
    ASSUME PgInv, NEW i \in UserIds, NEW password \in Passwords, UpdatePassword(i, password)
    PROVE  Contract!UpdatePassword(i, password)
  <1> DEFINE row == [rows[i] EXCEPT !.password = password, !.tokenVersion = @ + 1]
  <1>1. i \in Present /\ rows' = [rows EXCEPT ![i] = row] /\ generated' = generated
    BY DEF UpdatePassword, Writable, PgInv, TypeOK
  <1>2. row # NoRow
    BY <1>1, UpdatePasswordIs, PgAssumption DEF PgInv
  <1>3. Accounts' = [Accounts EXCEPT ![i] = row]
    <2> HIDE DEF row
    <2> QED BY <1>1, <1>2, WriteMaps
  <1>4. Accounts[i] = rows[i] /\ i \in Contract!Live
    BY <1>1, AccountsAreRows
  <1>5. Accounts' = [Accounts EXCEPT ![i].password = password, ![i].tokenVersion = @ + 1]
    BY <1>3, <1>4 DEF Accounts
  <1> QED BY <1>4, <1>5 DEF Contract!UpdatePassword, Accounts

LEMMA RevokeTokensMaps ==
    ASSUME PgInv, NEW i \in UserIds, RevokeTokens(i)
    PROVE  Contract!RevokeTokens(i)
  <1> DEFINE row == [rows[i] EXCEPT !.tokenVersion = @ + 1]
  <1>1. i \in Present /\ rows' = [rows EXCEPT ![i] = row] /\ generated' = generated
    BY DEF RevokeTokens, Writable, PgInv, TypeOK
  <1>2. row # NoRow
    <2>1. row \in Row
      BY <1>1, RowTypes DEF PgInv, Row
    <2> QED BY <2>1, PgAssumption
  <1>3. Accounts' = [Accounts EXCEPT ![i] = row]
    <2> HIDE DEF row
    <2> QED BY <1>1, <1>2, WriteMaps
  <1>4. Accounts[i] = rows[i] /\ i \in Contract!Live
    BY <1>1, AccountsAreRows
  <1>5. Accounts' = [Accounts EXCEPT ![i].tokenVersion = @ + 1]
    BY <1>3, <1>4 DEF Accounts
  <1> QED BY <1>4, <1>5 DEF Contract!RevokeTokens, Accounts

(* The commit is the call of the contract; what was checked refuses exactly
   the last administrator. *)
LEMMA CommitMaps ==
    ASSUME PgInv, NEW c \in Calls, Commit(c)
    PROVE  \E name \in Usernames :
              \/ \E role \in Roles : Contract!UpdateUserRole(name, role)
              \/ Contract!DeleteUser(name)
  <1>1. PICK i \in Present : i = call[c].id
    BY CommitIs
  <1>2. PICK to \in Roles \cup {Deleted} : to = call[c].op.to
    BY CommitIs DEF Op
  <1>3. PICK name \in Usernames : name = call[c].op.username
    BY CommitIs DEF Op
  <1>4. /\ i \in Contract!Named(name) /\ Accounts[i] = rows[i] /\ i \in UserIds
        /\ rows' = [rows EXCEPT ![i] = IF to = Deleted THEN NoRow
                                       ELSE [rows[i] EXCEPT !.role = to]]
        /\ generated' = generated
    BY <1>1, <1>2, <1>3, CommitIs, AccountsAreRows DEF Commit
  <1>5. to # "admin" => ~Contract!IsLastAdmin(i)
    <2>1. RemovesAdmin(call[c]) => Admins \ {i} # {}
      BY <1>1, CommitIs
    <2>2. rows[i].role = "admin" /\ to # "admin" => RemovesAdmin(call[c])
      BY <1>1, <1>2, CommitIs DEF RemovesAdmin
    <2>3. rows[i].role # "admin" => i \notin Admins
      BY DEF Admins
    <2> QED BY <2>1, <2>2, <2>3, AccountsAreRows DEF Contract!IsLastAdmin
  <1>6. CASE to = Deleted
    <2>1. rows' = [rows EXCEPT ![i] = NoRow]
      BY <1>4, <1>6
    <2>2. i \in generated
      BY DEF PgInv, GeneratedIds
    <2>3. \A j \in UserIds : AccountOf(j)' = IF j = i THEN Deleted ELSE AccountOf(j)
      BY <1>4, <2>1, <2>2 DEF AccountOf, PgInv, TypeOK
    <2>4. Accounts' = [Accounts EXCEPT ![i] = Deleted]
      BY <2>3 DEF Accounts
    <2>5. ~Contract!IsLastAdmin(i)
      BY <1>5, <1>6, PgAssumption DEF Roles
    <2> QED BY <1>4, <2>4, <2>5 DEF Contract!DeleteUser, Accounts
  <1>7. CASE to # Deleted
    <2> DEFINE row == [rows[i] EXCEPT !.role = to]
    <2>1. rows' = [rows EXCEPT ![i] = row] /\ to \in Roles
      BY <1>4, <1>7
    <2>2. row # NoRow
      <3>1. row \in Row
        BY <2>1, RowTypes DEF PgInv, Row
      <3> QED BY <3>1, PgAssumption
    <2>3. Accounts' = [Accounts EXCEPT ![i] = row]
      <3> HIDE DEF row
      <3> QED BY <1>4, <2>1, <2>2, WriteMaps
    <2>4. Accounts' = [Accounts EXCEPT ![i].role = to]
      BY <1>4, <2>3 DEF Accounts
    <2> HIDE DEF row
    <2>5. Contract!UpdateUserRole(name, to)
      BY <1>4, <1>5, <2>4 DEF Contract!UpdateUserRole, Accounts
    <2> QED BY <2>1, <2>5
  <1> QED BY <1>6, <1>7

LEMMA StepMaps ==
    ASSUME PgInv, [Next]_vars
    PROVE  [Contract!Next]_Accounts
  <1> USE DEF Roles, Contract!Roles
  <1>1. ASSUME UNCHANGED table PROVE Accounts' = Accounts
    BY <1>1 DEF table, Accounts, AccountOf
  <1>2. ASSUME NEW name \in Usernames, NEW password \in Passwords, CreateUser(name, password)
        PROVE  Contract!Next
    BY <1>2, InsertMaps DEF CreateUser, Contract!CreateUser, Contract!Next
  <1>3. ASSUME NEW i \in UserIds, NEW password \in Passwords, UpdatePassword(i, password)
        PROVE  Contract!Next
    BY <1>3, UpdatePasswordMaps DEF Contract!Next
  <1>4. ASSUME NEW i \in UserIds, RevokeTokens(i) PROVE Contract!Next
    BY <1>4, RevokeTokensMaps DEF Contract!Next
  <1>5. ASSUME NEW c \in Calls, Commit(c) PROVE Contract!Next
    BY <1>5, CommitMaps DEF Contract!Next
  <1>6. ASSUME NEW c \in Calls,
               \/ SelectForUpdate(c) \/ UserNotFound(c) \/ CountAdmins(c) \/ Write(c)
               \/ LockAdminInvariant(c) \/ Fail(c)
               \/ \E name \in Usernames, to \in Roles \cup {Deleted} : BeginTx(c, name, to)
        PROVE  UNCHANGED table
    BY <1>6 DEF SelectForUpdate, UserNotFound, CountAdmins, Write, LockAdminInvariant, Fail,
                BeginTx, Rollback
  <1>7. ASSUME Restart PROVE Contract!Next \/ UNCHANGED table
    <2>1. ASSUME NEW password \in Passwords, Insert(DefaultAdmin, password, "admin")
          PROVE  Contract!Next
      BY <2>1, InsertMaps, PgAssumption DEF Contract!BootstrapAdmin, Contract!Next
    <2> QED BY <1>7, <2>1 DEF Restart
  <1>8. Crash \/ UNCHANGED vars => UNCHANGED table
    BY DEF Crash, vars, table
  <1>9. Contract!Next \/ UNCHANGED table
    BY <1>2, <1>3, <1>4, <1>5, <1>6, <1>7, <1>8 DEF Next, TxStep
  <1> QED BY <1>1, <1>9

(* PostgreSQL implements the UserStore interface, seen through its committed
   rows: a role change or a deletion takes effect at its commit or never. *)
THEOREM PgImplementsContract == Spec => ImplementsUserStore
  <1>1. PgInv /\ [Next]_vars => [Contract!Next]_[i \in UserIds |-> AccountOf(i)]
    BY StepMaps DEF Accounts
  <1> QED BY <1>1, InitMaps, PgInvHolds, PTL DEF Spec, ImplementsUserStore, Contract!Spec

-----------------------------------------------------------------------------
(* Who waits for whom: for the advisory lock, or for the row of the name. *)
WaitsFor(c, holder) ==
    \/ call[c].pc = "begun" /\ advisoryLock = holder
    \/ call[c].pc = "locked" /\ \E i \in Named(call[c].op.username) : rowLock[i] = holder

(* Nobody waits for a call that waits itself, and no two calls are past the
   advisory lock at the same time. *)
HoldersNeverWait ==
    /\ \A c, d, e \in Calls : ~(WaitsFor(c, d) /\ WaitsFor(d, e))
    /\ \A c, d \in Calls : call[c].pc \in Holding /\ call[d].pc \in Holding => c = d

(* The two locks of UpdateUserRole and DeleteUser are always taken in the same
   order, so a chain of waiting calls has length one and never closes: the
   transactions cannot deadlock, with or without timeouts. *)
THEOREM PgNeverDeadlocks == Spec => []HoldersNeverWait
  <1>1. PgInv => HoldersNeverWait
    <2> SUFFICES ASSUME PgInv PROVE HoldersNeverWait
      OBVIOUS
    <2>1. ASSUME NEW c \in Calls, NEW d \in Calls, call[c].pc \in Holding, call[d].pc \in Holding
          PROVE  c = d
      BY <2>1 DEF PgInv, LockDiscipline
    <2>2. ASSUME NEW c \in Calls, NEW d \in Calls, WaitsFor(c, d)
          PROVE  call[d].pc \in Holding /\ (call[c].pc = "locked" => call[d].pc \in Checked)
      BY <2>2, PgAssumption
         DEF WaitsFor, PgInv, LockDiscipline, Named, Present, Holding
    <2>3. ASSUME NEW c \in Calls, NEW d \in Calls, NEW e \in Calls, WaitsFor(c, d), WaitsFor(d, e)
          PROVE  FALSE
      <3>1. call[d].pc = "locked"
        BY <2>2, <2>3 DEF WaitsFor, Holding, Checked
      <3>2. call[e].pc \in Checked
        BY <2>2, <2>3, <3>1
      <3> QED BY <2>1, <3>1, <3>2 DEF Holding, Checked
    <2> QED BY <2>1, <2>3 DEF HoldersNeverWait
  <1> QED BY <1>1, PgInvHolds, PTL

-----------------------------------------------------------------------------
(* A statement writes one row: a row of a name that nobody has, under an id
   that was never used, or a row that is there, whose name it keeps and whose
   version it does not lower, or which it removes. *)
Writes(i, row) ==
    /\ rows' = [rows EXCEPT ![i] = row]
    /\ \/ /\ i \in Present /\ generated' = generated
          /\ row # NoRow => /\ row \in Row /\ row.username = rows[i].username
                            /\ rows[i].tokenVersion <= row.tokenVersion
       \/ /\ i \in UserIds \ generated /\ generated' = generated \cup {i}
          /\ row \in Row /\ Named(row.username) = {}

LEMMA InsertWrites ==
    ASSUME NEW name \in Usernames, NEW password \in Passwords, NEW role \in Roles,
           Insert(name, password, role)
    PROVE  \E i \in UserIds : Writes(i, NewRow(name, password, role))
  <1>1. NewRow(name, password, role) \in Row /\ NewRow(name, password, role).username = name
    BY NewRowType DEF NewRow
  <1> QED BY <1>1 DEF Insert, Writes

LEMMA CommitWrites ==
    ASSUME PgInv, NEW c \in Calls, Commit(c)
    PROVE  \E i \in UserIds : \E row : Writes(i, row)
  <1>1. PICK i \in Present : i = call[c].id
    BY CommitIs
  <1>2. PICK to \in Roles \cup {Deleted} : to = call[c].op.to
    BY CommitIs DEF Op
  <1> DEFINE row == [rows[i] EXCEPT !.role = to]
  <1>3. /\ rows' = [rows EXCEPT ![i] = IF to = Deleted THEN NoRow ELSE row]
        /\ i \in UserIds /\ generated' = generated
    BY <1>1, <1>2, CommitIs DEF Commit, Present
  <1>4. to # Deleted => /\ row \in Row /\ row.username = rows[i].username
                        /\ rows[i].tokenVersion <= row.tokenVersion
    BY RowTypes DEF PgInv, Row
  <1> HIDE DEF row
  <1>5. CASE to = Deleted
    <2>1. Writes(i, NoRow)
      BY <1>3, <1>5 DEF Writes
    <2> QED BY <1>3, <2>1
  <1>6. CASE to # Deleted
    <2>1. Writes(i, row)
      BY <1>3, <1>4, <1>6 DEF Writes
    <2> QED BY <1>3, <2>1
  <1> QED BY <1>5, <1>6

LEMMA UpdateWrites ==
    ASSUME PgInv, NEW i \in UserIds,
           (\E password \in Passwords : UpdatePassword(i, password)) \/ RevokeTokens(i)
    PROVE  \E row : Writes(i, row)
  <1>1. ASSUME NEW password \in Passwords, UpdatePassword(i, password)
        PROVE  \E row : Writes(i, row)
    <2> DEFINE row == [rows[i] EXCEPT !.password = password, !.tokenVersion = @ + 1]
    <2>1. i \in Present /\ generated' = generated /\ rows' = [rows EXCEPT ![i] = row]
      BY <1>1 DEF UpdatePassword, Writable, PgInv, TypeOK
    <2>2. row \in Row /\ row.username = rows[i].username
      BY <2>1, UpdatePasswordIs DEF PgInv
    <2>3. row.tokenVersion = rows[i].tokenVersion + 1 /\ rows[i].tokenVersion \in Nat
      <3>1. rows[i] \in Row
        BY <2>1, RowTypes DEF PgInv
      <3> QED BY <3>1 DEF Row
    <2> HIDE DEF row
    <2>4. Writes(i, row)
      BY <2>1, <2>2, <2>3 DEF Writes
    <2> QED BY <2>4
  <1>2. CASE RevokeTokens(i)
    <2> DEFINE row == [rows[i] EXCEPT !.tokenVersion = @ + 1]
    <2>1. i \in Present /\ generated' = generated /\ rows' = [rows EXCEPT ![i] = row]
      BY <1>2 DEF RevokeTokens, Writable, PgInv, TypeOK
    <2>2. /\ row \in Row /\ row.username = rows[i].username
          /\ row.tokenVersion = rows[i].tokenVersion + 1 /\ rows[i].tokenVersion \in Nat
      BY <2>1, RowTypes DEF PgInv, Row
    <2> HIDE DEF row
    <2>3. Writes(i, row)
      BY <2>1, <2>2 DEF Writes
    <2> QED BY <2>3
  <1> QED BY <1>1, <1>2

LEMMA StepWrites ==
    ASSUME PgInv, [Next]_vars
    PROVE  UNCHANGED table \/ \E i \in UserIds : \E row : Writes(i, row)
  <1>1. ASSUME NEW name \in Usernames, NEW password \in Passwords, CreateUser(name, password)
        PROVE  \E i \in UserIds : \E row : Writes(i, row)
    BY <1>1, InsertWrites DEF CreateUser, Roles
  <1>2. CASE Restart
    BY <1>2, InsertWrites, PgAssumption DEF Restart, Roles
  <1>3. ASSUME NEW c \in Calls,
               \/ SelectForUpdate(c) \/ UserNotFound(c) \/ CountAdmins(c) \/ Write(c)
               \/ LockAdminInvariant(c) \/ Fail(c)
               \/ \E name \in Usernames, to \in Roles \cup {Deleted} : BeginTx(c, name, to)
        PROVE  UNCHANGED table
    BY <1>3 DEF SelectForUpdate, UserNotFound, CountAdmins, Write, LockAdminInvariant, Fail,
                BeginTx, Rollback
  <1>4. Crash \/ UNCHANGED vars => UNCHANGED table
    BY DEF Crash, vars, table
  <1> QED BY <1>1, <1>2, <1>3, <1>4, CommitWrites, UpdateWrites DEF Next, TxStep

(* No two rows have the same username. *)
UniqueNames == \A i, j \in Present : rows[i].username = rows[j].username => i = j

LEMMA NamesStayUnique ==
    ASSUME PgInv, UniqueNames, [Next]_vars
    PROVE  UniqueNames'
  <1>1. CASE UNCHANGED table
    BY <1>1 DEF table, UniqueNames, Present
  <1>2. ASSUME NEW i \in UserIds, NEW row, Writes(i, row) PROVE UniqueNames'
    <2>1. rows'[i] = row /\ \A j \in UserIds \ {i} : rows'[j] = rows[j]
      BY <1>2 DEF Writes, PgInv, TypeOK
    <2>2. CASE i \in Present
      <3>1. \A j \in Present' : j \in Present /\ rows'[j].username = rows[j].username
        BY <1>2, <2>1, <2>2 DEF Writes, Present, PgInv, GeneratedIds
      <3> QED BY <3>1 DEF UniqueNames
    <2>3. CASE i \notin Present
      <3>1. Named(row.username) = {}
        BY <1>2, <2>3 DEF Writes
      <3>2. ASSUME NEW j \in Present', j # i
            PROVE  /\ j \in Present /\ rows'[j].username = rows[j].username
                   /\ rows'[j].username # row.username
        BY <2>1, <3>1, <3>2 DEF Present, Named
      <3> QED BY <2>1, <3>2 DEF UniqueNames
    <2> QED BY <2>2, <2>3
  <1> QED BY <1>1, <1>2, StepWrites

(* ErrUsernameExists on PostgreSQL: registrations, the bootstrap of replicas
   that start and deletions never leave two accounts with one username. *)
THEOREM PgUsernamesUnique == Spec => []Contract!UniqueUsernames
  <1>1. Init => UniqueNames
    BY PgAssumption DEF Init, UniqueNames, Present
  <1>2. PgInv /\ UniqueNames /\ [Next]_vars => UniqueNames'
    BY NamesStayUnique
  <1>3. PgInv /\ UniqueNames => Contract!UniqueUsernames
    <2> SUFFICES ASSUME PgInv, UniqueNames, NEW i \in Contract!Live, NEW j \in Contract!Live,
                        Accounts[i].username = Accounts[j].username
                 PROVE  i = j
      BY DEF Contract!UniqueUsernames, Accounts
    <2>1. i \in Present /\ j \in Present
      BY AccountsAreRows DEF Contract!Live
    <2> QED BY <2>1, AccountsAreRows DEF UniqueNames
  <1> QED BY <1>1, <1>2, <1>3, PgInvHolds, PTL DEF Spec

(* One step of the table, for the account it touches and every other. *)
RowStep ==
    \A i \in UserIds :
        /\ i \in Present /\ i \in Present' => rows[i].tokenVersion <= rows'[i].tokenVersion
        /\ i \in generated \ Present => i \in generated' \ Present'

LEMMA VersionsKept ==
    ASSUME PgInv, [Next]_vars
    PROVE  RowStep
  <1>1. \A i \in Present : rows[i].tokenVersion \in Nat
    BY RowTypes DEF PgInv
  <1>2. CASE UNCHANGED table
    BY <1>1, <1>2 DEF table, RowStep, Present
  <1>3. ASSUME NEW i \in UserIds, NEW row, Writes(i, row) PROVE RowStep
    <2>1. rows'[i] = row /\ \A j \in UserIds \ {i} : rows'[j] = rows[j]
      BY <1>3 DEF Writes, PgInv, TypeOK
    <2>2. generated \subseteq generated' /\ i \notin generated \ Present
      BY <1>3 DEF Writes
    <2>3. i \in Present /\ row # NoRow => rows[i].tokenVersion <= row.tokenVersion
      BY <1>3 DEF Writes, PgInv, GeneratedIds
    <2> SUFFICES ASSUME NEW j \in UserIds
                 PROVE  /\ j \in Present /\ j \in Present' =>
                              rows[j].tokenVersion <= rows'[j].tokenVersion
                        /\ j \in generated \ Present => j \in generated' \ Present'
      BY DEF RowStep
    <2>4. CASE j = i
      BY <2>1, <2>2, <2>3, <2>4 DEF Present
    <2>5. CASE j # i
      <3>1. rows'[j] = rows[j]
        BY <2>1, <2>5
      <3> QED BY <1>1, <2>2, <3>1 DEF Present
    <2> QED BY <2>4, <2>5
  <1> QED BY <1>2, <1>3, StepWrites

(* On PostgreSQL a token version never goes back and the id of a deleted
   account never returns, through commits, rollbacks, crashes and restarts. *)
THEOREM PgVersionsOnlyGrow == Spec => Contract!VersionsOnlyGrow
  <1>1. PgInv /\ PgInv' /\ [Next]_vars => Contract!VersionStep
    <2> SUFFICES ASSUME PgInv, PgInv', [Next]_vars, NEW i \in UserIds
                 PROVE  /\ i \in Contract!Live /\ i \in Contract!Live' =>
                              Accounts[i].tokenVersion <= Accounts'[i].tokenVersion
                        /\ Accounts[i] = Deleted => Accounts'[i] = Deleted
      BY DEF Contract!VersionStep, Accounts
    <2>1. RowStep
      BY VersionsKept
    <2>2. i \in Contract!Live => i \in Present /\ Accounts[i] = rows[i]
      BY AccountsAreRows
    <2>3. i \in Contract!Live' => i \in Present' /\ Accounts'[i] = rows'[i]
      BY DEF PgInv, TypeOK, Contract!Live, Accounts, AccountOf, Present
    <2>4. Accounts[i] = Deleted => i \in generated \ Present
      BY RowTypes, PgAssumption DEF PgInv, Accounts, AccountOf, Present
    <2>5. i \in generated' \ Present' => Accounts'[i] = Deleted
      BY DEF Accounts, AccountOf, Present
    <2> QED BY <2>1, <2>2, <2>3, <2>4, <2>5 DEF RowStep
  <1>2. PgInv /\ PgInv' /\ [Next]_vars =>
           [Contract!VersionStep]_[i \in UserIds |-> AccountOf(i)]
    BY <1>1
  <1> QED BY <1>2, PgInvHolds, PTL DEF Spec, Contract!VersionsOnlyGrow
=============================================================================
