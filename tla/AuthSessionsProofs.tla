------------------------- MODULE AuthSessionsProofs -------------------------
(***************************************************************************)
(* Proofs about the UserStore contract and the handlers that run on it.    *)
(*                                                                         *)
(* First the contract alone: whatever implements it keeps an administrator,*)
(* unique usernames and versions that only grow.  Then the authentication  *)
(* handlers: every step of theirs is a call of the store or leaves it      *)
(* alone, so all that carries over, and with it the fact that a token the  *)
(* middleware refuses stays refused.                                       *)
(***************************************************************************)
EXTENDS AuthSessions, TLAPS

Inv == TypeOK /\ AdminExists /\ UniqueUsernames

(* The record of a new account. *)
LEMMA NewAccountType ==
    ASSUME NEW name \in Usernames, NEW password \in Passwords, NEW role \in Roles
    PROVE  NewAccount(name, password, role) \in Account
  BY DEF NewAccount, Account

(* What the invariant says of one live account. *)
LEMMA LiveAccount ==
    ASSUME TypeOK, NEW i \in Live
    PROVE  i \in UserIds /\ accounts[i] \in Account
  BY DEF TypeOK, Live

(* The initial state. *)
LEMMA InitInv == Init => Inv
  <1> SUFFICES ASSUME Init PROVE Inv
    OBVIOUS
  <1>1. PICK i \in UserIds, password \in Passwords :
          accounts = [j \in UserIds |->
                        IF j = i THEN NewAccount(DefaultAdmin, password, "admin")
                                 ELSE Unused]
    BY DEF Init
  <1>2. NewAccount(DefaultAdmin, password, "admin") \in Account
    BY NewAccountType, DefaultAdminAssumption DEF Roles
  <1>3. TypeOK
    BY <1>1, <1>2 DEF TypeOK
  <1>4. Live = {i}
    BY <1>1, <1>2, SentinelAssumption DEF Live
  <1>5. AdminExists
    BY <1>1, <1>4 DEF AdminExists, Admins, NewAccount
  <1>6. UniqueUsernames
    BY <1>4 DEF UniqueUsernames
  <1> QED
    BY <1>3, <1>5, <1>6 DEF Inv

(* An update that keeps the account's username and does not take the last
   administrator's role away keeps the three parts of the invariant. *)
LEMMA UpdateInv ==
    ASSUME Inv, NEW i \in Live, NEW a \in Account,
           a.username = accounts[i].username,
           a.role = "admin" \/ Admins # {i},
           accounts' = [accounts EXCEPT ![i] = a]
    PROVE  Inv'
  <1>1. i \in UserIds /\ accounts[i] \in Account
    BY LiveAccount DEF Inv
  <1>2. TypeOK'
    BY <1>1 DEF Inv, TypeOK
  <1>3. Live' = Live
    BY <1>1, SentinelAssumption DEF Inv, TypeOK, Live
  <1>4. accounts'[i] = a /\ \A j \in Live \ {i} : accounts'[j] = accounts[j]
    BY <1>1 DEF Inv, TypeOK, Live
  <1>5. UniqueUsernames'
    BY <1>1, <1>3, <1>4 DEF Inv, UniqueUsernames
  <1>6. AdminExists'
    <2>1. CASE a.role = "admin"
      BY <2>1, <1>3, <1>4 DEF AdminExists, Admins
    <2>2. CASE Admins # {i}
      <3>1. PICK j \in Admins : j # i
        BY <2>2 DEF Inv, AdminExists
      <3> QED
        BY <3>1, <1>3, <1>4 DEF AdminExists, Admins
    <2> QED
      BY <2>1, <2>2
  <1> QED
    BY <1>2, <1>5, <1>6 DEF Inv

(* The methods that change who exists. *)
LEMMA InsertInv ==
    ASSUME Inv, NEW i \in UserIds, NEW name \in Usernames,
           NEW password \in Passwords, NEW role \in Roles,
           Insert(i, name, password, role)
    PROVE  Inv'
  <1> DEFINE a == NewAccount(name, password, role)
  <1>1. a \in Account /\ a.username = name
    BY NewAccountType DEF NewAccount
  <1>2. accounts[i] = Unused /\ Named(name) = {}
        /\ accounts' = [accounts EXCEPT ![i] = a]
    BY DEF Insert
  <1> HIDE DEF a
  <1>3. TypeOK'
    BY <1>1, <1>2 DEF Inv, TypeOK
  <1>4. Live' = Live \cup {i} /\ i \notin Live
    BY <1>1, <1>2, SentinelAssumption DEF Inv, TypeOK, Live
  <1>5. accounts'[i] = a /\ \A j \in Live : accounts'[j] = accounts[j]
    BY <1>2, <1>4 DEF Inv, TypeOK, Live
  <1>6. UniqueUsernames'
    BY <1>1, <1>2, <1>4, <1>5 DEF Inv, UniqueUsernames, Named
  <1>7. AdminExists'
    BY <1>4, <1>5 DEF Inv, AdminExists, Admins
  <1> QED
    BY <1>3, <1>6, <1>7 DEF Inv

LEMMA DeleteUserInv ==
    ASSUME Inv, NEW name \in Usernames, DeleteUser(name)
    PROVE  Inv'
  <1>1. PICK i \in Named(name) :
          ~IsLastAdmin(i) /\ accounts' = [accounts EXCEPT ![i] = Deleted]
    BY DEF DeleteUser
  <1>2. i \in UserIds
    BY DEF Named, Live
  <1>3. TypeOK'
    BY <1>1, <1>2 DEF Inv, TypeOK
  <1>4. Live' = Live \ {i} /\ \A j \in Live' : accounts'[j] = accounts[j]
    BY <1>1, <1>2 DEF Inv, TypeOK, Live
  <1>5. UniqueUsernames'
    BY <1>4 DEF Inv, UniqueUsernames
  <1>6. PICK j \in Admins : j # i
    BY <1>1 DEF Inv, AdminExists, IsLastAdmin
  <1>7. AdminExists'
    BY <1>4, <1>6 DEF AdminExists, Admins
  <1> QED
    BY <1>3, <1>5, <1>7 DEF Inv

(* Every method keeps the invariant. *)
LEMMA NextInv ==
    ASSUME Inv, [Next]_accounts
    PROVE  Inv'
  <1>1. CASE \E i \in UserIds, password \in Passwords :
               \/ \E name \in Usernames : CreateUser(i, name, password)
               \/ BootstrapAdmin(i, password)
    BY <1>1, InsertInv, DefaultAdminAssumption DEF CreateUser, BootstrapAdmin, Roles
  <1>2. ASSUME NEW i \in UserIds, NEW password \in Passwords,
               UpdatePassword(i, password)
        PROVE  Inv'
    <2> DEFINE b == [accounts[i] EXCEPT !.password = password]
               a == [b EXCEPT !.tokenVersion = accounts[i].tokenVersion + 1]
    <2>1. i \in Live /\ accounts[i] \in Account
      BY <1>2, LiveAccount DEF Inv, UpdatePassword
    <2>5. b \in Account /\ b.username = accounts[i].username /\ b.role = accounts[i].role
      BY <2>1 DEF Account
    <2>6. accounts[i].tokenVersion + 1 \in Nat
      BY <2>1 DEF Account
    <2>2. a \in Account /\ a.username = accounts[i].username /\ a.role = accounts[i].role
      <3> HIDE DEF b
      <3> QED
        BY <2>5, <2>6 DEF Account
    <2>3. accounts' = [accounts EXCEPT ![i] = a]
      BY <1>2, <2>1 DEF UpdatePassword, Inv, TypeOK
    <2>4. a.role = "admin" \/ Admins # {i}
      BY <2>1, <2>2 DEF Admins
    <2> HIDE DEF a
    <2> QED
      BY <2>1, <2>2, <2>3, <2>4, UpdateInv
  <1>3. ASSUME NEW i \in UserIds, RevokeTokens(i)
        PROVE  Inv'
    <2> DEFINE a == [accounts[i] EXCEPT !.tokenVersion = @ + 1]
    <2>1. i \in Live /\ accounts[i] \in Account
      BY <1>3, LiveAccount DEF Inv, RevokeTokens
    <2>2. a \in Account /\ a.username = accounts[i].username /\ a.role = accounts[i].role
      BY <2>1 DEF Account
    <2>3. accounts' = [accounts EXCEPT ![i] = a]
      BY <1>3, <2>1 DEF RevokeTokens, Inv, TypeOK
    <2>4. a.role = "admin" \/ Admins # {i}
      BY <2>1, <2>2 DEF Admins
    <2> HIDE DEF a
    <2> QED
      BY <2>1, <2>2, <2>3, <2>4, UpdateInv
  <1>4. ASSUME NEW name \in Usernames, NEW role \in Roles, UpdateUserRole(name, role)
        PROVE  Inv'
    <2>1. PICK i \in Named(name) :
            /\ role # "admin" => ~IsLastAdmin(i)
            /\ accounts' = [accounts EXCEPT ![i].role = role]
      BY <1>4 DEF UpdateUserRole
    <2> DEFINE a == [accounts[i] EXCEPT !.role = role]
    <2>2. i \in Live /\ accounts[i] \in Account
      BY LiveAccount DEF Inv, Named
    <2>3. a \in Account /\ a.username = accounts[i].username /\ a.role = role
      BY <2>2 DEF Account
    <2>4. accounts' = [accounts EXCEPT ![i] = a]
      BY <2>1, <2>2 DEF Inv, TypeOK
    <2>5. a.role = "admin" \/ Admins # {i}
      BY <2>1, <2>3 DEF IsLastAdmin
    <2> HIDE DEF a
    <2> QED
      BY <2>2, <2>3, <2>4, <2>5, UpdateInv
  <1>5. CASE UNCHANGED accounts
    BY <1>5 DEF Inv, TypeOK, AdminExists, Admins, UniqueUsernames, Live
  <1> QED
    BY <1>1, <1>2, <1>3, <1>4, <1>5, DeleteUserInv DEF Next

(* Every implementation of the interface keeps well-formed accounts, an
   administrator and unique usernames. *)
THEOREM StoreInvariant == Spec => []Inv
  BY InitInv, NextInv, PTL DEF Spec

(* The last-administrator guard of the interface (ErrLastAdmin): every store
   that implements it always has an administrator. *)
THEOREM StoreKeepsAdmin == Spec => []AdminExists
  BY StoreInvariant, PTL DEF Inv

(* No method lowers a version or revives an account. *)
LEMMA NextVersions ==
    ASSUME TypeOK, [Next]_accounts
    PROVE  VersionStep
  <1> SUFFICES ASSUME NEW i \in UserIds
               PROVE  /\ i \in Live /\ i \in Live' =>
                            accounts[i].tokenVersion <= accounts'[i].tokenVersion
                      /\ accounts[i] = Deleted => accounts'[i] = Deleted
    BY DEF VersionStep
  <1>1. i \in Live => accounts[i] \in Account /\ accounts[i].tokenVersion \in Nat
    BY LiveAccount DEF Account
  <1>2. ASSUME NEW j \in UserIds, NEW name \in Usernames, NEW password \in Passwords,
               NEW role \in Roles, Insert(j, name, password, role)
        PROVE  /\ i \in Live => accounts'[i] = accounts[i]
               /\ accounts[i] = Deleted => accounts'[i] = Deleted
    BY <1>2, SentinelAssumption DEF Insert, TypeOK, Live
  <1>3. ASSUME NEW j \in UserIds, NEW password \in Passwords, UpdatePassword(j, password)
        PROVE  /\ i \in Live => accounts[i].tokenVersion <= accounts'[i].tokenVersion
               /\ accounts[i] = Deleted => accounts'[i] = Deleted
    BY <1>1, <1>3 DEF UpdatePassword, TypeOK, Live, Account
  <1>4. ASSUME NEW j \in UserIds, RevokeTokens(j)
        PROVE  /\ i \in Live => accounts[i].tokenVersion <= accounts'[i].tokenVersion
               /\ accounts[i] = Deleted => accounts'[i] = Deleted
    BY <1>1, <1>4 DEF RevokeTokens, TypeOK, Live, Account
  <1>5. ASSUME NEW name \in Usernames, NEW role \in Roles, UpdateUserRole(name, role)
        PROVE  /\ i \in Live => accounts'[i].tokenVersion = accounts[i].tokenVersion
               /\ accounts[i] = Deleted => accounts'[i] = Deleted
    BY <1>1, <1>5 DEF UpdateUserRole, Named, TypeOK, Live, Account
  <1>6. ASSUME NEW name \in Usernames, DeleteUser(name)
        PROVE  /\ i \in Live /\ i \in Live' => accounts'[i] = accounts[i]
               /\ accounts[i] = Deleted => accounts'[i] = Deleted
    BY <1>6 DEF DeleteUser, Named, TypeOK, Live
  <1>7. CASE UNCHANGED accounts
    BY <1>1, <1>7
  <1>8. CASE Next
    BY <1>1, <1>2, <1>3, <1>4, <1>5, <1>6, <1>8, DefaultAdminAssumption
       DEF Next, CreateUser, BootstrapAdmin, Roles
  <1> QED
    BY <1>7, <1>8

(* No method makes an id that was used unused. *)
LEMMA NextKeepsIds ==
    ASSUME TypeOK, [Next]_accounts, NEW i \in UserIds, accounts[i] # Unused
    PROVE  accounts'[i] # Unused
  <1>1. ASSUME NEW j \in UserIds, NEW a \in Account \cup {Deleted},
               accounts' = [accounts EXCEPT ![j] = a]
        PROVE  accounts'[i] # Unused
    BY <1>1, SentinelAssumption DEF TypeOK
  <1>2. ASSUME NEW j \in UserIds, NEW name \in Usernames, NEW password \in Passwords,
               NEW role \in Roles, Insert(j, name, password, role)
        PROVE  accounts'[i] # Unused
    BY <1>1, <1>2, NewAccountType DEF Insert
  <1>3. ASSUME NEW j \in UserIds, NEW password \in Passwords, UpdatePassword(j, password)
        PROVE  accounts'[i] # Unused
    <2>1. j \in Live /\ accounts[j] \in Account
      BY <1>3, LiveAccount DEF UpdatePassword
    <2> DEFINE b == [accounts[j] EXCEPT !.password = password]
    <2>2. b \in Account /\ accounts[j].tokenVersion + 1 \in Nat
      BY <2>1 DEF Account
    <2>3. [b EXCEPT !.tokenVersion = accounts[j].tokenVersion + 1] \in Account
      <3> HIDE DEF b
      <3> QED BY <2>2 DEF Account
    <2>4. accounts' = [accounts EXCEPT ![j] =
                         [b EXCEPT !.tokenVersion = accounts[j].tokenVersion + 1]]
      BY <1>3, <2>1 DEF UpdatePassword, TypeOK
    <2> QED
      BY <1>1, <2>3, <2>4
  <1>4. ASSUME NEW j \in UserIds, RevokeTokens(j)
        PROVE  accounts'[i] # Unused
    <2>1. j \in Live /\ accounts[j] \in Account
      BY <1>4, LiveAccount DEF RevokeTokens
    <2>2. [accounts[j] EXCEPT !.tokenVersion = @ + 1] \in Account
      BY <2>1 DEF Account
    <2> QED
      BY <1>1, <1>4, <2>1, <2>2 DEF RevokeTokens, TypeOK
  <1>5. ASSUME NEW name \in Usernames, NEW role \in Roles, UpdateUserRole(name, role)
        PROVE  accounts'[i] # Unused
    <2>1. PICK j \in Named(name) : accounts' = [accounts EXCEPT ![j].role = role]
      BY <1>5 DEF UpdateUserRole
    <2>2. j \in UserIds /\ accounts[j] \in Account
      BY LiveAccount DEF Named
    <2>3. [accounts[j] EXCEPT !.role = role] \in Account
      BY <2>2 DEF Account
    <2> QED
      BY <1>1, <2>1, <2>2, <2>3 DEF TypeOK
  <1>6. ASSUME NEW name \in Usernames, DeleteUser(name)
        PROVE  accounts'[i] # Unused
    BY <1>1, <1>6 DEF DeleteUser, Named, Live
  <1>7. CASE UNCHANGED accounts
    BY <1>7
  <1>8. CASE Next
    BY <1>2, <1>3, <1>4, <1>5, <1>6, <1>8, DefaultAdminAssumption
       DEF Next, CreateUser, BootstrapAdmin, Roles
  <1> QED
    BY <1>7, <1>8

(* No call of the interface changes a password and keeps the version. *)
LEMMA NextBumps ==
    ASSUME TypeOK, [Next]_accounts, NEW i \in Live, i \in Live',
           accounts'[i].password # accounts[i].password
    PROVE  accounts[i].tokenVersion < accounts'[i].tokenVersion
  <1>1. i \in UserIds /\ accounts[i] \in Account /\ accounts[i].tokenVersion \in Nat
    BY LiveAccount DEF Account
  <1>2. ASSUME NEW j \in UserIds, NEW name \in Usernames, NEW password \in Passwords,
               NEW role \in Roles, Insert(j, name, password, role)
        PROVE  FALSE
    BY <1>1, <1>2 DEF Insert, TypeOK, Live
  <1>3. ASSUME NEW j \in UserIds, NEW password \in Passwords, UpdatePassword(j, password)
        PROVE  accounts[i].tokenVersion < accounts'[i].tokenVersion
    BY <1>1, <1>3 DEF UpdatePassword, TypeOK, Live, Account
  <1>4. ASSUME NEW j \in UserIds, RevokeTokens(j)
        PROVE  FALSE
    BY <1>1, <1>4 DEF RevokeTokens, TypeOK, Live, Account
  <1>5. ASSUME NEW name \in Usernames, NEW role \in Roles, UpdateUserRole(name, role)
        PROVE  FALSE
    BY <1>1, <1>5 DEF UpdateUserRole, Named, TypeOK, Live, Account
  <1>6. ASSUME NEW name \in Usernames, DeleteUser(name)
        PROVE  FALSE
    BY <1>1, <1>6 DEF DeleteUser, Named, TypeOK, Live
  <1>7. CASE UNCHANGED accounts
    BY <1>7
  <1>8. CASE Next
    BY <1>2, <1>3, <1>4, <1>5, <1>6, <1>8, DefaultAdminAssumption
       DEF Next, CreateUser, BootstrapAdmin, Roles
  <1> QED
    BY <1>7, <1>8

(* ErrUsernameExists: no sequence of calls gives two accounts the same username. *)
THEOREM StoreUsernamesUnique == Spec => []UniqueUsernames
  <1>1. Inv => UniqueUsernames
    BY DEF Inv
  <1> QED
    BY <1>1, StoreInvariant, PTL

(* Versions only grow and ids are not reused, so what a token version has
   revoked no later step of any store brings back. *)
THEOREM StoreVersionsOnlyGrow == Spec => VersionsOnlyGrow
  <1>1. Inv /\ [Next]_accounts => [VersionStep]_accounts
    BY NextVersions DEF Inv
  <1> QED
    BY <1>1, StoreInvariant, PTL DEF Spec, VersionsOnlyGrow

-----------------------------------------------------------------------------
AuthInv == AuthTypeOK /\ Inv /\ TokensNotAhead

-----------------------------------------------------------------------------
(* What the position of a request says of its locals. *)
LEMMA RequestLocals ==
    ASSUME AuthTypeOK, NEW r \in Requests
    PROVE  /\ req[r] \in RequestState
           /\ req[r].pc = "login" => req[r] \in LoginState
           /\ req[r].pc = "authed" => req[r] \in AuthedState
           /\ req[r].pc = "verified" => req[r] \in VerifiedState
  <1>1. req[r] \in RequestState
    BY DEF AuthTypeOK
  <1>2. CASE req[r] = Idle
    BY <1>1, <1>2 DEF Idle
  <1>3. CASE req[r] \in LoginState
    BY <1>1, <1>3 DEF LoginState
  <1>4. CASE req[r] \in AuthedState
    BY <1>1, <1>4 DEF AuthedState
  <1>5. CASE req[r] \in VerifiedState
    BY <1>1, <1>5 DEF VerifiedState
  <1> QED
    BY <1>1, <1>2, <1>3, <1>4, <1>5 DEF RequestState

(* The locals of a request have the types its position gives them. *)
LEMMA LocalIds ==
    ASSUME AuthTypeOK, NEW r \in Requests
    PROVE  /\ req[r].pc \in {"authed", "verified"} => req[r].user_id \in UserIds
           /\ req[r].pc = "authed" => req[r].username \in Usernames
           /\ req[r].pc = "verified" => req[r].new \in Passwords
           /\ req[r].pc = "login" => req[r].username \in Usernames
  BY RequestLocals DEF LoginState, AuthedState, VerifiedState

(* Handlers reach the store only through its interface. *)
LEMMA StepIsStoreCall ==
    ASSUME AuthTypeOK, [AuthNext]_vars
    PROVE  [Next]_accounts
  <1>1. CASE UNCHANGED vars
    BY <1>1 DEF vars
  <1>2. ASSUME NEW name \in Usernames, NEW password \in Passwords,
               Register(name, password)
        PROVE  Next
    BY <1>2 DEF Register, Next
  <1>3. ASSUME NEW r \in Requests, RequestStep(r)
        PROVE  Next \/ UNCHANGED accounts
    <2>1. CASE \E name \in Usernames, password \in Passwords :
                  LoginVerify(r, name, password)
      BY <2>1 DEF LoginVerify
    <2>2. CASE LoginIssue(r) \/ AnswerOnly(r) \/ \E t \in issued : Authenticate(r, t)
      BY <2>2 DEF LoginIssue, AnswerOnly, Authenticate
    <2>3. CASE \E current, new \in Passwords : ChangePasswordVerify(r, current, new)
      BY <2>3 DEF ChangePasswordVerify
    <2>4. CASE ChangePasswordUpdate(r)
      BY <2>4, LocalIds DEF ChangePasswordUpdate, Next
    <2>5. CASE RevokeSessions(r)
      BY <2>5, LocalIds DEF RevokeSessions, Next
    <2>6. CASE \E name \in Usernames, role \in Roles : ChangeRole(r, name, role)
      BY <2>6 DEF ChangeRole, Next
    <2>7. CASE \E name \in Usernames : RemoveUser(r, name)
      BY <2>7 DEF RemoveUser, Next
    <2> QED
      BY <1>3, <2>1, <2>2, <2>3, <2>4, <2>5, <2>6, <2>7 DEF RequestStep
  <1> QED
    BY <1>1, <1>2, <1>3 DEF AuthNext

-----------------------------------------------------------------------------
(* The initial state. *)
LEMMA AuthInitInv == AuthInit => AuthInv
  <1> SUFFICES ASSUME AuthInit PROVE AuthInv
    OBVIOUS
  <1>1. Inv
    BY InitInv DEF AuthInit
  <1>2. AuthTypeOK
    BY <1>1 DEF AuthInit, AuthTypeOK, Inv, RequestState
  <1>3. TokensNotAhead
    BY DEF AuthInit, TokensNotAhead
  <1> QED
    BY <1>1, <1>2, <1>3 DEF AuthInv

(* The locals a step leaves behind are well formed. *)
LEMMA StepRequests ==
    ASSUME AuthInv, [AuthNext]_vars
    PROVE  req' \in [Requests -> RequestState]
  <1>1. req \in [Requests -> RequestState] /\ issued \subseteq Token /\ TypeOK
    BY DEF AuthInv, AuthTypeOK
  <1>2. ASSUME NEW r \in Requests, NEW state \in RequestState, Goto(r, state)
        PROVE  req' \in [Requests -> RequestState]
    BY <1>1, <1>2 DEF Goto
  <1>3. ASSUME NEW r \in Requests, Answer(r)
        PROVE  req' \in [Requests -> RequestState]
    BY <1>2, <1>3 DEF Answer, RequestState
  <1>4. CASE UNCHANGED req
    BY <1>1, <1>4
  <1>5. ASSUME NEW r \in Requests, RequestStep(r)
        PROVE  req' \in [Requests -> RequestState]
    <2>1. ASSUME NEW name \in Usernames, NEW password \in Passwords,
                 LoginVerify(r, name, password)
          PROVE  req' \in [Requests -> RequestState]
      BY <1>2, <2>1 DEF LoginVerify, RequestState, LoginState
    <2>2. ASSUME NEW t \in issued, Authenticate(r, t)
          PROVE  req' \in [Requests -> RequestState]
      <3>1. t.user_id \in UserIds /\ accounts[t.user_id] \in Account
        BY <1>1, <2>2, LiveAccount DEF Authenticate, Accepted
      <3>2. [pc |-> "authed", user_id |-> t.user_id,
             username |-> accounts[t.user_id].username,
             role |-> accounts[t.user_id].role] \in RequestState
        BY <3>1 DEF RequestState, AuthedState, Account
      <3> QED
        BY <1>2, <2>2, <3>2 DEF Authenticate
    <2>3. ASSUME NEW current \in Passwords, NEW new \in Passwords,
                 ChangePasswordVerify(r, current, new)
          PROVE  req' \in [Requests -> RequestState]
      <3>1. [pc |-> "verified", user_id |-> req[r].user_id,
             username |-> req[r].username,
             new |-> new] \in RequestState
        BY <2>3, LocalIds DEF AuthInv, ChangePasswordVerify, RequestState, VerifiedState
      <3> QED
        BY <1>2, <1>3, <2>3, <3>1 DEF ChangePasswordVerify
    <2> QED
      BY <1>3, <1>5, <2>1, <2>2, <2>3
         DEF RequestStep, LoginIssue, ChangePasswordUpdate, RevokeSessions,
             ChangeRole, RemoveUser, AnswerOnly
  <1> QED
    BY <1>4, <1>5 DEF AuthNext, Register, vars

(* A token that was not there before the step is made from its account as the
   step leaves it. *)
LEMMA NewTokens ==
    ASSUME AuthInv, [AuthNext]_vars, NEW t \in issued', t \notin issued
    PROVE  /\ t \in Token
           /\ t.user_id \in Live'
           /\ t.token_version = accounts'[t.user_id].tokenVersion
  <1>1. TypeOK
    BY DEF AuthInv, Inv
  <1>2. ASSUME NEW name \in Usernames, NEW password \in Passwords,
               Register(name, password)
        PROVE  /\ t \in Token
               /\ t.user_id \in Live'
               /\ t.token_version = accounts'[t.user_id].tokenVersion
    <2>1. PICK i \in UserIds : /\ CreateUser(i, name, password)
                               /\ t = [user_id |-> i, token_version |-> 0]
      BY <1>2 DEF Register
    <2>2. accounts'[i] = NewAccount(name, password, "user")
      BY <1>1, <2>1 DEF CreateUser, Insert, TypeOK
    <2>3. NewAccount(name, password, "user") \in Account
      BY NewAccountType DEF Roles
    <2>4. i \in Live'
      BY <2>2, <2>3, SentinelAssumption DEF Live
    <2> QED
      BY <2>1, <2>2, <2>4 DEF Token, NewAccount
  <1>3. ASSUME NEW r \in Requests, LoginIssue(r)
        PROVE  /\ t \in Token
               /\ t.user_id \in Live'
               /\ t.token_version = accounts'[t.user_id].tokenVersion
    <2>1. PICK i \in Named(req[r].username) : t = GenerateToken(i)
      BY <1>3 DEF LoginIssue
    <2>2. i \in Live /\ i \in UserIds /\ accounts[i] \in Account
      BY <1>1, LiveAccount DEF Named
    <2>3. accounts' = accounts
      BY <1>3 DEF LoginIssue
    <2> QED
      BY <2>1, <2>2, <2>3 DEF GenerateToken, Token, Account, Live
  <1> QED
    BY <1>2, <1>3
       DEF AuthNext, RequestStep, vars, LoginVerify, Authenticate, AnswerOnly,
           ChangePasswordVerify, ChangePasswordUpdate, RevokeSessions,
           ChangeRole, RemoveUser

(* Every step of the handlers keeps the invariant. *)
LEMMA AuthNextInv ==
    ASSUME AuthInv, [AuthNext]_vars
    PROVE  AuthInv'
  <1>1. [Next]_accounts
    BY StepIsStoreCall DEF AuthInv
  <1>2. Inv'
    BY <1>1, NextInv DEF AuthInv
  <1>3. VersionStep
    BY <1>1, NextVersions DEF AuthInv, Inv
  <1>4. ASSUME NEW t \in issued'
        PROVE  /\ t \in Token
               /\ accounts'[t.user_id] # Unused
               /\ t.user_id \in Live' =>
                     t.token_version <= accounts'[t.user_id].tokenVersion
    <2> DEFINE i == t.user_id
    <2>1. CASE t \notin issued
      <3>1. t \in Token /\ i \in Live' /\ t.token_version = accounts'[i].tokenVersion
        BY <2>1, <1>4, NewTokens
      <3> QED
        BY <3>1 DEF Live, Token
    <2>2. CASE t \in issued
      <3>1. t \in Token /\ i \in UserIds /\ accounts[i] # Unused
            /\ (i \in Live => t.token_version <= accounts[i].tokenVersion)
        BY <2>2 DEF AuthInv, AuthTypeOK, TokensNotAhead, Token
      <3>2. accounts'[i] # Unused
        BY <1>1, <3>1, NextKeepsIds DEF AuthInv, Inv
      <3>3. ASSUME i \in Live'
            PROVE  t.token_version <= accounts'[i].tokenVersion
        <4>1. accounts'[i] # Deleted
          BY <3>3 DEF Live
        <4>2. i \in Live
          BY <1>3, <3>1, <4>1 DEF VersionStep, Live
        <4>3. accounts[i].tokenVersion \in Nat /\ accounts'[i].tokenVersion \in Nat
          BY <1>2, <3>3, <4>2, LiveAccount DEF AuthInv, Inv, TypeOK, Live, Account
        <4> QED
          BY <1>3, <3>1, <3>3, <4>2, <4>3 DEF VersionStep, Token
      <3> QED
        BY <3>1, <3>2, <3>3
    <2> QED
      BY <2>1, <2>2
  <1>5. TokensNotAhead'
    BY <1>4 DEF TokensNotAhead
  <1>6. AuthTypeOK'
    BY <1>2, <1>4, StepRequests DEF AuthTypeOK, Inv
  <1> QED
    BY <1>2, <1>5, <1>6 DEF AuthInv

(* Every state of the handlers: well-formed, with an administrator, unique
   usernames and no token ahead of its account. *)
THEOREM SessionInvariant == AuthSpec => []AuthInv
  BY AuthInitInv, AuthNextInv, PTL DEF AuthSpec

(* The handlers' state is well formed for any numbers of accounts, names,
   passwords, requests and versions. *)
THEOREM SessionTypes == AuthSpec => []AuthTypeOK
  BY SessionInvariant, PTL DEF AuthInv

(* However role changes, deletions and registrations interleave, somebody can
   administer the service. *)
THEOREM SessionsKeepAdmin == AuthSpec => []AdminExists
  BY SessionInvariant, PTL DEF AuthInv, Inv

(* No token runs ahead of its account's version (GenerateToken is given the
   version of an account as it was at or before this moment). *)
THEOREM SessionTokensNotAhead == AuthSpec => []TokensNotAhead
  BY SessionInvariant, PTL DEF AuthInv

-----------------------------------------------------------------------------
(* One step of the handlers never makes a refused token acceptable. *)
LEMMA StepRefuses ==
    ASSUME AuthInv, [AuthNext]_vars, NEW t \in issued, ~Accepted(t)
    PROVE  ~Accepted(t)'
  <1> DEFINE i == t.user_id
  <1>1. [Next]_accounts /\ VersionStep /\ Inv'
    BY StepIsStoreCall, NextVersions, NextInv DEF AuthInv, Inv
  <1>2. t \in Token /\ i \in UserIds /\ accounts[i] # Unused
        /\ (i \in Live => t.token_version <= accounts[i].tokenVersion)
    BY DEF AuthInv, AuthTypeOK, TokensNotAhead, Token
  <1> SUFFICES ASSUME i \in Live', accounts'[i].tokenVersion = t.token_version
               PROVE  FALSE
    BY DEF Accepted
  <1>3. i \in Live
    BY <1>1, <1>2 DEF VersionStep, Live
  <1>4. accounts[i].tokenVersion \in Nat /\ accounts'[i].tokenVersion \in Nat
    BY <1>1, <1>3, LiveAccount DEF AuthInv, Inv, TypeOK, Live, Account
  <1>5. accounts[i].tokenVersion = t.token_version
    BY <1>1, <1>2, <1>3, <1>4 DEF VersionStep
  <1> QED
    BY <1>3, <1>5 DEF Accepted

(* The middleware's answer to a token never goes from no to yes: revocation,
   password change and deletion are final. *)
THEOREM RevocationIsFinal == AuthSpec => RefusedForGood
  <1>1. AuthInv /\ [AuthNext]_vars =>
           [\A t \in issued : ~Accepted(t) => ~Accepted(t)']_vars
    BY StepRefuses
  <1> QED
    BY <1>1, SessionInvariant, PTL DEF AuthSpec, RefusedForGood

(* A step that changes a password or revokes the sessions refuses every token. *)
LEMMA StepEndsSessions ==
    ASSUME AuthInv, [AuthNext]_vars, NEW i \in Live,
           \/ i \in Live' /\ accounts'[i].password # accounts[i].password
           \/ \E r \in Requests : req[r] # Idle /\ req[r].pc = "authed"
                                  /\ req[r].user_id = i /\ RevokeSessions(r),
           NEW t \in issued, t.user_id = i
    PROVE  ~Accepted(t)'
  <1>1. [Next]_accounts /\ TypeOK /\ Inv'
    BY StepIsStoreCall, NextInv DEF AuthInv, Inv
  <1>2. i \in UserIds /\ accounts[i] \in Account /\ accounts[i].tokenVersion \in Nat
    BY <1>1, LiveAccount DEF Account
  <1>3. t.token_version \in Nat /\ t.token_version <= accounts[i].tokenVersion
    BY DEF AuthInv, AuthTypeOK, TokensNotAhead, Token
  <1>4. i \in Live' => accounts'[i].tokenVersion \in Nat
    BY <1>1 DEF Inv, TypeOK, Live, Account
  <1>5. i \in Live' => accounts[i].tokenVersion < accounts'[i].tokenVersion
    <2>1. CASE i \in Live' /\ accounts'[i].password # accounts[i].password
      BY <1>1, <2>1, NextBumps
    <2>2. ASSUME NEW r \in Requests, req[r].user_id = i, RevokeSessions(r)
          PROVE  accounts[i].tokenVersion < accounts'[i].tokenVersion
      <3>1. RevokeTokens(i)
        BY <2>2 DEF RevokeSessions
      <3> QED
        BY <1>1, <1>2, <3>1 DEF RevokeTokens, TypeOK, Account
    <2> QED
      BY <2>1, <2>2
  <1> QED
    BY <1>2, <1>3, <1>4, <1>5 DEF Accepted

(* Changing the password or revoking the sessions ends every session of the
   account at that instant (UpdatePassword and RevokeTokens). *)
THEOREM ChangeEndsSessions == AuthSpec => BumpEndsSessions
  <1>1. AuthInv /\ [AuthNext]_vars =>
           [\A i \in Live :
               \/ i \in Live' /\ accounts'[i].password # accounts[i].password
               \/ \E r \in Requests : req[r] # Idle /\ req[r].pc = "authed"
                                      /\ req[r].user_id = i /\ RevokeSessions(r)
               => \A t \in issued : t.user_id = i => ~Accepted(t)']_vars
    BY StepEndsSessions
  <1> QED
    BY <1>1, SessionInvariant, PTL DEF AuthSpec, BumpEndsSessions

-----------------------------------------------------------------------------
(* A step changes only the password of an account that verified it. *)
LEMMA StepOwnPassword ==
    ASSUME AuthInv, [AuthNext]_vars, NEW i \in Live, i \in Live',
           accounts'[i].password # accounts[i].password
    PROVE  \E r \in Requests : req[r].pc = "verified" /\ req[r].user_id = i
  <1>1. TypeOK /\ i \in UserIds /\ accounts[i] \in Account
    BY LiveAccount DEF AuthInv, Inv
  <1>2. ASSUME NEW name \in Usernames, NEW password \in Passwords,
               Register(name, password)
        PROVE  FALSE
    BY <1>1, <1>2 DEF Register, CreateUser, Insert, TypeOK, Live
  <1>3. ASSUME NEW r \in Requests, RequestStep(r)
        PROVE  req[r].pc = "verified" /\ req[r].user_id = i
    <2>1. CASE ChangePasswordUpdate(r)
      <3>1. UpdatePassword(req[r].user_id, req[r].new)
        BY <2>1 DEF ChangePasswordUpdate
      <3> QED
        BY <1>1, <2>1, <3>1, LocalIds
           DEF ChangePasswordUpdate, UpdatePassword, TypeOK, AuthInv
    <2>2. CASE RevokeSessions(r)
      <3>1. RevokeTokens(req[r].user_id)
        BY <2>2 DEF RevokeSessions
      <3> QED
        BY <1>1, <3>1 DEF RevokeTokens, TypeOK, Live, Account
    <2>3. ASSUME NEW name \in Usernames, NEW role \in Roles, ChangeRole(r, name, role)
          PROVE  FALSE
      BY <1>1, <2>3 DEF ChangeRole, UpdateUserRole, Named, TypeOK, Live, Account
    <2>4. ASSUME NEW name \in Usernames, RemoveUser(r, name)
          PROVE  FALSE
      BY <1>1, <2>4 DEF RemoveUser, DeleteUser, Named, TypeOK, Live
    <2> QED
      BY <1>3, <2>1, <2>2, <2>3, <2>4
         DEF RequestStep, LoginVerify, LoginIssue, Authenticate,
             ChangePasswordVerify, AnswerOnly
  <1> QED
    BY <1>2, <1>3 DEF AuthNext, vars

(* A deleted account's request in flight never changes the password of the
   account that took over its username. *)
THEOREM PasswordsAreOwn == AuthSpec => OnlyOwnPassword
  <1>1. AuthInv /\ [AuthNext]_vars =>
           [\A i \in Live :
               i \in Live' /\ accounts'[i].password # accounts[i].password =>
                  \E r \in Requests : /\ req[r].pc = "verified"
                                      /\ req[r].user_id = i]_vars
    BY StepOwnPassword
  <1> QED
    BY <1>1, SessionInvariant, PTL DEF AuthSpec, OnlyOwnPassword

-----------------------------------------------------------------------------
(* The handlers reach the accounts through the methods of the interface alone:
   what holds of every run of the store holds of every run of the service. *)
THEOREM HandlersKeepTheContract == AuthSpec => Spec
  <1>1. AuthInv /\ [AuthNext]_vars => [Next]_accounts
    BY StepIsStoreCall DEF AuthInv
  <1>2. AuthInit => Init
    BY DEF AuthInit
  <1> QED
    BY <1>1, <1>2, SessionInvariant, PTL DEF AuthSpec, Spec

(* Behind the handlers token versions only grow and a deleted account never
   returns, whatever requests are in flight. *)
THEOREM SessionVersionsOnlyGrow == AuthSpec => VersionsOnlyGrow
  BY HandlersKeepTheContract, StoreVersionsOnlyGrow, PTL

(* However registrations race, no two accounts share a username. *)
THEOREM SessionUsernamesUnique == AuthSpec => []UniqueUsernames
  BY HandlersKeepTheContract, StoreUsernamesUnique, PTL
=============================================================================
