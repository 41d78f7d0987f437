------------------------- MODULE UserStorageProofs -------------------------
(* Proofs about the in-memory backend: its two maps agree, an administrator
   is always there, and every method is a call of the UserStore contract. *)
EXTENDS UserStorage, FiniteSetTheorems, TLAPS

StorageInv == TypeOK /\ MapsAgree /\ AdminExists

(* adminCountLocked() > 1: there is an administrator besides this one. *)
LEMMA AnotherAdmin ==
    ASSUME NEW name \in AdminNames, ~(AdminCount <= 1)
    PROVE  \E other \in AdminNames : other # name
  <1> SUFFICES ASSUME AdminNames = {name} PROVE FALSE
    OBVIOUS
  <1>1. Cardinality({name}) = 1
    BY FS_Singleton
  <1> QED
    BY <1>1 DEF AdminCount

(* The record of a new user. *)
LEMMA NewUserType ==
    ASSUME NEW name \in Usernames, NEW password \in Passwords, NEW role \in Roles
    PROVE  /\ NewUser(name, password, role) \in User
           /\ NewUser(name, password, role).username = name
           /\ NewUser(name, password, role).role = role
           /\ NewUser(name, password, role) # NoUser
  BY NilAssumption DEF NewUser, User

(* The object behind each username: allocated, registered, of that name. *)
LEMMA Pointer ==
    ASSUME TypeOK, MapsAgree, NEW name \in Usernames, Exists(name)
    PROVE  /\ users[name] \in byID /\ users[name] \in UserIds
           /\ user[users[name]] \in User
           /\ user[users[name]].username = name
  BY DEF TypeOK, MapsAgree, Exists

(* The initial state. *)
LEMMA InitStorage == NewUserStorage => StorageInv
  <1> SUFFICES ASSUME NewUserStorage PROVE StorageInv
    OBVIOUS
  <1>1. PICK id \in UserIds, password \in Passwords :
          /\ users = [name \in Usernames |-> IF name = DefaultAdmin THEN id ELSE NoUser]
          /\ byID = {id}
          /\ user = [i \in UserIds |->
                       IF i = id THEN NewUser(DefaultAdmin, password, "admin")
                                 ELSE NoUser]
    BY DEF NewUserStorage
  <1>2. NewUser(DefaultAdmin, password, "admin") \in User
        /\ NewUser(DefaultAdmin, password, "admin").username = DefaultAdmin
        /\ NewUser(DefaultAdmin, password, "admin").role = "admin"
        /\ NewUser(DefaultAdmin, password, "admin") # NoUser
    BY NewUserType, NilAssumption DEF Roles
  <1>3. TypeOK
    BY <1>1, <1>2 DEF TypeOK
  <1>4. MapsAgree
    BY <1>1, <1>2, NilAssumption DEF MapsAgree, Exists
  <1>5. DefaultAdmin \in AdminNames
    BY <1>1, <1>2, NilAssumption DEF AdminNames, Exists
  <1> QED
    BY <1>3, <1>4, <1>5 DEF StorageInv, AdminExists

(* Writing a registered object without renaming it: both maps still agree. *)
LEMMA WriteObject ==
    ASSUME TypeOK, MapsAgree, NEW id \in byID, NEW u \in User,
           u.username = user[id].username,
           user' = [user EXCEPT ![id] = u], UNCHANGED <<users, byID>>
    PROVE  /\ TypeOK' /\ MapsAgree'
           /\ user'[id] = u
           /\ \A i \in UserIds \ {id} : user'[i] = user[i]
           /\ \A name \in Usernames :
                 Exists(name)' <=> Exists(name)
  BY NilAssumption DEF TypeOK, MapsAgree, Exists

(* A write through one pointer leaves an administrator. *)
LEMMA WriteKeepsAdmin ==
    ASSUME StorageInv, NEW id \in byID, NEW u \in User,
           u.username = user[id].username,
           \/ u.role = "admin"
           \/ user[id].role # "admin"
           \/ \E name \in AdminNames : users[name] # id,
           user' = [user EXCEPT ![id] = u], UNCHANGED <<users, byID>>
    PROVE  StorageInv'
  <1>1. /\ TypeOK' /\ MapsAgree'
        /\ user'[id] = u
        /\ \A i \in UserIds \ {id} : user'[i] = user[i]
        /\ \A name \in Usernames : Exists(name)' <=> Exists(name)
    BY WriteObject DEF StorageInv
  <1>2. id \in UserIds
    BY DEF StorageInv, TypeOK
  <1>3. ASSUME NEW name \in AdminNames, users[name] # id
        PROVE  AdminExists'
    <2>1. name \in Usernames /\ users[name] \in UserIds
      BY Pointer DEF AdminNames, StorageInv
    <2> QED
      BY <1>1, <1>3, <2>1 DEF AdminNames, AdminExists
  <1>4. PICK name \in AdminNames : TRUE
    BY DEF StorageInv, AdminExists
  <1>5. ASSUME u.role = "admin", users[name] = id
        PROVE  AdminExists'
    BY <1>1, <1>4, <1>5 DEF AdminNames, AdminExists
  <1>6. ASSUME user[id].role # "admin"
        PROVE  AdminExists'
    BY <1>3, <1>4, <1>6 DEF AdminNames
  <1> QED
    BY <1>1, <1>3, <1>4, <1>5, <1>6 DEF StorageInv

(* Every method keeps the invariant, one lemma each. *)
LEMMA CreateUserInv ==
    ASSUME StorageInv, NEW name \in Usernames, NEW password \in Passwords,
           CreateUser(name, password)
    PROVE  StorageInv'
  <1> DEFINE u == NewUser(name, password, "user")
  <1>1. PICK id \in UserIds :
          /\ user[id] = NoUser
          /\ user' = [user EXCEPT ![id] = u]
          /\ users' = [users EXCEPT ![name] = id]
          /\ byID' = byID \cup {id}
    BY DEF CreateUser
  <1>2. u \in User /\ u.username = name /\ u # NoUser /\ ~Exists(name)
    BY NewUserType DEF CreateUser, Roles
  <1>3. id \notin byID
    BY <1>1 DEF StorageInv, MapsAgree
  <1> HIDE DEF u
  <1>4. TypeOK'
    BY <1>1, <1>2 DEF StorageInv, TypeOK
  <1>5. /\ user'[id] = u /\ users'[name] = id
        /\ \A i \in UserIds \ {id} : user'[i] = user[i]
        /\ \A other \in Usernames \ {name} : users'[other] = users[other]
    BY <1>1 DEF StorageInv, TypeOK
  <1>6. MapsAgree'
    <2>1. ASSUME NEW i \in byID'
          PROVE  user'[i] # NoUser /\ users'[user'[i].username] = i
      <3>1. CASE i = id
        BY <1>2, <1>5, <3>1
      <3>2. CASE i \in byID
        <4>1. i \in UserIds /\ i # id /\ user[i] # NoUser /\ users[user[i].username] = i
          BY <1>3, <3>2 DEF StorageInv, TypeOK, MapsAgree
        <4>2. user[i] \in User /\ user[i].username \in Usernames
          BY <4>1 DEF StorageInv, TypeOK, User
        <4>3. user[i].username # name
          BY <1>2, <4>1, NilAssumption DEF Exists
        <4> QED
          BY <1>5, <4>1, <4>2, <4>3
      <3> QED
        BY <1>1, <3>1, <3>2
    <2>2. ASSUME NEW other \in Usernames, Exists(other)'
          PROVE  users'[other] \in byID' /\ user'[users'[other]].username = other
      <3>1. CASE other = name
        BY <1>1, <1>2, <1>5, <3>1
      <3>2. CASE other # name
        BY <1>1, <1>3, <1>5, <2>2, <3>2 DEF StorageInv, TypeOK, MapsAgree, Exists
      <3> QED
        BY <3>1, <3>2
    <2> QED
      BY <2>1, <2>2 DEF MapsAgree
  <1>7. AdminExists'
    <2>1. PICK other \in AdminNames : TRUE
      BY DEF StorageInv, AdminExists
    <2>2. other \in Usernames /\ other # name /\ Exists(other)
          /\ user[users[other]].role = "admin"
      BY <1>2, <2>1 DEF AdminNames
    <2>3. users[other] \in byID /\ users[other] \in UserIds
      BY <2>2, Pointer DEF StorageInv
    <2> QED
      BY <1>3, <1>5, <2>2, <2>3 DEF AdminNames, AdminExists, Exists
  <1> QED
    BY <1>4, <1>6, <1>7 DEF StorageInv

LEMMA DeleteUserInv ==
    ASSUME StorageInv, NEW name \in Usernames, DeleteUser(name)
    PROVE  StorageInv'
  <1>1. /\ users[name] \in byID /\ users[name] \in UserIds
        /\ user[users[name]] \in User /\ user[users[name]].username = name
    BY Pointer DEF StorageInv, DeleteUser
  <1>2. /\ users' = [users EXCEPT ![name] = NoUser]
        /\ byID' = byID \ {users[name]} /\ user' = user
    BY DEF DeleteUser
  <1>3. TypeOK'
    BY <1>2 DEF StorageInv, TypeOK
  <1>4. MapsAgree'
    <2>1. ASSUME NEW i \in byID'
          PROVE  user'[i] # NoUser /\ users'[user'[i].username] = i
      <3>1. i \in byID /\ i # users[name] /\ user[i] # NoUser
            /\ users[user[i].username] = i /\ user[i] \in User
        BY <1>2 DEF StorageInv, TypeOK, MapsAgree
      <3> QED
        BY <1>2, <3>1 DEF StorageInv, TypeOK, User
    <2>2. ASSUME NEW other \in Usernames, Exists(other)'
          PROVE  users'[other] \in byID' /\ user'[users'[other]].username = other
      <3>1. other # name /\ Exists(other) /\ users'[other] = users[other]
        BY <1>2, <2>2 DEF StorageInv, TypeOK, Exists
      <3>2. users[other] \in byID /\ user[users[other]].username = other
        BY <3>1, Pointer DEF StorageInv
      <3> QED
        BY <1>1, <1>2, <3>1, <3>2
    <2> QED
      BY <2>1, <2>2 DEF MapsAgree
  <1>5. PICK other \in AdminNames : other # name
    <2>1. CASE name \in AdminNames
      BY <2>1, AnotherAdmin DEF DeleteUser, AdminNames
    <2>2. CASE name \notin AdminNames
      BY <2>2 DEF StorageInv, AdminExists
    <2> QED
      BY <2>1, <2>2
  <1>6. other \in AdminNames'
    BY <1>2, <1>5 DEF AdminNames, Exists, StorageInv, TypeOK
  <1> QED
    BY <1>3, <1>4, <1>6 DEF StorageInv, AdminExists

(* A method that writes one registered object, in the shape of WriteKeepsAdmin. *)
LEMMA UpdatedObject ==
    ASSUME StorageInv, NEW id \in byID
    PROVE  /\ user[id] \in User
           /\ \A password \in Passwords :
                 /\ [user[id] EXCEPT !.password = password] \in User
                 /\ [user[id] EXCEPT !.password = password].username = user[id].username
                 /\ [user[id] EXCEPT !.password = password].role = user[id].role
           /\ \A role \in Roles :
                 /\ [user[id] EXCEPT !.role = role] \in User
                 /\ [user[id] EXCEPT !.role = role].username = user[id].username
           /\ [user[id] EXCEPT !.tokenVersion = @ + 1] \in User
           /\ [user[id] EXCEPT !.tokenVersion = @ + 1].username = user[id].username
           /\ [user[id] EXCEPT !.tokenVersion = @ + 1].role = user[id].role
  <1>1. user[id] \in User
    BY DEF StorageInv, TypeOK, MapsAgree
  <1> QED
    BY <1>1 DEF User

LEMMA UpdatePasswordInv ==
    ASSUME StorageInv, NEW id \in UserIds, NEW password \in Passwords,
           UpdatePassword(id, password)
    PROVE  StorageInv'
  <1> DEFINE b == [user[id] EXCEPT !.password = password]
             u == [b EXCEPT !.tokenVersion = user[id].tokenVersion + 1]
  <1>1. id \in byID /\ user[id] \in User
    BY UpdatedObject DEF UpdatePassword
  <1>2. b \in User /\ b.username = user[id].username /\ b.role = user[id].role
    BY <1>1, UpdatedObject
  <1>3. user[id].tokenVersion + 1 \in Nat
    BY <1>1 DEF User
  <1>4. u \in User /\ u.username = user[id].username /\ u.role = user[id].role
    <2> HIDE DEF b
    <2> QED
      BY <1>2, <1>3 DEF User
  <1>5. user' = [user EXCEPT ![id] = u] /\ UNCHANGED <<users, byID>>
    BY <1>1 DEF UpdatePassword, StorageInv, TypeOK
  <1> HIDE DEF b, u
  <1> QED
    BY <1>1, <1>4, <1>5, WriteKeepsAdmin

LEMMA RevokeTokensInv ==
    ASSUME StorageInv, NEW id \in UserIds, RevokeTokens(id)
    PROVE  StorageInv'
  <1> DEFINE u == [user[id] EXCEPT !.tokenVersion = @ + 1]
  <1>1. id \in byID
    BY DEF RevokeTokens
  <1>2. u \in User /\ u.username = user[id].username /\ u.role = user[id].role
    BY <1>1, UpdatedObject
  <1>3. user' = [user EXCEPT ![id] = u] /\ UNCHANGED <<users, byID>>
    BY <1>1 DEF RevokeTokens, StorageInv, TypeOK
  <1> HIDE DEF u
  <1> QED
    BY <1>1, <1>2, <1>3, WriteKeepsAdmin

LEMMA UpdateUserRoleInv ==
    ASSUME StorageInv, NEW name \in Usernames, NEW role \in Roles,
           UpdateUserRole(name, role)
    PROVE  StorageInv'
  <1> DEFINE id == users[name]
             u == [user[id] EXCEPT !.role = role]
  <1>1. id \in byID /\ id \in UserIds /\ user[id].username = name
    BY Pointer DEF StorageInv, UpdateUserRole
  <1>2. u \in User /\ u.username = user[id].username /\ u.role = role
    <2>1. user[id] \in User
      BY <1>1, UpdatedObject
    <2> QED
      BY <2>1 DEF User
  <1>3. user' = [user EXCEPT ![id] = u] /\ UNCHANGED <<users, byID>>
    BY <1>1 DEF UpdateUserRole, StorageInv, TypeOK
  <1>4. \/ u.role = "admin" \/ user[id].role # "admin"
        \/ \E other \in AdminNames : users[other] # id
    <2> SUFFICES ASSUME u.role # "admin", user[id].role = "admin"
                 PROVE  \E other \in AdminNames : users[other] # id
      OBVIOUS
    <2>1. name \in AdminNames /\ ~(AdminCount <= 1)
      BY <1>2 DEF AdminNames, UpdateUserRole
    <2>2. PICK other \in AdminNames : other # name
      BY <2>1, AnotherAdmin
    <2>3. user[users[other]].username = other
      BY <2>2, Pointer DEF StorageInv, AdminNames
    <2> QED
      BY <1>1, <2>2, <2>3
  <1> HIDE DEF id, u
  <1> QED
    BY <1>1, <1>2, <1>3, <1>4, WriteKeepsAdmin

(* The methods together. *)
LEMMA NextStorage ==
    ASSUME StorageInv, [Next]_vars
    PROVE  StorageInv'
  <1>1. CASE UNCHANGED vars
    BY <1>1 DEF vars, StorageInv, TypeOK, MapsAgree, AdminExists, AdminNames, Exists
  <1> QED
    BY <1>1, CreateUserInv, UpdatePasswordInv, RevokeTokensInv, UpdateUserRoleInv,
       DeleteUserInv DEF Next

(* Types, agreement of the two maps and an administrator, in every state. *)
THEOREM StorageInvariant == Spec => []StorageInv
  BY InitStorage, NextStorage, PTL DEF Spec

(* The two maps and the records they point to are well formed. *)
THEOREM StorageTypeOK == Spec => []TypeOK
  BY StorageInvariant, PTL DEF StorageInv

(* What is written through the map by id is what is read by username, and the
   other way round (users and byID of UserStorage). *)
THEOREM StorageMapsAgree == Spec => []MapsAgree
  BY StorageInvariant, PTL DEF StorageInv

(* ErrLastAdmin: the count taken under the lock keeps an administrator. *)
THEOREM StorageKeepsAdmin == Spec => []AdminExists
  BY StorageInvariant, PTL DEF StorageInv

-----------------------------------------------------------------------------
(* The account function of the contract. *)
Accounts == [id \in UserIds |-> AccountOf(id)]

(* How the accounts of the contract are read off the maps. *)
LEMMA AccountLive ==
    ASSUME StorageInv, NEW id \in UserIds
    PROVE  /\ id \in Contract!Live <=> id \in byID
           /\ id \in byID => Accounts[id] = user[id] /\ user[id] \in User
  <1>1. id \in byID => user[id] \in User
    BY UpdatedObject
  <1> QED
    BY <1>1, HistoryAssumption DEF Contract!Live, Accounts, AccountOf

(* A name of the contract is found by the map users. *)
LEMMA NamedPointer ==
    ASSUME StorageInv, NEW name \in Usernames
    PROVE  Contract!Named(name) = IF Exists(name) THEN {users[name]} ELSE {}
  <1>1. ASSUME NEW id \in UserIds
        PROVE  id \in Contract!Named(name) <=> Exists(name) /\ id = users[name]
    <2>1. id \in Contract!Named(name) <=> id \in byID /\ user[id].username = name
      BY AccountLive DEF Contract!Named, Contract!Live, Accounts
    <2>2. id \in byID => Exists(user[id].username) /\ users[user[id].username] = id
      BY NilAssumption DEF StorageInv, TypeOK, MapsAgree, Exists
    <2> QED
      BY <2>1, <2>2, Pointer DEF StorageInv
  <1>2. Contract!Named(name) \subseteq UserIds
    BY DEF Contract!Named, Contract!Live
  <1>3. Exists(name) => users[name] \in UserIds
    BY Pointer DEF StorageInv
  <1> QED
    BY <1>1, <1>2, <1>3

(* An empty store but for the administrator is the contract's initial state. *)
LEMMA InitMaps == NewUserStorage => Contract!Init
  <1> SUFFICES ASSUME NewUserStorage PROVE Contract!Init
    OBVIOUS
  <1>1. PICK id \in UserIds, password \in Passwords :
          /\ byID = {id}
          /\ user = [i \in UserIds |->
                       IF i = id THEN NewUser(DefaultAdmin, password, "admin")
                                 ELSE NoUser]
    BY DEF NewUserStorage
  <1>2. \A i \in UserIds :
          AccountOf(i) = IF i = id THEN NewUser(DefaultAdmin, password, "admin")
                                   ELSE Unused
    BY <1>1 DEF AccountOf
  <1> QED
    BY <1>1, <1>2 DEF Contract!Init, Contract!NewAccount, NewUser

(* A write of one registered object is that write of its account. *)
LEMMA WriteMaps ==
    ASSUME StorageInv, NEW id \in byID, NEW u,
           user' = [user EXCEPT ![id] = u], u # NoUser, UNCHANGED byID
    PROVE  Accounts' = [Accounts EXCEPT ![id] = u]
  <1>1. id \in UserIds
    BY DEF StorageInv, TypeOK
  <1>2. \A i \in UserIds : AccountOf(i)' = IF i = id THEN u ELSE AccountOf(i)
    BY <1>1 DEF AccountOf, StorageInv, TypeOK
  <1> QED
    BY <1>1, <1>2 DEF Accounts

(* Every method is a step of the contract or none, one lemma each. *)
LEMMA CreateUserMaps ==
    ASSUME StorageInv, NEW name \in Usernames, NEW password \in Passwords,
           CreateUser(name, password)
    PROVE  \E id \in UserIds : Contract!CreateUser(id, name, password)
  <1> DEFINE u == NewUser(name, password, "user")
  <1>1. PICK id \in UserIds :
          /\ user[id] = NoUser
          /\ user' = [user EXCEPT ![id] = u]
          /\ byID' = byID \cup {id}
    BY DEF CreateUser
  <1>2. id \notin byID
    BY <1>1 DEF StorageInv, MapsAgree
  <1>3. Contract!Named(name) = {}
    BY NamedPointer DEF CreateUser
  <1>4. Accounts[id] = Unused
    BY <1>1, <1>2 DEF Accounts, AccountOf
  <1>5. \A i \in UserIds : AccountOf(i)' = IF i = id THEN u ELSE AccountOf(i)
    BY <1>1, <1>2 DEF AccountOf, StorageInv, TypeOK
  <1>6. Accounts' = [Accounts EXCEPT ![id] = u]
    BY <1>5 DEF Accounts
  <1> QED
    BY <1>3, <1>4, <1>6
       DEF Contract!CreateUser, Contract!Insert, Contract!NewAccount, NewUser, Accounts

LEMMA UpdatePasswordMaps ==
    ASSUME StorageInv, NEW id \in UserIds, NEW password \in Passwords,
           UpdatePassword(id, password)
    PROVE  Contract!UpdatePassword(id, password)
  <1> DEFINE b == [user[id] EXCEPT !.password = password]
             u == [b EXCEPT !.tokenVersion = user[id].tokenVersion + 1]
  <1>1. id \in byID /\ user[id] \in User /\ Accounts[id] = user[id]
        /\ id \in Contract!Live
    BY AccountLive DEF UpdatePassword
  <1>2. user' = [user EXCEPT ![id] = u] /\ UNCHANGED byID
    BY <1>1 DEF UpdatePassword, StorageInv, TypeOK
  <1>3. u # NoUser
    <2>1. b \in User /\ user[id].tokenVersion + 1 \in Nat
      BY <1>1, UpdatedObject DEF User
    <2>2. u \in User
      <3> HIDE DEF b
      <3> QED BY <2>1 DEF User
    <2> QED
      BY <2>2, NilAssumption
  <1>4. Accounts' = [Accounts EXCEPT ![id] = u]
    BY <1>1, <1>2, <1>3, WriteMaps
  <1>5. Accounts' = [Accounts EXCEPT ![id].password = password,
                                     ![id].tokenVersion = @ + 1]
    BY <1>1, <1>4 DEF Accounts
  <1> QED
    BY <1>1, <1>5 DEF Contract!UpdatePassword, Accounts

LEMMA RevokeTokensMaps ==
    ASSUME StorageInv, NEW id \in UserIds, RevokeTokens(id)
    PROVE  Contract!RevokeTokens(id)
  <1> DEFINE u == [user[id] EXCEPT !.tokenVersion = @ + 1]
  <1>1. id \in byID /\ user[id] \in User /\ Accounts[id] = user[id]
        /\ id \in Contract!Live
    BY AccountLive DEF RevokeTokens
  <1>2. user' = [user EXCEPT ![id] = u] /\ UNCHANGED byID
    BY <1>1 DEF RevokeTokens, StorageInv, TypeOK
  <1>3. u # NoUser
    BY <1>1, UpdatedObject, NilAssumption
  <1>4. Accounts' = [Accounts EXCEPT ![id] = u]
    BY <1>1, <1>2, <1>3, WriteMaps
  <1> QED
    BY <1>1, <1>4 DEF Contract!RevokeTokens, Accounts

(* The count under the lock refuses exactly the last administrator. *)
LEMMA LastAdminMaps ==
    ASSUME StorageInv, NEW name \in Usernames, Exists(name),
           ~(user[users[name]].role = "admin" /\ AdminCount <= 1)
    PROVE  ~Contract!IsLastAdmin(users[name])
  <1> SUFFICES ASSUME Contract!Admins = {users[name]} PROVE FALSE
    BY DEF Contract!IsLastAdmin
  <1>1. users[name] \in byID /\ user[users[name]].role = "admin"
    BY AccountLive DEF Contract!Admins, Contract!Live, Accounts
  <1>2. name \in AdminNames /\ ~(AdminCount <= 1)
    BY <1>1 DEF AdminNames
  <1>3. PICK other \in AdminNames : other # name
    BY <1>2, AnotherAdmin
  <1>4. users[other] \in byID /\ users[other] \in UserIds
        /\ user[users[other]].username = other /\ user[users[other]].role = "admin"
    BY <1>3, Pointer DEF StorageInv, AdminNames
  <1>5. users[other] \in Contract!Admins
    BY <1>4, AccountLive DEF Contract!Admins, Contract!Live, Accounts
  <1>6. user[users[name]].username = name
    BY Pointer DEF StorageInv
  <1> QED
    BY <1>3, <1>4, <1>5, <1>6

LEMMA UpdateUserRoleMaps ==
    ASSUME StorageInv, NEW name \in Usernames, NEW role \in Roles,
           UpdateUserRole(name, role)
    PROVE  Contract!UpdateUserRole(name, role)
  <1> DEFINE id == users[name]
             u == [user[id] EXCEPT !.role = role]
  <1>1. id \in byID /\ id \in UserIds
    BY Pointer DEF StorageInv, UpdateUserRole
  <1>2. user[id] \in User /\ Accounts[id] = user[id] /\ id \in Contract!Named(name)
    BY <1>1, AccountLive, NamedPointer DEF UpdateUserRole
  <1>3. user' = [user EXCEPT ![id] = u] /\ UNCHANGED byID
    BY <1>1 DEF UpdateUserRole, StorageInv, TypeOK
  <1>4. u # NoUser
    BY <1>1, UpdatedObject, NilAssumption
  <1>5. Accounts' = [Accounts EXCEPT ![id] = u]
    BY <1>1, <1>3, <1>4, WriteMaps
  <1>6. Accounts' = [Accounts EXCEPT ![id].role = role]
    BY <1>1, <1>2, <1>5 DEF Accounts
  <1>7. role # "admin" => ~Contract!IsLastAdmin(id)
    BY LastAdminMaps DEF UpdateUserRole
  <1> HIDE DEF id
  <1> QED
    BY <1>2, <1>6, <1>7 DEF Contract!UpdateUserRole, Accounts

LEMMA DeleteUserMaps ==
    ASSUME StorageInv, NEW name \in Usernames, DeleteUser(name)
    PROVE  Contract!DeleteUser(name)
  <1> DEFINE id == users[name]
  <1>1. id \in byID /\ id \in UserIds
    BY Pointer DEF StorageInv, DeleteUser
  <1>2. id \in Contract!Named(name) /\ ~Contract!IsLastAdmin(id)
    BY NamedPointer, LastAdminMaps DEF DeleteUser
  <1>3. user[id] # NoUser
    BY <1>1 DEF StorageInv, MapsAgree
  <1>4. \A i \in UserIds : AccountOf(i)' = IF i = id THEN Deleted ELSE AccountOf(i)
    BY <1>1, <1>3 DEF DeleteUser, AccountOf
  <1>5. Accounts' = [Accounts EXCEPT ![id] = Deleted]
    BY <1>1, <1>4 DEF Accounts
  <1> HIDE DEF id
  <1> QED
    BY <1>2, <1>5 DEF Contract!DeleteUser, Accounts

(* The methods together. *)
LEMMA StepMaps ==
    ASSUME StorageInv, [Next]_vars
    PROVE  [Contract!Next]_Accounts
  <1>1. CASE UNCHANGED vars
    BY <1>1 DEF vars, Accounts, AccountOf
  <1> QED
    BY <1>1, CreateUserMaps, UpdatePasswordMaps, RevokeTokensMaps,
       UpdateUserRoleMaps, DeleteUserMaps DEF Next, Contract!Next, Roles, Contract!Roles

(* The in-memory backend implements the UserStore interface: a method that
   takes effect is one call of the contract, seen through byID. *)
THEOREM StorageImplementsContract == Spec => ImplementsUserStore
  <1>1. StorageInv /\ [Next]_vars =>
           [Contract!Next]_[id \in UserIds |-> AccountOf(id)]
    BY StepMaps DEF Accounts
  <1> QED
    BY <1>1, InitMaps, StorageInvariant, PTL DEF Spec, ImplementsUserStore, Contract!Spec

-----------------------------------------------------------------------------
(* ErrUsernameExists: two accounts never share a username, because the map by
   username would then point to both. *)
THEOREM StorageUsernamesUnique == Spec => []Contract!UniqueUsernames
  <1>1. StorageInv => Contract!UniqueUsernames
    <2> SUFFICES ASSUME StorageInv, NEW i \in Contract!Live, NEW j \in Contract!Live,
                        Accounts[i].username = Accounts[j].username
                 PROVE  i = j
      BY DEF Contract!UniqueUsernames, Accounts
    <2>1. /\ i \in byID /\ Accounts[i] = user[i]
          /\ j \in byID /\ Accounts[j] = user[j]
      BY AccountLive DEF Contract!Live
    <2> QED
      BY <2>1 DEF StorageInv, MapsAgree
  <1> QED
    BY <1>1, StorageInvariant, PTL

(* One method, for the object it touches and every other: no version goes
   back, and an object that left the map by id is not registered again. *)
ObjectStep ==
    \A id \in UserIds :
        /\ id \in byID /\ id \in byID' => user[id].tokenVersion <= user'[id].tokenVersion
        /\ user[id] # NoUser /\ id \notin byID => user'[id] # NoUser /\ id \notin byID'

LEMMA NextObjects ==
    ASSUME StorageInv, [Next]_vars
    PROVE  ObjectStep
  <1>1. \A id \in byID : id \in UserIds /\ user[id] \in User /\ user[id].tokenVersion \in Nat
    BY UpdatedObject DEF StorageInv, TypeOK, User
  <1>2. CASE UNCHANGED <<user, byID>>
    BY <1>1, <1>2 DEF ObjectStep
  <1>3. ASSUME NEW name \in Usernames, NEW password \in Passwords, CreateUser(name, password)
        PROVE  ObjectStep
    <2>1. PICK id \in UserIds :
            /\ user[id] = NoUser /\ byID' = byID \cup {id}
            /\ \A i \in UserIds \ {id} : user'[i] = user[i]
      BY <1>3 DEF CreateUser, StorageInv, TypeOK
    <2>2. id \notin byID
      BY <2>1 DEF StorageInv, MapsAgree
    <2> QED
      BY <1>1, <2>1, <2>2 DEF ObjectStep
  <1>4. ASSUME NEW id \in byID, NEW u, u # NoUser, user[id].tokenVersion <= u.tokenVersion,
               user' = [user EXCEPT ![id] = u], byID' = byID
        PROVE  ObjectStep
    <2>1. user'[id] = u /\ \A i \in UserIds \ {id} : user'[i] = user[i]
      BY <1>1, <1>4 DEF StorageInv, TypeOK
    <2> QED
      BY <1>1, <1>4, <2>1 DEF ObjectStep
  <1>5. ASSUME NEW id \in UserIds, NEW password \in Passwords, UpdatePassword(id, password)
        PROVE  ObjectStep
    <2> DEFINE b == [user[id] EXCEPT !.password = password]
               u == [b EXCEPT !.tokenVersion = user[id].tokenVersion + 1]
    <2>1. id \in byID /\ byID' = byID
      BY <1>5 DEF UpdatePassword
    <2>2. user' = [user EXCEPT ![id] = u]
      BY <1>1, <1>5, <2>1 DEF UpdatePassword, StorageInv, TypeOK
    <2>3. b \in User
      BY <2>1, UpdatedObject
    <2> HIDE DEF b
    <2>4. u \in User /\ u.tokenVersion = user[id].tokenVersion + 1
      BY <1>1, <2>1, <2>3 DEF User
    <2>5. u # NoUser /\ user[id].tokenVersion <= u.tokenVersion
      BY <1>1, <2>1, <2>4, NilAssumption
    <2> HIDE DEF u
    <2> QED
      BY <1>4, <2>1, <2>2, <2>5
  <1>6. ASSUME NEW id \in UserIds, RevokeTokens(id) PROVE ObjectStep
    <2> DEFINE u == [user[id] EXCEPT !.tokenVersion = @ + 1]
    <2>1. id \in byID /\ user' = [user EXCEPT ![id] = u] /\ byID' = byID
      BY <1>6 DEF RevokeTokens, StorageInv, TypeOK
    <2>2. u \in User /\ u.tokenVersion = user[id].tokenVersion + 1
      BY <1>1, <2>1 DEF User
    <2>3. u # NoUser /\ user[id].tokenVersion <= u.tokenVersion
      BY <1>1, <2>1, <2>2, NilAssumption
    <2> HIDE DEF u
    <2> QED
      BY <1>4, <2>1, <2>3
  <1>7. ASSUME NEW name \in Usernames, NEW role \in Roles, UpdateUserRole(name, role)
        PROVE  ObjectStep
    <2> DEFINE id == users[name]
               u == [user[id] EXCEPT !.role = role]
    <2>1. id \in byID
      BY <1>7, Pointer DEF UpdateUserRole, StorageInv
    <2>2. user' = [user EXCEPT ![id] = u] /\ byID' = byID
      BY <1>7 DEF UpdateUserRole, StorageInv, TypeOK
    <2>3. u \in User /\ u.tokenVersion = user[id].tokenVersion
      BY <1>1, <2>1 DEF User
    <2>4. u # NoUser /\ user[id].tokenVersion <= u.tokenVersion
      BY <1>1, <2>1, <2>3, NilAssumption
    <2> HIDE DEF u, id
    <2> QED
      BY <1>4, <2>1, <2>2, <2>4
  <1>8. ASSUME NEW name \in Usernames, DeleteUser(name) PROVE ObjectStep
    <2>1. user' = user /\ byID' \subseteq byID
      BY <1>8 DEF DeleteUser
    <2> QED
      BY <1>1, <2>1 DEF ObjectStep
  <1> QED
    BY <1>2, <1>3, <1>5, <1>6, <1>7, <1>8 DEF Next, vars

(* The token version of a registered user never goes back, and the id of a
   removed one never returns: what UpdatePassword and RevokeTokens revoke
   stays revoked. *)
THEOREM StorageVersionsOnlyGrow == Spec => Contract!VersionsOnlyGrow
  <1>1. StorageInv /\ StorageInv' /\ [Next]_vars => Contract!VersionStep
    <2> SUFFICES ASSUME StorageInv, StorageInv', [Next]_vars, NEW id \in UserIds
                 PROVE  /\ id \in Contract!Live /\ id \in Contract!Live' =>
                              Accounts[id].tokenVersion <= Accounts'[id].tokenVersion
                        /\ Accounts[id] = Deleted => Accounts'[id] = Deleted
      BY DEF Contract!VersionStep, Accounts
    <2>1. ObjectStep
      BY NextObjects
    <2>2. id \in Contract!Live => id \in byID /\ Accounts[id] = user[id]
      BY AccountLive
    <2>3. id \in Contract!Live' => id \in byID' /\ Accounts'[id] = user'[id]
      BY DEF Contract!Live, Accounts, AccountOf
    <2>4. Accounts[id] = Deleted => user[id] # NoUser /\ id \notin byID
      BY AccountLive, HistoryAssumption DEF Accounts, AccountOf
    <2>5. user'[id] # NoUser /\ id \notin byID' => Accounts'[id] = Deleted
      BY DEF Accounts, AccountOf
    <2> QED
      BY <2>1, <2>2, <2>3, <2>4, <2>5 DEF ObjectStep
  <1>2. StorageInv /\ StorageInv' /\ [Next]_vars =>
           [Contract!VersionStep]_[id \in UserIds |-> AccountOf(id)]
    BY <1>1
  <1> QED
    BY <1>2, StorageInvariant, PTL DEF Spec, Contract!VersionsOnlyGrow
=============================================================================
