---------------------------- MODULE UserStorage ----------------------------
(***************************************************************************)
(* The in-memory backend (storage/user.go): one RWMutex around two maps,   *)
(* by username and by id, that point to the same *User objects.  Every     *)
(* method holds the lock from its first read to its last write, so a call  *)
(* is one step; bcrypt runs before the lock is taken and reads nothing.    *)
(*                                                                         *)
(* A pointer is the id of the account it points to.                        *)
(***************************************************************************)
EXTENDS Naturals, FiniteSets

CONSTANTS UserIds, Usernames, Passwords, DefaultAdmin, Unused, Deleted,
          NoUser,        \* the nil pointer
          MaxVersion     \* bound on the token versions explored

VARIABLES
    users,   \* map username -> *User
    byID,    \* the ids that are keys of the map id -> *User
    user     \* the User objects: id -> object, NoUser when none was allocated

vars == <<users, byID, user>>

Roles == {"admin", "user"}
User == [username : Usernames, password : Passwords,
         role : Roles, tokenVersion : Nat]

ASSUME NilAssumption ==
    /\ NoUser \notin UserIds
    /\ NoUser \notin User
    /\ MaxVersion \in Nat
    /\ DefaultAdmin \in Usernames
    /\ IsFiniteSet(Usernames)

ASSUME HistoryAssumption ==
    Unused # Deleted /\ Unused \notin User /\ Deleted \notin User

Exists(name) == users[name] # NoUser

(* adminCountLocked walks the map by username. *)
AdminNames == {name \in Usernames : Exists(name) /\ user[users[name]].role = "admin"}
AdminCount == Cardinality(AdminNames)

-----------------------------------------------------------------------------
NewUser(name, password, role) ==
    [username |-> name, password |-> password, role |-> role, tokenVersion |-> 0]

NewUserStorage ==
    \E id \in UserIds, password \in Passwords :
        /\ users = [name \in Usernames |-> IF name = DefaultAdmin THEN id ELSE NoUser]
        /\ byID = {id}
        /\ user = [i \in UserIds |->
                     IF i = id THEN NewUser(DefaultAdmin, password, "admin")
                               ELSE NoUser]

CreateUser(name, password) ==
    /\ ~Exists(name)
    /\ \E id \in {i \in UserIds : user[i] = NoUser} :
          /\ user' = [user EXCEPT ![id] = NewUser(name, password, "user")]
          /\ users' = [users EXCEPT ![name] = id]
          /\ byID' = byID \cup {id}

(* Mutant: TokenVersion++ is forgotten. *)
UpdatePasswordOnly(id, password) ==
    /\ id \in byID
    /\ user' = [user EXCEPT ![id].password = password]
    /\ UNCHANGED <<users, byID>>

UpdatePassword(id, password) ==
    /\ id \in byID
    /\ user[id].tokenVersion < MaxVersion
    /\ user' = [user EXCEPT ![id].password = password, ![id].tokenVersion = @ + 1]
    /\ UNCHANGED <<users, byID>>

(* Mutant: TokenVersion--. *)
RevokeTokensDown(id) ==
    /\ id \in byID
    /\ user' = [user EXCEPT ![id].tokenVersion = @ - 1]
    /\ UNCHANGED <<users, byID>>

RevokeTokens(id) ==
    /\ id \in byID
    /\ user[id].tokenVersion < MaxVersion
    /\ user' = [user EXCEPT ![id].tokenVersion = @ + 1]
    /\ UNCHANGED <<users, byID>>

(* Mutant: off by one in the last-administrator guard. *)
UpdateUserRoleOffByOne(name, role) ==
    /\ Exists(name)
    /\ ~(user[users[name]].role = "admin" /\ role # "admin" /\ AdminCount < 1)
    /\ user' = [user EXCEPT ![users[name]].role = role]
    /\ UNCHANGED <<users, byID>>

UpdateUserRole(name, role) ==
    /\ Exists(name)
    /\ ~(user[users[name]].role = "admin" /\ role # "admin" /\ AdminCount <= 1)
    /\ user' = [user EXCEPT ![users[name]].role = role]
    /\ UNCHANGED <<users, byID>>

(* Mutant: the map by id keeps the object. *)
DeleteUserByNameOnly(name) ==
    /\ Exists(name)
    /\ ~(user[users[name]].role = "admin" /\ AdminCount <= 1)
    /\ users' = [users EXCEPT ![name] = NoUser]
    /\ UNCHANGED <<byID, user>>

(* The username is deleted from one map, the object's id from the other; the
   object itself is garbage. *)
DeleteUser(name) ==
    /\ Exists(name)
    /\ ~(user[users[name]].role = "admin" /\ AdminCount <= 1)
    /\ users' = [users EXCEPT ![name] = NoUser]
    /\ byID' = byID \ {users[name]}
    /\ UNCHANGED user

Next ==
    \/ \E name \in Usernames, password \in Passwords : CreateUser(name, password)
    \/ \E id \in UserIds, password \in Passwords : UpdatePassword(id, password)
    \/ \E id \in UserIds : RevokeTokens(id)
    \/ \E name \in Usernames, role \in Roles : UpdateUserRole(name, role)
    \/ \E name \in Usernames : DeleteUser(name)

Spec == NewUserStorage /\ [][Next]_vars

-----------------------------------------------------------------------------
(* The two maps hold pointers to allocated objects. *)
TypeOK ==
    /\ users \in [Usernames -> UserIds \cup {NoUser}]
    /\ byID \subseteq UserIds
    /\ user \in [UserIds -> User \cup {NoUser}]

(* Both maps hold the same objects, each under its own username: what one
   method writes through one map, every method reads through the other. *)
MapsAgree ==
    /\ \A id \in byID : user[id] # NoUser /\ users[user[id].username] = id
    /\ \A name \in Usernames :
          Exists(name) => users[name] \in byID /\ user[users[name]].username = name

(* The last administrator can be neither demoted nor deleted. *)
AdminExists == AdminNames # {}

(* The account each id stands for, in the terms of the interface. *)
AccountOf(id) ==
    IF id \in byID THEN user[id]
    ELSE IF user[id] = NoUser THEN Unused ELSE Deleted

Contract == INSTANCE UserStoreSpec
              WITH accounts <- [id \in UserIds |-> AccountOf(id)]

(* The in-memory backend keeps every promise of the interface. *)
ImplementsUserStore == Contract!Spec
=============================================================================
