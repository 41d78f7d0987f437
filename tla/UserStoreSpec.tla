--------------------------- MODULE UserStoreSpec ---------------------------
(***************************************************************************)
(* What the interface storage.UserStore promises to the handlers, whatever *)
(* the backend: every call takes effect at one instant, account ids are    *)
(* never reused, usernames are unique, token versions only grow and the    *)
(* last administrator can be neither demoted nor deleted.                  *)
(*                                                                         *)
(* UserStorage (the in-memory backend) and PgUsers (the PostgreSQL one)    *)
(* implement this specification; AuthSessions runs the HTTP handlers on    *)
(* top of it, as the Go handlers run on top of the interface.              *)
(***************************************************************************)
EXTENDS Naturals

CONSTANTS
    UserIds,        \* what utils.GenerateID can return for an account
    Usernames,
    Passwords,      \* bcrypt is external: a password stands for its hash
    DefaultAdmin,   \* the username "admin" of the bootstrap account
    Unused,         \* an id that no account has had yet
    Deleted         \* an id whose account was removed: it is never given again

Roles == {"admin", "user"}

Account == [username : Usernames, password : Passwords,
            role : Roles, tokenVersion : Nat]

ASSUME SentinelAssumption ==
    /\ Unused # Deleted
    /\ Unused \notin Account
    /\ Deleted \notin Account

ASSUME DefaultAdminAssumption == DefaultAdmin \in Usernames

VARIABLE accounts   \* account id -> Account, Unused or Deleted

Live == {i \in UserIds : accounts[i] \notin {Unused, Deleted}}
Named(name) == {i \in Live : accounts[i].username = name}
Admins == {i \in Live : accounts[i].role = "admin"}

NewAccount(name, password, role) ==
    [username |-> name, password |-> password, role |-> role, tokenVersion |-> 0]

-----------------------------------------------------------------------------
(* The state of a new store: the bootstrap administrator and nobody else. *)
Init ==
    \E i \in UserIds, password \in Passwords :
        accounts = [j \in UserIds |->
                      IF j = i THEN NewAccount(DefaultAdmin, password, "admin")
                               ELSE Unused]

Insert(i, name, password, role) ==
    /\ accounts[i] = Unused
    /\ Named(name) = {}
    /\ accounts' = [accounts EXCEPT ![i] = NewAccount(name, password, role)]

CreateUser(i, name, password) == Insert(i, name, password, "user")

(* A restart against a database that lost the account named "admin". *)
BootstrapAdmin(i, password) == Insert(i, DefaultAdmin, password, "admin")

(* Mutants: the version is kept; the version starts again. *)
UpdatePasswordOnly(i, password) ==
    /\ i \in Live
    /\ accounts' = [accounts EXCEPT ![i].password = password]
UpdatePasswordResets(i, password) ==
    /\ i \in Live
    /\ accounts' = [accounts EXCEPT ![i].password = password, ![i].tokenVersion = 0]

UpdatePassword(i, password) ==
    /\ i \in Live
    /\ accounts' = [accounts EXCEPT ![i].password = password,
                                    ![i].tokenVersion = @ + 1]

(* Mutant: the version goes down. *)
RevokeTokensDown(i) ==
    /\ i \in Live
    /\ accounts' = [accounts EXCEPT ![i].tokenVersion = @ - 1]

RevokeTokens(i) ==
    /\ i \in Live
    /\ accounts' = [accounts EXCEPT ![i].tokenVersion = @ + 1]

(* Mutant: off by one, the guard looks for a store without administrators. *)
IsLastAdminOffByOne(i) == i \in UserIds /\ Admins = {}

(* ErrLastAdmin: the account i is the only administrator. *)
IsLastAdmin(i) == Admins = {i}

UpdateUserRole(name, role) ==
    \E i \in Named(name) :
        /\ role # "admin" => ~IsLastAdmin(i)
        /\ accounts' = [accounts EXCEPT ![i].role = role]

(* Mutant: a removed id can be given to a new account. *)
DeleteUserFreesId(name) ==
    \E i \in Named(name) :
        /\ ~IsLastAdmin(i)
        /\ accounts' = [accounts EXCEPT ![i] = Unused]

DeleteUser(name) ==
    \E i \in Named(name) :
        /\ ~IsLastAdmin(i)
        /\ accounts' = [accounts EXCEPT ![i] = Deleted]

Next ==
    \/ \E i \in UserIds, password \in Passwords :
          \/ \E name \in Usernames : CreateUser(i, name, password)
          \/ BootstrapAdmin(i, password)
          \/ UpdatePassword(i, password)
    \/ \E i \in UserIds : RevokeTokens(i)
    \/ \E name \in Usernames :
          \/ \E role \in Roles : UpdateUserRole(name, role)
          \/ DeleteUser(name)

Spec == Init /\ [][Next]_accounts

-----------------------------------------------------------------------------
(* Every id is unused, deleted, or names a well-formed account. *)
TypeOK == accounts \in [UserIds -> Account \cup {Unused, Deleted}]

(* No interleaving of role changes and deletions leaves the service without
   an administrator (ErrLastAdmin, storage/user.go and storage/postgres.go). *)
AdminExists == Admins # {}

(* Two accounts never share a username. *)
UniqueUsernames ==
    \A i, j \in Live : accounts[i].username = accounts[j].username => i = j

(* One step of the store, for the account it touches and every other. *)
VersionStep ==
    \A i \in UserIds :
        /\ i \in Live /\ i \in Live' =>
              accounts[i].tokenVersion <= accounts'[i].tokenVersion
        /\ accounts[i] = Deleted => accounts'[i] = Deleted

(* The token version of an account never goes back, and a deleted account
   never returns: what makes a revoked token revoked for good. *)
VersionsOnlyGrow == [][VersionStep]_accounts
=============================================================================
