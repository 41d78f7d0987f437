---------------------------- MODULE AuthSessions ----------------------------
(***************************************************************************)
(* The authentication handlers (handlers/auth.go) on top of the UserStore  *)
(* interface: register, login, the authentication middleware, password     *)
(* change, session revocation, and the administrator's role change and     *)
(* account deletion.                                                       *)
(*                                                                         *)
(* A request is a goroutine.  It shares nothing with the others but the    *)
(* store, so one step here is one call of the store with the local         *)
(* computation that follows it; what a handler read in an earlier step is  *)
(* kept in req[r] and may be stale when a later step uses it.              *)
(*                                                                         *)
(* Signatures and expiry are left to the token service: issued holds the   *)
(* tokens that verify, and a client may present any of them at any time.   *)
(* Of a token's claims only the user id and the token version are read     *)
(* after verification.                                                     *)
(***************************************************************************)
EXTENDS UserStoreSpec

CONSTANTS
    Requests,       \* requests that can be in flight at the same time
    MaxVersion      \* bound on the token versions explored

ASSUME MaxVersionAssumption == MaxVersion \in Nat

VARIABLES
    issued,         \* tokens handed out so far
    req             \* request -> its position in the handler and its locals

vars == <<accounts, issued, req>>

Token == [user_id : UserIds, token_version : Nat]

Idle == [pc |-> "idle"]

(* The locals of a handler between two calls of the store. *)
LoginState    == [pc : {"login"}, username : Usernames, password : Passwords]
AuthedState   == [pc : {"authed"}, user_id : UserIds, username : Usernames,
                  role : Roles]
VerifiedState == [pc : {"verified"}, user_id : UserIds, username : Usernames,
                  new : Passwords]
RequestState  == {Idle} \cup LoginState \cup AuthedState \cup VerifiedState

GenerateToken(i) == [user_id |-> i, token_version |-> accounts[i].tokenVersion]

(* The middleware's test: the account exists and its version is the token's. *)
Accepted(t) ==
    /\ t.user_id \in Live
    /\ accounts[t.user_id].tokenVersion = t.token_version

(* VerifyPassword: the account by that name has that password now. *)
PasswordMatches(name, password) ==
    \E i \in Named(name) : accounts[i].password = password

CanBump(i) == i \in Live => accounts[i].tokenVersion < MaxVersion

-----------------------------------------------------------------------------
AuthInit ==
    /\ Init
    /\ issued = {}
    /\ req = [r \in Requests |-> Idle]

Goto(r, state) == req' = [req EXCEPT ![r] = state]
Answer(r) == Goto(r, Idle)

(* One store call; the token is made from the account that call returned. *)
Register(name, password) ==
    \E i \in UserIds :
        /\ CreateUser(i, name, password)
        /\ issued' = issued \cup {[user_id |-> i, token_version |-> 0]}
        /\ UNCHANGED req

LoginVerify(r, name, password) ==
    /\ req[r] = Idle
    /\ PasswordMatches(name, password)
    /\ Goto(r, [pc |-> "login", username |-> name, password |-> password])
    /\ UNCHANGED <<accounts, issued>>

(* The account is read again by its name, and the token is made from it. *)
LoginIssue(r) ==
    /\ req[r].pc = "login"
    /\ issued' = issued \cup {GenerateToken(i) : i \in Named(req[r].username)}
    /\ Answer(r)
    /\ UNCHANGED accounts

Authenticate(r, t) ==
    /\ req[r] = Idle
    /\ Accepted(t)
    /\ Goto(r, [pc |-> "authed", user_id |-> t.user_id,
                username |-> accounts[t.user_id].username,
                role |-> accounts[t.user_id].role])
    /\ UNCHANGED <<accounts, issued>>

ChangePasswordVerify(r, current, new) ==
    /\ req[r].pc = "authed"
    /\ current # new
    /\ IF PasswordMatches(req[r].username, current)
       THEN Goto(r, [pc |-> "verified", user_id |-> req[r].user_id,
                     username |-> req[r].username, new |-> new])
       ELSE Answer(r)
    /\ UNCHANGED <<accounts, issued>>

(* Mutant: the update finds the account by the name the request carries. *)
UpdateByUsername(r) ==
    /\ req[r].pc = "verified"
    /\ \E i \in Named(req[r].username) : CanBump(i) /\ UpdatePassword(i, req[r].new)
    /\ Answer(r)
    /\ UNCHANGED issued

ChangePasswordUpdate(r) ==
    /\ req[r].pc = "verified"
    /\ CanBump(req[r].user_id)
    /\ \/ UpdatePassword(req[r].user_id, req[r].new)
       \/ req[r].user_id \notin Live /\ UNCHANGED accounts
    /\ Answer(r)
    /\ UNCHANGED issued

RevokeSessions(r) ==
    /\ req[r].pc = "authed"
    /\ CanBump(req[r].user_id)
    /\ \/ RevokeTokens(req[r].user_id)
       \/ req[r].user_id \notin Live /\ UNCHANGED accounts
    /\ Answer(r)
    /\ UNCHANGED issued

(* AdminMiddleware looks at the role the authentication step put in the
   request's context, not at the store. *)
IsAdminRequest(r) == req[r].pc = "authed" /\ req[r].role = "admin"

ChangeRole(r, name, role) ==
    /\ IsAdminRequest(r)
    /\ UpdateUserRole(name, role)
    /\ Answer(r)
    /\ UNCHANGED issued

RemoveUser(r, name) ==
    /\ IsAdminRequest(r)
    /\ DeleteUser(name)
    /\ Answer(r)
    /\ UNCHANGED issued

(* A handler that only reads; every refusal: 403 from AdminMiddleware, 404 for
   an unknown user, 409 for the last administrator; and the 500 of a store
   call that failed without effect. *)
AnswerOnly(r) ==
    /\ req[r] # Idle
    /\ Answer(r)
    /\ UNCHANGED <<accounts, issued>>

RequestStep(r) ==
    \/ \E name \in Usernames, password \in Passwords : LoginVerify(r, name, password)
    \/ LoginIssue(r)
    \/ \E t \in issued : Authenticate(r, t)
    \/ \E current, new \in Passwords : ChangePasswordVerify(r, current, new)
    \/ ChangePasswordUpdate(r)
    \/ RevokeSessions(r)
    \/ \E name \in Usernames, role \in Roles : ChangeRole(r, name, role)
    \/ \E name \in Usernames : RemoveUser(r, name)
    \/ AnswerOnly(r)

AuthNext ==
    \/ \E name \in Usernames, password \in Passwords : Register(name, password)
    \/ \E r \in Requests : RequestStep(r)

AuthSpec == AuthInit /\ [][AuthNext]_vars

-----------------------------------------------------------------------------
(* The type of the composed state. *)
AuthTypeOK ==
    /\ TypeOK
    /\ issued \subseteq Token
    /\ req \in [Requests -> RequestState]

(* A token was made from an account that exists or existed, at a version the
   account had: no token is ahead of its account, so none can become valid. *)
TokensNotAhead ==
    \A t \in issued :
        /\ accounts[t.user_id] # Unused
        /\ t.user_id \in Live =>
              t.token_version <= accounts[t.user_id].tokenVersion

(* A token the middleware refuses is refused for ever: after a password
   change, a revocation or the deletion of the account, and even when the
   username is registered again. *)
RefusedForGood ==
    [][\A t \in issued : ~Accepted(t) => ~Accepted(t)']_vars

(* The step that changes a password or revokes sessions refuses, from that
   instant, every token of the account issued before it, including the one
   the request itself came with. *)
BumpEndsSessions ==
    [][\A i \in Live :
          \/ i \in Live' /\ accounts'[i].password # accounts[i].password
          \/ \E r \in Requests : req[r] # Idle /\ req[r].pc = "authed"
                                 /\ req[r].user_id = i /\ RevokeSessions(r)
          => \A t \in issued : t.user_id = i => ~Accepted(t)']_vars

(* A password change reaches only the account the request authenticated as:
   never the one that took over its username after a deletion. *)
OnlyOwnPassword ==
    [][\A i \in Live :
          i \in Live' /\ accounts'[i].password # accounts[i].password =>
             \E r \in Requests : /\ req[r].pc = "verified"
                                 /\ req[r].user_id = i]_vars

(* A login hands out a token only while the password it was given is still
   the account's. *)
LoginUsesCurrentPassword ==
    [][\A r \in Requests :
          req[r].pc = "login" /\ req'[r] = Idle /\ issued' # issued =>
             PasswordMatches(req[r].username, req[r].password)]_vars
=============================================================================
