--------------------------- MODULE LinkStoreSpec ---------------------------
(***************************************************************************)
(* What the link service promises, whatever the backend and however many   *)
(* steps its requests take: a code names at most one working link; a link  *)
(* appears under a code that is free, works until a fixed time, counts its *)
(* visits one by one, and disappears only because that time came, because  *)
(* somebody entitled to it asked for the deletion of its code, or with its *)
(* owner.  Expired links are no state of this specification: when and how  *)
(* they are cleaned up cannot be told apart.                               *)
(***************************************************************************)
EXTENDS Naturals

CONSTANTS
    Codes,      \* short codes
    LinkIds,    \* what utils.GenerateID can return for a link
    Users, Admins,
    Requests,   \* requests that can be in flight
    NoLink,     \* nothing works under that code
    NoCode      \* the request deletes nothing

VARIABLES
    now,        \* the clock that expiry is judged by
    owners,     \* the accounts that exist
    links,      \* code -> the working link
    deleting    \* request -> the code it is entitled to delete

vars == <<now, owners, links, deleting>>

Link == [id : LinkIds, owner : Users, until : Nat, visits : Nat]

Init ==
    /\ now = 0 /\ owners = Users
    /\ links = [code \in Codes |-> NoLink]
    /\ deleting = [r \in Requests |-> NoCode]

(* The clock advances, and the links whose time has come stop working. *)
Tick ==
    /\ now' = now + 1
    /\ links' = [code \in Codes |->
                   IF links[code] # NoLink /\ links[code].until > now' THEN links[code]
                                                                      ELSE NoLink]
    /\ UNCHANGED <<owners, deleting>>

(* CreateShortURL: a new link under a free code; the others are untouched. *)
Create(code) ==
    /\ links[code] = NoLink
    /\ links'[code] \in Link /\ links'[code].visits = 0 /\ links'[code].until > now
    /\ links' = [links EXCEPT ![code] = links'[code]]
    /\ \A other \in Codes : links[other] # NoLink => links[other].id # links'[code].id
    /\ UNCHANGED <<now, owners, deleting>>

(* Redirect *)
Visit(code) ==
    /\ links[code] # NoLink
    /\ links' = [links EXCEPT ![code].visits = @ + 1]
    /\ UNCHANGED <<now, owners, deleting>>

(* DeleteURL: the entitlement is judged on the link that works under the code
   at one time, and what works under it at a later time is deleted. *)
AskDelete(r, code, user) ==
    /\ deleting[r] = NoCode
    /\ links[code] # NoLink
    /\ user \in Admins \/ links[code].owner = user
    /\ deleting' = [deleting EXCEPT ![r] = code]
    /\ UNCHANGED <<now, owners, links>>

FinishDelete(r) ==
    /\ deleting[r] # NoCode
    /\ links' \in {links, [links EXCEPT ![deleting[r]] = NoLink]}
    /\ deleting' = [deleting EXCEPT ![r] = NoCode]
    /\ UNCHANGED <<now, owners>>

(* DeleteUser: PostgreSQL cascades, the in-memory stores do not. *)
DeleteUser(user) ==
    /\ user \in owners
    /\ owners' = owners \ {user}
    /\ links' \in {links,
                   [code \in Codes |->
                      IF links[code] # NoLink /\ links[code].owner = user THEN NoLink
                                                                       ELSE links[code]]}
    /\ UNCHANGED <<now, deleting>>

Next ==
    \/ Tick
    \/ \E code \in Codes : Create(code) \/ Visit(code)
    \/ \E user \in Users : DeleteUser(user)
    \/ \E r \in Requests :
          \/ FinishDelete(r)
          \/ \E code \in Codes, user \in Users : AskDelete(r, code, user)

Spec == Init /\ [][Next]_vars

-----------------------------------------------------------------------------
(* One step, for the link that works under each code: it stays as it is but
   for a visit, or it ends, and then its time has come, a deletion of its code
   ends with it, or its owner is gone. *)
LinkStep ==
    \A code \in Codes :
        links[code] # NoLink =>
            \/ links'[code] = links[code]
            \/ links'[code] = [links[code] EXCEPT !.visits = @ + 1]
            \/ /\ links'[code] = NoLink
               /\ \/ links[code].until <= now'
                  \/ \E r \in Requests : deleting[r] = code /\ deleting'[r] = NoCode
                  \/ links[code].owner \notin owners'

(* A code never passes from one working link to another at once, no counter is
   reset or skips, no owner or expiry changes, and no link ends for another
   reason than these three. *)
LinksEndForAReason == [][LinkStep]_vars
=============================================================================
