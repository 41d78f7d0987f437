---------------------------- MODULE LinksProofs ----------------------------
(***************************************************************************)
(* Proofs about the links, for any number of codes, accounts and requests: *)
(* the promises to those who were given a link, and that both backends     *)
(* implement the one-step specification LinkStoreSpec.                     *)
(***************************************************************************)
EXTENDS Links, TLAPS

IsCreating(r) == req[r].pc = "create"

(* An id that was drawn belongs to one creation, and to nothing else before
   its code is reserved: no link, batch or answer knows it. *)
FreshIds ==
    /\ \A r \in Requests : IsCreating(r) =>
          /\ req[r].id <= lastId
          /\ \A other \in Requests : IsCreating(other) /\ req[other].id = req[r].id => other = r
          /\ \A code \in Codes : Stored(code) => urls[code].id # req[r].id
          /\ \A row \in batch : row.id # req[r].id
          /\ \A g \in granted : g.id # req[r].id
          /\ served[req[r].id] = 0 /\ req[r].id \notin unanswered
    /\ \A code \in Codes : Stored(code) => urls[code].id <= lastId
    /\ \A row \in batch : row.id <= lastId
    /\ \A g \in granted : g.id <= lastId
    /\ \A id \in unanswered : id <= lastId
    /\ \A id \in LinkIds : id > lastId => served[id] = 0

(* What a cleanup selected has expired, wherever it is found. *)
BatchExpired ==
    \A row \in batch, code \in Codes :
        Stored(code) /\ urls[code].id = row.id => InPostgres /\ ExpiredInTable(code)

(* A granted link that is still stored is what was granted. *)
GrantsAgree ==
    \A g \in granted :
        Stored(g.code) /\ urls[g.code].id = g.id =>
            /\ urls[g.code].expiresAt = g.expiresAt
            /\ urls[g.code].createdBy = g.createdBy

-----------------------------------------------------------------------------
LEMMA LinkTypes ==
    ASSUME TypeOK, NEW code \in Codes, Stored(code)
    PROVE  /\ urls[code] \in Link
           /\ urls[code].id \in LinkIds /\ urls[code].createdBy \in Users
           /\ urls[code].expiresAt \in Nat /\ urls[code].visits \in Nat
  BY DEF TypeOK, Stored, Link

LEMMA CreationTypes ==
    ASSUME TypeOK, NEW r \in Requests, IsCreating(r)
    PROVE  /\ req[r] \in Creating
           /\ req[r].id \in LinkIds /\ req[r].createdBy \in Users
           /\ req[r].expiresAt \in Nat /\ req[r].attempt \in Nat
           /\ req[r].custom \in Codes \cup {NoCode}
  <1>1. req[r] \in {Idle} \cup Creating \cup Deleting
    BY DEF TypeOK
  <1>2. req[r] # Idle
    BY DEF IsCreating, Idle
  <1>3. req[r] \notin Deleting
    BY DEF IsCreating, Deleting
  <1> QED BY <1>1, <1>2, <1>3 DEF Creating

LEMMA DeletionTypes ==
    ASSUME TypeOK, NEW r \in Requests, req[r].pc = "delete"
    PROVE  req[r] \in Deleting /\ req[r].code \in Codes /\ req[r].user \in Users
  <1>1. req[r] \in {Idle} \cup Creating \cup Deleting
    BY DEF TypeOK
  <1>2. req[r] # Idle
    BY DEF Idle
  <1>3. req[r] \notin Creating
    BY DEF Creating
  <1> QED BY <1>1, <1>2, <1>3 DEF Deleting

(* What an insertion puts under the code is a link. *)
LEMMA NewLinkTypes ==
    ASSUME TypeOK, NEW r \in Requests, IsCreating(r), NEW code \in Codes
    PROVE  /\ NewLink(req[r], code) \in Link
           /\ NewLink(req[r], code) # NoLink
           /\ GrantOf(req[r], code) \in Grant
  BY CreationTypes, LinksAssumption DEF NewLink, GrantOf, Link, Grant

-----------------------------------------------------------------------------
(* Every variable keeps its type. *)
LEMMA InitTypes == Init => TypeOK
  BY LinksAssumption DEF Init, TypeOK, LinkIds

LEMMA StepTypes == TypeOK /\ [Next]_vars => TypeOK'
  <1> SUFFICES ASSUME TypeOK, [Next]_vars PROVE TypeOK'
    OBVIOUS
  <1> USE LinksAssumption
  <1>1. CASE Tick
    BY <1>1 DEF Tick, TypeOK, history
  <1>2. CASE CleanupExpired
    BY <1>2 DEF CleanupExpired, TypeOK, history
  <1>3. CASE CleanupSelect
    <2>1. PICK selection \in SUBSET Codes :
              /\ Oldest(selection)
              /\ batch' = {[code |-> code, id |-> urls[code].id] : code \in selection}
      BY <1>3 DEF CleanupSelect
    <2>2. \A code \in selection : Stored(code)
      BY <2>1 DEF Oldest, ExpiredCodes, Expired
    <2>3. batch' \subseteq Selected
      BY <2>1, <2>2, LinkTypes DEF Selected
    <2> QED BY <1>3, <2>3 DEF CleanupSelect, TypeOK, history
  <1>4. CASE CleanupDelete
    BY <1>4 DEF CleanupDelete, TypeOK, history
  <1>5. CASE CleanupFail
    BY <1>5 DEF CleanupFail, TypeOK, history
  <1>6. ASSUME NEW code \in Codes, Redirect(code) PROVE TypeOK'
    <2>1. urls[code] \in Link /\ urls[code].id \in LinkIds /\ urls[code].visits \in Nat
      BY <1>6, LinkTypes DEF Redirect, GetAndIncrement, Active
    <2>2. urls' = [urls EXCEPT ![code].visits = @ + 1]
      BY <1>6 DEF Redirect, GetAndIncrement
    <2>3. [urls[code] EXCEPT !.visits = @ + 1] \in Link
      BY <2>1 DEF Link
    <2>4. urls' \in [Codes -> Link \cup {NoLink}]
      BY <2>2, <2>3 DEF TypeOK
    <2>5. served' \in [LinkIds -> Nat] /\ unanswered' \subseteq LinkIds
      BY <1>6, <2>1 DEF Redirect, TypeOK
    <2> QED BY <1>6, <2>4, <2>5 DEF Redirect, TypeOK
  <1>7. ASSUME NEW user \in Users, DeleteUser(user) PROVE TypeOK'
    BY <1>7 DEF DeleteUser, Cascade, TypeOK, history
  <1>8. ASSUME NEW r \in Requests, NEW user \in users, NEW ttl \in TTLs,
               NEW custom \in Codes \cup {NoCode}, CreateShortURL(r, user, ttl, custom)
        PROVE  TypeOK'
    <2>1. PICK behind \in 0..(IF InMemory THEN 0 ELSE ClockSkew) :
              Goto(r, [pc |-> "create", id |-> lastId', createdBy |-> user,
                       expiresAt |-> now + ttl - behind, custom |-> custom,
                       attempt |-> 1])
      BY <1>8 DEF CreateShortURL
    <2>2. behind \in Nat /\ behind <= ttl /\ ttl \in Nat
      OBVIOUS
    <2>3. now + ttl - behind \in Nat
      BY <2>2 DEF TypeOK
    <2>4. lastId' \in 1..MaxLinks
      BY <1>8 DEF CreateShortURL, TypeOK
    <2>5. user \in Users
      BY DEF TypeOK
    <2>6. req' \in [Requests -> {Idle} \cup Creating \cup Deleting]
      BY <2>1, <2>3, <2>4, <2>5 DEF TypeOK, Goto, Creating, LinkIds
    <2> QED BY <1>8, <2>4, <2>6 DEF CreateShortURL, TypeOK, history
  <1>9. ASSUME NEW r \in Requests, TryReserve(r) PROVE TypeOK'
    <2>1. IsCreating(r)
      BY <1>9 DEF TryReserve, IsCreating
    <2>2. Candidates(req[r]) \subseteq Codes
      BY <2>1, CreationTypes DEF Candidates, Codes
    <2>3. PICK code \in Codes : Reserve(r, code) \/ KeyExists(r, code) \/ OwnerMissing(r, code)
      BY <1>9, <2>2 DEF TryReserve
    <2>4. CASE Reserve(r, code)
      <3>1. urls' = [urls EXCEPT ![code] = NewLink(req[r], code)]
        BY <2>4 DEF Reserve, SetIfAbsentInMemory, SetIfAbsentInTable, Put
      <3>2. granted' \in {granted, granted \cup {GrantOf(req[r], code)}}
        BY <2>4 DEF Reserve, SetIfAbsentInMemory, SetIfAbsentInTable
      <3>3. urls' \in [Codes -> Link \cup {NoLink}] /\ granted' \subseteq Grant
        BY <3>1, <3>2, <2>1, NewLinkTypes DEF TypeOK
      <3> QED BY <2>4, <3>3 DEF Reserve, TypeOK, Goto
    <2>5. CASE KeyExists(r, code)
      <3>1. [req[r] EXCEPT !.attempt = @ + 1] \in Creating
        BY <2>1, CreationTypes DEF Creating
      <3> QED BY <2>5, <3>1 DEF KeyExists, TypeOK, Goto, history
    <2>6. CASE OwnerMissing(r, code)
      BY <2>6 DEF OwnerMissing, EndRequest, TypeOK, Goto, history
    <2> QED BY <2>3, <2>4, <2>5, <2>6
  <1>10. ASSUME NEW r \in Requests, NEW code \in Codes, NEW user \in Users,
                DeleteURL(r, code, user)
         PROVE  TypeOK'
    BY <1>10 DEF DeleteURL, TypeOK, Goto, Deleting, history
  <1>11. ASSUME NEW r \in Requests, Delete(r) PROVE TypeOK'
    <2>1. req[r].code \in Codes
      BY <1>11, DeletionTypes DEF Delete
    <2>2. urls' \in [Codes -> Link \cup {NoLink}] /\ deleted' \subseteq LinkIds
      <3>1. CASE DeleteInMemory(req[r].code) \/ DeleteInTable(req[r].code)
        BY <1>11, <2>1, <3>1, LinkTypes
           DEF Delete, DeleteInMemory, DeleteInTable, Active, TypeOK
      <3>2. CASE ~(DeleteInMemory(req[r].code) \/ DeleteInTable(req[r].code))
        BY <1>11, <3>2 DEF Delete, TypeOK
      <3> QED BY <3>1, <3>2
    <2> QED BY <1>11, <2>2 DEF Delete, TypeOK, Goto
  <1>12. ASSUME NEW r \in Requests, Fail(r) PROVE TypeOK'
    BY <1>12 DEF Fail, EndRequest, TypeOK, Goto, history
  <1>13. CASE UNCHANGED vars
    BY <1>13 DEF vars, TypeOK, history
  <1> QED
    BY <1>1, <1>2, <1>3, <1>4, <1>5, <1>6, <1>7, <1>8, <1>9, <1>10, <1>11, <1>12, <1>13
       DEF Next
-----------------------------------------------------------------------------
(* The conjuncts of the invariant that only look at what is stored. *)
StoredFacts == FreshIds /\ StoredOnce /\ BatchExpired /\ GrantsAgree /\ VisitsCoverRedirects

(* A step that stores nothing new, draws no id, selects no batch and answers
   nobody keeps them, whatever it removes and however the clock moves. *)
Removes ==
    /\ backend' = backend /\ lastId' = lastId
    /\ now' \in Nat /\ now <= now'
    /\ \A code \in Codes : urls'[code] \in {urls[code], NoLink}
    /\ batch' \subseteq batch
    /\ \A r \in Requests : IsCreating(r)' => IsCreating(r) /\ req'[r].id = req[r].id
    /\ granted' = granted /\ served' = served /\ unanswered' = unanswered

LEMMA RemovesStored ==
    ASSUME Removes, NEW code \in Codes, Stored(code)'
    PROVE  Stored(code) /\ urls'[code] = urls[code]
  BY DEF Removes, Stored

LEMMA RemovalKeeps == TypeOK /\ StoredFacts /\ Removes => StoredFacts'
  <1> SUFFICES ASSUME TypeOK, StoredFacts, Removes PROVE StoredFacts'
    OBVIOUS
  <1>1. FreshIds'
    BY RemovesStored DEF StoredFacts, FreshIds, Removes, IsCreating
  <1>2. StoredOnce'
    BY RemovesStored DEF StoredFacts, StoredOnce
  <1>3. BatchExpired'
    <2> SUFFICES ASSUME NEW row \in batch', NEW code \in Codes,
                        Stored(code)', urls'[code].id = row.id
                 PROVE  InPostgres' /\ ExpiredInTable(code)'
      BY DEF BatchExpired
    <2>1. row \in batch /\ Stored(code) /\ urls'[code] = urls[code]
      BY RemovesStored DEF Removes
    <2>2. InPostgres /\ ~(urls[code].expiresAt > now)
      BY <2>1 DEF StoredFacts, BatchExpired, ExpiredInTable
    <2>3. now \in Nat /\ now' \in Nat /\ now <= now' /\ urls[code].expiresAt \in Nat
      BY <2>1, LinkTypes DEF Removes, TypeOK
    <2> QED BY <2>1, <2>2, <2>3 DEF InPostgres, ExpiredInTable, Removes
  <1>4. GrantsAgree'
    <2> SUFFICES ASSUME NEW g \in granted', Stored(g.code)', urls'[g.code].id = g.id
                 PROVE  /\ urls'[g.code].expiresAt = g.expiresAt
                        /\ urls'[g.code].createdBy = g.createdBy
      BY DEF GrantsAgree
    <2>1. g \in granted /\ g.code \in Codes
      BY DEF Removes, TypeOK, Grant
    <2> QED BY <2>1, RemovesStored DEF StoredFacts, GrantsAgree
  <1>5. VisitsCoverRedirects'
    BY RemovesStored DEF StoredFacts, VisitsCoverRedirects, Removes
  <1> QED BY <1>1, <1>2, <1>3, <1>4, <1>5 DEF StoredFacts

(* A new id is nobody's. *)
LEMMA CreateKeeps ==
    ASSUME TypeOK, StoredFacts,
           NEW r \in Requests, NEW user \in users, NEW ttl \in TTLs,
           NEW custom \in Codes \cup {NoCode}, CreateShortURL(r, user, ttl, custom)
    PROVE  StoredFacts'
  <1>1. /\ lastId' = lastId + 1 /\ lastId \in Nat /\ lastId' \in LinkIds
        /\ UNCHANGED <<backend, now, users, urls, batch, history>>
    BY LinksAssumption DEF CreateShortURL, TypeOK, LinkIds
  <1>2. /\ req'[r].pc = "create" /\ req'[r].id = lastId'
        /\ \A other \in Requests \ {r} : req'[other] = req[other]
    BY DEF CreateShortURL, Goto, TypeOK
  <1>3. \A code \in Codes : Stored(code) => urls[code].id \in Nat /\ urls[code].id <= lastId
    BY LinkTypes DEF StoredFacts, FreshIds, LinkIds
  <1>4. \A row \in batch : row.id \in Nat /\ row.id <= lastId
    BY DEF StoredFacts, FreshIds, TypeOK, Selected, LinkIds
  <1>5. \A g \in granted : g.id \in Nat /\ g.id <= lastId
    BY DEF StoredFacts, FreshIds, TypeOK, Grant, LinkIds
  <1>6. \A id \in unanswered : id \in Nat /\ id <= lastId
    BY DEF StoredFacts, FreshIds, TypeOK, LinkIds
  <1>7. \A id \in LinkIds : id > lastId => served[id] = 0
    BY DEF StoredFacts, FreshIds
  <1>8. \A other \in Requests : IsCreating(other) =>
            req[other].id \in Nat /\ req[other].id <= lastId
    BY CreationTypes DEF StoredFacts, FreshIds, LinkIds
  <1>9. FreshIds'
    <2>1. ASSUME NEW q \in Requests, IsCreating(q)'
          PROVE  /\ req'[q].id <= lastId'
                 /\ \A other \in Requests :
                       IsCreating(other)' /\ req'[other].id = req'[q].id => other = q
                 /\ \A code \in Codes : Stored(code)' => urls'[code].id # req'[q].id
                 /\ \A row \in batch' : row.id # req'[q].id
                 /\ \A g \in granted' : g.id # req'[q].id
                 /\ served'[req'[q].id] = 0 /\ req'[q].id \notin unanswered'
      <3>1. CASE q = r
        <4>1. \A other \in Requests \ {r} : IsCreating(other)' => req'[other].id # lastId'
          BY <1>1, <1>2, <1>8 DEF IsCreating
        <4>2. served[lastId'] = 0
          BY <1>1, <1>7
        <4> QED BY <3>1, <4>1, <4>2, <1>1, <1>2, <1>3, <1>4, <1>5, <1>6 DEF Stored, history
      <3>2. CASE q # r
        <4>1. IsCreating(q) /\ req'[q] = req[q] /\ req[q].id # lastId'
          BY <2>1, <3>2, <1>1, <1>2, <1>8 DEF IsCreating
        <4>2. /\ \A other \in Requests : IsCreating(other) /\ req[other].id = req[q].id => other = q
              /\ \A code \in Codes : Stored(code) => urls[code].id # req[q].id
              /\ \A row \in batch : row.id # req[q].id
              /\ \A g \in granted : g.id # req[q].id
              /\ served[req[q].id] = 0 /\ req[q].id \notin unanswered
          BY <4>1 DEF StoredFacts, FreshIds
        <4>3. req[q].id <= lastId'
          BY <4>1, <1>1, <1>8
        <4> QED BY <4>1, <4>2, <4>3, <1>1, <1>2 DEF Stored, history, IsCreating
      <3> QED BY <3>1, <3>2
    <2>2. \A code \in Codes : Stored(code)' => urls'[code].id <= lastId'
      BY <1>1, <1>3 DEF Stored
    <2>3. /\ \A row \in batch' : row.id <= lastId'
          /\ \A g \in granted' : g.id <= lastId'
          /\ \A id \in unanswered' : id <= lastId'
      BY <1>1, <1>4, <1>5, <1>6 DEF history
    <2>4. \A id \in LinkIds : id > lastId' => served'[id] = 0
      BY <1>1, <1>7 DEF history, LinkIds
    <2> QED BY <2>1, <2>2, <2>3, <2>4 DEF FreshIds
  <1>10. StoredOnce' /\ BatchExpired' /\ GrantsAgree' /\ VisitsCoverRedirects'
    BY <1>1 DEF StoredFacts, StoredOnce, BatchExpired, GrantsAgree, VisitsCoverRedirects,
                Stored, InPostgres, ExpiredInTable, history
  <1> QED BY <1>9, <1>10 DEF StoredFacts

(* A reserved code holds the link of the creation, whose id nothing else has. *)
LEMMA ReserveEffect ==
    ASSUME TypeOK, NEW r \in Requests, IsCreating(r), NEW code \in Codes, Reserve(r, code)
    PROVE  /\ ~Active(code)
           /\ InPostgres => req[r].createdBy \in users
           /\ Stored(code)' /\ urls'[code] = NewLink(req[r], code)
           /\ \A other \in Codes \ {code} : urls'[other] = urls[other]
           /\ granted' \in {granted, granted \cup {GrantOf(req[r], code)}}
           /\ req'[r] = Idle /\ \A other \in Requests \ {r} : req'[other] = req[other]
           /\ UNCHANGED <<backend, now, lastId, users, batch, deleted, served, unanswered>>
  <1>1. urls' = [urls EXCEPT ![code] = NewLink(req[r], code)]
    BY DEF Reserve, SetIfAbsentInMemory, SetIfAbsentInTable, Put
  <1>2. urls'[code] = NewLink(req[r], code) /\ \A other \in Codes \ {code} : urls'[other] = urls[other]
    BY <1>1 DEF TypeOK
  <1>3. Stored(code)'
    BY <1>2, NewLinkTypes DEF Stored
  <1>4. req'[r] = Idle /\ \A other \in Requests \ {r} : req'[other] = req[other]
    BY DEF Reserve, Goto, TypeOK
  <1>5. InPostgres => ~InMemory
    BY DEF InPostgres, InMemory
  <1> QED BY <1>2, <1>3, <1>4, <1>5 DEF Reserve, SetIfAbsentInMemory, SetIfAbsentInTable

LEMMA ReserveKeeps ==
    ASSUME TypeOK, StoredFacts,
           NEW r \in Requests, IsCreating(r), NEW code \in Codes, Reserve(r, code)
    PROVE  StoredFacts'
  <1> DEFINE id == req[r].id
  <1>1. /\ Stored(code)' /\ urls'[code].id = id /\ urls'[code].visits = 0
        /\ urls'[code].expiresAt = req[r].expiresAt
        /\ urls'[code].createdBy = req[r].createdBy
    <2>1. Stored(code)' /\ urls'[code] = NewLink(req[r], code)
      BY ReserveEffect
    <2> QED BY <2>1 DEF NewLink
  <1>2. \A other \in Codes \ {code} : urls'[other] = urls[other]
    BY ReserveEffect
  <1>3. granted' \in {granted, granted \cup {GrantOf(req[r], code)}}
    BY ReserveEffect
  <1>4. \A other \in Requests : IsCreating(other)' =>
            other # r /\ IsCreating(other) /\ req'[other] = req[other]
    BY ReserveEffect DEF IsCreating, Idle
  <1>5. UNCHANGED <<backend, now, lastId, users, batch, deleted, served, unanswered>>
    BY ReserveEffect
  <1>6. /\ id \in LinkIds /\ id <= lastId
        /\ \A other \in Requests : IsCreating(other) /\ req[other].id = id => other = r
        /\ \A other \in Codes : Stored(other) => urls[other].id # id
        /\ \A row \in batch : row.id # id
        /\ \A g \in granted : g.id # id
        /\ served[id] = 0 /\ id \notin unanswered
    BY CreationTypes DEF StoredFacts, FreshIds
  <1>7. GrantOf(req[r], code).id = id
    BY DEF GrantOf
  <1>8. FreshIds'
    <2>1. ASSUME NEW q \in Requests, IsCreating(q)'
          PROVE  /\ req'[q].id <= lastId'
                 /\ \A other \in Requests :
                       IsCreating(other)' /\ req'[other].id = req'[q].id => other = q
                 /\ \A c \in Codes : Stored(c)' => urls'[c].id # req'[q].id
                 /\ \A row \in batch' : row.id # req'[q].id
                 /\ \A g \in granted' : g.id # req'[q].id
                 /\ served'[req'[q].id] = 0 /\ req'[q].id \notin unanswered'
      <3>1. q # r /\ IsCreating(q) /\ req'[q] = req[q]
        BY <2>1, <1>4
      <3>2. req[q].id # id
        BY <3>1, <1>6
      <3>3. /\ req[q].id <= lastId
            /\ \A other \in Requests : IsCreating(other) /\ req[other].id = req[q].id => other = q
            /\ \A c \in Codes : Stored(c) => urls[c].id # req[q].id
            /\ \A row \in batch : row.id # req[q].id
            /\ \A g \in granted : g.id # req[q].id
            /\ served[req[q].id] = 0 /\ req[q].id \notin unanswered
        BY <3>1 DEF StoredFacts, FreshIds
      <3>4. \A c \in Codes : Stored(c)' => urls'[c].id # req'[q].id
        BY <3>1, <3>2, <3>3, <1>1, <1>2 DEF Stored
      <3>5. \A g \in granted' : g.id # req'[q].id
        BY <3>1, <3>2, <3>3, <1>3, <1>7
      <3>6. \A other \in Requests :
                IsCreating(other)' /\ req'[other].id = req'[q].id => other = q
        BY <3>1, <3>3, <1>4
      <3> QED BY <3>1, <3>3, <3>4, <3>5, <3>6, <1>5
    <2>2. \A c \in Codes : Stored(c)' => urls'[c].id <= lastId'
      BY <1>1, <1>2, <1>5, <1>6 DEF StoredFacts, FreshIds, Stored
    <2>3. \A g \in granted' : g.id <= lastId'
      BY <1>3, <1>5, <1>6, <1>7 DEF StoredFacts, FreshIds
    <2>4. /\ \A row \in batch' : row.id <= lastId'
          /\ \A i \in unanswered' : i <= lastId'
          /\ \A i \in LinkIds : i > lastId' => served'[i] = 0
      BY <1>5 DEF StoredFacts, FreshIds
    <2> QED BY <2>1, <2>2, <2>3, <2>4 DEF FreshIds
  <1>9. StoredOnce'
    BY <1>1, <1>2, <1>6 DEF StoredFacts, StoredOnce, Stored
  <1>10. BatchExpired'
    BY <1>1, <1>2, <1>5, <1>6
       DEF StoredFacts, BatchExpired, Stored, InPostgres, ExpiredInTable
  <1>11. GrantsAgree'
    <2> SUFFICES ASSUME NEW g \in granted', Stored(g.code)', urls'[g.code].id = g.id
                 PROVE  /\ urls'[g.code].expiresAt = g.expiresAt
                        /\ urls'[g.code].createdBy = g.createdBy
      BY DEF GrantsAgree
    <2>1. CASE g = GrantOf(req[r], code)
      BY <2>1, <1>1 DEF GrantOf
    <2>2. CASE g # GrantOf(req[r], code)
      <3>1. g \in granted /\ g.code \in Codes /\ g.id # id
        BY <2>2, <1>3, <1>6 DEF TypeOK, Grant
      <3>2. g.code # code
        BY <3>1, <1>1
      <3> QED BY <3>1, <3>2, <1>2 DEF StoredFacts, GrantsAgree, Stored
    <2> QED BY <2>1, <2>2
  <1>12. VisitsCoverRedirects'
    <2> SUFFICES ASSUME NEW c \in Codes, Stored(c)'
                 PROVE  /\ urls'[c].visits >= served'[urls'[c].id]
                        /\ urls'[c].id \notin unanswered' => urls'[c].visits = served'[urls'[c].id]
      BY DEF VisitsCoverRedirects
    <2>1. CASE c = code
      BY <2>1, <1>1, <1>5, <1>6
    <2>2. CASE c # code
      BY <2>2, <1>2, <1>5 DEF StoredFacts, VisitsCoverRedirects, Stored
    <2> QED BY <2>1, <2>2
  <1> QED BY <1>8, <1>9, <1>10, <1>11, <1>12 DEF StoredFacts

(* A redirect counts one visit of the one link that has that id. *)
LEMMA RedirectEffect ==
    ASSUME TypeOK, NEW code \in Codes, Redirect(code)
    PROVE  /\ Active(code) /\ Stored(code)
           /\ urls'[code] \in Link /\ Stored(code)'
           /\ urls'[code].id = urls[code].id
           /\ urls'[code].createdBy = urls[code].createdBy
           /\ urls'[code].expiresAt = urls[code].expiresAt
           /\ urls'[code].visits = urls[code].visits + 1
           /\ \A other \in Codes \ {code} : urls'[other] = urls[other]
           /\ UNCHANGED <<backend, now, lastId, users, req, batch, granted, deleted>>
  <1>1. Active(code) /\ Stored(code) /\ urls' = [urls EXCEPT ![code].visits = @ + 1]
    BY DEF Redirect, GetAndIncrement, Active
  <1>2. urls[code] \in Link /\ urls[code].visits \in Nat
    BY <1>1, LinkTypes
  <1>3. urls'[code] = [urls[code] EXCEPT !.visits = @ + 1]
        /\ \A other \in Codes \ {code} : urls'[other] = urls[other]
    BY <1>1 DEF TypeOK
  <1>4. [urls[code] EXCEPT !.visits = @ + 1] \in Link
    BY <1>2 DEF Link
  <1>5. /\ urls'[code].id = urls[code].id
        /\ urls'[code].createdBy = urls[code].createdBy
        /\ urls'[code].expiresAt = urls[code].expiresAt
        /\ urls'[code].visits = urls[code].visits + 1
    BY <1>2, <1>3 DEF Link
  <1>6. Stored(code)'
    BY <1>3, <1>4, LinksAssumption DEF Stored
  <1> QED BY <1>1, <1>3, <1>4, <1>5, <1>6 DEF Redirect

LEMMA RedirectKeeps ==
    ASSUME TypeOK, StoredFacts, NEW code \in Codes, Redirect(code)
    PROVE  StoredFacts'
  <1> DEFINE id == urls[code].id
  <1>1. /\ \A c \in Codes : Stored(c)' => Stored(c) /\ urls'[c].id = urls[c].id
               /\ urls'[c].expiresAt = urls[c].expiresAt
               /\ urls'[c].createdBy = urls[c].createdBy
    BY RedirectEffect DEF Stored
  <1>2. UNCHANGED <<backend, now, lastId, users, req, batch, granted, deleted>>
    BY RedirectEffect
  <1>3. Stored(code) /\ id \in LinkIds /\ id <= lastId /\ urls[code].visits \in Nat
    BY RedirectEffect, LinkTypes DEF StoredFacts, FreshIds
  <1>4. /\ served \in [LinkIds -> Nat] /\ served' \in [LinkIds -> Nat]
        /\ \A i \in LinkIds \ {id} : served'[i] = served[i]
        /\ unanswered' \subseteq unanswered \cup {id} /\ unanswered \subseteq unanswered'
        /\ \/ served'[id] = served[id] + 1 /\ unanswered' = unanswered
           \/ served'[id] = served[id] /\ id \in unanswered'
    BY <1>3 DEF Redirect, TypeOK
  <1>5. \A r \in Requests : IsCreating(r)' =>
            IsCreating(r) /\ req'[r].id = req[r].id /\ req[r].id \in LinkIds \ {id}
    BY <1>2, <1>3, CreationTypes DEF IsCreating, StoredFacts, FreshIds
  <1>6. FreshIds'
    <2>1. ASSUME NEW q \in Requests, IsCreating(q)'
          PROVE  /\ req'[q].id <= lastId'
                 /\ \A other \in Requests :
                       IsCreating(other)' /\ req'[other].id = req'[q].id => other = q
                 /\ \A c \in Codes : Stored(c)' => urls'[c].id # req'[q].id
                 /\ \A row \in batch' : row.id # req'[q].id
                 /\ \A g \in granted' : g.id # req'[q].id
                 /\ served'[req'[q].id] = 0 /\ req'[q].id \notin unanswered'
      BY <2>1, <1>1, <1>2, <1>4, <1>5 DEF StoredFacts, FreshIds
    <2>2. \A i \in LinkIds : i > lastId' => served'[i] = 0
      <3>1. id \in Nat /\ lastId \in Nat
        BY <1>3 DEF LinkIds, TypeOK
      <3> QED BY <3>1, <1>2, <1>3, <1>4 DEF StoredFacts, FreshIds, LinkIds
    <2>3. /\ \A c \in Codes : Stored(c)' => urls'[c].id <= lastId'
          /\ \A row \in batch' : row.id <= lastId'
          /\ \A g \in granted' : g.id <= lastId'
          /\ \A i \in unanswered' : i <= lastId'
      BY <1>1, <1>2, <1>3, <1>4 DEF StoredFacts, FreshIds
    <2> QED BY <2>1, <2>2, <2>3 DEF FreshIds
  <1>7. StoredOnce'
    BY <1>1 DEF StoredFacts, StoredOnce
  <1>8. BatchExpired'
    BY <1>1, <1>2 DEF StoredFacts, BatchExpired, InPostgres, ExpiredInTable
  <1>9. GrantsAgree'
    BY <1>1, <1>2 DEF StoredFacts, GrantsAgree, TypeOK, Grant
  <1>10. VisitsCoverRedirects'
    <2> SUFFICES ASSUME NEW c \in Codes, Stored(c)'
                 PROVE  /\ urls'[c].visits >= served'[urls'[c].id]
                        /\ urls'[c].id \notin unanswered' => urls'[c].visits = served'[urls'[c].id]
      BY DEF VisitsCoverRedirects
    <2>1. CASE c = code
      <3>1. urls'[c].visits = urls[c].visits + 1 /\ urls'[c].id = id
        BY <2>1, RedirectEffect
      <3>2. /\ urls[c].visits >= served[id]
            /\ id \notin unanswered => urls[c].visits = served[id]
            /\ served[id] \in Nat
        BY <2>1, <1>3, <1>4 DEF StoredFacts, VisitsCoverRedirects
      <3> QED BY <2>1, <3>1, <3>2, <1>3, <1>4
    <2>2. CASE c # code
      <3>1. Stored(c) /\ urls'[c] = urls[c] /\ urls[c].id \in LinkIds
        BY <2>2, RedirectEffect, LinkTypes DEF Stored
      <3>2. urls[c].id # id
        BY <2>2, <3>1, <1>3 DEF StoredFacts, StoredOnce
      <3> QED BY <3>1, <3>2, <1>4 DEF StoredFacts, VisitsCoverRedirects
    <2> QED BY <2>1, <2>2
  <1> QED BY <1>6, <1>7, <1>8, <1>9, <1>10 DEF StoredFacts

(* A batch is selected from what has expired. *)
LEMMA SelectKeeps == TypeOK /\ StoredFacts /\ CleanupSelect => StoredFacts'
  <1> SUFFICES ASSUME TypeOK, StoredFacts, CleanupSelect PROVE StoredFacts'
    OBVIOUS
  <1>1. PICK selection \in SUBSET Codes :
            /\ Oldest(selection)
            /\ batch' = {[code |-> code, id |-> urls[code].id] : code \in selection}
    BY DEF CleanupSelect
  <1>2. \A row \in batch' : \E c \in Codes :
            InPostgres /\ Stored(c) /\ ExpiredInTable(c) /\ row.id = urls[c].id
    <2>1. InPostgres /\ ~InMemory
      BY DEF CleanupSelect, InPostgres, InMemory
    <2> QED BY <1>1, <2>1 DEF Oldest, ExpiredCodes, Expired
  <1>3. UNCHANGED <<backend, now, lastId, users, urls, req, granted, deleted, served, unanswered>>
    BY DEF CleanupSelect, history
  <1>4. FreshIds'
    BY <1>2, <1>3 DEF StoredFacts, FreshIds, IsCreating, Stored
  <1>5. BatchExpired'
    BY <1>2, <1>3 DEF StoredFacts, StoredOnce, BatchExpired, InPostgres, ExpiredInTable, Stored
  <1>6. StoredOnce' /\ GrantsAgree' /\ VisitsCoverRedirects'
    BY <1>3 DEF StoredFacts, StoredOnce, GrantsAgree, VisitsCoverRedirects, Stored
  <1> QED BY <1>4, <1>5, <1>6 DEF StoredFacts

-----------------------------------------------------------------------------
(* The requests whose step stores nothing. *)
LEMMA RequestRemoves ==
    ASSUME TypeOK, NEW r \in Requests, NEW state, Goto(r, state),
           state.pc = "create" => IsCreating(r) /\ state.id = req[r].id
    PROVE  \A q \in Requests : IsCreating(q)' => IsCreating(q) /\ req'[q].id = req[q].id
  <1>1. req'[r] = state /\ \A q \in Requests \ {r} : req'[q] = req[q]
    BY DEF Goto, TypeOK
  <1> QED BY <1>1 DEF IsCreating

LEMMA EndRemoves ==
    ASSUME TypeOK, NEW r \in Requests, EndRequest(r)
    PROVE  Removes
  <1>1. Goto(r, Idle) /\ Idle.pc # "create"
    BY DEF EndRequest, Idle
  <1>2. \A q \in Requests : IsCreating(q)' => IsCreating(q) /\ req'[q].id = req[q].id
    BY <1>1, RequestRemoves
  <1> QED BY <1>2 DEF EndRequest, Removes, TypeOK, history

LEMMA KeyExistsRemoves ==
    ASSUME TypeOK, NEW r \in Requests, IsCreating(r), NEW code \in Codes, KeyExists(r, code)
    PROVE  Removes
  <1> DEFINE state == IF req[r].custom = NoCode /\ req[r].attempt < MaxAttempts
                      THEN [req[r] EXCEPT !.attempt = @ + 1] ELSE Idle
  <1>1. Goto(r, state)
    BY DEF KeyExists
  <1>2. [req[r] EXCEPT !.attempt = @ + 1].id = req[r].id
    BY CreationTypes DEF Creating
  <1>3. state.pc = "create" => IsCreating(r) /\ state.id = req[r].id
    BY <1>2 DEF Idle
  <1> HIDE DEF state
  <1>4. \A q \in Requests : IsCreating(q)' => IsCreating(q) /\ req'[q].id = req[q].id
    BY <1>1, <1>3, RequestRemoves
  <1> QED BY <1>4 DEF KeyExists, Removes, TypeOK, history

LEMMA DeleteURLRemoves ==
    ASSUME TypeOK, NEW r \in Requests, NEW code \in Codes, NEW user \in Users,
           DeleteURL(r, code, user)
    PROVE  Removes
  <1> DEFINE state == [pc |-> "delete", code |-> code, user |-> user]
  <1>1. Goto(r, state) /\ state.pc # "create"
    BY DEF DeleteURL
  <1>2. \A q \in Requests : IsCreating(q)' => IsCreating(q) /\ req'[q].id = req[q].id
    BY <1>1, RequestRemoves
  <1> QED BY <1>2 DEF DeleteURL, Removes, TypeOK, history

LEMMA DeleteRemoves ==
    ASSUME TypeOK, NEW r \in Requests, Delete(r)
    PROVE  Removes
  <1>1. Goto(r, Idle) /\ Idle.pc # "create"
    BY DEF Delete, Idle
  <1>2. \A q \in Requests : IsCreating(q)' => IsCreating(q) /\ req'[q].id = req[q].id
    BY <1>1, RequestRemoves
  <1>3. \A code \in Codes : urls'[code] \in {urls[code], NoLink}
    BY DEF Delete, TypeOK
  <1> QED BY <1>2, <1>3 DEF Delete, Removes, TypeOK

(* What a step of a creation can be. *)
LEMMA TryReserveCases ==
    ASSUME TypeOK, NEW r \in Requests, TryReserve(r)
    PROVE  /\ IsCreating(r)
           /\ \E code \in Codes : Reserve(r, code) \/ KeyExists(r, code) \/ OwnerMissing(r, code)
  <1>1. IsCreating(r)
    BY DEF TryReserve, IsCreating
  <1>2. Candidates(req[r]) \subseteq Codes
    BY <1>1, CreationTypes DEF Candidates, Codes
  <1> QED BY <1>1, <1>2 DEF TryReserve

(* Everything but the reservation of a code, a new id, a redirect and the
   selection of a batch only removes. *)
LEMMA OtherStepsRemove ==
    ASSUME TypeOK, [Next]_vars
    PROVE  \/ Removes
           \/ CleanupSelect
           \/ \E code \in Codes : Redirect(code)
           \/ \E r \in Requests, user \in users, ttl \in TTLs, custom \in Codes \cup {NoCode} :
                 CreateShortURL(r, user, ttl, custom)
           \/ \E r \in Requests, code \in Codes : IsCreating(r) /\ Reserve(r, code)
  <1>1. CASE Tick
    BY <1>1 DEF Tick, Removes, TypeOK, history, IsCreating
  <1>2. CASE CleanupExpired
    BY <1>2 DEF CleanupExpired, Removes, TypeOK, history, IsCreating
  <1>3. CASE CleanupDelete
    BY <1>3 DEF CleanupDelete, Removes, TypeOK, history, IsCreating
  <1>4. CASE CleanupFail
    BY <1>4 DEF CleanupFail, Removes, TypeOK, history, IsCreating
  <1>5. ASSUME NEW user \in Users, DeleteUser(user) PROVE Removes
    BY <1>5 DEF DeleteUser, Cascade, Removes, TypeOK, history, IsCreating
  <1>6. ASSUME NEW r \in Requests, TryReserve(r)
        PROVE  Removes \/ \E code \in Codes : IsCreating(r) /\ Reserve(r, code)
    <2>1. IsCreating(r)
      BY <1>6, TryReserveCases
    <2>2. PICK code \in Codes : Reserve(r, code) \/ KeyExists(r, code) \/ OwnerMissing(r, code)
      BY <1>6, TryReserveCases
    <2>3. CASE KeyExists(r, code)
      BY <2>1, <2>3, KeyExistsRemoves
    <2>4. CASE OwnerMissing(r, code)
      <3>1. EndRequest(r)
        BY <2>4 DEF OwnerMissing
      <3> QED BY <3>1, EndRemoves
    <2> QED BY <2>1, <2>2, <2>3, <2>4
  <1>7. ASSUME NEW r \in Requests, NEW code \in Codes, NEW user \in Users,
               DeleteURL(r, code, user)
        PROVE  Removes
    BY <1>7, DeleteURLRemoves
  <1>8. ASSUME NEW r \in Requests, Delete(r) PROVE Removes
    BY <1>8, DeleteRemoves
  <1>9. ASSUME NEW r \in Requests, Fail(r) PROVE Removes
    <2>1. EndRequest(r)
      BY <1>9 DEF Fail
    <2> QED BY <2>1, EndRemoves
  <1>10. CASE UNCHANGED vars
    BY <1>10 DEF vars, Removes, TypeOK, history, IsCreating
  <1> QED
    BY <1>1, <1>2, <1>3, <1>4, <1>5, <1>6, <1>7, <1>8, <1>9, <1>10 DEF Next

LEMMA StepKeepsStored == TypeOK /\ StoredFacts /\ [Next]_vars => StoredFacts'
  <1> SUFFICES ASSUME TypeOK, StoredFacts, [Next]_vars PROVE StoredFacts'
    OBVIOUS
  <1>1. CASE Removes
    BY <1>1, RemovalKeeps
  <1>2. CASE CleanupSelect
    BY <1>2, SelectKeeps
  <1>3. ASSUME NEW code \in Codes, Redirect(code) PROVE StoredFacts'
    BY <1>3, RedirectKeeps
  <1>4. ASSUME NEW r \in Requests, NEW user \in users, NEW ttl \in TTLs,
               NEW custom \in Codes \cup {NoCode}, CreateShortURL(r, user, ttl, custom)
        PROVE  StoredFacts'
    BY <1>4, CreateKeeps
  <1>5. ASSUME NEW r \in Requests, NEW code \in Codes, IsCreating(r), Reserve(r, code)
        PROVE  StoredFacts'
    BY <1>5, ReserveKeeps
  <1> QED BY <1>1, <1>2, <1>3, <1>4, <1>5, OtherStepsRemove

-----------------------------------------------------------------------------
(* A link whose time has not come, which no DeleteURL removes now and whose
   owner stays is spared by every step. *)
LEMMA StepSpares ==
    ASSUME TypeOK, StoredFacts, [Next]_vars,
           NEW code \in Codes, Stored(code), now < urls[code].expiresAt,
           urls[code].id \notin deleted', urls[code].createdBy \in users'
    PROVE  Stored(code)' /\ urls'[code].id = urls[code].id
  <1>1. /\ now \in Nat /\ urls[code].expiresAt \in Nat
        /\ backend \in {"memory", "postgres"}
    BY LinkTypes DEF TypeOK
  <1>2. Active(code) /\ ~Expired(code) /\ ~ExpiredInTable(code)
    BY <1>1 DEF Active, Expired, ExpiredInMemory, ExpiredInTable
  <1>3. SUFFICES ASSUME urls'[code] # urls[code]
                 PROVE  Stored(code)' /\ urls'[code].id = urls[code].id
    BY DEF Stored
  <1>4. CASE CleanupExpired
    BY <1>2, <1>3, <1>4 DEF CleanupExpired, TypeOK
  <1>5. CASE CleanupDelete
    <2>1. InBatch(code)
      BY <1>3, <1>5 DEF CleanupDelete, TypeOK
    <2> QED BY <2>1, <1>2 DEF InBatch, StoredFacts, BatchExpired
  <1>6. ASSUME NEW c \in Codes, Redirect(c)
        PROVE  Stored(code)' /\ urls'[code].id = urls[code].id
    BY <1>3, <1>6, RedirectEffect
  <1>7. ASSUME NEW user \in Users, DeleteUser(user) PROVE FALSE
    <2>1. users' = users \ {user} /\ urls[code].createdBy = user
      BY <1>3, <1>7 DEF DeleteUser, Cascade, TypeOK
    <2> QED BY <2>1
  <1>8. ASSUME NEW r \in Requests, TryReserve(r) PROVE FALSE
    <2>1. IsCreating(r)
      BY <1>8, TryReserveCases
    <2>2. PICK c \in Codes : Reserve(r, c) \/ KeyExists(r, c) \/ OwnerMissing(r, c)
      BY <1>8, TryReserveCases
    <2>3. Reserve(r, c)
      BY <2>2, <1>3 DEF KeyExists, OwnerMissing, EndRequest
    <2>4. c = code /\ ~Active(c)
      BY <2>1, <2>3, <1>3, ReserveEffect
    <2> QED BY <2>4, <1>2
  <1>9. ASSUME NEW r \in Requests, Delete(r) PROVE FALSE
    BY <1>3, <1>9 DEF Delete, TypeOK
  <1>10. UNCHANGED urls => FALSE
    BY <1>3
  <1>11. ASSUME NEW r \in Requests, NEW user \in users, NEW ttl \in TTLs,
                NEW custom \in Codes \cup {NoCode}, CreateShortURL(r, user, ttl, custom)
         PROVE  FALSE
    BY <1>10, <1>11 DEF CreateShortURL
  <1>12. ASSUME NEW r \in Requests, NEW c \in Codes, NEW user \in Users, DeleteURL(r, c, user)
         PROVE  FALSE
    BY <1>10, <1>12 DEF DeleteURL
  <1>13. ASSUME NEW r \in Requests, Fail(r) PROVE FALSE
    BY <1>10, <1>13 DEF Fail, EndRequest
  <1>14. CASE Tick \/ CleanupSelect \/ CleanupFail \/ UNCHANGED vars
    BY <1>10, <1>14 DEF Tick, CleanupSelect, CleanupFail, vars
  <1> QED
    BY <1>4, <1>5, <1>6, <1>7, <1>8, <1>9, <1>11, <1>12, <1>13, <1>14 DEF Next

(* Time goes on, accounts only go, and what was deleted or granted stays so;
   a grant is of a link that is stored. *)
LEMMA StepHistory ==
    ASSUME TypeOK, [Next]_vars
    PROVE  /\ now' \in Nat /\ now <= now' /\ users' \subseteq users /\ deleted \subseteq deleted'
           /\ backend' = backend
           /\ \A g \in granted' : g \in granted \/ (Stored(g.code)' /\ urls'[g.code].id = g.id)
  <1> DEFINE P == /\ now' \in Nat /\ now <= now' /\ users' \subseteq users
                  /\ deleted \subseteq deleted' /\ backend' = backend
                  /\ \A g \in granted' :
                        g \in granted \/ (Stored(g.code)' /\ urls'[g.code].id = g.id)
  <1>1. CASE Tick \/ CleanupExpired \/ CleanupSelect \/ CleanupDelete \/ CleanupFail
             \/ UNCHANGED vars
    BY <1>1 DEF Tick, CleanupExpired, CleanupSelect, CleanupDelete, CleanupFail, vars,
                history, TypeOK
  <1>2. ASSUME NEW c \in Codes, Redirect(c) PROVE P
    BY <1>2 DEF Redirect, TypeOK
  <1>3. ASSUME NEW user \in Users, DeleteUser(user) PROVE P
    BY <1>3 DEF DeleteUser, history, TypeOK
  <1>4. ASSUME NEW r \in Requests, NEW user \in users, NEW ttl \in TTLs,
               NEW custom \in Codes \cup {NoCode}, CreateShortURL(r, user, ttl, custom)
        PROVE  P
    BY <1>4 DEF CreateShortURL, history, TypeOK
  <1>5. ASSUME NEW r \in Requests, TryReserve(r) PROVE P
    <2>1. IsCreating(r)
      BY <1>5, TryReserveCases
    <2>2. PICK c \in Codes : Reserve(r, c) \/ KeyExists(r, c) \/ OwnerMissing(r, c)
      BY <1>5, TryReserveCases
    <2>3. CASE Reserve(r, c)
      <3>1. /\ Stored(c)' /\ urls'[c] = NewLink(req[r], c)
            /\ granted' \in {granted, granted \cup {GrantOf(req[r], c)}}
            /\ UNCHANGED <<backend, now, users, deleted>>
        BY <2>1, <2>3, ReserveEffect
      <3>2. GrantOf(req[r], c).code = c /\ GrantOf(req[r], c).id = NewLink(req[r], c).id
        BY DEF GrantOf, NewLink
      <3> QED BY <3>1, <3>2 DEF TypeOK
    <2>4. CASE KeyExists(r, c) \/ OwnerMissing(r, c)
      BY <2>4 DEF KeyExists, OwnerMissing, EndRequest, history, TypeOK
    <2> QED BY <2>2, <2>3, <2>4
  <1>6. ASSUME NEW r \in Requests, NEW c \in Codes, NEW user \in Users, DeleteURL(r, c, user)
        PROVE  P
    BY <1>6 DEF DeleteURL, history, TypeOK
  <1>7. ASSUME NEW r \in Requests, Delete(r) PROVE P
    BY <1>7 DEF Delete, TypeOK
  <1>8. ASSUME NEW r \in Requests, Fail(r) PROVE P
    BY <1>8 DEF Fail, EndRequest, history, TypeOK
  <1> QED BY <1>1, <1>2, <1>3, <1>4, <1>5, <1>6, <1>7, <1>8 DEF Next

LEMMA StepKeepsGrants ==
    TypeOK /\ StoredFacts /\ GrantedLinksWork /\ [Next]_vars => GrantedLinksWork'
  <1> SUFFICES ASSUME TypeOK, StoredFacts, GrantedLinksWork, [Next]_vars,
                      NEW g \in granted', now' < g.expiresAt, g.id \notin deleted',
                      g.createdBy \in users'
               PROVE  Stored(g.code)' /\ urls'[g.code].id = g.id
    BY DEF GrantedLinksWork
  <1>1. CASE g \in granted
    <2>1. g \in Grant /\ g.code \in Codes /\ g.expiresAt \in Nat
      BY <1>1 DEF TypeOK, Grant
    <2>2. now \in Nat /\ now' \in Nat /\ now <= now' /\ g.id \notin deleted /\ g.createdBy \in users
      BY StepHistory DEF TypeOK
    <2>3. now < g.expiresAt
      BY <2>1, <2>2
    <2>4. Stored(g.code) /\ urls[g.code].id = g.id
      BY <1>1, <2>2, <2>3 DEF GrantedLinksWork
    <2>5. urls[g.code].expiresAt = g.expiresAt /\ urls[g.code].createdBy = g.createdBy
      BY <1>1, <2>4 DEF StoredFacts, GrantsAgree
    <2> QED BY <2>1, <2>3, <2>4, <2>5, StepSpares
  <1>2. CASE g \notin granted
    BY <1>2, StepHistory
  <1> QED BY <1>1, <1>2

LEMMA StepKeepsOwners == TypeOK /\ NoOrphans /\ [Next]_vars => NoOrphans'
  <1> SUFFICES ASSUME TypeOK, NoOrphans, [Next]_vars,
                      InPostgres, NEW code \in Codes, Stored(code)'
               PROVE  urls'[code].createdBy \in users'
    BY StepHistory DEF NoOrphans, InPostgres
  <1>1. CASE Removes
    <2>1. Stored(code) /\ urls'[code] = urls[code]
      BY <1>1, RemovesStored
    <2>2. urls[code].createdBy \in users
      BY <2>1 DEF NoOrphans
    <2>3. ASSUME NEW user \in Users, DeleteUser(user)
          PROVE  urls[code].createdBy # user /\ users' = users \ {user}
      <3>1. ~InMemory
        BY DEF InMemory, InPostgres
      <3>2. urls'[code] = IF Stored(code) /\ urls[code].createdBy = user THEN NoLink ELSE urls[code]
        BY <2>3, <3>1 DEF DeleteUser, Cascade
      <3> QED BY <2>1, <2>3, <3>2 DEF DeleteUser, Stored
    <2>4. (\A user \in Users : ~DeleteUser(user)) => users' = users
      BY DEF Next, Tick, CleanupExpired, CleanupSelect, CleanupDelete, CleanupFail, Redirect,
             CreateShortURL, TryReserve, Reserve, KeyExists, OwnerMissing, EndRequest,
             DeleteURL, Delete, Fail, vars
    <2> QED BY <2>1, <2>2, <2>3, <2>4
  <1>2. CASE CleanupSelect
    BY <1>2 DEF CleanupSelect, NoOrphans, Stored
  <1>3. ASSUME NEW c \in Codes, Redirect(c) PROVE urls'[code].createdBy \in users'
    BY <1>3, RedirectEffect DEF NoOrphans, Stored
  <1>4. ASSUME NEW r \in Requests, NEW user \in users, NEW ttl \in TTLs,
               NEW custom \in Codes \cup {NoCode}, CreateShortURL(r, user, ttl, custom)
        PROVE  urls'[code].createdBy \in users'
    BY <1>4 DEF CreateShortURL, NoOrphans, Stored
  <1>5. ASSUME NEW r \in Requests, NEW c \in Codes, IsCreating(r), Reserve(r, c)
        PROVE  urls'[code].createdBy \in users'
    <2>1. /\ req[r].createdBy \in users /\ users' = users
          /\ urls'[c] = NewLink(req[r], c)
          /\ \A other \in Codes \ {c} : urls'[other] = urls[other]
      BY <1>5, ReserveEffect
    <2>2. NewLink(req[r], c).createdBy = req[r].createdBy
      BY DEF NewLink
    <2> QED BY <2>1, <2>2 DEF NoOrphans, Stored
  <1> QED BY <1>1, <1>2, <1>3, <1>4, <1>5, OtherStepsRemove

-----------------------------------------------------------------------------
LinksInv == TypeOK /\ StoredFacts /\ GrantedLinksWork /\ NoOrphans

LEMMA InitInv == Init => LinksInv
  <1> SUFFICES ASSUME Init PROVE LinksInv
    OBVIOUS
  <1>1. \A code \in Codes : ~Stored(code)
    BY DEF Init, Stored
  <1>2. \A r \in Requests : ~IsCreating(r)
    BY DEF Init, IsCreating, Idle
  <1>3. FreshIds
    BY <1>1, <1>2 DEF Init, FreshIds
  <1>4. StoredOnce /\ BatchExpired /\ VisitsCoverRedirects /\ NoOrphans
    BY <1>1 DEF StoredOnce, BatchExpired, VisitsCoverRedirects, NoOrphans
  <1>5. GrantsAgree /\ GrantedLinksWork
    BY DEF Init, GrantsAgree, GrantedLinksWork
  <1> QED BY <1>3, <1>4, <1>5, InitTypes DEF LinksInv, StoredFacts

LEMMA StepInv == LinksInv /\ [Next]_vars => LinksInv'
  BY StepTypes, StepKeepsStored, StepKeepsGrants, StepKeepsOwners DEF LinksInv

LEMMA InvHolds == Spec => []LinksInv
  BY InitInv, StepInv, PTL DEF Spec

(* Links, requests and histories are well formed in every state. *)
THEOREM LinksTypeOK == Spec => []TypeOK
  <1>1. LinksInv => TypeOK
    BY DEF LinksInv
  <1> QED BY <1>1, InvHolds, PTL

(* However a creation retries (CreateShortURL of the service), its link is
   stored under one code. *)
THEOREM OneCodePerLink == Spec => []StoredOnce
  <1>1. LinksInv => StoredOnce
    BY DEF LinksInv, StoredFacts
  <1> QED BY <1>1, InvHolds, PTL

(* Nothing but the passing of its time, DeleteURL and the deletion of its
   owner ends a link that a caller was given. *)
THEOREM GrantedLinksKeepWorking == Spec => []GrantedLinksWork
  <1>1. LinksInv => GrantedLinksWork
    BY DEF LinksInv
  <1> QED BY <1>1, InvHolds, PTL

(* No row of the table urls outlives its owner, whatever creation was under
   way when the owner was deleted. *)
THEOREM NoLinkOutlivesItsOwner == Spec => []NoOrphans
  <1>1. LinksInv => NoOrphans
    BY DEF LinksInv
  <1> QED BY <1>1, InvHolds, PTL

(* The counter that GetAndIncrement keeps is that of the redirects answered. *)
THEOREM CountersAreRight == Spec => []VisitsCoverRedirects
  <1>1. LinksInv => VisitsCoverRedirects
    BY DEF LinksInv, StoredFacts
  <1> QED BY <1>1, InvHolds, PTL

-----------------------------------------------------------------------------
(* The refinement mapping, by name. *)
Mapped == [code \in Codes |-> Working(code)]
Asked == [r \in Requests |-> IF req[r].pc = "delete" THEN req[r].code ELSE NoCode]

(* A link that works is not nothing, and a link works as long as it is active. *)
LEMMA WorkingLink ==
    ASSUME TypeOK, NEW code \in Codes
    PROVE  /\ Active(code) => /\ Working(code) \in Promise!Link
                              /\ Working(code) # NoLink
                              /\ Working(code).id = urls[code].id
                              /\ Working(code).owner = urls[code].createdBy
                              /\ Working(code).until = Until(code)
                              /\ Working(code).visits = urls[code].visits
           /\ ~Active(code) => Working(code) = NoLink
           /\ Mapped[code] = Working(code)
           /\ Active(code) <=> Stored(code) /\ now < Until(code)
           /\ Stored(code) => Until(code) \in Nat
  <1>1. backend \in {"memory", "postgres"} /\ now \in Nat
    BY DEF TypeOK
  <1>2. Stored(code) => urls[code].expiresAt \in Nat
    BY LinkTypes
  <1>3. Active(code) <=> Stored(code) /\ now < Until(code)
    BY <1>1, <1>2 DEF Active, Expired, ExpiredInMemory, ExpiredInTable, Until, InMemory, InPostgres
  <1>4. ASSUME Active(code)
        PROVE  Working(code) \in Promise!Link /\ Working(code) # NoLink
    <2>1. Stored(code)
      BY <1>4 DEF Active
    <2>2. Working(code) = [id |-> urls[code].id, owner |-> urls[code].createdBy,
                           until |-> Until(code), visits |-> urls[code].visits]
      BY <1>4 DEF Working
    <2>3. Until(code) \in Nat
      BY <2>1, <1>2 DEF Until
    <2>4. Working(code) \in [id : LinkIds, owner : Users, until : Nat, visits : Nat]
      BY <2>1, <2>2, <2>3, LinkTypes
    <2> QED BY <2>4, LinksAssumption DEF Promise!Link
  <1>5. Stored(code) => Until(code) \in Nat
    BY <1>2 DEF Until
  <1> QED BY <1>3, <1>4, <1>5 DEF Working, Mapped

(* A step that leaves the clock and the link alone leaves it working. *)
LEMMA SameWorking ==
    ASSUME TypeOK, NEW code \in Codes, urls'[code] = urls[code],
           backend' = backend, now' = now
    PROVE  Working(code)' = Working(code)
  BY DEF Working, Active, Stored, Expired, ExpiredInMemory, ExpiredInTable, Until,
         InMemory, InPostgres

LEMMA SameMapped ==
    ASSUME \A code \in Codes : Working(code)' = Working(code)
    PROVE  Mapped' = Mapped
  BY DEF Mapped

LEMMA StoreUnchanged ==
    ASSUME TypeOK, UNCHANGED <<backend, now, urls>>
    PROVE  Mapped' = Mapped
  BY SameWorking, SameMapped

(* The same, of the state after a step. *)
LEMMA ActiveNext ==
    ASSUME TypeOK, backend' = backend, now' \in Nat,
           NEW code \in Codes, urls'[code] \in Link \cup {NoLink}
    PROVE  Active(code)' <=> Stored(code)' /\ now' < Until(code)'
  <1>1. Stored(code)' => urls'[code].expiresAt \in Nat
    BY DEF Stored, Link
  <1>2. backend' \in {"memory", "postgres"}
    BY DEF TypeOK
  <1> QED BY <1>1, <1>2 DEF Active, Expired, ExpiredInMemory, ExpiredInTable, Until,
                            InMemory, InPostgres, Stored

(* Every step of the links is a step of the promise, or none. *)
LEMMA TickMaps == TypeOK /\ Tick => Promise!Tick
  <1> SUFFICES ASSUME TypeOK, Tick PROVE Promise!Tick
    OBVIOUS
  <1>1. now' = now + 1 /\ now \in Nat /\ UNCHANGED <<backend, users, urls, req>>
    BY DEF Tick, TypeOK
  <1>2. ASSUME NEW code \in Codes
        PROVE  Working(code)' = IF Working(code) # NoLink /\ Working(code).until > now'
                                THEN Working(code) ELSE NoLink
    <2>1. urls'[code] \in Link \cup {NoLink} /\ now' \in Nat /\ backend' = backend
      BY <1>1 DEF TypeOK
    <2>2. Active(code)' <=> Stored(code)' /\ now' < Until(code)'
      BY <2>1, ActiveNext
    <2>3. (Stored(code)' <=> Stored(code)) /\ Until(code)' = Until(code)
      BY <1>1 DEF Stored, Until, InMemory
    <2>4. CASE Active(code)'
      <3>1. Stored(code) /\ now' < Until(code) /\ Until(code) \in Nat
        BY <2>2, <2>3, <2>4, WorkingLink
      <3>2. now < Until(code)
        BY <3>1, <1>1
      <3>3. Active(code)
        BY <3>1, <3>2, WorkingLink
      <3>4. Working(code) # NoLink /\ Working(code).until = Until(code)
        BY <3>3, WorkingLink
      <3>5. Working(code)' = Working(code)
        BY <3>3, <2>4, <2>3, <1>1 DEF Working
      <3>6. Working(code).until > now'
        BY <3>1, <3>4, <1>1
      <3> QED BY <3>4, <3>5, <3>6
    <2>5. CASE ~Active(code)'
      <3>1. Working(code)' = NoLink
        BY <2>5 DEF Working
      <3>2. CASE Active(code)
        <4>1. Stored(code) /\ Until(code) \in Nat /\ Working(code).until = Until(code)
          BY <3>2, WorkingLink
        <4>2. ~(now' < Until(code))
          BY <4>1, <2>2, <2>3, <2>5
        <4> QED BY <3>1, <4>1, <4>2, <1>1
      <3>3. CASE ~Active(code)
        BY <3>1, <3>3, WorkingLink
      <3> QED BY <3>2, <3>3
    <2> QED BY <2>4, <2>5
  <1>3. Mapped' = [code \in Codes |->
                     IF Mapped[code] # NoLink /\ Mapped[code].until > now'
                     THEN Mapped[code] ELSE NoLink]
    BY <1>2, WorkingLink DEF Mapped
  <1>4. Asked' = Asked
    BY <1>1 DEF Asked
  <1> QED BY <1>1, <1>3, <1>4 DEF Promise!Tick, Mapped, Asked

(* A step that takes expired links away, or none, maps to no step. *)
LEMMA ExpiryMaps ==
    ASSUME TypeOK, UNCHANGED <<backend, now>>,
           \A code \in Codes : urls'[code] = urls[code]
                                \/ (Expired(code) /\ urls'[code] = NoLink)
    PROVE  Mapped' = Mapped
  <1>1. ASSUME NEW code \in Codes PROVE Working(code)' = Working(code)
    <2>1. CASE urls'[code] = urls[code]
      BY <2>1, SameWorking
    <2>2. CASE Expired(code) /\ urls'[code] = NoLink
      BY <2>2 DEF Working, Active, Stored
    <2> QED BY <2>1, <2>2
  <1> QED BY <1>1, SameMapped

LEMMA CleanupMaps ==
    ASSUME TypeOK, StoredFacts,
           CleanupExpired \/ CleanupSelect \/ CleanupDelete \/ CleanupFail
    PROVE  UNCHANGED <<now, users, Mapped, Asked>>
  <1>1. UNCHANGED <<backend, now, users, req>>
    BY DEF CleanupExpired, CleanupSelect, CleanupDelete, CleanupFail
  <1>2. Asked' = Asked
    BY <1>1 DEF Asked
  <1>3. \A code \in Codes : urls'[code] = urls[code]
                             \/ (Expired(code) /\ urls'[code] = NoLink)
    <2>1. CASE CleanupExpired
      BY <2>1 DEF CleanupExpired, TypeOK
    <2>2. CASE CleanupDelete
      <3>1. ASSUME NEW code \in Codes, InBatch(code) PROVE Expired(code)
        BY <3>1 DEF InBatch, StoredFacts, BatchExpired, Expired
      <3> QED BY <2>2, <3>1 DEF CleanupDelete, TypeOK
    <2>3. CASE CleanupSelect \/ CleanupFail
      BY <2>3 DEF CleanupSelect, CleanupFail
    <2> QED BY <2>1, <2>2, <2>3
  <1> QED BY <1>1, <1>2, <1>3, ExpiryMaps

LEMMA RedirectMaps ==
    ASSUME TypeOK, NEW code \in Codes, Redirect(code)
    PROVE  Promise!Visit(code)
  <1>1. UNCHANGED <<backend, now, users, req>> /\ Active(code)
    BY RedirectEffect
  <1>2. Active(code)'
    <2>1. urls'[code] \in Link \cup {NoLink} /\ now' \in Nat
      BY <1>1, RedirectEffect DEF TypeOK
    <2>2. Active(code)' <=> Stored(code)' /\ now' < Until(code)'
      BY <1>1, <2>1, ActiveNext
    <2>3. Stored(code)' /\ Until(code)' = Until(code)
      BY <1>1, RedirectEffect DEF Until, InMemory
    <2> QED BY <1>1, <2>2, <2>3, WorkingLink
  <1>3. Working(code) = [id |-> urls[code].id, owner |-> urls[code].createdBy,
                         until |-> Until(code), visits |-> urls[code].visits]
    BY <1>1 DEF Working
  <1>4. Working(code)' = [id |-> urls[code].id, owner |-> urls[code].createdBy,
                          until |-> Until(code), visits |-> urls[code].visits + 1]
    BY <1>1, <1>2, RedirectEffect DEF Working, Until, InMemory
  <1>5. Working(code)' = [Working(code) EXCEPT !.visits = @ + 1]
    BY <1>3, <1>4
  <1>6. ASSUME NEW other \in Codes \ {code} PROVE Working(other)' = Working(other)
    <2>1. urls'[other] = urls[other]
      BY RedirectEffect
    <2> QED BY <2>1, <1>1, SameWorking
  <1>7. Mapped' = [Mapped EXCEPT ![code] = [Working(code) EXCEPT !.visits = @ + 1]]
    BY <1>5, <1>6 DEF Mapped
  <1>8. Mapped[code] = Working(code) /\ Mapped[code] # NoLink
    BY <1>1, WorkingLink
  <1>9. Mapped' = [Mapped EXCEPT ![code].visits = @ + 1]
    BY <1>7, <1>8
  <1>10. Asked' = Asked
    BY <1>1 DEF Asked
  <1> QED BY <1>1, <1>8, <1>9, <1>10 DEF Promise!Visit, Mapped, Asked

LEMMA DeleteUserMaps ==
    ASSUME TypeOK, NEW user \in Users, DeleteUser(user)
    PROVE  Promise!DeleteUser(user)
  <1>1. /\ user \in users /\ users' = users \ {user}
        /\ urls' = Cascade(user) /\ UNCHANGED <<backend, now, req>>
    BY DEF DeleteUser
  <1>2. Asked' = Asked
    BY <1>1 DEF Asked
  <1>3. CASE InMemory
    <2>1. Mapped' = Mapped
      BY <1>1, <1>3, StoreUnchanged DEF Cascade
    <2> QED BY <1>1, <1>2, <2>1 DEF Promise!DeleteUser, Mapped, Asked
  <1>4. CASE ~InMemory
    <2>1. ASSUME NEW code \in Codes
          PROVE  Working(code)' = IF Mapped[code] # NoLink /\ Mapped[code].owner = user
                                  THEN NoLink ELSE Mapped[code]
      <3>1. urls'[code] = IF Stored(code) /\ urls[code].createdBy = user THEN NoLink
                                                                        ELSE urls[code]
        BY <1>1, <1>4 DEF Cascade
      <3>2. CASE Stored(code) /\ urls[code].createdBy = user
        <4>1. Working(code)' = NoLink
          BY <3>1, <3>2 DEF Working, Active, Stored
        <4> QED BY <3>2, <4>1, WorkingLink
      <3>3. CASE ~(Stored(code) /\ urls[code].createdBy = user)
        <4>1. Working(code)' = Working(code)
          BY <1>1, <3>1, <3>3, SameWorking
        <4> QED BY <3>3, <4>1, WorkingLink
      <3> QED BY <3>2, <3>3
    <2>2. Mapped' = [code \in Codes |->
                       IF Mapped[code] # NoLink /\ Mapped[code].owner = user
                       THEN NoLink ELSE Mapped[code]]
      BY <2>1 DEF Mapped
    <2> QED BY <1>1, <1>2, <2>2 DEF Promise!DeleteUser, Mapped, Asked
  <1> QED BY <1>3, <1>4

(* What a request asks to delete, before and after a step of it. *)
LEMMA AskedOf ==
    ASSUME TypeOK, NEW r \in Requests, NEW state, Goto(r, state)
    PROVE  Asked' = [Asked EXCEPT ![r] = IF state.pc = "delete" THEN state.code ELSE NoCode]
  <1>1. req' = [req EXCEPT ![r] = state] /\ DOMAIN req = Requests
    BY DEF Goto, TypeOK
  <1> QED BY <1>1 DEF Asked

LEMMA AskedNothing ==
    ASSUME TypeOK, NEW r \in Requests, req[r].pc # "delete",
           NEW state, Goto(r, state), state.pc # "delete"
    PROVE  Asked' = Asked
  <1>1. Asked' = [Asked EXCEPT ![r] = NoCode] /\ Asked[r] = NoCode
    BY AskedOf DEF Asked
  <1> QED BY <1>1 DEF Asked

LEMMA CreateMaps ==
    ASSUME TypeOK, NEW r \in Requests, NEW user \in users, NEW ttl \in TTLs,
           NEW custom \in Codes \cup {NoCode}, CreateShortURL(r, user, ttl, custom)
    PROVE  UNCHANGED <<now, users, Mapped, Asked>>
  <1>1. UNCHANGED <<backend, now, users, urls>> /\ req[r].pc # "delete"
    BY DEF CreateShortURL, Idle
  <1>2. PICK behind \in 0..(IF InMemory THEN 0 ELSE ClockSkew) :
            Goto(r, [pc |-> "create", id |-> lastId', createdBy |-> user,
                     expiresAt |-> now + ttl - behind, custom |-> custom, attempt |-> 1])
    BY DEF CreateShortURL
  <1>3. Asked' = Asked
    BY <1>1, <1>2, AskedNothing
  <1> QED BY <1>1, <1>3, StoreUnchanged

(* A code that is reserved begins to work, unless the link has expired since
   its creation began; nothing worked under it. *)
LEMMA ReserveMaps ==
    ASSUME TypeOK, StoredFacts,
           NEW r \in Requests, IsCreating(r), NEW code \in Codes, Reserve(r, code)
    PROVE  Promise!Create(code) \/ UNCHANGED <<now, users, Mapped, Asked>>
  <1>1. /\ ~Active(code) /\ Stored(code)' /\ urls'[code] = NewLink(req[r], code)
        /\ \A other \in Codes \ {code} : urls'[other] = urls[other]
        /\ UNCHANGED <<backend, now, users>>
    BY ReserveEffect
  <1>2. Asked' = Asked
    <2>1. Goto(r, Idle) /\ Idle.pc # "delete" /\ req[r].pc # "delete"
      BY DEF Reserve, Idle, IsCreating
    <2> QED BY <2>1, AskedNothing
  <1>3. ASSUME NEW other \in Codes \ {code} PROVE Working(other)' = Working(other)
    <2>1. urls'[other] = urls[other]
      BY <1>1
    <2> QED BY <2>1, <1>1, SameWorking
  <1>4. Mapped[code] = NoLink
    BY <1>1, WorkingLink
  <1>5. Mapped' = [Mapped EXCEPT ![code] = Working(code)'] /\ Mapped'[code] = Working(code)'
    BY <1>3 DEF Mapped
  <1>6. CASE ~Active(code)'
    <2>1. Working(code)' = NoLink
      BY <1>6 DEF Working
    <2>2. Mapped' = Mapped
      BY <2>1, <1>4, <1>5 DEF Mapped
    <2> QED BY <2>2, <1>1, <1>2
  <1>7. CASE Active(code)'
    <2>1. urls'[code] \in Link /\ urls'[code].visits = 0 /\ urls'[code].id = req[r].id
      <3>1. NewLink(req[r], code) \in Link
        BY NewLinkTypes
      <3>2. NewLink(req[r], code).visits = 0 /\ NewLink(req[r], code).id = req[r].id
        BY DEF NewLink
      <3> QED BY <3>1, <3>2, <1>1
    <2>2. Working(code)' = [id |-> urls'[code].id, owner |-> urls'[code].createdBy,
                            until |-> Until(code)', visits |-> urls'[code].visits]
      BY <1>7 DEF Working
    <2>3. Until(code)' \in Nat
      BY <2>1 DEF Until, Link
    <2>4. now' < Until(code)'
      BY <2>1, <1>1, <1>7, ActiveNext DEF TypeOK
    <2>5. /\ Working(code)' \in Promise!Link /\ Working(code)'.visits = 0
          /\ Working(code)'.until = Until(code)' /\ Working(code)'.id = req[r].id
      BY <2>1, <2>2, <2>3 DEF Link, Promise!Link
    <2>6. Working(code)'.until > now
      BY <2>3, <2>4, <2>5, <1>1 DEF TypeOK
    <2>7. ASSUME NEW other \in Codes, Mapped[other] # NoLink
          PROVE  Mapped[other].id # Working(code)'.id
      <3>1. Active(other) /\ Stored(other) /\ Mapped[other].id = urls[other].id
        BY <2>7, WorkingLink
      <3> QED BY <3>1, <2>5 DEF StoredFacts, FreshIds
    <2>8. /\ Mapped'[code] \in Promise!Link /\ Mapped'[code].visits = 0
          /\ Mapped'[code].until > now
          /\ Mapped' = [Mapped EXCEPT ![code] = Mapped'[code]]
          /\ \A other \in Codes : Mapped[other] # NoLink => Mapped[other].id # Mapped'[code].id
      BY <2>5, <2>6, <2>7, <1>5
    <2> QED BY <2>8, <1>1, <1>2, <1>4 DEF Promise!Create, Mapped, Asked
  <1> QED BY <1>6, <1>7

LEMMA EndMaps ==
    ASSUME TypeOK, NEW r \in Requests, req[r].pc # "delete", EndRequest(r)
    PROVE  UNCHANGED <<now, users, Mapped, Asked>>
  <1>1. Goto(r, Idle) /\ Idle.pc # "delete" /\ UNCHANGED <<backend, now, users, urls>>
    BY DEF EndRequest, Idle
  <1> QED BY <1>1, AskedNothing, StoreUnchanged

LEMMA TryReserveMaps ==
    ASSUME TypeOK, StoredFacts, NEW r \in Requests, TryReserve(r)
    PROVE  (\E code \in Codes : Promise!Create(code)) \/ UNCHANGED <<now, users, Mapped, Asked>>
  <1>1. IsCreating(r) /\ req[r].pc # "delete"
    BY TryReserveCases DEF IsCreating
  <1>2. PICK code \in Codes : Reserve(r, code) \/ KeyExists(r, code) \/ OwnerMissing(r, code)
    BY TryReserveCases
  <1>3. CASE Reserve(r, code)
    BY <1>1, <1>3, ReserveMaps
  <1>4. CASE KeyExists(r, code)
    <2> DEFINE state == IF req[r].custom = NoCode /\ req[r].attempt < MaxAttempts
                        THEN [req[r] EXCEPT !.attempt = @ + 1] ELSE Idle
    <2>1. Goto(r, state) /\ UNCHANGED <<backend, now, users, urls>>
      BY <1>4 DEF KeyExists
    <2>2. [req[r] EXCEPT !.attempt = @ + 1].pc = req[r].pc
      BY <1>1, CreationTypes DEF Creating
    <2>3. state.pc # "delete"
      BY <1>1, <2>2 DEF Idle
    <2> HIDE DEF state
    <2> QED BY <1>1, <2>1, <2>3, AskedNothing, StoreUnchanged
  <1>5. CASE OwnerMissing(r, code)
    <2>1. EndRequest(r)
      BY <1>5 DEF OwnerMissing
    <2> QED BY <2>1, <1>1, EndMaps
  <1> QED BY <1>2, <1>3, <1>4, <1>5

LEMMA DeleteURLMaps ==
    ASSUME TypeOK, NEW r \in Requests, NEW code \in Codes, NEW user \in Users,
           DeleteURL(r, code, user)
    PROVE  Promise!AskDelete(r, code, user)
  <1> DEFINE state == [pc |-> "delete", code |-> code, user |-> user]
  <1>1. /\ req[r] = Idle /\ Active(code) /\ MayDelete(user, urls[code])
        /\ Goto(r, state) /\ UNCHANGED <<backend, now, users, urls>>
    BY DEF DeleteURL
  <1>2. Asked[r] = NoCode
    BY <1>1 DEF Asked, Idle
  <1>3. Asked' = [Asked EXCEPT ![r] = code]
    <2>1. state.pc = "delete" /\ state.code = code
      OBVIOUS
    <2> HIDE DEF state
    <2>2. Asked' = [Asked EXCEPT ![r] = IF state.pc = "delete" THEN state.code ELSE NoCode]
      BY <1>1, AskedOf
    <2> QED BY <2>1, <2>2
  <1>4. Mapped[code] # NoLink /\ (user \in Admins \/ Mapped[code].owner = user)
    BY <1>1, WorkingLink DEF MayDelete
  <1>5. Mapped' = Mapped
    BY <1>1, StoreUnchanged
  <1> QED BY <1>1, <1>2, <1>3, <1>4, <1>5 DEF Promise!AskDelete, Mapped, Asked

(* The deletion, or its failure, is the end of what was asked. *)
LEMMA DeleteMaps ==
    ASSUME TypeOK, NEW r \in Requests, req[r].pc = "delete", Delete(r) \/ EndRequest(r)
    PROVE  Promise!FinishDelete(r)
  <1>1. PICK code \in Codes : code = req[r].code /\ Asked[r] = code /\ Asked[r] # NoCode
    BY DeletionTypes, LinksAssumption DEF Asked
  <1>2. Goto(r, Idle) /\ Idle.pc # "delete" /\ UNCHANGED <<backend, now, users>>
    BY DEF Delete, EndRequest, Idle
  <1>3. Asked' = [Asked EXCEPT ![r] = NoCode]
    BY <1>2, AskedOf
  <1>4. urls' \in {urls, [urls EXCEPT ![code] = NoLink]}
    BY <1>1 DEF Delete, EndRequest
  <1>5. Mapped' \in {Mapped, [Mapped EXCEPT ![code] = NoLink]}
    <2>1. CASE urls' = urls
      BY <2>1, <1>2, StoreUnchanged
    <2>2. CASE urls' = [urls EXCEPT ![code] = NoLink]
      <3>1. urls'[code] = NoLink /\ \A other \in Codes \ {code} : urls'[other] = urls[other]
        BY <2>2, <1>1 DEF TypeOK
      <3>2. Working(code)' = NoLink
        BY <3>1 DEF Working, Active, Stored
      <3>3. ASSUME NEW other \in Codes \ {code} PROVE Working(other)' = Working(other)
        <4>1. urls'[other] = urls[other]
          BY <3>1
        <4> QED BY <4>1, <1>2, SameWorking
      <3> QED BY <3>2, <3>3 DEF Mapped
    <2> QED BY <1>4, <2>1, <2>2
  <1> QED BY <1>1, <1>2, <1>3, <1>5 DEF Promise!FinishDelete, Mapped, Asked

LEMMA StepMaps ==
    ASSUME TypeOK, StoredFacts, [Next]_vars
    PROVE  Promise!Next \/ UNCHANGED <<now, users, Mapped, Asked>>
  <1>1. CASE Tick
    BY <1>1, TickMaps DEF Promise!Next
  <1>2. CASE CleanupExpired \/ CleanupSelect \/ CleanupDelete \/ CleanupFail
    BY <1>2, CleanupMaps
  <1>3. ASSUME NEW code \in Codes, Redirect(code) PROVE Promise!Next
    BY <1>3, RedirectMaps DEF Promise!Next
  <1>4. ASSUME NEW user \in Users, DeleteUser(user) PROVE Promise!Next
    BY <1>4, DeleteUserMaps DEF Promise!Next
  <1>5. ASSUME NEW r \in Requests, NEW user \in users, NEW ttl \in TTLs,
               NEW custom \in Codes \cup {NoCode}, CreateShortURL(r, user, ttl, custom)
        PROVE  UNCHANGED <<now, users, Mapped, Asked>>
    BY <1>5, CreateMaps
  <1>6. ASSUME NEW r \in Requests, TryReserve(r)
        PROVE  Promise!Next \/ UNCHANGED <<now, users, Mapped, Asked>>
    BY <1>6, TryReserveMaps DEF Promise!Next
  <1>7. ASSUME NEW r \in Requests, NEW code \in Codes, NEW user \in Users,
               DeleteURL(r, code, user)
        PROVE  Promise!Next
    BY <1>7, DeleteURLMaps DEF Promise!Next
  <1>8. ASSUME NEW r \in Requests, Delete(r) PROVE Promise!Next
    <2>1. req[r].pc = "delete"
      BY <1>8 DEF Delete
    <2> QED BY <1>8, <2>1, DeleteMaps DEF Promise!Next
  <1>9. ASSUME NEW r \in Requests, Fail(r)
        PROVE  Promise!Next \/ UNCHANGED <<now, users, Mapped, Asked>>
    <2>1. EndRequest(r)
      BY <1>9 DEF Fail
    <2>2. CASE req[r].pc = "delete"
      BY <2>1, <2>2, DeleteMaps DEF Promise!Next
    <2>3. CASE req[r].pc # "delete"
      BY <2>1, <2>3, EndMaps
    <2> QED BY <2>2, <2>3
  <1>10. CASE UNCHANGED vars
    BY <1>10, StoreUnchanged DEF vars, Asked
  <1> QED
    BY <1>1, <1>2, <1>3, <1>4, <1>5, <1>6, <1>7, <1>8, <1>9, <1>10 DEF Next

LEMMA InitMaps == Init => Promise!Init
  <1> SUFFICES ASSUME Init PROVE Promise!Init
    OBVIOUS
  <1>1. \A code \in Codes : Working(code) = NoLink
    BY DEF Init, Working, Active, Stored
  <1>2. \A r \in Requests : req[r].pc # "delete"
    BY DEF Init, Idle
  <1> QED BY <1>1, <1>2 DEF Promise!Init, Init

(* On both backends the service keeps the promise of LinkStoreSpec: requests
   of several steps, failures and cleanups cannot be told from requests that
   take effect at one instant and links that simply cease to work. *)
THEOREM LinksImplementStore == Spec => ImplementsLinkStore
  <1>1. LinksInv /\ [Next]_vars => [Promise!Next]_(Promise!vars)
    BY StepMaps DEF LinksInv, Promise!vars, Mapped, Asked
  <1> QED BY <1>1, InitMaps, InvHolds, PTL DEF Spec, ImplementsLinkStore, Promise!Spec

-----------------------------------------------------------------------------
(* What the specification allows to happen to one working link. *)
LEMMA PromisedStep ==
    ASSUME TypeOK, Promise!Next
    PROVE  Promise!LinkStep
  <1> SUFFICES ASSUME NEW code \in Codes, Mapped[code] # NoLink
               PROVE  \/ Mapped'[code] = Mapped[code]
                      \/ Mapped'[code] = [Mapped[code] EXCEPT !.visits = @ + 1]
                      \/ /\ Mapped'[code] = NoLink
                         /\ \/ Mapped[code].until <= now'
                            \/ \E r \in Requests : Asked[r] = code /\ Asked'[r] = NoCode
                            \/ Mapped[code].owner \notin users'
    BY DEF Promise!LinkStep, Mapped, Asked
  <1>1. Mapped[code] \in Promise!Link /\ Mapped[code].until \in Nat /\ now \in Nat
    BY WorkingLink DEF Promise!Link, TypeOK
  <1>2. DOMAIN Mapped = Codes /\ DOMAIN Asked = Requests
    BY DEF Mapped, Asked
  <1>3. CASE Promise!Tick
    <2>1. /\ now' = now + 1
          /\ Mapped'[code] = IF Mapped[code] # NoLink /\ Mapped[code].until > now'
                             THEN Mapped[code] ELSE NoLink
      BY <1>3 DEF Promise!Tick, Mapped
    <2> QED BY <1>1, <2>1
  <1>4. ASSUME NEW other \in Codes, Promise!Create(other) PROVE Mapped'[code] = Mapped[code]
    <2>1. other # code /\ Mapped' = [Mapped EXCEPT ![other] = Mapped'[other]]
      BY <1>4 DEF Promise!Create, Mapped
    <2> QED BY <2>1, <1>2
  <1>5. ASSUME NEW other \in Codes, Promise!Visit(other)
        PROVE  Mapped'[code] \in {Mapped[code], [Mapped[code] EXCEPT !.visits = @ + 1]}
    <2>1. Mapped' = [Mapped EXCEPT ![other].visits = @ + 1]
      BY <1>5 DEF Promise!Visit, Mapped
    <2> QED BY <2>1, <1>2
  <1>6. ASSUME NEW user \in Users, Promise!DeleteUser(user)
        PROVE  \/ Mapped'[code] = Mapped[code]
               \/ Mapped'[code] = NoLink /\ Mapped[code].owner \notin users'
    <2>1. /\ users' = users \ {user}
          /\ Mapped' \in {Mapped, [q \in Codes |->
                             IF Mapped[q] # NoLink /\ Mapped[q].owner = user
                             THEN NoLink ELSE Mapped[q]]}
      BY <1>6 DEF Promise!DeleteUser, Mapped
    <2> QED BY <2>1
  <1>7. ASSUME NEW r \in Requests, Promise!FinishDelete(r)
        PROVE  \/ Mapped'[code] = Mapped[code]
               \/ Mapped'[code] = NoLink /\ Asked[r] = code /\ Asked'[r] = NoCode
    <2>1. /\ Mapped' \in {Mapped, [Mapped EXCEPT ![Asked[r]] = NoLink]}
          /\ Asked' = [Asked EXCEPT ![r] = NoCode]
      BY <1>7 DEF Promise!FinishDelete, Mapped, Asked
    <2> QED BY <2>1, <1>2
  <1>8. ASSUME NEW r \in Requests, NEW other \in Codes, NEW user \in Users,
               Promise!AskDelete(r, other, user)
        PROVE  Mapped'[code] = Mapped[code]
    BY <1>8 DEF Promise!AskDelete, Mapped
  <1> QED BY <1>3, <1>4, <1>5, <1>6, <1>7, <1>8 DEF Promise!Next

(* On either backend a working link is never replaced, altered or reset, and
   no race of creations, cleanups, deletions and failures ends it: only its
   expiry, a deletion of its code that was asked for, or its owner's end. *)
THEOREM LinksEndOnlyForAReason == Spec => Promise!LinksEndForAReason
  <1>1. LinksInv /\ [Next]_vars => [Promise!LinkStep]_(Promise!vars)
    BY StepMaps, PromisedStep DEF LinksInv, Promise!vars, Mapped, Asked
  <1> QED BY <1>1, InvHolds, PTL DEF Spec, Promise!LinksEndForAReason
=============================================================================
