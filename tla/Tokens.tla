------------------------------- MODULE Tokens -------------------------------
(***************************************************************************)
(* Bearer tokens over time: services.TokenService on several replicas,     *)
(* through key rotation and changes of TOKEN_TTL and TOKEN_ISSUER.         *)
(*                                                                         *)
(* A replica reads its configuration once, when it starts; the operator    *)
(* changes the environment and redeploys the replicas one at a time, so    *)
(* old and new configurations run side by side.  The clocks of two         *)
(* replicas differ by at most the skew that VerifyToken tolerates.         *)
(*                                                                         *)
(* A signature verifies under the key that made it and no other, so a key  *)
(* is its number in the order of the rotations, and 0 is no key.  Time is  *)
(* in whole seconds, as in the claims.                                     *)
(***************************************************************************)
EXTENDS Naturals, FiniteSets

CONSTANTS
    Replicas,
    Issuers,        \* values of TOKEN_ISSUER and TOKEN_AUDIENCE
    NoIssuer,       \* the empty value: no check
    TTLs,           \* values of TOKEN_TTL
    MaxTTL,         \* the longest of them
    ClockSkew,      \* tolerated when issued_at is validated (30 s)
    MaxTime,        \* bound on the clock
    MaxKey,         \* bound on the keys explored
    MaxTokens       \* bound on the tokens explored

ASSUME TokensAssumption ==
    /\ NoIssuer \notin Issuers
    /\ MaxTTL \in Nat /\ TTLs \subseteq 0..MaxTTL
    /\ ClockSkew \in Nat /\ MaxTime \in Nat /\ MaxKey \in Nat /\ MaxTokens \in Nat

VARIABLES
    now,            \* the time of the slowest clock
    offset,         \* replica -> how far its clock is ahead of it
    env,            \* the environment the next start reads
    conf,           \* replica -> the configuration it runs with
    tokens,         \* tokens that were issued
    deployedAt,     \* when a replica last changed its configuration
    lastEmergency   \* history: the key of the last emergency rotation

vars == <<now, offset, env, conf, tokens, deployedAt, lastEmergency>>

Labels == Issuers \cup {NoIssuer}

Config == [secret : Nat \ {0}, previous : Nat, ttl : TTLs, issuer : Labels]

(* The claims that verification reads.  Tokens of a release without key ids
   carry no kid ("none"). *)
Token == [key : Nat \ {0}, kid : {"none", "v1"}, iss : Labels,
          issuedAt : Nat \ {0}, expiresAt : Nat]

Clock(r) == now + offset[r]

-----------------------------------------------------------------------------
(* Mutant: the tolerated skew is added to the lifetime. *)
NewTokenSkewed(config, kid, time) ==
    [key |-> config.secret, kid |-> kid, iss |-> config.issuer,
     issuedAt |-> time, expiresAt |-> time + config.ttl + ClockSkew]

NewToken(config, kid, time) ==
    [key |-> config.secret, kid |-> kid, iss |-> config.issuer,
     issuedAt |-> time, expiresAt |-> time + config.ttl]

(* A token of the first key from before kids may still be in use. *)
Init ==
    /\ now = 1
    /\ offset \in [Replicas -> 0..ClockSkew]
    /\ \E ttl \in TTLs, issuer \in Labels :
          env = [secret |-> 1, previous |-> 0, ttl |-> ttl, issuer |-> issuer]
    /\ conf = [r \in Replicas |-> env]
    /\ tokens \in {{}, {NewToken(env, "none", 1)}}
    /\ deployedAt = 1
    /\ lastEmergency = 1

Tick ==
    /\ now < MaxTime
    /\ now' = now + 1
    /\ UNCHANGED <<offset, env, conf, tokens, deployedAt, lastEmergency>>

GenerateToken(r) ==
    /\ Cardinality(tokens) < MaxTokens
    /\ tokens' = tokens \cup {NewToken(conf[r], "v1", Clock(r))}
    /\ UNCHANGED <<now, offset, env, conf, deployedAt, lastEmergency>>

(* The HMAC of the active key or, while there is one, of the previous key. *)
Signed(r, t) == t.key \in {conf[r].secret, conf[r].previous}

(* Mutant: the clocks of the replicas have to agree. *)
TimelyNoSkew(r, t) ==
    /\ t.issuedAt < t.expiresAt
    /\ t.issuedAt <= Clock(r)
    /\ Clock(r) <= t.expiresAt
    /\ t.expiresAt - t.issuedAt <= conf[r].ttl

(* Mutant: the lifetime is counted from the issue with the current TTL. *)
TimelyByTTL(r, t) ==
    /\ t.issuedAt < t.expiresAt
    /\ t.issuedAt <= Clock(r) + ClockSkew
    /\ Clock(r) <= t.issuedAt + conf[r].ttl

Timely(r, t) ==
    /\ t.issuedAt < t.expiresAt
    /\ t.issuedAt <= Clock(r) + ClockSkew
    /\ Clock(r) <= t.expiresAt
    /\ t.expiresAt - t.issuedAt <= conf[r].ttl

IssuerMatches(r, t) == conf[r].issuer \in {NoIssuer, t.iss}

KnownKid(t) == t.kid \in {"none", "v1"}

(* The middleware's question: what replica r answers to token t now. *)
VerifyToken(r, t) ==
    Signed(r, t) /\ Timely(r, t) /\ KnownKid(t) /\ IssuerMatches(r, t)

-----------------------------------------------------------------------------
(* What the operator does with the environment. *)

SetEnv(config) ==
    /\ env' = config
    /\ UNCHANGED <<now, offset, conf, tokens, deployedAt>>

RolledOut == \A r \in Replicas : conf[r] = env

(* Smooth rotation, one at a time: the active key becomes the previous one. *)
RotateSecret ==
    /\ RolledOut /\ env.previous = 0 /\ env.secret < MaxKey
    /\ SetEnv([env EXCEPT !.secret = @ + 1, !.previous = env.secret])
    /\ UNCHANGED lastEmergency

(* Every replica signs with the new key, and the last token of the previous
   one has expired on every clock. *)
TransitionOver ==
    /\ RolledOut
    /\ now > deployedAt + ClockSkew + MaxTTL

RemovePreviousSecret ==
    /\ env.previous # 0 /\ TransitionOver
    /\ SetEnv([env EXCEPT !.previous = 0])
    /\ UNCHANGED lastEmergency

(* A new key without a previous one, at any time: all tokens are to end. *)
EmergencyRotation ==
    /\ env.secret < MaxKey
    /\ SetEnv([env EXCEPT !.secret = @ + 1, !.previous = 0])
    /\ lastEmergency' = env.secret + 1

(* One setting at a time, each deployed everywhere before the next. *)
SetTokenTTL(ttl) ==
    /\ RolledOut
    /\ SetEnv([env EXCEPT !.ttl = ttl])
    /\ UNCHANGED lastEmergency

SetTokenIssuer(issuer) ==
    /\ RolledOut
    /\ SetEnv([env EXCEPT !.issuer = issuer])
    /\ UNCHANGED lastEmergency

(* Mutant: an empty SECRET_KEY_PREVIOUS leaves the previous key as it was. *)
StartKeepsPrevious(r) ==
    /\ conf' = [conf EXCEPT ![r] =
                   [env EXCEPT !.previous = IF @ = 0 THEN conf[r].previous ELSE @]]
    /\ deployedAt' = IF conf' = conf THEN deployedAt ELSE now
    /\ UNCHANGED <<now, offset, env, tokens, lastEmergency>>

(* Replica r starts, after a deployment, a crash or a restart. *)
Start(r) ==
    /\ conf' = [conf EXCEPT ![r] = env]
    /\ deployedAt' = IF conf' = conf THEN deployedAt ELSE now
    /\ UNCHANGED <<now, offset, env, tokens, lastEmergency>>

Next ==
    \/ Tick
    \/ \E r \in Replicas : GenerateToken(r) \/ Start(r)
    \/ RotateSecret
    \/ RemovePreviousSecret
    \/ EmergencyRotation
    \/ \E ttl \in TTLs : SetTokenTTL(ttl)
    \/ \E issuer \in Labels : SetTokenIssuer(issuer)

Spec == Init /\ [][Next]_vars

-----------------------------------------------------------------------------
(* Configurations and tokens are well formed: no replica runs with the same
   key twice, and no token lives longer than the longest TTL. *)
TypeOK ==
    /\ now \in Nat \ {0} /\ deployedAt \in 1..now
    /\ offset \in [Replicas -> 0..ClockSkew]
    /\ env \in Config /\ conf \in [Replicas -> Config]
    /\ \A r \in Replicas : conf[r].previous < conf[r].secret
    /\ tokens \subseteq Token
    /\ \A t \in tokens : t.expiresAt \in t.issuedAt..(t.issuedAt + MaxTTL)
    /\ lastEmergency \in Nat \ {0}

(* A smooth rotation logs nobody out: until its expiry a token is accepted by
   every replica that has been given its key, however the replicas' clocks
   and restarts fall, unless an emergency rotation ended it or the operator
   lowered the lifetime or set another issuer. *)
SessionsSurviveRotation ==
    \A r \in Replicas : \A t \in tokens :
        /\ t.key \in lastEmergency..conf[r].secret
        /\ t.issuedAt < t.expiresAt /\ Clock(r) <= t.expiresAt
        /\ t.expiresAt - t.issuedAt <= conf[r].ttl
        /\ conf[r].issuer \in {NoIssuer, t.iss}
        => VerifyToken(r, t)

(* An emergency rotation is final: a replica that runs with a key of that
   rotation or a later one accepts no token signed before, even when it is
   the previous key of a later, smooth rotation that is being started. *)
EmergencyEndsSessions ==
    \A r \in Replicas : \A t \in tokens :
        t.key < lastEmergency /\ lastEmergency <= conf[r].secret
            => ~VerifyToken(r, t)

(* A replica that refuses a token goes on refusing it, whatever is deployed
   and restarted, unless what it lacked was a newer key or what it objected
   to was the length of its lifetime or its issuer, which the operator may
   change. *)
NoRevival ==
    [][\A r \in Replicas : \A t \in tokens :
          ~VerifyToken(r, t) /\ VerifyToken(r, t)' =>
              \/ t.key > conf[r].secret
              \/ t.expiresAt - t.issuedAt > conf[r].ttl
              \/ ~IssuerMatches(r, t)]_vars

(* What the comments of the token service say: the previous key is only
   accepted for tokens that carry no kid. *)
PreviousKeyOnlyForLegacy ==
    \A r \in Replicas : \A t \in tokens :
        VerifyToken(r, t) /\ t.key = conf[r].previous => t.kid = "none"
=============================================================================
