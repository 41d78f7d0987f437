---------------------------- MODULE TokensProofs ----------------------------
(* Proofs about the token service: smooth rotations log nobody out, emergency
   rotations are final and refused tokens stay refused, for any number of
   replicas, keys and tokens and any lifetimes and clock skew. *)
EXTENDS Tokens, TLAPS

(* A configuration's previous key is the one before its key, and no key from
   before the last emergency. *)
KeysInOrder(config) ==
    /\ config.previous \in {0, config.secret - 1}
    /\ config.secret <= env.secret
    /\ config.secret >= lastEmergency => config.previous \in {0} \cup (lastEmergency..config.secret)

(* One key has one predecessor, until it is removed; and a replica that lags
   behind signs with the key the environment still calls the previous one. *)
SamePredecessor ==
    \A r \in Replicas :
        /\ conf[r].secret = env.secret /\ env.previous # 0
               => conf[r].previous = env.previous
        /\ conf[r].secret >= lastEmergency
               => conf[r].secret \in {env.secret, env.previous}

KeyOrder ==
    /\ lastEmergency <= env.secret
    /\ KeysInOrder(env)
    /\ \A r \in Replicas : KeysInOrder(conf[r])
    /\ SamePredecessor
    /\ \A t \in tokens : t.key <= env.secret

Dead(t) == t.expiresAt < now

(* A token that is older than a configuration's key has the previous key, was
   ended by an emergency, or has expired on every clock. *)
Covered(config) ==
    \A t \in tokens :
        lastEmergency <= t.key /\ t.key < config.secret
            => t.key = config.previous \/ Dead(t)

(* Nothing is issued ahead of the fastest clock, and a key no replica signs
   with any more has signed nothing since the last deployment. *)
IssueTimes ==
    \A t \in tokens :
        /\ t.issuedAt <= now + ClockSkew
        /\ (\A r \in Replicas : t.key < conf[r].secret)
               => t.issuedAt <= deployedAt + ClockSkew

AllCovered == Covered(env) /\ \A r \in Replicas : Covered(conf[r])

TokensInv == TypeOK /\ KeyOrder /\ IssueTimes /\ AllCovered

(* What the types of a configuration and of a new token come to. *)
LEMMA ConfigType ==
    ASSUME NEW config \in Config
    PROVE  /\ config.secret \in Nat \ {0} /\ config.issuer \in Labels
           /\ config.ttl \in Nat /\ config.ttl <= MaxTTL
  <1>1. config.ttl \in 0..MaxTTL
    BY TokensAssumption DEF Config
  <1> QED
    BY <1>1, TokensAssumption DEF Config

LEMMA TokenType ==
    ASSUME NEW config \in Config, NEW kid \in {"none", "v1"}, NEW time \in Nat \ {0},
           NEW t, t = NewToken(config, kid, time)
    PROVE  /\ t \in Token /\ t.key = config.secret /\ t.issuedAt = time
           /\ t.expiresAt \in t.issuedAt..(t.issuedAt + MaxTTL)
  <1>1. time + config.ttl \in Nat /\ time + config.ttl \in time..(time + MaxTTL)
    BY ConfigType, TokensAssumption
  <1> QED
    BY <1>1, ConfigType DEF NewToken, Token

(* The initial state. *)
LEMMA InitTokens == Init => TokensInv
  <1> SUFFICES ASSUME Init PROVE TokensInv
    OBVIOUS
  <1>1. PICK ttl \in TTLs, issuer \in Labels :
          env = [secret |-> 1, previous |-> 0, ttl |-> ttl, issuer |-> issuer]
    BY DEF Init
  <1>2. env \in Config /\ env.secret = 1 /\ env.previous = 0
    BY <1>1 DEF Config
  <1>3. \A t \in tokens :
          /\ t \in Token /\ t.key = 1 /\ t.issuedAt = 1
          /\ t.expiresAt \in t.issuedAt..(t.issuedAt + MaxTTL)
    <2>1. \A t \in tokens : t = NewToken(env, "none", 1)
      BY DEF Init
    <2> QED
      BY <1>2, <2>1, TokenType
  <1>4. \A r \in Replicas : conf[r] = env
    BY DEF Init
  <1>5. TypeOK
    BY <1>2, <1>3, <1>4 DEF Init, TypeOK
  <1>6. KeyOrder
    BY <1>2, <1>3, <1>4 DEF Init, KeyOrder, KeysInOrder, SamePredecessor
  <1>7. IssueTimes
    BY <1>3, TokensAssumption DEF Init, IssueTimes
  <1>8. AllCovered
    BY <1>2, <1>3, <1>4 DEF Init, AllCovered, Covered, Token
  <1> QED
    BY <1>5, <1>6, <1>7, <1>8 DEF TokensInv

(* Time only kills tokens. *)
LEMMA TickKeeps ==
    ASSUME TokensInv, Tick
    PROVE  TokensInv'
  <1>1. TypeOK'
    BY DEF TokensInv, TypeOK, Tick
  <1>2. KeyOrder'
    BY DEF TokensInv, Tick, KeyOrder, KeysInOrder, SamePredecessor
  <1>3. IssueTimes'
    BY TokensAssumption DEF TokensInv, TypeOK, Tick, IssueTimes, Token
  <1>4. AllCovered'
    BY DEF TokensInv, TypeOK, Tick, AllCovered, Covered, Dead, Token
  <1> QED
    BY <1>1, <1>2, <1>3, <1>4 DEF TokensInv

(* A replica that lags behind signs with the key the others still accept. *)
LEMMA GenerateKeeps ==
    ASSUME TokensInv, NEW r \in Replicas, GenerateToken(r)
    PROVE  TokensInv'
  <1> DEFINE new == NewToken(conf[r], "v1", Clock(r))
  <1>1. conf[r] \in Config /\ conf[r].secret \in Nat \ {0} /\ Clock(r) \in now..(now + ClockSkew)
    BY TokensAssumption DEF TokensInv, TypeOK, Clock, Config
  <1>2. new \in Token /\ new.key = conf[r].secret /\ new.issuedAt = Clock(r)
        /\ new.expiresAt \in new.issuedAt..(new.issuedAt + MaxTTL)
    <2>1. Clock(r) \in Nat \ {0}
      BY <1>1, TokensAssumption DEF TokensInv, TypeOK
    <2> QED
      BY <1>1, <2>1, TokenType DEF new
  <1> HIDE DEF new
  <1>3. tokens' = tokens \cup {new}
        /\ UNCHANGED <<now, offset, env, conf, deployedAt, lastEmergency>>
    BY DEF GenerateToken, new
  <1>4. TypeOK'
    BY <1>2, <1>3 DEF TokensInv, TypeOK
  <1>5. KeyOrder'
    BY <1>2, <1>3 DEF TokensInv, KeyOrder, KeysInOrder, SamePredecessor
  <1>6. IssueTimes'
    <2>1. ~(new.key < conf[r].secret)
      BY <1>1, <1>2
    <2> QED
      BY <1>1, <1>2, <1>3, <2>1, TokensAssumption DEF TokensInv, TypeOK, IssueTimes
  <1>7. AllCovered'
    <2>1. ASSUME lastEmergency <= new.key, new.key < env.secret
          PROVE  new.key = env.previous
      BY <1>1, <1>2, <2>1 DEF TokensInv, TypeOK, Config, KeyOrder, SamePredecessor
    <2>2. ASSUME NEW other \in Replicas,
                 lastEmergency <= new.key, new.key < conf[other].secret
          PROVE  new.key = conf[other].previous
      <3>1. conf[other].secret <= env.secret /\ conf[other].secret \in Nat
            /\ env.secret \in Nat /\ new.key \in Nat \ {0}
        BY <1>1, <1>2 DEF TokensInv, TypeOK, Config, KeyOrder, KeysInOrder
      <3>2. new.key = env.previous /\ env.previous = env.secret - 1
        BY <2>1, <2>2, <3>1 DEF TokensInv, KeyOrder, KeysInOrder
      <3>3. conf[other].secret = env.secret
        BY <2>2, <3>1, <3>2
      <3> QED
        BY <3>1, <3>2, <3>3 DEF TokensInv, KeyOrder, SamePredecessor
    <2>3. Covered(env)'
      BY <1>3, <2>1 DEF TokensInv, AllCovered, Covered, Dead
    <2>4. ASSUME NEW other \in Replicas PROVE Covered(conf[other])'
      BY <1>3, <2>2 DEF TokensInv, AllCovered, Covered, Dead
    <2> QED
      BY <1>3, <2>3, <2>4 DEF AllCovered
  <1> QED
    BY <1>4, <1>5, <1>6, <1>7 DEF TokensInv

(* A replica that starts is covered because the environment is. *)
LEMMA StartKeeps ==
    ASSUME TokensInv, NEW r \in Replicas, Start(r)
    PROVE  TokensInv'
  <1>1. /\ conf' = [conf EXCEPT ![r] = env]
        /\ UNCHANGED <<now, offset, env, tokens, lastEmergency>>
        /\ deployedAt' \in {deployedAt, now}
        /\ conf' # conf => deployedAt' = now
    BY DEF Start
  <1>2. \A other \in Replicas : conf'[other] = IF other = r THEN env ELSE conf[other]
    BY <1>1 DEF TokensInv, TypeOK
  <1>3. TypeOK'
    <2>1. env.previous < env.secret
      BY DEF TokensInv, TypeOK, Config, KeyOrder, KeysInOrder
    <2> QED
      BY <1>1, <1>2, <2>1 DEF TokensInv, TypeOK
  <1>4. KeyOrder'
    <2>1. SamePredecessor'
      BY <1>1, <1>2 DEF TokensInv, KeyOrder, SamePredecessor
    <2>2. ASSUME NEW other \in Replicas PROVE KeysInOrder(conf[other])'
      BY <1>1, <1>2 DEF TokensInv, KeyOrder, KeysInOrder
    <2>3. KeysInOrder(env)'
      BY <1>1 DEF TokensInv, KeyOrder, KeysInOrder
    <2> QED
      BY <1>1, <2>1, <2>2, <2>3 DEF TokensInv, KeyOrder
  <1>5. IssueTimes'
    <2>1. CASE conf' = conf
      <3>1. deployedAt' >= deployedAt
        BY <1>1 DEF TokensInv, TypeOK
      <3> QED
        BY <1>1, <2>1, <3>1, TokensAssumption DEF TokensInv, TypeOK, IssueTimes, Token
    <2>2. CASE conf' # conf
      BY <1>1, <2>2 DEF TokensInv, IssueTimes
    <2> QED
      BY <2>1, <2>2
  <1>6. AllCovered'
    BY <1>1, <1>2 DEF TokensInv, AllCovered, Covered, Dead
  <1> QED
    BY <1>3, <1>4, <1>5, <1>6 DEF TokensInv

(* A new key is above every key a replica runs with or a token was signed by. *)
LEMMA RotateKeeps ==
    ASSUME TokensInv, RotateSecret
    PROVE  TokensInv'
  <1>1. /\ env' = [env EXCEPT !.secret = env.secret + 1, !.previous = env.secret]
        /\ env.previous = 0 /\ \A r \in Replicas : conf[r] = env
        /\ UNCHANGED <<now, offset, conf, tokens, deployedAt, lastEmergency>>
    BY DEF RotateSecret, SetEnv, RolledOut
  <1>2. /\ env' \in Config
        /\ env'.secret = env.secret + 1 /\ env'.previous = env.secret
        /\ env.secret \in Nat \ {0} /\ lastEmergency \in Nat
    <2>1. env \in Config /\ lastEmergency \in Nat
      BY DEF TokensInv, TypeOK
    <2>2. env.secret \in Nat \ {0} /\ env.secret + 1 \in Nat \ {0}
      BY <2>1 DEF Config
    <2> QED
      BY <1>1, <2>1, <2>2 DEF Config
  <1>3. TypeOK'
    BY <1>1, <1>2 DEF TokensInv, TypeOK
  <1>4. KeyOrder'
    <2>1. KeysInOrder(env)'
      BY <1>1, <1>2 DEF TokensInv, KeyOrder, KeysInOrder
    <2>2. ASSUME NEW r \in Replicas PROVE KeysInOrder(conf[r])'
      BY <1>1, <1>2 DEF TokensInv, KeyOrder, KeysInOrder
    <2>3. SamePredecessor'
      BY <1>1, <1>2 DEF SamePredecessor
    <2>4. \A t \in tokens : t.key <= env.secret + 1
      BY <1>2 DEF TokensInv, TypeOK, Token, KeyOrder
    <2> QED
      BY <1>1, <1>2, <2>1, <2>2, <2>3, <2>4 DEF TokensInv, KeyOrder
  <1>5. IssueTimes'
    BY <1>1 DEF TokensInv, IssueTimes
  <1>6. AllCovered'
    <2>1. Covered(env)'
      BY <1>1, <1>2 DEF TokensInv, TypeOK, Token, AllCovered, Covered, Dead
    <2>2. ASSUME NEW r \in Replicas PROVE Covered(conf[r])'
      BY <1>1 DEF TokensInv, AllCovered, Covered, Dead
    <2> QED
      BY <1>1, <2>1, <2>2 DEF AllCovered
  <1> QED
    BY <1>3, <1>4, <1>5, <1>6 DEF TokensInv

(* The wait before the previous key is removed is long enough: its last token
   was issued before the last deployment and has lived its longest life. *)
LEMMA RemoveKeeps ==
    ASSUME TokensInv, RemovePreviousSecret
    PROVE  TokensInv'
  <1>1. /\ env' = [env EXCEPT !.previous = 0]
        /\ env.previous # 0 /\ \A r \in Replicas : conf[r] = env
        /\ now > deployedAt + ClockSkew + MaxTTL
        /\ UNCHANGED <<now, offset, conf, tokens, deployedAt, lastEmergency>>
    BY DEF RemovePreviousSecret, SetEnv, TransitionOver, RolledOut
  <1>2. /\ env' \in Config
        /\ env'.secret = env.secret /\ env'.previous = 0
        /\ env.secret \in Nat \ {0} /\ lastEmergency \in Nat
    BY <1>1 DEF TokensInv, TypeOK, Config
  <1>3. TypeOK'
    BY <1>1, <1>2 DEF TokensInv, TypeOK
  <1>4. KeyOrder'
    <2>1. KeysInOrder(env)'
      BY <1>1, <1>2 DEF TokensInv, KeyOrder, KeysInOrder
    <2>2. ASSUME NEW r \in Replicas PROVE KeysInOrder(conf[r])'
      BY <1>1, <1>2 DEF TokensInv, KeyOrder, KeysInOrder
    <2>3. SamePredecessor'
      BY <1>1, <1>2 DEF SamePredecessor
    <2> QED
      BY <1>1, <1>2, <2>1, <2>2, <2>3 DEF TokensInv, KeyOrder
  <1>5. IssueTimes'
    BY <1>1 DEF TokensInv, IssueTimes
  <1>6. AllCovered'
    <2>1. ASSUME NEW t \in tokens, t.key < env.secret PROVE Dead(t)
      <3>1. t.issuedAt <= deployedAt + ClockSkew
        BY <1>1, <2>1 DEF TokensInv, IssueTimes
      <3>2. /\ t.expiresAt <= t.issuedAt + MaxTTL
            /\ t.expiresAt \in Nat /\ t.issuedAt \in Nat
        BY DEF TokensInv, TypeOK, Token
      <3> QED
        BY <1>1, <3>1, <3>2, TokensAssumption DEF TokensInv, TypeOK, Dead
    <2>2. Covered(env)'
      BY <1>1, <1>2, <2>1 DEF Covered, Dead
    <2>3. ASSUME NEW r \in Replicas PROVE Covered(conf[r])'
      BY <1>1 DEF TokensInv, AllCovered, Covered, Dead
    <2> QED
      BY <1>1, <2>2, <2>3 DEF AllCovered
  <1> QED
    BY <1>3, <1>4, <1>5, <1>6 DEF TokensInv

(* An emergency ends every older token, whatever is deployed. *)
LEMMA EmergencyKeeps ==
    ASSUME TokensInv, EmergencyRotation
    PROVE  TokensInv'
  <1>1. /\ env' = [env EXCEPT !.secret = env.secret + 1, !.previous = 0]
        /\ lastEmergency' = env.secret + 1
        /\ UNCHANGED <<now, offset, conf, tokens, deployedAt>>
    BY DEF EmergencyRotation, SetEnv
  <1>2. /\ env' \in Config
        /\ env'.secret = env.secret + 1 /\ env'.previous = 0
        /\ env.secret \in Nat \ {0} /\ lastEmergency \in Nat
    <2>1. env \in Config /\ lastEmergency \in Nat
      BY DEF TokensInv, TypeOK
    <2>2. env.secret \in Nat \ {0} /\ env.secret + 1 \in Nat \ {0}
      BY <2>1 DEF Config
    <2> QED
      BY <1>1, <2>1, <2>2 DEF Config
  <1>3. \A r \in Replicas : conf[r].secret \in 1..env.secret
    BY DEF TokensInv, TypeOK, Config, KeyOrder, KeysInOrder
  <1>4. TypeOK'
    BY <1>1, <1>2 DEF TokensInv, TypeOK
  <1>5. KeyOrder'
    <2>1. KeysInOrder(env)'
      BY <1>1, <1>2 DEF KeysInOrder
    <2>2. ASSUME NEW r \in Replicas PROVE KeysInOrder(conf[r])'
      BY <1>1, <1>2, <1>3 DEF TokensInv, KeyOrder, KeysInOrder
    <2>3. SamePredecessor'
      BY <1>1, <1>2, <1>3 DEF SamePredecessor
    <2>4. \A t \in tokens : t.key <= env.secret + 1
      BY <1>2 DEF TokensInv, TypeOK, Token, KeyOrder
    <2> QED
      BY <1>1, <1>2, <2>1, <2>2, <2>3, <2>4 DEF KeyOrder
  <1>6. IssueTimes'
    BY <1>1 DEF TokensInv, IssueTimes
  <1>7. AllCovered'
    <2>1. \A t \in tokens : ~(lastEmergency' <= t.key)
      BY <1>1, <1>2 DEF TokensInv, TypeOK, Token, KeyOrder
    <2> QED
      BY <1>1, <2>1 DEF AllCovered, Covered
  <1> QED
    BY <1>4, <1>5, <1>6, <1>7 DEF TokensInv

(* The lifetime and the issuer say nothing about keys. *)
LEMMA SettingKeeps ==
    ASSUME TokensInv,
           \/ \E ttl \in TTLs : SetTokenTTL(ttl)
           \/ \E issuer \in Labels : SetTokenIssuer(issuer)
    PROVE  TokensInv'
  <1>1. /\ env' \in Config
        /\ env'.secret = env.secret /\ env'.previous = env.previous
        /\ UNCHANGED <<now, offset, conf, tokens, deployedAt, lastEmergency>>
    BY DEF SetTokenTTL, SetTokenIssuer, SetEnv, TokensInv, TypeOK, Config
  <1>2. TypeOK'
    BY <1>1 DEF TokensInv, TypeOK
  <1>3. KeyOrder'
    BY <1>1 DEF TokensInv, KeyOrder, KeysInOrder, SamePredecessor
  <1>4. IssueTimes'
    BY <1>1 DEF TokensInv, IssueTimes
  <1>5. AllCovered'
    BY <1>1 DEF TokensInv, AllCovered, Covered, Dead
  <1> QED
    BY <1>2, <1>3, <1>4, <1>5 DEF TokensInv

(* The steps together. *)
LEMMA StepTokens == TokensInv /\ [Next]_vars => TokensInv'
  <1> SUFFICES ASSUME TokensInv, [Next]_vars PROVE TokensInv'
    OBVIOUS
  <1>1. CASE UNCHANGED vars
    BY <1>1 DEF vars, TokensInv, TypeOK, KeyOrder, KeysInOrder, SamePredecessor,
                IssueTimes, AllCovered, Covered, Dead
  <1> QED
    BY <1>1, TickKeeps, GenerateKeeps, StartKeeps, RotateKeeps, RemoveKeeps,
       EmergencyKeeps, SettingKeeps DEF Next

(* The invariant that the theorems below are read off. *)
THEOREM TokensInvariant == Spec => []TokensInv
  BY InitTokens, StepTokens, PTL DEF Spec

(* No configuration runs with one key twice, no token outlives the longest
   TTL, and all state has its type. *)
THEOREM TokensTypeOK == Spec => []TypeOK
  <1>1. TokensInv => TypeOK
    BY DEF TokensInv
  <1> QED
    BY <1>1, TokensInvariant, PTL

(* A smooth rotation logs nobody out: every token is accepted until it expires
   by every replica that has been given its key. *)
THEOREM RotationIsSmooth == Spec => []SessionsSurviveRotation
  <1>1. ASSUME TokensInv, NEW r \in Replicas, NEW t \in tokens,
               t.key \in lastEmergency..conf[r].secret,
               t.issuedAt < t.expiresAt, Clock(r) <= t.expiresAt,
               t.expiresAt - t.issuedAt <= conf[r].ttl,
               conf[r].issuer \in {NoIssuer, t.iss}
        PROVE  VerifyToken(r, t)
    <2>1. /\ t \in Token /\ t.key \in Nat /\ t.issuedAt \in Nat /\ t.expiresAt \in Nat
          /\ conf[r].secret \in Nat /\ now \in Nat /\ lastEmergency \in Nat
          /\ offset[r] \in Nat /\ Clock(r) \in Nat /\ now <= Clock(r)
      BY <1>1, TokensAssumption DEF TokensInv, TypeOK, Config, Token, Clock
    <2>2. ~Dead(t)
      BY <1>1, <2>1 DEF Dead
    <2>3. Signed(r, t)
      BY <1>1, <2>1, <2>2 DEF TokensInv, AllCovered, Covered, Signed
    <2>4. t.issuedAt <= Clock(r) + ClockSkew
      <3>1. t.issuedAt <= now + ClockSkew
        BY <1>1 DEF TokensInv, IssueTimes
      <3> QED
        BY <2>1, <3>1, TokensAssumption
    <2> QED
      BY <1>1, <2>1, <2>3, <2>4
      DEF VerifyToken, Timely, KnownKid, IssuerMatches, Token
  <1>2. TokensInv => SessionsSurviveRotation
    BY <1>1 DEF SessionsSurviveRotation
  <1> QED
    BY <1>2, TokensInvariant, PTL

(* After an emergency rotation no replica that has its key, or a later one,
   accepts a token signed before it. *)
THEOREM EmergencyIsFinal == Spec => []EmergencyEndsSessions
  <1>1. ASSUME TokensInv, NEW r \in Replicas, NEW t \in tokens,
               t.key < lastEmergency, lastEmergency <= conf[r].secret
        PROVE  ~Signed(r, t)
    <2>1. /\ t.key \in Nat \ {0} /\ conf[r].secret \in Nat /\ lastEmergency \in Nat
      BY <1>1 DEF TokensInv, TypeOK, Config, Token
    <2>2. conf[r].previous = 0 \/ conf[r].previous >= lastEmergency
      BY <1>1, <2>1 DEF TokensInv, KeyOrder, KeysInOrder
    <2> QED
      BY <1>1, <2>1, <2>2 DEF Signed
  <1>2. TokensInv => EmergencyEndsSessions
    BY <1>1 DEF EmergencyEndsSessions, VerifyToken
  <1> QED
    BY <1>2, TokensInvariant, PTL

(* The key a configuration takes back was accepted there before, if it was
   known: a key has one predecessor, and a removed one never returns. *)
LEMMA NoKeyReturns ==
    ASSUME TokensInv, [Next]_vars, NEW r \in Replicas, NEW t \in tokens,
           t.key <= conf[r].secret, Signed(r, t)'
    PROVE  Signed(r, t)
  <1>1. CASE conf'[r] = conf[r]
    BY <1>1 DEF Signed
  <1>2. CASE conf'[r] # conf[r]
    <2>1. PICK s \in Replicas : Start(s)
      BY <1>2 DEF Next, vars, Tick, GenerateToken, RotateSecret, RemovePreviousSecret,
                  EmergencyRotation, SetTokenTTL, SetTokenIssuer, SetEnv
    <2>2. conf'[r] = env
      BY <1>2, <2>1 DEF Start, TokensInv, TypeOK
    <2>3. /\ t.key \in Nat \ {0} /\ conf[r].secret \in Nat /\ env.secret \in Nat
          /\ env.previous \in Nat
      BY DEF TokensInv, TypeOK, Config, Token
    <2>4. conf[r].secret <= env.secret /\ env.previous \in {0, env.secret - 1}
      BY DEF TokensInv, KeyOrder, KeysInOrder
    <2>5. conf[r].secret = env.secret /\ env.previous # 0 => conf[r].previous = env.previous
      BY DEF TokensInv, KeyOrder, SamePredecessor
    <2>6. t.key \in {env.secret, env.previous}
      BY <2>2 DEF Signed
    <2> QED
      BY <2>3, <2>4, <2>5, <2>6 DEF Signed
  <1> QED
    BY <1>1, <1>2

(* Expiry is for good on every clock. *)
LEMMA NoRevivalStep ==
    ASSUME TokensInv, [Next]_vars, NEW r \in Replicas, NEW t \in tokens,
           VerifyToken(r, t)', t.key <= conf[r].secret,
           t.expiresAt - t.issuedAt <= conf[r].ttl, IssuerMatches(r, t)
    PROVE  VerifyToken(r, t)
  <1>1. Signed(r, t)
    BY NoKeyReturns DEF VerifyToken
  <1>2. now' \in Nat /\ now <= now' /\ offset' = offset
    BY DEF TokensInv, TypeOK, Next, vars, Tick, GenerateToken, Start, RotateSecret,
           RemovePreviousSecret, EmergencyRotation, SetTokenTTL, SetTokenIssuer, SetEnv
  <1>3. /\ now \in Nat /\ offset[r] \in Nat /\ t.issuedAt \in Nat /\ t.expiresAt \in Nat
        /\ t.issuedAt <= now + ClockSkew
    BY TokensAssumption DEF TokensInv, TypeOK, Token, IssueTimes
  <1>4. t.issuedAt < t.expiresAt /\ now' + offset[r] <= t.expiresAt
    BY <1>2 DEF VerifyToken, Timely, Clock
  <1>5. Clock(r) <= t.expiresAt /\ t.issuedAt <= Clock(r) + ClockSkew
    BY <1>2, <1>3, <1>4, TokensAssumption DEF Clock
  <1> QED
    BY <1>1, <1>4, <1>5 DEF VerifyToken, Timely, KnownKid

(* A replica that refuses a token keeps refusing it unless it gets a newer
   key, a longer lifetime or another issuer. *)
THEOREM RefusedTokensStayRefused == Spec => NoRevival
  <1>1. ASSUME TokensInv, [Next]_vars
        PROVE  [\A r \in Replicas : \A t \in tokens :
                   ~VerifyToken(r, t) /\ VerifyToken(r, t)' =>
                      \/ t.key > conf[r].secret
                      \/ t.expiresAt - t.issuedAt > conf[r].ttl
                      \/ ~IssuerMatches(r, t)]_vars
    <2>1. ASSUME NEW r \in Replicas, NEW t \in tokens, VerifyToken(r, t)',
                 ~(t.key > conf[r].secret),
                 ~(t.expiresAt - t.issuedAt > conf[r].ttl), IssuerMatches(r, t)
          PROVE  VerifyToken(r, t)
      <3>1. /\ t.key \in Nat /\ t.issuedAt \in Nat /\ t.expiresAt \in Nat
            /\ conf[r].secret \in Nat /\ conf[r].ttl \in Nat
        <4>1. t \in Token /\ conf[r] \in Config
          BY <1>1 DEF TokensInv, TypeOK
        <4>2. t.key \in Nat /\ t.issuedAt \in Nat /\ t.expiresAt \in Nat
          BY <4>1 DEF Token
        <4> QED
          BY <4>1, <4>2, ConfigType
      <3>2. t.key <= conf[r].secret /\ t.expiresAt - t.issuedAt <= conf[r].ttl
        BY <2>1, <3>1
      <3> QED
        BY <1>1, <2>1, <3>2, NoRevivalStep
    <2> QED
      BY <2>1
  <1> QED
    BY <1>1, TokensInvariant, PTL DEF Spec, NoRevival
=============================================================================
