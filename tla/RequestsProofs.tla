--------------------------- MODULE RequestsProofs ---------------------------
(***************************************************************************)
(* What a request meets on its way to a handler and back, proved for any   *)
(* number of requests and any settings: the types of each component and    *)
(* the properties of its run.                                              *)
(***************************************************************************)
EXTENDS Requests, FiniteSetTheorems, SequenceTheorems, TLAPS

-----------------------------------------------------------------------------
(* Tokens.  Each was signed with its full life, and a request that looks   *)
(* for the account of one has decoded it since the last start.             *)
Life(type) == IF type = "access" THEN AccessLife ELSE RefreshLife
TokensInv ==
    /\ Tokens!TypeOK
    /\ \A t \in tokens : t.iat <= authNow /\ t.exp = t.iat + Life(t.type)
    /\ \A r \in Tokens!Holders : authPc[r] = "looking" =>
         held[r] \in Tokens!Token /\ Tokens!Key(held[r].start) = Tokens!Key(starts)

LEMMA TokensInit == Tokens!Init => TokensInv
  BY AuthBounds DEF Tokens!Init, TokensInv, Tokens!TypeOK, Tokens!Request, Tokens!Holders,
     Tokens!User, Tokens!NoUser, Tokens!NoToken, Tokens!Token, Tokens!Answer

(* A pair is signed for an account that exists. *)
LEMMA PairIsTyped ==
  ASSUME TokensInv, NEW u \in Tokens!User \ {Tokens!NoUser}, Tokens!CreatePair(u)
  PROVE  /\ tokens' \subseteq Tokens!Token /\ pairs' \in 0..MaxPairs
         /\ \A t \in tokens' : t.iat <= authNow /\ t.exp = t.iat + Life(t.type)
<1>1. ASSUME NEW type \in Tokens!TokenType
      PROVE  /\ Tokens!NewToken(u, type) \in Tokens!Token
             /\ Tokens!NewToken(u, type).iat = authNow
             /\ Tokens!NewToken(u, type).exp = authNow + Life(Tokens!NewToken(u, type).type)
  <2>1. u.id \in Ids /\ u.auth \in 1..MaxAccounts
    BY DEF Tokens!User
  <2>2. authNow \in 0..MaxAuthTime /\ starts \in 0..MaxStarts
    BY DEF TokensInv, Tokens!TypeOK
  <2>3. authNow + Life(type) \in 0..(MaxAuthTime + AccessLife + RefreshLife)
    BY <2>2, AuthBounds DEF Life
  <2> QED
    BY <2>1, <2>2, <2>3 DEF Tokens!NewToken, Tokens!Token, Life, Tokens!TokenType
<1>2. tokens' = tokens \cup {Tokens!NewToken(u, type) : type \in Tokens!TokenType}
  BY DEF Tokens!CreatePair
<1>3. pairs' \in 0..MaxPairs
  BY AuthBounds DEF Tokens!CreatePair, TokensInv, Tokens!TypeOK
<1>4. \A t \in tokens : t \in Tokens!Token /\ t.iat <= authNow /\ t.exp = t.iat + Life(t.type)
  BY DEF TokensInv, Tokens!TypeOK
<1>5. authNow <= authNow
  BY DEF TokensInv, Tokens!TypeOK
<1> QED
  BY <1>1, <1>2, <1>3, <1>4, <1>5

LEMMA TokensStep == TokensInv /\ [Tokens!Next]_(Tokens!vars) => TokensInv'
<1> SUFFICES ASSUME TokensInv, [Tokens!Next]_(Tokens!vars) PROVE TokensInv'
  OBVIOUS
<1> USE DEF Tokens!Answer
<1>1. ASSUME NEW r \in Logins, Tokens!LoginReads(r) PROVE TokensInv'
  <2>1. PICK u \in {authUsers[i] : i \in Ids} \cup {Tokens!NoUser} : user' = [user EXCEPT ![r] = u]
    BY <1>1 DEF Tokens!LoginReads
  <2>2. u \in Tokens!User
    BY <2>1 DEF TokensInv, Tokens!TypeOK, Tokens!User
  <2>3. Tokens!TypeOK'
    BY <1>1, <2>1, <2>2 DEF Tokens!LoginReads, Tokens!Move, TokensInv, Tokens!TypeOK,
       Tokens!accountVars, Tokens!clockVars, Tokens!Request
  <2> QED
    BY <1>1, <2>3 DEF Tokens!LoginReads, Tokens!Move, TokensInv, Tokens!TypeOK,
       Tokens!accountVars, Tokens!clockVars, Tokens!Request, Tokens!Holders, Tokens!Key
<1>2. ASSUME NEW r \in Tokens!Request, NEW to \in Tokens!Answer, NEW from, Tokens!Move(r, from, to),
             UNCHANGED <<Tokens!accountVars, Tokens!clockVars, user, held>>,
             \/ Tokens!NoPair
             \/ \E u \in Tokens!User \ {Tokens!NoUser} : Tokens!CreatePair(u)
      PROVE  TokensInv'
  <2>1. /\ tokens' \subseteq Tokens!Token /\ pairs' \in 0..MaxPairs
        /\ \A t \in tokens' : t.iat <= authNow /\ t.exp = t.iat + Life(t.type)
    BY <1>2, PairIsTyped DEF Tokens!NoPair, TokensInv, Tokens!TypeOK
  <2>2. authNow' = authNow /\ starts' = starts /\ held' = held /\ user' = user
        /\ authUsers' = authUsers /\ accounts' = accounts
    BY <1>2 DEF Tokens!accountVars, Tokens!clockVars
  <2>3. authPc' = [authPc EXCEPT ![r] = to]
    BY <1>2 DEF Tokens!Move
  <2>4. Tokens!TypeOK'
    BY <2>1, <2>2, <2>3 DEF TokensInv, Tokens!TypeOK
  <2> QED
    BY <2>1, <2>2, <2>3, <2>4 DEF TokensInv, Tokens!TypeOK, Tokens!Holders, Tokens!Request, Tokens!Key
<1>3. ASSUME NEW r \in Logins, Tokens!LoginAnswers(r) PROVE TokensInv'
  <2>1. r \in Tokens!Request
    BY DEF Tokens!Request
  <2>2. user[r].active => user[r] \in Tokens!User \ {Tokens!NoUser}
    BY <2>1 DEF TokensInv, Tokens!TypeOK, Tokens!NoUser
  <2> QED
    BY <1>2, <1>3, <2>1, <2>2 DEF Tokens!LoginAnswers
<1>4. ASSUME NEW r \in Tokens!Holders, NEW t \in tokens, Tokens!Present(r, t) PROVE TokensInv'
  <2>1. t \in Tokens!Token /\ r \in Tokens!Request
    BY DEF TokensInv, Tokens!TypeOK, Tokens!Request
  <2>2. Tokens!TypeOK'
    BY <1>4, <2>1 DEF Tokens!Present, Tokens!Move, TokensInv, Tokens!TypeOK,
       Tokens!accountVars, Tokens!clockVars
  <2>3. ASSUME NEW q \in Tokens!Holders, authPc'[q] = "looking"
        PROVE  held'[q] \in Tokens!Token /\ Tokens!Key(held'[q].start) = Tokens!Key(starts)
    <3>1. CASE q = r
      BY <1>4, <2>1, <2>3, <3>1 DEF Tokens!Present, Tokens!Move, Tokens!Decodes, TokensInv, Tokens!TypeOK
    <3>2. CASE q # r
      BY <1>4, <2>1, <2>3, <3>2 DEF Tokens!Present, Tokens!Move, TokensInv, Tokens!TypeOK,
         Tokens!Holders, Tokens!Request
    <3> QED
      BY <3>1, <3>2
  <2> QED
    BY <1>4, <2>2, <2>3 DEF Tokens!Present, TokensInv, Tokens!accountVars, Tokens!clockVars, Tokens!Key
<1>5. ASSUME NEW r \in Tokens!Holders, Tokens!Authenticate(r) PROVE TokensInv'
  <2> DEFINE u == authUsers[held[r].id]
  <2>1. u \in Tokens!User /\ r \in Tokens!Request
    BY <1>5 DEF Tokens!Authenticate, TokensInv, Tokens!TypeOK, Tokens!Token, Tokens!Request
  <2>2. Tokens!IsOwner(u, held[r]) => u # Tokens!NoUser
    BY DEF Tokens!IsOwner
  <2>3. PICK to \in Tokens!Answer :
          /\ Tokens!Move(r, "looking", to)
          /\ \/ Tokens!NoPair
             \/ Tokens!IsOwner(u, held[r]) /\ Tokens!CreatePair(u)
    BY <1>5 DEF Tokens!Authenticate
  <2> QED
    BY <1>2, <1>5, <2>1, <2>2, <2>3 DEF Tokens!Authenticate
<1>6. CASE Tokens!Administer
  <2>1. PICK i \in Ids : Tokens!Create(i) \/ Tokens!SetActive(i) \/ Tokens!Delete(i)
    BY <1>6 DEF Tokens!Administer
  <2>2. authUsers' \in [Ids -> Tokens!User] /\ accounts' \in 0..MaxAccounts
    <3>1. CASE Tokens!Create(i)
      BY <3>1, AuthBounds DEF Tokens!Create, TokensInv, Tokens!TypeOK, Tokens!User
    <3>2. CASE Tokens!SetActive(i)
      BY <3>2, ZenonT(60) DEF Tokens!SetActive, TokensInv, Tokens!TypeOK, Tokens!User
    <3>3. CASE Tokens!Delete(i)
      BY <3>3 DEF Tokens!Delete, TokensInv, Tokens!TypeOK, Tokens!User
    <3> QED
      BY <2>1, <3>1, <3>2, <3>3
  <2> QED
    BY <1>6, <2>2 DEF Tokens!Administer, TokensInv, Tokens!TypeOK, Tokens!clockVars, Tokens!Key
<1>7. CASE Tokens!Tick
  BY <1>7, AuthBounds DEF Tokens!Tick, TokensInv, Tokens!TypeOK, Tokens!accountVars, Tokens!Key, Tokens!Token
<1>8. CASE Tokens!Restart
  <2>1. Tokens!TypeOK'
    BY <1>8, AuthBounds DEF Tokens!Restart, TokensInv, Tokens!TypeOK, Tokens!accountVars
  <2>2. \A r \in Tokens!Holders : authPc'[r] # "looking"
    BY <1>8 DEF Tokens!Restart, Tokens!Request
  <2> QED
    BY <1>8, <2>1, <2>2 DEF Tokens!Restart, TokensInv
<1>9. CASE UNCHANGED Tokens!vars
  BY <1>9 DEF Tokens!vars, TokensInv, Tokens!TypeOK, Tokens!Key
<1> QED
  BY <1>1, <1>3, <1>4, <1>5, <1>6, <1>7, <1>8, <1>9 DEF Tokens!Next

(* Whoever is accepted was looked up. *)
LEMMA AcceptedByOwner ==
  ASSUME TokensInv, Tokens!Next, NEW r \in Tokens!Holders, Tokens!Accepted(r)
  PROVE  /\ held[r] \in Tokens!Token
         /\ Tokens!IsOwner(authUsers[held[r].id], held[r]) /\ authUsers[held[r].id].active
  BY DEF TokensInv, Tokens!TypeOK, Tokens!Next, Tokens!Accepted, Tokens!LoginReads, Tokens!LoginAnswers,
     Tokens!Present, Tokens!Authenticate, Tokens!Administer, Tokens!Tick, Tokens!Restart, Tokens!Move,
     Tokens!Request, Tokens!Holders

LEMMA OwnerStep ==
  ASSUME TokensInv, [Tokens!Next]_(Tokens!vars)
  PROVE  Tokens!OnlyOwner
<1>1. ASSUME NEW r \in Tokens!Holders, Tokens!Accepted(r)
      PROVE  Tokens!Next
  BY <1>1 DEF Tokens!Accepted, Tokens!vars
<1> QED
  BY <1>1, AcceptedByOwner DEF Tokens!OnlyOwner, Tokens!IsOwner, Tokens!Token

LEMMA ExpiryStep ==
  ASSUME TokensInv, [Tokens!Next]_(Tokens!vars)
  PROVE  Tokens!AccessIsShort /\ Tokens!RestartEndsTokens
<1>1. Tokens!AccessIsShort
  <2> SUFFICES ASSUME NEW r \in Bearers, authPc[r] = "new", authPc'[r] = "looking"
               PROVE  authNow - held'[r].iat < AccessLife
    BY DEF Tokens!AccessIsShort
  <2>1. Tokens!Next
    BY DEF Tokens!vars
  <2>2. PICK t \in tokens : Tokens!Present(r, t) /\ Tokens!Decodes(t, "access")
    BY <2>1 DEF TokensInv, Tokens!TypeOK, Tokens!Next, Tokens!LoginReads, Tokens!LoginAnswers, Tokens!Use,
     Tokens!Present, Tokens!Authenticate, Tokens!Administer, Tokens!Tick, Tokens!Restart, Tokens!Move,
     Tokens!Request, Tokens!Holders
  <2>3. held'[r] = t
    BY <2>2 DEF Tokens!Present, TokensInv, Tokens!TypeOK, Tokens!Request, Tokens!Holders
  <2>4. t \in Tokens!Token /\ authNow \in Nat /\ t.iat \in Nat
    BY AuthBounds DEF TokensInv, Tokens!TypeOK, Tokens!Token
  <2>5. t.exp = t.iat + AccessLife /\ t.exp > authNow
    BY <2>2 DEF Tokens!Decodes, TokensInv, Life
  <2> QED
    BY <2>3, <2>4, <2>5, AuthBounds
<1>2. Tokens!RestartEndsTokens
  <2> SUFFICES ASSUME NEW r \in Tokens!Holders, ~SecretConfigured, Tokens!Accepted(r)
               PROVE  held[r].start = starts
    BY DEF Tokens!RestartEndsTokens
  <2> QED
    BY DEF TokensInv, Tokens!Accepted, Tokens!Key
<1> QED
  BY <1>1, <1>2

-----------------------------------------------------------------------------
(* The limit of logins. *)
LEMMA Products ==
  ASSUME NEW x \in Nat, NEW y \in Nat, NEW c \in Nat, x <= y
  PROVE  x * c <= y * c /\ x * c \in Nat /\ y * c \in Nat
OBVIOUS

LEMMA CeilingDivides ==
  ASSUME NEW n \in Nat, NEW d \in Nat \ {0}, NEW q, q = (n + d - 1) \div d
  PROVE  q \in Nat /\ n <= q * d /\ (q - 1) * d < n
<1>1. q \in Int /\ q * d <= n + d - 1 /\ n + d - 1 < (q + 1) * d
  OBVIOUS
<1>2. q \in Nat
  BY <1>1
<1>3. (q + 1) * d = q * d + d /\ (q - 1) * d = q * d - d
  BY <1>2
<1> QED
  BY <1>1, <1>2, <1>3

(* The arithmetic of the bucket: a wait is never too short, and within the *)
(* period.                                                                 *)
LEMMA WaitFits ==
  ASSUME NEW left \in Nat, left < Login!Scale
  PROVE  /\ Login!RetryAfter(left) \in 1..Period
         /\ Login!Scale - left <= Login!RetryAfter(left) * Unit * Capacity
         /\ (Login!RetryAfter(left) - 1) * Unit * Capacity < Login!Scale - left
<1> DEFINE q == Login!RetryAfter(left)
           d == Capacity * Unit
           n == Login!Scale - left
<1>1. d \in Nat \ {0} /\ Login!Scale \in Nat \ {0} /\ n \in Nat \ {0}
  BY LimitBounds DEF Login!Scale
<1>2. q = (n + d - 1) \div d
  BY DEF Login!RetryAfter
<1> HIDE DEF n, d, q
<1>3. q \in Nat /\ n <= q * d /\ (q - 1) * d < n
  BY <1>1, <1>2, CeilingDivides
<1>4. q # 0
  BY <1>1, <1>3
<1>5. q <= Period
  <2>1. n <= Period * d
    <3>1. Unit <= d
      BY LimitBounds DEF d
    <3>2. Unit * Period <= d * Period
      BY <3>1, <1>1, LimitBounds, Products
    <3>3. n <= Period * Unit
      BY LimitBounds DEF n, Login!Scale
    <3> QED
      BY <3>2, <3>3, <1>1, LimitBounds DEF n, Login!Scale
  <2>2. ASSUME q > Period PROVE FALSE
    <3>1. Period <= q - 1 /\ Period \in Nat /\ q - 1 \in Nat
      BY <2>2, <1>3, LimitBounds
    <3>2. Period * d <= (q - 1) * d
      BY <3>1, <1>1, Products
    <3>3. (q - 1) * d \in Nat /\ Period * d \in Nat
      BY <3>1, <1>1, Products
    <3> QED
      BY <3>2, <3>3, <2>1, <1>1, <1>3
  <2> QED
    BY <2>2, <1>3, LimitBounds
<1>6. q * d = q * Unit * Capacity /\ (q - 1) * d = (q - 1) * Unit * Capacity
  BY <1>3, LimitBounds DEF d
<1> QED
  BY <1>3, <1>4, <1>5, <1>6 DEF n, q

LEMMA Quantities ==
  /\ Login!Scale \in Nat \ {0} /\ Login!Full \in Nat \ {0} /\ Login!Scale <= Login!Full
  /\ Login!Full = Capacity * Login!Scale /\ Login!Ttl = Login!Scale
  /\ Login!Scale = Period * Unit
<1>1. Login!Scale \in Nat \ {0}
  BY LimitBounds DEF Login!Scale
<1>2. 1 * Login!Scale <= Capacity * Login!Scale /\ Capacity * Login!Scale \in Nat
  BY <1>1, LimitBounds, Products
<1> QED
  BY <1>1, <1>2 DEF Login!Full, Login!Ttl, Login!Scale

(* The logins sent since a moment that were let through, or will be.       *)
LetThrough(from) ==
    {l \in Attempts : /\ sent[l] >= from
                      /\ limitPc[l] = "passed" \/ (limitPc[l] = "replied" /\ retry[l] = 0)}

(* Everything the script lets through was paid for by the bucket, and the  *)
(* promise is about the bucket as the script left it, or about one whose   *)
(* key went by itself.                                                     *)
LoginInv ==
    /\ Login!TypeOK
    /\ bucket # Login!NoKey =>
         bucket.updated <= limitNow /\ bucket.expires = bucket.updated + Login!Ttl
    /\ \A l \in Attempts : sent[l] <= limitNow
    /\ \A from \in 0..limitNow :
         Cardinality(LetThrough(from)) * Login!Scale + Login!Level(limitNow)
           <= Login!Full + (limitNow - from) * Capacity
    /\ promise # Login!NoPromise =>
         \/ bucket = Login!NoKey /\ limitNow >= promise.at + Login!Ttl
         \/ /\ bucket # Login!NoKey /\ bucket.updated = promise.at
            /\ bucket.tokens < Login!Scale
            /\ promise.wait = Login!RetryAfter(bucket.tokens)

LEMMA LevelIs ==
  ASSUME Login!TypeOK, NEW t \in Nat, bucket # Login!NoKey => bucket.updated <= t
  PROVE  Login!Level(t) \in 0..Login!Full
<1>1. CASE bucket = Login!NoKey
  BY <1>1, Quantities DEF Login!Level
<1>2. CASE bucket # Login!NoKey
  <2>1. bucket \in Login!Bucket
    BY <1>2 DEF Login!TypeOK
  <2>2. bucket.tokens \in Nat /\ t - bucket.updated \in Nat /\ Capacity \in Nat
    BY <1>2, <2>1, LimitBounds, Quantities DEF Login!Bucket
  <2>3. (t - bucket.updated) * Capacity \in Nat
    BY <2>2, Products
  <2> QED
    BY <1>2, <2>2, <2>3, Quantities DEF Login!Level, Login!Smaller
<1> QED
  BY <1>1, <1>2

(* A tick brings Capacity units, up to the full bucket.                    *)
LEMMA LevelAfterTick ==
  ASSUME LoginInv
  PROVE  /\ Login!Level(limitNow) \in 0..Login!Full
         /\ Login!Level(limitNow + 1) = Login!Smaller(Login!Full, Login!Level(limitNow) + Capacity)
<1> USE DEF Login!Smaller
<1>1. limitNow \in Nat
  BY LimitBounds DEF LoginInv, Login!TypeOK
<1>2. Login!Level(limitNow) \in 0..Login!Full
  BY <1>1, LevelIs DEF LoginInv
<1>3. CASE bucket = Login!NoKey
  BY <1>2, <1>3, Quantities, LimitBounds DEF Login!Level
<1>4. CASE bucket # Login!NoKey
  <2>1. bucket \in Login!Bucket
    BY <1>4 DEF LoginInv, Login!TypeOK
  <2>2. bucket.tokens \in Nat /\ limitNow - bucket.updated \in Nat /\ Capacity \in Nat
    BY <1>1, <1>4, <2>1, LimitBounds, Quantities DEF Login!Bucket, LoginInv
  <2>3. ((limitNow + 1) - bucket.updated) * Capacity = (limitNow - bucket.updated) * Capacity + Capacity
    BY <2>2, <1>1, LimitBounds, <2>1 DEF Login!Bucket
  <2>4. (limitNow - bucket.updated) * Capacity \in Nat
    BY <2>2, Products
  <2> DEFINE m == (limitNow - bucket.updated) * Capacity
             x == bucket.tokens
  <2>5. Login!Level(limitNow) = IF Login!Full < x + m THEN Login!Full ELSE x + m
    BY <1>4 DEF Login!Level
  <2> DEFINE n == ((limitNow + 1) - bucket.updated) * Capacity
  <2>6. Login!Level(limitNow + 1) = IF Login!Full < x + n THEN Login!Full ELSE x + n
    BY <1>4 DEF Login!Level
  <2>7. x \in Nat /\ m \in Nat
    BY <2>2, <2>4
  <2>8. n = m + Capacity
    BY <2>3
  <2> HIDE DEF x, m, n
  <2> QED
    BY <1>2, <2>2, <2>8, <2>5, <2>6, <2>7, Quantities
<1> QED
  BY <1>2, <1>3, <1>4

(* When the key may go, the bucket is full again. *)
LEMMA FullAtExpiry ==
  ASSUME LoginInv, Login!Expire
  PROVE  Login!Level(limitNow) = Login!Full /\ Login!Level(limitNow)' = Login!Full
<1> USE DEF Login!Expire
<1>1. bucket \in Login!Bucket /\ limitNow \in Nat
  BY LimitBounds DEF LoginInv, Login!TypeOK
<1>2. Login!Ttl <= limitNow - bucket.updated /\ limitNow - bucket.updated \in Nat /\ bucket.tokens \in Nat
  BY <1>1, Quantities DEF LoginInv, Login!Bucket
<1>3. Login!Ttl * Capacity <= (limitNow - bucket.updated) * Capacity
  BY <1>2, Quantities, LimitBounds, Products
<1>4. (limitNow - bucket.updated) * Capacity \in Nat /\ Login!Ttl * Capacity = Login!Full
  BY <1>2, Quantities, LimitBounds, Products
<1>5. Login!Level(limitNow) = Login!Full
  BY <1>1, <1>2, <1>3, <1>4, Quantities DEF Login!Level, Login!Smaller
<1> QED
  BY <1>5 DEF Login!Level

LEMMA LoginInit == Login!Init => LoginInv /\ Login!Level(limitNow) = Login!Full
<1> SUFFICES ASSUME Login!Init PROVE LoginInv /\ Login!Level(limitNow) = Login!Full
  OBVIOUS
<1>1. Login!TypeOK
  BY LimitBounds DEF Login!Init, Login!TypeOK, Login!Answer
<1>2. Login!Level(limitNow) = Login!Full
  BY DEF Login!Init, Login!Level
<1>3. \A from \in 0..limitNow : LetThrough(from) = {} /\ (limitNow - from) * Capacity = 0
  BY LimitBounds DEF Login!Init, LetThrough
<1>4. \A from \in 0..limitNow :
        Cardinality(LetThrough(from)) * Login!Scale + Login!Level(limitNow)
           <= Login!Full + (limitNow - from) * Capacity
  BY <1>2, <1>3, Quantities, FS_EmptySet
<1> QED
  BY <1>1, <1>2, <1>4 DEF LoginInv, Login!Init

LEMMA LetThroughIsFinite ==
  ASSUME NEW from
  PROVE  IsFiniteSet(LetThrough(from)) /\ Cardinality(LetThrough(from)) \in Nat
<1>1. LetThrough(from) \subseteq Attempts
  BY DEF LetThrough
<1> QED
  BY <1>1, LimitBounds, FS_Subset, FS_CardinalityType

(* The count after a step that lets no more of them through and leaves the *)
(* bucket no fuller.                                                       *)
LEMMA CountKept ==
  ASSUME LoginInv, Login!TypeOK', limitNow' = limitNow,
         \A from \in 0..limitNow : LetThrough(from)' \subseteq LetThrough(from),
         Login!Level(limitNow)' = Login!Level(limitNow)
  PROVE  \A from \in 0..limitNow' :
           Cardinality(LetThrough(from))' * Login!Scale + Login!Level(limitNow)'
             <= Login!Full + (limitNow' - from) * Capacity
<1> SUFFICES ASSUME NEW from \in 0..limitNow
             PROVE  Cardinality(LetThrough(from)') * Login!Scale + Login!Level(limitNow)
                       <= Login!Full + (limitNow - from) * Capacity
  OBVIOUS
<1>1. LetThrough(from)' \subseteq LetThrough(from)
  OBVIOUS
<1>2. Cardinality(LetThrough(from)') <= Cardinality(LetThrough(from)) /\ Cardinality(LetThrough(from)') \in Nat
  BY <1>1, LetThroughIsFinite, FS_Subset, FS_CardinalityType
<1>3. Cardinality(LetThrough(from)') * Login!Scale <= Cardinality(LetThrough(from)) * Login!Scale
      /\ Cardinality(LetThrough(from)') * Login!Scale \in Nat
      /\ Cardinality(LetThrough(from)) * Login!Scale \in Nat
  BY <1>2, LetThroughIsFinite, Products, Quantities
<1>4. Cardinality(LetThrough(from)) * Login!Scale + Login!Level(limitNow)
         <= Login!Full + (limitNow - from) * Capacity
  BY DEF LoginInv
<1>5. limitNow - from \in Nat /\ limitNow \in Nat
  BY LimitBounds DEF LoginInv, Login!TypeOK
<1>6. (limitNow - from) * Capacity \in Nat /\ Login!Level(limitNow) \in Nat
  BY <1>5, LevelIs, Products, LimitBounds, Quantities DEF LoginInv
<1> QED
  BY <1>3, <1>4, <1>6, Quantities

(* The script, whether it lets the login through or not. *)
LEMMA ScriptStep ==
  ASSUME LoginInv, NEW l \in Attempts, Login!Script(l)
  PROVE  /\ LoginInv'
         /\ \/ Login!Level(limitNow) >= Login!Scale
                /\ Login!Level(limitNow)' = Login!Level(limitNow) - Login!Scale
            \/ Login!Level(limitNow)' = Login!Level(limitNow)
<1> DEFINE level == Login!Level(limitNow)
           left == IF level >= Login!Scale THEN level - Login!Scale ELSE level
           wait == IF level >= Login!Scale THEN 0 ELSE Login!RetryAfter(left)
<1>1. level \in 0..Login!Full /\ limitNow \in 0..MaxLimitTime /\ MaxLimitTime \in Nat
  BY LevelIs, LimitBounds DEF LoginInv, Login!TypeOK
<1>2. /\ bucket' = [tokens |-> left, updated |-> limitNow, expires |-> limitNow + Login!Ttl]
      /\ retry' = [retry EXCEPT ![l] = wait]
      /\ promise' = IF wait = 0 THEN Login!NoPromise ELSE [at |-> limitNow, wait |-> wait]
      /\ limitNow' = limitNow /\ sent' = sent
      /\ \/ limitPc[l] = "sent" /\ limitPc' = [limitPc EXCEPT ![l] = "replied"]
         \/ limitPc[l] = "abandoned" /\ limitPc' = [limitPc EXCEPT ![l] = "unavailable"]
  BY DEF Login!Script
<1>3. left \in 0..Login!Full /\ left <= level /\ (level >= Login!Scale \/ left < Login!Scale)
      /\ left \in Nat
  BY <1>1, Quantities
<1>4. \/ level >= Login!Scale /\ wait = 0 /\ left = level - Login!Scale
      \/ level < Login!Scale /\ wait \in 1..Period /\ wait = Login!RetryAfter(left) /\ left = level
  BY <1>1, <1>3, Quantities, WaitFits
<1> HIDE DEF left, wait
<1>5. bucket' \in Login!Bucket /\ bucket' # Login!NoKey
  BY <1>1, <1>2, <1>3, Quantities DEF Login!Bucket, Login!NoKey
<1>6. wait \in 0..Period /\ (wait # 0 => wait \in 1..Period)
  BY <1>4, LimitBounds
<1>7. Login!TypeOK'
  BY <1>1, <1>2, <1>5, <1>6 DEF LoginInv, Login!TypeOK, Login!Answer
<1>8. Login!Level(limitNow)' = left
  <2>1. (limitNow - limitNow) * Capacity = 0
    BY <1>1, LimitBounds
  <2> QED
    BY <1>2, <1>3, <1>5, <2>1, <1>1, Quantities DEF Login!Level, Login!Smaller
<1>9. ASSUME NEW from \in 0..limitNow
      PROVE  LetThrough(from)' \subseteq LetThrough(from) \cup (IF wait = 0 THEN {l} ELSE {})
             /\ l \notin LetThrough(from)
  BY <1>2, <1>6 DEF LetThrough, LoginInv, Login!TypeOK
<1>10. \A from \in 0..limitNow' :
           Cardinality(LetThrough(from))' * Login!Scale + Login!Level(limitNow)'
             <= Login!Full + (limitNow' - from) * Capacity
  <2>1. CASE wait # 0
    BY <1>2, <1>4, <1>7, <1>8, <1>9, <2>1, CountKept
  <2>2. CASE wait = 0
    <3> SUFFICES ASSUME NEW from \in 0..limitNow
                 PROVE  Cardinality(LetThrough(from)') * Login!Scale + left
                           <= Login!Full + (limitNow - from) * Capacity
      BY <1>2, <1>8
    <3> DEFINE n == Cardinality(LetThrough(from))
    <3>1. LetThrough(from)' \subseteq LetThrough(from) \cup {l} /\ l \notin LetThrough(from)
      BY <1>9, <2>2
    <3>2. Cardinality(LetThrough(from)') \in Nat /\ Cardinality(LetThrough(from)') <= n + 1 /\ n \in Nat
      <4>1. IsFiniteSet(LetThrough(from)) /\ n \in Nat
        BY LetThroughIsFinite
      <4>2. /\ IsFiniteSet(LetThrough(from) \cup {l})
            /\ Cardinality(LetThrough(from) \cup {l}) = n + 1
        BY <3>1, <4>1, FS_AddElement
      <4> HIDE DEF n
      <4> QED
        BY <3>1, <4>1, <4>2, FS_Subset, FS_CardinalityType
    <3>3. Cardinality(LetThrough(from)') * Login!Scale <= (n + 1) * Login!Scale
          /\ Cardinality(LetThrough(from)') * Login!Scale \in Nat
      BY <3>2, Products, Quantities
    <3>4. n * Login!Scale + level <= Login!Full + (limitNow - from) * Capacity
      BY DEF LoginInv
    <3>5. (n + 1) * Login!Scale = n * Login!Scale + Login!Scale /\ n * Login!Scale \in Nat
      BY <3>2, Quantities, Products
    <3>6. limitNow - from \in Nat
      BY <1>1
    <3>7. (limitNow - from) * Capacity \in Nat
      BY <3>6, LimitBounds, Products
    <3>8. left = level - Login!Scale /\ level \in Nat
      BY <1>1, <1>4, <2>2, Quantities
    <3> HIDE DEF n, level
    <3> QED
      BY <3>3, <3>4, <3>5, <3>7, <3>8, Quantities
  <2> QED
    BY <2>1, <2>2
<1>11. LoginInv'
  BY <1>1, <1>2, <1>4, <1>5, <1>7, <1>10 DEF LoginInv
<1> QED
  BY <1>4, <1>8, <1>11

LEMMA LoginStep == LoginInv /\ [Login!Next]_(Login!vars) => LoginInv' /\ Login!KeepsQuota
<1> SUFFICES ASSUME LoginInv, [Login!Next]_(Login!vars) PROVE LoginInv' /\ Login!KeepsQuota
  OBVIOUS
<1> USE DEF Login!Answer
<1>1. ASSUME limitNow' = limitNow, bucket' = bucket, promise' = promise, Login!TypeOK',
             \A l \in Attempts : sent'[l] <= limitNow,
             \A from \in 0..limitNow : LetThrough(from)' \subseteq LetThrough(from)
      PROVE  LoginInv' /\ Login!KeepsQuota
  <2>1. Login!Level(limitNow)' = Login!Level(limitNow)
    BY <1>1 DEF Login!Level
  <2>2. \A from \in 0..limitNow' :
           Cardinality(LetThrough(from))' * Login!Scale + Login!Level(limitNow)'
             <= Login!Full + (limitNow' - from) * Capacity
    BY <1>1, <2>1, CountKept
  <2> QED
    BY <1>1, <2>1, <2>2 DEF LoginInv, Login!KeepsQuota
<1>2. ASSUME NEW l \in Attempts, Login!Send(l) PROVE LoginInv' /\ Login!KeepsQuota
  <2>1. Login!TypeOK'
    BY <1>2 DEF Login!Send, LoginInv, Login!TypeOK
  <2>2. \A m \in Attempts : sent'[m] <= limitNow
    BY <1>2, LimitBounds DEF Login!Send, LoginInv, Login!TypeOK
  <2>3. \A from \in 0..limitNow : LetThrough(from)' \subseteq LetThrough(from)
    BY <1>2 DEF Login!Send, LetThrough, LoginInv, Login!TypeOK
  <2> QED
    BY <1>1, <1>2, <2>1, <2>2, <2>3 DEF Login!Send
<1>3. ASSUME NEW l \in Attempts, Login!Script(l) PROVE LoginInv' /\ Login!KeepsQuota
  BY <1>3, ScriptStep, Quantities DEF Login!KeepsQuota, Login!Quota!Next, Login!Quota!Take
<1>4. ASSUME NEW l \in Attempts, Login!Reply(l) PROVE LoginInv' /\ Login!KeepsQuota
  <2>1. Login!TypeOK'
    BY <1>4 DEF Login!Reply, LoginInv, Login!TypeOK
  <2>2. \A from \in 0..limitNow : LetThrough(from)' \subseteq LetThrough(from)
    BY <1>4 DEF Login!Reply, LetThrough, LoginInv, Login!TypeOK
  <2> QED
    BY <1>1, <1>4, <2>1, <2>2 DEF Login!Reply, LoginInv
<1>5. ASSUME NEW l \in Attempts, Login!GiveUp(l) PROVE LoginInv' /\ Login!KeepsQuota
  <2>1. Login!TypeOK'
    BY <1>5 DEF Login!GiveUp, LoginInv, Login!TypeOK
  <2>2. \A from \in 0..limitNow : LetThrough(from)' \subseteq LetThrough(from)
    BY <1>5 DEF Login!GiveUp, LetThrough, LoginInv, Login!TypeOK
  <2> QED
    BY <1>1, <1>5, <2>1, <2>2 DEF Login!GiveUp, LoginInv
<1>6. CASE Login!Expire
  <2>1. Login!TypeOK'
    BY <1>6 DEF Login!Expire, LoginInv, Login!TypeOK
  <2>2. Login!Level(limitNow)' = Login!Level(limitNow)
    BY <1>6, FullAtExpiry
  <2>3. \A from \in 0..limitNow : LetThrough(from)' \subseteq LetThrough(from)
    BY <1>6 DEF Login!Expire, LetThrough
  <2>4. \A from \in 0..limitNow' :
           Cardinality(LetThrough(from))' * Login!Scale + Login!Level(limitNow)'
             <= Login!Full + (limitNow' - from) * Capacity
    BY <1>6, <2>1, <2>2, <2>3, CountKept DEF Login!Expire
  <2> QED
    BY <1>6, <2>1, <2>2, <2>4 DEF Login!Expire, LoginInv, Login!KeepsQuota
<1>7. CASE Login!Tick
  <2>1. limitNow' = limitNow + 1 /\ limitNow \in Nat /\ MaxLimitTime \in Nat /\ limitNow < MaxLimitTime
        /\ bucket' = bucket /\ promise' = promise /\ sent' = sent /\ retry' = retry /\ limitPc' = limitPc
    BY <1>7, LimitBounds DEF Login!Tick, LoginInv, Login!TypeOK
  <2>2. Login!TypeOK'
    BY <2>1 DEF LoginInv, Login!TypeOK
  <2>3. Login!Level(limitNow)' = Login!Smaller(Login!Full, Login!Level(limitNow) + Capacity)
        /\ Login!Level(limitNow) \in 0..Login!Full
    BY <2>1, LevelAfterTick DEF Login!Level
  <2>4. ASSUME NEW from \in 0..limitNow'
        PROVE  Cardinality(LetThrough(from))' * Login!Scale + Login!Level(limitNow)'
                 <= Login!Full + (limitNow' - from) * Capacity
    <3>1. LetThrough(from)' = LetThrough(from)
      BY <2>1 DEF LetThrough
    <3>2. CASE from = limitNow + 1
      <4>1. LetThrough(from) = {} /\ (limitNow' - from) * Capacity = 0
        BY <2>1, <3>2, LimitBounds DEF LetThrough, LoginInv, Login!TypeOK
      <4> QED
        BY <2>3, <3>1, <4>1, FS_EmptySet, Quantities, LimitBounds DEF Login!Smaller
    <3>3. CASE from \in 0..limitNow
      <4>1. Cardinality(LetThrough(from)) * Login!Scale + Login!Level(limitNow)
               <= Login!Full + (limitNow - from) * Capacity
        BY <3>3 DEF LoginInv
      <4>2. (limitNow' - from) * Capacity = (limitNow - from) * Capacity + Capacity
            /\ limitNow - from \in Nat
        BY <2>1, <3>3, LimitBounds
      <4>3. (limitNow - from) * Capacity \in Nat /\ Cardinality(LetThrough(from)) * Login!Scale \in Nat
        BY <4>2, LimitBounds, LetThroughIsFinite, Quantities, Products
      <4> QED
        BY <2>3, <3>1, <4>1, <4>2, <4>3, Quantities, LimitBounds DEF Login!Smaller
    <3> QED
      BY <2>1, <3>2, <3>3
  <2>5. promise # Login!NoPromise => promise.at \in Nat
    BY LimitBounds DEF LoginInv, Login!TypeOK
  <2>6. bucket # Login!NoKey => bucket.updated \in Nat
    BY LimitBounds DEF LoginInv, Login!TypeOK, Login!Bucket
  <2>7. \A l \in Attempts : sent[l] \in Nat
    BY LimitBounds DEF LoginInv, Login!TypeOK
  <2>8. LoginInv'
    BY <2>1, <2>2, <2>4, <2>5, <2>6, <2>7, Quantities DEF LoginInv
  <2> QED
    BY <2>3, <2>8, Quantities DEF Login!KeepsQuota, Login!Quota!Next, Login!Quota!Refill,
       Login!Quota!Least, Login!Smaller
<1>8. CASE UNCHANGED Login!vars
  <2>1. LoginInv'
    BY <1>8 DEF Login!vars, LoginInv, Login!TypeOK, Login!Level, LetThrough
  <2> QED
    BY <1>8, <2>1 DEF Login!vars, Login!KeepsQuota, Login!Level
<1> QED
  BY <1>2, <1>3, <1>4, <1>5, <1>6, <1>7, <1>8 DEF Login!Next

(* Both modules count with the same Cardinality. *)
LEMMA SameCount == ASSUME NEW S PROVE Login!Cardinality(S) = Cardinality(S)
BY DEF Login!Cardinality, Cardinality

LEMMA BucketHolds == LoginInv => Login!PassedBounded /\ Login!RetryIsExact
<1> SUFFICES ASSUME LoginInv PROVE Login!PassedBounded /\ Login!RetryIsExact
  OBVIOUS
<1>1. limitNow \in Nat /\ Login!Level(limitNow) \in Nat
  BY LevelIs, LimitBounds, Quantities DEF LoginInv, Login!TypeOK
<1>2. Login!PassedBounded
  <2> DEFINE Passed(from) == {l \in Attempts : limitPc[l] = "passed" /\ sent[l] >= from}
  <2> SUFFICES \A from \in 0..limitNow :
                 Cardinality(Passed(from)) * Login!Scale <= Login!Full + (limitNow - from) * Capacity
    BY SameCount DEF Login!PassedBounded
  <2> SUFFICES ASSUME NEW from \in 0..limitNow
               PROVE  Cardinality(Passed(from)) * Login!Scale <= Login!Full + (limitNow - from) * Capacity
    OBVIOUS
  <2> DEFINE P == Passed(from)
  <2>1. P \subseteq LetThrough(from)
    BY DEF LetThrough
  <2>2. Cardinality(P) \in Nat /\ Cardinality(P) <= Cardinality(LetThrough(from))
    BY <2>1, LetThroughIsFinite, FS_Subset, FS_CardinalityType
  <2>3. Cardinality(P) * Login!Scale <= Cardinality(LetThrough(from)) * Login!Scale
        /\ Cardinality(P) * Login!Scale \in Nat /\ Cardinality(LetThrough(from)) * Login!Scale \in Nat
    BY <2>2, LetThroughIsFinite, Products, Quantities
  <2>4. Cardinality(LetThrough(from)) * Login!Scale + Login!Level(limitNow)
           <= Login!Full + (limitNow - from) * Capacity
    BY DEF LoginInv
  <2>5. limitNow - from \in Nat
    BY <1>1
  <2>6. (limitNow - from) * Capacity \in Nat
    BY <2>5, LimitBounds, Products
  <2> HIDE DEF P
  <2>7. Cardinality(P) * Login!Scale <= Login!Full + (limitNow - from) * Capacity
    BY <1>1, <2>3, <2>4, <2>6, Quantities
  <2> QED
    BY <2>7 DEF P
<1>3. Login!RetryIsExact
  <2> SUFFICES ASSUME promise # Login!NoPromise
               PROVE  /\ limitNow >= promise.at + promise.wait * Unit => Login!Level(limitNow) >= Login!Scale
                      /\ limitNow <= promise.at + (promise.wait - 1) * Unit => Login!Level(limitNow) < Login!Scale
    BY DEF Login!RetryIsExact
  <2> DEFINE given == promise.at
             wait == promise.wait
  <2>1. given \in Nat /\ wait \in 1..Period /\ wait \in Nat /\ Period \in Nat
    BY LimitBounds DEF LoginInv, Login!TypeOK
  <2>2. CASE bucket = Login!NoKey
    <3>1. Login!Level(limitNow) = Login!Full /\ limitNow >= given + Login!Ttl
      BY <2>2 DEF LoginInv, Login!Level
    <3>2. (wait - 1) * Unit < Period * Unit
      <4>1. (wait - 1) * Unit <= (Period - 1) * Unit /\ (Period - 1) * Unit = Period * Unit - Unit
            /\ Period * Unit \in Nat /\ (wait - 1) * Unit \in Nat
        BY <2>1, LimitBounds, Products
      <4> QED
        BY <4>1, LimitBounds
    <3>3. (wait - 1) * Unit \in Nat
      BY <2>1, LimitBounds, Products
    <3> QED
      BY <1>1, <2>1, <3>1, <3>2, <3>3, Quantities
  <2>3. CASE bucket # Login!NoKey
    <3> DEFINE x == bucket.tokens
               m == limitNow - given
    <3>1. bucket.updated = given /\ x < Login!Scale /\ wait = Login!RetryAfter(x)
          /\ given <= limitNow
      BY <2>3 DEF LoginInv
    <3>2. x \in Nat
      BY <2>3, Quantities DEF LoginInv, Login!TypeOK, Login!Bucket
    <3>3. m \in Nat /\ m * Capacity \in Nat
      BY <1>1, <2>1, <3>1, LimitBounds, Products
    <3>4. Login!Level(limitNow) = Login!Smaller(Login!Full, x + m * Capacity)
      BY <2>3, <3>1 DEF Login!Level
    <3>5. /\ Login!Scale - x <= wait * Unit * Capacity
          /\ (wait - 1) * Unit * Capacity < Login!Scale - x
      BY <3>1, <3>2, WaitFits
    <3> HIDE DEF x
    <3>6. wait * Unit \in Nat /\ (wait - 1) * Unit \in Nat
      BY <2>1, LimitBounds, Products
    <3>7. ASSUME limitNow >= given + wait * Unit
          PROVE  Login!Level(limitNow) >= Login!Scale
      <4>1. wait * Unit <= m
        BY <1>1, <2>1, <3>6, <3>7
      <4>2. wait * Unit * Capacity <= m * Capacity /\ wait * Unit * Capacity \in Nat
        BY <3>3, <3>6, <4>1, LimitBounds, Products
      <4> QED
        BY <3>2, <3>3, <3>4, <3>5, <4>2, Quantities DEF Login!Smaller
    <3>8. ASSUME limitNow <= given + (wait - 1) * Unit
          PROVE  Login!Level(limitNow) < Login!Scale
      <4>1. m <= (wait - 1) * Unit
        BY <1>1, <2>1, <3>6, <3>8
      <4>2. m * Capacity <= (wait - 1) * Unit * Capacity /\ (wait - 1) * Unit * Capacity \in Nat
        BY <3>3, <3>6, <4>1, LimitBounds, Products
      <4> QED
        BY <3>2, <3>3, <3>4, <3>5, <4>2, Quantities DEF Login!Smaller
    <3> QED
      BY <3>7, <3>8
  <2> QED
    BY <2>2, <2>3
<1> QED
  BY <1>2, <1>3

-----------------------------------------------------------------------------
(* The response. *)
Body == {Response!Chunk, Response!Last}
Code == {200, 401, 404, 413, 422, 429, 500, 503}
Message == [part : {"start"}, code : Nat, format : {"json"}] \cup Body

Whole(w) == w # <<>> /\ w[Len(w)] = Response!Last
Entered == layer \in {"limit", "limiter", "app"}

HttpTypes ==
    /\ layer \in {"limit", "limiter", "app", "handlers", "safe", "metrics", "context", "errors", "server"}
    /\ exc \in Response!Exception \cup {"none", "cancelled"}
    /\ broken \in BOOLEAN
    /\ started \in SUBSET {"handlers", "safe", "errors"}
    /\ status \in Code
    /\ failures \in {0, 1}
    /\ wire \in Seq(Message) /\ Len(wire) <= MaxChunks + (IF layer = "app" THEN 1 ELSE 2)

(* Noted means sent, unless the send failed. *)
Noted ==
    /\ wire # <<>> => wire[1].code = status
    /\ started # {} => {"safe", "errors"} \subseteq started /\ (wire # <<>> \/ broken)
    /\ started = {} => ~broken /\ status = 500 /\ (layer # "server" => wire = <<>>)
    /\ wire # <<>> /\ status = 500 => failures = 1

(* Who has not noted a head may still answer, and will unless the request  *)
(* is cancelled.                                                           *)
Ways ==
    /\ layer \in {"limit", "limiter"} => started = {} /\ exc = "none"
    /\ layer = "app" => exc = "none" /\ ~broken /\ (wire # <<>> => wire[Len(wire)] # Response!Last)
    /\ layer \in {"app", "handlers"} => started = {} \/ "handlers" \in started
    /\ layer \in {"handlers", "safe"} => exc # "none"
    /\ layer \in {"metrics", "context"} /\ started = {} => exc = "cancelled"
    /\ layer = "errors" /\ started = {} => exc \in {"cancelled", "unexpected"}
    /\ ~Entered /\ exc = "none" => broken \/ Whole(wire)
    /\ layer = "server" /\ exc \in Response!Exception => failures = 1

(* What metrics and log were told is the status that was noted. *)
Told ==
    /\ counted = IF layer \in {"context", "errors", "server"} THEN <<status>> ELSE <<>>
    /\ IF layer \in {"errors", "server"}
       THEN /\ context = "caller"
            /\ \/ completed = <<status>>
               \/ completed = <<>> /\ "log" \in Faults /\ exc = "unexpected"
       ELSE context = "request" /\ completed = <<>>

ResponseInv == HttpTypes /\ Response!OneResponse /\ Noted /\ Ways /\ Told

LEMMA MessagesAre ==
  /\ \A m \in Body : m.part # "start" /\ ~Response!IsHead(m)
  /\ Response!Chunk # Response!Last
  /\ \A code \in Nat : LET m == Response!Start(code, "json")
                       IN  m \in Message /\ Response!IsHead(m) /\ m.code = code /\ m # Response!Last
                           /\ m.format = "json"
  BY DEF Body, Message, Response!Chunk, Response!Last, Response!Start, Response!IsHead

LEMMA CodesAre ==
  /\ \A e \in Response!Handled : Response!StatusOf(e) \in {401, 404, 422}
  /\ \A e \in Response!Exception : Response!StatusOf(e) \in {401, 404, 422, 500, 503}
  /\ Response!StatusOf("unexpected") = 500
  BY DEF Response!StatusOf, Response!Handled, Response!Exception, Response!Transient

LEMMA NotingIs ==
  /\ Response!Noting("app") = {"handlers", "safe", "errors"}
  /\ \A l \in {"limit", "limiter", "handlers", "safe"} : Response!Noting(l) = {"safe", "errors"}
  BY DEF Response!Noting

(* What leaves is a part of the messages from their beginning.             *)
LEMMA Leaves ==
  ASSUME NEW from, NEW to, NEW messages \in Seq(Message), wire \in Seq(Message), broken \in BOOLEAN,
         Response!Deliver(from, messages, to)
  PROVE  \E n \in 0..Len(messages) :
           /\ wire' \in Seq(Message) /\ Len(wire') = Len(wire) + n
           /\ \A i \in 1..Len(wire) : wire'[i] = wire[i]
           /\ \A i \in 1..n : wire'[Len(wire) + i] = messages[i]
           /\ \/ /\ n = Len(messages) /\ ~broken /\ broken' = broken /\ layer' = to /\ exc' = "none"
              \/ /\ n < Len(messages) /\ broken' /\ broken' \in BOOLEAN
                 /\ layer' = Response!Outer[from]
                 /\ exc' \in {"unexpected", "cancelled"}
<1>1. ASSUME NEW n \in 0..Len(messages), NEW p \in Seq(Message), Len(p) = n,
             \A i \in 1..n : p[i] = messages[i], wire' = wire \o p
      PROVE  /\ wire' \in Seq(Message) /\ Len(wire') = Len(wire) + n
             /\ \A i \in 1..Len(wire) : wire'[i] = wire[i]
             /\ \A i \in 1..n : wire'[Len(wire) + i] = messages[i]
  <2>1. wire' \in Seq(Message) /\ Len(wire') = Len(wire) + n
    BY <1>1, ConcatProperties
  <2>2. \A i \in 1..(Len(wire) + n) : wire'[i] = IF i <= Len(wire) THEN wire[i] ELSE p[i - Len(wire)]
    BY <1>1, ConcatProperties
  <2>3. ASSUME NEW i \in 1..n PROVE wire'[Len(wire) + i] = messages[i]
    <3>1. Len(wire) + i \in 1..(Len(wire) + n) /\ ~(Len(wire) + i <= Len(wire)) /\ Len(wire) + i - Len(wire) = i
      OBVIOUS
    <3> QED
      BY <1>1, <2>2, <3>1
  <2> QED
    BY <2>1, <2>2, <2>3
<1>2. CASE /\ ~broken
           /\ wire' = wire \o messages /\ layer' = to /\ exc' = "none" /\ UNCHANGED broken
  <2>1. Len(messages) \in 0..Len(messages)
    OBVIOUS
  <2> QED
    BY <1>1, <1>2, <2>1
<1>3. ASSUME NEW n \in 0..(Len(messages) - 1), NEW e \in {"unexpected", "cancelled"},
             broken' = TRUE, wire' = wire \o SubSeq(messages, 1, n),
             layer' = Response!Outer[from], exc' = e
      PROVE  \E k \in 0..Len(messages) :
           /\ wire' \in Seq(Message) /\ Len(wire') = Len(wire) + k
           /\ \A i \in 1..Len(wire) : wire'[i] = wire[i]
           /\ \A i \in 1..k : wire'[Len(wire) + i] = messages[i]
           /\ k < Len(messages) /\ broken' /\ broken' \in BOOLEAN
           /\ layer' = Response!Outer[from]
           /\ exc' \in {"unexpected", "cancelled"}
  <2>1. \A i \in 1..n : messages[i] \in Message
    OBVIOUS
  <2>2. /\ SubSeq(messages, 1, n) \in Seq(Message) /\ Len(SubSeq(messages, 1, n)) = n
        /\ \A i \in 1..n : SubSeq(messages, 1, n)[i] = messages[i]
    BY <1>3, <2>1, SubSeqProperties
  <2>3. n \in 0..Len(messages) /\ n < Len(messages)
    OBVIOUS
  <2> QED
    BY <1>1, <1>3, <2>2, <2>3
<1> QED
  BY <1>2, <1>3 DEF Response!Deliver

Answers == {"limit", "limiter", "app", "handlers", "safe"}
(* A layer that answers where none has: its status is noted, and what      *)
(* leaves is a response, its head, or nothing.                             *)
LEMMA HeadLeaves ==
  ASSUME ResponseInv, started = {}, layer # "server", NEW from \in Answers, NEW to, NEW code \in Code,
         NEW messages \in {Response!Response(code), <<Response!Start(code, "json")>>},
         Response!Deliver(from, messages, to)
  PROVE  /\ started' = Response!Noting(from) /\ status' = code
         /\ wire' \in Seq(Message) /\ Len(wire') <= Len(messages)
         /\ Response!OneResponse'
         /\ wire' # <<>> => wire'[1].code = code
         /\ \/ /\ broken' = FALSE /\ layer' = to /\ exc' = "none" /\ wire' # <<>>
               /\ messages = Response!Response(code) => Whole(wire')
               /\ messages # Response!Response(code) => wire'[Len(wire')] # Response!Last
            \/ /\ broken' = TRUE /\ layer' = Response!Outer[from]
               /\ exc' \in {"unexpected", "cancelled"}
<1> DEFINE head == Response!Start(code, "json")
<1>1. /\ head \in Message /\ Response!IsHead(head) /\ head.code = code /\ head # Response!Last
      /\ head.format = "json"
  BY MessagesAre DEF Code
<1>2. Response!Last \in Message /\ ~Response!IsHead(Response!Last)
  BY MessagesAre DEF Body, Message
<1>3. messages \in {<<head, Response!Last>>, <<head>>} /\ <<head, Response!Last>> # <<head>>
      /\ Response!Response(code) = <<head, Response!Last>>
  BY DEF Response!Response
<1> HIDE DEF head
<1>4. messages \in Seq(Message) /\ messages[1] = head /\ Len(messages) \in {1, 2}
      /\ (Len(messages) = 2 => messages[2] = Response!Last /\ messages = Response!Response(code))
      /\ (Len(messages) = 1 => messages # Response!Response(code))
  <2> DEFINE last == Response!Last
  <2> HIDE DEF last
  <2>1. /\ <<head, last>> \in Seq(Message) /\ <<head, last>>[1] = head /\ <<head, last>>[2] = last
        /\ Len(<<head, last>>) = 2 /\ <<head>> \in Seq(Message) /\ <<head>>[1] = head /\ Len(<<head>>) = 1
    BY <1>1, <1>2 DEF last
  <2>2. CASE messages = <<head, last>>
    BY <1>3, <2>1, <2>2 DEF last
  <2>3. CASE messages = <<head>>
    BY <1>3, <2>1, <2>3 DEF last
  <2> QED
    BY <1>3, <2>2, <2>3 DEF last
<1>5. started' = Response!Noting(from) /\ status' = code
  BY <1>1, <1>4 DEF Response!Deliver, ResponseInv, HttpTypes, Noted, Ways, Told
<1>6. wire = <<>> /\ broken = FALSE /\ wire \in Seq(Message)
  BY DEF ResponseInv, HttpTypes, Noted, Ways, Told
<1>7. PICK n \in 0..Len(messages) :
           /\ wire' \in Seq(Message) /\ Len(wire') = Len(wire) + n
           /\ \A i \in 1..n : wire'[Len(wire) + i] = messages[i]
           /\ \/ /\ n = Len(messages) /\ ~broken /\ broken' = broken /\ layer' = to /\ exc' = "none"
              \/ /\ n < Len(messages) /\ broken' /\ broken' \in BOOLEAN
                 /\ layer' = Response!Outer[from]
                 /\ exc' \in {"unexpected", "cancelled"}
  BY <1>4, <1>6, Leaves, ZenonT(60)
<1>8. Len(wire') = n /\ n <= 2 /\ (n >= 1 => wire'[1] = head) /\ (n >= 2 => wire'[2] = Response!Last)
  BY <1>4, <1>6, <1>7
<1>9. Response!OneResponse'
  BY <1>1, <1>2, <1>7, <1>8 DEF Response!OneResponse
<1>10. wire' # <<>> <=> n >= 1
  BY <1>7, <1>8
<1>11. CASE n = Len(messages)
  BY <1>1, <1>4, <1>5, <1>6, <1>7, <1>8, <1>9, <1>10, <1>11 DEF Whole
<1>12. CASE n # Len(messages)
  BY <1>1, <1>4, <1>5, <1>6, <1>7, <1>8, <1>9, <1>10, <1>12
<1> QED
  BY <1>11, <1>12

(* The body after a head. *)
LEMMA BodyLeaves ==
  ASSUME ResponseInv, layer = "app", started # {}, NEW m \in Body, NEW to,
         Response!Deliver("app", <<m>>, to)
  PROVE  /\ started' = started /\ status' = status
         /\ wire' \in Seq(Message) /\ wire' # <<>> /\ wire'[1] = wire[1]
         /\ Response!OneResponse'
         /\ \/ /\ broken' = FALSE /\ layer' = to /\ exc' = "none"
               /\ Len(wire') = Len(wire) + 1 /\ wire'[Len(wire')] = m
            \/ /\ broken' = TRUE /\ layer' = "handlers" /\ Len(wire') = Len(wire)
               /\ exc' \in {"unexpected", "cancelled"}
<1>1. m \in Message /\ ~Response!IsHead(m) /\ <<m>> \in Seq(Message) /\ Len(<<m>>) = 1 /\ <<m>>[1] = m
  BY MessagesAre DEF Message
<1>2. started' = started /\ status' = status
  BY <1>1 DEF Response!Deliver
<1>3. wire \in Seq(Message) /\ wire # <<>> /\ broken = FALSE /\ wire[Len(wire)] # Response!Last
  BY DEF ResponseInv, HttpTypes, Noted, Ways, Told
<1>4. PICK n \in 0..Len(<<m>>) :
           /\ wire' \in Seq(Message) /\ Len(wire') = Len(wire) + n
           /\ \A i \in 1..Len(wire) : wire'[i] = wire[i]
           /\ \A i \in 1..n : wire'[Len(wire) + i] = <<m>>[i]
           /\ \/ /\ n = Len(<<m>>) /\ ~broken /\ broken' = broken /\ layer' = to /\ exc' = "none"
              \/ /\ n < Len(<<m>>) /\ broken' /\ broken' \in BOOLEAN
                 /\ layer' = Response!Outer["app"]
                 /\ exc' \in {"unexpected", "cancelled"}
  BY <1>1, <1>3, Leaves
<1>5. Len(wire) \in Nat /\ Len(wire) >= 1 /\ n \in {0, 1}
  BY <1>1, <1>3, <1>4
<1>6. /\ Len(wire') = Len(wire) + n
      /\ \A i \in 1..Len(wire) : wire'[i] = wire[i]
      /\ n = 1 => wire'[Len(wire) + 1] = m
  BY <1>1, <1>4, <1>5
<1>7. wire' # <<>> /\ wire'[1] = wire[1]
  BY <1>4, <1>5, <1>6
<1>8. Response!OneResponse'
  <2>1. \A i \in 1..Len(wire) :
          /\ Response!IsHead(wire[i]) <=> i = 1
          /\ Response!IsHead(wire[i]) => wire[i].format = "json"
          /\ wire[i] # Response!Last
    BY <1>3, <1>5 DEF ResponseInv, HttpTypes, Noted, Ways, Told, Response!OneResponse
  <2>2. ASSUME NEW i \in 1..Len(wire')
        PROVE  /\ Response!IsHead(wire'[i]) <=> i = 1
               /\ Response!IsHead(wire'[i]) => wire'[i].format = "json"
               /\ wire'[i] = Response!Last => i = Len(wire')
    <3>1. CASE i \in 1..Len(wire)
      <4>1. wire'[i] = wire[i]
        BY <1>6, <3>1
      <4> QED
        BY <1>5, <2>1, <3>1, <4>1 DEF Response!IsHead
    <3>2. CASE i \notin 1..Len(wire)
      <4>1. n = 1 /\ i = Len(wire) + 1
        BY <1>5, <1>6, <3>2
      <4>2. wire'[i] = m /\ i # 1 /\ i = Len(wire')
        BY <1>5, <1>6, <4>1
      <4> QED
        BY <1>1, <4>2 DEF Response!IsHead
    <3> QED
      BY <3>1, <3>2
  <2>3. DOMAIN wire' = 1..Len(wire')
    BY <1>4
  <2> QED
    BY <2>2, <2>3 DEF Response!OneResponse
<1>9. Response!Outer["app"] = "handlers"
  BY DEF Response!Outer
<1> QED
  BY <1>1, <1>2, <1>3, <1>4, <1>5, <1>6, <1>7, <1>8, <1>9

LEMMA LayersAre ==
  /\ DOMAIN Response!Outer = {"limit", "limiter", "app", "handlers", "safe", "metrics", "context", "errors"}
  /\ Response!Outer["limit"] = "safe" /\ Response!Outer["limiter"] = "safe"
  /\ Response!Outer["app"] = "handlers" /\ Response!Outer["handlers"] = "safe"
  /\ Response!Outer["safe"] = "metrics"
  BY DEF Response!Outer

LEMMA ResponseInit == Response!Init => ResponseInv
<1> SUFFICES ASSUME Response!Init PROVE ResponseInv
  OBVIOUS
<1>1. Response!OneResponse
  BY DEF Response!Init, Response!OneResponse
<1>2. HttpTypes
  <2>1. wire \in Seq(Message) /\ Len(wire) = 0 /\ layer = "limit"
    BY DEF Response!Init
  <2>2. wire \in Seq(Message) /\ Len(wire) <= MaxChunks + (IF layer = "app" THEN 1 ELSE 2)
    BY <2>1, ResponseBounds
  <2>3. /\ layer \in {"limit", "limiter", "app", "handlers", "safe", "metrics", "context", "errors", "server"}
        /\ exc \in Response!Exception \cup {"none", "cancelled"}
        /\ broken \in BOOLEAN
        /\ started \in SUBSET {"handlers", "safe", "errors"}
        /\ status \in Code
        /\ failures \in {0, 1}
    BY ZenonT(60) DEF Response!Init, Response!Unsent, Code
  <2> QED
    BY <2>2, <2>3 DEF HttpTypes
<1>3. Noted /\ Ways /\ Told
  BY DEF Response!Init, Noted, Ways, Told, Response!Unsent, Entered
<1> QED
  BY <1>1, <1>2, <1>3 DEF ResponseInv

(* A layer answers for the route. *)
LEMMA AnswerStep ==
  ASSUME ResponseInv, started = {}, NEW from \in {"limit", "limiter", "handlers", "safe"}, layer = from,
         NEW code \in Code, Response!Deliver(from, Response!Response(code), "metrics"),
         UNCHANGED <<counted, completed, context>>, failures' \in {0, 1}, code = 500 => failures' = 1
  PROVE  ResponseInv'
<1>1. /\ started' = {"safe", "errors"} /\ status' = code
      /\ wire' \in Seq(Message) /\ Len(wire') <= Len(Response!Response(code))
      /\ Response!OneResponse'
      /\ wire' # <<>> => wire'[1].code = code
      /\ \/ broken' = FALSE /\ layer' = "metrics" /\ exc' = "none" /\ wire' # <<>> /\ Whole(wire')
         \/ /\ broken' = TRUE /\ layer' = Response!Outer[from]
            /\ exc' \in {"unexpected", "cancelled"}
  <2>1. from \in Answers /\ layer # "server" /\ Response!Noting(from) = {"safe", "errors"}
    BY NotingIs DEF Answers
  <2>2. Response!Response(code) \in {Response!Response(code), <<Response!Start(code, "json")>>}
    OBVIOUS
  <2> HIDE DEF Message
  <2> QED
    BY <2>1, <2>2, HeadLeaves
<1>2. layer' \in {"safe", "metrics"}
  BY <1>1, LayersAre
<1>3. Len(Response!Response(code)) = 2
  BY DEF Response!Response
<1>4. Len(wire') \in Nat /\ Len(wire') <= MaxChunks + 2
  BY <1>1, <1>3, ResponseBounds
<1>5. counted' = <<>> /\ completed' = <<>> /\ context' = "request"
  BY DEF ResponseInv, HttpTypes, Noted, Ways, Told
<1>6. exc' \in Response!Exception \cup {"none", "cancelled"}
  BY <1>1 DEF Response!Exception
<1> HIDE DEF Message
<1>7. HttpTypes'
  BY <1>1, <1>2, <1>4, <1>6 DEF HttpTypes
<1>8. Noted'
  BY <1>1 DEF Noted
<1>9. Ways'
  BY <1>1, <1>2 DEF Ways, Entered
<1>10. Told'
  BY <1>2, <1>5 DEF Told
<1> QED
  BY <1>1, <1>7, <1>8, <1>9, <1>10 DEF ResponseInv

(* Nothing is sent, and the request leaves for an outer layer. *)
LEMMA SilentStep ==
  ASSUME ResponseInv, UNCHANGED <<started, wire, broken, status>>, UNCHANGED <<counted, completed, context>>,
         failures' = failures \/ failures' = 1,
         exc' \in Response!Exception \cup {"cancelled"}, layer # "server",
         \/ layer \in {"limit", "limiter"} /\ layer' = "safe"
         \/ layer = "app" /\ layer' = "handlers"
         \/ layer = "handlers" /\ layer' = "safe"
         \/ layer = "safe" /\ layer' = "metrics" /\ (started = {} => exc' = "cancelled")
  PROVE  ResponseInv'
<1>1. Response!OneResponse'
  BY DEF ResponseInv, HttpTypes, Noted, Ways, Told, Response!OneResponse
<1>2. exc' # "none"
  BY DEF Response!Exception, Response!Handled, Response!Transient
<1>3. Len(wire) <= MaxChunks + 2 /\ failures' \in {0, 1}
  <2>1. Len(wire) \in Nat
    BY DEF ResponseInv, HttpTypes, Noted, Ways, Told
  <2> QED
    BY <2>1, ResponseBounds DEF ResponseInv, HttpTypes, Noted, Ways, Told
<1> HIDE DEF Message
<1>4. HttpTypes'
  BY <1>3 DEF ResponseInv, HttpTypes
<1>5. Noted'
  BY <1>3 DEF ResponseInv, HttpTypes, Noted
<1>6. Ways'
  BY <1>2 DEF ResponseInv, HttpTypes, Noted, Ways, Entered
<1>7. Told'
  BY DEF ResponseInv, Told
<1> QED
  BY <1>1, <1>4, <1>5, <1>6, <1>7 DEF ResponseInv

LEMMA ResponseStep == ResponseInv /\ [Response!Next]_(Response!vars) => ResponseInv'
<1> SUFFICES ASSUME ResponseInv, [Response!Next]_(Response!vars) PROVE ResponseInv'
  OBVIOUS
<1> USE DEF Response!sendVars, Response!endVars
<1> HIDE DEF Message
<1>1. CASE Response!Limit
  <2>1. CASE Response!Deliver("limit", Response!Replaced(<<Response!Start(413, "plain"), Response!Last>>), "metrics")
    <3>1. Response!Replaced(<<Response!Start(413, "plain"), Response!Last>>) = Response!Response(413)
      BY DEF Response!Replaced
    <3> QED
      BY <1>1, <2>1, <3>1, AnswerStep DEF Response!Limit, ResponseInv, HttpTypes, Noted, Ways, Told, Code
  <2>2. CASE layer' = "limiter" /\ UNCHANGED <<exc, Response!sendVars>>
    BY <1>1, <2>2 DEF Response!Limit, ResponseInv, HttpTypes, Noted, Ways, Told, Entered, Whole, Response!OneResponse
  <2> QED
    BY <1>1, <2>1, <2>2 DEF Response!Limit
<1>2. CASE Response!Limiter
  <2>1. ASSUME NEW code \in {429, 503}, Response!Deliver("limiter", Response!Response(code), "metrics")
        PROVE  ResponseInv'
    BY <1>2, <2>1, AnswerStep DEF Response!Limiter, ResponseInv, HttpTypes, Noted, Ways, Told, Code
  <2>2. CASE layer' = "app" /\ UNCHANGED <<exc, Response!sendVars>>
    <3>1. wire = <<>> /\ wire' = <<>> /\ Len(wire') = 0
      BY <1>2, <2>2 DEF Response!Limiter, ResponseInv, HttpTypes, Noted, Ways, Told
    <3> QED
      BY <1>2, <2>2, <3>1, LayersAre, ResponseBounds
      DEF Response!Limiter, ResponseInv, HttpTypes, Noted, Ways, Told, Entered, Whole, Response!OneResponse
  <2> QED
    BY <1>2, <2>1, <2>2 DEF Response!Limiter
<1>3. CASE Response!Route
  <2>1. layer = "app" /\ counted' = <<>> /\ completed' = <<>> /\ context' = "request" /\ failures' = failures
    BY <1>3 DEF Response!Route, ResponseInv, HttpTypes, Noted, Ways, Told
  <2>2. CASE started = {}
    <3>1. Response!Deliver("app", <<Response!Start(200, "json")>>, "app")
      BY <1>3, <2>2 DEF Response!Route
    <3>2. <<Response!Start(200, "json")>> # Response!Response(200)
          /\ Len(<<Response!Start(200, "json")>>) = 1
      BY DEF Response!Response
    <3>3. /\ started' = {"handlers", "safe", "errors"} /\ status' = 200
          /\ wire' \in Seq(Message) /\ Len(wire') <= 1
          /\ Response!OneResponse'
          /\ wire' # <<>> => wire'[1].code = 200
          /\ \/ /\ broken' = FALSE /\ layer' = "app" /\ exc' = "none" /\ wire' # <<>>
                /\ wire'[Len(wire')] # Response!Last
             \/ /\ broken' = TRUE /\ layer' = "handlers"
                /\ exc' \in {"unexpected", "cancelled"}
      <4>1. "app" \in Answers /\ 200 \in Code /\ layer # "server"
        BY <2>1 DEF Answers, Code
      <4>2. Response!Noting("app") = {"handlers", "safe", "errors"} /\ Response!Outer["app"] = "handlers"
        BY NotingIs, LayersAre
      <4> DEFINE messages == <<Response!Start(200, "json")>>
      <4> HIDE DEF messages
      <4>3. messages \in {Response!Response(200), <<Response!Start(200, "json")>>}
            /\ Response!Deliver("app", messages, "app")
            /\ messages # Response!Response(200) /\ Len(messages) = 1
        BY <3>1, <3>2 DEF messages
      <4>4. /\ started' = Response!Noting("app") /\ status' = 200
            /\ wire' \in Seq(Message) /\ Len(wire') <= Len(messages)
            /\ Response!OneResponse'
            /\ wire' # <<>> => wire'[1].code = 200
            /\ \/ /\ broken' = FALSE /\ layer' = "app" /\ exc' = "none" /\ wire' # <<>>
                  /\ messages = Response!Response(200) => Whole(wire')
                  /\ messages # Response!Response(200) => wire'[Len(wire')] # Response!Last
               \/ /\ broken' = TRUE /\ layer' = Response!Outer["app"]
                  /\ exc' \in {"unexpected", "cancelled"}
        BY <2>2, <4>1, <4>3, HeadLeaves, ZenonT(60)
      <4> QED
        BY <4>2, <4>3, <4>4
    <3>4. Len(wire') \in Nat /\ Len(wire') <= MaxChunks + 1 /\ Len(wire') <= MaxChunks + 2
      BY <3>3, ResponseBounds
    <3>5. exc' \in Response!Exception \cup {"none", "cancelled"}
      BY <3>3 DEF Response!Exception
    <3>6. HttpTypes'
      BY <2>1, <3>3, <3>4, <3>5, ZenonT(60) DEF ResponseInv, HttpTypes, Code
    <3>7. Noted' /\ Ways' /\ Told'
      BY <2>1, <3>3 DEF Noted, Ways, Told, Entered
    <3> QED
      BY <3>3, <3>6, <3>7 DEF ResponseInv
  <2>3. CASE started # {}
    <3>1. PICK m \in Body, to \in {"app", "metrics"} :
            /\ Response!Deliver("app", <<m>>, to)
            /\ \/ m = Response!Chunk /\ to = "app" /\ Len(wire) <= MaxChunks
               \/ m = Response!Last /\ to = "metrics"
      BY <1>3, <2>3 DEF Response!Route, Body
    <3>2. /\ started' = started /\ status' = status
          /\ wire' \in Seq(Message) /\ wire' # <<>> /\ wire'[1] = wire[1]
          /\ Response!OneResponse'
          /\ \/ /\ broken' = FALSE /\ layer' = to /\ exc' = "none"
                /\ Len(wire') = Len(wire) + 1 /\ wire'[Len(wire')] = m
             \/ /\ broken' = TRUE /\ layer' = "handlers" /\ Len(wire') = Len(wire)
                /\ exc' \in {"unexpected", "cancelled"}
      BY <2>1, <2>3, <3>1, BodyLeaves
    <3>3. Len(wire) \in Nat /\ Len(wire) <= MaxChunks + 1 /\ wire # <<>>
      BY <2>1, <2>3, ResponseBounds DEF ResponseInv, HttpTypes, Noted, Ways, Told
    <3>4. Len(wire') <= MaxChunks + (IF layer' = "app" THEN 1 ELSE 2)
      BY <3>1, <3>2, <3>3, ResponseBounds
    <3>5. exc' \in Response!Exception \cup {"none", "cancelled"}
      BY <3>2 DEF Response!Exception
    <3>6. m = Response!Chunk => m # Response!Last
      BY MessagesAre
    <3>8. HttpTypes'
      BY <2>1, <3>1, <3>2, <3>4, <3>5 DEF ResponseInv, HttpTypes
    <3>9. Noted'
      BY <2>1, <2>3, <3>2, <3>3 DEF ResponseInv, Noted
    <3>10. Ways'
      BY <2>1, <2>3, <3>1, <3>2, <3>6 DEF ResponseInv, Ways, Entered, Whole
    <3>11. Told'
      BY <2>1, <3>1, <3>2 DEF Told
    <3> QED
      BY <3>2, <3>8, <3>9, <3>10, <3>11 DEF ResponseInv
  <2> QED
    BY <2>2, <2>3
<1>4. CASE Response!Raise
  <2>1. exc' \in Response!Exception \cup {"cancelled"}
    BY <1>4 DEF Response!Raise
  <2> QED
    BY <1>4, <2>1, SilentStep, LayersAre DEF Response!Raise
<1>5. CASE Response!Handlers
  <2>1. CASE exc \in Response!Handled /\ "handlers" \notin started
    <3>1. started = {} /\ Response!StatusOf(exc) \in {401, 404, 422} /\ layer = "handlers"
      BY <1>5, <2>1, CodesAre DEF ResponseInv, HttpTypes, Noted, Ways, Told, Response!Handlers
    <3>2. Response!Deliver("handlers", Response!Response(Response!StatusOf(exc)), "metrics")
      BY <1>5, <2>1 DEF Response!Handlers
    <3>3. failures' \in {0, 1} /\ UNCHANGED <<counted, completed, context>>
      BY <1>5 DEF Response!Handlers, ResponseInv, HttpTypes, Noted, Ways, Told
    <3> QED
      BY <3>1, <3>2, <3>3, AnswerStep DEF Code
  <2>2. CASE ~(exc \in Response!Handled /\ "handlers" \notin started)
    <3>1. exc' \in Response!Exception \cup {"cancelled"}
      BY <1>5, <2>2 DEF Response!Handlers, ResponseInv, HttpTypes, Noted, Ways, Told, Response!Exception
    <3> QED
      BY <1>5, <2>2, <3>1, SilentStep DEF Response!Handlers
  <2> QED
    BY <2>1, <2>2
<1>6. CASE Response!Safe
  <2>1. failures' \in {0, 1} /\ (exc # "cancelled" => failures' = 1) /\ (failures' = failures \/ failures' = 1)
        /\ UNCHANGED <<counted, completed, context>> /\ layer = "safe"
    BY <1>6 DEF Response!Safe, Response!LogFailure, ResponseInv, HttpTypes, Noted, Ways, Told
  <2>2. CASE exc = "cancelled" \/ "safe" \in started
    <3>1. exc' \in Response!Exception \cup {"cancelled"}
      BY <1>6, <2>2 DEF Response!Safe, ResponseInv, HttpTypes, Noted, Ways, Told
    <3>2. started = {} => exc' = "cancelled"
      BY <1>6, <2>2 DEF Response!Safe
    <3> QED
      BY <1>6, <2>1, <2>2, <3>1, <3>2, SilentStep DEF Response!Safe
  <2>3. CASE ~(exc = "cancelled" \/ "safe" \in started)
    <3>1. started = {} /\ exc \in Response!Exception
      BY <2>1, <2>3 DEF ResponseInv, HttpTypes, Noted, Ways, Told
    <3>2. Response!StatusOf(exc) \in Code
      BY <3>1, CodesAre DEF Code
    <3>3. Response!Deliver("safe", Response!Response(Response!StatusOf(exc)), "metrics")
      BY <1>6, <2>3 DEF Response!Safe
    <3> QED
      BY <2>1, <2>3, <3>1, <3>2, <3>3, AnswerStep
  <2> QED
    BY <2>2, <2>3
<1>7. CASE Response!Metrics
  <2>1. counted' = <<status>>
    BY <1>7 DEF Response!Metrics, ResponseInv, HttpTypes, Noted, Ways, Told
  <2> QED
    BY <1>7, <2>1 DEF Response!Metrics, ResponseInv, HttpTypes, Noted, Ways, Told, Entered, Whole, Response!OneResponse
<1>8. CASE Response!Context
  <2>1. /\ \/ completed' = <<status>> /\ exc' = exc
           \/ completed' = <<>> /\ "log" \in Faults /\ exc' = "unexpected"
        /\ counted = <<status>> /\ counted' = counted
    BY <1>8 DEF Response!Context, ResponseInv, HttpTypes, Noted, Ways, Told
  <2>2. "unexpected" \in Response!Exception
    BY DEF Response!Exception
  <2> QED
    BY <1>8, <2>1, <2>2 DEF Response!Context, ResponseInv, HttpTypes, Noted, Ways, Told, Entered, Whole, Response!OneResponse
<1>9. CASE Response!Errors
  <2>1. CASE started = {} /\ exc \notin {"none", "cancelled"}
    <3>1. wire = <<>> /\ exc = "unexpected" /\ ~broken /\ status = 500
      BY <1>9, <2>1 DEF Response!Errors, ResponseInv, HttpTypes, Noted, Ways, Told
    <3>2. wire' = <<>> \o Response!Response(500) /\ UNCHANGED <<started, broken, status>>
      BY <1>9, <2>1, <3>1, CodesAre DEF Response!Errors
    <3> DEFINE head == Response!Start(500, "json")
               last == Response!Last
    <3>3. head \in Message /\ last \in Message /\ Response!IsHead(head) /\ ~Response!IsHead(last)
          /\ head.format = "json" /\ head.code = 500 /\ head # last
      BY MessagesAre DEF Message, Body
    <3>4. wire' = <<>> \o <<head, last>>
      BY <3>2 DEF Response!Response
    <3> HIDE DEF head, last
    <3>5. wire' = <<head, last>>
      BY <3>4
    <3>6. wire' \in Seq(Message) /\ Len(wire') = 2 /\ wire' # <<>> /\ wire'[1] = head /\ wire'[2] = last
      BY <3>3, <3>5
    <3>7. Response!OneResponse'
      BY <3>3, <3>6 DEF Response!OneResponse, last, Response!IsHead
    <3>8. failures' = 1
      BY <1>9, <2>1 DEF Response!Errors, Response!LogFailure, ResponseInv, HttpTypes, Noted, Ways, Told
    <3>9. layer' = "server" /\ UNCHANGED <<exc, counted, completed, context>> /\ layer = "errors"
      BY <1>9 DEF Response!Errors
    <3>10. HttpTypes'
      <4>1. Len(wire') <= MaxChunks + (IF layer' = "app" THEN 1 ELSE 2)
        BY <3>6, <3>9, ResponseBounds
      <4> QED
        BY <3>2, <3>6, <3>8, <3>9, <4>1 DEF ResponseInv, HttpTypes
    <3>11. Noted'
      BY <2>1, <3>1, <3>2, <3>3, <3>6, <3>8, <3>9 DEF Noted
    <3>12. Ways'
      BY <3>1, <3>8, <3>9 DEF Ways, Entered
    <3>13. Told'
      BY <3>2, <3>9 DEF ResponseInv, Told
    <3> QED
      BY <3>7, <3>10, <3>11, <3>12, <3>13 DEF ResponseInv
  <2>2. CASE ~(started = {} /\ exc \notin {"none", "cancelled"})
    <3>1. UNCHANGED <<started, wire, broken, status, exc, counted, completed, context>>
      BY <1>9, <2>2 DEF Response!Errors, ResponseInv, HttpTypes, Noted, Ways, Told
    <3>2. failures' \in {0, 1} /\ (exc \notin {"none", "cancelled"} => failures' = 1)
          /\ (failures = 1 => failures' = 1)
      BY <1>9 DEF Response!Errors, Response!LogFailure, ResponseInv, HttpTypes, Noted, Ways, Told
    <3>3. exc \in Response!Exception => exc \notin {"none", "cancelled"}
      BY DEF Response!Exception, Response!Handled, Response!Transient
    <3> QED
      BY <1>9, <2>2, <3>1, <3>2, <3>3, LayersAre
      DEF Response!Errors, ResponseInv, HttpTypes, Noted, Ways, Told, Entered, Whole, Response!OneResponse
  <2> QED
    BY <2>1, <2>2
<1>10. CASE UNCHANGED Response!vars
  BY <1>10 DEF Response!vars, ResponseInv, HttpTypes, Noted, Ways, Told, Entered, Whole, Response!OneResponse
<1> QED
  BY <1>1, <1>2, <1>3, <1>4, <1>5, <1>6, <1>7, <1>8, <1>9, <1>10 DEF Response!Next

LEMMA ResponseHolds ==
  ResponseInv => /\ Response!TypeOK
                 /\ Response!OneResponse /\ Response!Answered
                 /\ Response!StatusIsSent
                 /\ Response!FailureLoggedOnce /\ Response!Finished
<1> SUFFICES ASSUME ResponseInv
             PROVE  /\ Response!TypeOK
                    /\ Response!OneResponse /\ Response!Answered
                    /\ Response!StatusIsSent
                    /\ Response!FailureLoggedOnce /\ Response!Finished
  OBVIOUS
<1>1. /\ counted = <<>> \/ counted = <<status>>
      /\ completed = <<>> \/ completed = <<status>>
  BY DEF ResponseInv, HttpTypes, Noted, Ways, Told
<1>2. Response!TypeOK
  <2>1. Len(wire) \in Nat /\ Len(wire) <= MaxChunks + 2
    BY ResponseBounds DEF ResponseInv, HttpTypes, Noted, Ways, Told
  <2>2. Len(counted) <= 1 /\ Len(completed) <= 1
    <3>1. ASSUME NEW s, s = <<>> PROVE Len(s) <= 1
      BY <3>1
    <3>2. ASSUME NEW s, s = <<status>> PROVE Len(s) <= 1
      BY <3>2
    <3> QED
      BY <1>1, <3>1, <3>2
  <2>3. /\ layer \in DOMAIN Response!Outer \cup {"server"}
        /\ context \in {"caller", "request"}
        /\ failures \in Nat
    BY LayersAre DEF ResponseInv, HttpTypes, Told
  <2> QED
    BY <2>1, <2>2, <2>3 DEF ResponseInv, HttpTypes, Response!TypeOK, Code
<1>3. Response!StatusIsSent
  BY <1>1 DEF ResponseInv, HttpTypes, Noted, Ways, Told, Response!StatusIsSent
<1>4. Response!FailureLoggedOnce
  BY DEF ResponseInv, HttpTypes, Noted, Ways, Told, Response!FailureLoggedOnce, Response!Over
<1>5. Response!Finished
  <2> SUFFICES ASSUME layer = "server" PROVE /\ Len(counted) = 1 /\ context = "caller"
                                             /\ completed = <<>> => "log" \in Faults /\ exc = "unexpected"
    BY DEF Response!Finished, Response!Over
  <2>1. counted = <<status>> /\ <<status>> # <<>>
    BY DEF ResponseInv, Told
  <2> QED
    BY <2>1 DEF ResponseInv, Told
<1>6. Response!Answered
  BY DEF ResponseInv, HttpTypes, Noted, Ways, Told, Response!Answered, Response!Over, Whole, Entered
<1> QED
  BY <1>2, <1>3, <1>4, <1>5, <1>6 DEF ResponseInv, HttpTypes, Noted, Ways, Told

-----------------------------------------------------------------------------
(* The pool.  The steps at which a request of each kind has no connection  *)
(* whatever happened before.                                               *)
FreeAt == [login |-> {}, list |-> {}, upload |-> {3, 6, 7}, download |-> {},
           delete |-> {7, 8}, ready |-> {3}]

Releases == {"close", "commit"}

(* A connection is never carried into a step of the other session or out   *)
(* of the program.                                                         *)
Tidy(p, free) ==
    /\ Len(p) \in 1..8
    /\ \A i \in 1..Len(p) :
         /\ p[i].session \in {"auth", "request"}
         /\ p[i].op = "statement" => i \notin free
         /\ i < Len(p) /\ i \notin free /\ p[i].op \notin Releases =>
              p[i + 1].session = p[i].session /\ i + 1 \notin free
         /\ i = Len(p) /\ i \notin free => p[i].op = "close"

LEMMA TidyLogin == Tidy(Pool!Program["login"], FreeAt["login"])
<1> DEFINE p == Pool!Program["login"]
<1>1. Len(p) = 4
  BY DEF Pool!Program
<1>2. /\ p[1].session = "request" /\ p[1].op = "statement"
      /\ p[2].session = "request" /\ p[2].op = "await"
      /\ p[3].session = "request" /\ p[3].op = "await"
      /\ p[4].session = "request" /\ p[4].op = "close"
  BY DEF Pool!Program, Pool!Statement, Pool!Await, Pool!Commit, Pool!Close, Pool!Identify,
     Pool!EndIdentity, Pool!Op
<1> HIDE DEF p
<1>3. Tidy(p, FreeAt["login"])
  BY <1>1, <1>2 DEF Tidy, FreeAt, Releases
<1> QED
  BY <1>3 DEF p

LEMMA TidyList == Tidy(Pool!Program["list"], FreeAt["list"])
<1> DEFINE p == Pool!Program["list"]
<1>1. Len(p) = 6
  BY DEF Pool!Program
<1>2. /\ p[1].session = "auth" /\ p[1].op = "statement"
      /\ p[2].session = "auth" /\ p[2].op = "close"
      /\ p[3].session = "request" /\ p[3].op = "statement"
      /\ p[4].session = "request" /\ p[4].op = "statement"
      /\ p[5].session = "request" /\ p[5].op = "await"
      /\ p[6].session = "request" /\ p[6].op = "close"
  BY DEF Pool!Program, Pool!Statement, Pool!Await, Pool!Commit, Pool!Close, Pool!Identify,
     Pool!EndIdentity, Pool!Op
<1> HIDE DEF p
<1>3. Tidy(p, FreeAt["list"])
  BY <1>1, <1>2 DEF Tidy, FreeAt, Releases
<1> QED
  BY <1>3 DEF p

LEMMA TidyUpload == Tidy(Pool!Program["upload"], FreeAt["upload"])
<1> DEFINE p == Pool!Program["upload"]
<1>1. Len(p) = 7
  BY DEF Pool!Program
<1>2. /\ p[1].session = "auth" /\ p[1].op = "statement"
      /\ p[2].session = "auth" /\ p[2].op = "close"
      /\ p[3].session = "request" /\ p[3].op = "await"
      /\ p[4].session = "request" /\ p[4].op = "statement"
      /\ p[5].session = "request" /\ p[5].op = "commit"
      /\ p[6].session = "request" /\ p[6].op = "await"
      /\ p[7].session = "request" /\ p[7].op = "close"
  BY DEF Pool!Program, Pool!Statement, Pool!Await, Pool!Commit, Pool!Close, Pool!Identify,
     Pool!EndIdentity, Pool!Op
<1> HIDE DEF p
<1>3. Tidy(p, FreeAt["upload"])
  BY <1>1, <1>2 DEF Tidy, FreeAt, Releases
<1> QED
  BY <1>3 DEF p

LEMMA TidyDownload == Tidy(Pool!Program["download"], FreeAt["download"])
<1> DEFINE p == Pool!Program["download"]
<1>1. Len(p) = 6
  BY DEF Pool!Program
<1>2. /\ p[1].session = "auth" /\ p[1].op = "statement"
      /\ p[2].session = "auth" /\ p[2].op = "close"
      /\ p[3].session = "request" /\ p[3].op = "statement"
      /\ p[4].session = "request" /\ p[4].op = "await"
      /\ p[5].session = "request" /\ p[5].op = "await"
      /\ p[6].session = "request" /\ p[6].op = "close"
  BY DEF Pool!Program, Pool!Statement, Pool!Await, Pool!Commit, Pool!Close, Pool!Identify,
     Pool!EndIdentity, Pool!Op
<1> HIDE DEF p
<1>3. Tidy(p, FreeAt["download"])
  BY <1>1, <1>2 DEF Tidy, FreeAt, Releases
<1> QED
  BY <1>3 DEF p

LEMMA TidyDelete == Tidy(Pool!Program["delete"], FreeAt["delete"])
<1> DEFINE p == Pool!Program["delete"]
<1>1. Len(p) = 8
  BY DEF Pool!Program
<1>2. /\ p[1].session = "auth" /\ p[1].op = "statement"
      /\ p[2].session = "auth" /\ p[2].op = "close"
      /\ p[3].session = "request" /\ p[3].op = "statement"
      /\ p[4].session = "request" /\ p[4].op = "await"
      /\ p[5].session = "request" /\ p[5].op = "statement"
      /\ p[6].session = "request" /\ p[6].op = "commit"
      /\ p[7].session = "request" /\ p[7].op = "await"
      /\ p[8].session = "request" /\ p[8].op = "close"
  BY DEF Pool!Program, Pool!Statement, Pool!Await, Pool!Commit, Pool!Close, Pool!Identify,
     Pool!EndIdentity, Pool!Op
<1> HIDE DEF p
<1>3. Tidy(p, FreeAt["delete"])
  BY <1>1, <1>2 DEF Tidy, FreeAt, Releases
<1> QED
  BY <1>3 DEF p

LEMMA TidyReady == Tidy(Pool!Program["ready"], FreeAt["ready"])
<1> DEFINE p == Pool!Program["ready"]
<1>1. Len(p) = 3
  BY DEF Pool!Program
<1>2. /\ p[1].session = "request" /\ p[1].op = "statement"
      /\ p[2].session = "request" /\ p[2].op = "close"
      /\ p[3].session = "request" /\ p[3].op = "await"
  BY DEF Pool!Program, Pool!Statement, Pool!Await, Pool!Commit, Pool!Close, Pool!Identify,
     Pool!EndIdentity, Pool!Op
<1> HIDE DEF p
<1>3. Tidy(p, FreeAt["ready"])
  BY <1>1, <1>2 DEF Tidy, FreeAt, Releases
<1> QED
  BY <1>3 DEF p

LEMMA TidyPrograms ==
  ASSUME NEW r \in PoolRequests
  PROVE  Kind[r] \in DOMAIN Pool!Program /\ Tidy(Pool!Program[Kind[r]], FreeAt[Kind[r]])
<1>1. Kind[r] \in DOMAIN Pool!Program
  BY PoolBounds
<1>2. DOMAIN Pool!Program = {"login", "list", "upload", "download", "delete", "ready"}
  BY DEF Pool!Program
<1> QED
  BY <1>1, <1>2, TidyLogin, TidyList, TidyUpload, TidyDownload, TidyDelete, TidyReady

OpenPairs == {p \in PoolRequests \X Pool!Session : conn[p[1]][p[2]] # "none"}

(* A connection is out only with a request that works, in the session its  *)
(* next step is of; and the connections are never more than the limits.    *)
PoolInv ==
    /\ at \in [PoolRequests -> Nat] /\ stalled \subseteq Stallers
    /\ conn \in [PoolRequests -> [Pool!Session -> {"none", "live", "dead"}]]
    /\ idle \in [{"live", "dead"} -> 0..PoolSize]
    /\ answer \in [PoolRequests -> {"none", "served", "failed"}]
    /\ restarts \in 0..MaxRestarts /\ since \in [PoolRequests -> 0..MaxRestarts]
    /\ idle.live + idle.dead <= PoolSize
    /\ Cardinality(OpenPairs) + idle.live + idle.dead <= PoolSize + MaxOverflow
    /\ \A r \in PoolRequests :
         /\ at[r] <= Len(Pool!Program[Kind[r]]) + 1
         /\ answer[r] = "none" => at[r] <= Len(Pool!Program[Kind[r]])
         /\ since[r] <= restarts
         /\ \A s \in Pool!Session : conn[r][s] # "none" =>
              /\ Pool!Running(r) /\ s = Pool!SessionOf(r) /\ at[r] \notin FreeAt[Kind[r]]
              /\ since[r] = restarts => conn[r][s] # "dead"

LEMMA SamePoolCount == ASSUME NEW S PROVE Pool!Cardinality(S) = Cardinality(S)
BY DEF Pool!Cardinality, Cardinality

LEMMA PairsAreFinite == IsFiniteSet(OpenPairs) /\ Cardinality(OpenPairs) \in Nat
<1>1. IsFiniteSet(Pool!Session)
  <2>1. Pool!Session = {"auth"} \cup {"request"}
    BY DEF Pool!Session
  <2> QED
    BY <2>1, FS_Singleton, FS_Union
<1>2. IsFiniteSet(PoolRequests \X Pool!Session)
  BY <1>1, PoolBounds, FS_Product
<1>3. OpenPairs \subseteq PoolRequests \X Pool!Session
  BY DEF OpenPairs
<1> QED
  BY <1>2, <1>3, FS_Subset, FS_CardinalityType

LEMMA OpenIs == Pool!Open = Cardinality(OpenPairs) + idle.live + idle.dead
BY SamePoolCount DEF Pool!Open, OpenPairs

LEMMA WorkIs ==
  ASSUME PoolInv, NEW r \in PoolRequests, Pool!Running(r)
  PROVE  /\ at[r] \in 1..Len(Pool!Program[Kind[r]]) /\ Pool!SessionOf(r) \in Pool!Session
         /\ Len(Pool!Program[Kind[r]]) \in 1..8
         /\ answer[r] = "none"
<1>1. at[r] > 0 /\ answer[r] = "none" /\ at[r] \in Nat /\ at[r] <= Len(Pool!Program[Kind[r]])
  BY DEF PoolInv, Pool!Running
<1>2. Len(Pool!Program[Kind[r]]) \in 1..8
  BY TidyPrograms DEF Tidy
<1>3. at[r] \in 1..Len(Pool!Program[Kind[r]])
  BY <1>1, <1>2
<1> QED
  BY <1>1, <1>2, <1>3, TidyPrograms DEF Tidy, Pool!SessionOf, Pool!Session

(* Closing a request's sessions, or the one it works in, gives back all it *)
(* has, and the pool stays within its limits.                              *)
LEMMA GivesAllBack ==
  ASSUME PoolInv, NEW r \in PoolRequests, Pool!Running(r),
         NEW sessions, sessions = Pool!Session \/ sessions = {Pool!SessionOf(r)},
         Pool!GiveBack(r, sessions)
  PROVE  /\ conn' \in [PoolRequests -> [Pool!Session -> {"none", "live", "dead"}]]
         /\ \A s \in Pool!Session : conn'[r][s] = "none"
         /\ \A q \in PoolRequests \ {r} : conn'[q] = conn[q]
         /\ idle' \in [{"live", "dead"} -> 0..PoolSize]
         /\ idle'.live + idle'.dead <= PoolSize
         /\ Cardinality(OpenPairs)' + idle'.live + idle'.dead <= PoolSize + MaxOverflow
<1> DEFINE own == Pool!SessionOf(r)
           L == {s \in sessions : conn[r][s] = "live"}
           k == Cardinality(L)
<1>1. own \in Pool!Session /\ own \in sessions /\ sessions \subseteq Pool!Session
  BY WorkIs
<1>2. \A s \in Pool!Session \ {own} : conn[r][s] = "none"
  BY DEF PoolInv
<1>3. conn' = [conn EXCEPT ![r] = [s \in Pool!Session |-> IF s \in sessions THEN "none" ELSE conn[r][s]]]
  BY DEF Pool!GiveBack, PoolInv
<1>4. conn' = [conn EXCEPT ![r] = [s \in Pool!Session |-> "none"]]
  <2>1. [s \in Pool!Session |-> IF s \in sessions THEN "none" ELSE conn[r][s]] = [s \in Pool!Session |-> "none"]
    BY <1>1, <1>2
  <2> QED
    BY <1>3, <2>1
<1>5. /\ conn' \in [PoolRequests -> [Pool!Session -> {"none", "live", "dead"}]]
      /\ \A s \in Pool!Session : conn'[r][s] = "none"
      /\ \A q \in PoolRequests \ {r} : conn'[q] = conn[q]
  BY <1>4 DEF PoolInv
<1>6. IF conn[r][own] = "live" THEN L = {own} /\ k = 1 ELSE L = {} /\ k = 0
  <2>1. CASE conn[r][own] = "live"
    <3>1. L = {own}
      BY <1>1, <1>2, <2>1
    <3> QED
      BY <2>1, <3>1, FS_Singleton
  <2>2. CASE conn[r][own] # "live"
    <3>1. L = {}
      BY <1>1, <1>2, <2>2
    <3> QED
      BY <2>2, <3>1, FS_EmptySet
  <2> QED
    BY <2>1, <2>2
<1>7. idle' = [idle EXCEPT !.live = IF (idle.live + k) + idle.dead <= PoolSize THEN idle.live + k
                                   ELSE PoolSize - idle.dead]
  BY SamePoolCount DEF Pool!GiveBack, PoolInv
<1>8. idle.live \in 0..PoolSize /\ idle.dead \in 0..PoolSize /\ PoolSize \in Nat /\ MaxOverflow \in Nat
      /\ idle.live + idle.dead <= PoolSize
  BY PoolBounds DEF PoolInv
<1>9. Cardinality(OpenPairs)' \in Nat /\ Cardinality(OpenPairs)' + k <= Cardinality(OpenPairs)
  <2>1. OpenPairs' \subseteq OpenPairs
    <3> SUFFICES ASSUME NEW p \in OpenPairs' PROVE p \in OpenPairs
      OBVIOUS
    <3>1. p \in PoolRequests \X Pool!Session /\ conn'[p[1]][p[2]] # "none"
      BY DEF OpenPairs
    <3>2. p[1] \in PoolRequests \ {r}
      BY <1>5, <3>1
    <3> QED
      BY <1>5, <3>1, <3>2 DEF OpenPairs
  <2>2. IsFiniteSet(OpenPairs) /\ Cardinality(OpenPairs) \in Nat
    BY PairsAreFinite
  <2>3. IsFiniteSet(OpenPairs') /\ Cardinality(OpenPairs') \in Nat /\ Cardinality(OpenPairs') <= Cardinality(OpenPairs)
    BY <2>1, <2>2, FS_Subset, FS_CardinalityType
  <2>4. CASE conn[r][own] = "live"
    <3>1. <<r, own>> \in OpenPairs
      BY <1>1, <2>4 DEF OpenPairs
    <3>2. <<r, own>> \notin OpenPairs'
      BY <1>1, <1>5 DEF OpenPairs
    <3>3. OpenPairs' \subseteq OpenPairs \ {<<r, own>>}
      BY <2>1, <3>2
    <3>4. IsFiniteSet(OpenPairs \ {<<r, own>>}) /\ Cardinality(OpenPairs \ {<<r, own>>}) = Cardinality(OpenPairs) - 1
      BY <2>2, <3>1, FS_RemoveElement
    <3>5. Cardinality(OpenPairs') <= Cardinality(OpenPairs) - 1
      BY <3>3, <3>4, FS_Subset
    <3> QED
      BY <1>6, <2>2, <2>3, <2>4, <3>5
  <2>5. CASE conn[r][own] # "live"
    BY <1>6, <2>2, <2>3, <2>5
  <2> QED
    BY <2>4, <2>5
<1>10. k \in Nat
  BY <1>6
<1>11. Cardinality(OpenPairs) + idle.live + idle.dead <= PoolSize + MaxOverflow /\ Cardinality(OpenPairs) \in Nat
  BY PairsAreFinite DEF PoolInv
<1> HIDE DEF k
<1>12. idle' \in [{"live", "dead"} -> 0..PoolSize] /\ idle'.dead = idle.dead
       /\ idle'.live = IF (idle.live + k) + idle.dead <= PoolSize THEN idle.live + k ELSE PoolSize - idle.dead
  <2> DEFINE live == IF (idle.live + k) + idle.dead <= PoolSize THEN idle.live + k ELSE PoolSize - idle.dead
  <2>1. live \in 0..PoolSize
    BY <1>8, <1>10
  <2>2. idle' = [idle EXCEPT !.live = live]
    BY <1>7
  <2> HIDE DEF live
  <2>3. idle' \in [{"live", "dead"} -> 0..PoolSize] /\ idle'.dead = idle.dead /\ idle'.live = live
    BY <2>1, <2>2 DEF PoolInv
  <2> QED
    BY <2>3 DEF live
<1> QED
  BY <1>5, <1>8, <1>9, <1>10, <1>11, <1>12

LEMMA PoolInit == Pool!Init => PoolInv
<1> SUFFICES ASSUME Pool!Init PROVE PoolInv
  OBVIOUS
<1>1. OpenPairs = {}
  BY DEF Pool!Init, OpenPairs
<1>2. Cardinality(OpenPairs) = 0
  BY <1>1, FS_EmptySet
<1>3. \A r \in PoolRequests : Len(Pool!Program[Kind[r]]) \in 1..8
  BY TidyPrograms DEF Tidy
<1>4. idle.live = 0 /\ idle.dead = 0 /\ idle \in [{"live", "dead"} -> 0..PoolSize]
  BY PoolBounds DEF Pool!Init
<1>5. Cardinality(OpenPairs) + idle.live + idle.dead <= PoolSize + MaxOverflow /\ idle.live + idle.dead <= PoolSize
  BY <1>2, <1>4, PoolBounds
<1> QED
  BY <1>3, <1>4, <1>5, PoolBounds DEF Pool!Init, PoolInv

(* A request that ends, or a step that closes the session or commits. *)
LEMMA ReleaseStep ==
  ASSUME PoolInv, NEW r \in PoolRequests, Pool!Running(r),
         NEW sessions, sessions = Pool!Session \/ sessions = {Pool!SessionOf(r)},
         Pool!GiveBack(r, sessions),
         NEW to \in 1..(Len(Pool!Program[Kind[r]]) + 1), at' = [at EXCEPT ![r] = to],
         NEW result \in {"none", "served", "failed"}, answer' = [answer EXCEPT ![r] = result],
         result = "none" => to <= Len(Pool!Program[Kind[r]]),
         stalled' \subseteq stalled, UNCHANGED <<restarts, since>>
  PROVE  PoolInv'
<1> DEFINE n == Len(Pool!Program[Kind[r]])
<1>1. n \in 1..8
  BY WorkIs
<1>2. /\ conn' \in [PoolRequests -> [Pool!Session -> {"none", "live", "dead"}]]
      /\ \A s \in Pool!Session : conn'[r][s] = "none"
      /\ \A q \in PoolRequests \ {r} : conn'[q] = conn[q]
      /\ idle' \in [{"live", "dead"} -> 0..PoolSize]
      /\ idle'.live + idle'.dead <= PoolSize
      /\ Cardinality(OpenPairs)' + idle'.live + idle'.dead <= PoolSize + MaxOverflow
  BY GivesAllBack
<1>3. to \in Nat /\ to <= n + 1 /\ (result = "none" => to <= n)
  BY <1>1
<1>4. at' \in [PoolRequests -> Nat] /\ answer' \in [PoolRequests -> {"none", "served", "failed"}]
  BY <1>3 DEF PoolInv
<1>5. ASSUME NEW q \in PoolRequests
      PROVE  /\ at'[q] <= Len(Pool!Program[Kind[q]]) + 1
             /\ answer'[q] = "none" => at'[q] <= Len(Pool!Program[Kind[q]])
             /\ since'[q] <= restarts'
             /\ \A s \in Pool!Session : conn'[q][s] # "none" =>
                  /\ Pool!Running(q)' /\ s = Pool!SessionOf(q)' /\ at'[q] \notin FreeAt[Kind[q]]
                  /\ since'[q] = restarts' => conn'[q][s] # "dead"
  <2>1. CASE q = r
    <3>1. at'[q] = to /\ answer'[q] = result
      BY <2>1 DEF PoolInv
    <3>2. since'[q] <= restarts'
      BY DEF PoolInv
    <3>3. \A s \in Pool!Session : conn'[q][s] = "none"
      BY <1>2, <2>1
    <3> QED
      BY <1>3, <2>1, <3>1, <3>2, <3>3
  <2>2. CASE q # r
    <3>1. at'[q] = at[q] /\ answer'[q] = answer[q] /\ conn'[q] = conn[q]
      BY <1>2, <2>2 DEF PoolInv
    <3> QED
      BY <3>1, SMTT(30) DEF PoolInv, Pool!Running, Pool!SessionOf
  <2> QED
    BY <2>1, <2>2
<1> QED
  BY <1>2, <1>4, <1>5 DEF PoolInv

(* Nothing changes hands. *)
LEMMA AdvanceStep ==
  ASSUME PoolInv, NEW r \in PoolRequests, Pool!Does(r, {"statement", "await"}), Pool!Advance(r),
         UNCHANGED <<conn, idle>>
  PROVE  PoolInv'
<1> DEFINE n == Len(Pool!Program[Kind[r]])
           p == Pool!Program[Kind[r]]
<1>1. n \in 1..8 /\ at[r] \in 1..n /\ answer[r] = "none" /\ Pool!Running(r)
      /\ p[at[r]].op \in {"statement", "await"}
  BY WorkIs DEF Pool!Does
<1>2. at' = [at EXCEPT ![r] = at[r] + 1]
      /\ answer' = [answer EXCEPT ![r] = IF at[r] = n THEN "served" ELSE "none"]
      /\ UNCHANGED <<stalled, restarts, since>>
  BY <1>1 DEF Pool!Advance, PoolInv
<1>3. at' \in [PoolRequests -> Nat] /\ answer' \in [PoolRequests -> {"none", "served", "failed"}]
  BY <1>1, <1>2 DEF PoolInv
<1>4. at'[r] = at[r] + 1 /\ (answer'[r] = "none" <=> at[r] # n) /\ at'[r] <= n + 1
      /\ (answer'[r] = "none" => at'[r] <= n) /\ at'[r] > 0
  BY <1>1, <1>2 DEF PoolInv
<1>5. /\ at[r] = n /\ at[r] \notin FreeAt[Kind[r]] => p[at[r]].op = "close"
      /\ at[r] < n /\ at[r] \notin FreeAt[Kind[r]] /\ p[at[r]].op \notin Releases =>
           p[at[r] + 1].session = p[at[r]].session /\ at[r] + 1 \notin FreeAt[Kind[r]]
  BY <1>1, TidyPrograms DEF Tidy
<1>6. ASSUME NEW s \in Pool!Session, conn'[r][s] # "none"
      PROVE  /\ Pool!Running(r)' /\ s = Pool!SessionOf(r)' /\ at'[r] \notin FreeAt[Kind[r]]
             /\ since'[r] = restarts' => conn'[r][s] # "dead"
  <2>1. s = Pool!SessionOf(r) /\ at[r] \notin FreeAt[Kind[r]]
        /\ (since'[r] = restarts' => conn'[r][s] # "dead")
    BY <1>2, <1>6 DEF PoolInv
  <2>2. at[r] < n /\ p[at[r]].op \notin Releases
    BY <1>1, <1>5, <2>1 DEF Releases
  <2>3. p[at[r] + 1].session = p[at[r]].session /\ at[r] + 1 \notin FreeAt[Kind[r]]
    BY <1>5, <2>1, <2>2
  <2>4. Pool!Running(r)'
    BY <1>1, <1>4, <2>2 DEF Pool!Running
  <2> QED
    BY <1>4, <2>1, <2>3, <2>4 DEF Pool!SessionOf
<1>7. ASSUME NEW q \in PoolRequests, q # r
      PROVE  /\ at'[q] = at[q] /\ answer'[q] = answer[q] /\ conn'[q] = conn[q]
             /\ Pool!Running(q)' = Pool!Running(q) /\ Pool!SessionOf(q)' = Pool!SessionOf(q)
  BY <1>2, <1>7 DEF PoolInv, Pool!Running, Pool!SessionOf
<1>8. OpenPairs' = OpenPairs
  BY DEF OpenPairs
<1>9. ASSUME NEW q \in PoolRequests
      PROVE  /\ at'[q] <= Len(Pool!Program[Kind[q]]) + 1
             /\ answer'[q] = "none" => at'[q] <= Len(Pool!Program[Kind[q]])
             /\ since'[q] <= restarts'
             /\ \A s \in Pool!Session : conn'[q][s] # "none" =>
                  /\ Pool!Running(q)' /\ s = Pool!SessionOf(q)' /\ at'[q] \notin FreeAt[Kind[q]]
                  /\ since'[q] = restarts' => conn'[q][s] # "dead"
  <2>1. CASE q = r
    BY <1>2, <1>4, <1>6, <2>1 DEF PoolInv
  <2>2. CASE q # r
    BY <1>2, <1>7, <2>2 DEF PoolInv
  <2> QED
    BY <2>1, <2>2
<1> QED
  BY <1>2, <1>3, <1>8, <1>9 DEF PoolInv

LEMMA CheckoutStep ==
  ASSUME PoolInv, NEW r \in PoolRequests, Pool!Checkout(r)
  PROVE  PoolInv'
<1> DEFINE own == Pool!SessionOf(r)
<1>1. Pool!Running(r) /\ Pool!Program[Kind[r]][at[r]].op = "statement" /\ conn[r][own] = "none"
      /\ ~Pool!Exhausted /\ UNCHANGED <<at, stalled, answer, restarts, since>>
  BY DEF Pool!Checkout, Pool!Does, Pool!Connected, PoolInv
<1>2. own \in Pool!Session /\ at[r] \in 1..Len(Pool!Program[Kind[r]])
  BY <1>1, WorkIs
<1>3. conn' = [conn EXCEPT ![r] = [conn[r] EXCEPT ![own] = "live"]]
  <2>1. \A c \in {"live", "dead"} : Pool!Pinged(c) = "live"
    BY DEF Pool!Pinged
  <2> QED  BY <1>2, <2>1 DEF Pool!Checkout, PoolInv
<1>4. /\ conn' \in [PoolRequests -> [Pool!Session -> {"none", "live", "dead"}]]
      /\ conn'[r][own] = "live" /\ \A s \in Pool!Session \ {own} : conn'[r][s] = conn[r][s]
      /\ \A q \in PoolRequests \ {r} : conn'[q] = conn[q]
  BY <1>2, <1>3 DEF PoolInv
<1>5. OpenPairs' = OpenPairs \cup {<<r, own>>} /\ <<r, own>> \notin OpenPairs
  <2>1. <<r, own>> \in PoolRequests \X Pool!Session /\ <<r, own>> \notin OpenPairs
    BY <1>1, <1>2 DEF OpenPairs
  <2>2. ASSUME NEW p \in PoolRequests \X Pool!Session
        PROVE  p \in OpenPairs' <=> p \in OpenPairs \cup {<<r, own>>}
    <3>1. CASE p = <<r, own>>
      BY <1>2, <1>4, <3>1 DEF OpenPairs
    <3>2. CASE p # <<r, own>>
      <4>1. p = <<p[1], p[2]>> /\ p[1] \in PoolRequests /\ p[2] \in Pool!Session
        OBVIOUS
      <4>2. p[1] # r \/ p[2] # own
        BY <3>2, <4>1
      <4>3. conn'[p[1]][p[2]] = conn[p[1]][p[2]]
        BY <1>4, <4>1, <4>2
      <4> QED
        BY <3>2, <4>3 DEF OpenPairs
    <3> QED
      BY <3>1, <3>2
  <2> QED
    BY <2>1, <2>2 DEF OpenPairs
<1>6. Cardinality(OpenPairs') = Cardinality(OpenPairs) + 1 /\ Cardinality(OpenPairs) \in Nat
  BY <1>5, PairsAreFinite, FS_AddElement
<1>7. /\ idle' \in [{"live", "dead"} -> 0..PoolSize]
      /\ idle'.live + idle'.dead <= PoolSize
      /\ Cardinality(OpenPairs)' + idle'.live + idle'.dead <= PoolSize + MaxOverflow
  <2>1. idle.live \in 0..PoolSize /\ idle.dead \in 0..PoolSize /\ PoolSize \in Nat /\ MaxOverflow \in Nat
        /\ idle.live + idle.dead <= PoolSize
        /\ Cardinality(OpenPairs) + idle.live + idle.dead <= PoolSize + MaxOverflow
    BY PoolBounds DEF PoolInv
  <2>2. CASE idle.live + idle.dead = 0
    <3>1. idle' = idle
      <4>1. \A c \in {"live", "dead"} : ~(idle[c] > 0)
        BY <2>1, <2>2
      <4> QED  BY <4>1 DEF Pool!Checkout
    <3>2. Cardinality(OpenPairs) + idle.live + idle.dead < PoolSize + MaxOverflow
      BY <1>1, <1>6, <2>1, <2>2, OpenIs DEF Pool!Exhausted
    <3> QED
      BY <1>6, <2>1, <3>1, <3>2 DEF PoolInv
  <2>3. CASE idle.live + idle.dead # 0
    <3>1. PICK c \in {"live", "dead"} : idle[c] > 0 /\ idle' = [idle EXCEPT ![c] = idle[c] - 1]
      BY <2>3 DEF Pool!Checkout
    <3>2. idle[c] - 1 \in 0..PoolSize
      BY <2>1, <3>1
    <3>3. idle' \in [{"live", "dead"} -> 0..PoolSize]
      BY <3>1, <3>2 DEF PoolInv
    <3>4. \/ idle'.live = idle.live - 1 /\ idle'.dead = idle.dead
          \/ idle'.live = idle.live /\ idle'.dead = idle.dead - 1
      BY <3>1 DEF PoolInv
    <3> QED
      BY <1>6, <2>1, <3>3, <3>4
  <2> QED
    BY <2>2, <2>3
<1>8. at[r] \notin FreeAt[Kind[r]]
  BY <1>1, <1>2, TidyPrograms DEF Tidy
<1>9. ASSUME NEW q \in PoolRequests, NEW s \in Pool!Session, conn'[q][s] # "none"
      PROVE  /\ Pool!Running(q)' /\ s = Pool!SessionOf(q)' /\ at'[q] \notin FreeAt[Kind[q]]
             /\ since'[q] = restarts' => conn'[q][s] # "dead"
  <2>1. Pool!Running(q)' = Pool!Running(q) /\ Pool!SessionOf(q)' = Pool!SessionOf(q)
    BY <1>1 DEF Pool!Running, Pool!SessionOf
  <2>2. CASE q = r /\ s = own
    BY <1>1, <1>4, <1>8, <2>1, <2>2
  <2>3. CASE ~(q = r /\ s = own)
    <3>1. conn'[q][s] = conn[q][s]
      BY <1>4, <2>3
    <3> QED
      BY <1>1, <1>9, <2>1, <3>1 DEF PoolInv
  <2> QED
    BY <2>2, <2>3
<1> QED
  BY <1>1, <1>4, <1>7, <1>9 DEF PoolInv

(* An exception, a timeout or a cancellation. *)
LEMMA FailStep ==
  ASSUME PoolInv, NEW r \in PoolRequests, Pool!Running(r), Pool!Fail(r)
  PROVE  PoolInv'
<1>1. Len(Pool!Program[Kind[r]]) \in 1..8
  BY WorkIs
<1>2. Len(Pool!Program[Kind[r]]) + 1 \in 1..(Len(Pool!Program[Kind[r]]) + 1)
  BY <1>1
<1>3. stalled' \subseteq stalled
  BY DEF Pool!Fail
<1> QED
  BY <1>2, <1>3, ReleaseStep DEF Pool!Fail

(* The step that commits or closes gives its session's connection back. *)
LEMMA ReleasingStep ==
  ASSUME PoolInv, NEW r \in PoolRequests, Pool!Running(r), Pool!Advance(r),
         Pool!GiveBack(r, {Pool!SessionOf(r)})
  PROVE  PoolInv'
<1> DEFINE n == Len(Pool!Program[Kind[r]])
           result == IF at[r] = n THEN "served" ELSE "none"
<1>1. n \in 1..8 /\ at[r] \in 1..n /\ answer[r] = "none"
  BY WorkIs
<1>2. at[r] + 1 \in 1..(n + 1) /\ (result = "none" => at[r] + 1 <= n)
  BY <1>1
<1>3. at' = [at EXCEPT ![r] = at[r] + 1] /\ answer' = [answer EXCEPT ![r] = result]
      /\ stalled' \subseteq stalled /\ UNCHANGED <<restarts, since>>
  BY <1>1 DEF Pool!Advance, PoolInv
<1>4. result \in {"none", "served", "failed"}
  OBVIOUS
<1> HIDE DEF result
<1> QED
  BY <1>2, <1>3, <1>4, ReleaseStep

LEMMA ArriveStep ==
  ASSUME PoolInv, NEW r \in PoolRequests, Pool!Arrive(r)
  PROVE  PoolInv'
<1>1. /\ at[r] = 0 /\ at' = [at EXCEPT ![r] = 1] /\ since' = [since EXCEPT ![r] = restarts]
      /\ UNCHANGED <<conn, idle, stalled, answer, restarts>>
  BY DEF Pool!Arrive
<1>2. Len(Pool!Program[Kind[r]]) \in 1..8
  BY TidyPrograms DEF Tidy
<1>3. at' \in [PoolRequests -> Nat] /\ since' \in [PoolRequests -> 0..MaxRestarts]
  BY <1>1 DEF PoolInv
<1>4. OpenPairs' = OpenPairs
  BY <1>1 DEF OpenPairs
<1>5. \A s \in Pool!Session : conn[r][s] = "none"
  BY <1>1 DEF PoolInv, Pool!Running
<1>6. ASSUME NEW q \in PoolRequests
      PROVE  /\ at'[q] <= Len(Pool!Program[Kind[q]]) + 1
             /\ answer'[q] = "none" => at'[q] <= Len(Pool!Program[Kind[q]])
             /\ since'[q] <= restarts'
             /\ \A s \in Pool!Session : conn'[q][s] # "none" =>
                  /\ Pool!Running(q)' /\ s = Pool!SessionOf(q)' /\ at'[q] \notin FreeAt[Kind[q]]
                  /\ since'[q] = restarts' => conn'[q][s] # "dead"
  <2>1. CASE q = r
    <3>1. at'[q] = 1 /\ since'[q] = restarts /\ restarts \in Nat
      BY <1>1, <2>1, PoolBounds DEF PoolInv
    <3> DEFINE n == Len(Pool!Program[Kind[q]])
    <3>2. n \in 1..8
      BY <1>2, <2>1
    <3>3. answer'[q] = answer[q] /\ \A s \in Pool!Session : conn'[q][s] = "none"
      BY <1>1, <1>5, <2>1
    <3> HIDE DEF n
    <3>4. at'[q] <= n + 1 /\ at'[q] <= n /\ since'[q] <= restarts'
      BY <1>1, <3>1, <3>2
    <3> QED
      BY <3>3, <3>4 DEF n
  <2>2. CASE q # r
    <3>1. at'[q] = at[q] /\ since'[q] = since[q]
      BY <1>1, <2>2 DEF PoolInv
    <3> QED
      BY <1>1, <3>1 DEF PoolInv, Pool!Running, Pool!SessionOf
  <2> QED
    BY <2>1, <2>2
<1> QED
  BY <1>1, <1>3, <1>4, <1>6 DEF PoolInv

(* What was open is open and dead, and nobody has arrived since. *)
LEMMA RestartStep == PoolInv /\ Pool!Restart => PoolInv'
<1> SUFFICES ASSUME PoolInv, Pool!Restart PROVE PoolInv'
  OBVIOUS
<1>1. /\ restarts < MaxRestarts /\ restarts' = restarts + 1
      /\ idle' = [idle EXCEPT !.live = 0, !.dead = idle.dead + idle.live]
      /\ conn' = [r \in PoolRequests |-> [s \in Pool!Session |->
                    IF conn[r][s] = "none" THEN "none" ELSE "dead"]]
      /\ UNCHANGED <<at, stalled, answer, since>>
  BY DEF Pool!Restart
<1>2. restarts' \in 0..MaxRestarts /\ restarts \in Nat /\ MaxRestarts \in Nat
  BY <1>1, PoolBounds DEF PoolInv
<1>3. /\ idle.live \in 0..PoolSize /\ idle.dead \in 0..PoolSize /\ PoolSize \in Nat
      /\ idle.live + idle.dead <= PoolSize
  BY PoolBounds DEF PoolInv
<1>4. idle.dead + idle.live \in 0..PoolSize /\ 0 \in 0..PoolSize
  BY <1>3
<1>5. idle' \in [{"live", "dead"} -> 0..PoolSize] /\ idle'.live = 0 /\ idle'.dead = idle.dead + idle.live
  BY <1>1, <1>4 DEF PoolInv
<1>6. /\ conn' \in [PoolRequests -> [Pool!Session -> {"none", "live", "dead"}]]
      /\ \A r \in PoolRequests, s \in Pool!Session : conn'[r][s] = "none" <=> conn[r][s] = "none"
  BY <1>1
<1>7. OpenPairs' = OpenPairs
  <2>1. ASSUME NEW p \in PoolRequests \X Pool!Session
        PROVE  conn'[p[1]][p[2]] # "none" <=> conn[p[1]][p[2]] # "none"
    BY <1>6
  <2> QED
    BY <2>1 DEF OpenPairs
<1>8. /\ idle'.live + idle'.dead <= PoolSize
      /\ Cardinality(OpenPairs)' + idle'.live + idle'.dead <= PoolSize + MaxOverflow
  <2>1. Cardinality(OpenPairs) \in Nat /\ Cardinality(OpenPairs) + idle.live + idle.dead <= PoolSize + MaxOverflow
        /\ MaxOverflow \in Nat
    BY PairsAreFinite, PoolBounds DEF PoolInv
  <2> QED
    BY <1>3, <1>5, <1>7, <2>1
<1>9. ASSUME NEW q \in PoolRequests
      PROVE  /\ at'[q] <= Len(Pool!Program[Kind[q]]) + 1
             /\ answer'[q] = "none" => at'[q] <= Len(Pool!Program[Kind[q]])
             /\ since'[q] <= restarts' /\ since'[q] # restarts'
             /\ \A s \in Pool!Session : conn'[q][s] # "none" =>
                  Pool!Running(q)' /\ s = Pool!SessionOf(q)' /\ at'[q] \notin FreeAt[Kind[q]]
  <2>1. since[q] \in Nat /\ since[q] <= restarts
    BY <1>2 DEF PoolInv
  <2> QED
    BY <1>1, <1>2, <1>6, <2>1 DEF PoolInv, Pool!Running, Pool!SessionOf
<1> QED
  BY <1>1, <1>2, <1>5, <1>6, <1>8, <1>9 DEF PoolInv

LEMMA PoolStep == PoolInv /\ [Pool!Next]_(Pool!vars) => PoolInv'
<1> SUFFICES ASSUME PoolInv, [Pool!Next]_(Pool!vars) PROVE PoolInv'
  OBVIOUS
<1>1. CASE Pool!Restart
  BY <1>1, RestartStep
<1>2. ASSUME NEW r \in PoolRequests, Pool!Arrive(r) PROVE PoolInv'
  BY <1>2, ArriveStep
<1>3. ASSUME NEW r \in PoolRequests, Pool!Checkout(r) PROVE PoolInv'
  BY <1>3, CheckoutStep
<1>4. ASSUME NEW r \in PoolRequests, Pool!Execute(r) PROVE PoolInv'
  <2>1. Pool!Running(r) /\ Pool!Does(r, {"statement", "commit"})
    BY <1>4 DEF Pool!Execute, Pool!Does
  <2>2. CASE conn[r][Pool!SessionOf(r)] = "dead"
    BY <1>4, <2>1, <2>2, FailStep DEF Pool!Execute
  <2>3. CASE conn[r][Pool!SessionOf(r)] # "dead" /\ Pool!Does(r, {"commit"})
    BY <1>4, <2>1, <2>3, ReleasingStep DEF Pool!Execute
  <2>4. CASE conn[r][Pool!SessionOf(r)] # "dead" /\ ~Pool!Does(r, {"commit"})
    <3>1. Pool!Does(r, {"statement", "await"})
      BY <2>1, <2>4 DEF Pool!Does
    <3> QED
      BY <1>4, <2>4, <3>1, AdvanceStep DEF Pool!Execute
  <2> QED
    BY <2>2, <2>3, <2>4
<1>5. ASSUME NEW r \in PoolRequests, Pool!Proceed(r) PROVE PoolInv'
  <2>1. Pool!Does(r, {"statement", "await"})
    BY <1>5 DEF Pool!Proceed, Pool!Does
  <2> QED
    BY <1>5, <2>1, AdvanceStep DEF Pool!Proceed
<1>6. ASSUME NEW r \in PoolRequests, Pool!CloseSession(r) PROVE PoolInv'
  BY <1>6, ReleasingStep DEF Pool!CloseSession, Pool!Does
<1>7. ASSUME NEW r \in PoolRequests, Pool!PoolTimeout(r) \/ Pool!ReadyTimeout(r) \/ Pool!Cancel(r)
      PROVE  PoolInv'
  BY <1>7, FailStep DEF Pool!PoolTimeout, Pool!ReadyTimeout, Pool!Cancel, Pool!Waits, Pool!Does
<1>8. ASSUME NEW r \in PoolRequests, Pool!Stall(r) PROVE PoolInv'
  <2>1. stalled' \subseteq Stallers /\ UNCHANGED <<at, conn, idle, answer, restarts, since>>
    BY <1>8 DEF Pool!Stall, PoolInv
  <2>2. OpenPairs' = OpenPairs
    BY <2>1 DEF OpenPairs
  <2> QED
    BY <2>1, <2>2 DEF PoolInv, Pool!Running, Pool!SessionOf
<1>9. CASE UNCHANGED Pool!vars
  <2>1. UNCHANGED <<at, conn, idle, stalled, answer, restarts, since>>
    BY <1>9 DEF Pool!vars
  <2>2. OpenPairs' = OpenPairs
    BY <2>1 DEF OpenPairs
  <2> QED
    BY <2>1, <2>2 DEF PoolInv, Pool!Running, Pool!SessionOf
<1> QED
  BY <1>1, <1>2, <1>3, <1>4, <1>5, <1>6, <1>7, <1>8, <1>9 DEF Pool!Next, Pool!Step

LEMMA PoolHolds ==
  PoolInv => Pool!TypeOK /\ Pool!NoHoldAndWait /\ Pool!NothingLeaks /\ Pool!RestartIsSurvived
<1> SUFFICES ASSUME PoolInv
             PROVE  Pool!TypeOK /\ Pool!NoHoldAndWait /\ Pool!NothingLeaks /\ Pool!RestartIsSurvived
  OBVIOUS
<1>1. at \in [PoolRequests -> 0..9]
  <2>1. ASSUME NEW r \in PoolRequests PROVE at[r] \in 0..9
    <3> DEFINE n == Len(Pool!Program[Kind[r]])
    <3>1. n \in 1..8
      BY TidyPrograms DEF Tidy
    <3>2. at[r] \in Nat /\ at[r] <= n + 1
      BY DEF PoolInv
    <3> HIDE DEF n
    <3> QED
      BY <3>1, <3>2
  <2> QED
    BY <2>1 DEF PoolInv
<1>2. Pool!TypeOK
  BY <1>1, OpenIs DEF PoolInv, Pool!TypeOK
<1>3. Pool!NoHoldAndWait
  <2> SUFFICES ASSUME NEW r \in PoolRequests, Pool!Waits(r), NEW s \in Pool!Session
               PROVE  conn[r][s] = "none"
    BY DEF Pool!NoHoldAndWait
  <2>1. conn[r][Pool!SessionOf(r)] = "none"
    BY DEF Pool!Waits, Pool!Connected
  <2> QED
    BY <2>1 DEF PoolInv
<1>4. Pool!NothingLeaks
  BY DEF PoolInv, Pool!NothingLeaks, Pool!Running
<1>5. Pool!RestartIsSurvived
  BY DEF PoolInv, Pool!RestartIsSurvived
<1> QED
  BY <1>2, <1>3, <1>4, <1>5

-----------------------------------------------------------------------------
(* The pages, on each dialect (UserPagesProofs). *)
LEMMA PagesParameters == LitePages!Parameters /\ ServerPages!Parameters
  BY PageBounds DEF LitePages!Parameters, ServerPages!Parameters

LEMMA LiteInit == LitePages!Init => LitePages!WalkInv
  BY PagesParameters, LitePages!WalkInit

LEMMA ServerInit == ServerPages!Init => ServerPages!WalkInv
  BY PagesParameters, ServerPages!WalkInit

LEMMA LiteStep ==
  LitePages!WalkInv /\ [LitePages!Next]_(LitePages!vars) => LitePages!WalkInv'
  BY PagesParameters, LitePages!WalkStep

LEMMA ServerStep ==
  ServerPages!WalkInv /\ [ServerPages!Next]_(ServerPages!vars) => ServerPages!WalkInv'
  BY PagesParameters, ServerPages!WalkStep

LEMMA PagesHold ==
  /\ LitePages!WalkInv =>
       /\ LitePages!PageIsSmall /\ LitePages!PageMatchesTotal
       /\ LitePages!RepeatHasCause /\ LitePages!SkipHasCause
  /\ ServerPages!WalkInv =>
       ServerPages!PageIsSmall /\ ServerPages!RepeatHasCause /\ ServerPages!SkipHasCause
  BY PagesParameters, LitePages!WalkMeans, ServerPages!WalkMeans

-----------------------------------------------------------------------------
(* Each behaviour keeps the inductive invariant of its component. *)
Inv ==
    /\ part \in {"tokens", "login", "response", "pool", "lite", "server"}
    /\ part = "tokens" => TokensInv
    /\ part = "login" => LoginInv
    /\ part = "response" => ResponseInv
    /\ part = "pool" => PoolInv
    /\ part = "lite" => LitePages!WalkInv
    /\ part = "server" => ServerPages!WalkInv

LEMMA Started == Init => Inv
  BY TokensInit, LoginInit, ResponseInit, PoolInit, LiteInit, ServerInit DEF Init, Inv

(* One step is a step of one component, or of none. *)
LEMMA StepsAre ==
  ASSUME [Next]_vars
  PROVE  /\ part' = part
         /\ part = "tokens" => [Tokens!Next]_(Tokens!vars)
         /\ part = "login" => [Login!Next]_(Login!vars)
         /\ part = "response" => [Response!Next]_(Response!vars)
         /\ part = "pool" => [Pool!Next]_(Pool!vars)
         /\ part = "lite" => [LitePages!Next]_(LitePages!vars)
         /\ part = "server" => [ServerPages!Next]_(ServerPages!vars)
<1>1. CASE Next
  BY <1>1 DEF Next
<1>2. CASE UNCHANGED vars
  <2>1. UNCHANGED <<part, auth, limit, http, pool, list>>
    BY <1>2 DEF vars
  <2>2. UNCHANGED Tokens!vars
    BY <2>1 DEF auth, Tokens!vars
  <2>3. UNCHANGED Login!vars
    BY <2>1 DEF limit, Login!vars
  <2>4. UNCHANGED Response!vars
    <3>1. UNCHANGED http
      BY <2>1
    <3>2. /\ layer' = layer /\ exc' = exc /\ started' = started /\ wire' = wire
          /\ broken' = broken /\ status' = status /\ failures' = failures
          /\ counted' = counted /\ completed' = completed /\ context' = context
      BY <3>1 DEF http
    <3> QED
      BY <3>2 DEF Response!vars, Response!sendVars, Response!endVars
  <2>5. UNCHANGED Pool!vars
    BY <2>1 DEF pool, Pool!vars
  <2>6. UNCHANGED LitePages!vars /\ UNCHANGED ServerPages!vars
    BY <2>1 DEF list, LitePages!vars, ServerPages!vars
  <2> QED
    BY <2>1, <2>2, <2>3, <2>4, <2>5, <2>6
<1> QED
  BY <1>1, <1>2

LEMMA Kept == Inv /\ [Next]_vars => Inv'
  BY StepsAre, TokensStep, LoginStep, ResponseStep, PoolStep, LiteStep, ServerStep DEF Inv

LEMMA Always == Spec => []Inv
  BY Started, Kept, PTL DEF Spec

-----------------------------------------------------------------------------
(* Every component keeps its types, the bounds of its log, its pool and    *)
(* its counts among them.                                                  *)
THEOREM TypesHold == Spec => []TypeOK
<1>1. Inv => TypeOK
  BY ResponseHolds, PoolHolds DEF Inv, TypeOK, TokensInv, LoginInv,
     LitePages!WalkInv, ServerPages!WalkInv
<1> QED
  BY <1>1, Always, PTL

(* For any accounts, lifetimes and interleaving of logins, refreshes and   *)
(* requests: a token opens only for the account it was issued to           *)
(* (resolve_current_user, refresh).                                        *)
THEOREM OwnersHold == Spec => OnlyOwner
<1> DEFINE Only == part = "tokens" => Tokens!OnlyOwner
<1>1. ASSUME Inv, [Next]_vars PROVE Only
  BY <1>1, StepsAre, OwnerStep DEF Inv
<1>2. []Inv /\ [][Next]_vars => [][Only]_vars
  BY <1>1, PTL
<1> QED
  BY <1>2, Always DEF Spec, OnlyOwner

(* For any lifetimes: no request begins on a token older than an access    *)
(* token may be, and a start without a secret of its own ends the tokens   *)
(* from before it (decode_token).                                          *)
THEOREM ExpiryHolds == Spec => TokensExpire
<1> DEFINE Expire == part = "tokens" => Tokens!AccessIsShort /\ Tokens!RestartEndsTokens
<1>1. ASSUME Inv, [Next]_vars PROVE Expire
  BY <1>1, StepsAre, ExpiryStep DEF Inv
<1>2. []Inv /\ [][Next]_vars => [][Expire]_vars
  BY <1>1, PTL
<1> QED
  BY <1>2, Always DEF Spec, TokensExpire

(* For any capacity, period and number of attempts: no window lets through *)
(* more than the bucket pays for, and Retry-After names the first second   *)
(* that has a token (the Lua script of LoginRateLimiter).                  *)
THEOREM RetryHolds == Spec => []RetryIsExact
<1>1. Inv => RetryIsExact
  BY BucketHolds DEF Inv, RetryIsExact
<1> QED
  BY <1>1, Always, PTL

(* The refinement: the bucket whose key expires is the one of LoginQuota   *)
(* that never forgets, step for step.                                      *)
THEOREM QuotaRefined == Spec => ImplementsQuota
<1> DEFINE Starts == part = "login" => Login!Quota!Init
           Keeps == part = "login" => Login!KeepsQuota
<1>1. Init => Starts
  BY LoginInit DEF Init, Login!Quota!Init, Login!Full
<1>2. ASSUME Inv, [Next]_vars PROVE Keeps
  BY <1>2, StepsAre, LoginStep DEF Inv
<1>3. []Inv /\ [][Next]_vars => [][Keeps]_vars
  BY <1>2, PTL
<1> QED
  BY <1>1, <1>3, Always DEF Spec, ImplementsQuota

(* For any number of chunks and whatever may fail: one response head, in   *)
(* the project's format, and nothing after its end.                        *)
THEOREM ResponseIsOne == Spec => []OneResponse
<1>1. Inv => OneResponse
  BY ResponseHolds DEF Inv, OneResponse
<1> QED
  BY <1>1, Always, PTL

(* The status that is logged and counted is the one the client got.        *)
THEOREM StatusHolds == Spec => []StatusIsSent
<1>1. Inv => StatusIsSent
  BY ResponseHolds DEF Inv, StatusIsSent
<1> QED
  BY <1>1, Always, PTL

(* Through all layers a failure is logged once and the request counted     *)
(* once, and its log context does not outlive it.                          *)
THEOREM LoggedOnce == Spec => []FailureLoggedOnce
<1>1. Inv => FailureLoggedOnce
  BY ResponseHolds DEF Inv, FailureLoggedOnce
<1> QED
  BY <1>1, Always, PTL

(* For any number and mix of requests and any size of the pool: nobody     *)
(* waits for a connection while holding one.                               *)
THEOREM NobodyHoldsAndWaits == Spec => []NoHoldAndWait
<1>1. Inv => NoHoldAndWait
  BY PoolHolds DEF Inv, NoHoldAndWait
<1> QED
  BY <1>1, Always, PTL

(* For any number of requests, wherever each was interrupted: those that   *)
(* ended hold no connection, and those that arrived after a restart of the *)
(* database never work on one from before.                                 *)
THEOREM AllGivenBack == Spec => []NothingLeaks
<1>1. Inv => NothingLeaks
  BY PoolHolds DEF Inv, NothingLeaks
<1> QED
  BY <1>1, Always, PTL

(* For any size of a page and any number of users that come and go: the    *)
(* walk ends, a page fits its total on SQLite, nobody is listed twice or   *)
(* skipped without its cause (BaseRepository.paginate).                    *)
THEOREM WalkHolds == Spec => []PagesExplained
<1>1. Inv => PagesExplained
  BY PagesHold DEF Inv, PagesExplained
<1> QED
  BY <1>1, Always, PTL
=============================================================================
