------------------------------- MODULE Tokens -------------------------------
(***************************************************************************)
(* Login, refresh, logout and the authentication of every protected route  *)
(* (modules/auth/service.py, core/security/token.py): signed tokens that   *)
(* no server stores, over accounts that are disabled, deleted and, where   *)
(* the database gives an id again, replaced while a request is under way.  *)
(*                                                                         *)
(* Reads happen at their await; on SQLite an open read delays the accounts' *)
(* changes, so what a server dialect allows includes what SQLite does.     *)
(***************************************************************************)
EXTENDS Naturals

CONSTANTS
    Logins,            \* requests to /auth/login
    Bearers,           \* requests with an access token (a route, or logout)
    Refreshes,         \* requests to /auth/refresh
    Ids,               \* user ids, which may be given again
    MaxAccounts,       \* bounds the accounts ever created
    AccessLife,        \* seconds an access token lives
    RefreshLife,       \* seconds a refresh token lives
    MaxTime,           \* bounds the clock
    MaxPairs,          \* bounds the token pairs issued
    MaxStarts,         \* bounds the restarts
    SecretConfigured   \* BOOLEAN: jwt_secret is set, so it outlives the process

Holders == Bearers \cup Refreshes
Request == Logins \cup Holders

VARIABLES
    users,     \* id -> the account under it, with its random auth_id
    accounts,  \* how many accounts were ever created
    now,       \* the wall clock, in seconds
    starts,    \* how often the process was restarted
    tokens,    \* the tokens issued and not lost
    pairs,     \* how many pairs were issued
    pc,        \* where a request stands, or its answer
    user,      \* the row a login read
    held       \* the token a holder presented

vars == <<users, accounts, now, starts, tokens, pairs, pc, user, held>>

NoUser == [id |-> 0, auth |-> 0, active |-> FALSE]
User == [id : Ids, auth : 1..MaxAccounts, active : BOOLEAN] \cup {NoUser}
TokenType == {"access", "refresh"}
Token == [id : Ids, auth : 1..MaxAccounts, type : TokenType, iat : 0..MaxTime,
          exp : 0..(MaxTime + AccessLife + RefreshLife), start : 0..MaxStarts]
NoToken == [id |-> 0]

Answer == {"issued", "granted", "loggedOut", "unauthorized", "disabled", "dead"}

TypeOK ==
    /\ users \in [Ids -> User]
    /\ accounts \in 0..MaxAccounts
    /\ now \in 0..MaxTime
    /\ starts \in 0..MaxStarts
    /\ pairs \in 0..MaxPairs
    /\ tokens \subseteq Token
    /\ pc \in [Request -> {"new", "verifying", "looking"} \cup Answer]
    /\ user \in [Request -> User]
    /\ held \in [Request -> Token \cup {NoToken}]

Init ==
    /\ users = [i \in Ids |-> NoUser]
    /\ accounts = 0 /\ now = 0 /\ starts = 0
    /\ tokens = {} /\ pairs = 0
    /\ pc = [r \in Request |-> "new"]
    /\ user = [r \in Request |-> NoUser]
    /\ held = [r \in Request |-> NoToken]

accountVars == <<users, accounts>>
clockVars == <<now, starts>>

-----------------------------------------------------------------------------
(* A random secret dies with its process. *)
Key(start) == IF SecretConfigured THEN 0 ELSE start

NewToken(u, type) ==
    [id |-> u.id, auth |-> u.auth, type |-> type, iat |-> now, start |-> starts,
     exp |-> now + IF type = "access" THEN AccessLife ELSE RefreshLife]

CreatePair(u) ==
    /\ pairs < MaxPairs /\ pairs' = pairs + 1
    /\ tokens' = tokens \cup {NewToken(u, type) : type \in TokenType}

NoPair == UNCHANGED <<tokens, pairs>>

(* Mutant: the type claim is not compared. *)
DecodesAnyType(t, type) == Key(t.start) = Key(starts) /\ t.exp > now /\ t.exp > t.iat

(* decode_token: signature, expiry, use. *)
Decodes(t, type) ==
    Key(t.start) = Key(starts) /\ t.type = type /\ t.exp > now /\ t.exp > t.iat

Move(r, at, to) == pc[r] = at /\ pc' = [pc EXCEPT ![r] = to]

(* login reads the row, if there is one, and verifies the password (or a   *)
(* dummy hash) in a thread; the answer comes from what it read.            *)
LoginReads(r) ==
    /\ Move(r, "new", "verifying")
    /\ \E u \in {users[i] : i \in Ids} \cup {NoUser} : user' = [user EXCEPT ![r] = u]
    /\ UNCHANGED <<accountVars, clockVars, tokens, pairs, held>>

LoginAnswers(r) ==
    /\ \/ Move(r, "verifying", "unauthorized") /\ NoPair
       \/ user[r].active /\ Move(r, "verifying", "issued") /\ CreatePair(user[r])
    /\ UNCHANGED <<accountVars, clockVars, user, held>>

(* A token is presented as a bearer token or in the body of a refresh; the *)
(* default store calls none revoked.                                       *)
Use(r) == IF r \in Bearers THEN "access" ELSE "refresh"

Present(r, t) ==
    /\ Move(r, "new", IF Decodes(t, Use(r)) THEN "looking" ELSE "unauthorized")
    /\ held' = [held EXCEPT ![r] = t]
    /\ UNCHANGED <<accountVars, clockVars, tokens, pairs, user>>

(* Mutant: the id alone identifies the account. *)
IsOwnerById(u, t) == u # NoUser

IsOwner(u, t) == u # NoUser /\ u.auth = t.auth

(* _authenticate's read of the row: a refresh issues a new pair and keeps  *)
(* the old token, an access token opens the route, logout revokes nothing. *)
Authenticate(r) ==
    LET u == users[held[r].id] IN
    /\ pc[r] = "looking"
    /\ \/ ~IsOwner(u, held[r]) /\ Move(r, "looking", "unauthorized") /\ NoPair
       \/ IsOwner(u, held[r]) /\ ~u.active /\ Move(r, "looking", "disabled") /\ NoPair
       \/ /\ IsOwner(u, held[r]) /\ u.active
          /\ IF r \in Refreshes
             THEN Move(r, "looking", "issued") /\ CreatePair(u)
             ELSE \E a \in {"granted", "loggedOut"} : Move(r, "looking", a) /\ NoPair
    /\ UNCHANGED <<accountVars, clockVars, user, held>>

-----------------------------------------------------------------------------
(* The administrators' changes, as each commits (module Accounts). *)
Create(i) ==
    /\ users[i] = NoUser /\ accounts < MaxAccounts
    /\ accounts' = accounts + 1
    /\ users' = [users EXCEPT ![i] = [id |-> i, auth |-> accounts + 1, active |-> TRUE]]

SetActive(i) ==
    /\ users[i] # NoUser
    /\ users' = [users EXCEPT ![i].active = ~@]
    /\ UNCHANGED accounts

Delete(i) ==
    /\ users[i] # NoUser
    /\ users' = [users EXCEPT ![i] = NoUser]
    /\ UNCHANGED accounts

Administer ==
    /\ \E i \in Ids : Create(i) \/ SetActive(i) \/ Delete(i)
    /\ UNCHANGED <<clockVars, tokens, pairs, pc, user, held>>

Tick ==
    /\ now < MaxTime /\ now' = now + 1
    /\ UNCHANGED <<accountVars, starts, tokens, pairs, pc, user, held>>

(* register_providers runs again; the requests under way are lost. *)
Restart ==
    /\ starts < MaxStarts /\ starts' = starts + 1
    /\ pc' = [r \in Request |-> IF pc[r] \in {"verifying", "looking"} THEN "dead" ELSE pc[r]]
    /\ UNCHANGED <<accountVars, now, tokens, pairs, user, held>>

Next ==
    \/ \E r \in Logins : LoginReads(r) \/ LoginAnswers(r)
    \/ \E r \in Holders, t \in tokens : Present(r, t)
    \/ \E r \in Holders : Authenticate(r)
    \/ Administer
    \/ Tick
    \/ Restart

Spec == Init /\ [][Next]_vars

-----------------------------------------------------------------------------
Accepted(r) == pc[r] = "looking" /\ pc'[r] \in {"issued", "granted", "loggedOut"}

(* A token is accepted only while the very account it was issued to exists *)
(* and is active, whoever has its id now, and whenever the login that      *)
(* issued it had read the row.                                             *)
OnlyOwner ==
    \A r \in Holders : Accepted(r) =>
        \E i \in Ids : users[i].auth = held[r].auth /\ users[i].active

(* No route opens to a token older than an access token may be: a refresh  *)
(* token buys a new pair and nothing else.                                 *)
AccessIsShort ==
    \A r \in Bearers : pc[r] = "new" /\ pc'[r] = "looking" =>
        now - held'[r].iat < AccessLife

(* Where no secret is configured, a start ends every token issued before.  *)
RestartEndsTokens ==
    \A r \in Holders : ~SecretConfigured /\ Accepted(r) => held[r].start = starts
=============================================================================
