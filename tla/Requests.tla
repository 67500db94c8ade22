------------------------------ MODULE Requests ------------------------------
(***************************************************************************)
(* The components a request passes through on its way to a handler and     *)
(* back: authentication, the limit of logins, the layers of the response,  *)
(* the connection pool, the list of users.  Their models share nothing; a  *)
(* behaviour is of one of them, which part names.                          *)
(***************************************************************************)
EXTENDS Integers, FiniteSets

CONSTANTS
    Logins, Bearers, Refreshes, Ids, MaxAccounts, AccessLife, RefreshLife,
    MaxAuthTime, MaxPairs, MaxStarts, SecretConfigured,        \* Tokens
    Attempts, Capacity, Period, Unit, Timeout, MaxLimitTime,   \* LoginRateLimit
    MaxChunks, Faults,                                         \* ResponsePipeline
    PoolRequests, Kind, PoolSize, MaxOverflow, MaxRestarts,
    Stallers, Timeouts,                                        \* ConnectionPool
    PageSize, MaxId                                            \* UserPages

VARIABLES
    part,    \* which component the behaviour is of
    authUsers, accounts, authNow, starts, tokens, pairs, authPc, user, held,
    limitNow, bucket, limitPc, sent, retry, promise,
    layer, exc, started, wire, broken, status, failures, counted, completed,
    context,
    at, conn, idle, stalled, answer, restarts, since,
    listUsers, used, view, page, total, pages, created, deleted

auth == <<authUsers, accounts, authNow, starts, tokens, pairs, authPc, user,
          held>>
limit == <<limitNow, bucket, limitPc, sent, retry, promise>>
http == <<layer, exc, started, wire, broken, status, failures, counted,
          completed, context>>
pool == <<at, conn, idle, stalled, answer, restarts, since>>
list == <<listUsers, used, view, page, total, pages, created, deleted>>
vars == <<part, auth, limit, http, pool, list>>

Tokens == INSTANCE Tokens WITH MaxTime <- MaxAuthTime, users <- authUsers,
            now <- authNow, pc <- authPc
Login == INSTANCE LoginRateLimit WITH Logins <- Attempts,
           MaxTime <- MaxLimitTime, now <- limitNow, pc <- limitPc
Response == INSTANCE ResponsePipeline
Pool == INSTANCE ConnectionPool WITH Requests <- PoolRequests
LitePages == INSTANCE UserPagesProofs WITH Size <- PageSize, Sqlite <- TRUE,
               users <- listUsers
ServerPages == INSTANCE UserPagesProofs WITH Size <- PageSize, Sqlite <- FALSE,
                 users <- listUsers

(* What the settings allow (core/config), and finite sets of requests. *)
ASSUME AuthBounds ==
    /\ {MaxAccounts, AccessLife, RefreshLife, MaxAuthTime, MaxPairs, MaxStarts} \subseteq Nat
    /\ SecretConfigured \in BOOLEAN
ASSUME LimitBounds ==
    /\ {Capacity, Period, Unit} \subseteq Nat \ {0} /\ {Timeout, MaxLimitTime} \subseteq Nat
    /\ IsFiniteSet(Attempts)
ASSUME ResponseBounds == MaxChunks \in Nat
ASSUME PoolBounds ==
    /\ IsFiniteSet(PoolRequests) /\ Kind \in [PoolRequests -> DOMAIN Pool!Program]
    /\ PoolSize \in Nat \ {0} /\ {MaxOverflow, MaxRestarts} \subseteq Nat
    /\ Timeouts \in BOOLEAN
ASSUME PageBounds == PageSize \in Nat \ {0} /\ MaxId \in Nat

(* A component that is not the behaviour's does nothing. *)
NoAuth == authUsers = 0 /\ accounts = 0 /\ authNow = 0 /\ starts = 0
          /\ tokens = 0 /\ pairs = 0 /\ authPc = 0 /\ user = 0 /\ held = 0
NoLimit == limitNow = 0 /\ bucket = 0 /\ limitPc = 0 /\ sent = 0
           /\ retry = 0 /\ promise = 0
NoHttp == layer = 0 /\ exc = 0 /\ started = 0 /\ wire = 0 /\ broken = 0
          /\ status = 0 /\ failures = 0 /\ counted = 0 /\ completed = 0
          /\ context = 0
NoPool == at = 0 /\ conn = 0 /\ idle = 0 /\ stalled = 0 /\ answer = 0
          /\ restarts = 0 /\ since = 0
NoList == listUsers = 0 /\ used = 0 /\ view = 0 /\ page = 0 /\ total = 0
          /\ pages = 0 /\ created = 0 /\ deleted = 0

Init ==
    \/ part = "tokens" /\ Tokens!Init /\ NoLimit /\ NoHttp /\ NoPool
       /\ NoList
    \/ part = "login" /\ Login!Init /\ NoAuth /\ NoHttp /\ NoPool /\ NoList
    \/ part = "response" /\ Response!Init /\ NoAuth /\ NoLimit /\ NoPool
       /\ NoList
    \/ part = "pool" /\ Pool!Init /\ NoAuth /\ NoLimit /\ NoHttp /\ NoList
    \/ part = "lite" /\ LitePages!Init /\ NoAuth /\ NoLimit /\ NoHttp
       /\ NoPool
    \/ part = "server" /\ ServerPages!Init /\ NoAuth /\ NoLimit /\ NoHttp
       /\ NoPool

Next ==
    \/ part = "tokens" /\ Tokens!Next /\ UNCHANGED <<part, limit, http,
       pool, list>>
    \/ part = "login" /\ Login!Next /\ UNCHANGED <<part, auth, http, pool,
       list>>
    \/ part = "response" /\ Response!Next /\ UNCHANGED <<part, auth, limit,
       pool, list>>
    \/ part = "pool" /\ Pool!Next /\ UNCHANGED <<part, auth, limit, http,
       list>>
    \/ part = "lite" /\ LitePages!Next /\ UNCHANGED <<part, auth, limit,
       http, pool>>
    \/ part = "server" /\ ServerPages!Next /\ UNCHANGED <<part, auth, limit,
       http, pool>>

Spec == Init /\ [][Next]_vars

-----------------------------------------------------------------------------
(* Types, in each instance. *)
TypeOK ==
    CASE part = "tokens" -> Tokens!TypeOK
      [] part = "login" -> Login!TypeOK
      [] part = "response" -> Response!TypeOK
      [] part = "pool" -> Pool!TypeOK
      [] part = "lite" -> LitePages!TypeOK
      [] part = "server" -> ServerPages!TypeOK

(* A token opens only for the very account it was issued to, while that    *)
(* exists and is active: whoever has its id now, and whenever the login    *)
(* that issued it had read the row (resolve_current_user, refresh).        *)
OnlyOwner == [][part = "tokens" => Tokens!OnlyOwner]_vars

(* A refresh token opens no route, however long it lives, and a start      *)
(* without a configured secret ends every earlier token (decode_token).    *)
TokensExpire ==
    [][part = "tokens" => Tokens!AccessIsShort /\ Tokens!RestartEndsTokens]_vars

(* Retry-After is exact: a token is there after it and not a second        *)
(* before; and no window lets through more than the bucket pays for.       *)
RetryIsExact == part = "login" => Login!RetryIsExact /\ Login!PassedBounded

(* Seen through what the script would find, the bucket whose key expires   *)
(* is one that is never forgotten (LoginQuota).                            *)
ImplementsQuota ==
    /\ part = "login" => Login!Quota!Init
    /\ [][part = "login" => Login!KeepsQuota]_vars

(* Whatever fails where, one response head in the project's format leaves, *)
(* nothing after its end, and a client that stays gets a whole response or *)
(* a connection that breaks.                                               *)
OneResponse == part = "response" => Response!OneResponse /\ Response!Answered

(* Log and metrics say what the client got, also where a send failed after *)
(* a layer had noted the status.                                           *)
StatusIsSent == part = "response" => Response!StatusIsSent

(* A failure is logged once although several layers see it; the request is *)
(* counted once, and its log context is gone at the end.                   *)
FailureLoggedOnce == part = "response" => Response!FailureLoggedOnce /\ Response!Finished

(* Nobody waits for a connection while holding one: requests cannot        *)
(* exhaust the pool by waiting for each other (get_current_user's session  *)
(* is closed before the handler's opens).                                  *)
NoHoldAndWait == part = "pool" => Pool!NoHoldAndWait

(* Whichever await was interrupted, a request that ended has given its     *)
(* connections back, and none works on one from before a restart of the    *)
(* database (session_scope, pool_pre_ping).                                *)
NothingLeaks == part = "pool" => Pool!NothingLeaks /\ Pool!RestartIsSurvived

(* Pages that were counted and read while users come and go: the walk ends *)
(* in time; on SQLite a page fits its total and repeats nobody; a server   *)
(* may list a user twice only for an id that appeared late; nobody is      *)
(* skipped unless one before was deleted (BaseRepository.paginate).        *)
PagesExplained ==
    CASE part = "lite" -> /\ LitePages!PageIsSmall /\ LitePages!PageMatchesTotal
                          /\ LitePages!RepeatHasCause /\ LitePages!SkipHasCause
      [] part = "server" -> /\ ServerPages!PageIsSmall
                            /\ ServerPages!RepeatHasCause /\ ServerPages!SkipHasCause
      [] OTHER -> TRUE
=============================================================================
