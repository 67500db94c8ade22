-------------------------- MODULE ResponsePipeline --------------------------
(***************************************************************************)
(* One HTTP request through the layers bootstrap/middleware.py stacks, from *)
(* the outside: Starlette's ServerErrorMiddleware ("errors"), context,      *)
(* metrics, the safe exception boundary, the body limit, the login rate     *)
(* limit, Starlette's exception handlers and the route ("app").             *)
(*                                                                          *)
(* Every layer wraps send and sees the messages of the layers inside it; an *)
(* exception leaves them one by one.  Anything may fail at any point: the   *)
(* route before, in or after its response, the server's send, a log call;  *)
(* and the task may be cancelled.                                           *)
(***************************************************************************)
EXTENDS Naturals, Sequences

CONSTANTS
    MaxChunks,  \* bounds the chunks of a streamed body
    Faults      \* what may fail besides the route: subset of {"send", "log"}

VARIABLES
    layer,      \* the layer that runs now
    exc,        \* the exception on its way out, or "none"
    started,    \* the layers that have noted a response head
    wire,       \* what the server was given
    broken,     \* a send has failed or was cancelled
    status,     \* the status metrics and context have noted
    failures,   \* how often request.failed was logged
    counted,    \* the statuses the metrics counted
    completed,  \* the statuses logged as request.completed
    context     \* whose log context is bound

sendVars == <<started, wire, broken, status>>
endVars == <<failures, counted, completed, context>>
vars == <<layer, exc, sendVars, endVars>>

(* Where an exception goes from each layer. *)
Outer == [limit |-> "safe", limiter |-> "safe", app |-> "handlers", handlers |-> "safe",
          safe |-> "metrics", metrics |-> "context", context |-> "errors", errors |-> "server"]

(* AppException, HTTPException and RequestValidationError have handlers;    *)
(* of the others, transient database failures are told from the rest.       *)
Handled == {"app", "http", "validation"}
Transient == {"pool timeout", "connection invalidated", "sqlite busy"}
Exception == Handled \cup Transient \cup {"unexpected"}

StatusOf(e) == CASE e = "app" -> 401
                 [] e = "http" -> 404
                 [] e = "validation" -> 422
                 [] e \in Transient -> 503
                 [] OTHER -> 500

Start(code, format) == [part |-> "start", code |-> code, format |-> format]
Chunk == [part |-> "chunk"]
Last == [part |-> "last"]
IsHead(message) == message.part = "start"

(* error_response *)
Response(code) == <<Start(code, "json"), Last>>

TypeOK ==
    /\ layer \in DOMAIN Outer \cup {"server"}
    /\ exc \in Exception \cup {"none", "cancelled"}
    /\ started \subseteq {"handlers", "safe", "errors"}
    /\ status \in {200, 401, 404, 413, 422, 429, 500, 503}
    /\ failures \in Nat
    /\ context \in {"caller", "request"}
    /\ \A s \in {counted, completed} : Len(s) <= 1
    /\ Len(wire) <= MaxChunks + 2

(* Mutant: a request counts as a success until told otherwise. *)
AssumedOk == 200

(* The status of a request that sends no head. *)
Unsent == 500

(* The context layer has bound the request's log context, and the request  *)
(* reaches the body limit.                                                  *)
Init ==
    /\ layer = "limit" /\ exc = "none"
    /\ started = {} /\ wire = <<>> /\ broken = FALSE /\ status = Unsent
    /\ failures = 0 /\ counted = <<>> /\ completed = <<>>
    /\ context = "request"

-----------------------------------------------------------------------------
(* Which layers' wrappers a head from layer l passes before the server. *)
Noting(l) == CASE l = "app" -> {"handlers", "safe", "errors"}
               [] OTHER -> {"safe", "errors"}

(* Messages leave layer "from": each wrapper notes the head before it      *)
(* awaits the next send.  A send may fail, or be cancelled, at any of them. *)
(* A head is the first of the messages a layer delivers.                    *)
Deliver(from, messages, to) ==
    /\ IF IsHead(messages[1])
       THEN started' = started \cup Noting(from) /\ status' = messages[1].code
       ELSE UNCHANGED <<started, status>>
    /\ \/ /\ ~broken
          /\ wire' = wire \o messages /\ layer' = to /\ exc' = "none" /\ UNCHANGED broken
       \/ \E n \in 0..(Len(messages) - 1), e \in {"unexpected", "cancelled"} :
            /\ broken => n = 0
            /\ e = "unexpected" => broken \/ "send" \in Faults
            /\ broken' = TRUE
            /\ wire' = wire \o SubSeq(messages, 1, n)
            /\ layer' = Outer[from] /\ exc' = e

(* Mutant: the body of the replaced response follows. *)
ReplacedHeadOnly(messages) == Response(413) \o Tail(messages)

(* BodyLimitMiddleware.send_response: a plain 413 becomes the error         *)
(* response, and what followed it is dropped.                               *)
Replaced(messages) ==
    IF messages[1] = Start(413, "plain") THEN Response(413) ELSE messages

(* The body limit refuses early, in plain text, or lets the request in. *)
Limit ==
    /\ layer = "limit" /\ exc = "none"
    /\ \/ Deliver("limit", Replaced(<<Start(413, "plain"), Last>>), "metrics")
       \/ layer' = "limiter" /\ UNCHANGED <<exc, sendVars>>
    /\ UNCHANGED endVars

(* The login rate limit (module LoginRateLimit) answers, or passes it on. *)
Limiter ==
    /\ layer = "limiter" /\ exc = "none"
    /\ \/ \E code \in {429, 503} : Deliver("limiter", Response(code), "metrics")
       \/ layer' = "app" /\ UNCHANGED <<exc, sendVars>>
    /\ UNCHANGED endVars

(* The route answers, at once or chunk by chunk. *)
Route ==
    /\ layer = "app" /\ exc = "none"
    /\ IF started = {} THEN Deliver("app", <<Start(200, "json")>>, "app")
       ELSE \/ Len(wire) <= MaxChunks /\ Deliver("app", <<Chunk>>, "app")
            \/ Deliver("app", <<Last>>, "metrics")
    /\ UNCHANGED endVars

(* It fails; or the task is cancelled at a send or any other await. *)
Raise ==
    /\ layer \in {"limit", "limiter", "app"} /\ exc = "none"
    /\ exc' \in IF layer = "app" THEN Exception \cup {"cancelled"} ELSE {"cancelled"}
    /\ layer' = Outer[layer]
    /\ UNCHANGED <<sendVars, endVars>>

(* Starlette's handlers: a known exception is answered unless the route    *)
(* has started to; then, and any other, an exception goes on.              *)
Handlers ==
    /\ layer = "handlers"
    /\ IF exc \in Handled /\ "handlers" \notin started
       THEN Deliver("handlers", Response(StatusOf(exc)), "metrics")
       ELSE /\ exc' = IF exc \in Handled THEN "unexpected" ELSE exc
            /\ layer' = "safe" /\ UNCHANGED sendVars
    /\ UNCHANGED endVars

(* Mutant: every layer that meets the exception logs it. *)
LogAgain == failures' = failures + 1

(* unexpected_exception_handler logs an exception of this request once. *)
LogFailure == failures' = IF failures = 0 THEN 1 ELSE failures

(* Mutant: the boundary answers without asking whether a head has left. *)
SafeAlways ==
    /\ layer = "safe"
    /\ IF exc = "cancelled" THEN layer' = "metrics" /\ UNCHANGED <<exc, sendVars, failures>>
       ELSE Deliver("safe", Response(StatusOf(exc)), "metrics") /\ LogFailure
    /\ UNCHANGED <<counted, completed, context>>

(* SafeExceptionMiddleware *)
Safe ==
    /\ layer = "safe"
    /\ IF exc = "cancelled" THEN UNCHANGED failures ELSE LogFailure
    /\ IF exc = "cancelled" \/ "safe" \in started
       THEN layer' = "metrics" /\ UNCHANGED <<exc, sendVars>>
       ELSE Deliver("safe", Response(StatusOf(exc)), "metrics")
    /\ UNCHANGED <<counted, completed, context>>

(* MetricsMiddleware's finally clause. *)
Metrics ==
    /\ layer = "metrics" /\ layer' = "context"
    /\ counted' = Append(counted, status)
    /\ UNCHANGED <<exc, sendVars, failures, completed, context>>

(* RequestContextMiddleware's nested finally clauses. *)
Context ==
    /\ layer = "context" /\ layer' = "errors"
    /\ \/ completed' = Append(completed, status) /\ UNCHANGED exc
       \/ "log" \in Faults /\ exc' = "unexpected" /\ UNCHANGED completed
    /\ context' = "caller"
    /\ UNCHANGED <<sendVars, failures, counted>>

(* ServerErrorMiddleware calls the handler, answers if no head has left,   *)
(* and lets the exception go on to the server.                              *)
Errors ==
    /\ layer = "errors" /\ layer' = "server"
    /\ IF exc \in {"none", "cancelled"} THEN UNCHANGED <<sendVars, failures>>
       ELSE /\ LogFailure
            /\ IF "errors" \in started \/ broken THEN UNCHANGED sendVars
               ELSE wire' = wire \o Response(StatusOf(exc)) /\ UNCHANGED <<started, broken, status>>
    /\ UNCHANGED <<exc, counted, completed, context>>

Next == Limit \/ Limiter \/ Route \/ Raise \/ Handlers \/ Safe \/ Metrics \/ Context \/ Errors

Spec == Init /\ [][Next]_vars

-----------------------------------------------------------------------------
Over == layer = "server"

(* Whatever fails where, the server gets one response head, first, nothing *)
(* after the end of the body, and errors only in the project's format.     *)
OneResponse ==
    \A i \in DOMAIN wire :
        /\ IsHead(wire[i]) <=> i = 1
        /\ IsHead(wire[i]) => wire[i].format = "json"
        /\ wire[i] = Last => i = Len(wire)

(* A request that is neither cancelled nor cut off by its client has got a *)
(* whole response, or one that the server breaks off (an exception it sees).*)
Answered ==
    Over /\ ~broken /\ exc = "none" => wire # <<>> /\ wire[Len(wire)] = Last

(* Metrics and log agree with what the client got, and call a request that *)
(* sent nothing a 500.                                                      *)
StatusIsSent ==
    \A s \in {counted, completed} : s # <<>> =>
        IF wire = <<>> THEN s[1] = 500 \/ broken ELSE s[1] = wire[1].code

(* An exception the server or the client sees as a failure is in the log,  *)
(* and there once, although several layers handle it.                      *)
FailureLoggedOnce ==
    /\ failures <= 1
    /\ Over /\ (exc \in Exception \/ (wire # <<>> /\ wire[1].code = 500)) => failures = 1

(* However it ends, a request is counted once and leaves the caller's log  *)
(* context behind; its completion is logged unless the log call fails.     *)
Finished ==
    Over => /\ Len(counted) = 1
            /\ context = "caller"
            /\ completed = <<>> => "log" \in Faults /\ exc = "unexpected"
=============================================================================
