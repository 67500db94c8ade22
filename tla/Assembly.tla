------------------------------ MODULE Assembly ------------------------------
(***************************************************************************)
(* From the environment variables to a process that works: the validators  *)
(* of Settings (core/config), what create_app, startup and create_worker   *)
(* build from the settings they accepted, and what a request or a message  *)
(* then relies on.  The validators stand in six classes; the assertions    *)
(* and lookups that trust them stand elsewhere.                            *)
(*                                                                         *)
(* An optional package may be missing and a service may be down wherever   *)
(* it is imported or asked.  Lifespan says what a failed start leaves.     *)
(***************************************************************************)
EXTENDS Naturals

CONSTANTS
    Urls,       \* what a connection URL may be: "none", "bad", "good"
    Secrets,    \* what JWT_SECRET may be: "none", "short", "long"
    Databases   \* the dialects: subset of {"sqlite", "postgresql", "mysql"}

VARIABLES
    settings,   \* what the environment says
    process,    \* "web" or "worker"
    pc,
    registry,   \* the storage backends registered
    made,       \* the clients and middleware made
    missed,     \* the feature whose package or service was missing
    answer      \* how the last request or message went

vars == <<settings, process, pc, registry, made, missed, answer>>

Feature == {"redis", "celery", "oss", "cos", "metrics"}
Setting == [production : BOOLEAN, debug : BOOLEAN, jwt_secret : Secrets,
            database : Databases, driver : Databases,
            redis_enabled : BOOLEAN, redis_url : Urls, login_rate_limit_enabled : BOOLEAN,
            celery_enabled : BOOLEAN, celery_broker_url : Urls,
            storage_backend : {"local", "oss", "cos"}, storage_oss : BOOLEAN,
            storage_cos : BOOLEAN, metrics_enabled : BOOLEAN, file_fits_body : BOOLEAN]

TypeOK ==
    /\ settings \in Setting /\ process \in {"web", "worker"}
    /\ pc \in {"load", "registry", "metrics", "middleware", "redis", "ping", "celery",
               "broker", "up", "rejected", "failed", "assertion", "no app"}
    /\ registry \subseteq {"local", "oss", "cos"}
    /\ made \subseteq {"metrics", "limiter", "redis", "celery"}
    /\ missed \in Feature \cup {"none"}
    /\ answer \in {"none", "served", "unavailable", "error"}
    /\ process = "worker" => registry = {} /\ made \subseteq {"celery"}

Init ==
    /\ settings \in Setting /\ process \in {"web", "worker"} /\ pc = "load"
    /\ registry = {} /\ made = {} /\ missed = "none" /\ answer = "none"

-----------------------------------------------------------------------------
ValidApp == settings.production => ~settings.debug /\ settings.jwt_secret # "none"
ValidSecurity == settings.jwt_secret # "short"
ValidDatabase == settings.driver = settings.database

(* Mutant: a URL is checked when there is one. *)
ValidUrlIfGiven(enabled, url) == enabled => url # "bad"

(* validate_redis, validate_celery: only what is enabled is looked at. *)
ValidUrl(enabled, url) == enabled => url = "good"

ValidStorage ==
    /\ settings.storage_backend = "oss" => settings.storage_oss
    /\ settings.storage_backend = "cos" => settings.storage_cos

(* validate_configuration, beside the rules for production. *)
ValidTogether ==
    /\ settings.login_rate_limit_enabled => settings.redis_enabled
    /\ settings.file_fits_body

Accepted ==
    /\ ValidApp /\ ValidSecurity /\ ValidDatabase /\ ValidStorage /\ ValidTogether
    /\ ValidUrl(settings.redis_enabled, settings.redis_url)
    /\ ValidUrl(settings.celery_enabled, settings.celery_broker_url)

Go(to) == pc' = to
Miss(feature) == missed' = feature /\ Go("failed")
Make(thing) == made' = made \cup {thing}

(* get_settings *)
Load ==
    /\ pc = "load"
    /\ Go(IF ~Accepted THEN "rejected" ELSE IF process = "web" THEN "registry" ELSE "celery")
    /\ UNCHANGED <<settings, process, registry, made, missed, answer>>

Configured == {b \in {"oss", "cos"} : IF b = "oss" THEN settings.storage_oss
                                                   ELSE settings.storage_cos}

(* create_storage_registry: every configured backend, each importing its   *)
(* SDK; then registry.get() of the default one.                            *)
Registry ==
    /\ pc = "registry"
    /\ \/ /\ registry' = {"local"} \cup Configured /\ UNCHANGED missed
          /\ Go(IF settings.storage_backend \in registry' THEN "metrics" ELSE "assertion")
       \/ \E b \in Configured : Miss(b) /\ UNCHANGED registry
    /\ UNCHANGED <<settings, process, made, answer>>

(* register_metrics *)
Metrics ==
    /\ pc = "metrics"
    /\ IF settings.metrics_enabled
       THEN \/ Make("metrics") /\ Go("middleware") /\ UNCHANGED missed
            \/ Miss("metrics") /\ UNCHANGED made
       ELSE Go("middleware") /\ UNCHANGED <<made, missed>>
    /\ UNCHANGED <<settings, process, registry, answer>>

(* register_middleware; then the server calls startup. *)
Middleware ==
    /\ pc = "middleware" /\ Go("redis")
    /\ IF settings.login_rate_limit_enabled THEN Make("limiter") ELSE UNCHANGED made
    /\ UNCHANGED <<settings, process, registry, missed, answer>>

(* create_redis_client, up to the assertion that there is a URL ... *)
Redis ==
    /\ pc = "redis"
    /\ IF settings.redis_enabled
       THEN \/ Go(IF settings.redis_url = "none" THEN "assertion" ELSE "ping") /\ UNCHANGED missed
            \/ Miss("redis")
       ELSE Go("celery") /\ UNCHANGED missed
    /\ UNCHANGED <<settings, process, registry, made, answer>>

(* ... and the first ping. *)
Ping ==
    /\ pc = "ping"
    /\ \/ settings.redis_url = "good" /\ Make("redis") /\ Go("celery") /\ UNCHANGED missed
       \/ Miss("redis") /\ UNCHANGED made
    /\ UNCHANGED <<settings, process, registry, answer>>

(* create_celery_app, with the assertion of celery_configuration; a worker *)
(* registers its tasks and runs, or has no application at all.             *)
Celery ==
    /\ pc = "celery"
    /\ IF ~settings.celery_enabled
       THEN Go(IF process = "web" THEN "up" ELSE "no app") /\ UNCHANGED <<made, missed>>
       ELSE \/ /\ settings.celery_broker_url # "none"
               /\ Make("celery") /\ Go("broker") /\ UNCHANGED missed
            \/ settings.celery_broker_url = "none" /\ Go("assertion") /\ UNCHANGED <<made, missed>>
            \/ Miss("celery") /\ UNCHANGED made
    /\ UNCHANGED <<settings, process, registry, answer>>

(* check_broker; the worker's own connection is Celery's. *)
Broker ==
    /\ pc = "broker"
    /\ \/ settings.celery_broker_url = "good" /\ Go("up") /\ UNCHANGED missed
       \/ Miss("celery")
    /\ UNCHANGED <<settings, process, registry, made, answer>>

(* POST /auth/login: the limiter asks app.state.redis, whatever it is. *)
Login ==
    /\ pc = "up" /\ process = "web"
    /\ answer' \in IF "limiter" \in made /\ "redis" \notin made THEN {"unavailable"}
                   ELSE IF "limiter" \in made THEN {"served", "unavailable"} ELSE {"served"}
    /\ missed' = IF answer' = "unavailable" /\ "redis" \in made THEN "redis" ELSE "none"
    /\ UNCHANGED <<settings, process, pc, registry, made>>

(* POST /files: the default backend, which may be down. *)
Upload ==
    /\ pc = "up" /\ process = "web"
    /\ LET b == settings.storage_backend
       IN  \/ b \notin registry /\ answer' = "error" /\ missed' = "none"
           \/ b \in registry /\ answer' = "served" /\ missed' = "none"
           \/ b \in registry \ {"local"} /\ answer' = "unavailable" /\ missed' = b
    /\ UNCHANGED <<settings, process, pc, registry, made>>

Next == \/ Load \/ Registry \/ Metrics \/ Middleware \/ Redis \/ Ping \/ Celery \/ Broker
        \/ Login \/ Upload

Spec == Init /\ [][Next]_vars

-----------------------------------------------------------------------------
(* Settings that are accepted suffice: no assertion and no lookup further  *)
(* on finds something missing, and what keeps a process from starting or a *)
(* request from being served is a package or service that is not there.    *)
AcceptedSuffices ==
    /\ pc # "assertion" /\ answer # "error"
    /\ pc = "failed" \/ answer = "unavailable" => missed # "none"

Enabled(feature) ==
    CASE feature = "redis" -> settings.redis_enabled
      [] feature = "celery" -> settings.celery_enabled
      [] feature = "oss" -> settings.storage_oss
      [] feature = "cos" -> settings.storage_cos
      [] OTHER -> settings.metrics_enabled

(* A feature that is not enabled costs nothing: neither its package nor    *)
(* its service nor its settings are needed to start and to serve.          *)
DisabledIsNotMissed == missed # "none" => Enabled(missed)
=============================================================================
