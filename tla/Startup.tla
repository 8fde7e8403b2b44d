------------------------------- MODULE Startup -------------------------------
(* One process from main() to its exit: the environment is loaded through a  *)
(* profile and linted, the dependencies are opened one after the other, the  *)
(* modules register their routes, requests are served, and a signal or a     *)
(* failing listener ends it all (cmd/api/main.go, core/config, core/app).    *)
(* An environment is a function from the variables it sets to their values,  *)
(* members of small sets: "empty" for a variable set to nothing, "junk" for  *)
(* text that does not parse, and one value per case the code tells apart. A  *)
(* configuration has every key; "unset" is the empty string of a text.       *)
EXTENDS Integers, Sequences, FiniteSets

CONSTANTS Environments,   \* the environments the process may be started in
          Requests        \* writes that arrive while it serves

-----------------------------------------------------------------------------
(* The variables of the environment.                                         *)

Switches == {"AUTH_ENABLED", "EMAIL_ENABLED", "RATELIMIT_ENABLED", "RATELIMIT_FAIL_OPEN",
             "CACHE_ENABLED", "CACHE_FAIL_OPEN", "PERMISSIONS_ENABLED", "POSTGRES_ENABLED",
             "REDIS_ENABLED", "MONGO_ENABLED", "MONGO_BOOTSTRAP_ENABLED", "METRICS_ENABLED",
             "TRACING_ENABLED", "HTTP_MIDDLEWARE_CORS_ALLOW_CREDENTIALS"}

Positive == {"HTTP_WRITE_TIMEOUT", "HTTP_SHUTDOWN_TIMEOUT", "RATELIMIT_DEFAULT_LIMIT",
             "CACHE_DEFAULT_MAX_BYTES", "PERMISSIONS_REDIS_TTL", "MONGO_MAX_POOL_SIZE",
             "POSTGRES_MAX_CONNS", "REDIS_POOL_SIZE"}

NotNegative == {"HTTP_MIDDLEWARE_REQUEST_TIMEOUT", "CACHE_TAG_VERSION_CACHE_TTL",
                "MONGO_MIN_POOL_SIZE", "POSTGRES_MIN_CONNS", "REDIS_MIN_IDLE_CONNS"}

Bounded == {<<"HTTP_MIDDLEWARE_REQUEST_TIMEOUT", "HTTP_WRITE_TIMEOUT">>,
            <<"MONGO_MIN_POOL_SIZE", "MONGO_MAX_POOL_SIZE">>,
            <<"POSTGRES_MIN_CONNS", "POSTGRES_MAX_CONNS">>,
            <<"REDIS_MIN_IDLE_CONNS", "REDIS_POOL_SIZE">>}

Numbers == Positive \cup NotNegative

\* the settings that lead to a store
Locations == {"POSTGRES_URL", "REDIS_ADDR", "MONGO_URL", "MONGO_DB"}

Texts == Locations \cup {"APP_PROFILE", "APP_ENV", "AUTH_MODE", "WEB_APP_BASE_URL",
            "PERMISSION_CONTEXT_SECRET", "METRICS_AUTH_TOKEN", "RESEND_API_KEY",
            "CORS_ALLOW_ORIGINS", "LOG_LEVEL"}

Keys == Switches \cup Numbers \cup Texts

\* an order on the values of numbers: the defaults are "small" and "mid"
Size == [neg |-> -1, zero |-> 0, small |-> 1, mid |-> 2, large |-> 3]

ValuesOf(k) ==
  CASE k \in Switches -> {"true", "false", "junk", "empty"}
    [] k \in Numbers  -> DOMAIN Size \cup {"junk", "empty"}
    [] k \in Locations -> {"set", "blank"}
    [] k = "APP_PROFILE" -> {"minimal", "dev", "prod", "junk"}
    [] k = "APP_ENV" -> {"dev", "production"}
    [] k = "AUTH_MODE" -> {"strict", "jwt_only", "junk"}
    [] k = "WEB_APP_BASE_URL" -> {"public", "localhost", "relative"}
    [] k = "PERMISSION_CONTEXT_SECRET" -> {"strong", "short", "known"}
    [] k = "METRICS_AUTH_TOKEN" -> {"strong", "short", "placeholder"}
    [] k = "RESEND_API_KEY" -> {"set", "blank"}
    [] k = "CORS_ALLOW_ORIGINS" -> {"wildcard", "site", "junk"}
    [] k = "LOG_LEVEL" -> {"info", "junk"}

\* the environments told apart: variables of the program with their values
EnvironmentsTyped ==
  \A e \in Environments : DOMAIN e \subseteq Keys /\ \A k \in DOMAIN e : e[k] \in ValuesOf(k)

ASSUME EnvironmentsAssumption == EnvironmentsTyped

-----------------------------------------------------------------------------
(* Loading. *)

IsProd(name) == name = "production"

\* defaults of a profile; a profile sets nothing else
ProfileDefault(profile) ==
  CASE profile = "minimal" -> [APP_ENV |-> "dev", AUTH_ENABLED |-> "false",
         EMAIL_ENABLED |-> "false", WEB_APP_BASE_URL |-> "localhost",
         CACHE_ENABLED |-> "false", RATELIMIT_ENABLED |-> "false",
         PERMISSIONS_ENABLED |-> "false", MONGO_ENABLED |-> "true", MONGO_URL |-> "set",
         POSTGRES_ENABLED |-> "true", POSTGRES_URL |-> "set",
         REDIS_ENABLED |-> "true", REDIS_ADDR |-> "set"]
    [] profile \in {"dev", "prod"} -> [APP_ENV |-> IF profile = "prod" THEN "production" ELSE "dev",
         AUTH_ENABLED |-> "true", AUTH_MODE |-> IF profile = "prod" THEN "strict" ELSE "jwt_only",
         EMAIL_ENABLED |-> "false", WEB_APP_BASE_URL |-> "localhost",
         CACHE_ENABLED |-> "true", CACHE_FAIL_OPEN |-> IF profile = "prod" THEN "false" ELSE "true",
         RATELIMIT_ENABLED |-> "true",
         RATELIMIT_FAIL_OPEN |-> IF profile = "prod" THEN "false" ELSE "true",
         RATELIMIT_DEFAULT_LIMIT |-> "large", PERMISSIONS_ENABLED |-> "true",
         MONGO_ENABLED |-> "true", MONGO_URL |-> "set", POSTGRES_ENABLED |-> "true",
         POSTGRES_URL |-> "set", REDIS_ENABLED |-> "true", REDIS_ADDR |-> "set",
         METRICS_AUTH_TOKEN |-> IF profile = "prod" THEN "placeholder" ELSE "unset"]
    [] OTHER -> [none |-> "unset"]

\* os.Getenv
Env(e, k) == IF k \in DOMAIN e THEN e[k] ELSE "unset"

KnownProfile(e) == Env(e, "APP_PROFILE") \in {"unset", "minimal", "dev", "prod"}

\* the raw value a getter sees: an empty variable counts as absent
Raw(e, k) ==
  LET defaults == ProfileDefault(Env(e, "APP_PROFILE"))
  IN IF Env(e, k) \notin {"unset", "empty"} THEN e[k]
     ELSE IF k \in DOMAIN defaults THEN defaults[k] ELSE "unset"

AppEnv(e) == IF Raw(e, "APP_ENV") = "unset" THEN "dev" ELSE Raw(e, "APP_ENV")

\* what stands in the code when neither environment nor profile has the key
Fallback(e, k) ==
  CASE k \in {"RATELIMIT_FAIL_OPEN", "CACHE_FAIL_OPEN"} ->
         IF IsProd(AppEnv(e)) THEN "false" ELSE "true"
    [] k \in {"EMAIL_ENABLED", "TRACING_ENABLED", "HTTP_MIDDLEWARE_CORS_ALLOW_CREDENTIALS"} -> "false"
    [] k \in Switches -> "true"
    [] k \in Positive -> "mid"
    [] k = "HTTP_MIDDLEWARE_REQUEST_TIMEOUT" -> "small"
    [] k \in NotNegative -> "zero"
    [] k \in Locations -> "set"
    [] k = "APP_ENV" -> "dev"
    [] k = "AUTH_MODE" -> "hybrid"
    [] k = "WEB_APP_BASE_URL" -> "localhost"
    [] k = "LOG_LEVEL" -> "info"
    [] OTHER -> "unset"

\* a typed value that does not parse is replaced by the code's default without a word
Typed(e, k) == IF Raw(e, k) \in {"unset", "junk"} THEN Fallback(e, k) ELSE Raw(e, k)

LoadFrom(e) ==
  [k \in Keys |-> IF k \in Switches \cup Numbers THEN Typed(e, k)
                  ELSE IF Raw(e, k) = "unset" THEN Fallback(e, k) ELSE Raw(e, k)]

-----------------------------------------------------------------------------
(* Linting: of the loaded configuration c, and again of the environment e.   *)

On(c, k) == c[k] = "true"

HTTPRules(c) ==
  ~ (On(c, "HTTP_MIDDLEWARE_CORS_ALLOW_CREDENTIALS") /\ c["CORS_ALLOW_ORIGINS"] = "wildcard")

OriginRules(c) == c["CORS_ALLOW_ORIGINS"] # "junk"

EmailRules(c) ==
  On(c, "EMAIL_ENABLED") => /\ c["RESEND_API_KEY"] = "set"
                            /\ c["WEB_APP_BASE_URL"] # "relative"

ExplicitlySet(e) ==
  \A k \in Locations \cup {"PERMISSION_CONTEXT_SECRET", "WEB_APP_BASE_URL"} :
     Env(e, k) \notin {"unset", "empty", "blank"}

StrongSecret(e) == Env(e, "PERMISSION_CONTEXT_SECRET") = "strong"

StrongToken(c) == c["METRICS_AUTH_TOKEN"] = "strong"

\* mutant: only the name of the environment counts
HardeningByEnv(e, c) ==
  IsProd(c["APP_ENV"]) => StrongSecret(e) /\ c["WEB_APP_BASE_URL"] = "public"
                          /\ (On(c, "METRICS_ENABLED") => StrongToken(c)) /\ ExplicitlySet(e)

Hardening(e, c) ==
  IsProd(c["APP_ENV"]) \/ c["APP_PROFILE"] = "prod" =>
     /\ StrongSecret(e)
     /\ c["WEB_APP_BASE_URL"] = "public"
     /\ On(c, "METRICS_ENABLED") => StrongToken(c) /\ Env(e, "METRICS_AUTH_TOKEN") # "unset"
     /\ On(c, "EMAIL_ENABLED") => Env(e, "RESEND_API_KEY") = "set"
     /\ ExplicitlySet(e)

StoresRequired(c) ==
  /\ \A k \in {"POSTGRES_ENABLED", "REDIS_ENABLED", "MONGO_ENABLED"} : On(c, k)
  /\ \A k \in Locations : c[k] # "blank"

InRange(c) ==
  /\ \A k \in Positive : Size[c[k]] > 0
  /\ \A k \in NotNegative : Size[c[k]] >= 0
  /\ \A p \in Bounded : Size[c[p[1]]] <= Size[c[p[2]]]

FailClosed(c) ==
  IsProd(c["APP_ENV"]) =>
     /\ ~ (On(c, "RATELIMIT_ENABLED") /\ On(c, "RATELIMIT_FAIL_OPEN"))
     /\ ~ (On(c, "CACHE_ENABLED") /\ On(c, "CACHE_FAIL_OPEN"))

\* mutant: the variable of the limiter is forgotten as well
LintedLess == (Switches \cup Numbers) \
                {"CACHE_ENABLED", "CACHE_FAIL_OPEN", "CACHE_DEFAULT_MAX_BYTES", "RATELIMIT_FAIL_OPEN"}

\* typed variables whose text is checked
Linted == (Switches \cup Numbers) \
            {"CACHE_ENABLED", "CACHE_FAIL_OPEN", "CACHE_DEFAULT_MAX_BYTES"}

Syntax(e) == \A k \in Linted : Env(e, k) \notin {"junk", "empty"}

Lint(e, c) ==
  /\ KnownProfile(e)
  /\ HTTPRules(c) /\ OriginRules(c)
  /\ c["AUTH_MODE"] # "junk"
  /\ EmailRules(c)
  /\ Hardening(e, c)
  /\ StoresRequired(c)
  /\ InRange(c)
  /\ FailClosed(c)
  /\ Syntax(e)
  /\ c["LOG_LEVEL"] # "junk"

-----------------------------------------------------------------------------
VARIABLES env, cfg,
          pc,        \* where main is
          at,        \* the step of initDependencies or closeDependencies
          open,      \* what is open
          req,       \* the state of each request
          lost,      \* requests whose commit was never followed by its invalidation
          faulted,   \* an external service refused during start-up
          forced,    \* requests were in flight when the stores began to close
          served     \* the listener was started

startupVars == <<env, cfg, pc, at, open, req, lost, faulted, forced, served>>

Resources == {"postgres", "redis", "auth", "mongo", "tracing"}

StartupInit ==
  /\ env \in Environments
  /\ cfg = [k \in Keys |-> "unset"]
  /\ pc = "load" /\ at = 1
  /\ open = {}
  /\ req = [r \in Requests |-> "new"]
  /\ lost = {}
  /\ faulted = FALSE /\ forced = FALSE /\ served = FALSE

\* main: an unknown profile ends the process before anything is linted
LoadConfig ==
  /\ pc = "load"
  /\ cfg' = IF KnownProfile(env) THEN LoadFrom(env) ELSE cfg
  /\ pc' = IF KnownProfile(env) THEN "lint" ELSE "exit"
  /\ UNCHANGED <<env, at, open, req, lost, faulted, forced, served>>

LintConfig ==
  /\ pc = "lint"
  /\ pc' = IF Lint(env, cfg) THEN "boot" ELSE "exit"
  /\ UNCHANGED <<env, cfg, at, open, req, lost, faulted, forced, served>>

-----------------------------------------------------------------------------
(* initDependencies *)

Boot == <<"postgres", "redis", "metrics", "auth", "email", "limiter", "cache",
          "permissions", "mongo", "bootstrap", "tracing">>

SwitchOf == [auth |-> "AUTH_ENABLED", email |-> "EMAIL_ENABLED",
             limiter |-> "RATELIMIT_ENABLED", cache |-> "CACHE_ENABLED",
             permissions |-> "PERMISSIONS_ENABLED", bootstrap |-> "MONGO_BOOTSTRAP_ENABLED",
             tracing |-> "TRACING_ENABLED"]

Wanted(step) == step \in DOMAIN SwitchOf => On(cfg, SwitchOf[step])

\* what the error branch of a step closes: never the auth engine
ClosedAfter(step) ==
  {"postgres", "redis"} \cup IF step \in {"bootstrap", "tracing"} THEN {"mongo"} ELSE {}

BootStep ==
  /\ pc = "boot" /\ at <= Len(Boot)
  /\ open' = open \cup (IF Wanted(Boot[at]) THEN {Boot[at]} \cap Resources ELSE {})
  /\ at' = at + 1
  /\ UNCHANGED <<env, cfg, pc, req, lost, faulted, forced, served>>

BootFails ==
  /\ pc = "boot" /\ at <= Len(Boot)
  /\ Wanted(Boot[at])
  /\ open' = open \ ClosedAfter(Boot[at])
  /\ faulted' = TRUE
  /\ pc' = "exit"
  /\ UNCHANGED <<env, cfg, at, req, lost, forced, served>>

\* New: every project module refuses to register without a permission resolver
CanRegister == On(cfg, "PERMISSIONS_ENABLED")

RegisterModules ==
  /\ pc = "boot" /\ at > Len(Boot)
  /\ pc' = IF CanRegister THEN "serve" ELSE "close"
  /\ at' = 1
  /\ served' = CanRegister
  /\ UNCHANGED <<env, cfg, open, req, lost, faulted, forced>>

-----------------------------------------------------------------------------
(* Requests: each begins a transaction, commits and invalidates its tags.    *)

InFlight == {r \in Requests : req[r] \in {"admitted", "began", "committed"}}

CloseOrder == <<"mongo", "redis", "postgres", "tracing", "auth">>

\* pgxpool.Close refuses new connections from its first moment on
PoolOpen == "postgres" \in open /\ ~ (pc = "close" /\ CloseOrder[at] = "postgres")

SetReq(r, state) == req' = [req EXCEPT ![r] = state]

Admit(r) ==
  /\ pc = "serve" /\ req[r] = "new"
  /\ SetReq(r, "admitted")
  /\ UNCHANGED <<env, cfg, pc, at, open, lost, faulted, forced, served>>

BeginTx(r) ==
  /\ pc # "exit" /\ req[r] = "admitted"
  /\ SetReq(r, IF PoolOpen THEN "began" ELSE "done")
  /\ UNCHANGED <<env, cfg, pc, at, open, lost, faulted, forced, served>>

\* WithTx ends: the connection goes back to the pool either way
EndTx(r) ==
  /\ pc # "exit" /\ req[r] = "began"
  /\ \E outcome \in {"committed", "done"} : SetReq(r, outcome)
  /\ UNCHANGED <<env, cfg, pc, at, open, lost, faulted, forced, served>>

\* with the response cache on, the tags are bumped in Redis after the commit
InvalidateTags(r) ==
  /\ pc # "exit" /\ req[r] = "committed"
  /\ SetReq(r, "done")
  /\ lost' = IF On(cfg, "CACHE_ENABLED") /\ "redis" \notin open THEN lost \cup {r} ELSE lost
  /\ UNCHANGED <<env, cfg, pc, at, open, faulted, forced, served>>

RequestStep(r) == BeginTx(r) \/ EndTx(r) \/ InvalidateTags(r)

-----------------------------------------------------------------------------
(* The end. *)

Signal ==
  /\ pc = "serve"
  /\ pc' = "drain"
  /\ UNCHANGED <<env, cfg, at, open, req, lost, faulted, forced, served>>

\* mutant: the process closes its stores as soon as the signal arrives
DrainedAtOnce ==
  /\ pc = "drain"
  /\ pc' = "close"
  /\ UNCHANGED <<env, cfg, at, open, req, lost, faulted, forced, served>>

\* Server.Shutdown returns when nothing is in flight
Drained ==
  /\ pc = "drain" /\ InFlight = {}
  /\ pc' = "close"
  /\ UNCHANGED <<env, cfg, at, open, req, lost, faulted, forced, served>>

\* ... or when HTTP_SHUTDOWN_TIMEOUT has passed
DrainTimesOut ==
  /\ pc = "drain" /\ InFlight # {}
  /\ pc' = "close"
  /\ forced' = TRUE
  /\ UNCHANGED <<env, cfg, at, open, req, lost, faulted, served>>

\* ListenAndServe returns an error: nobody waits for the requests in flight
ListenerFails ==
  /\ pc = "serve"
  /\ pc' = "close"
  /\ forced' = (InFlight # {})
  /\ UNCHANGED <<env, cfg, at, open, req, lost, faulted, served>>

\* mutant: what was never opened is waited for
CloseStepWaits ==
  /\ pc = "close" /\ at <= Len(CloseOrder)
  /\ CloseOrder[at] = "postgres" => \A r \in Requests : req[r] # "began"
  /\ open' = open \ {CloseOrder[at]}
  /\ at' = IF CloseOrder[at] \in open THEN at + 1 ELSE at
  /\ UNCHANGED <<env, cfg, pc, req, lost, faulted, forced, served>>

\* closeDependencies; closing the pool waits for the connections that are out
CloseStep ==
  /\ pc = "close" /\ at <= Len(CloseOrder)
  /\ CloseOrder[at] = "postgres" => \A r \in Requests : req[r] # "began"
  /\ open' = open \ {CloseOrder[at]}
  /\ at' = at + 1
  /\ UNCHANGED <<env, cfg, pc, req, lost, faulted, forced, served>>

\* main returns: what still runs is cut off
Exit ==
  /\ pc = "close" /\ at > Len(CloseOrder)
  /\ pc' = "exit"
  /\ lost' = lost \cup {r \in Requests : req[r] = "committed" /\ On(cfg, "CACHE_ENABLED")}
  /\ UNCHANGED <<env, cfg, at, open, req, faulted, forced, served>>

Done == pc = "exit" /\ UNCHANGED startupVars

MainStep == \/ LoadConfig \/ LintConfig \/ BootStep \/ RegisterModules
            \/ Drained \/ DrainTimesOut \/ CloseStep \/ Exit

StartupNext == \/ MainStep \/ BootFails \/ Signal \/ ListenerFails \/ Done
        \/ \E r \in Requests : Admit(r) \/ RequestStep(r)

\* the request timeout ends every request, unless it is switched off with 0
TimedRequestStep(r) ==
  cfg["HTTP_MIDDLEWARE_REQUEST_TIMEOUT"] # "zero" /\ RequestStep(r)

StartupSpec == StartupInit /\ [][StartupNext]_startupVars /\ WF_startupVars(MainStep)
             /\ \A r \in Requests : WF_startupVars(TimedRequestStep(r))

-----------------------------------------------------------------------------
StartupTypeOK ==
  /\ DOMAIN env \subseteq Keys /\ \A k \in DOMAIN env : env[k] \in ValuesOf(k)
  /\ DOMAIN cfg = Keys
  /\ pc \in {"load", "lint", "boot", "serve", "drain", "close", "exit"}
  /\ at \in 1 .. Len(Boot) + 1
  /\ open \subseteq Resources
  /\ req \in [Requests -> {"new", "admitted", "began", "committed", "done"}]
  /\ lost \subseteq Requests
  /\ faulted \in BOOLEAN /\ forced \in BOOLEAN /\ served \in BOOLEAN

\* However profile, environment and defaults combine, a process that serves
\* under a production name has its stores, secret and web address from explicit
\* variables, a strong metrics token if metrics are on, and, when APP_ENV says
\* production, neither limiter nor cache lets requests through on errors.
ProductionServesHardened ==
  served => /\ (IsProd(AppEnv(env)) \/ Env(env, "APP_PROFILE") = "prod") =>
                 /\ \A k \in Locations : Env(env, k) = "set"
                 /\ Env(env, "PERMISSION_CONTEXT_SECRET") = "strong"
                 /\ Env(env, "WEB_APP_BASE_URL") = "public"
                 /\ cfg["METRICS_ENABLED"] = "false" \/ Env(env, "METRICS_AUTH_TOKEN") = "strong"
            /\ IsProd(AppEnv(env)) =>
                 /\ ~ (On(cfg, "RATELIMIT_ENABLED") /\ On(cfg, "RATELIMIT_FAIL_OPEN"))
                 /\ ~ (On(cfg, "CACHE_ENABLED") /\ On(cfg, "CACHE_FAIL_OPEN"))

Unlinted == {"CACHE_ENABLED", "CACHE_FAIL_OPEN", "CACHE_DEFAULT_MAX_BYTES"}

TakenAsSet(k) == Env(env, k) \notin {"unset", "empty"} => cfg[k] = env[k]

\* A process that serves uses every variable it was given as it was given: no
\* value was replaced by a profile's or the code's default because it did not
\* parse, but for the three variables of the cache that Lint does not read.
SettingsTaken == served => \A k \in Keys \ Unlinted : TakenAsSet(k)

\* A configuration that passes Lint starts when every service answers, as long
\* as permissions are enabled: no later step refuses what Lint accepted.
LintedConfigStarts ==
  (/\ pc = "exit" /\ ~ faulted
   /\ KnownProfile(env) /\ Lint(env, cfg)
   /\ On(cfg, "PERMISSIONS_ENABLED")) => served

\* A configuration is served as written or refused by Lint, and nowhere else:
\* parsing replaces no value silently and no later step refuses any.
ServesAsConfigured == SettingsTaken /\ LintedConfigStarts

\* A process that ends has closed its stores and exporter on every path; only a
\* start-up step that fails after the auth engine was built leaves that open.
StoresClosed ==
  pc = "exit" => open \subseteq (IF faulted THEN {"auth"} ELSE {})

\* A committed write misses its invalidation only if the process stopped with
\* requests in flight: after the shutdown timeout or a failing listener.
LostOnlyWhenForced == lost # {} => forced

\* However a process is stopped, at whatever point of its start or of its
\* requests, it leaves nothing open and no committed write without its
\* invalidation but for the cases named (cmd/api/main.go, core/app/app.go).
StopsCleanly == StartupTypeOK /\ StoresClosed /\ LostOnlyWhenForced

\* With a request timeout, a process that was told to stop ends, also when
\* requests hold connections that closing the pool waits for.
StopEnds ==
  (pc \in {"drain", "close"} /\ cfg["HTTP_MIDDLEWARE_REQUEST_TIMEOUT"] # "zero") ~> pc = "exit"
=============================================================================
