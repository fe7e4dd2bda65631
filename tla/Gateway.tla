------------------------------ MODULE Gateway ------------------------------
(***************************************************************************)
(* The life of the process: a command loads its configuration, serve       *)
(* starts one server, launch tries the ports one after the other with a    *)
(* lease of its own for each attempt (cli.ts); a server that listens       *)
(* answers requests at its front door (server.ts); it ends with a signal,  *)
(* and launch also when its lease is given up.                             *)
(*                                                                         *)
(* The requests that reach the proxy are ProxyRequest's from there on, and *)
(* the handlers of /api belong to AccessControl, RoutingConfig, and so on: *)
(* here a request is answered by the part that takes it over.  The answer  *)
(* to a request does not depend on the lease, so requests are looked at    *)
(* while no tab is shown, none holds the lease and no call is under way.   *)
(***************************************************************************)
EXTENDS Configuration, LauncherLease

(* Of the assets of the control UI: a file of the built bundle, a route of *)
(* the page (no file, no extension), a file that is missing, and one that  *)
(* resolves to a place outside the bundle.                                 *)
Path == {"/healthz", "/api/launcher/lease", "/api", "/ui", "/ui/file", "/ui/route", "/ui/missing",
         "/ui/outside", "/v1/chat/completions", "/v1/models", "/v1/other", "/other"}

(* The control key, a managed key that is enabled, disabled or not stored, *)
(* a key of Anthropic or of OpenRouter.                                    *)
LocalKeys == {"managed", "disabled", "unknown"}
Secret == {"control", "anthropic", "openrouter"} \cup LocalKeys

(* What stands before the key in a header: "Bearer" and one blank, the     *)
(* same word in other letters, the word and more blanks, or nothing.       *)
Word == {"Bearer", "bearer", "spaced", "none"}

NoCredential == [secret |-> "none", word |-> "none"]
Credential == {NoCredential} \cup [secret : Secret, word : Word]

(* local: neither Host nor Origin names another machine; apiKey: x-api-key. *)
Request == [path : Path, method : {"GET", "POST", "OPTIONS"}, local : BOOLEAN,
            authorization : Credential, apiKey : Credential]

CONSTANTS
    Sources,    \* [command, file, env, flags] a user may start with
    Unreadable, \* a config file that cannot be read or is not JSON
    NoSources, NoRequest,
    Requests,   \* the requests clients may send
    Ports       \* how many ports launch tries: 11 in the code

(* A command knows its own flags only, and few settings have a variable. *)
ASSUME GatewayAssumption ==
    /\ Ports \in Nat \ {0}
    /\ Requests \subseteq Request
    /\ \A s \in Sources :
          /\ s.command \in Command
          /\ DOMAIN s.flags \subseteq FlagsOf(s.command)
          /\ DOMAIN s.env \subseteq InEnv

VARIABLES
    sources,    \* what the user gave, until it is loaded
    command,
    config,     \* what loadConfig returned, until the server starts
    front,      \* what the front door reads of it
    phase,      \* "begin", "loaded", "starting", "listening", "closing", "stopped", "failed"
    tried,      \* ports launch has tried
    request,    \* the request being answered
    reply,      \* the part that answers it
    sentAuth    \* whose key goes to OpenRouter with it

process == <<sources, command, config, front, phase, tried>>
door == <<request, reply, sentAuth>>
gatewayVars == <<vars, process, door>>

Given(s) == config[s] \notin {"undefined", "empty"}

(* What the request handler reads of the configuration.  By               *)
(* isStrictLoopbackBind an empty host counts as loopback.                  *)
Front == [loopback    : BOOLEAN,    \* host
          control     : BOOLEAN,    \* local_api_key is given
          configured  : BOOLEAN,    \* upstream_api_key is given
          passthrough : BOOLEAN,    \* auth_mode
          chat        : BOOLEAN]    \* enable_chat

FrontOf == [loopback    |-> config["host"] \in {"default", "empty"},
            control     |-> Given("local_api_key"),
            configured  |-> Given("upstream_api_key"),
            passthrough |-> config["auth_mode"] = "default",
            chat        |-> config["enable_chat"] = "default"]
-----------------------------------------------------------------------------
GatewayInit ==
    /\ sources \in Sources
    /\ command = sources.command
    /\ config = NoConfig
    /\ front = FrontOf
    /\ phase = "begin"
    /\ tried = 0
    /\ request = NoRequest
    /\ reply = "none"
    /\ sentAuth = "none"
    /\ clients = {} /\ startup = FALSE /\ grace = FALSE /\ closed = TRUE /\ exits = 0
    /\ page = {} /\ sent = {} /\ losses = 0

(* loadConfig throws: the command prints the error and exits with 1. *)
Configure ==
    /\ phase = "begin"
    /\ config' = IF sources.file = Unreadable THEN NoConfig
                 ELSE LoadConfig(command, sources.file, sources.env, sources.flags)
    /\ phase' = IF config' = NoConfig THEN "failed" ELSE "loaded"
    /\ UNCHANGED <<sources, command, front, tried, door, vars>>

(* doctor prints the configuration, asks OpenRouter, and ends. *)
Diagnose ==
    /\ phase = "loaded"
    /\ command = "doctor"
    /\ phase' = "stopped"
    /\ sources' = NoSources
    /\ UNCHANGED <<command, config, front, tried, door, vars>>

(* Mutant of MayStart: the check looks at any key. *)
MayStartWithAnyKey == FrontOf.loopback \/ FrontOf.control \/ FrontOf.configured

(* startServer refuses to bind an exposed address without a control key. *)
MayStart == FrontOf.loopback \/ FrontOf.control

(* startServer up to listen. *)
Serve ==
    /\ phase = "loaded"
    /\ command = "serve"
    /\ phase' = IF MayStart THEN "starting" ELSE "failed"
    /\ config' = NoConfig
    /\ front' = FrontOf
    /\ sources' = NoSources
    /\ UNCHANGED <<command, tried, door, vars>>

(* The same for one port of launch, with a new lease whose timer runs. *)
Attempt ==
    /\ phase \in {"loaded", "inUse"}
    /\ command = "launch"
    /\ tried < Ports
    /\ tried' = tried + 1
    /\ phase' = "starting"
    /\ config' = NoConfig
    /\ front' = IF phase = "loaded" THEN FrontOf ELSE front
    /\ sources' = NoSources
    /\ closed' = FALSE
    /\ startup' = TRUE
    /\ UNCHANGED <<command, door, clients, grace, exits, page, sent, losses>>

Listening ==
    /\ phase = "starting"
    /\ phase' = "listening"
    /\ UNCHANGED <<sources, command, config, front, tried, door, vars>>

(* Mutant of InUse: the lease of a failed attempt is left. *)
InUseLeft ==
    /\ phase = "starting"
    /\ phase' = IF command = "launch" THEN "inUse" ELSE "failed"
    /\ UNCHANGED <<sources, command, config, front, tried, door, vars>>

(* EADDRINUSE: serve has no listener for it and dies; launch closes the    *)
(* server, whose close event closes the lease.                             *)
InUse ==
    /\ phase = "starting"
    /\ phase' = IF command = "launch" THEN "inUse" ELSE "failed"
    /\ UNCHANGED <<sources, command, config, front, tried, door>>
    /\ Close

(* Another error ends the command. *)
CannotListen ==
    /\ phase = "starting"
    /\ phase' = "failed"
    /\ UNCHANGED <<sources, command, config, front, tried, door>>
    /\ Close

(* Mutant of NoFreePort: one port too many is waited for. *)
NoFreePortLate ==
    /\ phase = "inUse"
    /\ tried > Ports
    /\ phase' = "failed"
    /\ UNCHANGED <<sources, command, config, front, tried, door, vars>>

NoFreePort ==
    /\ phase = "inUse"
    /\ tried = Ports
    /\ phase' = "failed"
    /\ UNCHANGED <<sources, command, config, front, tried, door, vars>>
-----------------------------------------------------------------------------
(* getInboundAuth: Authorization as it is; else x-api-key, with the word    *)
(* put before it unless it is there.                                       *)
InboundAuth(r) ==
    IF r.authorization # NoCredential THEN r.authorization
    ELSE IF r.apiKey # NoCredential /\ r.apiKey.word = "none"
    THEN [secret |-> r.apiKey.secret, word |-> "Bearer"]
    ELSE r.apiKey

(* Mutant of Managed: the word is compared letter by letter. *)
ManagedExactWord(r) ==
    InboundAuth(r).word = "Bearer" /\ InboundAuth(r).secret \in LocalKeys

(* isManagedKeyCandidate: the prefix of what follows the word.  A key that *)
(* stands alone in Authorization is no candidate.                          *)
Managed(r) == InboundAuth(r).word # "none" /\ InboundAuth(r).secret \in LocalKeys

(* guardLocalRequest: a loopback server answers this machine only. *)
Guarded(r) == front.loopback /\ ~r.local

(* validateLocalAuth: what follows "Bearer " in Authorization, else the    *)
(* whole of x-api-key, is the control key.                                 *)
LocalAuth(r) ==
    front.control =>
        IF r.authorization.word \in {"Bearer", "spaced"}
        THEN r.authorization = [secret |-> "control", word |-> "Bearer"]
        ELSE r.apiKey = [secret |-> "control", word |-> "none"]

IsData(r) == r.path \in {"/v1/chat/completions", "/v1/models", "/v1/other"}
IsApi(r) == r.path \in {"/api", "/api/launcher/lease"}

IsUi(r) == r.path \in {"/ui", "/ui/file", "/ui/route", "/ui/missing", "/ui/outside"}

(* serveControlUi *)
UiReply(r) ==
    IF r.method # "GET" THEN "badMethod"
    ELSE CASE r.path = "/ui" -> "redirect"
           [] r.path = "/ui/file" -> "file"
           [] r.path = "/ui/route" -> "index"
           [] OTHER -> "notFound"

(* upstreamUrlForPath *)
HasUpstream(r) ==
    \/ r.path = "/v1/chat/completions" /\ front.chat
    \/ r.path = "/v1/models"

(* validateMethod *)
MethodAllowed(r) == r.method = "POST" \/ (r.method = "GET" /\ r.path = "/v1/models")

(* Mutant of UpstreamAuth: the control key passes with the others. *)
UpstreamAuthPlain(r, active) ==
    LET auth == InboundAuth(r) IN
    IF Managed(r) \/ ~front.passthrough \/ auth = NoCredential
       \/ (active /\ auth.secret = "anthropic")
    THEN (IF active THEN "active" ELSE "none")
    ELSE auth.secret

(* getUpstreamAuth, and the active key alone for a managed key.  The       *)
(* control key is known in two spellings; what is not known passes.        *)
UpstreamAuth(r, active) ==
    LET auth == InboundAuth(r) IN
    IF \/ Managed(r)
       \/ ~front.passthrough
       \/ auth = NoCredential
       \/ front.control /\ auth.secret = "control" /\ auth.word \in {"none", "Bearer"}
       \/ active /\ auth.secret = "anthropic"
    THEN (IF active THEN "active" ELSE "none")
    ELSE auth.secret

(* From where the path is known to be the proxy's. *)
DataReply(r, active) ==
    IF ~HasUpstream(r) THEN "notFound"
    ELSE IF ~MethodAllowed(r) THEN "badMethod"
    ELSE IF r.path = "/v1/models" /\ Managed(r) THEN "localModels"
    ELSE IF Managed(r) /\ ~active THEN "keyRequired"
    ELSE IF UpstreamAuth(r, active) = "none" THEN "unauthorized"
    ELSE "proxy"

(* Mutant of Reply: a managed key is not looked for outside /v1. *)
ReplyToManaged(r, active) ==
    IF Guarded(r) THEN "forbidden"
    ELSE IF r.path = "/healthz" /\ r.method = "GET" THEN "public"
    ELSE IF r.method = "OPTIONS" THEN "preflight"
    ELSE IF command = "launch" /\ r.path = "/api/launcher/lease" THEN "lease"
    ELSE IF IsApi(r) /\ ~LocalAuth(r) THEN "unauthorized"
    ELSE IF IsData(r) /\ Managed(r) /\ InboundAuth(r).secret # "managed" THEN "unauthorized"
    ELSE IF IsUi(r) THEN UiReply(r)
    ELSE IF IsApi(r) THEN "api"
    ELSE DataReply(r, active)

(* The order of the checks in the request handler.  /healthz stands for    *)
(* the three paths that are always public.                                 *)
Reply(r, active) ==
    IF Guarded(r) THEN "forbidden"
    ELSE IF r.path = "/healthz" /\ r.method = "GET" THEN "public"
    ELSE IF r.method = "OPTIONS" THEN "preflight"
    ELSE IF command = "launch" /\ r.path = "/api/launcher/lease" THEN "lease"
    ELSE IF ~IsData(r) /\ Managed(r) THEN "unauthorized"
    ELSE IF IsApi(r) /\ ~LocalAuth(r) THEN "unauthorized"
    ELSE IF IsData(r) /\ Managed(r) /\ InboundAuth(r).secret # "managed" THEN "unauthorized"
    ELSE IF IsUi(r) THEN UiReply(r)
    ELSE IF IsApi(r) THEN "api"
    ELSE DataReply(r, active)

(* With a configured key there is always an active one; without, it        *)
(* depends on what was saved in the UI.                                    *)
Arrive(r, active) ==
    /\ phase = "listening"
    /\ request = NoRequest
    /\ page = {} /\ sent = {} /\ clients = {}
    /\ front.configured => active
    /\ request' = r
    /\ reply' = Reply(r, active)
    /\ sentAuth' = IF reply' = "proxy" THEN UpstreamAuth(r, active) ELSE "none"
    /\ UNCHANGED <<process, vars>>

(* The response is complete, or its client is gone. *)
Done ==
    /\ request # NoRequest
    /\ request' = NoRequest
    /\ reply' = "none"
    /\ sentAuth' = "none"
    /\ UNCHANGED <<process, vars>>

(* SIGINT or SIGTERM: launch closes its server, serve has no handler. *)
Signal ==
    /\ phase = "listening"
    /\ phase' = IF command = "launch" THEN "closing" ELSE "stopped"
    /\ UNCHANGED <<sources, command, config, front, tried, door, vars>>

(* onExit closes the server of the attempt that listens. *)
LeaseEnds ==
    /\ phase \in {"listening", "closing"}
    /\ phase' = "closing"
    /\ StartupExpires \/ GraceExpires
    /\ UNCHANGED <<sources, command, config, front, tried, door>>

(* A server that closes waits for its open responses; then the process exits. *)
Closed ==
    /\ phase = "closing"
    /\ request = NoRequest
    /\ phase' = "stopped"
    /\ UNCHANGED <<sources, command, config, front, tried, door>>
    /\ Close

(* The tabs of a launched browser, while the server listens. *)
TabStep ==
    /\ phase = "listening"
    /\ command = "launch"
    /\ request = NoRequest
    /\ \/ \E t \in Tab : Load(t) \/ Heartbeat(t) \/ Leave(t)
       \/ \E m \in sent : Lose(m) \/ Handle(m)
    /\ UNCHANGED <<process, door>>

GatewayNext ==
    \/ Configure \/ Diagnose \/ Serve \/ Attempt
    \/ Listening \/ InUse \/ CannotListen \/ NoFreePort
    \/ \E r \in Requests, active \in BOOLEAN : Arrive(r, active)
    \/ Done \/ Signal \/ LeaseEnds \/ Closed \/ TabStep

(* A command goes on, an answer ends (ProxyRequest), and timers fire. *)
GatewaySpec ==
    /\ GatewayInit
    /\ [][GatewayNext]_gatewayVars
    /\ WF_gatewayVars(Configure \/ Diagnose \/ Serve \/ Attempt \/ NoFreePort)
    /\ WF_gatewayVars(Listening \/ InUse \/ CannotListen)
    /\ WF_gatewayVars(Done)
    /\ WF_gatewayVars(LeaseEnds)
    /\ WF_gatewayVars(Closed)
-----------------------------------------------------------------------------
(* The value the documentation promises for a setting: the flag the user   *)
(* gave, else the environment's, else the file's.  Values the code takes   *)
(* for none, or cannot read, are left out of the promise.                  *)
Promised(s) ==
    IF s \in DOMAIN sources.flags THEN sources.flags[s]
    ELSE IF s \in DOMAIN sources.env THEN sources.env[s]
    ELSE IF s \in DOMAIN sources.file THEN sources.file[s]
    ELSE Default[s]

Readable(s) ==
    \A layer \in {sources.flags, sources.env, sources.file} :
        s \in DOMAIN layer => layer[s] \in {"one", "two"}

(* "Configuration is loaded in this priority order (highest to lowest)":   *)
(* docs/configuration.md, README.md and the comment of loadConfig.         *)
PriorityAsDocumented ==
    phase = "loaded" => \A s \in Setting : Readable(s) => config[s] = Promised(s)

(* What the code keeps of that: it holds for every setting for which the   *)
(* command presets no flag, with --no-fallbacks and launch's host as the   *)
(* other exceptions.                                                       *)
PriorityKept ==
    phase = "loaded" =>
        \A s \in Setting :
            /\ Readable(s)
            /\ s \notin Preset(command) \/ (s \in DOMAIN sources.flags /\ s \notin Responses)
            /\ ~(s = "allow_fallbacks" /\ s \in DOMAIN sources.flags)
            /\ ~(s = "host" /\ command = "launch")
            => config[s] = Promised(s)

(* A key of S as the clients of the gateway are told to send one: after    *)
(* the word in Authorization, in any letters, or in x-api-key instead.     *)
Presents(r, S) ==
    \/ r.authorization.secret \in S /\ r.authorization.word # "none"
    \/ r.authorization = NoCredential /\ r.apiKey.secret \in S

(* Whatever the layers said, what reaches the control plane has shown the  *)
(* control key in one of the two ways it is asked for, or there is none    *)
(* and it came from this machine; and no managed key was presented with    *)
(* it.  README.md:86 says "A sift_sk_... key is rejected on /api/*" of any *)
(* such key: one that stands in Authorization without the word, or in      *)
(* x-api-key beside another Authorization, is not seen, and is let through *)
(* where /api asks for no control key or gets it in x-api-key as well.     *)
ApiIsTrusted ==
    reply = "api" =>
        /\ ~Presents(request, LocalKeys)
        /\ IF front.control
           THEN \/ request.authorization = [secret |-> "control", word |-> "Bearer"]
                \/ request.apiKey = [secret |-> "control", word |-> "none"]
           ELSE front.loopback /\ request.local

(* What is never sent to OpenRouter: a managed key that was presented, and *)
(* the control key alone or after "Bearer " exactly.  The comment in       *)
(* getUpstreamAuth says "Never forward the control-plane key upstream" of  *)
(* every spelling; a managed key alone in Authorization, and the control   *)
(* key after "bearer" or more than one blank, pass like foreign keys.      *)
KeysStayHere ==
    /\ sentAuth \in LocalKeys =>
           request.authorization = [secret |-> sentAuth, word |-> "none"]
    /\ sentAuth = "control" /\ front.control =>
           InboundAuth(request).word \in {"bearer", "spaced"}

(* Between two ports, and when the command has failed or ended, no lease   *)
(* is left whose timer could end a later attempt's server.                 *)
NoLeaseLeft ==
    phase \in {"inUse", "failed", "stopped"} => closed /\ ~startup /\ ~grace

(* A launched server that no tab holds is closed and the process ends,     *)
(* unless a tab comes in time; open responses only delay it.               *)
AbandonedStops ==
    (phase \in {"listening", "closing"} /\ command = "launch" /\ clients = {})
        ~> (phase = "stopped" \/ clients # {})

(* A launch finds a port, or says that it has none.                        *)
LaunchSettles == command = "launch" ~> phase \in {"listening", "closing", "stopped", "failed"}
=============================================================================
