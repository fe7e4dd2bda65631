----------------------------- MODULE MCGateway -----------------------------
(***************************************************************************)
(* What users may give: one setting in any of the layers, or the settings  *)
(* together that decide who may do what.                                   *)
(***************************************************************************)
EXTENDS Gateway

(* The values of a text (environment, flag) and of a file. *)
Texts(s) ==
    CASE s \in {"only", "sort", "threshold", "max_price"} ->
            {"one", "two", "empty", "blank"} \cup (IF s = "only" THEN {} ELSE {"garbled", "bad"})
      [] s \in Enumeration -> {"one", "empty", "garbled"}
      [] s \in {"zdr", "allow_fallbacks"} -> {"one", "two", "empty"}
      [] OTHER -> {"one", "empty"}

InFile(s) ==
    {"one", "bad"} \cup (IF s \in {"log_body", "enable_chat", "enable_responses"} THEN {} ELSE {"two"})

One(s) == {"one"}

Some(s) == {"one", "empty"}

LayersOn(S, Values(_)) ==
    UNION {{f \in [D -> UNION {Values(s) : s \in D}] : \A s \in D : f[s] \in Values(s)} : D \in SUBSET S}

SourcesOn(S, Text(_), File(_)) ==
    UNION {[command : {c}, file : LayersOn(S \ {"soft_enforce_only"}, File), env : LayersOn(S \cap InEnv, Text),
            flags : LayersOn(S \cap FlagsOf(c), Text)] : c \in Command}

MCSources ==
    UNION {SourcesOn({s}, Texts, InFile) : s \in Setting}
    \cup SourcesOn({"host", "local_api_key"}, Some, Some)
    \cup [command : {"serve"}, file : LayersOn({"enable_chat"}, One), env : {<<>>},
          flags : LayersOn({"host", "local_api_key", "upstream_api_key", "auth_mode"}, One)]
    \cup [command : {"launch"}, file : LayersOn({"local_api_key", "auth_mode"}, One),
          env : {<<>>}, flags : {<<>>}]
    \cup [command : Command, file : {Unreadable}, env : {<<>>}, flags : {<<>>}]

(* Every path with the usual credentials; where a credential is looked at, *)
(* every spelling, and the two headers against each other.                 *)
Sent(paths, methods, authorizations, apiKeys) ==
    [path : paths, method : methods, local : BOOLEAN,
     authorization : authorizations, apiKey : apiKeys]

Usual == {NoCredential} \cup [secret : Secret, word : {"Bearer"}]

Asking == {"/api", "/v1/chat/completions", "/v1/models"}

MCRequests ==
    Sent(Path, {"GET", "POST", "OPTIONS"}, Usual, {NoCredential})
    \cup Sent(Asking, {"GET", "POST"},
              [secret : Secret, word : Word \ {"Bearer"}], {NoCredential})
    \cup Sent(Asking, {"GET", "POST"},
              {NoCredential}, [secret : {"control", "managed"}, word : Word])
    \cup Sent(Asking, {"GET", "POST"},
              [secret : {"managed", "openrouter"}, word : Word], [secret : {"control", "managed"}, word : {"none"}])
=============================================================================
