---------------------------- MODULE Configuration ----------------------------
(***************************************************************************)
(* How the commands of cli.ts turn a config file, the environment and the  *)
(* flags into the configuration of the process (config.ts).                *)
(*                                                                         *)
(* A layer is a function on the settings it gives.  Of the settings that   *)
(* are treated alike one stands for all: "store_path" for the six paths,   *)
(* "only" for the four comma lists, "threshold" for the two preferred_*    *)
(* thresholds, "zdr" for the flags that only a "true" sets, "enable_chat", *)
(* "request_timeout_ms" for the settings that only a file gives.           *)
(*                                                                         *)
(* Of a value the model keeps what loadConfig does with it:                *)
(*   "one", "two"   two legal values that are not the default              *)
(*   "empty"        "", 0 or NaN: a value the code takes for no value      *)
(*   "blank"        white space                                            *)
(*   "garbled"      a text that cannot be read as the setting              *)
(*   "bad"          a value that can be read and that the schema refuses   *)
(*   "default"      the schema's default                                   *)
(*   "undefined"    no value                                               *)
(* For the flags "one" is what only its own word gives: "false" for        *)
(* allow_fallbacks, "true" for zdr; "two" is the opposite.                 *)
(***************************************************************************)
Command == {"serve", "launch", "doctor"}

Layered == {"host", "port", "auth_mode", "upstream_api_key", "local_api_key",
            "merge_mode", "store_path", "log_level"}

FlagOnly == {"log_body", "soft_enforce_only"}

FileOnly == {"enable_chat", "request_timeout_ms"}

PolicyField == {"only", "sort", "threshold", "max_price", "data_collection", "zdr",
                "allow_fallbacks"}

Responses == {"enable_responses"}

Setting == Layered \cup FlagOnly \cup FileOnly \cup PolicyField \cup Responses

Enumeration == {"auth_mode", "merge_mode", "log_level", "data_collection"}

(* The settings that have a variable of the environment. *)
InEnv == Layered \cup PolicyField

(* ShimConfigSchema: what a setting is when no layer gives it. *)
Default == [s \in Setting |->
    IF s \in PolicyField \cup {"upstream_api_key", "local_api_key"} THEN "undefined" ELSE "default"]

(* ShimConfigSchema: names that are not listed, numbers out of bounds. *)
Refused(s, v) ==
    \/ v = "bad"
    \/ s \in Enumeration /\ v \in {"empty", "blank", "garbled"}
    \/ s = "request_timeout_ms" /\ v = "empty"

(* parseCommaList, parseProviderSort, parseProviderThreshold, parseMaxPrice *)
(* and the comparisons of the flags: what the text of a policy field says.  *)
(* Number(" ") is 0.                                                        *)
Parse(f, text) ==
    CASE f = "only" /\ text = "blank" -> "undefined"
      [] f \in {"sort", "max_price"} /\ text \in {"blank", "garbled"} -> "undefined"
      [] f = "threshold" /\ text = "blank" -> "zero"
      [] f = "threshold" /\ text = "garbled" -> "undefined"
      [] f \in {"zdr", "allow_fallbacks"} /\ text \in {"empty", "blank", "garbled", "bad"} -> "two"
      [] OTHER -> text

(* A text counts when it is not empty; a flag's variable when it is set.   *)
Gives(layer, s) ==
    s \in DOMAIN layer /\ (layer[s] # "empty" \/ s \in {"zdr", "allow_fallbacks"})

(* envPolicy and cliPolicy: a field whose text says nothing is present and *)
(* undefined, so it covers the layers below.                               *)
ValueOf(layer, s) == IF s \in PolicyField THEN Parse(s, layer[s]) ELSE layer[s]

(* The flags commander fills in when the user does not give them. *)
Preset(command) ==
    CASE command = "serve" -> {"host", "port", "merge_mode", "auth_mode", "log_level", "log_body",
                               "soft_enforce_only", "enable_responses"}
      [] command = "launch" -> {"port", "log_level"}
      [] command = "doctor" -> {}

(* --no-fallbacks sets opts.fallbacks, which nothing reads. *)
Options(command, flags) ==
    [s \in (DOMAIN flags \cup Preset(command)) \ {"allow_fallbacks"} |->
        IF s \in DOMAIN flags THEN flags[s] ELSE "default"]

(* What each command lets the user give. *)
FlagsOf(command) ==
    CASE command = "serve" -> Layered \cup FlagOnly \cup PolicyField \cup Responses
      [] command = "launch" -> {"port", "log_level"}
      [] command = "doctor" -> Layered \cup PolicyField

(* enable_responses: --disable-responses is read first, so the default of  *)
(* --enable-responses takes it back.                                       *)
ResponsesOf(file, opts) ==
    IF "enable_responses" \in DOMAIN opts THEN "default"
    ELSE IF "enable_responses" \in DOMAIN file THEN file["enable_responses"]
    ELSE "default"

(* Mutant of Layers: the environment is read first. *)
LayersReversed(file, env, opts) == [s \in Setting |->
    IF s \in Responses THEN ResponsesOf(file, opts)
    ELSE IF Gives(env, s) THEN ValueOf(env, s)
    ELSE IF Gives(opts, s) THEN ValueOf(opts, s)
    ELSE IF s \in DOMAIN file THEN file[s]
    ELSE Default[s]]

(* rawConfig, with the schema's defaults. *)
Layers(file, env, opts) == [s \in Setting |->
    IF s \in Responses THEN ResponsesOf(file, opts)
    ELSE IF Gives(opts, s) THEN ValueOf(opts, s)
    ELSE IF Gives(env, s) THEN ValueOf(env, s)
    ELSE IF s \in DOMAIN file THEN file[s]
    ELSE Default[s]]

NoConfig == [s \in Setting |-> "refused"]

(* loadConfig; launch then binds 127.0.0.1 whatever was configured. *)
LoadConfig(command, file, env, flags) ==
    LET config == Layers(file, env, Options(command, flags))
    IN IF \E s \in Setting : Refused(s, config[s]) THEN NoConfig
       ELSE IF command = "launch" THEN [config EXCEPT !["host"] = "default"]
       ELSE config
=============================================================================
