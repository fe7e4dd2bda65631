------------------------- MODULE UpstreamCredential -------------------------
(***************************************************************************)
(* The upstream OpenRouter key: a session layer in memory, a remembered    *)
(* layer in the OS credential store with a copy in memory, and the         *)
(* environment (upstreamCredential.ts), with the two handlers that write   *)
(* them (server.ts, /api/settings/openrouter-key).                         *)
(*                                                                         *)
(* A PUT waits for OpenRouter to verify the candidate before it saves, so  *)
(* other calls run in between.                                              *)
(***************************************************************************)
EXTENDS SecureStore

CONSTANTS
    ApiKey,     \* OpenRouter keys
    EnvKey,     \* OPENROUTER_API_KEY, or NoKey
    Put         \* PUT handlers in flight

ASSUME CredentialAssumption ==
    /\ NoKey \notin ApiKey
    /\ EnvKey \in ApiKey \cup {NoKey}
    /\ MaxFaults \in Nat

VARIABLES
    up,           \* the process is running
    sessionKey,   \* UpstreamCredentialManager.sessionKey
    persistedKey, \* UpstreamCredentialManager.persistedKey
    put           \* PUT handlers waiting for the verification

(* What the callers were told; no action reads it. *)
VARIABLES
    remembered,   \* the remembered keys that may be in effect: that of the last
                  \* remembering PUT that answered 200, NoKey after a DELETE
    vetted        \* keys OpenRouter accepted, or saved with verify: false

layers == <<sessionKey, persistedKey, vault>>
credentialVars == <<up, tool, layers, put, faults, remembered, vetted>>

KeyOrNone == ApiKey \cup {NoKey}
Idle == [phase |-> "idle"]
Verifying == [phase : {"verify"}, key : ApiKey, remember : BOOLEAN]

(* session ?? persisted ?? environment *)
ActiveKey ==
    IF sessionKey # NoKey THEN sessionKey
    ELSE IF persistedKey # NoKey THEN persistedKey ELSE EnvKey

CredentialTypeOK ==
    /\ up \in BOOLEAN
    /\ tool \in BOOLEAN
    /\ sessionKey \in KeyOrNone
    /\ persistedKey \in KeyOrNone
    /\ vault \in KeyOrNone
    /\ put \in [Put -> {Idle} \cup Verifying]
    /\ faults \in 0 .. MaxFaults
    /\ remembered \in SUBSET KeyOrNone
    /\ vetted \in SUBSET ApiKey

CredentialInit ==
    /\ up = TRUE
    /\ tool \in BOOLEAN
    /\ sessionKey = NoKey
    /\ persistedKey = NoKey
    /\ vault = NoKey
    /\ put = [p \in Put |-> Idle]
    /\ faults = 0
    /\ remembered = {NoKey}
    /\ vetted = {}

(* Mutant of Remember: memory first, then a store that may throw. *)
RememberMemoryFirst(k, ok) ==
    /\ persistedKey' = k
    /\ IF ok THEN Save(k) /\ remembered' = {k} ELSE SaveThrows /\ UNCHANGED remembered
    /\ UNCHANGED sessionKey

(* setPersistedKey: what the store throws leaves both sides as they were   *)
(* (503).  The session key, if any, stays in front.                        *)
Remember(k, ok) ==
    /\ IF ok THEN Save(k) /\ persistedKey' = k /\ remembered' = {k}
       ELSE SaveThrows /\ UNCHANGED <<persistedKey, remembered>>
    /\ UNCHANGED sessionKey

KeepForSession(k) ==
    /\ sessionKey' = k
    /\ UNCHANGED <<persistedKey, vault, faults, remembered>>

(* ok says whether the PUT is answered 200. *)
Store(k, remember, ok) == IF remember THEN Remember(k, ok) ELSE ok /\ KeepForSession(k)

(* PUT with verify: false goes straight to the save. *)
SaveUnverified(p, k, remember, ok) ==
    /\ up
    /\ put[p] = Idle
    /\ Store(k, remember, ok)
    /\ vetted' = vetted \cup {k}
    /\ UNCHANGED <<up, tool, put>>

(* PUT with a body that asks for the check: getKeyInfo is awaited. *)
StartVerify(p, k, remember) ==
    /\ up
    /\ put[p] = Idle
    /\ put' = [put EXCEPT ![p] = [phase |-> "verify", key |-> k, remember |-> remember]]
    /\ UNCHANGED <<up, tool, layers, faults, remembered, vetted>>

SaveVerified(p, ok) ==
    /\ up
    /\ put[p] # Idle
    /\ put' = [put EXCEPT ![p] = Idle]
    /\ Store(put[p].key, put[p].remember, ok)
    /\ vetted' = vetted \cup {put[p].key}
    /\ UNCHANGED <<up, tool>>

(* Mutant of Rejected: the refused candidate is saved all the same. *)
RejectedButSaved(p) ==
    /\ up
    /\ put[p] # Idle
    /\ put' = [put EXCEPT ![p] = Idle]
    /\ KeepForSession(put[p].key)
    /\ UNCHANGED <<up, tool, vetted>>

(* 401 or 403: the key is refused (422); unreachable or slow: 502. *)
Rejected(p) ==
    /\ up
    /\ put[p] # Idle
    /\ put' = [put EXCEPT ![p] = Idle]
    /\ UNCHANGED <<up, tool, layers, faults, remembered, vetted>>

(* DELETE: both layers go from memory.  The caller is told 200, whether    *)
(* the entry is gone or not.                                               *)
Forget ==
    /\ up
    /\ sessionKey' = NoKey
    /\ persistedKey' = NoKey
    /\ \E done \in BOOLEAN :
        /\ Clear(done)
        /\ remembered' = IF done THEN {NoKey} ELSE {NoKey, vault}
    /\ UNCHANGED <<up, tool, put, vetted>>

(* The program is installed while the process runs. *)
ToolAppears ==
    /\ ~tool
    /\ tool' = TRUE
    /\ UNCHANGED <<up, layers, put, faults, remembered, vetted>>

CredentialDies ==
    /\ up
    /\ up' = FALSE
    /\ sessionKey' = NoKey
    /\ persistedKey' = NoKey
    /\ put' = [p \in Put |-> Idle]
    /\ tool' \in BOOLEAN   \* installed or removed before the next start
    /\ UNCHANGED <<vault, remembered, vetted>>

(* Mutant of ReadVault: the constructor does not read the store. *)
ReadVaultNever(readable) == persistedKey' = NoKey

(* readPersistedSafe *)
ReadVault(readable) == persistedKey' = Load(readable)

CredentialStarts(readable) ==
    /\ ~up
    /\ up' = TRUE
    /\ ReadVault(readable)
    /\ remembered' = IF tool /\ readable THEN remembered ELSE remembered \cup {NoKey}
    /\ UNCHANGED <<tool, sessionKey, vault, put, vetted>>
-----------------------------------------------------------------------------
(* Without a session key the key in effect is the one remembered last, or  *)
(* the environment's after a DELETE (README: forgetting them restores it), *)
(* over restarts and refused saves.  Only a deletion the OS store swallows *)
(* may bring the old key back, and only a store that cannot be read hides  *)
(* one.                                                                    *)
RememberedSurvives ==
    up /\ sessionKey = NoKey =>
        \E k \in remembered : ActiveKey = IF k # NoKey THEN k ELSE EnvKey

(* A key is in effect only if OpenRouter accepted it, the caller declined  *)
(* the check, or it is the environment's, also when handlers overlap.      *)
ActiveIsVetted == ActiveKey \in vetted \cup {EnvKey}

=============================================================================
