---------------------------- MODULE AccessControl ----------------------------
(***************************************************************************)
(* Who may use which model: the Local Access Keys (accessKeyStore.ts), the *)
(* Desired Models (desiredModelStore.ts), the management handlers that     *)
(* write them and the data-plane check that reads them (server.ts).        *)
(*                                                                         *)
(* The gateway is one Node process.  A handler runs without interruption   *)
(* between two awaits, so an action is what a handler does from one await  *)
(* to the next.  Both stores are an object in memory plus a JSON file that *)
(* atomicWriteJson replaces as a whole: a write either leaves the old file *)
(* or installs the whole memory image.  A write may fail (disk full, file  *)
(* locked), a file may be unreadable at startup, and the process may die   *)
(* between two writes of one handler.                                      *)
(***************************************************************************)
EXTENDS Naturals

CONSTANTS
    Key,         \* access key ids; randomUUID never repeats one
    Model,       \* model ids
    Override,    \* per-model provider routing overrides
    NoOverride,  \* a model without an entry in modelOverrides
    Alias,       \* Anthropic model names a client may send
    Target,      \* the model getTargetModel() puts in their place
    Absent,      \* no record under this id
    Unset,       \* a field the request body does not carry
    Passthrough, \* the caller of a request that carries no managed key
    Req,         \* data-plane requests in flight
    Edit,        \* override edits in flight
    MaxFaults    \* bound on failed writes and unreadable files

ASSUME ConstantsAssumption ==
    /\ Target \in Model
    /\ NoOverride \notin Override
    /\ Passthrough \notin Key
    /\ \A S \in SUBSET Model : Unset # S
    /\ \A ov \in [Model -> Override \cup {NoOverride}] : Unset # ov
    /\ Unset \notin Model \cup {TRUE, FALSE}
    /\ Absent \notin [enabled : BOOLEAN, allowedModels : SUBSET Model,
                     modelOverrides : [Model -> Override \cup {NoOverride}],
                     secretStorage : {"secure-store", "unavailable"}]
    /\ MaxFaults \in Nat

VARIABLES
    up,          \* the process is running
    keys,        \* JsonAccessKeyStore.keys
    keysDisk,    \* the access key file
    desired,     \* JsonDesiredModelStore.models, the enabled ids
    desiredDisk, \* the desired model file
    vault,       \* ids with a secret in the OS credential store
    usageTimer,  \* usagePersistTimer is armed
    req,         \* data-plane handlers
    edit,        \* override handlers suspended in readJsonBody
    faults       \* failed writes and unreadable files so far

(* History of what callers were told; no action reads it. *)
VARIABLES
    used,        \* ids ever generated
    deleted,     \* ids whose DELETE answered deleted: true
    withdrawn,   \* <<k, m>>: DELETE of m answered 200, k not granted m since
    closed,      \* models whose DELETE answered 200, not offered again since
    expected,    \* the override the last answered write left for <<k, m>>
    unsettled    \* <<k, m>> which another edit of k, or a 500, left open

store    == <<keys, keysDisk>>
offers   == <<desired, desiredDisk>>
handlers == <<req, edit>>
promises == <<deleted, withdrawn, closed>>
writes   == <<expected, unsettled>>
history  == <<used, promises, writes>>
vars == <<up, store, offers, vault, usageTimer, handlers, faults, history>>

(***************************************************************************)
(* Records and their types.                                                *)
(***************************************************************************)
Overrides == [Model -> Override \cup {NoOverride}]
NoOverrides == [m \in Model |-> NoOverride]
Sources(ov) == {m \in Model : ov[m] # NoOverride}

(* The AccessKey fields the handlers branch on.  Name, hash, prefix and    *)
(* timestamps are left out; the id stands for the secret.                  *)
AccessKey == [enabled : BOOLEAN, allowedModels : SUBSET Model,
              modelOverrides : Overrides,
              secretStorage : {"secure-store", "unavailable"}]

KeyStore == [Key -> AccessKey \cup {Absent}]
NoKeys == [k \in Key |-> Absent]
Live(s) == {k \in Key : s[k] # Absent}

(* Entries of modelOverrides whose model is not allowed are dropped. *)
Prune(ov, allowed) == [m \in Model |-> IF m \in allowed THEN ov[m] ELSE NoOverride]

WithoutModel(rec, m) ==
    [rec EXCEPT !.allowedModels = @ \ {m},
                !.modelOverrides = Prune(@, rec.allowedModels \ {m})]

StripModel(s, m) ==
    [k \in Key |-> IF s[k] = Absent THEN Absent ELSE WithoutModel(s[k], m)]

(* Mutant of LoadKeys: the overrides are not read. *)
LoadKeysWithoutOverrides(s) ==
    [k \in Key |-> IF s[k] = Absent THEN Absent
                   ELSE [s[k] EXCEPT !.modelOverrides = NoOverrides]]

(* load(): every entry of the file, its overrides pruned. *)
LoadKeys(s) ==
    [k \in Key |-> IF s[k] = Absent THEN Absent
                   ELSE [s[k] EXCEPT !.modelOverrides = Prune(@, s[k].allowedModels)]]

Idle == [phase |-> "idle"]
Reading(k, rec) == [phase |-> "body", key |-> k, grant |-> rec]
Sent(k, m) == [phase |-> "sent", key |-> k, model |-> m]

Request ==
    {Idle}
    \cup [phase : {"body"}, key : Key, grant : AccessKey]
    \cup [phase : {"body"}, key : {Passthrough}, grant : {Absent}]
    \cup [phase : {"sent"}, key : Key \cup {Passthrough}, model : Model]

(* An edit of one model's override, or of the whole table (model = Unset). *)
PendingEdit ==
    {Idle} \cup [phase : {"body"}, key : Key, model : Model \cup {Unset}, was : AccessKey]

TypeOK ==
    /\ up \in BOOLEAN
    /\ keys \in KeyStore
    /\ keysDisk \in KeyStore
    /\ desired \in SUBSET Model
    /\ desiredDisk \in SUBSET Model
    /\ vault \in SUBSET Key
    /\ usageTimer \in BOOLEAN
    /\ req \in [Req -> Request]
    /\ edit \in [Edit -> PendingEdit]
    /\ faults \in 0 .. MaxFaults
    /\ used \in SUBSET Key
    /\ deleted \in SUBSET Key
    /\ withdrawn \in SUBSET (Key \X Model)
    /\ closed \in SUBSET Model
    /\ expected \in [Key -> Overrides]
    /\ unsettled \in SUBSET (Key \X Model)

(* First start: no files yet, nothing in the credential store. *)
Init ==
    /\ up = TRUE
    /\ keys = NoKeys
    /\ keysDisk = NoKeys
    /\ desired = {}
    /\ desiredDisk = {}
    /\ vault = {}
    /\ usageTimer = FALSE
    /\ req = [r \in Req |-> Idle]
    /\ edit = [e \in Edit |-> Idle]
    /\ faults = 0
    /\ used = {}
    /\ deleted = {}
    /\ withdrawn = {}
    /\ closed = {}
    /\ expected = [k \in Key |-> NoOverrides]
    /\ unsettled = {}

-----------------------------------------------------------------------------
(***************************************************************************)
(* Writes to disk, and the loss of everything else.                        *)
(***************************************************************************)
Fault == faults < MaxFaults /\ faults' = faults + 1

(* Mutant of Commit: the image is not persisted. *)
CommitInMemory(s) == keys' = s /\ UNCHANGED <<keysDisk, faults>>

(* create, update and delete persist the new image and put the old one     *)
(* back in memory when the write throws.                                   *)
Commit(s) ==
    /\ keys' = s
    /\ keysDisk' = s
    /\ UNCHANGED faults

RollBack ==
    /\ Fault
    /\ UNCHANGED <<store, vault, history>>

Die ==
    /\ up' = FALSE
    /\ keys' = NoKeys
    /\ desired' = {}
    /\ usageTimer' = FALSE
    /\ req' = [r \in Req |-> Idle]
    /\ edit' = [e \in Edit |-> Idle]

(* What a 200 that wrote the overrides of k for the models of touched      *)
(* promises, and whether an edit of k is still waiting to write.           *)
Answered(k, touched, ov, pending) ==
    /\ expected' = [expected EXCEPT ![k] =
                      [m \in Model |-> IF m \in touched THEN ov[m] ELSE @[m]]]
    /\ unsettled' = (unsettled \ {<<k, m>> : m \in touched})
                  \cup {<<k, m>> : m \in IF pending THEN touched ELSE {}}

EditPending(k, self) ==
    \E e \in Edit \ self : edit[e] # Idle /\ edit[e].key = k

-----------------------------------------------------------------------------
(***************************************************************************)
(* /api/desired-models.                                                    *)
(***************************************************************************)

(* desiredModels.add: memory first; a failed write is reported but the     *)
(* model stays in memory.                                                  *)
AddDesired(m) ==
    /\ up
    /\ desired' = desired \cup {m}
    /\ \/ desiredDisk' = desired' /\ UNCHANGED faults
       \/ Fault /\ UNCHANGED desiredDisk
    /\ closed' = closed \ {m}
    /\ UNCHANGED <<up, store, vault, usageTimer, handlers, used, deleted,
                   withdrawn, writes>>

(* Mutant of KeysAfterRemoval: the stripped keys are not persisted. *)
KeysAfterRemovalInMemory(m) ==
    /\ keys' = StripModel(keys, m)
    /\ UNCHANGED keysDisk

(* removeModelFromAll persists only when some key changed in memory. *)
KeysAfterRemoval(m) ==
    /\ keys' = StripModel(keys, m)
    /\ keysDisk' = IF keys' = keys THEN keysDisk ELSE keys'

(* The keys that lose m, and of their overrides what a removal leaves to   *)
(* be expected; those of open are not known from then on.                  *)
Stripped(m) == {k \in Live(keys) : m \in keys[k].allowedModels}

ForgetModel(m, open) ==
    /\ expected' = [k \in Key |-> IF k \in Stripped(m) THEN Prune(expected[k], Model \ {m})
                                  ELSE expected[k]]
    /\ unsettled' = (unsettled \ (Stripped(m) \X {m})) \cup (open \X {m})

StrippedInEdit(m) == {k \in Stripped(m) : EditPending(k, {})}

(* Mutant of RemoveDesired: the model file is not rewritten. *)
RemoveDesiredInMemory(m) ==
    /\ up
    /\ KeysAfterRemoval(m)
    /\ desired' = desired \ {m}
    /\ withdrawn' = withdrawn \cup (Key \X {m})
    /\ closed' = closed \cup {m}
    /\ ForgetModel(m, StrippedInEdit(m))
    /\ UNCHANGED <<up, desiredDisk, vault, usageTimer, handlers, faults, used, deleted>>

(* DELETE answers 200: the keys were stripped, then the model was dropped  *)
(* and, if memory still had it, the file rewritten.                        *)
RemoveDesired(m) ==
    /\ up
    /\ KeysAfterRemoval(m)
    /\ desired' = desired \ {m}
    /\ desiredDisk' = IF m \in desired THEN desired' ELSE desiredDisk
    /\ withdrawn' = withdrawn \cup (Key \X {m})
    /\ closed' = closed \cup {m}
    /\ ForgetModel(m, StrippedInEdit(m))
    /\ UNCHANGED <<up, vault, usageTimer, handlers, faults, used, deleted>>

(* The key file cannot be written: the keys stay stripped in memory, the   *)
(* model stays desired, the caller gets a 500: with a restart the          *)
(* overrides may come back.                                                *)
RemoveDesiredKeysFail(m) ==
    /\ up
    /\ keys' = StripModel(keys, m)
    /\ keys' # keys
    /\ Fault
    /\ ForgetModel(m, Stripped(m))
    /\ UNCHANGED <<up, keysDisk, offers, vault, usageTimer, handlers, used, promises>>

(* The desired model file cannot be written: gone from memory only, 500. *)
RemoveDesiredModelsFail(m) ==
    /\ up
    /\ m \in desired
    /\ KeysAfterRemoval(m)
    /\ desired' = desired \ {m}
    /\ Fault
    /\ ForgetModel(m, StrippedInEdit(m))
    /\ UNCHANGED <<up, desiredDisk, vault, usageTimer, handlers, used, promises>>

(* Mutant of RemoveDesiredCrash: the model file is written first. *)
RemoveDesiredCrashModelsFirst(m) ==
    /\ up
    /\ m \in desired
    /\ StripModel(keys, m) # keys
    /\ desiredDisk' = desired \ {m}
    /\ Die
    /\ UNCHANGED <<keysDisk, vault, faults, history>>

(* The process dies between the two writes: the caller gets no answer, the *)
(* keys have lost the model in the file.                                   *)
RemoveDesiredCrash(m) ==
    /\ up
    /\ m \in desired
    /\ StripModel(keys, m) # keys
    /\ keysDisk' = StripModel(keys, m)
    /\ Die
    /\ ForgetModel(m, {})
    /\ UNCHANGED <<desiredDisk, vault, faults, used, promises>>

-----------------------------------------------------------------------------
(***************************************************************************)
(* /api/access-keys.                                                       *)
(***************************************************************************)

(* POST: the body is read before anything is checked, so validation and    *)
(* creation are one step.  The secret goes to the OS store first (or is    *)
(* one-time when that store refuses), the record to the file second.       *)
NewKey(allowed, ov, stored) ==
    [enabled |-> TRUE, allowedModels |-> allowed, modelOverrides |-> ov,
     secretStorage |-> IF stored THEN "secure-store" ELSE "unavailable"]

ValidCreate(k, allowed, ov) ==
    /\ up
    /\ k \notin used
    /\ allowed \subseteq desired
    /\ Sources(ov) \subseteq allowed

CreateKey(k, allowed, ov, stored) ==
    /\ ValidCreate(k, allowed, ov)
    /\ Commit([keys EXCEPT ![k] = NewKey(allowed, ov, stored)])
    /\ vault' = IF stored THEN vault \cup {k} ELSE vault
    /\ used' = used \cup {k}
    /\ withdrawn' = withdrawn \ ({k} \X allowed)
    /\ Answered(k, Model, ov, FALSE)
    /\ UNCHANGED <<up, offers, usageTimer, handlers, deleted, closed>>

(* The file cannot be written: the record is dropped and the OS entry      *)
(* cleared, which the platform stores do on a best-effort basis.           *)
CreateKeyFail(k, allowed, ov, stored) ==
    /\ ValidCreate(k, allowed, ov)
    /\ Fault
    /\ vault' \in {vault, IF stored THEN vault \cup {k} ELSE vault}
    /\ used' = used \cup {k}
    /\ UNCHANGED <<up, store, offers, usageTimer, handlers, promises, writes>>

(* The process dies after the OS store has the secret, before the file. *)
CreateKeyCrash(k, allowed, ov) ==
    /\ ValidCreate(k, allowed, ov)
    /\ vault' = vault \cup {k}
    /\ used' = used \cup {k}
    /\ Die
    /\ UNCHANGED <<keysDisk, desiredDisk, faults, promises, writes>>

(* JsonAccessKeyStore.update: the override table is validated against the  *)
(* allowed models the record will have, or pruned to them when the patch   *)
(* does not carry one.  ValidPatch is false where update throws.           *)
Value(field, old) == IF field = Unset THEN old ELSE field

(* Mutant of ValidPatch: the override table is taken as it comes. *)
ValidPatchUnchecked(k, allowed, ov) == keys[k] # Absent

ValidPatch(k, allowed, ov) ==
    /\ keys[k] # Absent
    /\ ov # Unset => Sources(ov) \subseteq Value(allowed, keys[k].allowedModels)

Patched(k, allowed, enabled, ov) ==
    LET grant == Value(allowed, keys[k].allowedModels) IN
    [keys EXCEPT ![k].allowedModels = grant,
                 ![k].enabled = Value(enabled, @),
                 ![k].modelOverrides = IF ov = Unset THEN Prune(@, grant) ELSE ov]

(* PUT /api/access-keys/:id validates and updates after its only await. *)
UpdateKey(k, allowed, enabled, ov) ==
    LET next == Patched(k, allowed, enabled, ov) IN
    /\ up
    /\ allowed # Unset => allowed \subseteq desired
    /\ ValidPatch(k, allowed, ov)
    /\ UNCHANGED <<up, offers, usageTimer, handlers>>
    /\ \/ /\ Commit(next)
          /\ withdrawn' = IF allowed = Unset THEN withdrawn
                          ELSE withdrawn \ ({k} \X allowed)
          /\ Answered(k, IF ov = Unset THEN Model \ next[k].allowedModels ELSE Model,
                      next[k].modelOverrides, EditPending(k, {}))
          /\ UNCHANGED <<vault, used, deleted, closed>>
       \/ RollBack

(* Mutants of DeleteKey: the file is not written; the OS entry goes first. *)
DeleteKeyInMemory(k) ==
    /\ up
    /\ keys[k] # Absent
    /\ keys' = [keys EXCEPT ![k] = Absent]
    /\ deleted' = deleted \cup {k}
    /\ UNCHANGED <<up, keysDisk, offers, vault, usageTimer, handlers, faults, used,
                   withdrawn, closed, writes>>

DeleteKeySecretFirst(k) ==
    /\ up
    /\ keys[k] # Absent
    /\ vault' = vault \ {k}
    /\ UNCHANGED <<up, offers, usageTimer, handlers>>
    /\ \/ /\ Commit([keys EXCEPT ![k] = Absent])
          /\ deleted' = deleted \cup {k}
          /\ UNCHANGED <<used, withdrawn, closed, writes>>
       \/ Fault /\ UNCHANGED <<store, history>>

(* DELETE /api/access-keys/:id: file first, then the OS entry; a refusal   *)
(* of the OS store is ignored.                                             *)
DeleteKey(k) ==
    /\ up
    /\ keys[k] # Absent
    /\ UNCHANGED <<up, offers, usageTimer, handlers>>
    /\ \/ /\ Commit([keys EXCEPT ![k] = Absent])
          /\ vault' \in {vault, vault \ {k}}
          /\ deleted' = deleted \cup {k}
          /\ UNCHANGED <<used, withdrawn, closed, writes>>
       \/ RollBack

(* The process dies between the file and the OS store. *)
DeleteKeyCrash(k) ==
    /\ up
    /\ keys[k] # Absent
    /\ keysDisk' = [keys EXCEPT ![k] = Absent]
    /\ Die
    /\ UNCHANGED <<desiredDisk, vault, faults, history>>

-----------------------------------------------------------------------------
(***************************************************************************)
(* Override edits.  The PUT handlers take a copy of the key, check it, and *)
(* only then await the body; everything they write is built on the copy.   *)
(***************************************************************************)
StartEdit(e, k, m) ==
    /\ up
    /\ edit[e] = Idle
    /\ keys[k] # Absent
    /\ m # Unset => m \in keys[k].allowedModels /\ m \in desired
    /\ edit' = [edit EXCEPT ![e] = [phase |-> "body", key |-> k, model |-> m,
                                    was |-> keys[k]]]
    /\ UNCHANGED <<up, store, offers, vault, usageTimer, req, faults, history>>

(* Mutant of EditTables: the other entries of the copy are dropped. *)
EditTablesOneEntry(h) ==
    IF h.model # Unset
    THEN {[NoOverrides EXCEPT ![h.model] = o] : o \in Override}
    ELSE {ov \in Overrides : Sources(ov) \subseteq h.was.allowedModels}

(* The table to write: the copy with one entry replaced, or a whole table  *)
(* whose models the copy allows.                                           *)
EditTables(h) ==
    IF h.model # Unset
    THEN {[h.was.modelOverrides EXCEPT ![h.model] = o] : o \in Override}
    ELSE {ov \in Overrides : Sources(ov) \subseteq h.was.allowedModels}

FinishEdit(e) ==
    LET h == edit[e] IN
    /\ up
    /\ h # Idle
    /\ edit' = [edit EXCEPT ![e] = Idle]
    /\ UNCHANGED <<up, offers, usageTimer, req>>
    /\ \E ov \in EditTables(h) :
         /\ ValidPatch(h.key, Unset, ov)
         /\ \/ /\ Commit(Patched(h.key, Unset, Unset, ov))
               /\ Answered(h.key, IF h.model = Unset THEN Model ELSE {h.model},
                           ov, EditPending(h.key, {e}))
               /\ UNCHANGED <<vault, used, promises>>
            \/ RollBack

(* Bad body, disconnected caller, or update threw: no write (4xx). *)
AbandonEdit(e) ==
    /\ up
    /\ edit[e] # Idle
    /\ edit' = [edit EXCEPT ![e] = Idle]
    /\ UNCHANGED <<up, store, offers, vault, usageTimer, req, faults, history>>

(* DELETE of one override, or of all of them (m = Unset): no await. *)
ClearOverride(k, m) ==
    LET gone == IF m = Unset THEN Model ELSE {m}
        left == Prune(keys[k].modelOverrides, Model \ gone)
    IN
    /\ up
    /\ keys[k] # Absent
    /\ m # Unset => m \in keys[k].allowedModels /\ m \in desired
    /\ ValidPatch(k, Unset, left)
    /\ UNCHANGED <<up, offers, usageTimer, handlers>>
    /\ \/ /\ Commit(Patched(k, Unset, Unset, left))
          /\ Answered(k, gone, NoOverrides, EditPending(k, {}))
          /\ UNCHANGED <<vault, used, promises>>
       \/ RollBack

-----------------------------------------------------------------------------
(***************************************************************************)
(* The data plane.                                                         *)
(***************************************************************************)

(* findBySecret returns a copy of the record; touchLastUsed runs in the    *)
(* next microtask, before any other handler, and arms the usage timer.     *)
Authenticate(r, k) ==
    /\ up
    /\ req[r] = Idle
    /\ keys[k] # Absent
    /\ keys[k].enabled
    /\ req' = [req EXCEPT ![r] = Reading(k, keys[k])]
    /\ usageTimer' = TRUE
    /\ UNCHANGED <<up, store, offers, vault, edit, faults, history>>

(* A caller with its own upstream credential, or with none. *)
AcceptPassthrough(r) ==
    /\ up
    /\ req[r] = Idle
    /\ req' = [req EXCEPT ![r] = Reading(Passthrough, Absent)]
    /\ UNCHANGED <<up, store, offers, vault, usageTimer, edit, faults, history>>

Remap(name) == IF name \in Alias THEN Target ELSE name

(* Mutant of Authorized: only the key is asked. *)
AuthorizedByKey(h, m) == h.key # Passthrough => m \in h.grant.allowedModels

(* The forwarded model, not the alias, is authorized: against the desired  *)
(* models of this moment and the copy of the key taken before the await.   *)
Authorized(h, m) ==
    h.key # Passthrough => m \in desired /\ m \in h.grant.allowedModels

Forward(r, name) ==
    LET h == req[r] IN
    /\ up
    /\ h.phase = "body"
    /\ Authorized(h, Remap(name))
    /\ req' = [req EXCEPT ![r] = Sent(h.key, Remap(name))]
    /\ UNCHANGED <<up, store, offers, vault, usageTimer, edit, faults, history>>

(* Bad body, no model, model not authorized, caller gone, or the response  *)
(* is complete.                                                            *)
EndRequest(r) ==
    /\ up
    /\ req[r] # Idle
    /\ req' = [req EXCEPT ![r] = Idle]
    /\ UNCHANGED <<up, store, offers, vault, usageTimer, edit, faults, history>>

(* One second after the first use the whole key table is written.  The     *)
(* callback has no handler for a failed write: Node ends the process.      *)
UsageTimerFires ==
    /\ up
    /\ usageTimer
    /\ usageTimer' = FALSE
    /\ keysDisk' = keys
    /\ UNCHANGED <<up, keys, offers, vault, handlers, faults, history>>

UsageTimerFails ==
    /\ up
    /\ usageTimer
    /\ Fault
    /\ Die
    /\ UNCHANGED <<keysDisk, desiredDisk, vault, history>>

-----------------------------------------------------------------------------
(***************************************************************************)
(* Process lifetime.                                                       *)
(***************************************************************************)
Crash ==
    /\ up
    /\ Die
    /\ UNCHANGED <<keysDisk, desiredDisk, vault, faults, history>>

(* startServer: a store whose load() throws starts empty and the gateway   *)
(* serves on; its next write replaces the unreadable file.                 *)
Restart(keysReadable, modelsReadable) ==
    LET failed == (IF keysReadable THEN 0 ELSE 1) + (IF modelsReadable THEN 0 ELSE 1) IN
    /\ ~up
    /\ up' = TRUE
    /\ faults + failed <= MaxFaults
    /\ faults' = faults + failed
    /\ keys' = IF keysReadable THEN LoadKeys(keysDisk) ELSE NoKeys
    /\ desired' = IF modelsReadable THEN desiredDisk ELSE {}
    /\ UNCHANGED <<keysDisk, desiredDisk, vault, usageTimer, handlers, history>>

DesiredStep ==
    \E m \in Model :
        \/ AddDesired(m)
        \/ RemoveDesired(m)
        \/ RemoveDesiredKeysFail(m)
        \/ RemoveDesiredModelsFail(m)
        \/ RemoveDesiredCrash(m)

CreateStep ==
    \E k \in Key, allowed \in SUBSET Model, ov \in Overrides :
        \/ \E stored \in BOOLEAN : CreateKey(k, allowed, ov, stored)
        \/ \E stored \in BOOLEAN : CreateKeyFail(k, allowed, ov, stored)
        \/ CreateKeyCrash(k, allowed, ov)

KeyStep ==
    \E k \in Key :
        \/ \E allowed \in (SUBSET Model) \cup {Unset}, enabled \in BOOLEAN \cup {Unset},
              ov \in Overrides \cup {Unset} : UpdateKey(k, allowed, enabled, ov)
        \/ DeleteKey(k)
        \/ DeleteKeyCrash(k)
        \/ \E m \in Model \cup {Unset} : ClearOverride(k, m)

EditStep ==
    \E e \in Edit :
        \/ \E k \in Key, m \in Model \cup {Unset} : StartEdit(e, k, m)
        \/ FinishEdit(e)
        \/ AbandonEdit(e)

RequestStep ==
    \E r \in Req :
        \/ \E k \in Key : Authenticate(r, k)
        \/ AcceptPassthrough(r)
        \/ \E name \in Model \cup Alias : Forward(r, name)
        \/ EndRequest(r)

ProcessStep ==
    \/ UsageTimerFires
    \/ UsageTimerFails
    \/ Crash
    \/ \E keysReadable, modelsReadable \in BOOLEAN : Restart(keysReadable, modelsReadable)

Next == DesiredStep \/ CreateStep \/ KeyStep \/ EditStep \/ RequestStep \/ ProcessStep

Spec == Init /\ [][Next]_vars
-----------------------------------------------------------------------------
(***************************************************************************)
(* What the gateway promises about access.                                 *)
(***************************************************************************)

(* An id whose DELETE answered deleted: true is on neither side again,     *)
(* whatever fails or restarts later (accessKeyStore.ts delete).            *)
DeletedStaysDeleted ==
    \A k \in deleted : keys[k] = Absent /\ keysDisk[k] = Absent

(* A routing override never outlives the grant it belongs to, in memory or *)
(* in the file, although override edits write a table built on a copy of   *)
(* the key that may be stale by then (server.ts, the override PUTs).       *)
OverridesWithinGrant ==
    \A s \in {keys, keysDisk} : \A k \in Live(s) :
        Sources(s[k].modelOverrides) \subseteq s[k].allowedModels

(* Memory holds no right the file lacks: a rolled-back or failed write     *)
(* never leaves a key, a grant or an enabled flag that only lives until    *)
(* the next restart (create, update, delete, removeModelFromAll).          *)
MemoryWithinDisk ==
    \A k \in Live(keys) :
        /\ keysDisk[k] # Absent
        /\ keys[k].allowedModels \subseteq keysDisk[k].allowedModels
        /\ keys[k].enabled = keysDisk[k].enabled

(* A key that is recorded as recoverable has its secret in the OS store:   *)
(* create saves it first and delete clears it last.                        *)
SecretRecoverable ==
    \A s \in {keys, keysDisk} : \A k \in Live(s) :
        s[k].secretStorage = "secure-store" => k \in vault

(* Every model a key is granted is a Desired Model, in memory and in the   *)
(* files, even when the process dies in the middle of a DELETE.            *)
GrantsAreDesired ==
    /\ \A k \in Live(keys) : keys[k].allowedModels \subseteq desired
    /\ \A k \in Live(keysDisk) : keysDisk[k].allowedModels \subseteq desiredDisk

(* README: removing a Desired Model removes it from managed keys.  Once a  *)
(* DELETE has answered 200 no key holds the model until it is granted anew.*)
RemovedFromKeys ==
    \A k \in Live(keys), m \in Model :
        <<k, m>> \in withdrawn => m \notin keys[k].allowedModels

(* server.ts: "a partial persistence failure still fails closed".  After a *)
(* DELETE that answered 200, and until the model is offered or granted     *)
(* again, no key reaches it, though the key file may still list it.        *)
FailsClosed ==
    \A k \in Live(keys), m \in desired \cap closed :
        <<k, m>> \in withdrawn => m \notin keys[k].allowedModels

(* The override a 200 reported is in force until another call writes it,   *)
(* before and after any crash, restart and failed write, as long as the    *)
(* key is known at all.  Two cases leave an entry open: an older edit of   *)
(* the same key was still waiting for its body, and puts back the table it *)
(* copied; or a removal of the model ended with a 500, and its overrides   *)
(* are gone in memory and back with a restart.                             *)
OverrideDurable ==
    \A k \in Live(keys), m \in Model :
        keys[k].modelOverrides[m] = expected[k][m] \/ <<k, m>> \in unsettled

(* A write that fails is reported or logged; it does not end the process. *)
FailedWriteKeepsServing ==
    [][up /\ faults' > faults => up']_vars
=============================================================================
