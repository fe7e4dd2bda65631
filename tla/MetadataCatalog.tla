-------------------------- MODULE MetadataCatalog --------------------------
(***************************************************************************)
(* The cache of OpenRouter's model list and of each model's endpoints      *)
(* (catalog.ts, storage/metadata.ts): one refresh in flight per entry,     *)
(* joined by every caller that asks meanwhile, a failing refresh answered  *)
(* from the entry it started with, and one file that holds all entries.    *)
(* Composed with the upstream key, whose PUT starts a refresh of the       *)
(* models in the background.                                               *)
(*                                                                         *)
(* Whether an entry is fresh depends on the clock and on a TTL that        *)
(* settings may change at any moment, so a call that does not force a      *)
(* refresh may find it either way.                                         *)
(***************************************************************************)
EXTENDS UpstreamCredential

CONSTANTS
    Slot,       \* cache entries: the model list, the endpoints of a model
    Models,     \* the entry of the model list
    Data,       \* what OpenRouter may answer
    Absent,     \* no entry
    Caller,     \* handlers and timers that ask for metadata
    Background  \* the refresh a PUT of the key leaves running

ASSUME CatalogAssumption ==
    /\ Models \in Slot
    /\ Absent \notin Data
    /\ Background \in Caller

VARIABLES
    cache,      \* JsonMetadataStore.data
    cacheFile,  \* the metadata file
    asked       \* callers waiting for a refresh

(* What the callers were told; no action reads it. *)
VARIABLE known  \* entries some caller has been answered from

catalogVars == <<cache, cacheFile, asked, known>>
vars == <<credentialVars, catalogVars>>

Waiting == [phase : {"wait"}, slot : Slot, base : Data \cup {Absent}, op : Caller]

CatalogTypeOK ==
    /\ CredentialTypeOK
    /\ cache \in [Slot -> Data \cup {Absent}]
    /\ cacheFile \in [Slot -> Data \cup {Absent}]
    /\ asked \in [Caller -> {Idle} \cup Waiting]
    /\ known \in SUBSET Slot

Init ==
    /\ CredentialInit
    /\ cache = [s \in Slot |-> Absent]
    /\ cacheFile = [s \in Slot |-> Absent]
    /\ asked = [c \in Caller |-> Idle]
    /\ known = {}

Awaits(c, s) == asked[c] # Idle /\ asked[c].slot = s

(* Mutant of Asks: no single flight. *)
AsksAlone(c, s) ==
    asked' = [asked EXCEPT ![c] =
        [phase |-> "wait", slot |-> s, base |-> cache[s], op |-> c]]

(* Wait for the refresh in flight, or start one from the present entry. *)
Asks(c, s) ==
    asked' = [asked EXCEPT ![c] =
        IF \E d \in Caller : Awaits(d, s)
        THEN asked[CHOOSE d \in Caller : Awaits(d, s)]
        ELSE [phase |-> "wait", slot |-> s, base |-> cache[s], op |-> c]]

(* A forced refresh, or a call that finds no fresh entry. *)
Ask(c, s) ==
    /\ up
    /\ c # Background
    /\ asked[c] = Idle
    /\ Asks(c, s)
    /\ UNCHANGED <<credentialVars, cache, cacheFile, known>>

(* A call that finds a fresh entry and nothing in flight. *)
AnswerFresh(s) ==
    /\ up
    /\ cache[s] # Absent
    /\ ~\E d \in Caller : Awaits(d, s)
    /\ known' = known \cup {s}
    /\ UNCHANGED <<credentialVars, cache, cacheFile, asked>>

(* Mutant of Answered: those who joined keep waiting for the next refresh. *)
AnsweredFirst(l) ==
    asked' = [c \in Caller |->
        IF c = l THEN Idle
        ELSE IF asked[c] # Idle /\ asked[c].op = l
        THEN [asked[c] EXCEPT !.base = cache'[asked[c].slot]] ELSE asked[c]]

(* The refresh led by l has ended: everyone waiting for it is told. *)
Answered(l) ==
    asked' = [c \in Caller |->
        IF asked[c] # Idle /\ asked[c].op = l THEN Idle ELSE asked[c]]

(* Mutant of Saved: the file is not written. *)
SavedInMemory(s) == UNCHANGED <<cacheFile, faults>> /\ known' = known \cup {s}

(* Memory has the new entry; the whole file follows.  A write that fails   *)
(* makes the caller see the entry the refresh started with, or an error.   *)
Saved(s) ==
    \/ /\ cacheFile' = cache'
       /\ known' = known \cup {s}
       /\ UNCHANGED faults
    \/ /\ Fault
       /\ known' = IF cache[s] # Absent THEN known \cup {s} ELSE known
       /\ UNCHANGED cacheFile

Fetched(l, d) ==
    /\ asked[l] # Idle /\ asked[l].op = l
    /\ cache' = [cache EXCEPT ![asked[l].slot] = d]
    /\ Saved(asked[l].slot)
    /\ Answered(l)
    /\ UNCHANGED <<up, tool, layers, put, remembered, vetted>>

(* OpenRouter refused, answered nonsense, or ten seconds have passed: the  *)
(* callers get the entry the refresh started with, marked stale, or an     *)
(* error if there was none.                                                *)
FetchFails(l) ==
    /\ asked[l] # Idle /\ asked[l].op = l
    /\ known' = IF asked[l].base # Absent THEN known \cup {asked[l].slot} ELSE known
    /\ UNCHANGED <<credentialVars, cache, cacheFile>>
    /\ Answered(l)

(* After a PUT of the key that saved: syncModels(true), not awaited.  It   *)
(* joins a refresh in flight, the one that began with the old key too.     *)
SyncModels(ok) ==
    IF ~ok \/ \E d \in Caller : Awaits(d, Models)
    THEN UNCHANGED catalogVars
    ELSE Asks(Background, Models) /\ UNCHANGED <<cache, cacheFile, known>>

PutUnverified(p, k, remember, ok) == SaveUnverified(p, k, remember, ok) /\ SyncModels(ok)
PutStart(p, k, remember) == StartVerify(p, k, remember) /\ UNCHANGED catalogVars
PutVerified(p, ok) == SaveVerified(p, ok) /\ SyncModels(ok)
PutRejected(p) == Rejected(p) /\ UNCHANGED catalogVars
DeleteKey == Forget /\ UNCHANGED catalogVars
Install == ToolAppears /\ UNCHANGED catalogVars

Crash ==
    /\ CredentialDies
    /\ cache' = [s \in Slot |-> Absent]
    /\ asked' = [c \in Caller |-> Idle]
    /\ UNCHANGED <<faults, cacheFile, known>>

(* The credential store and the metadata file are read; a file that cannot *)
(* be read is logged and the cache starts empty.                           *)
Restart ==
    \E keyRead, fileRead \in BOOLEAN :
        /\ CredentialStarts(keyRead)
        /\ cache' = IF fileRead THEN cacheFile ELSE cache
        /\ IF keyRead /\ fileRead THEN UNCHANGED faults ELSE Fault
        /\ UNCHANGED <<cacheFile, asked, known>>

Next ==
    \/ \E c \in Caller, s \in Slot : Ask(c, s)
    \/ \E s \in Slot : AnswerFresh(s)
    \/ \E c \in Caller, d \in Data : Fetched(c, d)
    \/ \E c \in Caller : FetchFails(c)
    \/ \E p \in Put, k \in ApiKey, r, ok \in BOOLEAN : PutUnverified(p, k, r, ok)
    \/ \E p \in Put, k \in ApiKey, r \in BOOLEAN : PutStart(p, k, r)
    \/ \E p \in Put, ok \in BOOLEAN : PutVerified(p, ok)
    \/ \E p \in Put : PutRejected(p)
    \/ DeleteKey
    \/ Install
    \/ Crash
    \/ Restart

(* The client gives every call of OpenRouter ten seconds. *)
Fairness == \A c \in Caller : WF_vars(FetchFails(c) \/ \E d \in Data : Fetched(c, d))

Spec == Init /\ [][Next]_vars /\ Fairness
-----------------------------------------------------------------------------
(* README: a failed refresh preserves the most recent snapshot.  An entry  *)
(* somebody was once answered from is never gone again, over crashes too,  *)
(* as long as the files can be written and read.                           *)
KnownStaysKnown == up /\ faults = 0 => \A s \in known : cache[s] # Absent

(* What a failing refresh will answer is what the cache still holds: no    *)
(* caller is given an older snapshot than another one already saw.         *)
BaseIsCurrent ==
    \A c \in Caller : asked[c] # Idle => asked[c].base = cache[asked[c].slot]

(* Every caller is answered, those who joined another one's refresh too.   *)
CallersAnswered == \A c \in Caller : asked[c] # Idle ~> asked[c] = Idle
=============================================================================
