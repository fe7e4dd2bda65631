----------------------- MODULE MetadataCatalogProofs -----------------------
(***************************************************************************)
(* What TLAPS proves of MetadataCatalog and of the upstream key it is      *)
(* composed with, for all sets of keys, handlers, callers and cache        *)
(* entries and any number of faults.                                       *)
(***************************************************************************)
EXTENDS MetadataCatalog, TLAPS

(***************************************************************************)
(* The key.                                                                *)
(***************************************************************************)

(* The remembered key is among those the callers' answers allow, in the    *)
(* store and in memory.                                                    *)
Kept ==
    /\ vault \in remembered
    /\ up => persistedKey \in remembered

(* No layer holds a key that was not vetted. *)
Vetted == {sessionKey, persistedKey, vault} \subseteq vetted \cup {NoKey}

CredentialInv == Kept /\ Vetted

CredentialStep ==
    \/ \E p \in Put, k \in ApiKey, r, ok \in BOOLEAN : SaveUnverified(p, k, r, ok)
    \/ \E p \in Put, k \in ApiKey, r \in BOOLEAN : StartVerify(p, k, r)
    \/ \E p \in Put, ok \in BOOLEAN : SaveVerified(p, ok)
    \/ \E p \in Put : Rejected(p)
    \/ Forget
    \/ ToolAppears
    \/ CredentialDies
    \/ \E readable \in BOOLEAN : CredentialStarts(readable)
    \/ UNCHANGED <<up, layers, remembered, vetted>>

(* A save, with whatever outcome, keeps both. *)
LEMMA StoreKeeps ==
    ASSUME CredentialInv, up, up' = up, NEW k, NEW r \in BOOLEAN, NEW ok \in BOOLEAN,
           Store(k, r, ok), vetted' = vetted \cup {k}
    PROVE  CredentialInv'
  <1>1. CASE r /\ ok
    BY <1>1 DEF CredentialInv, Kept, Vetted, Store, Remember, Save
  <1>2. CASE r /\ ~ok
    BY <1>2 DEF CredentialInv, Kept, Vetted, Store, Remember, SaveThrows
  <1>3. CASE ~r
    BY <1>3 DEF CredentialInv, Kept, Vetted, Store, KeepForSession
  <1> QED
    BY <1>1, <1>2, <1>3

(* Every step of the key keeps its invariant. *)
LEMMA CredentialKeeps == CredentialInv /\ CredentialStep => CredentialInv'
  <1> SUFFICES ASSUME CredentialInv, CredentialStep PROVE CredentialInv'
    OBVIOUS
  <1>1. ASSUME NEW p \in Put, NEW k \in ApiKey, NEW r \in BOOLEAN, NEW ok \in BOOLEAN,
               SaveUnverified(p, k, r, ok)
        PROVE  CredentialInv'
    BY <1>1, StoreKeeps DEF SaveUnverified
  <1>2. ASSUME NEW p \in Put, NEW k \in ApiKey, NEW r \in BOOLEAN, StartVerify(p, k, r)
        PROVE  CredentialInv'
    BY <1>2 DEF StartVerify, CredentialInv, Kept, Vetted, layers
  <1>3. ASSUME NEW p \in Put, NEW ok \in BOOLEAN, SaveVerified(p, ok)
        PROVE  CredentialInv'
    <2>1. /\ up /\ up' = up
          /\ Store(put[p].key, put[p].remember, ok)
          /\ vetted' = vetted \cup {put[p].key}
      BY <1>3 DEF SaveVerified
    <2>2. CASE put[p].remember
      BY <2>1, <2>2, StoreKeeps DEF Store
    <2>3. CASE ~put[p].remember
      <3>1. Store(put[p].key, FALSE, ok)
        BY <2>1, <2>3 DEF Store
      <3> QED
        BY <2>1, <3>1, StoreKeeps
    <2> QED
      BY <2>2, <2>3
  <1>4. ASSUME NEW p \in Put, Rejected(p)
        PROVE  CredentialInv'
    BY <1>4 DEF Rejected, CredentialInv, Kept, Vetted, layers
  <1>5. CASE Forget
    BY <1>5 DEF Forget, Clear, CredentialInv, Kept, Vetted
  <1>6. CASE ToolAppears
    BY <1>6 DEF ToolAppears, CredentialInv, Kept, Vetted, layers
  <1>7. CASE CredentialDies
    BY <1>7 DEF CredentialDies, CredentialInv, Kept, Vetted
  <1>8. ASSUME NEW readable \in BOOLEAN, CredentialStarts(readable)
        PROVE  CredentialInv'
    BY <1>8 DEF CredentialStarts, ReadVault, Load, CredentialInv, Kept, Vetted
  <1>9. CASE UNCHANGED <<up, layers, remembered, vetted>>
    BY <1>9 DEF CredentialInv, Kept, Vetted, layers
  <1> QED
    BY <1>1, <1>2, <1>3, <1>4, <1>5, <1>6, <1>7, <1>8, <1>9 DEF CredentialStep

(* What a step of the whole does to the key. *)
LEMMA NextIsCredentialStep == [Next]_vars => CredentialStep
  <1> USE DEF CredentialStep
  <1> SUFFICES ASSUME [Next]_vars PROVE CredentialStep
    OBVIOUS
  <1>1. CASE \E c \in Caller, s \in Slot : Ask(c, s)
    BY <1>1 DEF Ask, credentialVars
  <1>2. CASE \E s \in Slot : AnswerFresh(s)
    BY <1>2 DEF AnswerFresh, credentialVars
  <1>3. CASE \E c \in Caller, d \in Data : Fetched(c, d)
    BY <1>3 DEF Fetched
  <1>4. CASE \E c \in Caller : FetchFails(c)
    BY <1>4 DEF FetchFails, credentialVars
  <1>5. CASE \E p \in Put, k \in ApiKey, r, ok \in BOOLEAN : PutUnverified(p, k, r, ok)
    BY <1>5 DEF PutUnverified
  <1>6. CASE \E p \in Put, k \in ApiKey, r \in BOOLEAN : PutStart(p, k, r)
    BY <1>6 DEF PutStart
  <1>7. CASE \E p \in Put, ok \in BOOLEAN : PutVerified(p, ok)
    BY <1>7 DEF PutVerified
  <1>8. CASE \E p \in Put : PutRejected(p)
    BY <1>8 DEF PutRejected
  <1>9. CASE DeleteKey \/ Install \/ Crash \/ Restart
    BY <1>9 DEF DeleteKey, Install, Crash, Restart
  <1>10. CASE UNCHANGED vars
    BY <1>10 DEF vars, credentialVars
  <1> QED
    BY <1>1, <1>2, <1>3, <1>4, <1>5, <1>6, <1>7, <1>8, <1>9, <1>10 DEF Next

(* Every layer holds what it may. *)
THEOREM CredentialInvariant == Spec => []CredentialInv
  <1>1. Init => CredentialInv
    BY DEF Init, CredentialInit, CredentialInv, Kept, Vetted
  <1>2. CredentialInv /\ [Next]_vars => CredentialInv'
    BY NextIsCredentialStep, CredentialKeeps
  <1> QED
    BY <1>1, <1>2, PTL DEF Spec

(* Without a session key the key in effect is the remembered one. *)
THEOREM TheRememberedKeySurvives == Spec => []RememberedSurvives
  <1>1. CredentialInv => RememberedSurvives
    BY DEF CredentialInv, Kept, RememberedSurvives, ActiveKey
  <1> QED
    BY <1>1, CredentialInvariant, PTL

(* Only a vetted key, or the environment's, is in effect. *)
THEOREM TheActiveKeyIsVetted == Spec => []ActiveIsVetted
  <1>1. CredentialInv => ActiveIsVetted
    BY DEF CredentialInv, Vetted, ActiveIsVetted, ActiveKey
  <1> QED
    BY <1>1, CredentialInvariant, PTL
-----------------------------------------------------------------------------
(***************************************************************************)
(* The catalog.                                                            *)
(***************************************************************************)
Values == Data \cup {Absent}

Typed ==
    /\ up \in BOOLEAN
    /\ cache \in [Slot -> Values]
    /\ cacheFile \in [Slot -> Values]
    /\ asked \in [Caller -> {Idle} \cup Waiting]
    /\ known \in SUBSET Slot
    /\ faults \in Nat

(* Who waits for the same entry waits for the same refresh, and the other  *)
(* way round.                                                              *)
SingleFlight ==
    \A c, d \in Caller :
        asked[c] # Idle /\ asked[d] # Idle => (asked[c].slot = asked[d].slot <=> asked[c].op = asked[d].op)

(* Whoever leads a refresh waits for it. *)
LeaderWaits ==
    \A c \in Caller : asked[c] # Idle =>
        asked[asked[c].op] # Idle /\ asked[asked[c].op].op = asked[c].op

(* The background refresh is one of the models. *)
BackgroundModels == asked[Background] # Idle => asked[Background].slot = Models

(* Nobody waits in a process that is down. *)
DownIsIdle == ~up => \A c \in Caller : asked[c] = Idle

Flights == SingleFlight /\ LeaderWaits /\ BackgroundModels /\ DownIsIdle /\ BaseIsCurrent

(* Before the first fault memory is the file, and nothing known is lost.   *)
Mirrored ==
    faults = 0 =>
        /\ up => cache = cacheFile
        /\ \A s \in known : cacheFile[s] # Absent

CatalogInv == Typed /\ Flights /\ Mirrored

(* A caller that is not idle carries what it waits for. *)
LEMMA WaitingFields ==
    ASSUME Typed, NEW c \in Caller, asked[c] # Idle
    PROVE  asked[c] \in Waiting /\ asked[c].slot \in Slot /\ asked[c].op \in Caller
  BY DEF Typed, Waiting

(* A caller asks: it joins the refresh in flight, or leads a new one. *)
LEMMA AsksKeeps ==
    ASSUME Typed, Flights, up, UNCHANGED <<up, cache>>, NEW c \in Caller, NEW s \in Slot,
           asked[c] = Idle, c = Background => s = Models, Asks(c, s)
    PROVE  asked' \in [Caller -> {Idle} \cup Waiting] /\ Flights'
  <1>1. CASE \E d \in Caller : Awaits(d, s)
    <2>1. PICK d \in Caller : d = CHOOSE x \in Caller : Awaits(x, s)
      BY <1>1
    <2>2. Awaits(d, s)
      BY <1>1, <2>1
    <2>3. asked' = [asked EXCEPT ![c] = asked[d]]
      BY <1>1, <2>1 DEF Asks
    <2>4. asked[d] # Idle /\ asked[d].slot = s /\ asked[d] \in Waiting
      BY <2>2, WaitingFields DEF Awaits
    <2>5. asked' \in [Caller -> {Idle} \cup Waiting]
      BY <2>3, <2>4 DEF Typed
    <2>6. SingleFlight'
      BY <2>3, <2>4 DEF Typed, Flights, SingleFlight
    <2>7. LeaderWaits'
      BY <2>3, <2>4, WaitingFields DEF Typed, Flights, LeaderWaits
    <2>8. BackgroundModels' /\ DownIsIdle' /\ BaseIsCurrent'
      BY <2>3, <2>4, CatalogAssumption DEF Typed, Flights, BackgroundModels, DownIsIdle, BaseIsCurrent
    <2> QED
      BY <2>5, <2>6, <2>7, <2>8 DEF Flights
  <1>2. CASE ~\E d \in Caller : Awaits(d, s)
    <2> DEFINE new == [phase |-> "wait", slot |-> s, base |-> cache[s], op |-> c]
    <2>1. asked' = [asked EXCEPT ![c] = new]
      BY <1>2 DEF Asks
    <2>2. new # Idle /\ new \in Waiting
      BY DEF Idle, Waiting, Typed, Values
    <2>3. new.slot = s /\ new.op = c /\ new.base = cache[s]
      OBVIOUS
    <2> HIDE DEF new
    <2>4. asked' \in [Caller -> {Idle} \cup Waiting]
      BY <2>1, <2>2 DEF Typed
    <2>5. \A d \in Caller : asked[d] # Idle => asked[d].slot # s /\ asked[d].op # c
      BY <1>2, WaitingFields DEF Awaits, Flights, LeaderWaits
    <2>6. SingleFlight'
      BY <2>1, <2>2, <2>3, <2>5 DEF Typed, Flights, SingleFlight
    <2>7. LeaderWaits'
      BY <2>1, <2>2, <2>3, <2>5, WaitingFields DEF Typed, Flights, LeaderWaits
    <2>8. BackgroundModels' /\ DownIsIdle' /\ BaseIsCurrent'
      BY <2>1, <2>2, <2>3, CatalogAssumption DEF Typed, Flights, BackgroundModels, DownIsIdle, BaseIsCurrent
    <2> QED
      BY <2>4, <2>6, <2>7, <2>8 DEF Flights
  <1> QED
    BY <1>1, <1>2

(* A refresh ends: only its own entry may have changed, and nobody who     *)
(* goes on waiting waits for that.                                         *)
LEMMA AnsweredKeeps ==
    ASSUME Typed, Flights, up' = up, NEW l \in Caller, asked[l] # Idle, asked[l].op = l, Answered(l),
           \A s \in Slot : s # asked[l].slot => cache'[s] = cache[s]
    PROVE  asked' \in [Caller -> {Idle} \cup Waiting] /\ Flights'
  <1>1. \A c \in Caller : asked'[c] = IF asked[c] # Idle /\ asked[c].op = l THEN Idle ELSE asked[c]
    BY DEF Answered
  <1>2. asked' \in [Caller -> {Idle} \cup Waiting]
    BY DEF Answered, Typed
  <1>3. \A c \in Caller : asked'[c] # Idle =>
            asked'[c] = asked[c] /\ asked[c].op # l /\ asked[c].slot # asked[l].slot
    BY <1>1 DEF Flights, SingleFlight
  <1>4. SingleFlight'
    BY <1>3 DEF Flights, SingleFlight
  <1>5. LeaderWaits'
    BY <1>1, <1>3, WaitingFields DEF Flights, LeaderWaits
  <1>6. BaseIsCurrent'
    BY <1>3, WaitingFields DEF Flights, BaseIsCurrent
  <1>7. BackgroundModels' /\ DownIsIdle'
    BY <1>1, <1>3, CatalogAssumption DEF Flights, BackgroundModels, DownIsIdle
  <1> QED
    BY <1>2, <1>4, <1>5, <1>6, <1>7 DEF Flights

(* What changes neither the cache nor who waits. *)
LEMMA FlightsUnchanged ==
    ASSUME Flights, UNCHANGED <<up, cache, asked>>
    PROVE  Flights'
  BY DEF Flights, SingleFlight, LeaderWaits, BackgroundModels, DownIsIdle, BaseIsCurrent

(* No step of the key undoes a fault. *)
LEMMA FaultsGrow ==
    ASSUME faults \in Nat, Fault \/ UNCHANGED faults
    PROVE  faults' \in Nat /\ (faults' = 0 => faults = 0)
  BY DEF Fault

(* A call about the key, with the refresh that may follow it. *)
LEMMA KeyCallKeeps ==
    ASSUME CatalogInv, UNCHANGED up, Fault \/ UNCHANGED faults,
           UNCHANGED catalogVars \/ (up /\ \E ok \in BOOLEAN : SyncModels(ok))
    PROVE  CatalogInv'
  <1>1. faults' \in Nat /\ (faults' = 0 => faults = 0)
    BY FaultsGrow DEF CatalogInv, Typed
  <1>2. CASE UNCHANGED catalogVars
    <2>1. Typed' /\ Mirrored'
      BY <1>1, <1>2 DEF catalogVars, CatalogInv, Typed, Mirrored
    <2> QED
      BY <1>2, <2>1, FlightsUnchanged DEF catalogVars, CatalogInv
  <1>3. CASE ~UNCHANGED catalogVars
    <2>1. /\ up /\ ~\E d \in Caller : Awaits(d, Models)
          /\ Asks(Background, Models)
          /\ UNCHANGED <<cache, cacheFile, known>>
      BY <1>3 DEF SyncModels
    <2>2. asked[Background] = Idle
      BY <2>1, CatalogAssumption DEF CatalogInv, Flights, BackgroundModels, Awaits
    <2>3. asked' \in [Caller -> {Idle} \cup Waiting] /\ Flights'
      BY <2>1, <2>2, AsksKeeps, CatalogAssumption DEF CatalogInv
    <2>4. Typed' /\ Mirrored'
      BY <1>1, <2>1, <2>3 DEF CatalogInv, Typed, Mirrored
    <2> QED
      BY <2>3, <2>4 DEF CatalogInv
  <1> QED
    BY <1>2, <1>3

(* OpenRouter answers a refresh. *)
LEMMA FetchedKeeps ==
    ASSUME CatalogInv, NEW l \in Caller, NEW d \in Data, Fetched(l, d)
    PROVE  CatalogInv'
  <1> DEFINE s == asked[l].slot
  <1>1. asked[l] # Idle /\ asked[l].op = l /\ s \in Slot
    BY WaitingFields DEF CatalogInv, Fetched
  <1>2. up /\ up' = up
    BY <1>1 DEF CatalogInv, Flights, DownIsIdle, Fetched
  <1>3. cache' = [cache EXCEPT ![s] = d] /\ Saved(s) /\ Answered(l)
    BY DEF Fetched
  <1>4. asked' \in [Caller -> {Idle} \cup Waiting] /\ Flights'
    BY <1>1, <1>2, <1>3, AnsweredKeeps DEF CatalogInv, Typed
  <1>5. cache' \in [Slot -> Values] /\ cache'[s] = d /\ d # Absent
    BY <1>1, <1>3, CatalogAssumption DEF CatalogInv, Typed, Values
  <1> HIDE DEF s
  <1>6. CASE UNCHANGED faults /\ cacheFile' = cache' /\ known' = known \cup {s}
    <2>1. Typed'
      BY <1>1, <1>2, <1>4, <1>5, <1>6 DEF CatalogInv, Typed
    <2>2. ASSUME faults' = 0, NEW t \in known'
          PROVE  cacheFile'[t] # Absent
      <3>1. CASE t = s
        BY <1>5, <1>6, <3>1
      <3>2. CASE t # s
        BY <1>2, <1>3, <1>6, <2>2, <3>2 DEF CatalogInv, Typed, Mirrored
      <3> QED
        BY <3>1, <3>2
    <2>3. Mirrored'
      BY <1>6, <2>2 DEF Mirrored
    <2> QED
      BY <1>4, <2>1, <2>3 DEF CatalogInv
  <1>7. CASE Fault /\ known' \in SUBSET Slot /\ UNCHANGED cacheFile
    <2>1. faults' \in Nat /\ faults' # 0
      BY <1>7 DEF Fault, CatalogInv, Typed
    <2>2. Typed' /\ Mirrored'
      BY <1>2, <1>4, <1>5, <1>7, <2>1 DEF CatalogInv, Typed, Mirrored
    <2> QED
      BY <1>4, <2>2 DEF CatalogInv
  <1> QED
    BY <1>1, <1>3, <1>6, <1>7 DEF Saved, CatalogInv, Typed

(* A refresh fails: the entry it started with is the one the cache has. *)
LEMMA FetchFailsKeeps ==
    ASSUME CatalogInv, NEW l \in Caller, FetchFails(l)
    PROVE  CatalogInv'
  <1> DEFINE s == asked[l].slot
  <1>1. asked[l] # Idle /\ asked[l].op = l /\ s \in Slot
    BY WaitingFields DEF CatalogInv, FetchFails
  <1>2. up /\ UNCHANGED <<up, faults, cache, cacheFile>> /\ Answered(l)
    BY <1>1 DEF CatalogInv, Flights, DownIsIdle, FetchFails, credentialVars
  <1>3. asked' \in [Caller -> {Idle} \cup Waiting] /\ Flights'
    BY <1>1, <1>2, AnsweredKeeps DEF CatalogInv
  <1>4. asked[l].base = cache[s]
    BY <1>1 DEF CatalogInv, Flights, BaseIsCurrent
  <1>5. known' = IF cache[s] # Absent THEN known \cup {s} ELSE known
    BY <1>4 DEF FetchFails
  <1>6. Typed' /\ Mirrored'
    BY <1>1, <1>2, <1>3, <1>5 DEF CatalogInv, Typed, Mirrored
  <1> QED
    BY <1>3, <1>6 DEF CatalogInv

(* The process dies, and starts again from its file. *)
LEMMA CrashKeeps ==
    ASSUME CatalogInv, Crash \/ Restart
    PROVE  CatalogInv'
  <1>1. CASE Crash
    <2>1. /\ up' = FALSE
          /\ cache' = [s \in Slot |-> Absent]
          /\ asked' = [c \in Caller |-> Idle]
          /\ UNCHANGED <<faults, cacheFile, known>>
      BY <1>1 DEF Crash, CredentialDies
    <2>2. Typed' /\ Mirrored'
      BY <2>1 DEF CatalogInv, Typed, Mirrored, Values
    <2>3. Flights'
      BY <2>1, CatalogAssumption DEF Flights, SingleFlight, LeaderWaits, BackgroundModels, DownIsIdle, BaseIsCurrent
    <2> QED
      BY <2>2, <2>3 DEF CatalogInv
  <1>2. CASE Restart
    <2>1. PICK keyRead \in BOOLEAN, fileRead \in BOOLEAN :
              /\ CredentialStarts(keyRead)
              /\ cache' = IF fileRead THEN cacheFile ELSE cache
              /\ IF keyRead /\ fileRead THEN UNCHANGED faults ELSE Fault
              /\ UNCHANGED <<cacheFile, asked, known>>
      BY <1>2 DEF Restart
    <2>2. ~up /\ up' = TRUE
      BY <2>1 DEF CredentialStarts
    <2>3. faults' \in Nat /\ (faults' = 0 => fileRead /\ faults = 0)
      BY <2>1 DEF Fault, CatalogInv, Typed
    <2>4. \A c \in Caller : asked'[c] = Idle
      BY <2>1, <2>2 DEF CatalogInv, Flights, DownIsIdle
    <2>5. Typed' /\ Mirrored'
      BY <2>1, <2>2, <2>3 DEF CatalogInv, Typed, Mirrored
    <2>6. Flights'
      BY <2>4, CatalogAssumption DEF Flights, SingleFlight, LeaderWaits, BackgroundModels, DownIsIdle, BaseIsCurrent
    <2> QED
      BY <2>5, <2>6 DEF CatalogInv
  <1> QED
    BY <1>1, <1>2
-----------------------------------------------------------------------------
(* Every step keeps the catalog in order. *)
LEMMA CatalogKeeps == CatalogInv /\ [Next]_vars => CatalogInv'
  <1> SUFFICES ASSUME CatalogInv, [Next]_vars PROVE CatalogInv'
    OBVIOUS
  <1>1. ASSUME NEW c \in Caller, NEW s \in Slot, Ask(c, s)
        PROVE  CatalogInv'
    <2>1. /\ up /\ c # Background /\ asked[c] = Idle /\ Asks(c, s)
          /\ UNCHANGED <<up, faults, cache, cacheFile, known>>
      BY <1>1 DEF Ask, credentialVars
    <2>2. asked' \in [Caller -> {Idle} \cup Waiting] /\ Flights'
      BY <2>1, AsksKeeps DEF CatalogInv
    <2>3. Typed' /\ Mirrored'
      BY <2>1, <2>2 DEF CatalogInv, Typed, Mirrored
    <2> QED
      BY <2>2, <2>3 DEF CatalogInv
  <1>2. ASSUME NEW s \in Slot, AnswerFresh(s)
        PROVE  CatalogInv'
    <2>1. /\ up /\ cache[s] # Absent /\ known' = known \cup {s}
          /\ UNCHANGED <<up, faults, cache, cacheFile, asked>>
      BY <1>2 DEF AnswerFresh, credentialVars
    <2>2. Typed' /\ Mirrored'
      BY <2>1 DEF CatalogInv, Typed, Mirrored
    <2> QED
      BY <2>1, <2>2, FlightsUnchanged DEF CatalogInv
  <1>3. CASE \E c \in Caller, d \in Data : Fetched(c, d)
    BY <1>3, FetchedKeeps
  <1>4. CASE \E c \in Caller : FetchFails(c)
    BY <1>4, FetchFailsKeeps
  <1>5. ASSUME NEW p \in Put, NEW k \in ApiKey, NEW r \in BOOLEAN, NEW ok \in BOOLEAN,
               PutUnverified(p, k, r, ok)
        PROVE  CatalogInv'
    BY <1>5, KeyCallKeeps DEF PutUnverified, SaveUnverified, Store, Remember, KeepForSession, Save, SaveThrows
  <1>6. ASSUME NEW p \in Put, NEW k \in ApiKey, NEW r \in BOOLEAN, PutStart(p, k, r)
        PROVE  CatalogInv'
    BY <1>6, KeyCallKeeps DEF PutStart, StartVerify
  <1>7. ASSUME NEW p \in Put, NEW ok \in BOOLEAN, PutVerified(p, ok)
        PROVE  CatalogInv'
    BY <1>7, KeyCallKeeps DEF PutVerified, SaveVerified, Store, Remember, KeepForSession, Save, SaveThrows
  <1>8. ASSUME NEW p \in Put, PutRejected(p)
        PROVE  CatalogInv'
    BY <1>8, KeyCallKeeps DEF PutRejected, Rejected
  <1>9. CASE DeleteKey
    BY <1>9, KeyCallKeeps DEF DeleteKey, Forget, Clear
  <1>10. CASE Install
    BY <1>10, KeyCallKeeps DEF Install, ToolAppears
  <1>11. CASE Crash \/ Restart
    BY <1>11, CrashKeeps
  <1>12. CASE UNCHANGED vars
    BY <1>12, KeyCallKeeps DEF vars, credentialVars
  <1> QED
    BY <1>1, <1>2, <1>3, <1>4, <1>5, <1>6, <1>7, <1>8, <1>9, <1>10, <1>11, <1>12 DEF Next

(* One refresh per entry, led by somebody who waits for it, from the       *)
(* present entry; and a file that has what was shown.                      *)
THEOREM CatalogInvariant == Spec => []CatalogInv
  <1>1. Init => CatalogInv
    <2> SUFFICES ASSUME Init PROVE CatalogInv
      OBVIOUS
    <2>1. Typed /\ Mirrored
      BY DEF Init, CredentialInit, Typed, Values, Mirrored
    <2>2. Flights
      BY CatalogAssumption DEF Init, CredentialInit, Flights, SingleFlight, LeaderWaits, BackgroundModels, DownIsIdle, BaseIsCurrent
    <2> QED
      BY <2>1, <2>2 DEF CatalogInv
  <1> QED
    BY <1>1, CatalogKeeps, PTL DEF Spec

(* A failing refresh answers what the cache holds. *)
THEOREM TheBaseIsCurrent == Spec => []BaseIsCurrent
  <1>1. CatalogInv => BaseIsCurrent
    BY DEF CatalogInv, Flights
  <1> QED
    BY <1>1, CatalogInvariant, PTL

(* What somebody was answered from stays, over failing refreshes and       *)
(* crashes.                                                                *)
THEOREM TheKnownStaysKnown == Spec => []KnownStaysKnown
  <1>1. CatalogInv => KnownStaysKnown
    BY DEF CatalogInv, Mirrored, KnownStaysKnown
  <1> QED
    BY <1>1, CatalogInvariant, PTL
=============================================================================
