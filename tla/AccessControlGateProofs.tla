------------------------ MODULE AccessControlGateProofs ------------------------
(***************************************************************************)
(* What TLAPS proves of AccessControl beyond the shape of its records: a   *)
(* grant that was taken away stays away as long as few enough writes have  *)
(* failed, an override that was answered stays in force, and without       *)
(* faults the two stores, the handlers and every crash together do what    *)
(* InferenceGate allows.                                                   *)
(***************************************************************************)
EXTENDS AccessControlGate, AccessControlProofs

-----------------------------------------------------------------------------
(***************************************************************************)
(* Grants as a set of pairs.  The handlers change a table of records; what *)
(* the properties ask is which key reaches which model.                    *)
(***************************************************************************)
Grants(s) == {g \in Key \X Model : s[g[1]] # Absent /\ g[2] \in s[g[1]].allowedModels}

(* An empty store grants nothing. *)
LEMMA NoKeysGrants == Grants(NoKeys) = {}
  BY DEF Grants, NoKeys

(* Withdrawing a model takes exactly the grants of that model. *)
LEMMA StripModelGrants ==
    ASSUME NEW s \in KeyStore, NEW m \in Model
    PROVE  Grants(StripModel(s, m)) = Grants(s) \ (Key \X {m})
  <1>1. ASSUME NEW k \in Key, s[k] # Absent
        PROVE  /\ StripModel(s, m)[k] # Absent
               /\ StripModel(s, m)[k].allowedModels = s[k].allowedModels \ {m}
    <2>1. s[k] \in AccessKey
      BY <1>1 DEF KeyStore
    <2>2. WithoutModel(s[k], m).allowedModels = s[k].allowedModels \ {m}
      BY <2>1 DEF WithoutModel, AccessKey
    <2>3. StripModel(s, m) \in KeyStore /\ StripModel(s, m)[k] = WithoutModel(s[k], m)
      BY <1>1, StripModelType DEF StripModel
    <2>4. WithoutModel(s[k], m) \in AccessKey
      <3>1. Prune(s[k].modelOverrides, s[k].allowedModels \ {m}) \in Overrides
        BY <2>1, PruneType DEF AccessKey
      <3> QED
        BY <2>1, <3>1 DEF WithoutModel, AccessKey
    <2> QED
      BY <2>2, <2>3, <2>4, AbsentIsNoKey
  <1>2. ASSUME NEW k \in Key, s[k] = Absent
        PROVE  StripModel(s, m)[k] = Absent
    BY <1>2 DEF StripModel
  <1>3. \A k \in Key, n \in Model :
          <<k, n>> \in Grants(StripModel(s, m)) <=> <<k, n>> \in Grants(s) /\ n # m
    BY <1>1, <1>2 DEF Grants
  <1> QED
    BY <1>3 DEF Grants

(* Reading back a file of good records changes nothing. *)
LEMMA LoadKeysSame ==
    ASSUME NEW s \in KeyStore, NEW ids, NEW secrets, Good(s, ids, secrets)
    PROVE  LoadKeys(s) = s
  <1>1. ASSUME NEW k \in Key, s[k] # Absent
        PROVE  [s[k] EXCEPT !.modelOverrides = Prune(@, s[k].allowedModels)] = s[k]
    <2>1. s[k] \in AccessKey /\ Sources(s[k].modelOverrides) \subseteq s[k].allowedModels
      BY <1>1 DEF KeyStore, Good, Live
    <2>2. Prune(s[k].modelOverrides, s[k].allowedModels) = s[k].modelOverrides
      BY <2>1 DEF AccessKey, Overrides, Prune, Sources
    <2> QED
      BY <2>1, <2>2 DEF AccessKey
  <1> QED
    BY <1>1 DEF LoadKeys, KeyStore

(* Writing one record changes the grants of that key only. *)
LEMMA OneKeyGrants ==
    ASSUME NEW s \in KeyStore, NEW k \in Key, NEW rec \in AccessKey
    PROVE  Grants([s EXCEPT ![k] = rec]) =
             (Grants(s) \ ({k} \X Model)) \cup ({k} \X rec.allowedModels)
  BY AbsentIsNoKey DEF Grants, KeyStore, AccessKey

(* Deleting one record takes the grants of that key. *)
LEMMA DropKeyGrants ==
    ASSUME NEW s \in KeyStore, NEW k \in Key
    PROVE  Grants([s EXCEPT ![k] = Absent]) = Grants(s) \ ({k} \X Model)
  BY DEF Grants, KeyStore

-----------------------------------------------------------------------------
(***************************************************************************)
(* The inductive invariant of the grants.  Neither promise is inductive:   *)
(* that memory is right says nothing about the state after a restart, and  *)
(* that memory and file are each right says nothing about a write that     *)
(* joins one store of today with the file of the other of yesterday.  What *)
(* carries them is that every difference between a store and its file was  *)
(* paid for by a fault (FaultsShow).                                       *)
(***************************************************************************)
DownIsEmpty ==
    ~up => /\ keys = NoKeys
           /\ desired = {}
           /\ \A e \in Edit : edit[e] = Idle
           /\ \A r \in Req : req[r] = Idle

FaultsShow ==
    up => /\ faults = 0 => keys = keysDisk /\ desired = desiredDisk
          /\ faults <= 1 => keys = keysDisk \/ desired = desiredDisk

(* A key file and a model file that could be read together: every grant is *)
(* of a model on offer, and none has been withdrawn.                       *)
Exact(s, d) ==
    /\ Grants(s) \subseteq Key \X d
    /\ Grants(s) \cap withdrawn = {}

(* The weaker promise: what was withdrawn is granted, or on offer, but not *)
(* both.                                                                   *)
Shut(s, d) == Grants(s) \cap withdrawn \cap (Key \X (d \cap closed)) = {}

GrantInv ==
    /\ DownIsEmpty
    /\ FaultsShow
    /\ faults = 0 => Exact(keysDisk, desiredDisk)
    /\ faults <= 1 => Shut(keys, desired) /\ Shut(keysDisk, desiredDisk)

(***************************************************************************)
(* What a step can do to the grants.                                       *)
(***************************************************************************)
GrantsKept ==
    /\ UNCHANGED <<up, store, offers, withdrawn, closed>>
    /\ faults <= faults'

(* Memory and file are written together; what is added is on offer and no  *)
(* longer withdrawn.                                                       *)
KeysSaved ==
    /\ up /\ up'
    /\ keysDisk' = keys'
    /\ Grants(keys') \ Grants(keys) \subseteq (Key \X desired) \ withdrawn'
    /\ withdrawn' \subseteq withdrawn
    /\ UNCHANGED <<offers, closed, faults>>

(* The process dies; the file may already have lost grants. *)
Died ==
    /\ up
    /\ up' = FALSE
    /\ keys' = NoKeys
    /\ desired' = {}
    /\ keysDisk' = keysDisk \/ Grants(keysDisk') \subseteq Grants(keys)
    /\ UNCHANGED <<desiredDisk, withdrawn, closed>>
    /\ faults <= faults'

(* Death empties the process. *)
LEMMA DieEmpties ==
    ASSUME Die
    PROVE  DownIsEmpty'
  BY DEF Die, DownIsEmpty

(* Nothing moved and no fault was forgotten. *)
LEMMA GrantsKeptSafe ==
    ASSUME TypeOK, TypeOK', GrantInv, GrantsKept, DownIsEmpty'
    PROVE  GrantInv'
  <1>1. faults \in Nat /\ faults' \in Nat
    BY DEF TypeOK
  <1> QED
    BY <1>1 DEF GrantInv, GrantsKept, FaultsShow, Exact, Shut, store, offers

(* A key write keeps both promises, also from memory that had drifted from *)
(* the file.                                                               *)
LEMMA KeysSavedSafe ==
    ASSUME TypeOK, TypeOK', GrantInv, KeysSaved, DownIsEmpty'
    PROVE  GrantInv'
  <1>1. faults \in Nat /\ faults' = faults
    BY DEF TypeOK, KeysSaved
  <1>2. FaultsShow'
    BY <1>1 DEF GrantInv, FaultsShow, KeysSaved, offers
  <1>3. ASSUME faults = 0
        PROVE  Exact(keysDisk, desiredDisk)'
    BY <1>1, <1>3 DEF GrantInv, FaultsShow, KeysSaved, Exact, offers
  <1>4. ASSUME faults <= 1
        PROVE  Shut(keys, desired)' /\ Shut(keysDisk, desiredDisk)'
    <2>1. Shut(keys, desired) /\ Shut(keys, desiredDisk)
      BY <1>1, <1>4 DEF GrantInv, FaultsShow, KeysSaved
    <2> QED
      BY <2>1 DEF KeysSaved, Shut, offers
  <1> QED
    BY <1>1, <1>2, <1>3, <1>4 DEF GrantInv, KeysSaved

(* What a crash leaves in the files was in memory or in the files before,  *)
(* and at most one of the two stores can have drifted from its file.       *)
LEMMA DiedSafe ==
    ASSUME TypeOK, TypeOK', GrantInv, Died, DownIsEmpty'
    PROVE  GrantInv'
  <1>1. faults \in Nat /\ faults' \in Nat
    BY DEF TypeOK
  <1>2. faults <= faults' /\ FaultsShow'
    BY DEF Died, FaultsShow
  <1>3. Grants(keysDisk') \subseteq Grants(keys) \/ Grants(keysDisk') = Grants(keysDisk)
    BY DEF Died
  <1>4. ASSUME faults' = 0
        PROVE  Exact(keysDisk, desiredDisk)'
    <2>1. faults = 0
      BY <1>1, <1>2, <1>4
    <2> QED
      BY <1>3, <2>1 DEF Died, GrantInv, FaultsShow, Exact
  <1>5. ASSUME faults' <= 1
        PROVE  Shut(keys, desired)' /\ Shut(keysDisk, desiredDisk)'
    <2>1. faults <= 1
      BY <1>1, <1>2, <1>5
    <2>2. Shut(keys, desiredDisk) /\ Shut(keysDisk, desiredDisk)
      BY <2>1 DEF GrantInv, FaultsShow, Died
    <2>3. Shut(keysDisk, desiredDisk)'
      BY <1>3, <2>2 DEF Died, Shut
    <2>4. Shut(keys, desired)'
      BY DEF Died, Shut
    <2> QED
      BY <2>3, <2>4
  <1> QED
    BY <1>2, <1>4, <1>5 DEF GrantInv

(* Opening a model takes it off the closed list and grants it to nobody. *)
LEMMA AddDesiredSafe ==
    ASSUME TypeOK, TypeOK', GrantInv, NEW m \in Model, AddDesired(m), DownIsEmpty'
    PROVE  GrantInv'
  <1>1. faults \in Nat /\ faults' \in Nat
    BY DEF TypeOK
  <1>2. /\ up /\ up' /\ UNCHANGED <<keys, keysDisk, withdrawn>>
        /\ desired' = desired \cup {m}
        /\ closed' = closed \ {m}
        /\ \/ desiredDisk' = desired' /\ faults' = faults
           \/ desiredDisk' = desiredDisk /\ faults' = faults + 1
    BY DEF AddDesired, Fault, store
  <1>3. FaultsShow'
    BY <1>1, <1>2 DEF GrantInv, FaultsShow
  <1>4. ASSUME faults' = 0
        PROVE  Exact(keysDisk, desiredDisk)'
    <2>1. faults = 0 /\ desiredDisk' = desired \cup {m}
      BY <1>1, <1>2, <1>4
    <2> QED
      BY <1>2, <2>1 DEF GrantInv, FaultsShow, Exact
  <1>5. ASSUME faults' <= 1
        PROVE  Shut(keys, desired)' /\ Shut(keysDisk, desiredDisk)'
    <2>1. faults <= 1
      BY <1>1, <1>2, <1>5
    <2>2. Shut(keys, desired) /\ Shut(keysDisk, desiredDisk) /\ Shut(keysDisk, desired)
      BY <1>2, <2>1 DEF GrantInv, FaultsShow
    <2> QED
      BY <1>2, <2>2 DEF Shut
  <1> QED
    BY <1>3, <1>4, <1>5 DEF GrantInv

(* Closing a model, whichever of its two writes fails. *)
LEMMA RemoveSafe ==
    ASSUME TypeOK, TypeOK', GrantInv, NEW m \in Model, DownIsEmpty',
           \/ RemoveDesired(m)
           \/ RemoveDesiredKeysFail(m)
           \/ RemoveDesiredModelsFail(m)
    PROVE  GrantInv'
  <1>1. faults \in Nat /\ faults' \in Nat /\ keys \in KeyStore
    BY DEF TypeOK
  <1>2. up /\ up' /\ keys' = StripModel(keys, m)
    BY DEF RemoveDesired, RemoveDesiredKeysFail, RemoveDesiredModelsFail, KeysAfterRemoval
  <1>3. Grants(keys') = Grants(keys) \ (Key \X {m})
    BY <1>1, <1>2, StripModelGrants
  <1>4. CASE RemoveDesired(m)
    <2>1. /\ keysDisk' = IF keys' = keys THEN keysDisk ELSE keys'
          /\ desired' = desired \ {m}
          /\ desiredDisk' = IF m \in desired THEN desired' ELSE desiredDisk
          /\ withdrawn' = withdrawn \cup (Key \X {m})
          /\ closed' = closed \cup {m}
          /\ faults' = faults
      BY <1>4 DEF RemoveDesired, KeysAfterRemoval
    <2>2. FaultsShow'
      BY <1>2, <2>1 DEF GrantInv, FaultsShow
    <2>3. ASSUME faults = 0
          PROVE  Exact(keysDisk, desiredDisk)'
      <3>1. keysDisk' = keys' /\ desiredDisk' = desired \ {m}
        BY <1>2, <2>1, <2>3 DEF GrantInv, FaultsShow
      <3>2. Exact(keys, desired)
        BY <1>2, <2>3 DEF GrantInv, FaultsShow
      <3> QED
        BY <1>3, <2>1, <3>1, <3>2 DEF Exact
    <2>4. ASSUME faults <= 1
          PROVE  Shut(keys, desired)' /\ Shut(keysDisk, desiredDisk)'
      <3>1. Shut(keys, desired) /\ Shut(keysDisk, desiredDisk)
        BY <2>4 DEF GrantInv
      <3>2. Shut(keys, desired)'
        BY <1>3, <2>1, <3>1 DEF Shut
      <3>3. CASE keysDisk' = keys'
        <4>1. Shut(keys, desiredDisk)
          BY <1>2, <2>4, <3>1 DEF GrantInv, FaultsShow
        <4>2. desiredDisk' \subseteq desired \cup desiredDisk
          BY <2>1
        <4>3. Grants(keysDisk') = Grants(keys) \ (Key \X {m})
          BY <1>3, <3>3
        <4>4. Shut(keysDisk, desiredDisk)'
          BY <2>1, <3>1, <4>1, <4>2, <4>3 DEF Shut
        <4> QED
          BY <3>2, <4>4
      <3>4. CASE keysDisk' # keys'
        <4>1. keysDisk' = keysDisk /\ desired = desiredDisk
          BY <1>2, <2>1, <2>4, <3>4 DEF GrantInv, FaultsShow
        <4> QED
          BY <2>1, <3>1, <3>2, <4>1 DEF Shut
      <3> QED
        BY <3>2, <3>3, <3>4
    <2> QED
      BY <2>1, <2>2, <2>3, <2>4 DEF GrantInv
  <1>5. CASE RemoveDesiredKeysFail(m) \/ RemoveDesiredModelsFail(m)
    <2>1. /\ faults' = faults + 1
          /\ UNCHANGED <<desiredDisk, withdrawn, closed>>
          /\ desired' \subseteq desired
          /\ \/ keysDisk' = keysDisk /\ desired' = desired
             \/ keysDisk' = keysDisk /\ keys' = keys
             \/ keysDisk' = keys'
      BY <1>5 DEF RemoveDesiredKeysFail, RemoveDesiredModelsFail, Fault, KeysAfterRemoval,
                  offers, promises
    <2>2. FaultsShow'
      BY <1>1, <1>2, <2>1 DEF GrantInv, FaultsShow
    <2>3. ASSUME faults' <= 1
          PROVE  Shut(keys, desired)' /\ Shut(keysDisk, desiredDisk)'
      <3>1. faults = 0
        BY <1>1, <2>1, <2>3
      <3>2. /\ keys = keysDisk /\ desired = desiredDisk
            /\ Shut(keys, desired) /\ Shut(keysDisk, desiredDisk)
        BY <1>2, <3>1 DEF GrantInv, FaultsShow
      <3> QED
        BY <1>3, <2>1, <3>2 DEF Shut
    <2>4. faults' # 0
      BY <1>1, <2>1
    <2> QED
      BY <2>2, <2>3, <2>4 DEF GrantInv
  <1> QED
    BY <1>4, <1>5

(* A restart reads both files, or counts the one it could not read. *)
LEMMA RestartGrantsSafe ==
    ASSUME AccessInv, TypeOK', GrantInv, DownIsEmpty',
           NEW keysReadable \in BOOLEAN, NEW modelsReadable \in BOOLEAN,
           Restart(keysReadable, modelsReadable)
    PROVE  GrantInv'
  <1>1. faults \in Nat /\ faults' \in Nat
    BY DEF AccessInv, TypeOK
  <1>2. LoadKeys(keysDisk) = keysDisk
    BY LoadKeysSame DEF AccessInv, TypeOK
  <1>3. /\ keys' = IF keysReadable THEN keysDisk ELSE NoKeys
        /\ desired' = IF modelsReadable THEN desiredDisk ELSE {}
        /\ UNCHANGED <<keysDisk, desiredDisk, withdrawn, closed>>
    BY <1>2 DEF Restart, history, promises
  <1>4. /\ faults <= faults'
        /\ faults' = 0 => keysReadable /\ modelsReadable
        /\ faults' <= 1 => keysReadable \/ modelsReadable
    BY <1>1 DEF Restart
  <1>5. FaultsShow'
    BY <1>3, <1>4 DEF FaultsShow
  <1>6. ASSUME faults' = 0
        PROVE  Exact(keysDisk, desiredDisk)'
    <2>1. faults = 0
      BY <1>1, <1>4, <1>6
    <2> QED
      BY <1>3, <2>1 DEF GrantInv, Exact
  <1>7. ASSUME faults' <= 1
        PROVE  Shut(keys, desired)' /\ Shut(keysDisk, desiredDisk)'
    <2>1. faults <= 1
      BY <1>1, <1>4, <1>7
    <2>2. Shut(keysDisk, desiredDisk)
      BY <2>1 DEF GrantInv
    <2>3. Grants(keys') \subseteq Grants(keysDisk)
      BY <1>3, NoKeysGrants
    <2> QED
      BY <1>3, <2>2, <2>3 DEF Shut
  <1> QED
    BY <1>5, <1>6, <1>7 DEF GrantInv

-----------------------------------------------------------------------------
(***************************************************************************)
(* The handlers, sorted by what they do to the grants.                     *)
(***************************************************************************)

(* What update() leaves of the records: the record of k with the fields    *)
(* the patch carries, its table pruned when the patch brings none.         *)
IsPatch(next, k, allowed, enabled, ov) ==
    /\ next \in KeyStore
    /\ next[k] # Absent
    /\ next[k].allowedModels = Value(allowed, keys[k].allowedModels)
    /\ next[k].enabled = Value(enabled, keys[k].enabled)
    /\ next[k].modelOverrides =
         IF ov = Unset THEN Prune(keys[k].modelOverrides, next[k].allowedModels) ELSE ov
    /\ \A j \in Key \ {k} : next[j] = keys[j]

(* The record an accepted patch leaves is of that form. *)
LEMMA PatchedFields ==
    ASSUME TypeOK, NEW k \in Key, keys[k] # Absent,
           NEW allowed \in (SUBSET Model) \cup {Unset},
           NEW enabled \in BOOLEAN \cup {Unset},
           NEW ov \in Overrides \cup {Unset}
    PROVE  IsPatch(Patched(k, allowed, enabled, ov), k, allowed, enabled, ov)
  <1> DEFINE next  == Patched(k, allowed, enabled, ov)
             grant == Value(allowed, keys[k].allowedModels)
             table == IF ov = Unset THEN Prune(keys[k].modelOverrides, grant) ELSE ov
  <1>1. keys \in KeyStore /\ keys[k] \in AccessKey
    BY DEF TypeOK, KeyStore
  <1>2. grant \in SUBSET Model
    BY <1>1 DEF Value, AccessKey
  <1>3. Value(enabled, keys[k].enabled) \in BOOLEAN
    BY <1>1 DEF Value, AccessKey
  <1>4. table \in Overrides
    BY <1>1, PruneType DEF AccessKey
  <1>5. /\ next[k].allowedModels = grant
        /\ next[k].enabled = Value(enabled, keys[k].enabled)
        /\ next[k].modelOverrides = table
    BY <1>1 DEF Patched, KeyStore, AccessKey
  <1>6. \A j \in Key \ {k} : next[j] = keys[j]
    BY <1>1 DEF Patched, KeyStore
  <1>7. next \in KeyStore
    BY PatchedType
  <1>8. next[k] \in AccessKey
    <2> HIDE DEF grant, table
    <2> QED
      BY <1>1, <1>2, <1>3, <1>4 DEF Patched, KeyStore, AccessKey, grant, table
  <1> QED
    BY <1>5, <1>6, <1>7, <1>8, AbsentIsNoKey DEF IsPatch

(* The grants update() leaves. *)
LEMMA PatchedGrants ==
    ASSUME TypeOK, NEW k \in Key, keys[k] # Absent,
           NEW allowed \in (SUBSET Model) \cup {Unset},
           NEW enabled \in BOOLEAN \cup {Unset},
           NEW ov \in Overrides \cup {Unset}
    PROVE  /\ Grants(Patched(k, allowed, enabled, ov)) \subseteq
                Grants(keys) \cup (IF allowed = Unset THEN {} ELSE {k} \X allowed)
           /\ allowed = Unset =>
                Grants(Patched(k, allowed, enabled, ov)) = Grants(keys)
  <1> DEFINE next == Patched(k, allowed, enabled, ov)
  <1>1. /\ next[k] # Absent
        /\ next[k].allowedModels = Value(allowed, keys[k].allowedModels)
        /\ \A j \in Key \ {k} : next[j] = keys[j]
    BY PatchedFields DEF IsPatch
  <1> HIDE DEF next
  <1>2. CASE allowed = Unset
    BY <1>1, <1>2 DEF Grants, Value, next
  <1>3. CASE allowed # Unset
    BY <1>1, <1>3 DEF Grants, Value, next
  <1> QED
    BY <1>2, <1>3

(* The process is up before and after: it has no obligation as a dead one. *)
LEMMA UpIsNotDown == up' => DownIsEmpty'
  BY DEF DownIsEmpty

(* /api/desired-models. *)
LEMMA DesiredStepGrants ==
    ASSUME AccessInv, TypeOK', GrantInv, DesiredStep
    PROVE  GrantInv'
  <1> PICK m \in Model :
         \/ AddDesired(m)
         \/ RemoveDesired(m)
         \/ RemoveDesiredKeysFail(m)
         \/ RemoveDesiredModelsFail(m)
         \/ RemoveDesiredCrash(m)
    BY DEF DesiredStep
  <1>1. TypeOK /\ keys \in KeyStore
    BY DEF AccessInv, TypeOK
  <1>2. CASE AddDesired(m)
    BY <1>1, <1>2, AddDesiredSafe, UpIsNotDown DEF AddDesired
  <1>3. CASE RemoveDesired(m) \/ RemoveDesiredKeysFail(m) \/ RemoveDesiredModelsFail(m)
    <2>1. up'
      BY <1>3 DEF RemoveDesired, RemoveDesiredKeysFail, RemoveDesiredModelsFail
    <2> QED
      BY <1>1, <1>3, <2>1, RemoveSafe, UpIsNotDown
  <1>4. CASE RemoveDesiredCrash(m)
    <2>1. Grants(keysDisk') \subseteq Grants(keys)
      BY <1>1, <1>4, StripModelGrants DEF RemoveDesiredCrash
    <2>2. Die
      BY <1>4 DEF RemoveDesiredCrash
    <2>3. Died
      BY <1>1, <1>4, <2>1, <2>2 DEF RemoveDesiredCrash, Die, Died, promises, TypeOK
    <2> QED
      BY <1>1, <2>2, <2>3, DiedSafe, DieEmpties
  <1> QED
    BY <1>2, <1>3, <1>4

(* POST /api/access-keys: a new key is granted models on offer, and a      *)
(* model it is granted is no longer withdrawn from it.                     *)
LEMMA CreateStepGrants ==
    ASSUME AccessInv, TypeOK', GrantInv, CreateStep
    PROVE  GrantInv'
  <1> PICK k \in Key, allowed \in SUBSET Model, ov \in Overrides :
         \/ \E stored \in BOOLEAN : CreateKey(k, allowed, ov, stored)
         \/ \E stored \in BOOLEAN : CreateKeyFail(k, allowed, ov, stored)
         \/ CreateKeyCrash(k, allowed, ov)
    BY DEF CreateStep
  <1>1. TypeOK /\ keys \in KeyStore /\ faults \in Nat
    BY DEF AccessInv, TypeOK
  <1>2. ASSUME NEW stored \in BOOLEAN, CreateKey(k, allowed, ov, stored)
        PROVE  GrantInv'
    <2> DEFINE new == NewKey(allowed, ov, stored)
    <2>1. new \in AccessKey /\ new.allowedModels = allowed
      BY NewKeyType DEF NewKey
    <2>2. Grants(keys') \subseteq Grants(keys) \cup ({k} \X allowed)
      <3>1. keys' = [keys EXCEPT ![k] = new]
        BY <1>2 DEF CreateKey, Commit
      <3> HIDE DEF new
      <3>2. Grants([keys EXCEPT ![k] = new]) =
              (Grants(keys) \ ({k} \X Model)) \cup ({k} \X new.allowedModels)
        BY <1>1, <2>1, OneKeyGrants
      <3> QED
        BY <2>1, <3>1, <3>2
    <2>3. allowed \subseteq desired /\ withdrawn' = withdrawn \ ({k} \X allowed)
      BY <1>2 DEF CreateKey, ValidCreate
    <2>4. KeysSaved
      BY <1>2, <2>2, <2>3 DEF CreateKey, ValidCreate, Commit, KeysSaved
    <2> QED
      BY <1>1, <2>4, KeysSavedSafe, UpIsNotDown DEF KeysSaved
  <1>3. ASSUME NEW stored \in BOOLEAN, CreateKeyFail(k, allowed, ov, stored)
        PROVE  GrantInv'
    <2>1. GrantsKept /\ up'
      BY <1>1, <1>3 DEF CreateKeyFail, ValidCreate, GrantsKept, Fault, promises
    <2> QED
      BY <1>1, <2>1, GrantsKeptSafe, UpIsNotDown
  <1>4. CASE CreateKeyCrash(k, allowed, ov)
    <2>1. Die /\ Died
      BY <1>1, <1>4 DEF CreateKeyCrash, ValidCreate, Die, Died, promises
    <2> QED
      BY <1>1, <2>1, DiedSafe, DieEmpties
  <1> QED
    BY <1>2, <1>3, <1>4

(* A patch that was committed or rolled back. *)
LEMMA PatchGrants ==
    ASSUME AccessInv, TypeOK', GrantInv, up, NEW k \in Key, keys[k] # Absent,
           NEW allowed \in (SUBSET Model) \cup {Unset},
           NEW enabled \in BOOLEAN \cup {Unset}, NEW ov \in Overrides \cup {Unset},
           allowed # Unset => allowed \subseteq desired,
           UNCHANGED <<up, offers>>,
           \/ /\ Commit(Patched(k, allowed, enabled, ov))
              /\ withdrawn' = IF allowed = Unset THEN withdrawn
                              ELSE withdrawn \ ({k} \X allowed)
              /\ UNCHANGED closed
           \/ RollBack
    PROVE  GrantInv'
  <1>1. TypeOK /\ faults \in Nat
    BY DEF AccessInv, TypeOK
  <1>2. CASE RollBack
    <2>1. GrantsKept
      BY <1>1, <1>2 DEF RollBack, Fault, GrantsKept, history, promises
    <2> QED
      BY <1>1, <2>1, GrantsKeptSafe, UpIsNotDown
  <1>3. CASE /\ Commit(Patched(k, allowed, enabled, ov))
             /\ withdrawn' = IF allowed = Unset THEN withdrawn
                             ELSE withdrawn \ ({k} \X allowed)
             /\ UNCHANGED closed
    <2>1. Grants(keys') \subseteq
            Grants(keys) \cup (IF allowed = Unset THEN {} ELSE {k} \X allowed)
      BY <1>1, <1>3, PatchedGrants DEF Commit
    <2>2. KeysSaved
      BY <1>3, <2>1 DEF Commit, KeysSaved
    <2> QED
      BY <1>1, <2>2, KeysSavedSafe, UpIsNotDown
  <1> QED
    BY <1>2, <1>3

(* PUT and DELETE of a key, and the override DELETEs. *)
LEMMA KeyStepGrants ==
    ASSUME AccessInv, TypeOK', GrantInv, KeyStep
    PROVE  GrantInv'
  <1> PICK k \in Key :
         \/ \E allowed \in (SUBSET Model) \cup {Unset}, enabled \in BOOLEAN \cup {Unset},
               ov \in Overrides \cup {Unset} : UpdateKey(k, allowed, enabled, ov)
         \/ DeleteKey(k)
         \/ DeleteKeyCrash(k)
         \/ \E m \in Model \cup {Unset} : ClearOverride(k, m)
    BY DEF KeyStep
  <1>1. TypeOK /\ keys \in KeyStore /\ faults \in Nat
    BY DEF AccessInv, TypeOK
  <1>2. Grants([keys EXCEPT ![k] = Absent]) \subseteq Grants(keys)
    BY <1>1, DropKeyGrants
  <1>3. ASSUME NEW allowed \in (SUBSET Model) \cup {Unset},
               NEW enabled \in BOOLEAN \cup {Unset}, NEW ov \in Overrides \cup {Unset},
               UpdateKey(k, allowed, enabled, ov)
        PROVE  GrantInv'
    BY <1>3, PatchGrants DEF UpdateKey, ValidPatch
  <1>4. CASE DeleteKey(k)
    <2>1. CASE RollBack
      <3>1. GrantsKept /\ up'
        BY <1>1, <1>4, <2>1 DEF DeleteKey, RollBack, Fault, GrantsKept, history, promises
      <3> QED
        BY <1>1, <3>1, GrantsKeptSafe, UpIsNotDown
    <2>2. CASE Commit([keys EXCEPT ![k] = Absent]) /\ UNCHANGED <<withdrawn, closed>>
      <3>1. KeysSaved
        BY <1>2, <1>4, <2>2 DEF DeleteKey, Commit, KeysSaved
      <3> QED
        BY <1>1, <3>1, KeysSavedSafe, UpIsNotDown DEF KeysSaved
    <2> QED
      BY <1>4, <2>1, <2>2 DEF DeleteKey
  <1>5. CASE DeleteKeyCrash(k)
    <2>1. Grants(keysDisk') \subseteq Grants(keys)
      BY <1>2, <1>5 DEF DeleteKeyCrash
    <2>2. up /\ Die /\ UNCHANGED <<desiredDisk, withdrawn, closed, faults>>
      BY <1>5 DEF DeleteKeyCrash, history, promises
    <2>3. Died
      BY <1>1, <2>1, <2>2 DEF Die, Died
    <2> QED
      BY <1>1, <2>2, <2>3, DiedSafe, DieEmpties
  <1>6. ASSUME NEW m \in Model \cup {Unset}, ClearOverride(k, m)
        PROVE  GrantInv'
    <2> DEFINE left == Prune(keys[k].modelOverrides, Model \ (IF m = Unset THEN Model ELSE {m}))
    <2>1. /\ up /\ keys[k] # Absent
          /\ UNCHANGED <<up, offers>>
          /\ \/ Commit(Patched(k, Unset, Unset, left)) /\ UNCHANGED <<withdrawn, closed>>
             \/ RollBack
      BY <1>6 DEF ClearOverride, promises
    <2>2. left \in Overrides
      <3>1. keys[k].modelOverrides \in Overrides
        BY <1>1, <2>1 DEF KeyStore, AccessKey
      <3> QED
        BY <3>1, PruneType
    <2> HIDE DEF left
    <2> QED
      BY <2>1, <2>2, PatchGrants
  <1> QED
    BY <1>3, <1>4, <1>5, <1>6

(* An override edit that arrives late writes overrides, never a grant. *)
LEMMA EditStepGrants ==
    ASSUME AccessInv, TypeOK', GrantInv, EditStep
    PROVE  GrantInv'
  <1> PICK e \in Edit :
         \/ \E k \in Key, m \in Model \cup {Unset} : StartEdit(e, k, m)
         \/ FinishEdit(e)
         \/ AbandonEdit(e)
    BY DEF EditStep
  <1>1. TypeOK /\ faults \in Nat
    BY DEF AccessInv, TypeOK
  <1>2. CASE AbandonEdit(e) \/ \E k \in Key, m \in Model \cup {Unset} : StartEdit(e, k, m)
    <2>1. GrantsKept /\ up'
      BY <1>1, <1>2 DEF StartEdit, AbandonEdit, GrantsKept, history, promises
    <2> QED
      BY <1>1, <2>1, GrantsKeptSafe, UpIsNotDown
  <1>3. CASE FinishEdit(e)
    <2> DEFINE h == edit[e]
    <2>1. h.key \in Key /\ h.was \in AccessKey /\ h.model \in Model \cup {Unset}
      BY <1>1, <1>3 DEF FinishEdit, TypeOK, PendingEdit
    <2>2. EditTables(h) \subseteq Overrides
      BY <2>1 DEF EditTables, Overrides, AccessKey
    <2>3. PICK ov \in EditTables(h) :
            /\ keys[h.key] # Absent
            /\ \/ Commit(Patched(h.key, Unset, Unset, ov)) /\ UNCHANGED <<withdrawn, closed>>
               \/ RollBack
      BY <1>3 DEF FinishEdit, ValidPatch, promises
    <2>4. up /\ UNCHANGED <<up, offers>>
      BY <1>3 DEF FinishEdit
    <2> HIDE DEF h
    <2> QED
      BY <2>1, <2>2, <2>3, <2>4, PatchGrants
  <1> QED
    BY <1>2, <1>3

(* The data plane. *)
LEMMA RequestStepGrants ==
    ASSUME AccessInv, TypeOK', GrantInv, RequestStep
    PROVE  GrantInv'
  <1>1. TypeOK /\ faults \in Nat
    BY DEF AccessInv, TypeOK
  <1>2. GrantsKept /\ up'
    BY <1>1 DEF RequestStep, Authenticate, AcceptPassthrough, Forward, EndRequest,
                GrantsKept, history, promises
  <1> QED
    BY <1>1, <1>2, GrantsKeptSafe, UpIsNotDown

(* The usage timer, crashes and restarts. *)
LEMMA ProcessStepGrants ==
    ASSUME AccessInv, TypeOK', GrantInv, ProcessStep
    PROVE  GrantInv'
  <1>1. TypeOK /\ faults \in Nat /\ faults' \in Nat
    BY DEF AccessInv, TypeOK
  <1>2. CASE UsageTimerFires
    <2>1. KeysSaved
      BY <1>2 DEF UsageTimerFires, KeysSaved, history, promises
    <2> QED
      BY <1>1, <2>1, KeysSavedSafe, UpIsNotDown DEF KeysSaved
  <1>3. CASE UsageTimerFails \/ Crash
    <2>1. Die /\ Died
      BY <1>1, <1>3 DEF UsageTimerFails, Crash, Die, Died, Fault, history, promises
    <2> QED
      BY <1>1, <2>1, DiedSafe, DieEmpties
  <1>4. ASSUME NEW keysReadable \in BOOLEAN, NEW modelsReadable \in BOOLEAN,
               Restart(keysReadable, modelsReadable)
        PROVE  GrantInv'
    <2>1. up'
      BY <1>4 DEF Restart
    <2> QED
      BY <1>4, <2>1, RestartGrantsSafe, UpIsNotDown
  <1> QED
    BY <1>2, <1>3, <1>4 DEF ProcessStep

(* The invariant of the grants holds of every behaviour. *)
THEOREM GrantInvariant == Spec => []GrantInv
  <1>1. Init => GrantInv
    BY NoKeysGrants DEF Init, GrantInv, DownIsEmpty, FaultsShow, Exact, Shut
  <1>2. AccessInv /\ TypeOK' /\ GrantInv /\ [Next]_vars => GrantInv'
    <2> SUFFICES ASSUME AccessInv, TypeOK', GrantInv, [Next]_vars
                 PROVE  GrantInv'
      OBVIOUS
    <2>1. CASE UNCHANGED vars
      BY <2>1 DEF vars, store, offers, handlers, history, promises, writes,
                  GrantInv, DownIsEmpty, FaultsShow, Exact, Shut
    <2> QED
      BY <2>1, DesiredStepGrants, CreateStepGrants, KeyStepGrants, EditStepGrants,
         RequestStepGrants, ProcessStepGrants DEF Next
  <1>3. AccessInv => TypeOK
    BY DEF AccessInv
  <1> QED
    BY <1>1, <1>2, <1>3, AccessInvariant, PTL DEF Spec

(* Read key by key, a store whose grants are of models on offer. *)
LEMMA ExactIsDesired ==
    ASSUME NEW s \in KeyStore, NEW d, Grants(s) \subseteq Key \X d
    PROVE  \A k \in Live(s) : s[k].allowedModels \subseteq d
  <1> SUFFICES ASSUME NEW k \in Live(s), NEW m \in s[k].allowedModels
               PROVE  m \in d
    OBVIOUS
  <1>1. k \in Key /\ s[k] # Absent /\ m \in Model
    BY DEF Live, KeyStore, AccessKey
  <1>2. <<k, m>> \in Grants(s)
    BY <1>1 DEF Grants
  <1> QED
    BY <1>2

(* As long as no write has failed and no file was unreadable, every model  *)
(* a key is granted is on offer, in memory and in the files, although each *)
(* DELETE is two writes the process may die between.                       *)
THEOREM GrantsStayDesired == Spec => [](faults = 0 => GrantsAreDesired)
  <1>1. TypeOK /\ GrantInv => (faults = 0 => GrantsAreDesired)
    <2> SUFFICES ASSUME TypeOK, GrantInv, faults = 0
                 PROVE  GrantsAreDesired
      OBVIOUS
    <2>1. keys \in KeyStore /\ keysDisk \in KeyStore
      BY DEF TypeOK
    <2>2. Grants(keysDisk) \subseteq Key \X desiredDisk
      BY DEF GrantInv, Exact
    <2>3. Grants(keys) \subseteq Key \X desired
      BY <2>2, NoKeysGrants DEF GrantInv, FaultsShow, DownIsEmpty
    <2> QED
      BY <2>1, <2>2, <2>3, ExactIsDesired DEF GrantsAreDesired
  <1> QED
    BY <1>1, TypeCorrect, GrantInvariant, PTL

(* Under the same condition a model whose DELETE answered 200 is held by   *)
(* no key until it is granted anew, also after a crash and a restart.      *)
THEOREM RemovedStaysRemoved == Spec => [](faults = 0 => RemovedFromKeys)
  <1>1. TypeOK /\ GrantInv => (faults = 0 => RemovedFromKeys)
    BY DEF TypeOK, GrantInv, DownIsEmpty, FaultsShow, Exact, Grants, Live,
           RemovedFromKeys, NoKeys, KeyStore
  <1> QED
    BY <1>1, TypeCorrect, GrantInvariant, PTL

(* One failed write, or one unreadable file, at any point of the history   *)
(* still fails closed: no key reaches a model whose DELETE answered 200    *)
(* before it is offered or granted again.                                  *)
THEOREM OneFaultFailsClosed == Spec => [](faults <= 1 => FailsClosed)
  <1>1. TypeOK /\ GrantInv => (faults <= 1 => FailsClosed)
    BY DEF TypeOK, GrantInv, Shut, Grants, Live, FailsClosed
  <1> QED
    BY <1>1, TypeCorrect, GrantInvariant, PTL

-----------------------------------------------------------------------------
(***************************************************************************)
(* Override edits.  OverrideDurable alone is not inductive: it says nothing*)
(* of the file, which a restart puts into memory, nor of the copy an edit  *)
(* took before its body arrived, which is what the edit will write back.   *)
(* So the file is held to the same promise; and a copy is out of date only *)
(* in entries that some answered write left unsettled, and it is a copy of *)
(* a key that exists.                                                      *)
(***************************************************************************)
AsExpected(s, k, m) == s[k].modelOverrides[m] = expected[k][m] \/ <<k, m>> \in unsettled

FileDurable == \A k \in Live(keysDisk) : \A m \in Model : AsExpected(keysDisk, k, m)

UpToDate(table, k) ==
    \A m \in Model : table[m] = keys[k].modelOverrides[m] \/ <<k, m>> \in unsettled

CopiesUpToDate ==
    \A e \in Edit : edit[e] # Idle =>
        /\ edit[e].key \in used
        /\ keys[edit[e].key] # Absent => UpToDate(edit[e].was.modelOverrides, edit[e].key)

EditInv == OverrideDurable /\ CopiesUpToDate

EditsShrink == \A e \in Edit : edit'[e] \in {edit[e], Idle}

(* Edits that end, and ids that are generated, owe nothing. *)
LEMMA EditsShrinkSafe ==
    ASSUME EditInv, EditsShrink, used \subseteq used', UNCHANGED <<keys, writes>>
    PROVE  EditInv'
  BY DEF EditInv, EditsShrink, OverrideDurable, CopiesUpToDate, UpToDate, Live, writes

(* A write of one key that was answered: the entries it touched are those  *)
(* of ov, and the others are what they were, or are marked already.  Any   *)
(* edit of the key that is still waiting has its copy marked out of date.  *)
Rewritten(k, touched, ov) ==
    /\ \A j \in Key \ {k} : keys'[j] = keys[j]
    /\ \A m \in touched : keys'[k].modelOverrides[m] = ov[m]
    /\ \A m \in Model \ touched :
          /\ keys[k] # Absent
          /\ keys'[k].modelOverrides[m] = keys[k].modelOverrides[m] \/ <<k, m>> \in unsettled

(* Such a write, once answered, keeps every override durable.              *)
LEMMA AnsweredSafe ==
    ASSUME TypeOK, TypeOK', EditInv, EditsShrink, used \subseteq used', NEW k \in Key,
           NEW touched \in SUBSET Model, NEW ov \in Overrides, NEW pending \in BOOLEAN,
           Rewritten(k, touched, ov), Answered(k, touched, ov, pending),
           \A e \in Edit : edit'[e] # Idle /\ edit'[e].key = k => pending
    PROVE  EditInv'
  <1>1. expected \in [Key -> Overrides] /\ expected' \in [Key -> Overrides]
    BY DEF TypeOK
  <1>2. /\ \A j \in Key \ {k} : expected'[j] = expected[j]
        /\ \A m \in touched : expected'[k][m] = ov[m]
        /\ \A m \in Model \ touched : expected'[k][m] = expected[k][m]
    BY <1>1 DEF Answered
  <1>3. /\ \A j \in Key \ {k}, m \in Model : <<j, m>> \in unsettled => <<j, m>> \in unsettled'
        /\ \A m \in Model \ touched : <<k, m>> \in unsettled => <<k, m>> \in unsettled'
        /\ pending => \A m \in touched : <<k, m>> \in unsettled'
    BY DEF Answered
  <1>4. OverrideDurable'
    <2> SUFFICES ASSUME NEW j \in Key, keys'[j] # Absent, NEW m \in Model
                 PROVE  keys'[j].modelOverrides[m] = expected'[j][m] \/ <<j, m>> \in unsettled'
      BY DEF OverrideDurable, Live
    <2>1. CASE j # k
      BY <1>2, <1>3, <2>1 DEF EditInv, OverrideDurable, Live, Rewritten
    <2>2. CASE j = k /\ m \in touched
      BY <1>2, <2>2 DEF Rewritten
    <2>3. CASE j = k /\ m \notin touched
      BY <1>2, <1>3, <2>3 DEF EditInv, OverrideDurable, Live, Rewritten
    <2> QED
      BY <2>1, <2>2, <2>3
  <1>5. CopiesUpToDate'
    <2> SUFFICES ASSUME NEW e \in Edit, edit'[e] # Idle
                 PROVE  /\ edit'[e].key \in used'
                        /\ keys'[edit'[e].key] # Absent =>
                             \A m \in Model :
                               \/ edit'[e].was.modelOverrides[m] =
                                     keys'[edit'[e].key].modelOverrides[m]
                               \/ <<edit'[e].key, m>> \in unsettled'
      BY DEF CopiesUpToDate, UpToDate
    <2>1. edit'[e] = edit[e] /\ edit[e] # Idle
      BY DEF EditsShrink
    <2>2. /\ edit[e].key \in used /\ edit[e].key \in Key
          /\ keys[edit[e].key] # Absent =>
               \A m \in Model :
                 \/ edit[e].was.modelOverrides[m] = keys[edit[e].key].modelOverrides[m]
                 \/ <<edit[e].key, m>> \in unsettled
      BY <2>1 DEF EditInv, CopiesUpToDate, UpToDate, TypeOK, PendingEdit
    <2> DEFINE j == edit[e].key
               table == edit[e].was.modelOverrides
    <2>3. CASE j # k
      BY <1>3, <2>1, <2>2, <2>3 DEF Rewritten
    <2>4. CASE j = k
      <3>1. pending
        BY <2>1, <2>4
      <3>2. \A m \in Model \ touched :
              table[m] = keys'[k].modelOverrides[m] \/ <<k, m>> \in unsettled'
        BY <1>3, <2>2, <2>4 DEF Rewritten
      <3>3. \A m \in Model : table[m] = keys'[k].modelOverrides[m] \/ <<k, m>> \in unsettled'
        BY <1>3, <3>1, <3>2
      <3> QED
        BY <2>1, <2>2, <2>4, <3>3
    <2> QED
      BY <2>3, <2>4
  <1> QED
    BY <1>4, <1>5 DEF EditInv

(* What a removal leaves of a record: it differs in m, and only where the  *)
(* model was granted.                                                      *)
LEMMA StrippedOverrides ==
    ASSUME AccessInv, NEW m \in Model, NEW s, s = StripModel(keys, m), NEW k \in Key
    PROVE  /\ s[k] # Absent => keys[k] # Absent
           /\ keys[k] # Absent => \A n \in Model :
                s[k].modelOverrides[n] =
                  IF n = m /\ k \in Stripped(m) THEN NoOverride ELSE keys[k].modelOverrides[n]
  <1>1. keys \in KeyStore
    BY DEF AccessInv, TypeOK
  <1>2. s[k] # Absent => keys[k] # Absent
    BY <1>1 DEF StripModel
  <1>3. ASSUME keys[k] # Absent, NEW n \in Model
        PROVE  s[k].modelOverrides[n] =
                 IF n = m /\ k \in Stripped(m) THEN NoOverride ELSE keys[k].modelOverrides[n]
    <2>1. keys[k] \in AccessKey /\ Sources(keys[k].modelOverrides) \subseteq keys[k].allowedModels
      BY <1>1, <1>3 DEF KeyStore, AccessInv, Good, Live
    <2>2. s[k] = WithoutModel(keys[k], m)
      BY <1>1, <1>3 DEF StripModel
    <2>3. s[k].modelOverrides = Prune(keys[k].modelOverrides, keys[k].allowedModels \ {m})
      BY <2>1, <2>2 DEF WithoutModel, AccessKey
    <2>4. k \in Stripped(m) <=> m \in keys[k].allowedModels
      BY <1>3 DEF Stripped, Live
    <2> QED
      BY <2>1, <2>3, <2>4 DEF Prune, Sources, AccessKey, Overrides
  <1> QED
    BY <1>2, <1>3

(* What callers may expect after it. *)
LEMMA ForgottenModel ==
    ASSUME TypeOK, NEW m \in Model, NEW open, ForgetModel(m, open),
           NEW k \in Key, NEW n \in Model
    PROVE  /\ expected'[k][n] =
                IF n = m /\ k \in Stripped(m) THEN NoOverride ELSE expected[k][n]
           /\ <<k, n>> \in unsettled /\ (n # m \/ k \notin Stripped(m)) =>
                <<k, n>> \in unsettled'
           /\ k \in open => <<k, m>> \in unsettled'
  <1>1. expected \in [Key -> Overrides]
    BY DEF TypeOK
  <1>2. expected'[k] = IF k \in Stripped(m) THEN Prune(expected[k], Model \ {m}) ELSE expected[k]
    BY DEF ForgetModel
  <1>3. Prune(expected[k], Model \ {m})[n] = IF n = m THEN NoOverride ELSE expected[k][n]
    BY DEF Prune
  <1> QED
    BY <1>1, <1>2, <1>3 DEF ForgetModel

(* The records a removal leaves are as expected after it. *)
LEMMA StrippedAsExpected ==
    ASSUME AccessInv, OverrideDurable, NEW m \in Model, NEW open, ForgetModel(m, open),
           NEW s, s = StripModel(keys, m), NEW k \in Key, s[k] # Absent, NEW n \in Model
    PROVE  s[k].modelOverrides[n] = expected'[k][n] \/ <<k, n>> \in unsettled'
  <1>1. TypeOK
    BY DEF AccessInv
  <1>2. /\ keys[k] # Absent
        /\ s[k].modelOverrides[n] =
             IF n = m /\ k \in Stripped(m) THEN NoOverride ELSE keys[k].modelOverrides[n]
    BY StrippedOverrides
  <1>3. keys[k].modelOverrides[n] = expected[k][n] \/ <<k, n>> \in unsettled
    BY <1>2 DEF OverrideDurable, Live
  <1> QED
    BY <1>1, <1>2, <1>3, ForgottenModel

(* A model taken from every key loses its overrides, in the keys and in    *)
(* what the callers may expect; waiting copies are marked.                 *)
LEMMA ForgetModelSafe ==
    ASSUME AccessInv, TypeOK', EditInv, NEW m \in Model, NEW open,
           keys' = StripModel(keys, m), ForgetModel(m, open), StrippedInEdit(m) \subseteq open,
           UNCHANGED <<edit, used>>
    PROVE  EditInv'
  <1>1. TypeOK /\ \A e \in Edit : edit[e] # Idle => edit[e].key \in Key
    BY DEF AccessInv, TypeOK, PendingEdit
  <1>2. OverrideDurable'
    BY StrippedAsExpected DEF EditInv, OverrideDurable, Live
  <1>3. ASSUME NEW e \in Edit, edit[e] # Idle, keys'[edit[e].key] # Absent, NEW n \in Model
        PROVE  \/ edit[e].was.modelOverrides[n] = keys'[edit[e].key].modelOverrides[n]
               \/ <<edit[e].key, n>> \in unsettled'
    <2> DEFINE k == edit[e].key
               table == edit[e].was.modelOverrides
    <2>1. k \in Key
      BY <1>1, <1>3
    <2>2. /\ keys[k] # Absent
          /\ keys'[k].modelOverrides[n] =
               IF n = m /\ k \in Stripped(m) THEN NoOverride ELSE keys[k].modelOverrides[n]
      BY <1>3, <2>1, StrippedOverrides
    <2>3. table[n] = keys[k].modelOverrides[n] \/ <<k, n>> \in unsettled
      BY <1>3, <2>2 DEF EditInv, CopiesUpToDate, UpToDate
    <2>4. CASE n = m /\ k \in Stripped(m)
      <3>1. k \in open
        BY <1>3, <2>4 DEF StrippedInEdit, EditPending
      <3> QED
        BY <1>1, <2>1, <2>4, <3>1, ForgottenModel
    <2>5. CASE ~(n = m /\ k \in Stripped(m))
      BY <1>1, <2>1, <2>2, <2>3, <2>5, ForgottenModel
    <2> QED
      BY <2>4, <2>5
  <1>4. CopiesUpToDate'
    BY <1>3 DEF EditInv, CopiesUpToDate, UpToDate
  <1> QED
    BY <1>2, <1>4 DEF EditInv

(* A dead process has no key and no edit. *)
LEMMA DieEditsSafe ==
    ASSUME Die
    PROVE  EditInv'
  <1>1. keys' = NoKeys /\ \A e \in Edit : edit'[e] = Idle
    BY DEF Die
  <1> QED
    BY <1>1 DEF EditInv, OverrideDurable, CopiesUpToDate, Live, NoKeys

(* /api/desired-models. *)
LEMMA DesiredStepEdits ==
    ASSUME AccessInv, TypeOK', EditInv, DesiredStep
    PROVE  EditInv'
  <1> PICK m \in Model :
         \/ AddDesired(m)
         \/ RemoveDesired(m)
         \/ RemoveDesiredKeysFail(m)
         \/ RemoveDesiredModelsFail(m)
         \/ RemoveDesiredCrash(m)
    BY DEF DesiredStep
  <1>1. CASE AddDesired(m)
    <2>1. EditsShrink /\ used' = used /\ UNCHANGED <<keys, writes>>
      BY <1>1 DEF AddDesired, EditsShrink, handlers, store
    <2> QED
      BY <2>1, EditsShrinkSafe
  <1>2. CASE RemoveDesired(m) \/ RemoveDesiredKeysFail(m) \/ RemoveDesiredModelsFail(m)
    <2>1. /\ keys' = StripModel(keys, m) /\ UNCHANGED <<edit, used>>
          /\ ForgetModel(m, StrippedInEdit(m)) \/ ForgetModel(m, Stripped(m))
          /\ StrippedInEdit(m) \subseteq Stripped(m)
      BY <1>2 DEF RemoveDesired, RemoveDesiredKeysFail, RemoveDesiredModelsFail,
                  KeysAfterRemoval, handlers, StrippedInEdit
    <2> QED
      BY <2>1, ForgetModelSafe
  <1>3. CASE RemoveDesiredCrash(m)
    BY <1>3, DieEditsSafe DEF RemoveDesiredCrash
  <1> QED
    BY <1>1, <1>2, <1>3

(* A new id belongs to no edit: edits were started on ids in use. *)
LEMMA CreateStepEdits ==
    ASSUME AccessInv, TypeOK', EditInv, CreateStep
    PROVE  EditInv'
  <1> PICK k \in Key, allowed \in SUBSET Model, ov \in Overrides :
         \/ \E stored \in BOOLEAN : CreateKey(k, allowed, ov, stored)
         \/ \E stored \in BOOLEAN : CreateKeyFail(k, allowed, ov, stored)
         \/ CreateKeyCrash(k, allowed, ov)
    BY DEF CreateStep
  <1>1. TypeOK /\ keys \in KeyStore
    BY DEF AccessInv, TypeOK
  <1>2. ASSUME NEW stored \in BOOLEAN, CreateKey(k, allowed, ov, stored)
        PROVE  EditInv'
    <2>1. /\ keys' = [keys EXCEPT ![k] = NewKey(allowed, ov, stored)]
          /\ Answered(k, Model, ov, FALSE)
          /\ edit' = edit
          /\ k \notin used /\ used' = used \cup {k}
      BY <1>2 DEF CreateKey, ValidCreate, Commit, handlers
    <2>2. \A j \in Key \ {k} : keys'[j] = keys[j]
      BY <1>1, <2>1 DEF KeyStore
    <2>3. keys'[k].modelOverrides = ov
      BY <1>1, <2>1 DEF KeyStore, NewKey
    <2>4. Rewritten(k, Model, ov)
      BY <2>2, <2>3 DEF Rewritten
    <2>5. \A e \in Edit : edit'[e] # Idle => edit'[e].key # k
      BY <2>1 DEF EditInv, CopiesUpToDate
    <2>6. EditsShrink
      BY <2>1 DEF EditsShrink
    <2> QED
      BY <1>1, <2>1, <2>4, <2>5, <2>6, AnsweredSafe
  <1>3. ASSUME NEW stored \in BOOLEAN, CreateKeyFail(k, allowed, ov, stored)
        PROVE  EditInv'
    <2>1. EditsShrink /\ used \subseteq used' /\ UNCHANGED <<keys, writes>>
      BY <1>3 DEF CreateKeyFail, EditsShrink, handlers, store
    <2> QED
      BY <2>1, EditsShrinkSafe
  <1>4. CASE CreateKeyCrash(k, allowed, ov)
    BY <1>4, DieEditsSafe DEF CreateKeyCrash
  <1> QED
    BY <1>2, <1>3, <1>4

(* A rolled-back write changes nothing an edit depends on. *)
LEMMA RollBackEdits ==
    ASSUME EditInv, EditsShrink, RollBack
    PROVE  EditInv'
  BY EditsShrinkSafe DEF RollBack, store, history

(* PUT and DELETE of a key, and the override DELETEs. *)
LEMMA KeyStepEdits ==
    ASSUME AccessInv, TypeOK', EditInv, KeyStep
    PROVE  EditInv'
  <1> PICK k \in Key :
         \/ \E allowed \in (SUBSET Model) \cup {Unset}, enabled \in BOOLEAN \cup {Unset},
               ov \in Overrides \cup {Unset} : UpdateKey(k, allowed, enabled, ov)
         \/ DeleteKey(k)
         \/ DeleteKeyCrash(k)
         \/ \E m \in Model \cup {Unset} : ClearOverride(k, m)
    BY DEF KeyStep
  <1>1. TypeOK /\ keys \in KeyStore
    BY DEF AccessInv, TypeOK
  <1>2. EditPending(k, {}) \in BOOLEAN
    BY DEF EditPending
  <1>3. \A e \in Edit : edit[e] # Idle /\ edit[e].key = k => EditPending(k, {})
    BY DEF EditPending
  <1>4. ASSUME NEW allowed \in (SUBSET Model) \cup {Unset},
               NEW enabled \in BOOLEAN \cup {Unset}, NEW ov \in Overrides \cup {Unset},
               UpdateKey(k, allowed, enabled, ov)
        PROVE  EditInv'
    <2> DEFINE next == Patched(k, allowed, enabled, ov)
               touched == IF ov = Unset THEN Model \ next[k].allowedModels ELSE Model
               table == next[k].modelOverrides
    <2>1. edit' = edit /\ EditsShrink /\ keys[k] # Absent
      BY <1>4 DEF UpdateKey, ValidPatch, EditsShrink, handlers
    <2>2. CASE RollBack
      BY <2>1, <2>2, RollBackEdits
    <2>3. CASE /\ Commit(next)
               /\ Answered(k, touched, table, EditPending(k, {}))
               /\ UNCHANGED used
      <3>1. /\ next \in KeyStore
            /\ next[k] # Absent
            /\ table = IF ov = Unset THEN Prune(keys[k].modelOverrides, next[k].allowedModels)
                       ELSE ov
            /\ \A j \in Key \ {k} : next[j] = keys[j]
        <4>1. IsPatch(next, k, allowed, enabled, ov)
          BY <1>1, <2>1, PatchedFields
        <4> HIDE DEF next
        <4> QED
          BY <4>1 DEF IsPatch
      <3>2. next[k] \in AccessKey
        BY <3>1 DEF KeyStore
      <3>3. table \in Overrides /\ touched \in SUBSET Model
        BY <3>2 DEF AccessKey
      <3>4. \A m \in Model \ touched : table[m] = keys[k].modelOverrides[m]
        BY <3>1 DEF Prune
      <3>5. keys' = next
        BY <2>3 DEF Commit
      <3>6. Rewritten(k, touched, table)
        <4> HIDE DEF next, touched
        <4> QED
          BY <2>1, <3>1, <3>4, <3>5 DEF Rewritten
      <3>7. \A e \in Edit : edit'[e] # Idle /\ edit'[e].key = k => EditPending(k, {})
        BY <1>3, <2>1
      <3> HIDE DEF next, touched, table
      <3> QED
        BY <1>1, <1>2, <2>1, <2>3, <3>3, <3>6, <3>7, AnsweredSafe
    <2> QED
      BY <1>4, <2>2, <2>3 DEF UpdateKey
  <1>5. CASE DeleteKey(k)
    <2>1. edit' = edit /\ EditsShrink
      BY <1>5 DEF DeleteKey, EditsShrink, handlers
    <2>2. CASE RollBack
      BY <2>1, <2>2, RollBackEdits
    <2>3. CASE keys' = [keys EXCEPT ![k] = Absent] /\ UNCHANGED <<used, writes>>
      <3>1. \A j \in Key : keys'[j] = keys[j] \/ keys'[j] = Absent
        BY <1>1, <2>3 DEF KeyStore
      <3>2. OverrideDurable'
        BY <2>3, <3>1 DEF EditInv, OverrideDurable, Live, writes
      <3>3. CopiesUpToDate'
        <4>1. \A e \in Edit : edit[e] # Idle => edit[e].key \in Key
          BY <1>1 DEF TypeOK, PendingEdit
        <4> QED
          BY <2>1, <2>3, <3>1, <4>1 DEF EditInv, CopiesUpToDate, UpToDate, writes
      <3> QED
        BY <3>2, <3>3 DEF EditInv
    <2> QED
      BY <1>5, <2>2, <2>3 DEF DeleteKey, Commit
  <1>6. CASE DeleteKeyCrash(k)
    BY <1>6, DieEditsSafe DEF DeleteKeyCrash
  <1>7. ASSUME NEW m \in Model \cup {Unset}, ClearOverride(k, m)
        PROVE  EditInv'
    <2> DEFINE gone == IF m = Unset THEN Model ELSE {m}
               left == Prune(keys[k].modelOverrides, Model \ gone)
               next == Patched(k, Unset, Unset, left)
    <2>1. edit' = edit /\ EditsShrink /\ keys[k] # Absent
      BY <1>7 DEF ClearOverride, EditsShrink, handlers
    <2>2. CASE RollBack
      BY <2>1, <2>2, RollBackEdits
    <2>3. CASE /\ Commit(next)
               /\ Answered(k, gone, NoOverrides, EditPending(k, {}))
               /\ UNCHANGED used
      <3>1. keys[k].modelOverrides \in Overrides
        BY <1>1, <2>1 DEF KeyStore, AccessKey
      <3>2. left \in Overrides /\ left # Unset /\ gone \in SUBSET Model
        BY <3>1, PruneType, ConstantsAssumption DEF Overrides
      <3>3. /\ \A n \in gone : left[n] = NoOverrides[n]
            /\ \A n \in Model \ gone : left[n] = keys[k].modelOverrides[n]
        BY <3>2 DEF Prune, NoOverrides
      <3> HIDE DEF left, gone
      <3>4. /\ next[k].modelOverrides = left
            /\ \A j \in Key \ {k} : next[j] = keys[j]
        <4>1. IsPatch(next, k, Unset, Unset, left)
          BY <1>1, <2>1, <3>2, PatchedFields
        <4> HIDE DEF next
        <4> QED
          BY <3>2, <4>1 DEF IsPatch
      <3>5. keys' = next
        BY <2>3 DEF Commit
      <3>6. Rewritten(k, gone, NoOverrides)
        <4> HIDE DEF next
        <4> QED
          BY <2>1, <3>3, <3>4, <3>5 DEF Rewritten
      <3>7. \A e \in Edit : edit'[e] # Idle /\ edit'[e].key = k => EditPending(k, {})
        BY <1>3, <2>1
      <3> HIDE DEF next
      <3> QED
        BY <1>1, <1>2, <2>1, <2>3, <3>2, <3>6, <3>7, NoOverridesType, AnsweredSafe
    <2> QED
      BY <1>7, <2>2, <2>3 DEF ClearOverride, promises
  <1> QED
    BY <1>4, <1>5, <1>6, <1>7

(* The edit that writes back its copy: outside the entry it was asked to   *)
(* set, the copy is up to date or its entries are marked.                  *)
LEMMA EditStepEdits ==
    ASSUME AccessInv, TypeOK', EditInv, EditStep
    PROVE  EditInv'
  <1> PICK e \in Edit :
         \/ \E k \in Key, m \in Model \cup {Unset} : StartEdit(e, k, m)
         \/ FinishEdit(e)
         \/ AbandonEdit(e)
    BY DEF EditStep
  <1>1. TypeOK /\ edit \in [Edit -> PendingEdit]
    BY DEF AccessInv, TypeOK
  <1>2. ASSUME NEW k \in Key, NEW m \in Model \cup {Unset}, StartEdit(e, k, m)
        PROVE  EditInv'
    <2>1. /\ UNCHANGED <<keys, used, writes>>
          /\ edit' = [edit EXCEPT ![e] = [phase |-> "body", key |-> k, model |-> m,
                                          was |-> keys[k]]]
          /\ k \in used
      BY <1>2 DEF StartEdit, store, history, AccessInv, Good, Live
    <2>2. /\ edit'[e].key = k /\ edit'[e].was = keys[k]
          /\ \A d \in Edit \ {e} : edit'[d] = edit[d]
      BY <1>1, <2>1
    <2>3. CopiesUpToDate'
      <3> SUFFICES ASSUME NEW d \in Edit, edit'[d] # Idle
                   PROVE  /\ edit'[d].key \in used
                          /\ keys[edit'[d].key] # Absent =>
                               \A n \in Model :
                                 \/ edit'[d].was.modelOverrides[n] =
                                      keys[edit'[d].key].modelOverrides[n]
                                 \/ <<edit'[d].key, n>> \in unsettled
        BY <2>1 DEF CopiesUpToDate, UpToDate, writes
      <3>1. CASE d = e
        BY <2>1, <2>2, <3>1
      <3>2. CASE d # e
        BY <2>2, <3>2 DEF EditInv, CopiesUpToDate, UpToDate
      <3> QED
        BY <3>1, <3>2
    <2>4. OverrideDurable'
      BY <2>1 DEF EditInv, OverrideDurable, Live, writes
    <2> QED
      BY <2>3, <2>4 DEF EditInv
  <1>3. CASE AbandonEdit(e)
    <2>1. EditsShrink /\ UNCHANGED <<keys, used, writes>>
      BY <1>1, <1>3 DEF AbandonEdit, EditsShrink, store, history
    <2> QED
      BY <2>1, EditsShrinkSafe
  <1>4. CASE FinishEdit(e)
    <2> DEFINE h == edit[e]
               touched == IF h.model = Unset THEN Model ELSE {h.model}
    <2>1. /\ h.key \in Key /\ h.was \in AccessKey /\ h.model \in Model \cup {Unset}
          /\ h # Idle
      BY <1>1, <1>4 DEF FinishEdit, PendingEdit
    <2>2. EditTables(h) \subseteq Overrides
      BY <2>1 DEF EditTables, Overrides, AccessKey
    <2>3. EditsShrink /\ edit'[e] = Idle
      BY <1>1, <1>4 DEF FinishEdit, EditsShrink
    <2>4. PICK ov \in EditTables(h) :
            /\ keys[h.key] # Absent
            /\ \/ /\ Commit(Patched(h.key, Unset, Unset, ov))
                  /\ Answered(h.key, touched, ov, EditPending(h.key, {e}))
                  /\ UNCHANGED used
               \/ RollBack
      BY <1>4 DEF FinishEdit, ValidPatch, promises
    <2>5. CASE RollBack
      BY <2>3, <2>5, RollBackEdits
    <2>6. CASE /\ Commit(Patched(h.key, Unset, Unset, ov))
               /\ Answered(h.key, touched, ov, EditPending(h.key, {e}))
               /\ UNCHANGED used
      <3> DEFINE next == Patched(h.key, Unset, Unset, ov)
      <3>1. ov \in Overrides /\ ov # Unset /\ touched \in SUBSET Model
        BY <2>1, <2>2, ConstantsAssumption DEF Overrides
      <3>2. UpToDate(h.was.modelOverrides, h.key)
        BY <2>1, <2>4 DEF EditInv, CopiesUpToDate
      <3>3. \A m \in Model \ touched : ov[m] = h.was.modelOverrides[m]
        BY <2>1, <2>4 DEF EditTables, AccessKey, Overrides
      <3>4. \A m \in Model \ touched :
              ov[m] = keys[h.key].modelOverrides[m] \/ <<h.key, m>> \in unsettled
        BY <3>2, <3>3 DEF UpToDate
      <3>5. EditPending(h.key, {e}) \in BOOLEAN
        BY DEF EditPending
      <3>6. \A d \in Edit : edit'[d] # Idle /\ edit'[d].key = h.key => EditPending(h.key, {e})
        BY <1>1, <2>3 DEF EditsShrink, EditPending
      <3> HIDE DEF h, touched
      <3>7. IsPatch(next, h.key, Unset, Unset, ov)
        BY <1>1, <2>1, <2>4, <3>1, PatchedFields
      <3>8. keys' = next
        BY <2>6 DEF Commit
      <3> HIDE DEF next
      <3>9. Rewritten(h.key, touched, ov)
        BY <2>4, <3>1, <3>4, <3>7, <3>8 DEF Rewritten, IsPatch
      <3> QED
        BY <1>1, <2>1, <2>3, <2>6, <3>1, <3>5, <3>6, <3>9, AnsweredSafe
    <2> QED
      BY <2>4, <2>5, <2>6
  <1> QED
    BY <1>2, <1>3, <1>4

(* The data plane reads no override and starts no edit. *)
LEMMA RequestStepEdits ==
    ASSUME EditInv, RequestStep
    PROVE  EditInv'
  <1>1. EditsShrink /\ UNCHANGED <<keys, used, writes>>
    BY DEF RequestStep, Authenticate, AcceptPassthrough, Forward, EndRequest,
           EditsShrink, store, history
  <1> QED
    BY <1>1, EditsShrinkSafe

(* A restart puts the file into memory, or nothing. *)
LEMMA ProcessStepEdits ==
    ASSUME AccessInv, TypeOK', GrantInv, EditInv, FileDurable, ProcessStep
    PROVE  EditInv'
  <1>1. CASE UsageTimerFires
    <2>1. EditsShrink /\ UNCHANGED <<keys, used, writes>>
      BY <1>1 DEF UsageTimerFires, EditsShrink, handlers, history
    <2> QED
      BY <2>1, EditsShrinkSafe
  <1>2. CASE UsageTimerFails \/ Crash
    BY <1>2, DieEditsSafe DEF UsageTimerFails, Crash
  <1>3. ASSUME NEW keysReadable \in BOOLEAN, NEW modelsReadable \in BOOLEAN,
               Restart(keysReadable, modelsReadable)
        PROVE  EditInv'
    <2>1. UNCHANGED <<expected, unsettled>> /\ edit' = edit /\ ~up
      BY <1>3 DEF Restart, handlers, history, writes
    <2>2. \A e \in Edit : edit'[e] = Idle
      BY <2>1 DEF GrantInv, DownIsEmpty
    <2>3. LoadKeys(keysDisk) = keysDisk
      BY LoadKeysSame DEF AccessInv, TypeOK
    <2>4. keys' = keysDisk \/ keys' = NoKeys
      BY <1>3, <2>3 DEF Restart
    <2>5. OverrideDurable'
      BY <2>1, <2>4 DEF FileDurable, AsExpected, OverrideDurable, Live, NoKeys
    <2> QED
      BY <2>2, <2>5 DEF EditInv, CopiesUpToDate
  <1> QED
    BY <1>1, <1>2, <1>3 DEF ProcessStep

(* A file that was written holds what memory holds; one that was not       *)
(* written holds what it held.                                             *)
FileFollows == keysDisk' = keys' \/ UNCHANGED <<keysDisk, writes>>

(* Either way it keeps the promise. *)
LEMMA FileFollowsSafe ==
    ASSUME FileDurable, EditInv', FileFollows
    PROVE  FileDurable'
  BY DEF FileDurable, AsExpected, EditInv, OverrideDurable, FileFollows, writes, Live

(* Only a removal changes what may be expected without writing the file:   *)
(* it strips nothing, or it marks what it strips.                          *)
LEMMA RemovalKeepsFile ==
    ASSUME AccessInv, EditInv, EditInv', FileDurable, NEW m \in Model,
           \/ RemoveDesired(m)
           \/ RemoveDesiredKeysFail(m)
           \/ RemoveDesiredModelsFail(m)
    PROVE  FileDurable'
  <1>1. TypeOK /\ keys \in KeyStore
    BY DEF AccessInv, TypeOK
  <1>2. CASE keysDisk' = keys'
    BY <1>2, FileFollowsSafe DEF FileFollows
  <1>3. CASE keysDisk' = keysDisk /\ keysDisk' # keys'
    <2>1. PICK open :
             /\ ForgetModel(m, open)
             /\ \A k \in Key : k \in Stripped(m) => k \in open
      <3>1. CASE RemoveDesiredKeysFail(m)
        BY <3>1 DEF RemoveDesiredKeysFail
      <3>2. CASE RemoveDesired(m) \/ RemoveDesiredModelsFail(m)
        <4>1. keys = StripModel(keys, m)
          BY <1>3, <3>2 DEF RemoveDesired, RemoveDesiredModelsFail, KeysAfterRemoval
        <4>2. ASSUME NEW k \in Stripped(m)
              PROVE  FALSE
          <5>1. k \in Key /\ keys[k] # Absent /\ m \in keys[k].allowedModels
            BY DEF Stripped, Live
          <5>2. keys[k] \in AccessKey
            BY <1>1, <5>1 DEF KeyStore
          <5>3. keys[k] = WithoutModel(keys[k], m)
            BY <4>1, <5>1 DEF StripModel
          <5>4. WithoutModel(keys[k], m).allowedModels = keys[k].allowedModels \ {m}
            BY <5>2 DEF WithoutModel, AccessKey
          <5> QED
            BY <5>1, <5>3, <5>4
        <4> QED
          BY <3>2, <4>2 DEF RemoveDesired, RemoveDesiredModelsFail
      <3> QED
        BY <3>1, <3>2
    <2>2. ASSUME NEW k \in Key, keysDisk[k] # Absent, NEW n \in Model
          PROVE  keysDisk[k].modelOverrides[n] = expected'[k][n] \/ <<k, n>> \in unsettled'
      <3>1. AsExpected(keysDisk, k, n)
        BY <2>2 DEF FileDurable, Live
      <3> QED
        BY <1>1, <2>1, <3>1, ForgottenModel DEF AsExpected
    <2> QED
      BY <1>3, <2>2 DEF FileDurable, AsExpected, Live
  <1>4. keysDisk' = keysDisk \/ keysDisk' = keys'
    BY DEF RemoveDesired, RemoveDesiredKeysFail, RemoveDesiredModelsFail, KeysAfterRemoval
  <1> QED
    BY <1>2, <1>3, <1>4

(* The two crashes between the writes of one DELETE leave a file that is   *)
(* ahead of what was answered, and as expected.                            *)
LEMMA HalfDeletedFile ==
    ASSUME AccessInv, EditInv,
           \/ \E m \in Model : RemoveDesiredCrash(m)
           \/ \E k \in Key : DeleteKeyCrash(k)
    PROVE  FileDurable'
  <1>1. ASSUME NEW m \in Model, RemoveDesiredCrash(m)
        PROVE  FileDurable'
    <2>1. keysDisk' = StripModel(keys, m) /\ ForgetModel(m, {})
      BY <1>1 DEF RemoveDesiredCrash
    <2> QED
      BY <2>1, StrippedAsExpected DEF EditInv, FileDurable, AsExpected, Live
  <1>2. ASSUME NEW k \in Key, DeleteKeyCrash(k)
        PROVE  FileDurable'
    <2>1. keysDisk' = [keys EXCEPT ![k] = Absent] /\ UNCHANGED <<expected, unsettled>>
      BY <1>2 DEF DeleteKeyCrash, history, writes
    <2>2. \A j \in Key : keysDisk'[j] = keys[j] \/ keysDisk'[j] = Absent
      BY <2>1 DEF AccessInv, TypeOK, KeyStore
    <2> QED
      BY <2>1, <2>2 DEF EditInv, OverrideDurable, FileDurable, AsExpected, Live
  <1> QED
    BY <1>1, <1>2

(* A call that commits, or rolls back, leaves the file as memory is, or as *)
(* it was.                                                                 *)
LEMMA CommitFollows ==
    ASSUME NEW STATE s, Commit(s) \/ RollBack
    PROVE  FileFollows
  BY DEF Commit, RollBack, FileFollows, store, history

(* Every step keeps the file to the promise. *)
LEMMA NextFile ==
    ASSUME AccessInv, EditInv, EditInv', FileDurable, [Next]_vars
    PROVE  FileDurable'
  <1>1. CASE DesiredStep
    <2>1. PICK m \in Model :
            \/ AddDesired(m)
            \/ RemoveDesired(m) \/ RemoveDesiredKeysFail(m) \/ RemoveDesiredModelsFail(m)
            \/ RemoveDesiredCrash(m)
      BY <1>1 DEF DesiredStep
    <2>2. CASE AddDesired(m)
      BY <2>2, FileFollowsSafe DEF AddDesired, FileFollows, store
    <2> QED
      BY <2>1, <2>2, RemovalKeepsFile, HalfDeletedFile
  <1>2. CASE CreateStep
    <2>1. FileFollows
      BY <1>2 DEF CreateStep, CreateKey, CreateKeyFail, CreateKeyCrash, Commit, FileFollows, store
    <2> QED
      BY <2>1, FileFollowsSafe
  <1>3. CASE KeyStep
    <2>1. PICK k \in Key :
            \/ \E allowed \in (SUBSET Model) \cup {Unset}, enabled \in BOOLEAN \cup {Unset},
                  ov \in Overrides \cup {Unset} : UpdateKey(k, allowed, enabled, ov)
            \/ DeleteKey(k)
            \/ DeleteKeyCrash(k)
            \/ \E m \in Model \cup {Unset} : ClearOverride(k, m)
      BY <1>3 DEF KeyStep
    <2>2. CASE DeleteKeyCrash(k)
      BY <2>2, HalfDeletedFile
    <2>3. CASE ~DeleteKeyCrash(k)
      <3>1. CASE \E allowed \in (SUBSET Model) \cup {Unset}, enabled \in BOOLEAN \cup {Unset},
                     ov \in Overrides \cup {Unset} : UpdateKey(k, allowed, enabled, ov)
        <4>1. PICK allowed \in (SUBSET Model) \cup {Unset} :
                \E enabled \in BOOLEAN \cup {Unset}, ov \in Overrides \cup {Unset} :
                  UpdateKey(k, allowed, enabled, ov)
          BY <3>1
        <4>2. PICK enabled \in BOOLEAN \cup {Unset} :
                \E ov \in Overrides \cup {Unset} : UpdateKey(k, allowed, enabled, ov)
          BY <4>1
        <4>3. PICK ov \in Overrides \cup {Unset} : UpdateKey(k, allowed, enabled, ov)
          BY <4>2
        <4>4. Commit(Patched(k, allowed, enabled, ov)) \/ RollBack
          BY <4>3 DEF UpdateKey
        <4> QED
          BY <4>4, CommitFollows, FileFollowsSafe
      <3>2. CASE DeleteKey(k)
        <4>1. Commit([keys EXCEPT ![k] = Absent]) \/ RollBack
          BY <3>2 DEF DeleteKey
        <4> QED
          BY <4>1, CommitFollows, FileFollowsSafe
      <3>3. CASE \E m \in Model \cup {Unset} : ClearOverride(k, m)
        <4>1. PICK m \in Model \cup {Unset} : ClearOverride(k, m)
          BY <3>3
        <4>2. \E left : Commit(Patched(k, Unset, Unset, left)) \/ RollBack
          BY <4>1 DEF ClearOverride
        <4> QED
          BY <4>2, CommitFollows, FileFollowsSafe
      <3> QED
        BY <2>1, <2>3, <3>1, <3>2, <3>3
    <2> QED
      BY <2>2, <2>3
  <1>4. CASE EditStep
    <2>1. FileFollows
      BY <1>4 DEF EditStep, StartEdit, FinishEdit, AbandonEdit, Commit, RollBack,
                  FileFollows, store, history
    <2> QED
      BY <2>1, FileFollowsSafe
  <1>5. CASE RequestStep
    <2>1. FileFollows
      BY <1>5 DEF RequestStep, Authenticate, AcceptPassthrough, Forward, EndRequest,
                  FileFollows, store, history
    <2> QED
      BY <2>1, FileFollowsSafe
  <1>6. CASE ProcessStep
    <2>1. FileFollows
      BY <1>6 DEF ProcessStep, UsageTimerFires, UsageTimerFails, Crash, Restart, FileFollows, history
    <2> QED
      BY <2>1, FileFollowsSafe
  <1>7. CASE UNCHANGED vars
    <2>1. FileFollows
      BY <1>7 DEF vars, store, history, FileFollows
    <2> QED
      BY <2>1, FileFollowsSafe
  <1> QED
    BY <1>1, <1>2, <1>3, <1>4, <1>5, <1>6, <1>7 DEF Next

(* An override that a 200 reported is in force until another call writes   *)
(* it, through any number of failed writes, crashes and restarts, except   *)
(* where an older edit of the same key was still waiting for its body, or  *)
(* a removal of the model ended with a 500.                                *)
THEOREM OverridesAreDurable == Spec => []OverrideDurable
  <1>1. Init => EditInv /\ FileDurable
    BY DEF Init, EditInv, OverrideDurable, CopiesUpToDate, FileDurable, Live, NoKeys
  <1>2. AccessInv /\ TypeOK' /\ GrantInv /\ EditInv /\ FileDurable /\ [Next]_vars
          => EditInv' /\ FileDurable'
    <2> SUFFICES ASSUME AccessInv, TypeOK', GrantInv, EditInv, FileDurable, [Next]_vars
                 PROVE  EditInv' /\ FileDurable'
      OBVIOUS
    <2>1. EditInv'
      <3>1. CASE UNCHANGED vars
        <4>1. EditsShrink /\ UNCHANGED <<keys, used, writes>>
          BY <3>1 DEF vars, store, handlers, history, EditsShrink
        <4> QED
          BY <4>1, EditsShrinkSafe
      <3> QED
        BY <3>1, DesiredStepEdits, CreateStepEdits, KeyStepEdits, EditStepEdits,
           RequestStepEdits, ProcessStepEdits DEF Next
    <2> QED
      BY <2>1, NextFile
  <1>3. AccessInv => TypeOK
    BY DEF AccessInv
  <1>4. EditInv => OverrideDurable
    BY DEF EditInv
  <1> QED
    BY <1>1, <1>2, <1>3, <1>4, AccessInvariant, GrantInvariant, PTL DEF Spec

-----------------------------------------------------------------------------
(***************************************************************************)
(* AccessControl implements InferenceGate where no write fails and no file *)
(* is unreadable (MaxFaults = 0).  The mapping reads the rights from memory*)
(* while the process is up and from the files while it is down; FaultsShow *)
(* and LoadKeysSame make the two agree at a crash and at a restart, and    *)
(* Exact makes the rights of a key its whole grant.                        *)
(***************************************************************************)
FaultFree ==
    /\ TypeOK
    /\ AccessInv
    /\ GrantInv
    /\ faults = 0

(* What the invariants say of a process that is up. *)
LEMMA FaultFreeUp ==
    ASSUME FaultFree, up
    PROVE  /\ keys = keysDisk /\ desired = desiredDisk
           /\ keys \in KeyStore /\ desired \in SUBSET Model
           /\ Grants(keys) \subseteq Key \X desired
           /\ Rights = Held(keys, desired) /\ Offered = desired
  BY DEF FaultFree, GrantInv, FaultsShow, Exact, TypeOK, Rights, Offered

(* The rights a key has are its grants if it is enabled. *)
LEMMA InHeld ==
    ASSUME NEW s \in KeyStore, NEW d \in SUBSET Model, NEW k \in Key, NEW m \in Model
    PROVE  <<k, m>> \in Held(s, d) <=>
             m \in d /\ s[k] # Absent /\ s[k].enabled /\ m \in s[k].allowedModels
  BY DEF Held

(* Rights are pairs of a key and a model. *)
LEMMA HeldType ==
    ASSUME NEW s, NEW d \in SUBSET Model
    PROVE  Held(s, d) \subseteq Key \X Model
  BY DEF Held

(* Two sets of pairs with the same members are the same. *)
LEMMA SamePairs ==
    ASSUME NEW A, NEW B, A \subseteq Key \X Model, B \subseteq Key \X Model,
           \A k \in Key, m \in Model : <<k, m>> \in A <=> <<k, m>> \in B
    PROVE  A = B
  OBVIOUS

(* Withdrawing a model takes exactly the rights to it, whether or not the  *)
(* model is still on offer.                                                *)
Takes(m, before, offered, closedToo) ==
    LET left == before \ (Key \X {m}) IN offered = left /\ closedToo = left

(* Stripping a model from every key withdraws it, be it on offer or not.   *)
LEMMA StripModelHeld ==
    ASSUME NEW s \in KeyStore, NEW d \in SUBSET Model, NEW m \in Model
    PROVE  Takes(m, Held(s, d), Held(StripModel(s, m), d), Held(StripModel(s, m), d \ {m}))
  <1>1. StripModel(s, m) \in KeyStore
    BY StripModelType
  <1>2. ASSUME NEW k \in Key
        PROVE  /\ StripModel(s, m)[k] # Absent <=> s[k] # Absent
               /\ s[k] # Absent =>
                    /\ StripModel(s, m)[k].allowedModels = s[k].allowedModels \ {m}
                    /\ StripModel(s, m)[k].enabled = s[k].enabled
    <2>1. CASE s[k] = Absent
      BY <2>1 DEF StripModel
    <2>2. CASE s[k] # Absent
      <3>1. s[k] \in AccessKey
        BY <2>2 DEF KeyStore
      <3>2. StripModel(s, m)[k] = WithoutModel(s[k], m)
        BY <2>2 DEF StripModel
      <3>3. /\ WithoutModel(s[k], m).allowedModels = s[k].allowedModels \ {m}
            /\ WithoutModel(s[k], m).enabled = s[k].enabled
        BY <3>1 DEF WithoutModel, AccessKey
      <3>4. WithoutModel(s[k], m) \in AccessKey
        <4>1. Prune(s[k].modelOverrides, s[k].allowedModels \ {m}) \in Overrides
          BY <3>1, PruneType DEF AccessKey
        <4> QED
          BY <3>1, <4>1 DEF WithoutModel, AccessKey
      <3> QED
        BY <2>2, <3>2, <3>3, <3>4, AbsentIsNoKey
    <2> QED
      BY <2>1, <2>2
  <1> DEFINE t == StripModel(s, m)
             e == d \ {m}
             left == Held(s, d) \ (Key \X {m})
  <1> HIDE DEF t
  <1>3. ASSUME NEW k \in Key, NEW n \in Model
        PROVE  /\ <<k, n>> \in Held(t, d) <=> <<k, n>> \in left
               /\ <<k, n>> \in Held(t, e) <=> <<k, n>> \in left
    <2>1. <<k, n>> \in Held(s, d) <=>
            n \in d /\ s[k] # Absent /\ s[k].enabled /\ n \in s[k].allowedModels
      BY InHeld
    <2>2. <<k, n>> \in Held(t, d) <=>
            n \in d /\ t[k] # Absent /\ t[k].enabled /\ n \in t[k].allowedModels
      BY <1>1, InHeld DEF t
    <2>3. <<k, n>> \in Held(t, e) <=>
            n \in e /\ t[k] # Absent /\ t[k].enabled /\ n \in t[k].allowedModels
      BY <1>1, InHeld DEF t
    <2>4. /\ t[k] # Absent <=> s[k] # Absent
          /\ s[k] # Absent => /\ t[k].allowedModels = s[k].allowedModels \ {m}
                              /\ t[k].enabled = s[k].enabled
      BY <1>2 DEF t
    <2> QED
      BY <2>1, <2>2, <2>3, <2>4
  <1>4. /\ left \subseteq Key \X Model
        /\ Held(t, d) \subseteq Key \X Model
        /\ Held(t, e) \subseteq Key \X Model
    BY HeldType
  <1> HIDE DEF left, e
  <1>5. Held(t, d) = left /\ Held(t, e) = left
    BY <1>3, <1>4, SamePairs
  <1> QED
    BY <1>5 DEF t, e, left, Takes

(* A store that differs in one record differs in the rights of one key. *)
OneKeyApart(s, t, k) == \A j \in Key \ {k} : t[j] = s[j]

(* Some set of models on offer describes all that changed in the rights. *)
RightsSet(old, new, k, d) ==
    \E models \in SUBSET d : new = (old \ ({k} \X Model)) \cup ({k} \X models)

(* Between two stores that differ in one key, that key's rights change.    *)
LEMMA OneKeyHeld ==
    ASSUME NEW s \in KeyStore, NEW t \in KeyStore, NEW d \in SUBSET Model, NEW k \in Key,
           OneKeyApart(s, t, k)
    PROVE  /\ RightsSet(Held(s, d), Held(t, d), k, d)
           /\ t[k] = Absent => Held(t, d) = Held(s, d) \ ({k} \X Model)
  <1> DEFINE models == {m \in d : t[k] # Absent /\ t[k].enabled /\ m \in t[k].allowedModels}
             new == (Held(s, d) \ ({k} \X Model)) \cup ({k} \X models)
  <1>1. \A j \in Key, m \in Model : <<j, m>> \in Held(t, d) <=> <<j, m>> \in new
    <2> SUFFICES ASSUME NEW j \in Key, NEW m \in Model
                 PROVE  <<j, m>> \in Held(t, d) <=> <<j, m>> \in new
      OBVIOUS
    <2>1. CASE j = k
      BY <2>1, InHeld
    <2>2. CASE j # k
      BY <2>2, InHeld DEF OneKeyApart
    <2> QED
      BY <2>1, <2>2
  <1>2. Held(s, d) \subseteq Key \X Model
    BY HeldType
  <1>3. Held(t, d) \subseteq Key \X Model
    BY HeldType
  <1>4. models \in SUBSET d /\ new \subseteq Key \X Model
    BY <1>2
  <1> HIDE DEF new
  <1>5. Held(t, d) = new
    BY <1>1, <1>3, <1>4, SamePairs
  <1>6. RightsSet(Held(s, d), Held(t, d), k, d)
    BY <1>4, <1>5 DEF RightsSet, new
  <1>7. t[k] = Absent => Held(t, d) = Held(s, d) \ ({k} \X Model)
    BY <1>5 DEF new
  <1> QED
    BY <1>6, <1>7

(* A first start has nothing to offer and no rights. *)
LEMMA GateInit == Init => Gate!Init
  <1> SUFFICES ASSUME Init
               PROVE  Gate!Init
    OBVIOUS
  <1>1. Rights = {}
    BY DEF Init, Rights, Held
  <1>2. Call = [r \in Req |-> Gate!NoCall]
    BY DEF Init, Call, CallOf, Idle, Gate!NoCall
  <1> QED
    BY <1>1, <1>2 DEF Init, Gate!Init, Offered

(* A step or a stutter of the abstract gate. *)
GateStep == Gate!Next \/ UNCHANGED <<up, Offered, Rights, Call>>

(* Nothing the gate shows has moved. *)
LEMMA GateStutters ==
    ASSUME up, up', Held(keys', desired') = Held(keys, desired), UNCHANGED <<desired, req>>
    PROVE  GateStep
  BY DEF GateStep, Rights, Offered, Call

(* The process died: the files held what memory held, or a part of it.     *)
LEMMA GateStops ==
    ASSUME FaultFree, up, Die, UNCHANGED desiredDisk,
           \/ keysDisk' = keysDisk
           \/ \E m \in Model : keysDisk' = StripModel(keys, m)
           \/ \E k \in Key : keysDisk' = [keys EXCEPT ![k] = Absent]
    PROVE  GateStep
  <1>1. /\ keys = keysDisk /\ desired = desiredDisk
        /\ keys \in KeyStore /\ desired \in SUBSET Model
        /\ Rights = Held(keys, desired) /\ Offered = desired
    BY FaultFreeUp
  <1>2. up' = FALSE /\ Call' = [r \in Req |-> Gate!NoCall]
    BY DEF Die, Call, CallOf, Idle, Gate!NoCall
  <1>3. Rights' = Held(keysDisk', desired) /\ Offered' = Offered
    BY <1>1, <1>2 DEF Rights, Offered
  <1>4. \/ UNCHANGED Rights
        \/ \E m \in Model : Rights' = Rights \ (Key \X {m})
        \/ \E k \in Key : Rights' = Rights \ ({k} \X Model)
    <2>1. CASE keysDisk' = keysDisk
      BY <1>1, <1>3, <2>1
    <2>2. ASSUME NEW m \in Model, keysDisk' = StripModel(keys, m)
          PROVE  Rights' = Rights \ (Key \X {m})
      <3>1. keys \in KeyStore /\ desired \in SUBSET Model
        BY <1>1
      <3>2. Takes(m, Held(keys, desired), Held(StripModel(keys, m), desired),
                  Held(StripModel(keys, m), desired \ {m}))
        BY <3>1, StripModelHeld
      <3>3. Held(StripModel(keys, m), desired) = Held(keys, desired) \ (Key \X {m})
        BY <3>2 DEF Takes
      <3> QED
        BY <1>1, <1>3, <2>2, <3>3
    <2>3. ASSUME NEW k \in Key, keysDisk' = [keys EXCEPT ![k] = Absent]
          PROVE  Rights' = Rights \ ({k} \X Model)
      <3> DEFINE t == [keys EXCEPT ![k] = Absent]
      <3>1. t \in KeyStore /\ t[k] = Absent /\ OneKeyApart(keys, t, k)
        BY <1>1 DEF KeyStore, OneKeyApart
      <3> HIDE DEF t
      <3>2. Held(t, desired) = Held(keys, desired) \ ({k} \X Model)
        BY <1>1, <3>1, OneKeyHeld
      <3> QED
        BY <1>1, <1>3, <2>3, <3>2 DEF t
    <2> QED
      BY <2>1, <2>2, <2>3
  <1>5. Gate!Stop
    BY <1>2, <1>3, <1>4 DEF Gate!Stop
  <1> QED
    BY <1>5 DEF GateStep, Gate!Next

(* The operator changed one key. *)
LEMMA GateSetsRights ==
    ASSUME FaultFree, up, NEW k \in Key, keys' \in KeyStore, OneKeyApart(keys, keys', k),
           UNCHANGED <<up, offers, req>>
    PROVE  GateStep
  <1>1. /\ keys \in KeyStore /\ desired \in SUBSET Model
        /\ Rights = Held(keys, desired) /\ Offered = desired
    BY FaultFreeUp
  <1>2. up' /\ Rights' = Held(keys', desired) /\ Offered' = Offered /\ Call' = Call
    BY <1>1 DEF Rights, Offered, Call, offers
  <1>3. RightsSet(Rights, Rights', k, Offered)
    BY <1>1, <1>2, OneKeyHeld
  <1>4. Gate!SetRights(k)
    BY <1>2, <1>3 DEF Gate!SetRights, RightsSet
  <1> QED
    BY <1>4 DEF GateStep, Gate!Next

(* Without a fault to spend none happens. *)
LEMMA NoFault ==
    ASSUME MaxFaults = 0, FaultFree
    PROVE  ~Fault
  BY DEF FaultFree, Fault

(* Adding a Desired Model offers it, removing one withdraws it. *)
LEMMA DesiredStepGate ==
    ASSUME MaxFaults = 0, FaultFree, DesiredStep
    PROVE  GateStep
  <1> PICK m \in Model :
         \/ AddDesired(m)
         \/ RemoveDesired(m)
         \/ RemoveDesiredKeysFail(m)
         \/ RemoveDesiredModelsFail(m)
         \/ RemoveDesiredCrash(m)
    BY DEF DesiredStep
  <1>1. CASE AddDesired(m)
    <2>1. /\ up /\ UNCHANGED <<up, keys, req>>
          /\ desired' = desired \cup {m}
      BY <1>1 DEF AddDesired, store, handlers
    <2>2. /\ keys \in KeyStore /\ desired \in SUBSET Model
          /\ Grants(keys) \subseteq Key \X desired
          /\ Rights = Held(keys, desired) /\ Offered = desired
      BY <2>1, FaultFreeUp
    <2>3. Held(keys, desired \cup {m}) = Held(keys, desired)
      <3>1. Grants(keys) \cap (Key \X {m}) \subseteq Key \X desired
        BY <2>2
      <3>2. Held(keys, desired \cup {m}) \subseteq Grants(keys)
        BY <2>2 DEF Held, Grants
      <3> QED
        BY <2>2, <3>2 DEF Held
    <2>4. up' /\ Offered' = Offered \cup {m} /\ UNCHANGED <<up, Rights, Call>>
      BY <2>1, <2>2, <2>3 DEF Offered, Rights, Call
    <2>5. Gate!Offer(m)
      BY <2>1, <2>4 DEF Gate!Offer
    <2> QED
      BY <2>5 DEF GateStep, Gate!Next
  <1>2. CASE RemoveDesired(m)
    <2>1. /\ up /\ UNCHANGED <<up, req>>
          /\ keys' = StripModel(keys, m)
          /\ desired' = desired \ {m}
      BY <1>2 DEF RemoveDesired, KeysAfterRemoval, handlers
    <2>2. /\ keys \in KeyStore /\ desired \in SUBSET Model
          /\ Rights = Held(keys, desired) /\ Offered = desired
      BY <2>1, FaultFreeUp
    <2>3. Held(StripModel(keys, m), desired \ {m}) = Held(keys, desired) \ (Key \X {m})
      BY <2>2, StripModelHeld DEF Takes
    <2>4. /\ up' /\ UNCHANGED <<up, Call>>
          /\ Offered' = Offered \ {m}
          /\ Rights' = Rights \ (Key \X {m})
      BY <2>1, <2>2, <2>3 DEF Offered, Rights, Call
    <2>5. Gate!Withdraw(m)
      BY <2>1, <2>4 DEF Gate!Withdraw
    <2> QED
      BY <2>5 DEF GateStep, Gate!Next
  <1>3. CASE RemoveDesiredCrash(m)
    <2>1. up /\ Die /\ UNCHANGED desiredDisk /\ keysDisk' = StripModel(keys, m)
      BY <1>3 DEF RemoveDesiredCrash
    <2> QED
      BY <2>1, GateStops
  <1>4. ~RemoveDesiredKeysFail(m) /\ ~RemoveDesiredModelsFail(m)
    BY NoFault DEF RemoveDesiredKeysFail, RemoveDesiredModelsFail
  <1> QED
    BY <1>1, <1>2, <1>3, <1>4

(* POST sets the rights of the new key. *)
LEMMA CreateStepGate ==
    ASSUME MaxFaults = 0, FaultFree, TypeOK', CreateStep
    PROVE  GateStep
  <1> PICK k \in Key, allowed \in SUBSET Model, ov \in Overrides :
         \/ \E stored \in BOOLEAN : CreateKey(k, allowed, ov, stored)
         \/ \E stored \in BOOLEAN : CreateKeyFail(k, allowed, ov, stored)
         \/ CreateKeyCrash(k, allowed, ov)
    BY DEF CreateStep
  <1>1. keys \in KeyStore /\ keys' \in KeyStore
    BY DEF FaultFree, TypeOK
  <1>2. ASSUME NEW stored \in BOOLEAN, CreateKey(k, allowed, ov, stored)
        PROVE  GateStep
    <2>1. /\ up /\ UNCHANGED <<up, offers, req>>
          /\ keys' = [keys EXCEPT ![k] = NewKey(allowed, ov, stored)]
      BY <1>2 DEF CreateKey, ValidCreate, Commit, handlers
    <2>2. OneKeyApart(keys, keys', k)
      BY <1>1, <2>1 DEF OneKeyApart, KeyStore
    <2> QED
      BY <1>1, <2>1, <2>2, GateSetsRights
  <1>3. ASSUME NEW stored \in BOOLEAN
        PROVE  ~CreateKeyFail(k, allowed, ov, stored)
    BY NoFault DEF CreateKeyFail
  <1>4. CASE CreateKeyCrash(k, allowed, ov)
    <2>1. up /\ Die /\ UNCHANGED <<desiredDisk, keysDisk>>
      BY <1>4 DEF CreateKeyCrash, ValidCreate
    <2> QED
      BY <2>1, GateStops
  <1> QED
    BY <1>2, <1>3, <1>4

(* Every other write of a key sets the rights of that key. *)
LEMMA KeyStepGate ==
    ASSUME MaxFaults = 0, FaultFree, TypeOK', KeyStep
    PROVE  GateStep
  <1> PICK k \in Key :
         \/ \E allowed \in (SUBSET Model) \cup {Unset}, enabled \in BOOLEAN \cup {Unset},
               ov \in Overrides \cup {Unset} : UpdateKey(k, allowed, enabled, ov)
         \/ DeleteKey(k)
         \/ DeleteKeyCrash(k)
         \/ \E m \in Model \cup {Unset} : ClearOverride(k, m)
    BY DEF KeyStep
  <1>1. keys \in KeyStore /\ keys' \in KeyStore
    BY DEF FaultFree, TypeOK
  <1>2. ~RollBack
    BY NoFault DEF RollBack
  <1>3. ASSUME NEW allowed \in (SUBSET Model) \cup {Unset},
               NEW enabled \in BOOLEAN \cup {Unset}, NEW ov \in Overrides \cup {Unset},
               UpdateKey(k, allowed, enabled, ov)
        PROVE  GateStep
    <2>1. /\ up /\ UNCHANGED <<up, offers, req>>
          /\ keys' = Patched(k, allowed, enabled, ov)
      BY <1>2, <1>3 DEF UpdateKey, Commit, handlers
    <2>2. OneKeyApart(keys, keys', k)
      BY <1>1, <2>1 DEF OneKeyApart, KeyStore, Patched
    <2> QED
      BY <1>1, <2>1, <2>2, GateSetsRights
  <1>4. CASE DeleteKey(k)
    <2>1. /\ up /\ UNCHANGED <<up, offers, req>>
          /\ keys' = [keys EXCEPT ![k] = Absent]
      BY <1>2, <1>4 DEF DeleteKey, Commit, handlers
    <2>2. OneKeyApart(keys, keys', k)
      BY <1>1, <2>1 DEF OneKeyApart, KeyStore
    <2> QED
      BY <1>1, <2>1, <2>2, GateSetsRights
  <1>5. CASE DeleteKeyCrash(k)
    <2>1. up /\ Die /\ UNCHANGED desiredDisk /\ keysDisk' = [keys EXCEPT ![k] = Absent]
      BY <1>5 DEF DeleteKeyCrash
    <2> QED
      BY <2>1, GateStops
  <1>6. ASSUME NEW m \in Model \cup {Unset}, ClearOverride(k, m)
        PROVE  GateStep
    <2> DEFINE left == Prune(keys[k].modelOverrides, Model \ (IF m = Unset THEN Model ELSE {m}))
    <2>1. /\ up /\ UNCHANGED <<up, offers, req>>
          /\ keys' = Patched(k, Unset, Unset, left)
      BY <1>2, <1>6 DEF ClearOverride, Commit, handlers
    <2> HIDE DEF left
    <2>2. OneKeyApart(keys, keys', k)
      BY <1>1, <2>1 DEF OneKeyApart, KeyStore, Patched
    <2> QED
      BY <1>1, <2>1, <2>2, GateSetsRights
  <1> QED
    BY <1>3, <1>4, <1>5, <1>6

(* An edit writes one key; its start and its end without a write show      *)
(* nothing.                                                                *)
LEMMA EditStepGate ==
    ASSUME MaxFaults = 0, FaultFree, TypeOK', EditStep
    PROVE  GateStep
  <1> PICK e \in Edit :
         \/ \E k \in Key, m \in Model \cup {Unset} : StartEdit(e, k, m)
         \/ FinishEdit(e)
         \/ AbandonEdit(e)
    BY DEF EditStep
  <1>1. keys \in KeyStore /\ keys' \in KeyStore
    BY DEF FaultFree, TypeOK
  <1>2. CASE AbandonEdit(e) \/ \E k \in Key, m \in Model \cup {Unset} : StartEdit(e, k, m)
    <2>1. up /\ up' /\ UNCHANGED <<keys, desired, req>>
      BY <1>2 DEF StartEdit, AbandonEdit, store, offers
    <2> QED
      BY <2>1, GateStutters
  <1>3. CASE FinishEdit(e)
    <2> DEFINE h == edit[e]
    <2>1. h.key \in Key
      BY <1>3 DEF FinishEdit, FaultFree, TypeOK, PendingEdit
    <2>2. PICK ov \in EditTables(h) : keys' = Patched(h.key, Unset, Unset, ov)
      BY <1>3, NoFault DEF FinishEdit, Commit, RollBack
    <2>3. up /\ UNCHANGED <<up, offers, req>>
      BY <1>3 DEF FinishEdit
    <2> HIDE DEF h
    <2>4. OneKeyApart(keys, keys', h.key)
      BY <1>1, <2>1, <2>2 DEF OneKeyApart, KeyStore, Patched
    <2> QED
      BY <1>1, <2>1, <2>3, <2>4, GateSetsRights
  <1> QED
    BY <1>2, <1>3

(* One handler moved, and with it one abstract call. *)
LEMMA CallMoves ==
    ASSUME TypeOK, NEW r \in Req, NEW q, req' = [req EXCEPT ![r] = q]
    PROVE  Call' = [Call EXCEPT ![r] = CallOf(q)]
  <1> HIDE DEF CallOf
  <1> QED
    BY DEF TypeOK, Call

(* What a handler shows in each of its phases. *)
LEMMA CallPhases ==
    /\ CallOf(Idle) = Gate!NoCall
    /\ \A k \in Key : \A rec : CallOf(Reading(k, rec)) = Gate!Open(k, rec.allowedModels)
    /\ CallOf(Reading(Passthrough, Absent)) = Gate!Open(Passthrough, Model)
    /\ \A k, m : CallOf(Sent(k, m)) = Gate!Sent(k, m)
  <1>1. CallOf(Idle) = Gate!NoCall
    BY DEF CallOf, Idle, Gate!NoCall
  <1>2. ASSUME NEW k \in Key, NEW rec
        PROVE  CallOf(Reading(k, rec)) = Gate!Open(k, rec.allowedModels)
    BY ConstantsAssumption DEF CallOf, Reading, Gate!Open
  <1>3. CallOf(Reading(Passthrough, Absent)) = Gate!Open(Passthrough, Model)
    BY DEF CallOf, Reading, Gate!Open
  <1>4. ASSUME NEW k, NEW m
        PROVE  CallOf(Sent(k, m)) = Gate!Sent(k, m)
    BY DEF CallOf, Sent, Gate!Sent
  <1> QED
    BY <1>1, <1>2, <1>3, <1>4

(* A recognised key has exactly the models of its record. *)
LEMMA RightsOfKey ==
    ASSUME FaultFree, up, NEW k \in Key, keys[k] # Absent, keys[k].enabled
    PROVE  Gate!RightsOf(k) = keys[k].allowedModels
  <1>1. /\ keys \in KeyStore /\ desired \in SUBSET Model
        /\ Grants(keys) \subseteq Key \X desired
        /\ Rights = Held(keys, desired)
    BY FaultFreeUp
  <1>2. keys[k].allowedModels \subseteq Model
    BY <1>1 DEF KeyStore, AccessKey
  <1>3. keys[k].allowedModels \subseteq desired
    <2>1. k \in Live(keys)
      BY DEF Live
    <2> QED
      BY <1>1, <2>1, ExactIsDesired
  <1>4. \A m \in Model : <<k, m>> \in Rights <=> m \in keys[k].allowedModels
    BY <1>1, <1>3, InHeld
  <1> QED
    BY <1>2, <1>4 DEF Gate!RightsOf

(* A handler that reads its body shows an open call, with the grant it     *)
(* copied; one that holds no key may use every model.                      *)
LEMMA OpenCall ==
    ASSUME TypeOK, NEW r \in Req, req[r].phase = "body"
    PROVE  /\ Call[r].st = "open"
           /\ Call[r].key = req[r].key
           /\ req[r].key = Passthrough => Call[r].may = Model
           /\ req[r].key # Passthrough => Call[r].may = req[r].grant.allowedModels
  <1>1. Call[r] = CallOf(req[r])
    BY DEF Call
  <1>2. CallOf(req[r]) = [st |-> "open", key |-> req[r].key,
                          may |-> IF req[r].key = Passthrough THEN Model
                                  ELSE req[r].grant.allowedModels]
    BY DEF CallOf
  <1> QED
    BY <1>1, <1>2

(* The data plane: a call is bound by the rights the key had when it was   *)
(* recognised and by what is on offer when it is sent.                     *)
LEMMA RequestStepGate ==
    ASSUME MaxFaults = 0, FaultFree, RequestStep
    PROVE  GateStep
  <1> PICK r \in Req :
         \/ \E k \in Key : Authenticate(r, k)
         \/ AcceptPassthrough(r)
         \/ \E name \in Model \cup Alias : Forward(r, name)
         \/ EndRequest(r)
    BY DEF RequestStep
  <1>0. TypeOK
    BY DEF FaultFree
  <1>1. up /\ up' /\ UNCHANGED <<up, keys, desired>>
    BY DEF Authenticate, AcceptPassthrough, Forward, EndRequest, store, offers
  <1>2. UNCHANGED <<up, Offered, Rights>>
    BY <1>1 DEF Offered, Rights
  <1>3. req[r] = Idle => Call[r] = Gate!NoCall
    BY CallPhases DEF Call
  <1>4. ASSUME NEW k \in Key, Authenticate(r, k)
        PROVE  GateStep
    <2>1. /\ req[r] = Idle /\ keys[k] # Absent /\ keys[k].enabled
          /\ req' = [req EXCEPT ![r] = Reading(k, keys[k])]
      BY <1>4 DEF Authenticate
    <2>2. Call' = [Call EXCEPT ![r] = CallOf(Reading(k, keys[k]))]
      BY <1>0, <2>1, CallMoves
    <2>3. CallOf(Reading(k, keys[k])) = Gate!Open(k, keys[k].allowedModels)
      BY CallPhases
    <2>4. Gate!RightsOf(k) = keys[k].allowedModels
      BY <1>1, <2>1, RightsOfKey
    <2>5. Gate!Recognise(r, k)
      BY <1>1, <1>2, <1>3, <2>1, <2>2, <2>3, <2>4 DEF Gate!Recognise
    <2> QED
      BY <2>5 DEF GateStep, Gate!Next
  <1>5. CASE AcceptPassthrough(r)
    <2>1. req[r] = Idle /\ req' = [req EXCEPT ![r] = Reading(Passthrough, Absent)]
      BY <1>5 DEF AcceptPassthrough
    <2>2. Call' = [Call EXCEPT ![r] = CallOf(Reading(Passthrough, Absent))]
      BY <1>0, <2>1, CallMoves
    <2>3. Gate!Admit(r)
      BY <1>1, <1>2, <1>3, <2>1, <2>2, CallPhases DEF Gate!Admit
    <2> QED
      BY <2>3 DEF GateStep, Gate!Next
  <1>6. ASSUME NEW name \in Model \cup Alias, Forward(r, name)
        PROVE  GateStep
    <2> DEFINE m == Remap(name)
               h == req[r]
    <2>1. m \in Model
      BY ConstantsAssumption DEF Remap
    <2>2. /\ h.phase = "body"
          /\ h.key # Passthrough => m \in desired /\ m \in h.grant.allowedModels
          /\ req' = [req EXCEPT ![r] = Sent(h.key, m)]
      BY <1>6 DEF Forward, Authorized
    <2> HIDE DEF m
    <2>3. /\ Call[r].st = "open" /\ Call[r].key = h.key
          /\ h.key = Passthrough => Call[r].may = Model
          /\ h.key # Passthrough => Call[r].may = h.grant.allowedModels
      BY <1>0, <2>2, OpenCall
    <2>4. Call' = [Call EXCEPT ![r] = CallOf(Sent(h.key, m))]
      BY <1>0, <2>2, CallMoves
    <2>5. CallOf(Sent(h.key, m)) = Gate!Sent(h.key, m)
      BY CallPhases
    <2>6. Offered = desired
      BY <1>1 DEF Offered
    <2>7. Gate!Send(r, m)
      BY <1>1, <1>2, <2>1, <2>2, <2>3, <2>4, <2>5, <2>6 DEF Gate!Send
    <2> QED
      BY <2>1, <2>7 DEF GateStep, Gate!Next
  <1>7. CASE EndRequest(r)
    <2>1. req' = [req EXCEPT ![r] = Idle]
      BY <1>7 DEF EndRequest
    <2>2. Call' = [Call EXCEPT ![r] = CallOf(Idle)]
      BY <1>0, <2>1, CallMoves
    <2>3. Gate!Finish(r)
      BY <1>1, <1>2, <2>2, CallPhases DEF Gate!Finish
    <2> QED
      BY <2>3 DEF GateStep, Gate!Next
  <1> QED
    BY <1>4, <1>5, <1>6, <1>7

(* The usage timer writes what is in the file already, a crash leaves the  *)
(* rights to the files, and a restart takes them up again.                 *)
LEMMA ProcessStepGate ==
    ASSUME MaxFaults = 0, FaultFree, ProcessStep
    PROVE  GateStep
  <1>1. CASE UsageTimerFires
    <2>1. up /\ up' /\ UNCHANGED <<keys, desired, req>>
      BY <1>1 DEF UsageTimerFires, offers, handlers
    <2> QED
      BY <2>1, GateStutters
  <1>2. ~UsageTimerFails
    BY NoFault DEF UsageTimerFails
  <1>3. CASE Crash
    <2>1. up /\ Die /\ UNCHANGED <<desiredDisk, keysDisk>>
      BY <1>3 DEF Crash
    <2> QED
      BY <2>1, GateStops
  <1>4. ASSUME NEW keysReadable \in BOOLEAN, NEW modelsReadable \in BOOLEAN,
               Restart(keysReadable, modelsReadable)
        PROVE  GateStep
    <2>1. keysReadable /\ modelsReadable
      BY <1>4 DEF Restart, FaultFree
    <2>2. LoadKeys(keysDisk) = keysDisk
      BY LoadKeysSame DEF FaultFree, AccessInv, TypeOK
    <2>3. /\ ~up /\ up'
          /\ keys' = keysDisk /\ desired' = desiredDisk
          /\ UNCHANGED <<keysDisk, desiredDisk, req>>
      BY <1>4, <2>1, <2>2 DEF Restart, handlers
    <2>4. up' = TRUE
      BY <1>4 DEF Restart
    <2>5. UNCHANGED <<Offered, Rights, Call>>
      BY <2>3 DEF Offered, Rights, Call
    <2>6. Gate!Start
      BY <2>3, <2>4, <2>5 DEF Gate!Start
    <2> QED
      BY <2>6 DEF GateStep, Gate!Next
  <1> QED
    BY <1>1, <1>2, <1>3, <1>4 DEF ProcessStep

(* Every step of the gateway is a step of the abstract gate or a stutter.  *)
LEMMA StepImplementsGate ==
    ASSUME MaxFaults = 0, TypeOK, AccessInv, GrantInv, TypeOK', [Next]_vars
    PROVE  [Gate!Next]_(Gate!vars)
  <1>1. FaultFree
    BY DEF FaultFree, TypeOK
  <1>2. CASE UNCHANGED vars
    BY <1>2 DEF vars, store, offers, handlers, Gate!vars, Offered, Rights, Call
  <1>3. CASE Next
    <2>1. GateStep
      BY <1>1, <1>3, DesiredStepGate, CreateStepGate, KeyStepGate, EditStepGate,
         RequestStepGate, ProcessStepGate DEF Next
    <2> QED
      BY <2>1 DEF GateStep, Gate!vars
  <1> QED
    BY <1>2, <1>3

(* Where no write fails and no file is unreadable, the stores, the files,  *)
(* the handlers and every crash and restart together implement the abstract*)
(* gate: only the operator changes rights, one key or one model at a time; *)
(* a crash adds none, a restart neither adds nor takes any; and a call is  *)
(* sent only under a right its key had when it was recognised.             *)
THEOREM AccessControlImplementsGate ==
    ASSUME MaxFaults = 0
    PROVE  Spec => ImplementsGate
  <1>1. TypeOK /\ AccessInv /\ GrantInv /\ TypeOK' /\ [Next]_vars => [Gate!Next]_(Gate!vars)
    BY StepImplementsGate
  <1> QED
    BY <1>1, GateInit, TypeCorrect, AccessInvariant, GrantInvariant, PTL
    DEF Spec, ImplementsGate, Gate!Spec
=============================================================================
