------------------------- MODULE AccessControlProofs -------------------------
(***************************************************************************)
(* What TLAPS proves of AccessControl, for every set of keys, models,      *)
(* overrides, requests and edits and every number of faults.               *)
(***************************************************************************)
EXTENDS AccessControl, TLAPS

(* The marker of a missing record is not a record. *)
LEMMA AbsentIsNoKey == Absent \notin AccessKey
  BY ConstantsAssumption DEF AccessKey, Overrides

-----------------------------------------------------------------------------
(***************************************************************************)
(* The operators the handlers are built from.                              *)
(***************************************************************************)

(* Pruning keeps a table well-formed and only leaves allowed sources. *)
LEMMA PruneType ==
    ASSUME NEW ov \in Overrides, NEW S
    PROVE  /\ Prune(ov, S) \in Overrides
           /\ Sources(Prune(ov, S)) \subseteq S
  BY DEF Prune, Overrides, Sources

(* A table of NoOverride entries is well-formed and has no source. *)
LEMMA NoOverridesType ==
    NoOverrides \in Overrides /\ Sources(NoOverrides) = {}
  BY DEF NoOverrides, Overrides, Sources

(* Withdrawing a model leaves a store of well-formed keys. *)
LEMMA StripModelType ==
    ASSUME NEW s \in KeyStore, NEW m
    PROVE  StripModel(s, m) \in KeyStore
  <1> SUFFICES ASSUME NEW k \in Key, s[k] # Absent
               PROVE  WithoutModel(s[k], m) \in AccessKey
    BY DEF StripModel, KeyStore
  <1>1. s[k] \in AccessKey
    BY DEF KeyStore
  <1>2. Prune(s[k].modelOverrides, s[k].allowedModels \ {m}) \in Overrides
    BY <1>1, PruneType DEF AccessKey
  <1> QED
    BY <1>1, <1>2 DEF WithoutModel, AccessKey

(* Reading the file back gives a store of well-formed keys. *)
LEMMA LoadKeysType ==
    ASSUME NEW s \in KeyStore
    PROVE  LoadKeys(s) \in KeyStore
  <1> SUFFICES ASSUME NEW k \in Key, s[k] # Absent
               PROVE  [s[k] EXCEPT !.modelOverrides = Prune(@, s[k].allowedModels)] \in AccessKey
    BY DEF LoadKeys, KeyStore
  <1>1. s[k] \in AccessKey
    BY DEF KeyStore
  <1>2. Prune(s[k].modelOverrides, s[k].allowedModels) \in Overrides
    BY <1>1, PruneType DEF AccessKey
  <1> QED
    BY <1>1, <1>2 DEF AccessKey

(* A new record is well-formed. *)
LEMMA NewKeyType ==
    ASSUME NEW allowed \in SUBSET Model, NEW ov \in Overrides, NEW stored \in BOOLEAN
    PROVE  NewKey(allowed, ov, stored) \in AccessKey
  BY DEF NewKey, AccessKey

(* An update that does not throw leaves a store of well-formed keys. *)
LEMMA PatchedType ==
    ASSUME TypeOK, NEW k \in Key, keys[k] # Absent,
           NEW allowed \in (SUBSET Model) \cup {Unset},
           NEW enabled \in BOOLEAN \cup {Unset},
           NEW ov \in Overrides \cup {Unset}
    PROVE  Patched(k, allowed, enabled, ov) \in KeyStore
  <1> DEFINE grant == Value(allowed, keys[k].allowedModels)
  <1>1. keys \in KeyStore /\ keys[k] \in AccessKey
    BY DEF TypeOK, KeyStore
  <1>2. grant \in SUBSET Model
    BY <1>1 DEF Value, AccessKey
  <1>3. Value(enabled, keys[k].enabled) \in BOOLEAN
    BY <1>1 DEF Value, AccessKey
  <1>4. (IF ov = Unset THEN Prune(keys[k].modelOverrides, grant) ELSE ov) \in Overrides
    BY <1>1, PruneType DEF AccessKey
  <1> HIDE DEF grant
  <1>5. [keys[k] EXCEPT !.allowedModels = grant,
                        !.enabled = Value(enabled, keys[k].enabled),
                        !.modelOverrides = IF ov = Unset
                                           THEN Prune(keys[k].modelOverrides, grant)
                                           ELSE ov] \in AccessKey
    BY <1>1, <1>2, <1>3, <1>4 DEF AccessKey
  <1>6. Patched(k, allowed, enabled, ov) =
          [keys EXCEPT ![k] =
             [keys[k] EXCEPT !.allowedModels = grant,
                             !.enabled = Value(enabled, keys[k].enabled),
                             !.modelOverrides = IF ov = Unset
                                                THEN Prune(keys[k].modelOverrides, grant)
                                                ELSE ov]]
    BY <1>1 DEF Patched, grant, KeyStore, AccessKey
  <1> QED
    BY <1>1, <1>5, <1>6 DEF KeyStore

-----------------------------------------------------------------------------
(***************************************************************************)
(* Type correctness.                                                       *)
(***************************************************************************)

(* A dead process holds nothing but what is on disk. *)
LEMMA DieType ==
    ASSUME Die
    PROVE  /\ up' \in BOOLEAN
           /\ keys' \in KeyStore
           /\ desired' \in SUBSET Model
           /\ usageTimer' \in BOOLEAN
           /\ req' \in [Req -> Request]
           /\ edit' \in [Edit -> PendingEdit]
  BY DEF Die, NoKeys, KeyStore, Request, PendingEdit

(* The fault counter stays within its bound. *)
LEMMA FaultType ==
    ASSUME faults \in 0 .. MaxFaults, Fault
    PROVE  faults' \in 0 .. MaxFaults
  BY ConstantsAssumption DEF Fault

(* The promise about overrides stays well-formed. *)
LEMMA AnsweredType ==
    ASSUME TypeOK, NEW k \in Key, NEW touched \in SUBSET Model,
           NEW ov \in Overrides, NEW pending \in BOOLEAN,
           Answered(k, touched, ov, pending)
    PROVE  /\ expected' \in [Key -> Overrides]
           /\ unsettled' \in SUBSET (Key \X Model)
  <1>1. expected \in [Key -> Overrides] /\ unsettled \in SUBSET (Key \X Model)
    BY DEF TypeOK
  <1>2. [m \in Model |-> IF m \in touched THEN ov[m] ELSE expected[k][m]] \in Overrides
    BY <1>1 DEF Overrides
  <1>3. expected' = [expected EXCEPT ![k] =
                       [m \in Model |-> IF m \in touched THEN ov[m] ELSE expected[k][m]]]
    BY DEF Answered
  <1>4. expected' \in [Key -> Overrides]
    BY <1>1, <1>2, <1>3
  <1>5. unsettled' \in SUBSET (Key \X Model)
    BY <1>1 DEF Answered
  <1> QED
    BY <1>4, <1>5

(* Forgetting a model keeps the expectation tables well-formed. *)
LEMMA ForgetModelType ==
    ASSUME TypeOK, NEW m \in Model, NEW open \in SUBSET Key, ForgetModel(m, open)
    PROVE  /\ expected' \in [Key -> Overrides]
           /\ unsettled' \in SUBSET (Key \X Model)
  <1>1. expected \in [Key -> Overrides] /\ unsettled \in SUBSET (Key \X Model)
    BY DEF TypeOK
  <1>2. \A k \in Key : expected[k] \in Overrides /\ Prune(expected[k], Model \ {m}) \in Overrides
    BY <1>1, PruneType
  <1> QED
    BY <1>1, <1>2 DEF ForgetModel, Stripped, Live

(* Each of the handlers of /api/desired-models keeps the types. *)
LEMMA DesiredStepType ==
    ASSUME TypeOK, DesiredStep
    PROVE  TypeOK'
  <1> SUFFICES ASSUME NEW m \in Model,
                      \/ AddDesired(m)
                      \/ RemoveDesired(m)
                      \/ RemoveDesiredKeysFail(m)
                      \/ RemoveDesiredModelsFail(m)
                      \/ RemoveDesiredCrash(m)
               PROVE  TypeOK'
    BY DEF DesiredStep
  <1>1. StripModel(keys, m) \in KeyStore
    BY StripModelType DEF TypeOK
  <1>0. Stripped(m) \in SUBSET Key /\ StrippedInEdit(m) \in SUBSET Key /\ {} \in SUBSET Key
    BY DEF Stripped, StrippedInEdit, Live
  <1>2. CASE AddDesired(m)
    BY <1>2, FaultType DEF AddDesired, TypeOK, store, handlers, writes
  <1>3. CASE RemoveDesired(m)
    <2>1. ForgetModel(m, StrippedInEdit(m)) /\ KeysAfterRemoval(m)
      BY <1>3 DEF RemoveDesired
    <2>2. keys' \in KeyStore /\ keysDisk' \in KeyStore
      BY <1>1, <2>1 DEF KeysAfterRemoval, TypeOK
    <2> QED
      BY <1>0, <1>3, <2>1, <2>2, ForgetModelType DEF RemoveDesired, TypeOK, handlers
  <1>4. CASE RemoveDesiredKeysFail(m)
    <2>1. ForgetModel(m, Stripped(m)) /\ Fault /\ keys' = StripModel(keys, m)
      BY <1>4 DEF RemoveDesiredKeysFail
    <2> QED
      BY <1>0, <1>1, <1>4, <2>1, ForgetModelType, FaultType
      DEF RemoveDesiredKeysFail, TypeOK, handlers, offers, promises
  <1>5. CASE RemoveDesiredModelsFail(m)
    <2>1. ForgetModel(m, StrippedInEdit(m)) /\ KeysAfterRemoval(m) /\ Fault
      BY <1>5 DEF RemoveDesiredModelsFail
    <2>2. keys' \in KeyStore /\ keysDisk' \in KeyStore
      BY <1>1, <2>1 DEF KeysAfterRemoval, TypeOK
    <2> QED
      BY <1>0, <1>5, <2>1, <2>2, ForgetModelType, FaultType
      DEF RemoveDesiredModelsFail, TypeOK, handlers, promises
  <1>6. CASE RemoveDesiredCrash(m)
    <2>1. Die /\ ForgetModel(m, {})
      BY <1>6 DEF RemoveDesiredCrash
    <2> QED
      BY <1>0, <1>1, <1>6, <2>1, DieType, ForgetModelType DEF RemoveDesiredCrash, TypeOK, promises
  <1> QED
    BY <1>2, <1>3, <1>4, <1>5, <1>6

(* POST /api/access-keys keeps the types, whatever becomes of it. *)
LEMMA CreateStepType ==
    ASSUME TypeOK, CreateStep
    PROVE  TypeOK'
  <1> SUFFICES ASSUME NEW k \in Key, NEW allowed \in SUBSET Model, NEW ov \in Overrides,
                      \/ \E stored \in BOOLEAN : CreateKey(k, allowed, ov, stored)
                      \/ \E stored \in BOOLEAN : CreateKeyFail(k, allowed, ov, stored)
                      \/ CreateKeyCrash(k, allowed, ov)
               PROVE  TypeOK'
    BY DEF CreateStep
  <1>1. ASSUME NEW stored \in BOOLEAN, CreateKey(k, allowed, ov, stored)
        PROVE  TypeOK'
    <2>1. [keys EXCEPT ![k] = NewKey(allowed, ov, stored)] \in KeyStore
      BY NewKeyType DEF TypeOK, KeyStore
    <2>2. Answered(k, Model, ov, FALSE)
      BY <1>1 DEF CreateKey
    <2>3. /\ expected' \in [Key -> Overrides]
          /\ unsettled' \in SUBSET (Key \X Model)
      BY <2>2, AnsweredType
    <2> QED
      BY <1>1, <2>1, <2>3 DEF CreateKey, Commit, TypeOK, offers, handlers
  <1>2. ASSUME NEW stored \in BOOLEAN, CreateKeyFail(k, allowed, ov, stored)
        PROVE  TypeOK'
    BY <1>2, FaultType
    DEF CreateKeyFail, TypeOK, store, offers, handlers, promises, writes
  <1>3. CASE CreateKeyCrash(k, allowed, ov)
    <2>1. Die
      BY <1>3 DEF CreateKeyCrash
    <2> QED
      BY <1>3, <2>1, DieType DEF CreateKeyCrash, TypeOK, promises, writes
  <1> QED
    BY <1>1, <1>2, <1>3

(* PUT, DELETE and override deletion on one key keep the types. *)
LEMMA KeyStepType ==
    ASSUME TypeOK, KeyStep
    PROVE  TypeOK'
  <1> SUFFICES ASSUME NEW k \in Key,
                      \/ \E allowed \in (SUBSET Model) \cup {Unset}, enabled \in BOOLEAN \cup {Unset},
                            ov \in Overrides \cup {Unset} : UpdateKey(k, allowed, enabled, ov)
                      \/ DeleteKey(k)
                      \/ DeleteKeyCrash(k)
                      \/ \E m \in Model \cup {Unset} : ClearOverride(k, m)
               PROVE  TypeOK'
    BY DEF KeyStep
  <1>a. [keys EXCEPT ![k] = Absent] \in KeyStore
    BY DEF TypeOK, KeyStore
  <1>b. \A self : EditPending(k, self) \in BOOLEAN
    BY DEF EditPending
  <1>1. ASSUME NEW allowed \in (SUBSET Model) \cup {Unset}, NEW enabled \in BOOLEAN \cup {Unset},
               NEW ov \in Overrides \cup {Unset}, UpdateKey(k, allowed, enabled, ov)
        PROVE  TypeOK'
    <2> DEFINE next == Patched(k, allowed, enabled, ov)
    <2>1. keys[k] # Absent
      BY <1>1 DEF UpdateKey, ValidPatch
    <2>2. next \in KeyStore
      BY <2>1, PatchedType
    <2>3. next[k] \in AccessKey
      <3> DEFINE grant == Value(allowed, keys[k].allowedModels)
      <3>1. keys[k] \in AccessKey /\ keys \in KeyStore
        BY <2>1 DEF TypeOK, KeyStore
      <3>2. grant \in SUBSET Model
        BY <3>1 DEF Value, AccessKey
      <3>3. (IF ov = Unset THEN Prune(keys[k].modelOverrides, grant) ELSE ov) \in Overrides
        BY <3>1, PruneType DEF AccessKey
      <3> HIDE DEF grant
      <3> QED
        BY <3>1, <3>2, <3>3 DEF Patched, Value, KeyStore, AccessKey, grant
    <2> HIDE DEF next
    <2>4. CASE RollBack
      BY <1>1, <2>4, FaultType
      DEF RollBack, UpdateKey, TypeOK, store, offers, handlers, history, promises, writes
    <2>5. CASE /\ Commit(next)
               /\ withdrawn' = IF allowed = Unset THEN withdrawn
                               ELSE withdrawn \ ({k} \X allowed)
               /\ Answered(k, IF ov = Unset THEN Model \ next[k].allowedModels ELSE Model,
                           next[k].modelOverrides, EditPending(k, {}))
               /\ UNCHANGED <<vault, used, deleted, closed>>
      <3>1. /\ expected' \in [Key -> Overrides]
            /\ unsettled' \in SUBSET (Key \X Model)
        <4>1. (IF ov = Unset THEN Model \ next[k].allowedModels ELSE Model) \in SUBSET Model
          OBVIOUS
        <4>2. next[k].modelOverrides \in Overrides
          BY <2>3 DEF AccessKey
        <4> QED
          BY <1>b, <2>5, <4>1, <4>2, AnsweredType
      <3> QED
        BY <1>1, <2>2, <2>5, <3>1 DEF UpdateKey, Commit, TypeOK, offers, handlers
    <2> QED
      BY <1>1, <2>4, <2>5 DEF UpdateKey, next
  <1>2. CASE DeleteKey(k)
    <2>1. CASE RollBack
      BY <1>2, <2>1, FaultType
      DEF RollBack, DeleteKey, TypeOK, store, offers, handlers, history, promises, writes
    <2>2. CASE ~RollBack
      BY <1>a, <1>2, <2>2 DEF DeleteKey, Commit, TypeOK, offers, handlers, writes
    <2> QED
      BY <2>1, <2>2
  <1>3. CASE DeleteKeyCrash(k)
    <2>1. Die
      BY <1>3 DEF DeleteKeyCrash
    <2> QED
      BY <1>a, <1>3, <2>1, DieType DEF DeleteKeyCrash, TypeOK, history, promises, writes
  <1>4. ASSUME NEW m \in Model \cup {Unset}, ClearOverride(k, m)
        PROVE  TypeOK'
    <2> DEFINE gone == IF m = Unset THEN Model ELSE {m}
               left == Prune(keys[k].modelOverrides, Model \ gone)
    <2>1. keys[k] \in AccessKey
      BY <1>4 DEF ClearOverride, TypeOK, KeyStore
    <2>2. left \in Overrides
      BY <2>1, PruneType DEF AccessKey
    <2>3. gone \in SUBSET Model
      OBVIOUS
    <2> HIDE DEF gone, left
    <2>4. Patched(k, Unset, Unset, left) \in KeyStore
      BY <1>4, <2>2, PatchedType DEF ClearOverride
    <2>5. CASE RollBack
      BY <1>4, <2>5, FaultType
      DEF RollBack, ClearOverride, TypeOK, store, offers, handlers, history, promises, writes
    <2>6. CASE /\ Commit(Patched(k, Unset, Unset, left))
               /\ Answered(k, gone, NoOverrides, EditPending(k, {}))
               /\ UNCHANGED <<vault, used, promises>>
      <3>1. /\ expected' \in [Key -> Overrides]
            /\ unsettled' \in SUBSET (Key \X Model)
        BY <1>b, <2>3, <2>6, AnsweredType, NoOverridesType
      <3> QED
        BY <1>4, <2>4, <2>6, <3>1 DEF ClearOverride, Commit, TypeOK, offers, handlers, promises
    <2> QED
      BY <1>4, <2>5, <2>6 DEF ClearOverride, gone, left
  <1> QED
    BY <1>1, <1>2, <1>3, <1>4

(* The override edits keep the types. *)
LEMMA EditStepType ==
    ASSUME TypeOK, EditStep
    PROVE  TypeOK'
  <1> SUFFICES ASSUME NEW e \in Edit,
                      \/ \E k \in Key, m \in Model \cup {Unset} : StartEdit(e, k, m)
                      \/ FinishEdit(e)
                      \/ AbandonEdit(e)
               PROVE  TypeOK'
    BY DEF EditStep
  <1>a. [edit EXCEPT ![e] = Idle] \in [Edit -> PendingEdit]
    BY DEF TypeOK, PendingEdit
  <1>1. ASSUME NEW k \in Key, NEW m \in Model \cup {Unset}, StartEdit(e, k, m)
        PROVE  TypeOK'
    <2>1. keys[k] \in AccessKey
      BY <1>1 DEF StartEdit, TypeOK, KeyStore
    <2>2. [phase |-> "body", key |-> k, model |-> m, was |-> keys[k]] \in PendingEdit
      BY <2>1 DEF PendingEdit
    <2>3. edit' \in [Edit -> PendingEdit]
      BY <1>1, <2>2 DEF StartEdit, TypeOK
    <2> QED
      BY <1>1, <2>3 DEF StartEdit, TypeOK, store, offers, history, promises, writes
  <1>2. CASE FinishEdit(e)
    <2> DEFINE h == edit[e]
    <2>1. /\ h.key \in Key
          /\ h.model \in Model \cup {Unset}
          /\ h.was \in AccessKey
      BY <1>2 DEF FinishEdit, TypeOK, PendingEdit
    <2> HIDE DEF h
    <2>2. PICK ov \in EditTables(h) :
             /\ ValidPatch(h.key, Unset, ov)
             /\ \/ /\ Commit(Patched(h.key, Unset, Unset, ov))
                   /\ Answered(h.key, IF h.model = Unset THEN Model ELSE {h.model},
                               ov, EditPending(h.key, {e}))
                   /\ UNCHANGED <<vault, used, promises>>
                \/ RollBack
      BY <1>2 DEF FinishEdit, h
    <2>3. ov \in Overrides
      BY <2>1, <2>2 DEF EditTables, AccessKey, Overrides
    <2>4. Patched(h.key, Unset, Unset, ov) \in KeyStore
      BY <2>1, <2>2, <2>3, PatchedType DEF ValidPatch
    <2>5. CASE RollBack
      BY <1>a, <1>2, <2>5, FaultType
      DEF RollBack, FinishEdit, TypeOK, store, offers, history, promises, writes
    <2>6. CASE /\ Commit(Patched(h.key, Unset, Unset, ov))
               /\ Answered(h.key, IF h.model = Unset THEN Model ELSE {h.model},
                           ov, EditPending(h.key, {e}))
               /\ UNCHANGED <<vault, used, promises>>
      <3>1. EditPending(h.key, {e}) \in BOOLEAN
        BY DEF EditPending
      <3>2. (IF h.model = Unset THEN Model ELSE {h.model}) \in SUBSET Model
        BY <2>1
      <3>3. /\ expected' \in [Key -> Overrides]
            /\ unsettled' \in SUBSET (Key \X Model)
        BY <2>1, <2>3, <2>6, <3>1, <3>2, AnsweredType
      <3> QED
        BY <1>a, <1>2, <2>4, <2>6, <3>3 DEF FinishEdit, Commit, TypeOK, offers, promises
    <2> QED
      BY <2>2, <2>5, <2>6
  <1>3. CASE AbandonEdit(e)
    BY <1>a, <1>3 DEF AbandonEdit, TypeOK, store, offers, history, promises, writes
  <1> QED
    BY <1>1, <1>2, <1>3

(* The data plane keeps the types. *)
LEMMA RequestStepType ==
    ASSUME TypeOK, RequestStep
    PROVE  TypeOK'
  <1> SUFFICES ASSUME NEW r \in Req,
                      \/ \E k \in Key : Authenticate(r, k)
                      \/ AcceptPassthrough(r)
                      \/ \E name \in Model \cup Alias : Forward(r, name)
                      \/ EndRequest(r)
               PROVE  TypeOK'
    BY DEF RequestStep
  <1>1. ASSUME NEW k \in Key, Authenticate(r, k)
        PROVE  TypeOK'
    <2>1. Reading(k, keys[k]) \in Request
      BY <1>1 DEF Authenticate, TypeOK, KeyStore, Reading, Request
    <2>2. req' \in [Req -> Request]
      BY <1>1, <2>1 DEF Authenticate, TypeOK
    <2> QED
      BY <1>1, <2>2 DEF Authenticate, TypeOK, store, offers, history, promises, writes
  <1>2. CASE AcceptPassthrough(r)
    <2>1. Reading(Passthrough, Absent) \in Request
      BY DEF Reading, Request
    <2>2. req' \in [Req -> Request]
      BY <1>2, <2>1 DEF AcceptPassthrough, TypeOK
    <2> QED
      BY <1>2, <2>2 DEF AcceptPassthrough, TypeOK, store, offers, history, promises, writes
  <1>3. ASSUME NEW name \in Model \cup Alias, Forward(r, name)
        PROVE  TypeOK'
    <2>1. Remap(name) \in Model
      BY ConstantsAssumption DEF Remap
    <2>2. req[r].key \in Key \cup {Passthrough}
      BY <1>3 DEF Forward, TypeOK, Request, Idle
    <2>3. Sent(req[r].key, Remap(name)) \in Request
      BY <2>1, <2>2 DEF Sent, Request
    <2>4. req' \in [Req -> Request]
      BY <1>3, <2>3 DEF Forward, TypeOK
    <2> QED
      BY <1>3, <2>4 DEF Forward, TypeOK, store, offers, history, promises, writes
  <1>4. CASE EndRequest(r)
    <2>1. req' \in [Req -> Request]
      BY <1>4 DEF EndRequest, TypeOK, Request
    <2> QED
      BY <1>4, <2>1 DEF EndRequest, TypeOK, store, offers, history, promises, writes
  <1> QED
    BY <1>1, <1>2, <1>3, <1>4

(* The usage timer, crashes and restarts keep the types. *)
LEMMA ProcessStepType ==
    ASSUME TypeOK, ProcessStep
    PROVE  TypeOK'
  <1>1. CASE UsageTimerFires
    BY <1>1 DEF UsageTimerFires, TypeOK, offers, handlers, history, promises, writes
  <1>2. CASE UsageTimerFails
    <2>1. Die /\ Fault
      BY <1>2 DEF UsageTimerFails
    <2> QED
      BY <1>2, <2>1, DieType, FaultType DEF UsageTimerFails, TypeOK, history, promises, writes
  <1>3. CASE Crash
    <2>1. Die
      BY <1>3 DEF Crash
    <2> QED
      BY <1>3, <2>1, DieType DEF Crash, TypeOK, history, promises, writes
  <1>4. ASSUME NEW keysReadable \in BOOLEAN, NEW modelsReadable \in BOOLEAN,
               Restart(keysReadable, modelsReadable)
        PROVE  TypeOK'
    <2>1. keys' \in KeyStore
      BY <1>4, LoadKeysType DEF Restart, TypeOK, NoKeys, KeyStore
    <2>2. faults' \in 0 .. MaxFaults
      BY <1>4, ConstantsAssumption DEF Restart, TypeOK
    <2> QED
      BY <1>4, <2>1, <2>2 DEF Restart, TypeOK, handlers, history, promises, writes
  <1> QED
    BY <1>1, <1>2, <1>3, <1>4 DEF ProcessStep

(* The state of a first start is well-typed. *)
LEMMA InitType == Init => TypeOK
  <1> SUFFICES ASSUME Init
               PROVE  TypeOK
    OBVIOUS
  <1>1. keys \in KeyStore /\ keysDisk \in KeyStore
    BY DEF Init, NoKeys, KeyStore
  <1>2. req \in [Req -> Request] /\ edit \in [Edit -> PendingEdit]
    BY DEF Init, Request, PendingEdit
  <1>3. expected \in [Key -> Overrides]
    BY NoOverridesType DEF Init
  <1>4. faults \in 0 .. MaxFaults
    BY ConstantsAssumption DEF Init
  <1> QED
    BY <1>1, <1>2, <1>3, <1>4 DEF Init, TypeOK

(* Stores, handlers and history only ever hold values of their types. *)
THEOREM TypeCorrect == Spec => []TypeOK
  <1>1. TypeOK /\ [Next]_vars => TypeOK'
    <2> SUFFICES ASSUME TypeOK, [Next]_vars
                 PROVE  TypeOK'
      OBVIOUS
    <2>1. CASE UNCHANGED vars
      BY <2>1 DEF vars, TypeOK, store, offers, handlers, history, promises, writes
    <2> QED
      BY <2>1, DesiredStepType, CreateStepType, KeyStepType, EditStepType,
         RequestStepType, ProcessStepType DEF Next
  <1> QED
    BY <1>1, InitType, PTL DEF Spec

-----------------------------------------------------------------------------
(***************************************************************************)
(* Safety of the key store.  None of the four invariants is inductive by   *)
(* itself: nothing in DeletedStaysDeleted says that POST cannot hand out a *)
(* deleted id again, and a stripped key that was only changed in memory    *)
(* may be written to the file later by another call.  Good says what every *)
(* record on either side satisfies: its id was generated and not deleted   *)
(* since (ids), its overrides are covered by its grant, and its secret is  *)
(* in the OS store (secrets) when the record says so.                      *)
(***************************************************************************)
Good(s, ids, secrets) ==
    \A k \in Live(s) :
        /\ k \in ids
        /\ Sources(s[k].modelOverrides) \subseteq s[k].allowedModels
        /\ s[k].secretStorage = "secure-store" => k \in secrets

Within(s, t) ==
    \A k \in Live(s) :
        /\ t[k] # Absent
        /\ s[k].allowedModels \subseteq t[k].allowedModels
        /\ s[k].enabled = t[k].enabled

AccessInv ==
    /\ TypeOK
    /\ deleted \subseteq used
    /\ Good(keys, used \ deleted, vault)
    /\ Good(keysDisk, used \ deleted, vault)
    /\ Within(keys, keysDisk)

(* New ids and new secrets leave good records good. *)
LEMMA GoodMonotone ==
    ASSUME NEW s, NEW ids, NEW ids2, NEW secrets, NEW secrets2,
           Good(s, ids, secrets), ids \subseteq ids2, secrets \subseteq secrets2
    PROVE  Good(s, ids2, secrets2)
  BY DEF Good

(* An empty store is good and within every other. *)
LEMMA NoKeysSafe ==
    ASSUME NEW ids, NEW secrets, NEW t
    PROVE  Good(NoKeys, ids, secrets) /\ Within(NoKeys, t)
  BY DEF Good, Within, Live, NoKeys

(* Withdrawing a model takes grants and their overrides, never adds one. *)
LEMMA StripModelSafe ==
    ASSUME NEW s \in KeyStore, NEW m \in Model, NEW ids, NEW secrets,
           Good(s, ids, secrets)
    PROVE  /\ Good(StripModel(s, m), ids, secrets)
           /\ Within(StripModel(s, m), s)
  <1>1. ASSUME NEW k \in Key, s[k] # Absent
        PROVE  /\ StripModel(s, m)[k] = WithoutModel(s[k], m)
               /\ WithoutModel(s[k], m).allowedModels = s[k].allowedModels \ {m}
               /\ WithoutModel(s[k], m).enabled = s[k].enabled
               /\ WithoutModel(s[k], m).secretStorage = s[k].secretStorage
               /\ Sources(WithoutModel(s[k], m).modelOverrides) \subseteq s[k].allowedModels \ {m}
    <2>1. s[k] \in AccessKey
      BY <1>1 DEF KeyStore
    <2>2. Sources(Prune(s[k].modelOverrides, s[k].allowedModels \ {m}))
            \subseteq s[k].allowedModels \ {m}
      BY <2>1, PruneType DEF AccessKey
    <2> QED
      BY <1>1, <2>1, <2>2 DEF StripModel, WithoutModel, AccessKey
  <1>2. Live(StripModel(s, m)) \subseteq Live(s)
    BY DEF Live, StripModel
  <1> QED
    BY <1>1, <1>2 DEF Good, Within, Live

(* Reading the file back drops overrides at most. *)
LEMMA LoadKeysSafe ==
    ASSUME NEW s \in KeyStore, NEW ids, NEW secrets, Good(s, ids, secrets)
    PROVE  /\ Good(LoadKeys(s), ids, secrets)
           /\ Within(LoadKeys(s), s)
  <1>1. ASSUME NEW k \in Key, s[k] # Absent
        PROVE  /\ LoadKeys(s)[k].allowedModels = s[k].allowedModels
               /\ LoadKeys(s)[k].enabled = s[k].enabled
               /\ LoadKeys(s)[k].secretStorage = s[k].secretStorage
               /\ Sources(LoadKeys(s)[k].modelOverrides) \subseteq s[k].allowedModels
    <2>1. s[k] \in AccessKey
      BY <1>1 DEF KeyStore
    <2>2. Sources(Prune(s[k].modelOverrides, s[k].allowedModels)) \subseteq s[k].allowedModels
      BY <2>1, PruneType DEF AccessKey
    <2> QED
      BY <1>1, <2>1, <2>2 DEF LoadKeys, AccessKey
  <1>2. Live(LoadKeys(s)) \subseteq Live(s)
    BY DEF Live, LoadKeys
  <1> QED
    BY <1>1, <1>2 DEF Good, Within, Live

(* update() validates the table it writes, or prunes it, against the grant *)
(* it writes with it: this is what makes a stale copy harmless here.       *)
LEMMA PatchedSafe ==
    ASSUME TypeOK, NEW k \in Key, NEW allowed \in (SUBSET Model) \cup {Unset},
           NEW enabled \in BOOLEAN \cup {Unset}, NEW ov \in Overrides \cup {Unset},
           ValidPatch(k, allowed, ov), NEW ids, NEW secrets, Good(keys, ids, secrets)
    PROVE  Good(Patched(k, allowed, enabled, ov), ids, secrets)
  <1> DEFINE grant == Value(allowed, keys[k].allowedModels)
             table == IF ov = Unset THEN Prune(keys[k].modelOverrides, grant) ELSE ov
             next  == Patched(k, allowed, enabled, ov)
  <1>1. keys \in KeyStore /\ keys[k] # Absent /\ keys[k] \in AccessKey
    BY DEF ValidPatch, TypeOK, KeyStore
  <1>2. Sources(table) \subseteq grant
    <2>1. CASE ov = Unset
      BY <1>1, <2>1, PruneType DEF AccessKey
    <2>2. CASE ov # Unset
      BY <2>2 DEF ValidPatch
    <2> QED
      BY <2>1, <2>2
  <1>3. /\ next[k].allowedModels = grant
        /\ next[k].modelOverrides = table
        /\ next[k].secretStorage = keys[k].secretStorage
    BY <1>1 DEF Patched, KeyStore, AccessKey
  <1>4. \A j \in Key \ {k} : next[j] = keys[j]
    BY <1>1 DEF Patched, KeyStore
  <1>5. k \in Live(keys)
    BY <1>1 DEF Live
  <1> HIDE DEF next, grant, table
  <1>6. ASSUME NEW j \in Live(next)
        PROVE  /\ j \in ids
               /\ Sources(next[j].modelOverrides) \subseteq next[j].allowedModels
               /\ next[j].secretStorage = "secure-store" => j \in secrets
    <2>1. CASE j = k
      BY <1>2, <1>3, <1>5, <2>1 DEF Good
    <2>2. CASE j # k
      BY <1>4, <1>6, <2>2 DEF Good, Live
    <2> QED
      BY <2>1, <2>2
  <1> QED
    BY <1>6 DEF Good, next

(* A write of good records that succeeds makes both sides good and equal. *)
LEMMA CommitSafe ==
    ASSUME TypeOK', deleted' \subseteq used', NEW s, Commit(s),
           Good(s, used' \ deleted', vault')
    PROVE  AccessInv'
  BY DEF Commit, AccessInv, Within, Live

(* Death empties memory: only the file has to be good. *)
LEMMA DieSafe ==
    ASSUME TypeOK', Die, deleted' \subseteq used',
           Good(keysDisk', used' \ deleted', vault')
    PROVE  AccessInv'
  BY NoKeysSafe DEF Die, AccessInv

(* A step that leaves both stores alone may add ids and secrets. *)
LEMMA StoresKeptSafe ==
    ASSUME AccessInv, TypeOK', UNCHANGED <<store, deleted>>,
           used \subseteq used', vault \subseteq vault'
    PROVE  AccessInv'
  BY GoodMonotone DEF AccessInv, store

(* Removing a Desired Model strips memory, and the file too if it writes.  *)
LEMMA DesiredStepSafe ==
    ASSUME AccessInv, DesiredStep
    PROVE  AccessInv'
  <1>0. TypeOK /\ TypeOK' /\ keys \in KeyStore
    BY DesiredStepType DEF AccessInv, TypeOK
  <1> PICK m \in Model :
         \/ AddDesired(m)
         \/ RemoveDesired(m)
         \/ RemoveDesiredKeysFail(m)
         \/ RemoveDesiredModelsFail(m)
         \/ RemoveDesiredCrash(m)
    BY DEF DesiredStep
  <1>1. /\ Good(StripModel(keys, m), used \ deleted, vault)
        /\ Within(StripModel(keys, m), keys)
    BY <1>0, StripModelSafe DEF AccessInv
  <1>2. ASSUME KeysAfterRemoval(m), UNCHANGED <<used, deleted, vault>>
        PROVE  AccessInv'
    <2>1. CASE keys' = keys
      BY <1>0, <1>2, <2>1 DEF KeysAfterRemoval, AccessInv
    <2>2. CASE keys' # keys
      BY <1>0, <1>1, <1>2, <2>2 DEF KeysAfterRemoval, AccessInv, Within, Live
    <2> QED
      BY <2>1, <2>2
  <1>3. CASE AddDesired(m)
    BY <1>0, <1>3, StoresKeptSafe DEF AddDesired, store
  <1>4. CASE RemoveDesired(m)
    BY <1>2, <1>4 DEF RemoveDesired
  <1>5. CASE RemoveDesiredKeysFail(m)
    <2>1. Within(StripModel(keys, m), keysDisk)
      BY <1>1 DEF AccessInv, Within, Live
    <2> QED
      BY <1>0, <1>1, <1>5, <2>1 DEF RemoveDesiredKeysFail, AccessInv, promises
  <1>6. CASE RemoveDesiredModelsFail(m)
    BY <1>2, <1>6 DEF RemoveDesiredModelsFail, promises
  <1>7. CASE RemoveDesiredCrash(m)
    BY <1>0, <1>1, <1>7, DieSafe DEF RemoveDesiredCrash, AccessInv, promises
  <1> QED
    BY <1>3, <1>4, <1>5, <1>6, <1>7

(* POST generates an unused id and covers the overrides it stores. *)
LEMMA CreateStepSafe ==
    ASSUME AccessInv, CreateStep
    PROVE  AccessInv'
  <1>0. TypeOK /\ TypeOK' /\ keys \in KeyStore
    BY CreateStepType DEF AccessInv, TypeOK
  <1> PICK k \in Key, allowed \in SUBSET Model, ov \in Overrides :
         \/ \E stored \in BOOLEAN : CreateKey(k, allowed, ov, stored)
         \/ \E stored \in BOOLEAN : CreateKeyFail(k, allowed, ov, stored)
         \/ CreateKeyCrash(k, allowed, ov)
    BY DEF CreateStep
  <1>1. ASSUME NEW stored \in BOOLEAN, CreateKey(k, allowed, ov, stored)
        PROVE  AccessInv'
    <2> DEFINE new == NewKey(allowed, ov, stored)
               next == [keys EXCEPT ![k] = new]
    <2>1. k \notin deleted /\ Sources(ov) \subseteq allowed
      BY <1>1 DEF CreateKey, ValidCreate, AccessInv
    <2>2. used' = used \cup {k} /\ deleted' = deleted
      BY <1>1 DEF CreateKey
    <2>3. /\ vault \subseteq vault'
          /\ new.secretStorage = "secure-store" => k \in vault'
      BY <1>1 DEF CreateKey, NewKey
    <2>4. next[k] = new /\ \A j \in Key \ {k} : next[j] = keys[j]
      BY <1>0 DEF KeyStore
    <2>5. new.modelOverrides = ov /\ new.allowedModels = allowed
      BY DEF NewKey
    <2>6. Commit(next)
      BY <1>1 DEF CreateKey
    <2> HIDE DEF new, next
    <2>7. ASSUME NEW j \in Live(next)
          PROVE  /\ j \in used' \ deleted'
                 /\ Sources(next[j].modelOverrides) \subseteq next[j].allowedModels
                 /\ next[j].secretStorage = "secure-store" => j \in vault'
      <3>1. CASE j = k
        BY <2>1, <2>2, <2>3, <2>4, <2>5, <3>1
      <3>2. CASE j # k
        BY <2>2, <2>3, <2>4, <2>7, <3>2 DEF AccessInv, Good, Live
      <3> QED
        BY <3>1, <3>2
    <2>8. Good(next, used' \ deleted', vault')
      BY <2>7 DEF Good
    <2> QED
      BY <1>0, <2>2, <2>6, <2>8, CommitSafe DEF AccessInv
  <1>2. ASSUME NEW stored \in BOOLEAN, CreateKeyFail(k, allowed, ov, stored)
        PROVE  AccessInv'
    BY <1>0, <1>2, StoresKeptSafe DEF CreateKeyFail, promises
  <1>3. CASE CreateKeyCrash(k, allowed, ov)
    <2>1. /\ Die
          /\ keysDisk' = keysDisk /\ deleted' = deleted
          /\ used' = used \cup {k} /\ vault' = vault \cup {k}
      BY <1>3 DEF CreateKeyCrash, promises
    <2>2. Good(keysDisk', used' \ deleted', vault')
      BY <2>1 DEF AccessInv, Good, Live
    <2>3. deleted' \subseteq used'
      BY <2>1 DEF AccessInv
    <2> QED
      BY <1>0, <2>1, <2>2, <2>3, DieSafe
  <1> QED
    BY <1>1, <1>2, <1>3

(* A patch that was validated may be committed; one that fails, or throws, *)
(* changes nothing.                                                        *)
LEMMA PatchSafe ==
    ASSUME AccessInv, TypeOK', NEW k \in Key, NEW allowed \in (SUBSET Model) \cup {Unset},
           NEW enabled \in BOOLEAN \cup {Unset}, NEW ov \in Overrides \cup {Unset},
           ValidPatch(k, allowed, ov),
           \/ Commit(Patched(k, allowed, enabled, ov)) /\ UNCHANGED <<used, deleted, vault>>
           \/ RollBack
    PROVE  AccessInv'
  <1>1. CASE Commit(Patched(k, allowed, enabled, ov)) /\ UNCHANGED <<used, deleted, vault>>
    BY <1>1, PatchedSafe, CommitSafe DEF AccessInv
  <1>2. CASE RollBack
    BY <1>2, StoresKeptSafe DEF RollBack, history, promises
  <1> QED
    BY <1>1, <1>2

(* Deleting a key leaves good records, and no other key loses its secret. *)
LEMMA DropKeySafe ==
    ASSUME AccessInv, NEW k \in Key, NEW secrets, vault \ {k} \subseteq secrets
    PROVE  Good([keys EXCEPT ![k] = Absent], used \ (deleted \cup {k}), secrets)
  BY DEF AccessInv, TypeOK, KeyStore, Good, Live

(* PUT, DELETE and the override DELETEs of a key. *)
LEMMA KeyStepSafe ==
    ASSUME AccessInv, KeyStep
    PROVE  AccessInv'
  <1>0. TypeOK /\ TypeOK' /\ keys \in KeyStore
    BY KeyStepType DEF AccessInv, TypeOK
  <1> PICK k \in Key :
         \/ \E allowed \in (SUBSET Model) \cup {Unset}, enabled \in BOOLEAN \cup {Unset},
               ov \in Overrides \cup {Unset} : UpdateKey(k, allowed, enabled, ov)
         \/ DeleteKey(k)
         \/ DeleteKeyCrash(k)
         \/ \E m \in Model \cup {Unset} : ClearOverride(k, m)
    BY DEF KeyStep
  <1>1. ASSUME NEW allowed \in (SUBSET Model) \cup {Unset},
               NEW enabled \in BOOLEAN \cup {Unset}, NEW ov \in Overrides \cup {Unset},
               UpdateKey(k, allowed, enabled, ov)
        PROVE  AccessInv'
    BY <1>0, <1>1, PatchSafe DEF UpdateKey
  <1>2. CASE DeleteKey(k)
    <2>1. CASE RollBack
      BY <1>0, <2>1, StoresKeptSafe DEF RollBack, history, promises
    <2>2. CASE /\ Commit([keys EXCEPT ![k] = Absent])
               /\ vault' \in {vault, vault \ {k}}
               /\ deleted' = deleted \cup {k}
               /\ used' = used
      <3>1. keys[k] # Absent
        BY <1>2 DEF DeleteKey
      <3>2. deleted' \subseteq used'
        BY <2>2, <3>1 DEF AccessInv, Good, Live
      <3>3. vault \ {k} \subseteq vault'
        BY <2>2
      <3>4. Good([keys EXCEPT ![k] = Absent], used' \ deleted', vault')
        BY <2>2, <3>3, DropKeySafe
      <3> QED
        BY <1>0, <2>2, <3>2, <3>4, CommitSafe
    <2> QED
      BY <1>2, <2>1, <2>2 DEF DeleteKey
  <1>3. CASE DeleteKeyCrash(k)
    <2>1. Die /\ keysDisk' = [keys EXCEPT ![k] = Absent] /\ UNCHANGED <<used, deleted, vault>>
      BY <1>3 DEF DeleteKeyCrash, history, promises
    <2>2. Good([keys EXCEPT ![k] = Absent], used \ deleted, vault)
      BY DropKeySafe, GoodMonotone
    <2> QED
      BY <1>0, <2>1, <2>2, DieSafe DEF AccessInv
  <1>4. ASSUME NEW m \in Model \cup {Unset}, ClearOverride(k, m)
        PROVE  AccessInv'
    <2> DEFINE left == Prune(keys[k].modelOverrides, Model \ (IF m = Unset THEN Model ELSE {m}))
    <2>1. keys[k] \in AccessKey
      BY <1>0, <1>4 DEF ClearOverride, KeyStore
    <2>2. left \in Overrides
      BY <2>1, PruneType DEF AccessKey
    <2>3. ValidPatch(k, Unset, left)
      BY <1>4 DEF ClearOverride
    <2>4. \/ Commit(Patched(k, Unset, Unset, left)) /\ UNCHANGED <<used, deleted, vault>>
          \/ RollBack
      BY <1>4 DEF ClearOverride, promises
    <2> HIDE DEF left
    <2> QED
      BY <1>0, <2>2, <2>3, <2>4, PatchSafe
  <1> QED
    BY <1>1, <1>2, <1>3, <1>4

(* Only FinishEdit writes, and what it writes was validated again. *)
LEMMA EditStepSafe ==
    ASSUME AccessInv, EditStep
    PROVE  AccessInv'
  <1>0. TypeOK /\ TypeOK'
    BY EditStepType DEF AccessInv
  <1> PICK e \in Edit :
         \/ \E k \in Key, m \in Model \cup {Unset} : StartEdit(e, k, m)
         \/ FinishEdit(e)
         \/ AbandonEdit(e)
    BY DEF EditStep
  <1>1. ASSUME NEW k \in Key, NEW m \in Model \cup {Unset}, StartEdit(e, k, m)
        PROVE  AccessInv'
    BY <1>0, <1>1, StoresKeptSafe DEF StartEdit, store, history, promises
  <1>2. CASE FinishEdit(e)
    <2> DEFINE h == edit[e]
    <2>1. h \in PendingEdit /\ h # Idle
      BY <1>0, <1>2 DEF TypeOK, FinishEdit
    <2>2. h.key \in Key /\ h.was \in AccessKey /\ h.model \in Model \cup {Unset}
      BY <2>1 DEF PendingEdit
    <2>3. EditTables(h) \subseteq Overrides
      BY <2>2 DEF EditTables, Overrides, AccessKey
    <2>4. PICK ov \in EditTables(h) :
            /\ ValidPatch(h.key, Unset, ov)
            /\ \/ /\ Commit(Patched(h.key, Unset, Unset, ov))
                  /\ UNCHANGED <<used, deleted, vault>>
               \/ RollBack
      BY <1>2 DEF FinishEdit, promises
    <2> HIDE DEF h
    <2> QED
      BY <1>0, <2>2, <2>3, <2>4, PatchSafe
  <1>3. CASE AbandonEdit(e)
    BY <1>0, <1>3, StoresKeptSafe DEF AbandonEdit, store, history, promises
  <1> QED
    BY <1>1, <1>2, <1>3

(* The data plane reads the stores and never writes them. *)
LEMMA RequestStepSafe ==
    ASSUME AccessInv, RequestStep
    PROVE  AccessInv'
  <1>1. TypeOK'
    BY RequestStepType DEF AccessInv
  <1>2. UNCHANGED <<store, vault, used, deleted>>
    BY DEF RequestStep, Authenticate, AcceptPassthrough, Forward, EndRequest,
           store, history, promises
  <1> QED
    BY <1>1, <1>2, StoresKeptSafe

(* The usage timer writes what memory holds; a restart reads the file.     *)
LEMMA ProcessStepSafe ==
    ASSUME AccessInv, ProcessStep
    PROVE  AccessInv'
  <1>0. TypeOK /\ TypeOK' /\ keysDisk \in KeyStore
    BY ProcessStepType DEF AccessInv, TypeOK
  <1>1. CASE UsageTimerFires
    BY <1>0, <1>1 DEF UsageTimerFires, AccessInv, Within, Live, history, promises
  <1>2. CASE UsageTimerFails
    BY <1>0, <1>2, DieSafe DEF UsageTimerFails, AccessInv, history, promises
  <1>3. CASE Crash
    BY <1>0, <1>3, DieSafe DEF Crash, AccessInv, history, promises
  <1>4. ASSUME NEW keysReadable \in BOOLEAN, NEW modelsReadable \in BOOLEAN,
               Restart(keysReadable, modelsReadable)
        PROVE  AccessInv'
    <2>1. /\ keys' = IF keysReadable THEN LoadKeys(keysDisk) ELSE NoKeys
          /\ UNCHANGED <<keysDisk, vault, used, deleted>>
      BY <1>4 DEF Restart, history, promises
    <2>2. /\ Good(keys', used \ deleted, vault)
          /\ Within(keys', keysDisk)
      BY <1>0, <2>1, LoadKeysSafe, NoKeysSafe DEF AccessInv
    <2> QED
      BY <1>0, <2>1, <2>2 DEF AccessInv
  <1> QED
    BY <1>1, <1>2, <1>3, <1>4 DEF ProcessStep

(* The inductive invariant holds of every behaviour. *)
THEOREM AccessInvariant == Spec => []AccessInv
  <1>1. Init => TypeOK
    BY InitType
  <1>2. Init => AccessInv
    BY <1>1, NoKeysSafe DEF Init, AccessInv
  <1>3. AccessInv /\ [Next]_vars => AccessInv'
    <2> SUFFICES ASSUME AccessInv, [Next]_vars
                 PROVE  AccessInv'
      OBVIOUS
    <2>1. CASE UNCHANGED vars
      <3>1. TypeOK'
        BY <2>1 DEF vars, AccessInv, TypeOK, store, offers, handlers, history, promises, writes
      <3> QED
        BY <2>1, <3>1, StoresKeptSafe DEF vars, history, promises
    <2> QED
      BY <2>1, DesiredStepSafe, CreateStepSafe, KeyStepSafe, EditStepSafe,
         RequestStepSafe, ProcessStepSafe DEF Next
  <1> QED
    BY <1>2, <1>3, PTL DEF Spec

(* An id whose DELETE was acknowledged is never a key again, in memory or  *)
(* in the file, through failed writes, crashes and restarts.               *)
THEOREM DeletedKeysStayDeleted == Spec => []DeletedStaysDeleted
  <1>1. AccessInv => DeletedStaysDeleted
    BY DEF AccessInv, TypeOK, Good, Live, DeletedStaysDeleted
  <1> QED
    BY <1>1, AccessInvariant, PTL

(* No override outlives its grant, however late an edit's body arrives.    *)
THEOREM OverridesStayWithinGrant == Spec => []OverridesWithinGrant
  <1>1. AccessInv => OverridesWithinGrant
    BY DEF AccessInv, Good, OverridesWithinGrant
  <1> QED
    BY <1>1, AccessInvariant, PTL

(* No right lives in memory only: every key, grant and enabled flag in     *)
(* force is in the file, so a restart does not take it away.               *)
THEOREM MemoryStaysWithinDisk == Spec => []MemoryWithinDisk
  <1>1. AccessInv => MemoryWithinDisk
    BY DEF AccessInv, Within, MemoryWithinDisk
  <1> QED
    BY <1>1, AccessInvariant, PTL

(* A record that says its secret can be recovered is right. *)
THEOREM SecretsStayRecoverable == Spec => []SecretRecoverable
  <1>1. AccessInv => SecretRecoverable
    BY DEF AccessInv, Good, SecretRecoverable
  <1> QED
    BY <1>1, AccessInvariant, PTL
=============================================================================
