--------------------------- MODULE RoutingConfig ---------------------------
(***************************************************************************)
(* The configuration a request of one model is routed by, and what is sent *)
(* to OpenRouter under it (server.ts, the data plane): settings and model  *)
(* policies with their files, the provider filter and the endpoint         *)
(* snapshot it reads, the override of a Local Access Key, and the preview  *)
(* the control plane computes of all that.                                 *)
(*                                                                         *)
(* A request is routed in one step without waiting for anything, so what   *)
(* it may get is an operator of the state.                                 *)
(***************************************************************************)
EXTENDS ProviderRouting

INSTANCE ProviderFilters

CONSTANTS
    Mode,            \* merge modes
    GlobalPolicy,    \* global policies tried
    ModelPolicy,     \* model policies tried, Unset for none
    Override,        \* overrides of the key for the model, Unset for inherit
    Filter,          \* filters clients send for the model
    Snapshot,        \* cached endpoints and their age, Unset for none
    Request,         \* provider fields clients send, Unset for none
    DefaultMode,     \* merge mode of the configuration file
    DefaultPolicy,   \* global policy of the configuration file
    MaxFaults        \* bound on failed writes and unreadable files

(* An endpoint as parsed (endpoints.ts): a number may be negative. *)
IsEndpoint(e) ==
    /\ \A f \in NumberField : e[f] \in Int \cup {Unset}
    /\ e["supportsImplicitCaching"] \in BOOLEAN \cup {Unset}
    /\ RoutingId(e) \in Provider \cup {Unset}

ASSUME RoutingAssumption ==
    /\ DefaultMode \in Mode
    /\ DefaultPolicy \in GlobalPolicy
    /\ Unset \in ModelPolicy \cap Override \cap Snapshot \cap Request
    /\ Unset \notin Filter \cup [mode : Mode, global : GlobalPolicy]
    /\ MaxFaults \in Nat
    /\ GlobalPolicy \subseteq Policy
    /\ Request \ {Unset} \subseteq Policy
    /\ \A m \in ModelPolicy \ {Unset} :
           m.providers \in SUBSET Provider /\ m.order \in Order /\ m.policy \in Policy
    /\ \A o \in Override \ {Unset} : o.providers \in SUBSET Provider /\ o.order \in Order
    /\ \A s \in Snapshot \ {Unset} : s.age \in Int /\ \A e \in s.endpoints : IsEndpoint(e)
    /\ \A f \in Filter : \A c \in f.conditions :
           c.field \in Field /\ (c.value.type = "number" => c.value.is \in Int)

VARIABLES
    up,
    settings,      \* cfg.merge_mode and cfg.policy
    settingsFile,  \* Unset until the first save
    policy,        \* the model's entry in JsonPolicyStore.policies
    policyFile,
    filter,        \* DesiredModel.providerFilter of the model, or Unset
    override,      \* AccessKey.modelOverrides for the model
    snapshot,      \* the model's entry in the metadata cache
    soft,          \* --soft-enforce-only
    faults

(* What happened; no action reads them. *)
VARIABLES
    acked,         \* the model policy of the last PUT or DELETE answered 200
    unread         \* stores that could not be read at the start

routing == <<filter, override, snapshot>>
vars == <<up, settings, settingsFile, policy, policyFile, routing, soft, faults, acked, unread>>

Settings == [mode : Mode, global : GlobalPolicy]
Defaults == [mode |-> DefaultMode, global |-> DefaultPolicy]

TypeOK ==
    /\ up \in BOOLEAN
    /\ settings \in Settings
    /\ settingsFile \in Settings \cup {Unset}
    /\ policy \in ModelPolicy
    /\ policyFile \in ModelPolicy
    /\ filter \in Filter \cup {Unset}
    /\ override \in Override
    /\ snapshot \in Snapshot
    /\ soft \in BOOLEAN
    /\ faults \in 0 .. MaxFaults
    /\ acked \in ModelPolicy
    /\ unread \in SUBSET {"settings", "policies"}

Init ==
    /\ up = TRUE
    /\ settings = Defaults
    /\ settingsFile = Unset
    /\ policy = Unset
    /\ policyFile = Unset
    /\ filter = Unset
    /\ override = Unset
    /\ snapshot = Unset
    /\ soft \in BOOLEAN
    /\ faults = 0
    /\ acked = Unset
    /\ unread = {}

Fault == faults < MaxFaults /\ faults' = faults + 1

(* PUT /api/settings: a save that fails is answered 400 and changes        *)
(* nothing. *)
PutSettings(s) ==
    /\ up
    /\ \/ settings' = s /\ settingsFile' = s /\ UNCHANGED faults
       \/ Fault /\ UNCHANGED <<settings, settingsFile>>
    /\ UNCHANGED <<up, policy, policyFile, routing, soft, acked, unread>>

(* Mutant of PutPolicy: the map is not written. *)
PutPolicyInMemory(m) ==
    /\ up
    /\ policy' = m
    /\ acked' = m
    /\ UNCHANGED <<up, settings, settingsFile, policyFile, routing, soft, faults, unread>>

(* PUT or DELETE /api/policies: memory first, then the whole map is        *)
(* written; a failed write is an error to the caller, but memory keeps the *)
(* new policy.                                                             *)
PutPolicy(m) ==
    /\ up
    /\ policy' = m
    /\ \/ policyFile' = m /\ acked' = m /\ UNCHANGED faults
       \/ Fault /\ UNCHANGED <<policyFile, acked>>
    /\ UNCHANGED <<up, settings, settingsFile, routing, soft, unread>>

(* PUT and DELETE /api/desired-models/:model/filter; the store and its     *)
(* file are AccessControl's.                                               *)
PutFilter(f) ==
    /\ up
    /\ f # Unset => ValidFilter(f)
    /\ filter' = f
    /\ UNCHANGED <<up, settings, settingsFile, policy, policyFile, override, snapshot, soft,
                   faults, acked, unread>>

(* The override of the key changes (AccessControl). *)
PutOverride(o) ==
    /\ up
    /\ override' = o
    /\ UNCHANGED <<up, settings, settingsFile, policy, policyFile, filter, snapshot, soft,
                   faults, acked, unread>>

(* The endpoints are fetched, or grow older (MetadataCatalog). *)
Refresh(s) ==
    /\ up
    /\ snapshot' = s
    /\ UNCHANGED <<up, settings, settingsFile, policy, policyFile, filter, override, soft,
                   faults, acked, unread>>

Crash ==
    /\ up
    /\ up' = FALSE
    /\ settings' = Defaults
    /\ policy' = Unset
    /\ unread' = {}
    /\ UNCHANGED <<settingsFile, policyFile, routing, soft, faults, acked>>

(* Each store that cannot be read is logged and left at its default. *)
Restart ==
    /\ ~up
    /\ up' = TRUE
    /\ soft' \in BOOLEAN
    /\ unread' \in SUBSET {"settings", "policies"}
    /\ IF unread' = {} THEN UNCHANGED faults ELSE Fault
    /\ settings' = IF "settings" \in unread' THEN Defaults ELSE OrElse(settingsFile, Defaults)
    /\ policy' = IF "policies" \in unread' THEN Unset ELSE policyFile
    /\ UNCHANGED <<settingsFile, policyFile, routing, acked>>

Next ==
    \/ \E s \in Settings : PutSettings(s)
    \/ \E m \in ModelPolicy : PutPolicy(m)
    \/ \E f \in Filter \cup {Unset} : PutFilter(f)
    \/ \E o \in Override : PutOverride(o)
    \/ \E s \in Snapshot : Refresh(s)
    \/ Crash
    \/ Restart

Spec == Init /\ [][Next]_vars
-----------------------------------------------------------------------------
InForce == Enforced(settings.global, policy)

Unfiltered(request) == Merge(InForce, request, settings.mode, soft)

Filtered == Enabled(filter)

Passing == Eligible(snapshot.endpoints, filter)

EligibleIds == RoutingIds(Passing)

(* Mutant of FilterData: an old snapshot is as good as a new one. *)
FilterDataOfAnyAge == snapshot # Unset /\ EligibleIds # {}

(* The snapshot lets the filter decide: there is one, it is young enough,  *)
(* and some endpoint passes.                                               *)
FilterData ==
    snapshot # Unset /\ IsTelemetryFresh(snapshot.age, filter.maxAge) /\ EligibleIds # {}

NoFilterData == Refuse("FILTER_DATA", "none")

AvailableIds == IF snapshot = Unset THEN Unset ELSE RoutingIds(snapshot.endpoints)

(* A request of a managed key.  The override is the one in the copy of the *)
(* key taken when it was recognised (findBySecret), before the body was    *)
(* read; filter, snapshot, policy and settings are those of the moment of  *)
(* the answer.  Every override is met with every state of the others, so   *)
(* one variable stands for the copy as well.                               *)
Managed(request) ==
    IF ~Filtered /\ override = Unset THEN Unfiltered(request)
    ELSE IF Filtered /\ ~FilterData THEN NoFilterData
    ELSE Resolve(AvailableIds, IF Filtered THEN EligibleIds ELSE Unset,
                 override, InForce, request, settings.mode, soft)

(* A request that carries no managed key: merged first, filtered last. *)
Passthrough(request) ==
    LET merged == Unfiltered(request)
        sent == OrElse(merged.provider, NoPolicy)
        left == IF sent.only = Unset THEN EligibleIds ELSE EligibleIds \cap sent.only
    IN  IF merged.kind = "refuse" \/ ~Filtered THEN merged
        ELSE IF ~FilterData THEN NoFilterData
        ELSE IF left = {} THEN Refuse("NO_ELIGIBLE_PROVIDER", "none")
        ELSE Forward([sent EXCEPT !.only = left])

(* Mutant of Preview: the preview looks at the endpoints without the       *)
(* filter. *)
PreviewUnfiltered(candidate, request) ==
    Resolve(AvailableIds, Unset, candidate, InForce, request, settings.mode, soft)

(* POST /api/access-keys/:id/models/:model/override/preview.  It does not  *)
(* ask whether some endpoint passes: Resolve refuses at its hard layer.    *)
Preview(candidate, request) ==
    IF Filtered /\ (snapshot = Unset \/ ~IsTelemetryFresh(snapshot.age, filter.maxAge)) THEN NoFilterData
    ELSE Resolve(AvailableIds, IF Filtered THEN EligibleIds ELSE Unset,
                 candidate, InForce, request, settings.mode, soft)
-----------------------------------------------------------------------------
Forwards(answer) == answer.kind = "forward"

(* The providers OpenRouter may pick under a policy. *)
Permits(p) == IF p = Unset THEN Provider
              ELSE (IF p.only = Unset THEN Provider ELSE p.only)
                   \ (IF p.ignore = Unset THEN {} ELSE p.ignore)

OverridePermits ==
    IF override = Unset THEN Provider
    ELSE IF override.mode = "allowlist" THEN override.providers
    ELSE Provider \ override.providers

FilterPermits == IF Filtered THEN EligibleIds ELSE OrElse(AvailableIds, Provider)

(* A condition read as a promise: the field is known, and its value is as  *)
(* asked.                                                                  *)
Promised(e, c) ==
    LET v == e[c.field]
    IN  v # Unset /\ CASE c.operator = "lte" -> ~(c.value.is < v)
                        [] c.operator = "gte" -> ~(v < c.value.is)
                        [] c.operator = "eq" -> v \in {c.value.is}
                        [] c.operator = "in" -> {v} \subseteq c.value.is
                        [] c.operator = "notIn" -> {v} \cap c.value.is = {}
                        [] c.operator = "contains" -> {c.value.is} \subseteq v
                        [] c.operator = "exists" -> v \in BOOLEAN

(* A filter bounds every request, with or without a managed key, and only  *)
(* on telemetry of the allowed age: what OpenRouter may pick has, for each *)
(* condition in force, a known value that meets it; and a request that     *)
(* carries no managed key keeps what its merged policy forbids when a      *)
(* filter narrows it.                                                      *)
FilterIsHard ==
    Filtered => \A request \in Request :
        /\ \A answer \in {Managed(request), Passthrough(request)} :
            Forwards(answer) =>
                /\ snapshot # Unset /\ snapshot.age \in 0 .. filter.maxAge
                /\ \A p \in Permits(answer.provider) : \E e \in snapshot.endpoints :
                    /\ RoutingId(e) = p
                    /\ \A c \in filter.conditions : c.enabled => Promised(e, c)
        /\ Forwards(Passthrough(request)) =>
            Permits(Passthrough(request).provider) \subseteq Permits(Unfiltered(request).provider)

(* test/preview-parity.test.ts: the preview of an override is what a       *)
(* request of the key gets once the override is saved, in what goes out    *)
(* and in whether anything does.  (For a model with neither filter nor     *)
(* override a request takes another path, and the preview says more than   *)
(* is enforced.)                                                           *)
PreviewIsSent ==
    Filtered \/ override # Unset => \A request \in Request :
        LET shown == Preview(override, request)
            got == Managed(request)
        IN  IF Forwards(got) THEN shown = got ELSE ~Forwards(shown)

(* With a filter or an override in force a managed request may use exactly *)
(* the providers that every layer permits, never an empty list of them     *)
(* (managedRouting.ts: null means unbounded), and prefers only those.      *)
ManagedIsExact ==
    Filtered \/ override # Unset => \A request \in Request :
        Forwards(Managed(request)) =>
            LET sent == Managed(request).provider
            IN  /\ Permits(sent) =
                     FilterPermits \cap OverridePermits \cap Permits(InForce) \cap Permits(request)
                /\ sent.only # {}
                /\ sent.order # Unset => Items(sent.order) \subseteq Permits(sent)

(* README, strict: a request that differs from the policy in an enforced   *)
(* field is refused, so what goes out is within the policy in force.       *)
StrictIsWithinPolicy ==
    settings.mode = "strict" => \A request \in Request :
        \A answer \in {Managed(request), Passthrough(request)} :
            Forwards(answer) => Permits(answer.provider) \subseteq Permits(InForce)

(* What was saved is in force: settings that are not on disk are not, also *)
(* when a save fails, and an acknowledged model policy is, restarts        *)
(* included, while the files can be read and written.                      *)
SavedIsInForce ==
    up => /\ "settings" \notin unread => settings = OrElse(settingsFile, Defaults)
          /\ faults = 0 => policy = acked
=============================================================================
