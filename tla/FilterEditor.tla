---------------------------- MODULE FilterEditor ----------------------------
(***************************************************************************)
(* The page of one Desired Model (ui/src/DesiredModelDetail.tsx): a draft  *)
(* of the provider filter, a preview of it that follows the edits, and the *)
(* calls to the server, which are answered late, out of order, or not with *)
(* success.                                                                *)
(*                                                                         *)
(* A change of the draft cancels the pending timer and numbers a new       *)
(* preview; an answer counts only if its number is still the last one.     *)
(* The number is a flag here: fresh, taken from every call in flight when  *)
(* the draft changes.                                                      *)
(***************************************************************************)
EXTENDS ProviderFilters, FiniteSets

CONSTANTS
    PickedField,    \* fields the user picks from
    NumberOf,       \* the number a text stands for, Unset if it is incomplete
    Name,           \* names a user types for a quantization or a provider
    Age,            \* telemetry ages a user types, in seconds
    Invalid,        \* an age that is no number, or below 30
    Odd,            \* a number that does not look like one, such as 1e3
    Endpoints,      \* the endpoints the server knows for the model
    Earlier,        \* filters that may be stored when the page opens
    MaxConditions,  \* bound on the conditions of a filter
    MaxEdits,       \* bound on what the user does
    MaxFaults       \* bound on calls that fail without being refused

DefaultAge == 1800

ASSUME EditorAssumption ==
    /\ PickedField \subseteq Field
    /\ DefaultAge \in Age /\ Age \subseteq MinAge .. MaxAge
    /\ \A f \in Earlier : ValidFilter(f)
    /\ MaxConditions \in Nat /\ MaxEdits \in Nat /\ MaxFaults \in Nat

VARIABLES
    draft,        \* filter
    ageText,      \* telemetryDraft: an age, Invalid, or Odd
    savedFilter,
    shown,        \* the endpoints the preview shows as eligible, or Unset
    previewing,
    timer,        \* the preview of the draft waits its 250 ms
    busy,
    failed,       \* endpointError: an error in place of the filter panel
    initialized,
    calls,        \* calls in flight
    stored,       \* the server: DesiredModel.providerFilter
    edits,
    faults

(* What happened; no action reads them. *)
VARIABLES
    refused,      \* the preview of this draft was answered with an error
    crossed       \* two calls about the stored filter overlapped, or one stored and failed

page == <<draft, ageText, savedFilter, shown, previewing, timer, busy, failed, initialized>>
vars == <<page, calls, stored, edits, faults, refused, crossed>>

EmptyFilter == [enabled |-> FALSE, conditions |-> {}, maxAge |-> DefaultAge]

OrEmpty(filter) == IF filter = Unset THEN EmptyFilter ELSE filter

(* conditionIsComplete.  A field that was just picked holds an empty list  *)
(* or a Boolean, which a text field takes for a text. *)
IsComplete(c) ==
    \/ ~c.enabled
    \/ /\ c.operator \in Membership => c.value.type = "array"
       /\ c.field \in NumberField =>
            \/ c.value.type = "number"
            \/ c.value.type = "string" /\ NumberOf[c.value.is] # Unset
       /\ c.field = "supportsImplicitCaching" => c.value.type = "boolean"
       /\ c.value.type = "array" => c.value.is # {}
       /\ c.value.type = "string" => c.value.is # ""

Complete(filter) == \A c \in filter.conditions : IsComplete(c)

Canonicalized(c) ==
    IF c.field \in NumberField /\ c.value.type = "string"
    THEN [c EXCEPT !.value = NumberValue(NumberOf[@.is])]
    ELSE c

(* canonicalizeFilter: disabled conditions are dropped. *)
Canonical(filter) ==
    IF ~Complete(filter) THEN Unset
    ELSE [filter EXCEPT !.conditions = {Canonicalized(c) : c \in {d \in @ : d.enabled}}]

Evaluated(filter) == Eligible(Endpoints, filter)

(* The answer to a call: none yet, an error, or the filter the server has  *)
(* stored with its evaluation. *)
Waiting == [status |-> "waiting", filter |-> Unset, preview |-> Unset]

Error == [status |-> "error", filter |-> Unset, preview |-> Unset]

Reply(filter) == [status |-> "ok", filter |-> filter, preview |-> Evaluated(filter)]

Init ==
    /\ draft = EmptyFilter
    /\ ageText = DefaultAge
    /\ savedFilter = Unset
    /\ shown = Unset
    /\ previewing = FALSE
    /\ timer = FALSE
    /\ busy = TRUE
    /\ failed = FALSE
    /\ initialized = FALSE
    /\ calls = {[kind |-> "load", id |-> 0, filter |-> Unset, fresh |-> TRUE, reply |-> Waiting]}
    /\ stored \in {Unset} \cup Earlier
    /\ edits = 0
    /\ faults = 0
    /\ refused = FALSE
    /\ crossed = FALSE
-----------------------------------------------------------------------------
About(kind, S) == {c \in S : c.kind = kind}

Fresh == {c \in About("preview", calls) : c.fresh}

Outdated(S) == {IF c.kind = "preview" THEN [c EXCEPT !.fresh = FALSE] ELSE c : c \in S}

(* The panel with the draft is on the screen. *)
Open == ~busy /\ ~failed /\ initialized

Act == edits < MaxEdits /\ edits' = edits + 1

Call(kind, filter) ==
    [kind |-> kind, id |-> edits, filter |-> filter, fresh |-> TRUE, reply |-> Waiting]

(* The calls about the stored filter that are in flight. *)
Writing(S) == {c \in S : c.kind # "preview"}

(* setFilter, and the effect that follows it: what is in flight is         *)
(* outdated, and a draft that is complete waits for its preview.           *)
SetDraft(filter, S) ==
    /\ draft' = filter
    /\ calls' = Outdated(S)
    /\ timer' = Complete(filter)
    /\ previewing' = (previewing /\ Complete(filter))
    /\ refused' = FALSE

SetSaved(filter) ==
    /\ savedFilter' = filter
    /\ ageText' = OrEmpty(filter).maxAge

(* What the controls of a condition produce.  Picking a field or an        *)
(* operator resets the value. *)
TypedValues(c) ==
    IF c.operator \in Membership THEN {ArrayValue(S) : S \in SUBSET Name}
    ELSE IF c.field = "supportsImplicitCaching" THEN {BooleanValue(b) : b \in BOOLEAN}
    ELSE IF c.field \in NumberField THEN {TextValue(t) : t \in DOMAIN NumberOf}
    ELSE {TextValue(t) : t \in Name \cup {""}}

FirstOperator(field) ==
    CASE field \in {"pricing"} -> "lte"
      [] field \in NumberField \ {"pricing"} -> "gte"
      [] field \in {"quantization", "supportsImplicitCaching"} -> "eq"
      [] field = "supportedParameters" -> "contains"
      [] field = "provider.routingId" -> "in"

FieldChanged(c, field) ==
    [c EXCEPT !.field = field, !.operator = FirstOperator(field),
              !.value = IF Operators(field) \cap Membership # {} THEN ArrayValue({})
                        ELSE BooleanValue(field = "supportsImplicitCaching")]

OperatorChanged(c, operator) ==
    [c EXCEPT !.operator = operator,
              !.value = IF operator \in Membership THEN ArrayValue({}) ELSE @]

Changes(c) ==
    {FieldChanged(c, f) : f \in PickedField}
    \cup {OperatorChanged(c, o) : o \in Operators(c.field)}
    \cup {[c EXCEPT !.value = v] : v \in TypedValues(c)}
    \cup {[c EXCEPT !.enabled = ~@]}

NewCondition(id, field) ==
    [id |-> id, field |-> field, operator |-> FirstOperator(field), value |-> TextValue(""), enabled |-> TRUE]

(* The drafts one change away. *)
Edited ==
    {[draft EXCEPT !.enabled = ~@]}
    \cup {[draft EXCEPT !.conditions = @ \ {c}] : c \in draft.conditions}
    \cup UNION {{[draft EXCEPT !.enabled = TRUE, !.conditions = (@ \ {c}) \cup {d}] : d \in Changes(c)} :
                c \in draft.conditions}
    \cup {[draft EXCEPT !.enabled = TRUE, !.conditions = @ \cup {NewCondition(id, f)}] :
          id \in {i \in 1 .. MaxConditions : \A c \in draft.conditions : c.id # i},
          f \in NumberField \cap PickedField}

Edit ==
    /\ Open /\ Act
    /\ \E filter \in Edited : SetDraft(filter, calls)
    /\ UNCHANGED <<ageText, savedFilter, shown, busy, failed, initialized, stored, faults, crossed>>

(* The text of the age is kept apart; only one that looks like a number of *)
(* at least 30 reaches the draft.                                          *)
EditAge ==
    /\ Open /\ Act
    /\ \/ \E a \in Age : ageText' = a /\ SetDraft([draft EXCEPT !.maxAge = a], calls)
       \/ /\ ageText' \in {Invalid, Odd}
          /\ UNCHANGED <<draft, calls, timer, previewing, refused>>
    /\ UNCHANGED <<savedFilter, shown, busy, failed, initialized, stored, faults, crossed>>

TimerFires ==
    /\ timer
    /\ timer' = FALSE
    /\ previewing' = TRUE
    /\ calls' = calls \cup {Call("preview", Canonical(draft))}
    /\ UNCHANGED <<draft, ageText, savedFilter, shown, busy, failed, initialized, stored, edits,
                   faults, refused, crossed>>

Send(kind, filter) ==
    /\ calls' = calls \cup {Call(kind, filter)}
    /\ crossed' = (crossed \/ Writing(calls) # {})
    /\ UNCHANGED <<draft, ageText, savedFilter, shown, previewing, timer, initialized, stored, faults, refused>>

Save ==
    /\ Open /\ Act
    /\ Canonical(draft) # Unset
    /\ ageText \in Age \cup {Odd}
    /\ Send("save", Canonical(draft))
    /\ UNCHANGED <<busy, failed>>

Remove ==
    /\ Open /\ Act
    /\ savedFilter # Unset
    /\ Send("delete", Unset)
    /\ UNCHANGED <<busy, failed>>

Load ==
    /\ ~busy /\ Act
    /\ busy' = TRUE
    /\ failed' = FALSE
    /\ Send("load", Unset)

Reset ==
    /\ Open /\ Act
    /\ draft # OrEmpty(savedFilter)
    /\ ageText' = OrEmpty(savedFilter).maxAge
    /\ SetDraft(OrEmpty(savedFilter), calls)
    /\ UNCHANGED <<savedFilter, shown, busy, failed, initialized, stored, faults, crossed>>
-----------------------------------------------------------------------------
Replied(c, reply) == calls' = (calls \ {c}) \cup {[c EXCEPT !.reply = reply]}

(* The server: GET, PUT and DELETE of the filter (server.ts).  A PUT       *)
(* stores before it evaluates, so it may have an effect and fail.          *)
Serve(c) ==
    /\ c.kind # "preview" /\ c.reply.status = "waiting"
    /\ \/ /\ c.kind = "save" => ValidFilter(c.filter)
          /\ stored' = IF c.kind = "load" THEN stored ELSE c.filter
          /\ Replied(c, Reply(stored'))
          /\ UNCHANGED <<faults, crossed>>
       \/ /\ c.kind = "save" /\ ~ValidFilter(c.filter)
          /\ Replied(c, Error)
          /\ UNCHANGED <<stored, faults, crossed>>
       \/ /\ faults < MaxFaults /\ faults' = faults + 1
          /\ stored' \in {stored} \cup IF c.kind = "load" THEN {}
                                       ELSE {f \in {c.filter} : f # Unset => ValidFilter(f)}
          /\ Replied(c, Error)
          /\ crossed' = (crossed \/ stored' # stored)
    /\ UNCHANGED <<page, edits, refused>>

Succeeds(c) ==
    /\ c \in calls /\ c.kind # "preview" /\ c.reply.status = "ok"
    /\ shown' = c.reply.preview
    /\ SetSaved(c.reply.filter)
    /\ SetDraft(OrEmpty(c.reply.filter), calls \ {c})
    /\ UNCHANGED <<stored, edits, faults, crossed>>

(* The answer of a save replaces the draft. *)
SaveAnswered(c) ==
    /\ c.kind = "save"
    /\ Succeeds(c)
    /\ UNCHANGED <<busy, failed, initialized>>

(* Mutant of RemoveAnswered: the page still holds the filter as saved. *)
RemoveAnsweredKeeps(c) ==
    /\ c.kind = "delete" /\ c.reply.status = "ok"
    /\ shown' = c.reply.preview
    /\ ageText' = DefaultAge
    /\ SetDraft(EmptyFilter, calls \ {c})
    /\ UNCHANGED <<savedFilter, busy, failed, initialized, stored, edits, faults, crossed>>

RemoveAnswered(c) ==
    /\ c.kind = "delete"
    /\ Succeeds(c)
    /\ UNCHANGED <<busy, failed, initialized>>

LoadAnswered(c) ==
    /\ c.kind = "load"
    /\ Succeeds(c)
    /\ initialized' = TRUE
    /\ busy' = FALSE
    /\ UNCHANGED failed

CallFails(c) ==
    /\ c.kind # "preview" /\ c.reply.status = "error"
    /\ calls' = calls \ {c}
    /\ IF c.kind = "load" THEN busy' = FALSE /\ failed' = TRUE ELSE UNCHANGED <<busy, failed>>
    /\ UNCHANGED <<draft, ageText, savedFilter, shown, previewing, timer, initialized, stored, edits,
                   faults, refused, crossed>>

(* Mutant of PreviewAnswered: any answer counts. *)
PreviewAnsweredAny(c) ==
    /\ c.kind = "preview" /\ ValidFilter(c.filter)
    /\ calls' = calls \ {c}
    /\ shown' = Evaluated(c.filter)
    /\ previewing' = FALSE
    /\ UNCHANGED <<draft, ageText, savedFilter, timer, busy, failed, initialized, stored, edits,
                   faults, refused, crossed>>

(* POST filter/preview, answered; an outdated answer changes nothing. *)
PreviewAnswered(c) ==
    /\ c.kind = "preview" /\ ValidFilter(c.filter)
    /\ calls' = calls \ {c}
    /\ IF c.fresh THEN shown' = Evaluated(c.filter) /\ previewing' = FALSE
       ELSE UNCHANGED <<shown, previewing>>
    /\ UNCHANGED <<draft, ageText, savedFilter, timer, busy, failed, initialized, stored, edits,
                   faults, refused, crossed>>

(* Mutant of PreviewRefused: only an answer ends the evaluating message. *)
PreviewRefusedSilently(c) ==
    /\ c.kind = "preview" /\ ~ValidFilter(c.filter)
    /\ calls' = calls \ {c}
    /\ refused' = (refused \/ c.fresh)
    /\ UNCHANGED <<page, stored, edits, faults, crossed>>

(* The preview is refused, or the call fails. *)
PreviewRefused(c) ==
    /\ c.kind = "preview"
    /\ \/ ~ValidFilter(c.filter) /\ UNCHANGED faults
       \/ faults < MaxFaults /\ faults' = faults + 1
    /\ calls' = calls \ {c}
    /\ previewing' = (previewing /\ ~c.fresh)
    /\ refused' = (refused \/ c.fresh)
    /\ UNCHANGED <<draft, ageText, savedFilter, shown, timer, busy, failed, initialized, stored, edits, crossed>>

Answer ==
    \E c \in calls :
        \/ Serve(c)
        \/ SaveAnswered(c)
        \/ RemoveAnswered(c)
        \/ LoadAnswered(c)
        \/ CallFails(c)
        \/ PreviewAnswered(c)
        \/ PreviewRefused(c)

Next ==
    \/ Edit
    \/ EditAge
    \/ Save
    \/ Remove
    \/ Load
    \/ Reset
    \/ TimerFires
    \/ Answer

(* Timers fire and calls are answered; a user need not do anything. *)
Spec == Init /\ [][Next]_vars /\ WF_vars(TimerFires) /\ WF_vars(Answer)
-----------------------------------------------------------------------------
(* The preview is that of the draft on the screen, whatever order the      *)
(* answers come in, once nothing about it is on its way and it was not     *)
(* refused (requestGeneration, DesiredModelDetail.tsx).                    *)
PreviewMatches ==
    Open /\ ~timer /\ Fresh = {} /\ ~refused /\ Complete(draft) => shown = Evaluated(Canonical(draft))

(* When the user stops, neither the loading page nor the evaluating        *)
(* message stays.                                                          *)
PreviewSettles == <>[](~busy /\ ~previewing /\ ~timer)

(* What the page calls saved is what the server stores, as long as the     *)
(* user waits for each answer and no call fails half-way: nothing the      *)
(* answers overwrite, and no edit made meanwhile, changes that.            *)
SavedIsStored == initialized /\ ~crossed /\ Writing(calls) = {} => savedFilter = stored
=============================================================================
