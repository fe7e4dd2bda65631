-------------------------- MODULE ProviderFilters --------------------------
(***************************************************************************)
(* Provider filters: which of them the server accepts (schema.ts), which   *)
(* endpoints of a model pass one (evaluator.ts), and how old the endpoint  *)
(* data may be (freshness.ts).                                             *)
(*                                                                         *)
(* An endpoint is a function from fields to what OpenRouter says of it,    *)
(* Unset where it says nothing.  The percentiles and windows of one metric *)
(* are one field, and so are the prices; numbers are integers.  The value  *)
(* of a condition comes from a client as JSON, so it carries its type.     *)
(***************************************************************************)
EXTENDS Integers

CONSTANT Unset   \* a missing field or filter

NumberField == {"pricing", "performance", "uptime", "context"}

Field == NumberField \cup {"quantization", "supportedParameters", "supportsImplicitCaching", "provider.routingId"}

Comparison == {"lte", "gte", "eq"}

Membership == {"in", "notIn"}

(* fieldOperators, and the operators of the other fields. *)
Operators(field) ==
    CASE field = "pricing" -> Comparison
      [] field \in NumberField \ {"pricing"} -> {"lte", "gte"}
      [] field = "quantization" -> {"eq", "in"}
      [] field = "supportedParameters" -> {"contains"}
      [] field = "supportsImplicitCaching" -> {"eq", "exists"}
      [] field = "provider.routingId" -> Membership

NumberValue(n) == [type |-> "number", is |-> n]
TextValue(t) == [type |-> "string", is |-> t]
ArrayValue(S) == [type |-> "array", is |-> S]
BooleanValue(b) == [type |-> "boolean", is |-> b]

IsThreshold(field, value) ==
    /\ value.type = "number"
    /\ value.is >= 0
    /\ field = "uptime" => value.is <= 100

(* providerFilterConditionSchema.  A comparison needs a number, whatever   *)
(* the field holds.                                                        *)
ValidCondition(c) ==
    /\ c.operator \in Operators(c.field)
    /\ c.operator \in Membership => c.value.type = "array" /\ c.value.is # {}
    /\ c.operator = "contains" => c.value.type = "string"
    /\ c.operator \in Comparison => IsThreshold(c.field, c.value)

MinAge == 30
MaxAge == 24 * 60 * 60

(* providerFilterUpsertSchema; ages in seconds. *)
ValidFilter(filter) ==
    /\ \A c \in filter.conditions : ValidCondition(c)
    /\ filter.maxAge \in MinAge .. MaxAge

(* The comparison of evaluateCondition, for a value that is known. *)
Meets(actual, c) ==
    LET target == c.value
    IN  /\ c.operator = "contains" => target.is \in actual
        /\ c.operator = "in" => target.type = "array" /\ actual \in target.is
        /\ c.operator = "notIn" => target.type = "array" /\ actual \notin target.is
        /\ c.operator = "eq" => c.field \in NumberField /\ actual = target.is
        /\ c.operator = "lte" => actual <= target.is
        /\ c.operator = "gte" => actual >= target.is

(* Mutant of Passes: what is not known passes. *)
PassesUnknown(endpoint, c) == endpoint[c.field] = Unset \/ Meets(endpoint[c.field], c)

(* evaluateCondition: a condition on something unknown is not met. *)
Passes(endpoint, c) == endpoint[c.field] # Unset /\ Meets(endpoint[c.field], c)

Enabled(filter) == filter # Unset /\ filter.enabled

RoutingId(endpoint) == endpoint["provider.routingId"]

RoutingIds(endpoints) == {RoutingId(e) : e \in endpoints} \ {Unset}

(* evaluateProviderEndpoints: an endpoint that cannot be named to          *)
(* OpenRouter does not pass a filter. *)
Eligible(endpoints, filter) ==
    {e \in endpoints : Enabled(filter) =>
        /\ RoutingId(e) # Unset
        /\ \A c \in filter.conditions : c.enabled => Passes(e, c)}

(* isTelemetryFresh: data from the future is not fresh. *)
IsTelemetryFresh(age, maxAge) == age >= 0 /\ age <= maxAge
=============================================================================
