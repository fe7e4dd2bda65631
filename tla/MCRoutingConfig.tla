-------------------------- MODULE MCRoutingConfig --------------------------
(* Samples of each layer over three providers, chosen so that layers       *)
(* overlap, exclude each other, list nobody, and leave fields out.         *)
EXTENDS RoutingConfig

CONSTANTS p1, p2, p3

Only(only) == [NoPolicy EXCEPT !.only = only]
Ignore(ignore) == [NoPolicy EXCEPT !.ignore = ignore]
Model(mode, providers, order) ==
    [mode |-> mode, providers |-> providers, order |-> order, policy |-> NoPolicy, enabled |-> TRUE]
Key(mode, providers, order) == [mode |-> mode, providers |-> providers, order |-> order]

MCProvider == {p1, p2, p3}
MCMode == {"merge", "override", "strict"}
MCGlobal == {NoPolicy, [Only({p1, p2}) EXCEPT !.order = <<p2, p1>>], Ignore({p1}), Only({})}
MCModel ==
    {Unset, Model("allowlist", {p2, p3}, <<p3, p2>>), Model("blocklist", {p2}, <<>>),
     Model("blocklist", {}, <<>>), [Model("allowlist", {p1}, <<>>) EXCEPT !.enabled = FALSE],
     [Model("custom", {}, <<>>) EXCEPT !.policy = [Only({p1, p3}) EXCEPT !.ignore = {p3}]]}
MCOverride ==
    {Unset, Key("allowlist", {p1, p2}, <<p2, p1>>), Key("allowlist", {p3}, <<>>), Key("blocklist", {p1}, <<>>)}
(* Endpoints: p1 fast and cheap, p2 slow and of unknown price, p3 with     *)
(* nothing known but its id, and one that has no id.                       *)
Unknown == [f \in Field |-> Unset]
Endpoint(id, speed, price) ==
    [Unknown EXCEPT !["provider.routingId"] = id, !["performance"] = speed, !["pricing"] = price]
E1 == [Endpoint(p1, 60, 1) EXCEPT !["supportedParameters"] = {"tools", "seed"},
           !["quantization"] = "fp8", !["supportsImplicitCaching"] = FALSE, !["uptime"] = 99]
E2 == [Endpoint(p2, 20, Unset) EXCEPT !["supportedParameters"] = {"seed"}, !["quantization"] = "fp16"]
E3 == Endpoint(p3, Unset, Unset)
Nameless == Endpoint(Unset, 60, 1)

Condition(field, operator, value) ==
    [field |-> field, operator |-> operator, value |-> value, enabled |-> TRUE]
FilterOn(conditions) == [enabled |-> TRUE, conditions |-> conditions, maxAge |-> 60]
Fast == Condition("performance", "gte", NumberValue(20))
Cheap == Condition("pricing", "lte", NumberValue(1))

MCFilter ==
    {FilterOn(S) : S \in {{Fast, [Cheap EXCEPT !.enabled = FALSE]},
                          {Condition("pricing", "eq", NumberValue(1)), Condition("supportedParameters", "contains", TextValue("tools"))},
                          {Cheap, Condition("quantization", "in", ArrayValue({"fp8"})), Condition("supportsImplicitCaching", "exists", BooleanValue(TRUE))},
                          {Condition("provider.routingId", "notIn", ArrayValue({p1}))},
                          {Condition("quantization", "eq", TextValue("fp8"))},
                          {Condition("uptime", "gte", NumberValue(101))}}}
    \cup {[FilterOn({Cheap}) EXCEPT !.enabled = FALSE]}
MCSnapshot ==
    {Unset} \cup [endpoints : {{E1, E2, Nameless}}, age : {30}]
    \cup [endpoints : {{E1, E2, E3}}, age : {-1, 30, 61}]
MCRequest ==
    {Unset, NoPolicy, [Only({p1, p3}) EXCEPT !.order = <<p3, p1>>], Only({p2}),
     [Ignore({p2}) EXCEPT !.order = <<p2, p3>>], [Only({p1, p2}) EXCEPT !.ignore = {p1}], Only({})}
MCDefaultPolicy == NoPolicy
=============================================================================
