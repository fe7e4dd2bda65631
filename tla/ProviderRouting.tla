-------------------------- MODULE ProviderRouting --------------------------
(***************************************************************************)
(* How the provider constraint sent to OpenRouter is computed: a model     *)
(* policy or else the global one (modelPolicy.ts, resolver.ts), merged     *)
(* with the request's own (providerPolicy.ts), and, for a managed key with *)
(* a filter or an override, the intersection of every layer                *)
(* (managedRouting.ts).                                                    *)
(*                                                                         *)
(* A policy is reduced to only, ignore and order.  only and ignore are     *)
(* sets here: strict mode also refuses a request that lists the same       *)
(* providers in another order, which the model takes as equal.             *)
(***************************************************************************)
EXTENDS Integers, Sequences, FiniteSets

CONSTANTS
    Provider,   \* routing ids
    Unset       \* a missing field, policy, or list


Items(list) == {list[i] : i \in DOMAIN list}
Order == Seq(Provider)
ProviderSet == (SUBSET Provider) \cup {Unset}
Policy == [only : ProviderSet, ignore : ProviderSet, order : Order \cup {Unset}]

ASSUME ProviderAssumption ==
    /\ \A s \in SUBSET Provider : s # Unset
    /\ Unset \notin Order \cup Policy

NoPolicy == [only |-> Unset, ignore |-> Unset, order |-> Unset]

OrElse(a, b) == IF a # Unset THEN a ELSE b

(* compileModelPolicy: Unset where the global policy stays in force. *)
Compile(model) ==
    IF model = Unset \/ ~model.enabled \/ model.mode = "inherit" THEN Unset
    ELSE IF model.mode = "custom" THEN model.policy
    ELSE IF model.mode = "allowlist"
    THEN [only |-> model.providers, ignore |-> Unset,
          order |-> IF model.order = <<>> THEN Unset ELSE model.order]
    ELSE IF model.providers = {} THEN Unset
    ELSE [only |-> Unset, ignore |-> model.providers, order |-> Unset]

Enforced(global, model) == OrElse(Compile(model), global)

(* intersect of providerPolicy.ts: an empty list is no restriction. *)
SoftIntersect(a, b) == IF a = {} \/ b = {} THEN a ELSE a \cap b

(* The request's fields over the policy's; with --soft-enforce-only a      *)
(* request cannot replace only.                                            *)
Fill(policy, incoming, soft) ==
    [only |-> IF soft /\ policy.only # Unset /\ incoming.only # Unset
              THEN SoftIntersect(policy.only, incoming.only)
              ELSE OrElse(incoming.only, policy.only),
     ignore |-> OrElse(incoming.ignore, policy.ignore),
     order |-> OrElse(incoming.order, policy.order)]

(* Mutant of Differs: lists are not compared. *)
DiffersInOrder(policy, incoming) ==
    policy.order # Unset /\ incoming.order # Unset /\ policy.order # incoming.order

(* Strict mode: the request sets a field the policy sets to something else. *)
Differs(policy, incoming) ==
    \E f \in {"only", "ignore", "order"} :
        policy[f] # Unset /\ incoming[f] # Unset /\ policy[f] # incoming[f]

Conflict == [kind |-> "refuse", code |-> "ERR_PROVIDER_CONFLICT", stage |-> "none"]
Forward(policy) == [kind |-> "forward", provider |-> policy]
Refuse(code, stage) == [kind |-> "refuse", code |-> code, stage |-> stage]

(* applyProviderPolicy, and the request goes out as it came if there is    *)
(* nothing to enforce.                                                     *)
Merge(policy, incoming, mode, soft) ==
    IF policy = NoPolicy THEN Forward(incoming)
    ELSE IF incoming = Unset \/ mode = "override" THEN Forward(policy)
    ELSE IF mode = "strict" /\ Differs(policy, incoming) THEN Conflict
    ELSE Forward(Fill(policy, incoming, soft))

(* A constraint of managedRouting.ts: the providers left if known, and     *)
(* those ignored.                                                          *)
Visible(c) == IF c.only = Unset THEN Unset ELSE c.only \ c.ignore
Nobody(c) == Visible(c) = {}

ApplyOnly(c, only) ==
    IF only = Unset THEN c
    ELSE [c EXCEPT !.only = IF @ = Unset THEN only ELSE @ \cap only]

(* Mutant of AddIgnore: the last layer that ignores somebody wins. *)
IgnoreLast(c, ignored) == IF ignored = Unset THEN c ELSE [c EXCEPT !.ignore = ignored]

AddIgnore(c, ignored) ==
    IF ignored = Unset THEN c ELSE [c EXCEPT !.ignore = @ \cup ignored]

Narrow(c, policy) == AddIgnore(ApplyOnly(c, policy.only), policy.ignore)

HardLayer(available, eligible) == [only |-> OrElse(eligible, available), ignore |-> {}]

OverrideLayer(c, override) ==
    IF override = Unset THEN c
    ELSE IF override.mode = "allowlist" THEN ApplyOnly(c, override.providers)
    ELSE AddIgnore(c, override.providers)

(* The providers of a list that are left, in its order: the n-th is the    *)
(* one with n of them up to its place. *)
Shortened(list, left) ==
    LET kept == {i \in DOMAIN list : list[i] \in left}
        Upto(i) == {j \in kept : j <= i}
    IN  [n \in 1 .. Cardinality(kept) |-> list[CHOOSE i \in kept : Cardinality(Upto(i)) = n]]

(* The preferred order, cut down to the providers that are left. *)
OrderFor(c, override, enforced, incoming) ==
    LET source == IF override # Unset /\ override.order # <<>> THEN override.order
                  ELSE OrElse(enforced.order, incoming.order)
        left == OrElse(Visible(c), Provider \ c.ignore)
    IN  IF source = Unset \/ Shortened(source, left) = <<>> THEN Unset ELSE Shortened(source, left)

(* resolveManagedProviderRouting: every layer narrows the set, and the     *)
(* first one that leaves nobody refuses the request. *)
Resolve(available, eligible, override, policy, request, mode, soft) ==
    LET incoming == OrElse(request, NoPolicy)
        c0 == HardLayer(available, eligible)
        c1 == OverrideLayer(c0, override)
        c2 == Narrow(c1, policy)
        c3 == Narrow(c2, incoming)
    IN  IF Nobody(c0) THEN Refuse("NO_ELIGIBLE_PROVIDER", "hard_filter")
        ELSE IF Nobody(c1) THEN Refuse("NO_ELIGIBLE_PROVIDER", "access_key_override")
        ELSE IF Nobody(c2) THEN Refuse("NO_ELIGIBLE_PROVIDER", "model_policy")
        ELSE IF Nobody(c3) THEN Refuse("NO_ELIGIBLE_PROVIDER", "incoming")
        ELSE IF Merge(policy, request, mode, soft).kind = "refuse" THEN Conflict
        ELSE Forward([only |-> Visible(c3),
                      ignore |-> IF c3.ignore = {} THEN Unset ELSE c3.ignore,
                      order |-> OrderFor(c3, override, policy, incoming)])
=============================================================================
