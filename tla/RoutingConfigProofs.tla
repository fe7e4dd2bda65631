------------------------ MODULE RoutingConfigProofs ------------------------
(***************************************************************************)
(* What TLAPS proves of RoutingConfig, for all providers, policies,        *)
(* overrides, filters, endpoints and requests, and every number of faults. *)
(***************************************************************************)
EXTENDS RoutingConfig, FiniteSetTheorems, TLAPS

(***************************************************************************)
(* The preferred order.                                                    *)
(***************************************************************************)

(* Shortened keeps members of the list, and only those that are left. *)
LEMMA ShortenedItems ==
    ASSUME NEW list \in Order, NEW left
    PROVE  Shortened(list, left) \in Order /\ Items(Shortened(list, left)) \subseteq left
  <1> DEFINE kept == {i \in DOMAIN list : list[i] \in left}
             Upto(i) == {j \in kept : j <= i}
             c == Cardinality(kept)
             rank == [i \in kept |-> Cardinality(Upto(i))]
             place(n) == CHOOSE i \in kept : Cardinality(Upto(i)) = n
  <1>1. PICK l \in Nat : DOMAIN list = 1 .. l
    BY DEF Order
  <1>2. \A i \in kept : i \in Nat /\ i \in DOMAIN list /\ list[i] \in left /\ list[i] \in Provider
    BY <1>1 DEF Order
  <1>3. IsFiniteSet(kept) /\ c \in Nat
    <2>1. IsFiniteSet(1 .. l) /\ kept \subseteq 1 .. l
      BY <1>1, FS_Interval, 1 \in Int, l \in Int
    <2> QED
      BY <2>1, FS_Subset, FS_CardinalityType
  <1> HIDE DEF kept
  <1>4. \A i \in kept : IsFiniteSet(Upto(i)) /\ Cardinality(Upto(i)) \in 1 .. c
    <2> TAKE i \in kept
    <2>1. Upto(i) \subseteq kept /\ {i} \subseteq Upto(i)
      BY <1>2
    <2>2. IsFiniteSet(Upto(i)) /\ Cardinality(Upto(i)) <= c /\ Cardinality(Upto(i)) \in Nat
      BY <1>3, <2>1, FS_Subset, FS_CardinalityType
    <2>3. Cardinality({i}) = 1 /\ Cardinality({i}) <= Cardinality(Upto(i))
      BY <2>1, <2>2, FS_Subset, FS_Singleton
    <2> QED
      BY <1>3, <2>2, <2>3
  <1>5. \A i, j \in kept : i < j => Cardinality(Upto(i)) < Cardinality(Upto(j))
    <2> SUFFICES ASSUME NEW i \in kept, NEW j \in kept, i < j
                 PROVE  Cardinality(Upto(i)) < Cardinality(Upto(j))
      OBVIOUS
    <2>1. Upto(i) \subseteq Upto(j) /\ j \in Upto(j) /\ j \notin Upto(i)
      BY <1>2
    <2>2. /\ Cardinality(Upto(i)) <= Cardinality(Upto(j))
          /\ Cardinality(Upto(j)) # Cardinality(Upto(i))
      BY <1>4, <2>1, FS_Subset
    <2>3. Cardinality(Upto(i)) \in Nat /\ Cardinality(Upto(j)) \in Nat
      <3>1. \A n \in 1 .. c : n \in Nat
        BY <1>3
      <3> QED
        BY <1>4, <3>1
    <2> QED
      BY <2>2, <2>3
  <1> HIDE DEF Upto
  <1>6. rank \in Injection(kept, 1 .. c)
    <2>1. rank \in [kept -> 1 .. c]
      BY <1>4
    <2>2. ASSUME NEW i \in kept, NEW j \in kept, rank[i] = rank[j], i # j
          PROVE  FALSE
      <3>1. i < j \/ j < i
        BY <1>2, <2>2
      <3>2. Cardinality(Upto(i)) = Cardinality(Upto(j)) /\ Cardinality(Upto(i)) \in Nat
        BY <1>4, <2>2
      <3> QED
        BY <1>5, <3>1, <3>2
    <2> QED
      BY <2>1, <2>2 DEF Injection, IsInjective
  <1>7. \A n \in 1 .. c : \E i \in kept : Cardinality(Upto(i)) = n
    <2> DEFINE ranks == {Cardinality(Upto(i)) : i \in kept}
    <2>1. rank \in Bijection(kept, ranks)
      BY <1>6 DEF Injection, IsInjective, Surjection, Bijection
    <2>2. IsFiniteSet(ranks) /\ Cardinality(ranks) = c
      BY <1>3, <2>1, FS_Bijection DEF ExistsBijection
    <2>3. ranks \subseteq 1 .. c
      BY <1>4
    <2>4. IsFiniteSet(1 .. c) /\ Cardinality(1 .. c) = c
      <3>1. IsFiniteSet(1 .. c) /\ Cardinality(1 .. c) = IF 1 > c THEN 0 ELSE c - 1 + 1
        BY <1>3, FS_Interval, 1 \in Int, c \in Int
      <3> QED
        BY <1>3, <3>1
    <2>5. ranks = 1 .. c
      BY <2>2, <2>3, <2>4, FS_Subset
    <2> QED
      BY <2>5
  <1>8. \A n \in 1 .. c : place(n) \in kept
    BY <1>7
  <1> HIDE DEF place, c
  <1>9. Shortened(list, left) = [n \in 1 .. c |-> list[place(n)]]
    BY DEF Shortened, place, c, kept, Upto
  <1>10. Shortened(list, left) \in [1 .. c -> Provider]
    BY <1>2, <1>8, <1>9
  <1> QED
    BY <1>2, <1>3, <1>8, <1>9, <1>10 DEF Order, Items
-----------------------------------------------------------------------------
(***************************************************************************)
(* The layers.                                                             *)
(***************************************************************************)
Constraint == [only : ProviderSet, ignore : SUBSET Provider]

(* Who is left under a constraint, a list that is not there being everyone. *)
Left(c) == OrElse(c.only, Provider) \ c.ignore

(* A list of providers is not a missing one. *)
LEMMA SetsAreSet == \A s \in SUBSET Provider : s # Unset /\ OrElse(s, Provider) = s
  BY ProviderAssumption DEF OrElse

(* A missing list is everyone. *)
LEMMA MissingIsAll == OrElse(Unset, Provider) = Provider
  BY DEF OrElse

(* What a constraint shows is who is left. *)
LEMMA VisibleIsLeft ==
    ASSUME NEW c \in Constraint
    PROVE  /\ Visible(c) \in ProviderSet
           /\ (Visible(c) = Unset) <=> (c.only = Unset)
           /\ OrElse(Visible(c), Provider) \ c.ignore = Left(c)
           /\ OrElse(Visible(c), Provider \ c.ignore) = Left(c)
  BY ProviderAssumption DEF Visible, Left, OrElse, Constraint, ProviderSet

(* ApplyOnly narrows to the list. *)
LEMMA ApplyOnlyNarrows ==
    ASSUME NEW c \in Constraint, NEW only \in ProviderSet
    PROVE  /\ ApplyOnly(c, only) \in Constraint
           /\ Left(ApplyOnly(c, only)) = Left(c) \cap OrElse(only, Provider)
  <1>1. CASE only = Unset
    BY <1>1 DEF ApplyOnly, Left, OrElse, Constraint, ProviderSet
  <1>2. CASE only # Unset
    <2> DEFINE new == IF c.only = Unset THEN only ELSE c.only \cap only
    <2>1. new \in SUBSET Provider /\ new # Unset
      BY <1>2, ProviderAssumption DEF Constraint, ProviderSet
    <2>2. new = OrElse(c.only, Provider) \cap only
      BY <1>2 DEF OrElse, ProviderSet
    <2> HIDE DEF new
    <2>3. ApplyOnly(c, only) = [c EXCEPT !.only = new]
      BY <1>2 DEF ApplyOnly, new
    <2>4. ApplyOnly(c, only) \in Constraint /\ ApplyOnly(c, only).only = new
          /\ ApplyOnly(c, only).ignore = c.ignore
      BY <2>1, <2>3 DEF Constraint, ProviderSet
    <2> QED
      BY <1>2, <2>1, <2>2, <2>4 DEF Left, OrElse
  <1> QED
    BY <1>1, <1>2

(* AddIgnore takes the list away. *)
LEMMA AddIgnoreNarrows ==
    ASSUME NEW c \in Constraint, NEW ignored \in ProviderSet
    PROVE  /\ AddIgnore(c, ignored) \in Constraint
           /\ Left(AddIgnore(c, ignored)) = Left(c) \ (IF ignored = Unset THEN {} ELSE ignored)
  BY DEF AddIgnore, Left, Constraint, ProviderSet

(* A policy narrows to what it permits. *)
LEMMA PolicyNarrows ==
    ASSUME NEW c \in Constraint, NEW p \in Policy
    PROVE  /\ Narrow(c, p) \in Constraint
           /\ Left(Narrow(c, p)) = Left(c) \cap Permits(p)
  <1>1. p # Unset /\ p.only \in ProviderSet /\ p.ignore \in ProviderSet
    BY ProviderAssumption DEF Policy
  <1>2. Permits(p) = OrElse(p.only, Provider) \ (IF p.ignore = Unset THEN {} ELSE p.ignore)
    BY <1>1 DEF Permits, OrElse
  <1>3. /\ ApplyOnly(c, p.only) \in Constraint
        /\ Left(ApplyOnly(c, p.only)) = Left(c) \cap OrElse(p.only, Provider)
    BY <1>1, ApplyOnlyNarrows
  <1>4. /\ Narrow(c, p) \in Constraint
        /\ Left(Narrow(c, p)) =
               Left(ApplyOnly(c, p.only)) \ (IF p.ignore = Unset THEN {} ELSE p.ignore)
    BY <1>1, <1>3, AddIgnoreNarrows DEF Narrow
  <1> QED
    BY <1>2, <1>3, <1>4

(* Whom the override of a key permits. *)
Allowed(o) ==
    IF o = Unset THEN Provider
    ELSE IF o.mode = "allowlist" THEN o.providers ELSE Provider \ o.providers

(* So does the override of a key. *)
LEMMA OverrideNarrows ==
    ASSUME NEW c \in Constraint, NEW o \in Override
    PROVE  /\ OverrideLayer(c, o) \in Constraint
           /\ Left(OverrideLayer(c, o)) = Left(c) \cap Allowed(o)
  <1>1. CASE o = Unset
    BY <1>1, ProviderAssumption DEF OverrideLayer, Allowed, Left, OrElse, Constraint, ProviderSet
  <1>2. CASE o # Unset
    <2>1. /\ o.providers \in SUBSET Provider /\ o.providers \in ProviderSet
          /\ o.providers # Unset /\ OrElse(o.providers, Provider) = o.providers
      BY <1>2, RoutingAssumption, SetsAreSet DEF ProviderSet
    <2>2. Left(c) \subseteq Provider
      BY DEF Left, OrElse, Constraint, ProviderSet
    <2>3. CASE o.mode = "allowlist"
      BY <1>2, <2>1, <2>3, ApplyOnlyNarrows DEF OverrideLayer, Allowed
    <2>4. CASE o.mode # "allowlist"
      BY <1>2, <2>1, <2>2, <2>4, AddIgnoreNarrows DEF OverrideLayer, Allowed
    <2> QED
      BY <2>3, <2>4
  <1> QED
    BY <1>1, <1>2

(* Nobody is left when the list shown is empty. *)
LEMMA NobodyIsLeft ==
    ASSUME NEW c \in Constraint
    PROVE  /\ Nobody(c) => Left(c) = {}
           /\ c.only # Unset /\ Left(c) = {} => Nobody(c)
  BY VisibleIsLeft, SetsAreSet, ProviderAssumption
     DEF Nobody, Visible, Left, OrElse, Constraint, ProviderSet

(* The order sent is a list of providers that are left. *)
LEMMA OrderIsLeft ==
    ASSUME NEW c \in Constraint, NEW o \in Override,
           NEW enforced \in Policy, NEW incoming \in Policy
    PROVE  /\ OrderFor(c, o, enforced, incoming) \in Order \cup {Unset}
           /\ OrderFor(c, o, enforced, incoming) # Unset =>
                  Items(OrderFor(c, o, enforced, incoming)) \subseteq Left(c)
  <1> DEFINE source == IF o # Unset /\ o.order # <<>> THEN o.order
                       ELSE OrElse(enforced.order, incoming.order)
             left == OrElse(Visible(c), Provider \ c.ignore)
  <1>1. source \in Order \cup {Unset}
    BY RoutingAssumption DEF Policy, OrElse
  <1>2. left = Left(c)
    BY VisibleIsLeft
  <1>3. OrderFor(c, o, enforced, incoming) =
            IF source = Unset \/ Shortened(source, left) = <<>> THEN Unset ELSE Shortened(source, left)
    BY DEF OrderFor
  <1> HIDE DEF source, left
  <1> QED
    BY <1>1, <1>2, <1>3, ShortenedItems

(* What goes out permits exactly whom c leaves. *)
LEMMA SentIsLeft ==
    ASSUME NEW c \in Constraint, NEW order \in Order \cup {Unset}
    PROVE  LET sent == [only |-> Visible(c), ignore |-> IF c.ignore = {} THEN Unset ELSE c.ignore,
                        order |-> order]
           IN  sent \in Policy /\ Permits(sent) = Left(c)
  <1> DEFINE ignore == IF c.ignore = {} THEN Unset ELSE c.ignore
             sent == [only |-> Visible(c), ignore |-> ignore, order |-> order]
  <1>1. ignore \in ProviderSet /\ c.ignore = IF ignore = Unset THEN {} ELSE ignore
    BY ProviderAssumption DEF Constraint, ProviderSet
  <1>2. Visible(c) \in ProviderSet /\ OrElse(Visible(c), Provider) \ c.ignore = Left(c)
    BY VisibleIsLeft
  <1> HIDE DEF ignore
  <1>3. sent \in Policy /\ sent # Unset
    BY <1>1, <1>2, ProviderAssumption DEF Policy
  <1>4. Permits(sent) = OrElse(Visible(c), Provider) \ (IF ignore = Unset THEN {} ELSE ignore)
    BY <1>3 DEF Permits, OrElse
  <1>5. Permits(sent) = Left(c)
    BY <1>1, <1>2, <1>4
  <1> QED
    BY <1>3, <1>5 DEF ignore

(* resolveManagedProviderRouting: what it lets out permits exactly whom    *)
(* every layer permits, names somebody, prefers only those, and does not   *)
(* conflict with the policy.                                               *)
ResolvedExactly(answer, available, eligible, o, enforced, request, mode, soften) ==
    /\ answer.provider \in Policy
    /\ Permits(answer.provider) =
           OrElse(OrElse(eligible, available), Provider) \cap Allowed(o)
               \cap Permits(enforced) \cap Permits(request)
    /\ answer.provider.only # {}
    /\ answer.provider.order # Unset =>
           Items(answer.provider.order) \subseteq Permits(answer.provider)
    /\ Merge(enforced, request, mode, soften).kind # "refuse"

(* So it is, whatever the layers are. *)
LEMMA ResolveIsExact ==
    ASSUME NEW available \in ProviderSet, NEW eligible \in ProviderSet, NEW o \in Override,
           NEW enforced \in Policy, NEW request \in Request, NEW mode, NEW soften,
           Forwards(Resolve(available, eligible, o, enforced, request, mode, soften))
    PROVE  ResolvedExactly(Resolve(available, eligible, o, enforced, request, mode, soften),
                           available, eligible, o, enforced, request, mode, soften)
  <1> DEFINE incoming == OrElse(request, NoPolicy)
             c0 == HardLayer(available, eligible)
             c1 == OverrideLayer(c0, o)
             c2 == Narrow(c1, enforced)
             c3 == Narrow(c2, incoming)
             order == OrderFor(c3, o, enforced, incoming)
             sent == [only |-> Visible(c3), ignore |-> IF c3.ignore = {} THEN Unset ELSE c3.ignore,
                      order |-> order]
  <1>1. c0 \in Constraint /\ Left(c0) = OrElse(OrElse(eligible, available), Provider)
    BY DEF HardLayer, Constraint, Left, OrElse
  <1>2. incoming \in Policy /\ Permits(incoming) = Permits(request)
    <2>1. NoPolicy \in Policy /\ NoPolicy # Unset /\ Permits(NoPolicy) = Provider
      BY ProviderAssumption DEF NoPolicy, Policy, ProviderSet, Permits
    <2>2. CASE request = Unset
      BY <2>1, <2>2 DEF OrElse, Permits
    <2>3. CASE request # Unset
      BY <2>3, RoutingAssumption DEF OrElse
    <2> QED
      BY <2>2, <2>3
  <1> HIDE DEF incoming, c0
  <1>3. c1 \in Constraint /\ Left(c1) = Left(c0) \cap Allowed(o)
    BY <1>1, OverrideNarrows
  <1> HIDE DEF c1
  <1>4. c2 \in Constraint /\ Left(c2) = Left(c1) \cap Permits(enforced)
    BY <1>3, PolicyNarrows
  <1> HIDE DEF c2
  <1>5. c3 \in Constraint /\ Left(c3) = Left(c2) \cap Permits(request)
    BY <1>2, <1>4, PolicyNarrows
  <1> HIDE DEF c3
  <1>6. /\ order \in Order \cup {Unset}
        /\ order # Unset => Items(order) \subseteq Left(c3)
    BY <1>2, <1>5, OrderIsLeft
  <1> HIDE DEF order
  <1>7. sent \in Policy /\ Permits(sent) = Left(c3)
    BY <1>5, <1>6, SentIsLeft
  <1>8. /\ ~Nobody(c3) /\ Merge(enforced, request, mode, soften).kind # "refuse"
        /\ Resolve(available, eligible, o, enforced, request, mode, soften) = Forward(sent)
    BY DEF Resolve, Forwards, Refuse, Conflict, incoming, c0, c1, c2, c3, order
  <1>9. Visible(c3) # {}
    BY <1>8 DEF Nobody
  <1>10. sent.only = Visible(c3) /\ sent.order = order
    OBVIOUS
  <1> HIDE DEF sent
  <1>11. Forward(sent).provider = sent
    BY DEF Forward
  <1> QED
    BY <1>1, <1>3, <1>4, <1>5, <1>6, <1>7, <1>8, <1>9, <1>10, <1>11 DEF ResolvedExactly
-----------------------------------------------------------------------------
(***************************************************************************)
(* The merge.                                                              *)
(***************************************************************************)

(* What Permits says of a policy that is there, list by list. *)
LEMMA PermitsLists ==
    ASSUME NEW p \in Policy
    PROVE  Permits(p) = OrElse(p.only, Provider) \ (IF p.ignore = Unset THEN {} ELSE p.ignore)
  BY ProviderAssumption DEF Permits, OrElse

(* A policy that says nothing permits everyone, as a missing one does. *)
LEMMA NoPolicyPermits ==
    /\ NoPolicy \in Policy
    /\ NoPolicy # Unset
    /\ Permits(NoPolicy) = Provider
    /\ Permits(Unset) = Provider
    /\ \A p \in Policy \cup {Unset} : OrElse(p, NoPolicy) \in Policy
                                      /\ Permits(OrElse(p, NoPolicy)) = Permits(p)
  BY ProviderAssumption DEF NoPolicy, Policy, ProviderSet, Permits, OrElse

(* Filling in gives a policy; in strict mode, one within the enforced one. *)
LEMMA FillWithin ==
    ASSUME NEW enforced \in Policy, NEW incoming \in Policy, NEW soften
    PROVE  /\ Fill(enforced, incoming, soften) \in Policy
           /\ ~Differs(enforced, incoming) =>
                  Permits(Fill(enforced, incoming, soften)) \subseteq Permits(enforced)
  <1> DEFINE sent == Fill(enforced, incoming, soften)
  <1>1. /\ \A f \in {"only", "ignore"} : enforced[f] \in ProviderSet /\ incoming[f] \in ProviderSet
        /\ enforced.order \in Order \cup {Unset} /\ incoming.order \in Order \cup {Unset}
    BY DEF Policy
  <1>2. sent.only \in ProviderSet
    <2>1. \A x, y \in ProviderSet \ {Unset} : SoftIntersect(x, y) \in ProviderSet
      BY DEF SoftIntersect, ProviderSet
    <2> QED
      BY <1>1, <2>1 DEF Fill, OrElse
  <1>3. sent.ignore \in ProviderSet /\ sent.order \in Order \cup {Unset}
    BY <1>1 DEF Fill, OrElse
  <1>4. sent \in Policy
    BY <1>2, <1>3 DEF Fill, Policy
  <1>5. ASSUME ~Differs(enforced, incoming)
        PROVE  Permits(sent) \subseteq Permits(enforced)
    <2>1. \A f \in {"only", "ignore"} :
              enforced[f] # Unset /\ incoming[f] # Unset => enforced[f] = incoming[f]
      BY <1>5 DEF Differs
    <2>2. enforced.only # Unset => sent.only = enforced.only
      BY <2>1 DEF Fill, OrElse, SoftIntersect
    <2>3. enforced.ignore # Unset => sent.ignore = enforced.ignore
      BY <2>1 DEF Fill, OrElse
    <2>4. OrElse(sent.only, Provider) \subseteq OrElse(enforced.only, Provider)
      <3>1. OrElse(sent.only, Provider) \subseteq Provider
        BY <1>2 DEF OrElse, ProviderSet
      <3> QED
        BY <2>2, <3>1 DEF OrElse
    <2> QED
      BY <1>4, <2>3, <2>4, PermitsLists
  <1> QED
    BY <1>4, <1>5

(* Merging gives a policy or none, in strict mode within the enforced one. *)
LEMMA MergeWithin ==
    ASSUME NEW enforced \in Policy, NEW request \in Request, NEW mode, NEW soften,
           Forwards(Merge(enforced, request, mode, soften))
    PROVE  /\ Merge(enforced, request, mode, soften).provider \in Policy \cup {Unset}
           /\ mode = "strict" =>
                  Permits(Merge(enforced, request, mode, soften).provider) \subseteq Permits(enforced)
  <1> DEFINE sent == Merge(enforced, request, mode, soften).provider
  <1>1. \A p : Forward(p).provider = p
    BY DEF Forward
  <1>2. request = Unset \/ request \in Policy
    BY RoutingAssumption
  <1>3. \A p \in Policy \cup {Unset} : Permits(p) \subseteq Provider
    BY PermitsLists, NoPolicyPermits DEF Policy, ProviderSet, OrElse
  <1>4. CASE enforced = NoPolicy
    BY <1>1, <1>2, <1>3, <1>4, NoPolicyPermits DEF Merge
  <1>5. CASE enforced # NoPolicy /\ (request = Unset \/ mode = "override")
    BY <1>1, <1>5 DEF Merge
  <1>6. CASE enforced # NoPolicy /\ request # Unset /\ mode # "override"
    <2>1. Conflict.kind # "forward"
      BY DEF Conflict
    <2>2. /\ Merge(enforced, request, mode, soften) = Forward(Fill(enforced, request, soften))
          /\ mode = "strict" => ~Differs(enforced, request)
      BY <1>6, <2>1 DEF Merge, Forwards
    <2> QED
      BY <1>1, <1>2, <1>6, <2>2, FillWithin
  <1> QED
    BY <1>4, <1>5, <1>6
-----------------------------------------------------------------------------
(***************************************************************************)
(* The filter.                                                             *)
(***************************************************************************)

(* A condition the server accepted keeps its promise for every endpoint    *)
(* that passes it.                                                         *)
LEMMA PassesIsPromised ==
    ASSUME NEW e, IsEndpoint(e), NEW c, ValidCondition(c), c.field \in Field,
           c.value.type = "number" => c.value.is \in Int, Passes(e, c)
    PROVE  Promised(e, c)
  <1> DEFINE v == e[c.field]
  <1>1. v # Unset /\ Meets(v, c)
    BY DEF Passes
  <1>2. c.operator \in Operators(c.field)
    BY DEF ValidCondition
  <1>3. CASE c.field \in NumberField
    <2>1. v \in Int
      BY <1>1, <1>3 DEF IsEndpoint
    <2>2. c.operator \in Comparison
      <3>1. CASE c.field = "pricing"
        BY <1>2, <3>1 DEF Operators
      <3>2. CASE c.field # "pricing"
        <4>1. c.field \in NumberField \ {"pricing"}
          BY <1>3, <3>2
        <4>2. c.operator \in {"lte", "gte"}
          BY <1>2, <4>1 DEF Operators, NumberField
        <4> QED
          BY <4>2 DEF Comparison
      <3> QED
        BY <3>1, <3>2
    <2>3. c.value.is \in Int
      BY <2>2 DEF ValidCondition, IsThreshold
    <2>4. CASE c.operator = "lte"
      <3>1. ~(c.value.is < v)
        BY <1>1, <2>1, <2>3, <2>4 DEF Meets
      <3> QED
        BY <1>1, <2>4, <3>1 DEF Promised
    <2>5. CASE c.operator = "gte"
      <3>1. ~(v < c.value.is)
        BY <1>1, <2>1, <2>3, <2>5 DEF Meets
      <3> QED
        BY <1>1, <2>5, <3>1 DEF Promised
    <2>6. CASE c.operator = "eq"
      BY <1>1, <2>6 DEF Promised, Meets
    <2> QED
      BY <2>2, <2>4, <2>5, <2>6 DEF Comparison
  <1>4. CASE c.field = "quantization"
    <2>1. c.operator \in {"eq", "in"}
      BY <1>2, <1>4 DEF Operators, NumberField
    <2> QED
      BY <1>1, <1>4, <2>1 DEF Promised, Meets, NumberField
  <1>5. CASE c.field = "supportedParameters"
    <2>1. c.operator = "contains"
      BY <1>2, <1>5 DEF Operators, NumberField
    <2> QED
      BY <1>1, <1>5, <2>1 DEF Promised, Meets
  <1>6. CASE c.field = "supportsImplicitCaching"
    <2>1. c.operator \in {"eq", "exists"}
      BY <1>2, <1>6 DEF Operators, NumberField
    <2>2. v \in BOOLEAN
      BY <1>1, <1>6 DEF IsEndpoint
    <2> QED
      BY <1>1, <1>6, <2>1, <2>2 DEF Promised, Meets, NumberField
  <1>7. CASE c.field = "provider.routingId"
    <2>1. c.operator \in {"in", "notIn"}
      BY <1>2, <1>7 DEF Operators, NumberField, Membership
    <2> QED
      BY <1>1, <1>7, <2>1 DEF Promised, Meets
  <1> QED
    BY <1>3, <1>4, <1>5, <1>6, <1>7 DEF Field, NumberField
-----------------------------------------------------------------------------
(***************************************************************************)
(* The invariant.                                                          *)
(***************************************************************************)

(* Memory and files agree with what was acknowledged until a fault, and a  *)
(* filter in force was accepted.                                           *)
RoutingInv ==
    /\ TypeOK
    /\ filter # Unset => ValidFilter(filter)
    /\ up /\ "settings" \notin unread => settings = OrElse(settingsFile, Defaults)
    /\ faults = 0 => policyFile = acked /\ unread = {} /\ (up => policy = policyFile)

(* The defaults are in force. *)
LEMMA RoutingInit == Init => RoutingInv
  BY RoutingAssumption DEF Init, RoutingInv, TypeOK, Settings, Defaults, OrElse

(* Every step keeps the invariant. *)
LEMMA RoutingStep ==
    ASSUME RoutingInv, [Next]_vars
    PROVE  RoutingInv'
  <1> USE DEF routing
  <1>1. /\ Unset \notin Settings /\ Defaults \in Settings /\ MaxFaults \in Nat
        /\ Unset \in ModelPolicy
    BY RoutingAssumption DEF Settings, Defaults
  <1>2. faults \in Nat /\ \A n \in Nat : n + 1 # 0
    BY <1>1 DEF RoutingInv, TypeOK
  <1>3. Fault => faults' \in 0 .. MaxFaults /\ faults' # 0
    BY <1>1, <1>2 DEF Fault, RoutingInv, TypeOK
  <1>4. ASSUME NEW s \in Settings, PutSettings(s)
        PROVE  RoutingInv'
    BY <1>1, <1>3, <1>4 DEF PutSettings, RoutingInv, TypeOK, OrElse
  <1>5. ASSUME NEW m \in ModelPolicy, PutPolicy(m)
        PROVE  RoutingInv'
    BY <1>1, <1>3, <1>5 DEF PutPolicy, RoutingInv, TypeOK
  <1>6. ASSUME NEW f \in Filter \cup {Unset}, PutFilter(f)
        PROVE  RoutingInv'
    BY <1>6 DEF PutFilter, RoutingInv, TypeOK
  <1>7. ASSUME NEW o \in Override, PutOverride(o)
        PROVE  RoutingInv'
    BY <1>7 DEF PutOverride, RoutingInv, TypeOK
  <1>8. ASSUME NEW s \in Snapshot, Refresh(s)
        PROVE  RoutingInv'
    BY <1>8 DEF Refresh, RoutingInv, TypeOK
  <1>9. CASE Crash
    BY <1>1, <1>9 DEF Crash, RoutingInv, TypeOK
  <1>10. CASE Restart
    BY <1>1, <1>3, <1>10 DEF Restart, RoutingInv, TypeOK, OrElse
  <1>11. CASE UNCHANGED vars
    BY <1>11 DEF vars, RoutingInv, TypeOK
  <1> QED
    BY <1>4, <1>5, <1>6, <1>7, <1>8, <1>9, <1>10, <1>11 DEF Next

(* The invariant holds in every reachable state. *)
LEMMA RoutingInvHolds == Spec => []RoutingInv
  BY RoutingInit, RoutingStep, PTL DEF Spec

(* Every layer is what the lemmas about layers ask for. *)
LEMMA LayersTyped ==
    ASSUME RoutingInv
    PROVE  /\ InForce \in Policy
           /\ AvailableIds \in ProviderSet
           /\ snapshot # Unset => EligibleIds \in ProviderSet /\ EligibleIds \in SUBSET Provider
           /\ OverridePermits = Allowed(override) /\ override \in Override
  <1>1. InForce \in Policy
    <2>1. settings.global \in Policy
      BY RoutingAssumption DEF RoutingInv, TypeOK, Settings
    <2>2. Compile(policy) \in Policy \cup {Unset}
      <3>1. CASE policy = Unset
        BY <3>1 DEF Compile
      <3>2. CASE policy # Unset
        <4>1. policy.providers \in SUBSET Provider /\ policy.order \in Order /\ policy.policy \in Policy
          BY <3>2, RoutingAssumption DEF RoutingInv, TypeOK
        <4> QED
          BY <4>1 DEF Compile, Policy, ProviderSet
      <3> QED
        BY <3>1, <3>2
    <2> QED
      BY <2>1, <2>2 DEF InForce, Enforced, OrElse
  <1>2. \A e : snapshot # Unset /\ e \in snapshot.endpoints => RoutingId(e) \in Provider \cup {Unset}
    BY RoutingAssumption DEF RoutingInv, TypeOK, IsEndpoint
  <1>3. AvailableIds \in ProviderSet
    BY <1>2 DEF AvailableIds, RoutingIds, ProviderSet
  <1>4. snapshot # Unset => EligibleIds \in SUBSET Provider
    BY <1>2 DEF EligibleIds, Passing, Eligible, RoutingIds
  <1> QED
    BY <1>1, <1>3, <1>4 DEF ProviderSet, OverridePermits, Allowed, RoutingInv, TypeOK

(* The providers a filter lets pass, or none. *)
Hard == IF Filtered THEN EligibleIds ELSE Unset

(* A managed request that goes out was resolved, on data the filter may    *)
(* use.                                                                    *)
LEMMA ManagedForwards ==
    ASSUME RoutingInv, NEW request \in Request, Filtered \/ override # Unset,
           Forwards(Managed(request))
    PROVE  /\ ResolvedExactly(Managed(request), AvailableIds, Hard, override, InForce, request,
                              settings.mode, soft)
           /\ Filtered => FilterData
  <1>1. Filtered => FilterData
    BY DEF Managed, Forwards, NoFilterData, Refuse
  <1>2. Hard \in ProviderSet
    BY <1>1, LayersTyped DEF Hard, FilterData, ProviderSet
  <1>3. Managed(request) =
            Resolve(AvailableIds, Hard, override, InForce, request, settings.mode, soft)
    BY <1>1 DEF Managed, Hard
  <1>4. /\ AvailableIds \in ProviderSet /\ override \in Override /\ InForce \in Policy
    BY LayersTyped
  <1> HIDE DEF Hard
  <1> QED
    BY <1>1, <1>2, <1>3, <1>4, ResolveIsExact

(* A request without a managed key that goes out was merged; one that a    *)
(* filter narrows keeps what the merge forbids.                            *)
LEMMA PassthroughForwards ==
    ASSUME RoutingInv, NEW request \in Request, Forwards(Passthrough(request))
    PROVE  /\ Forwards(Unfiltered(request))
           /\ ~Filtered => Passthrough(request) = Unfiltered(request)
           /\ Filtered => /\ FilterData
                          /\ Permits(Passthrough(request).provider) \subseteq EligibleIds
                          /\ Permits(Passthrough(request).provider) \subseteq
                                 Permits(Unfiltered(request).provider)
  <1> DEFINE merged == Unfiltered(request)
             sent == OrElse(merged.provider, NoPolicy)
             left == IF sent.only = Unset THEN EligibleIds ELSE EligibleIds \cap sent.only
  <1>1. Forwards(merged)
    BY DEF Passthrough, Forwards, NoFilterData, Refuse, Forward, Unfiltered, Merge, Conflict
  <1>2. ~Filtered => Passthrough(request) = merged
    BY DEF Passthrough
  <1>3. ASSUME Filtered
        PROVE  /\ FilterData
               /\ Permits(Passthrough(request).provider) \subseteq EligibleIds
               /\ Permits(Passthrough(request).provider) \subseteq Permits(merged.provider)
    <2>1. FilterData /\ Passthrough(request) = Forward([sent EXCEPT !.only = left])
      BY <1>1, <1>3 DEF Passthrough, Forwards, NoFilterData, Refuse
    <2>2. merged.provider \in Policy \cup {Unset}
      BY <1>1, LayersTyped, MergeWithin DEF Unfiltered
    <2>3. sent \in Policy /\ Permits(sent) = Permits(merged.provider)
      BY <2>2, NoPolicyPermits
    <2>4. EligibleIds \in SUBSET Provider
      BY <2>1, LayersTyped DEF FilterData
    <2> HIDE DEF merged, sent
    <2>5. /\ left \in SUBSET Provider /\ left \subseteq EligibleIds
          /\ left \subseteq OrElse(sent.only, Provider)
      BY <2>3, <2>4 DEF Policy, ProviderSet, OrElse
    <2> HIDE DEF left
    <2>6. /\ [sent EXCEPT !.only = left] \in Policy
          /\ [sent EXCEPT !.only = left].only = left
          /\ [sent EXCEPT !.only = left].ignore = sent.ignore
      BY <2>3, <2>5 DEF Policy, ProviderSet
    <2>7. Permits([sent EXCEPT !.only = left]) =
              left \ (IF sent.ignore = Unset THEN {} ELSE sent.ignore)
      BY <2>5, <2>6, PermitsLists, SetsAreSet
    <2>8. Permits(sent) = OrElse(sent.only, Provider) \ (IF sent.ignore = Unset THEN {} ELSE sent.ignore)
      BY <2>3, PermitsLists
    <2>9. Forward([sent EXCEPT !.only = left]).provider = [sent EXCEPT !.only = left]
      BY DEF Forward
    <2>10. Passthrough(request).provider = [sent EXCEPT !.only = left]
      BY <2>1, <2>9
    <2> QED
      BY <2>1, <2>3, <2>5, <2>7, <2>8, <2>10
  <1> QED
    BY <1>1, <1>2, <1>3

(* Data the filter may use is young, and each provider that passes has an  *)
(* endpoint that keeps every promise of the filter.                        *)
LEMMA EligibleIsPromised ==
    ASSUME RoutingInv, Filtered, FilterData
    PROVE  /\ snapshot # Unset /\ snapshot.age \in 0 .. filter.maxAge
           /\ \A p \in EligibleIds : \E e \in snapshot.endpoints :
                  /\ RoutingId(e) = p
                  /\ \A c \in filter.conditions : c.enabled => Promised(e, c)
  <1>1. filter \in Filter /\ ValidFilter(filter) /\ snapshot \in Snapshot /\ snapshot # Unset
    BY DEF RoutingInv, TypeOK, Filtered, Enabled, FilterData
  <1>2. snapshot.age \in Int /\ filter.maxAge \in Int
    <2>1. snapshot.age \in Int
      BY <1>1, RoutingAssumption
    <2>2. \A n \in MinAge .. MaxAge : n \in Int
      BY DEF MinAge, MaxAge
    <2>3. filter.maxAge \in MinAge .. MaxAge
      BY <1>1 DEF ValidFilter
    <2> QED
      BY <2>1, <2>2, <2>3
  <1>3. snapshot.age \in 0 .. filter.maxAge
    BY <1>2 DEF FilterData, IsTelemetryFresh
  <1>4. ASSUME NEW p \in EligibleIds
        PROVE  \E e \in snapshot.endpoints :
                   /\ RoutingId(e) = p
                   /\ \A c \in filter.conditions : c.enabled => Promised(e, c)
    <2>1. PICK e \in Passing : RoutingId(e) = p
      BY DEF EligibleIds, RoutingIds
    <2>2. e \in snapshot.endpoints /\ \A c \in filter.conditions : c.enabled => Passes(e, c)
      BY <2>1 DEF Passing, Eligible, Filtered
    <2>3. IsEndpoint(e)
      BY <1>1, <2>2, RoutingAssumption
    <2>4. ASSUME NEW c \in filter.conditions, c.enabled
          PROVE  Promised(e, c)
      <3>1. /\ ValidCondition(c) /\ c.field \in Field
            /\ c.value.type = "number" => c.value.is \in Int
        BY <1>1, RoutingAssumption DEF ValidFilter
      <3> QED
        BY <2>2, <2>3, <2>4, <3>1, PassesIsPromised
    <2> QED
      BY <2>1, <2>2, <2>4
  <1> QED
    BY <1>1, <1>3, <1>4
-----------------------------------------------------------------------------
(***************************************************************************)
(* The theorems.                                                           *)
(***************************************************************************)

(* Every variable of the configuration keeps its type.                     *)
THEOREM TypeCorrect == Spec => []TypeOK
  BY RoutingInvHolds, PTL DEF RoutingInv

(* A managed request with a filter or an override may use exactly the      *)
(* providers every layer permits, never an empty list of them.             *)
THEOREM ManagedIsExactHolds == Spec => []ManagedIsExact
  <1>1. ASSUME RoutingInv
        PROVE  ManagedIsExact
    <2> SUFFICES ASSUME Filtered \/ override # Unset, NEW request \in Request,
                        Forwards(Managed(request))
                 PROVE  LET sent == Managed(request).provider
                        IN  /\ Permits(sent) = FilterPermits \cap OverridePermits
                                                   \cap Permits(InForce) \cap Permits(request)
                            /\ sent.only # {}
                            /\ sent.order # Unset => Items(sent.order) \subseteq Permits(sent)
      BY DEF ManagedIsExact
    <2>1. /\ ResolvedExactly(Managed(request), AvailableIds, Hard, override, InForce, request,
                             settings.mode, soft)
          /\ Filtered => FilterData
      BY <1>1, ManagedForwards
    <2>2. OrElse(OrElse(Hard, AvailableIds), Provider) = FilterPermits
      <3>1. Filtered => EligibleIds # Unset
        BY <1>1, <2>1, LayersTyped, SetsAreSet DEF FilterData
      <3> QED
        BY <3>1 DEF Hard, FilterPermits, OrElse
    <2>3. OverridePermits = Allowed(override)
      BY <1>1, LayersTyped
    <2> QED
      BY <2>1, <2>2, <2>3 DEF ResolvedExactly
  <1> QED
    BY <1>1, RoutingInvHolds, PTL

(* A filter bounds every request, on telemetry of the allowed age, and a   *)
(* request without a managed key keeps what its merged policy forbids.     *)
THEOREM FilterIsHardHolds == Spec => []FilterIsHard
  <1>1. ASSUME RoutingInv
        PROVE  FilterIsHard
    <2> SUFFICES ASSUME Filtered, NEW request \in Request
                 PROVE  /\ \A answer \in {Managed(request), Passthrough(request)} :
                            Forwards(answer) =>
                                /\ snapshot # Unset /\ snapshot.age \in 0 .. filter.maxAge
                                /\ \A p \in Permits(answer.provider) : \E e \in snapshot.endpoints :
                                    /\ RoutingId(e) = p
                                    /\ \A c \in filter.conditions : c.enabled => Promised(e, c)
                        /\ Forwards(Passthrough(request)) =>
                            Permits(Passthrough(request).provider)
                                \subseteq Permits(Unfiltered(request).provider)
      BY DEF FilterIsHard
    <2>1. Forwards(Managed(request)) =>
              FilterData /\ Permits(Managed(request).provider) \subseteq EligibleIds
      <3> SUFFICES ASSUME Forwards(Managed(request))
                   PROVE  FilterData /\ Permits(Managed(request).provider) \subseteq EligibleIds
        OBVIOUS
      <3>1. /\ ResolvedExactly(Managed(request), AvailableIds, Hard, override, InForce, request,
                               settings.mode, soft)
            /\ FilterData
        BY <1>1, ManagedForwards
      <3>2. EligibleIds \in SUBSET Provider
        BY <1>1, <3>1, LayersTyped DEF FilterData
      <3>3. OrElse(OrElse(Hard, AvailableIds), Provider) = EligibleIds
        BY <3>2, SetsAreSet DEF Hard, OrElse
      <3> QED
        BY <3>1, <3>3 DEF ResolvedExactly
    <2>2. Forwards(Passthrough(request)) =>
              /\ FilterData /\ Permits(Passthrough(request).provider) \subseteq EligibleIds
              /\ Permits(Passthrough(request).provider) \subseteq Permits(Unfiltered(request).provider)
      BY <1>1, PassthroughForwards
    <2>3. FilterData =>
              /\ snapshot # Unset /\ snapshot.age \in 0 .. filter.maxAge
              /\ \A p \in EligibleIds : \E e \in snapshot.endpoints :
                     RoutingId(e) = p /\ \A c \in filter.conditions : c.enabled => Promised(e, c)
      BY <1>1, EligibleIsPromised
    <2> QED
      BY <2>1, <2>2, <2>3
  <1> QED
    BY <1>1, RoutingInvHolds, PTL

(* In strict mode what goes out is within the policy in force. *)
THEOREM StrictIsWithinPolicyHolds == Spec => []StrictIsWithinPolicy
  <1>1. ASSUME RoutingInv
        PROVE  StrictIsWithinPolicy
    <2> SUFFICES ASSUME settings.mode = "strict", NEW request \in Request
                 PROVE  \A answer \in {Managed(request), Passthrough(request)} :
                            Forwards(answer) => Permits(answer.provider) \subseteq Permits(InForce)
      BY DEF StrictIsWithinPolicy
    <2>1. Forwards(Unfiltered(request)) =>
              Permits(Unfiltered(request).provider) \subseteq Permits(InForce)
      BY <1>1, LayersTyped, MergeWithin DEF Unfiltered
    <2>2. Forwards(Passthrough(request)) =>
              Permits(Passthrough(request).provider) \subseteq Permits(InForce)
      BY <1>1, <2>1, PassthroughForwards
    <2>3. Forwards(Managed(request)) => Permits(Managed(request).provider) \subseteq Permits(InForce)
      <3>1. CASE Filtered \/ override # Unset
        BY <1>1, <3>1, ManagedForwards DEF ResolvedExactly
      <3>2. CASE ~Filtered /\ override = Unset
        BY <2>1, <3>2 DEF Managed
      <3> QED
        BY <3>1, <3>2
    <2> QED
      BY <2>2, <2>3
  <1> QED
    BY <1>1, RoutingInvHolds, PTL

(* The preview of the override in force is what a managed request gets.    *)
THEOREM PreviewIsSentHolds == Spec => []PreviewIsSent
  <1>1. ASSUME RoutingInv
        PROVE  PreviewIsSent
    <2> SUFFICES ASSUME Filtered \/ override # Unset, NEW request \in Request
                 PROVE  LET shown == Preview(override, request)
                            got == Managed(request)
                        IN  IF Forwards(got) THEN shown = got ELSE ~Forwards(shown)
      BY DEF PreviewIsSent
    <2>1. CASE ~Filtered
      BY <2>1 DEF Preview, Managed
    <2>2. CASE Filtered /\ FilterData
      BY <2>2 DEF Preview, Managed, FilterData
    <2>3. CASE Filtered /\ (snapshot = Unset \/ ~IsTelemetryFresh(snapshot.age, filter.maxAge))
      BY <2>3 DEF Preview, Managed, FilterData
    <2>4. CASE Filtered /\ EligibleIds = {}
      <3>1. Nobody(HardLayer(AvailableIds, EligibleIds))
        BY <2>4, SetsAreSet DEF Nobody, Visible, HardLayer, OrElse
      <3>2. ~Forwards(NoFilterData) /\ ~Forwards(Refuse("NO_ELIGIBLE_PROVIDER", "hard_filter"))
        BY DEF Forwards, NoFilterData, Refuse
      <3>3. Managed(request) = NoFilterData
        BY <2>4 DEF Managed, FilterData
      <3>4. Preview(override, request) \in
                {NoFilterData, Refuse("NO_ELIGIBLE_PROVIDER", "hard_filter")}
        BY <2>4, <3>1 DEF Preview, Resolve
      <3> QED
        BY <3>2, <3>3, <3>4
    <2> QED
      BY <2>1, <2>2, <2>3, <2>4 DEF FilterData
  <1> QED
    BY <1>1, RoutingInvHolds, PTL

(* What was saved is in force. *)
THEOREM SavedIsInForceHolds == Spec => []SavedIsInForce
  <1>1. RoutingInv => SavedIsInForce
    BY DEF RoutingInv, SavedIsInForce
  <1> QED
    BY <1>1, RoutingInvHolds, PTL
=============================================================================
