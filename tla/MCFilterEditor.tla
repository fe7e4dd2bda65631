--------------------------- MODULE MCFilterEditor ---------------------------
(* Two endpoints, a number that tells them apart, and a quantization.      *)
EXTENDS FilterEditor

Unknown == [f \in Field |-> Unset]

Fast == [Unknown EXCEPT !["provider.routingId"] = "fast", !["performance"] = 60, !["quantization"] = "fp8"]
Slow == [Unknown EXCEPT !["provider.routingId"] = "slow", !["performance"] = 20]

MCEndpoints == {Fast, Slow}
MCNumberOf == [t \in {"", "40"} |-> IF t = "" THEN Unset ELSE 40]
MCEarlier ==
    {[enabled |-> TRUE, maxAge |-> 60,
      conditions |-> {[id |-> 1, field |-> "performance", operator |-> "gte",
                       value |-> NumberValue(40), enabled |-> TRUE]}]}
=============================================================================
