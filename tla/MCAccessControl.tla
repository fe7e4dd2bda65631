--------------------------- MODULE MCAccessControl ---------------------------
EXTENDS AccessControlGate, TLC

KeySymmetry == Permutations(Key)

(* Bound: requests, and the usage timer they arm, are looked at while no   *)
(* override is set or being edited; neither decides anything by one. *)
RequestsApartFromOverrides ==
    \/ usageTimer = FALSE /\ \A r \in Req : req[r] = Idle
    \/ /\ \A e \in Edit : edit[e] = Idle
       /\ unsettled = {}
       /\ \A k \in Key : expected[k] = NoOverrides
=============================================================================
