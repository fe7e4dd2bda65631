---------------------------- MODULE InferenceGate ----------------------------
(***************************************************************************)
(* What access control promises, without stores, files or handlers: a set  *)
(* of rights that only the operator changes, one key or one model at a     *)
(* time, that a restart neither adds to nor takes from, and calls that are *)
(* sent to a model only under a right the key had when it was recognised.  *)
(***************************************************************************)
CONSTANTS Key, Model, Req, Passthrough

VARIABLES
    up,      \* the gateway is serving
    offered, \* models the operator has opened
    rights,  \* <<k, m>>: key k may use model m
    call     \* what each caller is doing

vars == <<up, offered, rights, call>>

NoCall == [st |-> "none"]
Open(k, models) == [st |-> "open", key |-> k, may |-> models]
Sent(k, m) == [st |-> "sent", key |-> k, model |-> m]

RightsOf(k) == {m \in Model : <<k, m>> \in rights}

Init ==
    /\ up = TRUE
    /\ offered = {}
    /\ rights = {}
    /\ call = [r \in Req |-> NoCall]

(* Opening a model gives it to nobody. *)
Offer(m) ==
    /\ up
    /\ offered' = offered \cup {m}
    /\ UNCHANGED <<up, rights, call>>

(* Closing a model takes it from everybody. *)
Withdraw(m) ==
    /\ up
    /\ offered' = offered \ {m}
    /\ rights' = rights \ (Key \X {m})
    /\ UNCHANGED <<up, call>>

(* Creating, changing, disabling or deleting a key changes that key only,  *)
(* and grants only models on offer.                                        *)
SetRights(k) ==
    /\ up
    /\ \E models \in SUBSET offered :
         rights' = (rights \ ({k} \X Model)) \cup ({k} \X models)
    /\ UNCHANGED <<up, offered, call>>

(* A known key: its rights of this moment bound what the call may use. *)
Recognise(r, k) ==
    /\ up
    /\ call[r] = NoCall
    /\ call' = [call EXCEPT ![r] = Open(k, RightsOf(k))]
    /\ UNCHANGED <<up, offered, rights>>

Admit(r) ==
    /\ up
    /\ call[r] = NoCall
    /\ call' = [call EXCEPT ![r] = Open(Passthrough, Model)]
    /\ UNCHANGED <<up, offered, rights>>

Send(r, m) ==
    /\ up
    /\ call[r].st = "open"
    /\ m \in call[r].may
    /\ call[r].key # Passthrough => m \in offered
    /\ call' = [call EXCEPT ![r] = Sent(call[r].key, m)]
    /\ UNCHANGED <<up, offered, rights>>

Finish(r) ==
    /\ up
    /\ call' = [call EXCEPT ![r] = NoCall]
    /\ UNCHANGED <<up, offered, rights>>

(* A crash in the middle of Withdraw or of a deletion may have taken       *)
(* rights already; it never adds one.                                      *)
Stop ==
    /\ up
    /\ up' = FALSE
    /\ \/ UNCHANGED rights
       \/ \E m \in Model : rights' = rights \ (Key \X {m})
       \/ \E k \in Key : rights' = rights \ ({k} \X Model)
    /\ call' = [r \in Req |-> NoCall]
    /\ UNCHANGED offered

Start ==
    /\ ~up
    /\ up' = TRUE
    /\ UNCHANGED <<offered, rights, call>>

Next ==
    \/ \E m \in Model : Offer(m) \/ Withdraw(m)
    \/ \E k \in Key : SetRights(k)
    \/ \E r \in Req :
         \/ \E k \in Key : Recognise(r, k)
         \/ Admit(r)
         \/ \E m \in Model : Send(r, m)
         \/ Finish(r)
    \/ Stop
    \/ Start

Spec == Init /\ [][Next]_vars
=============================================================================
