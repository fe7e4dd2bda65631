-------------------------- MODULE AccessControlGate --------------------------
(***************************************************************************)
(* AccessControl implements InferenceGate as long as no write fails and no *)
(* file is unreadable.  The rights are what memory says while the process  *)
(* runs and what the files say while it does not.                          *)
(***************************************************************************)
EXTENDS AccessControl

Held(s, d) ==
    {p \in Key \X d :
        s[p[1]] # Absent /\ s[p[1]].enabled /\ p[2] \in s[p[1]].allowedModels}

Rights == IF up THEN Held(keys, desired) ELSE Held(keysDisk, desiredDisk)

Offered == IF up THEN desired ELSE desiredDisk

CallOf(q) ==
    CASE q.phase = "idle" -> [st |-> "none"]
      [] q.phase = "body" ->
           [st |-> "open", key |-> q.key,
            may |-> IF q.key = Passthrough THEN Model ELSE q.grant.allowedModels]
      [] q.phase = "sent" -> [st |-> "sent", key |-> q.key, model |-> q.model]

Call == [r \in Req |-> CallOf(req[r])]

Gate == INSTANCE InferenceGate WITH offered <- Offered, rights <- Rights, call <- Call

(* Every behaviour of the two stores and the handlers, crashes included,   *)
(* is one the abstract gate allows.                                        *)
ImplementsGate == Gate!Spec
=============================================================================
