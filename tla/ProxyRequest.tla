---------------------------- MODULE ProxyRequest ----------------------------
(***************************************************************************)
(* One inference request from its body to its end (server.ts, the data     *)
(* plane; util/http.ts): the calls of OpenRouter with their retries on     *)
(* 429, the deadline for the first answer, the client that may leave at    *)
(* any moment, the response that is passed on under backpressure, and the  *)
(* one record of it all.                                                   *)
(*                                                                         *)
(* OpenRouter and the client owe nothing: either may fall silent for ever. *)
(* The deadline covers the calls and the waits between them, and ends with *)
(* the first answer that is not retried.                                   *)
(***************************************************************************)
EXTENDS Naturals

CONSTANTS
    MaxRetries,  \* retryDelays.length on /v1/messages, 0 elsewhere
    NoStatus     \* no answer, no status in the record

ASSUME ProxyAssumption == MaxRetries \in Nat /\ NoStatus \notin Nat

VARIABLES
    pc,          \* where the handler waits
    stream,      \* body.stream
    retries,
    deadline,    \* the request timer is armed
    aborted,     \* upstreamAbort.signal.aborted
    abortReason,
    deaf,        \* the wait for a retry began after the abort
    open,        \* responses of OpenRouter begun and neither read nor dropped
    upstream,    \* status of the response that is passed on
    client,      \* the connection: here, or gone (res.destroyed)
    answer,      \* status sent to the client
    answers,     \* heads written
    ended,       \* res.end was called
    record       \* what finishObservation wrote first

(* What happened; no action reads them. *)
VARIABLES
    attempts,    \* calls of OpenRouter
    leftEarly    \* the client left before its response ended

call == <<retries, deadline, open, upstream, attempts>>
abort == <<aborted, abortReason>>
response == <<answer, answers, ended>>
vars == <<pc, stream, call, abort, deaf, client, response, record, leftEarly>>

NoRecord == [finished |-> FALSE]
Record == [finished : {TRUE}, status : Nat \cup {NoStatus}, cancelled : BOOLEAN]

TypeOK ==
    /\ pc \in {"body", "fetch", "discard", "backoff", "capture", "pipe", "drain", "done"}
    /\ stream \in BOOLEAN
    /\ retries \in 0 .. MaxRetries
    /\ deadline \in BOOLEAN
    /\ aborted \in BOOLEAN
    /\ abortReason \in {"none", "client", "timeout"}
    /\ deaf \in BOOLEAN
    /\ open \in Nat
    /\ upstream \in Nat \cup {NoStatus}
    /\ client \in {"here", "gone"}
    /\ answer \in Nat \cup {NoStatus}
    /\ answers \in Nat
    /\ ended \in BOOLEAN
    /\ record \in {NoRecord} \cup Record
    /\ attempts \in Nat
    /\ leftEarly \in BOOLEAN

Init ==
    /\ pc = "body"
    /\ stream \in BOOLEAN
    /\ retries = 0
    /\ deadline = FALSE
    /\ aborted = FALSE
    /\ abortReason = "none"
    /\ deaf = FALSE
    /\ open = 0
    /\ upstream = NoStatus
    /\ client = "here"
    /\ answer = NoStatus
    /\ answers = 0
    /\ ended = FALSE
    /\ record = NoRecord
    /\ attempts = 0
    /\ leftEarly = FALSE

(* finishObservation: only the first call counts. *)
Finish(status, cancelled) ==
    record' = IF record = NoRecord
              THEN [finished |-> TRUE, status |-> status, cancelled |-> cancelled]
              ELSE record

(* writeJson: head and body at once. *)
Answer(status) ==
    /\ answer' = status
    /\ answers' = answers + 1
    /\ ended' = TRUE

(* The body cannot be read or parsed, or the grant, the routing or the key *)
(* refuse the request.                                                     *)
Refused ==
    /\ pc = "body"
    /\ pc' = "done"
    /\ \E status \in {400, 403} : Finish(status, FALSE) /\ Answer(status)
    /\ UNCHANGED <<stream, call, abort, deaf, client, leftEarly>>

(* The first call of OpenRouter; the timer and the listeners for the       *)
(* client are in place.                                                    *)
Call ==
    /\ pc = "body"
    /\ client = "here"
    /\ pc' = "fetch"
    /\ deadline' = TRUE
    /\ attempts' = attempts + 1
    /\ UNCHANGED <<stream, retries, open, upstream, abort, deaf, client, response, record, leftEarly>>

(* The close event of the response aborts the call, once it is listened to. *)
ClientLeaves ==
    /\ client = "here"
    /\ client' = "gone"
    /\ leftEarly' = ~ended
    /\ IF pc # "body" /\ ~ended /\ ~aborted
       THEN aborted' = TRUE /\ abortReason' = "client"
       ELSE UNCHANGED abort
    /\ UNCHANGED <<pc, stream, call, deaf, response, record>>

Deadline ==
    /\ deadline
    /\ aborted' = TRUE
    /\ abortReason' = "timeout"
    /\ deadline' = FALSE
    /\ UNCHANGED <<pc, stream, retries, open, upstream, attempts, deaf, client, response, record, leftEarly>>

(* Mutant of Limited: any response clears the timer. *)
LimitedUntimed ==
    /\ pc = "fetch" /\ ~aborted
    /\ retries < MaxRetries
    /\ pc' = "discard"
    /\ retries' = retries + 1
    /\ open' = open + 1
    /\ deadline' = FALSE
    /\ UNCHANGED <<stream, upstream, attempts, abort, deaf, client, response, record, leftEarly>>

(* 429, and there are retries left. *)
Limited ==
    /\ pc = "fetch" /\ ~aborted
    /\ retries < MaxRetries
    /\ pc' = "discard"
    /\ retries' = retries + 1
    /\ open' = open + 1
    /\ UNCHANGED <<stream, deadline, upstream, attempts, abort, deaf, client, response, record, leftEarly>>

(* Mutant of Discarded: the limited response is left open. *)
DiscardedNot ==
    /\ pc = "discard"
    /\ pc' = "backoff"
    /\ deaf' = aborted
    /\ UNCHANGED <<stream, call, abort, client, response, record, leftEarly>>

(* The body of the limited response is dropped and the wait begins.  An    *)
(* abort that came meanwhile is not heard before the wait is over.         *)
Discarded ==
    /\ pc = "discard"
    /\ pc' = "backoff"
    /\ open' = open - 1
    /\ deaf' = aborted
    /\ UNCHANGED <<stream, retries, deadline, upstream, attempts, abort, client, response, record, leftEarly>>

(* Mutant of Retry: the signal is not passed on. *)
RetryUnsignalled ==
    /\ pc = "backoff"
    /\ pc' = "fetch"
    /\ attempts' = attempts + 1
    /\ UNCHANGED <<stream, retries, deadline, open, upstream, abort, deaf, client, response, record, leftEarly>>

(* The wait is over and the next call starts, or throws at once if the     *)
(* signal is aborted.                                                      *)
Retry ==
    /\ pc = "backoff"
    /\ pc' = "fetch"
    /\ attempts' = IF aborted THEN attempts ELSE attempts + 1
    /\ UNCHANGED <<stream, retries, deadline, open, upstream, abort, deaf, client, response, record, leftEarly>>

(* The head of a response that is not retried: the timer is cleared. *)
Head ==
    /\ pc = "fetch" /\ ~aborted
    /\ \E status \in {200, 429, 500} :
        /\ status = 429 => retries = MaxRetries
        /\ upstream' = status
    /\ pc' = IF stream THEN "pipe" ELSE "capture"
    /\ deadline' = FALSE
    /\ open' = open + 1
    /\ UNCHANGED <<stream, retries, attempts, abort, deaf, client, response, record, leftEarly>>

(* Mutant of CallFails: a client that left is answered like any other. *)
CallFailsForAll ==
    /\ deadline' = FALSE
    /\ pc' = "done"
    /\ Finish(502, FALSE)
    /\ Answer(IF abortReason = "timeout" THEN 504 ELSE 502)
    /\ UNCHANGED <<stream, retries, open, upstream, attempts, abort, deaf, client, leftEarly>>

(* The catch around the calls: a client that left gets a record, any other *)
(* failure an answer too.  The record of a timeout says 502.               *)
CallFails ==
    /\ deadline' = FALSE
    /\ pc' = "done"
    /\ IF aborted /\ client = "gone"
       THEN Finish(NoStatus, TRUE) /\ UNCHANGED response
       ELSE /\ Finish(502, abortReason = "client")
            /\ Answer(IF abortReason = "timeout" THEN 504 ELSE 502)
    /\ UNCHANGED <<stream, retries, open, upstream, attempts, abort, deaf, client, leftEarly>>

NetworkFails == pc = "fetch" /\ ~aborted /\ CallFails
AbortHeard == aborted /\ (pc = "fetch" \/ (pc = "backoff" /\ ~deaf)) /\ CallFails

(* The copy of a response that is not a stream has been read for its usage *)
(* numbers, or could not be.                                               *)
Captured ==
    /\ pc = "capture"
    /\ pc' = "pipe"
    /\ UNCHANGED <<stream, call, abort, deaf, client, response, record, leftEarly>>

(* The head goes out before the first chunk is read. *)
Started == answers' = IF answer = NoStatus THEN answers + 1 ELSE answers

(* A chunk is written; the next one waits if the client's buffer is full. *)
Chunk ==
    /\ pc = "pipe" /\ ~aborted /\ client = "here"
    /\ answer' = upstream
    /\ Started
    /\ pc' \in {"pipe", "drain"}
    /\ UNCHANGED <<stream, call, abort, deaf, client, ended, record, leftEarly>>

Drained ==
    /\ pc = "drain" /\ client = "here"
    /\ pc' = "pipe"
    /\ UNCHANGED <<stream, call, abort, deaf, client, response, record, leftEarly>>

(* OpenRouter closes the response: it ends for the client as well. *)
LastChunk ==
    /\ pc = "pipe"
    /\ pc' = "done"
    /\ open' = open - 1
    /\ answer' = upstream
    /\ Started
    /\ ended' = (client = "here")
    /\ Finish(upstream, client = "gone" \/ abortReason = "client")
    /\ UNCHANGED <<stream, retries, deadline, upstream, attempts, abort, deaf, client, leftEarly>>

(* Mutant of PipeStops: the wait for the client's buffer hears the drain *)
(* event only.                                                           *)
PipeStopsReading ==
    /\ pc = "pipe"
    /\ aborted \/ client = "gone"
    /\ pc' = "done"
    /\ open' = open - 1
    /\ answer' = upstream
    /\ Started
    /\ ended' = (client = "here")
    /\ Finish(upstream, client = "gone" \/ abortReason = "client")
    /\ UNCHANGED <<stream, retries, deadline, upstream, attempts, abort, deaf, client, leftEarly>>

(* The client left: reading or waiting stops, the rest is dropped. *)
PipeStops ==
    /\ pc \in {"pipe", "drain"}
    /\ aborted \/ client = "gone"
    /\ pc' = "done"
    /\ open' = open - 1
    /\ answer' = upstream
    /\ Started
    /\ ended' = (client = "here")
    /\ Finish(upstream, client = "gone" \/ abortReason = "client")
    /\ UNCHANGED <<stream, retries, deadline, upstream, attempts, abort, deaf, client, leftEarly>>

(* Mutant of OuterCatch: the head is written again. *)
OuterCatchAnswers(status, heads) ==
    /\ pc' = "done"
    /\ answer' = 500
    /\ answers' = heads + 1
    /\ ended' = TRUE
    /\ Finish(NoStatus, client = "gone")

(* The outer catch, with the status and the number of the heads sent so    *)
(* far.  Its 500 is written before the record is, which then finds a head  *)
(* sent and keeps no status.                                               *)
OuterCatch(status, heads) ==
    /\ pc' = "done"
    /\ answer' = IF status = NoStatus THEN 500 ELSE status
    /\ answers' = IF status = NoStatus THEN heads + 1 ELSE heads
    /\ ended' = TRUE
    /\ Finish(NoStatus, client = "gone")

(* The response breaks off: it ends for the client all the same, and the   *)
(* error goes on to the outer catch.                                       *)
PipeBreaks ==
    /\ pc = "pipe" /\ ~aborted /\ client = "here"
    /\ open' = open - 1
    /\ OuterCatch(upstream, IF answer = NoStatus THEN answers + 1 ELSE answers)
    /\ UNCHANGED <<stream, retries, deadline, upstream, attempts, abort, deaf, client, leftEarly>>

(* Anything else that throws before the first call. *)
Throws ==
    /\ pc = "body"
    /\ OuterCatch(answer, answers)
    /\ UNCHANGED <<stream, call, abort, deaf, client, leftEarly>>

(* What the process itself does next, without OpenRouter or the client. *)
Handler ==
    \/ Discarded
    \/ Retry
    \/ AbortHeard
    \/ aborted /\ Captured
    \/ PipeStops

Next ==
    \/ Refused
    \/ Call
    \/ Throws
    \/ ClientLeaves
    \/ Deadline
    \/ Limited
    \/ Head
    \/ NetworkFails
    \/ Captured
    \/ Chunk
    \/ Drained
    \/ LastChunk
    \/ PipeBreaks
    \/ Discarded
    \/ Retry
    \/ AbortHeard
    \/ PipeStops

Spec == Init /\ [][Next]_vars /\ WF_vars(Handler) /\ WF_vars(Deadline)
-----------------------------------------------------------------------------
(* The client gets at most one head, whichever of the error paths run.     *)
AnsweredOnce == answers <= 1

(* A request that reached OpenRouter is recorded as cancelled exactly if   *)
(* the client left before its response ended.                              *)
CancellationRecorded ==
    pc = "done" /\ attempts > 0 => (record # NoRecord /\ record.cancelled = leftEarly)

(* No response of OpenRouter is left open when the next call starts, nor   *)
(* when the handler is done.                                               *)
NothingLeftOpen == open <= (IF pc \in {"discard", "capture", "pipe", "drain"} THEN 1 ELSE 0)

(* docs/api.md: retries happen on 429 only and are bounded; none starts    *)
(* after the abort or after an answer.                                     *)
RetriesBounded ==
    [][attempts' # attempts =>
         attempts' <= MaxRetries + 1 /\ ~aborted /\ answer = NoStatus]_vars

(* The deadline covers all calls and the waits between them: whatever      *)
(* OpenRouter does, they end with a response to pass on or with an error.  *)
(* It covers nothing after that: the timer is cleared once a response has  *)
(* begun (server.ts:1089), and a caller that stays may wait for ever, also *)
(* for the head of its answer while a copy of a response that is no stream *)
(* is read (server.ts:1110).                                               *)
CallsEnd == pc \in {"fetch", "discard", "backoff"} ~> pc \notin {"fetch", "discard", "backoff"}

(* util/http.ts: a disconnected client never leaves the handler hanging,   *)
(* even if OpenRouter stays silent.                                        *)
DisconnectEnds == client = "gone" /\ pc # "body" ~> pc = "done"
=============================================================================
