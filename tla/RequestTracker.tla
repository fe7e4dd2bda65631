--------------------------- MODULE RequestTracker ---------------------------
(***************************************************************************)
(* Request history: the record every data-plane request gets               *)
(* (requestStore.ts) and the queue of generation lookups that completes it *)
(* later (requestTracker.ts).                                              *)
(*                                                                         *)
(* Records live in memory and are written to the history file as a whole.  *)
(* persistLater writes in a microtask, before any other handler, timer or  *)
(* answer runs, so the write belongs to the step that asked for it; one    *)
(* that fails is logged and not repeated.  Lookup jobs are in memory only. *)
(***************************************************************************)
EXTENDS Naturals, Sequences, FiniteSets, SequencesExt

CONSTANTS
    Rec,         \* request ids; randomUUID never repeats one
    Limits,      \* values of the requestLogLimit setting
    Window,      \* newest records searched for unfinished lookups at startup
    MaxPending,  \* lookups waiting or running before enqueue refuses
    Concurrency, \* lookups running at once
    Polls,       \* length of GENERATION_404_POLL_DELAYS_MS
    Retries,     \* further lookups after a transient error
    MaxFaults    \* bound on failed writes and unreadable files

ASSUME TrackerAssumption ==
    /\ Limits \in SUBSET (Nat \ {0})
    /\ Concurrency \in Nat \ {0}
    /\ MaxPending \in Nat \ {0}
    /\ Window \in 1 .. MaxPending
    /\ Polls \in Nat
    /\ Retries \in Nat
    /\ MaxFaults \in Nat

VARIABLES
    up,       \* the process is running
    log,      \* JsonRequestLogStore.records, oldest first
    file,     \* the history file
    limit,    \* JsonRequestLogStore.limit, saved in the settings file
    queue,    \* BoundedQueue.jobs
    running,  \* lookups sent or sleeping before the next attempt
    handlers, \* requests whose observation is not finished
    faults    \* failed writes and unreadable files so far

(* History of the callers' side; no action but Begin reads it. *)
VARIABLES
    begun,    \* ids ever used
    cleared   \* ids begun before a DELETE /api/requests that answered 200

jobs == <<queue, running>>
vars == <<up, log, file, limit, jobs, handlers, faults, begun, cleared>>

Enrichment == {"unavailable", "pending", "success", "failed"}

(* The fields of RequestRecord that decide what happens to it: completedAt *)
(* and generationId are there or not.                                      *)
RequestRecord == [id : Rec, done : BOOLEAN, gen : BOOLEAN, enrich : Enrichment]

newRequestRecord(r) == [id |-> r, done |-> FALSE, gen |-> FALSE, enrich |-> "unavailable"]

(* A call of enrich; attempt counts the lookups that were not the last. *)
Job == [id : Rec, recovery : BOOLEAN, attempt : 0 .. Polls + Retries]
NewJob(r, recovery) == [id |-> r, recovery |-> recovery, attempt |-> 0]

Ids(s) == {s[i].id : i \in DOMAIN s}
Newest(s, n) == SubSeq(s, IF Len(s) > n THEN Len(s) - n + 1 ELSE 1, Len(s))
JobIds == {j.id : j \in running} \cup Ids(queue)

TypeOK ==
    /\ up \in BOOLEAN
    /\ log \in Seq(RequestRecord) /\ Len(log) <= limit
    /\ file \in Seq(RequestRecord)
    /\ limit \in Limits
    /\ queue \in Seq(Job)
    /\ running \in SUBSET Job
    /\ handlers \in SUBSET Rec
    /\ faults \in 0 .. MaxFaults
    /\ begun \in SUBSET Rec
    /\ cleared \in SUBSET begun

Init ==
    /\ up = TRUE
    /\ log = <<>>
    /\ file = <<>>
    /\ limit \in Limits
    /\ queue = <<>>
    /\ running = {}
    /\ handlers = {}
    /\ faults = 0
    /\ begun = {}
    /\ cleared = {}

-----------------------------------------------------------------------------
Fault == faults < MaxFaults /\ faults' = faults + 1

Persist(image) ==
    \/ file' = image /\ UNCHANGED faults
    \/ Fault /\ UNCHANGED file

(* Mutant of Full: running lookups are not counted. *)
FullQueueOnly == Len(queue) >= MaxPending

Full == Len(queue) + Cardinality(running) >= MaxPending

(* BoundedQueue.run: jobs start in order while there is room. *)
Run(waiting, active) ==
    LET free == Concurrency - Cardinality(active)
        n    == IF Len(waiting) < free THEN Len(waiting) ELSE free
    IN  /\ running' = active \cup ToSet(SubSeq(waiting, 1, n))
        /\ queue' = SubSeq(waiting, n + 1, Len(waiting))

-----------------------------------------------------------------------------
(***************************************************************************)
(* The proxy handler's side.                                               *)
(***************************************************************************)
Record(r) ==
    /\ up
    /\ r \notin begun
    /\ log' = Newest(Append(log, newRequestRecord(r)), limit)
    /\ begun' = begun \cup {r}
    /\ UNCHANGED <<up, file, limit, jobs, faults, cleared>>

Begin(r) == Record(r) /\ handlers' = handlers \cup {r}

(* OPTIONS is answered after begin, and nothing finishes its observation. *)
Preflight(r) == Record(r) /\ UNCHANGED handlers

Completed(r, gen, outcome) ==
    [i \in DOMAIN log |->
        IF log[i].id = r
        THEN [id |-> r, done |-> TRUE, gen |-> gen, enrich |-> outcome]
        ELSE log[i]]

(* finishObservation does its work once per request. *)
Finishing(r) == up /\ r \in handlers /\ handlers' = handlers \ {r}

(* Evicted or cleared meanwhile: complete finds nothing and does nothing. *)
FinishForgotten(r) ==
    /\ Finishing(r)
    /\ r \notin Ids(log)
    /\ UNCHANGED <<up, log, file, limit, jobs, faults, begun, cleared>>

(* No x-generation-id: nothing to look up. *)
FinishPlain(r) ==
    /\ Finishing(r)
    /\ r \in Ids(log)
    /\ log' = Completed(r, FALSE, "unavailable")
    /\ Persist(log')
    /\ UNCHANGED <<up, limit, jobs, begun, cleared>>

FinishLookup(r) ==
    /\ Finishing(r)
    /\ r \in Ids(log)
    /\ ~Full
    /\ log' = Completed(r, TRUE, "pending")
    /\ Run(Append(queue, NewJob(r, FALSE)), running)
    /\ Persist(log')
    /\ UNCHANGED <<up, limit, begun, cleared>>

(* Mutant of FinishFull: what enqueue returns is ignored. *)
FinishFullUnnoticed(r) ==
    /\ Finishing(r)
    /\ r \in Ids(log)
    /\ Full
    /\ log' = Completed(r, TRUE, "pending")
    /\ Persist(log')
    /\ UNCHANGED <<up, limit, jobs, begun, cleared>>

FinishFull(r) ==
    /\ Finishing(r)
    /\ r \in Ids(log)
    /\ Full
    /\ log' = Completed(r, TRUE, "failed")
    /\ Persist(log')
    /\ UNCHANGED <<up, limit, jobs, begun, cleared>>

-----------------------------------------------------------------------------
(***************************************************************************)
(* enrich: a lookup is answered, or gives up after the client's timeout.   *)
(* "notFound" is a 404, "busy" is 429, 502, 503 or 504, and "refused" is   *)
(* every other failure, no key and no connection included.                 *)
(***************************************************************************)
Failure == {"notFound", "busy", "refused"}

Patient(j, answer) ==
    \/ answer = "notFound" /\ ~j.recovery /\ j.attempt < Polls
    \/ answer \in {"notFound", "busy"} /\ j.attempt < Retries

LookAgain(j) ==
    /\ \E answer \in Failure : Patient(j, answer)
    /\ running' = (running \ {j}) \cup {[j EXCEPT !.attempt = @ + 1]}
    /\ UNCHANGED <<up, log, file, limit, queue, handlers, faults, begun, cleared>>

(* Mutant of Settle: the end of a job does not start the next one. *)
SettleWithoutNext(j, outcome) ==
    /\ log' = [i \in DOMAIN log |->
                  IF log[i].id = j.id THEN [log[i] EXCEPT !.enrich = outcome] ELSE log[i]]
    /\ running' = running \ {j}
    /\ Persist(log')
    /\ UNCHANGED <<up, limit, queue, handlers, begun, cleared>>

(* The job ends: a record evicted or cleared meanwhile is left alone, the  *)
(* history is written either way, and the next job starts.                 *)
Settle(j, outcome) ==
    /\ log' = [i \in DOMAIN log |->
                  IF log[i].id = j.id THEN [log[i] EXCEPT !.enrich = outcome] ELSE log[i]]
    /\ Run(queue, running \ {j})
    /\ Persist(log')
    /\ UNCHANGED <<up, limit, handlers, begun, cleared>>

Answer(r) ==
    \E j \in running :
        /\ j.id = r
        /\ \/ LookAgain(j)
           \/ Settle(j, "success")
           \/ (\E answer \in Failure : ~Patient(j, answer)) /\ Settle(j, "failed")

-----------------------------------------------------------------------------
(***************************************************************************)
(* The operator's side, and the process.                                   *)
(***************************************************************************)

(* PUT /api/settings saves the limit, then applies it. *)
SetLimit(n) ==
    /\ up
    /\ limit' = n
    /\ log' = Newest(log, n)
    /\ Persist(log')
    /\ UNCHANGED <<up, jobs, handlers, begun, cleared>>

(* Mutant of Clear: the file keeps what memory dropped. *)
ClearInMemory ==
    /\ up
    /\ log' = <<>>
    /\ cleared' = begun
    /\ UNCHANGED <<up, file, limit, jobs, handlers, faults, begun>>

(* DELETE /api/requests answers 200 even when the write fails. *)
Clear ==
    /\ up
    /\ log' = <<>>
    /\ Persist(log')
    /\ cleared' = begun
    /\ UNCHANGED <<up, limit, jobs, handlers, begun>>

Die ==
    /\ up
    /\ up' = FALSE
    /\ log' = <<>>
    /\ queue' = <<>>
    /\ running' = {}
    /\ handlers' = {}
    /\ UNCHANGED <<file, faults, begun, cleared>>

Crash == Die /\ UNCHANGED limit

(* The process dies between the settings file and the history file. *)
SetLimitCrash(n) == Die /\ limit' = n

(* Mutant of Recoverable: lookups that ended are started again. *)
RecoverableEnded(rec) == rec.gen

Recoverable(rec) == rec.gen /\ rec.enrich = "pending"

(* The constructor re-queues unfinished lookups among the newest records,  *)
(* newest first.  There is one such sequence.                              *)
Unfinished(s) == {n \in DOMAIN s : n + Window > Len(s) /\ Recoverable(s[n])}

Recovered(s) ==
    {[i \in DOMAIN found |-> NewJob(s[found[i]].id, TRUE)] :
        found \in {f \in [1 .. Cardinality(Unfinished(s)) -> Unfinished(s)] :
                       \A i, j \in DOMAIN f : i < j => f[i] > f[j]}}

Restart(readable) ==
    /\ ~up
    /\ up' = TRUE
    /\ IF readable THEN UNCHANGED faults ELSE Fault
    /\ log' = IF readable THEN Newest(file, limit) ELSE <<>>
    /\ \E found \in Recovered(log') : Run(found, {})
    /\ UNCHANGED <<file, limit, handlers, begun, cleared>>

RequestStep ==
    \E r \in Rec :
        \/ Begin(r)
        \/ Preflight(r)
        \/ FinishForgotten(r)
        \/ FinishPlain(r)
        \/ FinishLookup(r)
        \/ FinishFull(r)

ControlStep ==
    \/ \E n \in Limits : SetLimit(n) \/ SetLimitCrash(n)
    \/ Clear
    \/ Crash
    \/ \E readable \in BOOLEAN : Restart(readable)

Next == RequestStep \/ (\E r \in Rec : Answer(r)) \/ ControlStep

(* Every lookup ends: the client gives it up after its timeout, and the    *)
(* sleeps between lookups are timers.  Nothing else is owed to anyone.     *)
Fairness == \A r \in Rec : WF_vars(Answer(r))

Spec == Init /\ [][Next]_vars /\ Fairness
-----------------------------------------------------------------------------
Pending(s) == {s[i].id : i \in {n \in DOMAIN s : s[n].enrich = "pending"}}

(* A record shown as resolving has a lookup on its way, through full       *)
(* queues, evictions and restarts (requestTracker.ts complete and the      *)
(* constructor).  It needs the log to fit the recovery window.             *)
PendingHasJob == Pending(log) \subseteq JobIds

(* BoundedQueue keeps both its bounds, and no job waits while a slot is    *)
(* free, also after jobs of evicted and cleared records.                   *)
QueueDiscipline ==
    /\ Len(queue) + Cardinality(running) <= MaxPending
    /\ Cardinality(running) <= Concurrency
    /\ queue # <<>> => Cardinality(running) = Concurrency

(* After DELETE /api/requests no record begun before is seen again, though *)
(* its handler and its lookup may still be running.                        *)
ClearedStaysGone == faults = 0 => cleared \cap (Ids(log) \cup Ids(file)) = {}

(* A lookup's outcome is final, in memory and in the file: no restart and  *)
(* no second completion reopens a record or replaces what was found.       *)
Outcomes(s) == {rec \in ToSet(s) : rec.enrich \in {"success", "failed"}}

KeepsOutcomes(s, t) ==
    \A rec \in Outcomes(s), after \in ToSet(t) : after.id = rec.id => after = rec

SettledForGood == [][KeepsOutcomes(log, log') /\ KeepsOutcomes(file, file')]_vars

(* requestTracker.ts: the UI eventually resolves them.  Once the process   *)
(* stays up every record shown as resolving is resolved or gone.           *)
PendingSettles ==
    <>[]up => \A r \in Rec : (r \in Pending(log)) ~> (r \notin Pending(log))
=============================================================================
