------------------------- MODULE ProxyRequestProofs -------------------------
(***************************************************************************)
(* What TLAPS proves of ProxyRequest, for every number of retries.         *)
(***************************************************************************)
EXTENDS ProxyRequest, TLAPS

Calling == pc \in {"fetch", "discard", "backoff"}
Passing == pc \in {"capture", "pipe", "drain"}

(* One response is open while one is dropped, read or passed on. *)
OpenIsOne == open = IF pc = "discard" \/ Passing THEN 1 ELSE 0

(* The head is counted with its status, and is not sent before the pipe. *)
HeadsCounted ==
    /\ answers = IF answer = NoStatus THEN 0 ELSE 1
    /\ pc \notin {"pipe", "drain", "done"} => answer = NoStatus
    /\ Passing => upstream # NoStatus

(* Every call but the first one has used up a retry. *)
AttemptsCounted ==
    /\ pc = "body" => attempts = 0
    /\ pc \in {"discard", "backoff"} => attempts <= retries
    /\ attempts <= retries + 1

(* Until the handler is done nothing is recorded or ended, and a client    *)
(* that leaves a call or a response has aborted it.  The timer is armed    *)
(* during the calls only.                                                  *)
LeavingAborts ==
    /\ pc # "done" => record = NoRecord /\ ~ended /\ leftEarly = (client = "gone")
    /\ pc = "body" => ~aborted
    /\ deadline => Calling
    /\ (Calling \/ Passing) /\ client = "gone" => aborted
    /\ abortReason = "client" => client = "gone"
    /\ pc = "done" /\ client = "here" => ended /\ ~leftEarly

IInv ==
    /\ TypeOK
    /\ OpenIsOne
    /\ HeadsCounted
    /\ AttemptsCounted
    /\ LeavingAborts
    /\ CancellationRecorded
-----------------------------------------------------------------------------
(***************************************************************************)
(* The type invariant in two halves, for the steps that change much: the   *)
(* provers handle truth values and numbers best apart.                     *)
(***************************************************************************)
Flags ==
    /\ stream \in BOOLEAN
    /\ deadline \in BOOLEAN
    /\ aborted \in BOOLEAN
    /\ deaf \in BOOLEAN
    /\ ended \in BOOLEAN
    /\ leftEarly \in BOOLEAN
    /\ record \in {NoRecord} \cup Record

Numbers ==
    /\ pc \in {"body", "fetch", "discard", "backoff", "capture", "pipe", "drain", "done"}
    /\ retries \in 0 .. MaxRetries
    /\ abortReason \in {"none", "client", "timeout"}
    /\ open \in Nat
    /\ upstream \in Nat \cup {NoStatus}
    /\ client \in {"here", "gone"}
    /\ answer \in Nat \cup {NoStatus}
    /\ answers \in Nat
    /\ attempts \in Nat

(* The first answer that is passed on. *)
LEMMA HeadType == TypeOK /\ Head => TypeOK'
  <1> SUFFICES ASSUME Flags, Numbers, Head PROVE Flags' /\ Numbers'
    BY Zenon DEF TypeOK, Flags, Numbers
  <1>1. Flags'
    BY Zenon DEF Head, Flags, abort, response
  <1>2. Numbers'
    <2>1. upstream' \in Nat /\ open' \in Nat /\ pc' \in {"pipe", "capture"}
      BY DEF Head, Numbers
    <2>2. UNCHANGED <<retries, attempts, abortReason, client, answer, answers>>
      BY DEF Head, abort, response
    <2> QED
      BY <2>1, <2>2 DEF Numbers
  <1> QED
    BY <1>1, <1>2

(* A failing call is answered with an error, or not at all. *)
LEMMA CallFailsAnswers ==
    ASSUME CallFails
    PROVE  \/ UNCHANGED response
           \/ answer' \in Nat /\ answers' = answers + 1 /\ ended' = TRUE
  <1>1. CASE aborted /\ client = "gone"
    BY <1>1 DEF CallFails
  <1>2. CASE ~(aborted /\ client = "gone")
    <2>1. Answer(IF abortReason = "timeout" THEN 504 ELSE 502)
      BY <1>2 DEF CallFails
    <2> QED
      BY <2>1 DEF Answer
  <1> QED
    BY <1>1, <1>2

(* A failing call keeps the types. *)
LEMMA CallFailsType == TypeOK /\ CallFails /\ record' \in Record => TypeOK'
  <1> SUFFICES ASSUME Flags, Numbers, CallFails, record' \in Record PROVE Flags' /\ Numbers'
    BY Zenon DEF TypeOK, Flags, Numbers
  <1>1. \/ UNCHANGED response
        \/ answer' \in Nat /\ answers' = answers + 1 /\ ended' = TRUE
    BY CallFailsAnswers
  <1>2. /\ UNCHANGED <<stream, aborted, deaf, leftEarly>>
        /\ UNCHANGED <<retries, open, upstream, attempts, abortReason, client>>
        /\ deadline' = FALSE /\ pc' = "done"
    BY DEF CallFails, abort
  <1>3. Flags'
    <2>1. ended' \in BOOLEAN
      BY Zenon, <1>1 DEF Flags, response
    <2> QED
      BY Zenon, <1>2, <2>1 DEF Flags
  <1>4. Numbers'
    <2>1. answer' \in Nat \cup {NoStatus} /\ answers' \in Nat
      BY <1>1 DEF Numbers, response
    <2> QED
      BY <1>2, <2>1 DEF Numbers
  <1> QED
    BY <1>3, <1>4

(* The types hold at first. *)
LEMMA InitType == Init => TypeOK
  <1> SUFFICES ASSUME Init PROVE Flags /\ Numbers
    BY Zenon DEF TypeOK, Flags, Numbers
  <1>1. Flags
    BY Zenon DEF Init, Flags
  <1>2. Numbers
    BY ProxyAssumption DEF Init, Numbers
  <1> QED
    BY <1>1, <1>2

(* The invariant holds at first. *)
LEMMA InitIInv == Init => IInv
  <1> SUFFICES ASSUME Init PROVE IInv
    OBVIOUS
  <1>1. TypeOK
    BY InitType
  <1>2. OpenIsOne /\ HeadsCounted /\ AttemptsCounted /\ CancellationRecorded
    BY DEF Init, OpenIsOne, HeadsCounted, AttemptsCounted, CancellationRecorded, Passing
  <1>3. LeavingAborts
    BY DEF Init, LeavingAborts, Passing, Calling
  <1> QED
    BY <1>1, <1>2, <1>3 DEF IInv

(* The first report is kept, as it is. *)
LEMMA FinishRecords ==
    ASSUME record = NoRecord, NEW status \in Nat \cup {NoStatus}, NEW cancelled \in BOOLEAN,
           Finish(status, cancelled)
    PROVE  /\ record' \in Record
           /\ record' # NoRecord
           /\ record'.cancelled = cancelled
  BY DEF Finish, NoRecord, Record

(* The failing call, whether the network or the abort ends it. *)
LEMMA CallFailsKeeps ==
    ASSUME IInv, pc \in {"fetch", "backoff"}, CallFails
    PROVE  IInv'
  <1>0. record = NoRecord /\ (client = "gone" => aborted)
    BY DEF IInv, LeavingAborts, Calling
  <1>1. record' \in Record /\ record' # NoRecord /\ record'.cancelled = (client = "gone")
    <2>1. CASE aborted /\ client = "gone"
      BY <1>0, <2>1, FinishRecords DEF CallFails
    <2>2. CASE ~(aborted /\ client = "gone")
      <3>1. client # "gone" /\ abortReason # "client"
        BY <1>0, <2>2 DEF IInv, LeavingAborts
      <3>2. Finish(502, FALSE)
        BY <2>2, <3>1 DEF CallFails
      <3>3. record' \in Record /\ record' # NoRecord /\ record'.cancelled = FALSE
        BY <1>0, <3>2 DEF Finish, Record, NoRecord
      <3> QED
        BY <3>1, <3>3
    <2> QED
      BY <2>1, <2>2
  <1>2. TypeOK'
    BY <1>1, CallFailsType DEF IInv
  <1>3. OpenIsOne'
    BY <1>0 DEF IInv, CallFails, Answer, TypeOK, OpenIsOne, Passing, call, abort, response
  <1>4. HeadsCounted'
    <2>1. answer = NoStatus /\ answers = 0
      BY DEF IInv, HeadsCounted
    <2>2. pc' = "done"
      BY DEF CallFails
    <2>3. CASE UNCHANGED response
      BY <2>1, <2>2, <2>3 DEF HeadsCounted, Passing, response
    <2>4. CASE answer' \in Nat /\ answers' = answers + 1
      BY <2>1, <2>2, <2>4, ProxyAssumption DEF HeadsCounted, Passing
    <2> QED
      BY <2>3, <2>4, CallFailsAnswers
  <1>5. AttemptsCounted'
    BY <1>0 DEF IInv, CallFails, Answer, TypeOK, AttemptsCounted, call, abort, response
  <1>6. LeavingAborts'
    BY <1>0 DEF IInv, CallFails, Answer, TypeOK, LeavingAborts, Passing, Calling, call,
       abort, response
  <1>7. CancellationRecorded'
    BY <1>0, <1>1, ProxyAssumption DEF IInv, CallFails, Answer, TypeOK, LeavingAborts,
       AttemptsCounted, CancellationRecorded, Passing, Calling, call, abort, response
  <1> QED
    BY <1>2, <1>3, <1>4, <1>5, <1>6, <1>7 DEF IInv

(* Every step keeps the invariant. *)
LEMMA NextIInv == IInv /\ [Next]_vars => IInv'
  <1> SUFFICES ASSUME IInv, [Next]_vars PROVE IInv'
    OBVIOUS
  <1>1. CASE Refused
    <2>0. record' \in Record /\ record' # NoRecord
      <3>1. record = NoRecord
        BY <1>1 DEF IInv, TypeOK, LeavingAborts, Refused
      <3>2. PICK status \in {400, 403} :
              record' = [finished |-> TRUE, status |-> status, cancelled |-> FALSE]
        BY <1>1, <3>1 DEF Refused, Finish
      <3> QED
        BY <3>2 DEF Record, NoRecord
    <2>1. TypeOK'
      BY <1>1, <2>0, ProxyAssumption DEF IInv, Refused, Answer, TypeOK, call, abort, response
    <2>2. OpenIsOne'
      BY <1>1 DEF IInv, Refused, Answer, TypeOK, OpenIsOne, Passing, call, abort, response
    <2>3. HeadsCounted'
      BY <1>1, ProxyAssumption DEF IInv, Refused, Answer, TypeOK, HeadsCounted, Passing,
         call, abort, response
    <2>4. AttemptsCounted'
      BY <1>1 DEF IInv, Refused, Answer, TypeOK, AttemptsCounted, call, abort, response
    <2>5. LeavingAborts'
      BY <1>1 DEF IInv, Refused, Answer, TypeOK, LeavingAborts, Passing, Calling, call,
         abort, response
    <2>6. CancellationRecorded'
      BY <1>1, <2>0, ProxyAssumption DEF IInv, Refused, Answer, TypeOK, LeavingAborts,
         AttemptsCounted, CancellationRecorded, Passing, Calling, call, abort, response
    <2> QED
      BY <2>1, <2>2, <2>3, <2>4, <2>5, <2>6 DEF IInv
  <1>2. CASE Call
    <2>1. TypeOK'
      BY <1>2, ProxyAssumption DEF IInv, Call, TypeOK, call, abort, response
    <2>2. OpenIsOne'
      BY <1>2 DEF IInv, Call, TypeOK, OpenIsOne, Passing, call, abort, response
    <2>3. HeadsCounted'
      BY <1>2, ProxyAssumption DEF IInv, Call, TypeOK, HeadsCounted, Passing, call, abort, response
    <2>4. AttemptsCounted'
      BY <1>2 DEF IInv, Call, TypeOK, AttemptsCounted, call, abort, response
    <2>5. LeavingAborts'
      BY <1>2 DEF IInv, Call, TypeOK, LeavingAborts, Passing, Calling, call, abort, response
    <2>6. CancellationRecorded'
      BY <1>2, ProxyAssumption DEF IInv, Call, TypeOK, LeavingAborts, AttemptsCounted,
         CancellationRecorded, Passing, Calling, call, abort, response
    <2> QED
      BY <2>1, <2>2, <2>3, <2>4, <2>5, <2>6 DEF IInv
  <1>3. CASE Throws
    <2>0. record' \in Record /\ record' # NoRecord
      <3>1. record = NoRecord
        BY <1>3 DEF IInv, TypeOK, LeavingAborts, Throws
      <3> QED
        BY <1>3, <3>1, FinishRecords DEF Throws, OuterCatch
    <2>1. TypeOK'
      BY <1>3, <2>0, ProxyAssumption DEF IInv, Throws, OuterCatch, TypeOK, call, abort, response
    <2>2. OpenIsOne'
      BY <1>3 DEF IInv, Throws, OuterCatch, TypeOK, OpenIsOne, Passing, call, abort, response
    <2>3. HeadsCounted'
      BY <1>3, ProxyAssumption DEF IInv, Throws, OuterCatch, TypeOK, HeadsCounted,
         Passing, call, abort, response
    <2>4. AttemptsCounted'
      BY <1>3 DEF IInv, Throws, OuterCatch, TypeOK, AttemptsCounted, call, abort, response
    <2>5. LeavingAborts'
      BY <1>3 DEF IInv, Throws, OuterCatch, TypeOK, LeavingAborts, Passing, Calling, call,
         abort, response
    <2>6. CancellationRecorded'
      BY <1>3, <2>0, ProxyAssumption DEF IInv, Throws, OuterCatch, TypeOK, LeavingAborts,
         AttemptsCounted, CancellationRecorded, Passing, Calling, call, abort, response
    <2> QED
      BY <2>1, <2>2, <2>3, <2>4, <2>5, <2>6 DEF IInv
  <1>4. CASE ClientLeaves
    <2>1. TypeOK'
      <3>1. TypeOK /\ ClientLeaves => TypeOK'
        BY ProxyAssumption DEF ClientLeaves, TypeOK, call, abort, response
      <3> QED
        BY <1>4, <3>1 DEF IInv
    <2>2. OpenIsOne'
      BY <1>4 DEF IInv, ClientLeaves, TypeOK, OpenIsOne, Passing, call, abort, response
    <2>3. HeadsCounted'
      BY <1>4, ProxyAssumption DEF IInv, ClientLeaves, TypeOK, HeadsCounted, Passing,
         call, abort, response
    <2>4. AttemptsCounted'
      BY <1>4 DEF IInv, ClientLeaves, TypeOK, AttemptsCounted, call, abort, response
    <2>5. LeavingAborts'
      BY <1>4 DEF IInv, ClientLeaves, TypeOK, LeavingAborts, Passing, Calling, call, abort, response
    <2>6. CancellationRecorded'
      BY <1>4, ProxyAssumption DEF IInv, ClientLeaves, TypeOK, LeavingAborts,
         AttemptsCounted, CancellationRecorded, Passing, Calling, call, abort, response
    <2> QED
      BY <2>1, <2>2, <2>3, <2>4, <2>5, <2>6 DEF IInv
  <1>5. CASE Deadline
    <2>1. TypeOK'
      BY <1>5, ProxyAssumption DEF IInv, Deadline, TypeOK, call, abort, response
    <2>2. OpenIsOne'
      BY <1>5 DEF IInv, Deadline, TypeOK, OpenIsOne, Passing, call, abort, response
    <2>3. HeadsCounted'
      BY <1>5, ProxyAssumption DEF IInv, Deadline, TypeOK, HeadsCounted, Passing, call,
         abort, response
    <2>4. AttemptsCounted'
      BY <1>5 DEF IInv, Deadline, TypeOK, AttemptsCounted, call, abort, response
    <2>5. LeavingAborts'
      BY <1>5 DEF IInv, Deadline, TypeOK, LeavingAborts, Passing, Calling, call, abort, response
    <2>6. CancellationRecorded'
      BY <1>5, ProxyAssumption DEF IInv, Deadline, TypeOK, LeavingAborts, AttemptsCounted,
         CancellationRecorded, Passing, Calling, call, abort, response
    <2> QED
      BY <2>1, <2>2, <2>3, <2>4, <2>5, <2>6 DEF IInv
  <1>6. CASE Limited
    <2>1. TypeOK'
      BY <1>6, ProxyAssumption DEF IInv, Limited, TypeOK, call, abort, response
    <2>2. OpenIsOne'
      BY <1>6 DEF IInv, Limited, TypeOK, OpenIsOne, Passing, call, abort, response
    <2>3. HeadsCounted'
      BY <1>6, ProxyAssumption DEF IInv, Limited, TypeOK, HeadsCounted, Passing, call,
         abort, response
    <2>4. AttemptsCounted'
      BY <1>6 DEF IInv, Limited, TypeOK, AttemptsCounted, call, abort, response
    <2>5. LeavingAborts'
      BY <1>6 DEF IInv, Limited, TypeOK, LeavingAborts, Passing, Calling, call, abort, response
    <2>6. CancellationRecorded'
      BY <1>6, ProxyAssumption DEF IInv, Limited, TypeOK, LeavingAborts, AttemptsCounted,
         CancellationRecorded, Passing, Calling, call, abort, response
    <2> QED
      BY <2>1, <2>2, <2>3, <2>4, <2>5, <2>6 DEF IInv
  <1>7. CASE Head
    <2>1. TypeOK'
      BY <1>7, HeadType DEF IInv
    <2>2. OpenIsOne'
      BY <1>7 DEF IInv, Head, TypeOK, OpenIsOne, Passing, call, abort, response
    <2>3. HeadsCounted'
      BY <1>7, ProxyAssumption DEF IInv, Head, TypeOK, HeadsCounted, Passing, call, abort, response
    <2>4. AttemptsCounted'
      BY <1>7 DEF IInv, Head, TypeOK, AttemptsCounted, call, abort, response
    <2>5. LeavingAborts'
      BY <1>7 DEF IInv, Head, TypeOK, LeavingAborts, Passing, Calling, call, abort, response
    <2>6. CancellationRecorded'
      BY <1>7, ProxyAssumption DEF IInv, Head, TypeOK, LeavingAborts, AttemptsCounted,
         CancellationRecorded, Passing, Calling, call, abort, response
    <2> QED
      BY <2>1, <2>2, <2>3, <2>4, <2>5, <2>6 DEF IInv
  <1>8. CASE NetworkFails
    BY <1>8, CallFailsKeeps DEF NetworkFails
  <1>9. CASE Captured
    <2>1. TypeOK'
      BY <1>9, ProxyAssumption DEF IInv, Captured, TypeOK, call, abort, response
    <2>2. OpenIsOne'
      BY <1>9 DEF IInv, Captured, TypeOK, OpenIsOne, Passing, call, abort, response
    <2>3. HeadsCounted'
      BY <1>9, ProxyAssumption DEF IInv, Captured, TypeOK, HeadsCounted, Passing, call,
         abort, response
    <2>4. AttemptsCounted'
      BY <1>9 DEF IInv, Captured, TypeOK, AttemptsCounted, call, abort, response
    <2>5. LeavingAborts'
      BY <1>9 DEF IInv, Captured, TypeOK, LeavingAborts, Passing, Calling, call, abort, response
    <2>6. CancellationRecorded'
      BY <1>9, ProxyAssumption DEF IInv, Captured, TypeOK, LeavingAborts, AttemptsCounted,
         CancellationRecorded, Passing, Calling, call, abort, response
    <2> QED
      BY <2>1, <2>2, <2>3, <2>4, <2>5, <2>6 DEF IInv
  <1>10. CASE Chunk
    <2>1. TypeOK'
      BY <1>10, ProxyAssumption DEF IInv, Chunk, Started, TypeOK, call, abort, response
    <2>2. OpenIsOne'
      BY <1>10 DEF IInv, Chunk, Started, TypeOK, OpenIsOne, Passing, call, abort, response
    <2>3. HeadsCounted'
      BY <1>10, ProxyAssumption DEF IInv, Chunk, Started, TypeOK, HeadsCounted, Passing,
         call, abort, response
    <2>4. AttemptsCounted'
      BY <1>10 DEF IInv, Chunk, Started, TypeOK, AttemptsCounted, call, abort, response
    <2>5. LeavingAborts'
      BY <1>10 DEF IInv, Chunk, Started, TypeOK, LeavingAborts, Passing, Calling, call,
         abort, response
    <2>6. CancellationRecorded'
      BY <1>10, ProxyAssumption DEF IInv, Chunk, Started, TypeOK, LeavingAborts,
         AttemptsCounted, CancellationRecorded, Passing, Calling, call, abort, response
    <2> QED
      BY <2>1, <2>2, <2>3, <2>4, <2>5, <2>6 DEF IInv
  <1>11. CASE Drained
    <2>1. TypeOK'
      BY <1>11, ProxyAssumption DEF IInv, Drained, TypeOK, call, abort, response
    <2>2. OpenIsOne'
      BY <1>11 DEF IInv, Drained, TypeOK, OpenIsOne, Passing, call, abort, response
    <2>3. HeadsCounted'
      BY <1>11, ProxyAssumption DEF IInv, Drained, TypeOK, HeadsCounted, Passing, call,
         abort, response
    <2>4. AttemptsCounted'
      BY <1>11 DEF IInv, Drained, TypeOK, AttemptsCounted, call, abort, response
    <2>5. LeavingAborts'
      BY <1>11 DEF IInv, Drained, TypeOK, LeavingAborts, Passing, Calling, call, abort, response
    <2>6. CancellationRecorded'
      BY <1>11, ProxyAssumption DEF IInv, Drained, TypeOK, LeavingAborts, AttemptsCounted,
         CancellationRecorded, Passing, Calling, call, abort, response
    <2> QED
      BY <2>1, <2>2, <2>3, <2>4, <2>5, <2>6 DEF IInv
  <1>12. CASE LastChunk
    <2>0. record' \in Record /\ record' # NoRecord /\ record'.cancelled = (client = "gone")
      <3>1. record = NoRecord /\ upstream \in Nat \cup {NoStatus} /\ (abortReason = "client" => client = "gone")
        BY <1>12 DEF IInv, TypeOK, LeavingAborts, LastChunk
      <3> QED
        BY <1>12, <3>1, FinishRecords DEF LastChunk
    <2>1. TypeOK'
      BY <1>12, <2>0, ProxyAssumption DEF IInv, LastChunk, Started, TypeOK, OpenIsOne,
         Passing, call, abort, response
    <2>2. OpenIsOne'
      BY <1>12 DEF IInv, LastChunk, Started, TypeOK, OpenIsOne, Passing, call, abort, response
    <2>3. HeadsCounted'
      BY <1>12, ProxyAssumption DEF IInv, LastChunk, Started, TypeOK, HeadsCounted,
         Passing, call, abort, response
    <2>4. AttemptsCounted'
      BY <1>12 DEF IInv, LastChunk, Started, TypeOK, AttemptsCounted, call, abort, response
    <2>5. LeavingAborts'
      BY <1>12 DEF IInv, LastChunk, Started, TypeOK, LeavingAborts, Passing, Calling,
         call, abort, response
    <2>6. CancellationRecorded'
      BY <1>12, <2>0, ProxyAssumption DEF IInv, LastChunk, Started, TypeOK, LeavingAborts,
         AttemptsCounted, CancellationRecorded, Passing, Calling, call, abort, response
    <2> QED
      BY <2>1, <2>2, <2>3, <2>4, <2>5, <2>6 DEF IInv
  <1>13. CASE PipeBreaks
    <2>0. record' \in Record /\ record' # NoRecord /\ record'.cancelled = (client = "gone")
      <3>1. record = NoRecord /\ upstream \in Nat \cup {NoStatus} /\ (abortReason = "client" => client = "gone")
        BY <1>13 DEF IInv, TypeOK, LeavingAborts, PipeBreaks
      <3> QED
        BY <1>13, <3>1, FinishRecords DEF PipeBreaks, OuterCatch
    <2>1. TypeOK'
      BY <1>13, <2>0, ProxyAssumption DEF IInv, PipeBreaks, OuterCatch, TypeOK, OpenIsOne,
         Passing, call, abort, response
    <2>2. OpenIsOne'
      BY <1>13 DEF IInv, PipeBreaks, OuterCatch, TypeOK, OpenIsOne, Passing, call, abort, response
    <2>3. HeadsCounted'
      BY <1>13, ProxyAssumption DEF IInv, PipeBreaks, OuterCatch, TypeOK, HeadsCounted,
         Passing, call, abort, response
    <2>4. AttemptsCounted'
      BY <1>13 DEF IInv, PipeBreaks, OuterCatch, TypeOK, AttemptsCounted, call, abort, response
    <2>5. LeavingAborts'
      BY <1>13 DEF IInv, PipeBreaks, OuterCatch, TypeOK, LeavingAborts, Passing, Calling,
         call, abort, response
    <2>6. CancellationRecorded'
      BY <1>13, <2>0, ProxyAssumption DEF IInv, PipeBreaks, OuterCatch, TypeOK,
         LeavingAborts, AttemptsCounted, CancellationRecorded, Passing, Calling, call,
         abort, response
    <2> QED
      BY <2>1, <2>2, <2>3, <2>4, <2>5, <2>6 DEF IInv
  <1>14. CASE Discarded
    <2>1. TypeOK'
      BY <1>14, ProxyAssumption DEF IInv, Discarded, TypeOK, OpenIsOne, Passing, call,
         abort, response
    <2>2. OpenIsOne'
      BY <1>14 DEF IInv, Discarded, TypeOK, OpenIsOne, Passing, call, abort, response
    <2>3. HeadsCounted'
      BY <1>14, ProxyAssumption DEF IInv, Discarded, TypeOK, HeadsCounted, Passing, call,
         abort, response
    <2>4. AttemptsCounted'
      BY <1>14 DEF IInv, Discarded, TypeOK, AttemptsCounted, call, abort, response
    <2>5. LeavingAborts'
      BY <1>14 DEF IInv, Discarded, TypeOK, LeavingAborts, Passing, Calling, call, abort, response
    <2>6. CancellationRecorded'
      BY <1>14, ProxyAssumption DEF IInv, Discarded, TypeOK, LeavingAborts,
         AttemptsCounted, CancellationRecorded, Passing, Calling, call, abort, response
    <2> QED
      BY <2>1, <2>2, <2>3, <2>4, <2>5, <2>6 DEF IInv
  <1>15. CASE Retry
    <2>1. TypeOK'
      BY <1>15, ProxyAssumption DEF IInv, Retry, TypeOK, call, abort, response
    <2>2. OpenIsOne'
      BY <1>15 DEF IInv, Retry, TypeOK, OpenIsOne, Passing, call, abort, response
    <2>3. HeadsCounted'
      BY <1>15, ProxyAssumption DEF IInv, Retry, TypeOK, HeadsCounted, Passing, call,
         abort, response
    <2>4. AttemptsCounted'
      BY <1>15 DEF IInv, Retry, TypeOK, AttemptsCounted, call, abort, response
    <2>5. LeavingAborts'
      BY <1>15 DEF IInv, Retry, TypeOK, LeavingAborts, Passing, Calling, call, abort, response
    <2>6. CancellationRecorded'
      BY <1>15, ProxyAssumption DEF IInv, Retry, TypeOK, LeavingAborts, AttemptsCounted,
         CancellationRecorded, Passing, Calling, call, abort, response
    <2> QED
      BY <2>1, <2>2, <2>3, <2>4, <2>5, <2>6 DEF IInv
  <1>16. CASE AbortHeard
    BY <1>16, CallFailsKeeps DEF AbortHeard
  <1>17. CASE PipeStops
    <2>0. record' \in Record /\ record' # NoRecord /\ record'.cancelled = (client = "gone")
      <3>1. record = NoRecord /\ upstream \in Nat \cup {NoStatus} /\ (abortReason = "client" => client = "gone")
        BY <1>17 DEF IInv, TypeOK, LeavingAborts, PipeStops
      <3> QED
        BY <1>17, <3>1, FinishRecords DEF PipeStops
    <2>1. TypeOK'
      BY <1>17, <2>0, ProxyAssumption DEF IInv, PipeStops, Started, TypeOK, OpenIsOne,
         Passing, call, abort, response
    <2>2. OpenIsOne'
      BY <1>17 DEF IInv, PipeStops, Started, TypeOK, OpenIsOne, Passing, call, abort, response
    <2>3. HeadsCounted'
      BY <1>17, ProxyAssumption DEF IInv, PipeStops, Started, TypeOK, HeadsCounted,
         Passing, call, abort, response
    <2>4. AttemptsCounted'
      BY <1>17 DEF IInv, PipeStops, Started, TypeOK, AttemptsCounted, call, abort, response
    <2>5. LeavingAborts'
      BY <1>17 DEF IInv, PipeStops, Started, TypeOK, LeavingAborts, Passing, Calling,
         call, abort, response
    <2>6. CancellationRecorded'
      BY <1>17, <2>0, ProxyAssumption DEF IInv, PipeStops, Started, TypeOK, LeavingAborts,
         AttemptsCounted, CancellationRecorded, Passing, Calling, call, abort, response
    <2> QED
      BY <2>1, <2>2, <2>3, <2>4, <2>5, <2>6 DEF IInv
  <1>18. CASE UNCHANGED vars
    BY <1>18 DEF vars, call, abort, response, IInv, Calling, Passing, TypeOK, OpenIsOne,
       HeadsCounted, AttemptsCounted, LeavingAborts, CancellationRecorded
  <1> QED
    BY <1>1, <1>2, <1>3, <1>4, <1>5, <1>6, <1>7, <1>8, <1>9, <1>10, <1>11, <1>12, <1>13,
       <1>14, <1>15, <1>16, <1>17, <1>18 DEF Next

(* The inductive invariant holds in every behaviour. *)
THEOREM Invariant == Spec => []IInv
  BY InitIInv, NextIInv, PTL DEF Spec

(* Every variable keeps its type: in particular the retries of a limited   *)
(* request never run past the table of delays.                             *)
THEOREM TypeCorrect == Spec => []TypeOK
  BY Invariant, PTL DEF IInv

(* The client gets at most one head, whichever of the error paths of       *)
(* server.ts and util/http.ts run.                                         *)
THEOREM OneAnswer == Spec => []AnsweredOnce
  <1>1. IInv => AnsweredOnce
    BY DEF IInv, HeadsCounted, AnsweredOnce
  <1> QED
    BY <1>1, Invariant, PTL

(* Once the handler of a request that reached OpenRouter is done, its      *)
(* record says cancelled exactly if the client left early.                 *)
THEOREM CancellationsAreRecorded == Spec => []CancellationRecorded
  BY Invariant, PTL DEF IInv

(* Every response of OpenRouter is read to its end, passed on or dropped.  *)
THEOREM ResponsesAreDropped == Spec => []NothingLeftOpen
  <1>1. IInv => NothingLeftOpen
    BY DEF IInv, OpenIsOne, Passing, NothingLeftOpen
  <1> QED
    BY <1>1, Invariant, PTL

(* Calls of OpenRouter are bounded by the retries, and none starts after   *)
(* the abort or after an answer.                                           *)
THEOREM RetriesAreBounded == Spec => RetriesBounded
  <1>1. ASSUME IInv, [Next]_vars, attempts' # attempts
        PROVE  attempts' <= MaxRetries + 1 /\ ~aborted /\ answer = NoStatus
    <2>1. Call \/ Retry
      BY <1>1 DEF Next, vars, call, Refused, Throws, ClientLeaves, Deadline, Limited,
         Head, NetworkFails,
         AbortHeard, CallFails, Captured, Chunk, Drained, LastChunk, PipeBreaks, Discarded, PipeStops
    <2>2. CASE Call
      BY <1>1, <2>2, ProxyAssumption DEF Call, IInv, TypeOK, HeadsCounted,
         AttemptsCounted, LeavingAborts
    <2>3. CASE Retry
      BY <1>1, <2>3, ProxyAssumption DEF Retry, IInv, TypeOK, HeadsCounted, AttemptsCounted
    <2> QED
      BY <2>1, <2>2, <2>3
  <1> QED
    BY <1>1, Invariant, PTL DEF Spec, RetriesBounded
=============================================================================
