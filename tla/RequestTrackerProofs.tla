------------------------ MODULE RequestTrackerProofs ------------------------
(***************************************************************************)
(* What TLAPS proves of RequestTracker, for all sets of requests and       *)
(* limits, every size of the queue and every number of faults.             *)
(***************************************************************************)
EXTENDS RequestTracker, FiniteSetTheorems, SequenceTheorems, TLAPS

(***************************************************************************)
(* Sequences and their cardinalities.                                      *)
(***************************************************************************)

(* A sequence without repetition has as many items as places. *)
LEMMA DistinctItems ==
    ASSUME NEW S, NEW s \in Seq(S), \A i, j \in DOMAIN s : s[i] = s[j] => i = j
    PROVE  IsFiniteSet(ToSet(s)) /\ Cardinality(ToSet(s)) = Len(s)
  <1>1. s \in Bijection(1 .. Len(s), ToSet(s))
    BY DEF Bijection, Injection, Surjection, ToSet, IsInjective
  <1>2. IsFiniteSet(1 .. Len(s)) /\ Cardinality(1 .. Len(s)) = Len(s)
    <2>1. PICK l \in Nat : l = Len(s)
      OBVIOUS
    <2>2. IsFiniteSet(1 .. l) /\ Cardinality(1 .. l) = IF 1 > l THEN 0 ELSE l - 1 + 1
      BY FS_Interval
    <2>3. (IF 1 > l THEN 0 ELSE l - 1 + 1) = l
      OBVIOUS
    <2> QED
      BY <2>1, <2>2, <2>3
  <1> QED
    BY <1>1, <1>2, FS_Bijection DEF ExistsBijection

(* The items of s after the first k, up to the n-th. *)
Part(s, k, n) == SubSeq(s, k + 1, n)

(* Part keeps the items and their order. *)
IsPart(S, s, k, n) ==
    /\ Part(s, k, n) \in Seq(S)
    /\ Len(Part(s, k, n)) = n - k
    /\ DOMAIN Part(s, k, n) = 1 .. n - k
    /\ \A i \in 1 .. n - k : Part(s, k, n)[i] = s[i + k]

(* Cutting a sequence at k and n gives the part between them. *)
LEMMA PartItems ==
    ASSUME NEW S, NEW s \in Seq(S), NEW k \in Nat, NEW n \in Nat, k <= n, n <= Len(s)
    PROVE  IsPart(S, s, k, n)
  <1>1. \A i \in k + 1 .. n : s[i] \in S
    OBVIOUS
  <1>2. /\ SubSeq(s, k + 1, n) \in Seq(S)
        /\ Len(SubSeq(s, k + 1, n)) = IF k + 1 <= n THEN n - (k + 1) + 1 ELSE 0
        /\ \A i \in 1 .. n - (k + 1) + 1 : SubSeq(s, k + 1, n)[i] = s[k + 1 + i - 1]
    BY <1>1, k + 1 \in Int, n \in Int, SubSeqProperties
  <1>3. /\ (IF k + 1 <= n THEN n - (k + 1) + 1 ELSE 0) = n - k
        /\ n - (k + 1) + 1 = n - k
        /\ \A i \in 1 .. n - k : k + 1 + i - 1 = i + k
    OBVIOUS
  <1>4. \A t \in Seq(S) : DOMAIN t = 1 .. Len(t)
    OBVIOUS
  <1> QED
    BY <1>2, <1>3, <1>4, Zenon DEF Part, IsPart

(* How many of the oldest records do not fit. *)
Excess(s, n) == IF Len(s) > n THEN Len(s) - n ELSE 0

(* Newest leaves the excess out and keeps the rest in place. *)
LEMMA NewestItems ==
    ASSUME NEW S, NEW s \in Seq(S), NEW n \in Nat
    PROVE  /\ Newest(s, n) \in Seq(S)
           /\ Len(Newest(s, n)) <= n
           /\ Excess(s, n) \in Nat
           /\ \A i \in DOMAIN Newest(s, n) :
                  i + Excess(s, n) \in DOMAIN s /\ Newest(s, n)[i] = s[i + Excess(s, n)]
  <1>1. PICK l \in Nat : l = Len(s) /\ DOMAIN s = 1 .. l
    OBVIOUS
  <1>2. PICK k \in Nat : /\ k = Excess(s, n) /\ k <= l /\ l - k <= n
                         /\ (IF l > n THEN l - n + 1 ELSE 1) = k + 1
    <2>1. CASE l > n
      <3>1. l - n \in Nat /\ l - n + 1 = l - n + 1 /\ l - n = Excess(s, n)
        BY <1>1, <2>1 DEF Excess
      <3> QED
        BY <2>1, <3>1
    <2>2. CASE ~(l > n)
      <3>1. 0 = Excess(s, n)
        BY <1>1, <2>2 DEF Excess
      <3> QED
        BY <2>2, <3>1
    <2> QED
      BY <2>1, <2>2
  <1>3. Newest(s, n) = Part(s, k, l)
    BY <1>1, <1>2 DEF Newest, Part
  <1>4. /\ Newest(s, n) \in Seq(S) /\ Len(Newest(s, n)) = l - k
        /\ DOMAIN Newest(s, n) = 1 .. l - k
        /\ \A i \in 1 .. l - k : Newest(s, n)[i] = s[i + k]
    <2>1. k <= l /\ l <= Len(s)
      BY <1>1, <1>2
    <2>2. IsPart(S, s, k, l)
      BY <2>1, PartItems
    <2> QED
      BY <1>3, <2>2, Zenon DEF IsPart
  <1>5. \A i \in 1 .. l - k : i + k \in 1 .. l
    BY <1>2
  <1>6. Len(Newest(s, n)) <= n
    BY <1>2, <1>4
  <1>7. \A i \in DOMAIN Newest(s, n) :
           i + Excess(s, n) \in DOMAIN s /\ Newest(s, n)[i] = s[i + Excess(s, n)]
    BY <1>1, <1>2, <1>4, <1>5, Zenon
  <1> QED
    BY <1>2, <1>4, <1>6, <1>7
-----------------------------------------------------------------------------
(***************************************************************************)
(* The queue.                                                              *)
(***************************************************************************)

(* No two of the jobs waiting in w or running in a are for one record. *)
Distinct(w, a) ==
    /\ \A i, j \in DOMAIN w : w[i].id = w[j].id => i = j
    /\ \A j, k \in a : j.id = k.id => j = k
    /\ \A i \in DOMAIN w, k \in a : w[i].id # k.id

IdsOf(w, a) == {j.id : j \in a} \cup Ids(w)

(* Jobs move from the queue to the free slots: none is lost or doubled,    *)
(* and one waits only if no slot is left.                                  *)
LEMMA RunMoves ==
    ASSUME NEW w \in Seq(Job), NEW a \in SUBSET Job, IsFiniteSet(a),
           Distinct(w, a), Cardinality(a) <= Concurrency, Run(w, a)
    PROVE  /\ queue' \in Seq(Job)
           /\ running' \in SUBSET Job
           /\ IsFiniteSet(running')
           /\ Distinct(queue', running')
           /\ IdsOf(queue', running') = IdsOf(w, a)
           /\ Cardinality(running') <= Concurrency
           /\ Len(queue') + Cardinality(running') = Len(w) + Cardinality(a)
           /\ queue' # <<>> => Cardinality(running') = Concurrency
  <1> DEFINE free == Concurrency - Cardinality(a)
             n == IF Len(w) < free THEN Len(w) ELSE free
             started == Part(w, 0, n)
             rest == Part(w, n, Len(w))
  <1>1. /\ Cardinality(a) \in Nat /\ Len(w) \in Nat /\ DOMAIN w = 1 .. Len(w)
        /\ free \in Nat /\ n \in Nat /\ n <= Len(w) /\ n <= free
        /\ n < Len(w) => n = free
    BY FS_CardinalityType, TrackerAssumption
  <1>2. running' = a \cup ToSet(started) /\ queue' = rest
    BY DEF Run, Part
  <1> HIDE DEF free, n
  <1>3. /\ started \in Seq(Job) /\ Len(started) = n /\ DOMAIN started = 1 .. n
        /\ \A i \in 1 .. n : started[i] = w[i]
    <2>1. n - 0 = n /\ 0 <= n /\ 0 \in Nat /\ \A i \in 1 .. n : i + 0 = i
      BY <1>1
    <2>2. IsPart(Job, w, 0, n)
      BY <1>1, <2>1, PartItems
    <2>3. /\ started \in Seq(Job) /\ Len(started) = n - 0 /\ DOMAIN started = 1 .. n - 0
          /\ \A i \in 1 .. n - 0 : started[i] = w[i + 0]
      BY <2>2, Zenon DEF IsPart
    <2> QED
      BY <2>1, <2>3, Zenon
  <1>4. /\ rest \in Seq(Job) /\ Len(rest) = Len(w) - n /\ DOMAIN rest = 1 .. Len(w) - n
        /\ \A i \in 1 .. Len(w) - n : rest[i] = w[i + n]
    <2>1. n \in Nat /\ Len(w) \in Nat /\ n <= Len(w) /\ Len(w) <= Len(w)
      BY <1>1
    <2>2. IsPart(Job, w, n, Len(w))
      BY <2>1, PartItems
    <2> QED
      BY <2>2, Zenon DEF IsPart
  <1> HIDE DEF started, rest
  <1>5. PICK l \in Nat : l = Len(w) /\ DOMAIN w = 1 .. l /\ n <= l
    BY <1>1
  <1>6. ToSet(started) = {w[i] : i \in 1 .. n}
    BY <1>3 DEF ToSet
  <1>7. IsFiniteSet(ToSet(started)) /\ Cardinality(ToSet(started)) = n
    <2>1. \A i, j \in DOMAIN started : started[i] = started[j] => i = j
      BY <1>1, <1>3, <1>5 DEF Distinct
    <2> QED
      BY <1>3, <2>1, DistinctItems
  <1>8. a \cap ToSet(started) = {}
    BY <1>1, <1>6 DEF Distinct
  <1>9. IsFiniteSet(running') /\ Cardinality(running') = Cardinality(a) + n
    <2>1. /\ IsFiniteSet(a \cup ToSet(started))
          /\ Cardinality(a \cup ToSet(started)) =
                 Cardinality(a) + Cardinality(ToSet(started)) - Cardinality(a \cap ToSet(started))
      BY <1>7, FS_Union
    <2>2. Cardinality(a \cap ToSet(started)) = 0
      BY <1>8, FS_EmptySet
    <2> QED
      BY <1>1, <1>2, <1>7, <2>1, <2>2
  <1>10. running' \in SUBSET Job /\ queue' \in Seq(Job)
    BY <1>1, <1>2, <1>4, <1>6
  <1>11. Distinct(queue', running')
    <2>1. \A i \in 1 .. Len(w) - n : i + n \in DOMAIN w /\ i + n > n
      BY <1>1, <1>5
    <2>2. \A i, j \in 1 .. Len(w) - n : i + n = j + n => i = j
      BY <1>1, <1>5
    <2>3. \A i, j \in DOMAIN rest : rest[i].id = rest[j].id => i = j
      <3> SUFFICES ASSUME NEW i \in DOMAIN rest, NEW j \in DOMAIN rest, rest[i].id = rest[j].id
                   PROVE  i = j
        OBVIOUS
      <3>1. rest[i] = w[i + n] /\ rest[j] = w[j + n] /\ i + n \in DOMAIN w /\ j + n \in DOMAIN w
        BY <1>4, <2>1, Zenon
      <3>2. i + n = j + n
        BY <3>1, Zenon DEF Distinct
      <3> QED
        BY <1>4, <2>2, <3>2, Zenon
    <2>4. \A k \in running' : k \in a \/ \E i \in DOMAIN w : i <= n /\ k = w[i]
      BY <1>1, <1>2, <1>5, <1>6
    <2>5. \A j, k \in running' : j.id = k.id => j = k
      BY <2>4 DEF Distinct
    <2>6. \A i \in DOMAIN rest, k \in running' : rest[i].id # k.id
      <3> SUFFICES ASSUME NEW i \in DOMAIN rest, NEW k \in running', rest[i].id = k.id
                   PROVE  FALSE
        OBVIOUS
      <3>1. i + n \in DOMAIN w /\ i + n > n /\ rest[i] = w[i + n]
        BY <1>4, <2>1
      <3>2. CASE k \in a
        BY <3>1, <3>2 DEF Distinct
      <3>3. CASE \E j \in DOMAIN w : j <= n /\ k = w[j]
        BY <1>1, <1>5, <3>1, <3>3 DEF Distinct
      <3> QED
        BY <2>4, <3>2, <3>3
    <2> QED
      BY <1>2, <2>3, <2>5, <2>6 DEF Distinct
  <1>12. IdsOf(queue', running') = IdsOf(w, a)
    <2>1. ASSUME NEW i \in DOMAIN w
          PROVE  w[i].id \in IdsOf(queue', running')
      <3>1. CASE i <= n
        BY <1>1, <1>2, <1>6, <3>1 DEF IdsOf
      <3>2. CASE i > n
        <4>1. i - n \in DOMAIN rest /\ rest[i - n] = w[i]
          BY <1>1, <1>4, <1>5, <3>2
        <4> QED
          BY <1>2, <4>1 DEF IdsOf, Ids
      <3> QED
        BY <1>1, <3>1, <3>2
    <2>2. IdsOf(w, a) \subseteq IdsOf(queue', running')
      BY <1>2, <2>1 DEF IdsOf, Ids
    <2>3. \A i \in DOMAIN rest : \E j \in DOMAIN w : rest[i] = w[j]
      <3>1. \A i \in 1 .. Len(w) - n : i + n \in DOMAIN w
        BY <1>1, <1>5
      <3> QED
        BY <1>4, <3>1, Zenon
    <2>4. \A k \in ToSet(started) : \E j \in DOMAIN w : k = w[j]
      BY <1>1, <1>5, <1>6
    <2>5. IdsOf(queue', running') \subseteq IdsOf(w, a)
      BY <1>2, <2>3, <2>4 DEF IdsOf, Ids
    <2> QED
      BY <2>2, <2>5
  <1>13. queue' # <<>> => n = free
    BY <1>1, <1>2, <1>4
  <1>14. /\ Cardinality(running') <= Concurrency
         /\ Len(queue') + Cardinality(running') = Len(w) + Cardinality(a)
         /\ n = free => Cardinality(running') = Concurrency
    <2>1. PICK c \in Nat : c = Cardinality(a)
      BY <1>1
    <2>2. Cardinality(running') = c + n /\ Len(queue') = l - n /\ free = Concurrency - c
      BY <1>2, <1>4, <1>5, <1>9, <2>1 DEF free
    <2>3. n \in Nat /\ n <= l /\ n <= Concurrency - c /\ Concurrency \in Nat
      BY <1>1, <1>5, <2>1, <2>2, TrackerAssumption
    <2> QED
      BY <1>5, <2>1, <2>2, <2>3
  <1> QED
    BY <1>9, <1>10, <1>11, <1>12, <1>13, <1>14
-----------------------------------------------------------------------------
(***************************************************************************)
(* The history.                                                            *)
(***************************************************************************)
OneRecordPerId(s) == \A i, j \in DOMAIN s : s[i].id = s[j].id => i = j

(* A history of requests among known; what is looked up has a generation. *)
Kept(s, known) ==
    /\ s \in Seq(RequestRecord)
    /\ OneRecordPerId(s)
    /\ \A i \in DOMAIN s : s[i].id \in known
    /\ \A i \in DOMAIN s : s[i].enrich = "pending" => s[i].gen

(* A history answers for itself: records with one id are one record. *)
LEMMA KeepsItself ==
    ASSUME NEW s, OneRecordPerId(s)
    PROVE  KeepsOutcomes(s, s)
  BY DEF OneRecordPerId, KeepsOutcomes, Outcomes, ToSet

(* Newest drops records and changes none. *)
LEMMA NewestKept ==
    ASSUME NEW s, NEW known, Kept(s, known), NEW n \in Nat
    PROVE  /\ Kept(Newest(s, n), known)
           /\ ToSet(Newest(s, n)) \subseteq ToSet(s)
           /\ Len(Newest(s, n)) <= n
  <1> DEFINE t == Newest(s, n)
             x == Excess(s, n)
  <1>1. /\ t \in Seq(RequestRecord) /\ Len(t) <= n /\ x \in Nat
        /\ \A i \in DOMAIN t : i + x \in DOMAIN s /\ t[i] = s[i + x]
    BY NewestItems DEF Kept
  <1>2. \A i, j \in DOMAIN t : i + x = j + x => i = j
    <2>1. \A i, j \in Nat : i + x = j + x => i = j
      BY <1>1
    <2>2. \A i \in DOMAIN t : i \in Nat
      BY <1>1
    <2> QED
      BY <2>1, <2>2
  <1> HIDE DEF t, x
  <1>3. OneRecordPerId(t)
    BY <1>1, <1>2, Zenon DEF Kept, OneRecordPerId
  <1>4. \A i \in DOMAIN t : t[i].id \in known /\ (t[i].enrich = "pending" => t[i].gen)
    BY <1>1, Zenon DEF Kept
  <1>5. ToSet(t) \subseteq ToSet(s)
    BY <1>1, Zenon DEF ToSet
  <1> QED
    BY <1>1, <1>3, <1>4, <1>5, Zenon DEF Kept, t

(* A record of a new request is added at the end. *)
LEMMA AppendKept ==
    ASSUME NEW s, NEW known, Kept(s, known), NEW r \in Rec, r \notin known
    PROVE  /\ Kept(Append(s, newRequestRecord(r)), known \cup {r})
           /\ ToSet(Append(s, newRequestRecord(r))) = ToSet(s) \cup {newRequestRecord(r)}
  <1> DEFINE rec == newRequestRecord(r)
             t == Append(s, rec)
  <1>1. rec \in RequestRecord /\ rec.id = r /\ rec.enrich = "unavailable"
    BY DEF newRequestRecord, RequestRecord, Enrichment
  <1> HIDE DEF rec
  <1>2. PICK l \in Nat : l = Len(s) /\ DOMAIN s = 1 .. l /\ s \in Seq(RequestRecord)
    BY DEF Kept
  <1>3. /\ t \in Seq(RequestRecord) /\ DOMAIN t = 1 .. l + 1 /\ t[l + 1] = rec
        /\ \A i \in 1 .. l : t[i] = s[i]
    BY <1>1, <1>2
  <1>4. \A i \in DOMAIN t : i \in DOMAIN s \/ i = l + 1
    BY <1>2, <1>3
  <1>5. l + 1 \in DOMAIN t /\ \A i \in DOMAIN s : i \in DOMAIN t
    BY <1>2, <1>3
  <1> HIDE DEF t
  <1>6. OneRecordPerId(t)
    BY <1>1, <1>2, <1>3, <1>4 DEF Kept, OneRecordPerId
  <1>7. \A i \in DOMAIN t : t[i].id \in known \cup {r} /\ (t[i].enrich = "pending" => t[i].gen)
    BY <1>1, <1>2, <1>3, <1>4 DEF Kept
  <1>8. ToSet(t) = ToSet(s) \cup {rec}
    BY <1>2, <1>3, <1>4, <1>5 DEF ToSet
  <1> QED
    BY <1>3, <1>6, <1>7, <1>8, Zenon DEF Kept, t, rec

(* t is s with the record of r given an outcome. *)
Revision(s, t, r, outcome) ==
    /\ t \in Seq(RequestRecord)
    /\ DOMAIN t = DOMAIN s
    /\ Len(t) = Len(s)
    /\ \A i \in DOMAIN s :
           /\ t[i].id = s[i].id
           /\ s[i].id # r => t[i] = s[i]
           /\ s[i].id = r => t[i].enrich = outcome /\ (outcome = "pending" => t[i].gen)

(* What enrich changes of one record. *)
LEMMA RevisedRecord ==
    ASSUME NEW rec \in RequestRecord, NEW outcome \in Enrichment
    PROVE  /\ [rec EXCEPT !.enrich = outcome] \in RequestRecord
           /\ [rec EXCEPT !.enrich = outcome].id = rec.id
           /\ [rec EXCEPT !.enrich = outcome].enrich = outcome
  BY DEF RequestRecord

(* A history rewritten record by record is one of the same length. *)
LEMMA Rewritten ==
    ASSUME NEW s \in Seq(RequestRecord), NEW t,
           \E f : t = [i \in DOMAIN s |-> f[i]] /\ \A i \in DOMAIN s : f[i] \in RequestRecord
    PROVE  t \in Seq(RequestRecord) /\ DOMAIN t = DOMAIN s /\ Len(t) = Len(s)
  OBVIOUS

(* complete: the record of the request gets its outcome. *)
LEMMA CompletedRevises ==
    ASSUME log \in Seq(RequestRecord), NEW r \in Rec, NEW gen \in BOOLEAN,
           NEW outcome \in Enrichment, outcome = "pending" => gen
    PROVE  Revision(log, Completed(r, gen, outcome), r, outcome)
  <1> DEFINE t == Completed(r, gen, outcome)
             new == [id |-> r, done |-> TRUE, gen |-> gen, enrich |-> outcome]
  <1>1. new \in RequestRecord /\ new.id = r /\ new.gen = gen /\ new.enrich = outcome
    BY DEF RequestRecord
  <1>2. t = [i \in DOMAIN log |-> IF log[i].id = r THEN new ELSE log[i]]
    BY Zenon DEF Completed
  <1> HIDE DEF new, t
  <1>3. \A i \in DOMAIN log : (IF log[i].id = r THEN new ELSE log[i]) \in RequestRecord
    BY <1>1
  <1>4. t \in Seq(RequestRecord) /\ DOMAIN t = DOMAIN log /\ Len(t) = Len(log)
    BY <1>2, <1>3, Rewritten
  <1>5. \A i \in DOMAIN log : /\ log[i].id = r => t[i] = new
                              /\ log[i].id # r => t[i] = log[i]
    BY <1>2
  <1> QED
    BY <1>1, <1>4, <1>5 DEF Revision, t

(* enrich: the record that is looked up gets its outcome. *)
LEMMA SettleRevises ==
    ASSUME log \in Seq(RequestRecord), NEW j, NEW outcome \in {"success", "failed"},
           Settle(j, outcome)
    PROVE  Revision(log, log', j.id, outcome)
  <1> DEFINE New(rec) == [rec EXCEPT !.enrich = outcome]
  <1>1. \A rec \in RequestRecord :
            New(rec) \in RequestRecord /\ New(rec).id = rec.id /\ New(rec).enrich = outcome
    BY RevisedRecord, outcome \in Enrichment DEF Enrichment
  <1>2. log' = [i \in DOMAIN log |-> IF log[i].id = j.id THEN New(log[i]) ELSE log[i]]
    BY Zenon DEF Settle
  <1>3. \A i \in DOMAIN log : log[i] \in RequestRecord
    OBVIOUS
  <1> HIDE DEF New
  <1>4. \A i \in DOMAIN log : (IF log[i].id = j.id THEN New(log[i]) ELSE log[i]) \in RequestRecord
    BY <1>1, <1>3
  <1>5. log' \in Seq(RequestRecord) /\ DOMAIN log' = DOMAIN log /\ Len(log') = Len(log)
    BY <1>2, <1>4, Rewritten
  <1>6. \A i \in DOMAIN log : /\ log[i].id = j.id => log'[i] = New(log[i])
                              /\ log[i].id # j.id => log'[i] = log[i]
    BY <1>2
  <1>7. \A i \in DOMAIN log : log'[i].id = log[i].id
    BY <1>1, <1>3, <1>6
  <1>8. \A i \in DOMAIN log : log[i].id = j.id => log'[i].enrich = outcome
    BY <1>1, <1>3, <1>6
  <1> QED
    BY <1>5, <1>6, <1>7, <1>8 DEF Revision

(* A revision keeps the history in order, and touches no settled record    *)
(* when the record of r is not settled: neither what the log shows nor     *)
(* what another history that agrees with it shows.                         *)
LEMMA RevisionKept ==
    ASSUME NEW s, NEW t, NEW known, NEW r, NEW outcome, Kept(s, known),
           Revision(s, t, r, outcome),
           \A i \in DOMAIN s : s[i].id = r => s[i].enrich \notin {"success", "failed"}
    PROVE  /\ Kept(t, known)
           /\ Ids(t) = Ids(s)
           /\ \A u : KeepsOutcomes(u, s) => KeepsOutcomes(u, t)
  <1>1. Kept(t, known)
    BY DEF Kept, OneRecordPerId, Revision
  <1>2. Ids(t) = Ids(s)
    BY DEF Ids, Revision
  <1>3. ASSUME NEW u, KeepsOutcomes(u, s)
        PROVE  KeepsOutcomes(u, t)
    <2> SUFFICES ASSUME NEW rec \in Outcomes(u), NEW i \in DOMAIN t, t[i].id = rec.id
                 PROVE  t[i] = rec
      BY DEF KeepsOutcomes, ToSet
    <2>1. i \in DOMAIN s /\ s[i].id = rec.id
      BY DEF Revision
    <2>2. s[i] = rec
      BY <1>3, <2>1 DEF KeepsOutcomes, ToSet
    <2>3. rec.enrich \in {"success", "failed"}
      BY DEF Outcomes
    <2> QED
      BY <2>1, <2>2, <2>3 DEF Revision
  <1> QED
    BY <1>1, <1>2, <1>3

(* Fewer records cannot contradict. *)
LEMMA FewerKeep ==
    ASSUME NEW u, NEW s, NEW t, KeepsOutcomes(u, s), ToSet(t) \subseteq ToSet(s)
    PROVE  KeepsOutcomes(u, t)
  BY DEF KeepsOutcomes
-----------------------------------------------------------------------------
(***************************************************************************)
(* The lookups.                                                            *)
(***************************************************************************)

(* Lookups waiting in w and running in a, within the bounds. *)
Lookups(w, a) ==
    /\ w \in Seq(Job) /\ a \in SUBSET Job /\ IsFiniteSet(a)
    /\ Distinct(w, a)
    /\ Len(w) + Cardinality(a) <= MaxPending
    /\ Cardinality(a) <= Concurrency
    /\ w # <<>> => Cardinality(a) = Concurrency

(* JobIds as a function of the two collections. *)
LEMMA JobIdsOf == JobIds = IdsOf(queue, running) /\ JobIds' = IdsOf(queue', running')
  BY DEF JobIds, IdsOf, Ids

(* Starting what fits keeps the discipline of the queue. *)
LEMMA RunKeeps ==
    ASSUME NEW w \in Seq(Job), NEW a \in SUBSET Job, IsFiniteSet(a), Distinct(w, a),
           Cardinality(a) <= Concurrency, Len(w) + Cardinality(a) <= MaxPending, Run(w, a)
    PROVE  Lookups(queue', running') /\ JobIds' = IdsOf(w, a)
  <1>1. Len(queue') + Cardinality(running') <= MaxPending
    BY RunMoves
  <1> QED
    BY <1>1, RunMoves, JobIdsOf DEF Lookups

(* No lookups. *)
LEMMA NoLookups == Lookups(<<>>, {}) /\ IdsOf(<<>>, {}) = {}
  <1>1. Cardinality({}) = 0 /\ IsFiniteSet({})
    BY FS_EmptySet
  <1>2. Lookups(<<>>, {})
    BY <1>1, TrackerAssumption DEF Lookups, Distinct
  <1>3. IdsOf(<<>>, {}) = {}
    BY DEF IdsOf, Ids
  <1> QED
    BY <1>2, <1>3

(* enqueue: a lookup of another request is added while there is room. *)
LEMMA EnqueueKeeps ==
    ASSUME Lookups(queue, running), NEW r \in Rec, r \notin JobIds, ~Full,
           Run(Append(queue, NewJob(r, FALSE)), running)
    PROVE  Lookups(queue', running') /\ JobIds' = JobIds \cup {r}
  <1> DEFINE new == NewJob(r, FALSE)
             w == Append(queue, new)
  <1>1. new \in Job /\ new.id = r
    BY TrackerAssumption DEF NewJob, Job
  <1> HIDE DEF new
  <1>2. PICK l \in Nat : l = Len(queue) /\ DOMAIN queue = 1 .. l /\ queue \in Seq(Job)
    BY DEF Lookups
  <1>3. /\ w \in Seq(Job) /\ Len(w) = l + 1 /\ DOMAIN w = 1 .. l + 1 /\ w[l + 1] = new
        /\ \A i \in 1 .. l : w[i] = queue[i]
    BY <1>1, <1>2
  <1>4. \A i \in DOMAIN w : i \in DOMAIN queue \/ i = l + 1
    BY <1>2, <1>3
  <1>5. l + 1 \in DOMAIN w /\ \A i \in DOMAIN queue : i \in DOMAIN w
    BY <1>2, <1>3
  <1>6. Run(w, running)
    BY DEF new
  <1> HIDE DEF w
  <1>7. (\A i \in DOMAIN queue : queue[i].id # r) /\ \A k \in running : k.id # r
    BY JobIdsOf DEF IdsOf, Ids
  <1>8. Distinct(w, running)
    BY <1>1, <1>2, <1>3, <1>4, <1>7 DEF Lookups, Distinct
  <1>9. Len(w) + Cardinality(running) <= MaxPending
    <2>1. Cardinality(running) \in Nat
      BY FS_CardinalityType DEF Lookups
    <2> QED
      BY <1>2, <1>3, <2>1, TrackerAssumption DEF Full
  <1>10. IdsOf(w, running) = JobIds \cup {r}
    <2>1. Ids(w) = Ids(queue) \cup {r}
      BY <1>1, <1>2, <1>3, <1>4, <1>5 DEF Ids
    <2> QED
      BY <2>1 DEF IdsOf, JobIds
  <1> QED
    BY <1>3, <1>6, <1>8, <1>9, <1>10, RunKeeps DEF Lookups

(* The end of a lookup starts the next ones. *)
LEMMA EndKeeps ==
    ASSUME Lookups(queue, running), NEW j \in running, Run(queue, running \ {j})
    PROVE  Lookups(queue', running') /\ JobIds' = JobIds \ {j.id}
  <1> DEFINE a == running \ {j}
  <1>1. /\ IsFiniteSet(a) /\ Cardinality(a) <= Cardinality(running)
        /\ Cardinality(a) \in Nat /\ Cardinality(running) \in Nat
    <2>1. IsFiniteSet(running)
      BY DEF Lookups
    <2>2. IsFiniteSet(a) /\ Cardinality(a) = Cardinality(running) - 1
      BY <2>1, FS_RemoveElement
    <2> QED
      BY <2>1, <2>2, FS_CardinalityType
  <1>2. Distinct(queue, a)
    BY DEF Lookups, Distinct
  <1>3. Cardinality(a) <= Concurrency /\ Len(queue) + Cardinality(a) <= MaxPending
    <2>1. Len(queue) \in Nat
      BY DEF Lookups
    <2> QED
      BY <1>1, <2>1, TrackerAssumption DEF Lookups
  <1>4. IdsOf(queue, a) = JobIds \ {j.id}
    BY JobIdsOf DEF IdsOf, Ids, Lookups, Distinct
  <1> QED
    BY <1>1, <1>2, <1>3, <1>4, RunKeeps DEF Lookups

(* A lookup that is tried again is still one lookup. *)
LEMMA AgainKeeps ==
    ASSUME Lookups(queue, running), NEW j \in running, LookAgain(j)
    PROVE  Lookups(queue', running') /\ JobIds' = JobIds
  <1> DEFINE again == [j EXCEPT !.attempt = @ + 1]
             a == running \ {j}
  <1>1. j \in Job /\ IsFiniteSet(running) /\ Distinct(queue, running)
    BY DEF Lookups
  <1>2. again \in Job /\ again.id = j.id
    <2>1. j.attempt < Polls \/ j.attempt < Retries
      BY DEF LookAgain, Patient
    <2>2. j.attempt + 1 \in 0 .. Polls + Retries
      BY <1>1, <2>1, TrackerAssumption DEF Job
    <2> QED
      BY <1>1, <2>2 DEF Job
  <1> HIDE DEF again
  <1>3. running' = a \cup {again} /\ queue' = queue
    BY DEF LookAgain, again
  <1>4. again \notin a
    BY <1>1, <1>2 DEF Distinct
  <1>5. IsFiniteSet(running') /\ Cardinality(running') = Cardinality(running)
    <2>1. IsFiniteSet(a) /\ Cardinality(a) = Cardinality(running) - 1
      BY <1>1, FS_RemoveElement
    <2>2. IsFiniteSet(a \cup {again}) /\ Cardinality(a \cup {again}) = Cardinality(a) + 1
      BY <1>4, <2>1, FS_AddElement
    <2>3. Cardinality(running) \in Nat
      BY <1>1, FS_CardinalityType
    <2> QED
      BY <1>3, <2>1, <2>2, <2>3
  <1>6. Distinct(queue', running')
    BY <1>1, <1>2, <1>3 DEF Distinct
  <1>7. JobIds' = JobIds
    BY <1>2, <1>3, JobIdsOf DEF IdsOf, Ids
  <1> QED
    BY <1>1, <1>2, <1>3, <1>5, <1>6, <1>7 DEF Lookups

(* The constructor: every unfinished lookup among the newest records is    *)
(* started once, and they fit the queue.                                   *)
LEMMA RecoverKeeps ==
    ASSUME NEW s, NEW known, Kept(s, known), NEW found \in Recovered(s), Run(found, {})
    PROVE  Lookups(queue', running') /\ JobIds' = {s[i].id : i \in Unfinished(s)}
  <1> DEFINE u == Unfinished(s)
             c == Cardinality(u)
  <1>1. PICK l \in Nat : l = Len(s) /\ DOMAIN s = 1 .. l /\ s \in Seq(RequestRecord)
    BY DEF Kept
  <1>2. IsFiniteSet(u) /\ c \in Nat /\ c <= Window
    <2>1. Window \in Nat
      BY TrackerAssumption
    <2>2. u \subseteq l + 1 - Window .. l
      BY <1>1, <2>1 DEF Unfinished
    <2>3. /\ IsFiniteSet(l + 1 - Window .. l)
          /\ Cardinality(l + 1 - Window .. l) = IF l + 1 - Window > l THEN 0 ELSE l - (l + 1 - Window) + 1
      BY <2>1, FS_Interval, l + 1 - Window \in Int, l \in Int
    <2>4. Cardinality(l + 1 - Window .. l) <= Window
      BY <2>1, <2>3
    <2>5. IsFiniteSet(u) /\ c <= Cardinality(l + 1 - Window .. l)
      BY <2>2, <2>3, FS_Subset
    <2>6. c \in Nat /\ Cardinality(l + 1 - Window .. l) \in Nat
      BY <2>3, <2>5, FS_CardinalityType
    <2> QED
      BY <2>1, <2>4, <2>5, <2>6
  <1>3. u \subseteq DOMAIN s
    BY DEF Unfinished
  <1> HIDE DEF u, c
  <1>4. PICK f \in [1 .. c -> u] :
            /\ \A i, j \in DOMAIN f : i < j => f[i] > f[j]
            /\ found = [i \in DOMAIN f |-> NewJob(s[f[i]].id, TRUE)]
    BY DEF Recovered, u, c
  <1>5. \A i, j \in 1 .. c : f[i] = f[j] => i = j
    <2> SUFFICES ASSUME NEW i \in 1 .. c, NEW j \in 1 .. c, f[i] = f[j], i # j
                 PROVE  FALSE
      OBVIOUS
    <2>1. f[i] \in Nat /\ DOMAIN f = 1 .. c /\ i \in Nat /\ j \in Nat
      BY <1>1, <1>2, <1>3
    <2>2. i < j \/ j < i
      BY <2>1
    <2> QED
      BY <1>4, <2>1, <2>2
  <1>6. \A x \in u : \E i \in 1 .. c : f[i] = x
    <2>1. f \in Seq(u) /\ DOMAIN f = 1 .. c /\ Len(f) = c
      BY <1>2
    <2>2. IsFiniteSet(ToSet(f)) /\ Cardinality(ToSet(f)) = Len(f)
      BY <1>5, <2>1, DistinctItems
    <2>3. ToSet(f) \subseteq u
      BY <2>1 DEF ToSet
    <2>4. ToSet(f) = u
      BY <1>2, <2>1, <2>2, <2>3, FS_Subset DEF c
    <2> QED
      BY <2>1, <2>4 DEF ToSet
  <1>7. /\ found \in Seq(Job) /\ Len(found) = c /\ DOMAIN found = 1 .. c
        /\ \A i \in 1 .. c : found[i].id = s[f[i]].id
    <2>1. \A r \in Rec : NewJob(r, TRUE) \in Job /\ NewJob(r, TRUE).id = r
      BY TrackerAssumption DEF NewJob, Job
    <2>2. \A i \in 1 .. c : s[f[i]].id \in Rec
      <3> TAKE i \in 1 .. c
      <3>1. f[i] \in DOMAIN s
        BY <1>3
      <3>2. s[f[i]] \in RequestRecord
        BY <1>1, <3>1
      <3> QED
        BY <3>2 DEF RequestRecord
    <2>3. DOMAIN f = 1 .. c
      OBVIOUS
    <2>4. found = [i \in 1 .. c |-> NewJob(s[f[i]].id, TRUE)]
      BY <1>4, <2>3
    <2>5. \A i \in 1 .. c : NewJob(s[f[i]].id, TRUE) \in Job
      BY <2>1, <2>2
    <2>6. found \in Seq(Job) /\ Len(found) = c /\ DOMAIN found = 1 .. c
      <3>1. found \in [1 .. c -> Job]
        BY <2>4, <2>5, Zenon
      <3> QED
        BY <1>2, <3>1
    <2>7. \A i \in 1 .. c : found[i].id = s[f[i]].id
      <3> TAKE i \in 1 .. c
      <3>1. found[i] = NewJob(s[f[i]].id, TRUE)
        BY <2>4
      <3> QED
        BY <2>1, <2>2, <3>1
    <2> QED
      BY <2>6, <2>7
  <1>8. Distinct(found, {})
    <2> SUFFICES ASSUME NEW i \in 1 .. c, NEW j \in 1 .. c, found[i].id = found[j].id
                 PROVE  i = j
      BY <1>7 DEF Distinct
    <2>1. f[i] \in DOMAIN s /\ f[j] \in DOMAIN s /\ s[f[i]].id = s[f[j]].id
      BY <1>3, <1>7
    <2>2. f[i] = f[j]
      BY <2>1, Zenon DEF Kept, OneRecordPerId
    <2> QED
      BY <1>5, <2>2
  <1>9. IdsOf(found, {}) = {s[i].id : i \in u}
    BY <1>6, <1>7 DEF IdsOf, Ids
  <1>10. IsFiniteSet({}) /\ Cardinality({}) = 0 /\ {} \in SUBSET Job
    BY FS_EmptySet
  <1>11. Cardinality({}) <= Concurrency /\ Len(found) + Cardinality({}) <= MaxPending
    BY <1>2, <1>7, <1>10, TrackerAssumption
  <1> QED
    BY <1>7, <1>8, <1>9, <1>10, <1>11, RunKeeps DEF u
-----------------------------------------------------------------------------
(***************************************************************************)
(* The inductive invariant.                                                *)
(***************************************************************************)

(* A request is with its handler, then with its lookup, then settled; the  *)
(* record shows which.                                                     *)
Stages ==
    /\ handlers \cap JobIds = {}
    /\ handlers \subseteq begun
    /\ JobIds \subseteq begun
    /\ \A i \in DOMAIN log :
           /\ log[i].id \in JobIds => log[i].enrich = "pending"
           /\ log[i].id \in handlers => log[i].enrich = "unavailable"

(* Only the history file outlives the process. *)
DownIsEmpty == ~up => log = <<>> /\ queue = <<>> /\ running = {} /\ handlers = {}

TrackerInv ==
    /\ TypeOK
    /\ Kept(log, begun)
    /\ Kept(file, begun)
    /\ KeepsOutcomes(file, log)
    /\ Lookups(queue, running)
    /\ Stages
    /\ DownIsEmpty

(* The history is written after log' is made, or the write fails. *)
LEMMA PersistKeeps ==
    ASSUME NEW known, Kept(file, known), Kept(log', known), KeepsOutcomes(file, log'),
           faults \in 0 .. MaxFaults, Persist(log')
    PROVE  /\ Kept(file', known)
           /\ KeepsOutcomes(file, file')
           /\ KeepsOutcomes(file', log')
           /\ faults' \in 0 .. MaxFaults
  <1>1. KeepsOutcomes(file, file) /\ KeepsOutcomes(log', log')
    BY KeepsItself DEF Kept
  <1>2. faults' \in 0 .. MaxFaults
    BY TrackerAssumption DEF Persist, Fault
  <1>3. file' = file \/ file' = log'
    BY DEF Persist
  <1> QED
    BY <1>1, <1>2, <1>3

(* No setting keeps more records than the constructor looks through. *)
LogFitsWindow == \A n \in Limits : n <= Window

(* What every step does to the histories. *)
HistoriesKeep ==
    /\ KeepsOutcomes(log, log')
    /\ KeepsOutcomes(file, file')
    /\ LogFitsWindow /\ PendingHasJob => PendingHasJob'
    /\ ClearedStaysGone => ClearedStaysGone'

(* faults counts every write that failed. *)
LEMMA FaultFree ==
    ASSUME faults \in Nat, NEW image, Persist(image), faults' = 0
    PROVE  faults = 0 /\ file' = image
  BY DEF Persist, Fault

(* Nothing is known and nothing runs. *)
LEMMA TrackerInit ==
    ASSUME Init
    PROVE  TrackerInv
  <1>1. TypeOK
    BY TrackerAssumption DEF Init, TypeOK
  <1>2. Kept(log, begun) /\ Kept(file, begun) /\ KeepsOutcomes(file, log)
    BY DEF Init, Kept, OneRecordPerId, KeepsOutcomes, Outcomes, ToSet
  <1>3. Lookups(queue, running) /\ JobIds = {}
    BY NoLookups, JobIdsOf DEF Init
  <1>4. Stages /\ DownIsEmpty
    BY <1>3 DEF Init, Stages, DownIsEmpty
  <1> QED
    BY <1>1, <1>2, <1>3, <1>4 DEF TrackerInv

(* Record: the new record is the only one of its request. *)
LEMMA RecordStep ==
    ASSUME TrackerInv, NEW r \in Rec, Record(r), handlers' \subseteq handlers \cup {r},
           handlers \subseteq handlers'
    PROVE  TrackerInv' /\ HistoriesKeep
  <1> DEFINE s == Append(log, newRequestRecord(r))
             known == begun \cup {r}
  <1>1. /\ log' = Newest(s, limit) /\ begun' = known
        /\ UNCHANGED <<up, file, limit, queue, running, faults, cleared>>
        /\ up /\ r \notin begun /\ limit \in Nat
    BY TrackerAssumption DEF Record, jobs, TrackerInv, TypeOK
  <1>2. Kept(s, known) /\ ToSet(s) = ToSet(log) \cup {newRequestRecord(r)}
    BY <1>1, AppendKept DEF TrackerInv
  <1> HIDE DEF s
  <1>3. Kept(log', known) /\ ToSet(log') \subseteq ToSet(s) /\ Len(log') <= limit
    BY <1>1, <1>2, NewestKept
  <1>4. newRequestRecord(r).id = r /\ newRequestRecord(r).enrich = "unavailable"
    BY DEF newRequestRecord
  <1>5. ASSUME NEW u, Kept(u, begun), KeepsOutcomes(u, log)
        PROVE  KeepsOutcomes(u, log') /\ Kept(u, known)
    <2>1. \A rec \in ToSet(u) : rec.id # r
      BY <1>1, <1>5 DEF Kept, ToSet
    <2> QED
      BY <1>2, <1>3, <1>4, <1>5, <2>1 DEF KeepsOutcomes, Outcomes, Kept
  <1>6. /\ Kept(file', known) /\ KeepsOutcomes(file', log')
        /\ KeepsOutcomes(log, log') /\ KeepsOutcomes(file, file')
    BY <1>1, <1>5, KeepsItself DEF TrackerInv, Kept
  <1>7. JobIds' = JobIds /\ Lookups(queue', running')
    BY <1>1, JobIdsOf DEF TrackerInv
  <1>8. Stages'
    <2>1. \A i \in DOMAIN log' : log'[i] \in ToSet(log) \cup {newRequestRecord(r)}
      BY <1>2, <1>3 DEF ToSet
    <2>2. /\ (handlers \cup {r}) \cap JobIds = {}
          /\ handlers' \subseteq handlers \cup {r}
          /\ handlers \cup {r} \subseteq known /\ JobIds \subseteq known
      BY <1>1 DEF TrackerInv, Stages
    <2>3. ASSUME NEW i \in DOMAIN log'
          PROVE  /\ log'[i].id \in JobIds => log'[i].enrich = "pending"
                 /\ log'[i].id \in handlers' => log'[i].enrich = "unavailable"
      <3>1. CASE log'[i] = newRequestRecord(r)
        BY <1>4, <2>2, <3>1
      <3>2. CASE log'[i] \in ToSet(log)
        <4>1. PICK k \in DOMAIN log : log'[i] = log[k]
          BY <3>2 DEF ToSet
        <4>2. log[k].id # r
          BY <1>1 DEF TrackerInv, Kept
        <4> QED
          BY <2>2, <4>1, <4>2 DEF TrackerInv, Stages
      <3> QED
        BY <2>1, <3>1, <3>2
    <2> QED
      BY <1>1, <1>7, <2>2, <2>3 DEF Stages
  <1>9. TypeOK'
    BY <1>1, <1>2, <1>3 DEF TrackerInv, TypeOK, Kept, Stages
  <1>10. DownIsEmpty'
    BY <1>1 DEF DownIsEmpty
  <1>11. PendingHasJob => PendingHasJob'
    <2>1. \A i \in DOMAIN log' : log'[i].enrich = "pending" => log'[i] \in ToSet(log)
      BY <1>2, <1>3, <1>4 DEF ToSet
    <2> QED
      BY <1>7, <2>1 DEF PendingHasJob, Pending, ToSet
  <1>12. ClearedStaysGone => ClearedStaysGone'
    <2>1. r \notin cleared
      BY <1>1 DEF TrackerInv, TypeOK
    <2>2. \A i \in DOMAIN log' : log'[i].id \in Ids(log) \cup {r}
      BY <1>2, <1>3, <1>4 DEF ToSet, Ids
    <2> QED
      BY <1>1, <2>1, <2>2 DEF ClearedStaysGone, Ids
  <1> QED
    BY <1>1, <1>3, <1>6, <1>7, <1>8, <1>9, <1>10, <1>11, <1>12 DEF TrackerInv, HistoriesKeep

(* complete and enrich: the record of one request, with its handler or its *)
(* lookup until now, gets its outcome.                                     *)
LEMMA ReviseStep ==
    ASSUME TrackerInv, NEW r \in Rec, NEW outcome \in Enrichment,
           Revision(log, log', r, outcome), r \in handlers \cup JobIds,
           Persist(log'), up, UNCHANGED <<up, limit, begun, cleared>>,
           Lookups(queue', running'),
           JobIds' = IF outcome = "pending" THEN JobIds \cup {r} ELSE JobIds \ {r},
           handlers' \subseteq handlers \ {r}
    PROVE  TrackerInv' /\ HistoriesKeep
  <1>1. \A i \in DOMAIN log : log[i].id = r => log[i].enrich \notin {"success", "failed"}
    BY DEF TrackerInv, Stages
  <1>2. /\ Kept(log', begun) /\ Ids(log') = Ids(log)
        /\ KeepsOutcomes(log, log') /\ KeepsOutcomes(file, log')
    <2>1. Kept(log, begun) /\ KeepsOutcomes(log, log) /\ KeepsOutcomes(file, log)
      BY KeepsItself DEF TrackerInv, Kept
    <2> QED
      BY <1>1, <2>1, RevisionKept
  <1>3. /\ Kept(file', begun) /\ KeepsOutcomes(file, file')
        /\ KeepsOutcomes(file', log') /\ faults' \in 0 .. MaxFaults
    BY <1>2, PersistKeeps DEF TrackerInv, TypeOK
  <1>4. Stages'
    <2>1. handlers' \cap JobIds' = {} /\ handlers' \subseteq begun /\ JobIds' \subseteq begun
      BY DEF TrackerInv, Stages
    <2>2. ASSUME NEW i \in DOMAIN log'
          PROVE  /\ log'[i].id \in JobIds' => log'[i].enrich = "pending"
                 /\ log'[i].id \in handlers' => log'[i].enrich = "unavailable"
      <3>1. i \in DOMAIN log /\ log'[i].id = log[i].id
        BY DEF Revision
      <3>2. CASE log[i].id = r
        BY <3>1, <3>2 DEF Revision
      <3>3. CASE log[i].id # r
        BY <3>1, <3>3 DEF Revision, TrackerInv, Stages
      <3> QED
        BY <3>2, <3>3
    <2> QED
      BY <2>1, <2>2 DEF Stages
  <1>5. TypeOK'
    BY <1>2, <1>3 DEF TrackerInv, TypeOK, Kept, Revision, Lookups, Stages
  <1>6. DownIsEmpty'
    BY DEF DownIsEmpty
  <1>7. PendingHasJob => PendingHasJob'
    BY DEF Revision, PendingHasJob, Pending
  <1>8. ClearedStaysGone => ClearedStaysGone'
    <2>1. faults' = 0 => faults = 0 /\ file' = log'
      BY TrackerAssumption, FaultFree DEF TrackerInv, TypeOK
    <2> QED
      BY <1>2, <2>1 DEF ClearedStaysGone
  <1> QED
    BY <1>2, <1>3, <1>4, <1>5, <1>6, <1>7, <1>8 DEF TrackerInv, HistoriesKeep

(* A step that drops records and lookups, or leaves them alone. *)
Drops ==
    /\ ToSet(log') \subseteq ToSet(log) /\ Kept(log', begun)
    /\ limit' \in Limits /\ Len(log') <= limit'
    /\ Persist(log') \/ UNCHANGED <<file, faults>>
    /\ begun' = begun
    /\ cleared' = cleared \/ (cleared' = begun /\ log' = <<>> /\ Persist(log'))
    /\ Lookups(queue', running')
    /\ JobIds' \subseteq JobIds /\ (JobIds' = JobIds \/ log' = <<>>)
    /\ handlers' \subseteq handlers
    /\ up' \in BOOLEAN /\ DownIsEmpty'

(* Eviction, the operator's clear and the end of the process. *)
LEMMA DropStep ==
    ASSUME TrackerInv, Drops
    PROVE  TrackerInv' /\ HistoriesKeep
  <1> USE DEF Drops
  <1>1. KeepsOutcomes(log, log') /\ KeepsOutcomes(file, log') /\ KeepsOutcomes(file, file)
    BY KeepsItself, FewerKeep DEF TrackerInv, Kept
  <1>2. /\ Kept(file', begun) /\ KeepsOutcomes(file, file')
        /\ KeepsOutcomes(file', log') /\ faults' \in 0 .. MaxFaults
    BY <1>1, PersistKeeps DEF TrackerInv, TypeOK
  <1>3. Stages'
    <2>1. \A i \in DOMAIN log' : \E k \in DOMAIN log : log'[i] = log[k]
      BY DEF ToSet
    <2> QED
      BY <2>1 DEF TrackerInv, Stages
  <1>4. TypeOK'
    BY <1>2 DEF TrackerInv, TypeOK, Kept, Lookups, Stages
  <1>5. PendingHasJob => PendingHasJob'
    <2>1. \A i \in DOMAIN log' : \E k \in DOMAIN log : log'[i] = log[k]
      BY DEF ToSet
    <2> QED
      BY <2>1 DEF PendingHasJob, Pending
  <1>6. ClearedStaysGone => ClearedStaysGone'
    <2>1. faults \in Nat
      BY TrackerAssumption DEF TrackerInv, TypeOK
    <2>2. Ids(log') \subseteq Ids(log)
      BY DEF Ids, ToSet
    <2>3. Persist(log') /\ faults' = 0 => faults = 0 /\ file' = log'
      BY <2>1, FaultFree
    <2>4. CASE cleared' = cleared
      BY <2>2, <2>3, <2>4 DEF ClearedStaysGone
    <2>5. CASE log' = <<>> /\ Persist(log')
      BY <2>3, <2>5 DEF ClearedStaysGone, Ids
    <2> QED
      BY <2>4, <2>5
  <1> QED
    BY <1>1, <1>2, <1>3, <1>4, <1>5, <1>6 DEF TrackerInv, HistoriesKeep

(* The constructor reads the file back and takes up what was unfinished.   *)
LEMMA RestartStep ==
    ASSUME TrackerInv, NEW readable \in BOOLEAN, Restart(readable)
    PROVE  TrackerInv' /\ HistoriesKeep
  <1>1. /\ ~up /\ up' = TRUE /\ log = <<>> /\ handlers = {}
        /\ UNCHANGED <<file, limit, handlers, begun, cleared>>
        /\ faults' \in 0 .. MaxFaults /\ limit \in Nat
    BY TrackerAssumption DEF Restart, Fault, TrackerInv, DownIsEmpty, TypeOK
  <1>2. Kept(log', begun) /\ ToSet(log') \subseteq ToSet(file) /\ Len(log') <= limit
    <2>1. CASE readable
      BY <1>1, <2>1, NewestKept DEF Restart, TrackerInv
    <2>2. CASE ~readable
      BY <1>1, <2>2 DEF Restart, Kept, OneRecordPerId, ToSet
    <2> QED
      BY <2>1, <2>2
  <1>3. Lookups(queue', running') /\ JobIds' = {log'[i].id : i \in Unfinished(log')}
    BY <1>2, RecoverKeeps DEF Restart
  <1>4. /\ KeepsOutcomes(log, log') /\ KeepsOutcomes(file', log')
        /\ KeepsOutcomes(file, file')
    <2>1. KeepsOutcomes(file, file)
      BY KeepsItself DEF TrackerInv, Kept
    <2>2. KeepsOutcomes(log, log')
      BY <1>1 DEF KeepsOutcomes, Outcomes, ToSet
    <2> QED
      BY <1>1, <1>2, <2>1, <2>2, FewerKeep
  <1>5. Stages'
    <2>1. \A i \in DOMAIN log' : log'[i].id \in JobIds' => log'[i].enrich = "pending"
      <3> SUFFICES ASSUME NEW i \in DOMAIN log', log'[i].id \in JobIds'
                   PROVE  log'[i].enrich = "pending"
        OBVIOUS
      <3>1. PICK k \in Unfinished(log') : log'[k].id = log'[i].id
        BY <1>3
      <3>2. k \in DOMAIN log' /\ log'[k].enrich = "pending"
        BY <3>1 DEF Unfinished, Recoverable
      <3>3. k = i
        BY <1>2, <3>1, <3>2 DEF Kept, OneRecordPerId
      <3> QED
        BY <3>2, <3>3
    <2>2. JobIds' \subseteq begun
      BY <1>2, <1>3 DEF Kept, Unfinished
    <2> QED
      BY <1>1, <2>1, <2>2 DEF Stages
  <1>6. TypeOK'
    BY <1>1, <1>2, <1>3 DEF TrackerInv, TypeOK, Kept, Lookups
  <1>7. DownIsEmpty'
    BY <1>1 DEF DownIsEmpty
  <1>8. Kept(file', begun')
    BY <1>1 DEF TrackerInv
  <1>9. ASSUME LogFitsWindow
        PROVE  PendingHasJob'
    <2>1. Len(log') <= Window /\ log' \in Seq(RequestRecord) /\ Window \in Nat
      BY <1>1, <1>2, <1>9, TrackerAssumption DEF LogFitsWindow, Kept, TrackerInv, TypeOK
    <2>2. \A i \in DOMAIN log' : i + Window > Len(log')
      BY <2>1
    <2>3. \A i \in DOMAIN log' : log'[i].enrich = "pending" => i \in Unfinished(log')
      BY <1>2, <2>2 DEF Kept, Unfinished, Recoverable
    <2> QED
      BY <1>3, <2>3 DEF PendingHasJob, Pending
  <1>10. ClearedStaysGone => ClearedStaysGone'
    <2>1. faults' = 0 => faults = 0
      BY TrackerAssumption DEF Restart, Fault, TrackerInv, TypeOK
    <2>2. Ids(log') \subseteq Ids(file)
      BY <1>2 DEF Ids, ToSet
    <2> QED
      BY <1>1, <2>1, <2>2 DEF ClearedStaysGone
  <1> QED
    BY <1>1, <1>2, <1>3, <1>4, <1>5, <1>6, <1>7, <1>8, <1>9, <1>10 DEF TrackerInv, HistoriesKeep

(* The proxy handler's steps. *)
LEMMA RequestStepKeeps ==
    ASSUME TrackerInv, RequestStep
    PROVE  TrackerInv' /\ HistoriesKeep
  <1> USE DEF jobs
  <1>1. PICK r \in Rec : \/ Begin(r) \/ Preflight(r) \/ FinishForgotten(r)
                         \/ FinishPlain(r) \/ FinishLookup(r) \/ FinishFull(r)
    BY DEF RequestStep
  <1>2. Lookups(queue, running) /\ log \in Seq(RequestRecord) /\ Kept(log, begun)
    BY DEF TrackerInv, Kept
  <1>3. UNCHANGED <<queue, running>> => JobIds' = JobIds
    BY JobIdsOf
  <1>4. r \in handlers => r \notin JobIds
    BY DEF TrackerInv, Stages
  <1>5. CASE Begin(r)
    BY <1>5, RecordStep DEF Begin
  <1>6. CASE Preflight(r)
    BY <1>6, RecordStep DEF Preflight
  <1>7. CASE FinishForgotten(r)
    <2>1. /\ UNCHANGED <<up, log, file, limit, queue, running, faults, begun, cleared>>
          /\ handlers' \subseteq handlers
      BY <1>7 DEF FinishForgotten, Finishing
    <2>2. Drops
      BY <1>3, <2>1 DEF Drops, TrackerInv, TypeOK, DownIsEmpty
    <2> QED
      BY <2>2, DropStep
  <1>8. CASE FinishPlain(r)
    <2>1. Revision(log, log', r, "unavailable")
      BY <1>2, <1>8, CompletedRevises DEF FinishPlain, Enrichment
    <2>2. /\ Persist(log') /\ up /\ UNCHANGED <<up, limit, begun, cleared, queue, running>>
          /\ r \in handlers /\ handlers' = handlers \ {r}
      BY <1>8 DEF FinishPlain, Finishing
    <2> QED
      BY <1>2, <1>3, <1>4, <2>1, <2>2, ReviseStep, "unavailable" \in Enrichment DEF Enrichment
  <1>9. CASE FinishLookup(r)
    <2>1. Revision(log, log', r, "pending")
      BY <1>2, <1>9, CompletedRevises DEF FinishLookup, Enrichment
    <2>2. /\ Persist(log') /\ up /\ UNCHANGED <<up, limit, begun, cleared>>
          /\ r \in handlers /\ handlers' = handlers \ {r}
      BY <1>9 DEF FinishLookup, Finishing
    <2>3. Lookups(queue', running') /\ JobIds' = JobIds \cup {r}
      BY <1>2, <1>4, <1>9, <2>2, EnqueueKeeps DEF FinishLookup
    <2> QED
      BY <2>1, <2>2, <2>3, ReviseStep, "pending" \in Enrichment DEF Enrichment
  <1>10. CASE FinishFull(r)
    <2>1. Revision(log, log', r, "failed")
      BY <1>2, <1>10, CompletedRevises DEF FinishFull, Enrichment
    <2>2. /\ Persist(log') /\ up /\ UNCHANGED <<up, limit, begun, cleared, queue, running>>
          /\ r \in handlers /\ handlers' = handlers \ {r}
      BY <1>10 DEF FinishFull, Finishing
    <2> QED
      BY <1>2, <1>3, <1>4, <2>1, <2>2, ReviseStep, "failed" \in Enrichment DEF Enrichment
  <1> QED
    BY <1>1, <1>5, <1>6, <1>7, <1>8, <1>9, <1>10

(* A lookup is answered. *)
LEMMA AnswerKeeps ==
    ASSUME TrackerInv, NEW r \in Rec, Answer(r)
    PROVE  TrackerInv' /\ HistoriesKeep
  <1>1. PICK j \in running : \/ LookAgain(j)
                             \/ \E outcome \in {"success", "failed"} : Settle(j, outcome)
    BY DEF Answer
  <1>2. /\ Lookups(queue, running) /\ log \in Seq(RequestRecord)
        /\ Kept(log, begun) /\ j \in Job /\ up
    BY DEF TrackerInv, Kept, Lookups, DownIsEmpty
  <1>3. CASE LookAgain(j)
    <2>1. Lookups(queue', running') /\ JobIds' = JobIds
      BY <1>2, <1>3, AgainKeeps
    <2>2. UNCHANGED <<up, log, file, limit, handlers, faults, begun, cleared>>
      BY <1>3 DEF LookAgain
    <2>3. Drops
      BY <1>2, <2>1, <2>2 DEF Drops, TrackerInv, TypeOK, DownIsEmpty
    <2> QED
      BY <2>3, DropStep
  <1>4. ASSUME NEW outcome \in {"success", "failed"}, Settle(j, outcome)
        PROVE  TrackerInv' /\ HistoriesKeep
    <2>1. Revision(log, log', j.id, outcome)
      BY <1>2, <1>4, SettleRevises
    <2>2. /\ Persist(log') /\ UNCHANGED <<up, limit, handlers, begun, cleared>>
          /\ Run(queue, running \ {j})
      BY <1>4 DEF Settle
    <2>3. Lookups(queue', running') /\ JobIds' = JobIds \ {j.id}
      BY <1>2, <2>2, EndKeeps
    <2>4. j.id \in Rec /\ j.id \in JobIds /\ j.id \notin handlers
      BY <1>2, JobIdsOf DEF Job, IdsOf, TrackerInv, Stages
    <2>5. outcome \in Enrichment
      BY DEF Enrichment
    <2> QED
      BY <1>2, <2>1, <2>2, <2>3, <2>4, <2>5, ReviseStep
  <1> QED
    BY <1>1, <1>3, <1>4

(* The operator's steps, the end of the process and its next start. *)
LEMMA ControlStepKeeps ==
    ASSUME TrackerInv, ControlStep
    PROVE  TrackerInv' /\ HistoriesKeep
  <1> USE DEF jobs
  <1>1. UNCHANGED <<queue, running>> => JobIds' = JobIds
    BY JobIdsOf
  <1>2. ASSUME NEW n \in Limits, SetLimit(n)
        PROVE  TrackerInv' /\ HistoriesKeep
    <2>1. /\ up /\ up' = up /\ limit' = n /\ n \in Nat /\ log' = Newest(log, n) /\ Persist(log')
          /\ UNCHANGED <<queue, running, handlers, begun, cleared>>
      BY <1>2, TrackerAssumption DEF SetLimit
    <2>2. Kept(log', begun) /\ ToSet(log') \subseteq ToSet(log) /\ Len(log') <= limit'
      BY <2>1, NewestKept DEF TrackerInv
    <2>3. Drops
      BY <1>1, <2>1, <2>2 DEF Drops, TrackerInv, TypeOK, DownIsEmpty
    <2> QED
      BY <2>3, DropStep
  <1>3. ASSUME Die, limit' \in Limits
        PROVE  TrackerInv' /\ HistoriesKeep
    <2>1. /\ up' = FALSE /\ log' = <<>> /\ queue' = <<>> /\ running' = {} /\ handlers' = {}
          /\ UNCHANGED <<file, faults, begun, cleared>>
      BY <1>3 DEF Die
    <2>2. Lookups(queue', running') /\ JobIds' = {}
      BY <2>1, NoLookups, JobIdsOf
    <2>3. ToSet(log') \subseteq ToSet(log) /\ Kept(log', begun) /\ Len(log') <= limit'
      BY <1>3, <2>1, TrackerAssumption DEF ToSet, Kept, OneRecordPerId
    <2>4. Drops
      BY <1>3, <2>1, <2>2, <2>3 DEF Drops, TrackerInv, TypeOK, DownIsEmpty
    <2> QED
      BY <2>4, DropStep
  <1>4. CASE Clear
    <2>1. /\ up /\ log' = <<>> /\ Persist(log') /\ cleared' = begun
          /\ UNCHANGED <<up, limit, queue, running, handlers, begun>>
      BY <1>4 DEF Clear
    <2>2. ToSet(log') \subseteq ToSet(log) /\ Kept(log', begun) /\ Len(log') <= limit'
      BY <2>1, TrackerAssumption DEF ToSet, Kept, OneRecordPerId, TrackerInv, TypeOK
    <2>3. Drops
      BY <1>1, <2>1, <2>2 DEF Drops, TrackerInv, TypeOK, DownIsEmpty
    <2> QED
      BY <2>3, DropStep
  <1>5. CASE Crash
    BY <1>3, <1>5 DEF Crash, TrackerInv, TypeOK
  <1>6. ASSUME NEW n \in Limits, SetLimitCrash(n)
        PROVE  TrackerInv' /\ HistoriesKeep
    BY <1>3, <1>6 DEF SetLimitCrash
  <1> QED
    BY <1>2, <1>4, <1>5, <1>6, RestartStep DEF ControlStep

(* Every step keeps the invariant, and does to the histories what it may. *)
LEMMA TrackerStep ==
    ASSUME TrackerInv, [Next]_vars
    PROVE  TrackerInv' /\ HistoriesKeep
  <1>1. CASE UNCHANGED vars
    <2>1. /\ UNCHANGED <<up, log, file, limit, queue, running>>
          /\ UNCHANGED <<handlers, faults, begun, cleared>>
      BY <1>1 DEF vars, jobs
    <2>2. JobIds' = JobIds
      BY <2>1, JobIdsOf
    <2>3. Drops
      BY <2>1, <2>2 DEF Drops, TrackerInv, TypeOK, DownIsEmpty
    <2> QED
      BY <2>3, DropStep
  <1> QED
    BY <1>1, RequestStepKeeps, AnswerKeeps, ControlStepKeeps DEF Next

(* The invariant holds in every reachable state. *)
LEMMA TrackerInvHolds == Spec => []TrackerInv
  <1>1. Init => TrackerInv
    BY TrackerInit
  <1>2. TrackerInv /\ [Next]_vars => TrackerInv'
    BY TrackerStep
  <1> QED
    BY <1>1, <1>2, PTL DEF Spec
-----------------------------------------------------------------------------
(***************************************************************************)
(* The theorems.                                                           *)
(***************************************************************************)

(* Every variable of the tracker keeps its type, and the log its limit. *)
THEOREM TypeCorrect == Spec => []TypeOK
  BY TrackerInvHolds, PTL DEF TrackerInv

(* BoundedQueue keeps both bounds and lets no job wait beside a free slot, *)
(* for every size of the queue: also when jobs outlive their records, and  *)
(* when the constructor fills it.                                          *)
THEOREM QueueDisciplineHolds == Spec => []QueueDiscipline
  <1>1. TrackerInv => QueueDiscipline
    BY DEF TrackerInv, Lookups, QueueDiscipline
  <1> QED
    BY <1>1, TrackerInvHolds, PTL

(* A settled record is never reopened and its outcome never replaced, in   *)
(* memory or in the file, whatever is evicted, cleared, lost or restarted. *)
THEOREM SettledForGoodHolds == Spec => SettledForGood
  <1>1. TrackerInv /\ [Next]_vars => [KeepsOutcomes(log, log') /\ KeepsOutcomes(file, file')]_vars
    BY TrackerStep DEF HistoriesKeep
  <1> QED
    BY <1>1, TrackerInvHolds, PTL DEF Spec, SettledForGood

(* As long as no setting keeps more records than the constructor looks     *)
(* through, every record shown as resolving has a lookup waiting or        *)
(* running, across full queues, evictions, failed writes and restarts.     *)
THEOREM PendingHasJobHolds == LogFitsWindow => (Spec => []PendingHasJob)
  <1> SUFFICES ASSUME LogFitsWindow
               PROVE  Spec => []PendingHasJob
    OBVIOUS
  <1>1. Init => PendingHasJob
    BY DEF Init, PendingHasJob, Pending
  <1>2. TrackerInv /\ PendingHasJob /\ [Next]_vars => PendingHasJob'
    BY TrackerStep DEF HistoriesKeep
  <1> QED
    BY <1>1, <1>2, TrackerInvHolds, PTL DEF Spec

(* While no write fails, what DELETE /api/requests dropped stays dropped:  *)
(* no handler, lookup or restart brings it back.                           *)
THEOREM ClearedStaysGoneHolds == Spec => []ClearedStaysGone
  <1>1. Init => ClearedStaysGone
    BY DEF Init, ClearedStaysGone
  <1>2. TrackerInv /\ ClearedStaysGone /\ [Next]_vars => ClearedStaysGone'
    BY TrackerStep DEF HistoriesKeep
  <1> QED
    BY <1>1, <1>2, TrackerInvHolds, PTL DEF Spec
=============================================================================
