------------------------- MODULE FilterEditorProofs -------------------------
(***************************************************************************)
(* What TLAPS proves of FilterEditor, for every set of endpoints, fields   *)
(* and names, and for every number of edits, failures and calls in flight. *)
(* Neither proof looks into a filter: they rest on the order of the calls  *)
(* and their answers alone.                                                *)
(***************************************************************************)
EXTENDS FilterEditor, TLAPS

IsCall(c) ==
    c = [kind |-> c.kind, id |-> c.id, filter |-> c.filter, fresh |-> c.fresh, reply |-> c.reply]

Calls == \A c \in calls : IsCall(c)

(* The timer and the answers that still count are about the draft on the   *)
(* screen; when none is awaited and none was refused, the last one is      *)
(* shown.                                                                  *)
PreviewInv ==
    /\ timer => Complete(draft)
    /\ \A c \in Fresh : c.filter = Canonical(draft)
    /\ initialized /\ ~timer /\ Fresh = {} /\ ~refused /\ Complete(draft)
          => shown = Evaluated(Canonical(draft))

(* While no two calls about the stored filter overlapped there is one at   *)
(* most; a successful answer to it is the stored filter, and until there   *)
(* is one the stored filter is the saved one.                              *)
SavedInv ==
    ~crossed =>
        /\ \A c, d \in Writing(calls) : c = d
        /\ \A c \in Writing(calls) : c.reply.status = "ok" => c.reply.filter = stored
        /\ initialized /\ (\A c \in Writing(calls) : c.reply.status # "ok") => savedFilter = stored

EditorInv == Calls /\ PreviewInv /\ SavedInv
-----------------------------------------------------------------------------
(* A call of which one field is replaced. *)
LEMMA CallFields ==
    ASSUME NEW c, IsCall(c), NEW value
    PROVE  /\ [c EXCEPT !.fresh = value] = [kind |-> c.kind, id |-> c.id, filter |-> c.filter,
                                            fresh |-> value, reply |-> c.reply]
           /\ [c EXCEPT !.reply = value] = [kind |-> c.kind, id |-> c.id, filter |-> c.filter,
                                            fresh |-> c.fresh, reply |-> value]
  <1>1. c \in [kind : {c.kind}, id : {c.id}, filter : {c.filter}, fresh : {c.fresh}, reply : {c.reply}]
    BY DEF IsCall
  <1> QED
    BY <1>1

(* The page opens with the call that loads it. *)
LEMMA EditorInit == Init => EditorInv
  <1> SUFFICES ASSUME Init PROVE EditorInv
    OBVIOUS
  <1>1. ~initialized /\ ~timer
    BY DEF Init
  <1> DEFINE c == [kind |-> "load", id |-> 0, filter |-> Unset, fresh |-> TRUE, reply |-> Waiting]
  <1>2. calls = {c} /\ c.kind = "load" /\ c.reply.status = "waiting" /\ IsCall(c)
    BY DEF Init, IsCall, Waiting
  <1> HIDE DEF c
  <1>3. Calls /\ Fresh = {} /\ Writing(calls) = {c}
    BY <1>2 DEF Calls, Fresh, About, Writing
  <1> QED
    BY <1>1, <1>2, <1>3 DEF EditorInv, PreviewInv, SavedInv

(* Outdating touches previews only, and leaves none that counts. *)
LEMMA OutdatedCalls ==
    ASSUME NEW S, \A c \in S : IsCall(c)
    PROVE  /\ \A c \in Outdated(S) : IsCall(c)
           /\ {c \in About("preview", Outdated(S)) : c.fresh} = {}
           /\ Writing(Outdated(S)) = Writing(S)
  <1>1. ASSUME NEW c \in S
        PROVE  /\ IsCall([c EXCEPT !.fresh = FALSE])
               /\ [c EXCEPT !.fresh = FALSE].kind = c.kind
               /\ [c EXCEPT !.fresh = FALSE].fresh = FALSE
    BY CallFields DEF IsCall
  <1> QED
    BY <1>1 DEF Outdated, About, Writing

(* A new draft, whatever it is, has no preview yet. *)
LEMMA DraftKeepsPreview ==
    ASSUME NEW filter, NEW S, \A c \in S : IsCall(c), SetDraft(filter, S)
    PROVE  Calls' /\ PreviewInv' /\ Writing(calls') = Writing(S)
  <1>1. /\ draft' = filter
        /\ calls' = Outdated(S)
        /\ timer' = Complete(filter)
    BY DEF SetDraft
  <1>2. (\A c \in calls' : IsCall(c)) /\ Fresh' = {} /\ Writing(calls') = Writing(S)
    BY <1>1, OutdatedCalls DEF Fresh
  <1> QED
    BY <1>1, <1>2 DEF Calls, PreviewInv

(* What is saved, and the calls about it, are as before. *)
LEMMA SavedUnchanged ==
    ASSUME SavedInv, Writing(calls') = Writing(calls),
           UNCHANGED <<savedFilter, initialized, stored, crossed>>
    PROVE  SavedInv'
  BY DEF SavedInv

(* The draft, what is shown of it, and the previews are as before. *)
LEMMA PreviewUnchanged ==
    ASSUME PreviewInv, Fresh' = Fresh, UNCHANGED <<draft, timer, shown, initialized>>,
           refused => refused'
    PROVE  PreviewInv'
  BY DEF PreviewInv

(* Replacing or dropping calls that are no previews leaves the previews.   *)
LEMMA FreshOf ==
    ASSUME \A c \in calls \ calls' : c.kind # "preview",
           \A c \in calls' \ calls : c.kind # "preview"
    PROVE  Fresh' = Fresh
  BY DEF Fresh, About

(* And the other way round. *)
LEMMA WritingOf ==
    ASSUME \A c \in calls \ calls' : c.kind = "preview",
           \A c \in calls' \ calls : c.kind = "preview"
    PROVE  Writing(calls') = Writing(calls)
  BY DEF Writing
-----------------------------------------------------------------------------
(* The edits of the draft. *)
LEMMA EditingKeeps ==
    ASSUME EditorInv, Edit \/ EditAge \/ Reset
    PROVE  EditorInv'
  <1>1. ASSUME NEW filter, SetDraft(filter, calls),
               UNCHANGED <<savedFilter, initialized, stored, crossed>>
        PROVE  EditorInv'
    BY <1>1, DraftKeepsPreview, SavedUnchanged DEF EditorInv, Calls
  <1>2. CASE Edit \/ Reset
    BY <1>1, <1>2 DEF Edit, Reset
  <1>3. CASE EditAge
    <2>1. CASE UNCHANGED <<draft, calls, timer, previewing, refused>>
      <3>1. UNCHANGED <<draft, calls, timer, shown, initialized, refused, savedFilter, stored, crossed>>
        BY <1>3, <2>1 DEF EditAge
      <3> QED
        BY <3>1 DEF EditorInv, Calls, PreviewInv, SavedInv, Fresh
    <2> QED
      BY <1>1, <1>3, <2>1 DEF EditAge
  <1> QED
    BY <1>2, <1>3

(* The preview is asked for. *)
LEMMA TimerKeeps ==
    ASSUME EditorInv, TimerFires
    PROVE  EditorInv'
  <1> DEFINE new == Call("preview", Canonical(draft))
  <1>1. IsCall(new) /\ new.kind = "preview" /\ new.fresh /\ new.filter = Canonical(draft)
    BY DEF Call, IsCall
  <1> HIDE DEF new
  <1>2. /\ calls' = calls \cup {new}
        /\ ~timer'
        /\ UNCHANGED <<draft, savedFilter, initialized, stored, crossed>>
    BY DEF TimerFires, new
  <1>3. Calls' /\ SavedInv'
    BY <1>1, <1>2, WritingOf, SavedUnchanged DEF EditorInv, Calls
  <1>4. Fresh' = Fresh \cup {new}
    BY <1>1, <1>2 DEF Fresh, About
  <1>5. PreviewInv'
    BY <1>1, <1>2, <1>4 DEF EditorInv, PreviewInv
  <1> QED
    BY <1>3, <1>5 DEF EditorInv

(* A call about the stored filter is sent. *)
LEMMA SendingKeeps ==
    ASSUME EditorInv, Save \/ Remove \/ Load
    PROVE  EditorInv'
  <1>1. PICK kind, filter : kind \in {"save", "delete", "load"} /\ Send(kind, filter)
    BY DEF Save, Remove, Load
  <1> DEFINE new == Call(kind, filter)
  <1>2. IsCall(new) /\ new.kind # "preview" /\ new.reply.status # "ok"
    BY <1>1 DEF Call, IsCall, Waiting
  <1> HIDE DEF new
  <1>3. /\ calls' = calls \cup {new}
        /\ crossed' = (crossed \/ Writing(calls) # {})
        /\ UNCHANGED <<draft, savedFilter, shown, timer, initialized, stored, refused>>
    BY <1>1 DEF Send, new
  <1>4. Calls' /\ PreviewInv'
    BY <1>2, <1>3, FreshOf, PreviewUnchanged DEF EditorInv, Calls
  <1>5. SavedInv'
    <2> SUFFICES ASSUME ~crossed'
                 PROVE  /\ \A c, d \in Writing(calls') : c = d
                        /\ \A c \in Writing(calls') : c.reply.status # "ok"
                        /\ initialized' => savedFilter' = stored'
      BY DEF SavedInv
    <2>1. ~crossed /\ Writing(calls) = {}
      BY <1>3
    <2>2. Writing(calls') = {new}
      BY <1>2, <1>3, <2>1 DEF Writing
    <2> QED
      BY <1>2, <1>3, <2>1, <2>2 DEF EditorInv, SavedInv
  <1> QED
    BY <1>4, <1>5 DEF EditorInv
-----------------------------------------------------------------------------
(* The server handles a call about the stored filter. *)
LEMMA ServingKeeps ==
    ASSUME EditorInv, NEW c \in calls, Serve(c)
    PROVE  EditorInv'
  <1>1. PICK reply : /\ Replied(c, reply)
                     /\ ~crossed' => \/ reply = Reply(stored')
                                     \/ reply = Error /\ stored' = stored
    <2>1. \/ Replied(c, Reply(stored'))
          \/ Replied(c, Error) /\ (~crossed' => stored' = stored)
      BY DEF Serve
    <2> QED
      BY <2>1
  <1> DEFINE new == [c EXCEPT !.reply = reply]
  <1>2. IsCall(new) /\ new.kind = c.kind /\ new.reply = reply
    BY CallFields DEF EditorInv, Calls, IsCall
  <1>3. calls' = (calls \ {c}) \cup {new}
    BY <1>1 DEF Replied
  <1> HIDE DEF new
  <1>4. c.kind # "preview" /\ c.reply.status = "waiting" /\ UNCHANGED page /\ UNCHANGED refused
    BY DEF Serve
  <1>5. Calls' /\ PreviewInv'
    BY <1>2, <1>3, <1>4, FreshOf, PreviewUnchanged DEF EditorInv, Calls, page
  <1>6. SavedInv'
    <2> SUFFICES ASSUME ~crossed'
                 PROVE  /\ \A a, b \in Writing(calls') : a = b
                        /\ \A a \in Writing(calls') : a.reply.status = "ok" => a.reply.filter = stored'
                        /\ initialized' /\ (\A a \in Writing(calls') : a.reply.status # "ok")
                              => savedFilter' = stored'
      BY DEF SavedInv
    <2>1. ~crossed
      BY DEF Serve
    <2>2. Writing(calls) = {c} /\ c.reply.status # "ok"
      BY <1>4, <2>1 DEF EditorInv, SavedInv, Writing
    <2>3. Writing(calls') = {new}
      BY <1>2, <1>3, <1>4, <2>2 DEF Writing
    <2>4. initialized => savedFilter = stored
      BY <2>1, <2>2 DEF EditorInv, SavedInv
    <2> QED
      BY <1>1, <1>2, <1>4, <2>3, <2>4 DEF page, Reply, Error
  <1> QED
    BY <1>5, <1>6 DEF EditorInv

(* The page takes over a successful answer. *)
LEMMA SucceedingKeeps ==
    ASSUME EditorInv, NEW c \in calls, Succeeds(c)
    PROVE  EditorInv'
  <1>1. /\ c.kind # "preview" /\ c.reply.status = "ok"
        /\ savedFilter' = c.reply.filter
        /\ SetDraft(OrEmpty(c.reply.filter), calls \ {c})
        /\ UNCHANGED <<stored, crossed>>
    BY DEF Succeeds, SetSaved
  <1>2. Calls' /\ PreviewInv' /\ Writing(calls') = Writing(calls \ {c})
    BY <1>1, DraftKeepsPreview DEF EditorInv, Calls
  <1>3. SavedInv'
    <2> SUFFICES ASSUME ~crossed
                 PROVE  Writing(calls') = {} /\ savedFilter' = stored'
      BY <1>1 DEF SavedInv
    <2>1. \A d \in Writing(calls) : d = c
      BY <1>1 DEF EditorInv, SavedInv, Writing
    <2>2. c \in Writing(calls)
      BY <1>1 DEF Writing
    <2> QED
      BY <1>1, <1>2, <2>1, <2>2 DEF EditorInv, SavedInv, Writing
  <1> QED
    BY <1>2, <1>3 DEF EditorInv

(* The page drops a call that failed. *)
LEMMA FailingKeeps ==
    ASSUME EditorInv, NEW c \in calls, CallFails(c)
    PROVE  EditorInv'
  <1>1. /\ c.kind # "preview" /\ c.reply.status = "error"
        /\ calls' = calls \ {c}
        /\ UNCHANGED <<draft, savedFilter, shown, timer, initialized, stored, refused, crossed>>
    BY DEF CallFails
  <1>2. Calls' /\ PreviewInv'
    BY <1>1, FreshOf, PreviewUnchanged DEF EditorInv, Calls
  <1>3. SavedInv'
    <2> SUFFICES ASSUME ~crossed
                 PROVE  Writing(calls') = {} /\ (initialized => savedFilter = stored)
      BY <1>1 DEF SavedInv
    <2>1. c \in Writing(calls) /\ \A d \in Writing(calls) : d = c
      BY <1>1 DEF EditorInv, SavedInv, Writing
    <2>2. Writing(calls') = {}
      BY <1>1, <2>1 DEF Writing
    <2> QED
      BY <1>1, <2>1, <2>2 DEF EditorInv, SavedInv
  <1> QED
    BY <1>2, <1>3 DEF EditorInv

(* A preview is answered or refused: one that counts ends the wait. *)
LEMMA PreviewingKeeps ==
    ASSUME EditorInv, NEW c \in calls, PreviewAnswered(c) \/ PreviewRefused(c)
    PROVE  EditorInv'
  <1>1. /\ c.kind = "preview"
        /\ calls' = calls \ {c}
        /\ UNCHANGED <<draft, timer, initialized, savedFilter, stored, crossed>>
    BY DEF PreviewAnswered, PreviewRefused
  <1>2. Calls' /\ SavedInv'
    BY <1>1, WritingOf, SavedUnchanged DEF EditorInv, Calls
  <1>3. CASE c.fresh
    <2>1. c \in Fresh /\ Fresh' \subseteq Fresh
      BY <1>1, <1>3 DEF Fresh, About
    <2>2. c.filter = Canonical(draft)
      BY <2>1 DEF EditorInv, PreviewInv
    <2>3. refused' \/ shown' = Evaluated(c.filter)
      BY <1>3 DEF PreviewAnswered, PreviewRefused
    <2> QED
      BY <1>1, <1>2, <2>1, <2>2, <2>3 DEF EditorInv, PreviewInv
  <1>4. CASE ~c.fresh
    <2>1. Fresh' = Fresh
      BY <1>1, <1>4 DEF Fresh, About
    <2>2. shown' = shown
      BY <1>4 DEF PreviewAnswered, PreviewRefused
    <2>3. refused => refused'
      BY Zenon DEF PreviewAnswered, PreviewRefused
    <2> QED
      BY <1>1, <1>2, <2>1, <2>2, <2>3, PreviewUnchanged DEF EditorInv
  <1> QED
    BY <1>3, <1>4

(* Every step of the page, the user and the server keeps the invariant. *)
LEMMA EditorNext == EditorInv /\ [Next]_vars => EditorInv'
  <1> SUFFICES ASSUME EditorInv, [Next]_vars PROVE EditorInv'
    OBVIOUS
  <1>1. CASE Edit \/ EditAge \/ Reset
    BY <1>1, EditingKeeps
  <1>2. CASE Save \/ Remove \/ Load
    BY <1>2, SendingKeeps
  <1>3. CASE TimerFires
    BY <1>3, TimerKeeps
  <1>4. CASE Answer
    <2>1. PICK c \in calls : \/ Serve(c) \/ SaveAnswered(c) \/ RemoveAnswered(c) \/ LoadAnswered(c)
                             \/ CallFails(c) \/ PreviewAnswered(c) \/ PreviewRefused(c)
      BY <1>4 DEF Answer
    <2>2. CASE SaveAnswered(c) \/ RemoveAnswered(c) \/ LoadAnswered(c)
      BY <2>2, SucceedingKeeps DEF SaveAnswered, RemoveAnswered, LoadAnswered
    <2> QED
      BY <2>1, <2>2, ServingKeeps, FailingKeeps, PreviewingKeeps
  <1>5. CASE UNCHANGED vars
    BY <1>5 DEF vars, page, EditorInv, Calls, PreviewInv, SavedInv, Fresh
  <1> QED
    BY <1>1, <1>2, <1>3, <1>4, <1>5 DEF Next

(* The inductive invariant in every behaviour. *)
THEOREM EditorInvariant == Spec => []EditorInv
  BY EditorInit, EditorNext, PTL DEF Spec

(* Once no preview of the draft is awaited and none was refused, the       *)
(* endpoints shown are those of the draft on the screen, in whatever order *)
(* the previews and the answers that replace the draft came in.            *)
THEOREM PreviewMatchesHolds == Spec => []PreviewMatches
  <1>1. EditorInv => PreviewMatches
    BY DEF EditorInv, PreviewInv, PreviewMatches, Open
  <1> QED
    BY <1>1, EditorInvariant, PTL

(* As long as calls about the stored filter do not overlap and none fails  *)
(* half-way, what the page calls saved is what the server stores.          *)
THEOREM SavedIsStoredHolds == Spec => []SavedIsStored
  <1>1. EditorInv => SavedIsStored
    BY DEF EditorInv, SavedInv, SavedIsStored
  <1> QED
    BY <1>1, EditorInvariant, PTL
=============================================================================
