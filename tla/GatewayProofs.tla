--------------------------- MODULE GatewayProofs ---------------------------
(***************************************************************************)
(* What TLAPS proves of LauncherLease, for every set of tabs and every     *)
(* number of lost calls, and of Gateway around it, for every choice of     *)
(* sources and every number of ports.                                      *)
(***************************************************************************)
EXTENDS Gateway, TLAPS
-----------------------------------------------------------------------------
(***************************************************************************)
(* The lease by itself.                                                    *)
(***************************************************************************)

(* After the exit or the close no timer is armed, and only an exit that    *)
(* found no client has happened.                                           *)
ClosedIsQuiet ==
    /\ closed => ~startup /\ ~grace
    /\ exits > 0 => closed /\ clients = {}

(* A timer is armed only while no tab holds the lease. *)
TimersWaitForTabs == startup \/ grace => clients = {}

IInv ==
    /\ TypeOK
    /\ ClosedIsQuiet
    /\ TimersWaitForTabs
    /\ LeavingWhenEmpty
-----------------------------------------------------------------------------
(* The invariant holds at first. *)
LEMMA InitIInv == Init => IInv
  <1> SUFFICES ASSUME Init PROVE IInv
    OBVIOUS
  <1>1. TypeOK
    <2>1. /\ startup \in BOOLEAN
          /\ grace \in BOOLEAN
          /\ closed \in BOOLEAN
      BY Zenon DEF Init
    <2>2. /\ clients \in SUBSET Tab
          /\ page \in SUBSET Tab
          /\ sent \in SUBSET Call
          /\ exits \in {0, 1}
          /\ losses \in 0 .. MaxLosses
      BY LeaseAssumption DEF Init
    <2> QED
      BY <2>1, <2>2 DEF TypeOK
  <1>2. ClosedIsQuiet /\ TimersWaitForTabs /\ LeavingWhenEmpty
    BY DEF Init, ClosedIsQuiet, TimersWaitForTabs, LeavingWhenEmpty
  <1> QED
    BY <1>1, <1>2 DEF IInv

(* A tab's call is one of its three calls. *)
LEMMA CallFields ==
    ASSUME NEW m \in Call
    PROVE  m.tab \in Tab
  BY DEF Call

(* Sending a call adds one. *)
LEMMA SendType ==
    ASSUME sent \in SUBSET Call, NEW t \in Tab,
           NEW action \in {"acquire", "heartbeat", "release"}, Send(t, action)
    PROVE  sent' \in SUBSET Call
  BY DEF Send, Call

(* Every step keeps the invariant. *)
LEMMA NextIInv == IInv /\ [Next]_vars => IInv'
  <1> SUFFICES ASSUME IInv, [Next]_vars PROVE IInv'
    OBVIOUS
  <1>1. ASSUME NEW t \in Tab, Load(t) \/ Heartbeat(t) \/ Leave(t) PROVE IInv'
    <2>1. sent' \in SUBSET Call
      BY <1>1, SendType DEF IInv, TypeOK, Load, Heartbeat, Leave
    <2>2. page' \in SUBSET Tab
      BY <1>1 DEF IInv, TypeOK, Load, Heartbeat, Leave
    <2>3. UNCHANGED <<lease, losses>>
      BY <1>1 DEF Load, Heartbeat, Leave
    <2> QED
      BY <2>1, <2>2, <2>3
      DEF IInv, TypeOK, ClosedIsQuiet, TimersWaitForTabs, LeavingWhenEmpty, lease
  <1>2. ASSUME NEW m \in sent, Lose(m) PROVE IInv'
    BY <1>2, LeaseAssumption
    DEF Lose, IInv, TypeOK, ClosedIsQuiet, TimersWaitForTabs, LeavingWhenEmpty, lease
  <1>3. ASSUME NEW m \in sent, Handle(m) PROVE IInv'
    <2>1. m.tab \in Tab
      BY CallFields DEF IInv, TypeOK
    <2>2. CASE closed
      BY <1>3, <2>2
      DEF Handle, IInv, TypeOK, ClosedIsQuiet, TimersWaitForTabs, LeavingWhenEmpty
    <2>3. CASE ~closed /\ Release(m.tab)
      BY <1>3, <2>1, <2>3
      DEF Handle, Release, IInv, TypeOK, ClosedIsQuiet, TimersWaitForTabs, LeavingWhenEmpty
    <2>4. CASE ~closed /\ Hold(m.tab)
      BY <1>3, <2>1, <2>4
      DEF Handle, Hold, IInv, TypeOK, ClosedIsQuiet, TimersWaitForTabs, LeavingWhenEmpty
    <2> QED
      BY <1>3, <2>2, <2>3, <2>4 DEF Handle
  <1>4. CASE StartupExpires \/ GraceExpires
    <2>1. ~closed /\ exits = 0 /\ clients = {}
      BY <1>4 DEF StartupExpires, GraceExpires, IInv, TypeOK, ClosedIsQuiet, TimersWaitForTabs
    <2>2. exits' = 1 /\ closed' /\ ~startup' /\ ~grace'
      BY <1>4, <2>1 DEF StartupExpires, GraceExpires, Exit
    <2>3. closed' \in BOOLEAN /\ startup' \in BOOLEAN /\ grace' \in BOOLEAN
      BY <1>4, Zenon DEF StartupExpires, GraceExpires, Exit
    <2>4. UNCHANGED <<clients, page, sent, losses>>
      BY <1>4 DEF StartupExpires, GraceExpires, Exit
    <2> QED
      BY <2>1, <2>2, <2>3, <2>4
      DEF IInv, TypeOK, ClosedIsQuiet, TimersWaitForTabs, LeavingWhenEmpty
  <1>5. CASE Close
    BY <1>5 DEF Close, IInv, TypeOK, ClosedIsQuiet, TimersWaitForTabs, LeavingWhenEmpty
  <1>6. CASE UNCHANGED vars
    BY <1>6 DEF vars, IInv, TypeOK, ClosedIsQuiet, TimersWaitForTabs, LeavingWhenEmpty
  <1> QED
    BY <1>1, <1>2, <1>3, <1>4, <1>5, <1>6 DEF Next

(* The inductive invariant holds in every behaviour. *)
THEOREM LeaseAlone == Spec => []IInv
  BY InitIInv, NextIInv, PTL DEF Spec

(* Every variable keeps its type: in particular onExit is called at most   *)
(* once, whichever timers fire and whoever closes the server.              *)
THEOREM LeaseTypeCorrect == Spec => []TypeOK
  BY LeaseAlone, PTL DEF IInv

(* The process exits by itself only when no tab holds the lease.           *)
THEOREM ExitsOnlyWhenEmpty == Spec => []ExitOnlyWhenEmpty
  <1>1. IInv => ExitOnlyWhenEmpty
    BY DEF IInv, ClosedIsQuiet, ExitOnlyWhenEmpty
  <1> QED
    BY <1>1, LeaseAlone, PTL

(* While no tab holds the lease some timer is armed, unless the process is *)
(* closed already.                                                         *)
THEOREM LeavesWhenEmpty == Spec => []LeavingWhenEmpty
  BY LeaseAlone, PTL DEF IInv
-----------------------------------------------------------------------------
(***************************************************************************)
(* The lease of the process.                                               *)
(***************************************************************************)

Phase == {"begin", "loaded", "starting", "inUse", "listening", "closing", "stopped", "failed"}

(* Until a server listens no tab has reached the lease of any attempt. *)
Untouched ==
    phase \in {"begin", "loaded", "starting", "inUse"} => exits = 0 /\ clients = {} /\ ~grace

(* Where no server is open no lease is; a server of serve has none at all. *)
LeaseOwned ==
    (phase \in {"begin", "loaded", "inUse", "stopped", "failed"} \/ command # "launch")
        => closed /\ ~startup /\ ~grace

LeaseInv ==
    /\ IInv
    /\ phase \in Phase
    /\ Untouched
    /\ LeaseOwned
-----------------------------------------------------------------------------
(* At first there is no lease. *)
LEMMA InitLease == GatewayInit => LeaseInv
  <1> SUFFICES ASSUME GatewayInit PROVE LeaseInv
    OBVIOUS
  <1>1. /\ startup \in BOOLEAN
        /\ grace \in BOOLEAN
        /\ closed \in BOOLEAN
    BY Zenon DEF GatewayInit
  <1>2. /\ clients \in SUBSET Tab
        /\ page \in SUBSET Tab
        /\ sent \in SUBSET Call
        /\ exits \in {0, 1}
        /\ losses \in 0 .. MaxLosses
    BY LeaseAssumption DEF GatewayInit
  <1>3. ClosedIsQuiet /\ TimersWaitForTabs /\ LeavingWhenEmpty
    BY DEF GatewayInit, ClosedIsQuiet, TimersWaitForTabs, LeavingWhenEmpty
  <1>4. phase \in Phase /\ Untouched /\ LeaseOwned
    BY DEF GatewayInit, Phase, Untouched, LeaseOwned
  <1> QED
    BY <1>1, <1>2, <1>3, <1>4 DEF LeaseInv, IInv, TypeOK

(* A step that leaves the lease alone and opens no server. *)
LEMMA LeaseUnchanged ==
    ASSUME LeaseInv, UNCHANGED vars, UNCHANGED command, phase' \in Phase,
           phase' \in {"begin", "loaded", "starting", "inUse"} =>
               phase \in {"begin", "loaded", "starting", "inUse"},
           phase' \in {"begin", "loaded", "inUse", "stopped", "failed"} =>
               \/ phase \in {"begin", "loaded", "inUse", "stopped", "failed"}
               \/ command # "launch"
    PROVE  LeaseInv'
  <1>1. IInv'
    BY NextIInv DEF LeaseInv
  <1>2. Untouched' /\ LeaseOwned'
    BY DEF LeaseInv, Untouched, LeaseOwned, vars
  <1> QED
    BY <1>1, <1>2 DEF LeaseInv

(* Every step of the process keeps the lease in order. *)
LEMMA NextLease == LeaseInv /\ [GatewayNext]_gatewayVars => LeaseInv'
  <1> SUFFICES ASSUME LeaseInv, [GatewayNext]_gatewayVars PROVE LeaseInv'
    OBVIOUS
  <1>1. CASE Configure
    BY <1>1, LeaseUnchanged DEF Configure, Phase
  <1>2. CASE Diagnose
    BY <1>2, LeaseUnchanged DEF Diagnose, Phase
  <1>3. CASE Serve
    BY <1>3, LeaseUnchanged DEF Serve, Phase
  <1>4. CASE Attempt
    <2>1. exits = 0 /\ clients = {} /\ ~grace /\ TypeOK
      BY <1>4 DEF Attempt, LeaseInv, Untouched, IInv
    <2>2. /\ closed' = FALSE
          /\ startup' = TRUE
          /\ UNCHANGED <<clients, grace, exits, page, sent, losses, command>>
          /\ phase' = "starting"
          /\ command = "launch"
      BY <1>4 DEF Attempt
    <2>3. TypeOK'
      <3>1. closed' \in BOOLEAN /\ startup' \in BOOLEAN /\ grace' \in BOOLEAN
        BY <2>1, <2>2, Zenon DEF TypeOK
      <3> QED
        BY <2>1, <2>2, <3>1 DEF TypeOK
    <2>4. ClosedIsQuiet' /\ TimersWaitForTabs' /\ LeavingWhenEmpty'
      BY <2>1, <2>2 DEF ClosedIsQuiet, TimersWaitForTabs, LeavingWhenEmpty
    <2>5. Untouched' /\ LeaseOwned' /\ phase' \in Phase
      BY <2>1, <2>2 DEF Untouched, LeaseOwned, Phase
    <2> QED
      BY <2>3, <2>4, <2>5 DEF LeaseInv, IInv
  <1>5. CASE Listening
    BY <1>5, LeaseUnchanged DEF Listening, Phase
  <1>6. CASE InUse \/ CannotListen \/ Closed
    <2>1. Close /\ UNCHANGED command /\ phase' \in Phase
      BY <1>6 DEF InUse, CannotListen, Closed, Phase
    <2>2. IInv'
      BY <2>1, NextIInv DEF LeaseInv, Next
    <2>3. Untouched' /\ LeaseOwned'
      BY <1>6, <2>1 DEF InUse, CannotListen, Closed, Close, LeaseInv, Untouched, LeaseOwned
    <2> QED
      BY <2>1, <2>2, <2>3 DEF LeaseInv
  <1>7. CASE NoFreePort
    BY <1>7, LeaseUnchanged DEF NoFreePort, Phase
  <1>8. CASE (\E r \in Requests, active \in BOOLEAN : Arrive(r, active)) \/ Done
    <2>1. UNCHANGED <<process, vars>>
      BY <1>8 DEF Arrive, Done
    <2> QED
      BY <2>1, LeaseUnchanged DEF process, LeaseInv
  <1>9. CASE Signal
    BY <1>9, LeaseUnchanged DEF Signal, Phase, LeaseInv
  <1>10. CASE LeaseEnds
    <2>1. IInv'
      BY <1>10, NextIInv DEF LeaseEnds, LeaseInv, Next
    <2>2. ~startup' /\ ~grace' /\ closed'
      BY <1>10 DEF LeaseEnds, StartupExpires, GraceExpires, Exit
    <2>3. Untouched' /\ LeaseOwned' /\ phase' \in Phase
      BY <1>10, <2>2 DEF LeaseEnds, Untouched, LeaseOwned, Phase
    <2> QED
      BY <2>1, <2>3 DEF LeaseInv
  <1>11. CASE TabStep
    <2>1. IInv'
      BY <1>11, NextIInv DEF TabStep, LeaseInv, Next
    <2>2. phase' = "listening" /\ command' = "launch"
      BY <1>11 DEF TabStep, process
    <2>3. Untouched' /\ LeaseOwned' /\ phase' \in Phase
      BY <2>2 DEF Untouched, LeaseOwned, Phase
    <2> QED
      BY <2>1, <2>3 DEF LeaseInv
  <1>12. CASE UNCHANGED gatewayVars
    BY <1>12, LeaseUnchanged DEF gatewayVars, process, LeaseInv
  <1> QED
    BY <1>1, <1>2, <1>3, <1>4, <1>5, <1>6, <1>7, <1>8, <1>9, <1>10, <1>11, <1>12 DEF GatewayNext

(* The lease's invariant in every behaviour of the process. *)
THEOREM LeaseInvariant == GatewaySpec => []LeaseInv
  BY InitLease, NextLease, PTL DEF GatewaySpec

(* Between two ports and after the end no lease is left armed. *)
THEOREM NoLeaseIsLeft == GatewaySpec => []NoLeaseLeft
  <1>1. LeaseInv => NoLeaseLeft
    BY DEF LeaseInv, LeaseOwned, NoLeaseLeft
  <1> QED
    BY <1>1, LeaseInvariant, PTL

(* The launched process exits by itself only while no tab holds the lease. *)
THEOREM GatewayExitsWhenEmpty == GatewaySpec => []ExitOnlyWhenEmpty
  <1>1. LeaseInv => ExitOnlyWhenEmpty
    BY DEF LeaseInv, IInv, ClosedIsQuiet, ExitOnlyWhenEmpty
  <1> QED
    BY <1>1, LeaseInvariant, PTL

(* While a lease is open and no tab holds it, one of its timers is armed.  *)
THEOREM GatewayLeavesWhenEmpty == GatewaySpec => []LeavingWhenEmpty
  <1>1. LeaseInv => LeavingWhenEmpty
    BY DEF LeaseInv, IInv
  <1> QED
    BY <1>1, LeaseInvariant, PTL
-----------------------------------------------------------------------------
(***************************************************************************)
(* The front door.                                                         *)
(***************************************************************************)

(* An address open to others is only ever opened with a control key;       *)
(* launch binds this machine whatever was configured.                      *)
Exposure ==
    /\ phase \in {"starting", "inUse", "listening", "closing"} => front.loopback \/ front.control
    /\ phase = "loaded" /\ command = "launch" => config["host"] = "default"

(* Only an open server answers, so the configuration an answer was given   *)
(* under is the one in force until the answer ends.                        *)
Answering ==
    /\ reply # "none" => phase \in {"listening", "closing", "stopped"}
    /\ sentAuth # "none" => reply # "none"

DoorInv ==
    /\ Exposure
    /\ Answering
    /\ ApiIsTrusted
    /\ KeysStayHere

(* Launch's configuration names this machine. *)
LEMMA LaunchHost ==
    ASSUME NEW file, NEW env, NEW flags,
           LoadConfig("launch", file, env, flags) # NoConfig
    PROVE  LoadConfig("launch", file, env, flags)["host"] = "default"
  <1> DEFINE loaded == Layers(file, env, Options("launch", flags))
  <1>1. "host" \in Setting
    BY DEF Setting, Layered
  <1>2. DOMAIN loaded = Setting
    BY DEF Layers
  <1>3. LoadConfig("launch", file, env, flags) = [loaded EXCEPT !["host"] = "default"]
    BY DEF LoadConfig
  <1> HIDE DEF loaded
  <1> QED
    BY <1>1, <1>2, <1>3

(* What is let through to /api. *)
LEMMA ApiReply ==
    ASSUME NEW r \in Request, NEW active \in BOOLEAN, Reply(r, active) = "api"
    PROVE  ~Guarded(r) /\ ~Managed(r) /\ LocalAuth(r)
  <1>1. IsApi(r) => ~IsData(r)
    BY DEF IsApi, IsData
  <1>2. DataReply(r, active) # "api"
    BY DEF DataReply
  <1>3. UiReply(r) # "api"
    BY DEF UiReply
  <1> QED
    BY <1>1, <1>2, <1>3 DEF Reply

(* Which of the two headers counts, and what is made of it. *)
LEMMA InboundFields ==
    ASSUME NEW r \in Request
    PROVE  /\ InboundAuth(r).secret =
                IF r.authorization = NoCredential THEN r.apiKey.secret ELSE r.authorization.secret
           /\ r.authorization # NoCredential => InboundAuth(r) = r.authorization
           /\ r.authorization = NoCredential /\ r.apiKey # NoCredential =>
                InboundAuth(r).word # "none"
           /\ r.authorization = NoCredential /\ r.apiKey = NoCredential =>
                InboundAuth(r) = NoCredential
  <1>1. CASE r.authorization # NoCredential
    BY <1>1 DEF InboundAuth
  <1>2. CASE r.authorization = NoCredential /\ r.apiKey # NoCredential
    BY <1>2 DEF InboundAuth
  <1>3. CASE r.authorization = NoCredential /\ r.apiKey = NoCredential
    BY <1>3 DEF InboundAuth
  <1> QED
    BY <1>1, <1>2, <1>3

(* A managed key that is presented is known as one. *)
LEMMA PresentedIsManaged ==
    ASSUME NEW r \in Request, Presents(r, LocalKeys)
    PROVE  Managed(r)
  <1>1. NoCredential.secret \notin LocalKeys /\ NoCredential.word = "none"
    BY DEF NoCredential, LocalKeys
  <1>2. CASE r.authorization.secret \in LocalKeys /\ r.authorization.word # "none"
    BY <1>1, <1>2, InboundFields DEF Managed
  <1>3. CASE r.authorization = NoCredential /\ r.apiKey.secret \in LocalKeys
    BY <1>1, <1>3, InboundFields DEF Managed
  <1> QED
    BY <1>2, <1>3 DEF Presents

(* Whose key goes upstream: a managed one only from an Authorization       *)
(* without the word, the control key only in a spelling that is not known. *)
LEMMA UpstreamAuthIsForeign ==
    ASSUME NEW r \in Request, NEW active \in BOOLEAN
    PROVE  /\ UpstreamAuth(r, active) \in LocalKeys =>
                 r.authorization = [secret |-> UpstreamAuth(r, active), word |-> "none"]
           /\ UpstreamAuth(r, active) = "control" /\ front.control =>
                 InboundAuth(r).word \in {"bearer", "spaced"}
  <1> DEFINE auth == InboundAuth(r)
  <1>1. ASSUME UpstreamAuth(r, active) \in LocalKeys
        PROVE  r.authorization = [secret |-> UpstreamAuth(r, active), word |-> "none"]
    <2>1. ~Managed(r) /\ UpstreamAuth(r, active) = auth.secret /\ auth # NoCredential
      BY <1>1 DEF UpstreamAuth, LocalKeys
    <2>2. auth.word = "none"
      BY <1>1, <2>1 DEF Managed
    <2>3. r.authorization # NoCredential /\ auth = r.authorization
      BY <2>1, <2>2, InboundFields
    <2>4. r.authorization \in [secret : Secret, word : Word]
      BY <2>3 DEF Request, Credential
    <2> QED
      BY <2>1, <2>2, <2>3, <2>4
  <1>2. ASSUME UpstreamAuth(r, active) = "control", front.control
        PROVE  auth.word \in {"bearer", "spaced"}
    <2>1. /\ auth.secret = "control"
          /\ auth.word \notin {"none", "Bearer"}
      BY <1>2 DEF UpstreamAuth
    <2>2. auth.word \in Word
      <3>1. r.authorization \in Credential /\ r.apiKey \in Credential
        BY DEF Request
      <3>2. \A c \in Credential : c.word \in Word
        BY DEF Credential, NoCredential, Word
      <3> QED
        BY <3>1, <3>2 DEF InboundAuth, Word
    <2> QED
      BY <2>1, <2>2 DEF Word
  <1> QED
    BY <1>1, <1>2

(* At first nothing is answered. *)
LEMMA InitDoor == GatewayInit => DoorInv
  BY DEF GatewayInit, DoorInv, Exposure, Answering, ApiIsTrusted, KeysStayHere, LocalKeys

(* A step that changes neither the door nor what it reads. *)
LEMMA DoorUnchanged ==
    ASSUME DoorInv, UNCHANGED <<front, door>>, Exposure',
           phase' \in {"listening", "closing", "stopped"} \/ reply = "none"
    PROVE  DoorInv'
  <1>1. \/ reply = "none" /\ sentAuth = "none"
        \/ phase' \in {"listening", "closing", "stopped"}
    BY DEF DoorInv, Answering
  <1>2. Answering'
    BY <1>1 DEF DoorInv, Answering, door
  <1>3. ApiIsTrusted' /\ KeysStayHere'
    BY DEF DoorInv, ApiIsTrusted, KeysStayHere, Presents, InboundAuth, door
  <1> QED
    BY <1>2, <1>3 DEF DoorInv

(* Every step of the process keeps the door. *)
LEMMA NextDoor == DoorInv /\ [GatewayNext]_gatewayVars => DoorInv'
  <1> SUFFICES ASSUME DoorInv, [GatewayNext]_gatewayVars PROVE DoorInv'
    OBVIOUS
  <1>1. CASE Configure
    <2>1. Exposure'
      <3>1. CASE phase' = "loaded" /\ command' = "launch"
        BY <1>1, <3>1, LaunchHost DEF Configure, Exposure
      <3> QED
        BY <1>1, <3>1 DEF Configure, Exposure
    <2>2. reply = "none" /\ UNCHANGED <<front, door>>
      BY <1>1 DEF Configure, DoorInv, Answering
    <2> QED
      BY <2>1, <2>2, DoorUnchanged
  <1>2. CASE Diagnose \/ NoFreePort
    BY <1>2, DoorUnchanged DEF Diagnose, NoFreePort, DoorInv, Exposure, Answering
  <1>3. CASE Serve \/ Attempt
    <2>1. reply = "none" /\ sentAuth = "none" /\ UNCHANGED door
      BY <1>3 DEF Serve, Attempt, DoorInv, Answering
    <2>2. CASE Serve
      <3>1. phase' = "starting" => front'.loopback \/ front'.control
        BY <2>2 DEF Serve, MayStart
      <3>2. phase' \in {"starting", "failed"}
        BY <2>2 DEF Serve
      <3> QED
        BY <2>1, <3>1, <3>2 DEF DoorInv, Exposure, Answering, ApiIsTrusted, KeysStayHere, LocalKeys, door
    <2>3. CASE Attempt
      <3>1. phase' = "starting"
        BY <2>3 DEF Attempt
      <3>2. phase = "loaded" => front'.loopback
        BY <2>3 DEF Attempt, FrontOf, DoorInv, Exposure
      <3>3. phase = "inUse" => front' = front
        BY <2>3 DEF Attempt
      <3>4. front'.loopback \/ front'.control
        BY <2>3, <3>2, <3>3 DEF Attempt, DoorInv, Exposure
      <3> QED
        BY <2>1, <3>1, <3>4 DEF DoorInv, Exposure, Answering, ApiIsTrusted, KeysStayHere, LocalKeys, door
    <2> QED
      BY <1>3, <2>2, <2>3
  <1>4. CASE Listening \/ Signal \/ LeaseEnds \/ TabStep
    BY <1>4, DoorUnchanged
    DEF Listening, Signal, LeaseEnds, TabStep, process, DoorInv, Exposure, Answering
  <1>5. CASE InUse \/ CannotListen \/ Closed
    BY <1>5, DoorUnchanged DEF InUse, CannotListen, Closed, DoorInv, Exposure, Answering
  <1>6. ASSUME NEW r \in Requests, NEW active \in BOOLEAN, Arrive(r, active) PROVE DoorInv'
    <2>1. /\ phase = "listening"
          /\ UNCHANGED <<front, phase, command, config>>
          /\ request' = r
          /\ reply' = Reply(r, active)
          /\ sentAuth' = IF reply' = "proxy" THEN UpstreamAuth(r, active) ELSE "none"
          /\ r \in Request
      BY <1>6, GatewayAssumption DEF Arrive, process
    <2>2. Exposure' /\ Answering'
      BY <2>1 DEF DoorInv, Exposure, Answering
    <2>3. ApiIsTrusted'
      <3>1. SUFFICES ASSUME Reply(r, active) = "api"
                     PROVE  /\ ~Presents(r, LocalKeys)
                            /\ IF front.control
                               THEN \/ r.authorization = [secret |-> "control", word |-> "Bearer"]
                                    \/ r.apiKey = [secret |-> "control", word |-> "none"]
                               ELSE front.loopback /\ r.local
        BY <2>1 DEF ApiIsTrusted, Presents
      <3>2. ~Guarded(r) /\ ~Managed(r) /\ LocalAuth(r)
        BY <2>1, <3>1, ApiReply
      <3>3. ~Presents(r, LocalKeys)
        BY <2>1, <3>2, PresentedIsManaged
      <3> QED
        BY <2>1, <3>2, <3>3 DEF Guarded, LocalAuth, DoorInv, Exposure
    <2>4. KeysStayHere'
      BY <2>1, UpstreamAuthIsForeign DEF KeysStayHere, LocalKeys, InboundAuth
    <2> QED
      BY <2>2, <2>3, <2>4 DEF DoorInv
  <1>7. CASE Done
    BY <1>7 DEF Done, process, DoorInv, Exposure, Answering, ApiIsTrusted, KeysStayHere, LocalKeys
  <1>8. CASE UNCHANGED gatewayVars
    BY <1>8 DEF gatewayVars, process, door, DoorInv, Exposure, Answering, ApiIsTrusted,
                KeysStayHere, Presents, InboundAuth
  <1> QED
    BY <1>1, <1>2, <1>3, <1>4, <1>5, <1>6, <1>7, <1>8 DEF GatewayNext

(* The front door's invariant in every behaviour of the process. *)
THEOREM DoorInvariant == GatewaySpec => []DoorInv
  BY InitDoor, NextDoor, PTL DEF GatewaySpec

(* What reaches the control plane has shown the control key in one of the  *)
(* two ways it is asked for, or there is none and it came from this        *)
(* machine; no managed key was presented with it.  Presented means after   *)
(* the word Bearer in Authorization, in any letters, or in x-api-key       *)
(* without an Authorization: a key sent otherwise may get through.         *)
THEOREM ControlPlaneIsTrusted == GatewaySpec => []ApiIsTrusted
  BY DoorInvariant, PTL DEF DoorInv

(* A managed key is sent to OpenRouter only if it stood alone in           *)
(* Authorization, and the control key only in a spelling other than alone  *)
(* or after "Bearer " exactly.                                             *)
THEOREM LocalKeysStay == GatewaySpec => []KeysStayHere
  BY DoorInvariant, PTL DEF DoorInv
-----------------------------------------------------------------------------
(***************************************************************************)
(* The configuration.                                                      *)
(***************************************************************************)

(* Until a server starts, what the user gave is known, and once loaded the *)
(* configuration is what the command makes of it.                          *)
LoadedAsGiven ==
    /\ phase \in {"begin", "loaded"} => sources \in Sources /\ command = sources.command
    /\ phase = "loaded" =>
          /\ config # NoConfig
          /\ config = LoadConfig(command, sources.file, sources.env, sources.flags)

(* A legal value of a policy field is read as itself. *)
LEMMA ParseLegal ==
    ASSUME NEW f, NEW text \in {"one", "two"}
    PROVE  Parse(f, text) = text
  BY DEF Parse

(* A layer that gives a setting a legal value covers the layers below. *)
LEMMA LayerCounts ==
    ASSUME NEW layer, NEW s, s \in DOMAIN layer, layer[s] \in {"one", "two"}
    PROVE  Gives(layer, s) /\ ValueOf(layer, s) = layer[s]
  BY ParseLegal DEF Gives, ValueOf

(* Apart from launch's host, the configuration is the layers. *)
LEMMA LoadedLayers ==
    ASSUME NEW c, NEW file, NEW env, NEW flags, NEW s \in Setting,
           LoadConfig(c, file, env, flags) # NoConfig, ~(s = "host" /\ c = "launch")
    PROVE  LoadConfig(c, file, env, flags)[s] = Layers(file, env, Options(c, flags))[s]
  <1> DEFINE loaded == Layers(file, env, Options(c, flags))
  <1>1. DOMAIN loaded = Setting
    BY DEF Layers
  <1>2. LoadConfig(c, file, env, flags) =
            IF c = "launch" THEN [loaded EXCEPT !["host"] = "default"] ELSE loaded
    BY DEF LoadConfig
  <1> HIDE DEF loaded
  <1>3. LoadConfig(c, file, env, flags)[s] = loaded[s]
    BY <1>1, <1>2
  <1> QED
    BY <1>3 DEF loaded

(* The options commander hands over: what the user gave, and the presets. *)
LEMMA OptionsGiven ==
    ASSUME NEW c, NEW flags, NEW s, s # "allow_fallbacks"
    PROVE  /\ s \in DOMAIN Options(c, flags) <=> s \in DOMAIN flags \/ s \in Preset(c)
           /\ s \in DOMAIN flags => Options(c, flags)[s] = flags[s]
  BY DEF Options

(* --no-fallbacks never gets through. *)
LEMMA NoFallbacksLost ==
    ASSUME NEW c, NEW flags
    PROVE  "allow_fallbacks" \notin DOMAIN Options(c, flags)
  BY DEF Options

(* Only serve has the flags of the responses, and it presets one of them;  *)
(* no variable sets them.                                                  *)
LEMMA ResponsesGiven ==
    ASSUME NEW g \in Sources, NEW s \in Responses, s \notin Preset(g.command)
    PROVE  s \notin DOMAIN g.flags /\ s \notin DOMAIN g.env
  <1>1. /\ g.command \in Command
        /\ DOMAIN g.flags \subseteq FlagsOf(g.command)
        /\ DOMAIN g.env \subseteq InEnv
    BY GatewayAssumption
  <1>2. s = "enable_responses" /\ s \notin InEnv
    BY DEF Responses, InEnv, Layered, PolicyField
  <1>3. g.command # "serve"
    BY <1>2 DEF Preset
  <1>4. s \notin FlagsOf(g.command)
    BY <1>1, <1>2, <1>3 DEF FlagsOf, Command, Layered, PolicyField
  <1> QED
    BY <1>1, <1>2, <1>4

(* What is loaded keeps the documented priority, apart from the presets    *)
(* and the two exceptions.                                                 *)
LEMMA LoadedKeepsPriority == LoadedAsGiven => PriorityKept
  <1> SUFFICES ASSUME LoadedAsGiven, phase = "loaded", NEW s \in Setting,
                      Readable(s),
                      s \notin Preset(command) \/ (s \in DOMAIN sources.flags /\ s \notin Responses),
                      ~(s = "allow_fallbacks" /\ s \in DOMAIN sources.flags),
                      ~(s = "host" /\ command = "launch")
               PROVE  config[s] = Promised(s)
    BY DEF PriorityKept
  <1> DEFINE opts == Options(command, sources.flags)
  <1>1. sources \in Sources /\ command = sources.command
    BY DEF LoadedAsGiven
  <1>2. config[s] = Layers(sources.file, sources.env, opts)[s]
    BY LoadedLayers DEF LoadedAsGiven
  <1>3. s \in DOMAIN opts <=> s \in DOMAIN sources.flags
    BY OptionsGiven, NoFallbacksLost
  <1>4. s \in DOMAIN sources.flags => opts[s] = sources.flags[s]
    BY OptionsGiven
  <1> HIDE DEF opts
  <1>5. CASE s \in Responses
    <2>1. s \notin DOMAIN sources.flags /\ s \notin DOMAIN sources.env
      BY <1>1, <1>5, ResponsesGiven
    <2>2. s = "enable_responses"
      BY <1>5 DEF Responses
    <2>3. config[s] = ResponsesOf(sources.file, opts)
      BY <1>2, <1>5 DEF Layers
    <2>4. Default[s] = "default"
      BY <2>2 DEF Default, PolicyField
    <2> QED
      BY <1>3, <2>1, <2>2, <2>3, <2>4 DEF ResponsesOf, Promised
  <1>6. CASE s \notin Responses
    <2>1. config[s] = IF Gives(opts, s) THEN ValueOf(opts, s)
                      ELSE IF Gives(sources.env, s) THEN ValueOf(sources.env, s)
                      ELSE IF s \in DOMAIN sources.file THEN sources.file[s]
                      ELSE Default[s]
      BY <1>2, <1>6 DEF Layers
    <2>2. CASE s \in DOMAIN sources.flags
      <3>1. opts[s] = sources.flags[s] /\ s \in DOMAIN opts /\ sources.flags[s] \in {"one", "two"}
        BY <1>3, <1>4, <2>2 DEF Readable
      <3>2. Gives(opts, s) /\ ValueOf(opts, s) = sources.flags[s]
        BY <3>1, LayerCounts
      <3> QED
        BY <2>1, <2>2, <3>2 DEF Promised
    <2>3. CASE s \notin DOMAIN sources.flags
      <3>1. ~Gives(opts, s)
        BY <1>3, <2>3 DEF Gives
      <3>2. CASE s \in DOMAIN sources.env
        <4>1. sources.env[s] \in {"one", "two"}
          BY <3>2 DEF Readable
        <4>2. Gives(sources.env, s) /\ ValueOf(sources.env, s) = sources.env[s]
          BY <3>2, <4>1, LayerCounts
        <4> QED
          BY <2>1, <2>3, <3>1, <3>2, <4>2 DEF Promised
      <3>3. CASE s \notin DOMAIN sources.env
        <4>1. ~Gives(sources.env, s)
          BY <3>3 DEF Gives
        <4> QED
          BY <2>1, <2>3, <3>1, <3>3, <4>1 DEF Promised
      <3> QED
        BY <3>2, <3>3
    <2> QED
      BY <2>2, <2>3
  <1> QED
    BY <1>5, <1>6

(* The configuration is made once, and nothing touches it or what it was   *)
(* made of until the server starts.                                        *)
LEMMA NextLoaded == LoadedAsGiven /\ [GatewayNext]_gatewayVars => LoadedAsGiven'
  <1> SUFFICES ASSUME LoadedAsGiven, [GatewayNext]_gatewayVars PROVE LoadedAsGiven'
    OBVIOUS
  <1>1. CASE Configure
    BY <1>1 DEF Configure, LoadedAsGiven
  <1>2. CASE Diagnose \/ Serve \/ Attempt \/ Listening \/ InUse \/ CannotListen \/ NoFreePort
    BY <1>2 DEF Diagnose, Serve, Attempt, Listening, InUse, CannotListen, NoFreePort, LoadedAsGiven
  <1>3. CASE Signal \/ LeaseEnds \/ Closed
    BY <1>3 DEF Signal, LeaseEnds, Closed, LoadedAsGiven
  <1>4. CASE (\E r \in Requests, active \in BOOLEAN : Arrive(r, active)) \/ Done \/ TabStep
             \/ UNCHANGED gatewayVars
    <2>1. UNCHANGED process
      BY <1>4 DEF Arrive, Done, TabStep, gatewayVars
    <2> QED
      BY <2>1 DEF process, LoadedAsGiven
  <1> QED
    BY <1>1, <1>2, <1>3, <1>4 DEF GatewayNext

(* For every file, environment and flags: a setting whose flag the command *)
(* does not preset is what the flag the user gave says, else the           *)
(* environment, else the file, else the default.                           *)
THEOREM PriorityIsKept == GatewaySpec => []PriorityKept
  <1>1. GatewayInit => LoadedAsGiven
    BY DEF GatewayInit, LoadedAsGiven
  <1> QED
    BY <1>1, NextLoaded, LoadedKeepsPriority, PTL DEF GatewaySpec
=============================================================================
