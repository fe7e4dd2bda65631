--------------------------- MODULE LauncherLease ---------------------------
(***************************************************************************)
(* The lease that keeps a launched process alive while a browser tab is    *)
(* open (launcher.ts), with the tabs that hold it (ui/src/main.tsx): a tab *)
(* acquires the lease when its page loads, repeats that every five         *)
(* seconds, and releases it when the page goes.  The messages are          *)
(* independent HTTP calls: each may be lost, and they may overtake each    *)
(* other.  A reload releases and acquires under the same client id.        *)
(*                                                                         *)
(* Calls without the token or with an ill-formed client id change nothing  *)
(* and are left out.                                                       *)
(***************************************************************************)
EXTENDS Naturals

CONSTANTS
    Tab,        \* browser tabs, each with a client id of its own
    MaxLosses   \* bound on lost calls

ASSUME LeaseAssumption == MaxLosses \in Nat

VARIABLES
    clients,    \* LauncherLease.clients
    startup,    \* startupTimer is armed
    grace,      \* graceTimer is armed
    closed,     \* LauncherLease.closed
    exits,      \* calls of onExit: at most one, though both timers may be armed
    page,       \* tabs whose page is shown
    sent,       \* lease calls under way
    losses

vars == <<clients, startup, grace, closed, exits, page, sent, losses>>

Call == [tab : Tab, action : {"acquire", "heartbeat", "release"}]

TypeOK ==
    /\ clients \in SUBSET Tab
    /\ startup \in BOOLEAN
    /\ grace \in BOOLEAN
    /\ closed \in BOOLEAN
    /\ exits \in {0, 1}
    /\ page \in SUBSET Tab
    /\ sent \in SUBSET Call
    /\ losses \in 0 .. MaxLosses

Init ==
    /\ clients = {}
    /\ startup = TRUE
    /\ grace = FALSE
    /\ closed = FALSE
    /\ exits = 0
    /\ page = {}
    /\ sent = {}
    /\ losses = 0

lease == <<clients, startup, grace, closed, exits>>

Send(t, action) == sent' = sent \cup {[tab |-> t, action |-> action]}

(* The page starts while the server still serves it. *)
Load(t) ==
    /\ ~closed
    /\ t \notin page
    /\ page' = page \cup {t}
    /\ Send(t, "acquire")
    /\ UNCHANGED <<lease, losses>>

Heartbeat(t) ==
    /\ t \in page
    /\ Send(t, "heartbeat")
    /\ UNCHANGED <<lease, page, losses>>

Leave(t) ==
    /\ t \in page
    /\ page' = page \ {t}
    /\ Send(t, "release")
    /\ UNCHANGED <<lease, losses>>

Lose(m) ==
    /\ m \in sent
    /\ losses < MaxLosses
    /\ losses' = losses + 1
    /\ sent' = sent \ {m}
    /\ UNCHANGED <<lease, page>>

(* Mutant of Hold: the grace period runs on. *)
HoldWithoutRescue(t) ==
    /\ clients' = clients \cup {t}
    /\ startup' = FALSE
    /\ UNCHANGED grace

(* acquire and heartbeat are one case: either timer is cleared. *)
Hold(t) ==
    /\ clients' = clients \cup {t}
    /\ startup' = FALSE
    /\ grace' = FALSE

(* scheduleGracefulExit leaves a timer that is armed already. *)
Release(t) ==
    /\ clients' = clients \ {t}
    /\ grace' = (grace \/ clients' = {})
    /\ UNCHANGED startup

(* handle: after close or exit every call is refused. *)
Handle(m) ==
    /\ m \in sent
    /\ sent' = sent \ {m}
    /\ IF closed THEN UNCHANGED <<clients, startup, grace>>
       ELSE IF m.action = "release" THEN Release(m.tab) ELSE Hold(m.tab)
    /\ UNCHANGED <<closed, exits, page, losses>>

(* exit: only once; the timer that fired and the other one are cleared. *)
Exit ==
    /\ closed' = TRUE
    /\ exits' = IF closed THEN exits ELSE exits + 1
    /\ UNCHANGED <<clients, page, sent, losses>>

(* Mutant of StartupExpires: waits for a tab to have come. *)
StartupExpiresLate ==
    /\ startup
    /\ \E m \in sent : m.action = "acquire"
    /\ startup' = FALSE
    /\ grace' = FALSE
    /\ Exit

StartupExpires ==
    /\ startup
    /\ startup' = FALSE
    /\ grace' = FALSE
    /\ Exit

GraceExpires ==
    /\ grace
    /\ grace' = FALSE
    /\ startup' = FALSE
    /\ Exit

(* close, from the server's close event. *)
Close ==
    /\ closed' = TRUE
    /\ startup' = FALSE
    /\ grace' = FALSE
    /\ clients' = {}
    /\ UNCHANGED <<exits, page, sent, losses>>

Next ==
    \/ \E t \in Tab : Load(t)
    \/ \E t \in Tab : Heartbeat(t)
    \/ \E t \in Tab : Leave(t)
    \/ \E m \in sent : Lose(m)
    \/ \E m \in sent : Handle(m)
    \/ StartupExpires
    \/ GraceExpires
    \/ Close

(* A timer that stays armed fires. *)
Spec == Init /\ [][Next]_vars /\ WF_vars(StartupExpires) /\ WF_vars(GraceExpires)
-----------------------------------------------------------------------------
(* The process exits by itself only when no tab holds the lease, however   *)
(* the calls of tabs that load, reload and leave are ordered.              *)
ExitOnlyWhenEmpty == exits > 0 => clients = {}

(* While no tab holds the lease the process is always on its way out.      *)
LeavingWhenEmpty == ~closed /\ clients = {} => startup \/ grace

=============================================================================
