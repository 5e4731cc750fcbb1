---------------------------- MODULE DesktopTabs ----------------------------
(***************************************************************************)
(* The tab bar: the session store of the web view                          *)
(* (src/stores/sessionsStore.ts), the effects that keep the screen in step *)
(* with it (src/app/App.tsx) and the command a tab is opened with          *)
(* (launch_session in src-tauri/src/commands/rdp.rs), over the session     *)
(* manager, of which this module keeps what SessionTable promises.         *)
(*                                                                         *)
(* The store is JavaScript: one handler runs at a time, up to its await.   *)
(* What it asks of the back end runs on runtime threads, in any order, and *)
(* answers later.  One action is one handler, or one stretch of            *)
(* launch_session between two of its awaits or two manager commands.       *)
(***************************************************************************)
EXTENDS Naturals, FiniteSets

CONSTANTS
  Keys,                   \* device keys
  Slots,                  \* launch_session calls in flight at one time: a bound
  NONE,                   \* no key
  MAX_SESSION_RECONNECTS, \* automatic attempts in a row
  MaxTimers,              \* a bound: the user starts no launch of a key that has
                          \* as many reconnect timers
  Orderly                 \* TRUE: the screen is moved by one thing at a time, a
                          \* key is launched by one call at a time, and every
                          \* launch answers within LAUNCH_IPC_TIMEOUT_MS

ASSUME DesktopTabsAssumption ==
  /\ NONE \notin Keys
  /\ MAX_SESSION_RECONNECTS \in Nat
  /\ MaxTimers \in Nat
  /\ Orderly \in BOOLEAN

VARIABLES
  tab,        \* sessions[id]: phase, retries, retryPending; "closed": no such tab
  activeId,   \* the tab in front, NONE for the overview
  timers,     \* reconnect timers that have not fired
  wizard,     \* a wizard screen is up
  launch,     \* the launch_session calls
  calls,      \* focus_session and close_session calls in flight
  poll,       \* the answer to a status poll on its way, or NoPoll
  backend,    \* the manager's session under each key
  screen      \* the manager's focused key

store == <<tab, activeId, timers, wizard>>
manager == <<backend, screen>>
vars == <<store, launch, calls, poll, manager>>

Phases == {"closed", "launching", "running", "ready", "error"}
Tab == [phase : Phases, retries : 0..MAX_SESSION_RECONNECTS, retryPending : BOOLEAN]
NoTab == [phase |-> "closed", retries |-> 0, retryPending |-> FALSE]
Fresh(p) == [phase |-> p, retries |-> 0, retryPending |-> FALSE]
Open(k) == tab[k].phase # "closed"

\* "blank": the transport runs, no desktop has been drawn; "exited": ended
\* cleanly; "failed": ended with an error.
Backends == {"notRunning", "blank", "usable", "exited", "failed"}
Running(k) == backend[k] \in {"blank", "usable"}

\* Where a launch_session call is; the last line is its answer.
Stages == {"begin", "prepare", "install", "wait", "repair", "reinstall",
           "rewait", "show"}
Answers == {"ok", "unreachable", "password", "other"}
NoLaunch == [at |-> "free", key |-> NONE, by |-> "tab", awaited |-> FALSE]
Callers == {"tab", "timer", "wizard"}
Launch == [at : Stages \cup Answers, key : Keys, by : Callers,
           awaited : BOOLEAN] \cup {NoLaunch}

Calls == [op : {"focus"}, key : Keys \cup {NONE}] \cup [op : {"close"}, key : Keys]
Focus(k) == [op |-> "focus", key |-> k]
Close(k) == [op |-> "close", key |-> k]

\* A poll's answer: what the status command saw for the tabs there were.
Statuses == {"unasked", "running", "ended", "failed"}
NoPoll == [k \in Keys |-> "unasked"]

InFlight(c) == launch[c].at # "free"
\* focus_on_launch: only a reconnect timer launches in the background.
Focused(c) == InFlight(c) /\ launch[c].by # "timer"

Call(k, who) ==
  \E c \in Slots :
    /\ ~InFlight(c)
    /\ launch' = [launch EXCEPT ![c] = [at |-> "begin", key |-> k, by |-> who,
                                       awaited |-> TRUE]]

Init ==
  /\ tab = [k \in Keys |-> NoTab]
  /\ activeId = NONE
  /\ timers = [k \in Keys |-> 0]
  /\ wizard = FALSE
  /\ launch = [c \in Slots |-> NoLaunch]
  /\ calls = {}
  /\ poll = NoPoll
  /\ backend = [k \in Keys |-> "notRunning"]
  /\ screen = NONE

\* What Orderly asks of whoever moves the screen, the answer of a launch of C
\* excepted, and of whoever launches k.
Undisturbed(C) ==
  Orderly => calls = {} /\ \A c \in Slots \ C : Focused(c) => launch[c].by = "wizard"
Alone(k) == Orderly => \A c \in Slots : InFlight(c) => launch[c].key # k

Reply(C, new) ==
  /\ new # {} => Undisturbed(C)
  /\ calls' = calls \cup new
Send(new) == Reply({}, new)

\* patch(id, partial) leaves a closed tab closed.
Patched(s, t) == IF s.phase = "closed" THEN s ELSE t

\* A call about the front tab only.
IfActive(k, new) == IF activeId = k THEN new ELSE {}

-----------------------------------------------------------------------------
(* scheduleReconnect: what it makes of the tab, whether it sets a timer,    *)
(* whether it hides the desktop of the front tab.                           *)

Untroubled(s) == s.phase = "closed" \/ s.retryPending
Capped(s) == s.retries >= MAX_SESSION_RECONNECTS

\* Mutant: at the cap the tab is left as it is.
RescheduledLeftSpinning(s) ==
  IF Untroubled(s) \/ Capped(s) THEN s
  ELSE [phase |-> "launching", retries |-> s.retries + 1, retryPending |-> TRUE]

Rescheduled(s) ==
  IF Untroubled(s) THEN s
  ELSE IF Capped(s) THEN [s EXCEPT !.phase = "error", !.retryPending = FALSE]
  ELSE [phase |-> "launching", retries |-> s.retries + 1, retryPending |-> TRUE]

SetsTimer(s) == ~Untroubled(s) /\ ~Capped(s)

TimersAfter(k, s) == IF SetsTimer(s) THEN timers[k] + 1 ELSE timers[k]

-----------------------------------------------------------------------------
(* The user's actions on the tab bar.                                       *)

\* focusTab on a tab that runs or is being launched.
SwitchTo(k) ==
  /\ tab[k].phase \in {"running", "launching"}
  /\ activeId' = k
  /\ Send({Focus(k)})
  /\ UNCHANGED <<tab, timers, wizard, launch, poll, manager>>

\* focusTab on a tab that ended or failed: relaunch, Focused.
Reopen(k) ==
  /\ tab[k].phase \in {"ready", "error"}
  /\ timers[k] < MaxTimers
  /\ Undisturbed({})
  /\ Alone(k)
  /\ tab' = [tab EXCEPT ![k] = Fresh("launching")]
  /\ Call(k, "tab")
  /\ UNCHANGED <<activeId, timers, wizard, calls, poll, manager>>

ShowOverview ==
  /\ activeId' = NONE
  /\ Send({Focus(NONE)})
  /\ UNCHANGED <<tab, timers, wizard, launch, poll, manager>>

\* closeTab: the next running tab (any: the tab order is left out) comes to the
\* front, or the overview.
NextInFront(k) ==
  LET next == {n \in Keys \ {k} : tab[n].phase = "running"}
  IN IF next = {} THEN {NONE} ELSE next

CloseTab(k) ==
  /\ Open(k)
  /\ Alone(k)
  /\ tab' = [tab EXCEPT ![k] = NoTab]
  /\ IF activeId # k
     THEN Send({Close(k)}) /\ UNCHANGED activeId
     ELSE \E n \in NextInFront(k) : activeId' = n /\ Send({Close(k), Focus(n)})
  /\ UNCHANGED <<timers, wizard, launch, poll, manager>>

-----------------------------------------------------------------------------
(* The wizard, as far as the tabs see it: it hides the desktops, launches   *)
(* one, and hands it over (register, then the effects of App.tsx).          *)

WizardLaunch(k) ==
  /\ ~wizard
  /\ timers[k] < MaxTimers
  /\ Alone(k)
  /\ wizard' = TRUE
  /\ Call(k, "wizard")
  /\ Send({Focus(NONE)})
  /\ UNCHANGED <<tab, activeId, timers, poll, manager>>

WizardAnswered(c, a) ==
  /\ launch[c].by = "wizard"
  /\ launch[c].at = a
  /\ launch' = [launch EXCEPT ![c] = NoLaunch]
  /\ UNCHANGED <<timers, poll, manager>>

WizardOpened(c) ==
  LET k == launch[c].key IN
  /\ WizardAnswered(c, "ok")
  /\ wizard' = FALSE
  /\ tab' = [tab EXCEPT ![k] = Fresh("running")]
  /\ activeId' = k
  /\ Reply({c}, {Focus(k)})

WizardFailed(c) ==
  /\ \E a \in Answers \ {"ok"} : WizardAnswered(c, a)
  /\ Reply({c}, {Focus(NONE)})
  /\ UNCHANGED <<tab, activeId, wizard>>

\* Back to idle: the front tab is shown again if it runs.
WizardLeave ==
  /\ wizard
  /\ \A c \in Slots : InFlight(c) => launch[c].by # "wizard"
  /\ wizard' = FALSE
  /\ Send({Focus(IF activeId # NONE /\ tab[activeId].phase = "running"
                 THEN activeId ELSE NONE)})
  /\ UNCHANGED <<tab, activeId, timers, launch, poll, manager>>

-----------------------------------------------------------------------------
(* Reconnect timers and the answers to the store's launches.                *)

\* Skipped when the wizard opened a fresh desktop meanwhile, or the tab is gone.
\* Mutant: that the tab exists is not looked at.
StillWantedUnchecked(k) == tab[k].retryPending \/ tab[k].phase # "running"

StillWanted(k) ==
  Open(k) /\ (tab[k].retryPending \/ tab[k].phase # "running")

TimerRelaunches(k) ==
  /\ timers[k] > 0
  /\ StillWanted(k)
  /\ Alone(k)
  /\ timers' = [timers EXCEPT ![k] = @ - 1]
  /\ tab' = [tab EXCEPT ![k] = Patched(@, [@ EXCEPT !.phase = "launching"])]
  /\ Call(k, "timer")
  /\ UNCHANGED <<activeId, wizard, calls, poll, manager>>

TimerSkips(k) ==
  /\ timers[k] > 0
  /\ ~StillWanted(k)
  /\ timers' = [timers EXCEPT ![k] = @ - 1]
  /\ UNCHANGED <<tab, activeId, wizard, launch, calls, poll, manager>>

\* A call of the store still waited for.
OfStore(c) == launch[c].by # "wizard" /\ launch[c].awaited

Answered(c, a) ==
  /\ OfStore(c)
  /\ launch[c].at = a
  /\ launch' = [launch EXCEPT ![c] = NoLaunch]
  /\ UNCHANGED <<wizard, poll, manager>>

\* Mutant: a reconnect takes the front, and trusts the desktop to be there.
OpenedStealsFront(c) ==
  LET k == launch[c].key IN
  /\ Answered(c, "ok")
  /\ tab' = [tab EXCEPT ![k] = Patched(@, Fresh("running"))]
  /\ activeId' = k
  /\ UNCHANGED <<timers, calls>>

Opened(c) ==
  LET k == launch[c].key IN
  /\ Answered(c, "ok")
  /\ tab' = [tab EXCEPT ![k] = Patched(@, Fresh("running"))]
  /\ activeId' = IF Focused(c) THEN k ELSE activeId
  /\ IF Focused(c) THEN UNCHANGED calls
     ELSE Reply({c}, IfActive(k, {Focus(k)}))
  /\ UNCHANGED timers

\* The device is out of reach: the chain of attempts goes on.
Unreachable(c) ==
  LET k == launch[c].key
      s == [tab[k] EXCEPT !.retryPending = FALSE]
  IN /\ Answered(c, "unreachable")
     /\ tab' = [tab EXCEPT ![k] = Rescheduled(s)]
     /\ timers' = [timers EXCEPT ![k] = TimersAfter(k, s)]
     /\ Reply({c}, IF Untroubled(s) THEN {} ELSE IfActive(k, {Focus(NONE)}))
     /\ UNCHANGED activeId

Failed(s) == Patched(s, [s EXCEPT !.phase = "error", !.retryPending = FALSE])

Refused(c) ==
  /\ Answered(c, "other")
  /\ tab' = [tab EXCEPT ![launch[c].key] = Failed(@)]
  /\ UNCHANGED <<activeId, timers, calls>>

PasswordMissing(c) ==
  /\ Answered(c, "password")
  /\ tab' = [tab EXCEPT ![launch[c].key] = Failed(@)]
  /\ activeId' = NONE
  /\ Reply({c}, {Focus(NONE)})
  /\ UNCHANGED timers

\* Mutant: the store waits as long as the call takes (KI-041).
HardTimeoutNever(c) == OfStore(c) /\ FALSE

\* withHardTimeout: the store stops waiting, the call goes on.
HardTimeout(c) ==
  /\ ~Orderly
  /\ OfStore(c)
  /\ launch[c].at \in Stages
  /\ tab' = [tab EXCEPT ![launch[c].key] = Failed(@)]
  /\ launch' = [launch EXCEPT ![c].awaited = FALSE]
  /\ UNCHANGED <<activeId, timers, wizard, calls, poll, manager>>

\* Its answer is heard by nobody.
Unheard(c) ==
  /\ launch[c].at \in Answers
  /\ ~launch[c].awaited
  /\ launch' = [launch EXCEPT ![c] = NoLaunch]
  /\ UNCHANGED <<store, calls, poll, manager>>

-----------------------------------------------------------------------------
(* pollStatuses: the status command sees the back end at one moment, the    *)
(* store reads the answer at another.                                       *)

\* A session that ended cleanly and one the back end lost are treated alike.
Status(k) ==
  IF Running(k) THEN "running" ELSE IF backend[k] = "failed" THEN "failed" ELSE "ended"

PollRead ==
  /\ poll = NoPoll
  /\ \E k \in Keys : Open(k)
  /\ poll' = [k \in Keys |-> IF Open(k) THEN Status(k) ELSE "unasked"]
  /\ UNCHANGED <<store, launch, calls, manager>>

Heard(k) == poll[k] # "unasked" /\ ~Untroubled(tab[k])

\* Mutant: only the front tab's end is noticed.
EndedCleanInFront(k) ==
  /\ Heard(k)
  /\ activeId = k
  /\ poll[k] = "ended"
  /\ tab[k].phase \in {"running", "launching"}

EndedClean(k) ==
  /\ Heard(k)
  /\ poll[k] = "ended"
  /\ tab[k].phase \in {"running", "launching"}
EndedBadly(k) == Heard(k) /\ poll[k] = "failed"

Polled(k) ==
  IF EndedClean(k) THEN Fresh("ready")
  ELSE IF EndedBadly(k) THEN Rescheduled(tab[k])
  ELSE IF Heard(k) /\ poll[k] = "running" THEN Fresh("running")
  ELSE tab[k]

PollAnswered ==
  /\ poll # NoPoll
  /\ poll' = NoPoll
  /\ tab' = [k \in Keys |-> Polled(k)]
  /\ timers' = [k \in Keys |-> IF EndedBadly(k) THEN TimersAfter(k, tab[k]) ELSE timers[k]]
  /\ activeId' = IF activeId # NONE /\ EndedClean(activeId) THEN NONE ELSE activeId
  /\ Send(IF activeId # NONE /\ (EndedClean(activeId) \/ EndedBadly(activeId))
          THEN {Focus(NONE)} ELSE {})
  /\ UNCHANGED <<wizard, launch, manager>>

-----------------------------------------------------------------------------
(* focus_session and close_session.                                         *)

\* Mutant: the session is not asked for.
RunFocusUnchecked(k) ==
  /\ Focus(k) \in calls
  /\ calls' = calls \ {Focus(k)}
  /\ screen' = k
  /\ UNCHANGED <<store, launch, poll, backend>>

RunFocus(k) ==
  /\ Focus(k) \in calls
  /\ calls' = calls \ {Focus(k)}
  /\ screen' = IF k = NONE \/ Running(k) THEN k ELSE screen
  /\ UNCHANGED <<store, launch, poll, backend>>

\* What close_keyed, and a launch about to replace the session, do at once.
Withdraw(k) ==
  /\ backend' = [backend EXCEPT ![k] = "notRunning"]
  /\ screen' = IF screen = k THEN NONE ELSE screen

RunClose(k) ==
  /\ Close(k) \in calls
  /\ calls' = calls \ {Close(k)}
  /\ Withdraw(k)
  /\ UNCHANGED <<store, launch, poll>>

-----------------------------------------------------------------------------
(* launch_session.                                                          *)

At(c, s) == launch[c].at = s
Go(c, s) ==
  /\ launch' = [launch EXCEPT ![c].at = s]
  /\ UNCHANGED <<store, calls, poll>>

\* The desktop is there: a Focused launch shows it, a Background one is done.
Done(c) == IF Focused(c) THEN "show" ELSE "ok"

LaunchBegin(c) ==
  /\ At(c, "begin")
  /\ Go(c, IF backend[launch[c].key] = "usable" THEN Done(c) ELSE "prepare")
  /\ UNCHANGED manager

\* prepare_request: password and tunnel.
LaunchPrepareFails(c) ==
  /\ At(c, "prepare")
  /\ \E a \in Answers \ {"ok"} : Go(c, a)
  /\ UNCHANGED manager

\* The predecessor is closed if it runs, and leaves the map in any case.
LaunchPrepared(c) ==
  /\ At(c, "prepare")
  /\ Go(c, "install")
  /\ Withdraw(launch[c].key)

Installing(c) == At(c, "install") \/ At(c, "reinstall")

LaunchInstall(c) ==
  /\ Installing(c)
  /\ Go(c, IF At(c, "install") THEN "wait" ELSE "rewait")
  /\ backend' = [backend EXCEPT ![launch[c].key] = "blank"]
  /\ UNCHANGED screen

LaunchCreateFails(c) ==
  /\ Installing(c)
  /\ Go(c, "other")
  /\ UNCHANGED manager

\* wait_for_usable_desktop asks for a frame first: a session that drew one and
\* ended passes for usable.
LaunchUsable(c) ==
  /\ At(c, "wait") \/ At(c, "rewait")
  /\ backend[launch[c].key] \in {"usable", "exited", "failed"}
  /\ Go(c, Done(c))
  /\ UNCHANGED manager

\* The session ended or the time is up: it is closed.
LaunchUnusable(c) ==
  /\ At(c, "wait") \/ At(c, "rewait")
  /\ backend[launch[c].key] # "usable"
  /\ Go(c, IF At(c, "wait") THEN "repair" ELSE "unreachable")
  /\ Withdraw(launch[c].key)

LaunchRepairFails(c) ==
  /\ At(c, "repair")
  /\ Go(c, "other")
  /\ UNCHANGED manager

LaunchRepaired(c) ==
  /\ At(c, "repair")
  /\ Go(c, "reinstall")
  /\ Withdraw(launch[c].key)

LaunchShow(c) ==
  LET k == launch[c].key IN
  /\ At(c, "show")
  /\ Go(c, IF screen = k \/ Running(k) THEN "ok" ELSE "other")
  /\ screen' = IF Running(k) THEN k ELSE screen
  /\ UNCHANGED backend

LaunchStep(c) ==
  \/ LaunchBegin(c) \/ LaunchPrepareFails(c) \/ LaunchPrepared(c)
  \/ LaunchInstall(c) \/ LaunchCreateFails(c) \/ LaunchUsable(c)
  \/ LaunchUnusable(c) \/ LaunchRepairFails(c) \/ LaunchRepaired(c) \/ LaunchShow(c)

-----------------------------------------------------------------------------
(* The device: a desktop is drawn, a session ends.                          *)

Frame(k) ==
  /\ backend[k] = "blank"
  /\ backend' = [backend EXCEPT ![k] = "usable"]
  /\ UNCHANGED <<store, launch, calls, poll, screen>>

Exit(k) ==
  /\ Running(k)
  /\ \E e \in {"exited", "failed"} : backend' = [backend EXCEPT ![k] = e]
  /\ UNCHANGED <<store, launch, calls, poll, screen>>

User == ShowOverview \/ \E k \in Keys : SwitchTo(k) \/ Reopen(k) \/ CloseTab(k)
WizardNext ==
  \/ WizardLeave
  \/ \E k \in Keys : WizardLaunch(k)
  \/ \E c \in Slots : WizardOpened(c) \/ WizardFailed(c)
TimerFires(k) == TimerRelaunches(k) \/ TimerSkips(k)
Answer(c) ==
  Opened(c) \/ Unreachable(c) \/ Refused(c) \/ PasswordMissing(c) \/ HardTimeout(c)
RunCall == RunFocus(NONE) \/ \E k \in Keys : RunFocus(k) \/ RunClose(k)
Device == \E k \in Keys : Frame(k) \/ Exit(k)

Next ==
  \/ User \/ WizardNext \/ PollRead \/ PollAnswered \/ RunCall \/ Device
  \/ \E k \in Keys : TimerFires(k)
  \/ \E c \in Slots : Answer(c) \/ Unheard(c) \/ LaunchStep(c)

Spec == Init /\ [][Next]_vars

(* The browser goes on: timers fire, polls and answers arrive.  A call the  *)
(* store has given up ends some day, and so does the wizard's; one that the *)
(* store waits for owes nothing.  The bound on calls in flight may turn a   *)
(* timer away now and then, hence the strong fairness.                      *)
FairSpec ==
  /\ Spec
  /\ WF_vars(PollRead) /\ WF_vars(PollAnswered)
  /\ \A k \in Keys : SF_vars(TimerFires(k))
  /\ \A c \in Slots :
       /\ WF_vars(Answer(c))
       /\ WF_vars(Unheard(c) \/ (~OfStore(c) /\ LaunchStep(c)))
       /\ WF_vars(WizardOpened(c) \/ WizardFailed(c))

-----------------------------------------------------------------------------
TypeOK ==
  /\ tab \in [Keys -> Tab]
  /\ activeId \in Keys \cup {NONE}
  /\ timers \in [Keys -> Nat]
  /\ wizard \in BOOLEAN
  /\ launch \in [Slots -> Launch]
  /\ calls \subseteq Calls
  /\ poll \in [Keys -> Statuses]
  /\ backend \in [Keys -> Backends]
  /\ screen \in Keys \cup {NONE}

AwaitedFor(k) == \E c \in Slots : OfStore(c) /\ InFlight(c) /\ launch[c].key = k

\* A tab that says it is connecting (KI-041, "spins for ever") has something
\* behind it: a reconnect timer, or a launch the store still waits for.  Calls
\* given up, polls that answer late, timers of an earlier tab of the key and the
\* wizard's hand-over all write the same fields.
LaunchingIsBacked ==
  \A k \in Keys : tab[k].phase = "launching" => timers[k] > 0 \/ AwaitedFor(k)

\* retryPending is only set while the tab is launching: pollStatuses skips such
\* a tab, and one that is skipped in any other phase would stay so for ever.
PendingIsLaunching ==
  \A k \in Keys : tab[k].retryPending => tab[k].phase = "launching"

TabsInv == TypeOK /\ LaunchingIsBacked /\ PendingIsLaunching

Quiet == calls = {} /\ \A c \in Slots : ~InFlight(c)

\* With nothing in flight the overview is not covered by a desktop (KI-035), and
\* a front tab that runs is the desktop on screen (App.tsx, native-view
\* convergence), whatever reconnects, ends, or is closed in the background.
ScreenFollowsTabs ==
  Quiet /\ ~wizard =>
    /\ activeId = NONE => screen = NONE
    /\ activeId # NONE /\ tab[activeId].phase = "running" /\ Running(activeId)
         => screen = activeId

\* With nothing in flight the front tab exists, and no session runs that has no
\* tab to close it: a closed tab's timer does not bring its device back.
TabsOwnSessions ==
  Quiet /\ ~wizard =>
    /\ activeId # NONE => Open(activeId)
    /\ \A k \in Keys : Running(k) => Open(k)

\* What this module lets the manager do is what SessionTable promises.
Manager == INSTANCE SessionTable WITH
  status <- [k \in Keys |-> IF Running(k) THEN "running"
                            ELSE IF backend[k] = "notRunning" THEN "notRunning"
                            ELSE "exited"],
  front <- screen
UsesSessionTable == Manager!Spec

\* A reconnecting tab does not reconnect for ever: the chain is bounded, and a
\* launch that never answers is given up.
TabSettles == \A k \in Keys : tab[k].phase = "launching" ~> tab[k].phase # "launching"

\* A desktop that ended, or that the back end lost, does not keep its tab in
\* "running".
EndIsNoticed ==
  \A k \in Keys : (tab[k].phase = "running" /\ ~Running(k))
                     ~> (tab[k].phase # "running" \/ Running(k))
=============================================================================
