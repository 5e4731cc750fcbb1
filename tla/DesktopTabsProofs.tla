------------------------- MODULE DesktopTabsProofs -------------------------
(***************************************************************************)
(* Proofs about DesktopTabs, for every number of devices, calls, timers    *)
(* and reconnect attempts; the screen's under Orderly, the others with or  *)
(* without it.                                                             *)
(***************************************************************************)
EXTENDS DesktopTabs, TLAPS

-----------------------------------------------------------------------------
(* What the store makes of one tab.                                         *)

\* A tab the store may hold: a pending retry is a launching tab.
Sound(s) == s \in Tab /\ (s.retryPending => s.phase = "launching")

LEMMA FreshIsSound ==
  /\ Sound(NoTab)
  /\ \A p \in Phases : Sound(Fresh(p)) /\ Fresh(p).phase = p
BY DesktopTabsAssumption DEF Sound, NoTab, Fresh, Tab, Phases

\* scheduleReconnect leaves a sound tab sound, and a launching one has a timer
\* set unless nothing was done.
LEMMA RescheduledIsSound ==
  ASSUME NEW s, Sound(s)
  PROVE  /\ Sound(Rescheduled(s))
         /\ Rescheduled(s).phase = "launching" => SetsTimer(s) \/ Rescheduled(s) = s
         /\ Rescheduled(s).phase = "launching" /\ ~s.retryPending => SetsTimer(s)
<1>1. CASE Untroubled(s)
  BY <1>1 DEF Rescheduled, Untroubled, Sound, SetsTimer
<1>2. CASE ~Untroubled(s) /\ Capped(s)
  <2>1. Rescheduled(s) = [s EXCEPT !.phase = "error", !.retryPending = FALSE]
    BY <1>2 DEF Rescheduled
  <2>2. QED
    BY <2>1 DEF Sound, Tab, Phases
<1>3. CASE ~Untroubled(s) /\ ~Capped(s)
  <2>1. Rescheduled(s) = [phase |-> "launching", retries |-> s.retries + 1,
                          retryPending |-> TRUE]
    BY <1>3 DEF Rescheduled
  <2>2. s.retries + 1 \in 0..MAX_SESSION_RECONNECTS
    BY <1>3, DesktopTabsAssumption DEF Capped, Sound, Tab
  <2>3. QED
    BY <1>3, <2>1, <2>2 DEF Sound, Tab, Phases, SetsTimer
<1>4. QED
  BY <1>1, <1>2, <1>3

LEMMA FailedIsSound ==
  ASSUME NEW s, Sound(s)
  PROVE  Sound(Failed(s)) /\ Failed(s).phase # "launching"
BY DEF Sound, Failed, Patched, Tab, Phases

-----------------------------------------------------------------------------
(* The invariant.                                                           *)

LEMMA SoundTabs == TabsInv => \A k \in Keys : Sound(tab[k])
BY DEF TabsInv, TypeOK, PendingIsLaunching, Sound

\* launch_session touches no tab, no timer, and not whether it is waited for.
LEMMA LaunchStepEffect ==
  ASSUME TypeOK, NEW c \in Slots, LaunchStep(c)
  PROVE  /\ UNCHANGED <<store, calls, poll>>
         /\ \E a \in Stages \cup Answers : launch' = [launch EXCEPT ![c].at = a]
         /\ launch[c].at # "free"
         /\ backend' \in [Keys -> Backends]
         /\ screen' \in Keys \cup {NONE}
<1>1. /\ launch[c] \in Launch
      /\ launch[c].at # "free" => launch[c].key \in Keys
  BY DEF TypeOK, Launch, NoLaunch
<1>2. launch[c].at # "free"
  BY DEF LaunchStep, LaunchBegin, LaunchPrepareFails, LaunchPrepared, LaunchInstall,
     LaunchCreateFails, LaunchUsable, LaunchUnusable, LaunchRepairFails, LaunchRepaired,
     LaunchShow, Installing, At
<1>3. \A a : Go(c, a) <=> launch' = [launch EXCEPT ![c].at = a] /\ UNCHANGED <<store, calls, poll>>
  BY DEF Go
<1>4. ASSUME NEW k \in Keys, Withdraw(k)
      PROVE  backend' \in [Keys -> Backends] /\ screen' \in Keys \cup {NONE}
  BY <1>4 DEF Withdraw, TypeOK, Backends
<1>5. UNCHANGED manager => backend' \in [Keys -> Backends] /\ screen' \in Keys \cup {NONE}
  BY DEF manager, TypeOK
<1>6. Done(c) \in Stages \cup Answers
  BY DEF Done, Stages, Answers
<1>7. CASE LaunchBegin(c)
  BY <1>2, <1>3, <1>5, <1>6, <1>7 DEF LaunchBegin, Stages, Answers
<1>8. CASE LaunchPrepareFails(c)
  BY <1>2, <1>3, <1>5, <1>8 DEF LaunchPrepareFails, Stages, Answers
<1>9. CASE LaunchPrepared(c)
  BY <1>1, <1>2, <1>3, <1>4, <1>9 DEF LaunchPrepared, Stages, Answers
<1>10. CASE LaunchInstall(c)
  BY <1>1, <1>2, <1>3, <1>10 DEF LaunchInstall, Stages, Answers, TypeOK, Backends
<1>11. CASE LaunchCreateFails(c)
  BY <1>2, <1>3, <1>5, <1>11 DEF LaunchCreateFails, Stages, Answers
<1>12. CASE LaunchUsable(c)
  BY <1>2, <1>3, <1>5, <1>6, <1>12 DEF LaunchUsable
<1>13. CASE LaunchUnusable(c)
  BY <1>1, <1>2, <1>3, <1>4, <1>13 DEF LaunchUnusable, Stages, Answers
<1>14. CASE LaunchRepairFails(c)
  BY <1>2, <1>3, <1>5, <1>14 DEF LaunchRepairFails, Stages, Answers
<1>15. CASE LaunchRepaired(c)
  BY <1>1, <1>2, <1>3, <1>4, <1>15 DEF LaunchRepaired, Stages, Answers
<1>16. CASE LaunchShow(c)
  BY <1>1, <1>2, <1>3, <1>16 DEF LaunchShow, Stages, Answers, TypeOK
<1>17. QED
  BY <1>7, <1>8, <1>9, <1>10, <1>11, <1>12, <1>13, <1>14, <1>15, <1>16 DEF LaunchStep

\* Starting a call keeps the others, and the store waits for its own.
LEMMA CallEffect ==
  ASSUME TypeOK, NEW k \in Keys, NEW who \in Callers, Call(k, who)
  PROVE  /\ launch' \in [Slots -> Launch]
         /\ \A j \in Keys : AwaitedFor(j) => AwaitedFor(j)'
         /\ who # "wizard" => AwaitedFor(k)'
<1> DEFINE new == [at |-> "begin", key |-> k, by |-> who, awaited |-> TRUE]
<1>1. PICK c \in Slots : ~InFlight(c) /\ launch' = [launch EXCEPT ![c] = new]
  BY DEF Call
<1>2. new \in Launch /\ new.at # "free" /\ new.key = k /\ new.by = who /\ new.awaited
  BY DEF Launch, Stages
<1> HIDE DEF new
<1>3. launch' \in [Slots -> Launch] /\ launch'[c] = new
  BY <1>1, <1>2 DEF TypeOK
<1>4. ASSUME NEW j \in Keys, NEW d \in Slots, OfStore(d), InFlight(d), launch[d].key = j
      PROVE  AwaitedFor(j)'
  <2>1. launch'[d] = launch[d]
    BY <1>1, <1>4 DEF TypeOK
  <2>2. QED
    BY <1>4, <2>1 DEF AwaitedFor, OfStore, InFlight
<1>5. who # "wizard" => AwaitedFor(k)'
  BY <1>2, <1>3 DEF AwaitedFor, OfStore, InFlight
<1>6. QED
  BY <1>3, <1>4, <1>5 DEF AwaitedFor

\* Ending a call is noticed by its own key only, and only if the store waits.
LEMMA ReleaseEffect ==
  ASSUME TypeOK, NEW c \in Slots, launch' = [launch EXCEPT ![c] = NoLaunch]
  PROVE  /\ launch' \in [Slots -> Launch]
         /\ \A j \in Keys :
              AwaitedFor(j) => AwaitedFor(j)' \/ (OfStore(c) /\ launch[c].key = j)
<1>1. launch' \in [Slots -> Launch]
  BY DEF TypeOK, Launch
<1>2. ASSUME NEW j \in Keys, NEW d \in Slots, OfStore(d), InFlight(d), launch[d].key = j,
             ~(OfStore(c) /\ launch[c].key = j)
      PROVE  AwaitedFor(j)'
  <2>1. d # c
    BY <1>2
  <2>2. launch'[d] = launch[d]
    BY <2>1 DEF TypeOK
  <2>3. QED
    BY <1>2, <2>2 DEF AwaitedFor, OfStore, InFlight
<1>3. QED
  BY <1>1, <1>2 DEF AwaitedFor

\* Moving a call along changes nothing for those who wait.
LEMMA MoveEffect ==
  ASSUME TypeOK, NEW c \in Slots, NEW a \in Stages \cup Answers,
         launch[c].at # "free", launch' = [launch EXCEPT ![c].at = a]
  PROVE  /\ launch' \in [Slots -> Launch]
         /\ \A j \in Keys : AwaitedFor(j) => AwaitedFor(j)'
<1>1. launch[c] \in [at : Stages \cup Answers, key : Keys, by : Callers, awaited : BOOLEAN]
  BY DEF TypeOK, Launch, NoLaunch
<1>2. a # "free"
  BY DEF Stages, Answers
<1>3. /\ launch'[c] \in Launch /\ launch'[c].at = a /\ launch'[c].key = launch[c].key
      /\ launch'[c].by = launch[c].by /\ launch'[c].awaited = launch[c].awaited
      /\ \A d \in Slots \ {c} : launch'[d] = launch[d]
  BY <1>1 DEF TypeOK, Launch
<1>4. launch' \in [Slots -> Launch]
  BY <1>3 DEF TypeOK
<1>5. ASSUME NEW j \in Keys, NEW d \in Slots, OfStore(d), InFlight(d), launch[d].key = j
      PROVE  AwaitedFor(j)'
  BY <1>2, <1>3, <1>5 DEF AwaitedFor, OfStore, InFlight
<1>6. QED
  BY <1>4, <1>5 DEF AwaitedFor

-----------------------------------------------------------------------------
\* What has to be shown of a step: the types of what it changes, every tab
\* sound, every launching tab backed.
LEMMA Assemble ==
  ASSUME \A k \in Keys : Sound(tab'[k]),
         tab' = [k \in Keys |-> tab'[k]],
         activeId' \in Keys \cup {NONE}, timers' \in [Keys -> Nat], wizard' \in BOOLEAN,
         launch' \in [Slots -> Launch], calls' \subseteq Calls, poll' \in [Keys -> Statuses],
         backend' \in [Keys -> Backends], screen' \in Keys \cup {NONE},
         \A k \in Keys : tab'[k].phase = "launching" => timers'[k] > 0 \/ AwaitedFor(k)'
  PROVE  TabsInv'
<1>1. tab' \in [Keys -> Tab]
  BY DEF Sound
<1>2. QED
  BY <1>1 DEF TabsInv, TypeOK, LaunchingIsBacked, PendingIsLaunching, Sound

LEMMA InitTabs == Init => TabsInv
<1> SUFFICES ASSUME Init PROVE TabsInv
  OBVIOUS
<1>1. \A k \in Keys : tab[k] = NoTab
  BY DEF Init
<1>2. NoTab \in Tab /\ ~NoTab.retryPending /\ NoTab.phase # "launching"
  BY DesktopTabsAssumption DEF NoTab, Tab, Phases
<1>3. TypeOK
  BY <1>2 DEF Init, TypeOK, Launch, NoPoll, Statuses, Backends
<1>4. QED
  BY <1>1, <1>2, <1>3 DEF TabsInv, LaunchingIsBacked, PendingIsLaunching

LEMMA CallsOfTheStore ==
  /\ \A k \in Keys \cup {NONE} : Focus(k) \in Calls
  /\ \A k \in Keys : Close(k) \in Calls
  /\ \A C, new : TypeOK /\ new \subseteq Calls /\ Reply(C, new) => calls' \subseteq Calls
  /\ \A k, new : new \subseteq Calls => IfActive(k, new) \subseteq Calls
BY DEF Focus, Close, Calls, TypeOK, Reply, IfActive

\* A step that leaves tabs, timers and launches alone.
LEMMA FrontStep ==
  ASSUME TabsInv, UNCHANGED <<tab, timers, launch>>,
         activeId' \in Keys \cup {NONE}, wizard' \in BOOLEAN, calls' \subseteq Calls,
         poll' \in [Keys -> Statuses], backend' \in [Keys -> Backends],
         screen' \in Keys \cup {NONE}
  PROVE  TabsInv'
BY DEF TabsInv, TypeOK, LaunchingIsBacked, PendingIsLaunching, AwaitedFor, OfStore, InFlight

LEMMA UserStep ==
  ASSUME TabsInv, User
  PROVE  TabsInv'
<1> USE DEF store, manager
<1>1. TypeOK /\ \A k \in Keys : Sound(tab[k])
  BY SoundTabs DEF TabsInv
<1>2. ASSUME NEW k \in Keys, SwitchTo(k)
      PROVE  TabsInv'
  BY <1>1, <1>2, FrontStep, CallsOfTheStore DEF SwitchTo, Send, TypeOK
<1>3. CASE ShowOverview
  BY <1>1, <1>3, FrontStep, CallsOfTheStore DEF ShowOverview, Send, TypeOK
<1>4. ASSUME NEW k \in Keys, Reopen(k)
      PROVE  TabsInv'
  <2>1. "launching" \in Phases /\ Sound(Fresh("launching"))
    BY FreshIsSound DEF Phases
  <2>2. /\ tab' = [tab EXCEPT ![k] = Fresh("launching")]
        /\ Call(k, "tab")
        /\ UNCHANGED <<activeId, timers, wizard, calls, poll, backend, screen>>
    BY <1>4 DEF Reopen
  <2>3. /\ launch' \in [Slots -> Launch]
        /\ \A j \in Keys : AwaitedFor(j) => AwaitedFor(j)'
        /\ AwaitedFor(k)'
    BY <1>1, <2>2, CallEffect DEF Callers
  <2>4. \A j \in Keys : tab'[j] = IF j = k THEN Fresh("launching") ELSE tab[j]
    BY <1>1, <2>2 DEF TypeOK
  <2>5. tab' = [j \in Keys |-> tab'[j]]
    BY <1>1, <2>2 DEF TypeOK
  <2>6. \A j \in Keys : tab'[j].phase = "launching" => timers'[j] > 0 \/ AwaitedFor(j)'
    BY <2>2, <2>3, <2>4 DEF TabsInv, LaunchingIsBacked
  <2>7. \A j \in Keys : Sound(tab'[j])
    BY <1>1, <2>1, <2>4
  <2>8. QED
    BY <1>1, <2>2, <2>3, <2>5, <2>6, <2>7, Assemble DEF TypeOK
<1>5. ASSUME NEW k \in Keys, CloseTab(k)
      PROVE  TabsInv'
  <2>1. /\ tab' = [tab EXCEPT ![k] = NoTab]
        /\ UNCHANGED <<timers, wizard, launch, poll, backend, screen>>
    BY <1>5 DEF CloseTab
  <2>2. NextInFront(k) \subseteq Keys \cup {NONE}
    BY DEF NextInFront
  <2>3. activeId' \in Keys \cup {NONE} /\ calls' \subseteq Calls
    <3>1. CASE activeId # k
      BY <1>1, <1>5, <3>1, CallsOfTheStore DEF CloseTab, Send, TypeOK
    <3>2. CASE activeId = k
      <4>1. PICK n \in NextInFront(k) : activeId' = n /\ Send({Close(k), Focus(n)})
        BY <1>5, <3>2 DEF CloseTab
      <4>2. {Close(k), Focus(n)} \subseteq Calls
        BY <2>2, CallsOfTheStore
      <4>3. QED
        BY <1>1, <2>2, <4>1, <4>2, CallsOfTheStore DEF Send
    <3>3. QED
      BY <3>1, <3>2
  <2>4. \A j \in Keys : tab'[j] = IF j = k THEN NoTab ELSE tab[j]
    BY <1>1, <2>1 DEF TypeOK
  <2>5. tab' = [j \in Keys |-> tab'[j]]
    BY <1>1, <2>1 DEF TypeOK
  <2>6. \A j \in Keys : tab'[j].phase = "launching" => timers'[j] > 0 \/ AwaitedFor(j)'
    BY <2>1, <2>4 DEF TabsInv, LaunchingIsBacked, AwaitedFor, OfStore, InFlight, NoTab
  <2>7. \A j \in Keys : Sound(tab'[j])
    BY <1>1, <2>4, FreshIsSound
  <2>8. QED
    BY <1>1, <2>1, <2>3, <2>5, <2>6, <2>7, Assemble DEF TypeOK
<1>6. QED
  BY <1>2, <1>3, <1>4, <1>5 DEF User

LEMMA WizardStep ==
  ASSUME TabsInv, WizardNext
  PROVE  TabsInv'
<1> USE DEF store, manager
<1>1. TypeOK /\ \A k \in Keys : Sound(tab[k])
  BY SoundTabs DEF TabsInv
<1>2. CASE WizardLeave
  BY <1>1, <1>2, FrontStep, CallsOfTheStore DEF WizardLeave, Send, TypeOK
<1>3. ASSUME NEW k \in Keys, WizardLaunch(k)
      PROVE  TabsInv'
  <2>1. /\ wizard' = TRUE
        /\ Call(k, "wizard")
        /\ UNCHANGED <<tab, activeId, timers, poll, backend, screen>>
    BY <1>3 DEF WizardLaunch
  <2>2. calls' \subseteq Calls
    BY <1>1, <1>3, CallsOfTheStore DEF WizardLaunch, Send
  <2>3. /\ launch' \in [Slots -> Launch]
        /\ \A j \in Keys : AwaitedFor(j) => AwaitedFor(j)'
    BY <1>1, <2>1, CallEffect DEF Callers
  <2>4. tab' = [j \in Keys |-> tab'[j]]
    BY <1>1, <2>1 DEF TypeOK
  <2>5. \A j \in Keys : tab'[j].phase = "launching" => timers'[j] > 0 \/ AwaitedFor(j)'
    BY <2>1, <2>3 DEF TabsInv, LaunchingIsBacked
  <2>6. QED
    BY <1>1, <2>1, <2>2, <2>3, <2>4, <2>5, Assemble DEF TypeOK
<1>4. ASSUME NEW c \in Slots, NEW a, WizardAnswered(c, a)
      PROVE  /\ launch' \in [Slots -> Launch]
             /\ \A j \in Keys : AwaitedFor(j) => AwaitedFor(j)'
  BY <1>1, <1>4, ReleaseEffect DEF WizardAnswered, OfStore
<1>5. ASSUME NEW c \in Slots, WizardOpened(c)
      PROVE  TabsInv'
  <2> DEFINE k == launch[c].key
  <2>1. k \in Keys
    BY <1>1, <1>5 DEF WizardOpened, WizardAnswered, TypeOK, Launch, NoLaunch
  <2>2. /\ WizardAnswered(c, "ok")
        /\ wizard' = FALSE /\ activeId' = k
        /\ tab' = [tab EXCEPT ![k] = Fresh("running")]
        /\ UNCHANGED <<timers, poll, backend, screen>>
    BY <1>5 DEF WizardOpened, WizardAnswered
  <2>3. calls' \subseteq Calls
    BY <1>1, <1>5, <2>1, CallsOfTheStore DEF WizardOpened
  <2>4. \A j \in Keys : tab'[j] = IF j = k THEN Fresh("running") ELSE tab[j]
    BY <1>1, <2>1, <2>2 DEF TypeOK
  <2>5. tab' = [j \in Keys |-> tab'[j]]
    BY <1>1, <2>1, <2>2 DEF TypeOK
  <2>6. Sound(Fresh("running")) /\ Fresh("running").phase # "launching"
    BY FreshIsSound DEF Phases
  <2>7. \A j \in Keys : tab'[j].phase = "launching" => timers'[j] > 0 \/ AwaitedFor(j)'
    BY <1>4, <2>2, <2>4, <2>6 DEF TabsInv, LaunchingIsBacked
  <2>8. \A j \in Keys : Sound(tab'[j])
    BY <1>1, <2>4, <2>6
  <2> HIDE DEF k
  <2>9. QED
    BY <1>1, <1>4, <2>1, <2>2, <2>3, <2>5, <2>7, <2>8, Assemble DEF TypeOK
<1>6. ASSUME NEW c \in Slots, WizardFailed(c)
      PROVE  TabsInv'
  <2>1. PICK a \in Answers \ {"ok"} : WizardAnswered(c, a)
    BY <1>6 DEF WizardFailed
  <2>2. UNCHANGED <<tab, activeId, wizard, timers, poll, backend, screen>>
    BY <1>6, <2>1 DEF WizardFailed, WizardAnswered
  <2>3. calls' \subseteq Calls
    BY <1>1, <1>6, CallsOfTheStore DEF WizardFailed
  <2>4. tab' = [j \in Keys |-> tab'[j]]
    BY <1>1, <2>2 DEF TypeOK
  <2>5. \A j \in Keys : tab'[j].phase = "launching" => timers'[j] > 0 \/ AwaitedFor(j)'
    BY <1>4, <2>1, <2>2 DEF TabsInv, LaunchingIsBacked
  <2>6. QED
    BY <1>1, <1>4, <2>1, <2>2, <2>3, <2>4, <2>5, Assemble DEF TypeOK
<1>7. QED
  BY <1>2, <1>3, <1>5, <1>6 DEF WizardNext

\* A step that writes one tab, and starts, ends or keeps calls.
LEMMA TabStep ==
  ASSUME TabsInv, NEW k \in Keys, NEW t, Sound(t),
         tab' = [tab EXCEPT ![k] = t],
         NEW n \in Nat, timers' = [timers EXCEPT ![k] = n],
         t.phase = "launching" => n > 0 \/ AwaitedFor(k)',
         \A j \in Keys \ {k} : AwaitedFor(j) => AwaitedFor(j)',
         activeId' \in Keys \cup {NONE}, wizard' \in BOOLEAN, calls' \subseteq Calls,
         launch' \in [Slots -> Launch], poll' \in [Keys -> Statuses],
         backend' \in [Keys -> Backends], screen' \in Keys \cup {NONE}
  PROVE  TabsInv'
<1>1. TypeOK /\ \A j \in Keys : Sound(tab[j])
  BY SoundTabs DEF TabsInv
<1>2. \A j \in Keys : tab'[j] = IF j = k THEN t ELSE tab[j]
  BY <1>1 DEF TypeOK
<1>3. \A j \in Keys : timers'[j] = IF j = k THEN n ELSE timers[j]
  BY <1>1 DEF TypeOK
<1>4. tab' = [j \in Keys |-> tab'[j]] /\ timers' \in [Keys -> Nat]
  BY <1>1 DEF TypeOK
<1>5. \A j \in Keys : tab'[j].phase = "launching" => timers'[j] > 0 \/ AwaitedFor(j)'
  BY <1>2, <1>3 DEF TabsInv, LaunchingIsBacked
<1>6. \A j \in Keys : Sound(tab'[j])
  BY <1>1, <1>2
<1>7. QED
  BY <1>4, <1>5, <1>6, Assemble

LEMMA TimerStep ==
  ASSUME TabsInv, NEW k \in Keys, TimerFires(k)
  PROVE  TabsInv'
<1> USE DEF store, manager
<1>1. TypeOK /\ Sound(tab[k]) /\ timers[k] \in Nat
  BY SoundTabs DEF TabsInv, TypeOK
<1>2. timers[k] > 0 /\ timers[k] - 1 \in Nat
  BY <1>1 DEF TimerFires, TimerRelaunches, TimerSkips
<1>3. timers' = [timers EXCEPT ![k] = timers[k] - 1]
  BY DEF TimerFires, TimerRelaunches, TimerSkips
<1>4. CASE TimerRelaunches(k)
  <2> DEFINE t == [tab[k] EXCEPT !.phase = "launching"]
  <2>1. Open(k) /\ Patched(tab[k], t) = t
    BY <1>4 DEF TimerRelaunches, StillWanted, Open, Patched
  <2>2. tab' = [tab EXCEPT ![k] = t]
    BY <1>4, <2>1 DEF TimerRelaunches
  <2>3. Sound(t)
    BY <1>1 DEF Sound, Tab, Phases
  <2>4. /\ launch' \in [Slots -> Launch]
        /\ \A j \in Keys : AwaitedFor(j) => AwaitedFor(j)'
        /\ AwaitedFor(k)'
    BY <1>1, <1>4, CallEffect DEF TimerRelaunches, Callers
  <2> HIDE DEF t
  <2>5. UNCHANGED <<activeId, wizard, calls, poll, backend, screen>>
    BY <1>4 DEF TimerRelaunches
  <2>6. QED
    BY <1>1, <1>2, <1>3, <2>2, <2>3, <2>4, <2>5, TabStep DEF TypeOK
<1>5. CASE TimerSkips(k)
  <2>1. UNCHANGED <<tab, activeId, wizard, launch, calls, poll, backend, screen>>
    BY <1>5 DEF TimerSkips
  <2>2. tab' = [tab EXCEPT ![k] = tab[k]]
    BY <1>1, <2>1 DEF TypeOK
  <2>3. tab[k].phase # "launching"
    <3>1. CASE ~Open(k)
      BY <3>1 DEF Open
    <3>2. CASE Open(k)
      BY <1>5, <3>2 DEF TimerSkips, StillWanted
    <3>3. QED
      BY <3>1, <3>2
  <2>4. \A j \in Keys : AwaitedFor(j) => AwaitedFor(j)'
    BY <2>1 DEF AwaitedFor, OfStore, InFlight
  <2>5. QED
    BY <1>1, <1>2, <1>3, <2>1, <2>2, <2>3, <2>4, TabStep DEF TypeOK
<1>6. QED
  BY <1>4, <1>5 DEF TimerFires

LEMMA AnswerStep ==
  ASSUME TabsInv, NEW c \in Slots, Answer(c)
  PROVE  TabsInv'
<1> USE DEF store, manager
<1> DEFINE k == launch[c].key
<1>1. TypeOK
  BY DEF TabsInv
<1>2. /\ launch[c] \in Launch /\ launch[c].at # "free" /\ k \in Keys
  BY <1>1 DEF Answer, Opened, Unreachable, Refused, PasswordMissing, HardTimeout, Answered,
     TypeOK, Launch, NoLaunch, Stages
<1>3. Sound(tab[k]) /\ timers[k] \in Nat
  BY <1>1, <1>2, SoundTabs DEF TypeOK
<1>4. ASSUME NEW a, Answered(c, a)
      PROVE  /\ launch' \in [Slots -> Launch]
             /\ \A j \in Keys \ {k} : AwaitedFor(j) => AwaitedFor(j)'
             /\ UNCHANGED <<wizard, poll, backend, screen>>
  BY <1>1, <1>4, ReleaseEffect DEF Answered
<1>5. timers = [timers EXCEPT ![k] = timers[k]]
  BY <1>1, <1>2 DEF TypeOK
<1>6. Sound(Failed(tab[k])) /\ Failed(tab[k]).phase # "launching"
  BY <1>3, FailedIsSound
<1> HIDE DEF k
<1>7. CASE Opened(c)
  <2> DEFINE t == Patched(tab[k], Fresh("running"))
  <2>1. Answered(c, "ok") /\ tab' = [tab EXCEPT ![k] = t] /\ timers' = timers
    BY <1>7 DEF Opened, k
  <2>2. Sound(t) /\ t.phase # "launching"
    BY <1>3, FreshIsSound DEF Patched, Phases
  <2>3. activeId' \in Keys \cup {NONE}
    BY <1>1, <1>2, <1>7 DEF Opened, TypeOK, k
  <2>4. calls' \subseteq Calls
    <3>1. IfActive(k, {Focus(k)}) \subseteq Calls
      BY <1>2, CallsOfTheStore
    <3>2. QED
      BY <1>1, <1>7, <3>1, CallsOfTheStore DEF Opened, TypeOK, k
  <2> HIDE DEF t
  <2>5. QED
    BY <1>1, <1>2, <1>3, <1>4, <1>5, <2>1, <2>2, <2>3, <2>4, TabStep DEF TypeOK
<1>8. CASE Unreachable(c)
  <2> DEFINE s == [tab[k] EXCEPT !.retryPending = FALSE]
  <2>1. /\ Answered(c, "unreachable")
        /\ tab' = [tab EXCEPT ![k] = Rescheduled(s)]
        /\ timers' = [timers EXCEPT ![k] = TimersAfter(k, s)]
        /\ Reply({c}, IF Untroubled(s) THEN {} ELSE IfActive(k, {Focus(NONE)}))
        /\ activeId' = activeId
    BY <1>8 DEF Unreachable, k
  <2>2. Sound(s) /\ ~s.retryPending
    BY <1>3 DEF Sound, Tab
  <2> HIDE DEF s
  <2>3. /\ Sound(Rescheduled(s))
        /\ Rescheduled(s).phase = "launching" => SetsTimer(s)
    BY <2>2, RescheduledIsSound
  <2>4. TimersAfter(k, s) \in Nat /\ (SetsTimer(s) => TimersAfter(k, s) > 0)
    BY <1>3 DEF TimersAfter
  <2>5. calls' \subseteq Calls
    <3>1. (IF Untroubled(s) THEN {} ELSE IfActive(k, {Focus(NONE)})) \subseteq Calls
      BY CallsOfTheStore DEF IfActive
    <3>2. QED
      BY <1>1, <2>1, <3>1, CallsOfTheStore
  <2>6. QED
    BY <1>1, <1>2, <1>4, <2>1, <2>3, <2>4, <2>5, TabStep DEF TypeOK
<1>9. CASE Refused(c)
  <2>1. /\ Answered(c, "other") /\ tab' = [tab EXCEPT ![k] = Failed(tab[k])]
        /\ UNCHANGED <<activeId, timers, calls>>
    BY <1>9 DEF Refused, k
  <2>2. QED
    BY <1>1, <1>2, <1>3, <1>4, <1>5, <1>6, <2>1, TabStep DEF TypeOK
<1>10. CASE PasswordMissing(c)
  <2>1. /\ Answered(c, "password") /\ tab' = [tab EXCEPT ![k] = Failed(tab[k])]
        /\ activeId' = NONE /\ timers' = timers
    BY <1>10 DEF PasswordMissing, k
  <2>2. calls' \subseteq Calls
    BY <1>1, <1>10, CallsOfTheStore DEF PasswordMissing
  <2>3. QED
    BY <1>1, <1>2, <1>3, <1>4, <1>5, <1>6, <2>1, <2>2, TabStep DEF TypeOK
<1>11. CASE HardTimeout(c)
  <2>1. /\ tab' = [tab EXCEPT ![k] = Failed(tab[k])]
        /\ launch' = [launch EXCEPT ![c].awaited = FALSE]
        /\ UNCHANGED <<activeId, timers, wizard, calls, poll, backend, screen>>
    BY <1>11 DEF HardTimeout, k
  <2>2. launch' \in [Slots -> Launch] /\ \A d \in Slots \ {c} : launch'[d] = launch[d]
    <3>1. [launch[c] EXCEPT !.awaited = FALSE] \in Launch
      <4>1. launch[c] \in [at : Stages \cup Answers, key : Keys, by : Callers,
                           awaited : BOOLEAN]
        BY <1>2 DEF Launch, NoLaunch
      <4>2. QED
        BY <4>1 DEF Launch
    <3>2. QED
      BY <1>1, <2>1, <3>1 DEF TypeOK
  <2>3. ASSUME NEW j \in Keys \ {k}, NEW d \in Slots, OfStore(d), InFlight(d),
               launch[d].key = j
        PROVE  AwaitedFor(j)'
    BY <2>2, <2>3 DEF AwaitedFor, OfStore, InFlight, k
  <2>4. \A j \in Keys \ {k} : AwaitedFor(j) => AwaitedFor(j)'
    BY <2>3 DEF AwaitedFor
  <2>5. QED
    BY <1>1, <1>2, <1>3, <1>5, <1>6, <2>1, <2>2, <2>4, TabStep DEF TypeOK
<1>12. QED
  BY <1>7, <1>8, <1>9, <1>10, <1>11 DEF Answer

\* What a poll's answer makes of a tab: still sound, and launching only if it
\* was, or with a new timer.
LEMMA PolledIsSound ==
  ASSUME TabsInv, NEW k \in Keys
  PROVE  /\ Sound(Polled(k))
         /\ Polled(k).phase = "launching" =>
              Polled(k) = tab[k] \/ (EndedBadly(k) /\ SetsTimer(tab[k]))
<1>1. Sound(tab[k])
  BY SoundTabs
<1>2. /\ Sound(Fresh("ready")) /\ Fresh("ready").phase # "launching"
      /\ Sound(Fresh("running")) /\ Fresh("running").phase # "launching"
  BY FreshIsSound DEF Phases
<1>3. /\ Sound(Rescheduled(tab[k]))
      /\ Rescheduled(tab[k]).phase = "launching" =>
           SetsTimer(tab[k]) \/ Rescheduled(tab[k]) = tab[k]
  BY <1>1, RescheduledIsSound
<1>4. QED
  BY <1>1, <1>2, <1>3 DEF Polled

LEMMA PollStep ==
  ASSUME TabsInv, PollAnswered
  PROVE  TabsInv'
<1> USE DEF store, manager
<1>1. TypeOK
  BY DEF TabsInv
<1>2. /\ tab' = [k \in Keys |-> Polled(k)]
      /\ timers' = [k \in Keys |-> IF EndedBadly(k) THEN TimersAfter(k, tab[k]) ELSE timers[k]]
      /\ poll' = NoPoll
      /\ activeId' = IF activeId # NONE /\ EndedClean(activeId) THEN NONE ELSE activeId
      /\ UNCHANGED <<wizard, launch, backend, screen>>
  BY DEF PollAnswered
<1>3. calls' \subseteq Calls
  <2> DEFINE new == IF activeId # NONE /\ (EndedClean(activeId) \/ EndedBadly(activeId))
                    THEN {Focus(NONE)} ELSE {}
  <2>1. Send(new)
    BY DEF PollAnswered
  <2>2. new \subseteq Calls
    BY CallsOfTheStore
  <2> HIDE DEF new
  <2>3. QED
    BY <1>1, <2>1, <2>2, CallsOfTheStore DEF Send
<1>4. \A k \in Keys : timers[k] \in Nat
  BY <1>1 DEF TypeOK
<1>5. ASSUME NEW k \in Keys
      PROVE  /\ timers'[k] \in Nat
             /\ timers[k] > 0 => timers'[k] > 0
             /\ EndedBadly(k) /\ SetsTimer(tab[k]) => timers'[k] > 0
  BY <1>2, <1>4 DEF TimersAfter
<1>6. \A k \in Keys : tab'[k] = Polled(k)
  BY <1>2
<1>7. \A k \in Keys : AwaitedFor(k) => AwaitedFor(k)'
  BY <1>2 DEF AwaitedFor, OfStore, InFlight
<1>8. ASSUME NEW k \in Keys, tab'[k].phase = "launching"
      PROVE  timers'[k] > 0 \/ AwaitedFor(k)'
  <2>1. CASE Polled(k) = tab[k]
    BY <1>5, <1>6, <1>7, <1>8, <2>1 DEF TabsInv, LaunchingIsBacked
  <2>2. CASE EndedBadly(k) /\ SetsTimer(tab[k])
    BY <1>5, <2>2
  <2>3. QED
    BY <1>6, <1>8, <2>1, <2>2, PolledIsSound
<1>9. NoPoll \in [Keys -> Statuses]
  BY DEF NoPoll, Statuses
<1>10. timers' \in [Keys -> Nat]
  BY <1>2, <1>5
<1>11. tab' = [k \in Keys |-> tab'[k]]
  BY <1>2
<1>12. \A k \in Keys : Sound(tab'[k])
  BY <1>6, PolledIsSound
<1>13. QED
  BY <1>1, <1>2, <1>3, <1>8, <1>9, <1>10, <1>11, <1>12, Assemble DEF TypeOK

\* What the manager and the device do is seen by no tab.
LEMMA BackendStep ==
  ASSUME TabsInv, PollRead \/ RunCall \/ Device
  PROVE  TabsInv'
<1> USE DEF store, manager
<1>1. TypeOK
  BY DEF TabsInv
<1>2. CASE PollRead
  <2>1. \A k \in Keys : Status(k) \in Statuses
    BY DEF Status, Statuses
  <2>2. poll' \in [Keys -> Statuses]
    BY <1>2, <2>1 DEF PollRead, Statuses
  <2>3. QED
    BY <1>1, <1>2, <2>2, FrontStep DEF PollRead, TypeOK
<1>3. ASSUME NEW k \in Keys \cup {NONE}, RunFocus(k)
      PROVE  TabsInv'
  BY <1>1, <1>3, FrontStep DEF RunFocus, TypeOK
<1>4. ASSUME NEW k \in Keys, RunClose(k)
      PROVE  TabsInv'
  <2>1. backend' \in [Keys -> Backends] /\ screen' \in Keys \cup {NONE}
    BY <1>1, <1>4 DEF RunClose, Withdraw, TypeOK, Backends
  <2>2. QED
    BY <1>1, <1>4, <2>1, FrontStep DEF RunClose, TypeOK
<1>5. ASSUME NEW k \in Keys, Frame(k)
      PROVE  TabsInv'
  BY <1>1, <1>5, FrontStep DEF Frame, TypeOK, Backends
<1>6. ASSUME NEW k \in Keys, Exit(k)
      PROVE  TabsInv'
  BY <1>1, <1>6, FrontStep DEF Exit, TypeOK, Backends
<1>7. QED
  BY <1>2, <1>3, <1>4, <1>5, <1>6 DEF RunCall, Device

\* A call that moves on, or ends with nobody waiting, leaves every tab backed.
LEMMA CallStep ==
  ASSUME TabsInv, NEW c \in Slots, Unheard(c) \/ LaunchStep(c)
  PROVE  TabsInv'
<1> USE DEF store, manager
<1>1. TypeOK
  BY DEF TabsInv
<1>2. /\ launch' \in [Slots -> Launch]
      /\ \A j \in Keys : AwaitedFor(j) => AwaitedFor(j)'
      /\ UNCHANGED <<tab, activeId, timers, wizard, calls, poll>>
      /\ backend' \in [Keys -> Backends] /\ screen' \in Keys \cup {NONE}
  <2>1. CASE Unheard(c)
    BY <1>1, <2>1, ReleaseEffect DEF Unheard, OfStore, TypeOK
  <2>2. CASE LaunchStep(c)
    BY <1>1, <2>2, LaunchStepEffect, MoveEffect
  <2>3. QED
    BY <2>1, <2>2
<1>3. \A k \in Keys : Sound(tab'[k])
  BY <1>2, SoundTabs
<1>4. tab' = [k \in Keys |-> tab'[k]]
  BY <1>1, <1>2 DEF TypeOK
<1>5. \A k \in Keys : tab'[k].phase = "launching" => timers'[k] > 0 \/ AwaitedFor(k)'
  BY <1>2 DEF TabsInv, LaunchingIsBacked
<1>6. QED
  BY <1>1, <1>2, <1>3, <1>4, <1>5, Assemble DEF TypeOK

LEMMA NextTabs == TabsInv /\ [Next]_vars => TabsInv'
<1> SUFFICES ASSUME TabsInv, [Next]_vars PROVE TabsInv'
  OBVIOUS
<1>1. CASE UNCHANGED vars
  BY <1>1, FrontStep DEF vars, store, manager, TabsInv, TypeOK
<1>2. CASE Next
  BY <1>2, UserStep, WizardStep, PollStep, BackendStep, TimerStep, AnswerStep, CallStep
     DEF Next
<1>3. QED
  BY <1>1, <1>2

\* The tab bar's invariant holds whatever the user, the wizard, the timers, the
\* polls and the back end do: every tab has a sound phase, a pending retry is a
\* launching tab, a launching tab has something behind it.
THEOREM TabsInvariance == Spec => []TabsInv
<1>1. QED
  BY InitTabs, NextTabs, PTL DEF Spec

\* Type correctness; with it the retry count never passes MAX_SESSION_RECONNECTS
\* (sessionsStore.ts:217).
THEOREM TabsTypeCorrect == Spec => []TypeOK
<1>1. TabsInv => TypeOK
  BY DEF TabsInv
<1>2. QED
  BY <1>1, TabsInvariance, PTL

\* No tab says "connecting" with neither a reconnect timer nor a launch still
\* waited for behind it (sessionsStore.ts; the KI-041 hang).
THEOREM ConnectingIsBacked == Spec => []LaunchingIsBacked
<1>1. TabsInv => LaunchingIsBacked
  BY DEF TabsInv
<1>2. QED
  BY <1>1, TabsInvariance, PTL

-----------------------------------------------------------------------------
(* The manager under the tabs is SessionTable's.                            *)

\* The statuses of all keys but k are kept, whatever k's becomes.
LEMMA StatusAfter ==
  ASSUME TypeOK, NEW k \in Keys, NEW b, backend' = [backend EXCEPT ![k] = b]
  PROVE  [j \in Keys |-> IF Running(j) THEN "running"
                         ELSE IF backend[j] = "notRunning" THEN "notRunning"
                         ELSE "exited"]'
         = [[j \in Keys |-> IF Running(j) THEN "running"
                            ELSE IF backend[j] = "notRunning" THEN "notRunning"
                            ELSE "exited"]
            EXCEPT ![k] = IF b \in {"blank", "usable"} THEN "running"
                          ELSE IF b = "notRunning" THEN "notRunning" ELSE "exited"]
<1>1. \A j \in Keys : backend'[j] = IF j = k THEN b ELSE backend[j]
  BY DEF TypeOK
<1>2. QED
  BY <1>1 DEF Running

LEMMA WithdrawIsWithdraw ==
  ASSUME TypeOK, NEW k \in Keys, Withdraw(k)
  PROVE  Manager!Next
<1>1. Manager!Withdraw(k)
  BY StatusAfter DEF Withdraw, Manager!Withdraw
<1>2. QED
  BY <1>1 DEF Manager!Next

LEMMA FocusIsShow ==
  ASSUME TypeOK, NEW k \in Keys, Running(k), screen' = k, UNCHANGED backend
  PROVE  Manager!Next
<1>1. Manager!Show(k)
  BY DEF Manager!Show, Running
<1>2. QED
  BY <1>1 DEF Manager!Next

LEMMA NewIsInstall ==
  ASSUME TypeOK, NEW k \in Keys, backend' = [backend EXCEPT ![k] = "blank"],
         UNCHANGED screen
  PROVE  Manager!Next
<1>1. Manager!Install(k)
  BY StatusAfter DEF Manager!Install
<1>2. QED
  BY <1>1 DEF Manager!Next

LEMMA LaunchIsManager ==
  ASSUME TypeOK, NEW c \in Slots, LaunchStep(c)
  PROVE  [Manager!Next]_(Manager!vars)
<1> DEFINE key == launch[c].key
<1>1. key \in Keys
  BY LaunchStepEffect DEF TypeOK, Launch, NoLaunch
<1>2. UNCHANGED manager => UNCHANGED Manager!vars
  BY DEF manager, Manager!vars, Running
<1>3. CASE Withdraw(key)
  BY <1>1, <1>3, WithdrawIsWithdraw
<1>4. CASE LaunchInstall(c)
  BY <1>1, <1>4, NewIsInstall DEF LaunchInstall
<1>5. CASE LaunchShow(c)
  <2>1. CASE Running(key)
    BY <1>1, <1>5, <2>1, FocusIsShow DEF LaunchShow
  <2>2. CASE ~Running(key)
    BY <1>2, <1>5, <2>2 DEF LaunchShow, manager
  <2>3. QED
    BY <2>1, <2>2
<1>6. QED
  BY <1>2, <1>3, <1>4, <1>5 DEF LaunchStep, LaunchBegin, LaunchPrepareFails, LaunchPrepared,
     LaunchCreateFails, LaunchUsable, LaunchUnusable, LaunchRepairFails, LaunchRepaired

\* Every step of the tab bar, of launch_session and of the device is, for the
\* session manager, a step SessionTable allows, or none: what this module assumes
\* of the manager is what RdpSessions is shown to implement.
THEOREM TabsUseSessionTable == Spec => UsesSessionTable
<1>1. Init => Manager!Init
  BY DEF Init, Manager!Init, Running
<1>2. TabsInv /\ [Next]_vars => [Manager!Next]_(Manager!vars)
  <2> SUFFICES ASSUME TabsInv, [Next]_vars PROVE [Manager!Next]_(Manager!vars)
    OBVIOUS
  <2>1. TypeOK
    BY DEF TabsInv
  <2>2. UNCHANGED manager => UNCHANGED Manager!vars
    BY DEF manager, Manager!vars, Running
  <2>3. CASE UNCHANGED vars
    BY <2>2, <2>3 DEF vars
  <2>4. CASE User
    BY <2>2, <2>4 DEF User, SwitchTo, Reopen, ShowOverview, CloseTab
  <2>5. CASE WizardNext
    BY <2>2, <2>5 DEF WizardNext, WizardLeave, WizardLaunch, WizardOpened, WizardFailed,
       WizardAnswered
  <2>6. CASE PollRead \/ PollAnswered
    BY <2>2, <2>6 DEF PollRead, PollAnswered
  <2>7. CASE RunCall
    <3>1. CASE RunFocus(NONE)
      <4>1. Manager!Hide
        BY <3>1 DEF RunFocus, Manager!Hide, Running
      <4>2. QED
        BY <4>1 DEF Manager!Next
    <3>2. ASSUME NEW k \in Keys, RunFocus(k)
          PROVE  [Manager!Next]_(Manager!vars)
      <4>1. k # NONE
        BY DesktopTabsAssumption
      <4>2. CASE Running(k)
        BY <2>1, <3>2, <4>2, FocusIsShow DEF RunFocus
      <4>3. CASE ~Running(k)
        BY <2>2, <3>2, <4>1, <4>3 DEF RunFocus, manager
      <4>4. QED
        BY <4>2, <4>3
    <3>3. ASSUME NEW k \in Keys, RunClose(k)
          PROVE  [Manager!Next]_(Manager!vars)
      BY <2>1, <3>3, WithdrawIsWithdraw DEF RunClose
    <3>4. QED
      BY <2>7, <3>1, <3>2, <3>3 DEF RunCall
  <2>8. ASSUME NEW k \in Keys, Frame(k)
        PROVE  [Manager!Next]_(Manager!vars)
    <3>1. \A j \in Keys : backend'[j] = IF j = k THEN "usable" ELSE backend[j]
      BY <2>1, <2>8 DEF Frame, TypeOK
    <3>2. QED
      BY <2>8, <3>1 DEF Frame, Running, Manager!vars
  <2>9. ASSUME NEW k \in Keys, Exit(k)
        PROVE  [Manager!Next]_(Manager!vars)
    <3>1. PICK e \in {"exited", "failed"} : backend' = [backend EXCEPT ![k] = e]
      BY <2>9 DEF Exit
    <3>2. Manager!Exit(k)
      BY <2>1, <2>9, <3>1, StatusAfter DEF Exit, Manager!Exit
    <3>3. QED
      BY <3>2 DEF Manager!Next
  <2>10. ASSUME NEW k \in Keys, TimerFires(k)
         PROVE  [Manager!Next]_(Manager!vars)
    BY <2>2, <2>10 DEF TimerFires, TimerRelaunches, TimerSkips
  <2>11. ASSUME NEW c \in Slots, Answer(c) \/ Unheard(c)
         PROVE  [Manager!Next]_(Manager!vars)
    BY <2>2, <2>11 DEF Answer, Answered, Opened, Unreachable, Refused, PasswordMissing,
       HardTimeout, Unheard
  <2>12. QED
    BY <2>1, <2>3, <2>4, <2>5, <2>6, <2>7, <2>8, <2>9, <2>10, <2>11, LaunchIsManager
       DEF Next, Device
<1>3. QED
  BY <1>1, <1>2, TabsInvariance, PTL DEF Spec, UsesSessionTable, Manager!Spec

-----------------------------------------------------------------------------
(* The desktop on screen and the front tab, when everything is orderly: the *)
(* inductive invariant.                                                     *)

Launching(c, k) == InFlight(c) /\ launch[c].key = k
InLaunch(k) == \E c \in Slots : Launching(c, k)
StoreLaunches(k) == \E c \in Slots : Launching(c, k) /\ launch[c].by # "wizard"
ByTab(c) == InFlight(c) /\ launch[c].by = "tab"
ByWizard(c) == InFlight(c) /\ launch[c].by = "wizard"

\* What Orderly makes of the calls: one launch for a key, one by click and one by
\* the wizard; the calls in flight are those of the last handler, which put its
\* tab in front or closed its own.
OrderlyCalls ==
  /\ \A c \in Slots : InFlight(c) => launch[c].awaited
  /\ \A c, d \in Slots : InFlight(c) /\ InFlight(d) /\ launch[c].key = launch[d].key => c = d
  /\ \A c, d \in Slots : ByTab(c) /\ ByTab(d) => c = d
  /\ \A c, d \in Slots : ByWizard(c) /\ ByWizard(d) => c = d
  /\ \A c \in Slots : ByTab(c) => calls = {}
  /\ \A c \in Slots : ByWizard(c) => wizard
  /\ \A k \in Keys : Focus(k) \in calls => activeId = k
  /\ \A k \in Keys : Close(k) \in calls => ~Open(k) /\ ~InLaunch(k)

\* Where a launch has no session, and where it waits for its desktop.
NothingRuns == {"prepare", "install", "repair", "reinstall"} \cup (Answers \ {"ok"})
Waiting == {"wait", "rewait"}

\* A launch that failed leaves no session behind, and a session without a desktop
\* has a launch that waits for it.
LaunchInv ==
  /\ \A c \in Slots : launch[c].at \in NothingRuns => ~Running(launch[c].key)
  /\ \A c \in Slots : launch[c].at = "show" => launch[c].by # "timer"
  /\ \A k \in Keys : backend[k] = "blank" =>
       \E c \in Slots : Launching(c, k) /\ launch[c].at \in Waiting

\* A tab in "error" has no session, so no late poll can make it "running" behind
\* the screen's back: only a chain of attempts at its cap goes there unasked, and
\* one that just opened is at its beginning.
TabIsTrue(k) ==
  /\ StoreLaunches(k) => Open(k)
  /\ tab[k].phase = "launching" /\ ~tab[k].retryPending => StoreLaunches(k)
  /\ tab[k].retries > 0 /\ ~tab[k].retryPending => tab[k].phase = "error" \/ StoreLaunches(k)
  /\ tab[k].phase = "error" /\ ~InLaunch(k) => ~Running(k)
  /\ Running(k) /\ ~Open(k) => Close(k) \in calls \/ InLaunch(k)
  /\ activeId = k => tab[k].phase \notin {"closed", "ready"}

\* Its desktop should be on screen if the tab is in front.
Due(k) == tab[k].phase = "running" /\ Running(k) /\ ~StoreLaunches(k)
Shown(c) == ByTab(c) /\ launch[c].at = "ok"
Showing == \E c \in Slots : Shown(c)

\* The screen is right, or the call that makes it right is in flight, or a launch
\* by click has been shown and its tab comes to the front.
FrontInv ==
  ~wizard =>
    /\ \A c \in Slots : Shown(c) /\ Running(launch[c].key) => screen = launch[c].key
    /\ activeId = NONE => screen = NONE \/ Focus(NONE) \in calls \/ Showing
    /\ activeId # NONE /\ Due(activeId) =>
         /\ Focus(NONE) \notin calls
         /\ screen = activeId \/ Focus(activeId) \in calls \/ Showing

TabScreenInv == OrderlyCalls /\ LaunchInv /\ (\A k \in Keys : TabIsTrue(k)) /\ FrontInv

-----------------------------------------------------------------------------
(* What the kinds of steps do.                                              *)

LEMMA CallsDiffer ==
  /\ \A a, b : Focus(a) = Focus(b) <=> a = b
  /\ \A a, b : Close(a) = Close(b) <=> a = b
  /\ \A a, b : Focus(a) # Close(b)
BY DEF Focus, Close

\* A handler that sends something finds nothing else that moves the screen.
LEMMA ReplyAlone ==
  ASSUME Orderly, NEW C, NEW new, new # {}, Reply(C, new)
  PROVE  calls = {} /\ calls' = new /\ \A c \in Slots \ C : ~ByTab(c)
BY DEF Reply, Undisturbed, ByTab, Focused, InFlight

LEMMA AloneIsAlone ==
  ASSUME Orderly, NEW k, Alone(k)
  PROVE  ~InLaunch(k)
BY DEF Alone, InLaunch, Launching

LEMMA CallStarts ==
  ASSUME TypeOK, NEW k \in Keys, NEW who \in Callers, Call(k, who)
  PROVE  \E c \in Slots :
           /\ ~InFlight(c)
           /\ launch'[c] = [at |-> "begin", key |-> k, by |-> who, awaited |-> TRUE]
           /\ \A d \in Slots \ {c} : launch'[d] = launch[d]
BY DEF Call, TypeOK

\* A launch in flight has a key and a caller.
LEMMA FlightTypes ==
  ASSUME TypeOK, NEW c \in Slots
  PROVE  /\ InFlight(c) => launch[c].key \in Keys /\ launch[c].by \in Callers
                           /\ launch[c].at \in Stages \cup Answers
         /\ ~InFlight(c) => launch[c] = NoLaunch
BY DEF TypeOK, Launch, NoLaunch, InFlight, Stages, Answers

\* LaunchInv looks at the launches and the back end only.
LEMMA LaunchInvKept ==
  ASSUME LaunchInv, launch' = launch,
         \A k \in Keys \cup {NONE} : Running(k)' => Running(k),
         \A k \in Keys : backend'[k] = "blank" => backend[k] = "blank",
         \A c \in Slots : launch[c].key \in Keys \cup {NONE}
  PROVE  LaunchInv'
BY DEF LaunchInv, Launching, InFlight

LEMMA LaunchInvStarts ==
  ASSUME TypeOK, LaunchInv, NEW c \in Slots, NEW k \in Keys, NEW who \in Callers, ~InFlight(c),
         launch'[c] = [at |-> "begin", key |-> k, by |-> who, awaited |-> TRUE],
         \A d \in Slots \ {c} : launch'[d] = launch[d],
         UNCHANGED backend
  PROVE  LaunchInv'
<1>1. \A j : Running(j)' <=> Running(j)
  BY DEF Running
<1>2. "begin" \notin NothingRuns /\ "begin" # "show"
  BY DEF NothingRuns, Answers
<1>3. \A d \in Slots : d # c => launch'[d] = launch[d]
  OBVIOUS
<1>4. \A d \in Slots : launch'[d].at \in NothingRuns => ~Running(launch[d].key)'
  BY <1>1, <1>2, <1>3 DEF LaunchInv, Running
<1>5. \A d \in Slots : launch'[d].at = "show" => launch'[d].by # "timer"
  BY <1>2, <1>3 DEF LaunchInv
<1>6. ASSUME NEW j \in Keys, backend'[j] = "blank"
      PROVE  \E d \in Slots : Launching(d, j)' /\ launch'[d].at \in Waiting
  <2>1. PICK d \in Slots : Launching(d, j) /\ launch[d].at \in Waiting
    BY <1>6 DEF LaunchInv
  <2>2. d # c
    BY <2>1 DEF Launching
  <2>3. QED
    BY <1>3, <2>1, <2>2 DEF Launching, InFlight
<1>7. QED
  BY <1>4, <1>5, <1>6 DEF LaunchInv

LEMMA LaunchInvEnds ==
  ASSUME TypeOK, LaunchInv, NEW c \in Slots, launch[c].at \in Answers,
         launch' = [launch EXCEPT ![c] = NoLaunch], UNCHANGED backend
  PROVE  /\ LaunchInv'
         /\ launch'[c] = NoLaunch /\ ~InFlight(c)'
         /\ \A d \in Slots \ {c} : launch'[d] = launch[d]
<1>1. /\ launch'[c] = NoLaunch /\ ~InFlight(c)'
      /\ \A d \in Slots : d # c => launch'[d] = launch[d]
  BY DEF TypeOK, InFlight, NoLaunch
<1>2. \A j : Running(j)' <=> Running(j)
  BY DEF Running
<1>3. launch'[c].at \notin NothingRuns /\ launch'[c].at # "show"
  BY <1>1 DEF NothingRuns, Answers, NoLaunch
<1>4. \A d \in Slots : launch'[d].at \in NothingRuns => ~Running(launch[d].key)'
  BY <1>1, <1>2, <1>3 DEF LaunchInv, Running
<1>5. \A d \in Slots : launch'[d].at = "show" => launch'[d].by # "timer"
  BY <1>1, <1>3 DEF LaunchInv
<1>6. ASSUME NEW j \in Keys, backend'[j] = "blank"
      PROVE  \E d \in Slots : Launching(d, j)' /\ launch'[d].at \in Waiting
  <2>1. PICK d \in Slots : Launching(d, j) /\ launch[d].at \in Waiting
    BY <1>6 DEF LaunchInv
  <2>2. d # c
    BY <2>1 DEF Waiting, Answers
  <2>3. QED
    BY <1>1, <2>1, <2>2 DEF Launching, InFlight
<1>7. QED
  BY <1>1, <1>4, <1>5, <1>6 DEF LaunchInv

\* The same launches under the same keys.
LEMMA SameLaunches ==
  ASSUME launch' = launch
  PROVE  /\ \A k : InLaunch(k)' <=> InLaunch(k)
         /\ \A k : StoreLaunches(k)' <=> StoreLaunches(k)
         /\ \A c \in Slots : (ByTab(c)' <=> ByTab(c)) /\ (ByWizard(c)' <=> ByWizard(c))
         /\ \A c \in Slots : (InFlight(c)' <=> InFlight(c)) /\ (Shown(c)' <=> Shown(c))
         /\ Showing' <=> Showing
BY DEF InLaunch, StoreLaunches, Launching, InFlight, ByTab, ByWizard, Shown, Showing

\* A handler that only moves the front, and sends the focus that goes with it.
LEMMA FrontMoves ==
  ASSUME TypeOK, TabScreenInv, UNCHANGED <<tab, launch, backend, screen>>,
         calls = {}, \A c \in Slots : ~ByTab(c),
         NEW m \in Keys \cup {NONE}, calls' = {Focus(m)},
         activeId' \in Keys \cup {NONE}, m \in Keys => activeId' = m,
         m = NONE /\ activeId' # NONE => tab[activeId'].phase # "running",
         activeId' # NONE => tab[activeId'].phase \notin {"closed", "ready"},
         \A c \in Slots : ByWizard(c) => wizard'
  PROVE  TabScreenInv'
<1>1. /\ \A k : InLaunch(k)' <=> InLaunch(k)
      /\ \A k : StoreLaunches(k)' <=> StoreLaunches(k)
      /\ \A c \in Slots : (ByTab(c)' <=> ByTab(c)) /\ (ByWizard(c)' <=> ByWizard(c))
      /\ \A c \in Slots : (InFlight(c)' <=> InFlight(c)) /\ (Shown(c)' <=> Shown(c))
      /\ Showing' <=> Showing
      /\ \A k : (Running(k)' <=> Running(k)) /\ (Open(k)' <=> Open(k))
  BY SameLaunches DEF Running, Open
<1>2. OrderlyCalls'
  BY <1>1, CallsDiffer DEF TabScreenInv, OrderlyCalls
<1>3. LaunchInv'
  BY LaunchInvKept, <1>1, FlightTypes DEF TabScreenInv, NoLaunch
<1>4. ASSUME NEW k \in Keys PROVE TabIsTrue(k)'
  <2>1. TabIsTrue(k)
    BY DEF TabScreenInv
  <2>2. k # NONE
    BY DesktopTabsAssumption
  <2>3. QED
    BY <1>1, <2>1, <2>2 DEF TabIsTrue
<1>5. FrontInv'
  <2>1. \A c \in Slots : ~Shown(c)'
    BY <1>1 DEF Shown
  <2>2. NONE \notin Keys /\ Focus(m) \in calls' /\ (m # NONE => Focus(NONE) \notin calls')
    BY DesktopTabsAssumption, CallsDiffer
  <2>3. QED
    BY <2>1, <2>2 DEF FrontInv, Due
<1>6. QED
  BY <1>2, <1>3, <1>4, <1>5 DEF TabScreenInv

LEMMA SwitchScreen ==
  ASSUME Orderly, TypeOK, TabScreenInv, NEW k \in Keys, SwitchTo(k)
  PROVE  TabScreenInv'
<1>1. /\ activeId' = k /\ Reply({}, {Focus(k)}) /\ tab[k].phase \in {"running", "launching"}
      /\ UNCHANGED <<tab, wizard, launch, backend, screen>>
  BY DEF SwitchTo, Send, manager
<1>2. calls = {} /\ calls' = {Focus(k)} /\ \A c \in Slots : ~ByTab(c)
  BY <1>1, ReplyAlone
<1>3. k # NONE /\ \A c \in Slots : ByWizard(c) => wizard'
  BY <1>1, DesktopTabsAssumption DEF TabScreenInv, OrderlyCalls
<1>4. QED
  BY <1>1, <1>2, <1>3, FrontMoves

LEMMA OverviewScreen ==
  ASSUME Orderly, TypeOK, TabScreenInv, ShowOverview
  PROVE  TabScreenInv'
<1>1. /\ activeId' = NONE /\ Reply({}, {Focus(NONE)})
      /\ UNCHANGED <<tab, wizard, launch, backend, screen>>
  BY DEF ShowOverview, Send, manager
<1>2. calls = {} /\ calls' = {Focus(NONE)} /\ \A c \in Slots : ~ByTab(c)
  BY <1>1, ReplyAlone
<1>3. NONE \notin Keys /\ \A c \in Slots : ByWizard(c) => wizard'
  BY <1>1, DesktopTabsAssumption DEF TabScreenInv, OrderlyCalls
<1>4. QED
  BY <1>1, <1>2, <1>3, FrontMoves

LEMMA LeaveScreen ==
  ASSUME Orderly, TypeOK, TabScreenInv, WizardLeave
  PROVE  TabScreenInv'
<1> DEFINE m == IF activeId # NONE /\ tab[activeId].phase = "running" THEN activeId ELSE NONE
<1>1. /\ Reply({}, {Focus(m)})
      /\ \A c \in Slots : ~ByWizard(c)
      /\ UNCHANGED <<tab, activeId, launch, backend, screen>>
  BY DEF WizardLeave, Send, manager, ByWizard
<1>2. calls = {} /\ calls' = {Focus(m)} /\ \A c \in Slots : ~ByTab(c)
  BY <1>1, ReplyAlone
<1>3. m \in Keys \cup {NONE} /\ NONE \notin Keys /\ activeId \in Keys \cup {NONE}
  BY DesktopTabsAssumption DEF TypeOK
<1>4. activeId # NONE => tab[activeId].phase \notin {"closed", "ready"}
  BY <1>3 DEF TabScreenInv, TabIsTrue
<1>5. (m \in Keys => activeId = m) /\ (m = NONE /\ activeId # NONE => tab[activeId].phase # "running")
  BY <1>3
<1> HIDE DEF m
<1>6. QED
  BY <1>1, <1>2, <1>3, <1>4, <1>5, FrontMoves

\* A launch that starts: by click, by a timer, or by the wizard.
LEMMA CallScreen ==
  ASSUME TypeOK, TabScreenInv, NEW k \in Keys, NEW who \in Callers, Call(k, who), ~InLaunch(k),
         UNCHANGED <<activeId, backend, screen>>,
         \A j \in Keys : j # k => tab'[j] = tab[j],
         who # "wizard" => tab'[k].phase = "launching" /\ Open(k) /\ wizard' = wizard /\ calls' = calls,
         who = "tab" => calls = {} /\ \A d \in Slots : ~ByTab(d),
         who = "wizard" => /\ tab'[k] = tab[k] /\ ~wizard /\ wizard' = TRUE
                           /\ calls = {} /\ calls' = {Focus(NONE)} /\ \A d \in Slots : ~ByTab(d)
  PROVE  TabScreenInv'
<1>1. PICK c \in Slots :
           /\ ~InFlight(c)
           /\ launch'[c] = [at |-> "begin", key |-> k, by |-> who, awaited |-> TRUE]
           /\ \A d \in Slots \ {c} : launch'[d] = launch[d]
  BY CallStarts
<1>2. \A d \in Slots : d # c => launch'[d] = launch[d]
  BY <1>1
<1>3. /\ \A d \in Slots : InFlight(d)' <=> InFlight(d) \/ d = c
      /\ \A j : \A d \in Slots : Launching(d, j)' <=> Launching(d, j) \/ (d = c /\ j = k)
      /\ \A d \in Slots : ByTab(d)' <=> ByTab(d) \/ (d = c /\ who = "tab")
      /\ \A d \in Slots : ByWizard(d)' <=> ByWizard(d) \/ (d = c /\ who = "wizard")
      /\ \A d \in Slots : Shown(d)' <=> Shown(d)
  BY <1>1, <1>2 DEF Launching, InFlight, ByTab, ByWizard, Shown
<1>4. /\ \A j : InLaunch(j)' <=> InLaunch(j) \/ j = k
      /\ \A j : StoreLaunches(j)' <=> StoreLaunches(j) \/ (j = k /\ who # "wizard")
      /\ Showing' <=> Showing
  <2>1. \A j : \A d \in Slots : Launching(d, j)' /\ launch'[d].by # "wizard"
           <=> (Launching(d, j) /\ launch[d].by # "wizard") \/ (d = c /\ j = k /\ who # "wizard")
    BY <1>1, <1>2, <1>3 DEF Launching
  <2>2. QED
    BY <1>3, <2>1 DEF InLaunch, StoreLaunches, Showing
<1>5. \A j : Running(j)' <=> Running(j)
  BY DEF Running
<1>6. OrderlyCalls'
  <2> USE DEF TabScreenInv, OrderlyCalls
  <2>1. \A d \in Slots : InFlight(d)' => launch'[d].awaited
    BY <1>1, <1>2, <1>3
  <2>2. \A d, e \in Slots : InFlight(d)' /\ InFlight(e)' /\ launch'[d].key = launch'[e].key => d = e
    <3>1. \A d \in Slots : InFlight(d) => launch[d].key # k
      BY DEF InLaunch, Launching
    <3>2. QED
      BY <1>1, <1>2, <1>3, <3>1
  <2>3. \A d, e \in Slots : ByTab(d)' /\ ByTab(e)' => d = e
    BY <1>3
  <2>4. \A d, e \in Slots : ByWizard(d)' /\ ByWizard(e)' => d = e
    BY <1>3
  <2>5. /\ \A d \in Slots : ByTab(d)' => calls' = {}
        /\ \A d \in Slots : ByWizard(d)' => wizard'
    BY <1>3 DEF Callers
  <2>6. \A j \in Keys : Focus(j) \in calls' => activeId' = j
    BY DesktopTabsAssumption, CallsDiffer
  <2>7. \A j \in Keys : Close(j) \in calls' => ~Open(j)' /\ ~InLaunch(j)'
    BY <1>4, CallsDiffer DEF Open
  <2>8. QED
    BY <2>1, <2>2, <2>3, <2>4, <2>5, <2>6, <2>7
<1>7. LaunchInv'
  BY <1>1, LaunchInvStarts DEF TabScreenInv
<1>8. ASSUME NEW j \in Keys PROVE TabIsTrue(j)'
  <2>1. TabIsTrue(j)
    BY DEF TabScreenInv
  <2>2. Close(j) \in calls => Close(j) \in calls'
    BY <1>1
  <2>3. CASE j = k /\ who # "wizard"
    BY <1>4, <2>3 DEF TabIsTrue, Open
  <2>4. CASE j # k \/ who = "wizard"
    BY <1>4, <1>5, <2>1, <2>2, <2>4 DEF TabIsTrue, Open
  <2>5. QED
    BY <2>3, <2>4
<1>9. FrontInv'
  <2>1. CASE who = "wizard"
    BY <2>1 DEF FrontInv
  <2>2. CASE who # "wizard"
    <3>1. ASSUME ~wizard
          PROVE  \A d \in Slots : Shown(d)' /\ Running(launch[d].key)' => screen' = launch'[d].key
      <4>1. \A d \in Slots : Shown(d) => launch'[d] = launch[d]
        BY <1>1, <1>2 DEF Shown, ByTab
      <4>2. QED
        BY <1>3, <3>1, <4>1 DEF TabScreenInv, FrontInv, Running
    <3>2. activeId \in Keys /\ Due(activeId)' => Due(activeId)
      BY <1>4, <1>5, <2>2 DEF Due
    <3>3. activeId \in Keys \cup {NONE}
      BY DEF TypeOK
    <3>4. QED
      BY <1>4, <2>2, <3>1, <3>2, <3>3 DEF TabScreenInv, FrontInv
  <2>3. QED
    BY <2>1, <2>2
<1>10. QED
  BY <1>6, <1>7, <1>8, <1>9 DEF TabScreenInv

LEMMA ReopenScreen ==
  ASSUME Orderly, TypeOK, TabScreenInv, NEW k \in Keys, Reopen(k)
  PROVE  TabScreenInv'
<1>1. /\ tab[k].phase \in {"ready", "error"} /\ Undisturbed({}) /\ ~InLaunch(k)
      /\ tab' = [tab EXCEPT ![k] = Fresh("launching")] /\ Call(k, "tab")
      /\ UNCHANGED <<activeId, wizard, calls, backend, screen>>
  BY AloneIsAlone DEF Reopen, manager
<1>2. /\ tab'[k] = Fresh("launching") /\ \A j \in Keys : j # k => tab'[j] = tab[j]
      /\ Open(k)
  BY <1>1 DEF TypeOK, Open
<1>3. calls = {} /\ \A d \in Slots : ~ByTab(d)
  BY <1>1 DEF Undisturbed, ByTab, Focused
<1>4. tab'[k].phase = "launching" /\ "tab" \in Callers
  BY <1>2 DEF Fresh, Callers
<1>5. QED
  BY <1>1, <1>2, <1>3, <1>4, CallScreen

LEMMA TimerScreen ==
  ASSUME Orderly, TypeOK, TabScreenInv, NEW k \in Keys, TimerRelaunches(k)
  PROVE  TabScreenInv'
<1>1. /\ Open(k) /\ ~InLaunch(k) /\ Call(k, "timer")
      /\ tab' = [tab EXCEPT ![k] = [tab[k] EXCEPT !.phase = "launching"]]
      /\ UNCHANGED <<activeId, wizard, calls, backend, screen>>
  BY AloneIsAlone DEF TimerRelaunches, StillWanted, Patched, Open, manager
<1>2. /\ tab'[k].phase = "launching" /\ \A j \in Keys : j # k => tab'[j] = tab[j]
  BY <1>1 DEF TypeOK, Tab
<1>3. QED
  BY <1>1, <1>2, CallScreen DEF Callers

LEMMA WizardLaunchScreen ==
  ASSUME Orderly, TypeOK, TabScreenInv, NEW k \in Keys, WizardLaunch(k)
  PROVE  TabScreenInv'
<1>1. /\ ~wizard /\ wizard' = TRUE /\ ~InLaunch(k) /\ Call(k, "wizard")
      /\ Reply({}, {Focus(NONE)})
      /\ UNCHANGED <<tab, activeId, backend, screen>>
  BY AloneIsAlone DEF WizardLaunch, Send, manager
<1>2. calls = {} /\ calls' = {Focus(NONE)} /\ \A d \in Slots : ~ByTab(d)
  BY <1>1, ReplyAlone
<1>3. QED
  BY <1>1, <1>2, CallScreen DEF Callers

\* A launch that has answered is the only one of its key, and now there is none.
LEMMA EndViews ==
  ASSUME TypeOK, TabScreenInv, NEW c \in Slots, launch[c].at \in Answers,
         launch' = [launch EXCEPT ![c] = NoLaunch], UNCHANGED backend
  PROVE  /\ LaunchInv'
         /\ launch[c].key \in Keys /\ launch[c].by \in Callers /\ InFlight(c)
         /\ Launching(c, launch[c].key)
         /\ \A d \in Slots : d # c => launch'[d] = launch[d]
         /\ \A d \in Slots : InFlight(d)' <=> InFlight(d) /\ d # c
         /\ \A d \in Slots : ByTab(d)' <=> ByTab(d) /\ d # c
         /\ \A d \in Slots : ByWizard(d)' <=> ByWizard(d) /\ d # c
         /\ \A d \in Slots : Shown(d)' <=> Shown(d) /\ d # c
         /\ \A j : InLaunch(j)' <=> InLaunch(j) /\ j # launch[c].key
         /\ \A j : StoreLaunches(j)' <=> StoreLaunches(j) /\ j # launch[c].key
         /\ StoreLaunches(launch[c].key) <=> launch[c].by # "wizard"
         /\ ~Shown(c) => (Showing' <=> Showing)
<1>1. /\ LaunchInv' /\ launch'[c] = NoLaunch /\ ~InFlight(c)'
      /\ \A d \in Slots : d # c => launch'[d] = launch[d]
  BY LaunchInvEnds DEF TabScreenInv
<1>2. InFlight(c)
  BY DEF InFlight, Answers
<1>3. launch[c].key \in Keys /\ launch[c].by \in Callers /\ Launching(c, launch[c].key)
  BY <1>2, FlightTypes DEF Launching
<1>4. /\ \A d \in Slots : InFlight(d)' <=> InFlight(d) /\ d # c
      /\ \A j : \A d \in Slots : Launching(d, j)' <=> Launching(d, j) /\ d # c
      /\ \A d \in Slots : ByTab(d)' <=> ByTab(d) /\ d # c
      /\ \A d \in Slots : ByWizard(d)' <=> ByWizard(d) /\ d # c
      /\ \A d \in Slots : Shown(d)' <=> Shown(d) /\ d # c
  BY <1>1 DEF Launching, InFlight, ByTab, ByWizard, Shown
<1>5. \A j : \A d \in Slots : Launching(d, j) => (d = c <=> j = launch[c].key)
  BY <1>2, <1>3 DEF TabScreenInv, OrderlyCalls, Launching
<1>6. \A j : InLaunch(j)' <=> InLaunch(j) /\ j # launch[c].key
  BY <1>4, <1>5 DEF InLaunch
<1>7. \A j : StoreLaunches(j)' <=> StoreLaunches(j) /\ j # launch[c].key
  <2>1. \A j : \A d \in Slots : Launching(d, j)' /\ launch'[d].by # "wizard"
           <=> Launching(d, j) /\ launch[d].by # "wizard" /\ j # launch[c].key
    BY <1>1, <1>4, <1>5
  <2>2. QED
    BY <2>1 DEF StoreLaunches
<1>8. StoreLaunches(launch[c].key) <=> launch[c].by # "wizard"
  BY <1>3, <1>5 DEF StoreLaunches
<1>9. ~Shown(c) => (Showing' <=> Showing)
  BY <1>4 DEF Showing
<1>10. QED
  BY <1>1, <1>2, <1>3, <1>4, <1>6, <1>7, <1>8, <1>9

\* What is left to show of an answer: its own tab, and the front.
LEMMA EndScreen ==
  ASSUME TypeOK, TabScreenInv, NEW c \in Slots, NEW k \in Keys, k = launch[c].key,
         launch[c].at \in Answers,
         launch' = [launch EXCEPT ![c] = NoLaunch], UNCHANGED <<backend, screen>>,
         \A j \in Keys : j # k => tab'[j] = tab[j],
         activeId' \in {activeId, k, NONE},
         \/ calls' = calls /\ (activeId' = activeId \/ calls = {})
         \/ \E m \in Keys \cup {NONE} :
              /\ calls = {} /\ calls' = {Focus(m)} /\ (m \in Keys => activeId' = m)
              /\ \A d \in Slots \ {c} : ~ByTab(d),
         wizard' = wizard \/ ByWizard(c),
         tab'[k].phase = "launching" => tab'[k].retryPending,
         tab'[k].retries > 0 /\ ~tab'[k].retryPending => tab'[k].phase = "error",
         tab'[k].phase = "error" => ~Running(k),
         Running(k) => tab'[k].phase # "closed",
         activeId' = k => tab'[k].phase \notin {"closed", "ready"},
         FrontInv'
  PROVE  TabScreenInv'
<1>1. /\ LaunchInv' /\ InFlight(c) /\ Launching(c, k)
      /\ \A d \in Slots : d # c => launch'[d] = launch[d]
      /\ \A d \in Slots : InFlight(d)' <=> InFlight(d) /\ d # c
      /\ \A d \in Slots : ByTab(d)' <=> ByTab(d) /\ d # c
      /\ \A d \in Slots : ByWizard(d)' <=> ByWizard(d) /\ d # c
      /\ \A j : InLaunch(j)' <=> InLaunch(j) /\ j # k
      /\ \A j : StoreLaunches(j)' <=> StoreLaunches(j) /\ j # k
  BY EndViews
<1>2. \A j : Running(j)' <=> Running(j)
  BY DEF Running
<1>3. \A j \in Keys : Close(j) \in calls <=> Close(j) \in calls'
  BY CallsDiffer
<1>4. OrderlyCalls'
  <2> USE DEF TabScreenInv, OrderlyCalls
  <2>1. /\ \A d \in Slots : InFlight(d)' => launch'[d].awaited
        /\ \A d, e \in Slots : InFlight(d)' /\ InFlight(e)' /\ launch'[d].key = launch'[e].key => d = e
        /\ \A d, e \in Slots : ByTab(d)' /\ ByTab(e)' => d = e
        /\ \A d, e \in Slots : ByWizard(d)' /\ ByWizard(e)' => d = e
    BY <1>1
  <2>2. /\ \A d \in Slots : ByTab(d)' => calls' = {}
        /\ \A d \in Slots : ByWizard(d)' => wizard'
    BY <1>1
  <2>3. \A j \in Keys : Focus(j) \in calls' => activeId' = j
    BY CallsDiffer
  <2>4. \A j \in Keys : Close(j) \in calls' => ~Open(j)' /\ ~InLaunch(j)'
    <3>1. ASSUME NEW j \in Keys, Close(j) \in calls' PROVE ~Open(j) /\ ~InLaunch(j) /\ j # k
      BY <1>1, <1>3, <3>1 DEF InLaunch
    <3>2. QED
      BY <1>1, <3>1 DEF Open
  <2>5. QED
    BY <2>1, <2>2, <2>3, <2>4
<1>5. ASSUME NEW j \in Keys PROVE TabIsTrue(j)'
  <2>1. CASE j = k
    <3>1. ~InLaunch(k)' /\ ~StoreLaunches(k)'
      BY <1>1
    <3>2. QED
      BY <1>2, <2>1, <3>1 DEF TabIsTrue, Open
  <2>2. CASE j # k
    <3>1. TabIsTrue(j) /\ j # NONE
      BY DesktopTabsAssumption DEF TabScreenInv
    <3>2. QED
      BY <1>1, <1>2, <1>3, <2>2, <3>1 DEF TabIsTrue, Open
  <2>3. QED
    BY <2>1, <2>2
<1>6. QED
  BY <1>1, <1>4, <1>5 DEF TabScreenInv

LEMMA WizardOpenedScreen ==
  ASSUME Orderly, TypeOK, TabScreenInv, NEW c \in Slots, WizardOpened(c)
  PROVE  TabScreenInv'
<1> DEFINE k == launch[c].key
<1>1. /\ launch[c].by = "wizard" /\ launch[c].at \in Answers
      /\ launch' = [launch EXCEPT ![c] = NoLaunch]
      /\ tab' = [tab EXCEPT ![k] = Fresh("running")]
      /\ wizard' = FALSE /\ activeId' = k /\ Reply({c}, {Focus(k)})
      /\ UNCHANGED <<backend, screen>>
  BY DEF WizardOpened, WizardAnswered, manager, Answers
<1>2. /\ k \in Keys /\ InFlight(c) /\ ByWizard(c)
      /\ \A d \in Slots : ByTab(d)' <=> ByTab(d) /\ d # c
  BY <1>1, EndViews DEF ByWizard
<1>3. k # NONE
  BY <1>2, DesktopTabsAssumption
<1>4. calls = {} /\ calls' = {Focus(k)} /\ \A d \in Slots \ {c} : ~ByTab(d)
  BY <1>1, ReplyAlone
<1>5. tab'[k] = Fresh("running") /\ \A j \in Keys : j # k => tab'[j] = tab[j]
  BY <1>1, <1>2 DEF TypeOK
<1> HIDE DEF k
<1>6. FrontInv'
  BY <1>1, <1>2, <1>3, <1>4, CallsDiffer DEF FrontInv, Shown
<1>7. k = launch[c].key
  BY DEF k
<1>8. tab'[k].phase = "running" /\ ~(tab'[k].retries > 0)
  BY <1>5 DEF Fresh
<1>9. \E m \in Keys \cup {NONE} :
        /\ calls = {} /\ calls' = {Focus(m)} /\ (m \in Keys => activeId' = m)
        /\ \A d \in Slots \ {c} : ~ByTab(d)
  BY <1>1, <1>2, <1>4
<1>10. QED
  BY <1>1, <1>2, <1>5, <1>6, <1>7, <1>8, <1>9, EndScreen

LEMMA WizardFailedScreen ==
  ASSUME Orderly, TypeOK, TabScreenInv, NEW c \in Slots, WizardFailed(c)
  PROVE  TabScreenInv'
<1> DEFINE k == launch[c].key
<1>1. /\ launch[c].by = "wizard" /\ launch[c].at \in Answers /\ launch[c].at # "ok"
      /\ launch' = [launch EXCEPT ![c] = NoLaunch]
      /\ Reply({c}, {Focus(NONE)})
      /\ UNCHANGED <<tab, activeId, wizard, backend, screen>>
  BY DEF WizardFailed, WizardAnswered, manager
<1>2. k \in Keys /\ InFlight(c) /\ ByWizard(c) /\ ~StoreLaunches(k)
  BY <1>1, EndViews DEF ByWizard
<1>3. calls = {} /\ calls' = {Focus(NONE)} /\ \A d \in Slots \ {c} : ~ByTab(d)
  BY <1>1, ReplyAlone
<1>4. ~Running(k)
  BY <1>1 DEF TabScreenInv, LaunchInv, NothingRuns
<1>5. wizard' = TRUE
  BY <1>1, <1>2 DEF TabScreenInv, OrderlyCalls, TypeOK
<1>6. FrontInv'
  BY <1>5 DEF FrontInv
<1>7. TabIsTrue(k) /\ NONE \notin Keys
  BY <1>2, DesktopTabsAssumption DEF TabScreenInv
<1>8. k = launch[c].key
  OBVIOUS
<1> HIDE DEF k
<1>9. QED
  BY <1>1, <1>2, <1>3, <1>4, <1>6, <1>7, <1>8, EndScreen DEF TabIsTrue

\* An answer the store waits for: whose launch it was, and what it leaves behind.
LEMMA AnsweredFacts ==
  ASSUME TypeOK, TabScreenInv, NEW c \in Slots, NEW a \in Answers, Answered(c, a)
  PROVE  /\ launch[c].at = a /\ launch[c].key \in Keys /\ InFlight(c)
         /\ launch[c].by \in {"tab", "timer"} /\ (ByTab(c) <=> launch[c].by = "tab")
         /\ Focused(c) <=> ByTab(c)
         /\ launch' = [launch EXCEPT ![c] = NoLaunch]
         /\ UNCHANGED <<wizard, poll, backend, screen>>
         /\ Open(launch[c].key)
         /\ a # "ok" => ~Running(launch[c].key) /\ ~Shown(c)
         /\ \A d \in Slots : Shown(d)' <=> Shown(d) /\ d # c
         /\ \A d \in Slots : d # c => launch'[d] = launch[d]
         /\ ~Shown(c) => (Showing' <=> Showing)
         /\ \A j : StoreLaunches(j)' <=> StoreLaunches(j) /\ j # launch[c].key
<1>1. /\ launch[c].at = a /\ launch[c].by # "wizard"
      /\ launch' = [launch EXCEPT ![c] = NoLaunch]
      /\ UNCHANGED <<wizard, poll, backend, screen>>
  BY DEF Answered, OfStore, manager
<1>2. /\ launch[c].key \in Keys /\ launch[c].by \in Callers /\ InFlight(c)
      /\ \A d \in Slots : Shown(d)' <=> Shown(d) /\ d # c
      /\ \A d \in Slots : d # c => launch'[d] = launch[d]
      /\ ~Shown(c) => (Showing' <=> Showing)
      /\ \A j : StoreLaunches(j)' <=> StoreLaunches(j) /\ j # launch[c].key
      /\ StoreLaunches(launch[c].key)
  BY <1>1, EndViews
<1>3. launch[c].by \in {"tab", "timer"}
  BY <1>1, <1>2 DEF Callers
<1>4. Open(launch[c].key)
  BY <1>2 DEF TabScreenInv, TabIsTrue
<1>5. a # "ok" => ~Running(launch[c].key) /\ ~Shown(c)
  BY <1>1 DEF TabScreenInv, LaunchInv, NothingRuns, Shown
<1>6. (ByTab(c) <=> launch[c].by = "tab") /\ (Focused(c) <=> ByTab(c))
  BY <1>2, <1>3 DEF ByTab, Focused
<1>7. QED
  BY <1>1, <1>2, <1>3, <1>4, <1>5, <1>6

LEMMA OpenedScreen ==
  ASSUME Orderly, TypeOK, TabScreenInv, NEW c \in Slots, Opened(c)
  PROVE  TabScreenInv'
<1> DEFINE k == launch[c].key
<1>1. /\ Answered(c, "ok") /\ tab' = [tab EXCEPT ![k] = Patched(tab[k], Fresh("running"))]
      /\ activeId' = IF Focused(c) THEN k ELSE activeId
      /\ IF Focused(c) THEN UNCHANGED calls ELSE Reply({c}, IfActive(k, {Focus(k)}))
  BY DEF Opened
<1>2. /\ launch[c].at = "ok" /\ k \in Keys /\ InFlight(c)
      /\ Focused(c) <=> ByTab(c)
      /\ launch' = [launch EXCEPT ![c] = NoLaunch]
      /\ UNCHANGED <<wizard, poll, backend, screen>>
      /\ Open(k)
      /\ \A d \in Slots : Shown(d)' <=> Shown(d) /\ d # c
      /\ \A d \in Slots : d # c => launch'[d] = launch[d]
      /\ ~Shown(c) => (Showing' <=> Showing)
      /\ \A j : StoreLaunches(j)' <=> StoreLaunches(j) /\ j # k
  BY <1>1, AnsweredFacts DEF Answers
<1>3. /\ tab'[k].phase = "running" /\ ~(tab'[k].retries > 0)
      /\ \A j \in Keys : j # k => tab'[j] = tab[j]
  BY <1>1, <1>2 DEF TypeOK, Patched, Open, Fresh
<1>4. k = launch[c].key /\ k # NONE
  BY <1>2, DesktopTabsAssumption
<1>5. \A j : Running(j)' <=> Running(j)
  BY <1>2 DEF Running
<1>6. launch[c].at \in Answers
  BY <1>2 DEF Answers
<1> HIDE DEF k
<1>7. CASE ByTab(c)
  <2>1. activeId' = k /\ calls' = calls /\ calls = {}
    BY <1>1, <1>2, <1>7 DEF TabScreenInv, OrderlyCalls
  <2>2. Shown(c) /\ \A d \in Slots : ~Shown(d)'
    BY <1>2, <1>7 DEF TabScreenInv, OrderlyCalls, Shown
  <2>3. ~wizard /\ Running(k) => screen = k
    BY <1>4, <2>2 DEF TabScreenInv, FrontInv
  <2>4. FrontInv'
    BY <1>2, <1>4, <1>5, <2>1, <2>2, <2>3 DEF FrontInv, Due
  <2>5. QED
    BY <1>2, <1>3, <1>4, <1>6, <2>1, <2>4, EndScreen
<1>8. CASE ~ByTab(c) /\ activeId = k
  <2>1. activeId' = k /\ Reply({c}, {Focus(k)})
    BY <1>1, <1>2, <1>8 DEF IfActive
  <2>2. calls = {} /\ calls' = {Focus(k)} /\ \A d \in Slots \ {c} : ~ByTab(d)
    BY <2>1, ReplyAlone
  <2>3. \A d \in Slots : ~Shown(d)'
    BY <1>2, <1>8, <2>2 DEF Shown
  <2>4. FrontInv'
    BY <1>4, <2>1, <2>2, <2>3, CallsDiffer DEF FrontInv
  <2>5. QED
    BY <1>2, <1>3, <1>4, <1>6, <2>1, <2>2, <2>4, EndScreen
<1>9. CASE ~ByTab(c) /\ activeId # k
  <2>1. activeId' = activeId /\ calls' = calls
    BY <1>1, <1>2, <1>9 DEF IfActive, Reply
  <2>2. ~Shown(c) /\ (Showing' <=> Showing) /\ \A d \in Slots : Shown(d)' => Shown(d) /\ launch'[d] = launch[d]
    BY <1>2, <1>9 DEF Shown
  <2>3. activeId # NONE => activeId \in Keys /\ tab'[activeId] = tab[activeId]
    BY <1>3, <1>9 DEF TypeOK
  <2>4. activeId # NONE /\ Due(activeId)' => Due(activeId)
    BY <1>2, <1>5, <1>9, <2>1, <2>3 DEF Due
  <2>5. FrontInv'
    <3>1. \A d \in Slots : Shown(d)' /\ Running(launch[d].key)' => Shown(d) /\ Running(launch[d].key)
      BY <1>2, <2>2 DEF Running
    <3>2. QED
      BY <1>2, <2>1, <2>2, <2>4, <3>1 DEF TabScreenInv, FrontInv
  <2>6. QED
    BY <1>2, <1>3, <1>4, <1>6, <1>9, <2>1, <2>5, EndScreen
<1>10. QED
  BY <1>7, <1>8, <1>9

\* An answer that brings no desktop and leaves the front to other tabs.
LEMMA NotOpenedFront ==
  ASSUME TypeOK, TabScreenInv, NEW c \in Slots, NEW a \in Answers \ {"ok"}, Answered(c, a),
         NEW k \in Keys, k = launch[c].key, tab'[k].phase # "running",
         \A j \in Keys : j # k => tab'[j] = tab[j],
         activeId' = activeId, calls' = calls
  PROVE  FrontInv'
<1>1. /\ UNCHANGED <<wizard, backend, screen>> /\ ~Shown(c)
      /\ \A d \in Slots : Shown(d)' <=> Shown(d) /\ d # c
      /\ \A d \in Slots : d # c => launch'[d] = launch[d]
      /\ Showing' <=> Showing
      /\ \A j : StoreLaunches(j)' <=> StoreLaunches(j) /\ j # k
  BY AnsweredFacts
<1>2. \A d \in Slots : Shown(d)' /\ Running(launch[d].key)' =>
        Shown(d) /\ Running(launch[d].key) /\ launch'[d] = launch[d]
  BY <1>1 DEF Running
<1>3. activeId # NONE => activeId \in Keys
  BY DEF TypeOK
<1>4. activeId # NONE /\ Due(activeId)' => Due(activeId)
  BY <1>1, <1>3 DEF Due, Running
<1>5. QED
  BY <1>1, <1>2, <1>4 DEF TabScreenInv, FrontInv

LEMMA UnreachableScreen ==
  ASSUME Orderly, TypeOK, TabScreenInv, NEW c \in Slots, Unreachable(c)
  PROVE  TabScreenInv'
<1> DEFINE k == launch[c].key
           s == [tab[k] EXCEPT !.retryPending = FALSE]
<1>1. /\ Answered(c, "unreachable") /\ tab' = [tab EXCEPT ![k] = Rescheduled(s)]
      /\ Reply({c}, IF Untroubled(s) THEN {} ELSE IfActive(k, {Focus(NONE)}))
      /\ activeId' = activeId
  BY DEF Unreachable
<1>2. /\ launch[c].at = "unreachable" /\ k \in Keys /\ InFlight(c)
      /\ launch' = [launch EXCEPT ![c] = NoLaunch]
      /\ UNCHANGED <<wizard, poll, backend, screen>>
      /\ Open(k) /\ ~Running(k)
      /\ \A d \in Slots : Shown(d)' <=> Shown(d) /\ d # c
  BY <1>1, AnsweredFacts DEF Answers
<1>3. /\ tab'[k] = Rescheduled(s) /\ \A j \in Keys : j # k => tab'[j] = tab[j]
  BY <1>1, <1>2 DEF TypeOK
<1>4. s \in Tab /\ s.phase # "closed" /\ ~s.retryPending
  BY <1>2 DEF TypeOK, Tab, Open
<1>5. ~Untroubled(s)
  BY <1>4 DEF Untroubled
<1>6. k = launch[c].key /\ k # NONE /\ launch[c].at \in Answers
  BY <1>2, DesktopTabsAssumption DEF Answers
<1> HIDE DEF k, s
<1>7. /\ tab'[k].phase = "launching" => tab'[k].retryPending
      /\ tab'[k].retries > 0 /\ ~tab'[k].retryPending => tab'[k].phase = "error"
      /\ tab'[k].phase \in {"launching", "error"}
  BY <1>3, <1>4, <1>5 DEF Rescheduled, Tab
<1>8. CASE activeId = k
  <2>1. Reply({c}, {Focus(NONE)})
    BY <1>1, <1>5, <1>8 DEF IfActive
  <2>2. calls = {} /\ calls' = {Focus(NONE)} /\ \A d \in Slots \ {c} : ~ByTab(d)
    BY <2>1, ReplyAlone
  <2>3. \A d \in Slots : ~Shown(d)'
    BY <1>2, <2>2 DEF Shown
  <2>4. FrontInv'
    BY <1>1, <1>6, <1>7, <1>8, <2>3 DEF FrontInv, Due
  <2>5. \E m \in Keys \cup {NONE} :
          /\ calls = {} /\ calls' = {Focus(m)} /\ (m \in Keys => activeId' = m)
          /\ \A d \in Slots \ {c} : ~ByTab(d)
    BY <2>2, DesktopTabsAssumption
  <2>6. QED
    BY <1>1, <1>2, <1>3, <1>6, <1>7, <1>8, <2>4, <2>5, EndScreen
<1>9. CASE activeId # k
  <2>1. calls' = calls
    BY <1>1, <1>5, <1>9 DEF IfActive, Reply
  <2>2. FrontInv'
    BY <1>1, <1>2, <1>3, <1>6, <1>7, <2>1, NotOpenedFront DEF Answers
  <2>3. QED
    BY <1>1, <1>2, <1>3, <1>6, <1>7, <1>9, <2>1, <2>2, EndScreen
<1>10. QED
  BY <1>8, <1>9

LEMMA FailedAnswer ==
  ASSUME TypeOK, TabScreenInv, NEW c \in Slots, NEW a \in Answers \ {"ok"}, Answered(c, a),
         tab' = [tab EXCEPT ![launch[c].key] = Failed(@)]
  PROVE  \E k \in Keys :
           /\ k = launch[c].key /\ tab'[k].phase = "error" /\ ~Running(k)
           /\ \A j \in Keys : j # k => tab'[j] = tab[j]
<1>1. launch[c].key \in Keys /\ Open(launch[c].key) /\ ~Running(launch[c].key)
  BY AnsweredFacts
<1>2. tab[launch[c].key] \in Tab
  BY <1>1 DEF TypeOK
<1>3. tab'[launch[c].key].phase = "error"
  BY <1>1, <1>2 DEF TypeOK, Failed, Patched, Open, Tab
<1>4. \A j \in Keys : j # launch[c].key => tab'[j] = tab[j]
  BY DEF TypeOK
<1>5. QED
  BY <1>1, <1>3, <1>4

LEMMA RefusedScreen ==
  ASSUME Orderly, TypeOK, TabScreenInv, NEW c \in Slots, Refused(c)
  PROVE  TabScreenInv'
<1>1. /\ Answered(c, "other") /\ tab' = [tab EXCEPT ![launch[c].key] = Failed(@)]
      /\ UNCHANGED <<activeId, calls>>
  BY DEF Refused
<1>2. PICK k \in Keys :
           /\ k = launch[c].key /\ tab'[k].phase = "error" /\ ~Running(k)
           /\ \A j \in Keys : j # k => tab'[j] = tab[j]
  BY <1>1, FailedAnswer DEF Answers
<1>3. /\ launch[c].at = "other" /\ launch' = [launch EXCEPT ![c] = NoLaunch]
      /\ UNCHANGED <<wizard, backend, screen>>
  BY <1>1, AnsweredFacts DEF Answers
<1>4. FrontInv'
  BY <1>1, <1>2, NotOpenedFront DEF Answers
<1>5. launch[c].at \in Answers
  BY <1>3 DEF Answers
<1>6. QED
  BY <1>1, <1>2, <1>3, <1>4, <1>5, EndScreen

LEMMA PasswordScreen ==
  ASSUME Orderly, TypeOK, TabScreenInv, NEW c \in Slots, PasswordMissing(c)
  PROVE  TabScreenInv'
<1>1. /\ Answered(c, "password") /\ tab' = [tab EXCEPT ![launch[c].key] = Failed(@)]
      /\ activeId' = NONE /\ Reply({c}, {Focus(NONE)})
  BY DEF PasswordMissing
<1>2. PICK k \in Keys :
           /\ k = launch[c].key /\ tab'[k].phase = "error" /\ ~Running(k)
           /\ \A j \in Keys : j # k => tab'[j] = tab[j]
  BY <1>1, FailedAnswer DEF Answers
<1>3. /\ launch[c].at = "password" /\ launch' = [launch EXCEPT ![c] = NoLaunch]
      /\ UNCHANGED <<wizard, backend, screen>>
      /\ \A d \in Slots : Shown(d)' <=> Shown(d) /\ d # c
  BY <1>1, AnsweredFacts DEF Answers
<1>4. calls = {} /\ calls' = {Focus(NONE)} /\ \A d \in Slots \ {c} : ~ByTab(d)
  BY <1>1, ReplyAlone
<1>5. FrontInv'
  BY <1>1, <1>3, <1>4 DEF FrontInv, Shown
<1>6. \E m \in Keys \cup {NONE} :
        /\ calls = {} /\ calls' = {Focus(m)} /\ (m \in Keys => activeId' = m)
        /\ \A d \in Slots \ {c} : ~ByTab(d)
  BY <1>4, DesktopTabsAssumption
<1>7. launch[c].at \in Answers /\ k # NONE
  BY <1>3, DesktopTabsAssumption DEF Answers
<1>8. QED
  BY <1>1, <1>2, <1>3, <1>5, <1>6, <1>7, EndScreen

-----------------------------------------------------------------------------
(* Polls, calls, closed tabs, the launches' own steps, the device.          *)

\* A poll's answer leaves every tab what TabIsTrue says, and makes none due.
LEMMA PolledIsTrue ==
  ASSUME MAX_SESSION_RECONNECTS > 0, TypeOK, TabScreenInv, NEW k \in Keys,
         tab'[k] = Polled(k), UNCHANGED <<launch, backend>>,
         activeId' = k => activeId = k /\ ~EndedClean(k),
         \A j \in Keys : Close(j) \in calls <=> Close(j) \in calls'
  PROVE  /\ TabIsTrue(k)'
         /\ Open(k)' <=> Open(k)
         /\ Due(k)' /\ activeId = k => Due(k) \/ wizard
         /\ EndedBadly(k) => ~Due(k)'
<1>1. TabIsTrue(k) /\ tab[k] \in Tab
  BY DEF TabScreenInv, TypeOK
<1>2. (InLaunch(k)' <=> InLaunch(k)) /\ (StoreLaunches(k)' <=> StoreLaunches(k))
  BY SameLaunches
<1>3. Running(k)' <=> Running(k)
  BY DEF Running
<1>4. StoreLaunches(k) => InLaunch(k)
  BY DEF StoreLaunches, InLaunch
<1>5. InLaunch(k) => StoreLaunches(k) \/ wizard
  BY DEF StoreLaunches, InLaunch, Launching, TabScreenInv, OrderlyCalls, ByWizard
<1>6. CASE EndedClean(k)
  <2>1. tab'[k].phase = "ready" /\ ~(tab'[k].retries > 0) /\ activeId' # k /\ Open(k)
    BY <1>6 DEF Polled, Fresh, EndedClean, Open
  <2>2. ~EndedBadly(k)
    BY <1>6 DEF EndedClean, EndedBadly
  <2>3. QED
    BY <1>1, <1>2, <1>3, <2>1, <2>2 DEF TabIsTrue, Due, Open
<1>7. CASE EndedBadly(k)
  <2>1. tab'[k] = Rescheduled(tab[k]) /\ ~Untroubled(tab[k]) /\ Open(k)
    BY <1>7 DEF Polled, EndedClean, EndedBadly, Heard, Untroubled, Open
  <2>2. CASE Capped(tab[k])
    <3>1. tab'[k].phase = "error" /\ tab[k].retries > 0 /\ ~tab[k].retryPending
      BY <1>1, <2>1, <2>2, DesktopTabsAssumption DEF Rescheduled, Tab, Capped, Untroubled
    <3>2. InLaunch(k) \/ ~Running(k)
      BY <1>1, <1>4, <3>1 DEF TabIsTrue
    <3>3. QED
      BY <1>2, <1>3, <2>1, <3>1, <3>2 DEF TabIsTrue, Due, Open
  <2>3. CASE ~Capped(tab[k])
    <3>1. tab'[k].phase = "launching" /\ tab'[k].retryPending
      BY <2>1, <2>3 DEF Rescheduled
    <3>2. QED
      BY <2>1, <3>1 DEF TabIsTrue, Due, Open
  <2>4. QED
    BY <2>2, <2>3
<1>8. CASE ~EndedClean(k) /\ ~EndedBadly(k) /\ Heard(k) /\ poll[k] = "running"
  <2>1. tab'[k].phase = "running" /\ ~(tab'[k].retries > 0) /\ Open(k) /\ ~tab[k].retryPending
    BY <1>8 DEF Polled, Fresh, Heard, Untroubled, Open
  <2>2. tab[k].phase \in {"launching", "running", "ready", "error"}
    BY <1>1, <2>1 DEF Tab, Phases, Open
  <2>3. ASSUME Due(k)', activeId = k PROVE Due(k) \/ wizard
    BY <1>1, <1>2, <1>3, <1>5, <2>1, <2>2, <2>3 DEF TabIsTrue, Due
  <2>4. QED
    BY <1>2, <1>3, <1>8, <2>1, <2>3 DEF TabIsTrue, Due, Open
<1>9. CASE ~EndedClean(k) /\ ~EndedBadly(k) /\ ~(Heard(k) /\ poll[k] = "running")
  <2>1. tab'[k] = tab[k]
    BY <1>9 DEF Polled
  <2>2. QED
    BY <1>1, <1>2, <1>3, <1>9, <2>1 DEF TabIsTrue, Due, Open
<1>10. QED
  BY <1>6, <1>7, <1>8, <1>9

LEMMA PollScreen ==
  ASSUME Orderly, MAX_SESSION_RECONNECTS > 0, TypeOK, TabScreenInv, PollAnswered
  PROVE  TabScreenInv'
<1> DEFINE hides == activeId # NONE /\ (EndedClean(activeId) \/ EndedBadly(activeId))
<1>1. /\ \A k \in Keys : tab'[k] = Polled(k)
      /\ activeId' = IF activeId # NONE /\ EndedClean(activeId) THEN NONE ELSE activeId
      /\ Reply({}, IF hides THEN {Focus(NONE)} ELSE {})
      /\ UNCHANGED <<wizard, launch, backend, screen>>
  BY DEF PollAnswered, Send, manager
<1>2. /\ NONE \notin Keys /\ activeId \in Keys \cup {NONE}
      /\ hides => calls = {} /\ calls' = {Focus(NONE)} /\ \A c \in Slots : ~ByTab(c)
      /\ ~hides => calls' = calls /\ activeId' = activeId
  <2>1. NONE \notin Keys /\ activeId \in Keys \cup {NONE}
    BY DesktopTabsAssumption DEF TypeOK
  <2>2. CASE hides
    BY <1>1, <2>1, <2>2, ReplyAlone
  <2>3. CASE ~hides
    BY <1>1, <2>1, <2>3 DEF Reply
  <2>4. QED
    BY <2>2, <2>3, <2>1
<1>3. \A j \in Keys : Close(j) \in calls <=> Close(j) \in calls'
  BY <1>2, CallsDiffer
<1>4. ASSUME NEW k \in Keys
      PROVE  /\ TabIsTrue(k)'
             /\ Open(k)' <=> Open(k)
             /\ Due(k)' /\ activeId = k => Due(k) \/ wizard
             /\ EndedBadly(k) => ~Due(k)'
  <2>1. activeId' = k => activeId = k /\ ~EndedClean(k)
    BY <1>1, <1>2
  <2>2. QED
    BY <1>1, <1>3, <2>1, PolledIsTrue
<1>5. /\ \A k : InLaunch(k)' <=> InLaunch(k)
      /\ \A c \in Slots : (ByTab(c)' <=> ByTab(c)) /\ (ByWizard(c)' <=> ByWizard(c))
      /\ \A c \in Slots : (InFlight(c)' <=> InFlight(c)) /\ (Shown(c)' <=> Shown(c))
      /\ Showing' <=> Showing
      /\ \A k : Running(k)' <=> Running(k)
  BY <1>1, SameLaunches DEF Running
<1>6. OrderlyCalls'
  <2>1. \A c \in Slots : ByTab(c)' => calls' = {}
    BY <1>2, <1>5 DEF TabScreenInv, OrderlyCalls
  <2>2. \A j \in Keys : Focus(j) \in calls' => activeId' = j
    BY <1>2, CallsDiffer DEF TabScreenInv, OrderlyCalls
  <2>3. \A j \in Keys : Close(j) \in calls' => ~Open(j)' /\ ~InLaunch(j)'
    BY <1>3, <1>4, <1>5 DEF TabScreenInv, OrderlyCalls
  <2>4. QED
    BY <1>1, <1>5, <2>1, <2>2, <2>3 DEF TabScreenInv, OrderlyCalls
<1>7. LaunchInv'
  BY LaunchInvKept, <1>1, <1>5, FlightTypes DEF TabScreenInv, NoLaunch
<1>8. FrontInv'
  <2>1. CASE hides
    <3>1. (\A c \in Slots : ~Shown(c)') /\ Focus(NONE) \in calls'
      BY <1>2, <1>5, <2>1 DEF Shown
    <3>2. activeId' # NONE => activeId' = activeId /\ EndedBadly(activeId)
      BY <1>1, <2>1
    <3>3. activeId' # NONE => ~Due(activeId)'
      BY <1>1, <1>2, <1>4, <3>2
    <3>4. QED
      BY <3>1, <3>3 DEF FrontInv
  <2>2. CASE ~hides
    <3>1. calls' = calls /\ activeId' = activeId
      BY <1>2, <2>2
    <3>2. activeId # NONE /\ Due(activeId)' => Due(activeId) \/ wizard
      BY <1>2, <1>4, <3>1
    <3>3. \A c \in Slots : Shown(c)' /\ Running(launch[c].key)' => Shown(c) /\ Running(launch[c].key)
      BY <1>1, <1>5 DEF Running
    <3>4. QED
      BY <1>1, <1>5, <3>1, <3>2, <3>3 DEF TabScreenInv, FrontInv
  <2>3. QED
    BY <2>1, <2>2
<1>9. QED
  BY <1>4, <1>6, <1>7, <1>8 DEF TabScreenInv

\* A step of the device, or one the screen has no part in.
LEMMA KeptScreen ==
  ASSUME TypeOK, TabScreenInv, UNCHANGED <<tab, activeId, wizard, launch, calls, screen>>,
         \A k \in Keys \cup {NONE} : Running(k)' => Running(k),
         \A k \in Keys : backend'[k] = "blank" => backend[k] = "blank"
  PROVE  TabScreenInv'
<1>1. /\ \A k : InLaunch(k)' <=> InLaunch(k)
      /\ \A k : StoreLaunches(k)' <=> StoreLaunches(k)
      /\ \A c \in Slots : (ByTab(c)' <=> ByTab(c)) /\ (ByWizard(c)' <=> ByWizard(c))
      /\ \A c \in Slots : (InFlight(c)' <=> InFlight(c)) /\ (Shown(c)' <=> Shown(c))
      /\ Showing' <=> Showing
      /\ \A k : Open(k)' <=> Open(k)
  BY SameLaunches DEF Open
<1>2. \A c \in Slots : launch[c].key \in Keys \cup {NONE}
  BY FlightTypes DEF NoLaunch
<1>3. OrderlyCalls'
  BY <1>1 DEF TabScreenInv, OrderlyCalls
<1>4. LaunchInv'
  BY <1>2, LaunchInvKept DEF TabScreenInv
<1>5. ASSUME NEW k \in Keys PROVE TabIsTrue(k)'
  <2>1. TabIsTrue(k) /\ (Running(k)' => Running(k))
    BY DEF TabScreenInv
  <2>2. QED
    BY <1>1, <2>1 DEF TabIsTrue
<1>6. FrontInv'
  <2>1. \A c \in Slots : Shown(c)' /\ Running(launch[c].key)' => Shown(c) /\ Running(launch[c].key)
    <3>1. ASSUME NEW c \in Slots, NEW k, k = launch[c].key, Running(k)' PROVE Running(k)
      BY <1>2, <3>1
    <3>2. QED
      BY <1>1, <3>1
  <2>2. activeId # NONE /\ Due(activeId)' => Due(activeId)
    <3>1. activeId \in Keys \cup {NONE}
      BY DEF TypeOK
    <3>2. \A k \in Keys : Due(k)' => Due(k)
      BY <1>1 DEF Due
    <3>3. QED
      BY <3>1, <3>2
  <2>3. QED
    BY <1>1, <2>1, <2>2 DEF TabScreenInv, FrontInv
<1>7. QED
  BY <1>3, <1>4, <1>5, <1>6 DEF TabScreenInv

LEMMA DeviceScreen ==
  ASSUME TypeOK, TabScreenInv, NEW k \in Keys, Frame(k) \/ Exit(k)
  PROVE  TabScreenInv'
<1>1. /\ UNCHANGED <<tab, activeId, wizard, launch, calls, screen>>
      /\ Running(k)
      /\ \E b \in {"usable", "exited", "failed"} : backend' = [backend EXCEPT ![k] = b]
  BY DEF Frame, Exit, store, Running
<1>2. \A j : j # k => (Running(j)' <=> Running(j))
  BY <1>1 DEF Running, TypeOK
<1>3. \A j \in Keys : backend'[j] = "blank" => backend[j] = "blank"
  BY <1>1 DEF TypeOK
<1>4. \A j \in Keys \cup {NONE} : Running(j)' => Running(j)
  BY <1>1, <1>2
<1>5. QED
  BY <1>1, <1>3, <1>4, KeptScreen

LEMMA FocusScreen ==
  ASSUME TypeOK, TabScreenInv, NEW k \in Keys \cup {NONE}, RunFocus(k)
  PROVE  TabScreenInv'
<1>1. /\ Focus(k) \in calls /\ calls' = calls \ {Focus(k)}
      /\ screen' = IF k = NONE \/ Running(k) THEN k ELSE screen
      /\ UNCHANGED <<tab, activeId, wizard, launch, backend>>
  BY DEF RunFocus, store
<1>2. /\ \A j : InLaunch(j)' <=> InLaunch(j)
      /\ \A j : StoreLaunches(j)' <=> StoreLaunches(j)
      /\ \A c \in Slots : (ByTab(c)' <=> ByTab(c)) /\ (ByWizard(c)' <=> ByWizard(c))
      /\ \A c \in Slots : (InFlight(c)' <=> InFlight(c)) /\ (Shown(c)' <=> Shown(c))
      /\ \A j : (Open(j)' <=> Open(j)) /\ (Running(j)' <=> Running(j))
  BY <1>1, SameLaunches DEF Open, Running
<1>3. \A c \in Slots : ~ByTab(c)
  BY <1>1 DEF TabScreenInv, OrderlyCalls
<1>4. \A j \in Keys : Close(j) \in calls' <=> Close(j) \in calls
  BY <1>1, CallsDiffer
<1>5. OrderlyCalls'
  BY <1>1, <1>2, <1>3 DEF TabScreenInv, OrderlyCalls
<1>6. LaunchInv'
  BY LaunchInvKept, <1>1, <1>2, FlightTypes DEF TabScreenInv, NoLaunch
<1>7. ASSUME NEW j \in Keys PROVE TabIsTrue(j)'
  BY <1>1, <1>2, <1>4 DEF TabScreenInv, TabIsTrue
<1>8. FrontInv'
  <2>1. NONE \notin Keys /\ \A c \in Slots : ~Shown(c) /\ ~Shown(c)'
    BY <1>2, <1>3, DesktopTabsAssumption DEF Shown
  <2>2. k # NONE => activeId = k
    BY <1>1 DEF TabScreenInv, OrderlyCalls
  <2>3. activeId \in Keys => (Due(activeId)' <=> Due(activeId))
    BY <1>1, <1>2 DEF Due
  <2>4. activeId \in Keys \cup {NONE}
    BY DEF TypeOK
  <2>5. ASSUME ~wizard, activeId = NONE PROVE screen' = NONE
    BY <1>1, <2>1, <2>2, <2>5
  <2>6. ASSUME ~wizard, activeId # NONE, Due(activeId)
        PROVE  Focus(NONE) \notin calls /\ k = activeId /\ screen' = activeId
    BY <1>1, <2>2, <2>6 DEF TabScreenInv, FrontInv, Due
  <2>7. QED
    BY <1>1, <2>1, <2>3, <2>4, <2>5, <2>6 DEF FrontInv
<1>9. QED
  BY <1>5, <1>6, <1>7, <1>8 DEF TabScreenInv

LEMMA CloseScreen ==
  ASSUME TypeOK, TabScreenInv, NEW k \in Keys, RunClose(k)
  PROVE  TabScreenInv'
<1>1. /\ Close(k) \in calls /\ calls' = calls \ {Close(k)}
      /\ backend' = [backend EXCEPT ![k] = "notRunning"]
      /\ screen' = IF screen = k THEN NONE ELSE screen
      /\ UNCHANGED <<tab, activeId, wizard, launch>>
  BY DEF RunClose, Withdraw, store
<1>2. /\ \A j : InLaunch(j)' <=> InLaunch(j)
      /\ \A j : StoreLaunches(j)' <=> StoreLaunches(j)
      /\ \A c \in Slots : (ByTab(c)' <=> ByTab(c)) /\ (ByWizard(c)' <=> ByWizard(c))
      /\ \A c \in Slots : (InFlight(c)' <=> InFlight(c)) /\ (Shown(c)' <=> Shown(c))
      /\ \A j : Open(j)' <=> Open(j)
  BY <1>1, SameLaunches DEF Open
<1>3. ~Running(k)' /\ \A j : j # k => (Running(j)' <=> Running(j))
  BY <1>1 DEF Running, TypeOK
<1>4. (\A c \in Slots : ~ByTab(c)) /\ ~Open(k)
  BY <1>1 DEF TabScreenInv, OrderlyCalls
<1>5. \A j \in Keys : j # k => (Close(j) \in calls' <=> Close(j) \in calls)
  BY <1>1, CallsDiffer
<1>6. OrderlyCalls'
  BY <1>1, <1>2, <1>4 DEF TabScreenInv, OrderlyCalls
<1>7. LaunchInv'
  <2>1. \A j \in Keys : backend'[j] = "blank" => backend[j] = "blank"
    BY <1>1 DEF TypeOK
  <2>2. \A j \in Keys \cup {NONE} : Running(j)' => Running(j)
    BY <1>3
  <2>3. \A c \in Slots : launch[c].key \in Keys \cup {NONE}
    BY FlightTypes DEF NoLaunch
  <2>4. QED
    BY <1>1, <2>1, <2>2, <2>3, LaunchInvKept DEF TabScreenInv
<1>8. ASSUME NEW j \in Keys PROVE TabIsTrue(j)'
  <2>1. TabIsTrue(j)
    BY DEF TabScreenInv
  <2>2. QED
    BY <1>1, <1>2, <1>3, <1>5, <2>1 DEF TabIsTrue
<1>9. FrontInv'
  <2>1. \A c \in Slots : ~Shown(c) /\ ~Shown(c)'
    BY <1>2, <1>4 DEF Shown
  <2>2. activeId \in Keys \cup {NONE} /\ activeId # k
    BY <1>4 DEF TypeOK, TabScreenInv, TabIsTrue, Open
  <2>3. activeId \in Keys => (Due(activeId)' <=> Due(activeId))
    BY <1>1, <1>2, <1>3, <2>2 DEF Due
  <2>4. \A m : Focus(m) \in calls' <=> Focus(m) \in calls
    BY <1>1, CallsDiffer
  <2>5. QED
    BY <1>1, <2>1, <2>2, <2>3, <2>4 DEF TabScreenInv, FrontInv, Showing
<1>10. QED
  BY <1>6, <1>7, <1>8, <1>9 DEF TabScreenInv

LEMMA CloseTabScreen ==
  ASSUME Orderly, TypeOK, TabScreenInv, NEW k \in Keys, CloseTab(k)
  PROVE  TabScreenInv'
<1>1. /\ Open(k) /\ ~InLaunch(k) /\ tab' = [tab EXCEPT ![k] = NoTab]
      /\ UNCHANGED <<wizard, launch, backend, screen>>
  BY AloneIsAlone DEF CloseTab, manager
<1>2. /\ tab'[k].phase = "closed" /\ ~(tab'[k].retries > 0)
      /\ \A j \in Keys : j # k => tab'[j] = tab[j]
  BY <1>1 DEF TypeOK, NoTab
<1>3. /\ calls = {} /\ \A c \in Slots : ~ByTab(c)
      /\ \/ activeId # k /\ activeId' = activeId /\ calls' = {Close(k)}
         \/ /\ activeId = k /\ activeId' # k /\ activeId' \in Keys \cup {NONE}
            /\ activeId' # NONE => tab[activeId'].phase = "running"
            /\ calls' = {Close(k), Focus(activeId')}
  <2>1. CASE activeId # k
    BY <2>1, ReplyAlone DEF CloseTab, Send
  <2>2. CASE activeId = k
    <3>1. PICK n \in NextInFront(k) : activeId' = n /\ Reply({}, {Close(k), Focus(n)})
      BY <2>2 DEF CloseTab, Send
    <3>2. n \in Keys \cup {NONE} /\ n # k /\ (n # NONE => tab[n].phase = "running")
      BY <3>1, DesktopTabsAssumption DEF NextInFront
    <3>3. QED
      BY <2>2, <3>1, <3>2, ReplyAlone
  <2>3. QED
    BY <2>1, <2>2
<1>4. /\ \A j : InLaunch(j)' <=> InLaunch(j)
      /\ \A j : StoreLaunches(j)' <=> StoreLaunches(j)
      /\ \A c \in Slots : (ByTab(c)' <=> ByTab(c)) /\ (ByWizard(c)' <=> ByWizard(c))
      /\ \A c \in Slots : (InFlight(c)' <=> InFlight(c)) /\ (Shown(c)' <=> Shown(c))
      /\ \A j : Running(j)' <=> Running(j)
  BY <1>1, SameLaunches DEF Running
<1>5. OrderlyCalls'
  <2>1. \A j \in Keys : Focus(j) \in calls' => activeId' = j
    BY <1>3, CallsDiffer
  <2>2. \A j \in Keys : Close(j) \in calls' => ~Open(j)' /\ ~InLaunch(j)'
    BY <1>1, <1>2, <1>3, <1>4, CallsDiffer DEF Open
  <2>3. QED
    BY <1>1, <1>3, <1>4, <2>1, <2>2 DEF TabScreenInv, OrderlyCalls
<1>6. LaunchInv'
  BY LaunchInvKept, <1>1, <1>4, FlightTypes DEF TabScreenInv, NoLaunch
<1>7. ASSUME NEW j \in Keys PROVE TabIsTrue(j)'
  <2>1. TabIsTrue(j)
    BY DEF TabScreenInv
  <2>2. CASE j = k
    <3>1. ~StoreLaunches(k) /\ activeId' # k /\ Close(k) \in calls'
      BY <1>1, <1>3 DEF StoreLaunches, InLaunch
    <3>2. QED
      BY <1>2, <1>4, <2>2, <3>1 DEF TabIsTrue
  <2>3. CASE j # k
    <3>1. Close(j) \notin calls /\ tab'[j] = tab[j]
      BY <1>2, <1>3, <2>3
    <3>2. activeId' = j => tab[j].phase \notin {"closed", "ready"}
      BY <1>3, <2>1, <2>3, DesktopTabsAssumption DEF TabIsTrue
    <3>3. QED
      BY <1>4, <2>1, <3>1, <3>2 DEF TabIsTrue, Open
  <2>4. QED
    BY <2>2, <2>3
<1>8. FrontInv'
  <2>1. \A c \in Slots : ~Shown(c) /\ ~Shown(c)'
    BY <1>3, <1>4 DEF Shown
  <2>2. CASE activeId # k
    <3>1. activeId \in Keys \cup {NONE} /\ activeId' = activeId /\ calls' = {Close(k)}
      BY <1>3, <2>2 DEF TypeOK
    <3>2. activeId \in Keys => (Due(activeId)' <=> Due(activeId))
      BY <1>2, <1>4, <2>2, <3>1 DEF Due
    <3>3. \A m : Focus(m) \notin calls /\ Focus(m) \notin calls'
      BY <1>3, <3>1, CallsDiffer
    <3>4. QED
      BY <1>1, <2>1, <3>1, <3>2, <3>3 DEF TabScreenInv, FrontInv, Showing
  <2>3. CASE activeId = k
    <3>1. Focus(activeId') \in calls' /\ (activeId' # NONE => Focus(NONE) \notin calls')
      BY <1>3, <2>3, CallsDiffer
    <3>2. QED
      BY <2>1, <3>1 DEF FrontInv
  <2>4. QED
    BY <2>2, <2>3
<1>9. QED
  BY <1>5, <1>6, <1>7, <1>8 DEF TabScreenInv

\* What has to be shown of a step of launch_session: where it leads, and that the
\* session and the screen go with it.
LEMMA LaunchMoves ==
  ASSUME TypeOK, TabScreenInv, NEW c \in Slots, NEW k \in Keys, k = launch[c].key, InFlight(c),
         launch[c].at \in Stages, NEW a \in Stages \cup Answers,
         launch' = [launch EXCEPT ![c].at = a],
         UNCHANGED <<tab, activeId, wizard, calls>>,
         \A j \in Keys : j # k => backend'[j] = backend[j],
         a \in NothingRuns => ~Running(k)',
         a = "show" => launch[c].by # "timer",
         backend'[k] = "blank" => a \in Waiting,
         \/ screen' = screen
         \/ screen = k /\ screen' = NONE /\ ~Running(k)'
         \/ screen' = k /\ a = "ok" /\ launch[c].by # "timer",
         a = "ok" /\ ByTab(c) /\ Running(k)' => screen' = k
  PROVE  TabScreenInv'
<1>1. /\ launch'[c].at = a /\ launch'[c].key = k /\ launch'[c].by = launch[c].by
      /\ launch'[c].awaited = launch[c].awaited
      /\ \A d \in Slots : d # c => launch'[d] = launch[d]
      /\ a # "free"
  BY DEF TypeOK, Launch, NoLaunch, Stages, Answers
<1>2. /\ \A d \in Slots : InFlight(d)' <=> InFlight(d)
      /\ \A d \in Slots : launch'[d].key = launch[d].key /\ launch'[d].by = launch[d].by
                          /\ launch'[d].awaited = launch[d].awaited
  BY <1>1 DEF InFlight
<1>3. /\ \A j : \A d \in Slots : Launching(d, j)' <=> Launching(d, j)
      /\ \A d \in Slots : (ByTab(d)' <=> ByTab(d)) /\ (ByWizard(d)' <=> ByWizard(d))
  BY <1>2 DEF Launching, ByTab, ByWizard
<1>4. /\ \A j : InLaunch(j)' <=> InLaunch(j)
      /\ \A j : StoreLaunches(j)' <=> StoreLaunches(j)
  BY <1>2, <1>3 DEF InLaunch, StoreLaunches
<1>5. /\ \A j \in Keys : j # k => (Running(j)' <=> Running(j))
      /\ \A j : Open(j)' <=> Open(j)
  BY DEF Running, Open
<1>6. \A d \in Slots : InFlight(d) /\ d # c => launch[d].key \in Keys /\ launch[d].key # k
  BY FlightTypes DEF TabScreenInv, OrderlyCalls
<1>7. Launching(c, k)
  BY DEF Launching
<1>8. OrderlyCalls'
  BY <1>2, <1>3, <1>4, <1>5 DEF TabScreenInv, OrderlyCalls
<1>9. LaunchInv'
  <2>1. ASSUME NEW d \in Slots, launch'[d].at \in NothingRuns
        PROVE  ~Running(launch[d].key)'
    <3>1. CASE d = c
      BY <1>1, <2>1, <3>1 DEF Running
    <3>2. CASE d # c
      <4>1. launch'[d] = launch[d] /\ InFlight(d)
        BY <1>1, <2>1, <3>2 DEF InFlight, NothingRuns, Answers
      <4>2. backend'[launch[d].key] = backend[launch[d].key]
        BY <1>6, <3>2, <4>1
      <4>3. ~Running(launch[d].key)
        BY <2>1, <4>1 DEF TabScreenInv, LaunchInv
      <4>4. QED
        BY <4>1, <4>2, <4>3 DEF Running
    <3>3. QED
      BY <3>1, <3>2
  <2>2. \A d \in Slots : launch'[d].at = "show" => launch'[d].by # "timer"
    BY <1>1 DEF TabScreenInv, LaunchInv
  <2>3. ASSUME NEW j \in Keys, backend'[j] = "blank"
        PROVE  \E d \in Slots : Launching(d, j)' /\ launch'[d].at \in Waiting
    <3>1. CASE j = k
      BY <1>1, <1>3, <1>7, <2>3, <3>1
    <3>2. CASE j # k
      <4>1. PICK d \in Slots : Launching(d, j) /\ launch[d].at \in Waiting
        BY <2>3, <3>2 DEF TabScreenInv, LaunchInv
      <4>2. d # c
        BY <3>2, <4>1 DEF Launching
      <4>3. QED
        BY <1>1, <1>3, <4>1, <4>2
    <3>3. QED
      BY <3>1, <3>2
  <2>4. QED
    BY <2>1, <2>2, <2>3 DEF LaunchInv
<1>10. ASSUME NEW j \in Keys PROVE TabIsTrue(j)'
  <2>1. TabIsTrue(j)
    BY DEF TabScreenInv
  <2>2. j = k => InLaunch(j)
    BY <1>7 DEF InLaunch
  <2>3. QED
    BY <1>4, <1>5, <2>1, <2>2 DEF TabIsTrue
<1>11. FrontInv'
  <2> SUFFICES ASSUME ~wizard PROVE FrontInv'
    BY DEF FrontInv
  <2>1. launch[c].by \in {"tab", "timer"} /\ StoreLaunches(k) /\ ~Shown(c)
    BY <1>7, FlightTypes DEF TabScreenInv, OrderlyCalls, ByWizard, Callers, StoreLaunches, Shown,
       Stages
  <2>2. \A d \in Slots : d # c => (Shown(d)' <=> Shown(d))
    BY <1>1, <1>3 DEF Shown
  <2>3. Showing => Showing'
    BY <2>1, <2>2 DEF Showing
  <2>4. \A j \in Keys : Due(j)' => Due(j) /\ j # k
    BY <1>4, <1>5, <2>1 DEF Due
  <2>5. activeId \in Keys \cup {NONE}
    BY DEF TypeOK
  <2>6. ASSUME NEW d \in Slots, Shown(d)', Running(launch[d].key)', d # c
        PROVE  screen = launch[d].key /\ launch[d].key # k
    <3>1. Shown(d) /\ launch'[d] = launch[d] /\ launch[d].key # k /\ launch[d].key \in Keys
      BY <1>1, <1>6, <2>2, <2>6 DEF Shown, ByTab
    <3>2. Running(launch[d].key)
      BY <2>6, <3>1 DEF Running
    <3>3. QED
      BY <3>1, <3>2 DEF TabScreenInv, FrontInv
  <2>7. CASE screen' = k /\ a = "ok" /\ launch[c].by # "timer"
    <3>1. ByTab(c) /\ Shown(c)' /\ calls = {}
      BY <1>1, <1>3, <2>1, <2>7 DEF ByTab, Shown, TabScreenInv, OrderlyCalls
    <3>2. \A d \in Slots : d # c => ~Shown(d)'
      BY <1>3, <3>1 DEF Shown, TabScreenInv, OrderlyCalls
    <3>3. QED
      BY <1>1, <2>7, <3>1, <3>2 DEF FrontInv, Showing
  <2>8. CASE screen' = screen \/ (screen = k /\ screen' = NONE /\ ~Running(k)')
    <3>1. ASSUME NEW d \in Slots, Shown(d)', Running(launch[d].key)'
          PROVE  screen' = launch[d].key
      <4>1. CASE d = c
        BY <1>1, <1>3, <3>1, <4>1 DEF Shown, Running
      <4>2. CASE d # c
        BY <2>6, <2>8, <3>1, <4>2
      <4>3. QED
        BY <4>1, <4>2
    <3>2. ASSUME activeId = NONE
          PROVE  screen' = NONE \/ Focus(NONE) \in calls \/ Showing'
      BY <2>3, <2>8, <3>2 DEF TabScreenInv, FrontInv
    <3>3. ASSUME activeId # NONE, Due(activeId)'
          PROVE  /\ Focus(NONE) \notin calls
                 /\ screen' = activeId \/ Focus(activeId) \in calls \/ Showing'
      <4>1. Due(activeId) /\ activeId # k
        BY <2>4, <2>5, <3>3
      <4>2. QED
        BY <2>3, <2>8, <3>3, <4>1 DEF TabScreenInv, FrontInv
    <3>4. \A d \in Slots : launch'[d].key = launch[d].key
      BY <1>2
    <3>5. QED
      BY <3>1, <3>2, <3>3, <3>4 DEF FrontInv
  <2>9. QED
    BY <2>7, <2>8
<1>12. QED
  BY <1>8, <1>9, <1>10, <1>11 DEF TabScreenInv

LEMMA LaunchScreen ==
  ASSUME TypeOK, TabScreenInv, NEW c \in Slots, LaunchStep(c)
  PROVE  TabScreenInv'
<1>1. PICK k \in Keys : k = launch[c].key
  BY LaunchStepEffect, FlightTypes DEF InFlight
<1>2. /\ UNCHANGED <<tab, activeId, wizard, calls>> /\ InFlight(c)
      /\ launch[c].by \in Callers
  BY LaunchStepEffect, FlightTypes DEF store, InFlight
<1>3. /\ launch[c].at \notin Waiting => backend[k] # "blank"
      /\ launch[c].at \in NothingRuns => ~Running(k)
  BY <1>1, <1>2 DEF TabScreenInv, LaunchInv, OrderlyCalls, Launching
<1>4. ASSUME NEW a \in Stages \cup Answers, launch' = [launch EXCEPT ![c].at = a],
             launch[c].at \in Stages, UNCHANGED manager, backend[k] # "blank",
             a \in NothingRuns => ~Running(k),
             a = "show" => launch[c].by # "timer",
             a # "ok" \/ launch[c].by = "timer" \/ screen = k \/ ~Running(k)
      PROVE  TabScreenInv'
  BY <1>1, <1>2, <1>4, LaunchMoves DEF manager, Running, ByTab
<1>5. ASSUME NEW a \in (Stages \cup Answers) \ {"ok", "show"}, launch' = [launch EXCEPT ![c].at = a],
             launch[c].at \in Stages, Withdraw(k)
      PROVE  TabScreenInv'
  <2>1. /\ \A j \in Keys : j # k => backend'[j] = backend[j]
        /\ backend'[k] = "notRunning" /\ ~Running(k)'
        /\ screen' = screen \/ (screen = k /\ screen' = NONE)
    BY <1>5 DEF Withdraw, TypeOK, Running
  <2>2. QED
    BY <1>1, <1>2, <1>5, <2>1, LaunchMoves
<1>6. /\ Done(c) \in {"show", "ok"} /\ (Done(c) = "show" => launch[c].by # "timer")
      /\ Done(c) = "ok" => launch[c].by = "timer"
      /\ {"show", "ok"} \cap NothingRuns = {} /\ {"show", "ok"} \subseteq Stages \cup Answers
  BY <1>2 DEF Done, Focused, NothingRuns, Answers, Stages
<1>7. CASE LaunchBegin(c)
  <2>1. launch[c].at = "begin" /\ UNCHANGED manager /\ backend[k] # "blank"
    BY <1>3, <1>7 DEF LaunchBegin, At, Waiting
  <2>2. CASE backend[k] = "usable"
    BY <1>1, <1>4, <1>6, <1>7, <2>1, <2>2 DEF LaunchBegin, Go, Stages
  <2>3. CASE backend[k] # "usable"
    BY <1>1, <1>4, <1>7, <2>1, <2>3 DEF LaunchBegin, Go, Stages, Running
  <2>4. QED
    BY <2>2, <2>3
<1>8. CASE LaunchPrepareFails(c)
  <2>1. PICK a \in Answers \ {"ok"} : launch' = [launch EXCEPT ![c].at = a]
    BY <1>8 DEF LaunchPrepareFails, Go
  <2>2. launch[c].at = "prepare" /\ UNCHANGED manager
    BY <1>8 DEF LaunchPrepareFails, At
  <2>3. ~Running(k) /\ backend[k] # "blank"
    BY <1>3, <2>2 DEF NothingRuns, Running
  <2>4. a # "show" /\ launch[c].at \in Stages
    BY <2>1, <2>2 DEF Answers, Stages
  <2>5. QED
    BY <1>4, <2>1, <2>2, <2>3, <2>4
<1>9. CASE LaunchPrepared(c)
  BY <1>1, <1>5, <1>9 DEF LaunchPrepared, At, Go, Stages
<1>10. CASE LaunchInstall(c)
  <2>1. PICK a \in Waiting : launch' = [launch EXCEPT ![c].at = a]
    BY <1>10 DEF LaunchInstall, Go, Waiting
  <2>2. /\ launch[c].at \in Stages /\ screen' = screen
        /\ backend' = [backend EXCEPT ![k] = "blank"]
    BY <1>1, <1>10 DEF LaunchInstall, Installing, At, Stages
  <2>3. a \in Stages \cup Answers /\ a \notin NothingRuns /\ a # "show" /\ a # "ok"
    BY <2>1 DEF Waiting, Stages, NothingRuns, Answers
  <2>4. \A j \in Keys : j # k => backend'[j] = backend[j]
    BY <2>2 DEF TypeOK
  <2>5. QED
    BY <1>1, <1>2, <2>1, <2>2, <2>3, <2>4, LaunchMoves
<1>11. CASE LaunchCreateFails(c)
  <2>1. /\ launch' = [launch EXCEPT ![c].at = "other"] /\ UNCHANGED manager
        /\ launch[c].at \in Stages /\ launch[c].at \in NothingRuns
    BY <1>11 DEF LaunchCreateFails, Installing, At, Go, Stages, NothingRuns
  <2>2. ~Running(k) /\ backend[k] # "blank" /\ "other" \in Stages \cup Answers
    BY <1>3, <2>1 DEF Running, Answers
  <2>3. QED
    BY <1>4, <2>1, <2>2
<1>12. CASE LaunchUsable(c)
  <2>1. /\ launch' = [launch EXCEPT ![c].at = Done(c)] /\ UNCHANGED manager
        /\ launch[c].at \in Stages /\ backend[k] # "blank"
    BY <1>1, <1>12 DEF LaunchUsable, At, Go, Stages
  <2>2. QED
    BY <1>4, <1>6, <2>1
<1>13. CASE LaunchUnusable(c)
  BY <1>1, <1>5, <1>13 DEF LaunchUnusable, At, Go, Stages, Answers
<1>14. CASE LaunchRepairFails(c)
  <2>1. /\ launch' = [launch EXCEPT ![c].at = "other"] /\ UNCHANGED manager
        /\ launch[c].at \in Stages /\ launch[c].at \in NothingRuns
    BY <1>14 DEF LaunchRepairFails, At, Go, Stages, NothingRuns
  <2>2. ~Running(k) /\ backend[k] # "blank" /\ "other" \in Stages \cup Answers
    BY <1>3, <2>1 DEF Running, Answers
  <2>3. QED
    BY <1>4, <2>1, <2>2
<1>15. CASE LaunchRepaired(c)
  BY <1>1, <1>5, <1>15 DEF LaunchRepaired, At, Go, Stages
<1>16. CASE LaunchShow(c)
  <2>1. /\ launch[c].at = "show" /\ backend' = backend
        /\ launch' = [launch EXCEPT ![c].at = IF screen = k \/ Running(k) THEN "ok" ELSE "other"]
        /\ screen' = IF Running(k) THEN k ELSE screen
    BY <1>1, <1>16 DEF LaunchShow, At, Go
  <2>2. launch[c].at \in Stages /\ backend[k] # "blank" /\ launch[c].by # "timer"
    BY <1>3, <2>1 DEF Stages, Waiting, TabScreenInv, LaunchInv
  <2>3. CASE Running(k)
    <3>1. launch' = [launch EXCEPT ![c].at = "ok"] /\ screen' = k
      BY <2>1, <2>3
    <3>2. "ok" \in Stages \cup Answers /\ "ok" \notin NothingRuns
      BY DEF Answers, NothingRuns
    <3>3. QED
      BY <1>1, <1>2, <2>1, <2>2, <3>1, <3>2, LaunchMoves
  <2>4. CASE ~Running(k)
    <3>1. UNCHANGED manager
      BY <2>1, <2>4 DEF manager
    <3>2. PICK a \in {"ok", "other"} : launch' = [launch EXCEPT ![c].at = a]
      BY <2>1
    <3>3. a \in Stages \cup Answers /\ a # "show"
      BY <3>2 DEF Answers
    <3>4. QED
      BY <1>4, <2>2, <2>4, <3>1, <3>2, <3>3
  <2>5. QED
    BY <2>3, <2>4
<1>17. QED
  BY <1>7, <1>8, <1>9, <1>10, <1>11, <1>12, <1>13, <1>14, <1>15, <1>16 DEF LaunchStep

-----------------------------------------------------------------------------
LEMMA InitScreen == Init => TabScreenInv
<1> SUFFICES ASSUME Init PROVE TabScreenInv
  OBVIOUS
<1>1. /\ \A c \in Slots : launch[c] = NoLaunch
      /\ \A k \in Keys : tab[k] = NoTab /\ backend[k] = "notRunning"
      /\ calls = {} /\ activeId = NONE /\ screen = NONE
  BY DEF Init
<1>2. \A c \in Slots : ~InFlight(c) /\ launch[c].at \notin NothingRuns /\ launch[c].at # "show"
  BY <1>1 DEF InFlight, NoLaunch, NothingRuns, Answers
<1>3. OrderlyCalls
  BY <1>1, <1>2 DEF OrderlyCalls, ByTab, ByWizard
<1>4. LaunchInv
  BY <1>1, <1>2 DEF LaunchInv
<1>5. ASSUME NEW k \in Keys PROVE TabIsTrue(k)
  <2>1. ~InLaunch(k) /\ ~StoreLaunches(k) /\ ~Running(k) /\ activeId # k
    BY <1>1, <1>2, DesktopTabsAssumption DEF InLaunch, StoreLaunches, Launching, Running
  <2>2. tab[k].phase = "closed" /\ ~(tab[k].retries > 0)
    BY <1>1 DEF NoTab
  <2>3. QED
    BY <2>1, <2>2 DEF TabIsTrue
<1>6. FrontInv
  BY <1>1, <1>2 DEF FrontInv, Shown, ByTab
<1>7. QED
  BY <1>3, <1>4, <1>5, <1>6 DEF TabScreenInv

LEMMA NextScreen ==
  ASSUME Orderly, MAX_SESSION_RECONNECTS > 0, TabsInv, TabScreenInv, [Next]_vars
  PROVE  TabScreenInv'
<1>1. TypeOK
  BY DEF TabsInv
<1>2. ASSUME UNCHANGED <<tab, activeId, wizard, launch, calls, backend, screen>>
      PROVE  TabScreenInv'
  BY <1>1, <1>2, KeptScreen DEF Running
<1>3. CASE User
  BY <1>1, <1>3, SwitchScreen, OverviewScreen, ReopenScreen, CloseTabScreen DEF User
<1>4. CASE WizardNext
  BY <1>1, <1>4, LeaveScreen, WizardLaunchScreen, WizardOpenedScreen, WizardFailedScreen
     DEF WizardNext
<1>5. CASE PollRead
  BY <1>2, <1>5 DEF PollRead, store, manager
<1>6. CASE PollAnswered
  BY <1>1, <1>6, PollScreen
<1>7. CASE RunCall
  BY <1>1, <1>7, FocusScreen, CloseScreen DEF RunCall
<1>8. CASE Device
  BY <1>1, <1>8, DeviceScreen DEF Device
<1>9. ASSUME NEW k \in Keys, TimerFires(k) PROVE TabScreenInv'
  <2>1. TimerSkips(k) => TabScreenInv'
    BY <1>2 DEF TimerSkips, manager
  <2>2. QED
    BY <1>1, <1>9, <2>1, TimerScreen DEF TimerFires
<1>10. ASSUME NEW c \in Slots, Answer(c) PROVE TabScreenInv'
  <2>1. ~HardTimeout(c)
    BY DEF HardTimeout
  <2>2. QED
    BY <1>1, <1>10, <2>1, OpenedScreen, UnreachableScreen, RefusedScreen, PasswordScreen DEF Answer
<1>11. ASSUME NEW c \in Slots PROVE ~Unheard(c)
  BY DEF Unheard, TabScreenInv, OrderlyCalls, InFlight, Answers
<1>12. ASSUME NEW c \in Slots, LaunchStep(c) PROVE TabScreenInv'
  BY <1>1, <1>12, LaunchScreen
<1>13. CASE UNCHANGED vars
  BY <1>2, <1>13 DEF vars, store, manager
<1>14. QED
  BY <1>3, <1>4, <1>5, <1>6, <1>7, <1>8, <1>9, <1>10, <1>11, <1>12, <1>13 DEF Next

LEMMA TabScreenInvariance ==
  ASSUME Orderly, MAX_SESSION_RECONNECTS > 0
  PROVE  Spec => []TabScreenInv
<1>1. TabsInv /\ TabScreenInv /\ [Next]_vars => TabScreenInv'
  BY NextScreen
<1>2. QED
  BY <1>1, InitScreen, TabsInvariance, PTL DEF Spec

\* At rest the screen shows what the tab bar says (KI-035), however reconnects,
\* polls, ends of sessions and the calls of a handler were interleaved, for any
\* number of devices and launches under way.
THEOREM ScreenFollows ==
  ASSUME Orderly, MAX_SESSION_RECONNECTS > 0
  PROVE  Spec => []ScreenFollowsTabs
<1>1. TabScreenInv => ScreenFollowsTabs
  <2> SUFFICES ASSUME TabScreenInv, Quiet, ~wizard
               PROVE  /\ activeId = NONE => screen = NONE
                      /\ activeId # NONE /\ tab[activeId].phase = "running" /\ Running(activeId)
                           => screen = activeId
    BY DEF ScreenFollowsTabs
  <2>1. calls = {} /\ ~Showing /\ \A k : ~StoreLaunches(k)
    BY DEF Quiet, Showing, Shown, ByTab, StoreLaunches, Launching
  <2>2. QED
    BY <2>1 DEF TabScreenInv, FrontInv, Due
<1>2. QED
  BY <1>1, TabScreenInvariance, PTL

\* At rest the front tab exists and no desktop runs without a tab: the timer of a
\* closed tab, a late poll and a late answer bring nothing back.
THEOREM TabsOwn ==
  ASSUME Orderly, MAX_SESSION_RECONNECTS > 0
  PROVE  Spec => []TabsOwnSessions
<1>1. TypeOK /\ TabScreenInv => TabsOwnSessions
  <2> SUFFICES ASSUME TypeOK, TabScreenInv, Quiet
               PROVE  /\ activeId # NONE => Open(activeId)
                      /\ \A k \in Keys : Running(k) => Open(k)
    BY DEF TabsOwnSessions
  <2>1. calls = {} /\ \A k : ~InLaunch(k)
    BY DEF Quiet, InLaunch, Launching
  <2>2. activeId # NONE => activeId \in Keys
    BY DEF TypeOK
  <2>3. QED
    BY <2>1, <2>2 DEF TabScreenInv, TabIsTrue, Open
<1>2. QED
  BY <1>1, TabScreenInvariance, TabsTypeCorrect, PTL
=============================================================================
