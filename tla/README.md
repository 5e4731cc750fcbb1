# Formal models of jetson-tools

jetson-tools is a Tauri desktop application: a React/TypeScript front end, a
Rust back end and a small native bridge (C and Objective-C) that embeds FreeRDP
in an AppKit window. It connects to Jetson boards over SSH, prepares a remote
desktop there and shows several remote desktops as tabs of one window.

This directory holds TLA+ models of its concurrent and stateful parts, the TLC
configurations that check them and TLAPS proofs about them. `PROJECT.json` is
the index: which definition models which lines, which run checks which
property under which mutant, what is proved, and what is hard to test here.

## 1. Inventory

The state each part keeps, its operations, and what makes it correct.

| Part (source) | State | Operations | Correct when |
|---|---|---|---|
| **RDP session manager** (`src-tauri/src/rdp/session.rs`) | map key → `RdpSession`, focus marker, per-session worker thread, attachment flags | `launch` (Focused / Background), `focus`, `hide_all`, `close_keyed`, status reads, `shutdown` | at most one desktop owns input, clipboard and screen; no use after free; a wedged worker never blocks a command; an ended desktop leaves the screen |
| **AppKit layer** (`native/freerdp_bridge/macos_view.m`) | views, `_inputSession`, `g_clipSession`, pasteboard owner + generation, modifier and button state | blocks on the main queue: create, mount, unmount, attach, detach, destroy, clipboard start/stop/tick | blocks run in order, one at a time; only the owner writes the pasteboard |
| **FreeRDP bridge** (`bridge.c`) | `jr_session`: queue, wake event, `disconnecting`, clipboard snapshot | connect and run loop (worker), enqueue (main thread), disconnect, destroy, CLIPRDR callbacks | every enqueued command reaches FreeRDP, only the worker calls FreeRDP, disconnect ends the loop |
| **Command queue** (`queue.c`) | bounded array of commands | enqueue (coalescing moves), evict on overflow, drain | order, button/key pairing, no lost position |
| **RDP commands** (`commands/rdp.rs`) | none of their own | `launch_session` with its readiness wait, status reads, close | a launch that is not usable is closed and reported |
| **Desktop tabs** (`src/stores/sessionsStore.ts`) | tabs, active tab, reconnect timers, poll | register, focus, overview, close, relaunch, status poll, automatic reconnect | tabs and back-end sessions agree; a closed tab never comes back |
| **Connection wizard** (`src/stores/connectionStore.ts`) | step, attempt number, pending trust decision | probe, trust, credentials, provision, launch, cancel | a late answer of a cancelled attempt changes nothing |
| **Tunnel manager** (`tunnel.rs`) | device key → ssh child, its ports, its secret directory, all under one mutex | ensure (reuse, adopt, replace, spawn with retries), invalidate, close_all, sweeps at start | a tunnel ends at its device, no child or secret outlives the table, a dead tunnel is replaced |
| **Updater engine** (`updater_engine/mod.rs`) | journal, installed app, backup, health marker | install, recovery on start, health commit, rollback | after a crash at any step either the old or the new application starts |
| **Updater** (`updater.rs`) | the bundle, its `.old-` backups, a work directory; nothing recorded | check, download, extract, swap, roll back, relaunch | no half bundle at the application's path, a whole one always on the disk, never an older one |
| **Reliability session layer** (`session/*.rs`) | per-session state machine, attempt ids | connect, events, disconnect, focus | events of an older attempt change nothing |
| **Remembered devices** (`remember.rs`) | device list file, secret map | remember with its legacy merge, forget, resolve a password | a remembered device connects with its own password, others are untouched, a forgotten one is gone |
| **Host trust** (`trust/*.rs`, `ssh/handler.rs`) | `hosts.json`, a copy of it per command | load, save, check, migrate to an identity | a key nobody approved is never accepted, a decision is enough |
| **Provisioning** (`bootstrap/*.rs`, `scripts/remote`) | the remote environment, a temporary script, the stages shown | check, upload, run, stream, clean up, verify | a ready Jetson is left alone, an interrupted one can be prepared again |
| **Connection commands** (`commands/connection.rs`), **SSH client** (`ssh/*.rs`) | none that lasts | probe, prepare; dial, exec with timeouts | modelled where they meet tunnels, trust and provisioning |
| **Sidecar engine, detection, shell, UI** | process or connection handles | I/O | not a matter of interleavings |

How they interact. The web view calls Tauri commands; asynchronous ones run on
runtime threads, the synchronous ones on the main thread. Commands lock the
session manager and dispatch blocks to the AppKit main queue, some of them
synchronously. AppKit events and the pasteboard timer enqueue commands for the
RDP worker of the focused session; the worker drains them and presents frames
back to the main queue. The tab store polls the status commands every second
and starts launches of its own. A connection command asks the tunnel manager for a tunnel, loads the trust
store for the handshake, resolves a remembered password, and may prepare the
Jetson over the same session; `launch_session` asks for the tunnel again. The
updaters and the remembered devices share nothing with the others but the disk.

What is hard to test here: commands of several tabs interleaving inside one
launch; a lock held across a trip to the main thread; teardown outside the lock
racing the next focus; worker threads that never end; wake-ups; answers that
arrive after a cancel; crashes between two writes. `PROJECT.json` lists each of
these at its line under `hazards`, with the properties that cover it or the
reason why none does yet.

## 2. Modules

| Module | Models or holds | Rests on |
|---|---|---|
| `RdpSessions` | the RDP session manager, the commands inside it, the main dispatch queue, workers, native views | |
| `SessionTable` | what the manager promises its callers: a table of statuses and the key in front | |
| `RdpSessionsInv` | the inductive invariants and the refinement mapping to `SessionTable` | `RdpSessions`, `SessionTable` |
| `RdpSessionsProofs` | theorems about `RdpSessions`, with lemmas about queues | `RdpSessionsInv` |
| `MCRdpSessions` | symmetry set for TLC | `RdpSessionsInv` |
| `CommandQueue` | the input path of a session: queue, wake event, run loop, disconnect | |
| `CommandQueueProofs` | theorems about `CommandQueue` | `CommandQueue` |
| `UpdaterEngine` | the updater's transaction engine and the disk it leaves | |
| `DesktopTabs` | the tab store, the effects of `App.tsx`, `launch_session`, over what the manager promises | `SessionTable` |
| `DesktopTabsProofs` | theorems about `DesktopTabs` | `DesktopTabs` |
| `MCDesktopTabs` | symmetry set for TLC | `DesktopTabs` |
| `TunnelManager` | the tunnels, the commands that dial them, reboots, quits and crashes | |
| `TunnelManagerProofs` | theorems about `TunnelManager` | `TunnelManager` |
| `HostTrust` | `hosts.json`, the handshake that asks it, the commands that save into it | |
| `HostTrustProofs` | theorems about `HostTrust` | `HostTrust` |
| `Provisioning` | a prepare command, request by request, against the remote script | |
| `RememberedDevices` | the two files of the memory of devices, write by write | |
| `DeviceProofs` | theorems about `RememberedDevices` and `Provisioning` | both |
| `EngineSessions` | the reliability layer's session manager and its engines | `SessionTable` |
| `EngineSessionsProofs` | theorems about `EngineSessions` | `EngineSessions` |
| `ProductionUpdate` | the updater the application ships, and the footer that drives it | |
| `UpdatersProofs` | theorems about `UpdaterEngine` and `ProductionUpdate` | both |
| `MCTunnelManager`, `MCHostTrust`, `MCProvisioning`, `MCRememberedDevices`, `MCProductionUpdate` | values for TLC | their module |
| `MCEngineSessions` | symmetry set for TLC | `EngineSessions` |

Two modules promise the same abstract table: `RdpSessions` and `EngineSessions`
are both shown to implement `SessionTable`, and `DesktopTabs` uses its manager
within it.

### RdpSessions

An action is one stretch of a manager command between two points where another
thread can run: taking the lock, a `dispatch_sync` to the main queue, the join
of the worker. `pc[t]` names the stretch a thread comes next to; `Start` is the
entry of a command, `Locked` lists the positions inside a critical section.

| Code | Model |
|---|---|
| `focus` | `Focus`, `FocusClaim`, `FocusDone` |
| `hide_all` | `HideAll`, `HideDone` |
| `close_keyed` | `Close`, then the shutdown steps |
| `RdpSession::shutdown` | `ShutdownBegin`, `ShutdownYield`, `ShutdownJoined` or `ShutdownAbandon` |
| `launch_entry` | `LaunchBackground` or `LaunchFocused` and `LaunchYield`; `LaunchCreate`, `LaunchSpawn` or `LaunchFail`; `LaunchInsert` or `LaunchRelock`, `LaunchClaim`, `LaunchDone` |
| the main queue and its blocks | `mainq`, `MainRun`, `RunOnView`, `RunOnClipboard` |
| a status command on the main thread | `MainStatusBlocks`, `MainStatusDone` |
| `jr_session_connect` returning | `WorkerExit` |

A session object of the pool `Sess` is used once, so a freed session is never
confused with a new one. `QueueDetach` and `ClaimBlocks` put a block with a
`from` in the queue: the command waits in `Returned` until it has run. The
session of a launch that overwrites another one of the same key is `dropped`:
Rust drops the value, its view is destroyed, nothing else is.

Simplifications. The mutexes `sessions` and `focused` are one lock (the second
is only taken under the first). The moment at which a worker stores `finished`
and the one at which its thread ends are one step. Deadlines are choices: a
join may time out whenever the worker still runs. `FocusedKeys` is the set of
keys launched in Focused mode: the program does so only with its legacy key,
the proofs and the safety run allow any.

### CommandQueue

One `Produce` is one call of `jr_session_enqueue_*` up to the release of the
queue's lock, `Signal` its `SetEvent`. The worker's positions are those of
`jr_run_loop`: check the flags, reset the event, drain (pop under the lock,
dispatch outside it), wait. A command is its kind and its number in the order
AppKit produced it; its coordinates are not needed, since a coalesced move
takes the number of the newest. `Held` is the one thing assumed of AppKit: the
presses and releases of a button alternate.

### UpdaterEngine

The disk is `current`, `backup/<version>`, `staged/<version>` and `state.json`;
a bundle is absent, partial or whole. A file operation is one step with two
outcomes, done or cut short: `WriteState` can leave a torn file (`std::fs::write`
truncates first), `Removed` and `Copied` a partial tree. After a cut no call is
running (`pc = "none"`): either the error went up through `?` or the process
died, and the disk is the same. `Crash` is the end of a process between two
operations. `Prepare` walks the phases of download, verification and extraction,
which only touch the transaction's own directory; from `Stage` on each
operation is an action. `Fire` is a fault point; `PointsAt` says where each is.

Nothing in the program calls the engine yet, so its caller is what its comments
say: a start that finds a `state.json` runs `run_recovery` first, an install
begins from a settled record (`MayInstall`), and the new version commits itself.
`RetryFirst` drops the second rule.

### DesktopTabs

The store is JavaScript, so a handler is one action up to its `await`. What it
asks of the back end is an entry in `launch` (the `launch_session` calls, with
their position in that command or their answer) or in `calls` (`focus_session`,
`close_session`: sent and not awaited, run by any thread in any order). The
manager is two variables, the session under each key and the focused key, moved
in the steps `SessionTable` allows; `UsesSessionTable` says so, and
`ImplementsSessionTable` of `RdpSessions` says that the manager keeps them.

| Code | Model |
|---|---|
| `focusTab` | `SwitchTo` (running, launching), `Reopen` (ready, error) |
| `showOverview`, `closeTab` | `ShowOverview`, `CloseTab` |
| `relaunch` | `Reopen` or `TimerRelaunches`, then `Opened`, `Unreachable`, `Refused`, `PasswordMissing` or `HardTimeout` |
| `scheduleReconnect` | `Rescheduled`, `SetsTimer`; the timer is `TimerRelaunches` or `TimerSkips` |
| `pollStatuses` | `PollRead` (what the status command sees), `PollAnswered` |
| `register`, hand-over and convergence effects of `App.tsx` | `WizardLaunch`, `WizardOpened`, `WizardFailed`, `WizardLeave` |
| `launch_session` | `LaunchBegin` to `LaunchShow` |
| `focus_session`, `close_session` | `RunFocus`, `RunClose` |
| the device | `Frame`, `Exit` |

`retryPending` stays set while the timer's launch runs, as in the code: only an
answer clears it. `withHardTimeout` is `HardTimeout`: the store gives the call
up and the call goes on (`awaited` is false) until its answer is `Unheard`.
`wait_for_usable_desktop` asks for a frame before it asks whether the session
runs, so a session that drew one and ended passes for usable.

Simplifications. The order of the tabs is left out: `closeTab` brings any
running tab to the front. A session that ended cleanly and one the back end lost
are one answer of the poll, since the store treats them alike. One poll is in
flight at a time. The shutdown of a predecessor, the tunnel and the repair of
the services have no effect on the tabs but their failure. The wizard is its
launch and its hand-over; cancelling it during a launch is not modelled.

`Orderly` is an assumption on the user and the network for the screen
properties: a launch by click or by the wizard, and the focus and close calls
of a handler, are over before the user asks for something else that moves the
screen; a key is not launched or closed while it is being launched; a launch
answers within 120 s. Background reconnects, polls, timers, ends of sessions
and the order of the calls one handler sends stay free. Without it the
properties about the screen do not hold (section 6 and `hazards`). The
liveness run and the other theorems are without it.

### TunnelManager

| Code | Model |
|---|---|
| `ensure`, `classify_ensure` | `Ask`, then `EnsureReuses`, `EnsureDropsStale`, `EnsureAdopts`, `EnsureDropsAdopted` or `EnsureFresh` |
| `spawn_tunnel_with_retry`, `spawn_tunnel` | `SpawnStarts`, then `SpawnSucceeds`, `SpawnRefused`, `SpawnUnreachable` or `SpawnFails` |
| `connect_via_tunnel` | `DialReaches`, or `DialFails` and `Invalidate` |
| `RunEvent::Exit`, `close_all` | `Quit`, `CloseAll`, `Exits` |
| `TunnelManager::new` and its sweeps | `Start` |
| ssh and the Jetson | `Reboot`, `Return`, `GivesUp` |

The mutex is `holder`: only a spawn keeps it over more than one step, since the
health check, the drop of a child and the change of the table are one critical
section whose parts nobody else can see. A spawn keeps it through all its
retries, as in the code, so everyone behind it waits. A command keeps the local
port it was given and not the child, so it may dial whichever child listens there
now. `half` is a tunnel whose far end went away: child and listeners live, only
the banner of the remote sshd is missing (KI-036).

Simplifications. An address keeps its device (`Serves`): an address that DHCP
gives to another Jetson is left to the host key check. The two ports of a tunnel
are one. The user name is the same everywhere.

### HostTrust

A command loads its copy (`Loads`), saves the decision it carries before it dials
(`SaveTruncates`, `SaveWrites`, `SaveFails`: `fs::write` truncates first), and
dials (`DialAccepts`, `DialMigrates`, `DialUnknown`, `DialChanged`,
`RepairRefused`). After a migration it dials once more with the key itself
(`again`), and that answer is the command's. A question ends the command; the user's answer is the command
again with the key that was shown (`Decides`). Two saves that overlap may leave
what neither wrote; such a file, like any that does not parse, reads as empty.
An identity stands for a `key_id`: an address or a deviceId. `approved` and
`known` are histories and no state of the code.

### Provisioning

One action is one request of `prepare_remote_desktop` with its answer, or one
step of `bootstrap.sh`; `Unanswered` is a timeout or a lost link, after which the
script goes on without its command. A stage is shown as `exec_with_stdin_lines`
streams it (`Streamed`, `Parses`). `Killed` stops a script anywhere, `apt-get` in
the middle of its packages.

The environment is one fact per part, with a value for each state that `classify`
(by `check-environment.sh`) and `bootstrap.sh` take differently. Of the packages
the check wants three and the script six; a dpkg stopped within a package makes
every later `apt-get` fail. The check looks for `startxfce4` in `.xsession` and the
script for `use_compositing`: a file with the first only is "plain", one with the
second only "torn", which is what a full disk leaves of the script's own. That file
is replaced in three steps, the look at it (`Configures`), the truncation
(`Truncates`) and the text (`Writes`), between which a script can be killed and
another one can look. `Repairs` stands for what the script mends with a warning at
most when it fails: `.xsessionrc`, `::1` on lo, enabling xrdp. The services are
"keyless" without the group of the TLS key and "deaf" when active and not listening;
whether they are restarted is decided before (`Serves`, `Joins`) it is done
(`Restarts`).

### RememberedDevices

Both files are replaced by a rename, so a write is one step, and a command that
makes several may stop after any of them (`Stops`). `Remember` walks the legacy
rows it merges (`MergeCopies`, `MergeDeletes`, `MergeUnlists`), writes the secret
(`WritesSecret`) and then the row (`Upserts`); `Forget` deletes the secrets and
then the rows (`ForgetDeletes`, `ForgetUnlists`). A connection resolves its
password in two reads (`Lists`, `Answers`) between which anything may be
written. The two commands that write are not `async`: Tauri runs them on the
main thread, one at a time. `kept` is the history of what was last remembered.
A device reports addresses that are its own: detection leaves out loopback and
the bridges of docker and USB, which every Jetson has alike
(`scripts/remote/detect.sh:127-148`). A connection to the loopback address, which
takes the most recent row, is left out.

### EngineSessions

`SessionManager` takes `&mut self`, so each of its operations is one action:
`Connect` or `StartFails`, `MarkConnected`, `Focus` or `FocusRefused`,
`Disconnect`, `HandleEvent`. The engines run beside it: `Report` puts an event in
the sink of its attempt, `HandleEvent` reads it, perhaps after the session has
been closed or started again. `FocusRefused` is a focus whose engine answers with
an error after the previous one was told to hide. `Disconnect` tells the engine to
hide and to stop and ignores both Results, so the engine may do neither
(`Stopped`); that it was told is a history and no state of the code.

Nothing in the program uses `session::SessionManager` yet: the commands go through
`rdp::session`, and the adapter that would join the two (`rdp/free_adapter.rs`) is
used by its own test only.

### ProductionUpdate

The footer's phases and the steps of `do_install` are one program counter,
`proc.at`; `Killed` ends the process before any step and `Launch` starts it again
if there is a bundle to start. Each step has its failure; `Undo` is the rollback,
whose own failure the code ignores. A version is the sequence of numbers
`parse_version` reads, `Newer` is `version_is_newer`, and `Rank` is the order the
releases are meant to have. One instance of the application is modelled.

## 3. Runs

| Run | Instance | Asks |
|---|---|---|
| `RdpSessionsSafety` | 2 keys, 2 sessions, 2 threads, polls on the main thread, all keys Focused and Background | focus marker, exclusive resources, no use after free, settled screen, refinement of `SessionTable` |
| `RdpSessionsLive` | 1 key, 2 sessions, 2 threads, no polls on the main thread | commands finish; ended desktops leave the screen |
| `CommandQueue` | capacity 3, 5 commands | order, losses, progress |
| `DesktopTabs` | 2 keys, 1 launch call, 1 automatic attempt, orderly | screen follows tabs, no session without a tab, use of the manager within `SessionTable` |
| `DesktopTabsLive` | 1 key, 1 launch call, 2 automatic attempts, not orderly | no hang, tabs settle, ends are noticed |
| `UpdaterEngine` | 3 versions, all fault points but the one inside the swap | no stranded machine, true outcomes, intent before effect, settlement |
| `TunnelManager` | 2 devices, 2 addresses, 2 commands, 2 children, 2 ports, 1 retry | no stray tunnel, own device, others untouched, quit, healing |
| `HostTrust` | 1 device with an address and a deviceId, 2 keys, 2 commands | approved keys only, asked once, a decision is enough |
| `Provisioning` | 2 prepares of one Jetson, 5 states it is found in | type, stages, clean-up, a ready Jetson, healing |
| `RememberedDevices` | 2 devices, 3 addresses, 3 passwords, old files of up to 2 rows | type, own secret, remembered connects, forgotten is gone |
| `EngineSessions` | 2 sessions, 3 attempts | type, input, front, late events, engines told to stop, refinement of `SessionTable` |
| `ProductionUpdate` | 4 releases | whole bundle, last copy, never older |

What they show.

- *Focus marker* (`FocusNamesASession`): it never names a key without a session,
  although commands take sessions out and put them in without the lock between.
- *Exclusive resources* (`OnlyFocusedHoldsResources`): whenever the lock is free
  only the focused session has input or the clipboard flag.
- *No use after free* (`FreedSessionUnreachable`): when `jr_session_destroy` has
  run, the worker is over and neither map, command nor AppKit input reaches the
  session. The pasteboard timer is the exception, section 6.
- *Settled screen* (`SettledScreen`): with every command returned and the main
  queue empty no view but the focused one is in the window (KI-035; proved for
  any number of sessions and threads).
- *Refinement* (`ImplementsSessionTable`): lock, detours and teardown are
  invisible to the callers.
- *Queue*: commands arrive in order and once (`InOrder`); the last move before a
  button survives (`DragSurvives`, KI-018); only a queue full of other commands
  loses one (`OnlyMovesYield`); commands are sent and the loop ends without the
  33 ms tick (`EverythingIsSent`, `DisconnectEnds`), because no wake-up and no
  disconnect request is lost (`NoLostWake`, `NoLostDisconnect`, proved).
- *Tabs*: a launching tab has a timer or an awaited launch behind it
  (`LaunchingIsBacked`, the KI-041 hang) and does not launch for ever
  (`TabSettles`); a tab does not stay running over a session that is gone
  (`EndIsNoticed`); at rest the overview is not covered by a desktop and the
  front tab's desktop is the one on screen (`ScreenFollowsTabs`, KI-035); at
  rest the front tab exists and every session has a tab, so the timer of a
  closed tab brings nothing back (`TabsOwnSessions`).
- *Updater*: a whole bundle is in place or on a readable record
  (`NeverStranded`); a settled record tells what is installed
  (`OutcomeIsInstalled`); the current bundle is only touched under a record that
  names its backup (`RecordedBeforeTouched`); an interrupted transaction is
  settled unless its record was torn (`InterruptedIsSettled`).
- *Tunnels*: while the application runs the children and the secret directories
  are those of the table and of the one spawn, no child twice (`NoStrayTunnel`);
  an open tunnel under a device's key ends there, although keys and addresses are
  all that is compared (`OwnDevice`); a command ends no live tunnel of another
  device (`OthersUntouched`); a caller that keeps asking gets through to its
  device whatever reboots have left half open (`RetryHeals`, KI-036); a quit behind
  an ensure and its retries does not wait for ever (`QuitEnds`).
- *Trust*: no handshake accepts a key nobody approved, whatever two commands do
  to the file (`OnlyApproved`); a command with the user's decision does not ask
  about that key again (`DecisionIsEnough`); commands that do not overlap lose
  nothing (`AskedOnce`).
- *Provisioning* (`PrepareInv`): the stages shown go forward (`StagesForward`) and the
  temporary script is removed on every way out that got its answers
  (`NoLeftover`); a Jetson that is ready with the script's own `.xsession` stays so
  under every step of every script, unless one has decided earlier to rewrite that
  file or to restart the services (`ReadyStaysReady`). Preparing again repairs what
  interrupted scripts left, once nothing fails any more, or the Jetson is for ever in
  one of three states the script does not mend (`Unrepaired`): a torn `.xsession`,
  services that are active and deaf, an interrupted dpkg (`PrepareHeals`).
- *Memory*: a device that was remembered connects with a blank password at any of
  its addresses, in the middle of other commands and after stopped ones
  (`RememberedConnects`), never with another device's password (`OwnSecret`, in
  `MemoryInv`); a forgotten device's password cannot be found again, legacy rows
  included (`ForgottenIsGone`).
- *Engine sessions* (`ManagerInv`): input and clipboard go to the focused session only
  (`InputToOne`); at most one held engine is in front (`FrontIsFocused`); an end on
  screen was reported by the attempt on screen (`EndsAreOwn`); an engine that runs
  outside the table was told to stop, or `connect` replaced it (`NoUntoldEngine`),
  and none in the table ever was (`HeldRuns`); the layer keeps the promise of the
  native manager (`ImplementsTable`). That closing a session ends its engine does
  not hold, section 6.
- *Shipped updater*: half a bundle never stands at the application's path
  (`AppIsWhole`) and a whole one is always on the disk (`LastCopyKept`), together
  `BundleKept`; only a later release is moved in (`NeverOlder`).

Every property of a passing run has a mutant in `PROJECT.json`: a definition of
the model changed the way a mistake in the code would change it, under which
TLC finds the property violated. The changed forms stand in the modules, marked
`Mutant`.

### Bounds

- Two sessions let a launch replace one session by another, on one key or
  across two, and two threads let every pair of commands overlap, including two
  launches of one key. A third session would let a replaced session be replaced
  once more; the properties of the safety run are proved, so for them the number
  does not matter. The pool makes the system stop when every session is used, so
  deadlock is not checked there; in the liveness run a thread that finds the
  pool empty still has `LaunchFail`.
- `CAP = 3`, `MaxMade = 5`: overflow needs one more command than places, and two
  more let an eviction follow a coalesced move or a second overflow. The code's
  4096 places change nothing in the rules; order and wake-ups are proved for every
  capacity. `MaxMade` bounds the input, so the system stops.
- Two devices let a reconnect, a poll or an end of one meet the other on the
  screen. One launch call at a time (`Slots`) is a bound; launches that overlap
  are in the proofs. One or two automatic attempts take the chain through
  its middle and its cap, eight add nothing to the rules. `MaxTimers` keeps the
  user from starting a launch over more than that many timers of the key, which
  is what could grow without end. The store always has
  something left to do, so deadlock is checked.
- Three versions let an update follow an update with a stale backup and a stale
  staged bundle of either version about. No other bound is needed: the state
  space is finite. A torn `state.json` ends everything, hence no deadlock check.
- Tunnels: one device is asked for by its deviceId and by its address, which is
  what adoption needs; the other is there to be disturbed. Two children and two
  ports let a port be given away while a command still holds it. One retry takes the chain through its middle and
  its end.
- Trust: two commands are the overlap; an address and a deviceId of one Jetson are
  what the migration needs; two keys let a Jetson be flashed. That a key of another
  Jetson is accepted under an identity is not excluded by anything, section 6. The
  theorems have no bounds.
- Provisioning: two prepares give an orphaned script and a second one. The Jetson
  is found fresh, with somebody's own desktop, with that and dpkg interrupted,
  prepared, or prepared and without `::1` (`Jetsons`); the other states come about
  from these. Meanwhile somebody may stop the services or remove `.xsession`
  (`Breakable`). The theorems hold for any `Jetsons` and `Breakable`.
- Memory: one device with two addresses lets a report gain or lose one, a second
  device reports no identity and keeps a legacy row; two passwords of the first let
  one go stale; the old files have two legacy rows of one device or of two. One
  user.
- Engine sessions: a replaced attempt's events can arrive after its successor's,
  and a third attempt can follow both; the sessions are symmetric. The attempts are
  used up in the end, hence no deadlock check.
- Shipped updater: the four releases have one and two digits and two and three
  parts, two of them the same release written differently.

### Fairness

- `RdpSessions`: the AppKit run loop goes on (`WF` of `MainRun` and
  `MainStatusDone`); each thread goes on with the command it is in, and is not
  starved of the mutex for ever (`SF` of `Continue`). Workers and users owe
  nothing: a wedged worker is a worker that never exits, and both liveness
  properties hold nevertheless because the join has a deadline.
- `CommandQueue`: the worker runs, FreeRDP's connect returns or fails, and a
  thread that enqueued or asked to disconnect reaches its `SetEvent`. Nothing is
  assumed of network traffic nor of the tick, so progress rests on the event.
  FreeRDP's abort event is external and taken to be one of the handles waited
  for, as the loop gets them from FreeRDP.
- `DesktopTabs`: the browser goes on, so polls are sent and answered (`WF`),
  answers are handled and timers fire. The timers have `SF`, because with one
  call slot another launch may be in the way again and again. A launch the store
  waits for owes nothing: `withHardTimeout` is what ends the wait. A launch it
  has given up, and the wizard's, end some day; the waits of `launch_session`
  all have deadlines.
- `UpdaterEngine`: the caller runs the recovery when it finds an interrupted
  transaction, a running install goes on or dies, and the steps of a recovery
  succeed if they are tried again and again. This is an assumption on the
  external caller and on the disk, used for `InterruptedIsSettled` only.
- `TunnelManager`: a spawn goes on (ssh has a connect timeout and the spawn a
  deadline) and a command dials what it was given (`WF`). Entering `ensure`,
  invalidating and closing need the mutex and have `SF`: a std `Mutex` is not
  withheld from one waiter for ever. Devices, users and ssh's own keep-alive owe
  nothing; `RetryHeals` states what it assumes of them in its premise.
- `Provisioning`: every request has a timeout (`WF` of `Requests`, of which
  `Unanswered` is one); the script owes nothing to a command that waits for it,
  an orphaned one ends some day because its channel is closed. Services that are
  deaf owe nothing. `PrepareHeals` excludes for ever after, in its premise
  (`Mishap`), requests without an answer, failures of single steps of the script and
  a truncation of the file another script has just written: two prepares in step
  could each fail the other's verification by that for ever.
- `HostTrust`, `RememberedDevices`, `EngineSessions` and `ProductionUpdate` are
  checked for safety only.

## 4. Proofs

TLAPS checks each theorem for every value of the constants, from the named
assumptions only. The type invariants (`TypeOK`) and inductive invariants are
proved here; the runs check them again only where they are part of a property
(`PrepareInv`, `MemoryInv`).

**RdpSessions** (`RdpSessionsAssumption`: `NONE` is not a key, session or
thread). `Invariance` proves `IInv`; from it follow `TypeCorrect`,
`MarkerIsSound`, `BackgroundIsHeadless`, `NoUseAfterDestroy` and, step by step,
`Refinement`. Why the parts are needed: the marker is only safe because a thread
in a critical section excludes the others (`LockInv`) and knows its key still
has the session it looked up (`ThreadInv`); exclusivity needs that a session has
one owner, one key or one thread (`OwnerInv`), that a session out of the map
gave up its resources (`ResourceInv`); the freed session needs that AppKit's
input pointer follows the flag or a thread in the middle of attaching, that the
synchronous detach is still queued or has run, and that an attach in the queue
belongs to a thread that waits for it (`InputInv`, `LifeInv`). The queue
lemmas at the head of the module say what queueing and running do to the set of
queued blocks.

`ScreenSettles` has a second invariant, `ScreenInv`, because what is in the
window now says little while blocks are queued. `EndsMounted` is whether a view
will be in the window when the queue has run, which depends on the order of its
blocks; `MountInv` says that such a view is the one in front, with no thread
about to bring another key there, or is in the hands of a command that attaches
it or has yet to detach it. For this no session may get lost: `EndedInv` says
that a live one is in the map or in a command's hand, and that one whose entry
was overwritten has its `destroy` in the queue. When all is quiet no command has
anything in hand and the queue is empty, so only the view in front is left.

**CommandQueue** (`CommandQueueAssumption`: the capacity is positive).
`QInvariance` proves `QInv`; `OrderIsKept` needs that numbers increase along
everything sent, in flight and queued and lie below the next one, and that
coalescing and eviction keep that; `WakeIsNeverLost` and `DisconnectIsNeverLost`
need where the worker is between its reset and its wait. What may be lost is a
second invariant, `KeepInv`, over the log of everything produced: a queued
command is what the log says (`Recorded`), a move at the tail is the newest
command there is (`TailIsLast`), nothing that a later move supersedes takes up a
place (`Useful`). By counting, the queue then has room for every command that
matters as long as those are no more than its capacity, which gives `DragIsKept`;
and a command that is not a move is lost only after as many others as the queue
holds, `MovesYieldFirst`.

**UpdaterEngine** (`UpdaterAssumption`: the markers are not versions nor
records). The theorems assume `Contract`: the caller settles before it installs,
and the fault point inside the swap is not armed. `UInvariance` proves `UInv`;
`NeverLeftStranded`, `OutcomeHolds` and `RecordPrecedesTouch` follow. `UInv`
needs that memory and disk agree on the transaction while a call runs
(`MemoryIsOnDisk`), what each position may rely on (`Position`), that a
version's directory never holds another version (`CopiesAreOfTheirVersion`) and
that the record is true of the disk at every instant (`RecordIsTrue`).

**DesktopTabs** (`DesktopTabsAssumption`: `NONE` is not a key, the bounds are
numbers). `TabsInvariance` proves `TabsInv` for any number of devices,
overlapping calls, timers and attempts, orderly or not. `LaunchingIsBacked` is
not inductive alone: it needs that a pending retry is a launching tab
(`PendingIsLaunching`), or a timer could be skipped that the tab waits for, and
`scheduleReconnect` could return early on a tab with nothing behind it. The
argument is per tab: what the store makes of a sound tab is sound
(`RescheduledIsSound`, `FailedIsSound`, `PolledIsSound`), and what a step does to
the calls keeps the others awaited (`CallEffect`, `ReleaseEffect`, `MoveEffect`).
`ConnectingIsBacked` and `TabsTypeCorrect` follow; `TabsUseSessionTable` proves the
refinement of `SessionTable` step by step.

`ScreenFollows` and `TabsOwn` assume `Orderly` and at least one automatic attempt
(the code's `MAX_SESSION_RECONNECTS` is 8), for any number of devices and of
launches under way. They have a second invariant, `TabScreenInv`. `FrontInv` says that
the screen is right, or the call that makes it right is in flight, or a launch by
click has been shown and its tab is about to come to the front; it is kept
because only the calls of one handler are in flight (`OrderlyCalls`). The hard
case is a poll's answer that was read before a launch and is handled after it.
It may put a tab into "ready" or "launching" over a running desktop, which the
next poll or timer repairs; a tab in "error" over one would be repaired by
a poll that sends no focus, so there must be none (`TabIsTrue`). This is why a
failed launch has to leave no session (`LaunchInv`) and why a tab that just
opened must not be at the cap of its attempts: with a cap of 0 the property is
false, a late poll puts the fresh tab into "error", hides its desktop, and the
next poll calls it running again. TLC finds that with `MAX_SESSION_RECONNECTS = 0`.

**TunnelManager** (`TunnelAssumption`: keys that are deviceIds and keys that are
addresses differ, an address keeps its device, the routes callers ask for are
right). `TunnelInvariance` proves `TunnelInv` for any devices, addresses,
commands, children, ports and retries. `OwnDevice` is not inductive: an adopted
tunnel changes its key and keeps its target, so every tunnel must have been
spawned for the address its key stands for (`Rooted`), which rests on the child
that is being spawned being for the holder's address (`OneSpawn`) and on routes
that are right (`Asked`). That the spawn overwrites no entry needs the mutex
(`Mutex`); that nothing outlives the table is kept child by child (`Accounted`).
`TunnelsAccountedFor`, `TunnelEndsAtItsDevice`, `OthersKeepTheirTunnels` and
`TunnelTypeCorrect` follow.

**HostTrust** (`TrustAssumption`). `TrustInvariance` proves `TrustInv`: what is in
the file and in every copy is approved, and the decision a command carries, or the
key it dials with once more, is in its own copy (`Sound`); `ApprovedOnly` and `DecisionHolds` follow for any number of
overlapping commands and any cut of a save. `NotAskedAgain` has an invariant of
its own, `OnceInv`: as long as something is known to be approved, at most one
command runs, and the file and its copy hold all of it.

**EngineSessions** (`MaxAttemptsAssumption`, `NoneIsNoSid`, `NoneIsNoEntry`).
`EngineInvariance` proves `EInv`: the parts of `ManagerInv` need that an attempt
belongs to one session for good and lies below the counter (`Numbered`) and that
it ends at most once (`Reported`); `ManagerIsSound` follows. `EngineRefinement` is
the refinement of `SessionTable` step by step.

**ProductionUpdate** (`UpdateAssumption`). `UpdateInvariance` proves `UpdateInv`:
where the running bundle is at every step (`Running`), that what was extracted is
the offer (`Extracts`) and that the offer is newer than what runs (`Offered`);
`BundleIsKept` follows.
`NoDowngrade` assumes that the numbers of the releases order them as they are
meant to be; the run checks that for its four.

**RememberedDevices** (`RememberAssumption`: every address and every password
belongs to a device, a device reports addresses of its own, ids and addresses
are written differently, an old file is finite). `MemoryIInv` has no bound on devices,
addresses, users or rows. That a password is its device's (`OwnSecret`) rests on
rows that are about one device (`OfOneDevice`) and accounts that are
(`SecretInv`). A remembered device connects because the row by its id is found
before any legacy row that still has an address of it, and `Merged` says that
there is none left beside it; `RememberInv` says so in the middle of a merge,
where the rows still to be dealt with are those on the command's list. A
connection that read the rows before a write and the secrets after it is why
`AskInv` keeps the same facts of its copy, and a forget deletes secrets while
rows still name them, hence `ForgetInv`. `MemoryInvariant`, `RememberedIsKept` and
`ForgetsDevice` follow. The lemmas about `Filtered` and `First` say what a
sequence keeps when rows leave it.

**Provisioning** (`JetsonsAssumption`, `BreakableAssumption`: the states a Jetson
is found in are states of it, the parts that break are its parts). `StagesForward` compares any two stages of the
list shown, so the invariant says of the whole list that it rises (`Rising`) and
lies below what the positions of the command and of the script allow (`Below`,
`Ceiling`); the verification is shown last, whatever came before it, and is
excepted (`StageInv`). `PrepareInvariant`, `PrepareTypeCorrect` and
`ReadyIsLeftAlone`, for any number of prepares and orphaned scripts; the last one
looks at every step the script can take from any of its positions.

Only model-checked: the liveness properties, which are out of the prover's reach.
Every invariant, action property and refinement that a run checks is the subject
of a theorem.

## 5. Hazards

`PROJECT.json` lists them at their lines with the properties that cover them.
Those without a property say why: the pasteboard in AppKit and the wizard's own
steps are not modelled, files damaged from outside and a second process on one
`state.json` neither, and others do happen (section 6).

## 6. Seen while modelling

Places where the code does something its comments, tests or messages do not say,
or where a property had to leave a case out. First those a run of these models
shows when its premise is taken away.

- *Status polls and the main thread.* `rdp_status`, `session_status` and
  `all_session_statuses` (`commands/rdp.rs:510`) are not `async`, so Tauri runs them
  on the main thread, where they wait for the manager's lock; `focus`, `hide_all` and a
  focused launch hold that lock across `dispatch_sync` to the main thread. Each
  waits for the other (`native_view.rs:3-4`, `session.rs:381-382` promise
  otherwise). `RdpSessionsLive` with `MainPolls = TRUE` shows it.
- *Updater engine, retry.* A second install after a failed swap, without a recovery
  between, overwrites the record of the backup and then removes the only whole
  bundle (`updater_engine/mod.rs:156`, `:227`, comment at `:7`). `UpdaterEngine` with
  `RetryFirst = TRUE` shows it.
- *Tabs.* `focusTab` on a tab that is launching brings it to the front, its focus
  fails (`session.rs:582-585`) and the other device's desktop stays on screen under
  it (`sessionsStore.ts:299`, `App.tsx:66`); the answer of a launch by click takes the
  front although the user has moved on; a tab closed during its launch leaves a
  session without a tab and an active tab that does not exist. `DesktopTabs` with
  `Orderly = FALSE` shows these.
- *Clipboard stop.* A shutdown outside the lock stops the clipboard sync that its
  successor has started meanwhile, and the flag says it is still on
  (`session.rs:368`, comment at `:511-512`; `sessionsStore.ts:327-335` sends close and
  focus together).
- *Pasteboard timer.* The stop is queued and not awaited
  (`macos_view.m:1158-1160`): with a worker that has already ended, the session is
  freed while the timer still holds it (comments at `session.rs:361-362`,
  `macos_view.m:1122`).
- *Overlapping launches of one key.* The second insertion drops the first live
  session without shutting it down (`session.rs:566`, comment at `:487-488`); the
  focus marker can then name a session that was never mounted. A click on a failed
  tab whose old session still reads Exited lets the next poll start such a launch.

Read in the source and left out of the properties, or in their premises:

- *Input.* A button release that meets a queue full of commands other than moves is
  dropped (`queue.h:23-24` says a pairing is never broken). The view of an abandoned
  worker is released while the worker runs. The flag that suppresses the echo of a
  remote copy swallows the next local one.
- *Tunnels.* A command may dial another Jetson's tunnel when its port has been given
  away since its ensure (`commands/rdp.rs:215`). A child that is being spawned when the
  process is killed stays until the next start sweeps it; an ensure that starts
  between `close_all` and the end of the process does the same (`lib.rs:91-92`).
- *Trust.* A save writes back a copy loaded earlier, so an approval made meanwhile is
  lost; a torn file reads as empty and the next save replaces all of it; the repair
  (`commands/rdp.rs:284`) neither migrates nor asks; `connect_with_stable_identity`
  accepts any key stored under any identity, another Jetson's included.
- *Provisioning.* `BootstrapTimeout` and `ProvisionTimeout` are never produced: time
  runs out as `SshTimeout`. The exit codes of `cat >` and `chmod` are ignored, so a
  truncated script ends with 0 and fails only in the verification; a script without
  exit status counts as success. Of two scripts at once the second fails on apt's
  lock. The script never mends a `.xsession` with `use_compositing` and without
  `startxfce4`, which it takes for its own (`bootstrap.sh:93`) and the check does not
  (`check-environment.sh:71`); nor services that are active and do not listen
  (`:215-217`), of which its own verification then complains; nor an interrupted dpkg
  (`:81`). `::1` that cannot be restored is a warning (`:183`), and the script ends
  ready while the check says it is not. A script killed between `adduser` and the
  restart (`:207-213`) leaves an xrdp that runs without its key and passes for ready.
  Somebody's own `.xsession` is overwritten without a copy (`:94`), and is empty for a
  script that looks at it, or is killed, meanwhile.
- *Memory.* An upsert without a display name does not keep the previous one; two
  users of one Jetson share its row by deviceId; a remember that stops between the
  delete of a legacy secret and of its row leaves a row without a password
  (`commands/remember.rs:171-173`); an id forgotten after a stopped remember keeps a
  secret that nothing lists (`:230-231`); a stored secret of version 3 that is stale
  wins over a legacy one that has just authenticated.
- *Engine sessions.* `disconnect` ignores what `set_focus(false)` and `stop` answer
  (`session/manager.rs:202-203`): an engine that refuses runs on, in front if it
  was, with no entry and no handle left to try again. `FreeRdpEngineAdapter::stop`
  answers `Ok` and does nothing (`rdp/free_adapter.rs:65-76`). Focusing the focused
  session again clears its own flag; `connect` over a connected session leaves its
  engine running, and in front; `mark_connected` goes by session and revives an
  entry that has ended.
- *Shipped updater.* After a crash between the two renames, or a rollback that fails,
  the application is only there under its `.old-` name; the message says it was rolled
  back in either case. After an error the footer offers no button until a restart. A
  dotted prerelease such as 1.0.0-rc.1 reads as 1.0.0.1 and counts as newer than 1.0.0
  (comment at `updater.rs:321`). `exit(0)` skips the exit handler, so tunnels live on
  until the next start sweeps them.
- *Updater engine.* `append_journal` overwrites its file instead of appending.

## 7. Not modelled

- `clear_exited` and `clear_if_exited` (no caller in the program), `usable_frame`
  and frame presentation, lock poisoning, the native view of a failed launch,
  which is never mounted.
- That Tauri runs non-async commands on the main thread is a rule of Tauri;
  `MainPolls` turns it off.
- Event translation, IME and modifier bookkeeping in `macos_view.m`; FreeRDP
  itself.
- The pasteboard side of the clipboard: AppKit's change counter, the timer's
  detection and the CLIPRDR handshake; `RdpSessions` has its owner and its start
  and stop.
- The wizard's own steps (`connectionStore.ts`): attempt numbers, cancel and the
  trust question on screen. Its commands are in `HostTrust` and `Provisioning`, its
  launch in `DesktopTabs`.
- The external single-tunnel debug mode of `tunnel.rs`, and what ssh prints.
- `trust/evaluator.rs`, `decision.rs`, `model.rs` and
  `bootstrap/provision_protocol.rs`, which no command uses.
- Unreadable files of the memory of devices, display names, a second process.
- The sidecar engine, detection, the transport of the SSH client, the rest of the
  shell and the web components: I/O, parsing or presentation.

## 8. Plan

Done: `RdpSessions`, `CommandQueue`, `UpdaterEngine`, `DesktopTabs`,
`TunnelManager`, `HostTrust`, `Provisioning`, `RememberedDevices`,
`EngineSessions`, `ProductionUpdate`, with inductive invariants and proofs of all
safety properties of each.

What would come next, in this order:

1. `Clipboard`: pasteboard counter, timer, owner and generation on the Mac side,
   the CLIPRDR handshake on the worker.
2. `ConnectionWizard`: attempts, cancel and late answers, over `HostTrust` and
   `TunnelManager` as abstract commands.
3. A weaker `Orderly`: which of the user's actions may overlap with a launch
   before the properties about the screen fail.
