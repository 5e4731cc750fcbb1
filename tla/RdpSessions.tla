---------------------------- MODULE RdpSessions ----------------------------
(***************************************************************************)
(* RdpSessionManager (src-tauri/src/rdp/session.rs): one embedded RDP      *)
(* session per device key, at most one of them on screen.  Tauri commands  *)
(* run it from several runtime threads; every AppKit effect goes through   *)
(* the main dispatch queue (native/freerdp_bridge/macos_view.m), some of   *)
(* them synchronously, WHILE the manager lock is held.                     *)
(*                                                                         *)
(* One action is one stretch of a command between two points where         *)
(* somebody else can run: taking the lock, a dispatch_sync to the main     *)
(* queue, the join of the worker.  The mutexes `sessions` and `focused`    *)
(* are one lock here: `focused` is only ever taken under `sessions`.       *)
(***************************************************************************)
EXTENDS Naturals, Sequences, Functions

CONSTANTS
  Keys,       \* device keys (`username@deviceId`)
  Sess,       \* RdpSession objects: a bounded pool, each is used once
  Threads,    \* runtime threads executing manager commands
  NONE,       \* no key, no session, no thread
  FocusedKeys, \* keys some caller launches in Focused mode (in this program the
              \* reserved legacy key); every key is launched in Background mode
  MainPolls   \* TRUE: the status commands run on the main thread (the Tauri
              \* rule for a command that is not async) and take the lock there

ASSUME RdpSessionsAssumption ==
  /\ NONE \notin Keys /\ NONE \notin Sess /\ NONE \notin Threads
  /\ FocusedKeys \subseteq Keys
  /\ MainPolls \in BOOLEAN

VARIABLES
  sessions,          \* RdpSessionManager.sessions: key -> session
  focused,           \* RdpSessionManager.focused: the key on screen
  lock,              \* the thread holding the manager lock
  pc,                \* where each thread is
  op,                \* the command it executes
  key,               \* and that command's session id
  hand,              \* the session it owns outside the map
  life,              \* the C session and its context
  worker,            \* the worker thread of each session
  input_attached,    \* RdpSession.input_attached
  clipboard_active,  \* RdpSession.clipboard_active
  mainq,             \* blocks queued on the main thread, oldest first
  mainBusy,          \* the main thread is inside a status command
  mounted,           \* views that are subviews of the window
  native_input,      \* views whose _inputSession is set
  gone,              \* views released by jr_view_destroy
  clipSession        \* g_clipSession

table == <<sessions, focused, lock>>
cmds == <<pc, op, key, hand>>
flags == <<input_attached, clipboard_active>>
native == <<mounted, native_input, gone, clipSession>>
vars == <<table, cmds, life, worker, flags, mainq, mainBusy, native>>

Ops == {"none", "focus", "hide", "close", "launchFocused", "launchBackground"}

\* Positions of a thread inside its command.  It holds the lock in Locked.
Locked == {"focus.yield", "focus.claim", "hide.yield", "launch.yield",
           "launch.yield2", "launch.claim"}
PCs == Locked \cup {"idle", "shutdown.begin", "shutdown.detach", "shutdown.join",
                    "launch.create", "launch.spawn", "launch.insert"}

\* A block of the main queue.  `from` is the thread a dispatch_sync blocks, NONE
\* for dispatch_async.
BlockOps == {"create", "mount", "unmount", "attach", "detach", "destroy",
             "clipStart", "clipStop"}
Block == [op : BlockOps, s : Sess \cup {NONE}, from : Threads \cup {NONE}]
Async(o, s) == [op |-> o, s |-> s, from |-> NONE]
Sync(o, s, t) == [op |-> o, s |-> s, from |-> t]

\* dispatch_sync has returned to t: none of its blocks is queued.
Returned(t) == \A b \in Range(mainq) : b.from # t

OnScreen == IF focused = NONE THEN NONE ELSE sessions[focused]
\* Mutant: the launch takes the screen for free.
OtherOnScreenIgnored(k) == NONE
\* The session a launch of k must make yield: never its own predecessor.
OtherOnScreen(k) == IF focused = k THEN NONE ELSE OnScreen

Init ==
  /\ sessions = [k \in Keys |-> NONE]
  /\ focused = NONE
  /\ lock = NONE
  /\ pc = [t \in Threads |-> "idle"]
  /\ op = [t \in Threads |-> "none"]
  /\ key = [t \in Threads |-> NONE]
  /\ hand = [t \in Threads |-> NONE]
  /\ life = [s \in Sess |-> "unused"]
  /\ worker = [s \in Sess |-> "none"]
  /\ input_attached = [s \in Sess |-> FALSE]
  /\ clipboard_active = [s \in Sess |-> FALSE]
  /\ mainq = <<>>
  /\ mainBusy = FALSE
  /\ mounted = {}
  /\ native_input = {}
  /\ gone = {}
  /\ clipSession = NONE

-----------------------------------------------------------------------------
(* RdpSession::unfocus and the first half of shutdown, on either side of    *)
(* the synchronous detach; refocus likewise around the synchronous attach.  *)

\* Mutant: the detach is dispatched asynchronously.
QueueDetachAsync(t, s) ==
  mainq' = IF s # NONE /\ input_attached[s]
           THEN Append(mainq, Async("detach", s)) ELSE mainq

QueueDetach(t, s) ==
  mainq' = IF s # NONE /\ input_attached[s]
           THEN Append(mainq, Sync("detach", s, t)) ELSE mainq

\* Mutant: the view stays in the window.
YieldBlocksKeepView(s) ==
  IF s # NONE /\ clipboard_active[s] THEN <<Async("clipStop", NONE)>> ELSE <<>>

YieldBlocks(s) ==
  IF s = NONE THEN <<>>
  ELSE IF clipboard_active[s] THEN <<Async("clipStop", NONE), Async("unmount", s)>>
  ELSE <<Async("unmount", s)>>

ClaimBlocks(s, t) == <<Async("mount", s), Sync("attach", s, t)>>

SyncStart(s) ==
  IF clipboard_active[s] THEN <<>> ELSE <<Async("clipStart", s)>>

ClearFlags(s) ==
  /\ input_attached' = [x \in Sess |-> IF x = s THEN FALSE ELSE input_attached[x]]
  /\ clipboard_active' = [x \in Sess |-> IF x = s THEN FALSE ELSE clipboard_active[x]]

SetFlags(s) ==
  /\ input_attached' = [input_attached EXCEPT ![s] = TRUE]
  /\ clipboard_active' = [clipboard_active EXCEPT ![s] = TRUE]

Goto(t, p) ==
  /\ pc' = [pc EXCEPT ![t] = p]
  /\ UNCHANGED <<op, key>>

\* The command returns to its caller.
Finish(t) ==
  /\ pc' = [pc EXCEPT ![t] = "idle"]
  /\ op' = [op EXCEPT ![t] = "none"]
  /\ key' = [key EXCEPT ![t] = NONE]

\* A command starts at idle; the ones below start by taking the lock.
Start(t, o, k, p) ==
  /\ pc[t] = "idle"
  /\ lock = NONE
  /\ pc' = [pc EXCEPT ![t] = p]
  /\ op' = [op EXCEPT ![t] = o]
  /\ key' = [key EXCEPT ![t] = k]

-----------------------------------------------------------------------------
(* focus(id).  "Already on screen" returns Ok and a missing or exited       *)
(* session returns Err: neither changes the state.                          *)

Focus(t, k) ==
  /\ Start(t, "focus", k, "focus.yield")
  /\ focused # k
  /\ sessions[k] # NONE
  /\ worker[sessions[k]] = "running"
  /\ lock' = t
  /\ QueueDetach(t, OnScreen)
  /\ UNCHANGED <<sessions, focused, hand, life, worker, flags, mainBusy, native>>

FocusClaim(t) ==
  /\ pc[t] = "focus.yield"
  /\ Returned(t)
  /\ ClearFlags(OnScreen)
  /\ mainq' = mainq \o YieldBlocks(OnScreen) \o ClaimBlocks(sessions[key[t]], t)
  /\ Goto(t, "focus.claim")
  /\ UNCHANGED <<table, hand, life, worker, mainBusy, native>>

FocusDone(t) ==
  /\ pc[t] = "focus.claim"
  /\ Returned(t)
  /\ SetFlags(sessions[key[t]])
  /\ mainq' = mainq \o SyncStart(sessions[key[t]])
  /\ focused' = key[t]
  /\ lock' = NONE
  /\ Finish(t)
  /\ UNCHANGED <<sessions, hand, life, worker, mainBusy, native>>

(* hide_all.  With no focused session it changes nothing.                   *)

HideAll(t) ==
  /\ Start(t, "hide", NONE, "hide.yield")
  /\ focused # NONE
  /\ lock' = t
  /\ QueueDetach(t, OnScreen)
  /\ UNCHANGED <<sessions, focused, hand, life, worker, flags, mainBusy, native>>

HideDone(t) ==
  /\ pc[t] = "hide.yield"
  /\ Returned(t)
  /\ ClearFlags(OnScreen)
  /\ mainq' = mainq \o YieldBlocks(OnScreen)
  /\ focused' = NONE
  /\ lock' = NONE
  /\ Finish(t)
  /\ UNCHANGED <<sessions, hand, life, worker, mainBusy, native>>

-----------------------------------------------------------------------------
(* close_keyed(id): one critical section, then the teardown of whatever was *)
(* under the key, outside the lock.                                         *)

\* Mutant: the marker is left behind.
UnfocusedForgotten(k) == focused
Unfocused(k) == IF focused = k THEN NONE ELSE focused

Close(t, k) ==
  /\ Start(t, "close", k, "shutdown.begin")
  /\ sessions[k] # NONE
  /\ focused' = Unfocused(k)
  /\ sessions' = [sessions EXCEPT ![k] = NONE]
  /\ hand' = [hand EXCEPT ![t] = sessions[k]]
  /\ UNCHANGED <<lock, life, worker, flags, mainq, mainBusy, native>>

(* RdpSession::shutdown on the session in hand.                             *)

ShutdownBegin(t) ==
  /\ pc[t] = "shutdown.begin"
  /\ QueueDetach(t, hand[t])
  /\ Goto(t, "shutdown.detach")
  /\ UNCHANGED <<table, hand, life, worker, flags, mainBusy, native>>

ShutdownYield(t) ==
  /\ pc[t] = "shutdown.detach"
  /\ Returned(t)
  /\ ClearFlags(hand[t])
  /\ mainq' = mainq \o YieldBlocks(hand[t])
  /\ Goto(t, "shutdown.join")
  /\ UNCHANGED <<table, hand, life, worker, mainBusy, native>>

\* The session value is dropped at the end of either branch, and NativeView's
\* Drop destroys the view.
Release(t, fate) ==
  /\ life' = [life EXCEPT ![hand[t]] = fate]
  /\ mainq' = Append(mainq, Async("destroy", hand[t]))
  /\ hand' = [hand EXCEPT ![t] = NONE]
  /\ IF op[t] = "close" THEN Finish(t) ELSE Goto(t, "launch.create")

ShutdownJoined(t) ==
  /\ pc[t] = "shutdown.join"
  /\ worker[hand[t]] = "finished"
  /\ Release(t, "destroyed")
  /\ UNCHANGED <<table, worker, flags, mainBusy, native>>

\* Mutant: the join has no deadline.
ShutdownWaitsForever(t) == pc[t] = "shutdown.join" /\ FALSE

\* join_with_deadline expired: worker, C session and context are abandoned.
ShutdownAbandon(t) ==
  /\ pc[t] = "shutdown.join"
  /\ worker[hand[t]] = "running"
  /\ Release(t, "leaked")
  /\ UNCHANGED <<table, worker, flags, mainBusy, native>>

-----------------------------------------------------------------------------
(* launch_entry(id, mode): a first critical section makes prior sessions    *)
(* yield, then shutdown and construction without the lock, then a second    *)
(* critical section that claims the screen (Focused) and inserts.           *)

\* End of the first critical section: take the predecessor out of the map.
TakePredecessor(t, k) ==
  /\ sessions' = [sessions EXCEPT ![k] = NONE]
  /\ hand' = [hand EXCEPT ![t] = sessions[k]]

ToConstruct(k) == IF sessions[k] = NONE THEN "launch.create" ELSE "shutdown.begin"

LaunchBackground(t, k) ==
  /\ Start(t, "launchBackground", k, ToConstruct(k))
  /\ focused' = Unfocused(k)
  /\ TakePredecessor(t, k)
  /\ UNCHANGED <<lock, life, worker, flags, mainq, mainBusy, native>>

LaunchFocused(t, k) ==
  /\ k \in FocusedKeys
  /\ Start(t, "launchFocused", k, "launch.yield")
  /\ lock' = t
  /\ QueueDetach(t, OtherOnScreen(k))
  /\ UNCHANGED <<sessions, focused, hand, life, worker, flags, mainBusy, native>>

LaunchYield(t) ==
  /\ pc[t] = "launch.yield"
  /\ Returned(t)
  /\ ClearFlags(OtherOnScreen(key[t]))
  /\ mainq' = mainq \o YieldBlocks(OtherOnScreen(key[t]))
  /\ focused' = NONE
  /\ lock' = NONE
  /\ TakePredecessor(t, key[t])
  /\ Goto(t, ToConstruct(key[t]))
  /\ UNCHANGED <<life, worker, mainBusy, native>>

\* launch_inner, always detached: view creation and geometry are synchronous.
LaunchCreate(t) ==
  /\ pc[t] = "launch.create"
  /\ mainq' = Append(mainq, Sync("create", NONE, t))
  /\ Goto(t, "launch.spawn")
  /\ UNCHANGED <<table, hand, life, worker, flags, mainBusy, native>>

LaunchSpawn(t) ==
  /\ pc[t] = "launch.spawn"
  /\ Returned(t)
  /\ \E s \in Sess :
       /\ life[s] = "unused"
       /\ life' = [life EXCEPT ![s] = "live"]
       /\ worker' = [worker EXCEPT ![s] = "running"]
       /\ hand' = [hand EXCEPT ![t] = s]
  /\ Goto(t, "launch.insert")
  /\ UNCHANGED <<table, flags, mainq, mainBusy, native>>

\* jr_session_create returned NULL (or a CString error): Err, nothing inserted.
LaunchFail(t) ==
  /\ pc[t] = "launch.spawn"
  /\ Returned(t)
  /\ Finish(t)
  /\ UNCHANGED <<table, hand, life, worker, flags, mainq, mainBusy, native>>

\* HashMap::insert drops what a concurrent launch of the same key put there: a
\* plain drop, without shutdown.  Only the view has a destructor.
Insert(t) ==
  LET k == key[t]
      old == sessions[k]
  IN /\ sessions' = [sessions EXCEPT ![k] = hand[t]]
     /\ life' = IF old = NONE THEN life ELSE [life EXCEPT ![old] = "dropped"]
     /\ hand' = [hand EXCEPT ![t] = NONE]
     /\ Finish(t)

\* Mutant: the overwritten session's view has no destructor.
DropBlocksLeakView(s) == <<>>
DropBlocks(s) == IF s = NONE THEN <<>> ELSE <<Async("destroy", s)>>

LaunchInsert(t) ==
  /\ pc[t] = "launch.insert"
  /\ op[t] = "launchBackground"
  /\ lock = NONE
  /\ Insert(t)
  /\ mainq' = mainq \o DropBlocks(sessions[key[t]])
  /\ UNCHANGED <<focused, lock, worker, flags, mainBusy, native>>

LaunchRelock(t) ==
  /\ pc[t] = "launch.insert"
  /\ op[t] = "launchFocused"
  /\ lock = NONE
  /\ lock' = t
  /\ QueueDetach(t, OtherOnScreen(key[t]))
  /\ Goto(t, "launch.yield2")
  /\ UNCHANGED <<sessions, focused, hand, life, worker, flags, mainBusy, native>>

LaunchClaim(t) ==
  /\ pc[t] = "launch.yield2"
  /\ Returned(t)
  /\ ClearFlags(OtherOnScreen(key[t]))
  /\ mainq' = mainq \o YieldBlocks(OtherOnScreen(key[t])) \o ClaimBlocks(hand[t], t)
  /\ Goto(t, "launch.claim")
  /\ UNCHANGED <<table, hand, life, worker, mainBusy, native>>

LaunchDone(t) ==
  /\ pc[t] = "launch.claim"
  /\ Returned(t)
  /\ SetFlags(hand[t])
  /\ Insert(t)
  /\ mainq' = mainq \o SyncStart(hand[t]) \o DropBlocks(sessions[key[t]])
  /\ focused' = key[t]
  /\ lock' = NONE
  /\ UNCHANGED <<worker, mainBusy, native>>

-----------------------------------------------------------------------------
(* The worker thread: jr_session_connect returns (clean end, error, or the  *)
(* disconnect request).  A wedged worker never takes this step.             *)

WorkerExit(s) ==
  /\ worker[s] = "running"
  /\ worker' = [worker EXCEPT ![s] = "finished"]
  /\ UNCHANGED <<table, cmds, life, flags, mainq, mainBusy, native>>

(* The main thread runs one block at a time, in order.                      *)

\* The blocks of jr_view_add_to_window, _remove_from_window, _attach_input and
\* _destroy on the view of one session.
RunOnView(b) ==
  /\ mounted' = CASE b.op = "mount" -> mounted \cup {b.s}
                  [] b.op \in {"unmount", "destroy"} -> mounted \ {b.s}
                  [] OTHER -> mounted
  /\ native_input' = CASE b.op = "attach" -> native_input \cup {b.s}
                       [] b.op \in {"detach", "destroy"} -> native_input \ {b.s}
                       [] OTHER -> native_input
  /\ gone' = IF b.op = "destroy" THEN gone \cup {b.s} ELSE gone

\* jr_clipboard_sync_start takes the pasteboard timer's session over whoever had
\* it; jr_clipboard_sync_stop clears it, whoever has it.
RunOnClipboard(b) ==
  clipSession' = CASE b.op = "clipStart" -> b.s
                   [] b.op = "clipStop" -> NONE
                   [] OTHER -> clipSession

MainRun ==
  /\ ~mainBusy
  /\ mainq # <<>>
  /\ mainq' = Tail(mainq)
  /\ RunOnView(Head(mainq))
  /\ RunOnClipboard(Head(mainq))
  /\ UNCHANGED <<table, cmds, life, worker, flags, mainBusy>>

\* all_session_statuses / session_status / rdp_status on the main thread: with
\* the lock free they change nothing; with the lock taken the thread waits in
\* Mutex::lock and runs no block.
MainStatusBlocks ==
  /\ MainPolls
  /\ ~mainBusy
  /\ lock # NONE
  /\ mainBusy' = TRUE
  /\ UNCHANGED <<table, cmds, life, worker, flags, mainq, native>>

MainStatusDone ==
  /\ mainBusy
  /\ lock = NONE
  /\ mainBusy' = FALSE
  /\ UNCHANGED <<table, cmds, life, worker, flags, mainq, native>>

-----------------------------------------------------------------------------
\* The steps a thread takes once its command has begun.
Continue(t) ==
  \/ FocusClaim(t) \/ FocusDone(t) \/ HideDone(t)
  \/ ShutdownBegin(t) \/ ShutdownYield(t) \/ ShutdownJoined(t) \/ ShutdownAbandon(t)
  \/ LaunchYield(t) \/ LaunchCreate(t) \/ LaunchSpawn(t) \/ LaunchFail(t)
  \/ LaunchInsert(t) \/ LaunchRelock(t) \/ LaunchClaim(t) \/ LaunchDone(t)

Begin(t) ==
  \/ HideAll(t)
  \/ \E k \in Keys : Focus(t, k) \/ Close(t, k) \/ LaunchBackground(t, k) \/ LaunchFocused(t, k)

Main == MainRun \/ MainStatusBlocks \/ MainStatusDone

Next ==
  \/ \E t \in Threads : Begin(t) \/ Continue(t)
  \/ \E s \in Sess : WorkerExit(s)
  \/ Main

Spec == Init /\ [][Next]_vars

\* Fairness: the run loop keeps executing blocks, a thread keeps executing its
\* command, and a thread waiting for the mutex is not starved for ever.  Nothing
\* is assumed of the workers, nor of the user who starts commands.
Fairness ==
  /\ WF_vars(MainRun)
  /\ WF_vars(MainStatusDone)
  /\ \A t \in Threads : SF_vars(Continue(t))

FairSpec == Spec /\ Fairness

-----------------------------------------------------------------------------
(* Properties.                                                              *)

TypeOK ==
  /\ sessions \in [Keys -> Sess \cup {NONE}]
  /\ focused \in Keys \cup {NONE}
  /\ lock \in Threads \cup {NONE}
  /\ pc \in [Threads -> PCs]
  /\ op \in [Threads -> Ops]
  /\ key \in [Threads -> Keys \cup {NONE}]
  /\ hand \in [Threads -> Sess \cup {NONE}]
  /\ life \in [Sess -> {"unused", "live", "destroyed", "leaked", "dropped"}]
  /\ worker \in [Sess -> {"none", "running", "finished"}]
  /\ input_attached \in [Sess -> BOOLEAN]
  /\ clipboard_active \in [Sess -> BOOLEAN]
  /\ mainq \in Seq(Block)
  /\ mainBusy \in BOOLEAN
  /\ mounted \subseteq Sess \cup {NONE}
  /\ native_input \subseteq Sess \cup {NONE}
  /\ gone \subseteq Sess \cup {NONE}
  /\ clipSession \in Sess \cup {NONE}

\* The focus marker always names a key that has a session, even while commands
\* remove, replace and insert sessions concurrently: a marker left behind would
\* make focus() answer "already on screen" for a device with no desktop.
FocusNamesASession == focused # NONE => sessions[focused] # NONE

\* Whenever the manager lock is free, a session in the map that forwards input
\* or owns the clipboard flag is the focused one: background sessions run
\* headless (session.rs module comment), whatever launches and focus requests
\* interleaved to get there.
OnlyFocusedHoldsResources ==
  lock = NONE =>
    \A k \in Keys :
      /\ sessions[k] # NONE
      /\ input_attached[sessions[k]] \/ clipboard_active[sessions[k]]
      => focused = k

\* Nothing reaches a C session after jr_session_destroy: not the map, not a
\* command, not its worker, and no view forwards AppKit input into it.  This is
\* what the synchronous detach at the head of shutdown and the join are for.
FreedSessionUnreachable ==
  \A s \in Sess : life[s] = "destroyed" =>
    /\ worker[s] = "finished"
    /\ s \notin native_input
    /\ \A k \in Keys : sessions[k] # s
    /\ \A t \in Threads : hand[t] # s

Settled ==
  /\ lock = NONE
  /\ mainq = <<>>
  /\ \A t \in Threads : pc[t] = "idle"

\* Once every command has returned and the main queue is empty, only the focused
\* session's view is in the window and forwards input: a closed, replaced or
\* hidden desktop never keeps its last frame over the webview (KI-035).
SettledScreen ==
  Settled => mounted \cup (native_input \ gone) \subseteq {OnScreen}

\* A command that has begun comes to an end, even when workers are wedged for
\* ever: the bounded join of shutdown keeps close and relaunch moving.
CommandsFinish == \A t \in Threads : pc[t] # "idle" ~> pc[t] = "idle"

\* The view of a session that was shut down, abandoned or replaced leaves the
\* window, whether or not its worker ever ends (KI-035).
EndedDesktopLeavesScreen ==
  \A s \in Sess :
    life[s] \in {"destroyed", "leaked", "dropped"} ~> s \notin mounted

=============================================================================
