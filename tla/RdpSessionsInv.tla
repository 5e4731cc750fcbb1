--------------------------- MODULE RdpSessionsInv ---------------------------
(***************************************************************************)
(* The inductive invariant of RdpSessions and its refinement of            *)
(* SessionTable.  Every part is a conjunct with a name of its own.         *)
(***************************************************************************)
EXTENDS RdpSessions

\* The session a thread is about to make yield, once its detach has returned.
Victim(t) ==
  CASE pc[t] \in {"focus.yield", "hide.yield"} -> OnScreen
    [] pc[t] \in {"launch.yield", "launch.yield2"} -> OtherOnScreen(key[t])
    [] pc[t] = "shutdown.detach" -> hand[t]
    [] OTHER -> NONE

\* The session a thread is attaching to the screen.
Target(t) ==
  CASE pc[t] = "focus.claim" -> sessions[key[t]]
    [] pc[t] = "launch.claim" -> hand[t]
    [] OTHER -> NONE

HoldsResources(s) == input_attached[s] \/ clipboard_active[s]

\* The lock is held by exactly the thread inside a critical section.
LockInv == \A t \in Threads : pc[t] \in Locked <=> lock = t

\* What each position implies of the thread's own variables.
ThreadInv ==
  \A t \in Threads :
    /\ pc[t] # "idle" /\ pc[t] # "hide.yield" => key[t] \in Keys
    /\ pc[t] \in {"focus.yield", "focus.claim"} =>
         sessions[key[t]] # NONE /\ focused # key[t]
    /\ hand[t] # NONE <=>
         pc[t] \in {"shutdown.begin", "shutdown.detach", "shutdown.join",
                    "launch.insert", "launch.yield2", "launch.claim"}

\* Every session in use has one owner: one key or one thread.
OwnerInv ==
  /\ \A k \in Keys : sessions[k] # NONE => life[sessions[k]] = "live"
  /\ \A t \in Threads : hand[t] # NONE => life[hand[t]] = "live"
  /\ \A j, k \in Keys : sessions[j] = sessions[k] /\ j # k => sessions[j] = NONE
  /\ \A t, u \in Threads : hand[t] = hand[u] /\ t # u => hand[t] = NONE
  /\ \A k \in Keys, t \in Threads : sessions[k] = hand[t] => hand[t] = NONE

\* The life of the C session against its worker, flags and view.
LifeInv ==
  \A s \in Sess :
    /\ life[s] = "unused" => ~HoldsResources(s) /\ s \notin native_input
    /\ life[s] = "destroyed" => worker[s] = "finished" /\ s \notin native_input

\* Only the focused session holds screen resources; while another one is being
\* attached no session of another key does, nor does a session under construction.
ResourceInv ==
  /\ \A k \in Keys : sessions[k] # NONE /\ HoldsResources(sessions[k]) => focused = k
  /\ \A t \in Threads, k \in Keys :
       pc[t] \in {"focus.claim", "launch.claim"} /\ k # key[t] /\ sessions[k] # NONE
         => ~HoldsResources(sessions[k])
  /\ \A t \in Threads :
       pc[t] \in {"shutdown.join", "launch.insert", "launch.yield2", "launch.claim"}
         => ~HoldsResources(hand[t])

\* Input attachment in AppKit against the flag: a view forwards input only if
\* its session's flag says so or a thread is attaching it, and a thread past its
\* detach has really stopped its victim's input.
InputInv ==
  /\ \A s \in native_input :
       s # NONE /\ (input_attached[s] \/ \E t \in Threads : Target(t) = s)
  /\ \A b \in Range(mainq) : b.op = "attach" =>
       b.from \in Threads /\ Target(b.from) = b.s /\ b.s # NONE
  /\ \A t \in Threads : Victim(t) # NONE =>
       Victim(t) \notin native_input \/ Sync("detach", Victim(t), t) \in Range(mainq)
  /\ \A t \in Threads : pc[t] = "shutdown.join" => hand[t] \notin native_input

IInv ==
  /\ TypeOK
  /\ FocusNamesASession
  /\ LockInv
  /\ ThreadInv
  /\ OwnerInv
  /\ LifeInv
  /\ ResourceInv
  /\ InputInv

-----------------------------------------------------------------------------
(* What the screen comes to once the queue has run.                         *)

Shows(b, s) == b.op = "mount" /\ b.s = s
Hides(b, s) == b.op \in {"unmount", "destroy"} /\ b.s = s

\* The view of s is in the window when the blocks of q have run, given those that
\* are in it now.
EndsMounted(now, q, s) ==
  \/ s \in now /\ \A b \in Range(q) : ~Hides(b, s)
  \/ \E i \in DOMAIN q : Shows(q[i], s) /\ \A j \in DOMAIN q : j > i => ~Hides(q[j], s)

Claiming == {"focus.claim", "launch.claim"}

\* The session in front, as long as no thread brings another key there.
KeepsScreen(s) == s = OnScreen /\ \A t \in Threads : pc[t] \in Claiming => key[t] = focused

\* A session that a thread is attaching, or has not detached yet.
Works(t, s) ==
  \/ Target(t) = s
  \/ pc[t] \in {"shutdown.begin", "shutdown.detach"} /\ hand[t] = s

InTransit(s) == \E t \in Threads : Works(t, s)

\* A view that is going to be in the window is the one in front, or a command is
\* still at work on it.
MountInv ==
  \A s \in Sess \cup {NONE} :
    EndsMounted(mounted, mainq, s) => s # NONE /\ (KeepsScreen(s) \/ InTransit(s))

Owned(s) == (\E k \in Keys : sessions[k] = s) \/ (\E t \in Threads : hand[t] = s)

\* A live session is in the map or in a command's hand; one that has ended gave up
\* its resources, or its view is about to be destroyed.
EndedInv ==
  \A s \in Sess :
    /\ life[s] = "live" => Owned(s)
    /\ life[s] \in {"destroyed", "leaked"} => ~HoldsResources(s)
    /\ life[s] = "dropped" /\ s \in native_input =>
         \E b \in Range(mainq) : b.op = "destroy" /\ b.s = s

ScreenInv == MountInv /\ EndedInv

-----------------------------------------------------------------------------
\* The table the callers see.
StatusOf(k) ==
  IF sessions[k] = NONE THEN "notRunning"
  ELSE IF worker[sessions[k]] = "finished" THEN "exited" ELSE "running"

Table == INSTANCE SessionTable
           WITH status <- [k \in Keys |-> StatusOf(k)], front <- focused

\* The lock, the detours through the main thread and the teardown outside the
\* lock are invisible: every command acts on the table in atomic steps.
ImplementsSessionTable == Table!Spec
=============================================================================
