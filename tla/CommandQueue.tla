---------------------------- MODULE CommandQueue ----------------------------
(***************************************************************************)
(* The input path of one session: the AppKit main thread enqueues commands *)
(* (native/freerdp_bridge/queue.c), the RDP worker waits for its wake      *)
(* event, drains the queue and is the only caller of FreeRDP's input API   *)
(* (jr_run_loop in bridge.c); another thread asks it to disconnect.        *)
(*                                                                         *)
(* A command is its kind and its number in `log`, the sequence of          *)
(* everything AppKit produced; the coordinates of a move stand for that    *)
(* number.  One button is modelled; "other" is every command that neither  *)
(* moves nor presses (wheel, text, clipboard, resize, modifier reset).     *)
(***************************************************************************)
EXTENDS Naturals, Sequences, FiniteSets, SequencesExt

CONSTANTS
  CAP,      \* JR_CMDQ_CAP
  MaxMade   \* bound: how many commands AppKit produces

ASSUME CommandQueueAssumption == CAP \in Nat \ {0} /\ MaxMade \in Nat

Kinds == {"move", "press", "release", "other"}

VARIABLES
  items,          \* q->items[0 .. count - 1]
  destroyed,      \* the queue is gone
  wake,           \* s->cmd_wake, a manual-reset event
  abort,          \* FreeRDP's own abort event, one of its handles
  disconnecting,  \* s->disconnecting
  log,            \* kinds of the commands AppKit has produced, in order
  producer,       \* main thread: idle, or between the enqueue and SetEvent
  breaker,        \* the thread in jr_session_disconnect
  worker,         \* where the worker is in jr_run_loop
  inflight,       \* the command it popped and has not dispatched yet
  sent            \* commands handed to FreeRDP, in order

events == <<wake, abort, disconnecting>>
vars == <<items, destroyed, events, log, producer, breaker, worker, inflight, sent>>

Cmd == [kind : Kinds, n : 1..MaxMade]
NoCmd == [kind |-> "none", n |-> 0]

WorkerPCs == {"connect", "check", "reset", "drain", "dispatch", "wait", "ended"}

\* AppKit delivers the button's events in pairs.
Held == LET transitions == SelectSeq(log, LAMBDA k : k \in {"press", "release"})
        IN transitions # <<>> /\ Last(transitions) = "press"

Init ==
  /\ items = <<>>
  /\ destroyed = FALSE
  /\ wake = FALSE
  /\ abort = FALSE
  /\ disconnecting = FALSE
  /\ log = <<>>
  /\ producer = "idle"
  /\ breaker = "idle"
  /\ worker = "connect"
  /\ inflight = NoCmd
  /\ sent = <<>>

-----------------------------------------------------------------------------
(* The queue operations; each runs under q->lock and is one step.           *)

IsMove(c) == c.kind = "move"

\* Mutant: coalescing looks for any pending move.
CoalesceAnyMove(q, c) ==
  IF \E i \in 1..Len(q) : IsMove(q[i])
  THEN [q EXCEPT ![CHOOSE i \in 1..Len(q) : IsMove(q[i])] = c]
  ELSE IF Len(q) >= CAP THEN q
  ELSE Append(q, c)

\* Mutant: of two moves in a row the first is kept.
CoalesceKeepsFirst(q, c) ==
  IF (q # <<>> /\ IsMove(Last(q))) \/ Len(q) >= CAP THEN q ELSE Append(q, c)

\* jr_cmdq_enqueue_move: a move at the tail takes the latest position; a full
\* queue drops the new one.
EnqueueMove(q, c) ==
  IF q # <<>> /\ IsMove(Last(q)) THEN [q EXCEPT ![Len(q)] = c]
  ELSE IF Len(q) >= CAP THEN q
  ELSE Append(q, c)

\* Mutant: a full queue drops the new command.
PushDropsNewest(q, c) == IF Len(q) < CAP THEN Append(q, c) ELSE q

OldestMove(q) == CHOOSE i \in 1..Len(q) :
  IsMove(q[i]) /\ \A j \in 1..(i - 1) : ~IsMove(q[j])

\* push_internal: a full queue evicts its oldest move, or drops the new command
\* when there is none.
Push(q, c) ==
  IF Len(q) < CAP THEN Append(q, c)
  ELSE IF \E i \in 1..Len(q) : IsMove(q[i])
  THEN Append(RemoveAt(q, OldestMove(q)), c)
  ELSE q

(* jr_session_enqueue_*: enqueue, then SetEvent.                            *)

Produce(kind) ==
  LET c == [kind |-> kind, n |-> Len(log) + 1]
  IN /\ producer = "idle"
     /\ ~destroyed
     /\ Len(log) < MaxMade
     /\ kind = "press" => ~Held
     /\ kind = "release" => Held
     /\ log' = Append(log, kind)
     /\ items' = IF kind = "move" THEN EnqueueMove(items, c) ELSE Push(items, c)
     /\ producer' = "signal"
     /\ UNCHANGED <<destroyed, events, breaker, worker, inflight, sent>>

Signal ==
  /\ producer = "signal"
  /\ wake' = TRUE
  /\ producer' = "idle"
  /\ UNCHANGED <<items, destroyed, abort, disconnecting, log, breaker, worker, inflight, sent>>

(* jr_session_disconnect.                                                   *)

Disconnect ==
  /\ breaker = "idle"
  /\ ~destroyed
  /\ disconnecting' = TRUE
  /\ breaker' = "wake"
  /\ UNCHANGED <<items, destroyed, wake, abort, log, producer, worker, inflight, sent>>

\* Mutant: FreeRDP is not told.
DisconnectWakeOnly ==
  /\ breaker = "wake"
  /\ wake' = TRUE
  /\ breaker' = "done"
  /\ UNCHANGED <<items, destroyed, abort, disconnecting, log, producer, worker, inflight, sent>>

\* freerdp_abort_connect_context, then SetEvent.
DisconnectWake ==
  /\ breaker = "wake"
  /\ abort' = TRUE
  /\ wake' = TRUE
  /\ breaker' = "done"
  /\ UNCHANGED <<items, destroyed, disconnecting, log, producer, worker, inflight, sent>>

\* jr_session_destroy, after the join: jr_cmdq_destroy frees what is pending.
Destroy ==
  /\ worker = "ended"
  /\ breaker = "done"
  /\ producer = "idle"
  /\ ~destroyed
  /\ destroyed' = TRUE
  /\ items' = <<>>
  /\ UNCHANGED <<events, log, producer, breaker, worker, inflight, sent>>

-----------------------------------------------------------------------------
(* jr_run_loop, the worker.                                                 *)

\* Mutant: ResetEvent after the drain instead of before it.
WorkerResetsLast(from, to) ==
  /\ worker = from
  /\ worker' = CASE from = "check" /\ to = "reset" -> "drain"
                [] from = "drain" /\ to = "wait" -> "reset"
                [] from = "reset" -> "wait"
                [] OTHER -> to
  /\ UNCHANGED <<destroyed, abort, disconnecting, log, producer, breaker>>

\* What each worker step leaves alone: everything but its own position, unless
\* the step says otherwise.
WorkerGoes(from, to) ==
  /\ worker = from
  /\ worker' = to
  /\ UNCHANGED <<destroyed, abort, disconnecting, log, producer, breaker>>

Connected == WorkerGoes("connect", "check") /\ UNCHANGED <<items, wake, inflight, sent>>

ConnectFails == WorkerGoes("connect", "ended") /\ UNCHANGED <<items, wake, inflight, sent>>

\* freerdp_shall_disconnect_context and s->disconnecting.
Check ==
  /\ WorkerGoes("check", IF abort \/ disconnecting THEN "ended" ELSE "reset")
  /\ UNCHANGED <<items, wake, inflight, sent>>

Reset ==
  /\ WorkerGoes("reset", "drain")
  /\ wake' = FALSE
  /\ UNCHANGED <<items, inflight, sent>>

\* jr_cmdq_drain pops one command under the lock until the queue is empty ...
Drain ==
  IF items = <<>>
  THEN WorkerGoes("drain", "wait") /\ UNCHANGED <<items, wake, inflight, sent>>
  ELSE /\ WorkerGoes("drain", "dispatch")
       /\ inflight' = Head(items)
       /\ items' = Tail(items)
       /\ UNCHANGED <<wake, sent>>

\* ... and runs jr_dispatch_cmd on it outside the lock.
Dispatch ==
  /\ WorkerGoes("dispatch", "drain")
  /\ sent' = Append(sent, inflight)
  /\ inflight' = NoCmd
  /\ UNCHANGED <<items, wake>>

\* WaitForMultipleObjects returns for one of our events ...
Woken ==
  /\ wake \/ abort
  /\ WorkerGoes("wait", "check")
  /\ UNCHANGED <<items, wake, inflight, sent>>

\* ... for traffic or the 33 ms tick, whenever they happen ...
Tick == WorkerGoes("wait", "check") /\ UNCHANGED <<items, wake, inflight, sent>>

\* ... or the connection is gone: no handles, a failed wait or check.
ServerGone == WorkerGoes("wait", "ended") /\ UNCHANGED <<items, wake, inflight, sent>>

-----------------------------------------------------------------------------
WorkerRuns == Connected \/ Check \/ Reset \/ Drain \/ Dispatch \/ Woken

Next ==
  \/ \E kind \in Kinds : Produce(kind)
  \/ Signal \/ Disconnect \/ DisconnectWake \/ Destroy
  \/ WorkerRuns \/ ConnectFails \/ Tick \/ ServerGone

Spec == Init /\ [][Next]_vars

\* The worker runs when it can, FreeRDP's connect returns, and the two threads
\* that owe a SetEvent make it.  Nothing is assumed of the tick nor of traffic:
\* the wake-up alone must carry the commands.
Fairness == WF_vars(WorkerRuns) /\ WF_vars(Signal) /\ WF_vars(DisconnectWake)

FairSpec == Spec /\ Fairness

-----------------------------------------------------------------------------
(* Properties.                                                              *)

\* Everything that is on its way to FreeRDP or has reached it, in order.
Pipeline == sent \o (IF inflight = NoCmd THEN <<>> ELSE <<inflight>>) \o items

Arrives(n) == \E i \in 1..Len(Pipeline) : Pipeline[i].n = n

TypeOK ==
  /\ items \in Seq(Cmd) /\ Len(items) <= CAP
  /\ destroyed \in BOOLEAN
  /\ wake \in BOOLEAN /\ abort \in BOOLEAN /\ disconnecting \in BOOLEAN
  /\ log \in Seq(Kinds) /\ Len(log) <= MaxMade
  /\ producer \in {"idle", "signal"}
  /\ breaker \in {"idle", "wake", "done"}
  /\ worker \in WorkerPCs
  /\ inflight \in Cmd \cup {NoCmd}
  /\ sent \in Seq(Cmd)

\* Commands reach FreeRDP in the order AppKit produced them, each at most once,
\* whatever was coalesced or evicted in between: a move that took its position
\* across a button or key transition would arrive out of order.
InOrder ==
  \A i, j \in 1..Len(Pipeline) : i < j => Pipeline[i].n < Pipeline[j].n

\* The commands that no later move supersedes: every button, key or other
\* command, the last move before each of them and the last move of all.
Lasting == {n \in 1..Len(log) : log[n] # "move" \/ n = Len(log) \/ log[n + 1] # "move"}

\* The rule of KI-018, "DOWN -> MOVE -> MOVE -> UP must survive": while the
\* queue has room for the commands that count, each of them arrives.
DragSurvives ==
  Cardinality(Lasting) <= CAP /\ ~destroyed => \A n \in Lasting : Arrives(n)

\* With overflow a button or key command is lost only after as many others as
\* the queue holds: moves make room for it first.
OnlyMovesYield ==
  ~destroyed =>
    \A n \in 1..Len(log) :
      log[n] # "move" /\ ~Arrives(n) =>
        Cardinality({m \in 1..(n - 1) : log[m] # "move"}) >= CAP

\* No lost wake-up: when the worker has seen the queue empty, or waits, and the
\* queue is not empty any more, its event is set or is about to be.
NoLostWake ==
  worker = "wait" /\ items # <<>> => wake \/ producer = "signal"

\* The same for the end of the session: a disconnect request that arrives
\* between the loop's check and its ResetEvent is not lost with the event, so a
\* parked worker always has something left to wake it.
NoLostDisconnect ==
  worker = "wait" /\ disconnecting => abort \/ breaker = "wake"

\* Without traffic and without the 33 ms tick, whatever AppKit enqueued is
\* handed to FreeRDP unless the session ends.
EverythingIsSent == (items # <<>>) ~> (items = <<>> \/ worker = "ended")

\* A disconnect request ends the worker, again without the tick.
DisconnectEnds == disconnecting ~> worker = "ended"
=============================================================================
