--------------------------- MODULE EngineSessions ---------------------------
(***************************************************************************)
(* The reliability layer's session manager (session/manager.rs) over the   *)
(* frozen RdpEngine trait (session/engine.rs).  One mutable manager serves *)
(* one call at a time; the engines run beside it and report through a      *)
(* sink, so what an attempt said is read later, maybe after the session    *)
(* was closed or started again.                                            *)
(***************************************************************************)
EXTENDS Naturals, Sequences

CONSTANTS
  Sids,         \* session ids, username@deviceId
  MaxAttempts,  \* bound: attempts ever started
  NONE

ASSUME MaxAttemptsAssumption == MaxAttempts \in Nat \ {0}
ASSUME NoneIsNoSid == NONE \notin Sids

Attempts == 1..MaxAttempts
States == {"Connecting", "Connected", "Error", "Disconnected"}
Entry == [attempt : Attempts, state : States, active : BOOLEAN]
ASSUME NoneIsNoEntry == NONE \notin Entry
Handle == [of : Sids \cup {NONE}, runs : BOOLEAN, front : BOOLEAN, told : BOOLEAN]
Reports == {"Connected", "Error", "Disconnected"}
Terminal == {"Error", "Disconnected"}

VARIABLES
  sessions,  \* per id: NONE, or the entry: its attempt, view state, focused flag
  focused,   \* the id the manager calls focused, or NONE
  last,      \* AttemptId's counter
  engines,   \* per attempt: its session, whether it runs, has the focus, was told to stop
  sent,      \* per attempt: the events its engine gave the sink
  read       \* per attempt: how many of them the manager has handled

vars == <<sessions, focused, last, engines, sent, read>>

Unused == [of |-> NONE, runs |-> FALSE, front |-> FALSE, told |-> FALSE]

TypeOK ==
  /\ sessions \in [Sids -> {NONE} \cup Entry]
  /\ focused \in Sids \cup {NONE}
  /\ last \in 0..MaxAttempts
  /\ engines \in [Attempts -> Handle]
  /\ sent \in [Attempts -> Seq(Reports)]
  /\ read \in [Attempts -> 0..2]

Init ==
  /\ sessions = [s \in Sids |-> NONE]
  /\ focused = NONE
  /\ last = 0
  /\ engines = [a \in Attempts |-> Unused]
  /\ sent = [a \in Attempts |-> <<>>]
  /\ read = [a \in Attempts |-> 0]

Present(s) == sessions[s] # NONE
Engine(s) == sessions[s].attempt
SetState(s, st) == sessions' = [sessions EXCEPT ![s].state = st]

(***************************************************************************)
(* connect: refused while an attempt is under way; else a new attempt.  If *)
(* the engine cannot start, the old entry stays; if it can, the entry is   *)
(* replaced and the old engine is told nothing.                            *)
(***************************************************************************)
NextAttempt == last < MaxAttempts /\ last' = last + 1
Starts(s) == (Present(s) => sessions[s].state # "Connecting") /\ NextAttempt

Connect(s) ==
  /\ Starts(s)
  /\ engines' = [engines EXCEPT ![last'] =
                   [of |-> s, runs |-> TRUE, front |-> FALSE, told |-> FALSE]]
  /\ sessions' = [sessions EXCEPT ![s] =
                    [attempt |-> last', state |-> "Connecting", active |-> FALSE]]
  /\ UNCHANGED <<focused, sent, read>>

StartFails(s) == Starts(s) /\ UNCHANGED <<sessions, focused, engines, sent, read>>

\* mark_connected goes by session: whichever attempt the caller had in mind.
MarkConnected(s) ==
  /\ Present(s)
  /\ SetState(s, "Connected")
  /\ UNCHANGED <<focused, last, engines, sent, read>>

(***************************************************************************)
(* focus: the engine in front is told first; either engine may refuse, and *)
(* then the call ends where it is.  The previous flag is cleared last, so  *)
(* focusing the focused session again leaves it without its flag.          *)
(***************************************************************************)
Behind(s) == {p \in Sids : p = focused /\ p # s /\ Present(p)}
Hidden(s) ==
  [a \in Attempts |-> [engines[a] EXCEPT !.front = @ /\ \A p \in Behind(s) : a # Engine(p)]]
Raised(s) == [Hidden(s) EXCEPT ![Engine(s)].front = TRUE]
Flagged(s) ==
  [t \in Sids |->
     IF ~Present(t) THEN NONE
     ELSE [sessions[t] EXCEPT !.active = (t = s \/ @) /\ t # focused]]

Focus(s) ==
  /\ Present(s)
  /\ engines' = Raised(s)
  /\ sessions' = Flagged(s)
  /\ focused' = s
  /\ UNCHANGED <<last, sent, read>>

\* The target's engine refuses after the previous one was told to hide; a
\* previous engine that refuses ends the call before anything has changed.
FocusRefused(s) ==
  /\ Present(s)
  /\ Behind(s) # {}
  /\ engines' = Hidden(s)
  /\ UNCHANGED <<sessions, focused, last, sent, read>>

\* Told to hide and to stop; the Results are ignored, and it may do neither.
Stopped(s, hides, stops) ==
  [engines EXCEPT ![Engine(s)].front = @ /\ ~hides /\ ~stops,
                  ![Engine(s)].runs = @ /\ ~stops,
                  ![Engine(s)].told = TRUE]

\* Mutant: the manager still calls the closed session focused.
UnmarkedNot(s) == focused
Unmarked(s) == IF focused = s THEN NONE ELSE focused

\* disconnect: the entry and its handle go, whatever the engine answers.
Disconnect(s) ==
  /\ Present(s)
  /\ \E hides, stops \in BOOLEAN : engines' = Stopped(s, hides, stops)
  /\ sessions' = [sessions EXCEPT ![s] = NONE]
  /\ focused' = Unmarked(s)
  /\ UNCHANGED <<last, sent, read>>

\* on_event: the sink is given the attempt with the event.
Sinks(a, e) == sent' = [sent EXCEPT ![a] = Append(@, e)]

\* The engine tells the sink that it connected, once, and that it ended, once.
Ended(a) == sent[a] # <<>> /\ sent[a][Len(sent[a])] \in Terminal

Report(a, e) ==
  /\ engines[a].of # NONE
  /\ ~Ended(a)
  /\ e = "Connected" => sent[a] = <<>>
  /\ Sinks(a, e)
  /\ UNCHANGED <<sessions, focused, last, engines, read>>

\* handle_engine_event: only events of the entry's own attempt count.
\* Mutant: every event of the session counts.
OwnOrOld(s, a) == Present(s)
Own(s, a) == Present(s) /\ Engine(s) = a

HandleEvent(a) ==
  /\ read[a] < Len(sent[a])
  /\ read' = [read EXCEPT ![a] = @ + 1]
  /\ IF Own(engines[a].of, a) THEN SetState(engines[a].of, sent[a][read'[a]])
                              ELSE UNCHANGED sessions
  /\ UNCHANGED <<focused, last, engines, sent>>

Next ==
  \/ \E s \in Sids : Connect(s) \/ StartFails(s) \/ MarkConnected(s) \/ Focus(s)
                       \/ FocusRefused(s) \/ Disconnect(s)
  \/ \E a \in Attempts : HandleEvent(a) \/ \E e \in Reports : Report(a, e)

Spec == Init /\ [][Next]_vars

(***************************************************************************)
(* Properties.                                                             *)
(***************************************************************************)
\* What send_input and set_clipboard ask before they pass anything on.
Accepts(s) == Present(s) /\ sessions[s].active

\* Keystrokes and clipboard text go to one session at most, the one the
\* manager calls focused, whatever was focused, closed or replaced before.
InputToOne == \A s \in Sids : Accepts(s) => focused = s

\* Of the engines the manager still holds at most one believes it is in front,
\* and it is the focused session's, even after a set_focus call failed half way.
FrontIsFocused == \A s \in Sids : Present(s) /\ engines[Engine(s)].front => focused = s

\* An error or an end on screen was reported by the attempt on screen: a late
\* event of a replaced attempt never ends its successor.
EndsAreOwn ==
  \A s \in Sids : Present(s) /\ sessions[s].state \in Terminal =>
    \E i \in 1..read[Engine(s)] : sent[Engine(s)][i] = sessions[s].state

\* An engine that runs outside the table was told to stop and did not, or a
\* later attempt took its place there: disconnect tells the engine before its
\* handle is gone.
NoUntoldEngine ==
  \A a \in Attempts : engines[a].runs =>
    \/ engines[a].told
    \/ Own(engines[a].of, a)
    \/ \E b \in Attempts : b > a /\ engines[b].of = engines[a].of

\* The engine behind an entry runs and was never told to stop: a disconnect
\* reaches its own session's engine only, never the one of a later attempt.
HeldRuns ==
  \A s \in Sids : Present(s) => engines[Engine(s)].runs /\ ~engines[Engine(s)].told

\* Input, clipboard and front belong to the focused session, ends to the
\* attempt they are shown for, and closing tells the right engine to stop.
ManagerInv ==
  /\ TypeOK
  /\ InputToOne /\ FrontIsFocused /\ EndsAreOwn
  /\ NoUntoldEngine /\ HeldRuns

\* The manager keeps the same promise as the native one: a table of sessions
\* with at most one in front, which is always in the table.
Table == INSTANCE SessionTable WITH
  Keys <- Sids,
  front <- focused,
  status <- [s \in Sids |->
    IF ~Present(s) THEN "notRunning"
    ELSE IF sessions[s].state \in Terminal THEN "exited" ELSE "running"]
ImplementsTable == Table!Spec
=============================================================================
