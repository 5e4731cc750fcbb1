---------------------------- MODULE SessionTable ----------------------------
(***************************************************************************)
(* What RdpSessionManager promises its callers: a table of sessions and at *)
(* most one key in front, every command taking effect in atomic steps      *)
(* whatever the threads and the main thread do meanwhile.  A relaunch is   *)
(* two steps, the predecessor leaves and the successor arrives; a key in   *)
(* front always has a session.                                             *)
(***************************************************************************)
CONSTANTS Keys, NONE

VARIABLES
  status,   \* per key: no session, a running one, one whose worker ended
  front     \* the key on screen, or NONE for the webview home

vars == <<status, front>>

Statuses == {"notRunning", "running", "exited"}

Init ==
  /\ status = [k \in Keys |-> "notRunning"]
  /\ front = NONE

\* The predecessor or the closed session leaves.  A Focused launch also clears
\* the screen of whatever else was in front.
Withdraw(k) ==
  /\ status' = [status EXCEPT ![k] = "notRunning"]
  /\ front' \in {NONE} \cup {f \in {front} : f # k}

Install(k) ==
  /\ \E st \in {"running", "exited"} : status' = [status EXCEPT ![k] = st]
  /\ front' \in {front, k}

Show(k) ==
  /\ status[k] # "notRunning"
  /\ front' = k
  /\ UNCHANGED status

Hide ==
  /\ front' = NONE
  /\ UNCHANGED status

Exit(k) ==
  /\ status[k] = "running"
  /\ status' = [status EXCEPT ![k] = "exited"]
  /\ UNCHANGED front

Next == Hide \/ \E k \in Keys : Withdraw(k) \/ Install(k) \/ Show(k) \/ Exit(k)

Spec == Init /\ [][Next]_vars
=============================================================================
