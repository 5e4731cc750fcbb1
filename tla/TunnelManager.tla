----------------------------- MODULE TunnelManager -----------------------------
(***************************************************************************)
(* The tunnel manager (src-tauri/src/tunnel.rs) and the commands that use   *)
(* it: one `ssh -N` child per device key, found, adopted or spawned under   *)
(* the manager's mutex, dialled after the mutex is released, dropped when   *)
(* the dial fails, all of them closed when the application exits.           *)
(*                                                                          *)
(* A child is a member of Pool; it is named again when it is gone.  Its two *)
(* local ports are one member of Ports.  A command keeps the port it was    *)
(* given, not the child, as TunnelEndpoints does.  The retries of one       *)
(* ensure run with the mutex held, as in the code.  The user name is the    *)
(* same everywhere, the external debug mode is left out.                    *)
(***************************************************************************)
EXTENDS Naturals, FiniteSets

CONSTANTS
  Devices,      \* deviceIds
  Hosts,        \* addresses
  Threads,      \* blocking threads that run commands
  Pool,         \* ssh children
  Ports,        \* pairs of local ports
  Preferred,    \* PREFERRED_SSH_PORT, PREFERRED_RDP_PORT
  MAX_RETRIES,  \* UNREACHABLE_MAX_RETRIES
  Routes,       \* what callers ask for: a device, or NONE, and an address of it
  Serves,       \* the device behind an address: it keeps it
  NONE

ASSUME TunnelAssumption ==
  /\ NONE \notin Devices \cup Hosts \cup Threads \cup Pool \cup Ports
  /\ Devices \cap Hosts = {}
  /\ Preferred \in Ports
  /\ MAX_RETRIES \in Nat
  /\ Routes \subseteq (Devices \cup {NONE}) \X Hosts
  /\ Serves \in [Hosts -> Devices]
  /\ \A r \in Routes : r[1] # NONE => Serves[r[2]] = r[1]

VARIABLES
  up,           \* the devices that are reachable
  app,          \* the process: running, closing, closed, down
  table,        \* TunnelState.active: device key -> child
  proc,         \* what the operating system knows of each child
  secrets,      \* the children whose secret directory exists
  holder,       \* who holds the mutex across a spawn
  pc,
  call          \* the arguments of a thread's command, and what it got

vars == <<up, app, table, proc, secrets, holder, pc, call>>

\* `username@deviceId` and `username@host`.
Keys == Devices \cup Hosts

States == {"none", "starting", "up", "half", "exited", "orphan"}

ActiveTunnel == [st : States, host : Hosts \cup {NONE}, dev : Devices \cup {NONE},
                 port : Ports \cup {NONE}]

NoChild == [st |-> "none", host |-> NONE, dev |-> NONE, port |-> NONE]

Calls == [device : Devices \cup {NONE}, host : Hosts \cup {NONE}, port : Ports \cup {NONE}, tries : Nat]

NoCall == [device |-> NONE, host |-> NONE, port |-> NONE, tries |-> 0]

TypeOK ==
  /\ up \subseteq Devices
  /\ app \in {"running", "closing", "closed", "down"}
  /\ table \in [Keys -> Pool \cup {NONE}]
  /\ proc \in [Pool -> ActiveTunnel]
  /\ secrets \subseteq Pool
  /\ holder \in Threads \cup {NONE}
  /\ pc \in [Threads -> {"idle", "ensure", "spawn", "wait", "ready", "failed"}]
  /\ call \in [Threads -> Calls]

Init ==
  /\ up = Devices
  /\ app = "running"
  /\ table = [k \in Keys |-> NONE]
  /\ proc = [t \in Pool |-> NoChild]
  /\ secrets = {}
  /\ holder = NONE
  /\ pc = [c \in Threads |-> "idle"]
  /\ call = [c \in Threads |-> NoCall]

-----------------------------------------------------------------------------
(* The network and the devices.                                             *)

\* A tunnel whose far end went away keeps its child and its listeners.
HalfOpen(d) == [t \in Pool |-> IF proc[t].st = "up" /\ proc[t].dev = d
                               THEN [proc[t] EXCEPT !.st = "half"] ELSE proc[t]]

Reboot(d) ==
  /\ d \in up
  /\ up' = up \ {d}
  /\ proc' = HalfOpen(d)
  /\ UNCHANGED <<app, table, secrets, holder, pc, call>>

Return(d) ==
  /\ d \notin up
  /\ up' = up \cup {d}
  /\ UNCHANGED <<app, table, proc, secrets, holder, pc, call>>

\* ServerAliveInterval x ServerAliveCountMax: ssh ends, its ports are free.
GivesUp(t) ==
  /\ proc[t].st = "half"
  /\ proc' = [proc EXCEPT ![t].st = "exited"]
  /\ UNCHANGED <<up, app, table, secrets, holder, pc, call>>

-----------------------------------------------------------------------------
(* ensure.                                                                  *)

Alive == {"starting", "up", "half"}

PortFree(p) == \A t \in Pool : proc[t].port = p => proc[t].st \notin Alive

\* pick_ports.
Picked == IF PortFree(Preferred) THEN {Preferred} ELSE {p \in Ports : PortFree(p)}

\* Some name for the next child.
Unused == {t \in Pool : proc[t].st = "none"}

\* Drop of an ActiveTunnel: the process group ends, the directory is removed.
Dropped(ts) ==
  /\ proc' = [t \in Pool |-> IF t \in ts THEN NoChild ELSE proc[t]]
  /\ secrets' = secrets \ ts

KeyOf(c) == IF call[c].device = NONE THEN call[c].host ELSE call[c].device

\* child alive, both forwards open, the banner of the remote sshd.
Healthy(t) == proc[t].st = "up"

\* Mutant: the target is not compared.
AdoptableAnyone(c) == {k \in Keys : table[KeyOf(c)] = NONE /\ table[k] # NONE}

\* classify_ensure: Adopt needs the target under another key.
Target(t) == proc[t].host
Adoptable(c) ==
  {k \in Keys : /\ table[KeyOf(c)] = NONE
                /\ table[k] # NONE
                /\ Target(table[k]) = call[c].host}

Ask(c, d, h) ==
  /\ app = "running"
  /\ pc[c] = "idle"
  /\ pc' = [pc EXCEPT ![c] = "ensure"]
  /\ call' = [call EXCEPT ![c] = [NoCall EXCEPT !.device = d, !.host = h]]
  /\ UNCHANGED <<up, app, table, proc, secrets, holder>>

EntersEnsure(c) == pc[c] = "ensure" /\ holder = NONE

Gives(c, t) ==
  /\ pc' = [pc EXCEPT ![c] = "ready"]
  /\ call' = [call EXCEPT ![c].port = proc[t].port, ![c].tries = 0]

Spawns(c) ==
  /\ pc' = [pc EXCEPT ![c] = "spawn"]
  /\ holder' = c
  /\ UNCHANGED call

EnsureReuses(c) ==
  /\ EntersEnsure(c)
  /\ table[KeyOf(c)] # NONE
  /\ Healthy(table[KeyOf(c)])
  /\ Gives(c, table[KeyOf(c)])
  /\ UNCHANGED <<up, app, table, proc, secrets, holder>>

EnsureDropsStale(c) ==
  /\ EntersEnsure(c)
  /\ table[KeyOf(c)] # NONE
  /\ ~Healthy(table[KeyOf(c)])
  /\ Dropped({table[KeyOf(c)]})
  /\ table' = [table EXCEPT ![KeyOf(c)] = NONE]
  /\ Spawns(c)
  /\ UNCHANGED <<up, app>>

EnsureAdopts(c) ==
  /\ EntersEnsure(c)
  /\ \E old \in Adoptable(c) :
       /\ Healthy(table[old])
       /\ table' = [table EXCEPT ![old] = NONE, ![KeyOf(c)] = table[old]]
       /\ Gives(c, table[old])
  /\ UNCHANGED <<up, app, proc, secrets, holder>>

EnsureDropsAdopted(c) ==
  /\ EntersEnsure(c)
  /\ \E old \in Adoptable(c) :
       /\ ~Healthy(table[old])
       /\ Dropped({table[old]})
       /\ table' = [table EXCEPT ![old] = NONE]
  /\ Spawns(c)
  /\ UNCHANGED <<up, app>>

EnsureFresh(c) ==
  /\ EntersEnsure(c)
  /\ table[KeyOf(c)] = NONE
  /\ Adoptable(c) = {}
  /\ Spawns(c)
  /\ UNCHANGED <<up, app, table, proc, secrets>>

\* spawn_tunnel: the secret directory, the ports, the child.
SpawnStarts(c) ==
  /\ pc[c] = "spawn"
  /\ Unused # {}
  /\ LET t == CHOOSE t \in Unused : TRUE IN \E p \in Picked :
       /\ proc' = [proc EXCEPT ![t] = [st |-> "starting", host |-> call[c].host,
                                       dev |-> NONE, port |-> p]]
       /\ secrets' = secrets \cup {t}
  /\ pc' = [pc EXCEPT ![c] = "wait"]
  /\ UNCHANGED <<up, app, table, holder, call>>

Starting == {t \in Pool : proc[t].st = "starting"}

ReturnsError(c) ==
  /\ pc' = [pc EXCEPT ![c] = "idle"]
  /\ call' = [call EXCEPT ![c] = NoCall]
  /\ holder' = NONE

\* No ports, no secret directory, no child: whatever fails is not retried.
SpawnFails(c) ==
  /\ pc[c] = "spawn"
  /\ ReturnsError(c)
  /\ UNCHANGED <<up, app, table, proc, secrets>>

\* classify_exit, or the deadline: nobody answers at the address.
Unreachable(c) == Serves[call[c].host] \notin up

\* The forwards are open and ssh survived the grace period.
SpawnSucceeds(c) ==
  /\ pc[c] = "wait"
  /\ ~Unreachable(c)
  /\ \E t \in Starting :
       /\ proc' = [proc EXCEPT ![t].st = "up", ![t].dev = Serves[call[c].host]]
       /\ table' = [table EXCEPT ![KeyOf(c)] = t]
       /\ Gives(c, t)
  /\ holder' = NONE
  /\ UNCHANGED <<up, app, secrets>>

\* classify_exit: authentication; the child is reaped.
SpawnRefused(c) ==
  /\ pc[c] = "wait"
  /\ ~Unreachable(c)
  /\ Dropped(Starting)
  /\ ReturnsError(c)
  /\ UNCHANGED <<up, app, table>>

\* Mutant: retried for ever, with the mutex held.
SpawnUnreachableForever(c) ==
  /\ pc[c] = "wait"
  /\ Unreachable(c)
  /\ Dropped(Starting)
  /\ pc' = [pc EXCEPT ![c] = "spawn"]
  /\ UNCHANGED <<up, app, table, holder, call>>

\* The deadline, or ssh says so; spawn_tunnel_with_retry tries again.
SpawnUnreachable(c) ==
  /\ pc[c] = "wait"
  /\ Unreachable(c)
  /\ Dropped(Starting)
  /\ \/ /\ call[c].tries < MAX_RETRIES
        /\ pc' = [pc EXCEPT ![c] = "spawn"]
        /\ call' = [call EXCEPT ![c].tries = @ + 1]
        /\ UNCHANGED holder
     \/ /\ call[c].tries >= MAX_RETRIES
        /\ ReturnsError(c)
  /\ UNCHANGED <<up, app, table>>

-----------------------------------------------------------------------------
(* What a command does with its endpoints.                                  *)

\* Whichever child listens on the port takes the dial.
Answering(c) == {t \in Pool : proc[t].st = "up" /\ proc[t].port = call[c].port}

\* connect_via_tunnel.
DialReaches(c) ==
  /\ pc[c] = "ready"
  /\ Answering(c) # {}
  /\ pc' = [pc EXCEPT ![c] = "idle"]
  /\ call' = [call EXCEPT ![c] = NoCall]
  /\ UNCHANGED <<up, app, table, proc, secrets, holder>>

DialFails(c) ==
  /\ pc[c] = "ready"
  /\ Answering(c) = {}
  /\ pc' = [pc EXCEPT ![c] = "failed"]
  /\ call' = [call EXCEPT ![c].port = NONE]
  /\ UNCHANGED <<up, app, table, proc, secrets, holder>>

\* Mutant: every tunnel is dropped.
InvalidateAll(c) ==
  /\ pc[c] = "failed"
  /\ holder = NONE
  /\ Dropped({table[k] : k \in Keys} \ {NONE})
  /\ table' = [k \in Keys |-> NONE]
  /\ pc' = [pc EXCEPT ![c] = "idle"]
  /\ call' = [call EXCEPT ![c] = NoCall]
  /\ UNCHANGED <<up, app, holder>>

\* invalidate: the key is all it compares.
Invalidate(c) ==
  /\ pc[c] = "failed"
  /\ holder = NONE
  /\ Dropped({table[KeyOf(c)]} \ {NONE})
  /\ table' = [table EXCEPT ![KeyOf(c)] = NONE]
  /\ pc' = [pc EXCEPT ![c] = "idle"]
  /\ call' = [call EXCEPT ![c] = NoCall]
  /\ UNCHANGED <<up, app, holder>>

-----------------------------------------------------------------------------
(* The life of the application.                                             *)

Quit ==
  /\ app = "running"
  /\ app' = "closing"
  /\ UNCHANGED <<up, table, proc, secrets, holder, pc, call>>

\* RunEvent::Exit: close_all waits for the mutex.
CloseAll ==
  /\ app = "closing"
  /\ holder = NONE
  /\ Dropped({table[k] : k \in Keys} \ {NONE})
  /\ table' = [k \in Keys |-> NONE]
  /\ app' = "closed"
  /\ UNCHANGED <<up, holder, pc, call>>

\* The process ends, with no destructor run: its children go on.
Ends ==
  /\ app' = "down"
  /\ proc' = [t \in Pool |-> IF proc[t].st \in Alive
                             THEN [NoChild EXCEPT !.st = "orphan"] ELSE NoChild]
  /\ table' = [k \in Keys |-> NONE]
  /\ holder' = NONE
  /\ pc' = [c \in Threads |-> "idle"]
  /\ call' = [c \in Threads |-> NoCall]
  /\ UNCHANGED <<up, secrets>>

Exits == app = "closed" /\ Ends

Crash == app = "running" /\ Ends

\* sweep_orphans: every ssh on our known_hosts file.
Swept == [t \in Pool |-> IF proc[t].st = "orphan" THEN NoChild ELSE proc[t]]

\* Mutant: the secrets of a crashed process stay.
KeptSecrets == secrets

\* cleanup_stale_secret_dirs: every session directory, whoever made it.
Cleaned == secrets \ Pool

\* TunnelManager::new.
Start ==
  /\ app = "down"
  /\ app' = "running"
  /\ proc' = Swept
  /\ secrets' = Cleaned
  /\ UNCHANGED <<up, table, holder, pc, call>>

-----------------------------------------------------------------------------

Enters(c) ==
  \/ EnsureReuses(c) \/ EnsureDropsStale(c) \/ EnsureAdopts(c)
  \/ EnsureDropsAdopted(c) \/ EnsureFresh(c)

SpawnSteps(c) ==
  \/ SpawnStarts(c) \/ SpawnFails(c) \/ SpawnSucceeds(c)
  \/ SpawnRefused(c) \/ SpawnUnreachable(c)

Dials(c) == DialReaches(c) \/ DialFails(c)

Step(c) == Enters(c) \/ SpawnSteps(c) \/ Dials(c) \/ Invalidate(c)

Next ==
  \/ \E d \in Devices : Reboot(d) \/ Return(d)
  \/ \E t \in Pool : GivesUp(t)
  \/ \E c \in Threads :
       \/ \E r \in Routes : Ask(c, r[1], r[2])
       \/ Step(c)
  \/ Quit \/ CloseAll \/ Exits \/ Crash \/ Start

Spec == Init /\ [][Next]_vars

\* A command goes on; a std Mutex is not withheld for ever from one waiter.
FairSpec ==
  /\ Spec
  /\ \A c \in Threads : /\ WF_vars(SpawnSteps(c)) /\ WF_vars(Dials(c))
                        /\ SF_vars(Enters(c)) /\ SF_vars(Invalidate(c))
  /\ SF_vars(CloseAll) /\ WF_vars(Exits)

-----------------------------------------------------------------------------
(* Properties.                                                              *)

Tracked == ({table[k] : k \in Keys} \ {NONE}) \cup {t \in Starting : holder # NONE}

\* While the application runs, the children that exist and the secret
\* directories that exist are those of the table and the one being spawned,
\* and no child is in the table twice: nothing is left to outlive a drop.
NoStrayTunnel ==
  /\ app # "down" => /\ secrets = Tracked
                     /\ \A t \in Pool : proc[t].st # "none" <=> t \in Tracked
  /\ \A j, k \in Keys : table[j] = table[k] /\ table[j] # NONE => j = k

\* The tunnel under a device's key ends at that device: two Jetsons never
\* share one (commands/rdp.rs, prepare_request).
OwnDevice ==
  \A d \in Devices : table[d] # NONE /\ Healthy(table[d]) => proc[table[d]].dev = d

\* A command ends no live tunnel of a device other than the one it asked for.
OthersUntouched ==
  [][\A c \in Threads, t \in Pool :
       pc'[c] # pc[c] /\ app' = app /\ proc[t].st = "up" /\ proc'[t].st # "up"
         => proc[t].dev = Serves[call[c].host]]_vars

\* Quitting ends the process although an ensure may hold the mutex.
QuitEnds == app = "closing" ~> app = "down"

ReachesIts(c) ==
  DialReaches(c) /\ \A t \in Answering(c) : proc[t].dev = Serves[call[c].host]

\* KI-036: when the devices stay up and the process runs, one caller that
\* keeps asking with the right password, and can start a child, gets through,
\* whatever tunnels a reboot has left half open.
RetryHeals ==
  \A c \in Threads :
    (/\ <>[](up = Devices /\ app = "running")
     /\ <>[](\A o \in Threads \ {c} : pc[o] = "idle")
     /\ <>[][~SpawnRefused(c) /\ ~SpawnFails(c)]_vars
     /\ []<>(pc[c] = "ready"))
    => []<><<ReachesIts(c)>>_vars
=============================================================================
