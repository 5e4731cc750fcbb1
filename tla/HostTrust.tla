------------------------------- MODULE HostTrust -------------------------------
(***************************************************************************)
(* The trust store (src-tauri/src/trust/store.rs), the handshake that asks  *)
(* it (ssh/handler.rs, ssh/client.rs) and the commands that load it, save   *)
(* into it and ask the user (commands/connection.rs; the repair of          *)
(* commands/rdp.rs).  Every command loads its own copy of hosts.json; a     *)
(* save truncates the file and writes the whole copy, with no lock.         *)
(*                                                                          *)
(* An identity stands for the key_id of a HostKeyInfo: an address or a      *)
(* deviceId, with the port.  A file that cannot be parsed reads as empty    *)
(* and is modelled as the empty file.                                       *)
(***************************************************************************)
EXTENDS Functions

CONSTANTS
  Devices,      \* Jetsons
  Ids,          \* identities
  Keys,         \* fingerprints of host keys
  Commands,     \* commands that can run at once
  At,           \* the device behind an identity
  Flashed,      \* the devices whose key changes
  Files,        \* what hosts.json may hold at first
  NONE

ASSUME TrustAssumption ==
  /\ NONE \notin Keys
  /\ At \in [Ids -> Devices]
  /\ Files \subseteq [Ids -> Keys \cup {NONE}]

VARIABLES
  hostkey,      \* the key a device presents
  file,         \* hosts.json: identity -> key
  cmd,          \* the commands
  approved,     \* history: the keys the user has approved
  known         \* history: identity -> key approved for it, while no two commands overlapped

vars == <<hostkey, file, cmd, approved, known>>

Hosts == [Ids -> Keys \cup {NONE}]
Empty == [i \in Ids |-> NONE]
Stored(hosts) == Range(hosts) \ {NONE}

\* key: the decision a command carries, or the key a question shows.
\* again: the key a migration dials with once more.
\* mixed: another save wrote since this one truncated the file.
Idle == [st |-> "idle", op |-> "probe", id |-> NONE, key |-> NONE, again |-> NONE,
         store |-> Empty, mixed |-> FALSE]

Command == [st : {"idle", "load", "save", "cut", "dial", "asked", "connected"},
            op : {"probe", "repair"}, id : Ids \cup {NONE}, key : Keys \cup {NONE},
            again : Keys \cup {NONE}, store : Hosts, mixed : BOOLEAN]

TypeOK ==
  /\ hostkey \in [Devices -> Keys]
  /\ file \in Hosts
  /\ cmd \in [Commands -> Command]
  /\ \A c \in Commands : cmd[c].st # "idle" => cmd[c].id \in Ids
  /\ approved \subseteq Keys
  /\ known \in Hosts

Init ==
  /\ hostkey \in [Devices -> Keys]
  /\ file \in Files
  /\ cmd = [c \in Commands |-> Idle]
  /\ approved = Stored(file)
  /\ known = file

\* A question ends the command that asks it.
Runs(c) == cmd[c].st \notin {"idle", "asked"}
Alone(c) == \A o \in Commands \ {c} : ~Runs(o)

Seen(c) == hostkey[At[cmd[c].id]]

\* The second dial of a migration does not ask the store.
Expected(c) == IF cmd[c].again # NONE THEN cmd[c].again ELSE cmd[c].store[cmd[c].id]

-----------------------------------------------------------------------------
(* probe_device, prepare_remote_desktop, repair_xrdp_services.              *)

\* Mutant: the decision replaces what was stored.
DecidedAlone(c) == [Empty EXCEPT ![cmd[c].id] = cmd[c].key]

Decided(c) == [file EXCEPT ![cmd[c].id] = cmd[c].key]

Enters(c) == known' = IF Alone(c) THEN known ELSE Empty

Begins(c, op, i) ==
  /\ cmd[c].st = "idle"
  /\ cmd' = [cmd EXCEPT ![c] = [Idle EXCEPT !.st = "load", !.op = op, !.id = i]]
  /\ Enters(c)
  /\ UNCHANGED <<hostkey, file, approved>>

\* TrustAndConnect, ReplaceAndConnect: the command again, with the key shown.
Decides(c) ==
  /\ cmd[c].st = "asked"
  /\ cmd' = [cmd EXCEPT ![c].st = "load"]
  /\ approved' = approved \cup {cmd[c].key}
  /\ Enters(c)
  /\ UNCHANGED <<hostkey, file>>

Declines(c) ==
  /\ cmd[c].st = "asked"
  /\ cmd' = [cmd EXCEPT ![c] = Idle]
  /\ UNCHANGED <<hostkey, file, approved, known>>

\* TrustStoreFile::load; the decision is saved before the dial.
Loads(c) ==
  /\ cmd[c].st = "load"
  /\ cmd' = IF cmd[c].key = NONE
            THEN [cmd EXCEPT ![c].st = "dial", ![c].store = file]
            ELSE [cmd EXCEPT ![c].st = "save", ![c].store = Decided(c)]
  /\ UNCHANGED <<hostkey, file, approved, known>>

\* fs::write: open and truncate.
SaveTruncates(c) ==
  /\ cmd[c].st = "save"
  /\ file' = Empty
  /\ cmd' = [cmd EXCEPT ![c].st = "cut", ![c].mixed = FALSE]
  /\ UNCHANGED <<hostkey, approved, known>>

\* Mutant: the command goes on with the file as it is by then.
WrittenReloads(c) ==
  [o \in Commands |-> IF o = c THEN [cmd[c] EXCEPT !.st = "dial", !.mixed = FALSE, !.store = file']
                      ELSE [cmd[o] EXCEPT !.mixed = cmd[o].st = "cut"]]

Written(c) ==
  [o \in Commands |-> IF o = c THEN [cmd[c] EXCEPT !.st = "dial", !.mixed = FALSE]
                      ELSE [cmd[o] EXCEPT !.mixed = cmd[o].st = "cut"]]

\* fs::write: over what another save left, the result may not be JSON.
SaveWrites(c) ==
  /\ cmd[c].st = "cut"
  /\ file' \in {cmd[c].store} \cup (IF cmd[c].mixed THEN {Empty} ELSE {})
  /\ cmd' = Written(c)
  /\ known' = IF Alone(c) /\ ~cmd[c].mixed THEN [known EXCEPT ![cmd[c].id] = Expected(c)] ELSE known
  /\ UNCHANGED <<hostkey, approved>>

SaveFails(c) ==
  /\ cmd[c].st \in {"save", "cut"}
  /\ file' \in {file, Empty}
  /\ cmd' = [cmd EXCEPT ![c] = Idle]
  /\ known' = Empty
  /\ UNCHANGED <<hostkey, approved>>

-----------------------------------------------------------------------------
(* The handshake.                                                           *)

Dialing(c) == cmd[c].st = "dial"

\* Mutant: a key nobody stored is accepted.
TofuFirstUse(expected, seen) == expected \in {seen, NONE}

\* tofu_decision.
TofuAccepts(expected, seen) == expected = seen

DialAccepts(c) ==
  /\ Dialing(c)
  /\ TofuAccepts(Expected(c), Seen(c))
  /\ cmd' = [cmd EXCEPT ![c].st = "connected", ![c].again = NONE, ![c].store = Empty]
  /\ UNCHANGED <<hostkey, file, approved, known>>

Migrates(c) ==
  [cmd EXCEPT ![c].st = "save", ![c].again = Seen(c), ![c].store[cmd[c].id] = Seen(c)]

\* connect_with_stable_identity: approved under another identity; saved, and
\* dialled once more with the key itself.
DialMigrates(c) ==
  /\ Dialing(c)
  /\ cmd[c].op = "probe"
  /\ cmd[c].again = NONE
  /\ Expected(c) = NONE
  /\ Seen(c) \in Stored(cmd[c].store)
  /\ cmd' = Migrates(c)
  /\ UNCHANGED <<hostkey, file, approved, known>>

Asks(c) ==
  [cmd EXCEPT ![c].st = "asked", ![c].key = Seen(c), ![c].again = NONE, ![c].store = Empty]

DialUnknown(c) ==
  /\ Dialing(c)
  /\ cmd[c].op = "probe"
  /\ Expected(c) = NONE
  /\ Seen(c) \notin Stored(cmd[c].store)
  /\ cmd' = Asks(c)
  /\ UNCHANGED <<hostkey, file, approved, known>>

DialChanged(c) ==
  /\ Dialing(c)
  /\ cmd[c].op = "probe"
  /\ Expected(c) \notin {NONE, Seen(c)}
  /\ cmd' = Asks(c)
  /\ UNCHANGED <<hostkey, file, approved, known>>

\* A repair neither migrates nor asks.
RepairRefused(c) ==
  /\ Dialing(c)
  /\ cmd[c].op = "repair"
  /\ Expected(c) # Seen(c)
  /\ cmd' = [cmd EXCEPT ![c] = Idle]
  /\ UNCHANGED <<hostkey, file, approved, known>>

\* Unreachable; or, connected, whatever the command goes on to answer.
Answers(c) ==
  /\ cmd[c].st \in {"dial", "connected"}
  /\ cmd' = [cmd EXCEPT ![c] = Idle]
  /\ UNCHANGED <<hostkey, file, approved, known>>

-----------------------------------------------------------------------------

\* A Jetson is flashed again, or its keys are regenerated.
Reinstall(d, k) ==
  /\ d \in Flashed
  /\ hostkey' = [hostkey EXCEPT ![d] = k]
  /\ UNCHANGED <<file, cmd, approved, known>>

\* The application ends; a save may be cut.
Crash ==
  /\ cmd' = [c \in Commands |-> Idle]
  /\ known' = IF \E c \in Commands : cmd[c].st = "cut" THEN Empty ELSE known
  /\ UNCHANGED <<hostkey, file, approved>>

Saves(c) == SaveTruncates(c) \/ SaveWrites(c) \/ SaveFails(c)

Dials(c) ==
  \/ DialAccepts(c) \/ DialMigrates(c) \/ DialUnknown(c) \/ DialChanged(c)
  \/ RepairRefused(c) \/ Answers(c)

Step(c) == Loads(c) \/ Saves(c) \/ Dials(c)

Next ==
  \/ \E c \in Commands :
       \/ \E op \in {"probe", "repair"}, i \in Ids : Begins(c, op, i)
       \/ Decides(c) \/ Declines(c)
       \/ Step(c)
  \/ \E d \in Devices, k \in Keys : Reinstall(d, k)
  \/ Crash

Spec == Init /\ [][Next]_vars

-----------------------------------------------------------------------------
(* Properties.                                                              *)

\* No command gets past the handshake with a key the user has not approved,
\* whatever other commands do to the file meanwhile (tofu_decision, the
\* migration of connect_with_stable_identity).
OnlyApproved ==
  [][\A c \in Commands : DialAccepts(c) => Seen(c) \in approved]_vars

\* A command that carries the user's decision for the key the device shows
\* does not ask again, although another command may have replaced the file
\* since: it goes by its own copy.
DecisionIsEnough ==
  [][\A c \in Commands : DialUnknown(c) \/ DialChanged(c) => Seen(c) # cmd[c].key]_vars

\* As long as commands do not overlap and no save is cut, a key approved for
\* an identity is not asked for again, and a repair finds it.
AskedOnce ==
  [][\A c \in Commands :
       DialUnknown(c) \/ DialChanged(c) \/ RepairRefused(c) => known[cmd[c].id] # Seen(c)]_vars
=============================================================================
