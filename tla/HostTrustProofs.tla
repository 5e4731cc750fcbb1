---------------------------- MODULE HostTrustProofs ----------------------------
(***************************************************************************)
(* No command gets past a handshake with a key nobody approved, for any     *)
(* devices, identities, keys and number of commands, whatever they do to    *)
(* each other's hosts.json and wherever a save is cut.                      *)
(***************************************************************************)
EXTENDS HostTrust, TLAPS

\* What a command carries is approved; its decision, or the key it dials with
\* once more, is in its own copy.
Sound(x, ok) ==
  /\ Stored(x.store) \subseteq ok
  /\ x.st = "asked" => x.key \in Keys
  /\ x.st \in {"load", "save", "cut", "dial"} => x.key \in ok \cup {NONE}
  /\ x.st \in {"save", "cut", "dial"} /\ x.key # NONE => x.store[x.id] = x.key
  /\ x.again # NONE => x.st \in {"save", "cut", "dial"} /\ x.again = x.store[x.id]
  /\ x.mixed => x.st = "cut"

\* The inductive invariant.
TrustInv ==
  /\ TypeOK
  /\ Stored(file) \subseteq approved
  /\ \A c \in Commands : Sound(cmd[c], approved)

-----------------------------------------------------------------------------
(* Copies of the file.                                                      *)

LEMMA EmptyIsHosts == Empty \in Hosts /\ Stored(Empty) = {}
BY DEF Empty, Hosts, Stored, Range

LEMMA StoredIn ==
  ASSUME NEW hosts \in Hosts, NEW ok
  PROVE  Stored(hosts) \subseteq ok <=> \A i \in Ids : hosts[i] # NONE => hosts[i] \in ok
BY DEF Hosts, Stored, Range

LEMMA StoredOne ==
  ASSUME NEW hosts \in Hosts, NEW ok, NEW i \in Ids, NEW k \in Keys,
         Stored(hosts) \subseteq ok, k \in ok
  PROVE  /\ [hosts EXCEPT ![i] = k] \in Hosts
         /\ [hosts EXCEPT ![i] = k][i] = k
         /\ Stored([hosts EXCEPT ![i] = k]) \subseteq ok
<1> DEFINE new == [hosts EXCEPT ![i] = k]
<1>1. new \in Hosts /\ new[i] = k
  BY DEF Hosts
<1>2. \A j \in Ids : new[j] # NONE => new[j] \in ok
  BY StoredIn DEF Hosts
<1>3. QED
  BY <1>1, <1>2, StoredIn

LEMMA IdleIsSound == Idle \in Command /\ \A ok : Sound(Idle, ok)
BY EmptyIsHosts DEF Idle, Command, Sound

\* The files, the keys and the approvals a step may leave behind.
Kept ==
  /\ hostkey' \in [Devices -> Keys]
  /\ file' \in Hosts
  /\ known' \in Hosts
  /\ approved \subseteq approved' /\ approved' \subseteq Keys
  /\ Stored(file') \subseteq approved'

LEMMA KnownIsHosts ==
  ASSUME TrustInv, NEW c \in Commands, Enters(c)
  PROVE  known' \in Hosts
BY EmptyIsHosts DEF Enters, TrustInv, TypeOK

LEMMA Grows ==
  ASSUME NEW x, NEW ok, NEW more, ok \subseteq more, Sound(x, ok)
  PROVE  Sound(x, more)
BY DEF Sound

LEMMA CommandStep ==
  ASSUME TrustInv, Kept, NEW c \in Commands, NEW x \in Command,
         cmd' = [cmd EXCEPT ![c] = x],
         x.st # "idle" => x.id \in Ids,
         Sound(x, approved')
  PROVE  TrustInv'
<1>1. TypeOK'
  BY DEF TrustInv, TypeOK, Kept
<1>2. ASSUME NEW o \in Commands PROVE Sound(cmd'[o], approved')
  <2>1. CASE o = c
    BY <2>1 DEF TrustInv, TypeOK
  <2>2. CASE o # c
    <3>1. cmd'[o] = cmd[o]
      BY <2>2 DEF TrustInv, TypeOK
    <3>2. QED
      BY <3>1, Grows DEF TrustInv, Kept
  <2>3. QED
    BY <2>1, <2>2
<1>3. QED
  BY <1>1, <1>2 DEF TrustInv, Kept

LEMMA OneCommand ==
  ASSUME TrustInv, NEW c \in Commands
  PROVE  /\ cmd[c] \in Command /\ cmd[c].store \in Hosts /\ file \in Hosts
         /\ approved \subseteq Keys /\ Sound(cmd[c], approved)
         /\ cmd[c].st # "idle" => cmd[c].id \in Ids /\ Seen(c) \in Keys
BY TrustAssumption DEF TrustInv, TypeOK, Command, Seen

\* Both dials of a migration expect what is in the copy.
LEMMA ExpectedStored ==
  ASSUME TrustInv, NEW c \in Commands
  PROVE  Expected(c) = cmd[c].store[cmd[c].id]
BY OneCommand DEF Expected, Sound

LEMMA UnchangedKept ==
  ASSUME TrustInv, UNCHANGED <<hostkey, file, approved, known>>
  PROVE  Kept
BY DEF TrustInv, TypeOK, Kept

-----------------------------------------------------------------------------
(* One lemma per kind of step.                                              *)

LEMMA EntryStep ==
  ASSUME TrustInv, NEW c \in Commands, NEW op \in {"probe", "repair"}, NEW i \in Ids,
         Begins(c, op, i) \/ Decides(c) \/ Declines(c)
  PROVE  TrustInv'
<1>1. CASE Begins(c, op, i)
  <2> DEFINE x == [Idle EXCEPT !.st = "load", !.op = op, !.id = i]
  <2>1. x \in Command /\ x.id = i /\ Sound(x, approved')
    BY EmptyIsHosts DEF Idle, Command, Sound
  <2>2. Kept
    BY <1>1, KnownIsHosts DEF Begins, Kept, TrustInv, TypeOK
  <2>3. QED
    BY <1>1, <2>1, <2>2, CommandStep DEF Begins
<1>2. CASE Decides(c)
  <2> DEFINE x == [cmd[c] EXCEPT !.st = "load"]
  <2>1. cmd' = [cmd EXCEPT ![c] = x]
    BY <1>2 DEF Decides
  <2>2. cmd[c].key \in Keys
    BY <1>2, OneCommand DEF Decides, Sound
  <2>3. Kept
    BY <1>2, <2>2, KnownIsHosts DEF Decides, Kept, TrustInv, TypeOK
  <2>4. x \in Command /\ x.id \in Ids /\ Sound(x, approved')
    BY <1>2, <2>2, OneCommand DEF Decides, Command, Sound
  <2>5. QED
    BY <2>1, <2>3, <2>4, CommandStep
<1>3. CASE Declines(c)
  BY <1>3, IdleIsSound, UnchangedKept, CommandStep DEF Declines, Idle
<1>4. QED
  BY <1>1, <1>2, <1>3

LEMMA LoadStep ==
  ASSUME TrustInv, NEW c \in Commands, Loads(c)
  PROVE  TrustInv'
<1>1. Kept
  BY UnchangedKept DEF Loads
<1>2. cmd[c].id \in Ids /\ Stored(file) \subseteq approved
  BY OneCommand DEF Loads, TrustInv
<1>3. CASE cmd[c].key = NONE
  <2> DEFINE x == [cmd[c] EXCEPT !.st = "dial", !.store = file]
  <2>1. x \in Command /\ x.id \in Ids /\ Sound(x, approved')
    BY <1>2, <1>3, OneCommand DEF Loads, Command, Sound
  <2>2. QED
    BY <1>1, <1>3, <2>1, CommandStep DEF Loads
<1>4. CASE cmd[c].key # NONE
  <2> DEFINE x == [cmd[c] EXCEPT !.st = "save", !.store = Decided(c)]
  <2>1. cmd[c].key \in Keys /\ cmd[c].key \in approved
    BY <1>4, OneCommand DEF Loads, Sound, Command
  <2>2. /\ Decided(c) \in Hosts
        /\ Decided(c)[cmd[c].id] = cmd[c].key
        /\ Stored(Decided(c)) \subseteq approved
    <3>1. file \in Hosts
      BY OneCommand
    <3>2. QED
      BY <1>2, <2>1, <3>1, StoredOne DEF Decided
  <2>3. x \in Command /\ x.id \in Ids /\ Sound(x, approved')
    BY <1>2, <2>1, <2>2, OneCommand DEF Loads, Command, Sound
  <2>4. QED
    BY <1>1, <1>4, <2>3, CommandStep DEF Loads
<1>5. QED
  BY <1>3, <1>4

LEMMA MixedStep ==
  ASSUME NEW x \in Command, NEW b \in BOOLEAN
  PROVE  [x EXCEPT !.mixed = b] \in Command
BY DEF Command

LEMMA SaveStep ==
  ASSUME TrustInv, NEW c \in Commands, Saves(c)
  PROVE  TrustInv'
<1>1. CASE SaveTruncates(c)
  <2> DEFINE x == [cmd[c] EXCEPT !.st = "cut", !.mixed = FALSE]
  <2>1. Kept
    BY <1>1, EmptyIsHosts DEF SaveTruncates, Kept, TrustInv, TypeOK
  <2>2. x \in Command /\ x.id \in Ids /\ Sound(x, approved')
    BY <1>1, OneCommand DEF SaveTruncates, Command, Sound
  <2>3. QED
    BY <1>1, <2>1, <2>2, CommandStep DEF SaveTruncates
<1>2. CASE SaveWrites(c)
  <2>1. file' \in Hosts /\ Stored(file') \subseteq approved'
    BY <1>2, EmptyIsHosts, OneCommand DEF SaveWrites, Sound
  <2>2. known' \in Hosts
    BY <1>2, OneCommand, ExpectedStored DEF SaveWrites, Hosts, TrustInv, TypeOK
  <2>3. TypeOK'
    <3>1. ASSUME NEW o \in Commands PROVE cmd'[o] \in Command /\ cmd'[o].id = cmd[o].id
      <4>1. [cmd[o] EXCEPT !.mixed = (cmd[o].st = "cut")] \in Command
        BY OneCommand, MixedStep
      <4>2. [cmd[c] EXCEPT !.st = "dial", !.mixed = FALSE] \in Command
        BY OneCommand DEF Command
      <4>3. QED
        BY <1>2, <4>1, <4>2, OneCommand DEF SaveWrites, Written, Command
    <3>2. \A o \in Commands : cmd'[o].st # "idle" => cmd[o].st # "idle"
      BY <1>2, OneCommand DEF SaveWrites, Written, Command
    <3>3. cmd' \in [Commands -> Command]
      BY <1>2, <3>1 DEF SaveWrites, Written
    <3>4. QED
      BY <1>2, <2>1, <2>2, <3>1, <3>2, <3>3 DEF SaveWrites, TrustInv, TypeOK
  <2>4. ASSUME NEW o \in Commands PROVE Sound(cmd'[o], approved')
    <3>1. cmd'[o] = IF o = c THEN [cmd[c] EXCEPT !.st = "dial", !.mixed = FALSE]
                    ELSE [cmd[o] EXCEPT !.mixed = cmd[o].st = "cut"]
      BY <1>2 DEF SaveWrites, Written
    <3>2. cmd[o] \in Command /\ Sound(cmd[o], approved)
      BY OneCommand
    <3>3. /\ cmd'[o].store = cmd[o].store /\ cmd'[o].key = cmd[o].key /\ cmd'[o].id = cmd[o].id
          /\ cmd'[o].again = cmd[o].again
          /\ cmd'[o].st = cmd[o].st \/ (cmd[o].st = "cut" /\ cmd'[o].st = "dial")
          /\ cmd'[o].mixed => cmd'[o].st = "cut"
      BY <1>2, <3>1, <3>2 DEF SaveWrites, Command
    <3>4. QED
      BY <1>2, <3>2, <3>3 DEF SaveWrites, Sound
  <2>5. QED
    BY <2>1, <2>3, <2>4 DEF TrustInv
<1>3. CASE SaveFails(c)
  <2>1. Kept
    BY <1>3, EmptyIsHosts DEF SaveFails, Kept, TrustInv, TypeOK
  <2>2. QED
    BY <1>3, <2>1, IdleIsSound, CommandStep DEF SaveFails, Idle
<1>4. QED
  BY <1>1, <1>2, <1>3 DEF Saves

LEMMA DialStep ==
  ASSUME TrustInv, NEW c \in Commands, Dials(c)
  PROVE  TrustInv'
<1>1. Kept
  BY UnchangedKept
  DEF Dials, DialAccepts, DialMigrates, DialUnknown, DialChanged, RepairRefused, Answers
<1>2. CASE DialAccepts(c)
  <2> DEFINE x == [cmd[c] EXCEPT !.st = "connected", !.again = NONE, !.store = Empty]
  <2>1. x \in Command /\ x.id \in Ids /\ Sound(x, approved')
    BY <1>2, OneCommand, EmptyIsHosts DEF DialAccepts, Dialing, Command, Sound
  <2>2. QED
    BY <1>1, <1>2, <2>1, CommandStep DEF DialAccepts
<1>3. CASE DialMigrates(c)
  <2> DEFINE x == [cmd[c] EXCEPT !.st = "save", !.again = Seen(c), !.store[cmd[c].id] = Seen(c)]
  <2>1. /\ cmd[c].id \in Ids /\ Seen(c) \in Keys
        /\ Seen(c) \in Stored(cmd[c].store) /\ Expected(c) = NONE
    BY <1>3, OneCommand DEF DialMigrates, Dialing
  <2>2. cmd[c].key = NONE
    BY <1>3, <2>1, OneCommand, ExpectedStored DEF DialMigrates, Dialing, Sound
  <2>3. /\ [cmd[c].store EXCEPT ![cmd[c].id] = Seen(c)] \in Hosts
        /\ [cmd[c].store EXCEPT ![cmd[c].id] = Seen(c)][cmd[c].id] = Seen(c)
        /\ Stored([cmd[c].store EXCEPT ![cmd[c].id] = Seen(c)]) \subseteq approved
    <3>1. cmd[c].store \in Hosts /\ Stored(cmd[c].store) \subseteq approved
      BY OneCommand DEF Sound
    <3>2. Seen(c) \in approved
      BY <2>1, <3>1
    <3>3. QED
      BY <2>1, <3>1, <3>2, StoredOne
  <2>4. x \in Command /\ x.id \in Ids /\ Sound(x, approved')
    <3>1. ~cmd[c].mixed
      BY <1>3, OneCommand DEF DialMigrates, Dialing, Sound
    <3>2. x \in Command /\ x.id \in Ids /\ x.st = "save" /\ x.key = NONE
          /\ x.again = Seen(c) /\ x.id = cmd[c].id /\ ~x.mixed
      BY <2>1, <2>2, <2>3, <3>1, OneCommand DEF Command
    <3>3. x.store = [cmd[c].store EXCEPT ![cmd[c].id] = Seen(c)]
      BY OneCommand DEF Command
    <3>4. QED
      BY <1>3, <2>3, <3>2, <3>3 DEF DialMigrates, Sound
  <2>5. cmd' = [cmd EXCEPT ![c] = x]
    BY <1>3 DEF DialMigrates, Migrates, TrustInv, TypeOK, Command
  <2>6. QED
    BY <1>1, <2>4, <2>5, CommandStep
<1>4. CASE DialUnknown(c) \/ DialChanged(c)
  <2> DEFINE x == [cmd[c] EXCEPT !.st = "asked", !.key = Seen(c), !.again = NONE, !.store = Empty]
  <2>1. x \in Command /\ x.id \in Ids /\ Sound(x, approved')
    BY <1>4, OneCommand, EmptyIsHosts DEF DialUnknown, DialChanged, Dialing, Command, Sound
  <2>2. cmd' = [cmd EXCEPT ![c] = x]
    BY <1>4 DEF DialUnknown, DialChanged, Asks, TrustInv, TypeOK
  <2>3. QED
    BY <1>1, <2>1, <2>2, CommandStep
<1>5. CASE RepairRefused(c) \/ Answers(c)
  BY <1>1, <1>5, IdleIsSound, CommandStep DEF RepairRefused, Answers, Idle
<1>6. QED
  BY <1>2, <1>3, <1>4, <1>5 DEF Dials

LEMMA WorldStep ==
  ASSUME TrustInv, Crash \/ \E d \in Devices, k \in Keys : Reinstall(d, k)
  PROVE  TrustInv'
<1>1. CASE Crash
  <2>1. \A c \in Commands : cmd'[c] = Idle
    BY <1>1 DEF Crash
  <2>2. TypeOK'
    BY <1>1, <2>1, IdleIsSound, EmptyIsHosts DEF Crash, TrustInv, TypeOK, Idle
  <2>3. QED
    BY <1>1, <2>1, <2>2, IdleIsSound DEF Crash, TrustInv
<1>2. ASSUME NEW d \in Devices, NEW k \in Keys, Reinstall(d, k) PROVE TrustInv'
  BY <1>2 DEF Reinstall, TrustInv, TypeOK
<1>3. QED
  BY <1>1, <1>2

-----------------------------------------------------------------------------
(* The theorems.                                                            *)

\* The inductive invariant: what is stored, on disk or in a command's copy, was
\* approved, and a decision is in the copy of the command that carries it.
THEOREM TrustInvariance == Spec => []TrustInv
<1>1. Init => TrustInv
  <2> SUFFICES ASSUME Init PROVE TrustInv
    OBVIOUS
  <2>1. file \in Hosts
    BY TrustAssumption DEF Init, Hosts
  <2>2. approved \subseteq Keys
    BY <2>1 DEF Init, Stored, Range, Hosts
  <2>3. TypeOK
    BY <2>1, <2>2, IdleIsSound DEF Init, TypeOK, Idle
  <2>4. QED
    BY <2>3, IdleIsSound DEF Init, TrustInv
<1>2. TrustInv /\ [Next]_vars => TrustInv'
  <2> SUFFICES ASSUME TrustInv, [Next]_vars PROVE TrustInv'
    OBVIOUS
  <2>1. CASE UNCHANGED vars
    BY <2>1 DEF vars, TrustInv, TypeOK
  <2>2. ASSUME NEW c \in Commands, NEW op \in {"probe", "repair"}, NEW i \in Ids,
               Begins(c, op, i) \/ Decides(c) \/ Declines(c)
        PROVE  TrustInv'
    BY <2>2, EntryStep
  <2>3. ASSUME NEW c \in Commands, Decides(c) \/ Declines(c) PROVE TrustInv'
    <3>1. cmd[c].id \in Ids
      BY <2>3, OneCommand DEF Decides, Declines
    <3>2. QED
      BY <2>3, <3>1, EntryStep
  <2>4. ASSUME NEW c \in Commands, Step(c) PROVE TrustInv'
    BY <2>4, LoadStep, SaveStep, DialStep DEF Step
  <2>5. QED
    BY <2>1, <2>2, <2>3, <2>4, WorldStep DEF Next
<1>3. QED
  BY <1>1, <1>2, PTL DEF Spec

\* Type correctness of the store, the file and the commands.
THEOREM TrustTypeCorrect == Spec => []TypeOK
<1>1. TrustInv => TypeOK
  BY DEF TrustInv
<1>2. QED
  BY <1>1, TrustInvariance, PTL

\* A command connects only over a key the user approved (tofu_decision, the
\* migration of connect_with_stable_identity), whatever the others save.
THEOREM ApprovedOnly == Spec => OnlyApproved
<1>1. ASSUME TrustInv, NEW c \in Commands, DialAccepts(c) PROVE Seen(c) \in approved
  <2>1. cmd[c].id \in Ids /\ Seen(c) \in Keys /\ cmd[c].store \in Hosts
    BY <1>1, OneCommand DEF DialAccepts, Dialing
  <2>2. Expected(c) = Seen(c) /\ Stored(cmd[c].store) \subseteq approved
    BY <1>1, OneCommand DEF DialAccepts, TofuAccepts, Sound
  <2>3. QED
    <3>1. cmd[c].store[cmd[c].id] = Seen(c) /\ Seen(c) # NONE
      BY <1>1, <2>1, <2>2, ExpectedStored, TrustAssumption
    <3>2. QED
      BY <2>1, <2>2, <3>1, StoredIn
<1>2. TrustInv => (\A c \in Commands : DialAccepts(c) => Seen(c) \in approved)
  BY <1>1
<1>3. QED
  BY <1>2, TrustInvariance, PTL DEF OnlyApproved

\* A command that carries the user's decision does not ask about that key again.
THEOREM DecisionHolds == Spec => DecisionIsEnough
<1>1. ASSUME TrustInv, NEW c \in Commands, DialUnknown(c) \/ DialChanged(c)
      PROVE  Seen(c) # cmd[c].key
  BY <1>1, OneCommand, ExpectedStored, TrustAssumption
  DEF DialUnknown, DialChanged, Dialing, Sound
<1>2. TrustInv =>
        (\A c \in Commands : DialUnknown(c) \/ DialChanged(c) => Seen(c) # cmd[c].key)
  BY <1>1
<1>3. QED
  BY <1>2, TrustInvariance, PTL DEF DecisionIsEnough

-----------------------------------------------------------------------------
(* Asked once.                                                              *)

Approved(i) == known[i] # NONE
Agrees(hosts) == \A i \in Ids : Approved(i) => hosts[i] = known[i]

\* As long as something is known to be approved, at most one command runs,
\* and the file and its copy hold all of it; a save in progress still owes it
\* to the file, and may be about to replace the key of its own identity.
OnceInv ==
  (\E i \in Ids : Approved(i)) =>
    /\ \A c \in Commands : Runs(c) => Alone(c) /\ ~cmd[c].mixed
    /\ (\A c \in Commands : cmd[c].st # "cut") => Agrees(file)
    /\ \A c \in Commands : cmd[c].st = "dial" => Agrees(cmd[c].store)
    /\ \A c \in Commands, i \in Ids :
         cmd[c].st \in {"save", "cut"} /\ i # cmd[c].id /\ Approved(i)
           => cmd[c].store[i] = known[i]

\* A command that is over, or asks, or has only begun: nothing to keep but the file.
LEMMA Quiet ==
  ASSUME TrustInv, OnceInv, NEW c \in Commands, NEW x \in Command,
         cmd' = [cmd EXCEPT ![c] = x], file' = file,
         x.st \in {"idle", "asked", "connected", "load"}, ~x.mixed,
         cmd[c].st # "cut",
         known' = known \/ Enters(c),
         Runs(c) \/ x.st \in {"idle", "asked"} \/ Enters(c)
  PROVE  OnceInv'
<1> SUFFICES ASSUME \E i \in Ids : Approved(i)' PROVE OnceInv'
  BY DEF OnceInv
<1>1. known' = known /\ (Enters(c) => Alone(c))
  BY EmptyIsHosts DEF Enters, Approved, Empty
<1>2. \A o \in Commands : cmd'[o] = IF o = c THEN x ELSE cmd[o]
  BY DEF TrustInv, TypeOK
<1>3. \E i \in Ids : Approved(i)
  BY <1>1 DEF Approved
<1>4. ASSUME NEW o \in Commands, Runs(o)' PROVE Alone(o)' /\ ~cmd'[o].mixed
  <2>1. \A k \in Commands : Runs(k)' <=> IF k = c THEN x.st \notin {"idle", "asked"} ELSE Runs(k)
    BY <1>2 DEF Runs
  <2>2. \A k \in Commands : Runs(k) => Alone(k) /\ ~cmd[k].mixed
    BY <1>3 DEF OnceInv
  <2>3. CASE o = c
    <3>1. Alone(c) /\ ~x.mixed
      BY <1>1, <1>2, <1>4, <2>1, <2>2, <2>3
    <3>2. QED
      BY <1>2, <2>1, <2>3, <3>1 DEF Alone
  <2>4. CASE o # c
    <3>1. Runs(o) /\ Alone(o)
      BY <1>4, <2>1, <2>2, <2>4
    <3>2. x.st \in {"idle", "asked"}
      BY <1>1, <2>2, <2>4, <3>1 DEF Alone
    <3>3. QED
      BY <1>2, <2>1, <2>2, <2>4, <3>1, <3>2 DEF Alone
  <2>5. QED
    BY <2>3, <2>4
<1>5. (\A o \in Commands : cmd'[o].st # "cut") => Agrees(file)'
  BY <1>1, <1>2, <1>3 DEF OnceInv, Agrees, Approved
<1>6. QED
  BY <1>1, <1>2, <1>3, <1>4, <1>5 DEF OnceInv, Agrees, Approved

LEMMA QuietSteps ==
  ASSUME TrustInv, OnceInv, NEW c \in Commands,
         \/ \E op \in {"probe", "repair"}, i \in Ids : Begins(c, op, i)
         \/ Decides(c) \/ Declines(c)
         \/ DialAccepts(c) \/ DialUnknown(c) \/ DialChanged(c)
         \/ RepairRefused(c) \/ Answers(c)
  PROVE  OnceInv'
<1>1. ASSUME NEW op \in {"probe", "repair"}, NEW i \in Ids, Begins(c, op, i) PROVE OnceInv'
  <2> DEFINE x == [Idle EXCEPT !.st = "load", !.op = op, !.id = i]
  <2>1. x \in Command /\ x.st = "load" /\ ~x.mixed
    BY EmptyIsHosts DEF Idle, Command
  <2>2. QED
    BY <1>1, <2>1, Quiet DEF Begins
<1>2. CASE Decides(c)
  <2> DEFINE x == [cmd[c] EXCEPT !.st = "load"]
  <2>1. x \in Command /\ x.st = "load" /\ x.mixed = cmd[c].mixed
    BY OneCommand DEF Command
  <2>2. cmd' = [cmd EXCEPT ![c] = x]
    BY <1>2 DEF Decides
  <2>3. ~cmd[c].mixed
    BY <1>2, OneCommand DEF Decides, Sound
  <2>4. QED
    BY <1>2, <2>1, <2>2, <2>3, Quiet DEF Decides
<1>3. CASE Declines(c) \/ RepairRefused(c) \/ Answers(c)
  BY <1>3, IdleIsSound, Quiet DEF Declines, RepairRefused, Answers, Dialing, Idle
<1>4. CASE DialAccepts(c)
  <2> DEFINE x == [cmd[c] EXCEPT !.st = "connected", !.again = NONE, !.store = Empty]
  <2>1. x \in Command /\ x.st = "connected" /\ ~x.mixed
    BY <1>4, OneCommand, EmptyIsHosts DEF DialAccepts, Dialing, Command, Sound
  <2>2. cmd' = [cmd EXCEPT ![c] = x] /\ Runs(c)
    BY <1>4 DEF DialAccepts, Dialing, Runs
  <2>3. QED
    BY <1>4, <2>1, <2>2, Quiet DEF DialAccepts, Dialing
<1>5. CASE DialUnknown(c) \/ DialChanged(c)
  <2> DEFINE x == [cmd[c] EXCEPT !.st = "asked", !.key = Seen(c), !.again = NONE, !.store = Empty]
  <2>1. x \in Command /\ x.st = "asked" /\ ~x.mixed
    BY <1>5, OneCommand, EmptyIsHosts DEF DialUnknown, DialChanged, Dialing, Command, Sound
  <2>2. cmd' = [cmd EXCEPT ![c] = x]
    BY <1>5 DEF DialUnknown, DialChanged, Asks, TrustInv, TypeOK
  <2>3. QED
    BY <1>5, <2>1, <2>2, Quiet DEF DialUnknown, DialChanged, Dialing
<1>6. QED
  BY <1>1, <1>2, <1>3, <1>4, <1>5

\* A running command that goes on by itself: what it must leave in order.
LEMMA Busy ==
  ASSUME TrustInv, OnceInv, NEW c \in Commands, NEW x \in Command, Runs(c),
         cmd' = [cmd EXCEPT ![c] = x], known' = known, ~x.mixed,
         (\E i \in Ids : Approved(i)) /\ Alone(c) =>
           /\ x.st # "cut" => Agrees(file')
           /\ x.st = "dial" => Agrees(x.store)
           /\ x.st \in {"save", "cut"} =>
                \A i \in Ids : i # x.id /\ Approved(i) => x.store[i] = known[i]
  PROVE  OnceInv'
<1> SUFFICES ASSUME \E i \in Ids : Approved(i)' PROVE OnceInv'
  BY DEF OnceInv
<1>1. \E i \in Ids : Approved(i)
  BY DEF Approved
<1>2. Alone(c)
  BY <1>1 DEF OnceInv
<1>3. \A o \in Commands : cmd'[o] = IF o = c THEN x ELSE cmd[o]
  BY DEF TrustInv, TypeOK
<1>4. \A o \in Commands \ {c} : cmd'[o].st \in {"idle", "asked"}
  BY <1>2, <1>3 DEF Alone, Runs
<1>5. ASSUME NEW o \in Commands, Runs(o)' PROVE Alone(o)' /\ ~cmd'[o].mixed
  BY <1>3, <1>4, <1>5 DEF Runs, Alone
<1>6. (\A o \in Commands : cmd'[o].st # "cut") => Agrees(file)'
  BY <1>1, <1>2, <1>3 DEF Agrees, Approved
<1>7. \A o \in Commands : cmd'[o].st = "dial" => Agrees(cmd[o].store)'
  BY <1>1, <1>2, <1>3, <1>4 DEF Agrees, Approved
<1>8. \A o \in Commands, i \in Ids :
        cmd'[o].st \in {"save", "cut"} /\ i # cmd'[o].id /\ Approved(i)'
          => cmd'[o].store[i] = known'[i]
  BY <1>1, <1>2, <1>3, <1>4 DEF Approved
<1>9. QED
  BY <1>5, <1>6, <1>7, <1>8 DEF OnceInv

\* What OnceInv says of a command that runs alone.
LEMMA WhenAlone ==
  ASSUME TrustInv, OnceInv, NEW c \in Commands, Runs(c), \E i \in Ids : Approved(i)
  PROVE  /\ Alone(c)
         /\ cmd[c].st # "cut" => Agrees(file)
         /\ cmd[c].st = "dial" => Agrees(cmd[c].store)
         /\ cmd[c].st \in {"save", "cut"} =>
              \A i \in Ids : i # cmd[c].id /\ Approved(i) => cmd[c].store[i] = known[i]
<1>1. Alone(c)
  BY DEF OnceInv
<1>2. cmd[c].st # "cut" => \A o \in Commands : cmd[o].st # "cut"
  BY <1>1 DEF Alone, Runs
<1>3. QED
  BY <1>1, <1>2 DEF OnceInv

LEMMA LoadOnce ==
  ASSUME TrustInv, OnceInv, NEW c \in Commands, Loads(c)
  PROVE  OnceInv'
<1>1. Runs(c) /\ cmd[c].st = "load" /\ file' = file /\ known' = known
  BY DEF Loads, Runs
<1>2. ~cmd[c].mixed /\ cmd[c].id \in Ids /\ file \in Hosts
  BY <1>1, OneCommand DEF Sound
<1>3. CASE cmd[c].key = NONE
  <2> DEFINE x == [cmd[c] EXCEPT !.st = "dial", !.store = file]
  <2>1. x \in Command /\ x.st = "dial" /\ x.store = file /\ ~x.mixed
    BY <1>2, OneCommand DEF Command
  <2>2. QED
    BY <1>1, <1>3, <2>1, WhenAlone, Busy DEF Loads
<1>4. CASE cmd[c].key # NONE
  <2> DEFINE x == [cmd[c] EXCEPT !.st = "save", !.store = Decided(c)]
  <2>1. cmd[c].key \in Keys
    BY <1>4, OneCommand DEF Command
  <2>2. Decided(c) \in Hosts /\ \A i \in Ids : i # cmd[c].id => Decided(c)[i] = file[i]
    BY <1>2, <2>1 DEF Decided, Hosts
  <2>3. x \in Command /\ x.st = "save" /\ x.store = Decided(c) /\ x.id = cmd[c].id /\ ~x.mixed
    BY <1>2, <2>2, OneCommand DEF Command
  <2>4. (\E i \in Ids : Approved(i)) =>
          /\ Agrees(file')
          /\ \A i \in Ids : i # x.id /\ Approved(i) => x.store[i] = known[i]
    BY <1>1, <2>2, <2>3, WhenAlone DEF Agrees
  <2>5. cmd' = [cmd EXCEPT ![c] = x]
    BY <1>4 DEF Loads
  <2>6. QED
    BY <1>1, <2>3, <2>4, <2>5, Busy
<1>5. QED
  BY <1>3, <1>4

LEMMA MigrateOnce ==
  ASSUME TrustInv, OnceInv, NEW c \in Commands, DialMigrates(c)
  PROVE  OnceInv'
<1> DEFINE x == [cmd[c] EXCEPT !.st = "save", !.again = Seen(c), !.store[cmd[c].id] = Seen(c)]
<1>1. Runs(c) /\ cmd[c].st = "dial" /\ file' = file /\ known' = known
  BY DEF DialMigrates, Dialing, Runs
<1>2. cmd[c].id \in Ids /\ Seen(c) \in Keys /\ ~cmd[c].mixed /\ cmd[c].store \in Hosts
  BY <1>1, OneCommand DEF Sound
<1>3. [cmd[c].store EXCEPT ![cmd[c].id] = Seen(c)] \in Hosts
  BY <1>2 DEF Hosts
<1>4. /\ x \in Command /\ x.st = "save" /\ x.id = cmd[c].id /\ ~x.mixed
      /\ x.store = [cmd[c].store EXCEPT ![cmd[c].id] = Seen(c)]
  BY <1>2, <1>3, OneCommand DEF Command
<1>5. \A i \in Ids : i # cmd[c].id => x.store[i] = cmd[c].store[i]
  BY <1>2, <1>4 DEF Hosts
<1>6. cmd' = [cmd EXCEPT ![c] = x]
  BY DEF DialMigrates, Migrates, TrustInv, TypeOK, Command
<1>7. (\E i \in Ids : Approved(i)) =>
        /\ Agrees(file')
        /\ \A i \in Ids : i # x.id /\ Approved(i) => x.store[i] = known[i]
  BY <1>1, <1>4, <1>5, WhenAlone DEF Agrees
<1>8. QED
  BY <1>1, <1>4, <1>6, <1>7, Busy

LEMMA SaveOnce ==
  ASSUME TrustInv, OnceInv, NEW c \in Commands, Saves(c)
  PROVE  OnceInv'
<1>1. CASE SaveTruncates(c)
  <2> DEFINE x == [cmd[c] EXCEPT !.st = "cut", !.mixed = FALSE]
  <2>1. Runs(c) /\ cmd[c].st = "save" /\ known' = known
    BY <1>1 DEF SaveTruncates, Runs
  <2>2. x \in Command /\ x.st = "cut" /\ x.id = cmd[c].id /\ x.store = cmd[c].store /\ ~x.mixed
    BY OneCommand DEF Command
  <2>3. QED
    BY <1>1, <2>1, <2>2, WhenAlone, Busy DEF SaveTruncates
<1>2. CASE SaveWrites(c)
  <2> SUFFICES ASSUME \E i \in Ids : Approved(i)' PROVE OnceInv'
    BY DEF OnceInv
  <2>1. cmd[c].st = "cut" /\ Runs(c) /\ cmd[c].id \in Ids /\ cmd[c].store \in Hosts
    BY <1>2, OneCommand DEF SaveWrites, Runs
  <2>2. Alone(c) /\ ~cmd[c].mixed
    BY <1>2, <2>1 DEF SaveWrites, OnceInv, Approved
  <2>3. known' = [known EXCEPT ![cmd[c].id] = Expected(c)] /\ file' = cmd[c].store
    BY <1>2, <2>2 DEF SaveWrites
  <2>4. ASSUME NEW i \in Ids, Approved(i)' PROVE cmd[c].store[i] = known'[i]
    <3>1. CASE i = cmd[c].id
      BY <2>1, <2>3, <3>1, ExpectedStored DEF TrustInv, TypeOK, Hosts
    <3>2. CASE i # cmd[c].id
      <4>1. known'[i] = known[i] /\ Approved(i)
        BY <2>3, <2>4, <3>2 DEF Approved, TrustInv, TypeOK, Hosts
      <4>2. QED
        BY <2>1, <3>2, <4>1, WhenAlone
    <3>3. QED
      BY <3>1, <3>2
  <2>5. cmd'[c].st = "dial" /\ cmd'[c].store = cmd[c].store /\ ~cmd'[c].mixed
    BY <1>2, OneCommand DEF SaveWrites, Written, Command
  <2>6. \A o \in Commands \ {c} : cmd'[o].st = cmd[o].st /\ cmd[o].st \in {"idle", "asked"}
    BY <1>2, <2>2, OneCommand DEF SaveWrites, Written, Command, Alone, Runs
  <2>7. ASSUME NEW o \in Commands, Runs(o)' PROVE Alone(o)' /\ ~cmd'[o].mixed
    BY <2>5, <2>6, <2>7 DEF Runs, Alone
  <2>8. Agrees(file)' /\ \A o \in Commands : cmd'[o].st = "dial" => Agrees(cmd[o].store)'
    BY <2>3, <2>4, <2>5, <2>6 DEF Agrees
  <2>9. QED
    BY <2>5, <2>6, <2>7, <2>8 DEF OnceInv
<1>3. CASE SaveFails(c)
  BY <1>3 DEF SaveFails, OnceInv, Approved, Empty
<1>4. QED
  BY <1>1, <1>2, <1>3 DEF Saves

LEMMA CrashOnce ==
  ASSUME TrustInv, OnceInv, Crash
  PROVE  OnceInv'
<1> SUFFICES ASSUME \E i \in Ids : Approved(i)' PROVE OnceInv'
  BY DEF OnceInv
<1>1. (\A c \in Commands : cmd[c].st # "cut") /\ known' = known /\ file' = file
  BY DEF Crash, Approved, Empty
<1>2. Agrees(file)'
  BY <1>1 DEF OnceInv, Agrees, Approved
<1>3. \A c \in Commands : cmd'[c] = Idle
  BY DEF Crash
<1>4. QED
  BY <1>2, <1>3 DEF OnceInv, Idle, Runs

\* While commands do not overlap and no save is cut, a key approved for an
\* identity is not asked for again and a repair finds it, for any devices,
\* identities and keys.
THEOREM NotAskedAgain == Spec => AskedOnce
<1>1. Init => OnceInv
  BY IdleIsSound DEF Init, OnceInv, Agrees, Idle, Runs
<1>2. TrustInv /\ OnceInv /\ [Next]_vars => OnceInv'
  <2> SUFFICES ASSUME TrustInv, OnceInv, [Next]_vars PROVE OnceInv'
    OBVIOUS
  <2>1. CASE UNCHANGED vars
    BY <2>1 DEF vars, OnceInv, Approved, Agrees, Runs, Alone
  <2>2. ASSUME NEW c \in Commands,
               \/ \E op \in {"probe", "repair"}, i \in Ids : Begins(c, op, i)
               \/ Decides(c) \/ Declines(c) \/ Step(c)
        PROVE  OnceInv'
    BY <2>2, QuietSteps, LoadOnce, MigrateOnce, SaveOnce DEF Step, Dials
  <2>3. ASSUME NEW d \in Devices, NEW k \in Keys, Reinstall(d, k) PROVE OnceInv'
    BY <2>3 DEF Reinstall, OnceInv, Approved, Agrees, Runs, Alone
  <2>4. QED
    BY <2>1, <2>2, <2>3, CrashOnce DEF Next
<1>3. ASSUME TrustInv, OnceInv, NEW c \in Commands,
             DialUnknown(c) \/ DialChanged(c) \/ RepairRefused(c)
      PROVE  known[cmd[c].id] # Seen(c)
  <2>1. Runs(c) /\ cmd[c].st = "dial"
    BY <1>3 DEF DialUnknown, DialChanged, RepairRefused, Dialing, Runs
  <2>2. cmd[c].id \in Ids /\ Seen(c) # NONE
    BY <1>3, <2>1, OneCommand, TrustAssumption
  <2>3. Approved(cmd[c].id) => Expected(c) = known[cmd[c].id]
    BY <1>3, <2>1, <2>2, WhenAlone, ExpectedStored DEF Agrees
  <2>4. QED
    BY <1>3, <2>2, <2>3 DEF Approved, DialUnknown, DialChanged, RepairRefused
<1>4. TrustInv /\ OnceInv =>
        (\A c \in Commands :
           DialUnknown(c) \/ DialChanged(c) \/ RepairRefused(c) => known[cmd[c].id] # Seen(c))
  BY <1>3
<1>5. QED
  BY <1>1, <1>2, <1>4, TrustInvariance, PTL DEF Spec, AskedOnce
=============================================================================
