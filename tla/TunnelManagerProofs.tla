-------------------------- MODULE TunnelManagerProofs --------------------------
(***************************************************************************)
(* Tunnels belong to their device and to the table, for any devices,        *)
(* addresses, commands, children and retries, whatever reboots, quits and   *)
(* crashes come between.                                                    *)
(***************************************************************************)
EXTENDS TunnelManager, TLAPS

Spawning(c) == pc[c] \in {"spawn", "wait"}

\* Who is in a spawn holds the mutex, and has found its key free.
Mutex ==
  \A c \in Threads : /\ Spawning(c) <=> holder = c
                     /\ Spawning(c) => table[KeyOf(c)] = NONE

Asked == \A c \in Threads : pc[c] # "idle" => <<call[c].device, call[c].host>> \in Routes

\* One child at most is being spawned, for the address the holder asked for.
OneSpawn ==
  \A t \in Pool : proc[t].st = "starting" =>
    /\ \E c \in Threads : holder = c /\ pc[c] = "wait" /\ proc[t].host = call[c].host
    /\ \A u \in Pool : proc[u].st = "starting" => u = t

\* What is under a key was spawned for it, and an open tunnel ends where its
\* address leads.
Rooted ==
  /\ \A k \in Keys : table[k] # NONE =>
       /\ proc[table[k]].st \in {"up", "half", "exited"}
       /\ proc[table[k]].host \in Hosts
       /\ k \in Devices => Serves[proc[table[k]].host] = k
       /\ k \in Hosts => proc[table[k]].host = k
  /\ \A t \in Pool : proc[t].st = "up" => proc[t].dev = Serves[proc[t].host]

Listed(t) == \E k \in Keys : table[k] = t

\* NoStrayTunnel, child by child.
Accounted ==
  /\ app # "down" => \A t \in Pool :
       /\ t \in secrets <=> Listed(t) \/ proc[t].st = "starting"
       /\ proc[t].st # "none" <=> Listed(t) \/ proc[t].st = "starting"
  /\ app = "down" => /\ \A k \in Keys : table[k] = NONE
                     /\ \A t \in Pool : proc[t].st \in {"none", "orphan"}
                     /\ \A c \in Threads : pc[c] = "idle"
  /\ \A j, k \in Keys : table[j] = table[k] /\ table[j] # NONE => j = k

\* The inductive invariant.
TunnelInv == TypeOK /\ Mutex /\ Asked /\ OneSpawn /\ Rooted /\ Accounted

-----------------------------------------------------------------------------

LEMMA TypesOf ==
  ASSUME TunnelInv
  PROVE  /\ \A t \in Pool : /\ proc[t] \in ActiveTunnel /\ proc[t].st \in States
                            /\ proc[t].host \in Hosts \cup {NONE} /\ proc[t].dev \in Devices \cup {NONE}
                            /\ proc[t].port \in Ports \cup {NONE}
         /\ \A k \in Keys : table[k] \in Pool \cup {NONE}
         /\ \A c \in Threads : /\ call[c] \in Calls /\ call[c].device \in Devices \cup {NONE}
                               /\ call[c].host \in Hosts \cup {NONE} /\ call[c].tries \in Nat
         /\ secrets \subseteq Pool
BY DEF TunnelInv, TypeOK, ActiveTunnel, Calls

\* A command under way asked for an address and has a key.
LEMMA KeyFacts ==
  ASSUME TunnelInv, NEW c \in Threads, pc[c] # "idle"
  PROVE  /\ call[c].host \in Hosts /\ KeyOf(c) \in Keys
         /\ call[c].device # NONE => KeyOf(c) \in Devices /\ Serves[call[c].host] = KeyOf(c)
         /\ call[c].device = NONE => KeyOf(c) = call[c].host
<1>1. <<call[c].device, call[c].host>> \in Routes
  BY DEF TunnelInv, Asked
<1>2. call[c].device \in Devices \cup {NONE} /\ call[c].host \in Hosts
  BY <1>1, TunnelAssumption
<1>3. call[c].device # NONE => Serves[call[c].host] = call[c].device
  BY <1>1, TunnelAssumption
<1>4. QED
  BY <1>2, <1>3 DEF KeyOf, Keys

\* The network, the devices and the quit request.
LEMMA NetworkStep ==
  ASSUME TunnelInv,
         \/ \E d \in Devices : Reboot(d) \/ Return(d)
         \/ \E t \in Pool : GivesUp(t)
         \/ Quit
  PROVE  TunnelInv'
<1>1. ASSUME NEW d \in Devices, Reboot(d) PROVE TunnelInv'
  <2>1. \A t \in Pool : /\ proc'[t] \in ActiveTunnel /\ proc'[t].host = proc[t].host
                        /\ proc'[t].dev = proc[t].dev
                        /\ proc'[t].st = proc[t].st \/ (proc[t].st = "up" /\ proc'[t].st = "half")
    BY <1>1, TypesOf DEF Reboot, HalfOpen, ActiveTunnel, States
  <2>2. TypeOK'
    BY <1>1, <2>1 DEF Reboot, HalfOpen, TunnelInv, TypeOK
  <2>3. Mutex' /\ Asked'
    BY <1>1 DEF Reboot, TunnelInv, Mutex, Asked, Spawning, KeyOf
  <2>4. OneSpawn' /\ Rooted'
    BY <1>1, <2>1, TypesOf DEF Reboot, TunnelInv, OneSpawn, Rooted
  <2>5. Accounted'
    BY <1>1, <2>1, TypesOf DEF Reboot, TunnelInv, Accounted, Listed
  <2>6. QED
    BY <2>2, <2>3, <2>4, <2>5 DEF TunnelInv
<1>2. ASSUME NEW d \in Devices, Return(d) PROVE TunnelInv'
  BY <1>2 DEF Return, TunnelInv, TypeOK, Mutex, Asked, OneSpawn, Rooted, Accounted, Spawning,
     KeyOf, Listed
<1>3. ASSUME NEW t \in Pool, GivesUp(t) PROVE TunnelInv'
  <2>1. \A u \in Pool : /\ proc'[u] \in ActiveTunnel /\ proc'[u].host = proc[u].host
                        /\ proc'[u].dev = proc[u].dev
                        /\ proc'[u].st = proc[u].st \/ (proc[u].st = "half" /\ proc'[u].st = "exited")
    BY <1>3, TypesOf DEF GivesUp, ActiveTunnel, States, TunnelInv, TypeOK
  <2>2. TypeOK'
    BY <1>3, <2>1 DEF GivesUp, TunnelInv, TypeOK
  <2>3. Mutex' /\ Asked'
    BY <1>3 DEF GivesUp, TunnelInv, Mutex, Asked, Spawning, KeyOf
  <2>4. OneSpawn' /\ Rooted'
    BY <1>3, <2>1, TypesOf DEF GivesUp, TunnelInv, OneSpawn, Rooted
  <2>5. Accounted'
    BY <1>3, <2>1, TypesOf DEF GivesUp, TunnelInv, Accounted, Listed
  <2>6. QED
    BY <2>2, <2>3, <2>4, <2>5 DEF TunnelInv
<1>4. CASE Quit
  BY <1>4 DEF Quit, TunnelInv, TypeOK, Mutex, Asked, OneSpawn, Rooted, Accounted, Spawning,
     KeyOf, Listed
<1>5. QED
  BY <1>1, <1>2, <1>3, <1>4

-----------------------------------------------------------------------------
(* Calls.                                                                   *)

\* While nobody holds the mutex nobody spawns, and no child is starting.
LEMMA FreeMutex ==
  ASSUME TunnelInv, holder = NONE
  PROVE  /\ \A c \in Threads : ~Spawning(c)
         /\ \A t \in Pool : proc[t].st # "starting"
<1>1. \A c \in Threads : holder # c
  BY TunnelAssumption
<1>2. QED
  BY <1>1 DEF TunnelInv, Mutex, OneSpawn

\* A thread that moves outside a spawn, the children and the table unchanged.
LEMMA QuietStep ==
  ASSUME TunnelInv, NEW c \in Threads,
         UNCHANGED <<up, app, table, proc, secrets, holder>>,
         ~Spawning(c),
         \/ \E x \in {"ensure", "ready", "failed"}, y \in Calls :
               /\ pc' = [pc EXCEPT ![c] = x] /\ call' = [call EXCEPT ![c] = y]
               /\ <<y.device, y.host>> \in Routes /\ app # "down"
         \/ \E y \in Calls : pc' = [pc EXCEPT ![c] = "idle"] /\ call' = [call EXCEPT ![c] = y]
  PROVE  TunnelInv'
<1>1. PICK x \in {"ensure", "ready", "failed", "idle"}, y \in Calls :
         /\ pc' = [pc EXCEPT ![c] = x] /\ call' = [call EXCEPT ![c] = y]
         /\ x # "idle" => <<y.device, y.host>> \in Routes /\ app # "down"
  OBVIOUS
<1>2. /\ \A o \in Threads \ {c} : pc'[o] = pc[o] /\ call'[o] = call[o]
      /\ pc'[c] = x /\ call'[c] = y
  BY <1>1 DEF TunnelInv, TypeOK
<1>3. TypeOK'
  BY <1>1 DEF TunnelInv, TypeOK
<1>4. Mutex' /\ Asked'
  BY <1>1, <1>2 DEF TunnelInv, Mutex, Asked, Spawning, KeyOf
<1>5. OneSpawn'
  BY <1>1, <1>2 DEF TunnelInv, OneSpawn, Spawning
<1>6. Rooted' /\ Accounted'
  BY <1>1, <1>2 DEF TunnelInv, Rooted, Accounted, Listed
<1>7. QED
  BY <1>3, <1>4, <1>5, <1>6 DEF TunnelInv

LEMMA NoCallIsCall == NoCall \in Calls
BY DEF NoCall, Calls

\* A command begins, finds its tunnel, dials.
LEMMA CallStep ==
  ASSUME TunnelInv, NEW c \in Threads,
         (\E r \in Routes : Ask(c, r[1], r[2])) \/ EnsureReuses(c) \/ Dials(c)
  PROVE  TunnelInv'
<1>1. ASSUME NEW r \in Routes, Ask(c, r[1], r[2]) PROVE TunnelInv'
  <2> DEFINE y == [NoCall EXCEPT !.device = r[1], !.host = r[2]]
  <2>1. r[1] \in Devices \cup {NONE} /\ r[2] \in Hosts /\ r = <<r[1], r[2]>>
    BY TunnelAssumption
  <2>2. y \in Calls /\ y.device = r[1] /\ y.host = r[2]
    BY <2>1 DEF NoCall, Calls
  <2>3. ~Spawning(c)
    BY <1>1 DEF Ask, Spawning
  <2>4. QED
    BY <1>1, <2>1, <2>2, <2>3, QuietStep DEF Ask
<1>2. CASE EnsureReuses(c)
  <2> DEFINE k == KeyOf(c)
             y == [call[c] EXCEPT !.port = proc[table[k]].port, !.tries = 0]
  <2>1. k \in Keys /\ table[k] \in Pool /\ call[c] \in Calls
    BY <1>2, KeyFacts, TypesOf DEF EnsureReuses, EntersEnsure
  <2>2. y \in Calls /\ <<y.device, y.host>> = <<call[c].device, call[c].host>>
    BY <2>1, TypesOf DEF Calls
  <2>3. call' = [call EXCEPT ![c] = y] /\ pc' = [pc EXCEPT ![c] = "ready"]
    BY <1>2 DEF EnsureReuses, Gives, TunnelInv, TypeOK
  <2>4. <<y.device, y.host>> \in Routes /\ app # "down" /\ ~Spawning(c)
    BY <1>2, <2>2 DEF EnsureReuses, EntersEnsure, TunnelInv, Asked, Accounted, Spawning
  <2>5. QED
    BY <1>2, <2>2, <2>3, <2>4, QuietStep DEF EnsureReuses
<1>3. CASE DialReaches(c)
  BY <1>3, NoCallIsCall, QuietStep DEF DialReaches, Spawning
<1>4. CASE DialFails(c)
  <2> DEFINE y == [call[c] EXCEPT !.port = NONE]
  <2>1. y \in Calls /\ <<y.device, y.host>> = <<call[c].device, call[c].host>>
    BY TypesOf DEF Calls
  <2>2. call' = [call EXCEPT ![c] = y] /\ pc' = [pc EXCEPT ![c] = "failed"]
    BY <1>4 DEF DialFails, TunnelInv, TypeOK
  <2>3. <<y.device, y.host>> \in Routes /\ app # "down" /\ ~Spawning(c)
    BY <1>4, <2>1 DEF DialFails, TunnelInv, Asked, Accounted, Spawning
  <2>4. QED
    BY <1>4, <2>1, <2>2, <2>3, QuietStep DEF DialFails
<1>5. QED
  BY <1>1, <1>2, <1>3, <1>4 DEF Dials

-----------------------------------------------------------------------------
(* Tunnels are dropped with the mutex free.                                 *)

\* The keys ks lose their children, which end.
Drops(ks) ==
  /\ Dropped({table[k] : k \in ks} \ {NONE})
  /\ table' = [k \in Keys |-> IF k \in ks THEN NONE ELSE table[k]]

LEMMA DropStep ==
  ASSUME TunnelInv, holder = NONE, NEW ks \in SUBSET Keys, Drops(ks), up' = up,
         app # "down", app' \in {"running", "closing", "closed"}
  PROVE  /\ up' \subseteq Devices /\ table' \in [Keys -> Pool \cup {NONE}]
         /\ proc' \in [Pool -> ActiveTunnel] /\ secrets' \subseteq Pool
         /\ OneSpawn' /\ Rooted' /\ Accounted'
<1> DEFINE ts == {table[k] : k \in ks} \ {NONE}
<1>1. /\ \A t \in Pool : proc'[t] = IF t \in ts THEN NoChild ELSE proc[t]
      /\ secrets' = secrets \ ts
      /\ \A k \in Keys : table'[k] = IF k \in ks THEN NONE ELSE table[k]
  BY DEF Drops, Dropped
<1>2. NoChild \in ActiveTunnel /\ NoChild.st = "none"
  BY DEF NoChild, ActiveTunnel, States
<1>3. \A t \in Pool : proc[t].st # "starting"
  BY FreeMutex
<1>4. \A k \in Keys : table'[k] # NONE =>
        table'[k] = table[k] /\ table[k] \in Pool /\ table[k] \notin ts
  <2> SUFFICES ASSUME NEW k \in Keys, table'[k] # NONE
               PROVE  table'[k] = table[k] /\ table[k] \in Pool /\ table[k] \notin ts
    OBVIOUS
  <2>1. k \notin ks /\ table'[k] = table[k] /\ table[k] \in Pool
    BY <1>1, TypesOf
  <2>2. ASSUME table[k] \in ts PROVE FALSE
    <3>1. PICK j \in ks : table[j] = table[k]
      BY <2>2
    <3>2. QED
      BY <3>1, <2>1 DEF TunnelInv, Accounted
  <2>3. QED
    BY <2>1, <2>2
<1>5. up' \subseteq Devices /\ table' \in [Keys -> Pool \cup {NONE}]
  BY <1>1, TypesOf DEF Drops, TunnelInv, TypeOK
<1>6. proc' \in [Pool -> ActiveTunnel] /\ secrets' \subseteq Pool
  BY <1>1, <1>2, TypesOf DEF Drops, Dropped
<1>7. OneSpawn'
  BY <1>1, <1>2, <1>3 DEF OneSpawn
<1>8. Rooted'
  <2>1. \A k \in Keys : table'[k] # NONE => proc'[table'[k]] = proc[table[k]] /\ table[k] # NONE
    BY <1>1, <1>4
  <2>2. \A t \in Pool : proc'[t].st = "up" => proc'[t] = proc[t]
    BY <1>1, <1>2
  <2>3. QED
    BY <1>4, <2>1, <2>2 DEF TunnelInv, Rooted
<1>9. Accounted'
  <2>1. \A t \in Pool : Listed(t)' <=> Listed(t) /\ t \notin ts
    <3> SUFFICES ASSUME NEW t \in Pool PROVE Listed(t)' <=> Listed(t) /\ t \notin ts
      OBVIOUS
    <3>1. Listed(t)' => Listed(t) /\ t \notin ts
      BY <1>4, TunnelAssumption DEF Listed
    <3>2. Listed(t) /\ t \notin ts => Listed(t)'
      BY <1>1, TunnelAssumption DEF Listed
    <3>3. QED
      BY <3>1, <3>2
  <2>2. \A t \in Pool : /\ t \in secrets' <=> Listed(t)'
                        /\ proc'[t].st # "none" <=> Listed(t)'
    BY <1>1, <1>2, <1>3, <2>1 DEF TunnelInv, Accounted
  <2>3. \A t \in Pool : proc'[t].st # "starting"
    BY <1>1, <1>2, <1>3
  <2>4. \A j, k \in Keys : table'[j] = table'[k] /\ table'[j] # NONE => j = k
    BY <1>4 DEF TunnelInv, Accounted
  <2>5. QED
    BY <2>2, <2>3, <2>4 DEF Accounted
<1>10. QED
  BY <1>5, <1>6, <1>7, <1>8, <1>9

\* An ensure drops nothing or one tunnel, and spawns.
LEMMA SpawnEntry ==
  ASSUME TunnelInv, NEW c \in Threads, EntersEnsure(c), NEW ks \in SUBSET Keys, Drops(ks),
         KeyOf(c) \in ks \/ table[KeyOf(c)] = NONE, Spawns(c), UNCHANGED <<up, app>>
  PROVE  TunnelInv'
<1>1. app # "down" /\ app' \in {"running", "closing", "closed"}
  BY DEF EntersEnsure, TunnelInv, TypeOK, Accounted
<1>2. /\ up' \subseteq Devices /\ table' \in [Keys -> Pool \cup {NONE}]
      /\ proc' \in [Pool -> ActiveTunnel] /\ secrets' \subseteq Pool
      /\ OneSpawn' /\ Rooted' /\ Accounted'
  BY <1>1, DropStep DEF EntersEnsure
<1>3. TypeOK'
  BY <1>1, <1>2 DEF TunnelInv, TypeOK, Spawns
<1>4. /\ \A o \in Threads \ {c} : pc'[o] = pc[o] /\ ~Spawning(o)
      /\ pc'[c] = "spawn" /\ holder' = c /\ call' = call
  BY FreeMutex DEF EntersEnsure, Spawns, TunnelInv, TypeOK
<1>5. table'[KeyOf(c)] = NONE
  BY KeyFacts DEF Drops, EntersEnsure
<1>6. Mutex'
  BY <1>4, <1>5 DEF Mutex, Spawning, KeyOf
<1>7. Asked'
  BY <1>4 DEF EntersEnsure, TunnelInv, Asked
<1>8. QED
  BY <1>2, <1>3, <1>6, <1>7 DEF TunnelInv

LEMMA EnsureSpawns ==
  ASSUME TunnelInv, NEW c \in Threads,
         EnsureDropsStale(c) \/ EnsureDropsAdopted(c) \/ EnsureFresh(c)
  PROVE  TunnelInv'
<1>0. table \in [Keys -> Pool \cup {NONE}] /\ proc \in [Pool -> ActiveTunnel] /\ secrets \subseteq Pool
  BY DEF TunnelInv, TypeOK
<1>1. CASE EnsureDropsStale(c)
  <2> DEFINE k == KeyOf(c)
  <2>1. k \in Keys /\ table[k] # NONE
    BY <1>1, KeyFacts DEF EnsureDropsStale, EntersEnsure
  <2>2. {table[j] : j \in {k}} \ {NONE} = {table[k]}
    BY <2>1
  <2>3. Drops({k})
    BY <1>0, <1>1, <2>1, <2>2 DEF EnsureDropsStale, Drops
  <2>4. QED
    BY <1>1, <2>1, <2>3, SpawnEntry DEF EnsureDropsStale
<1>2. CASE EnsureDropsAdopted(c)
  <2>1. PICK old \in Adoptable(c) : /\ Dropped({table[old]})
                                    /\ table' = [table EXCEPT ![old] = NONE]
    BY <1>2 DEF EnsureDropsAdopted
  <2>2. old \in Keys /\ table[old] # NONE /\ table[KeyOf(c)] = NONE
    BY <2>1 DEF Adoptable
  <2>3. {table[j] : j \in {old}} \ {NONE} = {table[old]}
    BY <2>2
  <2>4. Drops({old})
    BY <1>0, <2>1, <2>2, <2>3 DEF Drops
  <2>5. QED
    BY <1>2, <2>2, <2>4, SpawnEntry DEF EnsureDropsAdopted
<1>3. CASE EnsureFresh(c)
  <2>1. {table[j] : j \in {}} \ {NONE} = {}
    OBVIOUS
  <2>2. Dropped({}) /\ table' = [k \in Keys |-> table[k]]
    BY <1>0, <1>3 DEF EnsureFresh, Dropped
  <2>3. Drops({})
    BY <2>1, <2>2 DEF Drops
  <2>4. QED
    BY <1>3, <2>3, SpawnEntry DEF EnsureFresh
<1>4. QED
  BY <1>1, <1>2, <1>3

\* invalidate and close_all.
LEMMA InvalidateStep ==
  ASSUME TunnelInv, NEW c \in Threads, Invalidate(c)
  PROVE  TunnelInv'
<1> DEFINE k == KeyOf(c)
<1>1. k \in Keys /\ app # "down" /\ app' \in {"running", "closing", "closed"} /\ holder = NONE
  BY KeyFacts DEF Invalidate, TunnelInv, TypeOK, Accounted
<1>2. {table[j] : j \in {k}} = {table[k]}
  OBVIOUS
<1>3. Drops({k})
  BY <1>1, <1>2 DEF Invalidate, Drops, TunnelInv, TypeOK
<1>4. /\ up' \subseteq Devices /\ table' \in [Keys -> Pool \cup {NONE}]
      /\ proc' \in [Pool -> ActiveTunnel] /\ secrets' \subseteq Pool
      /\ OneSpawn' /\ Rooted' /\ Accounted'
  BY <1>1, <1>3, DropStep DEF Invalidate
<1>5. TypeOK'
  BY <1>1, <1>4, NoCallIsCall DEF Invalidate, TunnelInv, TypeOK
<1>6. /\ \A o \in Threads \ {c} : pc'[o] = pc[o] /\ ~Spawning(o) /\ call'[o] = call[o]
      /\ pc'[c] = "idle" /\ holder' = holder
  BY FreeMutex DEF Invalidate, TunnelInv, TypeOK
<1>7. Mutex'
  BY <1>6, <1>1, TunnelAssumption DEF Mutex, Spawning
<1>8. Asked'
  BY <1>6 DEF TunnelInv, Asked
<1>9. QED
  BY <1>4, <1>5, <1>7, <1>8 DEF TunnelInv

LEMMA CloseAllStep ==
  ASSUME TunnelInv, CloseAll
  PROVE  TunnelInv'
<1>1. Drops(Keys) /\ holder = NONE /\ app # "down" /\ app' \in {"running", "closing", "closed"}
  BY DEF CloseAll, Drops
<1>2. /\ up' \subseteq Devices /\ table' \in [Keys -> Pool \cup {NONE}]
      /\ proc' \in [Pool -> ActiveTunnel] /\ secrets' \subseteq Pool
      /\ OneSpawn' /\ Rooted' /\ Accounted'
  BY <1>1, DropStep DEF CloseAll
<1>3. TypeOK'
  BY <1>1, <1>2 DEF CloseAll, TunnelInv, TypeOK
<1>4. Mutex' /\ Asked'
  BY FreeMutex, TunnelAssumption DEF CloseAll, TunnelInv, Mutex, Asked, Spawning
<1>5. QED
  BY <1>2, <1>3, <1>4 DEF TunnelInv

\* A tunnel moves to another key.
LEMMA AdoptStep ==
  ASSUME TunnelInv, NEW c \in Threads, EnsureAdopts(c)
  PROVE  TunnelInv'
<1> DEFINE k == KeyOf(c)
<1>1. PICK old \in Adoptable(c) :
        /\ Healthy(table[old])
        /\ table' = [table EXCEPT ![old] = NONE, ![k] = table[old]]
        /\ Gives(c, table[old])
  BY DEF EnsureAdopts
<1> DEFINE y == [call[c] EXCEPT !.port = proc[table[old]].port, !.tries = 0]
<1>2. /\ k \in Keys /\ table[k] = NONE /\ old \in Keys /\ table[old] \in Pool /\ old # k
      /\ proc[table[old]].host = call[c].host /\ holder = NONE /\ pc[c] = "ensure"
      /\ call[c] \in Calls /\ table[old] # NONE
  BY <1>1, KeyFacts, TypesOf DEF EnsureAdopts, EntersEnsure, Adoptable, Target
<1>3. \A j \in Keys : table'[j] = IF j = k THEN table[old] ELSE IF j = old THEN NONE ELSE table[j]
  BY <1>1, <1>2 DEF TunnelInv, TypeOK
<1>4. y \in Calls /\ y.device = call[c].device /\ y.host = call[c].host
  BY <1>2, TypesOf DEF Calls
<1>5. /\ \A o \in Threads \ {c} : pc'[o] = pc[o] /\ call'[o] = call[o]
      /\ pc'[c] = "ready" /\ call'[c] = y
      /\ call' \in [Threads -> Calls] /\ pc' = [pc EXCEPT ![c] = "ready"]
  BY <1>1, <1>4 DEF Gives, TunnelInv, TypeOK
<1>6. TypeOK'
  BY <1>1, <1>2, <1>5 DEF EnsureAdopts, TunnelInv, TypeOK
<1>7. Mutex'
  BY <1>2, <1>5, FreeMutex, TunnelAssumption DEF EnsureAdopts, Mutex, Spawning
<1>8. Asked'
  BY <1>2, <1>4, <1>5 DEF TunnelInv, Asked
<1>9. OneSpawn'
  BY <1>2, FreeMutex DEF EnsureAdopts, OneSpawn
<1>10. Rooted'
  <2>1. /\ k \in Devices => Serves[call[c].host] = k
        /\ k \in Hosts => call[c].host = k
    BY <1>2, KeyFacts, TunnelAssumption
  <2>2. proc' = proc
    BY DEF EnsureAdopts
  <2>3. ASSUME NEW j \in Keys, table'[j] # NONE
        PROVE  /\ proc[table'[j]].st \in {"up", "half", "exited"}
               /\ proc[table'[j]].host \in Hosts
               /\ j \in Devices => Serves[proc[table'[j]].host] = j
               /\ j \in Hosts => proc[table'[j]].host = j
    <3>1. CASE j = k
      BY <3>1, <1>2, <1>3, <2>1 DEF TunnelInv, Rooted
    <3>2. CASE j # k
      <4>1. table'[j] = table[j]
        BY <3>2, <2>3, <1>3
      <4>2. QED
        BY <4>1, <2>3 DEF TunnelInv, Rooted
    <3>3. QED
      BY <3>1, <3>2
  <2>4. QED
    BY <2>2, <2>3 DEF TunnelInv, Rooted
<1>11. Accounted'
  <2>1. \A t \in Pool : Listed(t)' <=> Listed(t)
    BY <1>2, <1>3, TunnelAssumption DEF Listed
  <2>2. \A i, j \in Keys : table'[i] = table'[j] /\ table'[i] # NONE => i = j
    BY <1>2, <1>3 DEF TunnelInv, Accounted
  <2>3. app' = app /\ proc' = proc /\ secrets' = secrets /\ app # "down"
    BY <1>2 DEF EnsureAdopts, TunnelInv, Accounted
  <2>4. QED
    BY <2>1, <2>2, <2>3 DEF TunnelInv, Accounted
<1>12. QED
  BY <1>6, <1>7, <1>8, <1>9, <1>10, <1>11 DEF TunnelInv

-----------------------------------------------------------------------------
(* The spawn, with the mutex held.                                          *)

LEMMA SpawnFacts ==
  ASSUME TunnelInv, NEW c \in Threads, Spawning(c)
  PROVE  /\ holder = c /\ \A o \in Threads \ {c} : ~Spawning(o)
         /\ app # "down" /\ KeyOf(c) \in Keys /\ call[c].host \in Hosts /\ table[KeyOf(c)] = NONE
         /\ pc[c] = "spawn" => \A t \in Pool : proc[t].st # "starting"
<1>1. holder = c /\ (\A o \in Threads \ {c} : ~Spawning(o)) /\ table[KeyOf(c)] = NONE
  BY DEF TunnelInv, Mutex
<1>2. app # "down" /\ KeyOf(c) \in Keys /\ call[c].host \in Hosts
  BY KeyFacts DEF Spawning, TunnelInv, Accounted
<1>3. pc[c] = "spawn" => \A t \in Pool : proc[t].st # "starting"
  BY <1>1 DEF TunnelInv, OneSpawn
<1>4. QED
  BY <1>1, <1>2, <1>3

LEMMA SpawnStartsStep ==
  ASSUME TunnelInv, NEW c \in Threads, SpawnStarts(c)
  PROVE  TunnelInv'
<1> DEFINE t == CHOOSE t \in Unused : TRUE
<1>1. Spawning(c) /\ pc[c] = "spawn"
  BY DEF SpawnStarts, Spawning
<1>2. t \in Pool /\ proc[t].st = "none"
  BY DEF SpawnStarts, Unused
<1>3. PICK p \in Picked :
        /\ proc' = [proc EXCEPT ![t] = [st |-> "starting", host |-> call[c].host,
                                        dev |-> NONE, port |-> p]]
        /\ secrets' = secrets \cup {t}
  BY DEF SpawnStarts
<1> HIDE DEF t
<1>4. p \in Ports
  BY TunnelAssumption DEF Picked
<1>5. /\ holder = c /\ \A o \in Threads \ {c} : ~Spawning(o)
      /\ app # "down" /\ KeyOf(c) \in Keys /\ call[c].host \in Hosts /\ table[KeyOf(c)] = NONE
      /\ \A u \in Pool : proc[u].st # "starting"
  BY <1>1, SpawnFacts
<1>6. /\ proc'[t] = [st |-> "starting", host |-> call[c].host, dev |-> NONE, port |-> p]
      /\ proc'[t].st = "starting" /\ proc'[t].host = call[c].host
      /\ \A u \in Pool \ {t} : proc'[u] = proc[u]
  BY <1>2, <1>3 DEF TunnelInv, TypeOK
<1>7. proc' \in [Pool -> ActiveTunnel]
  BY <1>3, <1>4, <1>5 DEF TunnelInv, TypeOK, ActiveTunnel, States
<1>8. TypeOK'
  BY <1>2, <1>3, <1>7 DEF SpawnStarts, TunnelInv, TypeOK
<1>9. /\ \A o \in Threads \ {c} : pc'[o] = pc[o]
      /\ call' = call
      /\ pc'[c] = "wait" /\ holder' = holder /\ table' = table /\ app' = app
  BY DEF SpawnStarts, TunnelInv, TypeOK
<1>10. Mutex' /\ Asked'
  BY <1>1, <1>5, <1>9 DEF TunnelInv, Mutex, Asked, Spawning, KeyOf
<1>11. OneSpawn'
  BY <1>5, <1>6, <1>9 DEF OneSpawn
<1>12. \A k \in Keys : table[k] # t
  BY <1>2, TunnelAssumption DEF TunnelInv, Rooted
<1>13. Rooted'
  <2>1. \A k \in Keys : table[k] # NONE => proc'[table[k]] = proc[table[k]]
    BY <1>6, <1>12, TypesOf
  <2>2. \A u \in Pool : proc'[u].st = "up" => proc'[u] = proc[u]
    BY <1>6
  <2>3. QED
    BY <1>9, <2>1, <2>2 DEF TunnelInv, Rooted
<1>14. Accounted'
  <2>1. \A u \in Pool : Listed(u)' <=> Listed(u)
    BY <1>9 DEF Listed
  <2>2. QED
    BY <2>1, <1>3, <1>5, <1>6, <1>9 DEF TunnelInv, Accounted
<1>15. QED
  BY <1>8, <1>10, <1>11, <1>13, <1>14 DEF TunnelInv

LEMMA SpawnSucceedsStep ==
  ASSUME TunnelInv, NEW c \in Threads, SpawnSucceeds(c)
  PROVE  TunnelInv'
<1> DEFINE k == KeyOf(c)
<1>1. Spawning(c) /\ pc[c] = "wait"
  BY DEF SpawnSucceeds, Spawning
<1>2. PICK t \in Starting :
        /\ proc' = [proc EXCEPT ![t].st = "up", ![t].dev = Serves[call[c].host]]
        /\ table' = [table EXCEPT ![k] = t]
        /\ Gives(c, t)
  BY DEF SpawnSucceeds
<1> DEFINE y == [call[c] EXCEPT !.port = proc[t].port, !.tries = 0]
<1>3. /\ holder = c /\ \A o \in Threads \ {c} : ~Spawning(o)
      /\ app # "down" /\ k \in Keys /\ call[c].host \in Hosts /\ table[k] = NONE
  BY <1>1, SpawnFacts
<1>4. t \in Pool /\ proc[t].st = "starting" /\ proc[t].host = call[c].host
      /\ \A u \in Pool : proc[u].st = "starting" => u = t
  BY <1>3 DEF Starting, TunnelInv, OneSpawn
<1>5. Serves[call[c].host] \in Devices /\ t # NONE
  BY <1>3, <1>4, TunnelAssumption
<1>6. /\ proc'[t].st = "up" /\ proc'[t].dev = Serves[call[c].host] /\ proc'[t].host = call[c].host
      /\ \A u \in Pool \ {t} : proc'[u] = proc[u]
      /\ proc' \in [Pool -> ActiveTunnel]
  <2> DEFINE e == [proc[t] EXCEPT !.st = "up", !.dev = Serves[call[c].host]]
  <2>1. e \in ActiveTunnel /\ e.st = "up" /\ e.dev = Serves[call[c].host] /\ e.host = proc[t].host
    BY <1>4, <1>5, TypesOf DEF ActiveTunnel, States
  <2>2. proc' = [proc EXCEPT ![t] = e]
    BY <1>2, <1>4 DEF TunnelInv, TypeOK
  <2>3. QED
    BY <1>4, <2>1, <2>2 DEF TunnelInv, TypeOK
<1>7. y \in Calls /\ y.device = call[c].device /\ y.host = call[c].host
  BY <1>4, TypesOf DEF Calls
<1>8. /\ \A o \in Threads \ {c} : pc'[o] = pc[o] /\ call'[o] = call[o]
      /\ pc'[c] = "ready" /\ call'[c] = y /\ call' \in [Threads -> Calls]
      /\ pc' = [pc EXCEPT ![c] = "ready"]
      /\ holder' = NONE /\ secrets' = secrets /\ app' = app
  BY <1>2, <1>7 DEF SpawnSucceeds, Gives, TunnelInv, TypeOK
<1>9. \A j \in Keys : table'[j] = IF j = k THEN t ELSE table[j]
  BY <1>2, <1>3 DEF TunnelInv, TypeOK
<1>10. TypeOK'
  BY <1>2, <1>4, <1>6, <1>8 DEF SpawnSucceeds, TunnelInv, TypeOK
<1>11. Mutex'
  BY <1>3, <1>8, TunnelAssumption DEF Mutex, Spawning
<1>12. Asked'
  BY <1>1, <1>7, <1>8 DEF TunnelInv, Asked
<1>13. OneSpawn'
  BY <1>4, <1>6 DEF OneSpawn
<1>14. \A j \in Keys : table[j] # t
  BY <1>4, <1>5 DEF TunnelInv, Rooted
<1>15. Rooted'
  <2>1. /\ k \in Devices => Serves[call[c].host] = k
        /\ k \in Hosts => call[c].host = k
    BY <1>1, KeyFacts, TunnelAssumption
  <2>2. \A j \in Keys : table'[j] # NONE =>
          j = k \/ (table'[j] = table[j] /\ proc'[table[j]] = proc[table[j]])
    BY <1>6, <1>9, <1>14, TypesOf
  <2>3. QED
    BY <1>3, <1>6, <1>9, <2>1, <2>2 DEF TunnelInv, Rooted
<1>16. Accounted'
  <2>1. \A u \in Pool : Listed(u)' <=> Listed(u) \/ u = t
    BY <1>3, <1>9, TunnelAssumption DEF Listed
  <2>2. \A i, j \in Keys : table'[i] = table'[j] /\ table'[i] # NONE => i = j
    BY <1>9, <1>14 DEF TunnelInv, Accounted
  <2>3. \A u \in Pool : /\ u \in secrets' <=> Listed(u)' \/ proc'[u].st = "starting"
                        /\ proc'[u].st # "none" <=> Listed(u)' \/ proc'[u].st = "starting"
    BY <2>1, <1>3, <1>4, <1>6, <1>8 DEF TunnelInv, Accounted
  <2>4. QED
    BY <2>2, <2>3, <1>3, <1>8 DEF Accounted
<1>17. QED
  BY <1>10, <1>11, <1>12, <1>13, <1>15, <1>16 DEF TunnelInv

\* A spawn goes wrong: its child is gone, and the mutex freed or kept for a retry.
LEMMA SpawnEnds ==
  ASSUME TunnelInv, NEW c \in Threads, SpawnFails(c) \/ SpawnRefused(c) \/ SpawnUnreachable(c)
  PROVE  TunnelInv'
<1>1. Spawning(c) /\ UNCHANGED <<up, app, table>>
  BY DEF SpawnFails, SpawnRefused, SpawnUnreachable, Spawning
<1>2. /\ holder = c /\ \A o \in Threads \ {c} : ~Spawning(o)
      /\ app # "down" /\ KeyOf(c) \in Keys /\ call[c].host \in Hosts /\ table[KeyOf(c)] = NONE
      /\ pc[c] = "spawn" => \A t \in Pool : proc[t].st # "starting"
  BY <1>1, SpawnFacts
<1>3. /\ proc' = [t \in Pool |-> IF proc[t].st = "starting" THEN NoChild ELSE proc[t]]
      /\ secrets' = secrets \ Starting
  <2>1. CASE SpawnFails(c)
    BY <2>1, <1>2 DEF SpawnFails, Starting, TunnelInv, TypeOK
  <2>2. CASE Dropped(Starting)
    BY <2>2 DEF Dropped, Starting
  <2>3. QED
    BY <2>1, <2>2 DEF SpawnRefused, SpawnUnreachable
<1>4. \A t \in Pool : /\ proc'[t].st # "starting"
                      /\ proc[t].st = "starting" => proc'[t].st = "none"
                      /\ proc[t].st # "starting" => proc'[t] = proc[t]
                      /\ proc'[t] \in ActiveTunnel
  BY <1>3, TypesOf DEF NoChild, ActiveTunnel, States
<1>5. PICK x \in {"idle", "spawn"}, y \in Calls :
        /\ pc' = [pc EXCEPT ![c] = x] /\ call' = [call EXCEPT ![c] = y]
        /\ x = "idle" => holder' = NONE
        /\ x = "spawn" => /\ holder' = c /\ y.device = call[c].device
                          /\ y.host = call[c].host
  <2>1. CASE ReturnsError(c)
    BY <2>1, NoCallIsCall DEF ReturnsError
  <2>2. CASE /\ pc' = [pc EXCEPT ![c] = "spawn"]
             /\ call' = [call EXCEPT ![c].tries = @ + 1]
             /\ UNCHANGED holder
    <3> DEFINE y == [call[c] EXCEPT !.tries = @ + 1]
    <3>1. y \in Calls /\ y.device = call[c].device /\ y.host = call[c].host
      BY TypesOf DEF Calls
    <3>2. call' = [call EXCEPT ![c] = y]
      BY <2>2 DEF TunnelInv, TypeOK
    <3>3. QED
      BY <2>2, <3>1, <3>2, <1>2
  <2>3. QED
    BY <2>1, <2>2 DEF SpawnFails, SpawnRefused, SpawnUnreachable
<1>6. /\ \A o \in Threads \ {c} : pc'[o] = pc[o] /\ call'[o] = call[o]
      /\ pc'[c] = x /\ call'[c] = y
  BY <1>5 DEF TunnelInv, TypeOK
<1>7. TypeOK'
  BY <1>1, <1>3, <1>4, <1>5 DEF TunnelInv, TypeOK
<1>8. Mutex'
  BY <1>1, <1>2, <1>5, <1>6, TunnelAssumption DEF Mutex, Spawning, KeyOf
<1>9. Asked'
  BY <1>1, <1>5, <1>6 DEF TunnelInv, Asked, Spawning
<1>10. OneSpawn'
  BY <1>4 DEF OneSpawn
<1>11. Rooted'
  <2>1. \A k \in Keys : table[k] # NONE => proc'[table[k]] = proc[table[k]]
    BY <1>4, TypesOf DEF TunnelInv, Rooted
  <2>2. \A t \in Pool : proc'[t].st = "up" => proc'[t] = proc[t]
    BY <1>4
  <2>3. QED
    BY <1>1, <2>1, <2>2 DEF TunnelInv, Rooted
<1>12. Accounted'
  <2>1. \A t \in Pool : Listed(t)' <=> Listed(t)
    BY <1>1 DEF Listed
  <2>2. \A t \in Pool : proc[t].st = "starting" => ~Listed(t)
    BY TunnelAssumption DEF Listed, TunnelInv, Rooted
  <2>3. QED
    BY <2>1, <2>2, <1>1, <1>2, <1>3, <1>4 DEF TunnelInv, Accounted, Starting
<1>13. QED
  BY <1>7, <1>8, <1>9, <1>10, <1>11, <1>12 DEF TunnelInv

-----------------------------------------------------------------------------
(* The process ends and starts.                                             *)

LEMMA EndsStep ==
  ASSUME TunnelInv, Ends
  PROVE  TunnelInv'
<1>1. \A t \in Pool : /\ proc'[t] \in ActiveTunnel
                      /\ proc'[t].st \in {"none", "orphan"}
  BY DEF Ends, NoChild, ActiveTunnel, States
<1>2. TypeOK'
  BY <1>1, NoCallIsCall DEF Ends, TunnelInv, TypeOK
<1>3. Mutex' /\ Asked'
  BY TunnelAssumption DEF Ends, Mutex, Asked, Spawning
<1>4. OneSpawn' /\ Rooted' /\ Accounted'
  BY <1>1 DEF Ends, OneSpawn, Rooted, Accounted
<1>5. QED
  BY <1>2, <1>3, <1>4 DEF TunnelInv

LEMMA StartStep ==
  ASSUME TunnelInv, Start
  PROVE  TunnelInv'
<1>1. /\ \A t \in Pool : proc'[t] \in ActiveTunnel /\ proc'[t].st = "none"
      /\ secrets' = {} /\ proc' \in [Pool -> ActiveTunnel]
  <2>1. \A t \in Pool : proc[t].st \in {"none", "orphan"} /\ proc[t] \in ActiveTunnel
    BY TypesOf DEF Start, TunnelInv, Accounted
  <2>2. NoChild \in ActiveTunnel /\ NoChild.st = "none"
    BY DEF NoChild, ActiveTunnel, States
  <2>3. secrets' = {}
    BY TypesOf DEF Start, Cleaned
  <2>4. QED
    BY <2>1, <2>2, <2>3 DEF Start, Swept
<1>2. /\ \A k \in Keys : table[k] = NONE /\ \A c \in Threads : pc[c] = "idle"
      /\ UNCHANGED <<up, table, holder, pc, call>> /\ app' = "running"
  BY DEF Start, TunnelInv, Accounted
<1>3. TypeOK'
  BY <1>1, <1>2 DEF TunnelInv, TypeOK
<1>4. Mutex' /\ Asked'
  BY <1>2 DEF TunnelInv, Mutex, Asked, Spawning, KeyOf
<1>5. OneSpawn' /\ Rooted'
  BY <1>1, <1>2 DEF OneSpawn, Rooted
<1>6. Accounted'
  BY <1>1, <1>2, TunnelAssumption DEF Accounted, Listed
<1>7. QED
  BY <1>3, <1>4, <1>5, <1>6 DEF TunnelInv

LEMMA InitHolds == Init => TunnelInv
<1> SUFFICES ASSUME Init PROVE TunnelInv
  OBVIOUS
<1>1. NoChild \in ActiveTunnel /\ NoChild.st = "none"
  BY DEF NoChild, ActiveTunnel, States
<1>2. TypeOK
  BY <1>1, NoCallIsCall DEF Init, TypeOK
<1>3. Mutex /\ Asked
  BY TunnelAssumption DEF Init, Mutex, Asked, Spawning
<1>4. OneSpawn /\ Rooted
  BY <1>1 DEF Init, OneSpawn, Rooted
<1>5. Accounted
  BY <1>1, TunnelAssumption DEF Init, Accounted, Listed
<1>6. QED
  BY <1>2, <1>3, <1>4, <1>5 DEF TunnelInv

LEMMA NextKeeps == TunnelInv /\ [Next]_vars => TunnelInv'
<1> SUFFICES ASSUME TunnelInv, [Next]_vars PROVE TunnelInv'
  OBVIOUS
<1>1. CASE UNCHANGED vars
  BY <1>1 DEF vars, TunnelInv, TypeOK, Mutex, Asked, OneSpawn, Rooted, Accounted, Spawning,
     KeyOf, Listed
<1>2. ASSUME NEW c \in Threads, Step(c) PROVE TunnelInv'
  BY <1>2, CallStep, EnsureSpawns, AdoptStep, SpawnStartsStep, SpawnSucceedsStep, SpawnEnds,
     InvalidateStep DEF Step, Enters, SpawnSteps
<1>3. ASSUME NEW c \in Threads, NEW r \in Routes, Ask(c, r[1], r[2]) PROVE TunnelInv'
  BY <1>3, CallStep
<1>4. ASSUME Exits \/ Crash PROVE TunnelInv'
  BY <1>4, EndsStep DEF Exits, Crash
<1>5. QED
  BY <1>1, <1>2, <1>3, <1>4, NetworkStep, CloseAllStep, StartStep DEF Next

-----------------------------------------------------------------------------
(* The theorems.                                                            *)

\* The invariant of every behaviour.
THEOREM TunnelInvariance == Spec => []TunnelInv
BY InitHolds, NextKeeps, PTL DEF Spec

\* Tunnels, children, secrets and calls keep their types.
THEOREM TunnelTypeCorrect == Spec => []TypeOK
<1>1. TunnelInv => TypeOK
  BY DEF TunnelInv
<1>2. QED
  BY <1>1, TunnelInvariance, PTL

\* No child and no secret directory outside the table while the application
\* runs, and no child under two keys: close_all reaches every ssh there is.
THEOREM TunnelsAccountedFor == Spec => []NoStrayTunnel
<1>1. TunnelInv => NoStrayTunnel
  <2> SUFFICES ASSUME TunnelInv PROVE NoStrayTunnel
    OBVIOUS
  <2>1. \A t \in Pool : proc[t].st = "starting" => holder # NONE
    BY FreeMutex
  <2>2. \A t \in Pool : t \in Tracked <=> Listed(t) \/ proc[t].st = "starting"
    BY <2>1, TunnelAssumption DEF Tracked, Starting, Listed
  <2>3. Tracked \subseteq Pool /\ secrets \subseteq Pool
    BY TypesOf DEF Tracked, Starting
  <2>4. app # "down" => /\ \A t \in Pool : t \in secrets <=> t \in Tracked
                        /\ \A t \in Pool : proc[t].st # "none" <=> t \in Tracked
    BY <2>2 DEF TunnelInv, Accounted
  <2>5. app # "down" => secrets = Tracked
    BY <2>3, <2>4
  <2>6. \A j, k \in Keys : table[j] = table[k] /\ table[j] # NONE => j = k
    BY DEF TunnelInv, Accounted
  <2>7. QED
    BY <2>4, <2>5, <2>6 DEF NoStrayTunnel
<1>2. QED
  BY <1>1, TunnelInvariance, PTL

\* What is open under a device's key ends at that device, whichever address
\* it was opened or adopted by.
THEOREM TunnelEndsAtItsDevice == Spec => []OwnDevice
<1>1. TunnelInv => OwnDevice
  <2> SUFFICES ASSUME TunnelInv, NEW d \in Devices, table[d] # NONE, Healthy(table[d])
               PROVE  proc[table[d]].dev = d
    BY DEF OwnDevice
  <2>1. d \in Keys /\ table[d] \in Pool
    BY TypesOf DEF Keys
  <2>2. proc[table[d]].dev = Serves[proc[table[d]].host] /\ Serves[proc[table[d]].host] = d
    BY <2>1 DEF Healthy, TunnelInv, Rooted
  <2>3. QED
    BY <2>2
<1>2. QED
  BY <1>1, TunnelInvariance, PTL

\* One command's step closes no live tunnel of another device.
LEMMA StepSpares ==
  ASSUME TunnelInv, NEW c \in Threads, Step(c), NEW t \in Pool,
         proc[t].st = "up", proc'[t].st # "up"
  PROVE  proc[t].dev = Serves[call[c].host]
<1>1. CASE Invalidate(c)
  <2> DEFINE k == KeyOf(c)
  <2>1. k \in Keys /\ call[c].host \in Hosts
        /\ (k \in Devices \/ k = call[c].host)
        /\ (call[c].device # NONE => Serves[call[c].host] = k)
    BY <1>1, KeyFacts DEF Invalidate
  <2>2. t \in {table[k]} \ {NONE}
    BY <1>1 DEF Invalidate, Dropped
  <2>3. proc[t].dev = Serves[proc[t].host] /\ table[k] = t /\ table[k] # NONE
    BY <2>2 DEF TunnelInv, Rooted
  <2>4. /\ k \in Devices => Serves[proc[t].host] = k
        /\ k \in Hosts => proc[t].host = k
    BY <2>1, <2>3 DEF TunnelInv, Rooted
  <2>5. CASE call[c].device = NONE
    BY <2>1, <2>3, <2>4, <2>5, <1>1, KeyFacts DEF Invalidate
  <2>6. CASE call[c].device # NONE
    BY <2>1, <2>3, <2>4, <2>6, <1>1, KeyFacts DEF Invalidate
  <2>7. QED
    BY <2>5, <2>6
<1>2. CASE EnsureDropsStale(c)
  BY <1>2 DEF EnsureDropsStale, Dropped, Healthy
<1>3. CASE EnsureDropsAdopted(c)
  BY <1>3 DEF EnsureDropsAdopted, Dropped, Healthy
<1>4. CASE SpawnStarts(c)
  <2> DEFINE u == CHOOSE u \in Unused : TRUE
  <2>1. u \in Unused
    BY <1>4 DEF SpawnStarts
  <2>2. u # t
    BY <2>1 DEF Unused
  <2>3. proc'[t] = proc[t]
    BY <1>4, <2>1, <2>2 DEF SpawnStarts, TunnelInv, TypeOK
  <2>4. QED
    BY <2>3
<1>5. CASE SpawnSucceeds(c)
  <2>1. PICK u \in Starting :
          proc' = [proc EXCEPT ![u].st = "up", ![u].dev = Serves[call[c].host]]
    BY <1>5 DEF SpawnSucceeds
  <2>2. u # t
    BY <2>1 DEF Starting
  <2>3. proc'[t] = proc[t]
    BY <2>1, <2>2 DEF TunnelInv, TypeOK
  <2>4. QED
    BY <2>3
<1>6. CASE SpawnRefused(c) \/ SpawnUnreachable(c)
  <2>1. proc'[t] = proc[t]
    BY <1>6 DEF SpawnRefused, SpawnUnreachable, Dropped, Starting
  <2>2. QED
    BY <2>1
<1>7. CASE EnsureReuses(c) \/ EnsureAdopts(c) \/ EnsureFresh(c) \/ SpawnFails(c) \/ Dials(c)
  BY <1>7 DEF EnsureReuses, EnsureAdopts, EnsureFresh, SpawnFails, Dials, DialReaches, DialFails
<1>8. QED
  BY <1>1, <1>2, <1>3, <1>4, <1>5, <1>6, <1>7 DEF Step, Enters, SpawnSteps

\* A step of one command leaves the others where they were.
LEMMA OneMoves ==
  ASSUME TunnelInv, NEW c \in Threads, Step(c), NEW o \in Threads, pc'[o] # pc[o]
  PROVE  o = c
BY DEF Step, Enters, SpawnSteps, Dials, EnsureReuses, EnsureDropsStale, EnsureAdopts,
   EnsureDropsAdopted, EnsureFresh, SpawnStarts, SpawnFails, SpawnSucceeds, SpawnRefused,
   SpawnUnreachable, DialReaches, DialFails, Invalidate, Gives, Spawns, ReturnsError,
   TunnelInv, TypeOK

\* No step of a command ends a live tunnel of a device it did not ask for,
\* although invalidate and ensure compare keys and addresses only.
THEOREM OthersKeepTheirTunnels == Spec => OthersUntouched
<1> DEFINE Spared == \A c \in Threads, t \in Pool :
             pc'[c] # pc[c] /\ app' = app /\ proc[t].st = "up" /\ proc'[t].st # "up"
               => proc[t].dev = Serves[call[c].host]
<1>1. ASSUME TunnelInv, [Next]_vars PROVE [Spared]_vars
  <2> SUFFICES ASSUME Next, NEW c \in Threads, NEW t \in Pool,
                      pc'[c] # pc[c], app' = app, proc[t].st = "up", proc'[t].st # "up"
               PROVE  proc[t].dev = Serves[call[c].host]
    BY <1>1
  <2>1. ASSUME NEW o \in Threads, Step(o) PROVE proc[t].dev = Serves[call[c].host]
    <3>1. o = c
      BY <1>1, <2>1, OneMoves
    <3>2. QED
      BY <1>1, <2>1, <3>1, StepSpares
  <2>2. ~\E o \in Threads, r \in Routes : Ask(o, r[1], r[2])
    BY DEF Ask
  <2>3. ~\E d \in Devices : Reboot(d) \/ Return(d)
    BY DEF Reboot, Return
  <2>4. ~\E u \in Pool : GivesUp(u)
    BY DEF GivesUp
  <2>5. ~(Quit \/ CloseAll \/ Exits \/ Crash \/ Start)
    BY DEF Quit, CloseAll, Exits, Crash, Ends, Start
  <2>6. QED
    BY <2>1, <2>2, <2>3, <2>4, <2>5 DEF Next
<1>2. Spec => [][Spared]_vars
  BY <1>1, TunnelInvariance, PTL DEF Spec
<1>3. QED
  BY <1>2 DEF OthersUntouched
=============================================================================
