-------------------------- MODULE RdpSessionsProofs --------------------------
(***************************************************************************)
(* Proofs about RdpSessions, for every number of devices, sessions and     *)
(* command threads.                                                        *)
(***************************************************************************)
EXTENDS RdpSessionsInv, TLAPS

-----------------------------------------------------------------------------
(* A FIFO queue seen as the set of its elements: what Append, \o and Tail   *)
(* do to Range.                                                             *)

\* Queueing one block adds exactly that block to the set of queued blocks.
LEMMA RangeAppend ==
  ASSUME NEW S, NEW q \in Seq(S), NEW b \in S
  PROVE  Append(q, b) \in Seq(S) /\ Range(Append(q, b)) = Range(q) \cup {b}
<1>1. DOMAIN Append(q, b) = 1 .. Len(q) + 1
  OBVIOUS
<1>2. \A i \in 1 .. Len(q) : Append(q, b)[i] = q[i]
  OBVIOUS
<1>3. Append(q, b)[Len(q) + 1] = b
  OBVIOUS
<1>4. QED
  BY <1>1, <1>2, <1>3 DEF Range

\* Queueing a batch adds exactly the blocks of the batch.
LEMMA RangeConcat ==
  ASSUME NEW S, NEW q \in Seq(S), NEW r \in Seq(S)
  PROVE  q \o r \in Seq(S) /\ Range(q \o r) = Range(q) \cup Range(r)
<1>1. DOMAIN (q \o r) = 1 .. Len(q) + Len(r)
  OBVIOUS
<1>2. \A i \in 1 .. Len(q) : (q \o r)[i] = q[i]
  OBVIOUS
<1>3. \A i \in 1 .. Len(r) : (q \o r)[Len(q) + i] = r[i]
  OBVIOUS
<1>4. Range(q \o r) \subseteq Range(q) \cup Range(r)
  <2>1. SUFFICES ASSUME NEW i \in 1 .. Len(q) + Len(r)
                 PROVE  (q \o r)[i] \in Range(q) \cup Range(r)
    BY <1>1 DEF Range
  <2>2. CASE i <= Len(q)
    BY <1>2, <2>2 DEF Range
  <2>3. CASE i > Len(q)
    <3>1. i - Len(q) \in 1 .. Len(r) /\ i = Len(q) + (i - Len(q))
      BY <2>3
    <3>2. QED
      BY <1>3, <3>1 DEF Range
  <2>4. QED
    BY <2>2, <2>3
<1>5. Range(q) \subseteq Range(q \o r)
  BY <1>1, <1>2 DEF Range
<1>6. Range(r) \subseteq Range(q \o r)
  <2>1. SUFFICES ASSUME NEW i \in 1 .. Len(r)
                 PROVE  r[i] \in Range(q \o r)
    BY DEF Range
  <2>2. Len(q) + i \in DOMAIN (q \o r) /\ (q \o r)[Len(q) + i] = r[i]
    BY <1>1, <1>3
  <2>3. QED
    BY <2>2 DEF Range
<1>7. QED
  BY <1>4, <1>5, <1>6

\* Running the oldest block removes at most that block.
LEMMA RangeTail ==
  ASSUME NEW S, NEW q \in Seq(S), q # <<>>
  PROVE  /\ Tail(q) \in Seq(S)
         /\ Head(q) \in S
         /\ Range(q) = {Head(q)} \cup Range(Tail(q))
<1>1. DOMAIN Tail(q) = 1 .. Len(q) - 1 /\ Len(q) \in Nat \ {0}
  OBVIOUS
<1>2. \A i \in 1 .. Len(q) - 1 : Tail(q)[i] = q[i + 1]
  OBVIOUS
<1>3. Range(Tail(q)) \subseteq Range(q)
  BY <1>1, <1>2 DEF Range
<1>4. Range(q) \subseteq {Head(q)} \cup Range(Tail(q))
  <2>1. SUFFICES ASSUME NEW i \in 1 .. Len(q)
                 PROVE  q[i] \in {Head(q)} \cup Range(Tail(q))
    BY DEF Range
  <2>2. CASE i = 1
    BY <2>2
  <2>3. CASE i # 1
    <3>1. i - 1 \in 1 .. Len(q) - 1 /\ i = (i - 1) + 1
      BY <2>3
    <3>2. QED
      BY <1>1, <1>2, <3>1 DEF Range
  <2>4. QED
    BY <2>2, <2>3
<1>5. Head(q) \in Range(q) /\ Head(q) \in S /\ Tail(q) \in Seq(S)
  BY <1>1 DEF Range
<1>6. QED
  BY <1>3, <1>4, <1>5

\* The same for three sequences in a row.
LEMMA RangeConcat3 ==
  ASSUME NEW S, NEW p \in Seq(S), NEW q \in Seq(S), NEW r \in Seq(S)
  PROVE  /\ p \o q \o r \in Seq(S)
         /\ Range(p \o q \o r) = Range(p) \cup Range(q) \cup Range(r)
<1> DEFINE pq == p \o q
<1>1. pq \in Seq(S) /\ Range(pq) = Range(p) \cup Range(q)
  BY RangeConcat
<1> HIDE DEF pq
<1>2. pq \o r \in Seq(S) /\ Range(pq \o r) = Range(pq) \cup Range(r)
  BY <1>1, RangeConcat
<1>3. QED
  BY <1>1, <1>2 DEF pq

-----------------------------------------------------------------------------
(* What the batches a command queues contain.                               *)

\* QueueDetach adds at most the detach block of its thread.
LEMMA QueueDetachEffect ==
  ASSUME TypeOK, NEW t \in Threads, NEW s \in Sess \cup {NONE}, QueueDetach(t, s)
  PROVE  /\ mainq' \in Seq(Block)
         /\ Range(mainq) \subseteq Range(mainq')
         /\ \A b \in Range(mainq') : b \in Range(mainq) \/ b = Sync("detach", s, t)
         /\ s # NONE /\ input_attached[s] => Sync("detach", s, t) \in Range(mainq')
<1>1. Sync("detach", s, t) \in Block
  BY DEF Sync, Block, BlockOps
<1>2. mainq \in Seq(Block)
  BY DEF TypeOK
<1>3. QED
  BY <1>1, <1>2, RangeAppend DEF QueueDetach

\* Yielding the screen queues only asynchronous stop and unmount blocks.
LEMMA YieldBlocksEffect ==
  ASSUME NEW s \in Sess \cup {NONE}
  PROVE  /\ YieldBlocks(s) \in Seq(Block)
         /\ \A b \in Range(YieldBlocks(s)) : b.op # "attach" /\ b.from = NONE
<1>1. Async("clipStop", NONE) \in Block /\ Async("unmount", s) \in Block
  BY DEF Async, Block, BlockOps
<1>2. /\ Async("clipStop", NONE).op # "attach" /\ Async("unmount", s).op # "attach"
      /\ Async("clipStop", NONE).from = NONE /\ Async("unmount", s).from = NONE
  BY DEF Async
<1> DEFINE stop == Async("clipStop", NONE)
           unm == Async("unmount", s)
<1>3. /\ <<>> \in Seq(Block) /\ Range(<<>>) = {}
      /\ <<unm>> \in Seq(Block) /\ Range(<<unm>>) = {unm}
      /\ <<stop, unm>> \in Seq(Block) /\ Range(<<stop, unm>>) = {stop, unm}
  <2> HIDE DEF stop, unm
  <2>1. stop \in Block /\ unm \in Block
    BY <1>1 DEF stop, unm
  <2>2. <<>> \in Seq(Block) /\ Range(<<>>) = {}
    BY DEF Range
  <2>3. <<unm>> \in Seq(Block) /\ Range(<<unm>>) = {unm}
    BY <2>1 DEF Range
  <2>4. <<stop, unm>> \in Seq(Block) /\ Range(<<stop, unm>>) = {stop, unm}
    BY <2>1 DEF Range
  <2>5. QED
    BY <2>2, <2>3, <2>4
<1>4. YieldBlocks(s) = <<>> \/ YieldBlocks(s) = <<unm>> \/ YieldBlocks(s) = <<stop, unm>>
  BY DEF YieldBlocks
<1>5. stop.op # "attach" /\ stop.from = NONE /\ unm.op # "attach" /\ unm.from = NONE
  BY <1>2
<1> HIDE DEF stop, unm
<1>6. CASE YieldBlocks(s) = <<>>
  BY <1>3, <1>6
<1>7. CASE YieldBlocks(s) = <<unm>>
  BY <1>3, <1>5, <1>7
<1>8. CASE YieldBlocks(s) = <<stop, unm>>
  BY <1>3, <1>5, <1>8
<1>9. QED
  BY <1>4, <1>6, <1>7, <1>8

\* Claiming the screen queues one attach block, of the claiming thread.
LEMMA ClaimBlocksEffect ==
  ASSUME NEW s \in Sess \cup {NONE}, NEW t \in Threads
  PROVE  /\ ClaimBlocks(s, t) \in Seq(Block)
         /\ \A b \in Range(ClaimBlocks(s, t)) :
              b.op = "attach" => b.from = t /\ b.s = s
<1>1. Async("mount", s) \in Block /\ Sync("attach", s, t) \in Block
  BY DEF Async, Sync, Block, BlockOps
<1>2. /\ Async("mount", s).op # "attach"
      /\ Sync("attach", s, t).from = t /\ Sync("attach", s, t).s = s
  BY DEF Async, Sync
<1> DEFINE mnt == Async("mount", s)
           att == Sync("attach", s, t)
<1>3. <<mnt, att>> \in Seq(Block) /\ Range(<<mnt, att>>) = {mnt, att}
  <2> HIDE DEF mnt, att
  <2>1. mnt \in Block /\ att \in Block
    BY <1>1 DEF mnt, att
  <2>2. QED
    BY <2>1 DEF Range
<1>4. mnt.op # "attach" /\ att.from = t /\ att.s = s /\ ClaimBlocks(s, t) = <<mnt, att>>
  BY <1>2 DEF ClaimBlocks
<1> HIDE DEF mnt, att
<1>5. QED
  BY <1>3, <1>4

-----------------------------------------------------------------------------
(* The two facts every step of a thread shares.                             *)

\* A step of t that holds or takes the lock, or leaves the table alone, changes
\* neither the victim nor the target of another thread.
LEMMA OtherThreads ==
  ASSUME LockInv, NEW t \in Threads,
         \A u \in Threads : u # t =>
           pc'[u] = pc[u] /\ key'[u] = key[u] /\ hand'[u] = hand[u],
         lock \in {NONE, t} \/ UNCHANGED <<sessions, focused>>
  PROVE  \A u \in Threads : u # t => Target(u)' = Target(u) /\ Victim(u)' = Victim(u)
<1>1. CASE UNCHANGED <<sessions, focused>>
  BY <1>1 DEF Target, Victim, OnScreen, OtherOnScreen
<1>2. CASE lock \in {NONE, t}
  <2>1. \A u \in Threads : u # t => pc[u] \notin Locked
    BY <1>2, RdpSessionsAssumption DEF LockInv
  <2>2. QED
    BY <2>1 DEF Target, Victim, Locked
<1>3. QED
  BY <1>1, <1>2

\* What a step of t has to keep for InputInv, once the other threads' victims
\* and targets are known to stay.
LEMMA InputFrame ==
  ASSUME InputInv, NEW t \in Threads,
         native_input' = native_input,
         Range(mainq) \subseteq Range(mainq'),
         \A b \in Range(mainq') : b.op = "attach" =>
           b \in Range(mainq) \/ (b.from = t /\ b.s = Target(t)' /\ b.s # NONE),
         Target(t)' = Target(t) \/ Returned(t),
         \A u \in Threads : u # t => Target(u)' = Target(u) /\ Victim(u)' = Victim(u),
         \A u \in Threads : u # t => pc'[u] = pc[u] /\ hand'[u] = hand[u],
         \A s \in native_input : input_attached[s] \/ s = Target(t) =>
           input_attached'[s] \/ s = Target(t)',
         Victim(t)' # NONE =>
           Victim(t)' \notin native_input \/ Sync("detach", Victim(t)', t) \in Range(mainq'),
         pc'[t] = "shutdown.join" => hand'[t] \notin native_input
  PROVE  InputInv'
<1>1. \A s \in native_input' :
        s # NONE /\ (input_attached'[s] \/ \E u \in Threads : Target(u)' = s)
  BY DEF InputInv
<1>2. \A b \in Range(mainq') : b.op = "attach" =>
        b.from \in Threads /\ Target(b.from)' = b.s /\ b.s # NONE
  BY DEF InputInv, Returned
<1>3. \A u \in Threads : Victim(u)' # NONE =>
        Victim(u)' \notin native_input' \/ Sync("detach", Victim(u)', u) \in Range(mainq')
  BY DEF InputInv
<1>4. \A u \in Threads : pc'[u] = "shutdown.join" => hand'[u] \notin native_input'
  BY DEF InputInv
<1>5. QED
  BY <1>1, <1>2, <1>3, <1>4 DEF InputInv

-----------------------------------------------------------------------------
(* One lemma per action: it preserves the inductive invariant.              *)

LEMMA FocusStep ==
  ASSUME IInv, NEW t \in Threads, NEW k \in Keys, Focus(t, k)
  PROVE  IInv'
<1> USE DEF IInv
<1>o. OnScreen \in Sess \cup {NONE}
  BY DEF TypeOK, OnScreen
<1>q. /\ mainq' \in Seq(Block)
      /\ Range(mainq) \subseteq Range(mainq')
      /\ \A b \in Range(mainq') : b \in Range(mainq) \/ b = Sync("detach", OnScreen, t)
      /\ OnScreen # NONE /\ input_attached[OnScreen] =>
           Sync("detach", OnScreen, t) \in Range(mainq')
  BY <1>o, QueueDetachEffect DEF Focus
<1>a. \A u \in Threads : u # t => pc'[u] = pc[u] /\ key'[u] = key[u] /\ hand'[u] = hand[u]
  BY DEF Focus, Start, TypeOK
<1>b. \A u \in Threads : u # t => Target(u)' = Target(u) /\ Victim(u)' = Victim(u)
  BY <1>a, OtherThreads DEF Focus, Start
<1>c. Target(t) = NONE /\ Target(t)' = NONE /\ Victim(t)' = OnScreen
  BY DEF Focus, Start, TypeOK, Target, Victim, OnScreen
<1>d. \A u \in Threads : Target(u) = NONE
  BY RdpSessionsAssumption DEF Focus, Start, LockInv, Target, Locked
<1>1. TypeOK'
  BY <1>q, RdpSessionsAssumption DEF TypeOK, Focus, Start, PCs, Locked, Ops, flags, native
<1>2. FocusNamesASession'
  BY DEF FocusNamesASession, Focus
<1>3. LockInv'
  BY RdpSessionsAssumption DEF LockInv, Focus, Start, TypeOK, Locked
<1>4. ThreadInv'
  BY DEF ThreadInv, Focus, Start, TypeOK
<1>5. OwnerInv'
  BY DEF OwnerInv, Focus
<1>6. LifeInv'
  BY DEF LifeInv, Focus, HoldsResources, flags, native
<1>7. ResourceInv'
  BY DEF ResourceInv, Focus, Start, HoldsResources, flags, TypeOK
<1>8. InputInv'
  <2>1. \A s \in native_input : input_attached[s]
    BY <1>d, RdpSessionsAssumption DEF InputInv, TypeOK
  <2>2. Victim(t)' # NONE =>
          Victim(t)' \notin native_input \/ Sync("detach", Victim(t)', t) \in Range(mainq')
    BY <1>q, <1>c, <2>1
  <2>3. QED
    BY <1>q, <1>a, <1>b, <1>c, <2>2, InputFrame
       DEF Focus, Start, TypeOK, flags, native, Sync
<1>9. QED
  BY <1>1, <1>2, <1>3, <1>4, <1>5, <1>6, <1>7, <1>8

LEMMA HideAllStep ==
  ASSUME IInv, NEW t \in Threads, HideAll(t)
  PROVE  IInv'
<1> USE DEF IInv
<1>o. OnScreen \in Sess \cup {NONE}
  BY DEF TypeOK, OnScreen, OtherOnScreen
<1>q. /\ mainq' \in Seq(Block)
      /\ Range(mainq) \subseteq Range(mainq')
      /\ \A b \in Range(mainq') : b \in Range(mainq) \/ b = Sync("detach", OnScreen, t)
      /\ OnScreen # NONE /\ input_attached[OnScreen] =>
           Sync("detach", OnScreen, t) \in Range(mainq')
  BY <1>o, QueueDetachEffect DEF HideAll
<1>a. \A u \in Threads : u # t => pc'[u] = pc[u] /\ key'[u] = key[u] /\ hand'[u] = hand[u]
  BY DEF HideAll, Start, Goto, TypeOK
<1>b. \A u \in Threads : u # t => Target(u)' = Target(u) /\ Victim(u)' = Victim(u)
  BY <1>a, OtherThreads DEF HideAll, Start
<1>c. Target(t) = NONE /\ Target(t)' = NONE /\ Victim(t)' = OnScreen
  BY DEF HideAll, Start, Goto, TypeOK, Target, Victim, OnScreen, OtherOnScreen
<1>d. \A u \in Threads : Target(u) = NONE
  BY RdpSessionsAssumption DEF HideAll, Start, LockInv, Target, Locked
<1>1. TypeOK'
  BY <1>q, RdpSessionsAssumption
     DEF TypeOK, HideAll, Start, Goto, PCs, Locked, Ops, flags, native
<1>2. FocusNamesASession'
  BY DEF FocusNamesASession, HideAll
<1>3. LockInv'
  BY RdpSessionsAssumption DEF LockInv, HideAll, Start, Goto, TypeOK, Locked
<1>4. ThreadInv'
  BY DEF ThreadInv, HideAll, Start, Goto, TypeOK
<1>5. OwnerInv'
  BY DEF OwnerInv, HideAll
<1>6. LifeInv'
  BY DEF LifeInv, HideAll, HoldsResources, flags, native
<1>7. ResourceInv'
  BY DEF ResourceInv, HideAll, Start, Goto, HoldsResources, flags, TypeOK
<1>8. InputInv'
  <2>1. \A s \in native_input : input_attached[s]
    BY <1>d, RdpSessionsAssumption DEF InputInv, TypeOK
  <2>2. Victim(t)' # NONE =>
          Victim(t)' \notin native_input \/ Sync("detach", Victim(t)', t) \in Range(mainq')
    BY <1>q, <1>c, <2>1
  <2>3. QED
    BY <1>q, <1>a, <1>b, <1>c, <2>2, InputFrame
       DEF HideAll, Start, Goto, TypeOK, flags, native, Sync
<1>9. QED
  BY <1>1, <1>2, <1>3, <1>4, <1>5, <1>6, <1>7, <1>8

LEMMA LaunchFocusedStep ==
  ASSUME IInv, NEW t \in Threads, NEW k \in Keys, LaunchFocused(t, k)
  PROVE  IInv'
<1> USE DEF IInv
<1>o. OtherOnScreen(k) \in Sess \cup {NONE}
  BY DEF TypeOK, OnScreen, OtherOnScreen
<1>q. /\ mainq' \in Seq(Block)
      /\ Range(mainq) \subseteq Range(mainq')
      /\ \A b \in Range(mainq') : b \in Range(mainq) \/ b = Sync("detach", OtherOnScreen(k), t)
      /\ OtherOnScreen(k) # NONE /\ input_attached[OtherOnScreen(k)] =>
           Sync("detach", OtherOnScreen(k), t) \in Range(mainq')
  BY <1>o, QueueDetachEffect DEF LaunchFocused
<1>a. \A u \in Threads : u # t => pc'[u] = pc[u] /\ key'[u] = key[u] /\ hand'[u] = hand[u]
  BY DEF LaunchFocused, Start, Goto, TypeOK
<1>b. \A u \in Threads : u # t => Target(u)' = Target(u) /\ Victim(u)' = Victim(u)
  BY <1>a, OtherThreads DEF LaunchFocused, Start
<1>c. Target(t) = NONE /\ Target(t)' = NONE /\ Victim(t)' = OtherOnScreen(k)
  BY DEF LaunchFocused, Start, Goto, TypeOK, Target, Victim, OnScreen, OtherOnScreen
<1>d. \A u \in Threads : Target(u) = NONE
  BY RdpSessionsAssumption DEF LaunchFocused, Start, LockInv, Target, Locked
<1>1. TypeOK'
  BY <1>q, RdpSessionsAssumption
     DEF TypeOK, LaunchFocused, Start, Goto, PCs, Locked, Ops, flags, native
<1>2. FocusNamesASession'
  BY DEF FocusNamesASession, LaunchFocused
<1>3. LockInv'
  BY RdpSessionsAssumption DEF LockInv, LaunchFocused, Start, Goto, TypeOK, Locked
<1>4. ThreadInv'
  BY DEF ThreadInv, LaunchFocused, Start, Goto, TypeOK
<1>5. OwnerInv'
  BY DEF OwnerInv, LaunchFocused
<1>6. LifeInv'
  BY DEF LifeInv, LaunchFocused, HoldsResources, flags, native
<1>7. ResourceInv'
  BY DEF ResourceInv, LaunchFocused, Start, Goto, HoldsResources, flags, TypeOK
<1>8. InputInv'
  <2>1. \A s \in native_input : input_attached[s]
    BY <1>d, RdpSessionsAssumption DEF InputInv, TypeOK
  <2>2. Victim(t)' # NONE =>
          Victim(t)' \notin native_input \/ Sync("detach", Victim(t)', t) \in Range(mainq')
    BY <1>q, <1>c, <2>1
  <2>3. QED
    BY <1>q, <1>a, <1>b, <1>c, <2>2, InputFrame
       DEF LaunchFocused, Start, Goto, TypeOK, flags, native, Sync
<1>9. QED
  BY <1>1, <1>2, <1>3, <1>4, <1>5, <1>6, <1>7, <1>8

LEMMA LaunchRelockStep ==
  ASSUME IInv, NEW t \in Threads, LaunchRelock(t)
  PROVE  IInv'
<1> USE DEF IInv
<1>o. OtherOnScreen(key[t]) \in Sess \cup {NONE}
  BY DEF TypeOK, OnScreen, OtherOnScreen
<1>q. /\ mainq' \in Seq(Block)
      /\ Range(mainq) \subseteq Range(mainq')
      /\ \A b \in Range(mainq') : b \in Range(mainq) \/ b = Sync("detach", OtherOnScreen(key[t]), t)
      /\ OtherOnScreen(key[t]) # NONE /\ input_attached[OtherOnScreen(key[t])] =>
           Sync("detach", OtherOnScreen(key[t]), t) \in Range(mainq')
  BY <1>o, QueueDetachEffect DEF LaunchRelock
<1>a. \A u \in Threads : u # t => pc'[u] = pc[u] /\ key'[u] = key[u] /\ hand'[u] = hand[u]
  BY DEF LaunchRelock, Start, Goto, TypeOK
<1>b. \A u \in Threads : u # t => Target(u)' = Target(u) /\ Victim(u)' = Victim(u)
  BY <1>a, OtherThreads DEF LaunchRelock, Start
<1>c. Target(t) = NONE /\ Target(t)' = NONE /\ Victim(t)' = OtherOnScreen(key[t])
  BY DEF LaunchRelock, Start, Goto, TypeOK, Target, Victim, OnScreen, OtherOnScreen
<1>d. \A u \in Threads : Target(u) = NONE
  BY RdpSessionsAssumption DEF LaunchRelock, Start, LockInv, Target, Locked
<1>1. TypeOK'
  BY <1>q, RdpSessionsAssumption
     DEF TypeOK, LaunchRelock, Start, Goto, PCs, Locked, Ops, flags, native
<1>2. FocusNamesASession'
  BY DEF FocusNamesASession, LaunchRelock
<1>3. LockInv'
  BY RdpSessionsAssumption DEF LockInv, LaunchRelock, Start, Goto, TypeOK, Locked
<1>4. ThreadInv'
  BY DEF ThreadInv, LaunchRelock, Start, Goto, TypeOK
<1>5. OwnerInv'
  BY DEF OwnerInv, LaunchRelock
<1>6. LifeInv'
  BY DEF LifeInv, LaunchRelock, HoldsResources, flags, native
<1>7. ResourceInv'
  BY DEF ResourceInv, LaunchRelock, Start, Goto, HoldsResources, flags, TypeOK
<1>8. InputInv'
  <2>1. \A s \in native_input : input_attached[s]
    BY <1>d, RdpSessionsAssumption DEF InputInv, TypeOK
  <2>2. Victim(t)' # NONE =>
          Victim(t)' \notin native_input \/ Sync("detach", Victim(t)', t) \in Range(mainq')
    BY <1>q, <1>c, <2>1
  <2>3. QED
    BY <1>q, <1>a, <1>b, <1>c, <2>2, InputFrame
       DEF LaunchRelock, Start, Goto, TypeOK, flags, native, Sync
<1>9. QED
  BY <1>1, <1>2, <1>3, <1>4, <1>5, <1>6, <1>7, <1>8

\* A thread that claims the screen: what was on screen has stopped its input.
LEMMA FocusClaimStep ==
  ASSUME IInv, NEW t \in Threads, FocusClaim(t)
  PROVE  IInv'
<1> USE DEF IInv
<1>k. /\ key[t] \in Keys /\ sessions[key[t]] \in Sess /\ focused # key[t]
      /\ OnScreen \in Sess \cup {NONE} /\ lock = t
  BY DEF FocusClaim, ThreadInv, TypeOK, OnScreen, LockInv, Locked
<1>q. /\ mainq' \in Seq(Block)
      /\ Range(mainq) \subseteq Range(mainq')
      /\ \A b \in Range(mainq') : b.op = "attach" =>
           b \in Range(mainq) \/ (b.from = t /\ b.s = sessions[key[t]])
  <2>1. /\ YieldBlocks(OnScreen) \in Seq(Block)
        /\ ClaimBlocks(sessions[key[t]], t) \in Seq(Block)
        /\ mainq \in Seq(Block)
    BY <1>k, YieldBlocksEffect, ClaimBlocksEffect DEF TypeOK
  <2>2. /\ mainq' \in Seq(Block)
        /\ Range(mainq') = Range(mainq) \cup Range(YieldBlocks(OnScreen))
                             \cup Range(ClaimBlocks(sessions[key[t]], t))
    BY <2>1, RangeConcat3 DEF FocusClaim
  <2>3. QED
    BY <1>k, <2>2, YieldBlocksEffect, ClaimBlocksEffect
<1>f. /\ input_attached' = [x \in Sess |-> IF x = OnScreen THEN FALSE ELSE input_attached[x]]
      /\ clipboard_active' = [x \in Sess |-> IF x = OnScreen THEN FALSE ELSE clipboard_active[x]]
  BY DEF FocusClaim, ClearFlags
<1>a. \A u \in Threads : u # t => pc'[u] = pc[u] /\ key'[u] = key[u] /\ hand'[u] = hand[u]
  BY DEF FocusClaim, Goto, TypeOK
<1>b. \A u \in Threads : u # t => Target(u)' = Target(u) /\ Victim(u)' = Victim(u)
  BY <1>a, <1>k, OtherThreads DEF FocusClaim
<1>c. /\ Target(t) = NONE /\ Target(t)' = sessions[key[t]] /\ Victim(t)' = NONE
      /\ Victim(t) = OnScreen
  BY DEF FocusClaim, Goto, TypeOK, Target, Victim, table
<1>d. OnScreen \notin native_input
  BY <1>c DEF InputInv, FocusClaim, Returned, Sync
<1>1. TypeOK'
  BY <1>q, <1>f DEF TypeOK, FocusClaim, Goto, PCs, Locked, table, native
<1>2. FocusNamesASession'
  BY DEF FocusNamesASession, FocusClaim, table
<1>3. LockInv'
  BY DEF LockInv, FocusClaim, Goto, TypeOK, Locked, table
<1>4. ThreadInv'
  BY DEF ThreadInv, FocusClaim, Goto, TypeOK, table
<1>5. OwnerInv'
  BY DEF OwnerInv, FocusClaim, table
<1>6. LifeInv'
  BY <1>f DEF LifeInv, FocusClaim, HoldsResources, native
<1>7. ResourceInv'
  <2>1. \A s \in Sess : input_attached'[s] \/ clipboard_active'[s] =>
          HoldsResources(s) /\ s # OnScreen
    BY <1>f DEF HoldsResources
  <2>2. \A k \in Keys : sessions[k] # NONE /\ (input_attached'[sessions[k]] \/ clipboard_active'[sessions[k]])
          => focused = k
    BY <2>1 DEF ResourceInv, TypeOK
  <2>3. \A k \in Keys : k # key[t] /\ sessions[k] # NONE
          => ~(input_attached'[sessions[k]] \/ clipboard_active'[sessions[k]])
    BY <2>1, <1>k, RdpSessionsAssumption DEF ResourceInv, TypeOK, OnScreen
  <2>4. \A u \in Threads :
          pc'[u] \in {"shutdown.join", "launch.insert", "launch.yield2", "launch.claim"}
            => ~(input_attached'[hand[u]] \/ clipboard_active'[hand[u]])
    <3> SUFFICES ASSUME NEW u \in Threads,
                        pc'[u] \in {"shutdown.join", "launch.insert", "launch.yield2", "launch.claim"}
                 PROVE  ~(input_attached'[hand[u]] \/ clipboard_active'[hand[u]])
      OBVIOUS
    <3>1. pc[u] \in {"shutdown.join", "launch.insert", "launch.yield2", "launch.claim"}
      BY <1>a DEF FocusClaim, Goto, TypeOK
    <3>2. hand[u] \in Sess
      BY <3>1 DEF ThreadInv, TypeOK
    <3>3. QED
      BY <2>1, <3>1, <3>2 DEF ResourceInv
  <2>5. \A u \in Threads : pc'[u] \in {"focus.claim", "launch.claim"} => u = t
    BY <1>k, <1>a, RdpSessionsAssumption DEF LockInv, Locked
  <2>6. QED
    BY <2>2, <2>3, <2>4, <2>5 DEF ResourceInv, FocusClaim, Goto, table, HoldsResources
<1>8. InputInv'
  <2>1. \A s \in native_input : input_attached[s] \/ s = Target(t) =>
          input_attached'[s] \/ s = Target(t)'
    BY <1>c, <1>d, <1>f, RdpSessionsAssumption DEF TypeOK, InputInv
  <2>2. /\ Target(t)' = Target(t) \/ Returned(t)
        /\ native_input' = native_input /\ sessions[key[t]] # NONE
        /\ pc'[t] # "shutdown.join"
    BY <1>k, RdpSessionsAssumption DEF FocusClaim, Goto, TypeOK, native
  <2>3. \A b \in Range(mainq') : b.op = "attach" =>
          b \in Range(mainq) \/ (b.from = t /\ b.s = Target(t)' /\ b.s # NONE)
    BY <1>q, <1>c, <2>2
  <2>4. QED
    BY <1>q, <1>a, <1>b, <1>c, <2>1, <2>2, <2>3, InputFrame
<1>9. QED
  BY <1>1, <1>2, <1>3, <1>4, <1>5, <1>6, <1>7, <1>8

LEMMA LaunchClaimStep ==
  ASSUME IInv, NEW t \in Threads, LaunchClaim(t)
  PROVE  IInv'
<1> USE DEF IInv
<1> DEFINE other == OtherOnScreen(key[t])
<1>k. /\ key[t] \in Keys /\ hand[t] \in Sess
      /\ other \in Sess \cup {NONE} /\ lock = t
  BY DEF LaunchClaim, ThreadInv, TypeOK, OnScreen, OtherOnScreen, LockInv, Locked
<1>q. /\ mainq' \in Seq(Block)
      /\ Range(mainq) \subseteq Range(mainq')
      /\ \A b \in Range(mainq') : b.op = "attach" =>
           b \in Range(mainq) \/ (b.from = t /\ b.s = hand[t])
  <2>1. /\ YieldBlocks(other) \in Seq(Block)
        /\ ClaimBlocks(hand[t], t) \in Seq(Block)
        /\ mainq \in Seq(Block)
    BY <1>k, YieldBlocksEffect, ClaimBlocksEffect DEF TypeOK
  <2>2. /\ mainq' \in Seq(Block)
        /\ Range(mainq') = Range(mainq) \cup Range(YieldBlocks(other))
                             \cup Range(ClaimBlocks(hand[t], t))
    BY <2>1, RangeConcat3 DEF LaunchClaim
  <2>3. QED
    BY <1>k, <2>2, YieldBlocksEffect, ClaimBlocksEffect
<1>f. /\ input_attached' = [x \in Sess |-> IF x = other THEN FALSE ELSE input_attached[x]]
      /\ clipboard_active' = [x \in Sess |-> IF x = other THEN FALSE ELSE clipboard_active[x]]
  BY DEF LaunchClaim, ClearFlags
<1>a. \A u \in Threads : u # t => pc'[u] = pc[u] /\ key'[u] = key[u] /\ hand'[u] = hand[u]
  BY DEF LaunchClaim, Goto, TypeOK
<1>b. \A u \in Threads : u # t => Target(u)' = Target(u) /\ Victim(u)' = Victim(u)
  BY <1>a, <1>k, OtherThreads DEF LaunchClaim
<1>c. /\ Target(t) = NONE /\ Target(t)' = hand[t] /\ Victim(t)' = NONE
      /\ Victim(t) = other
  BY DEF LaunchClaim, Goto, TypeOK, Target, Victim
<1>d. other \notin native_input
  BY <1>c DEF InputInv, LaunchClaim, Returned, Sync
<1>e. \A k \in Keys : k # key[t] /\ focused = k => sessions[k] = other
  BY RdpSessionsAssumption DEF OtherOnScreen, OnScreen
<1> HIDE DEF other
<1>1. TypeOK'
  BY <1>q, <1>f DEF TypeOK, LaunchClaim, Goto, PCs, Locked, table, native
<1>2. FocusNamesASession'
  BY DEF FocusNamesASession, LaunchClaim, table
<1>3. LockInv'
  BY DEF LockInv, LaunchClaim, Goto, TypeOK, Locked, table
<1>4. ThreadInv'
  BY DEF ThreadInv, LaunchClaim, Goto, TypeOK, table
<1>5. OwnerInv'
  BY DEF OwnerInv, LaunchClaim, table
<1>6. LifeInv'
  BY <1>f DEF LifeInv, LaunchClaim, HoldsResources, native
<1>7. ResourceInv'
  <2>1. \A s \in Sess : input_attached'[s] \/ clipboard_active'[s] =>
          HoldsResources(s) /\ s # other
    BY <1>f DEF HoldsResources
  <2>2. \A k \in Keys : sessions[k] # NONE /\ (input_attached'[sessions[k]] \/ clipboard_active'[sessions[k]])
          => focused = k
    BY <2>1 DEF ResourceInv, TypeOK
  <2>3. \A k \in Keys : k # key[t] /\ sessions[k] # NONE
          => ~(input_attached'[sessions[k]] \/ clipboard_active'[sessions[k]])
    BY <2>1, <1>k, <1>e DEF ResourceInv, TypeOK, OnScreen
  <2>4. \A u \in Threads :
          pc'[u] \in {"shutdown.join", "launch.insert", "launch.yield2", "launch.claim"}
            => ~(input_attached'[hand[u]] \/ clipboard_active'[hand[u]])
    <3> SUFFICES ASSUME NEW u \in Threads,
                        pc'[u] \in {"shutdown.join", "launch.insert", "launch.yield2", "launch.claim"}
                 PROVE  ~(input_attached'[hand[u]] \/ clipboard_active'[hand[u]])
      OBVIOUS
    <3>1. pc[u] \in {"shutdown.join", "launch.insert", "launch.yield2", "launch.claim"}
      BY <1>a DEF LaunchClaim, Goto, TypeOK
    <3>2. hand[u] \in Sess
      BY <3>1 DEF ThreadInv, TypeOK
    <3>3. QED
      BY <2>1, <3>1, <3>2 DEF ResourceInv
  <2>5. \A u \in Threads : pc'[u] \in {"focus.claim", "launch.claim"} => u = t
    BY <1>k, <1>a, RdpSessionsAssumption DEF LockInv, Locked
  <2>6. QED
    BY <2>2, <2>3, <2>4, <2>5 DEF ResourceInv, LaunchClaim, Goto, table, HoldsResources
<1>8. InputInv'
  <2>1. \A s \in native_input : input_attached[s] \/ s = Target(t) =>
          input_attached'[s] \/ s = Target(t)'
    BY <1>c, <1>d, <1>f, RdpSessionsAssumption DEF TypeOK, InputInv
  <2>2. /\ Target(t)' = Target(t) \/ Returned(t)
        /\ native_input' = native_input /\ hand[t] # NONE
        /\ pc'[t] # "shutdown.join"
    BY <1>k, RdpSessionsAssumption DEF LaunchClaim, Goto, TypeOK, native
  <2>3. \A b \in Range(mainq') : b.op = "attach" =>
          b \in Range(mainq) \/ (b.from = t /\ b.s = Target(t)' /\ b.s # NONE)
    BY <1>q, <1>c, <2>2
  <2>4. QED
    BY <1>q, <1>a, <1>b, <1>c, <2>1, <2>2, <2>3, InputFrame
<1>9. QED
  BY <1>1, <1>2, <1>3, <1>4, <1>5, <1>6, <1>7, <1>8

\* What SyncStart and DropBlocks queue is never an attach block.
LEMMA TailBlocksEffect ==
  ASSUME NEW s \in Sess \cup {NONE}
  PROVE  /\ SyncStart(s) \in Seq(Block) /\ DropBlocks(s) \in Seq(Block)
         /\ \A b \in Range(SyncStart(s)) : b.op # "attach"
         /\ \A b \in Range(DropBlocks(s)) : b.op # "attach"
<1>1. Async("clipStart", s) \in Block /\ Async("destroy", s) \in Block
  BY DEF Async, Block, BlockOps
<1>2. Async("clipStart", s).op # "attach" /\ Async("destroy", s).op # "attach"
  BY DEF Async
<1> DEFINE start == Async("clipStart", s)
           destroy == Async("destroy", s)
<1>3. /\ <<>> \in Seq(Block) /\ Range(<<>>) = {}
      /\ <<start>> \in Seq(Block) /\ Range(<<start>>) = {start}
      /\ <<destroy>> \in Seq(Block) /\ Range(<<destroy>>) = {destroy}
  <2> HIDE DEF start, destroy
  <2>1. start \in Block /\ destroy \in Block
    BY <1>1 DEF start, destroy
  <2>2. <<>> \in Seq(Block) /\ Range(<<>>) = {}
    BY DEF Range
  <2>3. <<start>> \in Seq(Block) /\ Range(<<start>>) = {start}
    BY <2>1 DEF Range
  <2>4. <<destroy>> \in Seq(Block) /\ Range(<<destroy>>) = {destroy}
    BY <2>1 DEF Range
  <2>5. QED
    BY <2>2, <2>3, <2>4
<1>4. QED
  BY <1>2, <1>3 DEF SyncStart, DropBlocks

\* The marker moves to the attached session: no other key's holds resources.
LEMMA FocusDoneStep ==
  ASSUME IInv, NEW t \in Threads, FocusDone(t)
  PROVE  IInv'
<1> USE DEF IInv
<1> DEFINE mine == sessions[key[t]]
<1>k. key[t] \in Keys /\ mine \in Sess /\ mine # NONE /\ lock = t
  BY DEF FocusDone, ThreadInv, TypeOK, LockInv, Locked
<1>q. /\ mainq' \in Seq(Block)
      /\ Range(mainq) \subseteq Range(mainq')
      /\ \A b \in Range(mainq') : b.op = "attach" => b \in Range(mainq)
  <2>1. mainq \in Seq(Block) /\ SyncStart(mine) \in Seq(Block)
    BY <1>k, TailBlocksEffect DEF TypeOK
  <2>2. QED
    BY <1>k, <2>1, RangeConcat, TailBlocksEffect DEF FocusDone
<1>f. /\ input_attached' = [input_attached EXCEPT ![mine] = TRUE]
      /\ clipboard_active' = [clipboard_active EXCEPT ![mine] = TRUE]
  BY DEF FocusDone, SetFlags
<1>a. \A u \in Threads : u # t => pc'[u] = pc[u] /\ key'[u] = key[u] /\ hand'[u] = hand[u]
  BY DEF FocusDone, Finish, TypeOK
<1>b. \A u \in Threads : u # t => Target(u)' = Target(u) /\ Victim(u)' = Victim(u)
  BY <1>a, <1>k, OtherThreads
<1>c. Target(t) = mine /\ Target(t)' = NONE /\ Victim(t)' = NONE
  BY DEF FocusDone, Finish, TypeOK, Target, Victim
<1>d. \A u \in Threads : u # t => pc[u] \notin Locked
  BY <1>k DEF LockInv
<1>l. life[mine] = "live"
  BY <1>k DEF OwnerInv
<1>g. \A s \in Sess : s # mine => HoldsResources(s)' = HoldsResources(s)
  BY <1>k, <1>f DEF HoldsResources, TypeOK
<1>1. TypeOK'
  BY <1>q, <1>f, <1>k, RdpSessionsAssumption DEF TypeOK, FocusDone, Finish, PCs, Ops, native
<1>2. FocusNamesASession'
  BY <1>k DEF FocusNamesASession, FocusDone
<1>3. LockInv'
  BY <1>k, <1>d, RdpSessionsAssumption DEF LockInv, FocusDone, Finish, TypeOK, Locked
<1>4. ThreadInv'
  BY <1>d DEF ThreadInv, FocusDone, Finish, TypeOK, Locked
<1>5. OwnerInv'
  BY DEF OwnerInv, FocusDone
<1>6. LifeInv'
  <2>1. \A s \in Sess : life[s] = "unused" => ~(input_attached'[s] \/ clipboard_active'[s])
    BY <1>l, <1>f, <1>k DEF LifeInv, HoldsResources, TypeOK
  <2>2. QED
    BY <2>1 DEF LifeInv, FocusDone, HoldsResources, native
<1>7. ResourceInv'
  <2>1. \A s \in Sess : s # mine /\ (input_attached'[s] \/ clipboard_active'[s]) => HoldsResources(s)
    BY <1>k, <1>f DEF HoldsResources, TypeOK
  <2>2. \A k \in Keys : k # key[t] /\ sessions[k] # NONE
          => ~(input_attached'[sessions[k]] \/ clipboard_active'[sessions[k]])
    BY <2>1, <1>k DEF ResourceInv, OwnerInv, TypeOK, FocusDone
  <2>3. \A u \in Threads :
          pc'[u] \in {"shutdown.join", "launch.insert", "launch.yield2", "launch.claim"}
            => ~(input_attached'[hand[u]] \/ clipboard_active'[hand[u]])
    <3> SUFFICES ASSUME NEW u \in Threads,
                        pc'[u] \in {"shutdown.join", "launch.insert", "launch.yield2", "launch.claim"}
                 PROVE  ~(input_attached'[hand[u]] \/ clipboard_active'[hand[u]])
      OBVIOUS
    <3>1. pc[u] \in {"shutdown.join", "launch.insert", "launch.yield2", "launch.claim"}
      BY <1>a DEF FocusDone, Finish, TypeOK
    <3>2. hand[u] \in Sess /\ hand[u] # mine
      BY <3>1, <1>k DEF ThreadInv, OwnerInv, TypeOK
    <3>3. QED
      BY <2>1, <3>1, <3>2 DEF ResourceInv
  <2>4. \A u \in Threads : pc'[u] \notin {"focus.claim", "launch.claim"}
    BY <1>d, <1>a DEF Locked, FocusDone, Finish, TypeOK
  <2>5. QED
    BY <2>2, <2>3, <2>4 DEF ResourceInv, FocusDone, HoldsResources
<1>8. InputInv'
  <2>1. \A s \in native_input : input_attached[s] \/ s = Target(t) => input_attached'[s]
    BY <1>c, <1>f, <1>k, RdpSessionsAssumption DEF TypeOK, InputInv
  <2>2. Returned(t) /\ native_input' = native_input /\ pc'[t] # "shutdown.join"
    BY DEF FocusDone, Finish, TypeOK, native
  <2>3. QED
    BY <1>q, <1>a, <1>b, <1>c, <2>1, <2>2, InputFrame
<1>9. QED
  BY <1>1, <1>2, <1>3, <1>4, <1>5, <1>6, <1>7, <1>8

LEMMA HideDoneStep ==
  ASSUME IInv, NEW t \in Threads, HideDone(t)
  PROVE  IInv'
<1> USE DEF IInv
<1>k. OnScreen \in Sess \cup {NONE} /\ lock = t
  BY DEF HideDone, TypeOK, OnScreen, LockInv, Locked
<1>q. /\ mainq' \in Seq(Block)
      /\ Range(mainq) \subseteq Range(mainq')
      /\ \A b \in Range(mainq') : b.op = "attach" => b \in Range(mainq)
  <2>1. mainq \in Seq(Block) /\ YieldBlocks(OnScreen) \in Seq(Block)
    BY <1>k, YieldBlocksEffect DEF TypeOK
  <2>2. QED
    BY <1>k, <2>1, RangeConcat, YieldBlocksEffect DEF HideDone
<1>f. /\ input_attached' = [x \in Sess |-> IF x = OnScreen THEN FALSE ELSE input_attached[x]]
      /\ clipboard_active' = [x \in Sess |-> IF x = OnScreen THEN FALSE ELSE clipboard_active[x]]
  BY DEF HideDone, ClearFlags
<1>a. \A u \in Threads : u # t => pc'[u] = pc[u] /\ key'[u] = key[u] /\ hand'[u] = hand[u]
  BY DEF HideDone, Finish, TypeOK
<1>b. \A u \in Threads : u # t => Target(u)' = Target(u) /\ Victim(u)' = Victim(u)
  BY <1>a, <1>k, OtherThreads
<1>c. Target(t) = NONE /\ Target(t)' = NONE /\ Victim(t)' = NONE /\ Victim(t) = OnScreen
  BY DEF HideDone, Finish, TypeOK, Target, Victim
<1>d. OnScreen \notin native_input
  BY <1>c DEF InputInv, HideDone, Returned, Sync
<1>e. \A u \in Threads : u # t => pc[u] \notin Locked
  BY <1>k DEF LockInv
<1>1. TypeOK'
  BY <1>q, <1>f, RdpSessionsAssumption DEF TypeOK, HideDone, Finish, PCs, Ops, native
<1>2. FocusNamesASession'
  BY DEF FocusNamesASession, HideDone
<1>3. LockInv'
  BY <1>k, <1>e, RdpSessionsAssumption DEF LockInv, HideDone, Finish, TypeOK, Locked
<1>4. ThreadInv'
  BY <1>e DEF ThreadInv, HideDone, Finish, TypeOK, Locked
<1>5. OwnerInv'
  BY DEF OwnerInv, HideDone
<1>6. LifeInv'
  BY <1>f DEF LifeInv, HideDone, HoldsResources, native
<1>7. ResourceInv'
  <2>1. \A s \in Sess : input_attached'[s] \/ clipboard_active'[s] =>
          HoldsResources(s) /\ s # OnScreen
    BY <1>f DEF HoldsResources
  <2>2. \A k \in Keys : sessions[k] # NONE
          => ~(input_attached'[sessions[k]] \/ clipboard_active'[sessions[k]])
    BY <2>1, RdpSessionsAssumption DEF ResourceInv, TypeOK, OnScreen
  <2>3. \A u \in Threads :
          pc'[u] \in {"shutdown.join", "launch.insert", "launch.yield2", "launch.claim"}
            => ~(input_attached'[hand[u]] \/ clipboard_active'[hand[u]])
    <3> SUFFICES ASSUME NEW u \in Threads,
                        pc'[u] \in {"shutdown.join", "launch.insert", "launch.yield2", "launch.claim"}
                 PROVE  ~(input_attached'[hand[u]] \/ clipboard_active'[hand[u]])
      OBVIOUS
    <3>1. pc[u] \in {"shutdown.join", "launch.insert", "launch.yield2", "launch.claim"}
      BY <1>a DEF HideDone, Finish, TypeOK
    <3>2. hand[u] \in Sess
      BY <3>1 DEF ThreadInv, TypeOK
    <3>3. QED
      BY <2>1, <3>1, <3>2 DEF ResourceInv
  <2>4. QED
    BY <2>2, <2>3 DEF ResourceInv, HideDone, HoldsResources
<1>8. InputInv'
  <2>1. \A s \in native_input : input_attached[s] \/ s = Target(t) => input_attached'[s]
    BY <1>c, <1>d, <1>f DEF TypeOK, InputInv
  <2>2. native_input' = native_input /\ pc'[t] # "shutdown.join"
    BY DEF HideDone, Finish, TypeOK, native
  <2>3. QED
    BY <1>q, <1>a, <1>b, <1>c, <2>1, <2>2, InputFrame
<1>9. QED
  BY <1>1, <1>2, <1>3, <1>4, <1>5, <1>6, <1>7, <1>8

LEMMA CloseStep ==
  ASSUME IInv, NEW t \in Threads, NEW k \in Keys, Close(t, k)
  PROVE  IInv'
<1> USE DEF IInv
<1>a. \A u \in Threads : u # t => pc'[u] = pc[u] /\ key'[u] = key[u] /\ hand'[u] = hand[u]
  BY DEF Close, Start, TypeOK
<1>b. \A u \in Threads : u # t => Target(u)' = Target(u) /\ Victim(u)' = Victim(u)
  BY <1>a, OtherThreads DEF Close, Start
<1>c. Target(t) = NONE /\ Target(t)' = NONE /\ Victim(t)' = NONE
  BY DEF Close, Start, TypeOK, Target, Victim
<1>d. \A u \in Threads : pc[u] \notin Locked
  BY RdpSessionsAssumption DEF Close, Start, LockInv
<1>1. TypeOK'
  BY RdpSessionsAssumption DEF TypeOK, Close, Start, PCs, Locked, Ops, Unfocused, flags, native
<1>2. FocusNamesASession'
  BY DEF FocusNamesASession, Close, Unfocused, TypeOK
<1>3. LockInv'
  BY <1>d, RdpSessionsAssumption DEF LockInv, Close, Start, TypeOK, Locked
<1>4. ThreadInv'
  BY <1>d DEF ThreadInv, Close, Start, TypeOK, Locked
<1>5. OwnerInv'
  BY RdpSessionsAssumption DEF OwnerInv, Close, TypeOK
<1>6. LifeInv'
  BY DEF LifeInv, Close, HoldsResources, flags, native
<1>7. ResourceInv'
  <2>1. \A j \in Keys : sessions'[j] # NONE => sessions'[j] = sessions[j] /\ j # k
    BY DEF Close, TypeOK
  <2>2. \A u \in Threads :
          pc'[u] \in {"shutdown.join", "launch.insert", "launch.yield2", "launch.claim"}
            => u # t
    BY DEF Close, Start, TypeOK
  <2>3. QED
    BY <1>a, <1>d, <2>1, <2>2
       DEF ResourceInv, Close, Start, Unfocused, HoldsResources, flags, TypeOK, Locked
<1>8. InputInv'
  <2>1. /\ native_input' = native_input /\ input_attached' = input_attached
        /\ mainq' = mainq /\ pc'[t] # "shutdown.join"
    BY DEF Close, Start, TypeOK, native, flags
  <2>2. QED
    BY <1>a, <1>b, <1>c, <2>1, InputFrame
<1>9. QED
  BY <1>1, <1>2, <1>3, <1>4, <1>5, <1>6, <1>7, <1>8

LEMMA ShutdownBeginStep ==
  ASSUME IInv, NEW t \in Threads, ShutdownBegin(t)
  PROVE  IInv'
<1> USE DEF IInv
<1>k. hand[t] \in Sess /\ hand[t] # NONE
  BY DEF ShutdownBegin, ThreadInv, TypeOK
<1>q. /\ mainq' \in Seq(Block)
      /\ Range(mainq) \subseteq Range(mainq')
      /\ \A b \in Range(mainq') : b \in Range(mainq) \/ b = Sync("detach", hand[t], t)
      /\ input_attached[hand[t]] => Sync("detach", hand[t], t) \in Range(mainq')
  BY <1>k, QueueDetachEffect DEF ShutdownBegin
<1>a. \A u \in Threads : u # t => pc'[u] = pc[u] /\ key'[u] = key[u] /\ hand'[u] = hand[u]
  BY DEF ShutdownBegin, Goto, TypeOK
<1>b. \A u \in Threads : u # t => Target(u)' = Target(u) /\ Victim(u)' = Victim(u)
  BY <1>a, OtherThreads DEF ShutdownBegin, table
<1>c. Target(t) = NONE /\ Target(t)' = NONE /\ Victim(t)' = hand[t]
  BY DEF ShutdownBegin, Goto, TypeOK, Target, Victim
<1>1. TypeOK'
  BY <1>q DEF TypeOK, ShutdownBegin, Goto, PCs, Locked, table, flags, native
<1>2. FocusNamesASession'
  BY DEF FocusNamesASession, ShutdownBegin, table
<1>3. LockInv'
  BY DEF LockInv, ShutdownBegin, Goto, TypeOK, Locked, table
<1>4. ThreadInv'
  BY DEF ThreadInv, ShutdownBegin, Goto, TypeOK, table
<1>5. OwnerInv'
  BY DEF OwnerInv, ShutdownBegin, table
<1>6. LifeInv'
  BY DEF LifeInv, ShutdownBegin, HoldsResources, flags, native
<1>7. ResourceInv'
  BY DEF ResourceInv, ShutdownBegin, Goto, HoldsResources, flags, TypeOK, table
<1>8. InputInv'
  <2>1. \A u \in Threads : Target(u) # hand[t]
    BY <1>k DEF Target, OwnerInv, ThreadInv, TypeOK, ShutdownBegin
  <2>2. hand[t] \notin native_input \/ Sync("detach", hand[t], t) \in Range(mainq')
    BY <1>q, <2>1 DEF InputInv
  <2>3. /\ native_input' = native_input /\ input_attached' = input_attached
        /\ pc'[t] # "shutdown.join" /\ Sync("detach", hand[t], t).op # "attach"
    BY DEF ShutdownBegin, Goto, TypeOK, native, flags, Sync
  <2>4. QED
    BY <1>q, <1>a, <1>b, <1>c, <2>2, <2>3, InputFrame
<1>9. QED
  BY <1>1, <1>2, <1>3, <1>4, <1>5, <1>6, <1>7, <1>8

LEMMA ShutdownYieldStep ==
  ASSUME IInv, NEW t \in Threads, ShutdownYield(t)
  PROVE  IInv'
<1> USE DEF IInv
<1>k. hand[t] \in Sess /\ hand[t] # NONE
  BY DEF ShutdownYield, ThreadInv, TypeOK
<1>q. /\ mainq' \in Seq(Block)
      /\ Range(mainq) \subseteq Range(mainq')
      /\ \A b \in Range(mainq') : b.op = "attach" => b \in Range(mainq)
  <2>1. mainq \in Seq(Block) /\ YieldBlocks(hand[t]) \in Seq(Block)
    BY <1>k, YieldBlocksEffect DEF TypeOK
  <2>2. QED
    BY <1>k, <2>1, RangeConcat, YieldBlocksEffect DEF ShutdownYield
<1>f. /\ input_attached' = [x \in Sess |-> IF x = hand[t] THEN FALSE ELSE input_attached[x]]
      /\ clipboard_active' = [x \in Sess |-> IF x = hand[t] THEN FALSE ELSE clipboard_active[x]]
  BY DEF ShutdownYield, ClearFlags
<1>a. \A u \in Threads : u # t => pc'[u] = pc[u] /\ key'[u] = key[u] /\ hand'[u] = hand[u]
  BY DEF ShutdownYield, Goto, TypeOK
<1>b. \A u \in Threads : u # t => Target(u)' = Target(u) /\ Victim(u)' = Victim(u)
  BY <1>a, OtherThreads DEF ShutdownYield, table
<1>c. Target(t) = NONE /\ Target(t)' = NONE /\ Victim(t)' = NONE /\ Victim(t) = hand[t]
  BY DEF ShutdownYield, Goto, TypeOK, Target, Victim
<1>d. hand[t] \notin native_input
  BY <1>c, <1>k DEF InputInv, ShutdownYield, Returned, Sync
<1>1. TypeOK'
  BY <1>q, <1>f DEF TypeOK, ShutdownYield, Goto, PCs, Locked, table, native
<1>2. FocusNamesASession'
  BY DEF FocusNamesASession, ShutdownYield, table
<1>3. LockInv'
  BY DEF LockInv, ShutdownYield, Goto, TypeOK, Locked, table
<1>4. ThreadInv'
  BY DEF ThreadInv, ShutdownYield, Goto, TypeOK, table
<1>5. OwnerInv'
  BY DEF OwnerInv, ShutdownYield, table
<1>6. LifeInv'
  BY <1>f DEF LifeInv, ShutdownYield, HoldsResources, native
<1>7. ResourceInv'
  <2>1. \A s \in Sess : input_attached'[s] \/ clipboard_active'[s] =>
          HoldsResources(s) /\ s # hand[t]
    BY <1>f DEF HoldsResources
  <2>2. \A k \in Keys : sessions[k] # NONE /\ (input_attached'[sessions[k]] \/ clipboard_active'[sessions[k]])
          => HoldsResources(sessions[k])
    BY <2>1 DEF TypeOK
  <2>3. \A u \in Threads :
          pc'[u] \in {"shutdown.join", "launch.insert", "launch.yield2", "launch.claim"}
            => ~(input_attached'[hand[u]] \/ clipboard_active'[hand[u]])
    BY <2>1, <1>a, <1>k DEF ResourceInv, ThreadInv, TypeOK
  <2>4. pc'[t] = "shutdown.join"
    BY DEF ShutdownYield, Goto, TypeOK
  <2>5. QED
    BY <2>2, <2>3, <2>4, <1>a DEF ResourceInv, ShutdownYield, Goto, table, HoldsResources
<1>8. InputInv'
  <2>1. \A s \in native_input : input_attached[s] \/ s = Target(t) => input_attached'[s]
    BY <1>c, <1>d, <1>f DEF TypeOK, InputInv
  <2>2. native_input' = native_input /\ hand' = hand
    BY DEF ShutdownYield, native
  <2>3. QED
    BY <1>q, <1>a, <1>b, <1>c, <1>d, <2>1, <2>2, InputFrame
<1>9. QED
  BY <1>1, <1>2, <1>3, <1>4, <1>5, <1>6, <1>7, <1>8

\* Both ends of shutdown: the session in hand, whose input has stopped and whose
\* worker has ended if the C session is freed, is given up.
LEMMA ReleaseStep ==
  ASSUME IInv, NEW t \in Threads, NEW fate \in {"destroyed", "leaked"},
         pc[t] = "shutdown.join", Release(t, fate),
         fate = "destroyed" => worker[hand[t]] = "finished",
         UNCHANGED <<table, worker, flags, mainBusy, native>>
  PROVE  IInv'
<1> USE DEF IInv
<1>k. hand[t] \in Sess /\ hand[t] # NONE /\ hand[t] \notin native_input
  BY DEF ThreadInv, TypeOK, InputInv
<1>q. /\ mainq' \in Seq(Block)
      /\ Range(mainq) \subseteq Range(mainq')
      /\ \A b \in Range(mainq') : b.op = "attach" => b \in Range(mainq)
  <2>1. mainq \in Seq(Block) /\ Async("destroy", hand[t]) \in Block
    BY <1>k DEF TypeOK, Async, Block, BlockOps
  <2>2. Async("destroy", hand[t]).op # "attach"
    BY DEF Async
  <2>3. QED
    BY <2>1, <2>2, RangeAppend DEF Release
<1>p. pc'[t] \in {"idle", "launch.create"}
  BY DEF Release, Finish, Goto, TypeOK
<1>a. \A u \in Threads : u # t => pc'[u] = pc[u] /\ key'[u] = key[u] /\ hand'[u] = hand[u]
  BY DEF Release, Finish, Goto, TypeOK
<1>b. \A u \in Threads : u # t => Target(u)' = Target(u) /\ Victim(u)' = Victim(u)
  BY <1>a, OtherThreads DEF table
<1>c. Target(t) = NONE /\ Target(t)' = NONE /\ Victim(t)' = NONE
  BY <1>p DEF Target, Victim
<1>h. hand'[t] = NONE
  BY DEF Release, TypeOK
<1>1. TypeOK'
  BY <1>q, RdpSessionsAssumption
     DEF TypeOK, Release, Finish, Goto, PCs, Locked, Ops, table, flags, native
<1>2. FocusNamesASession'
  BY DEF FocusNamesASession, table
<1>3. LockInv'
  BY <1>a, <1>p DEF LockInv, Locked, table
<1>4. ThreadInv'
  <2>1. pc'[t] = "launch.create" => key'[t] = key[t] /\ key[t] \in Keys
    BY DEF Release, Finish, Goto, TypeOK, ThreadInv
  <2>2. \A u \in Threads : u # t => op'[u] = op[u]
    BY DEF Release, Finish, Goto, TypeOK
  <2>3. QED
    BY <1>a, <1>p, <1>h, <2>1, <2>2 DEF ThreadInv, table
<1>5. OwnerInv'
  BY <1>k, <1>a, <1>h, RdpSessionsAssumption DEF OwnerInv, Release, TypeOK, table
<1>6. LifeInv'
  <2>1. \A s \in Sess : s # hand[t] => life'[s] = life[s]
    BY DEF Release, TypeOK
  <2>2. life'[hand[t]] = fate
    BY <1>k DEF Release, TypeOK
  <2>3. QED
    BY <1>k, <2>1, <2>2 DEF LifeInv, HoldsResources, flags, native
<1>7. ResourceInv'
  BY <1>a, <1>p DEF ResourceInv, HoldsResources, flags, table
<1>8. InputInv'
  <2>1. native_input' = native_input /\ input_attached' = input_attached
    BY DEF native, flags
  <2>2. QED
    BY <1>q, <1>a, <1>b, <1>c, <1>p, <2>1, InputFrame
<1>9. QED
  BY <1>1, <1>2, <1>3, <1>4, <1>5, <1>6, <1>7, <1>8

LEMMA LaunchBackgroundStep ==
  ASSUME IInv, NEW t \in Threads, NEW k \in Keys, LaunchBackground(t, k)
  PROVE  IInv'
<1> USE DEF IInv
<1>p. /\ pc'[t] = ToConstruct(k) /\ key'[t] = k /\ hand'[t] = sessions[k]
      /\ op'[t] = "launchBackground"
      /\ pc'[t] \in {"launch.create", "shutdown.begin"}
      /\ pc'[t] = "launch.create" <=> hand'[t] = NONE
  BY DEF LaunchBackground, Start, TakePredecessor, ToConstruct, TypeOK
<1>a. \A u \in Threads : u # t =>
        pc'[u] = pc[u] /\ key'[u] = key[u] /\ hand'[u] = hand[u] /\ op'[u] = op[u]
  BY DEF LaunchBackground, Start, TakePredecessor, TypeOK
<1>b. \A u \in Threads : u # t => Target(u)' = Target(u) /\ Victim(u)' = Victim(u)
  BY <1>a, OtherThreads DEF LaunchBackground, Start
<1>c. Target(t) = NONE /\ Target(t)' = NONE /\ Victim(t)' = NONE
  BY <1>p DEF LaunchBackground, Start, Target, Victim
<1>d. \A u \in Threads : pc[u] \notin Locked
  BY RdpSessionsAssumption DEF LaunchBackground, Start, LockInv
<1>e. \A j \in Keys : sessions'[j] = IF j = k THEN NONE ELSE sessions[j]
  BY DEF LaunchBackground, TakePredecessor, TypeOK
<1>h. hand[t] = NONE
  BY DEF LaunchBackground, Start, ThreadInv
<1>1. TypeOK'
  BY <1>p, RdpSessionsAssumption
     DEF TypeOK, LaunchBackground, Start, TakePredecessor, ToConstruct, PCs, Locked, Ops,
         Unfocused, flags, native
<1>2. FocusNamesASession'
  BY <1>e DEF FocusNamesASession, LaunchBackground, Unfocused, TypeOK
<1>3. LockInv'
  BY <1>a, <1>d, <1>p, RdpSessionsAssumption DEF LockInv, LaunchBackground, Start, Locked
<1>4. ThreadInv'
  BY <1>a, <1>d, <1>p DEF ThreadInv, Locked
<1>5. OwnerInv'
  BY <1>a, <1>e, <1>p, <1>h, RdpSessionsAssumption DEF OwnerInv, LaunchBackground
<1>6. LifeInv'
  BY DEF LifeInv, LaunchBackground, HoldsResources, flags, native
<1>7. ResourceInv'
  BY <1>a, <1>d, <1>e, <1>p
     DEF ResourceInv, LaunchBackground, Unfocused, HoldsResources, flags, Locked
<1>8. InputInv'
  <2>1. /\ native_input' = native_input /\ input_attached' = input_attached
        /\ mainq' = mainq
    BY DEF LaunchBackground, native, flags
  <2>2. QED
    BY <1>a, <1>b, <1>c, <1>p, <2>1, InputFrame
<1>9. QED
  BY <1>1, <1>2, <1>3, <1>4, <1>5, <1>6, <1>7, <1>8

LEMMA LaunchYieldStep ==
  ASSUME IInv, NEW t \in Threads, LaunchYield(t)
  PROVE  IInv'
<1> USE DEF IInv
<1> DEFINE other == OtherOnScreen(key[t])
<1>k. /\ key[t] \in Keys /\ sessions[key[t]] \in Sess \cup {NONE}
      /\ other \in Sess \cup {NONE} /\ lock = t /\ hand[t] = NONE
  BY DEF LaunchYield, ThreadInv, TypeOK, OnScreen, OtherOnScreen, LockInv, Locked
<1>q. /\ mainq' \in Seq(Block)
      /\ Range(mainq) \subseteq Range(mainq')
      /\ \A b \in Range(mainq') : b.op = "attach" => b \in Range(mainq)
  <2>1. mainq \in Seq(Block) /\ YieldBlocks(other) \in Seq(Block)
    BY <1>k, YieldBlocksEffect DEF TypeOK
  <2>2. QED
    BY <1>k, <2>1, RangeConcat, YieldBlocksEffect DEF LaunchYield
<1>f. /\ input_attached' = [x \in Sess |-> IF x = other THEN FALSE ELSE input_attached[x]]
      /\ clipboard_active' = [x \in Sess |-> IF x = other THEN FALSE ELSE clipboard_active[x]]
  BY DEF LaunchYield, ClearFlags
<1>p. /\ pc'[t] \in {"launch.create", "shutdown.begin"} /\ key' = key /\ op' = op
      /\ hand'[t] = sessions[key[t]]
      /\ pc'[t] = "launch.create" <=> hand'[t] = NONE
  BY DEF LaunchYield, Goto, TakePredecessor, ToConstruct, TypeOK
<1>a. \A u \in Threads : u # t => pc'[u] = pc[u] /\ key'[u] = key[u] /\ hand'[u] = hand[u]
  BY DEF LaunchYield, Goto, TakePredecessor, TypeOK
<1>b. \A u \in Threads : u # t => Target(u)' = Target(u) /\ Victim(u)' = Victim(u)
  BY <1>a, <1>k, OtherThreads
<1>c. Target(t) = NONE /\ Target(t)' = NONE /\ Victim(t)' = NONE /\ Victim(t) = other
  BY <1>p DEF LaunchYield, Target, Victim
<1>d. other \notin native_input
  BY <1>c DEF InputInv, LaunchYield, Returned, Sync
<1>g. \A u \in Threads : u # t => pc[u] \notin Locked
  BY <1>k DEF LockInv
<1>e. \A j \in Keys : sessions'[j] = IF j = key[t] THEN NONE ELSE sessions[j]
  BY DEF LaunchYield, TakePredecessor, TypeOK
<1>o. \A k \in Keys : k # key[t] /\ focused = k => sessions[k] = other
  BY RdpSessionsAssumption DEF OtherOnScreen, OnScreen
<1> HIDE DEF other
<1>1. TypeOK'
  BY <1>q, <1>f, <1>p, <1>k
     DEF TypeOK, LaunchYield, TakePredecessor, ToConstruct, Goto, PCs, Locked, native
<1>2. FocusNamesASession'
  BY DEF FocusNamesASession, LaunchYield
<1>3. LockInv'
  BY <1>a, <1>g, <1>p, RdpSessionsAssumption DEF LockInv, LaunchYield, Locked
<1>4. ThreadInv'
  BY <1>a, <1>g, <1>p, <1>k DEF ThreadInv, Locked
<1>5. OwnerInv'
  BY <1>a, <1>e, <1>p, <1>k, RdpSessionsAssumption DEF OwnerInv, LaunchYield
<1>6. LifeInv'
  BY <1>f DEF LifeInv, LaunchYield, HoldsResources, native
<1>7. ResourceInv'
  <2>1. \A s \in Sess : input_attached'[s] \/ clipboard_active'[s] =>
          HoldsResources(s) /\ s # other
    BY <1>f DEF HoldsResources
  <2>2. \A k \in Keys : sessions'[k] # NONE
          => ~(input_attached'[sessions'[k]] \/ clipboard_active'[sessions'[k]])
    BY <2>1, <1>e, <1>o DEF ResourceInv, TypeOK
  <2>3. \A u \in Threads :
          pc'[u] \in {"shutdown.join", "launch.insert", "launch.yield2", "launch.claim"}
            => ~(input_attached'[hand'[u]] \/ clipboard_active'[hand'[u]])
    BY <2>1, <1>a, <1>p DEF ResourceInv, ThreadInv, TypeOK
  <2>4. QED
    BY <2>2, <2>3 DEF ResourceInv, HoldsResources
<1>8. InputInv'
  <2>1. \A s \in native_input : input_attached[s] \/ s = Target(t) => input_attached'[s]
    BY <1>c, <1>d, <1>f DEF TypeOK, InputInv
  <2>2. native_input' = native_input
    BY DEF LaunchYield, native
  <2>3. QED
    BY <1>q, <1>a, <1>b, <1>c, <1>p, <2>1, <2>2, InputFrame
<1>9. QED
  BY <1>1, <1>2, <1>3, <1>4, <1>5, <1>6, <1>7, <1>8

LEMMA LaunchCreateStep ==
  ASSUME IInv, NEW t \in Threads, LaunchCreate(t)
  PROVE  IInv'
<1> USE DEF IInv
<1>q. /\ mainq' \in Seq(Block)
      /\ Range(mainq) \subseteq Range(mainq')
      /\ \A b \in Range(mainq') : b.op = "attach" => b \in Range(mainq)
  <2>1. mainq \in Seq(Block) /\ Sync("create", NONE, t) \in Block
    BY DEF TypeOK, Sync, Block, BlockOps
  <2>2. Sync("create", NONE, t).op # "attach"
    BY DEF Sync
  <2>3. QED
    BY <2>1, <2>2, RangeAppend DEF LaunchCreate
<1>p. pc[t] = "launch.create" /\ pc'[t] = "launch.spawn" /\ UNCHANGED <<op, key, hand>>
  BY DEF LaunchCreate, Goto, TypeOK
<1>a. \A u \in Threads : u # t => pc'[u] = pc[u] /\ key'[u] = key[u] /\ hand'[u] = hand[u]
  BY DEF LaunchCreate, Goto, TypeOK
<1>b. \A u \in Threads : u # t => Target(u)' = Target(u) /\ Victim(u)' = Victim(u)
  BY <1>a, OtherThreads DEF LaunchCreate, table
<1>c. Target(t) = NONE /\ Target(t)' = NONE /\ Victim(t)' = NONE
  BY <1>p DEF Target, Victim
<1>1. TypeOK'
  BY <1>q DEF TypeOK, LaunchCreate, Goto, PCs, Locked, table, flags, native
<1>2. FocusNamesASession'
  BY DEF FocusNamesASession, LaunchCreate, table
<1>3. LockInv'
  BY <1>a, <1>p DEF LockInv, LaunchCreate, Locked, table
<1>4. ThreadInv'
  BY <1>a, <1>p DEF ThreadInv, LaunchCreate, table
<1>5. OwnerInv'
  BY DEF OwnerInv, LaunchCreate, table
<1>6. LifeInv'
  BY DEF LifeInv, LaunchCreate, HoldsResources, flags, native
<1>7. ResourceInv'
  BY <1>a, <1>p DEF ResourceInv, LaunchCreate, HoldsResources, flags, table
<1>8. InputInv'
  <2>1. native_input' = native_input /\ input_attached' = input_attached
    BY DEF LaunchCreate, native, flags
  <2>2. QED
    BY <1>q, <1>a, <1>b, <1>c, <1>p, <2>1, InputFrame
<1>9. QED
  BY <1>1, <1>2, <1>3, <1>4, <1>5, <1>6, <1>7, <1>8

\* A new session is nobody else's: every session in use is live.
LEMMA LaunchSpawnStep ==
  ASSUME IInv, NEW t \in Threads, LaunchSpawn(t)
  PROVE  IInv'
<1> USE DEF IInv
<1>s. PICK s \in Sess : /\ life[s] = "unused"
                        /\ life' = [life EXCEPT ![s] = "live"]
                        /\ worker' = [worker EXCEPT ![s] = "running"]
                        /\ hand' = [hand EXCEPT ![t] = s]
  BY DEF LaunchSpawn
<1>p. /\ pc[t] = "launch.spawn" /\ pc'[t] = "launch.insert" /\ UNCHANGED <<op, key>>
      /\ hand[t] = NONE /\ hand'[t] = s /\ s # NONE
  BY <1>s, RdpSessionsAssumption DEF LaunchSpawn, Goto, TypeOK, ThreadInv
<1>a. \A u \in Threads : u # t => pc'[u] = pc[u] /\ key'[u] = key[u] /\ hand'[u] = hand[u]
  BY <1>s DEF LaunchSpawn, Goto, TypeOK
<1>b. \A u \in Threads : u # t => Target(u)' = Target(u) /\ Victim(u)' = Victim(u)
  BY <1>a, OtherThreads DEF LaunchSpawn, table
<1>c. Target(t) = NONE /\ Target(t)' = NONE /\ Victim(t)' = NONE
  BY <1>p DEF Target, Victim
<1>l. \A x \in Sess : life'[x] = IF x = s THEN "live" ELSE life[x]
  BY <1>s DEF TypeOK
<1>w. \A x \in Sess : worker'[x] = IF x = s THEN "running" ELSE worker[x]
  BY <1>s DEF TypeOK
<1>u. /\ \A k \in Keys : sessions[k] # s
      /\ \A u \in Threads : hand[u] # s
  BY <1>s, <1>p DEF OwnerInv
<1>1. TypeOK'
  BY <1>s DEF TypeOK, LaunchSpawn, Goto, PCs, Locked, table, flags, native
<1>2. FocusNamesASession'
  BY DEF FocusNamesASession, LaunchSpawn, table
<1>3. LockInv'
  BY <1>a, <1>p DEF LockInv, LaunchSpawn, Locked, table
<1>4. ThreadInv'
  BY <1>a, <1>p DEF ThreadInv, LaunchSpawn, table
<1>5. OwnerInv'
  BY <1>a, <1>p, <1>l, <1>u DEF OwnerInv, LaunchSpawn, table, TypeOK
<1>6. LifeInv'
  BY <1>l, <1>w DEF LifeInv, LaunchSpawn, HoldsResources, flags, native
<1>7. ResourceInv'
  <2>1. ~HoldsResources(s)
    BY <1>s DEF LifeInv
  <2>2. QED
    BY <1>a, <1>p, <2>1 DEF ResourceInv, LaunchSpawn, HoldsResources, flags, table
<1>8. InputInv'
  <2>1. native_input' = native_input /\ input_attached' = input_attached /\ mainq' = mainq
    BY DEF LaunchSpawn, native, flags
  <2>2. QED
    BY <1>a, <1>b, <1>c, <1>p, <2>1, InputFrame
<1>9. QED
  BY <1>1, <1>2, <1>3, <1>4, <1>5, <1>6, <1>7, <1>8

LEMMA LaunchFailStep ==
  ASSUME IInv, NEW t \in Threads, LaunchFail(t)
  PROVE  IInv'
<1> USE DEF IInv
<1>p. pc[t] = "launch.spawn" /\ pc'[t] = "idle"
  BY DEF LaunchFail, Finish, TypeOK
<1>a. \A u \in Threads : u # t => pc'[u] = pc[u] /\ key'[u] = key[u] /\ hand'[u] = hand[u]
  BY DEF LaunchFail, Finish, TypeOK
<1>b. \A u \in Threads : u # t => Target(u)' = Target(u) /\ Victim(u)' = Victim(u)
  BY <1>a, OtherThreads DEF LaunchFail, table
<1>c. Target(t) = NONE /\ Target(t)' = NONE /\ Victim(t)' = NONE
  BY <1>p DEF Target, Victim
<1>1. TypeOK'
  BY RdpSessionsAssumption
     DEF TypeOK, LaunchFail, Finish, PCs, Locked, Ops, table, flags, native
<1>2. FocusNamesASession'
  BY DEF FocusNamesASession, LaunchFail, table
<1>3. LockInv'
  BY <1>a, <1>p DEF LockInv, LaunchFail, Locked, table
<1>4. ThreadInv'
  BY <1>a, <1>p DEF ThreadInv, LaunchFail, table
<1>5. OwnerInv'
  BY DEF OwnerInv, LaunchFail, table
<1>6. LifeInv'
  BY DEF LifeInv, LaunchFail, HoldsResources, flags, native
<1>7. ResourceInv'
  BY <1>a, <1>p DEF ResourceInv, LaunchFail, HoldsResources, flags, table
<1>8. InputInv'
  <2>1. native_input' = native_input /\ input_attached' = input_attached /\ mainq' = mainq
    BY DEF LaunchFail, native, flags
  <2>2. QED
    BY <1>a, <1>b, <1>c, <1>p, <2>1, InputFrame
<1>9. QED
  BY <1>1, <1>2, <1>3, <1>4, <1>5, <1>6, <1>7, <1>8

LEMMA WorkerExitStep ==
  ASSUME IInv, NEW s \in Sess, WorkerExit(s)
  PROVE  IInv'
<1> USE DEF IInv
<1>w. \A x \in Sess : worker'[x] = IF x = s THEN "finished" ELSE worker[x]
  BY DEF WorkerExit, TypeOK
<1>1. TypeOK'
  BY DEF TypeOK, WorkerExit, table, cmds, flags, native
<1>2. /\ FocusNamesASession' /\ LockInv' /\ ThreadInv' /\ OwnerInv'
  BY DEF FocusNamesASession, LockInv, ThreadInv, OwnerInv, WorkerExit, table, cmds
<1>3. LifeInv'
  BY <1>w DEF LifeInv, WorkerExit, HoldsResources, flags, native
<1>4. ResourceInv'
  BY DEF ResourceInv, WorkerExit, HoldsResources, table, cmds, flags
<1>5. InputInv'
  BY DEF InputInv, WorkerExit, Target, Victim, OnScreen, OtherOnScreen, table, cmds, flags, native
<1>6. QED
  BY <1>1, <1>2, <1>3, <1>4, <1>5

\* The status commands of the main thread read the table and change nothing.
LEMMA MainStatusStep ==
  ASSUME IInv, MainStatusBlocks \/ MainStatusDone
  PROVE  IInv'
<1> USE DEF IInv, MainStatusBlocks, MainStatusDone, table, cmds, flags, native
<1>1. TypeOK'
  BY DEF TypeOK
<1>2. FocusNamesASession' /\ LockInv' /\ ThreadInv' /\ OwnerInv' /\ LifeInv' /\ ResourceInv'
  BY DEF FocusNamesASession, LockInv, ThreadInv, OwnerInv, LifeInv, ResourceInv, HoldsResources
<1>3. InputInv'
  BY DEF InputInv, Target, Victim, OnScreen, OtherOnScreen
<1>4. QED
  BY <1>1, <1>2, <1>3

\* Both insertions: the new session, which holds nothing yet, takes the place of
\* whatever a concurrent launch of the key left there.
LEMMA InsertOwners ==
  ASSUME TypeOK, ThreadInv, OwnerInv, LifeInv, NEW t \in Threads,
         pc[t] \in {"launch.insert", "launch.claim"}, Insert(t)
  PROVE  /\ key[t] \in Keys /\ hand[t] \in Sess /\ hand[t] # NONE
         /\ sessions[key[t]] \in Sess \cup {NONE} /\ sessions[key[t]] # hand[t]
         /\ \A k \in Keys : sessions'[k] = IF k = key[t] THEN hand[t] ELSE sessions[k]
         /\ \A s \in Sess : life'[s] = IF s = sessions[key[t]] THEN "dropped" ELSE life[s]
         /\ pc'[t] = "idle" /\ hand'[t] = NONE
         /\ \A u \in Threads : u # t =>
              pc'[u] = pc[u] /\ key'[u] = key[u] /\ hand'[u] = hand[u] /\ op'[u] = op[u]
         /\ OwnerInv'
<1>1. /\ key[t] \in Keys /\ hand[t] \in Sess /\ hand[t] # NONE
      /\ sessions[key[t]] \in Sess \cup {NONE} /\ sessions[key[t]] # hand[t]
  BY DEF ThreadInv, TypeOK, OwnerInv
<1>2. \A k \in Keys : sessions'[k] = IF k = key[t] THEN hand[t] ELSE sessions[k]
  BY DEF Insert, TypeOK
<1>3. \A s \in Sess : life'[s] = IF s = sessions[key[t]] THEN "dropped" ELSE life[s]
  BY RdpSessionsAssumption DEF Insert, TypeOK
<1>4. /\ pc'[t] = "idle" /\ hand'[t] = NONE
      /\ \A u \in Threads : u # t =>
           pc'[u] = pc[u] /\ key'[u] = key[u] /\ hand'[u] = hand[u] /\ op'[u] = op[u]
  BY DEF Insert, Finish, TypeOK
<1>5. OwnerInv'
  <2>1. \A k \in Keys : sessions'[k] # NONE => life'[sessions'[k]] = "live"
    BY <1>1, <1>2, <1>3 DEF OwnerInv, TypeOK
  <2>2. \A u \in Threads : hand'[u] # NONE => life'[hand'[u]] = "live"
    BY <1>1, <1>3, <1>4 DEF OwnerInv, TypeOK
  <2>3. \A j, k \in Keys : sessions'[j] = sessions'[k] /\ j # k => sessions'[j] = NONE
    BY <1>1, <1>2 DEF OwnerInv
  <2>4. \A u, v \in Threads : hand'[u] = hand'[v] /\ u # v => hand'[u] = NONE
    BY <1>4 DEF OwnerInv
  <2>5. \A k \in Keys, u \in Threads : sessions'[k] = hand'[u] => hand'[u] = NONE
    BY <1>1, <1>2, <1>4 DEF OwnerInv
  <2>6. QED
    BY <2>1, <2>2, <2>3, <2>4, <2>5 DEF OwnerInv
<1>6. QED
  BY <1>1, <1>2, <1>3, <1>4, <1>5

LEMMA LaunchInsertStep ==
  ASSUME IInv, NEW t \in Threads, LaunchInsert(t)
  PROVE  IInv'
<1> USE DEF IInv
<1>i. /\ key[t] \in Keys /\ hand[t] \in Sess /\ hand[t] # NONE
      /\ sessions[key[t]] \in Sess \cup {NONE} /\ sessions[key[t]] # hand[t]
      /\ \A k \in Keys : sessions'[k] = IF k = key[t] THEN hand[t] ELSE sessions[k]
      /\ \A s \in Sess : life'[s] = IF s = sessions[key[t]] THEN "dropped" ELSE life[s]
      /\ pc'[t] = "idle" /\ hand'[t] = NONE
      /\ \A u \in Threads : u # t =>
           pc'[u] = pc[u] /\ key'[u] = key[u] /\ hand'[u] = hand[u] /\ op'[u] = op[u]
      /\ OwnerInv'
  BY InsertOwners DEF LaunchInsert
<1>q. /\ mainq' \in Seq(Block)
      /\ Range(mainq) \subseteq Range(mainq')
      /\ \A b \in Range(mainq') : b.op = "attach" => b \in Range(mainq)
  <2>1. mainq \in Seq(Block) /\ DropBlocks(sessions[key[t]]) \in Seq(Block)
    BY <1>i, TailBlocksEffect DEF TypeOK
  <2>2. QED
    BY <1>i, <2>1, RangeConcat, TailBlocksEffect DEF LaunchInsert
<1>b. \A u \in Threads : u # t => Target(u)' = Target(u) /\ Victim(u)' = Victim(u)
  BY <1>i, OtherThreads DEF LaunchInsert
<1>c. Target(t) = NONE /\ Target(t)' = NONE /\ Victim(t)' = NONE
  BY <1>i DEF LaunchInsert, Target, Victim
<1>d. \A u \in Threads : pc[u] \notin Locked
  BY RdpSessionsAssumption DEF LaunchInsert, LockInv
<1>1. TypeOK'
  BY <1>q, <1>i, RdpSessionsAssumption
     DEF TypeOK, LaunchInsert, Insert, Finish, PCs, Ops, Locked, flags, native
<1>2. FocusNamesASession'
  BY <1>i DEF FocusNamesASession, LaunchInsert, TypeOK
<1>3. LockInv'
  BY <1>i, <1>d, RdpSessionsAssumption DEF LockInv, LaunchInsert, Locked
<1>4. ThreadInv'
  BY <1>i, <1>d DEF ThreadInv, LaunchInsert, Locked
<1>6. LifeInv'
  BY <1>i DEF LifeInv, LaunchInsert, HoldsResources, flags, native
<1>7. ResourceInv'
  <2>1. ~HoldsResources(hand[t])
    BY DEF ResourceInv, LaunchInsert
  <2>2. QED
    BY <1>i, <1>d, <2>1 DEF ResourceInv, LaunchInsert, HoldsResources, flags, Locked
<1>8. InputInv'
  <2>1. native_input' = native_input /\ input_attached' = input_attached
    BY DEF LaunchInsert, native, flags
  <2>2. QED
    BY <1>q, <1>b, <1>c, <1>i, <2>1, InputFrame
<1>9. QED
  BY <1>1, <1>2, <1>3, <1>4, <1>i, <1>6, <1>7, <1>8

LEMMA LaunchDoneStep ==
  ASSUME IInv, NEW t \in Threads, LaunchDone(t)
  PROVE  IInv'
<1> USE DEF IInv
<1> DEFINE mine == hand[t]
<1>i. /\ key[t] \in Keys /\ mine \in Sess /\ mine # NONE
      /\ sessions[key[t]] \in Sess \cup {NONE} /\ sessions[key[t]] # mine
      /\ \A k \in Keys : sessions'[k] = IF k = key[t] THEN mine ELSE sessions[k]
      /\ \A s \in Sess : life'[s] = IF s = sessions[key[t]] THEN "dropped" ELSE life[s]
      /\ pc'[t] = "idle" /\ hand'[t] = NONE
      /\ \A u \in Threads : u # t =>
           pc'[u] = pc[u] /\ key'[u] = key[u] /\ hand'[u] = hand[u] /\ op'[u] = op[u]
      /\ OwnerInv'
  BY InsertOwners DEF LaunchDone
<1>k. lock = t
  BY DEF LaunchDone, LockInv, Locked
<1>q. /\ mainq' \in Seq(Block)
      /\ Range(mainq) \subseteq Range(mainq')
      /\ \A b \in Range(mainq') : b.op = "attach" => b \in Range(mainq)
  <2>1. /\ mainq \in Seq(Block) /\ SyncStart(mine) \in Seq(Block)
        /\ DropBlocks(sessions[key[t]]) \in Seq(Block)
    BY <1>i, TailBlocksEffect DEF TypeOK
  <2>2. /\ mainq' \in Seq(Block)
        /\ Range(mainq') = Range(mainq) \cup Range(SyncStart(mine))
                             \cup Range(DropBlocks(sessions[key[t]]))
    BY <2>1, RangeConcat3 DEF LaunchDone
  <2>3. QED
    BY <1>i, <2>2, TailBlocksEffect
<1>f. /\ input_attached' = [input_attached EXCEPT ![mine] = TRUE]
      /\ clipboard_active' = [clipboard_active EXCEPT ![mine] = TRUE]
  BY DEF LaunchDone, SetFlags
<1>b. \A u \in Threads : u # t => Target(u)' = Target(u) /\ Victim(u)' = Victim(u)
  BY <1>i, <1>k, OtherThreads
<1>c. Target(t) = mine /\ Target(t)' = NONE /\ Victim(t)' = NONE
  BY <1>i DEF LaunchDone, Target, Victim
<1>d. \A u \in Threads : u # t => pc[u] \notin Locked
  BY <1>k DEF LockInv
<1>l. life[mine] = "live" /\ life'[mine] = "live"
  BY <1>i DEF OwnerInv
<1>1. TypeOK'
  BY <1>q, <1>f, <1>i, RdpSessionsAssumption
     DEF TypeOK, LaunchDone, Insert, Finish, PCs, Ops, Locked, native
<1>2. FocusNamesASession'
  BY <1>i DEF FocusNamesASession, LaunchDone
<1>3. LockInv'
  BY <1>i, <1>d, RdpSessionsAssumption DEF LockInv, LaunchDone, Locked
<1>4. ThreadInv'
  BY <1>i, <1>d DEF ThreadInv, LaunchDone, Locked
<1>6. LifeInv'
  <2>1. \A s \in Sess : life'[s] = "unused" => ~(input_attached'[s] \/ clipboard_active'[s])
    BY <1>l, <1>f, <1>i DEF LifeInv, HoldsResources, TypeOK
  <2>2. QED
    BY <1>i, <2>1 DEF LifeInv, LaunchDone, HoldsResources, native
<1>7. ResourceInv'
  <2>1. \A s \in Sess : s # mine /\ (input_attached'[s] \/ clipboard_active'[s]) => HoldsResources(s)
    BY <1>i, <1>f DEF HoldsResources, TypeOK
  <2>2. \A k \in Keys : k # key[t] /\ sessions[k] # NONE
          => ~(input_attached'[sessions[k]] \/ clipboard_active'[sessions[k]])
    BY <2>1, <1>i DEF ResourceInv, OwnerInv, TypeOK, LaunchDone
  <2>3. \A u \in Threads :
          pc'[u] \in {"shutdown.join", "launch.insert", "launch.yield2", "launch.claim"}
            => ~(input_attached'[hand'[u]] \/ clipboard_active'[hand'[u]])
    <3> SUFFICES ASSUME NEW u \in Threads,
                        pc'[u] \in {"shutdown.join", "launch.insert", "launch.yield2", "launch.claim"}
                 PROVE  ~(input_attached'[hand'[u]] \/ clipboard_active'[hand'[u]])
      OBVIOUS
    <3>1. u # t /\ pc[u] \in {"shutdown.join", "launch.insert", "launch.yield2", "launch.claim"}
      BY <1>i
    <3>2. hand[u] \in Sess /\ hand[u] # mine
      BY <3>1, <1>i DEF ThreadInv, OwnerInv, TypeOK
    <3>3. QED
      BY <2>1, <3>1, <3>2, <1>i DEF ResourceInv
  <2>4. \A u \in Threads : pc'[u] \notin {"focus.claim", "launch.claim"}
    BY <1>d, <1>i DEF Locked
  <2>5. QED
    BY <2>2, <2>3, <2>4, <1>i DEF ResourceInv, LaunchDone, HoldsResources
<1>8. InputInv'
  <2>1. \A s \in native_input : input_attached[s] \/ s = Target(t) => input_attached'[s]
    BY <1>c, <1>f, <1>i, RdpSessionsAssumption DEF TypeOK, InputInv
  <2>2. Returned(t) /\ native_input' = native_input
    BY DEF LaunchDone, native
  <2>3. QED
    BY <1>q, <1>i, <1>b, <1>c, <2>1, <2>2, InputFrame
<1>9. QED
  BY <1>1, <1>2, <1>3, <1>4, <1>i, <1>6, <1>7, <1>8

\* The main thread changes only AppKit's own state.  An attach block is that of
\* the thread claiming the screen, so its session is in nobody's teardown.
LEMMA MainRunStep ==
  ASSUME IInv, MainRun
  PROVE  IInv'
<1> USE DEF IInv
<1> DEFINE b == Head(mainq)
<1>q. /\ mainq \in Seq(Block) /\ mainq' \in Seq(Block) /\ b \in Block
      /\ Range(mainq) = {b} \cup Range(mainq')
  BY RangeTail DEF MainRun, TypeOK
<1>t. b.op \in BlockOps /\ b.s \in Sess \cup {NONE} /\ b.from \in Threads \cup {NONE}
  BY <1>q DEF Block
<1>n. /\ b.op = "attach" => native_input' = native_input \cup {b.s}
      /\ b.op # "attach" => native_input' \subseteq native_input
      /\ b.op = "detach" => b.s \notin native_input'
  BY DEF MainRun, RunOnView
<1>a. b.op = "attach" => b.from \in Threads /\ Target(b.from) = b.s /\ b.s # NONE
  BY <1>q DEF InputInv
<1>o. \A u \in Threads : Target(u) # NONE =>
        /\ life[Target(u)] = "live"
        /\ \A v \in Threads : Victim(v) # Target(u)
        /\ \A v \in Threads : pc[v] = "shutdown.join" => hand[v] # Target(u)
  <2> SUFFICES ASSUME NEW u \in Threads, Target(u) # NONE
               PROVE  /\ life[Target(u)] = "live"
                      /\ \A v \in Threads : Victim(v) # Target(u)
                      /\ \A v \in Threads : pc[v] = "shutdown.join" => hand[v] # Target(u)
    OBVIOUS
  <2>1. /\ pc[u] \in {"focus.claim", "launch.claim"} /\ key[u] \in Keys
        /\ \/ Target(u) = sessions[key[u]]
           \/ pc[u] = "launch.claim" /\ Target(u) = hand[u]
    BY DEF Target, ThreadInv
  <2>2. \A v \in Threads : v # u => pc[v] \notin Locked
    BY <2>1 DEF LockInv, Locked
  <2>3. \A v \in Threads : Victim(v) = NONE \/ (v # u /\ pc[v] = "shutdown.detach" /\ Victim(v) = hand[v])
    BY <2>1, <2>2 DEF Victim, Locked
  <2>4. \A v \in Threads : v # u /\ hand[v] # NONE => hand[v] # Target(u)
    BY <2>1 DEF OwnerInv
  <2>5. life[Target(u)] = "live"
    BY <2>1 DEF OwnerInv
  <2>6. \A v \in Threads : pc[v] = "shutdown.join" => hand[v] # Target(u)
    BY <2>1, <2>4 DEF ThreadInv
  <2>7. QED
    BY <2>3, <2>4, <2>5, <2>6
<1>s. \A u \in Threads : Target(u)' = Target(u) /\ Victim(u)' = Victim(u)
  BY DEF MainRun, Target, Victim, OnScreen, OtherOnScreen, table, cmds
<1>1. TypeOK'
  <2>1. /\ mounted' \subseteq Sess \cup {NONE} /\ native_input' \subseteq Sess \cup {NONE}
        /\ gone' \subseteq Sess \cup {NONE} /\ clipSession' \in Sess \cup {NONE}
    BY <1>t DEF MainRun, RunOnView, RunOnClipboard, TypeOK
  <2>2. QED
    BY <2>1, <1>q DEF TypeOK, MainRun, table, cmds, flags
<1>2. FocusNamesASession' /\ LockInv' /\ ThreadInv' /\ OwnerInv' /\ ResourceInv'
  BY DEF FocusNamesASession, LockInv, ThreadInv, OwnerInv, ResourceInv, HoldsResources,
         MainRun, table, cmds, flags
<1>3. LifeInv'
  <2>1. \A s \in Sess : life[s] \in {"unused", "destroyed"} /\ s \in native_input' => s \in native_input
    BY <1>n, <1>a, <1>o
  <2>2. QED
    BY <2>1 DEF LifeInv, MainRun, HoldsResources, flags
<1>4. InputInv'
  <2>1. \A s \in native_input' :
          s # NONE /\ (input_attached'[s] \/ \E t \in Threads : Target(t)' = s)
    BY <1>n, <1>a, <1>s DEF InputInv, MainRun, flags
  <2>2. \A c \in Range(mainq') : c.op = "attach" =>
          c.from \in Threads /\ Target(c.from)' = c.s /\ c.s # NONE
    BY <1>q, <1>s DEF InputInv
  <2>3. \A t \in Threads : Victim(t)' # NONE =>
          Victim(t)' \notin native_input' \/ Sync("detach", Victim(t)', t) \in Range(mainq')
    <3> SUFFICES ASSUME NEW t \in Threads, Victim(t) # NONE, Victim(t) \in native_input'
                 PROVE  Sync("detach", Victim(t), t) \in Range(mainq')
      BY <1>s
    <3>1. Victim(t) \in native_input
      BY <1>n, <1>a, <1>o
    <3>2. Sync("detach", Victim(t), t) \in Range(mainq)
      BY <3>1 DEF InputInv
    <3>3. Sync("detach", Victim(t), t) # b
      BY <1>n DEF Sync
    <3>4. QED
      BY <3>2, <3>3, <1>q
  <2>4. \A t \in Threads : pc[t] = "shutdown.join" => hand[t] \notin native_input'
    BY <1>n, <1>a, <1>o DEF InputInv
  <2>5. QED
    BY <2>1, <2>2, <2>3, <2>4 DEF InputInv, MainRun, cmds
<1>5. QED
  BY <1>1, <1>2, <1>3, <1>4

-----------------------------------------------------------------------------
(* The invariant and the properties it implies.                             *)

LEMMA InitEstablishes == Init => IInv
<1> SUFFICES ASSUME Init PROVE IInv
  OBVIOUS
<1> USE RdpSessionsAssumption DEF Init
<1>1. <<>> \in Seq(Block) /\ Range(<<>>) = {}
  BY DEF Range
<1>2. TypeOK
  BY <1>1 DEF TypeOK, PCs, Ops, Locked
<1>3. FocusNamesASession /\ LockInv /\ ThreadInv /\ OwnerInv
  BY DEF FocusNamesASession, LockInv, ThreadInv, OwnerInv, Locked
<1>4. LifeInv /\ ResourceInv
  BY DEF LifeInv, ResourceInv, HoldsResources
<1>5. InputInv
  BY <1>1 DEF InputInv, Victim
<1>6. QED
  BY <1>2, <1>3, <1>4, <1>5 DEF IInv

LEMMA NextPreserves == IInv /\ [Next]_vars => IInv'
<1> SUFFICES ASSUME IInv, [Next]_vars PROVE IInv'
  OBVIOUS
<1>1. ASSUME NEW t \in Threads, Begin(t) PROVE IInv'
  BY <1>1, HideAllStep, FocusStep, CloseStep, LaunchBackgroundStep, LaunchFocusedStep DEF Begin
<1>2. ASSUME NEW t \in Threads, Continue(t) PROVE IInv'
  <2>1. CASE FocusClaim(t) \/ FocusDone(t) \/ HideDone(t)
    BY <2>1, FocusClaimStep, FocusDoneStep, HideDoneStep
  <2>2. CASE ShutdownBegin(t) \/ ShutdownYield(t)
    BY <2>2, ShutdownBeginStep, ShutdownYieldStep
  <2>3. CASE ShutdownJoined(t)
    BY <2>3, ReleaseStep DEF ShutdownJoined
  <2>4. CASE ShutdownAbandon(t)
    BY <2>4, ReleaseStep DEF ShutdownAbandon
  <2>5. CASE LaunchYield(t) \/ LaunchCreate(t) \/ LaunchSpawn(t) \/ LaunchFail(t)
    BY <2>5, LaunchYieldStep, LaunchCreateStep, LaunchSpawnStep, LaunchFailStep
  <2>6. CASE LaunchInsert(t) \/ LaunchRelock(t) \/ LaunchClaim(t) \/ LaunchDone(t)
    BY <2>6, LaunchInsertStep, LaunchRelockStep, LaunchClaimStep, LaunchDoneStep
  <2>7. QED
    BY <1>2, <2>1, <2>2, <2>3, <2>4, <2>5, <2>6 DEF Continue
<1>3. ASSUME NEW s \in Sess, WorkerExit(s) PROVE IInv'
  BY <1>3, WorkerExitStep
<1>4. CASE Main
  BY <1>4, MainRunStep, MainStatusStep DEF Main
<1>5. CASE UNCHANGED vars
  BY <1>5 DEF IInv, TypeOK, FocusNamesASession, LockInv, ThreadInv, OwnerInv, LifeInv,
              ResourceInv, InputInv, HoldsResources, Target, Victim, OnScreen, OtherOnScreen,
              vars, table, cmds, flags, native
<1>6. QED
  BY <1>1, <1>2, <1>3, <1>4, <1>5 DEF Next

\* The inductive invariant holds in every reachable state, for any devices,
\* sessions and threads: the code's lock discipline (session.rs, the comments of
\* `sessions` and `focused`) together with the handshakes with the main thread.
THEOREM Invariance == Spec => []IInv
<1>1. Init => IInv
  BY InitEstablishes
<1>2. IInv /\ [Next]_vars => IInv'
  BY NextPreserves
<1>3. QED
  BY <1>1, <1>2, PTL DEF Spec

\* The manager's variables keep their types (RdpSessionManager, RdpSession).
THEOREM TypeCorrect == Spec => []TypeOK
<1>1. IInv => TypeOK
  BY DEF IInv
<1>2. QED
  BY <1>1, Invariance, PTL

\* The focus marker names a key with a session, for any interleaving of focus,
\* hide, close and launch.
THEOREM MarkerIsSound == Spec => []FocusNamesASession
<1>1. IInv => FocusNamesASession
  BY DEF IInv
<1>2. QED
  BY <1>1, Invariance, PTL

\* Background sessions run headless: outside a critical section, only the focused
\* session forwards input or owns the clipboard flag.
THEOREM BackgroundIsHeadless == Spec => []OnlyFocusedHoldsResources
<1>1. IInv => OnlyFocusedHoldsResources
  BY DEF IInv, ResourceInv, OnlyFocusedHoldsResources, HoldsResources
<1>2. QED
  BY <1>1, Invariance, PTL

\* Nothing reaches a C session that jr_session_destroy has freed: shutdown's
\* order, input stopped, worker joined, session freed, is enough.
THEOREM NoUseAfterDestroy == Spec => []FreedSessionUnreachable
<1>1. IInv => FreedSessionUnreachable
  <2> SUFFICES ASSUME IInv, NEW s \in Sess, life[s] = "destroyed"
               PROVE  /\ worker[s] = "finished"
                      /\ s \notin native_input
                      /\ \A k \in Keys : sessions[k] # s
                      /\ \A t \in Threads : hand[t] # s
    BY DEF FreedSessionUnreachable
  <2>1. s # NONE
    BY RdpSessionsAssumption
  <2>2. QED
    BY <2>1 DEF IInv, LifeInv, OwnerInv
<1>2. QED
  BY <1>1, Invariance, PTL

-----------------------------------------------------------------------------
(* The screen that the queue leaves: what a batch of blocks does to it.      *)

\* A batch brings a view to the window, or leaves it there without hiding it.
LEMMA EndsConcat ==
  ASSUME NEW now, NEW q \in Seq(Block), NEW r \in Seq(Block), NEW s, EndsMounted(now, q \o r, s)
  PROVE  \/ \E b \in Range(r) : Shows(b, s)
         \/ EndsMounted(now, q, s) /\ \A b \in Range(r) : ~Hides(b, s)
<1> DEFINE p == q \o r
<1>1. /\ DOMAIN p = 1 .. Len(q) + Len(r) /\ DOMAIN q = 1 .. Len(q) /\ DOMAIN r = 1 .. Len(r)
      /\ Len(q) \in Nat /\ Len(r) \in Nat
      /\ \A i \in 1 .. Len(q) : p[i] = q[i]
      /\ \A i \in 1 .. Len(r) : p[Len(q) + i] = r[i]
  OBVIOUS
<1>2. Range(p) = Range(q) \cup Range(r)
  BY RangeConcat
<1>3. EndsMounted(now, p, s)
  OBVIOUS
<1> HIDE DEF p
<1>4. CASE s \in now /\ \A b \in Range(p) : ~Hides(b, s)
  BY <1>2, <1>4 DEF EndsMounted
<1>5. CASE \E i \in DOMAIN p : Shows(p[i], s) /\ \A j \in DOMAIN p : j > i => ~Hides(p[j], s)
  <2>1. PICK i \in DOMAIN p : Shows(p[i], s) /\ \A j \in DOMAIN p : j > i => ~Hides(p[j], s)
    BY <1>5
  <2>2. CASE i > Len(q)
    <3>1. i - Len(q) \in 1 .. Len(r) /\ i = Len(q) + (i - Len(q))
      BY <1>1, <2>2
    <3>2. r[i - Len(q)] = p[i] /\ r[i - Len(q)] \in Range(r)
      BY <1>1, <3>1 DEF Range
    <3>3. QED
      BY <2>1, <3>2
  <2>3. CASE i <= Len(q)
    <3>1. i \in DOMAIN q /\ Shows(q[i], s)
      BY <1>1, <2>1, <2>3
    <3>2. ASSUME NEW j \in DOMAIN q, j > i PROVE ~Hides(q[j], s)
      <4>1. j \in DOMAIN p /\ p[j] = q[j]
        BY <1>1, <3>2
      <4>2. QED
        BY <2>1, <3>2, <4>1
    <3>3. ASSUME NEW j \in DOMAIN r PROVE ~Hides(r[j], s)
      <4>1. Len(q) + j \in DOMAIN p /\ Len(q) + j > i /\ p[Len(q) + j] = r[j]
        BY <1>1, <2>3
      <4>2. QED
        BY <2>1, <4>1
    <3>4. \A b \in Range(r) : ~Hides(b, s)
      BY <3>3 DEF Range
    <3>5. QED
      BY <3>1, <3>2, <3>4 DEF EndsMounted
  <2>4. QED
    BY <1>1, <2>2, <2>3
<1>6. QED
  BY <1>3, <1>4, <1>5 DEF EndsMounted

\* Running the oldest block changes nothing of what the queue comes to.
LEMMA EndsTail ==
  ASSUME NEW now, NEW q \in Seq(Block), q # <<>>, NEW s, NEW then,
         s \in then => Shows(Head(q), s) \/ (s \in now /\ ~Hides(Head(q), s)),
         EndsMounted(then, Tail(q), s)
  PROVE  EndsMounted(now, q, s)
<1> DEFINE p == Tail(q)
<1>1. /\ DOMAIN q = 1 .. Len(q) /\ DOMAIN p = 1 .. Len(q) - 1 /\ Len(q) \in Nat \ {0}
      /\ q[1] = Head(q)
      /\ \A i \in 1 .. Len(q) - 1 : p[i] = q[i + 1]
  OBVIOUS
<1>2. Range(q) = {Head(q)} \cup Range(p)
  BY RangeTail
<1>3. EndsMounted(then, p, s)
  OBVIOUS
<1> HIDE DEF p
<1>4. CASE s \in then /\ \A b \in Range(p) : ~Hides(b, s)
  <2>1. CASE Shows(Head(q), s)
    <3>1. ASSUME NEW j \in DOMAIN q, j > 1 PROVE ~Hides(q[j], s)
      <4>1. j - 1 \in DOMAIN p /\ p[j - 1] = q[j]
        BY <1>1, <3>1
      <4>2. QED
        BY <1>4, <4>1 DEF Range
    <3>2. QED
      BY <1>1, <2>1, <3>1 DEF EndsMounted
  <2>2. CASE s \in now /\ ~Hides(Head(q), s)
    BY <1>2, <1>4, <2>2 DEF EndsMounted
  <2>3. QED
    BY <1>4, <2>1, <2>2
<1>5. CASE \E i \in DOMAIN p : Shows(p[i], s) /\ \A j \in DOMAIN p : j > i => ~Hides(p[j], s)
  <2>1. PICK i \in DOMAIN p : Shows(p[i], s) /\ \A j \in DOMAIN p : j > i => ~Hides(p[j], s)
    BY <1>5
  <2>2. i + 1 \in DOMAIN q /\ Shows(q[i + 1], s)
    BY <1>1, <2>1
  <2>3. ASSUME NEW j \in DOMAIN q, j > i + 1 PROVE ~Hides(q[j], s)
    <3>1. j - 1 \in DOMAIN p /\ j - 1 > i /\ p[j - 1] = q[j]
      BY <1>1, <2>3
    <3>2. QED
      BY <2>1, <3>1
  <2>4. QED
    BY <2>2, <2>3 DEF EndsMounted
<1>6. QED
  BY <1>3, <1>4, <1>5 DEF EndsMounted

\* What each batch shows and hides.
LEMMA OneBlock == ASSUME NEW b \in Block PROVE <<b>> \in Seq(Block) /\ Range(<<b>>) = {b}
BY DEF Range

\* The elements of a batch that is written out.
LEMMA Batches ==
  /\ Range(<<>>) = {}
  /\ \A a : Range(<<a>>) = {a}
  /\ \A a, b : Range(<<a, b>>) = {a, b}
<1>1. Range(<<>>) = {}
  BY DEF Range
<1>2. ASSUME NEW a PROVE Range(<<a>>) = {a}
  BY DEF Range
<1>3. ASSUME NEW a, NEW b PROVE Range(<<a, b>>) = {a, b}
  BY DEF Range
<1>4. QED
  BY <1>1, <1>2, <1>3

LEMMA YieldHides ==
  ASSUME NEW s \in Sess \cup {NONE}
  PROVE  /\ \A x : \A b \in Range(YieldBlocks(s)) : ~Shows(b, x)
         /\ s # NONE => \E b \in Range(YieldBlocks(s)) : Hides(b, s)
<1> DEFINE stop == Async("clipStop", NONE)
           unm == Async("unmount", s)
<1>1. Range(<<>>) = {} /\ Range(<<unm>>) = {unm} /\ Range(<<stop, unm>>) = {stop, unm}
  BY Batches
<1>2. Hides(unm, s) /\ \A x : ~Shows(unm, x) /\ ~Shows(stop, x)
  BY DEF Async, Shows, Hides
<1>3. YieldBlocks(s) = (IF s = NONE THEN <<>>
                        ELSE IF clipboard_active[s] THEN <<stop, unm>> ELSE <<unm>>)
  BY DEF YieldBlocks
<1> HIDE DEF stop, unm
<1>4. QED
  BY <1>1, <1>2, <1>3

LEMMA ClaimShows ==
  ASSUME NEW s, NEW t
  PROVE  \A x : \A b \in Range(ClaimBlocks(s, t)) : Shows(b, x) => x = s
<1> DEFINE mnt == Async("mount", s)
           att == Sync("attach", s, t)
<1>1. Range(<<mnt, att>>) = {mnt, att}
  BY Batches
<1>2. \A x : ~Shows(att, x) /\ (Shows(mnt, x) => x = s)
  BY DEF Async, Sync, Shows
<1>3. ClaimBlocks(s, t) = <<mnt, att>>
  BY DEF ClaimBlocks
<1> HIDE DEF mnt, att
<1>4. QED
  BY <1>1, <1>2, <1>3

LEMMA TailBlocksHide ==
  ASSUME NEW s
  PROVE  /\ \A x : \A b \in Range(SyncStart(s)) : ~Shows(b, x)
         /\ \A x : \A b \in Range(DropBlocks(s)) : ~Shows(b, x)
         /\ s # NONE => \E b \in Range(DropBlocks(s)) : b.op = "destroy" /\ Hides(b, s) /\ b.s = s
<1> DEFINE start == Async("clipStart", s)
           destroy == Async("destroy", s)
<1>1. Range(<<>>) = {} /\ Range(<<start>>) = {start} /\ Range(<<destroy>>) = {destroy}
  BY Batches
<1>2. /\ \A x : ~Shows(start, x) /\ ~Shows(destroy, x)
      /\ Hides(destroy, s) /\ destroy.op = "destroy" /\ destroy.s = s
  BY DEF Async, Shows, Hides
<1>3. /\ SyncStart(s) = (IF clipboard_active[s] THEN <<>> ELSE <<start>>)
      /\ DropBlocks(s) = (IF s = NONE THEN <<>> ELSE <<destroy>>)
  BY DEF SyncStart, DropBlocks
<1> HIDE DEF start, destroy
<1>4. QED
  BY <1>1, <1>2, <1>3

\* A queue that grew by blocks which show nothing ends with no more views.
Quiet(x) == EndsMounted(mounted', mainq', x) => EndsMounted(mounted, mainq, x)

LEMMA QuietAppend ==
  ASSUME TypeOK, NEW b \in Block, \A x : ~Shows(b, x),
         mainq' = Append(mainq, b), mounted' = mounted
  PROVE  /\ mainq \in Seq(Block) /\ mainq' \in Seq(Block)
         /\ Range(mainq') = Range(mainq) \cup {b}
         /\ \A x : Quiet(x)
<1>1. mainq \in Seq(Block)
  BY DEF TypeOK
<1>0. mainq' = mainq \o <<b>>
  BY <1>1
<1>2. \A x : EndsMounted(mounted, mainq \o <<b>>, x) => EndsMounted(mounted, mainq, x)
  BY <1>1, OneBlock, EndsConcat
<1>3. Append(mainq, b) \in Seq(Block) /\ Range(Append(mainq, b)) = Range(mainq) \cup {b}
  BY <1>1, RangeAppend
<1>4. \A x : Quiet(x)
  BY <1>0, <1>2 DEF Quiet
<1>5. QED
  BY <1>1, <1>3, <1>4

LEMMA QuietDetach ==
  ASSUME TypeOK, NEW t \in Threads, NEW s \in Sess \cup {NONE}, QueueDetach(t, s), mounted' = mounted
  PROVE  Range(mainq) \subseteq Range(mainq') /\ \A x : Quiet(x)
<1>1. Sync("detach", s, t) \in Block /\ \A x : ~Shows(Sync("detach", s, t), x)
  BY DEF Sync, Block, BlockOps, Shows
<1>2. CASE s # NONE /\ input_attached[s]
  BY <1>1, <1>2, QuietAppend DEF QueueDetach
<1>3. CASE ~(s # NONE /\ input_attached[s])
  BY <1>3 DEF QueueDetach, Quiet
<1>4. QED
  BY <1>2, <1>3

-----------------------------------------------------------------------------
(* What a step has to keep for ScreenInv.                                   *)

LEMMA MountFrame ==
  ASSUME MountInv, NEW t \in Threads,
         \A u \in Threads : u # t =>
           pc'[u] = pc[u] /\ hand'[u] = hand[u] /\ Target(u)' = Target(u),
         \A s \in Sess \cup {NONE} : EndsMounted(mounted', mainq', s) =>
           EndsMounted(mounted, mainq, s) \/ (s # NONE /\ Target(t)' = s),
         \A s \in Sess :
           EndsMounted(mounted', mainq', s) /\ s # NONE /\ (KeepsScreen(s) \/ Works(t, s)) =>
             KeepsScreen(s)' \/ InTransit(s)'
  PROVE  MountInv'
<1>1. ASSUME NEW s, NEW u \in Threads, u # t, Works(u, s) PROVE Works(u, s)'
  BY <1>1 DEF Works
<1>2. ASSUME NEW s \in Sess \cup {NONE}, EndsMounted(mounted', mainq', s)
      PROVE  s # NONE /\ (KeepsScreen(s)' \/ InTransit(s)')
  <2>1. CASE s # NONE /\ Target(t)' = s
    BY <2>1 DEF InTransit, Works
  <2>2. CASE EndsMounted(mounted, mainq, s)
    <3>1. s # NONE /\ s \in Sess /\ (KeepsScreen(s) \/ InTransit(s))
      BY <2>2 DEF MountInv
    <3>2. CASE KeepsScreen(s) \/ Works(t, s)
      BY <1>2, <3>1, <3>2
    <3>3. CASE \E u \in Threads : u # t /\ Works(u, s)
      BY <1>1, <3>1, <3>3 DEF InTransit
    <3>4. QED
      BY <3>1, <3>2, <3>3 DEF InTransit
  <2>3. QED
    BY <1>2, <2>1, <2>2
<1>3. QED
  BY <1>2 DEF MountInv

LEMMA EndedFrame ==
  ASSUME EndedInv, native_input' = native_input,
         Range(mainq) \subseteq Range(mainq'),
         \A s \in Sess : life'[s] = life[s],
         \A s \in Sess : life[s] # "live" /\ HoldsResources(s)' => HoldsResources(s),
         \A s \in Sess : life[s] = "live" => Owned(s)'
  PROVE  EndedInv'
BY DEF EndedInv

\* A step that brings no view nearer the window, and takes no session anywhere.
LEMMA QuietStep ==
  ASSUME IInv, ScreenInv, NEW t \in Threads,
         UNCHANGED <<sessions, focused, hand, life, flags, native>>,
         Range(mainq) \subseteq Range(mainq'), \A x : Quiet(x),
         \A u \in Threads : u # t => pc'[u] = pc[u] /\ key'[u] = key[u],
         pc[t] \notin Claiming, pc'[t] \notin Claiming,
         pc[t] \in {"shutdown.begin", "shutdown.detach"} =>
           pc'[t] \in {"shutdown.begin", "shutdown.detach"}
  PROVE  ScreenInv'
<1>1. \A u \in Threads : u # t => Target(u)' = Target(u)
  BY DEF Target
<1>2. ASSUME NEW s \in Sess, s # NONE
      PROVE  (KeepsScreen(s) => KeepsScreen(s)') /\ (Works(t, s) => Works(t, s)')
  BY <1>2 DEF KeepsScreen, OnScreen, Works, Target, Claiming
<1>3. MountInv'
  <2>1. MountInv /\ \A u \in Threads : u # t => hand'[u] = hand[u]
    BY DEF ScreenInv
  <2>2. \A s \in Sess \cup {NONE} :
          EndsMounted(mounted', mainq', s) => EndsMounted(mounted, mainq, s)
    BY DEF Quiet
  <2>3. \A s \in Sess : s # NONE /\ (KeepsScreen(s) \/ Works(t, s)) =>
          KeepsScreen(s)' \/ InTransit(s)'
    <3>1. ASSUME NEW s \in Sess, s # NONE, KeepsScreen(s) \/ Works(t, s)
          PROVE  KeepsScreen(s)' \/ InTransit(s)'
      <4>1. KeepsScreen(s)' \/ Works(t, s)'
        BY <1>2, <3>1
      <4>2. Works(t, s)' => InTransit(s)'
        BY DEF InTransit
      <4>3. QED
        BY <4>1, <4>2
    <3>2. QED
      BY <3>1
  <2>4. QED
    BY <1>1, <2>1, <2>2, <2>3, MountFrame
<1>4. EndedInv'
  <2>1. /\ EndedInv /\ native_input' = native_input
        /\ \A s \in Sess : life'[s] = life[s] /\ (HoldsResources(s)' => HoldsResources(s))
    BY DEF ScreenInv, HoldsResources, flags, native
  <2>2. \A s \in Sess : life[s] = "live" => Owned(s)'
    BY <2>1 DEF EndedInv, Owned
  <2>3. QED
    BY <2>1, <2>2, EndedFrame
<1>5. QED
  BY <1>3, <1>4 DEF ScreenInv

LEMMA QuietSteps ==
  ASSUME IInv, ScreenInv, NEW t \in Threads,
         \/ \E k \in Keys : Focus(t, k) \/ LaunchFocused(t, k)
         \/ HideAll(t) \/ LaunchRelock(t) \/ ShutdownBegin(t)
         \/ LaunchCreate(t) \/ LaunchFail(t)
  PROVE  ScreenInv'
<1> USE DEF IInv
<1>1. OnScreen \in Sess \cup {NONE} /\ \A k \in Keys : OtherOnScreen(k) \in Sess \cup {NONE}
  BY DEF TypeOK, OnScreen, OtherOnScreen
<1>2. ASSUME NEW k \in Keys, Focus(t, k) PROVE ScreenInv'
  <2>1. Range(mainq) \subseteq Range(mainq') /\ \A x : Quiet(x)
    BY <1>1, <1>2, QuietDetach DEF Focus, native
  <2>2. QED
    BY <1>2, <2>1, QuietStep DEF Focus, Start, TypeOK, Claiming
<1>3. ASSUME NEW k \in Keys, LaunchFocused(t, k) PROVE ScreenInv'
  <2>1. Range(mainq) \subseteq Range(mainq') /\ \A x : Quiet(x)
    BY <1>1, <1>3, QuietDetach DEF LaunchFocused, native
  <2>2. QED
    BY <1>3, <2>1, QuietStep DEF LaunchFocused, Start, TypeOK, Claiming
<1>4. CASE HideAll(t)
  <2>1. Range(mainq) \subseteq Range(mainq') /\ \A x : Quiet(x)
    BY <1>1, <1>4, QuietDetach DEF HideAll, native
  <2>2. QED
    BY <1>4, <2>1, QuietStep DEF HideAll, Start, TypeOK, Claiming
<1>5. CASE LaunchRelock(t)
  <2>0. key[t] \in Keys
    BY <1>5 DEF LaunchRelock, ThreadInv
  <2>1. Range(mainq) \subseteq Range(mainq') /\ \A x : Quiet(x)
    BY <1>1, <1>5, <2>0, QuietDetach DEF LaunchRelock, native
  <2>2. QED
    BY <1>5, <2>1, QuietStep DEF LaunchRelock, Goto, TypeOK, Claiming
<1>6. CASE ShutdownBegin(t)
  <2>0. hand[t] \in Sess \cup {NONE}
    BY DEF TypeOK
  <2>1. Range(mainq) \subseteq Range(mainq') /\ \A x : Quiet(x)
    BY <1>6, <2>0, QuietDetach DEF ShutdownBegin, native
  <2>2. QED
    BY <1>6, <2>1, QuietStep DEF ShutdownBegin, Goto, TypeOK, Claiming, table
<1>7. CASE LaunchCreate(t)
  <2>0. Sync("create", NONE, t) \in Block /\ \A x : ~Shows(Sync("create", NONE, t), x)
    BY DEF Sync, Block, BlockOps, Shows
  <2>1. Range(mainq) \subseteq Range(mainq') /\ \A x : Quiet(x)
    BY <1>7, <2>0, QuietAppend DEF LaunchCreate, native
  <2>2. QED
    BY <1>7, <2>1, QuietStep DEF LaunchCreate, Goto, TypeOK, Claiming, table
<1>8. CASE LaunchFail(t)
  <2>1. Range(mainq) \subseteq Range(mainq') /\ \A x : Quiet(x)
    BY <1>8 DEF LaunchFail, Quiet, native
  <2>2. QED
    BY <1>8, <2>1, QuietStep DEF LaunchFail, Finish, TypeOK, Claiming, table
<1>9. QED
  BY <1>2, <1>3, <1>4, <1>5, <1>6, <1>7, <1>8

\* Workers that end and status commands disturb neither screen nor sessions.
LEMMA ElsewhereScreen ==
  ASSUME IInv, ScreenInv,
         UNCHANGED <<table, cmds, life, flags, mainq, native>>
  PROVE  ScreenInv'
<1>1. UNCHANGED <<sessions, focused, pc, key, hand, life, flags, mainq, native>>
  BY DEF table, cmds
<1>2. MountInv'
  BY <1>1 DEF ScreenInv, MountInv, EndsMounted, KeepsScreen, InTransit, Works, Target, OnScreen, native
<1>3. EndedInv'
  BY <1>1 DEF ScreenInv, EndedInv, Owned, HoldsResources, flags, native
<1>4. QED
  BY <1>2, <1>3 DEF ScreenInv

\* A batch that shows nothing but the views in X.
LEMMA QuietConcat ==
  ASSUME TypeOK, NEW r \in Seq(Block), NEW X, mounted' = mounted, mainq' = mainq \o r,
         \A y : \A b \in Range(r) : Shows(b, y) => y \in X
  PROVE  /\ Range(mainq') = Range(mainq) \cup Range(r)
         /\ \A y : y \notin X => Quiet(y)
         /\ \A y : EndsMounted(mounted', mainq', y) /\ y \notin X => \A b \in Range(r) : ~Hides(b, y)
<1>1. mainq \in Seq(Block)
  BY DEF TypeOK
<1>2. ASSUME NEW y, y \notin X, EndsMounted(mounted, mainq \o r, y)
      PROVE  EndsMounted(mounted, mainq, y) /\ \A b \in Range(r) : ~Hides(b, y)
  BY <1>1, <1>2, EndsConcat
<1>3. Range(mainq \o r) = Range(mainq) \cup Range(r)
  BY <1>1, RangeConcat
<1>4. QED
  BY <1>2, <1>3 DEF Quiet

LEMMA YieldQuiet ==
  ASSUME TypeOK, NEW s \in Sess \cup {NONE}, mounted' = mounted, mainq' = mainq \o YieldBlocks(s)
  PROVE  /\ Range(mainq) \subseteq Range(mainq')
         /\ \A y : Quiet(y)
         /\ s # NONE => ~EndsMounted(mounted', mainq', s)
<1> DEFINE a == YieldBlocks(s)
           X == {}
<1>1. a \in Seq(Block) /\ mainq' = mainq \o a
  BY YieldBlocksEffect
<1>2. /\ \A y : \A b \in Range(a) : Shows(b, y) => y \in X
      /\ s # NONE => \E b \in Range(a) : Hides(b, s)
      /\ \A y : y \notin X
  BY YieldHides
<1> HIDE DEF a, X
<1>3. /\ Range(mainq') = Range(mainq) \cup Range(a)
      /\ \A y : y \notin X => Quiet(y)
      /\ \A y : EndsMounted(mounted', mainq', y) /\ y \notin X => \A b \in Range(a) : ~Hides(b, y)
  BY <1>1, <1>2, QuietConcat
<1>4. QED
  BY <1>2, <1>3

LEMMA YieldClaimQuiet ==
  ASSUME TypeOK, NEW s \in Sess \cup {NONE}, NEW x \in Sess, NEW t \in Threads, s # x,
         mounted' = mounted, mainq' = mainq \o YieldBlocks(s) \o ClaimBlocks(x, t)
  PROVE  /\ Range(mainq) \subseteq Range(mainq')
         /\ \A y : y # x => Quiet(y)
         /\ s # NONE => ~EndsMounted(mounted', mainq', s)
<1> DEFINE a == YieldBlocks(s)
           b == ClaimBlocks(x, t)
<1>1. mainq \in Seq(Block) /\ a \in Seq(Block) /\ b \in Seq(Block)
  BY YieldBlocksEffect, ClaimBlocksEffect DEF TypeOK
<1>2. /\ \A y : \A c \in Range(a) : ~Shows(c, y)
      /\ \A y : \A c \in Range(b) : Shows(c, y) => y = x
      /\ s # NONE => \E c \in Range(a) : Hides(c, s)
  BY YieldHides, ClaimShows
<1> HIDE DEF a, b
<1>3. a \o b \in Seq(Block) /\ Range(a \o b) = Range(a) \cup Range(b)
  BY <1>1, RangeConcat
<1>4. mainq \o a \o b = mainq \o (a \o b)
  BY <1>1
<1>5. mainq' = mainq \o (a \o b)
  BY <1>4 DEF a, b
<1>6. \A y : \A c \in Range(a \o b) : Shows(c, y) => y \in {x}
  BY <1>2, <1>3
<1>7. /\ Range(mainq') = Range(mainq) \cup Range(a \o b)
      /\ \A y : y \notin {x} => Quiet(y)
      /\ \A y : EndsMounted(mounted', mainq', y) /\ y \notin {x} =>
           \A c \in Range(a \o b) : ~Hides(c, y)
  BY <1>3, <1>5, <1>6, QuietConcat
<1>8. QED
  BY <1>2, <1>3, <1>7

-----------------------------------------------------------------------------
(* One lemma per action that moves the screen: it preserves ScreenInv.       *)

\* The session that yields gives up its resources.
LEMMA ClearedFlags ==
  ASSUME NEW s, ClearFlags(s)
  PROVE  \A x \in Sess : HoldsResources(x)' => HoldsResources(x) /\ x # s
BY DEF ClearFlags, HoldsResources

LEMMA ShutdownYieldScreen ==
  ASSUME IInv, ScreenInv, NEW t \in Threads, ShutdownYield(t)
  PROVE  ScreenInv'
<1> USE DEF IInv
<1>1. hand[t] \in Sess /\ hand[t] # NONE /\ pc'[t] = "shutdown.join"
  BY RdpSessionsAssumption DEF ShutdownYield, Goto, ThreadInv, TypeOK
<1>2. Range(mainq) \subseteq Range(mainq') /\ (\A y : Quiet(y)) /\ ~EndsMounted(mounted', mainq', hand[t])
  BY <1>1, YieldQuiet DEF ShutdownYield, native
<1>3. \A u \in Threads : u # t => pc'[u] = pc[u] /\ hand'[u] = hand[u] /\ Target(u)' = Target(u)
  BY DEF ShutdownYield, Goto, TypeOK, Target, table
<1>4. ASSUME NEW s \in Sess, EndsMounted(mounted', mainq', s), KeepsScreen(s) \/ Works(t, s)
      PROVE  KeepsScreen(s)'
  <2>1. ~Works(t, s)
    BY <1>1, <1>2, <1>4, RdpSessionsAssumption DEF Works, Target, ShutdownYield
  <2>2. QED
    BY <1>1, <1>4, <2>1 DEF KeepsScreen, OnScreen, ShutdownYield, Goto, TypeOK, Claiming, table
<1>5. MountInv'
  <2>1. MountInv /\ \A s \in Sess \cup {NONE} :
          EndsMounted(mounted', mainq', s) => EndsMounted(mounted, mainq, s)
    BY <1>2 DEF ScreenInv, Quiet
  <2>2. QED
    BY <1>3, <1>4, <2>1, MountFrame
<1>6. EndedInv'
  <2>1. /\ EndedInv /\ native_input' = native_input
        /\ \A s \in Sess : life'[s] = life[s]
        /\ \A s \in Sess : HoldsResources(s)' => HoldsResources(s)
    BY ClearedFlags DEF ScreenInv, ShutdownYield, native
  <2>2. \A s \in Sess : life[s] = "live" => Owned(s)'
    BY <2>1 DEF EndedInv, Owned, ShutdownYield, table
  <2>3. QED
    BY <1>2, <2>1, <2>2, EndedFrame
<1>7. QED
  BY <1>5, <1>6 DEF ScreenInv

LEMMA HideDoneScreen ==
  ASSUME IInv, ScreenInv, NEW t \in Threads, HideDone(t)
  PROVE  ScreenInv'
<1> USE DEF IInv
<1>1. OnScreen \in Sess \cup {NONE} /\ pc'[t] = "idle"
  BY DEF HideDone, Finish, TypeOK, OnScreen
<1>2. /\ Range(mainq) \subseteq Range(mainq') /\ (\A y : Quiet(y))
      /\ OnScreen # NONE => ~EndsMounted(mounted', mainq', OnScreen)
  BY <1>1, YieldQuiet DEF HideDone, native
<1>3. \A u \in Threads : u # t => pc'[u] = pc[u] /\ hand'[u] = hand[u] /\ Target(u)' = Target(u)
  BY DEF HideDone, Finish, TypeOK, Target
<1>4. \A s \in Sess : s # NONE /\ EndsMounted(mounted', mainq', s) => ~KeepsScreen(s) /\ ~Works(t, s)
  BY <1>2 DEF KeepsScreen, Works, Target, HideDone
<1>5. MountInv'
  <2>1. MountInv /\ \A s \in Sess \cup {NONE} :
          EndsMounted(mounted', mainq', s) => EndsMounted(mounted, mainq, s)
    BY <1>2 DEF ScreenInv, Quiet
  <2>2. QED
    BY <1>3, <1>4, <2>1, MountFrame
<1>6. EndedInv'
  <2>1. /\ EndedInv /\ native_input' = native_input
        /\ \A s \in Sess : life'[s] = life[s]
        /\ \A s \in Sess : HoldsResources(s)' => HoldsResources(s)
    BY ClearedFlags DEF ScreenInv, HideDone, native
  <2>2. \A s \in Sess : life[s] = "live" => Owned(s)'
    BY <2>1 DEF EndedInv, Owned, HideDone
  <2>3. QED
    BY <1>2, <2>1, <2>2, EndedFrame
<1>7. QED
  BY <1>5, <1>6 DEF ScreenInv

\* The screen goes over: what was there is unmounted, the target comes.
LEMMA FocusClaimScreen ==
  ASSUME IInv, ScreenInv, NEW t \in Threads, FocusClaim(t)
  PROVE  ScreenInv'
<1> USE DEF IInv
<1>0. key[t] \in Keys /\ sessions[key[t]] \in Sess
  BY DEF FocusClaim, ThreadInv, TypeOK
<1> PICK x \in Sess : x = sessions[key[t]]
  BY <1>0
<1>1. /\ key[t] \in Keys /\ x # NONE /\ focused # key[t]
      /\ OnScreen \in Sess \cup {NONE} /\ OnScreen # x
      /\ pc'[t] = "focus.claim" /\ key'[t] = key[t]
  <2>1. key[t] \in Keys /\ x # NONE /\ focused # key[t]
    BY DEF FocusClaim, ThreadInv
  <2>2. x \in Sess /\ OnScreen \in Sess \cup {NONE} /\ OnScreen # x
    BY <2>1 DEF OwnerInv, TypeOK, OnScreen
  <2>3. QED
    BY <2>1, <2>2 DEF FocusClaim, Goto, TypeOK
<1>t. Target(t)' = x
  BY <1>1 DEF Target, FocusClaim, table
<1>2. /\ Range(mainq) \subseteq Range(mainq') /\ (\A y : y # x => Quiet(y))
      /\ OnScreen # NONE => ~EndsMounted(mounted', mainq', OnScreen)
  <2>1. mounted' = mounted /\ mainq' = mainq \o YieldBlocks(OnScreen) \o ClaimBlocks(x, t)
    BY DEF FocusClaim, native
  <2>2. QED
    BY <1>1, <2>1, YieldClaimQuiet
<1>3. \A u \in Threads : u # t => pc'[u] = pc[u] /\ hand'[u] = hand[u] /\ Target(u)' = Target(u)
  BY DEF FocusClaim, Goto, TypeOK, Target, table
<1>4. ASSUME NEW s \in Sess, s # NONE, EndsMounted(mounted', mainq', s)
      PROVE  ~KeepsScreen(s) /\ ~Works(t, s)
  BY <1>2, <1>4 DEF KeepsScreen, Works, Target, FocusClaim
<1>5. MountInv'
  <2>2. MountInv /\ \A s \in Sess \cup {NONE} : s # x =>
          (EndsMounted(mounted', mainq', s) => EndsMounted(mounted, mainq, s))
    BY <1>2 DEF ScreenInv, Quiet
  <2>3. \A s \in Sess \cup {NONE} : EndsMounted(mounted', mainq', s) =>
          EndsMounted(mounted, mainq, s) \/ (s # NONE /\ Target(t)' = s)
    BY <1>1, <1>t, <2>2
  <2>4. QED
    BY <1>3, <1>4, <2>2, <2>3, MountFrame
<1>6. EndedInv'
  <2>1. /\ EndedInv /\ native_input' = native_input
        /\ \A s \in Sess : life'[s] = life[s]
        /\ \A s \in Sess : HoldsResources(s)' => HoldsResources(s)
    BY ClearedFlags DEF ScreenInv, FocusClaim, native
  <2>2. \A s \in Sess : life[s] = "live" => Owned(s)'
    BY <2>1 DEF EndedInv, Owned, FocusClaim, table
  <2>3. QED
    BY <1>2, <2>1, <2>2, EndedFrame
<1>7. QED
  BY <1>5, <1>6 DEF ScreenInv

LEMMA LaunchClaimScreen ==
  ASSUME IInv, ScreenInv, NEW t \in Threads, LaunchClaim(t)
  PROVE  ScreenInv'
<1> USE DEF IInv
<1>0. hand[t] \in Sess /\ OtherOnScreen(key[t]) \in Sess \cup {NONE}
  BY DEF LaunchClaim, ThreadInv, TypeOK, OnScreen, OtherOnScreen
<1> PICK x \in Sess, y0 \in Sess \cup {NONE} : x = hand[t] /\ y0 = OtherOnScreen(key[t])
  BY <1>0
<1>1. /\ key[t] \in Keys /\ x \in Sess /\ x # NONE
      /\ y0 \in Sess \cup {NONE} /\ y0 # x
      /\ pc'[t] = "launch.claim" /\ key'[t] = key[t] /\ hand'[t] = x
  <2>1. key[t] \in Keys /\ x # NONE
    BY DEF LaunchClaim, ThreadInv
  <2>2. x \in Sess /\ y0 \in Sess \cup {NONE} /\ y0 # x
    BY <2>1 DEF OwnerInv, TypeOK, OnScreen, OtherOnScreen
  <2>3. QED
    BY <2>1, <2>2 DEF LaunchClaim, Goto, TypeOK
<1>k. lock = t
  BY DEF LaunchClaim, LockInv, Locked
<1>t. Target(t)' = x
  BY <1>1 DEF Target
<1>2. /\ Range(mainq) \subseteq Range(mainq') /\ (\A y : y # x => Quiet(y))
      /\ y0 # NONE => ~EndsMounted(mounted', mainq', y0)
  <2>1. mounted' = mounted /\ mainq' = mainq \o YieldBlocks(y0) \o ClaimBlocks(x, t)
    BY DEF LaunchClaim, native
  <2>2. QED
    BY <1>1, <2>1, YieldClaimQuiet
<1>3. \A u \in Threads : u # t => pc'[u] = pc[u] /\ hand'[u] = hand[u] /\ Target(u)' = Target(u)
  BY DEF LaunchClaim, Goto, TypeOK, Target, table
<1>4. ASSUME NEW s \in Sess, s # NONE, EndsMounted(mounted', mainq', s),
             KeepsScreen(s) \/ Works(t, s)
      PROVE  KeepsScreen(s)'
  <2>1. ~Works(t, s) /\ s = OnScreen
    BY <1>4 DEF KeepsScreen, Works, Target, LaunchClaim
  <2>2. focused = key[t]
    BY <1>2, <1>4, <2>1 DEF OtherOnScreen
  <2>3. \A u \in Threads : pc'[u] \in Claiming => u = t
    BY <1>3, <1>k DEF LockInv, Locked, Claiming
  <2>4. focused' = focused /\ OnScreen' = OnScreen
    BY DEF LaunchClaim, table, OnScreen
  <2>5. QED
    BY <1>1, <2>1, <2>2, <2>3, <2>4 DEF KeepsScreen
<1>5. MountInv'
  <2>2. MountInv /\ \A s \in Sess \cup {NONE} : s # x =>
          (EndsMounted(mounted', mainq', s) => EndsMounted(mounted, mainq, s))
    BY <1>2 DEF ScreenInv, Quiet
  <2>3. \A s \in Sess \cup {NONE} : EndsMounted(mounted', mainq', s) =>
          EndsMounted(mounted, mainq, s) \/ (s # NONE /\ Target(t)' = s)
    BY <1>1, <1>t, <2>2
  <2>4. QED
    BY <1>3, <1>4, <2>2, <2>3, MountFrame
<1>6. EndedInv'
  <2>1. /\ EndedInv /\ native_input' = native_input
        /\ \A s \in Sess : life'[s] = life[s]
        /\ \A s \in Sess : HoldsResources(s)' => HoldsResources(s)
    BY ClearedFlags DEF ScreenInv, LaunchClaim, native
  <2>2. \A s \in Sess : life[s] = "live" => Owned(s)'
    BY <2>1 DEF EndedInv, Owned, LaunchClaim, table
  <2>3. QED
    BY <1>2, <2>1, <2>2, EndedFrame
<1>7. QED
  BY <1>5, <1>6 DEF ScreenInv

\* What an insertion queues: it shows nothing, and the session it overwrites is
\* destroyed.
LEMMA DropQuiet ==
  ASSUME TypeOK, NEW r \in Seq(Block), \A y : \A b \in Range(r) : ~Shows(b, y),
         NEW old \in Sess \cup {NONE}, mounted' = mounted,
         mainq' = mainq \o r \o DropBlocks(old)
  PROVE  /\ Range(mainq) \subseteq Range(mainq')
         /\ \A y : Quiet(y)
         /\ old # NONE => /\ ~EndsMounted(mounted', mainq', old)
                          /\ \E b \in Range(mainq') : b.op = "destroy" /\ b.s = old
<1> DEFINE d == DropBlocks(old)
           X == {}
<1>1. mainq \in Seq(Block) /\ d \in Seq(Block)
  BY TailBlocksEffect DEF TypeOK
<1>2. /\ \A y : \A b \in Range(d) : ~Shows(b, y)
      /\ old # NONE => \E b \in Range(d) : b.op = "destroy" /\ Hides(b, old) /\ b.s = old
      /\ \A y : y \notin X
  BY TailBlocksHide
<1> HIDE DEF d, X
<1>3. r \o d \in Seq(Block) /\ Range(r \o d) = Range(r) \cup Range(d)
  BY <1>1, RangeConcat
<1>4. mainq \o r \o d = mainq \o (r \o d)
  BY <1>1
<1>5. mainq' = mainq \o (r \o d)
  BY <1>4 DEF d
<1>6. \A y : \A b \in Range(r \o d) : Shows(b, y) => y \in X
  BY <1>2, <1>3
<1>7. /\ Range(mainq') = Range(mainq) \cup Range(r \o d)
      /\ \A y : y \notin X => Quiet(y)
      /\ \A y : EndsMounted(mounted', mainq', y) /\ y \notin X =>
           \A b \in Range(r \o d) : ~Hides(b, y)
  BY <1>3, <1>5, <1>6, QuietConcat
<1>8. QED
  BY <1>2, <1>3, <1>7

\* No blocks at all.
LEMMA NoBlocks == <<>> \in Seq(Block) /\ \A y : \A b \in Range(<<>>) : ~Shows(b, y)
BY Batches

LEMMA FocusDoneScreen ==
  ASSUME IInv, ScreenInv, NEW t \in Threads, FocusDone(t)
  PROVE  ScreenInv'
<1> USE DEF IInv
<1>0. key[t] \in Keys /\ sessions[key[t]] \in Sess /\ focused # key[t]
  BY DEF FocusDone, ThreadInv, TypeOK
<1> PICK x \in Sess : x = sessions[key[t]]
  BY <1>0
<1>k. lock = t /\ pc'[t] = "idle" /\ focused' = key[t] /\ sessions' = sessions
  BY DEF FocusDone, Finish, TypeOK, LockInv, Locked
<1>l. x # NONE /\ life[x] = "live"
  BY <1>0, RdpSessionsAssumption DEF OwnerInv
<1>2. Range(mainq) \subseteq Range(mainq') /\ (\A y : Quiet(y))
  <2> DEFINE r == SyncStart(x)
             X == {}
  <2>1. r \in Seq(Block) /\ mainq' = mainq \o r /\ mounted' = mounted
    BY TailBlocksEffect DEF FocusDone, native
  <2>2. (\A y : \A b \in Range(r) : Shows(b, y) => y \in X) /\ \A y : y \notin X
    BY TailBlocksHide
  <2> HIDE DEF r, X
  <2>3. Range(mainq') = Range(mainq) \cup Range(r) /\ \A y : y \notin X => Quiet(y)
    BY <2>1, <2>2, QuietConcat
  <2>4. QED
    BY <2>2, <2>3
<1>3. \A u \in Threads : u # t => pc'[u] = pc[u] /\ hand'[u] = hand[u] /\ Target(u)' = Target(u)
  BY DEF FocusDone, Finish, TypeOK, Target
<1>d. \A u \in Threads : pc'[u] \notin Claiming
  BY <1>3, <1>k DEF LockInv, Locked, Claiming
<1>4. ASSUME NEW s \in Sess, KeepsScreen(s) \/ Works(t, s)
      PROVE  KeepsScreen(s)'
  <2>1. pc[t] = "focus.claim"
    BY DEF FocusDone
  <2>2. Works(t, s)
    BY <1>0, <1>4, <2>1 DEF KeepsScreen, Claiming
  <2>3. s = x
    BY <2>1, <2>2 DEF Works, Target
  <2>4. OnScreen' = x
    BY <1>0, <1>k, RdpSessionsAssumption DEF OnScreen
  <2>5. QED
    BY <1>d, <2>3, <2>4 DEF KeepsScreen
<1>5. MountInv'
  <2>1. MountInv /\ \A s \in Sess \cup {NONE} :
          EndsMounted(mounted', mainq', s) => EndsMounted(mounted, mainq, s)
    BY <1>2 DEF ScreenInv, Quiet
  <2>2. QED
    BY <1>3, <1>4, <2>1, MountFrame
<1>6. EndedInv'
  <2>1. /\ EndedInv /\ native_input' = native_input
        /\ \A s \in Sess : life'[s] = life[s]
    BY DEF ScreenInv, FocusDone, native
  <2>2. \A s \in Sess : life[s] # "live" /\ HoldsResources(s)' => HoldsResources(s)
    BY <1>l DEF FocusDone, SetFlags, HoldsResources, TypeOK
  <2>3. \A s \in Sess : life[s] = "live" => Owned(s)'
    BY <2>1 DEF EndedInv, Owned, FocusDone
  <2>4. QED
    BY <1>2, <2>1, <2>2, <2>3, EndedFrame
<1>7. QED
  BY <1>5, <1>6 DEF ScreenInv

\* An insertion leaves every live session with an owner, and destroys the view of
\* the one it overwrites.
LEMMA InsertEnds ==
  ASSUME IInv, EndedInv, NEW t \in Threads, pc[t] \in {"launch.insert", "launch.claim"}, Insert(t),
         native_input' = native_input, Range(mainq) \subseteq Range(mainq'),
         sessions[key[t]] # NONE =>
           \E b \in Range(mainq') : b.op = "destroy" /\ b.s = sessions[key[t]],
         \A s \in Sess : s # hand[t] /\ HoldsResources(s)' => HoldsResources(s)
  PROVE  EndedInv'
<1> USE DEF IInv
<1>i. /\ key[t] \in Keys /\ hand[t] \in Sess /\ hand[t] # NONE
      /\ sessions[key[t]] \in Sess \cup {NONE} /\ sessions[key[t]] # hand[t]
      /\ \A k \in Keys : sessions'[k] = IF k = key[t] THEN hand[t] ELSE sessions[k]
      /\ \A s \in Sess : life'[s] = IF s = sessions[key[t]] THEN "dropped" ELSE life[s]
      /\ \A u \in Threads : u # t => hand'[u] = hand[u]
  BY InsertOwners
<1>l. life[hand[t]] = "live" /\ ~(sessions[key[t]] # NONE /\ sessions[key[t]] \notin Sess)
  BY <1>i DEF OwnerInv
<1>1. ASSUME NEW s \in Sess, life'[s] = "live" PROVE Owned(s)'
  <2>1. life[s] = "live" /\ s # sessions[key[t]]
    BY <1>1, <1>i
  <2>2. CASE \E k \in Keys : sessions[k] = s
    BY <1>i, <2>1, <2>2 DEF Owned
  <2>3. CASE \E u \in Threads : hand[u] = s
    BY <1>i, <2>3 DEF Owned
  <2>4. QED
    BY <2>1, <2>2, <2>3 DEF EndedInv, Owned
<1>2. ASSUME NEW s \in Sess, life'[s] \in {"destroyed", "leaked"} PROVE ~HoldsResources(s)'
  <2>1. life[s] \in {"destroyed", "leaked"} /\ s # hand[t]
    BY <1>2, <1>i, <1>l
  <2>2. QED
    BY <2>1 DEF EndedInv
<1>3. ASSUME NEW s \in Sess, life'[s] = "dropped", s \in native_input'
      PROVE  \E b \in Range(mainq') : b.op = "destroy" /\ b.s = s
  <2>1. CASE s = sessions[key[t]]
    BY <2>1, RdpSessionsAssumption
  <2>2. CASE s # sessions[key[t]]
    BY <1>3, <1>i, <2>2 DEF EndedInv
  <2>3. QED
    BY <2>1, <2>2
<1>4. QED
  BY <1>1, <1>2, <1>3 DEF EndedInv

LEMMA LaunchInsertScreen ==
  ASSUME IInv, ScreenInv, NEW t \in Threads, LaunchInsert(t)
  PROVE  ScreenInv'
<1> USE DEF IInv
<1>i. /\ key[t] \in Keys /\ hand[t] \in Sess /\ hand[t] # NONE
      /\ sessions[key[t]] \in Sess \cup {NONE}
      /\ \A k \in Keys : sessions'[k] = IF k = key[t] THEN hand[t] ELSE sessions[k]
      /\ pc'[t] = "idle"
      /\ \A u \in Threads : u # t => pc'[u] = pc[u] /\ key'[u] = key[u] /\ hand'[u] = hand[u]
  BY InsertOwners DEF LaunchInsert
<1> PICK old \in Sess \cup {NONE} : old = sessions[key[t]]
  BY <1>i
<1>d. \A u \in Threads : pc[u] \notin Claiming
  BY RdpSessionsAssumption DEF LaunchInsert, LockInv, Locked, Claiming
<1>2. /\ Range(mainq) \subseteq Range(mainq') /\ (\A y : Quiet(y))
      /\ old # NONE => /\ ~EndsMounted(mounted', mainq', old)
                       /\ \E b \in Range(mainq') : b.op = "destroy" /\ b.s = old
  <2> DEFINE r == <<>>
  <2>1. mainq \in Seq(Block) /\ DropBlocks(old) \in Seq(Block)
    BY TailBlocksEffect DEF TypeOK
  <2>2. mainq' = mainq \o DropBlocks(old) /\ mounted' = mounted
    BY DEF LaunchInsert, native
  <2>3. mainq' = mainq \o r \o DropBlocks(old)
    BY <2>1, <2>2
  <2>4. r \in Seq(Block) /\ \A y : \A b \in Range(r) : ~Shows(b, y)
    BY NoBlocks
  <2> HIDE DEF r
  <2>5. QED
    BY <2>2, <2>3, <2>4, DropQuiet
<1>3. \A u \in Threads : u # t => Target(u)' = Target(u)
  BY <1>i, <1>d DEF Target, Claiming
<1>4. ASSUME NEW s \in Sess, s # NONE, EndsMounted(mounted', mainq', s), KeepsScreen(s) \/ Works(t, s)
      PROVE  KeepsScreen(s)'
  <2>1. s = OnScreen /\ s # old
    BY <1>2, <1>4 DEF KeepsScreen, Works, Target, LaunchInsert
  <2>2. focused \in Keys /\ focused # key[t]
    BY <1>4, <2>1 DEF OnScreen, TypeOK
  <2>3. OnScreen' = s
    BY <1>i, <2>1, <2>2, RdpSessionsAssumption DEF OnScreen, LaunchInsert
  <2>4. QED
    BY <1>i, <1>d, <2>3 DEF KeepsScreen, Claiming
<1>5. MountInv'
  <2>1. MountInv /\ \A s \in Sess \cup {NONE} :
          EndsMounted(mounted', mainq', s) => EndsMounted(mounted, mainq, s)
    BY <1>2 DEF ScreenInv, Quiet
  <2>2. QED
    BY <1>i, <1>3, <1>4, <2>1, MountFrame
<1>6. EndedInv'
  <2>1. EndedInv /\ native_input' = native_input /\ \A s \in Sess : HoldsResources(s)' => HoldsResources(s)
    BY DEF ScreenInv, LaunchInsert, native, HoldsResources, flags
  <2>2. pc[t] = "launch.insert" /\ Insert(t)
    BY DEF LaunchInsert
  <2>3. QED
    BY <1>2, <2>1, <2>2, InsertEnds
<1>7. QED
  BY <1>5, <1>6 DEF ScreenInv

LEMMA LaunchDoneScreen ==
  ASSUME IInv, ScreenInv, NEW t \in Threads, LaunchDone(t)
  PROVE  ScreenInv'
<1> USE DEF IInv
<1>i. /\ key[t] \in Keys /\ hand[t] \in Sess /\ hand[t] # NONE
      /\ sessions[key[t]] \in Sess \cup {NONE}
      /\ \A k \in Keys : sessions'[k] = IF k = key[t] THEN hand[t] ELSE sessions[k]
      /\ pc'[t] = "idle"
      /\ \A u \in Threads : u # t => pc'[u] = pc[u] /\ key'[u] = key[u] /\ hand'[u] = hand[u]
  BY InsertOwners DEF LaunchDone
<1> PICK x \in Sess, old \in Sess \cup {NONE} : x = hand[t] /\ old = sessions[key[t]]
  BY <1>i
<1>k. lock = t /\ focused' = key[t] /\ key[t] # NONE
  BY <1>i, RdpSessionsAssumption DEF LaunchDone, LockInv, Locked
<1>e. \A u \in Threads : u # t => pc[u] \notin Claiming
  BY <1>k DEF LockInv, Locked, Claiming
<1>d. \A u \in Threads : pc'[u] \notin Claiming
  BY <1>i, <1>e DEF Claiming
<1>2. /\ Range(mainq) \subseteq Range(mainq') /\ (\A y : Quiet(y))
      /\ old # NONE => /\ ~EndsMounted(mounted', mainq', old)
                       /\ \E b \in Range(mainq') : b.op = "destroy" /\ b.s = old
  <2> DEFINE r == SyncStart(x)
  <2>1. mainq' = mainq \o r \o DropBlocks(old) /\ mounted' = mounted
    BY DEF LaunchDone, native
  <2>2. r \in Seq(Block) /\ \A y : \A b \in Range(r) : ~Shows(b, y)
    BY TailBlocksEffect, TailBlocksHide
  <2> HIDE DEF r
  <2>3. QED
    BY <2>1, <2>2, DropQuiet
<1>3. \A u \in Threads : u # t => Target(u)' = Target(u)
  BY <1>i, <1>e DEF Target, Claiming
<1>o. OnScreen' = x
  BY <1>i, <1>k DEF OnScreen
<1>4. ASSUME NEW s \in Sess, s # NONE, EndsMounted(mounted', mainq', s), KeepsScreen(s) \/ Works(t, s)
      PROVE  KeepsScreen(s)'
  <2>1. pc[t] = "launch.claim"
    BY DEF LaunchDone
  <2>2. ~KeepsScreen(s)
    <3>1. ASSUME KeepsScreen(s) PROVE s = old
      BY <1>k, <1>4, <2>1, <3>1 DEF KeepsScreen, Claiming, OnScreen
    <3>2. QED
      BY <1>2, <1>4, <3>1
  <2>3. s = x
    BY <1>4, <2>1, <2>2 DEF Works, Target
  <2>4. QED
    BY <1>d, <1>o, <2>3 DEF KeepsScreen
<1>5. MountInv'
  <2>1. MountInv /\ \A s \in Sess \cup {NONE} :
          EndsMounted(mounted', mainq', s) => EndsMounted(mounted, mainq, s)
    BY <1>2 DEF ScreenInv, Quiet
  <2>2. QED
    BY <1>i, <1>3, <1>4, <2>1, MountFrame
<1>6. EndedInv'
  <2>1. EndedInv /\ native_input' = native_input
    BY DEF ScreenInv, LaunchDone, native
  <2>2. \A s \in Sess : s # hand[t] /\ HoldsResources(s)' => HoldsResources(s)
    BY <1>i DEF LaunchDone, SetFlags, HoldsResources, TypeOK
  <2>3. pc[t] = "launch.claim" /\ Insert(t)
    BY DEF LaunchDone
  <2>4. QED
    BY <1>2, <2>1, <2>2, <2>3, InsertEnds
<1>7. QED
  BY <1>5, <1>6 DEF ScreenInv

\* Taking a key's session out of the map into one's own hand leaves it an owner.
LEMMA TakenIsOwned ==
  ASSUME TypeOK, NEW t \in Threads, NEW k \in Keys, hand[t] = NONE, TakePredecessor(t, k)
  PROVE  /\ \A s \in Sess : Owned(s) => Owned(s)'
         /\ hand'[t] = sessions[k]
         /\ \A u \in Threads : u # t => hand'[u] = hand[u]
         /\ \A j \in Keys : j # k => sessions'[j] = sessions[j]
<1>1. /\ hand'[t] = sessions[k]
      /\ \A u \in Threads : u # t => hand'[u] = hand[u]
      /\ \A j \in Keys : j # k => sessions'[j] = sessions[j]
  BY DEF TakePredecessor, TypeOK
<1>2. ASSUME NEW s \in Sess, Owned(s) PROVE Owned(s)'
  <2>1. s # NONE
    BY RdpSessionsAssumption
  <2>2. CASE \E j \in Keys : sessions[j] = s
    BY <1>1, <2>2 DEF Owned
  <2>3. CASE \E u \in Threads : hand[u] = s
    BY <1>1, <2>1, <2>3 DEF Owned
  <2>4. QED
    BY <1>2, <2>2, <2>3 DEF Owned
<1>3. QED
  BY <1>1, <1>2

\* A session that leaves the map is in the hand of the command that shuts it down.
LEMMA TakeScreen ==
  ASSUME IInv, ScreenInv, NEW t \in Threads, NEW k \in Keys,
         pc[t] \in {"idle", "launch.yield"}, lock \in {NONE, t},
         TakePredecessor(t, k), focused' \in {NONE, Unfocused(k)},
         focused' = Unfocused(k) \/ (OnScreen # NONE /\ focused # k =>
                                        ~EndsMounted(mounted', mainq', OnScreen)),
         sessions[k] # NONE => pc'[t] = "shutdown.begin",
         pc'[t] \notin Claiming,
         \A u \in Threads : u # t => pc'[u] = pc[u] /\ key'[u] = key[u],
         \A y : Quiet(y), Range(mainq) \subseteq Range(mainq'),
         native_input' = native_input, \A s \in Sess : life'[s] = life[s],
         \A s \in Sess : HoldsResources(s)' => HoldsResources(s)
  PROVE  ScreenInv'
<1> USE DEF IInv
<1>1. hand[t] = NONE
  BY DEF ThreadInv
<1>2. /\ \A s \in Sess : Owned(s) => Owned(s)'
      /\ hand'[t] = sessions[k]
      /\ \A u \in Threads : u # t => hand'[u] = hand[u]
      /\ \A j \in Keys : j # k => sessions'[j] = sessions[j]
  BY <1>1, TakenIsOwned
<1>e. \A u \in Threads : u # t => pc[u] \notin Claiming
  BY RdpSessionsAssumption DEF LockInv, Locked, Claiming
<1>3. \A u \in Threads : u # t => Target(u)' = Target(u)
  BY <1>2, <1>e DEF Target, Claiming
<1>d. \A u \in Threads : pc'[u] \notin Claiming
  BY <1>e
<1>4. ASSUME NEW s \in Sess, s # NONE, EndsMounted(mounted', mainq', s), KeepsScreen(s) \/ Works(t, s)
      PROVE  KeepsScreen(s)' \/ InTransit(s)'
  <2>1. s = OnScreen /\ focused \in Keys
    BY <1>4 DEF KeepsScreen, Works, Target, OnScreen, TypeOK
  <2>2. CASE focused = k
    <3>1. hand'[t] = s /\ pc'[t] = "shutdown.begin"
      BY <1>2, <1>4, <2>1, <2>2, RdpSessionsAssumption DEF OnScreen
    <3>2. QED
      BY <3>1 DEF InTransit, Works
  <2>3. CASE focused # k
    <3>1. focused' = focused
      BY <1>4, <2>1, <2>3 DEF Unfocused
    <3>2. OnScreen' = s
      BY <1>2, <2>1, <2>3, <3>1, RdpSessionsAssumption DEF OnScreen
    <3>3. QED
      BY <1>d, <3>2 DEF KeepsScreen
  <2>4. QED
    BY <2>2, <2>3
<1>5. MountInv'
  <2>1. MountInv /\ \A s \in Sess \cup {NONE} :
          EndsMounted(mounted', mainq', s) => EndsMounted(mounted, mainq, s)
    BY DEF ScreenInv, Quiet
  <2>2. QED
    BY <1>2, <1>3, <1>4, <2>1, MountFrame
<1>6. EndedInv'
  <2>1. EndedInv /\ \A s \in Sess : life[s] = "live" => Owned(s)
    BY DEF ScreenInv, EndedInv
  <2>2. QED
    BY <1>2, <2>1, EndedFrame
<1>7. QED
  BY <1>5, <1>6 DEF ScreenInv

LEMMA TakeScreens ==
  ASSUME IInv, ScreenInv, NEW t \in Threads,
         (\E k \in Keys : Close(t, k) \/ LaunchBackground(t, k)) \/ LaunchYield(t)
  PROVE  ScreenInv'
<1> USE DEF IInv
<1>1. ASSUME NEW k \in Keys, Close(t, k) \/ LaunchBackground(t, k) PROVE ScreenInv'
  <2>1. /\ pc[t] = "idle" /\ lock = NONE /\ TakePredecessor(t, k) /\ focused' = Unfocused(k)
        /\ sessions[k] # NONE => pc'[t] = "shutdown.begin"
        /\ pc'[t] \notin Claiming
        /\ \A u \in Threads : u # t => pc'[u] = pc[u] /\ key'[u] = key[u]
    BY <1>1 DEF Close, LaunchBackground, Start, TakePredecessor, ToConstruct, TypeOK, Claiming
  <2>2. /\ \A y : Quiet(y)
        /\ Range(mainq) \subseteq Range(mainq') /\ native_input' = native_input
        /\ \A s \in Sess : life'[s] = life[s]
        /\ \A s \in Sess : HoldsResources(s)' => HoldsResources(s)
    BY <1>1 DEF Close, LaunchBackground, Quiet, HoldsResources, flags, native
  <2>3. QED
    BY <2>1, <2>2, TakeScreen
<1>2. CASE LaunchYield(t)
  <2>0. key[t] \in Keys
    BY <1>2 DEF LaunchYield, ThreadInv
  <2> PICK k \in Keys : k = key[t]
    BY <2>0
  <2>1. OtherOnScreen(k) \in Sess \cup {NONE} /\ lock = t
    BY <1>2 DEF OtherOnScreen, OnScreen, TypeOK, LaunchYield, LockInv, Locked
  <2> PICK y0 \in Sess \cup {NONE} : y0 = OtherOnScreen(k)
    BY <2>1
  <2>2. mounted' = mounted /\ mainq' = mainq \o YieldBlocks(y0)
    BY <1>2 DEF LaunchYield, native
  <2>3. /\ Range(mainq) \subseteq Range(mainq') /\ (\A y : Quiet(y))
        /\ y0 # NONE => ~EndsMounted(mounted', mainq', y0)
    BY <2>2, YieldQuiet
  <2>4. OnScreen # NONE /\ focused # k => ~EndsMounted(mounted', mainq', OnScreen)
    BY <2>3 DEF OtherOnScreen
  <2>5. /\ pc[t] = "launch.yield" /\ TakePredecessor(t, k) /\ focused' = NONE
        /\ sessions[k] # NONE => pc'[t] = "shutdown.begin"
        /\ pc'[t] \notin Claiming
        /\ \A u \in Threads : u # t => pc'[u] = pc[u] /\ key'[u] = key[u]
        /\ native_input' = native_input
        /\ \A s \in Sess : life'[s] = life[s]
    BY <1>2 DEF LaunchYield, Goto, ToConstruct, TypeOK, Claiming, native
  <2>6. \A s \in Sess : HoldsResources(s)' => HoldsResources(s)
    BY <1>2, ClearedFlags DEF LaunchYield
  <2>7. QED
    BY <2>1, <2>3, <2>4, <2>5, <2>6, TakeScreen
<1>3. QED
  BY <1>1, <1>2

LEMMA LaunchSpawnScreen ==
  ASSUME IInv, ScreenInv, NEW t \in Threads, LaunchSpawn(t)
  PROVE  ScreenInv'
<1> USE DEF IInv
<1>1. PICK x \in Sess : /\ life[x] = "unused" /\ life' = [life EXCEPT ![x] = "live"]
                       /\ hand' = [hand EXCEPT ![t] = x]
  BY DEF LaunchSpawn
<1>2. /\ hand[t] = NONE /\ hand'[t] = x /\ life'[x] = "live"
      /\ \A u \in Threads : u # t => hand'[u] = hand[u]
      /\ \A s \in Sess : s # x => life'[s] = life[s]
  BY <1>1 DEF LaunchSpawn, ThreadInv, TypeOK
<1>3. /\ UNCHANGED <<sessions, focused, mainq, flags, native>>
      /\ pc[t] = "launch.spawn" /\ pc'[t] = "launch.insert"
      /\ \A u \in Threads : u # t => pc'[u] = pc[u] /\ key'[u] = key[u]
  BY DEF LaunchSpawn, Goto, TypeOK, table
<1>4. \A u \in Threads : u # t => Target(u)' = Target(u)
  BY <1>2, <1>3 DEF Target
<1>5. MountInv'
  <2>1. MountInv /\ \A s \in Sess \cup {NONE} :
          EndsMounted(mounted', mainq', s) => EndsMounted(mounted, mainq, s)
    BY <1>3 DEF ScreenInv, native
  <2>2. ASSUME NEW s \in Sess, s # NONE, KeepsScreen(s) \/ Works(t, s)
        PROVE  KeepsScreen(s)'
    BY <1>3, <2>2 DEF KeepsScreen, Works, Target, OnScreen, Claiming
  <2>3. QED
    BY <1>2, <1>3, <1>4, <2>1, <2>2, MountFrame
<1>6. EndedInv'
  <2>1. EndedInv /\ native_input' = native_input /\ \A s \in Sess : HoldsResources(s)' => HoldsResources(s)
    BY <1>3 DEF ScreenInv, HoldsResources, flags, native
  <2>2. ASSUME NEW s \in Sess, life'[s] = "live" PROVE Owned(s)'
    <3>1. CASE s = x
      BY <1>2, <3>1 DEF Owned
    <3>2. CASE s # x
      <4>1. Owned(s) /\ s # NONE
        BY <1>2, <2>1, <2>2, <3>2, RdpSessionsAssumption DEF EndedInv
      <4>2. QED
        BY <1>2, <1>3, <4>1 DEF Owned
    <3>3. QED
      BY <3>1, <3>2
  <2>3. \A s \in Sess : life'[s] # "live" => life'[s] = life[s]
    BY <1>2
  <2>4. QED
    BY <1>3, <2>1, <2>2, <2>3 DEF EndedInv
<1>7. QED
  BY <1>5, <1>6 DEF ScreenInv

\* The session in hand ends: it has given up its resources.
LEMMA ReleaseScreen ==
  ASSUME IInv, ScreenInv, NEW t \in Threads, NEW fate \in {"destroyed", "leaked"},
         pc[t] = "shutdown.join", Release(t, fate), UNCHANGED <<sessions, focused, flags, native>>
  PROVE  ScreenInv'
<1> USE DEF IInv
<1>0. hand[t] \in Sess /\ hand[t] # NONE
  BY DEF ThreadInv, TypeOK
<1> PICK x \in Sess : x = hand[t]
  BY <1>0
<1>1. /\ x # NONE /\ ~HoldsResources(x)
      /\ \A s \in Sess : s # x => life'[s] = life[s]
      /\ life'[x] = fate
  BY <1>0 DEF ResourceInv, Release, TypeOK
<1>2. /\ hand'[t] = NONE /\ pc'[t] \in {"idle", "launch.create"}
      /\ \A u \in Threads : u # t => hand'[u] = hand[u] /\ pc'[u] = pc[u] /\ key'[u] = key[u]
  BY DEF Release, Finish, Goto, TypeOK
<1>3. Range(mainq) \subseteq Range(mainq') /\ \A y : Quiet(y)
  <2>1. Async("destroy", x) \in Block /\ \A y : ~Shows(Async("destroy", x), y)
    BY DEF Async, Block, BlockOps, Shows
  <2>2. mainq' = Append(mainq, Async("destroy", x)) /\ mounted' = mounted
    BY DEF Release, native
  <2>3. QED
    BY <2>1, <2>2, QuietAppend
<1>4. \A u \in Threads : u # t => Target(u)' = Target(u)
  BY <1>2 DEF Target
<1>5. MountInv'
  <2>1. MountInv /\ \A s \in Sess \cup {NONE} :
          EndsMounted(mounted', mainq', s) => EndsMounted(mounted, mainq, s)
    BY <1>3 DEF ScreenInv, Quiet
  <2>2. ASSUME NEW s \in Sess, s # NONE, KeepsScreen(s) \/ Works(t, s)
        PROVE  KeepsScreen(s)'
    BY <1>2, <2>2 DEF KeepsScreen, Works, Target, OnScreen, Claiming
  <2>3. QED
    BY <1>2, <1>4, <2>1, <2>2, MountFrame
<1>6. EndedInv'
  <2>1. EndedInv /\ native_input' = native_input /\ \A s \in Sess : HoldsResources(s)' = HoldsResources(s)
    BY DEF ScreenInv, HoldsResources, flags, native
  <2>2. ASSUME NEW s \in Sess, life'[s] = "live" PROVE Owned(s)'
    <3>1. s # x /\ life[s] = "live"
      BY <1>1, <2>2
    <3>2. QED
      BY <1>2, <2>1, <3>1 DEF EndedInv, Owned
  <2>3. \A s \in Sess : life'[s] \in {"destroyed", "leaked"} => ~HoldsResources(s)'
    BY <1>1, <2>1 DEF EndedInv
  <2>4. ASSUME NEW s \in Sess, life'[s] = "dropped", s \in native_input'
        PROVE  \E b \in Range(mainq') : b.op = "destroy" /\ b.s = s
    BY <1>1, <1>3, <2>1, <2>4 DEF EndedInv
  <2>5. QED
    BY <2>2, <2>3, <2>4 DEF EndedInv
<1>7. QED
  BY <1>5, <1>6 DEF ScreenInv

\* Running a block brings the window nearer to what the queue comes to.
LEMMA MainRunScreen ==
  ASSUME IInv, ScreenInv, MainRun
  PROVE  ScreenInv'
<1> USE DEF IInv
<1>1. /\ mainq \in Seq(Block) /\ mainq # <<>> /\ mainq' = Tail(mainq)
      /\ RunOnView(Head(mainq)) /\ UNCHANGED <<table, cmds, life, worker, flags>>
  BY DEF MainRun, TypeOK
<1>2. Head(mainq) \in Block /\ Range(mainq) = {Head(mainq)} \cup Range(mainq')
  BY <1>1, RangeTail
<1> PICK b \in Block : b = Head(mainq)
  BY <1>2
<1>3. \A s : s \in mounted' => Shows(b, s) \/ (s \in mounted /\ ~Hides(b, s))
  BY <1>1 DEF RunOnView, Shows, Hides
<1>4. \A s : EndsMounted(mounted', mainq', s) => EndsMounted(mounted, mainq, s)
  BY <1>1, <1>3, EndsTail
<1>5. MountInv'
  <2>1. \A s \in Sess : /\ KeepsScreen(s)' = KeepsScreen(s)
                        /\ InTransit(s)' = InTransit(s)
    BY <1>1 DEF KeepsScreen, InTransit, Works, Target, OnScreen, table, cmds
  <2>2. QED
    BY <1>4, <2>1 DEF MountInv, ScreenInv
<1>6. EndedInv'
  <2>1. /\ EndedInv /\ life' = life
        /\ \A s \in Sess : HoldsResources(s)' = HoldsResources(s) /\ Owned(s)' = Owned(s)
    BY <1>1 DEF ScreenInv, HoldsResources, Owned, flags, table, cmds
  <2>2. ASSUME NEW s \in Sess, life[s] = "dropped", s \in native_input'
        PROVE  \E c \in Range(mainq') : c.op = "destroy" /\ c.s = s
    <3>1. s \in native_input /\ ~(b.op = "destroy" /\ b.s = s)
      <4>1. ~(b.op = "attach" /\ b.s = s)
        <5>1. ASSUME b.op = "attach", b.s = s PROVE FALSE
          <6>1. b.from \in Threads /\ Target(b.from) = s /\ s # NONE
            BY <1>2, <5>1 DEF InputInv
          <6>2. life[s] = "live"
            BY <6>1 DEF Target, OwnerInv, ThreadInv
          <6>3. QED
            BY <2>2, <6>2
        <5>2. QED
          BY <5>1
      <4>2. QED
        BY <1>1, <2>2, <4>1 DEF RunOnView
    <3>2. PICK c \in Range(mainq) : c.op = "destroy" /\ c.s = s
      BY <2>1, <2>2, <3>1 DEF EndedInv
    <3>3. QED
      BY <1>2, <3>1, <3>2
  <2>3. QED
    BY <2>1, <2>2 DEF EndedInv
<1>7. QED
  BY <1>5, <1>6 DEF ScreenInv

LEMMA InitScreen == Init => ScreenInv
<1> SUFFICES ASSUME Init PROVE ScreenInv
  OBVIOUS
<1>1. mainq = <<>> /\ Range(<<>>) = {} /\ DOMAIN <<>> = {}
  BY Batches DEF Init
<1>2. MountInv
  BY <1>1 DEF Init, MountInv, EndsMounted
<1>3. EndedInv
  BY DEF Init, EndedInv
<1>4. QED
  BY <1>2, <1>3 DEF ScreenInv

LEMMA NextScreen == IInv /\ ScreenInv /\ [Next]_vars => ScreenInv'
<1> SUFFICES ASSUME IInv, ScreenInv, [Next]_vars PROVE ScreenInv'
  OBVIOUS
<1>1. ASSUME NEW t \in Threads, Begin(t) PROVE ScreenInv'
  BY <1>1, QuietSteps, TakeScreens DEF Begin
<1>2. ASSUME NEW t \in Threads, Continue(t) PROVE ScreenInv'
  <2>1. CASE FocusClaim(t) \/ FocusDone(t) \/ HideDone(t)
    BY <2>1, FocusClaimScreen, FocusDoneScreen, HideDoneScreen
  <2>2. CASE ShutdownBegin(t) \/ LaunchCreate(t) \/ LaunchFail(t) \/ LaunchRelock(t)
    BY <2>2, QuietSteps
  <2>3. CASE ShutdownYield(t)
    BY <2>3, ShutdownYieldScreen
  <2>4. CASE ShutdownJoined(t)
    BY <2>4, ReleaseScreen DEF ShutdownJoined, table
  <2>5. CASE ShutdownAbandon(t)
    BY <2>5, ReleaseScreen DEF ShutdownAbandon, table
  <2>6. CASE LaunchYield(t)
    BY <2>6, TakeScreens
  <2>7. CASE LaunchSpawn(t) \/ LaunchInsert(t)
    BY <2>7, LaunchSpawnScreen, LaunchInsertScreen
  <2>8. CASE LaunchClaim(t) \/ LaunchDone(t)
    BY <2>8, LaunchClaimScreen, LaunchDoneScreen
  <2>9. QED
    BY <1>2, <2>1, <2>2, <2>3, <2>4, <2>5, <2>6, <2>7, <2>8 DEF Continue
<1>3. CASE UNCHANGED vars \/ (\E s \in Sess : WorkerExit(s)) \/ MainStatusBlocks \/ MainStatusDone
  <2>1. UNCHANGED <<table, cmds, life, flags, mainq, native>>
    BY <1>3 DEF WorkerExit, MainStatusBlocks, MainStatusDone, vars
  <2>2. QED
    BY <2>1, ElsewhereScreen
<1>4. CASE MainRun
  BY <1>4, MainRunScreen
<1>5. QED
  BY <1>1, <1>2, <1>3, <1>4 DEF Next, Main

\* Once the queue is empty and every command is done, nothing is in the window but
\* the focused session's view (KI-035), for any devices, sessions and threads.
THEOREM ScreenSettles == Spec => []SettledScreen
<1>1. IInv /\ ScreenInv => SettledScreen
  <2> SUFFICES ASSUME IInv, ScreenInv, Settled PROVE mounted \cup (native_input \ gone) \subseteq {OnScreen}
    BY DEF SettledScreen
  <2>1. /\ Range(mainq) = {} /\ \A t \in Threads : pc[t] = "idle" /\ hand[t] = NONE /\ Target(t) = NONE
    BY Batches DEF Settled, IInv, ThreadInv, Target
  <2>2. mounted \subseteq {OnScreen}
    <3>1. ASSUME NEW s \in mounted PROVE s = OnScreen
      <4>1. s \in Sess \cup {NONE} /\ EndsMounted(mounted, mainq, s)
        BY <2>1 DEF EndsMounted, IInv, TypeOK
      <4>2. s # NONE /\ (KeepsScreen(s) \/ InTransit(s))
        BY <4>1 DEF ScreenInv, MountInv
      <4>3. QED
        BY <2>1, <4>2 DEF KeepsScreen, InTransit, Works
    <3>2. QED
      BY <3>1
  <2>3. native_input \subseteq {OnScreen}
    <3>1. ASSUME NEW s \in native_input PROVE s = OnScreen
      <4>1. s \in Sess /\ HoldsResources(s)
        BY <2>1 DEF IInv, TypeOK, InputInv, HoldsResources
      <4>2. life[s] = "live"
        BY <2>1, <4>1 DEF IInv, TypeOK, LifeInv, ScreenInv, EndedInv
      <4>3. PICK k \in Keys : sessions[k] = s
        BY <2>1, <4>1, <4>2, RdpSessionsAssumption DEF ScreenInv, EndedInv, Owned
      <4>4. focused = k
        BY <4>1, <4>3, RdpSessionsAssumption DEF IInv, ResourceInv
      <4>5. QED
        BY <4>3, <4>4, RdpSessionsAssumption DEF OnScreen
    <3>2. QED
      BY <3>1
  <2>4. QED
    BY <2>2, <2>3
<1>2. Init => ScreenInv
  BY InitScreen
<1>3. IInv /\ ScreenInv /\ [Next]_vars => ScreenInv'
  BY NextScreen
<1>4. QED
  BY <1>1, <1>2, <1>3, Invariance, PTL DEF Spec

-----------------------------------------------------------------------------
(* RdpSessions implements SessionTable.                                     *)

\* A step that leaves the map, the marker and the workers of mapped sessions
\* alone is invisible to the callers.
LEMMA Invisible ==
  ASSUME sessions' = sessions, focused' = focused,
         \A k \in Keys : sessions[k] # NONE => worker'[sessions[k]] = worker[sessions[k]]
  PROVE  UNCHANGED Table!vars
BY DEF Table!vars, StatusOf

\* A step that replaces one key's session changes that key's status only.
LEMMA OneKeyChanges ==
  ASSUME NEW k \in Keys, NEW s, worker' = worker, sessions \in [Keys -> Sess \cup {NONE}],
         sessions' = [sessions EXCEPT ![k] = s]
  PROVE  [j \in Keys |-> StatusOf(j)]' =
           [[j \in Keys |-> StatusOf(j)] EXCEPT ![k] = StatusOf(k)']
<1>1. \A j \in Keys : j # k => StatusOf(j)' = StatusOf(j)
  BY DEF StatusOf
<1>2. QED
  BY <1>1

LEMMA StepImplements == IInv /\ [Next]_vars => [Table!Next]_Table!vars
<1> SUFFICES ASSUME IInv, [Next]_vars PROVE [Table!Next]_Table!vars
  OBVIOUS
<1> USE DEF IInv
<1> DEFINE status == [k \in Keys |-> StatusOf(k)]
<1>w. ASSUME NEW k \in Keys, NEW t \in Threads, worker' = worker,
             sessions' = [sessions EXCEPT ![k] = NONE],
             focused' = NONE \/ focused' = Unfocused(k)
      PROVE  Table!Withdraw(k)
  <2>1. StatusOf(k)' = "notRunning"
    BY <1>w DEF StatusOf, TypeOK
  <2>2. [j \in Keys |-> StatusOf(j)]' = [status EXCEPT ![k] = "notRunning"]
    BY <1>w, <2>1, OneKeyChanges DEF TypeOK
  <2>3. QED
    BY <1>w, <2>2 DEF Table!Withdraw, Unfocused
<1>i. ASSUME NEW t \in Threads, NEW k \in Keys, k = key[t], worker' = worker, Insert(t),
             hand[t] # NONE, focused' \in {focused, k}
      PROVE  Table!Install(k)
  <2>1. sessions' = [sessions EXCEPT ![k] = hand[t]]
    BY <1>i DEF Insert
  <2>2. StatusOf(k)' \in {"running", "exited"}
    BY <1>i, <2>1 DEF StatusOf, TypeOK
  <2>3. [j \in Keys |-> StatusOf(j)]' = [status EXCEPT ![k] = StatusOf(k)']
    BY <1>i, <2>1, OneKeyChanges DEF TypeOK
  <2>4. QED
    BY <1>i, <2>2, <2>3 DEF Table!Install
<1>1. ASSUME NEW t \in Threads, HideAll(t) PROVE UNCHANGED Table!vars
  BY <1>1, Invisible DEF HideAll
<1>2. ASSUME NEW t \in Threads, NEW k \in Keys,
             Focus(t, k) \/ Close(t, k) \/ LaunchBackground(t, k) \/ LaunchFocused(t, k)
      PROVE  Table!Withdraw(k) \/ UNCHANGED Table!vars
  <2>1. CASE Focus(t, k) \/ LaunchFocused(t, k)
    BY <2>1, Invisible DEF Focus, LaunchFocused
  <2>2. CASE Close(t, k)
    BY <2>2, <1>w DEF Close
  <2>3. CASE LaunchBackground(t, k)
    BY <2>3, <1>w DEF LaunchBackground, TakePredecessor
  <2>4. QED
    BY <1>2, <2>1, <2>2, <2>3
<1>3. ASSUME NEW t \in Threads, Continue(t) PROVE Table!Next \/ UNCHANGED Table!vars
  <2>1. CASE FocusDone(t)
    <3>1. /\ key[t] \in Keys /\ sessions[key[t]] # NONE /\ focused' = key[t]
          /\ sessions' = sessions /\ worker' = worker
      BY <2>1 DEF FocusDone, ThreadInv
    <3>2. StatusOf(key[t]) # "notRunning" /\ status' = status
      BY <3>1 DEF StatusOf
    <3>3. Table!Show(key[t])
      BY <3>1, <3>2 DEF Table!Show
    <3>4. QED
      BY <3>1, <3>3 DEF Table!Next
  <2>2. CASE HideDone(t)
    <3>1. status' = status /\ focused' = NONE
      BY <2>2 DEF HideDone, StatusOf
    <3>2. QED
      BY <3>1 DEF Table!Next, Table!Hide
  <2>3. CASE LaunchYield(t)
    <3>1. key[t] \in Keys
      BY <2>3 DEF LaunchYield, ThreadInv
    <3>2. Table!Withdraw(key[t])
      BY <2>3, <3>1, <1>w DEF LaunchYield, TakePredecessor
    <3>3. QED
      BY <3>1, <3>2 DEF Table!Next
  <2>4. CASE LaunchInsert(t) \/ LaunchDone(t)
    <3>1. key[t] \in Keys /\ hand[t] # NONE
      BY <2>4 DEF LaunchInsert, LaunchDone, ThreadInv
    <3>2. Table!Install(key[t])
      BY <2>4, <3>1, <1>i DEF LaunchInsert, LaunchDone
    <3>3. QED
      BY <3>1, <3>2 DEF Table!Next
  <2>5. CASE LaunchSpawn(t)
    <3>1. PICK s \in Sess : life[s] = "unused" /\ worker' = [worker EXCEPT ![s] = "running"]
      BY <2>5 DEF LaunchSpawn
    <3>2. \A k \in Keys : sessions[k] # NONE => sessions[k] # s
      BY <3>1 DEF OwnerInv
    <3>3. \A k \in Keys : sessions[k] # NONE => worker'[sessions[k]] = worker[sessions[k]]
      BY <3>1, <3>2 DEF TypeOK
    <3>4. QED
      BY <2>5, <3>3, Invisible DEF LaunchSpawn, table
  <2>6. CASE \/ FocusClaim(t) \/ ShutdownBegin(t) \/ ShutdownYield(t) \/ ShutdownJoined(t)
             \/ ShutdownAbandon(t) \/ LaunchCreate(t) \/ LaunchFail(t) \/ LaunchRelock(t)
             \/ LaunchClaim(t)
    BY <2>6, Invisible
       DEF FocusClaim, ShutdownBegin, ShutdownYield, ShutdownJoined, ShutdownAbandon,
           LaunchCreate, LaunchFail, LaunchRelock, LaunchClaim, table
  <2>7. QED
    BY <1>3, <2>1, <2>2, <2>3, <2>4, <2>5, <2>6 DEF Continue
<1>4. ASSUME NEW s \in Sess, WorkerExit(s) PROVE Table!Next \/ UNCHANGED Table!vars
  <2>1. /\ sessions' = sessions /\ focused' = focused /\ worker[s] = "running"
        /\ \A x \in Sess : worker'[x] = IF x = s THEN "finished" ELSE worker[x]
    BY <1>4 DEF WorkerExit, table, TypeOK
  <2>2. CASE \E k \in Keys : sessions[k] = s
    <3>1. PICK k \in Keys : sessions[k] = s
      BY <2>2
    <3>2. s # NONE
      BY RdpSessionsAssumption
    <3>3. \A j \in Keys : j # k => StatusOf(j)' = StatusOf(j)
      BY <2>1, <3>1, <3>2 DEF OwnerInv, StatusOf, TypeOK
    <3>4. StatusOf(k) = "running" /\ StatusOf(k)' = "exited"
      BY <2>1, <3>1, <3>2 DEF StatusOf
    <3>5. [j \in Keys |-> StatusOf(j)]' = [status EXCEPT ![k] = "exited"]
      BY <3>3, <3>4
    <3>6. Table!Exit(k)
      BY <2>1, <3>4, <3>5 DEF Table!Exit
    <3>7. QED
      BY <3>6 DEF Table!Next
  <2>3. CASE \A k \in Keys : sessions[k] # s
    BY <2>1, <2>3, Invisible DEF TypeOK
  <2>4. QED
    BY <2>2, <2>3
<1>5. ASSUME Main \/ UNCHANGED vars PROVE UNCHANGED Table!vars
  <2>1. sessions' = sessions /\ focused' = focused /\ worker' = worker
    BY <1>5 DEF Main, MainRun, MainStatusBlocks, MainStatusDone, vars, table
  <2>2. QED
    BY <2>1, Invisible
<1>6. ASSUME NEW t \in Threads, Begin(t) PROVE Table!Next \/ UNCHANGED Table!vars
  <2>1. CASE HideAll(t)
    BY <2>1, <1>1
  <2>2. CASE \E k \in Keys : \/ Focus(t, k) \/ Close(t, k) \/ LaunchBackground(t, k)
                             \/ LaunchFocused(t, k)
    BY <2>2, <1>2 DEF Table!Next
  <2>3. QED
    BY <1>6, <2>1, <2>2 DEF Begin
<1>7. QED
  BY <1>3, <1>4, <1>5, <1>6 DEF Next

\* Every command acts on the table of sessions in atomic steps: the lock, the
\* trips to the main thread and the teardown outside the lock are invisible.
THEOREM Refinement == Spec => ImplementsSessionTable
<1>1. Init => Table!Init
  BY DEF Init, Table!Init, StatusOf
<1>2. IInv /\ [Next]_vars => [Table!Next]_Table!vars
  BY StepImplements
<1>3. QED
  BY <1>1, <1>2, Invariance, PTL DEF Spec, ImplementsSessionTable, Table!Spec
=============================================================================
