------------------------- MODULE CommandQueueProofs -------------------------
(***************************************************************************)
(* Proofs about CommandQueue, for every capacity of the queue and every    *)
(* number of commands.                                                     *)
(***************************************************************************)
EXTENDS CommandQueue, SequenceTheorems, FiniteSetTheorems, WellFoundedInduction, TLAPS

Increasing(q) == \A i, j \in 1..Len(q) : i < j => q[i].n < q[j].n

\* Every command of q comes before command number n.
Below(q, n) == \A i \in 1..Len(q) : q[i].n < n

\* Nothing in r is new except possibly c.
From(r, q, c) == \A i \in 1..Len(r) : r[i] = c \/ \E j \in 1..Len(q) : r[i] = q[j]

\* The worker holds a command only between the pop and its dispatch.
InflightInv == worker = "dispatch" <=> inflight # NoCmd

\* A worker past its drain, or parked, has been promised a wake-up for whatever
\* is in the queue, and for a disconnect request it did not see.
WakeInv == NoLostWake /\ NoLostDisconnect

\* A request to disconnect has set FreeRDP's event once its caller is done.
BreakerInv ==
  /\ disconnecting <=> breaker # "idle"
  /\ breaker = "done" => abort

\* The order of the whole pipeline, part by part.
OrderInv ==
  /\ Increasing(sent) /\ Increasing(items)
  /\ Below(items, Len(log) + 1) /\ Below(sent, Len(log) + 1)
  /\ \A i \in 1..Len(sent), j \in 1..Len(items) : sent[i].n < items[j].n
  /\ inflight # NoCmd =>
       /\ inflight.n <= Len(log)
       /\ Below(sent, inflight.n)
       /\ \A j \in 1..Len(items) : inflight.n < items[j].n

QInv == TypeOK /\ InflightInv /\ BreakerInv /\ WakeInv /\ OrderInv

-----------------------------------------------------------------------------
\* A nonempty set of natural numbers has a least element.
LEMMA LeastNat ==
  ASSUME NEW T \in SUBSET Nat, T # {}
  PROVE \E m \in T : \A y \in T : m <= y
<1> DEFINE R == OpToRel(<, Nat)
<1>1. IsWellFoundedOn(R, Nat)
  BY NatLessThanWellFounded
<1>2. \A x, y \in Nat : y < x => <<y, x>> \in R
  BY DEF OpToRel
<1> HIDE DEF R
<1>3. \E x \in T : \A y \in T : ~ (<<y, x>> \in R)
  BY <1>1, WFMin
<1>4. PICK m \in T : \A y \in T : ~ (<<y, m>> \in R)
  BY <1>3
<1>5. \A y \in T : ~(y < m)
  BY <1>2, <1>4
<1>6. QED
  BY <1>5

\* Removing one element keeps the others and their order.
LEMMA RemoveAtOrdered ==
  ASSUME NEW q \in Seq(Cmd), NEW k \in 1..Len(q), Increasing(q)
  PROVE  LET r == RemoveAt(q, k)
         IN /\ r \in Seq(Cmd)
            /\ Len(r) = Len(q) - 1
            /\ Increasing(r)
            /\ \A i \in 1..Len(r) : \E j \in 1..Len(q) : r[i] = q[j]
            /\ \A i \in (1..Len(q)) \ {k} : \E j \in 1..Len(r) : r[j] = q[i]
<1> DEFINE r == RemoveAt(q, k)
           front == SubSeq(q, 1, k - 1)
           rest == SubSeq(q, k + 1, Len(q))
<1>1. /\ front \in Seq(Cmd) /\ Len(front) = k - 1
      /\ \A i \in 1..(k - 1) : front[i] = q[i]
  BY SubSeqProperties
<1>2. /\ rest \in Seq(Cmd) /\ Len(rest) = Len(q) - k
      /\ \A i \in 1..(Len(q) - k) : rest[i] = q[k + i]
  BY SubSeqProperties
<1>3. r = front \o rest
  BY DEF RemoveAt
<1> HIDE DEF front, rest, r
<1>4. /\ r \in Seq(Cmd) /\ Len(r) = Len(q) - 1
      /\ \A i \in 1..(k - 1) : r[i] = front[i]
      /\ \A i \in 1..(Len(q) - k) : r[(k - 1) + i] = rest[i]
  <2>1. /\ r \in Seq(Cmd)
        /\ Len(r) = Len(front) + Len(rest)
        /\ \A i \in 1..Len(r) :
             r[i] = IF i <= Len(front) THEN front[i] ELSE rest[i - Len(front)]
    BY <1>1, <1>2, <1>3, ConcatProperties
  <2>2. Len(r) = Len(q) - 1
    BY <1>1, <1>2, <2>1
  <2>3. \A i \in 1..(k - 1) : r[i] = front[i]
    BY <1>1, <2>1, <2>2
  <2>4. \A i \in 1..(Len(q) - k) : r[(k - 1) + i] = rest[i]
    <3>1. TAKE i \in 1..(Len(q) - k)
    <3>2. (k - 1) + i \in 1..Len(r) /\ ~((k - 1) + i <= k - 1)
      BY <2>2
    <3>3. ((k - 1) + i) - (k - 1) = i
      OBVIOUS
    <3>4. QED
      BY <1>1, <2>1, <3>2, <3>3
  <2>5. QED
    BY <2>1, <2>2, <2>3, <2>4
<1>5. \A i \in 1..Len(r) : i < k => r[i] = q[i]
  BY <1>1, <1>4
<1>6. \A i \in 1..Len(r) : i >= k => r[i] = q[i + 1]
  <2>1. SUFFICES ASSUME NEW i \in 1..Len(r), i >= k
                 PROVE  r[i] = q[i + 1]
    OBVIOUS
  <2>2. i - (k - 1) \in 1..(Len(q) - k) /\ (k - 1) + (i - (k - 1)) = i
    BY <1>4, <2>1
  <2>3. rest[i - (k - 1)] = q[k + (i - (k - 1))] /\ k + (i - (k - 1)) = i + 1
    BY <1>2, <2>2
  <2>4. QED
    BY <1>4, <2>2, <2>3
<1>7. Increasing(r)
  <2>1. SUFFICES ASSUME NEW i \in 1..Len(r), NEW j \in 1..Len(r), i < j
                 PROVE  r[i].n < r[j].n
    BY DEF Increasing
  <2>2. CASE j < k
    <3>1. r[i] = q[i] /\ r[j] = q[j]
      BY <1>4, <1>5, <2>1, <2>2
    <3>2. i \in 1..Len(q) /\ j \in 1..Len(q)
      BY <1>4, <2>1
    <3>3. QED
      BY <2>1, <3>1, <3>2 DEF Increasing
  <2>3. CASE i < k /\ j >= k
    <3>1. i \in 1..Len(q) /\ j + 1 \in 1..Len(q) /\ i < j + 1
      BY <1>4, <2>1
    <3>2. QED
      BY <1>5, <1>6, <2>3, <3>1 DEF Increasing
  <2>4. CASE i >= k
    <3>1. i + 1 \in 1..Len(q) /\ j + 1 \in 1..Len(q) /\ i + 1 < j + 1 /\ j >= k
      BY <1>4, <2>1, <2>4
    <3>2. QED
      BY <1>6, <2>4, <3>1 DEF Increasing
  <2>5. QED
    BY <2>2, <2>3, <2>4
<1>8. \A i \in 1..Len(r) : \E j \in 1..Len(q) : r[i] = q[j]
  <2>1. SUFFICES ASSUME NEW i \in 1..Len(r)
                 PROVE  \E j \in 1..Len(q) : r[i] = q[j]
    OBVIOUS
  <2>2. i \in 1..Len(q) /\ i + 1 \in 1..Len(q)
    BY <1>4
  <2>3. r[i] = q[i] \/ r[i] = q[i + 1]
    BY <1>5, <1>6, <1>4
  <2>4. QED
    BY <2>2, <2>3
<1>9. \A i \in (1..Len(q)) \ {k} : \E j \in 1..Len(r) : r[j] = q[i]
  <2>1. SUFFICES ASSUME NEW i \in (1..Len(q)) \ {k}
                 PROVE  \E j \in 1..Len(r) : r[j] = q[i]
    OBVIOUS
  <2>2. CASE i < k
    <3>1. i \in 1..Len(r) /\ r[i] = q[i]
      BY <1>4, <1>5, <2>1, <2>2
    <3>2. QED
      BY <3>1
  <2>3. CASE i > k
    <3>1. i - 1 \in 1..Len(r) /\ i - 1 >= k /\ (i - 1) + 1 = i
      BY <1>4, <2>1, <2>3
    <3>2. r[i - 1] = q[i]
      BY <1>6, <3>1
    <3>3. QED
      BY <3>1, <3>2
  <2>4. QED
    BY <2>1, <2>2, <2>3
<1>10. QED
  BY <1>4, <1>7, <1>8, <1>9 DEF r

\* Appending a later command.
LEMMA AppendOrdered ==
  ASSUME NEW q \in Seq(Cmd), NEW c \in Cmd, Increasing(q), Below(q, c.n)
  PROVE  /\ Append(q, c) \in Seq(Cmd)
         /\ Len(Append(q, c)) = Len(q) + 1
         /\ Increasing(Append(q, c))
         /\ From(Append(q, c), q, c)
<1>1. /\ Append(q, c) \in Seq(Cmd)
      /\ Len(Append(q, c)) = Len(q) + 1
      /\ \A i \in 1..(Len(q) + 1) : Append(q, c)[i] = IF i <= Len(q) THEN q[i] ELSE c
  OBVIOUS
<1>2. \A x \in Cmd : x.n \in Nat
  BY DEF Cmd
<1>3. \A i \in 1..Len(q) : q[i] \in Cmd
  OBVIOUS
<1>4. QED
  BY <1>1, <1>2, <1>3 DEF Increasing, Below, From

\* push_internal keeps the capacity and the order.
LEMMA PushOrdered ==
  ASSUME NEW q \in Seq(Cmd), Len(q) <= CAP, NEW c \in Cmd, Increasing(q), Below(q, c.n)
  PROVE  /\ Push(q, c) \in Seq(Cmd)
         /\ Len(Push(q, c)) <= CAP
         /\ Increasing(Push(q, c))
         /\ From(Push(q, c), q, c)
<1>1. CASE Len(q) < CAP
  BY <1>1, AppendOrdered, CommandQueueAssumption DEF Push
<1>2. CASE ~(Len(q) < CAP) /\ \E i \in 1..Len(q) : IsMove(q[i])
  <2> DEFINE k == OldestMove(q)
             r == RemoveAt(q, k)
  <2>1. k \in 1..Len(q)
    <3>1. PICK i \in 1..Len(q) : IsMove(q[i]) /\ \A j \in 1..(i - 1) : ~IsMove(q[j])
      <4> DEFINE moves == {m \in 1..Len(q) : IsMove(q[m])}
      <4>1. moves \in SUBSET Nat /\ moves # {}
        BY <1>2
      <4>2. PICK m \in moves : \A y \in moves : m <= y
        BY <4>1, LeastNat
      <4>3. QED
        BY <4>2
    <3>2. QED
      BY <3>1 DEF OldestMove
  <2> HIDE DEF k
  <2>2. /\ r \in Seq(Cmd)
        /\ Len(r) = Len(q) - 1
        /\ Increasing(r)
        /\ \A i \in 1..Len(r) : \E j \in 1..Len(q) : r[i] = q[j]
    BY <2>1, RemoveAtOrdered
  <2> HIDE DEF r
  <2>3. Below(r, c.n)
    BY <2>2 DEF Below
  <2>4. /\ Append(r, c) \in Seq(Cmd)
        /\ Len(Append(r, c)) = Len(r) + 1
        /\ Increasing(Append(r, c))
        /\ From(Append(r, c), r, c)
    BY <2>2, <2>3, AppendOrdered
  <2>5. From(Append(r, c), q, c)
    BY <2>2, <2>4 DEF From
  <2>6. Push(q, c) = Append(r, c)
    BY <1>2 DEF Push, r, k
  <2>7. Len(q) = CAP
    BY <1>2, CommandQueueAssumption
  <2>8. QED
    BY <2>2, <2>4, <2>5, <2>6, <2>7, CommandQueueAssumption
<1>3. CASE ~(Len(q) < CAP) /\ ~\E i \in 1..Len(q) : IsMove(q[i])
  BY <1>3 DEF Push, From
<1>4. QED
  BY <1>1, <1>2, <1>3

\* jr_cmdq_enqueue_move keeps the capacity and the order.
LEMMA EnqueueMoveOrdered ==
  ASSUME NEW q \in Seq(Cmd), Len(q) <= CAP, NEW c \in Cmd, Increasing(q), Below(q, c.n)
  PROVE  /\ EnqueueMove(q, c) \in Seq(Cmd)
         /\ Len(EnqueueMove(q, c)) <= CAP
         /\ Increasing(EnqueueMove(q, c))
         /\ From(EnqueueMove(q, c), q, c)
<1>1. CASE q # <<>> /\ IsMove(Last(q))
  <2> DEFINE r == [q EXCEPT ![Len(q)] = c]
  <2>1. /\ r \in Seq(Cmd) /\ Len(r) = Len(q)
        /\ \A i \in 1..Len(q) : r[i] = IF i = Len(q) THEN c ELSE q[i]
    <3>1. Len(q) \in 1..Len(q)
      BY <1>1
    <3>2. r \in Seq(Cmd) /\ Len(r) = Len(q)
      BY <3>1, ExceptSeq
    <3>3. QED
      BY <3>1, <3>2
  <2>2. EnqueueMove(q, c) = r
    BY <1>1 DEF EnqueueMove
  <2> HIDE DEF r
  <2>3. \A x \in Cmd : x.n \in Nat
    BY DEF Cmd
  <2>4. Increasing(r)
    <3>1. SUFFICES ASSUME NEW i \in 1..Len(r), NEW j \in 1..Len(r), i < j
                   PROVE  r[i].n < r[j].n
      BY DEF Increasing
    <3>2. i \in 1..Len(q) /\ j \in 1..Len(q) /\ i # Len(q)
      BY <2>1, <3>1
    <3>3. QED
      BY <2>1, <3>1, <3>2 DEF Increasing, Below
  <2>5. From(r, q, c)
    BY <2>1 DEF From
  <2>6. QED
    BY <2>1, <2>2, <2>4, <2>5
<1>2. CASE ~(q # <<>> /\ IsMove(Last(q))) /\ Len(q) >= CAP
  BY <1>2 DEF EnqueueMove, From
<1>3. CASE ~(q # <<>> /\ IsMove(Last(q))) /\ ~(Len(q) >= CAP)
  BY <1>3, AppendOrdered, CommandQueueAssumption DEF EnqueueMove
<1>4. QED
  BY <1>1, <1>2, <1>3

-----------------------------------------------------------------------------
\* The initial state.
LEMMA InitQInv == Init => QInv
<1>1. SUFFICES ASSUME Init PROVE QInv
  OBVIOUS
<1>2. <<>> \in Seq(Cmd) /\ <<>> \in Seq(Kinds) /\ Len(<<>>) = 0
  OBVIOUS
<1>3. TypeOK
  <2>1. 0 <= CAP /\ 0 <= MaxMade
    BY CommandQueueAssumption
  <2>2. QED
    BY <1>1, <1>2, <2>1 DEF Init, TypeOK, WorkerPCs
<1>4. OrderInv
  BY <1>1, <1>2 DEF Init, OrderInv, Increasing, Below
<1>5. InflightInv /\ BreakerInv /\ WakeInv
  BY <1>1 DEF Init, InflightInv, BreakerInv, WakeInv, NoLostWake, NoLostDisconnect
<1>6. QED
  BY <1>3, <1>4, <1>5 DEF QInv

\* Producing a command: the one step that changes the log.
LEMMA ProduceStep ==
  ASSUME QInv, NEW kind \in Kinds, Produce(kind)
  PROVE  QInv'
<1> DEFINE c == [kind |-> kind, n |-> Len(log) + 1]
           r == IF kind = "move" THEN EnqueueMove(items, c) ELSE Push(items, c)
<1>1. /\ items \in Seq(Cmd) /\ Len(items) <= CAP /\ log \in Seq(Kinds)
      /\ Increasing(items) /\ Below(items, Len(log) + 1)
  BY DEF QInv, TypeOK, OrderInv
<1>2. c \in Cmd /\ c.n = Len(log) + 1
  BY <1>1, CommandQueueAssumption DEF Cmd, Produce
<1>3. items' = r
  BY DEF Produce
<1> HIDE DEF c
<1>4. /\ r \in Seq(Cmd) /\ Len(r) <= CAP
      /\ Increasing(r) /\ From(r, items, c)
  BY <1>1, <1>2, PushOrdered, EnqueueMoveOrdered
<1> HIDE DEF r
<1>5. /\ log' \in Seq(Kinds) /\ Len(log') = Len(log) + 1 /\ Len(log) \in Nat
      /\ Len(log') <= MaxMade
  BY <1>1, CommandQueueAssumption DEF Produce
<1>6. TypeOK'
  BY <1>3, <1>4, <1>5 DEF QInv, TypeOK, Produce, events
<1>7. OrderInv'
  <2>1. sent' = sent /\ inflight' = inflight
    BY DEF Produce
  <2>2. \A x \in Cmd : x.n \in Nat
    BY DEF Cmd
  <2>3. sent \in Seq(Cmd) /\ inflight \in Cmd \cup {NoCmd}
    BY DEF QInv, TypeOK
  <2>4. Below(items', Len(log') + 1) /\ Below(sent', Len(log') + 1)
    <3>1. Below(sent', Len(log') + 1)
      BY <1>5, <2>1, <2>2, <2>3 DEF QInv, OrderInv, Below
    <3>2. ASSUME NEW j \in 1..Len(items')
          PROVE  items'[j].n < Len(log') + 1
      <4>1. CASE items'[j] = c
        BY <1>2, <1>5, <4>1
      <4>2. CASE \E k \in 1..Len(items) : items'[j] = items[k]
        BY <1>1, <1>5, <2>2, <4>2 DEF Below
      <4>3. QED
        BY <1>3, <1>4, <4>1, <4>2 DEF From
    <3>3. QED
      BY <3>1, <3>2 DEF Below
  <2>5. \A i \in 1..Len(sent), j \in 1..Len(items') : sent[i].n < items'[j].n
    <3>1. TAKE i \in 1..Len(sent), j \in 1..Len(items')
    <3>2. CASE items'[j] = c
      BY <1>2, <2>2, <2>3, <3>2 DEF QInv, OrderInv, Below
    <3>3. CASE \E k \in 1..Len(items) : items'[j] = items[k]
      BY <3>3 DEF QInv, OrderInv
    <3>4. QED
      BY <1>3, <1>4, <3>2, <3>3 DEF From
  <2>6. inflight # NoCmd =>
          /\ inflight.n <= Len(log')
          /\ Below(sent, inflight.n)
          /\ \A j \in 1..Len(items') : inflight.n < items'[j].n
    <3>1. SUFFICES ASSUME inflight # NoCmd
                   PROVE  /\ inflight.n <= Len(log')
                          /\ Below(sent, inflight.n)
                          /\ \A j \in 1..Len(items') : inflight.n < items'[j].n
      OBVIOUS
    <3>2. inflight \in Cmd /\ inflight.n \in Nat /\ inflight.n <= Len(log)
      BY <2>2, <2>3, <3>1 DEF QInv, OrderInv
    <3>3. ASSUME NEW j \in 1..Len(items')
          PROVE  inflight.n < items'[j].n
      <4>1. CASE items'[j] = c
        BY <1>2, <1>5, <3>2, <4>1
      <4>2. CASE \E k \in 1..Len(items) : items'[j] = items[k]
        BY <3>1, <4>2 DEF QInv, OrderInv
      <4>3. QED
        BY <1>3, <1>4, <4>1, <4>2 DEF From
    <3>4. Below(sent, inflight.n)
      BY <3>1 DEF QInv, OrderInv
    <3>5. QED
      BY <1>5, <3>2, <3>3, <3>4
  <2>7. Increasing(sent') /\ Increasing(items')
    BY <1>3, <1>4, <2>1 DEF QInv, OrderInv
  <2>8. QED
    BY <2>1, <2>4, <2>5, <2>6, <2>7 DEF OrderInv, Below
<1>8. InflightInv' /\ BreakerInv' /\ WakeInv'
  BY DEF QInv, InflightInv, BreakerInv, WakeInv, NoLostWake, NoLostDisconnect, Produce, events
<1>9. QED
  BY <1>6, <1>7, <1>8 DEF QInv

\* The steps that touch neither the log nor the queue nor what was sent.
LEMMA SameOrder ==
  ASSUME OrderInv, UNCHANGED <<items, log, inflight, sent>>
  PROVE  OrderInv'
  BY DEF OrderInv, Increasing, Below

\* The two threads that owe the worker a wake-up, and the end of the session.
LEMMA OtherThreadsStep ==
  ASSUME QInv, Signal \/ Disconnect \/ DisconnectWake \/ Destroy
  PROVE  QInv'
<1>1. CASE Signal
  BY <1>1, SameOrder DEF QInv, TypeOK, InflightInv, BreakerInv, WakeInv, NoLostWake,
       NoLostDisconnect, Signal
<1>2. CASE Disconnect
  BY <1>2, SameOrder DEF QInv, TypeOK, InflightInv, BreakerInv, WakeInv, NoLostWake,
       NoLostDisconnect, Disconnect
<1>3. CASE DisconnectWake
  BY <1>3, SameOrder DEF QInv, TypeOK, InflightInv, BreakerInv, WakeInv, NoLostWake,
       NoLostDisconnect, DisconnectWake
<1>4. CASE Destroy
  <2>1. items' = <<>> /\ Len(<<>>) = 0 /\ <<>> \in Seq(Cmd)
    BY <1>4 DEF Destroy
  <2>2. TypeOK'
    BY <1>4, <2>1, CommandQueueAssumption DEF QInv, TypeOK, Destroy, events
  <2>3. OrderInv'
    BY <1>4, <2>1 DEF QInv, OrderInv, Increasing, Below, Destroy
  <2>4. InflightInv' /\ BreakerInv' /\ WakeInv'
    BY <1>4, <2>1 DEF QInv, InflightInv, BreakerInv, WakeInv, NoLostWake,
       NoLostDisconnect, Destroy, events
  <2>5. QED
    BY <2>2, <2>3, <2>4 DEF QInv
<1>5. QED
  BY <1>1, <1>2, <1>3, <1>4

\* The worker's loop outside the drain.
LEMMA LoopStep ==
  ASSUME QInv,
         Connected \/ ConnectFails \/ Check \/ Reset \/ Woken \/ Tick \/ ServerGone
  PROVE  QInv'
<1>1. UNCHANGED <<items, log, inflight, sent, disconnecting, abort, breaker, producer, destroyed>>
  BY DEF Connected, ConnectFails, Check, Reset, Woken, Tick, ServerGone, WorkerGoes
<1>2. worker' \in {"check", "ended", "reset", "drain"} /\ worker # "dispatch"
  BY DEF Connected, ConnectFails, Check, Reset, Woken, Tick, ServerGone, WorkerGoes
<1>3. wake' \in BOOLEAN
  BY DEF Connected, ConnectFails, Check, Reset, Woken, Tick, ServerGone, QInv, TypeOK
<1>4. TypeOK'
  BY <1>1, <1>2, <1>3 DEF QInv, TypeOK, WorkerPCs
<1>5. OrderInv'
  BY <1>1, SameOrder DEF QInv
<1>6. InflightInv' /\ BreakerInv' /\ WakeInv'
  BY <1>1, <1>2 DEF QInv, InflightInv, BreakerInv, WakeInv, NoLostWake, NoLostDisconnect
<1>7. QED
  BY <1>4, <1>5, <1>6 DEF QInv

\* Popping: the oldest command leaves the queue for the worker's hand.
LEMMA DrainStep ==
  ASSUME QInv, Drain
  PROVE  QInv'
<1>1. CASE items = <<>>
  <2>1. UNCHANGED <<items, log, inflight, sent, disconnecting, abort, breaker, producer, destroyed, wake>>
    BY <1>1 DEF Drain, WorkerGoes
  <2>2. worker = "drain" /\ worker' = "wait"
    BY <1>1 DEF Drain, WorkerGoes
  <2>3. disconnecting => abort \/ breaker = "wake"
    BY DEF QInv, BreakerInv, TypeOK
  <2>4. TypeOK'
    BY <2>1, <2>2 DEF QInv, TypeOK, WorkerPCs
  <2>5. OrderInv'
    BY <2>1, SameOrder DEF QInv
  <2>6. InflightInv' /\ BreakerInv' /\ WakeInv'
    BY <1>1, <2>1, <2>2, <2>3 DEF QInv, InflightInv, BreakerInv, WakeInv, NoLostWake,
       NoLostDisconnect
  <2>7. QED
    BY <2>4, <2>5, <2>6 DEF QInv
<1>2. CASE items # <<>>
  <2>1. /\ worker = "drain" /\ worker' = "dispatch"
        /\ inflight' = Head(items) /\ items' = Tail(items)
        /\ UNCHANGED <<log, sent, disconnecting, abort, breaker, producer, destroyed, wake>>
    BY <1>2 DEF Drain, WorkerGoes
  <2>2. items \in Seq(Cmd) /\ sent \in Seq(Cmd) /\ Len(items) <= CAP
    BY DEF QInv, TypeOK
  <2>3. /\ Head(items) = items[1] /\ items[1] \in Cmd /\ 1 \in 1..Len(items)
        /\ Tail(items) \in Seq(Cmd) /\ Len(Tail(items)) = Len(items) - 1
        /\ \A i \in 1..Len(Tail(items)) : Tail(items)[i] = items[i + 1]
    BY <1>2, <2>2, HeadTailProperties
  <2>4. \A x \in Cmd : x # NoCmd /\ x.n \in Nat
    BY DEF Cmd, NoCmd, Kinds
  <2>5. TypeOK'
    BY <2>1, <2>2, <2>3, CommandQueueAssumption DEF QInv, TypeOK, WorkerPCs
  <2>6. OrderInv'
    <3>1. \A i \in 1..Len(items') : i + 1 \in 1..Len(items) /\ items'[i] = items[i + 1]
      BY <2>1, <2>3
    <3>2. Increasing(items')
      BY <3>1 DEF QInv, OrderInv, Increasing
    <3>3. \A j \in 1..Len(items') : inflight'.n < items'[j].n
      BY <2>1, <2>3, <3>1 DEF QInv, OrderInv, Increasing
    <3>4. \A i \in 1..Len(sent'), j \in 1..Len(items') : sent'[i].n < items'[j].n
      BY <2>1, <3>1 DEF QInv, OrderInv
    <3>5. Below(sent', inflight'.n)
      BY <2>1, <2>3 DEF QInv, OrderInv, Below
    <3>6. Below(items', Len(log') + 1) /\ Below(sent', Len(log') + 1)
      BY <2>1, <3>1 DEF QInv, OrderInv, Below
    <3>7. inflight'.n <= Len(log')
      <4>1. items[1].n < Len(log) + 1 /\ items[1].n \in Nat /\ Len(log) \in Nat
        BY <2>3, <2>4 DEF QInv, OrderInv, Below, TypeOK
      <4>2. QED
        BY <2>1, <2>3, <4>1
    <3>8. Increasing(sent')
      BY <2>1 DEF QInv, OrderInv
    <3>9. QED
      BY <3>2, <3>3, <3>4, <3>5, <3>6, <3>7, <3>8 DEF OrderInv
  <2>7. InflightInv' /\ BreakerInv' /\ WakeInv'
    BY <2>1, <2>3, <2>4 DEF QInv, InflightInv, BreakerInv, WakeInv, NoLostWake,
       NoLostDisconnect
  <2>8. QED
    BY <2>5, <2>6, <2>7 DEF QInv
<1>3. QED
  BY <1>1, <1>2

\* Dispatching: the command in hand is handed to FreeRDP.
LEMMA DispatchStep ==
  ASSUME QInv, Dispatch
  PROVE  QInv'
<1>1. /\ worker = "dispatch" /\ worker' = "drain"
      /\ sent' = Append(sent, inflight) /\ inflight' = NoCmd
      /\ UNCHANGED <<items, log, disconnecting, abort, breaker, producer, destroyed, wake>>
  BY DEF Dispatch, WorkerGoes
<1>2. /\ inflight \in Cmd /\ inflight # NoCmd /\ sent \in Seq(Cmd)
      /\ Increasing(sent) /\ Below(sent, inflight.n)
  BY <1>1 DEF QInv, InflightInv, TypeOK, OrderInv
<1>3. /\ sent' \in Seq(Cmd) /\ Increasing(sent') /\ From(sent', sent, inflight)
  BY <1>1, <1>2, AppendOrdered
<1>4. TypeOK'
  BY <1>1, <1>3 DEF QInv, TypeOK, WorkerPCs
<1>5. OrderInv'
  <2>1. \A x \in Cmd : x.n \in Nat
    BY DEF Cmd
  <2>2. Below(sent', Len(log') + 1)
    <3>1. inflight.n < Len(log) + 1
      BY <1>2, <2>1 DEF QInv, OrderInv, TypeOK
    <3>2. QED
      BY <1>1, <1>3, <3>1 DEF QInv, OrderInv, Below, From
  <2>3. \A i \in 1..Len(sent'), j \in 1..Len(items') : sent'[i].n < items'[j].n
    BY <1>1, <1>2, <1>3 DEF QInv, OrderInv, From
  <2>4. Increasing(items') /\ Below(items', Len(log') + 1)
    BY <1>1 DEF QInv, OrderInv
  <2>5. QED
    BY <1>1, <1>3, <2>2, <2>3, <2>4 DEF OrderInv
<1>6. InflightInv' /\ BreakerInv' /\ WakeInv'
  BY <1>1 DEF QInv, InflightInv, BreakerInv, WakeInv, NoLostWake, NoLostDisconnect
<1>7. QED
  BY <1>4, <1>5, <1>6 DEF QInv

-----------------------------------------------------------------------------
\* The inductive invariant of the input path holds in every reachable state.
THEOREM QInvariance == Spec => []QInv
<1>1. QInv /\ [Next]_vars => QInv'
  <2>1. SUFFICES ASSUME QInv, [Next]_vars PROVE QInv'
    OBVIOUS
  <2>2. CASE \E kind \in Kinds : Produce(kind)
    BY <2>1, <2>2, ProduceStep
  <2>3. CASE Signal \/ Disconnect \/ DisconnectWake \/ Destroy
    BY <2>1, <2>3, OtherThreadsStep
  <2>4. CASE Connected \/ ConnectFails \/ Check \/ Reset \/ Woken \/ Tick \/ ServerGone
    BY <2>1, <2>4, LoopStep
  <2>5. CASE Drain
    BY <2>1, <2>5, DrainStep
  <2>6. CASE Dispatch
    BY <2>1, <2>6, DispatchStep
  <2>7. CASE UNCHANGED vars
    BY <2>1, <2>7, SameOrder DEF vars, events, QInv, TypeOK, InflightInv, BreakerInv, WakeInv,
       NoLostWake, NoLostDisconnect
  <2>8. QED
    BY <2>1, <2>2, <2>3, <2>4, <2>5, <2>6, <2>7 DEF Next, WorkerRuns
<1>2. QED
  BY InitQInv, <1>1, PTL DEF Spec

\* Commands reach FreeRDP in the order AppKit produced them, each at most once,
\* for every capacity of the queue: coalescing and eviction never reorder.
THEOREM OrderIsKept == Spec => []InOrder
<1>1. QInv => InOrder
  <2>1. SUFFICES ASSUME QInv PROVE InOrder
    OBVIOUS
  <2> DEFINE hand == IF inflight = NoCmd THEN <<>> ELSE <<inflight>>
             head == sent \o hand
  <2>2. sent \in Seq(Cmd) /\ items \in Seq(Cmd) /\ OrderInv
    BY <2>1 DEF QInv, TypeOK
  <2>3. \A x \in Cmd : x.n \in Nat
    BY DEF Cmd
  <2>4. hand \in Seq(Cmd) /\ Len(hand) <= 1 /\ \A i \in 1..Len(hand) : i = 1 /\ hand[i] = inflight /\ inflight # NoCmd
    BY <2>1 DEF QInv, TypeOK
  <2> HIDE DEF hand
  <2>5. /\ head \in Seq(Cmd) /\ Len(head) = Len(sent) + Len(hand)
        /\ \A i \in 1..Len(head) : head[i] = IF i <= Len(sent) THEN sent[i] ELSE hand[i - Len(sent)]
    BY <2>2, <2>4, ConcatProperties
  <2> HIDE DEF head
  <2>6. \A i \in 1..Len(head) :
          \/ i \in 1..Len(sent) /\ head[i] = sent[i]
          \/ i = Len(sent) + 1 /\ head[i] = inflight /\ inflight # NoCmd
    <3>1. TAKE i \in 1..Len(head)
    <3>2. CASE i <= Len(sent)
      BY <2>2, <2>5, <3>2
    <3>3. CASE ~(i <= Len(sent))
      <4>1. i - Len(sent) \in 1..Len(hand)
        BY <2>2, <2>4, <2>5, <3>3
      <4>2. QED
        <5>1. i - Len(sent) = 1 /\ hand[i - Len(sent)] = inflight /\ inflight # NoCmd
          BY <2>4, <4>1
        <5>2. QED
          BY <2>2, <2>5, <3>3, <5>1
    <3>4. QED
      BY <3>2, <3>3
  <2>7. Increasing(head)
    <3>1. SUFFICES ASSUME NEW i \in 1..Len(head), NEW j \in 1..Len(head), i < j
                   PROVE  head[i].n < head[j].n
      BY DEF Increasing
    <3>2. i \in 1..Len(sent) /\ head[i] = sent[i]
      BY <2>2, <2>4, <2>5, <2>6, <3>1
    <3>3. CASE j \in 1..Len(sent) /\ head[j] = sent[j]
      BY <2>2, <3>1, <3>2, <3>3 DEF OrderInv, Increasing
    <3>4. CASE head[j] = inflight /\ inflight # NoCmd
      BY <2>2, <3>2, <3>4 DEF OrderInv, Below
    <3>5. QED
      BY <2>6, <3>3, <3>4
  <2>8. \A i \in 1..Len(head), j \in 1..Len(items) : head[i].n < items[j].n
    BY <2>2, <2>6 DEF OrderInv
  <2>9. /\ Pipeline \in Seq(Cmd) /\ Len(Pipeline) = Len(head) + Len(items)
        /\ \A i \in 1..Len(Pipeline) :
             Pipeline[i] = IF i <= Len(head) THEN head[i] ELSE items[i - Len(head)]
    <3>1. Pipeline = head \o items
      BY DEF Pipeline, head, hand
    <3>2. /\ head \o items \in Seq(Cmd) /\ Len(head \o items) = Len(head) + Len(items)
          /\ \A i \in 1..Len(head) + Len(items) :
               (head \o items)[i] = IF i <= Len(head) THEN head[i] ELSE items[i - Len(head)]
      <4>1. head \in Seq(Cmd) /\ items \in Seq(Cmd)
        BY <2>2, <2>5
      <4>2. QED
        BY <4>1, ConcatProperties, Zenon
    <3>3. QED
      BY <3>1, <3>2
  <2>10. SUFFICES ASSUME NEW i \in 1..Len(Pipeline), NEW j \in 1..Len(Pipeline), i < j
                  PROVE  Pipeline[i].n < Pipeline[j].n
    BY DEF InOrder
  <2>11. CASE j <= Len(head)
    BY <2>5, <2>7, <2>9, <2>10, <2>11 DEF Increasing
  <2>12. CASE ~(j <= Len(head))
    <3>1. j - Len(head) \in 1..Len(items) /\ Pipeline[j] = items[j - Len(head)]
      BY <2>2, <2>5, <2>9, <2>12
    <3>2. CASE i <= Len(head)
      BY <2>5, <2>8, <2>9, <3>1, <3>2
    <3>3. CASE ~(i <= Len(head))
      <4>1. i - Len(head) \in 1..Len(items) /\ i - Len(head) < j - Len(head)
        BY <2>2, <2>5, <2>9, <2>10, <2>12, <3>3
      <4>2. QED
        BY <2>2, <2>9, <3>1, <3>3, <4>1 DEF OrderInv, Increasing
    <3>4. QED
      BY <3>2, <3>3
  <2>13. QED
    BY <2>11, <2>12
<1>2. QED
  BY QInvariance, <1>1, PTL

\* A worker that waits while the queue is not empty has its event set or about
\* to be set: clearing it before the drain loses no wake-up.
THEOREM WakeIsNeverLost == Spec => []NoLostWake
<1>1. QInv => NoLostWake
  BY DEF QInv, WakeInv
<1>2. QED
  BY QInvariance, <1>1, PTL

\* A request to disconnect always has something left to wake a parked worker.
THEOREM DisconnectIsNeverLost == Spec => []NoLostDisconnect
<1>1. QInv => NoLostDisconnect
  BY DEF QInv, WakeInv
<1>2. QED
  BY QInvariance, <1>1, PTL

\* The queue, the worker and what it sent keep their types, the queue its capacity.
THEOREM QTypeCorrect == Spec => []TypeOK
<1>1. QInv => TypeOK
  BY DEF QInv
<1>2. QED
  BY QInvariance, <1>1, PTL

-----------------------------------------------------------------------------
(* What the queue may lose.                                                 *)

Numbers(q) == {q[i].n : i \in 1..Len(q)}

\* A queue in order has as many numbers as commands.
LEMMA NumbersCount ==
  ASSUME NEW q \in Seq(Cmd), Increasing(q)
  PROVE  IsFiniteSet(Numbers(q)) /\ Cardinality(Numbers(q)) = Len(q)
<1> DEFINE f == [i \in 1..Len(q) |-> q[i].n]
<1>1. \A i \in 1..Len(q) : q[i].n \in Nat
  <2>1. \A x \in Cmd : x.n \in Nat
    BY DEF Cmd
  <2>2. \A i \in 1..Len(q) : q[i] \in Cmd
    OBVIOUS
  <2>3. QED
    BY <2>1, <2>2
<1>2. f \in Bijection(1..Len(q), Numbers(q))
  <2>1. f \in [1..Len(q) -> Numbers(q)]
    BY DEF Numbers
  <2>2. \A i, j \in 1..Len(q) : f[i] = f[j] => i = j
    BY <1>1 DEF Increasing
  <2>3. \A n \in Numbers(q) : \E i \in 1..Len(q) : f[i] = n
    BY DEF Numbers
  <2>4. QED
    BY <2>1, <2>2, <2>3 DEF Bijection, Injection, Surjection, IsInjective
<1>3. ExistsBijection(1..Len(q), Numbers(q))
  BY <1>2 DEF ExistsBijection
<1>4. IsFiniteSet(1..Len(q)) /\ Cardinality(1..Len(q)) = Len(q)
  <2>1. Len(q) \in Nat
    OBVIOUS
  <2>2. ASSUME NEW b \in Nat PROVE IsFiniteSet(1..b) /\ Cardinality(1..b) = b
    BY FS_Interval
  <2>3. QED
    BY <2>1, <2>2
<1>5. QED
  BY <1>3, <1>4, FS_Bijection

\* push_internal evicts nothing but moves, and drops a command only when the
\* queue is full of others.
LEMMA PushLoses ==
  ASSUME NEW q \in Seq(Cmd), Len(q) <= CAP, NEW c \in Cmd, Increasing(q)
  PROVE  LET r == Push(q, c)
         IN /\ \A i \in 1..Len(q) : IsMove(q[i]) \/ \E j \in 1..Len(r) : r[j] = q[i]
            /\ Len(q) < CAP => r = Append(q, c)
            /\ \/ r # <<>> /\ Last(r) = c /\ \E j \in 1..Len(r) : r[j] = c
               \/ r = q /\ Len(q) = CAP /\ \A i \in 1..Len(q) : ~IsMove(q[i])
<1> DEFINE r == Push(q, c)
<1>1. ASSUME NEW s \in Seq(Cmd)
      PROVE  /\ Append(s, c) # <<>> /\ Last(Append(s, c)) = c
             /\ \E j \in 1..Len(Append(s, c)) : Append(s, c)[j] = c
             /\ \A i \in 1..Len(s) : i \in 1..Len(Append(s, c)) /\ Append(s, c)[i] = s[i]
  <2>1. Len(Append(s, c)) = Len(s) + 1 /\ Append(s, c)[Len(s) + 1] = c
    OBVIOUS
  <2>2. Len(s) + 1 \in 1..Len(Append(s, c))
    BY <2>1
  <2>3. \A i \in 1..Len(s) : i \in 1..Len(Append(s, c)) /\ Append(s, c)[i] = s[i]
    BY <2>1
  <2>4. Append(s, c) # <<>>
    BY <2>1
  <2>5. QED
    BY <2>1, <2>2, <2>3, <2>4 DEF Last
<1>2. CASE Len(q) < CAP
  <2>1. r = Append(q, c)
    BY <1>2 DEF Push
  <2>2. QED
    BY <1>1, <2>1
<1>3. CASE ~(Len(q) < CAP) /\ \E i \in 1..Len(q) : IsMove(q[i])
  <2> DEFINE k == OldestMove(q)
             s == RemoveAt(q, k)
  <2>1. k \in 1..Len(q) /\ IsMove(q[k])
    <3>1. PICK i \in 1..Len(q) : IsMove(q[i]) /\ \A j \in 1..(i - 1) : ~IsMove(q[j])
      <4> DEFINE moves == {m \in 1..Len(q) : IsMove(q[m])}
      <4>1. moves \in SUBSET Nat /\ moves # {}
        BY <1>3
      <4>2. PICK m \in moves : \A y \in moves : m <= y
        BY <4>1, LeastNat
      <4>3. QED
        BY <4>2
    <3>2. QED
      BY <3>1 DEF OldestMove
  <2>2. r = Append(s, c)
    BY <1>3 DEF Push
  <2> HIDE DEF k
  <2>3. /\ s \in Seq(Cmd)
        /\ \A i \in (1..Len(q)) \ {k} : \E j \in 1..Len(s) : s[j] = q[i]
    BY <2>1, RemoveAtOrdered
  <2> HIDE DEF s, r
  <2>4. ASSUME NEW i \in 1..Len(q) PROVE IsMove(q[i]) \/ \E j \in 1..Len(r) : r[j] = q[i]
    <3>1. CASE i = k
      BY <2>1, <3>1
    <3>2. CASE i # k
      <4>1. PICK j \in 1..Len(s) : s[j] = q[i]
        BY <2>3, <3>2
      <4>2. j \in 1..Len(r) /\ r[j] = q[i]
        BY <1>1, <2>2, <2>3, <4>1
      <4>3. QED
        BY <4>2
    <3>3. QED
      BY <3>1, <3>2
  <2>5. r # <<>> /\ Last(r) = c /\ \E j \in 1..Len(r) : r[j] = c
    BY <1>1, <2>2, <2>3
  <2>6. QED
    BY <1>3, <2>4, <2>5 DEF r
<1>4. CASE ~(Len(q) < CAP) /\ ~\E i \in 1..Len(q) : IsMove(q[i])
  <2>1. r = q /\ Len(q) = CAP
    BY <1>4, CommandQueueAssumption DEF Push
  <2>2. QED
    BY <1>4, <2>1
<1>5. QED
  BY <1>2, <1>3, <1>4

\* A command of log number n is on its way to FreeRDP or has reached it.
Here(n) ==
  \/ \E i \in 1..Len(sent) : sent[i].n = n
  \/ inflight # NoCmd /\ inflight.n = n
  \/ \E i \in 1..Len(items) : items[i].n = n

LEMMA ArrivesIsHere ==
  ASSUME QInv, NEW n
  PROVE  Arrives(n) <=> Here(n)
<1> DEFINE hand == IF inflight = NoCmd THEN <<>> ELSE <<inflight>>
           head == sent \o hand
<1>1. sent \in Seq(Cmd) /\ items \in Seq(Cmd) /\ hand \in Seq(Cmd)
  BY DEF QInv, TypeOK
<1>2. /\ Len(hand) \in Nat
      /\ (\E i \in 1..Len(hand) : hand[i].n = n) <=> inflight # NoCmd /\ inflight.n = n
  <2>1. CASE inflight = NoCmd
    BY <2>1
  <2>2. CASE inflight # NoCmd
    <3>1. hand = <<inflight>> /\ Len(hand) = 1 /\ hand[1] = inflight
      BY <2>2
    <3>2. QED
      BY <2>2, <3>1
  <2>3. QED
    BY <2>1, <2>2
<1> HIDE DEF hand
<1>3. ASSUME NEW a \in Seq(Cmd), NEW b \in Seq(Cmd)
      PROVE  /\ a \o b \in Seq(Cmd)
             /\ (\E i \in 1..Len(a \o b) : (a \o b)[i].n = n) <=>
                  \/ \E i \in 1..Len(a) : a[i].n = n
                  \/ \E i \in 1..Len(b) : b[i].n = n
  <2>1. /\ a \o b \in Seq(Cmd) /\ Len(a \o b) = Len(a) + Len(b)
        /\ \A i \in 1..Len(a) + Len(b) : (a \o b)[i] = IF i <= Len(a) THEN a[i] ELSE b[i - Len(a)]
    BY ConcatProperties
  <2>2. ASSUME NEW i \in 1..Len(a \o b), (a \o b)[i].n = n
        PROVE  \/ \E j \in 1..Len(a) : a[j].n = n
               \/ \E j \in 1..Len(b) : b[j].n = n
    <3>1. CASE i <= Len(a)
      BY <2>1, <2>2, <3>1
    <3>2. CASE ~(i <= Len(a))
      <4>1. i - Len(a) \in 1..Len(b) /\ (a \o b)[i] = b[i - Len(a)]
        BY <2>1, <2>2, <3>2
      <4>2. QED
        BY <2>2, <4>1
    <3>3. QED
      BY <3>1, <3>2
  <2>3. ASSUME NEW i \in 1..Len(a), a[i].n = n
        PROVE  \E j \in 1..Len(a \o b) : (a \o b)[j].n = n
    <3>1. i \in 1..Len(a \o b) /\ (a \o b)[i] = a[i]
      BY <2>1
    <3>2. QED
      BY <2>3, <3>1
  <2>4. ASSUME NEW i \in 1..Len(b), b[i].n = n
        PROVE  \E j \in 1..Len(a \o b) : (a \o b)[j].n = n
    <3>1. Len(a) + i \in 1..Len(a \o b) /\ ~(Len(a) + i <= Len(a)) /\ (Len(a) + i) - Len(a) = i
      BY <2>1
    <3>2. (a \o b)[Len(a) + i] = b[i]
      BY <2>1, <3>1
    <3>3. QED
      BY <2>4, <3>1, <3>2
  <2>5. QED
    BY <2>1, <2>2, <2>3, <2>4
<1>4. head \in Seq(Cmd) /\ Pipeline = head \o items
  BY <1>1, <1>3 DEF Pipeline, hand
<1>5. (\E i \in 1..Len(head) : head[i].n = n) <=>
        \/ \E i \in 1..Len(sent) : sent[i].n = n
        \/ \E i \in 1..Len(hand) : hand[i].n = n
  BY <1>1, <1>3
<1>6. (\E i \in 1..Len(head \o items) : (head \o items)[i].n = n) <=>
        \/ \E i \in 1..Len(head) : head[i].n = n
        \/ \E i \in 1..Len(items) : items[i].n = n
  BY <1>1, <1>3, <1>4
<1>7. QED
  BY <1>2, <1>4, <1>5, <1>6 DEF Arrives, Here

Solid(n) == {m \in 1..(n - 1) : log[m] # "move"}

\* Queued commands are what the log says they are.
Recorded ==
  \A i \in 1..Len(items) : items[i].n \in 1..Len(log) /\ items[i].kind = log[items[i].n]

\* A move at the tail is the last command there was: the next move replaces it.
TailIsLast == items # <<>> /\ IsMove(Last(items)) => Last(items).n = Len(log)

\* Nothing superseded takes up room.
Useful == \A i \in 1..Len(items) : items[i].n \in Lasting

\* DragSurvives and OnlyMovesYield, said of Here.
AllLasting == Cardinality(Lasting) <= CAP => \A n \in Lasting : Here(n)
LostRightly ==
  \A n \in 1..Len(log) : log[n] # "move" /\ ~Here(n) => Cardinality(Solid(n)) >= CAP

\* What holds of losses as long as there is a queue.
KeepInv == ~destroyed => Recorded /\ TailIsLast /\ Useful /\ AllLasting /\ LostRightly

\* What producing a command does to the log and to the commands that last.
LEMMA LogGrows ==
  ASSUME QInv, NEW kind \in Kinds, Produce(kind)
  PROVE  /\ Len(log) \in Nat /\ Len(log') = Len(log) + 1 /\ log'[Len(log) + 1] = kind
         /\ \A n \in 1..Len(log) : log'[n] = log[n]
         /\ IsFiniteSet(Lasting) /\ IsFiniteSet(Lasting') /\ Len(log) + 1 \in Lasting'
         /\ Lasting \subseteq 1..Len(log) /\ Lasting' \subseteq Lasting \cup {Len(log) + 1}
         /\ \A n \in Lasting : n \notin Lasting' <=> n = Len(log) /\ log[n] = "move" /\ kind = "move"
         /\ \A n \in 1..(Len(log) + 1) : Solid(n)' = Solid(n)
<1> DEFINE N == Len(log)
<1>1. log \in Seq(Kinds) /\ log' = Append(log, kind)
  BY DEF QInv, TypeOK, Produce
<1>2. /\ N \in Nat /\ Len(log') = N + 1 /\ log'[N + 1] = kind
      /\ \A n \in 1..N : log'[n] = log[n]
  BY <1>1
<1>3. /\ Lasting \subseteq 1..N
      /\ \A n \in 1..N : n \in Lasting <=> log[n] # "move" \/ n = N \/ log[n + 1] # "move"
  BY DEF Lasting
<1>4. /\ Lasting' \subseteq 1..(N + 1)
      /\ \A n \in 1..(N + 1) :
           n \in Lasting' <=> log'[n] # "move" \/ n = N + 1 \/ log'[n + 1] # "move"
  BY <1>2 DEF Lasting
<1>5. IsFiniteSet(1..N) /\ IsFiniteSet(1..(N + 1))
  BY <1>2, FS_Interval
<1>6. IsFiniteSet(Lasting) /\ IsFiniteSet(Lasting')
  BY <1>3, <1>4, <1>5, FS_Subset
<1>7. N + 1 \in Lasting'
  BY <1>2, <1>4
<1>8. \A n \in Lasting : n \notin Lasting' <=> n = N /\ log[n] = "move" /\ kind = "move"
  <2>1. TAKE n \in Lasting
  <2>2. n \in 1..N /\ n \in 1..(N + 1) /\ log'[n] = log[n]
    BY <1>2, <1>3
  <2>3. CASE n = N
    BY <1>2, <1>4, <2>2, <2>3
  <2>4. CASE n # N
    <3>1. n + 1 \in 1..N /\ log'[n + 1] = log[n + 1]
      BY <1>2, <2>2, <2>4
    <3>2. QED
      BY <1>2, <1>3, <1>4, <2>2, <2>4, <3>1
  <2>5. QED
    BY <2>3, <2>4
<1>9. Lasting' \subseteq Lasting \cup {N + 1}
  <2>1. SUFFICES ASSUME NEW n \in Lasting', n # N + 1 PROVE n \in Lasting
    OBVIOUS
  <2>2. n \in 1..N /\ n \in 1..(N + 1) /\ log'[n] = log[n]
    BY <1>2, <1>4, <2>1
  <2>3. CASE n = N
    BY <1>3, <2>2, <2>3
  <2>4. CASE n # N
    <3>1. n + 1 \in 1..N /\ log'[n + 1] = log[n + 1]
      BY <1>2, <2>2, <2>4
    <3>2. QED
      BY <1>2, <1>3, <1>4, <2>1, <2>2, <2>4, <3>1
  <2>5. QED
    BY <2>3, <2>4
<1>10. ASSUME NEW n \in 1..(N + 1) PROVE Solid(n)' = Solid(n)
  <2>1. \A m \in 1..(n - 1) : log'[m] = log[m]
    BY <1>2
  <2>2. QED
    BY <2>1 DEF Solid
<1>11. QED
  BY <1>2, <1>3, <1>6, <1>7, <1>8, <1>9, <1>10

\* If what lasts fits in the queue now, it did before.
LEMMA FittedBefore ==
  ASSUME QInv, NEW kind \in Kinds, Produce(kind), Cardinality(Lasting') <= CAP
  PROVE  Cardinality(Lasting) <= CAP
<1> DEFINE N == Len(log)
<1>1. /\ N \in Nat /\ IsFiniteSet(Lasting) /\ IsFiniteSet(Lasting') /\ N + 1 \in Lasting'
      /\ Lasting \subseteq 1..N /\ Lasting' \subseteq Lasting \cup {N + 1}
      /\ \A n \in Lasting : n \notin Lasting' <=> n = N /\ log[n] = "move" /\ kind = "move"
  BY LogGrows
<1>2. Cardinality(Lasting) \in Nat /\ Cardinality(Lasting') \in Nat
  BY <1>1, FS_CardinalityType
<1>3. CASE N \in Lasting /\ log[N] = "move" /\ kind = "move"
  <2>1. Lasting' = (Lasting \ {N}) \cup {N + 1}
    BY <1>1, <1>3
  <2>2. N + 1 \notin Lasting \ {N}
    BY <1>1
  <2>3. IsFiniteSet(Lasting \ {N}) /\ Cardinality(Lasting \ {N}) = Cardinality(Lasting) - 1
    BY <1>1, <1>3, FS_RemoveElement
  <2>4. Cardinality(Lasting') = (Cardinality(Lasting) - 1) + 1
    BY <2>1, <2>2, <2>3, FS_AddElement
  <2>5. QED
    BY <1>2, <2>4
<1>4. CASE ~(N \in Lasting /\ log[N] = "move" /\ kind = "move")
  <2>1. Lasting \subseteq Lasting'
    BY <1>1, <1>4
  <2>2. Cardinality(Lasting) <= Cardinality(Lasting')
    BY <1>1, <2>1, FS_Subset
  <2>3. QED
    BY <1>2, <2>2, CommandQueueAssumption
<1>5. QED
  BY <1>3, <1>4

\* A full queue of commands that all last leaves no room for one more.
LEMMA FullOfLasting ==
  ASSUME QInv, NEW kind \in Kinds, Produce(kind), Len(items) = CAP,
         \A i \in 1..Len(items) : items[i].n \in Lasting'
  PROVE  ~(Cardinality(Lasting') <= CAP)
<1> DEFINE N == Len(log)
           S == Numbers(items) \cup {N + 1}
<1>1. items \in Seq(Cmd) /\ Increasing(items) /\ Below(items, N + 1)
  BY DEF QInv, TypeOK, OrderInv
<1>2. IsFiniteSet(Numbers(items)) /\ Cardinality(Numbers(items)) = CAP
  BY <1>1, NumbersCount
<1>3. N \in Nat /\ IsFiniteSet(Lasting') /\ N + 1 \in Lasting'
  BY LogGrows
<1>4. N + 1 \notin Numbers(items)
  <2>1. \A i \in 1..Len(items) : items[i].n < N + 1
    BY <1>1 DEF Below
  <2>2. \A i \in 1..Len(items) : items[i].n # N + 1
    BY <1>3, <2>1
  <2>3. QED
    BY <2>2 DEF Numbers
<1>5. Cardinality(S) = CAP + 1
  BY <1>2, <1>4, FS_AddElement
<1>6. S \subseteq Lasting'
  BY <1>3 DEF Numbers
<1>7. Cardinality(S) <= Cardinality(Lasting') /\ Cardinality(Lasting') \in Nat
  BY <1>3, <1>6, FS_Subset, FS_CardinalityType
<1>8. QED
  BY <1>5, <1>7, CommandQueueAssumption

\* What is left to show of a step that produces a command.
LEMMA ProducedKeeps ==
  ASSUME QInv, KeepInv, NEW kind \in Kinds, Produce(kind),
         Recorded', TailIsLast', Useful',
         Cardinality(Lasting') <= CAP =>
           /\ \A n \in {Len(log) + 1} : Here(n)'
           /\ \A n \in Lasting \cap Lasting' : Here(n) => Here(n)',
         \A n \in 1..Len(log) : log[n] # "move" /\ Here(n) => Here(n)',
         kind # "move" =>
           \A n \in {Len(log) + 1} : ~Here(n)' => Cardinality(Solid(n)) >= CAP
  PROVE  KeepInv'
<1> DEFINE N == Len(log)
<1>1. Recorded /\ TailIsLast /\ Useful /\ AllLasting /\ LostRightly
  BY DEF Produce, KeepInv
<1>2. /\ N \in Nat /\ Len(log') = N + 1 /\ log'[N + 1] = kind
      /\ \A n \in 1..N : log'[n] = log[n]
      /\ Lasting' \subseteq Lasting \cup {N + 1}
      /\ \A n \in 1..(N + 1) : Solid(n)' = Solid(n)
  BY LogGrows
<1>3. AllLasting'
  <2>1. SUFFICES ASSUME Cardinality(Lasting') <= CAP, NEW n \in Lasting' PROVE Here(n)'
    BY DEF AllLasting
  <2>2. CASE n = N + 1
    BY <2>1, <2>2
  <2>3. CASE n \in Lasting
    <3>1. Here(n)
      BY <1>1, <2>1, <2>3, FittedBefore DEF AllLasting
    <3>2. QED
      BY <2>1, <2>3, <3>1
  <2>4. QED
    BY <1>2, <2>2, <2>3
<1>4. LostRightly'
  <2>1. SUFFICES ASSUME NEW n \in 1..(N + 1), log'[n] # "move", ~Here(n)'
                 PROVE  Cardinality(Solid(n)) >= CAP
    BY <1>2 DEF LostRightly
  <2>2. CASE n = N + 1
    BY <1>2, <2>1, <2>2
  <2>3. CASE n # N + 1
    <3>1. n \in 1..N /\ log[n] # "move"
      BY <1>2, <2>1, <2>3
    <3>2. ~Here(n)
      BY <2>1, <3>1
    <3>3. QED
      BY <1>1, <3>1, <3>2 DEF LostRightly
  <2>4. QED
    BY <2>2, <2>3
<1>5. QED
  BY <1>3, <1>4 DEF KeepInv

\* The commands before this one in the queue, and the new one.
LEMMA QueueFacts ==
  ASSUME QInv, KeepInv, NEW kind \in Kinds, Produce(kind)
  PROVE  LET c == [kind |-> kind, n |-> Len(log) + 1]
         IN /\ c \in Cmd /\ c.n = Len(log) + 1 /\ c.kind = kind /\ (IsMove(c) <=> kind = "move")
            /\ items \in Seq(Cmd) /\ Len(items) <= CAP /\ Increasing(items)
            /\ Below(items, Len(log) + 1) /\ Below(items, c.n)
            /\ items' = IF kind = "move" THEN EnqueueMove(items, c) ELSE Push(items, c)
            /\ sent' = sent /\ inflight' = inflight
            /\ Recorded /\ TailIsLast /\ Useful
            /\ \A i \in 1..Len(items) : items[i].n \in Lasting /\ items[i].n \in 1..Len(log)
<1>1. /\ items \in Seq(Cmd) /\ Len(items) <= CAP /\ log \in Seq(Kinds)
      /\ Increasing(items) /\ Below(items, Len(log) + 1)
  BY DEF QInv, TypeOK, OrderInv
<1>2. Len(log) + 1 \in 1..MaxMade
  BY <1>1, CommandQueueAssumption DEF Produce
<1>3. Recorded /\ TailIsLast /\ Useful
  BY DEF Produce, KeepInv
<1>4. \A i \in 1..Len(items) : items[i].n \in Lasting /\ items[i].n \in 1..Len(log)
  BY <1>3 DEF Useful, Recorded
<1>5. QED
  BY <1>1, <1>2, <1>3, <1>4 DEF Produce, Cmd, IsMove

LEMMA ProduceMoveKeeps ==
  ASSUME QInv, KeepInv, Produce("move")
  PROVE  KeepInv'
<1> DEFINE N == Len(log)
           c == [kind |-> "move", n |-> N + 1]
<1>0. "move" \in Kinds
  BY DEF Kinds
<1>1. /\ c \in Cmd /\ c.n = N + 1 /\ c.kind = "move" /\ IsMove(c)
      /\ items \in Seq(Cmd) /\ Len(items) <= CAP /\ Increasing(items) /\ Below(items, N + 1)
      /\ items' = EnqueueMove(items, c) /\ sent' = sent /\ inflight' = inflight
      /\ Recorded /\ TailIsLast /\ Useful
      /\ \A i \in 1..Len(items) : items[i].n \in Lasting /\ items[i].n \in 1..N
  BY <1>0, QueueFacts
<1>2. /\ N \in Nat /\ Len(log') = N + 1 /\ log'[N + 1] = "move"
      /\ \A n \in 1..N : log'[n] = log[n]
      /\ N + 1 \in Lasting' /\ Lasting \subseteq 1..N
      /\ \A n \in Lasting : n \notin Lasting' <=> n = N /\ log[n] = "move"
  BY <1>0, LogGrows
<1> HIDE DEF c
<1>3. CASE items # <<>> /\ IsMove(Last(items))
  <2> DEFINE L == Len(items)
  <2>1. L \in 1..L /\ Last(items) = items[L] /\ items[L].n = N /\ log[N] = "move"
    BY <1>1, <1>3 DEF Last, TailIsLast, Recorded, IsMove
  <2>2. items' = [items EXCEPT ![L] = c]
    BY <1>1, <1>3 DEF EnqueueMove
  <2>3. /\ items' \in Seq(Cmd) /\ Len(items') = L
        /\ \A i \in 1..L : items'[i] = IF i = L THEN c ELSE items[i]
    <3>1. items' \in Seq(Cmd) /\ Len(items') = L
      BY <1>1, <2>1, <2>2, ExceptSeq
    <3>2. QED
      BY <1>1, <2>1, <2>2, <3>1
  <2>4. \A i \in 1..L : i # L => items[i].n < N
    BY <1>1, <2>1 DEF Increasing
  <2>5. Recorded'
    BY <1>1, <1>2, <2>3 DEF Recorded
  <2>6. TailIsLast'
    BY <1>1, <1>2, <2>1, <2>3 DEF TailIsLast, Last
  <2>7. Useful'
    <3>1. SUFFICES ASSUME NEW i \in 1..L PROVE items'[i].n \in Lasting'
      BY <2>3 DEF Useful
    <3>2. CASE i = L
      BY <1>1, <1>2, <2>3, <3>2
    <3>3. CASE i # L
      <4>1. items[i].n \in Lasting /\ items[i].n # N
        BY <1>1, <1>2, <2>4, <3>3
      <4>2. QED
        BY <1>2, <2>3, <3>3, <4>1
    <3>4. QED
      BY <3>2, <3>3
  <2>8. \A n \in {N + 1} : Here(n)'
    <3>1. L \in 1..Len(items') /\ items'[L].n = N + 1
      BY <1>1, <2>1, <2>3
    <3>2. QED
      BY <3>1 DEF Here
  <2>9. ASSUME NEW n, n # N, Here(n) PROVE Here(n)'
    <3>1. CASE \E i \in 1..L : items[i].n = n
      <4>1. PICK i \in 1..L : items[i].n = n
        BY <3>1
      <4>2. i \in 1..Len(items') /\ items'[i].n = n
        BY <2>1, <2>3, <2>9, <4>1
      <4>3. QED
        BY <4>2 DEF Here
    <3>2. QED
      BY <1>1, <2>9, <3>1 DEF Here
  <2>10. \A n \in Lasting \cap Lasting' : n # N
    BY <1>2, <2>1
  <2>11. \A n \in 1..N : log[n] # "move" => n # N
    BY <2>1
  <2>12. QED
    BY <1>0, <2>5, <2>6, <2>7, <2>8, <2>9, <2>10, <2>11, ProducedKeeps
<1>4. CASE ~(items # <<>> /\ IsMove(Last(items)))
  <2>1. \A i \in 1..Len(items) : items[i].n \in Lasting'
    <3>1. SUFFICES ASSUME NEW i \in 1..Len(items), items[i].n = N, log[N] = "move" PROVE FALSE
      BY <1>1, <1>2
    <3>2. Len(items) \in 1..Len(items) /\ items # <<>> /\ Last(items) = items[Len(items)]
      BY <1>1 DEF Last
    <3>3. i = Len(items)
      <4>1. items[Len(items)].n < N + 1
        BY <1>1, <3>2 DEF Below
      <4>2. items[Len(items)].n \in 1..N
        BY <1>1, <3>2
      <4>3. i < Len(items) => N < items[Len(items)].n
        BY <1>1, <3>1, <3>2 DEF Increasing
      <4>4. QED
        BY <1>1, <1>2, <3>2, <4>1, <4>2, <4>3
    <3>4. IsMove(items[i])
      BY <1>1, <3>1 DEF Recorded, IsMove
    <3>5. QED
      BY <1>4, <3>2, <3>3, <3>4
  <2>2. CASE Len(items) >= CAP
    <3>1. items' = items /\ Len(items) = CAP
      BY <1>1, <1>4, <2>2, CommandQueueAssumption DEF EnqueueMove
    <3>2. Recorded' /\ TailIsLast' /\ Useful'
      BY <1>1, <1>2, <1>4, <2>1, <3>1 DEF Recorded, TailIsLast, Useful
    <3>3. \A n : Here(n) => Here(n)'
      BY <1>1, <3>1 DEF Here
    <3>4. ~(Cardinality(Lasting') <= CAP)
      BY <1>0, <2>1, <3>1, FullOfLasting
    <3>5. QED
      BY <1>0, <3>2, <3>3, <3>4, ProducedKeeps
  <2>3. CASE ~(Len(items) >= CAP)
    <3>1. items' = Append(items, c)
      BY <1>1, <1>4, <2>3 DEF EnqueueMove
    <3>2. /\ items' \in Seq(Cmd) /\ Len(items') = Len(items) + 1 /\ items'[Len(items) + 1] = c
          /\ \A i \in 1..Len(items) : items'[i] = items[i]
      BY <1>1, <3>1
    <3>3. Recorded'
      BY <1>1, <1>2, <3>2 DEF Recorded
    <3>4. TailIsLast'
      BY <1>1, <1>2, <3>2 DEF TailIsLast, Last
    <3>5. Useful'
      <4>1. SUFFICES ASSUME NEW i \in 1..(Len(items) + 1) PROVE items'[i].n \in Lasting'
        BY <3>2 DEF Useful
      <4>2. CASE i = Len(items) + 1
        BY <1>1, <1>2, <3>2, <4>2
      <4>3. CASE i # Len(items) + 1
        <5>1. i \in 1..Len(items)
          BY <1>1, <4>3
        <5>2. QED
          BY <2>1, <3>2, <5>1
      <4>4. QED
        BY <4>2, <4>3
    <3>6. \A n \in {N + 1} : Here(n)'
      <4>1. Len(items) + 1 \in 1..Len(items') /\ items'[Len(items) + 1].n = N + 1
        BY <1>1, <3>2
      <4>2. QED
        BY <4>1 DEF Here
    <3>7. ASSUME NEW n, Here(n) PROVE Here(n)'
      <4>1. CASE \E i \in 1..Len(items) : items[i].n = n
        <5>1. PICK i \in 1..Len(items) : items[i].n = n
          BY <4>1
        <5>2. i \in 1..Len(items') /\ items'[i].n = n
          BY <1>1, <3>2, <5>1
        <5>3. QED
          BY <5>2 DEF Here
      <4>2. QED
        BY <1>1, <3>7, <4>1 DEF Here
    <3>8. QED
      BY <1>0, <3>3, <3>4, <3>5, <3>6, <3>7, ProducedKeeps
  <2>4. QED
    BY <2>2, <2>3
<1>5. QED
  BY <1>3, <1>4

LEMMA ProduceOtherKeeps ==
  ASSUME QInv, KeepInv, NEW kind \in Kinds \ {"move"}, Produce(kind)
  PROVE  KeepInv'
<1> DEFINE N == Len(log)
           c == [kind |-> kind, n |-> N + 1]
<1>1. /\ c \in Cmd /\ c.n = N + 1 /\ c.kind = kind /\ ~IsMove(c)
      /\ items \in Seq(Cmd) /\ Len(items) <= CAP /\ Increasing(items) /\ Below(items, c.n)
      /\ items' = Push(items, c) /\ sent' = sent /\ inflight' = inflight
      /\ Recorded /\ TailIsLast /\ Useful
      /\ \A i \in 1..Len(items) : items[i].n \in Lasting /\ items[i].n \in 1..N
  BY QueueFacts
<1>2. /\ N \in Nat /\ Len(log') = N + 1 /\ log'[N + 1] = kind
      /\ \A n \in 1..N : log'[n] = log[n]
      /\ N + 1 \in Lasting' /\ Lasting \subseteq Lasting'
  BY LogGrows
<1> HIDE DEF c
<1>3. /\ items' \in Seq(Cmd) /\ From(items', items, c)
      /\ \A i \in 1..Len(items) : IsMove(items[i]) \/ \E j \in 1..Len(items') : items'[j] = items[i]
      /\ Len(items) < CAP => items' = Append(items, c)
      /\ \/ items' # <<>> /\ Last(items') = c /\ \E j \in 1..Len(items') : items'[j] = c
         \/ items' = items /\ Len(items) = CAP /\ \A i \in 1..Len(items) : ~IsMove(items[i])
  BY <1>1, PushOrdered, PushLoses
<1>4. Recorded'
  <2>1. SUFFICES ASSUME NEW i \in 1..Len(items')
                 PROVE  items'[i].n \in 1..(N + 1) /\ items'[i].kind = log'[items'[i].n]
    BY <1>2 DEF Recorded
  <2>2. CASE items'[i] = c
    BY <1>1, <1>2, <2>2
  <2>3. CASE \E j \in 1..Len(items) : items'[i] = items[j]
    BY <1>1, <1>2, <2>3 DEF Recorded
  <2>4. QED
    BY <1>3, <2>1, <2>2, <2>3 DEF From
<1>5. TailIsLast'
  <2>1. CASE Last(items') = c
    BY <1>1, <2>1 DEF TailIsLast
  <2>2. CASE items' = items /\ \A i \in 1..Len(items) : ~IsMove(items[i])
    <3>1. items # <<>> => Last(items) = items[Len(items)] /\ Len(items) \in 1..Len(items)
      BY <1>1 DEF Last
    <3>2. QED
      BY <2>2, <3>1 DEF TailIsLast
  <2>3. QED
    BY <1>3, <2>1, <2>2
<1>6. Useful'
  BY <1>1, <1>2, <1>3 DEF Useful, From
<1>7. ASSUME NEW n \in 1..N, log[n] # "move", Here(n) PROVE Here(n)'
  <2>1. CASE \E i \in 1..Len(items) : items[i].n = n
    <3>1. PICK i \in 1..Len(items) : items[i].n = n
      BY <2>1
    <3>2. ~IsMove(items[i])
      BY <1>1, <1>7, <3>1 DEF Recorded, IsMove
    <3>3. PICK j \in 1..Len(items') : items'[j] = items[i]
      BY <1>3, <3>2
    <3>4. QED
      BY <3>1, <3>3 DEF Here
  <2>2. QED
    BY <1>1, <1>7, <2>1 DEF Here
<1>8. (\E j \in 1..Len(items') : items'[j] = c) => \A n \in {N + 1} : Here(n)'
  BY <1>1 DEF Here
<1>9. \A n \in {N + 1} : ~Here(n)' => Cardinality(Solid(n)) >= CAP
  <2>1. SUFFICES ASSUME NEW n \in {N + 1}, ~Here(n)' PROVE Cardinality(Solid(N + 1)) >= CAP
    OBVIOUS
  <2>2. Len(items) = CAP /\ \A i \in 1..Len(items) : ~IsMove(items[i])
    BY <1>3, <1>8, <2>1
  <2>3. IsFiniteSet(Numbers(items)) /\ Cardinality(Numbers(items)) = CAP
    BY <1>1, <2>2, NumbersCount
  <2>4. Solid(N + 1) \subseteq 1..N /\ IsFiniteSet(1..N)
    BY <1>2, FS_Interval DEF Solid
  <2>5. Numbers(items) \subseteq Solid(N + 1)
    <3>1. ASSUME NEW i \in 1..Len(items) PROVE items[i].n \in Solid(N + 1)
      <4>1. items[i].n \in 1..N /\ log[items[i].n] # "move"
        BY <1>1, <2>2 DEF Recorded, IsMove
      <4>2. QED
        BY <1>2, <4>1 DEF Solid
    <3>2. QED
      BY <3>1 DEF Numbers
  <2>6. IsFiniteSet(Solid(N + 1))
    BY <2>4, FS_Subset
  <2>7. Cardinality(Numbers(items)) <= Cardinality(Solid(N + 1)) /\ Cardinality(Solid(N + 1)) \in Nat
    BY <2>5, <2>6, FS_Subset, FS_CardinalityType
  <2>8. QED
    BY <2>3, <2>7, CommandQueueAssumption
<1>10. ASSUME Cardinality(Lasting') <= CAP
       PROVE  /\ \A n \in {N + 1} : Here(n)'
              /\ \A n \in Lasting \cap Lasting' : Here(n) => Here(n)'
  <2>1. Len(items) < CAP
    <3>1. Len(items) # CAP
      BY <1>1, <1>2, <1>10, FullOfLasting
    <3>2. QED
      BY <1>1, <3>1, CommandQueueAssumption
  <2>2. items' = Append(items, c)
    BY <1>3, <2>1
  <2>3. /\ Len(items') = Len(items) + 1 /\ items'[Len(items) + 1] = c
        /\ \A i \in 1..Len(items) : items'[i] = items[i]
    BY <1>1, <2>2
  <2>4. \A n \in {N + 1} : Here(n)'
    <3>1. Len(items) + 1 \in 1..Len(items')
      BY <1>1, <2>3
    <3>2. QED
      BY <1>8, <2>3, <3>1
  <2>5. ASSUME NEW n, Here(n) PROVE Here(n)'
    <3>1. CASE \E i \in 1..Len(items) : items[i].n = n
      <4>1. PICK i \in 1..Len(items) : items[i].n = n
        BY <3>1
      <4>2. i \in 1..Len(items') /\ items'[i].n = n
        BY <1>1, <2>3, <4>1
      <4>3. QED
        BY <4>2 DEF Here
    <3>2. QED
      BY <1>1, <2>5, <3>1 DEF Here
  <2>6. QED
    BY <2>4, <2>5
<1>11. QED
  BY <1>4, <1>5, <1>6, <1>7, <1>9, <1>10, ProducedKeeps

\* The worker takes commands from the head, and in order.
LEMMA WorkerKeeps ==
  ASSUME QInv, KeepInv, Drain \/ Dispatch
  PROVE  KeepInv'
<1>1. CASE Drain /\ items = <<>>
  <2>1. UNCHANGED <<items, log, sent, inflight, destroyed>>
    BY <1>1 DEF Drain, WorkerGoes
  <2>2. /\ Lasting' = Lasting
        /\ \A n : (Here(n)' <=> Here(n)) /\ Solid(n)' = Solid(n)
    BY <2>1 DEF Lasting, Here, Solid
  <2>3. /\ Recorded' <=> Recorded
        /\ TailIsLast' <=> TailIsLast
    BY <2>1 DEF Recorded, TailIsLast
  <2>4. /\ Useful' <=> Useful
        /\ AllLasting' <=> AllLasting
    BY <2>1, <2>2 DEF Useful, AllLasting
  <2>5. LostRightly' <=> LostRightly
    BY <2>1, <2>2 DEF LostRightly
  <2>6. QED
    BY <2>1, <2>3, <2>4, <2>5 DEF KeepInv
<1>2. CASE Drain /\ items # <<>>
  <2>1. /\ worker = "drain" /\ inflight' = Head(items) /\ items' = Tail(items)
        /\ UNCHANGED <<log, sent, destroyed>>
    BY <1>2 DEF Drain, WorkerGoes
  <2>2. items \in Seq(Cmd) /\ inflight = NoCmd
    BY <2>1 DEF QInv, TypeOK, InflightInv
  <2>3. /\ Head(items) = items[1] /\ items[1] \in Cmd /\ 1 \in 1..Len(items)
        /\ items' \in Seq(Cmd) /\ Len(items') = Len(items) - 1
        /\ \A i \in 1..Len(items') : i + 1 \in 1..Len(items) /\ items'[i] = items[i + 1]
    BY <1>2, <2>1, <2>2, HeadTailProperties
  <2>4. inflight' # NoCmd
    BY <2>1, <2>3 DEF Cmd, NoCmd, Kinds
  <2>5. Recorded => Recorded'
    BY <2>1, <2>3 DEF Recorded
  <2>6. Useful => Useful'
    BY <2>1, <2>3 DEF Useful, Lasting
  <2>7. TailIsLast => TailIsLast'
    <3>1. items' # <<>> => Last(items') = Last(items)
      <4>1. SUFFICES ASSUME items' # <<>> PROVE items'[Len(items')] = items[Len(items)]
        BY DEF Last
      <4>2. Len(items') \in 1..Len(items') /\ Len(items') + 1 = Len(items)
        BY <2>2, <2>3, <4>1
      <4>3. QED
        BY <2>3, <4>2
    <3>2. QED
      BY <1>2, <2>1, <3>1 DEF TailIsLast
  <2>8. ASSUME NEW n PROVE Here(n) => Here(n)'
    <3>1. SUFFICES ASSUME Here(n) PROVE Here(n)'
      OBVIOUS
    <3>2. CASE \E i \in 1..Len(items) : items[i].n = n
      <4>1. PICK i \in 1..Len(items) : items[i].n = n
        BY <3>2
      <4>2. CASE i = 1
        BY <2>1, <2>3, <2>4, <4>1, <4>2 DEF Here
      <4>3. CASE i # 1
        <5>1. i - 1 \in 1..Len(items') /\ (i - 1) + 1 = i
          BY <2>2, <2>3, <4>3
        <5>2. items'[i - 1].n = n
          BY <2>3, <4>1, <5>1
        <5>3. QED
          BY <5>1, <5>2 DEF Here
      <4>4. QED
        BY <4>2, <4>3
    <3>3. QED
      BY <2>1, <2>2, <3>1, <3>2 DEF Here
  <2>9. AllLasting => AllLasting'
    BY <2>1, <2>8 DEF AllLasting, Lasting
  <2>10. LostRightly => LostRightly'
    BY <2>1, <2>8 DEF LostRightly, Solid
  <2>11. QED
    BY <2>1, <2>5, <2>6, <2>7, <2>9, <2>10 DEF KeepInv
<1>3. CASE Dispatch
  <2>1. /\ sent' = Append(sent, inflight) /\ inflight' = NoCmd
        /\ UNCHANGED <<items, log, destroyed>> /\ sent \in Seq(Cmd) /\ inflight \in Cmd
    BY <1>3 DEF Dispatch, WorkerGoes, QInv, TypeOK, InflightInv
  <2>2. /\ Len(sent') = Len(sent) + 1 /\ sent'[Len(sent) + 1] = inflight
        /\ \A i \in 1..Len(sent) : i \in 1..Len(sent') /\ sent'[i] = sent[i]
        /\ Len(sent) + 1 \in 1..Len(sent')
    BY <2>1
  <2>3. ASSUME NEW n PROVE Here(n) => Here(n)'
    BY <2>1, <2>2 DEF Here
  <2>4. AllLasting => AllLasting'
    BY <2>1, <2>3 DEF AllLasting, Lasting
  <2>5. LostRightly => LostRightly'
    BY <2>1, <2>3 DEF LostRightly, Solid
  <2>6. QED
    BY <2>1, <2>4, <2>5 DEF KeepInv, Recorded, TailIsLast, Useful, Lasting
<1>4. QED
  BY <1>1, <1>2, <1>3

LEMMA KeepNext == QInv /\ KeepInv /\ [Next]_vars => KeepInv'
<1>1. SUFFICES ASSUME QInv, KeepInv, [Next]_vars PROVE KeepInv'
  OBVIOUS
<1>2. CASE UNCHANGED <<items, log, inflight, sent, destroyed>>
  BY <1>1, <1>2 DEF KeepInv, Recorded, TailIsLast, Useful, AllLasting, LostRightly, Lasting, Here, Solid
<1>3. CASE Destroy
  BY <1>3 DEF Destroy, KeepInv
<1>4. ASSUME NEW kind \in Kinds, Produce(kind) PROVE KeepInv'
  <2>1. CASE kind = "move"
    BY <1>1, <1>4, <2>1, ProduceMoveKeeps
  <2>2. CASE kind # "move"
    BY <1>1, <1>4, <2>2, ProduceOtherKeeps
  <2>3. QED
    BY <2>1, <2>2
<1>5. CASE Signal \/ Disconnect \/ DisconnectWake
  BY <1>2, <1>5 DEF Signal, Disconnect, DisconnectWake
<1>6. CASE Connected \/ ConnectFails \/ Check \/ Reset \/ Woken \/ Tick \/ ServerGone
  BY <1>2, <1>6 DEF Connected, ConnectFails, Check, Reset, Woken, Tick, ServerGone, WorkerGoes
<1>7. CASE Drain \/ Dispatch
  BY <1>1, <1>7, WorkerKeeps
<1>8. CASE UNCHANGED vars
  BY <1>2, <1>8 DEF vars
<1>9. QED
  BY <1>1, <1>3, <1>4, <1>5, <1>6, <1>7, <1>8 DEF Next, WorkerRuns

LEMMA KeepInit == Init => KeepInv
<1>1. SUFFICES ASSUME Init PROVE KeepInv
  OBVIOUS
<1>0. Len(<<>>) = 0
  OBVIOUS
<1>2. items = <<>> /\ log = <<>> /\ Len(log) = 0 /\ Len(items) = 0
  BY <1>0, <1>1 DEF Init
<1>3. Lasting = {}
  BY <1>2 DEF Lasting
<1>4. QED
  BY <1>2, <1>3 DEF KeepInv, Recorded, TailIsLast, Useful, AllLasting, LostRightly

LEMMA KeepInvariance == Spec => []KeepInv
BY KeepInit, KeepNext, QInvariance, PTL DEF Spec

\* KI-018: while the queue has room for the commands that count, each of them
\* reaches FreeRDP, for any capacity: coalescing and eviction lose no others.
THEOREM DragIsKept == Spec => []DragSurvives
<1>1. QInv /\ KeepInv => DragSurvives
  BY ArrivesIsHere DEF KeepInv, AllLasting, DragSurvives
<1>2. QED
  BY <1>1, QInvariance, KeepInvariance, PTL

\* A full queue loses a button or a key only after as many others as it holds.
THEOREM MovesYieldFirst == Spec => []OnlyMovesYield
<1>1. QInv /\ KeepInv => OnlyMovesYield
  BY ArrivesIsHere DEF KeepInv, LostRightly, OnlyMovesYield, Solid
<1>2. QED
  BY <1>1, QInvariance, KeepInvariance, PTL
=============================================================================
