------------------------- MODULE EngineSessionsProofs -------------------------
(***************************************************************************)
(* One session in front, no engine left untold and no late event believed, *)
(* for any sessions and any number of attempts; and the promise the layer  *)
(* shares with the native manager.                                         *)
(***************************************************************************)
EXTENDS EngineSessions, TLAPS

\* An attempt is one session's for good, and its engine ends at most once.
Numbered ==
  /\ \A a \in Attempts : IF engines[a].of = NONE THEN ~engines[a].runs ELSE a <= last
  /\ \A s \in Sids : Present(s) => engines[Engine(s)].of = s

Reported ==
  \A a \in Attempts :
    /\ read[a] <= Len(sent[a]) /\ Len(sent[a]) <= 2
    /\ Len(sent[a]) = 2 => sent[a][2] \in Terminal
    /\ sent[a] # <<>> => engines[a].of # NONE

\* The inductive invariant.
EInv ==
  /\ TypeOK /\ Numbered /\ Reported
  /\ InputToOne /\ FrontIsFocused /\ EndsAreOwn /\ NoUntoldEngine /\ HeldRuns

-----------------------------------------------------------------------------

LEMMA EntryFacts ==
  ASSUME EInv, NEW s \in Sids, Present(s)
  PROVE  /\ sessions[s] \in Entry /\ Engine(s) \in Attempts
         /\ engines[Engine(s)] \in Handle /\ engines[Engine(s)].of = s
         /\ Engine(s) <= last
BY NoneIsNoSid DEF EInv, TypeOK, Numbered, Present, Engine, Entry

\* Two sessions never share an engine.
LEMMA OwnEngines ==
  ASSUME EInv, NEW s \in Sids, NEW t \in Sids, Present(s), Present(t), Engine(s) = Engine(t)
  PROVE  s = t
BY EntryFacts

LEMMA ReportFacts ==
  ASSUME EInv, NEW a \in Attempts
  PROVE  /\ read[a] \in Nat /\ sent[a] \in Seq(Reports) /\ Len(sent[a]) \in Nat
         /\ read[a] <= Len(sent[a]) /\ Len(sent[a]) <= 2
         /\ Len(sent[a]) = 2 => sent[a][2] \in Terminal
         /\ sent[a] # <<>> => engines[a].of # NONE
BY DEF EInv, TypeOK, Reported

LEMMA InitEInv == Init => EInv
<1> SUFFICES ASSUME Init PROVE EInv
  OBVIOUS
<1>1. TypeOK
  BY MaxAttemptsAssumption DEF Init, TypeOK, Attempts, Handle, Unused
<1>2. Numbered /\ Reported
  BY DEF Init, Numbered, Reported, Present, Unused
<1>3. InputToOne /\ FrontIsFocused /\ EndsAreOwn /\ NoUntoldEngine /\ HeldRuns
  BY DEF Init, InputToOne, Accepts, FrontIsFocused, EndsAreOwn, NoUntoldEngine, HeldRuns,
     Present, Unused
<1>4. QED
  BY <1>1, <1>2, <1>3 DEF EInv

LEMMA ConnectStep ==
  ASSUME EInv, NEW s \in Sids, Connect(s)
  PROVE  EInv'
<1> DEFINE h == [of |-> s, runs |-> TRUE, front |-> FALSE, told |-> FALSE]
           e == [attempt |-> last', state |-> "Connecting", active |-> FALSE]
<1>1. last' \in Attempts /\ last' = last + 1 /\ h \in Handle /\ e \in Entry /\ e # NONE
  <2>1. last' \in Attempts /\ last' = last + 1
    BY MaxAttemptsAssumption DEF Connect, Starts, NextAttempt, Attempts, EInv, TypeOK
  <2>2. h \in Handle /\ e \in Entry
    BY <2>1 DEF Handle, Entry, States
  <2>3. QED
    BY <2>1, <2>2, NoneIsNoEntry
<1>2. /\ \A a \in Attempts : engines'[a] = IF a = last' THEN h ELSE engines[a]
      /\ \A t \in Sids : sessions'[t] = IF t = s THEN e ELSE sessions[t]
      /\ UNCHANGED <<focused, sent, read>>
  BY <1>1 DEF Connect, EInv, TypeOK
<1>3. \A t \in Sids : t # s /\ Present(t) => Engine(t) # last'
  BY <1>1, EntryFacts DEF EInv, TypeOK, Attempts
<1>12. \A t \in Sids :
         /\ Present(t)' <=> (t = s \/ Present(t))
         /\ Engine(t)' = IF t = s THEN last' ELSE Engine(t)
         /\ sessions'[t] = IF t = s THEN e ELSE sessions[t]
  <2> TAKE t \in Sids
  <2>1. CASE t = s
    <3>1. sessions'[t] = e /\ e.attempt = last'
      BY <1>2, <2>1
    <3>2. Present(t)' /\ Engine(t)' = last'
      BY <1>1, <3>1 DEF Present, Engine
    <3>3. QED
      BY <2>1, <3>1, <3>2
  <2>2. CASE t # s
    BY <1>2, <2>2 DEF Present, Engine
  <2>3. QED
    BY <2>1, <2>2
<1>4. engines[last'].of = NONE
  BY <1>1 DEF EInv, TypeOK, Numbered, Attempts
<1>5. TypeOK'
  <2>1. engines' = [a \in Attempts |-> engines'[a]]
    BY DEF Connect, EInv, TypeOK
  <2>2. \A a \in Attempts : engines'[a] \in Handle
    BY <1>1, <1>2 DEF EInv, TypeOK
  <2>3. engines' \in [Attempts -> Handle]
    BY <2>1, <2>2
  <2>4. sessions' \in [Sids -> {NONE} \cup Entry]
    BY <1>1 DEF Connect, EInv, TypeOK
  <2>5. QED
    BY <1>1, <1>2, <2>3, <2>4 DEF EInv, TypeOK, Attempts
<1>6. Numbered'
  <2>1. \A a \in Attempts : IF engines'[a].of = NONE THEN ~engines'[a].runs ELSE a <= last'
    BY <1>1, <1>2, NoneIsNoSid DEF EInv, TypeOK, Numbered, Attempts
  <2>2. \A t \in Sids : Present(t)' => engines'[Engine(t)'].of = t
    <3> SUFFICES ASSUME NEW t \in Sids, Present(t)' PROVE engines'[Engine(t)'].of = t
      OBVIOUS
    <3>1. CASE t = s
      BY <1>1, <1>2, <1>12, <3>1
    <3>2. CASE t # s
      <4>1. Present(t) /\ Engine(t)' = Engine(t)
        BY <1>12, <3>2
      <4>2. QED
        BY <1>2, <1>3, <3>2, <4>1, EntryFacts
    <3>3. QED
      BY <3>1, <3>2
  <2>3. QED
    BY <2>1, <2>2 DEF Numbered
<1>7. Reported'
  BY <1>1, <1>2, <1>4, NoneIsNoSid DEF EInv, Reported
<1>8. InputToOne' /\ FrontIsFocused'
  <2>1. \A t \in Sids : Accepts(t)' => focused' = t
    BY <1>2, <1>12 DEF EInv, InputToOne, Accepts
  <2>2. \A t \in Sids : Present(t)' /\ engines'[Engine(t)'].front => focused' = t
    <3> SUFFICES ASSUME NEW t \in Sids, Present(t)', engines'[Engine(t)'].front
                 PROVE  focused' = t
      OBVIOUS
    <3>1. t # s
      BY <1>1, <1>2, <1>12
    <3>2. Present(t) /\ Engine(t)' = Engine(t)
      BY <1>12, <3>1
    <3>3. QED
      BY <1>2, <1>3, <3>1, <3>2, EntryFacts DEF EInv, FrontIsFocused
  <2>3. QED
    BY <2>1, <2>2 DEF InputToOne, FrontIsFocused
<1>9. EndsAreOwn'
  BY <1>1, <1>2 DEF EInv, EndsAreOwn, Present, Engine, Terminal
<1>10. NoUntoldEngine'
  <2> SUFFICES ASSUME NEW a \in Attempts, engines'[a].runs
               PROVE  \/ engines'[a].told \/ Own(engines[a].of, a)'
                      \/ \E b \in Attempts : b > a /\ engines'[b].of = engines'[a].of
    BY DEF NoUntoldEngine
  <2>1. CASE a = last'
    BY <1>1, <1>2, <2>1 DEF Own, Present, Engine
  <2>2. CASE a # last'
    <3>1. engines'[a] = engines[a] /\ engines[a].of # NONE /\ a <= last /\ a < last'
      BY <1>1, <1>2, <2>2 DEF EInv, Numbered, Unused, TypeOK, Attempts
    <3>2. CASE engines[a].of = s
      BY <1>1, <1>2, <3>1, <3>2
    <3>3. CASE engines[a].of # s
      <4>1. \A b \in Attempts : engines[b].of = engines[a].of => engines'[b] = engines[b]
        BY <1>2, <1>4, <3>1
      <4>2. engines[a].of \in Sids
        BY <3>1 DEF EInv, TypeOK, Handle
      <4>3. QED
        BY <1>2, <3>1, <3>3, <4>1, <4>2 DEF EInv, NoUntoldEngine, Own, Present, Engine
    <3>4. QED
      BY <3>2, <3>3
  <2>3. QED
    BY <2>1, <2>2
<1>13. HeldRuns'
  <2> SUFFICES ASSUME NEW t \in Sids, Present(t)'
               PROVE  engines'[Engine(t)'].runs /\ ~engines'[Engine(t)'].told
    BY DEF HeldRuns
  <2>1. CASE t = s
    BY <1>1, <1>2, <1>12, <2>1
  <2>2. CASE t # s
    <3>1. Present(t) /\ Engine(t)' = Engine(t) /\ engines'[Engine(t)] = engines[Engine(t)]
      BY <1>2, <1>3, <1>12, <2>2, EntryFacts
    <3>2. QED
      BY <3>1 DEF EInv, HeldRuns
  <2>3. QED
    BY <2>1, <2>2
<1>11. QED
  BY <1>5, <1>6, <1>7, <1>8, <1>9, <1>10, <1>13 DEF EInv

LEMMA StartFailsStep ==
  ASSUME EInv, NEW s \in Sids, StartFails(s)
  PROVE  EInv'
<1>1. last' \in 0..MaxAttempts /\ last <= last'
  BY MaxAttemptsAssumption DEF StartFails, Starts, NextAttempt, EInv, TypeOK
<1>2. UNCHANGED <<sessions, focused, engines, sent, read>>
  BY DEF StartFails
<1>3. TypeOK'
  BY <1>1, <1>2 DEF EInv, TypeOK
<1>4. Numbered'
  BY <1>1, <1>2, MaxAttemptsAssumption DEF EInv, TypeOK, Numbered, Present, Engine, Attempts
<1>5. /\ Reported' /\ InputToOne' /\ FrontIsFocused' /\ EndsAreOwn' /\ NoUntoldEngine'
      /\ HeldRuns'
  BY <1>2 DEF EInv, Reported, InputToOne, Accepts, FrontIsFocused, EndsAreOwn, NoUntoldEngine,
     HeldRuns, Own, Present, Engine
<1>6. QED
  BY <1>3, <1>4, <1>5 DEF EInv

\* The state of an entry changes: nothing else about it, and no engine.
LEMMA StateStep ==
  ASSUME EInv, NEW s \in Sids, Present(s), NEW st \in States, SetState(s, st),
         UNCHANGED <<focused, last, engines, sent>>,
         read' \in [Attempts -> 0..2],
         \A a \in Attempts : read[a] <= read'[a] /\ read'[a] <= Len(sent[a]),
         st \in Terminal => \E i \in 1..read'[Engine(s)] : sent[Engine(s)][i] = st
  PROVE  EInv'
<1>1. /\ sessions' \in [Sids -> {NONE} \cup Entry]
      /\ \A t \in Sids :
           /\ (Present(t)' <=> Present(t)) /\ Engine(t)' = Engine(t)
           /\ Present(t) => /\ sessions'[t].active = sessions[t].active
                            /\ sessions'[t].state = IF t = s THEN st ELSE sessions[t].state
  <2> DEFINE e == [sessions[s] EXCEPT !.state = st]
  <2>1. /\ e \in Entry /\ e.state = st /\ e.attempt = sessions[s].attempt
        /\ e.active = sessions[s].active
    BY EntryFacts DEF Entry
  <2>2. sessions' = [sessions EXCEPT ![s] = e] /\ sessions \in [Sids -> {NONE} \cup Entry]
    BY DEF SetState, EInv, TypeOK
  <2>3. e # NONE
    BY <2>1, NoneIsNoEntry
  <2> HIDE DEF e
  <2>4. sessions' \in [Sids -> {NONE} \cup Entry]
    BY <2>1, <2>2
  <2>5. ASSUME NEW t \in Sids
        PROVE  /\ (Present(t)' <=> Present(t)) /\ Engine(t)' = Engine(t)
               /\ Present(t) =>
                    /\ sessions'[t].active = sessions[t].active
                    /\ sessions'[t].state = IF t = s THEN st ELSE sessions[t].state
    <3>1. CASE t = s
      BY <2>1, <2>2, <2>3, <3>1 DEF Present, Engine
    <3>2. CASE t # s
      BY <2>2, <3>2 DEF Present, Engine
    <3>3. QED
      BY <3>1, <3>2
  <2>6. QED
    BY <2>4, <2>5
<1>2. TypeOK'
  BY <1>1 DEF EInv, TypeOK
<1>3. Numbered' /\ Reported'
  BY <1>1 DEF EInv, Numbered, Reported
<1>4. InputToOne' /\ FrontIsFocused'
  BY <1>1 DEF EInv, InputToOne, FrontIsFocused, Accepts
<1>5. EndsAreOwn'
  <2> SUFFICES ASSUME NEW t \in Sids, Present(t)', sessions'[t].state \in Terminal
               PROVE  \E i \in 1..read'[Engine(t)'] : sent'[Engine(t)'][i] = sessions'[t].state
    BY DEF EndsAreOwn
  <2>1. CASE t = s
    BY <1>1, <2>1
  <2>2. CASE t # s
    <3>1. PICK i \in 1..read[Engine(t)] : sent[Engine(t)][i] = sessions[t].state
      BY <1>1, <2>2 DEF EInv, EndsAreOwn
    <3>2. i \in 1..read'[Engine(t)]
      <4>1. Engine(t) \in Attempts /\ read'[Engine(t)] \in Nat
        BY <1>1, EntryFacts
      <4>2. read[Engine(t)] \in Nat /\ read[Engine(t)] <= read'[Engine(t)]
        BY <1>1, <4>1, ReportFacts
      <4>3. QED
        BY <3>1, <4>1, <4>2
    <3>3. QED
      BY <1>1, <2>2, <3>1, <3>2
  <2>3. QED
    BY <2>1, <2>2
<1>6. NoUntoldEngine'
  <2> SUFFICES ASSUME NEW a \in Attempts, engines[a].runs
               PROVE  \/ engines[a].told \/ Own(engines[a].of, a)'
                      \/ \E b \in Attempts : b > a /\ engines[b].of = engines[a].of
    BY DEF NoUntoldEngine
  <2>1. engines[a].of \in Sids
    BY DEF EInv, TypeOK, Numbered, Handle, Unused
  <2>2. QED
    BY <1>1, <2>1 DEF EInv, NoUntoldEngine, Own
<1>8. HeldRuns'
  BY <1>1 DEF EInv, HeldRuns
<1>7. QED
  BY <1>2, <1>3, <1>4, <1>5, <1>6, <1>8 DEF EInv

LEMMA MarkConnectedStep ==
  ASSUME EInv, NEW s \in Sids, MarkConnected(s)
  PROVE  EInv'
<1>1. read \in [Attempts -> 0..2] /\ \A a \in Attempts : read[a] <= read[a] /\ read[a] <= Len(sent[a])
  <2>1. read \in [Attempts -> 0..2]
    BY DEF EInv, TypeOK
  <2>2. \A a \in Attempts : read[a] <= Len(sent[a])
    BY DEF EInv, Reported
  <2>3. \A a \in Attempts : read[a] <= read[a]
    BY <2>1
  <2>4. QED
    BY <2>1, <2>2, <2>3
<1>2. "Connected" \in States \ Terminal
  BY DEF States, Terminal
<1>3. QED
  BY <1>1, <1>2, StateStep DEF MarkConnected

LEMMA HandleEventStep ==
  ASSUME EInv, NEW a \in Attempts, HandleEvent(a)
  PROVE  EInv'
<1>1. /\ read' \in [Attempts -> 0..2]
      /\ read'[a] \in 1..Len(sent[a]) /\ read'[a] = read[a] + 1
      /\ \A b \in Attempts : read[b] <= read'[b] /\ read'[b] <= Len(sent[b])
  <2>1. read[a] < Len(sent[a]) /\ read' = [read EXCEPT ![a] = @ + 1] /\ read \in [Attempts -> 0..2]
    BY DEF HandleEvent, EInv, TypeOK
  <2>2. read[a] + 1 \in 1..Len(sent[a]) /\ read[a] + 1 \in 0..2
    BY <2>1, ReportFacts
  <2>3. read' \in [Attempts -> 0..2] /\ read'[a] = read[a] + 1
    BY <2>1, <2>2
  <2>4. ASSUME NEW b \in Attempts PROVE read[b] <= read'[b] /\ read'[b] <= Len(sent[b])
    BY <2>1, <2>2, <2>3, ReportFacts
  <2>5. QED
    BY <2>2, <2>3, <2>4
<1>2. sent[a][read'[a]] \in Reports
  BY <1>1 DEF EInv, TypeOK
<1>3. engines[a].of \in Sids
  BY <1>1 DEF EInv, TypeOK, Reported, Handle
<1>4. UNCHANGED <<focused, last, engines, sent>>
  BY DEF HandleEvent
<1>5. CASE Own(engines[a].of, a)
  <2> DEFINE s == engines[a].of
             st == sent[a][read'[a]]
  <2>1. Present(s) /\ Engine(s) = a /\ SetState(s, st) /\ st \in States
    BY <1>2, <1>5 DEF HandleEvent, Own, Reports, States
  <2>2. \E i \in 1..read'[Engine(s)] : sent[Engine(s)][i] = st
    BY <1>1, <2>1
  <2> HIDE DEF s, st
  <2>3. s \in Sids
    BY <1>3 DEF s
  <2>4. QED
    BY <1>1, <1>4, <2>1, <2>2, <2>3, StateStep
<1>6. CASE ~Own(engines[a].of, a)
  <2>1. UNCHANGED <<sessions, focused, last, engines, sent>>
    BY <1>6 DEF HandleEvent
  <2>2. TypeOK' /\ Numbered' /\ Reported'
    BY <1>1, <2>1 DEF EInv, TypeOK, Numbered, Reported, Present, Engine
  <2>3. InputToOne' /\ FrontIsFocused' /\ NoUntoldEngine' /\ HeldRuns'
    BY <2>1 DEF EInv, InputToOne, Accepts, FrontIsFocused, NoUntoldEngine, HeldRuns, Own,
       Present, Engine
  <2>4. EndsAreOwn'
    <3> SUFFICES ASSUME NEW t \in Sids, Present(t), sessions[t].state \in Terminal
                 PROVE  \E i \in 1..read'[Engine(t)] : sent[Engine(t)][i] = sessions[t].state
      BY <2>1 DEF EndsAreOwn, Present, Engine
    <3>1. PICK i \in 1..read[Engine(t)] : sent[Engine(t)][i] = sessions[t].state
      BY DEF EInv, EndsAreOwn
    <3>2. i \in 1..read'[Engine(t)]
      <4>1. Engine(t) \in Attempts /\ read'[Engine(t)] \in Nat
        BY <1>1, EntryFacts
      <4>2. read[Engine(t)] \in Nat /\ read[Engine(t)] <= read'[Engine(t)]
        BY <1>1, <4>1, ReportFacts
      <4>3. QED
        BY <3>1, <4>1, <4>2
    <3>3. QED
      BY <3>1, <3>2
  <2>5. QED
    BY <2>2, <2>3, <2>4 DEF EInv
<1>7. QED
  BY <1>5, <1>6

LEMMA ReportStep ==
  ASSUME EInv, NEW a \in Attempts, NEW e \in Reports, Report(a, e)
  PROVE  EInv'
<1>1. /\ sent[a] \in Seq(Reports) /\ sent'[a] = Append(sent[a], e)
      /\ \A b \in Attempts : b # a => sent'[b] = sent[b]
      /\ UNCHANGED <<sessions, focused, last, engines, read>>
  BY DEF Report, Sinks, EInv, TypeOK
<1>2. Len(sent[a]) <= 1 /\ (sent[a] # <<>> => e \in Terminal)
  <2>1. CASE sent[a] = <<>>
    BY <2>1
  <2>2. CASE sent[a] # <<>>
    <3>1. Len(sent[a]) = 1 \/ Len(sent[a]) = 2
      <4>1. sent[a] \in Seq(Reports) /\ Len(sent[a]) # 0
        BY <1>1, <2>2
      <4>2. Len(sent[a]) \in Nat /\ Len(sent[a]) <= 2
        BY ReportFacts
      <4> DEFINE n == Len(sent[a])
      <4>3. n \in Nat /\ n <= 2 /\ n # 0
        BY <4>1, <4>2
      <4> HIDE DEF n
      <4>4. n = 1 \/ n = 2
        BY <4>3
      <4>5. QED
        BY <4>4 DEF n
    <3>2. sent[a][Len(sent[a])] \notin Terminal /\ e # "Connected"
      BY <2>2 DEF Report, Ended
    <3>3. QED
      BY <3>1, <3>2, ReportFacts DEF Reports, Terminal
  <2>3. QED
    BY <2>1, <2>2
<1>3. /\ Len(sent'[a]) = Len(sent[a]) + 1 /\ sent'[a][Len(sent[a]) + 1] = e
      /\ \A i \in 1..Len(sent[a]) : sent'[a][i] = sent[a][i]
  BY <1>1
<1>4. TypeOK'
  BY <1>1 DEF Report, Sinks, EInv, TypeOK
<1>5. Reported'
  <2> SUFFICES ASSUME NEW b \in Attempts
               PROVE  /\ read[b] <= Len(sent'[b]) /\ Len(sent'[b]) <= 2
                      /\ Len(sent'[b]) = 2 => sent'[b][2] \in Terminal
                      /\ sent'[b] # <<>> => engines[b].of # NONE
    BY <1>1 DEF Reported
  <2>1. CASE b = a
    BY <1>1, <1>2, <1>3, <2>1 DEF Report, EInv, Reported, TypeOK
  <2>2. CASE b # a
    BY <1>1, <2>2 DEF EInv, Reported
  <2>3. QED
    BY <2>1, <2>2
<1>6. Numbered' /\ InputToOne' /\ FrontIsFocused' /\ NoUntoldEngine' /\ HeldRuns'
  BY <1>1 DEF EInv, Numbered, InputToOne, Accepts, FrontIsFocused, NoUntoldEngine, HeldRuns, Own,
     Present, Engine
<1>7. EndsAreOwn'
  <2> SUFFICES ASSUME NEW t \in Sids, Present(t), sessions[t].state \in Terminal
               PROVE  \E i \in 1..read[Engine(t)] : sent'[Engine(t)][i] = sessions[t].state
    BY <1>1 DEF EndsAreOwn, Present, Engine
  <2>1. PICK i \in 1..read[Engine(t)] : sent[Engine(t)][i] = sessions[t].state
    BY DEF EInv, EndsAreOwn
  <2>2. i \in 1..Len(sent[Engine(t)])
    <3>1. Engine(t) \in Attempts
      BY EntryFacts
    <3>2. QED
      BY <2>1, <3>1, ReportFacts
  <2>3. QED
    BY <1>1, <1>3, <2>1, <2>2, EntryFacts
<1>8. QED
  BY <1>4, <1>5, <1>6, <1>7 DEF EInv

\* What focus and disconnect do to the engines: the same ones, none started.
Same(e, f) == f \in Handle /\ f.of = e.of /\ (f.runs => e.runs) /\ (e.told => f.told)

\* An engine that stays in the table is neither stopped nor told to stop.
Untouched(t) ==
  /\ engines'[Engine(t)].runs = engines[Engine(t)].runs
  /\ engines'[Engine(t)].told = engines[Engine(t)].told

\* A step of the manager that keeps every entry's attempt and state, or drops it.
LEMMA ManagerStep ==
  ASSUME EInv, UNCHANGED <<last, sent, read>>,
         focused' \in Sids \cup {NONE},
         sessions' \in [Sids -> {NONE} \cup Entry],
         engines' \in [Attempts -> Handle],
         \A a \in Attempts : Same(engines[a], engines'[a]),
         \A t \in Sids : Present(t)' => /\ Present(t) /\ Engine(t)' = Engine(t)
                                       /\ sessions'[t].state = sessions[t].state,
         \A t \in Sids : Present(t) => IF Present(t)' THEN Untouched(t) ELSE engines'[Engine(t)].told,
         InputToOne', FrontIsFocused'
  PROVE  EInv'
<1>1. TypeOK'
  BY DEF EInv, TypeOK
<1>2. Numbered'
  <2>1. \A a \in Attempts : IF engines'[a].of = NONE THEN ~engines'[a].runs ELSE a <= last'
    BY DEF EInv, Numbered, Same
  <2>2. \A t \in Sids : Present(t)' => engines'[Engine(t)'].of = t
    BY EntryFacts DEF Same
  <2>3. QED
    BY <2>1, <2>2 DEF Numbered
<1>3. Reported'
  BY DEF EInv, Reported, Same
<1>4. EndsAreOwn'
  BY DEF EInv, EndsAreOwn
<1>5. NoUntoldEngine'
  <2> SUFFICES ASSUME NEW a \in Attempts, engines'[a].runs
               PROVE  \/ engines'[a].told \/ Own(engines[a].of, a)'
                      \/ \E b \in Attempts : b > a /\ engines'[b].of = engines'[a].of
    BY DEF NoUntoldEngine
  <2>1. engines[a].runs /\ engines'[a].of = engines[a].of /\ engines[a].of \in Sids
    BY DEF Same, EInv, TypeOK, Handle, Numbered, Unused
  <2>2. CASE Own(engines[a].of, a)
    <3>1. PICK t \in Sids : t = engines[a].of
      BY <2>1
    <3>2. Present(t) /\ Engine(t) = a /\ engines'[a].of = t
      BY <2>1, <2>2, <3>1 DEF Own
    <3>3. CASE ~Present(t)'
      BY <3>2, <3>3
    <3>4. CASE Present(t)'
      BY <3>1, <3>2, <3>4 DEF Own
    <3>5. QED
      BY <3>3, <3>4
  <2>4. CASE engines[a].told
    BY <2>4 DEF Same
  <2>3. CASE \E b \in Attempts : b > a /\ engines[b].of = engines[a].of
    BY <2>1, <2>3 DEF Same
  <2>5. QED
    BY <2>1, <2>2, <2>3, <2>4 DEF EInv, NoUntoldEngine
<1>7. HeldRuns'
  BY DEF EInv, HeldRuns, Untouched
<1>6. QED
  BY <1>1, <1>2, <1>3, <1>4, <1>5, <1>7 DEF EInv

\* What focus leaves of an engine.
Alike(e, f) == f.runs = e.runs /\ f.told = e.told

\* The engines once the one in front has been told to hide, and no more.
LEMMA HiddenFacts ==
  ASSUME EInv, NEW s \in Sids, Present(s)
  PROVE  /\ Hidden(s) \in [Attempts -> Handle]
         /\ \A a \in Attempts : Same(engines[a], Hidden(s)[a]) /\ Alike(engines[a], Hidden(s)[a])
         /\ \A t \in Sids : Present(t) /\ Hidden(s)[Engine(t)].front => t = s /\ focused = s
<1>1. ASSUME NEW a \in Attempts
      PROVE  /\ Hidden(s)[a] \in Handle
             /\ Same(engines[a], Hidden(s)[a]) /\ Alike(engines[a], Hidden(s)[a])
             /\ Hidden(s)[a].front => engines[a].front /\ \A p \in Behind(s) : a # Engine(p)
  <2> DEFINE b == engines[a].front /\ \A p \in Behind(s) : a # Engine(p)
  <2>1. b \in BOOLEAN /\ engines[a] \in Handle
    BY DEF EInv, TypeOK, Handle
  <2>2. Hidden(s)[a] = [engines[a] EXCEPT !.front = b]
    BY DEF Hidden
  <2>3. b => engines[a].front /\ \A p \in Behind(s) : a # Engine(p)
    OBVIOUS
  <2> HIDE DEF b
  <2>4. /\ [engines[a] EXCEPT !.front = b] \in Handle
        /\ [engines[a] EXCEPT !.front = b].front = b
        /\ [engines[a] EXCEPT !.front = b].of = engines[a].of
        /\ [engines[a] EXCEPT !.front = b].runs = engines[a].runs
        /\ [engines[a] EXCEPT !.front = b].told = engines[a].told
    BY <2>1 DEF Handle
  <2>5. QED
    BY <2>2, <2>3, <2>4 DEF Same, Alike
<1>2. ASSUME NEW t \in Sids, Present(t), Hidden(s)[Engine(t)].front PROVE t = s /\ focused = s
  <2>1. Engine(t) \in Attempts
    BY <1>2, EntryFacts
  <2>2. focused = t /\ t \notin Behind(s)
    BY <1>1, <1>2, <2>1 DEF EInv, FrontIsFocused
  <2>3. QED
    BY <1>2, <2>2 DEF Behind
<1>3. DOMAIN Hidden(s) = Attempts /\ Hidden(s) = [a \in Attempts |-> Hidden(s)[a]]
  BY DEF Hidden
<1>4. Hidden(s) \in [Attempts -> Handle]
  BY <1>1, <1>3
<1>5. QED
  BY <1>1, <1>2, <1>4

LEMMA FocusRefusedStep ==
  ASSUME EInv, NEW s \in Sids, FocusRefused(s)
  PROVE  EInv'
<1>1. Present(s) /\ engines' = Hidden(s) /\ UNCHANGED <<sessions, focused, last, sent, read>>
  BY DEF FocusRefused
<1>2. \A t \in Sids : (Present(t)' <=> Present(t)) /\ Engine(t)' = Engine(t)
  BY <1>1 DEF Present, Engine
<1>3. InputToOne'
  BY <1>1 DEF EInv, InputToOne, Accepts, Present
<1>4. FrontIsFocused'
  BY <1>1, <1>2, HiddenFacts DEF FrontIsFocused
<1>5. focused' \in Sids \cup {NONE} /\ sessions' \in [Sids -> {NONE} \cup Entry]
  BY <1>1 DEF EInv, TypeOK
<1>7. \A t \in Sids : Present(t) => Untouched(t)
  BY <1>1, HiddenFacts, EntryFacts DEF Untouched, Alike
<1>6. QED
  BY <1>1, <1>2, <1>3, <1>4, <1>5, <1>7, HiddenFacts, ManagerStep

LEMMA FocusStep ==
  ASSUME EInv, NEW s \in Sids, Focus(s)
  PROVE  EInv'
<1>1. /\ Present(s) /\ engines' = Raised(s) /\ sessions' = Flagged(s) /\ focused' = s
      /\ UNCHANGED <<last, sent, read>>
  BY DEF Focus
<1>2. Engine(s) \in Attempts
  BY <1>1, EntryFacts
<1>3. ASSUME NEW a \in Attempts
      PROVE  /\ engines'[a] \in Handle /\ Same(engines[a], engines'[a])
             /\ Alike(engines[a], engines'[a])
             /\ a # Engine(s) => engines'[a] = Hidden(s)[a]
  <2>1. /\ Hidden(s)[a] \in Handle /\ Same(engines[a], Hidden(s)[a])
        /\ Alike(engines[a], Hidden(s)[a])
    BY <1>1, HiddenFacts
  <2>2. engines'[a] = IF a = Engine(s) THEN [Hidden(s)[a] EXCEPT !.front = TRUE] ELSE Hidden(s)[a]
    BY <1>1, HiddenFacts DEF Raised
  <2>3. QED
    BY <1>2, <2>1, <2>2 DEF Same, Alike, Handle
<1>4. engines' \in [Attempts -> Handle]
  <2>1. engines' = [a \in Attempts |-> engines'[a]]
    BY <1>1, HiddenFacts DEF Raised
  <2>2. QED
    BY <1>3, <2>1
<1>5. ASSUME NEW t \in Sids
      PROVE  /\ sessions'[t] \in {NONE} \cup Entry
             /\ (Present(t)' <=> Present(t))
             /\ Present(t) => /\ Engine(t)' = Engine(t) /\ sessions'[t].state = sessions[t].state
                              /\ sessions'[t].active => t = s \/ (sessions[t].active /\ t # focused)
  <2>1. CASE ~Present(t)
    BY <1>1, <2>1 DEF Flagged, Present
  <2>2. CASE Present(t)
    <3> DEFINE b == (t = s \/ sessions[t].active) /\ t # focused
    <3>1. b \in BOOLEAN /\ sessions[t] \in Entry
      BY <2>2, EntryFacts DEF Entry
    <3>2. sessions'[t] = [sessions[t] EXCEPT !.active = b]
      BY <1>1, <2>2 DEF Flagged
    <3>3. b => t = s \/ (sessions[t].active /\ t # focused)
      OBVIOUS
    <3> HIDE DEF b
    <3>4. /\ sessions'[t] \in Entry /\ sessions'[t].active = b
          /\ sessions'[t].attempt = sessions[t].attempt /\ sessions'[t].state = sessions[t].state
      BY <3>1, <3>2 DEF Entry
    <3>5. sessions'[t] # NONE
      BY <3>4, NoneIsNoEntry
    <3>6. QED
      BY <2>2, <3>3, <3>4, <3>5 DEF Present, Engine
  <2>3. QED
    BY <2>1, <2>2
<1>6. sessions' \in [Sids -> {NONE} \cup Entry]
  <2>1. sessions' = [t \in Sids |-> sessions'[t]]
    BY <1>1 DEF Flagged
  <2>2. QED
    BY <1>5, <2>1
<1>7. InputToOne'
  BY <1>1, <1>5 DEF EInv, InputToOne, Accepts
<1>8. FrontIsFocused'
  <2> SUFFICES ASSUME NEW t \in Sids, Present(t)', engines'[Engine(t)'].front PROVE t = s
    BY <1>1 DEF FrontIsFocused
  <2>1. Present(t) /\ Engine(t)' = Engine(t) /\ Engine(t) \in Attempts
    BY <1>5, EntryFacts
  <2>2. CASE Engine(t) = Engine(s)
    BY <1>1, <2>1, <2>2, OwnEngines
  <2>3. CASE Engine(t) # Engine(s)
    BY <1>1, <1>3, <2>1, <2>3, HiddenFacts
  <2>4. QED
    BY <2>2, <2>3
<1>10. \A t \in Sids : Present(t) => Untouched(t)
  BY <1>3, EntryFacts DEF Untouched, Alike
<1>9. QED
  BY <1>1, <1>3, <1>4, <1>5, <1>6, <1>7, <1>8, <1>10, ManagerStep

LEMMA DisconnectStep ==
  ASSUME EInv, NEW s \in Sids, Disconnect(s)
  PROVE  EInv'
<1>1. /\ Present(s) /\ focused' = Unmarked(s)
      /\ sessions' = [sessions EXCEPT ![s] = NONE] /\ UNCHANGED <<last, sent, read>>
  BY DEF Disconnect
<1>10. PICK hides \in BOOLEAN, stops \in BOOLEAN : engines' = Stopped(s, hides, stops)
  BY DEF Disconnect
<1>2. Engine(s) \in Attempts
  BY <1>1, EntryFacts
<1>3. ASSUME NEW a \in Attempts
      PROVE  /\ engines'[a] \in Handle /\ Same(engines[a], engines'[a])
             /\ IF a = Engine(s) THEN engines'[a].told ELSE engines'[a] = engines[a]
  <2>1. engines[a] \in Handle /\ engines \in [Attempts -> Handle]
    BY DEF EInv, TypeOK
  <2>2. engines'[a] =
          IF a = Engine(s)
          THEN [engines[a] EXCEPT !.front = @ /\ ~hides /\ ~stops, !.runs = @ /\ ~stops,
                                  !.told = TRUE]
          ELSE engines[a]
    BY <1>2, <1>10, <2>1 DEF Stopped
  <2>3. CASE a = Engine(s)
    <3>1. /\ engines'[a].of = engines[a].of /\ engines'[a].told
          /\ engines'[a].runs = (engines[a].runs /\ ~stops)
          /\ engines'[a] \in Handle
      BY <1>10, <2>1, <2>2, <2>3 DEF Handle
    <3>2. QED
      BY <2>3, <3>1 DEF Same
  <2>4. CASE a # Engine(s)
    BY <2>1, <2>2, <2>4 DEF Same
  <2>5. QED
    BY <2>3, <2>4
<1>4. engines' \in [Attempts -> Handle]
  <2>1. engines' = [a \in Attempts |-> engines'[a]]
    BY <1>10 DEF Stopped, EInv, TypeOK
  <2>2. QED
    BY <1>3, <2>1
<1>5. /\ sessions' \in [Sids -> {NONE} \cup Entry]
      /\ focused' \in Sids \cup {NONE}
      /\ \A t \in Sids : IF t = s THEN ~Present(t)' ELSE sessions'[t] = sessions[t]
  BY <1>1 DEF Unmarked, EInv, TypeOK, Present
<1>6. \A t \in Sids : t # s => (Present(t)' <=> Present(t)) /\ Engine(t)' = Engine(t)
  BY <1>5 DEF Present, Engine
<1>7. InputToOne'
  BY <1>1, <1>5, <1>6 DEF EInv, InputToOne, Accepts, Unmarked
<1>8. FrontIsFocused'
  <2> SUFFICES ASSUME NEW t \in Sids, Present(t)', engines'[Engine(t)'].front PROVE focused' = t
    BY DEF FrontIsFocused
  <2>1. t # s /\ Present(t) /\ Engine(t)' = Engine(t) /\ Engine(t) # Engine(s)
    BY <1>1, <1>5, <1>6, OwnEngines
  <2>2. engines'[Engine(t)] = engines[Engine(t)]
    BY <1>3, <2>1, EntryFacts
  <2>3. focused = t
    BY <2>1, <2>2 DEF EInv, FrontIsFocused
  <2>4. QED
    BY <1>1, <2>1, <2>3 DEF Unmarked
<1>11. \A t \in Sids :
         Present(t) => IF Present(t)' THEN Untouched(t) ELSE engines'[Engine(t)].told
  <2> SUFFICES ASSUME NEW t \in Sids, Present(t)
               PROVE  IF Present(t)' THEN Untouched(t) ELSE engines'[Engine(t)].told
    OBVIOUS
  <2>1. CASE t = s
    BY <1>2, <1>3, <1>5, <2>1
  <2>2. CASE t # s
    <3>1. Engine(t) # Engine(s) /\ Engine(t) \in Attempts
      BY <1>1, <2>2, OwnEngines, EntryFacts
    <3>2. QED
      BY <1>3, <1>6, <2>2, <3>1 DEF Untouched
  <2>3. QED
    BY <2>1, <2>2
<1>9. QED
  BY <1>1, <1>2, <1>3, <1>4, <1>5, <1>6, <1>7, <1>8, <1>11, ManagerStep

-----------------------------------------------------------------------------
(* The theorems.                                                            *)

LEMMA EInvStep == EInv /\ [Next]_vars => EInv'
<1> SUFFICES ASSUME EInv, [Next]_vars PROVE EInv'
  OBVIOUS
<1>1. CASE UNCHANGED vars
  BY <1>1 DEF vars, EInv, TypeOK, Numbered, Reported, InputToOne, Accepts, FrontIsFocused,
     EndsAreOwn, NoUntoldEngine, HeldRuns, Own, Present, Engine
<1>2. ASSUME NEW s \in Sids,
             Connect(s) \/ StartFails(s) \/ MarkConnected(s) \/ Focus(s)
               \/ FocusRefused(s) \/ Disconnect(s)
      PROVE  EInv'
  BY <1>2, ConnectStep, StartFailsStep, MarkConnectedStep, FocusStep, FocusRefusedStep,
     DisconnectStep
<1>3. ASSUME NEW a \in Attempts, HandleEvent(a) \/ \E e \in Reports : Report(a, e)
      PROVE  EInv'
  BY <1>3, HandleEventStep, ReportStep
<1>4. QED
  BY <1>1, <1>2, <1>3 DEF Next

\* The inductive invariant: attempts and engines are the sessions' own, what is
\* in front is what the manager calls focused, ends are reported ones.
THEOREM EngineInvariance == Spec => []EInv
BY InitEInv, EInvStep, PTL DEF Spec

\* What the manager promises of input, front, ends and engines.
THEOREM ManagerIsSound == Spec => []ManagerInv
<1>1. EInv => ManagerInv
  BY DEF EInv, ManagerInv
<1>2. QED
  BY <1>1, EngineInvariance, PTL

-----------------------------------------------------------------------------
(* The table of sessions.                                                   *)

StatusOf(s) ==
  IF ~Present(s) THEN "notRunning"
  ELSE IF sessions[s].state \in Terminal THEN "exited" ELSE "running"

\* What a caller sees of a session does not depend on the entries of the others.
LEMMA SameStatus ==
  ASSUME NEW t \in Sids,
         \/ sessions'[t] = sessions[t]
         \/ Present(t) /\ Present(t)' /\ sessions'[t].state = sessions[t].state
  PROVE  StatusOf(t)' = StatusOf(t)
BY DEF StatusOf, Present

\* One session arrives or reports: the table installs it.
LEMMA Installs ==
  ASSUME EInv, EInv', NEW s \in Sids, Present(s)', focused' = focused,
         \A t \in Sids : t # s => sessions'[t] = sessions[t]
  PROVE  Table!Next
<1>1. StatusOf(s)' \in {"running", "exited"}
  BY DEF StatusOf
<1>2. \A t \in Sids : t # s => StatusOf(t)' = StatusOf(t)
  BY SameStatus
<1>3. Table!Install(s)
  <2>1. [t \in Sids |-> StatusOf(t)'] = [[t \in Sids |-> StatusOf(t)] EXCEPT ![s] = StatusOf(s)']
    BY <1>2
  <2>2. QED
    BY <1>1, <2>1 DEF Table!Install, StatusOf
<1>4. QED
  BY <1>3 DEF Table!Next

\* Every step of the layer is a step of the table, or none.
LEMMA TableStep == EInv /\ EInv' /\ [Next]_vars => [Table!Next]_(Table!vars)
<1> SUFFICES ASSUME EInv, EInv', [Next]_vars PROVE [Table!Next]_(Table!vars)
  OBVIOUS
<1>1. ASSUME UNCHANGED <<sessions, focused>> PROVE UNCHANGED Table!vars
  BY <1>1 DEF Table!vars, Present
<1>2. CASE UNCHANGED vars
  BY <1>1, <1>2 DEF vars
<1>3. ASSUME NEW s \in Sids, StartFails(s) \/ FocusRefused(s) PROVE UNCHANGED Table!vars
  BY <1>1, <1>3 DEF StartFails, FocusRefused
<1>4. ASSUME NEW s \in Sids, Connect(s) PROVE Table!Next
  <2>1. sessions'[s] \in Entry /\ focused' = focused /\ \A t \in Sids : t # s => sessions'[t] = sessions[t]
    <3>1. \A t \in Sids : t # s => sessions'[t] = sessions[t]
      BY <1>4 DEF Connect, EInv, TypeOK
    <3>2. sessions'[s].active = FALSE /\ sessions' \in [Sids -> {NONE} \cup Entry] /\ last' \in Attempts
      BY <1>4, MaxAttemptsAssumption
      DEF Connect, Starts, NextAttempt, EInv, TypeOK, Attempts
    <3>3. sessions'[s] = [attempt |-> last', state |-> "Connecting", active |-> FALSE]
      BY <1>4 DEF Connect, EInv, TypeOK
    <3>4. sessions'[s] \in Entry
      BY <3>2, <3>3 DEF Entry, States
    <3>5. QED
      BY <1>4, <3>1, <3>4 DEF Connect
  <2>2. Present(s)'
    BY <2>1, NoneIsNoEntry DEF Present
  <2>3. QED
    BY <2>1, <2>2, Installs
<1>5. ASSUME NEW s \in Sids, NEW st \in States, Present(s), SetState(s, st), focused' = focused
      PROVE  Table!Next
  <2>1. \A t \in Sids : t # s => sessions'[t] = sessions[t]
    BY <1>5 DEF SetState, EInv, TypeOK
  <2>2. sessions'[s] = [sessions[s] EXCEPT !.state = st]
    BY <1>5 DEF SetState, EInv, TypeOK
  <2>3. sessions'[s] \in Entry
    BY <1>5, <2>2, EntryFacts DEF Entry
  <2>4. Present(s)'
    BY <2>3, NoneIsNoEntry DEF Present
  <2>5. QED
    BY <1>5, <2>1, <2>4, Installs
<1>6. ASSUME NEW s \in Sids, MarkConnected(s) PROVE Table!Next
  BY <1>5, <1>6 DEF MarkConnected, States
<1>7. ASSUME NEW a \in Attempts, HandleEvent(a) PROVE Table!Next \/ UNCHANGED Table!vars
  <2>1. CASE ~Own(engines[a].of, a)
    BY <1>1, <1>7, <2>1 DEF HandleEvent
  <2>2. CASE Own(engines[a].of, a)
    <3> DEFINE s == engines[a].of
               st == sent[a][read'[a]]
    <3>1. Present(s) /\ SetState(s, st) /\ focused' = focused
      BY <1>7, <2>2 DEF HandleEvent, Own
    <3>2. read'[a] \in 1..Len(sent[a])
      <4>1. read'[a] = read[a] + 1 /\ read[a] < Len(sent[a])
        BY <1>7 DEF HandleEvent, EInv, TypeOK
      <4>2. QED
        BY <4>1, ReportFacts
    <3>3. st \in States
      BY <3>2, ReportFacts DEF Reports, States
    <3>4. s \in Sids
      <4>1. sent[a] # <<>>
        BY <3>2
      <4>2. QED
        BY <4>1, ReportFacts DEF EInv, TypeOK, Handle
    <3> HIDE DEF s, st
    <3>5. QED
      BY <1>5, <3>1, <3>3, <3>4
  <2>3. QED
    BY <2>1, <2>2
<1>8. ASSUME NEW a \in Attempts, NEW e \in Reports, Report(a, e) PROVE UNCHANGED Table!vars
  BY <1>1, <1>8 DEF Report
<1>9. ASSUME NEW s \in Sids, Focus(s) PROVE Table!Next
  <2>1. Present(s) /\ focused' = s /\ sessions' = Flagged(s)
    BY <1>9 DEF Focus
  <2>2. ASSUME NEW t \in Sids PROVE StatusOf(t)' = StatusOf(t)
    <3>1. CASE ~Present(t)
      BY <2>1, <3>1 DEF Flagged, StatusOf, Present
    <3>2. CASE Present(t)
      <4> DEFINE b == (t = s \/ sessions[t].active) /\ t # focused
      <4>1. sessions'[t] = [sessions[t] EXCEPT !.active = b] /\ b \in BOOLEAN
        BY <2>1, <3>2, EntryFacts DEF Flagged, Entry
      <4> HIDE DEF b
      <4>2. sessions'[t] \in Entry /\ sessions'[t].state = sessions[t].state
        BY <3>2, <4>1, EntryFacts DEF Entry
      <4>3. Present(t)'
        BY <4>2, NoneIsNoEntry DEF Present
      <4>4. QED
        BY <3>2, <4>2, <4>3, SameStatus
    <3>3. QED
      BY <3>1, <3>2
  <2>3. Table!Show(s)
    BY <2>1, <2>2 DEF Table!Show, StatusOf
  <2>4. QED
    BY <2>3 DEF Table!Next
<1>10. ASSUME NEW s \in Sids, Disconnect(s) PROVE Table!Next
  <2>1. sessions' = [sessions EXCEPT ![s] = NONE] /\ focused' = Unmarked(s)
    BY <1>10 DEF Disconnect
  <2>2. /\ \A t \in Sids : t # s => sessions'[t] = sessions[t]
        /\ sessions'[s] = NONE
    BY <2>1 DEF EInv, TypeOK
  <2>3. \A t \in Sids : StatusOf(t)' = IF t = s THEN "notRunning" ELSE StatusOf(t)
    BY <2>2, SameStatus DEF StatusOf, Present
  <2>4. [t \in Sids |-> StatusOf(t)'] = [[t \in Sids |-> StatusOf(t)] EXCEPT ![s] = "notRunning"]
    BY <2>3
  <2>5. focused' \in {NONE} \cup {f \in {focused} : f # s}
    BY <2>1 DEF Unmarked
  <2>6. Table!Withdraw(s)
    BY <2>4, <2>5 DEF Table!Withdraw, StatusOf
  <2>7. QED
    BY <2>6 DEF Table!Next
<1>11. QED
  BY <1>2, <1>3, <1>4, <1>6, <1>7, <1>8, <1>9, <1>10 DEF Next

\* The reliability layer keeps the promise of the native manager: a table of
\* sessions, at most one in front and never one that is not there.
THEOREM EngineRefinement == Spec => ImplementsTable
<1>1. Init => Table!Init
  BY DEF Init, Table!Init, Present
<1>2. QED
  BY <1>1, TableStep, EngineInvariance, PTL DEF Spec, ImplementsTable, Table!Spec
=============================================================================
