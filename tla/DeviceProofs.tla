----------------------------- MODULE DeviceProofs -----------------------------
(***************************************************************************)
(* What is remembered about a Jetson and what is done to it: the proofs of  *)
(* RememberedDevices and of Provisioning.                                   *)
(***************************************************************************)
EXTENDS RememberedDevices, Provisioning, FiniteSetTheorems, WellFoundedInduction, TLAPS

-----------------------------------------------------------------------------
(* Filters and searches on a list.                                          *)

\* A set of numbers that is not empty has a least element.
LEMMA LeastIndex ==
  ASSUME NEW T \in SUBSET Nat, T # {}
  PROVE  \E m \in T : \A y \in T : m <= y
<1> DEFINE R == OpToRel(<, Nat)
<1>1. IsWellFoundedOn(R, Nat) /\ \A x, y \in Nat : y < x => <<y, x>> \in R
  BY NatLessThanWellFounded DEF OpToRel
<1> HIDE DEF R
<1>2. PICK m \in T : \A y \in T : ~ (<<y, m>> \in R)
  BY <1>1, WFMin
<1>3. \A y \in T : ~(y < m)
  BY <1>1, <1>2
<1>4. QED
  BY <1>3

\* find returns an element of those asked for.
LEMMA FirstIs ==
  ASSUME NEW S, NEW s \in Seq(S), NEW I \in SUBSET DOMAIN s, I # {}
  PROVE  \E i \in I : First(s, I) = s[i]
<1>1. I \subseteq Nat
  OBVIOUS
<1>2. \E i \in I : \A j \in I : i <= j
  BY <1>1, LeastIndex
<1>3. QED
  BY <1>2 DEF First

\* filter keeps what is asked for, and every element of it once.
LEMMA FilteredIs ==
  ASSUME NEW S, NEW s \in Seq(S), NEW I \in SUBSET DOMAIN s
  PROVE  LET t == Filtered(s, I)
         IN  /\ t \in Seq(S)
             /\ \A k \in DOMAIN t : \E i \in I : t[k] = s[i]
             /\ \A i \in I : \E k \in DOMAIN t : t[k] = s[i]
             /\ \A k, l \in DOMAIN t : k # l => \E i, j \in I : i # j /\ t[k] = s[i] /\ t[l] = s[j]
<1> DEFINE n == Cardinality(I)
           UpTo(i) == {j \in I : j <= i}
           place == [i \in I |-> Cardinality(UpTo(i))]
           At1(k) == CHOOSE i \in I : Cardinality(UpTo(i)) = k
           t == Filtered(s, I)
<1>1. I \subseteq Nat /\ IsFiniteSet(I) /\ n \in Nat
  <2>1. DOMAIN s = 1..Len(s) /\ Len(s) \in Nat
    OBVIOUS
  <2>2. IsFiniteSet(1..Len(s))
    BY <2>1, FS_Interval
  <2>3. IsFiniteSet(I)
    BY <2>1, <2>2, FS_Subset
  <2>4. QED
    BY <2>1, <2>3, FS_CardinalityType
<1>2. \A i \in I : IsFiniteSet(UpTo(i)) /\ Cardinality(UpTo(i)) \in 1..n
  <2> SUFFICES ASSUME NEW i \in I PROVE IsFiniteSet(UpTo(i)) /\ Cardinality(UpTo(i)) \in 1..n
    OBVIOUS
  <2>1. UpTo(i) \in SUBSET I /\ i \in UpTo(i)
    BY <1>1
  <2>2. IsFiniteSet(UpTo(i)) /\ Cardinality(UpTo(i)) <= n
    BY <1>1, <2>1, FS_Subset
  <2>3. Cardinality(UpTo(i)) \in Nat /\ Cardinality(UpTo(i)) # 0
    BY <2>1, <2>2, FS_CardinalityType, FS_EmptySet
  <2> HIDE DEF UpTo
  <2>4. QED
    BY <1>1, <2>2, <2>3
<1>3. ASSUME NEW i \in I, NEW j \in I, i < j
      PROVE  Cardinality(UpTo(i)) # Cardinality(UpTo(j))
  <2>1. UpTo(i) \in SUBSET UpTo(j) /\ j \in UpTo(j) /\ j \notin UpTo(i)
    BY <1>1, <1>3
  <2>2. IsFiniteSet(UpTo(j))
    BY <1>2
  <2> HIDE DEF UpTo
  <2>3. QED
    BY <2>1, <2>2, FS_Subset
<1>4. place \in Injection(I, 1..n)
  <2>1. place \in [I -> 1..n]
    BY <1>2
  <2>2. ASSUME NEW i \in I, NEW j \in I, place[i] = place[j] PROVE i = j
    <3>1. Cardinality(UpTo(i)) = Cardinality(UpTo(j))
      BY <2>2
    <3> HIDE DEF UpTo
    <3>2. ~(i < j) /\ ~(j < i)
      BY <1>3, <3>1
    <3>3. QED
      BY <1>1, <3>2
  <2>3. QED
    BY <2>1, <2>2 DEF Injection, IsInjective
<1>5. place \in Surjection(I, 1..n)
  <2>1. IsFiniteSet(1..n) /\ Cardinality(1..n) = n
    BY <1>1, FS_Interval
  <2>2. QED
    BY <1>4, <2>1, FS_Injection
<1>6. \A k \in 1..n : At1(k) \in I /\ Cardinality(UpTo(At1(k))) = k
  <2> SUFFICES ASSUME NEW k \in 1..n PROVE \E i \in I : Cardinality(UpTo(i)) = k
    OBVIOUS
  <2>1. \E i \in I : place[i] = k
    BY <1>5 DEF Surjection
  <2>2. QED
    BY <2>1
<1>7. t = [k \in 1..n |-> s[At1(k)]]
  BY DEF Filtered
<1>8. \A i \in I : At1(Cardinality(UpTo(i))) = i
  BY <1>1, <1>2, <1>3, <1>6
<1> HIDE DEF n, UpTo, place, At1, t
<1>9. DOMAIN t = 1..n /\ \A k \in 1..n : t[k] = s[At1(k)] /\ At1(k) \in I
  BY <1>6, <1>7
<1>10. t \in Seq(S)
  BY <1>1, <1>6, <1>7
<1>11. \A i \in I : \E k \in DOMAIN t : t[k] = s[i]
  BY <1>2, <1>8, <1>9
<1>12. \A k, l \in DOMAIN t : k # l => At1(k) # At1(l)
  BY <1>6, <1>9
<1>13. QED
  BY <1>9, <1>10, <1>11, <1>12 DEF t

\* The same with the elements for their places.
LEMMA FilteredElements ==
  ASSUME NEW S, NEW s \in Seq(S), NEW I \in SUBSET DOMAIN s
  PROVE  /\ Filtered(s, I) \in Seq(S)
         /\ ToSet(Filtered(s, I)) = {s[i] : i \in I}
BY FilteredIs DEF ToSet

-----------------------------------------------------------------------------
(* Remembered devices: the inductive invariant.                             *)

\* A row is about one device: all its addresses are that device's, and so is
\* its id, which it has unless the file is old or the device reports none.
OfOneDevice(r) ==
  /\ \A h \in ToSet(r.paths) : At[h] = At[r.paths[1]]
  /\ r.dev \in {NONE, IdOf(r.paths[1])}

\* A device that has its id has no row of the same user left without it at an
\* address of its row.
Merged(rows) ==
  \A r, q \in ToSet(rows) :
    r.dev # NONE /\ q.dev = NONE /\ r.user = q.user => ~AtAny(q, ToSet(r.paths))

\* What holds of the file at all times, and of every copy a connection reads.
ListInv(rows) == (\A r \in ToSet(rows) : OfOneDevice(r)) /\ Merged(rows)

\* The device an account is about.
DeviceOf(a) == IF a[2] \in Devices THEN a[2] ELSE At[a[2]]

\* Every password is one of the device's that it is stored for.
SecretInv ==
  /\ \A l \in Logins : Owner[valid[l]] = l[2]
  /\ \A a \in Accounts : secrets[a] # NONE => Owner[secrets[a]] = DeviceOf(a)

\* remember_device works on its device, and what is left to merge is on its list.
RememberInv ==
  cmd.op \in {"merge", "unlist", "upsert"} =>
    /\ OfOneDevice(cmd.row)
    /\ cmd.row.dev = IdOf(cmd.row.paths[1])
    /\ cmd.login = <<cmd.row.user, At[cmd.row.paths[1]]>>
    /\ cmd.typed # NONE => Owner[cmd.typed] = cmd.login[2]
    /\ \A r \in ToSet(cmd.todo) : OfOneDevice(r) /\ Legacy(r, cmd.row.user, ToSet(cmd.row.paths))
    /\ \A r \in ToSet(list) :
         Legacy(r, cmd.row.user, ToSet(cmd.row.paths)) => r \in ToSet(cmd.todo)
    /\ cmd.op = "unlist" => cmd.todo # <<>>
    /\ cmd.op = "upsert" => cmd.todo = <<>>

\* forget_remembered_device deletes no password that is still promised.
ForgetInv ==
  cmd.op = "delete" =>
    /\ cmd.dev \in {NONE, IdOf(cmd.host)}
    /\ \A a \in ToSet(cmd.todo) : a \in Logins => kept[a] = NONE

AskInv ==
  ask.op = "listed" => ask.dev \in {NONE, IdOf(ask.host)} /\ ListInv(ask.rows)

\* A device with an id has the password last remembered for it.
KeptInv == \A l \in Logins : l[2] \notin Nameless /\ kept[l] # NONE => secrets[l] = kept[l]

MemoryIInv ==
  /\ TypeOK
  /\ Distinct(list) /\ ListInv(list)
  /\ SecretInv /\ RememberInv /\ ForgetInv /\ AskInv /\ KeptInv

-----------------------------------------------------------------------------
(* Remembered devices: types.                                               *)

RememberCmds ==
  [op : {"merge", "unlist", "upsert"}, row : Rows, typed : Passwords \cup {NONE},
   login : Logins, todo : Seq(Rows)]

ForgetCmds ==
  [op : {"delete"}, dev : Devices \cup {NONE}, host : Hosts, user : Users, todo : Seq(Accounts)]

\* A row has an account and a first address.
LEMMA RowFacts ==
  ASSUME NEW r \in Rows
  PROVE  /\ r.paths \in Seq(Hosts) /\ r.paths[1] \in Hosts /\ r.paths[1] \in ToSet(r.paths)
         /\ ToSet(r.paths) \subseteq Hosts
         /\ r.user \in Users /\ r.dev \in Devices \cup {NONE}
         /\ Account(r) \in Accounts
<1>1. r.paths \in Seq(Hosts) /\ r.paths # <<>> /\ r.user \in Users /\ r.dev \in Devices \cup {NONE}
  BY DEF Rows
<1>2. 1 \in DOMAIN r.paths /\ \A i \in DOMAIN r.paths : r.paths[i] \in Hosts
  BY <1>1
<1>3. r.paths[1] \in Hosts /\ r.paths[1] \in ToSet(r.paths) /\ ToSet(r.paths) \subseteq Hosts
  BY <1>2 DEF ToSet
<1>4. Account(r) \in Accounts
  BY <1>1, <1>3 DEF Account, Accounts
<1>5. QED
  BY <1>1, <1>3, <1>4

\* The entry host is among the addresses remembered.
LEMMA EntryIs ==
  ASSUME NEW ps \in Seq(Hosts), NEW h \in Hosts
  PROVE  WithEntry(ps, h) \in Seq(Hosts) \ {<<>>} /\ ToSet(WithEntry(ps, h)) = ToSet(ps) \cup {h}
<1> DEFINE t == Append(ps, h)
<1>1. CASE h \in ToSet(ps)
  <2>1. \E i \in DOMAIN ps : ps[i] = h
    BY <1>1 DEF ToSet
  <2>2. ps # <<>>
    BY <2>1
  <2>3. QED
    BY <1>1, <2>2 DEF WithEntry
<1>2. CASE h \notin ToSet(ps)
  <2>1. t \in Seq(Hosts) /\ Len(t) = Len(ps) + 1 /\ t[Len(ps) + 1] = h /\ DOMAIN t = 1..(Len(ps) + 1)
        /\ \A i \in 1..Len(ps) : t[i] = ps[i]
    OBVIOUS
  <2>2. DOMAIN ps = 1..Len(ps) /\ Len(ps) \in Nat
    OBVIOUS
  <2> HIDE DEF t
  <2>3. t # <<>>
    BY <2>1, <2>2
  <2>4. ToSet(t) = ToSet(ps) \cup {h}
    <3>1. DOMAIN t = DOMAIN ps \cup {Len(ps) + 1}
      BY <2>1, <2>2
    <3>2. QED
      BY <2>1, <2>2, <3>1 DEF ToSet
  <2>5. WithEntry(ps, h) = t
    BY <1>2 DEF WithEntry, t
  <2>6. QED
    BY <2>1, <2>3, <2>4, <2>5
<1>3. QED
  BY <1>1, <1>2

\* Which command is where.
LEMMA CmdFacts ==
  ASSUME TypeOK
  PROVE  /\ cmd.op \in {"merge", "unlist", "upsert"} => cmd \in RememberCmds
         /\ cmd.op = "delete" => cmd \in ForgetCmds
         /\ cmd = Idle => cmd.op = "none"
BY DEF TypeOK, Idle, RememberCmds, ForgetCmds

\* A file written by an earlier version is a list of rows.
LEMMA OldList ==
  ASSUME NEW old \in OldFiles, NEW l \in SetToSeqs({OldRow(o) : o \in old})
  PROVE  /\ l \in Seq(Rows)
         /\ \A i \in DOMAIN l : \E o \in old : l[i] = OldRow(o)
         /\ \A i, j \in DOMAIN l : l[i] = l[j] => i = j
<1> DEFINE S == {OldRow(o) : o \in old}
           f == [o \in old |-> OldRow(o)]
<1>1. old \subseteq Users \X Hosts /\ IsFiniteSet(old)
  BY RememberAssumption
<1>2. S \subseteq Rows
  <2> SUFFICES ASSUME NEW o \in old PROVE OldRow(o) \in Rows
    OBVIOUS
  <2>1. o[1] \in Users /\ o[2] \in Hosts
    BY <1>1
  <2>2. <<o[2]>> \in Seq(Hosts) /\ <<o[2]>> # <<>>
    BY <2>1
  <2>3. QED
    BY <2>1, <2>2 DEF OldRow, Row, Rows
<1>3. IsFiniteSet(S)
  <2>1. f \in Surjection(old, S)
    BY DEF Surjection
  <2>2. QED
    BY <1>1, <2>1, FS_Surjection
<1>4. Cardinality(S) \in Nat
  BY <1>3, FS_CardinalityType
<1>5. l \in [1..Cardinality(S) -> S] /\ \A i, j \in 1..Cardinality(S) : i # j => l[i] # l[j]
  BY DEF SetToSeqs
<1> HIDE DEF S
<1>6. l \in Seq(Rows)
  BY <1>2, <1>4, <1>5
<1>7. QED
  BY <1>5, <1>6 DEF S

\* At the start the types are as declared.
LEMMA RememberInitType == Init => TypeOK
<1> SUFFICES ASSUME Init PROVE TypeOK
  OBVIOUS
<1>1. list \in Seq(Rows)
  BY OldList DEF Init
<1>2. kept \in [Logins -> Passwords \cup {NONE}]
  BY DEF Init
<1>3. QED
  BY <1>1, <1>2 DEF Init, TypeOK

\* Every step keeps the types.
LEMMA RememberTypeStep == TypeOK /\ RememberInv /\ [Next]_vars => TypeOK'
<1> SUFFICES ASSUME TypeOK, RememberInv, [Next]_vars PROVE TypeOK'
  OBVIOUS
<1> USE DEF RememberCmds, ForgetCmds
<1>a. /\ valid \in [Logins -> Passwords] /\ list \in Seq(Rows)
      /\ secrets \in [Accounts -> Passwords \cup {NONE}]
      /\ cmd \in {Idle} \cup RememberCmds \cup ForgetCmds
      /\ ask \in {Silent} \cup [op : {"listed"}, dev : Devices \cup {NONE}, host : Hosts, user : Users,
                                rows : Seq(Rows)]
      /\ kept \in [Logins -> Passwords \cup {NONE}]
  BY DEF TypeOK
<1>b. ASSUME NEW I \in SUBSET DOMAIN list PROVE Filtered(list, I) \in Seq(Rows)
  BY <1>a, FilteredElements
<1>c. ASSUME NEW h \in Hosts
      PROVE  At[h] \in Devices /\ IdOf(h) \in Devices \cup {NONE} /\ NONE \notin Devices
  BY RememberAssumption DEF IdOf
<1>1. CASE UNCHANGED vars
  BY <1>1, <1>a DEF vars, TypeOK
<1>2. ASSUME NEW h \in Hosts, NEW u \in Users, NEW d \in {NONE, IdOf(h)}, Lists(d, h, u)
      PROVE  TypeOK'
  <2>1. ask' \in [op : {"listed"}, dev : Devices \cup {NONE}, host : Hosts, user : Users,
                  rows : Seq(Rows)]
    BY <1>2, <1>a, <1>c DEF Lists
  <2>2. QED
    BY <1>2, <1>a, <2>1 DEF Lists, TypeOK
<1>3. ASSUME NEW h \in Hosts, NEW u \in Users, NEW d \in {NONE, IdOf(h)}, Forget(d, h, u)
      PROVE  TypeOK'
  <2>1. AccountsOf(d, h, u) \in Seq(Accounts)
    <3> DEFINE rows == Forgettable(d, h, u)
    <3>1. rows \in Seq(Rows)
      BY <1>b DEF Forgettable
    <3>2. \A i \in 1..Len(rows) : Account(rows[i]) \in Accounts
      BY <3>1, RowFacts
    <3>3. <<u, IF d # NONE THEN d ELSE h>> \in Accounts
      BY <1>c DEF Accounts
    <3> HIDE DEF rows
    <3>4. QED
      BY <3>1, <3>2, <3>3 DEF AccountsOf, rows
  <2>2. cmd' \in ForgetCmds
    BY <1>3, <1>c, <2>1 DEF Forget
  <2>3. kept' \in [Logins -> Passwords \cup {NONE}]
    BY <1>3, <1>a DEF Forget
  <2>4. QED
    BY <1>3, <1>a, <2>2, <2>3 DEF Forget, TypeOK
<1>4. ASSUME NEW h \in Hosts, NEW u \in Users, NEW typed \in Passwords \cup {NONE}, Remember(h, u, typed)
      PROVE  TypeOK'
  <2>1. PICK ps \in Reports[At[h]] :
          cmd' = [op |-> "merge", row |-> Row(IdOf(h), u, WithEntry(ps, h)),
                  typed |-> typed, login |-> <<u, At[h]>>,
                  todo |-> Candidates(u, WithEntry(ps, h))]
    BY <1>4 DEF Remember
  <2>2. ps \in Seq(Hosts)
    BY <1>c, RememberAssumption
  <2>3. WithEntry(ps, h) \in Seq(Hosts) \ {<<>>}
    BY <2>2, EntryIs
  <2>4. Row(IdOf(h), u, WithEntry(ps, h)) \in Rows
    BY <1>c, <2>3 DEF Row, Rows
  <2>5. Candidates(u, WithEntry(ps, h)) \in Seq(Rows)
    BY <1>b DEF Candidates
  <2>6. cmd' \in RememberCmds
    BY <1>c, <2>1, <2>4, <2>5 DEF Logins
  <2>7. QED
    BY <1>4, <1>a, <2>6 DEF Remember, TypeOK
<1>5. CASE Answers
  BY <1>5, <1>a DEF Answers, TypeOK
<1>6. ASSUME NEW l \in Logins, ChangePassword(l) PROVE TypeOK'
  BY <1>6, <1>a DEF ChangePassword, TypeOK
<1>7. ASSUME NEW a, NEW p \in Passwords \cup {NONE}, Sets(a, p)
      PROVE  secrets' \in [Accounts -> Passwords \cup {NONE}]
  BY <1>7, <1>a DEF Sets
<1>8. ASSUME cmd.op \in {"merge", "unlist", "upsert"}
      PROVE  /\ cmd \in RememberCmds /\ Account(cmd.row) \in Accounts
             /\ cmd.todo # <<>> => Head(cmd.todo) \in Rows /\ Tail(cmd.todo) \in Seq(Rows)
                                   /\ Account(Head(cmd.todo)) \in Accounts
  <2>1. cmd \in RememberCmds
    BY <1>8, CmdFacts
  <2>2. cmd.todo # <<>> => Head(cmd.todo) \in Rows /\ Tail(cmd.todo) \in Seq(Rows)
    BY <2>1
  <2>3. QED
    BY <2>1, <2>2, RowFacts
<1>9. CASE MergeCopies
  <2>1. secrets[Account(Head(cmd.todo))] \in Passwords \cup {NONE}
    BY <1>8, <1>9, <1>a DEF MergeCopies
  <2>2. QED
    BY <1>7, <1>9, <1>a, <2>1 DEF MergeCopies, TypeOK
<1>10. CASE MergeDeletes
  <2>1. secrets' \in [Accounts -> Passwords \cup {NONE}]
    BY <1>7, <1>10 DEF MergeDeletes
  <2>2. cmd' \in RememberCmds
    BY <1>8, <1>10 DEF MergeDeletes
  <2>3. QED
    BY <1>10, <1>a, <2>1, <2>2 DEF MergeDeletes, TypeOK
<1>11. CASE MergeUnlists
  <2>1. list' \in Seq(Rows)
    BY <1>11, <1>b DEF MergeUnlists, Removed
  <2>2. cmd \in RememberCmds /\ Tail(cmd.todo) \in Seq(Rows)
    BY <1>8, <1>11 DEF MergeUnlists, RememberInv
  <2>3. cmd' \in RememberCmds
    BY <1>11, <2>2 DEF MergeUnlists
  <2>4. QED
    BY <1>11, <1>a, <2>1, <2>3 DEF MergeUnlists, TypeOK
<1>12. CASE WritesSecret
  <2>1. cmd \in RememberCmds
    BY <1>8, <1>12 DEF WritesSecret
  <2>2. secrets' \in [Accounts -> Passwords \cup {NONE}]
    BY <1>7, <1>12, <2>1 DEF WritesSecret
  <2>3. cmd' \in RememberCmds
    BY <1>12, <2>1 DEF WritesSecret
  <2>4. kept' \in [Logins -> Passwords \cup {NONE}]
    BY <1>12, <1>a, <2>1 DEF WritesSecret
  <2>5. QED
    BY <1>12, <1>a, <2>2, <2>3, <2>4 DEF WritesSecret, TypeOK
<1>13. CASE Upserts
  <2>1. cmd \in RememberCmds /\ Account(cmd.row) \in Accounts
    BY <1>8, <1>13 DEF Upserts
  <2>2. list' \in Seq(Rows)
    <3>1. Others(cmd.row) \in Seq(Rows) /\ <<cmd.row>> \in Seq(Rows)
      BY <1>b, <2>1 DEF Others
    <3>2. QED
      BY <1>13, <3>1 DEF Upserts, Upserted
  <2>3. kept' \in [Logins -> Passwords \cup {NONE}]
    BY <1>13, <1>a, <2>1 DEF Upserts
  <2>4. QED
    BY <1>13, <1>a, <2>2, <2>3 DEF Upserts, TypeOK
<1>14. CASE ForgetDeletes
  <2>1. cmd \in ForgetCmds /\ Tail(cmd.todo) \in Seq(Accounts)
    BY <1>14, CmdFacts DEF ForgetDeletes
  <2>2. cmd' \in ForgetCmds
    BY <1>14, <2>1 DEF ForgetDeletes
  <2>3. secrets' \in [Accounts -> Passwords \cup {NONE}]
    BY <1>7, <1>14 DEF ForgetDeletes
  <2>4. QED
    BY <1>14, <1>a, <2>2, <2>3 DEF ForgetDeletes, TypeOK
<1>15. CASE ForgetUnlists
  <2>1. list' \in Seq(Rows)
    BY <1>15, <1>b DEF ForgetUnlists, Removed
  <2>2. QED
    BY <1>15, <1>a, <2>1 DEF ForgetUnlists, TypeOK
<1>16. CASE Stops
  BY <1>16, <1>a DEF Stops, TypeOK
<1>17. QED
  BY <1>1, <1>2, <1>3, <1>4, <1>5, <1>6, <1>9, <1>10, <1>11, <1>12, <1>13, <1>14, <1>15, <1>16
     DEF Next, Commands

-----------------------------------------------------------------------------
(* Remembered devices: every step keeps the invariant.                      *)

\* Part of a list that is in order is in order.
LEMMA PartOfList ==
  ASSUME NEW rows \in Seq(Rows), NEW I \in SUBSET DOMAIN rows, Distinct(rows), ListInv(rows)
  PROVE  LET t == Filtered(rows, I)
         IN  t \in Seq(Rows) /\ ToSet(t) = {rows[i] : i \in I} /\ Distinct(t) /\ ListInv(t)
<1> DEFINE t == Filtered(rows, I)
<1>1. /\ t \in Seq(Rows) /\ ToSet(t) = {rows[i] : i \in I}
      /\ \A k, l \in DOMAIN t : k # l => \E i, j \in I : i # j /\ t[k] = rows[i] /\ t[l] = rows[j]
  BY FilteredIs, FilteredElements
<1>2. ToSet(t) \subseteq ToSet(rows)
  BY <1>1 DEF ToSet
<1> HIDE DEF t
<1>3. Distinct(t)
  BY <1>1 DEF Distinct
<1>4. ListInv(t)
  BY <1>2 DEF ListInv, Merged
<1>5. QED
  BY <1>1, <1>3, <1>4 DEF t

\* Two rows with an address in common are about the same device.
LEMMA SharedAddress ==
  ASSUME NEW q \in Rows, NEW r \in Rows, OfOneDevice(q), OfOneDevice(r), AtAny(q, ToSet(r.paths))
  PROVE  At[q.paths[1]] = At[r.paths[1]]
BY DEF OfOneDevice, AtAny

\* The account of a row is about the device of the row.
LEMMA AccountDevice ==
  ASSUME NEW r \in Rows, OfOneDevice(r)
  PROVE  /\ Account(r) = <<r.user, IF r.dev # NONE THEN At[r.paths[1]] ELSE r.paths[1]>>
         /\ r.dev = NONE => Account(r) \notin Logins
         /\ r.dev # NONE => At[r.paths[1]] \notin Nameless
         /\ DeviceOf(Account(r)) = At[r.paths[1]]
<1>1. r.paths[1] \in Hosts /\ r.paths[1] \notin Devices /\ r.dev \in Devices \cup {NONE}
      /\ At[r.paths[1]] \in Devices
  BY RowFacts, RememberAssumption
<1>2. r.dev # NONE => r.dev = At[r.paths[1]] /\ At[r.paths[1]] \notin Nameless
  BY DEF OfOneDevice, IdOf
<1>3. Account(r) = <<r.user, IF r.dev # NONE THEN At[r.paths[1]] ELSE r.paths[1]>>
  BY <1>2 DEF Account
<1>4. DeviceOf(Account(r)) = At[r.paths[1]]
  BY <1>1, <1>3 DEF DeviceOf
<1>5. r.dev = NONE => Account(r) \notin Logins
  BY <1>1, <1>3 DEF Logins
<1>6. QED
  BY <1>2, <1>3, <1>4, <1>5

\* remember_device: its row, and the first row left to merge.
LEMMA MergeFacts ==
  ASSUME TypeOK, RememberInv, cmd.op \in {"merge", "unlist", "upsert"}
  PROVE  /\ cmd \in RememberCmds /\ cmd.row \in Rows /\ OfOneDevice(cmd.row)
         /\ cmd.login \in Logins
         /\ cmd.todo # <<>> =>
              /\ Head(cmd.todo) \in Rows /\ OfOneDevice(Head(cmd.todo))
              /\ Legacy(Head(cmd.todo), cmd.row.user, ToSet(cmd.row.paths))
              /\ At[Head(cmd.todo).paths[1]] = At[cmd.row.paths[1]]
              /\ Tail(cmd.todo) \in Seq(Rows)
              /\ ToSet(Tail(cmd.todo)) \subseteq ToSet(cmd.todo)
              /\ \A r \in ToSet(cmd.todo) : r = Head(cmd.todo) \/ r \in ToSet(Tail(cmd.todo))
<1>1. cmd \in RememberCmds /\ OfOneDevice(cmd.row) /\ cmd.todo \in Seq(Rows)
  BY CmdFacts DEF RememberInv, RememberCmds
<1>2. cmd.row \in Rows /\ cmd.login \in Logins
  BY <1>1 DEF RememberCmds
<1>3. ASSUME cmd.todo # <<>>
      PROVE  /\ Head(cmd.todo) \in Rows /\ Head(cmd.todo) \in ToSet(cmd.todo)
             /\ Tail(cmd.todo) \in Seq(Rows)
             /\ ToSet(Tail(cmd.todo)) \subseteq ToSet(cmd.todo)
             /\ \A r \in ToSet(cmd.todo) : r = Head(cmd.todo) \/ r \in ToSet(Tail(cmd.todo))
  <2> DEFINE q == cmd.todo
  <2>1. Len(q) \in Nat /\ Len(q) > 0 /\ DOMAIN q = 1..Len(q) /\ Head(q) = q[1]
    BY <1>1, <1>3
  <2>2. /\ Tail(q) \in Seq(Rows) /\ DOMAIN Tail(q) = 1..(Len(q) - 1)
        /\ \A i \in 1..(Len(q) - 1) : Tail(q)[i] = q[i + 1]
    BY <1>1, <1>3
  <2>3. Head(q) \in Rows /\ Head(q) \in ToSet(q)
    BY <1>1, <2>1 DEF ToSet
  <2>4. ToSet(Tail(q)) \subseteq ToSet(q)
    BY <2>1, <2>2 DEF ToSet
  <2>5. ASSUME NEW i \in 1..Len(q), i # 1 PROVE q[i] \in ToSet(Tail(q))
    <3>1. i - 1 \in 1..(Len(q) - 1) /\ q[i] = Tail(q)[i - 1]
      BY <2>1, <2>2, <2>5
    <3>2. QED
      BY <2>2, <3>1 DEF ToSet
  <2>6. \A r \in ToSet(q) : r = Head(q) \/ r \in ToSet(Tail(q))
    BY <2>1, <2>5 DEF ToSet
  <2>7. QED
    BY <2>2, <2>3, <2>4, <2>6
<1>4. ASSUME cmd.todo # <<>>
      PROVE  /\ OfOneDevice(Head(cmd.todo))
             /\ Legacy(Head(cmd.todo), cmd.row.user, ToSet(cmd.row.paths))
  BY <1>3, <1>4 DEF RememberInv
<1>5. cmd.todo # <<>> => At[Head(cmd.todo).paths[1]] = At[cmd.row.paths[1]]
  BY <1>1, <1>2, <1>3, <1>4, SharedAddress DEF Legacy
<1>6. QED
  BY <1>1, <1>2, <1>3, <1>4, <1>5

\* The list keeps one row per device and per legacy address, each about one device.
LEMMA ListStep == MemoryIInv /\ [Next]_vars => Distinct(list') /\ ListInv(list')
<1> SUFFICES ASSUME MemoryIInv, [Next]_vars PROVE Distinct(list') /\ ListInv(list')
  OBVIOUS
<1>1. TypeOK /\ list \in Seq(Rows) /\ Distinct(list) /\ ListInv(list) /\ RememberInv
  BY DEF MemoryIInv, TypeOK
<1>2. CASE list' = list
  BY <1>1, <1>2
<1>3. CASE MergeUnlists
  BY <1>1, <1>3, PartOfList DEF MergeUnlists, Removed
<1>4. CASE ForgetUnlists
  BY <1>1, <1>4, PartOfList DEF ForgetUnlists, Removed
<1>5. CASE Upserts
  <2> DEFINE row == cmd.row
             t == Others(row)
  <2>1. row \in Rows /\ OfOneDevice(row) /\ row.dev = IdOf(row.paths[1])
    BY <1>1, <1>5, MergeFacts DEF Upserts, RememberInv
  <2>2. \A r \in ToSet(list) : ~Legacy(r, row.user, ToSet(row.paths))
    <3>1. cmd.todo = <<>>
      BY <1>1, <1>5 DEF Upserts, RememberInv
    <3>2. ToSet(cmd.todo) = {}
      BY <3>1 DEF ToSet
    <3>3. QED
      BY <1>1, <1>5, <3>2 DEF Upserts, RememberInv
  <2>3. /\ t \in Seq(Rows) /\ Distinct(t) /\ ListInv(t)
        /\ ToSet(t) = {list[i] : i \in {i \in DOMAIN list : ~SameDevice(list[i], row)}}
    BY <1>1, PartOfList DEF Others
  <2>4. \A r \in ToSet(t) : r \in Rows /\ r \in ToSet(list) /\ ~SameDevice(r, row) /\ OfOneDevice(r)
    <3> SUFFICES ASSUME NEW i \in DOMAIN list, ~SameDevice(list[i], row)
                 PROVE  list[i] \in Rows /\ list[i] \in ToSet(list) /\ OfOneDevice(list[i])
      BY <2>3
    <3>1. list[i] \in Rows /\ list[i] \in ToSet(list)
      BY <1>1 DEF ToSet
    <3>2. QED
      BY <1>1, <3>1 DEF ListInv
  <2>5. /\ list' = <<row>> \o t
    BY <1>5 DEF Upserts, Upserted
  <2> HIDE DEF t, row
  <2>6. /\ Len(list') = Len(t) + 1 /\ list'[1] = row
        /\ \A i \in DOMAIN list' : i # 1 => i - 1 \in DOMAIN t /\ list'[i] = t[i - 1]
        /\ DOMAIN list' = 1..(Len(t) + 1) /\ DOMAIN t = 1..Len(t) /\ Len(t) \in Nat
    BY <2>1, <2>3, <2>5
  <2>7. \A r \in ToSet(list') : r = row \/ r \in ToSet(t)
    BY <2>6 DEF ToSet
  <2>8. ASSUME NEW r \in ToSet(t), r.dev = row.dev, r.dev = NONE => Account(r) = Account(row)
        PROVE  FALSE
    <3>1. r \in Rows /\ ~SameDevice(r, row)
      BY <2>4
    <3>2. CASE r.dev # NONE
      BY <2>8, <3>1, <3>2 DEF SameDevice
    <3>3. CASE r.dev = NONE
      <4>1. r.user = row.user /\ r.paths[1] = row.paths[1]
        BY <2>8, <3>3 DEF Account
      <4>2. r.paths[1] \in ToSet(r.paths) /\ row.paths[1] \in ToSet(row.paths)
        BY <2>1, <3>1, RowFacts
      <4>3. Legacy(r, row.user, ToSet(row.paths))
        BY <3>3, <4>1, <4>2 DEF Legacy, AtAny
      <4>4. QED
        BY <2>8, <3>1, <3>3, <4>3 DEF SameDevice
    <3>4. QED
      BY <3>2, <3>3
  <2>9. Distinct(list')
    <3> SUFFICES ASSUME NEW i \in DOMAIN list', NEW j \in DOMAIN list',
                        list'[i].dev = list'[j].dev,
                        list'[i].dev = NONE => Account(list'[i]) = Account(list'[j])
                 PROVE  i = j
      BY DEF Distinct
    <3>1. CASE i = 1 /\ j # 1
      BY <2>6, <2>8, <3>1 DEF ToSet
    <3>2. CASE i # 1 /\ j = 1
      BY <2>6, <2>8, <3>2 DEF ToSet
    <3>3. CASE i # 1 /\ j # 1
      <4>1. i - 1 = j - 1
        BY <2>3, <2>6, <3>3 DEF Distinct
      <4>2. QED
        BY <2>6, <4>1
    <3>4. QED
      BY <3>1, <3>2, <3>3
  <2>10. ASSUME NEW r \in ToSet(list'), NEW q \in ToSet(list'),
                r.dev # NONE, q.dev = NONE, r.user = q.user, AtAny(q, ToSet(r.paths))
         PROVE  FALSE
    <3>1. CASE r = row /\ q \in ToSet(t)
      BY <2>2, <2>4, <2>10, <3>1 DEF Legacy
    <3>2. CASE r \in ToSet(t) /\ q = row
      <4>1. r \in Rows /\ OfOneDevice(r)
        BY <2>4, <3>2
      <4>2. At[q.paths[1]] = At[r.paths[1]]
        BY <2>1, <2>10, <3>2, <4>1, SharedAddress
      <4>3. At[r.paths[1]] \notin Nameless
        BY <2>10, <4>1, AccountDevice
      <4>4. row.dev # NONE
        <5>1. At[row.paths[1]] \in Devices
          BY <2>1, RowFacts, RememberAssumption
        <5>2. QED
          BY <2>1, <3>2, <4>2, <4>3, <5>1, RememberAssumption DEF IdOf
      <4>5. QED
        BY <2>10, <3>2, <4>4
    <3>3. CASE r \in ToSet(t) /\ q \in ToSet(t)
      BY <2>3, <2>10, <3>3 DEF ListInv, Merged
    <3>4. QED
      BY <2>7, <2>10, <3>1, <3>2, <3>3
  <2>11. ListInv(list')
    <3>1. \A r \in ToSet(list') : OfOneDevice(r)
      BY <2>1, <2>4, <2>7
    <3>2. Merged(list')
      BY <2>10 DEF Merged
    <3>3. QED
      BY <3>1, <3>2 DEF ListInv
  <2>12. QED
    BY <2>9, <2>11
<1>6. QED
  BY <1>2, <1>3, <1>4, <1>5 DEF Next, Commands, Lists, Forget, Remember, Answers, ChangePassword,
     MergeCopies, MergeDeletes, WritesSecret, ForgetDeletes, Stops, vars

\* Passwords stay with their devices.
LEMMA SecretStep == MemoryIInv /\ [Next]_vars => SecretInv'
<1> SUFFICES ASSUME MemoryIInv, [Next]_vars PROVE SecretInv'
  OBVIOUS
<1>1. /\ TypeOK /\ RememberInv /\ SecretInv
      /\ secrets \in [Accounts -> Passwords \cup {NONE}] /\ valid \in [Logins -> Passwords]
  BY DEF MemoryIInv, TypeOK
<1>2. CASE UNCHANGED <<valid, secrets>>
  BY <1>1, <1>2 DEF SecretInv
<1>3. ASSUME NEW l \in Logins, ChangePassword(l) PROVE SecretInv'
  BY <1>1, <1>3 DEF SecretInv, ChangePassword
<1>4. ASSUME NEW a, NEW p \in Passwords \cup {NONE}, Sets(a, p), valid' = valid,
             a \in Accounts /\ p # NONE => Owner[p] = DeviceOf(a)
      PROVE  SecretInv'
  BY <1>1, <1>4 DEF SecretInv, Sets
<1>5. CASE MergeCopies
  <2> DEFINE q == Head(cmd.todo)
  <2>1. /\ cmd.row \in Rows /\ OfOneDevice(cmd.row) /\ q \in Rows /\ OfOneDevice(q)
        /\ At[q.paths[1]] = At[cmd.row.paths[1]]
    BY <1>1, <1>5, MergeFacts DEF MergeCopies
  <2> HIDE DEF q
  <2>2. Account(q) \in Accounts /\ DeviceOf(Account(q)) = DeviceOf(Account(cmd.row))
    BY <2>1, RowFacts, AccountDevice
  <2>3. /\ Sets(Account(cmd.row), secrets[Account(q)]) /\ valid' = valid
    BY <1>5 DEF MergeCopies, q
  <2>4. secrets[Account(q)] # NONE => Owner[secrets[Account(q)]] = DeviceOf(Account(q))
    BY <1>1, <2>2 DEF SecretInv
  <2>5. secrets[Account(q)] \in Passwords \cup {NONE}
    BY <1>1, <2>2
  <2>6. QED
    BY <1>4, <2>2, <2>3, <2>4, <2>5
<1>6. CASE MergeDeletes
  BY <1>4, <1>6 DEF MergeDeletes
<1>7. CASE WritesSecret
  <2>1. /\ cmd.row \in Rows /\ OfOneDevice(cmd.row) /\ cmd \in RememberCmds
    BY <1>1, <1>7, MergeFacts DEF WritesSecret
  <2>2. Owner[cmd.typed] = At[cmd.row.paths[1]]
    BY <1>1, <1>7 DEF WritesSecret, RememberInv
  <2>3. Owner[cmd.typed] = DeviceOf(Account(cmd.row))
    BY <2>1, <2>2, AccountDevice
  <2>4. Sets(Account(cmd.row), cmd.typed) /\ valid' = valid /\ cmd.typed \in Passwords \cup {NONE}
    BY <1>7, <2>1 DEF WritesSecret, RememberCmds
  <2>5. QED
    BY <1>4, <2>3, <2>4
<1>8. CASE ForgetDeletes
  BY <1>4, <1>8 DEF ForgetDeletes
<1>9. QED
  BY <1>2, <1>3, <1>5, <1>6, <1>7, <1>8 DEF Next, Commands, Lists, Forget, Remember, Answers,
     MergeUnlists, Upserts, ForgetUnlists, Stops, vars

\* A connection keeps the list it has read.
LEMMA AskStep == MemoryIInv /\ [Next]_vars => AskInv'
<1> SUFFICES ASSUME MemoryIInv, [Next]_vars PROVE AskInv'
  OBVIOUS
<1>1. AskInv /\ ListInv(list)
  BY DEF MemoryIInv
<1>2. CASE ask' = ask
  BY <1>1, <1>2 DEF AskInv
<1>3. ASSUME NEW h \in Hosts, NEW u \in Users, NEW d \in {NONE, IdOf(h)}, Lists(d, h, u)
      PROVE  AskInv'
  BY <1>1, <1>3 DEF AskInv, Lists
<1>4. CASE Answers
  BY <1>4 DEF Answers, AskInv, Silent
<1>5. QED
  BY <1>2, <1>3, <1>4 DEF Next, Commands, Forget, Remember, ChangePassword, MergeCopies, MergeDeletes,
     MergeUnlists, WritesSecret, Upserts, ForgetDeletes, ForgetUnlists, Stops, vars

\* remember_device has on its list whatever is to be merged.
LEMMA RememberStep == MemoryIInv /\ [Next]_vars => RememberInv'
<1> SUFFICES ASSUME MemoryIInv, [Next]_vars PROVE RememberInv'
  OBVIOUS
<1>1. /\ TypeOK /\ RememberInv /\ SecretInv /\ ListInv(list) /\ Distinct(list)
      /\ list \in Seq(Rows)
  BY DEF MemoryIInv, TypeOK
<1>2. CASE UNCHANGED <<list, cmd>>
  BY <1>1, <1>2 DEF RememberInv
<1>3. ASSUME cmd'.op \notin {"merge", "unlist", "upsert"} PROVE RememberInv'
  BY <1>3 DEF RememberInv
<1>4. ASSUME NEW h \in Hosts, NEW u \in Users, NEW typed \in Passwords \cup {NONE}, Remember(h, u, typed)
      PROVE  RememberInv'
  <2>1. PICK ps \in Reports[At[h]] :
          cmd' = [op |-> "merge", row |-> Row(IdOf(h), u, WithEntry(ps, h)),
                  typed |-> typed, login |-> <<u, At[h]>>,
                  todo |-> Candidates(u, WithEntry(ps, h))]
    BY <1>4 DEF Remember
  <2> DEFINE qs == WithEntry(ps, h)
             todo == Candidates(u, qs)
  <2>2. At[h] \in Devices /\ ps \in Seq(Hosts) /\ \A g \in ToSet(ps) : At[g] = At[h]
    BY RememberAssumption
  <2>a. qs \in Seq(Hosts) \ {<<>>} /\ ToSet(qs) = ToSet(ps) \cup {h}
    BY <2>2, EntryIs
  <2>3. qs \in Seq(Hosts) \ {<<>>} /\ \A g \in ToSet(qs) : At[g] = At[h]
    <3> HIDE DEF qs
    <3>1. QED
      BY <2>2, <2>a
  <2>4. todo \in Seq(Rows) /\ ToSet(todo) = {list[i] : i \in {i \in DOMAIN list : Legacy(list[i], u, ToSet(qs))}}
    BY <1>1, FilteredElements DEF Candidates
  <2>5. /\ \A r \in ToSet(todo) : OfOneDevice(r) /\ Legacy(r, u, ToSet(qs))
        /\ \A r \in ToSet(list) : Legacy(r, u, ToSet(qs)) => r \in ToSet(todo)
    <3>1. \A i \in DOMAIN list : list[i] \in ToSet(list)
      BY DEF ToSet
    <3>2. \A r \in ToSet(list) : \E i \in DOMAIN list : r = list[i]
      BY DEF ToSet
    <3> HIDE DEF todo, qs
    <3>3. QED
      BY <1>1, <2>4, <3>1, <3>2 DEF ListInv
  <2>6. typed # NONE => Owner[typed] = At[h]
    <3>1. typed # NONE => typed = valid[<<u, At[h]>>]
      BY <1>4 DEF Remember
    <3>2. <<u, At[h]>> \in Logins /\ <<u, At[h]>>[2] = At[h]
      BY <2>2 DEF Logins
    <3>3. QED
      BY <1>1, <3>1, <3>2 DEF SecretInv
  <2>7. list' = list
    BY <1>4 DEF Remember
  <2>8. At[qs[1]] = At[h] /\ IdOf(qs[1]) = IdOf(h)
    <3>1. 1 \in DOMAIN qs /\ qs[1] \in ToSet(qs)
      BY <2>3 DEF ToSet
    <3>2. QED
      BY <2>3, <3>1 DEF IdOf
  <2> HIDE DEF qs, todo
  <2>9. /\ cmd'.op = "merge" /\ cmd'.typed = typed /\ cmd'.login = <<u, At[h]>> /\ cmd'.todo = todo
        /\ cmd'.row = [dev |-> IdOf(h), user |-> u, paths |-> qs]
    BY <2>1 DEF Row, qs, todo
  <2>10. OfOneDevice(cmd'.row)
    BY <2>3, <2>8, <2>9 DEF OfOneDevice
  <2>11. QED
    BY <2>5, <2>6, <2>7, <2>8, <2>9, <2>10 DEF RememberInv
<1>5. CASE MergeDeletes
  <2>1. cmd \in RememberCmds
    BY <1>1, <1>5, MergeFacts DEF MergeDeletes
  <2>2. /\ cmd'.op = "unlist" /\ cmd'.row = cmd.row /\ cmd'.typed = cmd.typed
        /\ cmd'.login = cmd.login /\ cmd'.todo = cmd.todo /\ cmd.todo # <<>> /\ list' = list
        /\ cmd.op = "merge"
    BY <1>5, <2>1 DEF MergeDeletes, RememberCmds
  <2>3. QED
    BY <1>1, <2>2 DEF RememberInv
<1>6. CASE MergeUnlists
  <2> DEFINE q == Head(cmd.todo)
  <2>1. /\ cmd \in RememberCmds /\ q \in Rows
        /\ Legacy(q, cmd.row.user, ToSet(cmd.row.paths))
        /\ ToSet(Tail(cmd.todo)) \subseteq ToSet(cmd.todo)
        /\ \A r \in ToSet(cmd.todo) : r = q \/ r \in ToSet(Tail(cmd.todo))
    BY <1>1, <1>6, MergeFacts DEF MergeUnlists, RememberInv
  <2> HIDE DEF q
  <2>2. /\ cmd'.op = "merge" /\ cmd'.row = cmd.row /\ cmd'.typed = cmd.typed
        /\ cmd'.login = cmd.login /\ cmd'.todo = Tail(cmd.todo) /\ cmd.op = "unlist"
    BY <1>6, <2>1 DEF MergeUnlists, RememberCmds
  <2>3. list' = Removed(NONE, q.paths[1], cmd.row.user)
    BY <1>6 DEF MergeUnlists, q
  <2>4. ToSet(list') = {list[i] : i \in {i \in DOMAIN list : ~Matched(list[i], NONE, q.paths[1], cmd.row.user)}}
    BY <1>1, <2>3, FilteredElements DEF Removed
  <2>5. q.paths[1] \in ToSet(q.paths)
    BY <2>1, RowFacts
  <2>6. Matched(q, NONE, q.paths[1], cmd.row.user)
    BY <2>1, <2>5 DEF Matched, Legacy, AtAny
  <2>7. \A r \in ToSet(list') : r \in ToSet(list) /\ r # q
    BY <2>4, <2>6 DEF ToSet
  <2>8. QED
    BY <1>1, <2>1, <2>2, <2>7 DEF RememberInv
<1>7. CASE WritesSecret
  <2>1. cmd \in RememberCmds
    BY <1>1, <1>7, MergeFacts DEF WritesSecret
  <2>2. /\ cmd'.op = "upsert" /\ cmd'.row = cmd.row /\ cmd'.typed = cmd.typed
        /\ cmd'.login = cmd.login /\ cmd'.todo = cmd.todo /\ cmd.todo = <<>> /\ list' = list
        /\ cmd.op = "merge"
    BY <1>7, <2>1 DEF WritesSecret, RememberCmds
  <2>3. QED
    BY <1>1, <2>2 DEF RememberInv
<1>8. CASE Upserts \/ ForgetUnlists \/ Stops
  BY <1>3, <1>8 DEF Upserts, ForgetUnlists, Stops, Idle
<1>9. ASSUME NEW h, NEW u, NEW d, Forget(d, h, u) PROVE RememberInv'
  BY <1>3, <1>9 DEF Forget
<1>10. CASE ForgetDeletes
  <2>1. cmd \in ForgetCmds
    BY <1>1, <1>10, CmdFacts DEF ForgetDeletes
  <2>2. cmd'.op = "delete"
    BY <1>10, <2>1 DEF ForgetDeletes, ForgetCmds
  <2>3. QED
    BY <1>3, <2>2
<1>11. QED
  BY <1>2, <1>4, <1>5, <1>6, <1>7, <1>8, <1>9, <1>10 DEF Next, Commands, Lists, Answers, ChangePassword,
     MergeCopies, vars

\* A forget has taken back what it deletes.
LEMMA ForgetStep == MemoryIInv /\ [Next]_vars => ForgetInv'
<1> SUFFICES ASSUME MemoryIInv, [Next]_vars PROVE ForgetInv'
  OBVIOUS
<1>1. /\ TypeOK /\ ForgetInv /\ ListInv(list) /\ list \in Seq(Rows)
      /\ kept \in [Logins -> Passwords \cup {NONE}]
  BY DEF MemoryIInv, TypeOK
<1>2. CASE UNCHANGED <<cmd, kept>>
  BY <1>1, <1>2 DEF ForgetInv
<1>3. ASSUME cmd'.op # "delete" PROVE ForgetInv'
  BY <1>3 DEF ForgetInv
<1>4. ASSUME NEW h \in Hosts, NEW u \in Users, NEW d \in {NONE, IdOf(h)}, Forget(d, h, u)
      PROVE  ForgetInv'
  <2> DEFINE rows == Forgettable(d, h, u)
             todo == AccountsOf(d, h, u)
  <2>1. /\ At[h] \in Devices /\ h \notin Devices /\ NONE \notin Devices /\ <<u, At[h]>> \in Logins
    BY RememberAssumption DEF Logins
  <2>2. d # NONE => d = At[h] /\ kept'[<<u, d>>] = NONE
    BY <1>1, <1>4, <2>1 DEF Forget, IdOf
  <2>3. /\ rows \in Seq(Rows)
        /\ ToSet(rows) = {list[i] : i \in {i \in DOMAIN list : list[i].user = u /\ Matched(list[i], d, h, u)}}
    BY <1>1, FilteredElements DEF Forgettable
  <2>4. ASSUME NEW r \in ToSet(rows), Account(r) \in Logins PROVE kept'[Account(r)] = NONE
    <3>1. PICK i \in DOMAIN list : r = list[i] /\ list[i].user = u /\ Matched(list[i], d, h, u)
      BY <2>3
    <3>2. r \in Rows /\ r \in ToSet(list)
      BY <1>1, <3>1 DEF ToSet
    <3>3. OfOneDevice(r)
      BY <1>1, <3>2 DEF ListInv
    <3>4. r.dev # NONE
      BY <2>4, <3>2, <3>3, AccountDevice
    <3>5. r.dev = d /\ d # NONE
      BY <3>1, <3>4 DEF Matched, Legacy
    <3>6. Account(r) = <<u, d>>
      BY <3>1, <3>4, <3>5 DEF Account
    <3>7. QED
      BY <2>2, <3>5, <3>6
  <2>5. <<u, h>> \notin Logins
    BY <2>1 DEF Logins
  <2>6. ASSUME NEW a \in ToSet(todo), a \in Logins PROVE kept'[a] = NONE
    <3>1. CASE rows = <<>>
      <4>1. todo = <<<<u, IF d # NONE THEN d ELSE h>>>>
        BY <3>1 DEF AccountsOf
      <4>2. a = <<u, IF d # NONE THEN d ELSE h>>
        BY <2>6, <4>1 DEF ToSet
      <4>3. QED
        BY <2>2, <2>5, <2>6, <4>2
    <3>2. CASE rows # <<>>
      <4>1. todo = [i \in 1..Len(rows) |-> Account(rows[i])]
        BY <3>2 DEF AccountsOf
      <4> HIDE DEF rows, todo
      <4>2. PICK i \in 1..Len(rows) : a = Account(rows[i])
        BY <4>1, <2>6 DEF ToSet
      <4>3. rows[i] \in ToSet(rows)
        BY <2>3 DEF ToSet
      <4>4. QED
        BY <2>4, <2>6, <4>2, <4>3
    <3>3. QED
      BY <3>1, <3>2
  <2>7. cmd'.dev = d /\ cmd'.host = h /\ cmd'.todo = todo
    BY <1>4 DEF Forget
  <2>8. QED
    BY <2>6, <2>7 DEF ForgetInv
<1>5. CASE ForgetDeletes
  <2>1. cmd \in ForgetCmds /\ cmd.todo \in Seq(Accounts)
    BY <1>1, <1>5, CmdFacts DEF ForgetDeletes, ForgetCmds
  <2>2. /\ cmd'.dev = cmd.dev /\ cmd'.host = cmd.host /\ cmd'.todo = Tail(cmd.todo) /\ kept' = kept
        /\ cmd.op = "delete" /\ cmd.todo # <<>>
    BY <1>5, <2>1 DEF ForgetDeletes, ForgetCmds
  <2>3. \A i \in DOMAIN Tail(cmd.todo) : i + 1 \in DOMAIN cmd.todo /\ Tail(cmd.todo)[i] = cmd.todo[i + 1]
    BY <2>1, <2>2
  <2>4. ToSet(Tail(cmd.todo)) \subseteq ToSet(cmd.todo)
    BY <2>3 DEF ToSet
  <2>5. QED
    BY <1>1, <2>2, <2>4 DEF ForgetInv
<1>6. CASE MergeDeletes \/ MergeUnlists \/ WritesSecret
  <2>1. cmd \in RememberCmds
    BY <1>1, <1>6, CmdFacts DEF MergeDeletes, MergeUnlists, WritesSecret
  <2>2. cmd'.op \in {"merge", "unlist", "upsert"}
    BY <1>6, <2>1 DEF MergeDeletes, MergeUnlists, WritesSecret, RememberCmds
  <2>3. QED
    BY <1>3, <2>2
<1>7. CASE Upserts \/ ForgetUnlists \/ Stops
  BY <1>3, <1>7 DEF Upserts, ForgetUnlists, Stops, Idle
<1>8. ASSUME NEW h, NEW u, NEW typed, Remember(h, u, typed) PROVE ForgetInv'
  BY <1>3, <1>8 DEF Remember
<1>9. QED
  BY <1>2, <1>4, <1>5, <1>6, <1>7, <1>8 DEF Next, Commands, Lists, Answers, ChangePassword,
     MergeCopies, vars

\* What was last remembered for a device with an id is what is stored for it.
LEMMA KeptStep == MemoryIInv /\ [Next]_vars => KeptInv'
<1> SUFFICES ASSUME MemoryIInv, [Next]_vars PROVE KeptInv'
  OBVIOUS
<1>1. /\ TypeOK /\ ForgetInv /\ RememberInv /\ KeptInv
      /\ kept \in [Logins -> Passwords \cup {NONE}] /\ secrets \in [Accounts -> Passwords \cup {NONE}]
      /\ Logins \subseteq Accounts /\ NONE \notin Devices
  BY RememberAssumption DEF MemoryIInv, TypeOK, Logins, Accounts
<1>2. CASE UNCHANGED <<secrets, kept>>
  BY <1>1, <1>2 DEF KeptInv
<1>3. ASSUME NEW a, NEW p, Sets(a, p), kept' = kept,
             a \in Logins /\ a[2] \notin Nameless => kept[a] = NONE
      PROVE  KeptInv'
  BY <1>1, <1>3 DEF KeptInv, Sets
<1>4. CASE MergeCopies
  <2>1. secrets[Account(cmd.row)] = NONE
    BY <1>4 DEF MergeCopies, NeedsCopy
  <2>2. \A l \in Logins : l = Account(cmd.row) /\ l[2] \notin Nameless => kept[l] = NONE
    BY <1>1, <2>1 DEF KeptInv
  <2>3. QED
    BY <1>3, <1>4, <2>2 DEF MergeCopies
<1>5. CASE MergeDeletes
  <2>1. /\ Head(cmd.todo) \in Rows /\ OfOneDevice(Head(cmd.todo)) /\ Head(cmd.todo).dev = NONE
    BY <1>1, <1>5, MergeFacts DEF MergeDeletes, Legacy
  <2>2. Account(Head(cmd.todo)) \notin Logins
    BY <2>1, AccountDevice
  <2>3. QED
    BY <1>3, <1>5, <2>2 DEF MergeDeletes
<1>6. ASSUME cmd.op \in {"merge", "upsert"}
      PROVE  /\ cmd \in RememberCmds /\ cmd.login \in Logins /\ Account(cmd.row) \in Accounts
             /\ cmd.login[2] \notin Nameless => Account(cmd.row) = cmd.login
             /\ Account(cmd.row) \in Logins => Account(cmd.row) = cmd.login
             /\ cmd.login = <<cmd.row.user, cmd.login[2]>>
  <2>1. /\ cmd.row \in Rows /\ OfOneDevice(cmd.row) /\ cmd \in RememberCmds /\ cmd.login \in Logins
    BY <1>1, <1>6, MergeFacts
  <2>2. /\ cmd.row.dev = IdOf(cmd.row.paths[1])
        /\ cmd.login = <<cmd.row.user, At[cmd.row.paths[1]]>>
    BY <1>1, <1>6 DEF RememberInv
  <2>3. At[cmd.row.paths[1]] \in Devices
    BY <2>1, RowFacts, RememberAssumption
  <2>4. cmd.login[2] \notin Nameless => cmd.row.dev # NONE
    BY <1>1, <2>2, <2>3 DEF IdOf
  <2>5. cmd.row.dev # NONE => Account(cmd.row) = cmd.login
    BY <2>1, <2>2, AccountDevice
  <2>6. Account(cmd.row) \in Logins => cmd.row.dev # NONE
    BY <2>1, AccountDevice
  <2>7. QED
    BY <2>1, <2>2, <2>4, <2>5, <2>6, RowFacts
<1>7. CASE WritesSecret
  <2>1. /\ cmd \in RememberCmds /\ cmd.login \in Logins /\ Account(cmd.row) \in Accounts
        /\ cmd.login[2] \notin Nameless => Account(cmd.row) = cmd.login
        /\ Account(cmd.row) \in Logins => Account(cmd.row) = cmd.login
    BY <1>6, <1>7 DEF WritesSecret
  <2>2. /\ secrets' = [secrets EXCEPT ![Account(cmd.row)] = cmd.typed]
        /\ kept' = IF kept[cmd.login] # NONE THEN [kept EXCEPT ![cmd.login] = cmd.typed] ELSE kept
    BY <1>7 DEF WritesSecret, Sets
  <2> SUFFICES ASSUME NEW l \in Logins, l[2] \notin Nameless, kept'[l] # NONE
               PROVE  secrets'[l] = kept'[l]
    BY DEF KeptInv
  <2>3. CASE l = cmd.login
    <3>1. secrets'[l] = cmd.typed
      BY <1>1, <2>1, <2>2, <2>3
    <3>2. kept[l] # NONE
      BY <1>1, <2>2, <2>3
    <3>3. kept'[l] = cmd.typed
      BY <1>1, <2>1, <2>2, <2>3, <3>2
    <3>4. QED
      BY <3>1, <3>3
  <2>4. CASE l # cmd.login
    <3>1. l # Account(cmd.row)
      BY <2>1, <2>4
    <3>2. secrets'[l] = secrets[l] /\ kept'[l] = kept[l]
      BY <1>1, <2>1, <2>2, <2>4, <3>1
    <3>3. QED
      BY <1>1, <3>2 DEF KeptInv
  <2>5. QED
    BY <2>3, <2>4
<1>8. CASE Upserts
  <2>1. /\ cmd.login \in Logins
        /\ cmd.login[2] \notin Nameless => Account(cmd.row) = cmd.login
    BY <1>6, <1>8 DEF Upserts
  <2>2. /\ secrets' = secrets
        /\ kept' = [l \in Logins |->
                      IF l = cmd.login THEN secrets[Account(cmd.row)]
                      ELSE IF l[2] = cmd.login[2] THEN NONE ELSE kept[l]]
    BY <1>8 DEF Upserts
  <2> SUFFICES ASSUME NEW l \in Logins, l[2] \notin Nameless, kept'[l] # NONE
               PROVE  secrets[l] = kept'[l]
    BY <2>2 DEF KeptInv
  <2>3. CASE l = cmd.login
    BY <2>1, <2>2, <2>3
  <2>4. CASE l # cmd.login
    BY <1>1, <2>2, <2>4 DEF KeptInv
  <2>5. QED
    BY <2>3, <2>4
<1>9. ASSUME NEW h \in Hosts, NEW u \in Users, NEW d, Forget(d, h, u) PROVE KeptInv'
  <2>1. secrets' = secrets /\ \A l \in Logins : kept'[l] \in {NONE, kept[l]}
    BY <1>1, <1>9 DEF Forget
  <2>2. QED
    BY <1>1, <2>1 DEF KeptInv
<1>10. CASE ForgetDeletes
  <2>1. cmd \in ForgetCmds /\ cmd.todo \in Seq(Accounts) /\ cmd.todo # <<>>
    BY <1>1, <1>10, CmdFacts DEF ForgetDeletes, ForgetCmds
  <2>2. Head(cmd.todo) \in ToSet(cmd.todo)
    <3>1. 1 \in DOMAIN cmd.todo /\ Head(cmd.todo) = cmd.todo[1]
      BY <2>1
    <3>2. QED
      BY <3>1 DEF ToSet
  <2>3. Head(cmd.todo) \in Logins => kept[Head(cmd.todo)] = NONE
    BY <1>1, <1>10, <2>2 DEF ForgetInv, ForgetDeletes
  <2>4. QED
    BY <1>3, <1>10, <2>3 DEF ForgetDeletes
<1>11. QED
  BY <1>2, <1>4, <1>5, <1>7, <1>8, <1>9, <1>10 DEF Next, Commands, Lists, Remember, Answers,
     ChangePassword, MergeUnlists, ForgetUnlists, Stops, vars

\* The start.
LEMMA MemoryStart == Init => MemoryIInv
<1> SUFFICES ASSUME Init PROVE MemoryIInv
  OBVIOUS
<1>1. TypeOK
  BY RememberInitType
<1>2. PICK old \in OldFiles :
        /\ list \in SetToSeqs({OldRow(o) : o \in old})
        /\ \A a \in Accounts : secrets[a] # NONE => a \in old /\ Owner[secrets[a]] = At[a[2]]
  BY DEF Init
<1>3. /\ list \in Seq(Rows)
      /\ \A i \in DOMAIN list : \E o \in old : list[i] = OldRow(o)
      /\ \A i, j \in DOMAIN list : list[i] = list[j] => i = j
  BY <1>2, OldList
<1>4. old \subseteq Users \X Hosts
  BY RememberAssumption
<1>5. \A o \in old :
        /\ OldRow(o).dev = NONE /\ OldRow(o).user = o[1] /\ OldRow(o).paths = <<o[2]>>
        /\ OldRow(o).paths[1] = o[2]
        /\ Account(OldRow(o)) = o /\ ToSet(OldRow(o).paths) = {o[2]}
  BY <1>4 DEF OldRow, Row, Account, ToSet
<1>6. \A i, j \in DOMAIN list : Account(list[i]) = Account(list[j]) => list[i] = list[j]
  BY <1>3, <1>5
<1>7. Distinct(list)
  <2>1. \A i \in DOMAIN list : list[i].dev = NONE
    BY <1>3, <1>5
  <2>2. QED
    BY <1>3, <1>6, <2>1 DEF Distinct
<1>8. \A r \in ToSet(list) : r.dev = NONE /\ OfOneDevice(r)
  <2>1. \A r \in ToSet(list) : \E o \in old : r = OldRow(o)
    BY <1>3 DEF ToSet
  <2>2. QED
    BY <1>5, <2>1 DEF OfOneDevice
<1>9. ListInv(list)
  BY <1>8 DEF ListInv, Merged
<1>10. SecretInv
  <2>1. ASSUME NEW a \in old PROVE DeviceOf(a) = At[a[2]]
    BY <1>4, RememberAssumption DEF DeviceOf
  <2>2. QED
    BY <1>2, <2>1 DEF Init, SecretInv
<1>11. RememberInv /\ ForgetInv /\ AskInv /\ KeptInv
  BY DEF Init, Idle, Silent, RememberInv, ForgetInv, AskInv, KeptInv
<1>12. QED
  BY <1>1, <1>7, <1>9, <1>10, <1>11 DEF MemoryIInv

\* The invariant is inductive.
LEMMA MemoryStep == MemoryIInv /\ [Next]_vars => MemoryIInv'
<1>1. MemoryIInv => TypeOK /\ RememberInv
  BY DEF MemoryIInv
<1>2. QED
  BY <1>1, RememberTypeStep, ListStep, SecretStep, RememberStep, ForgetStep, AskStep, KeptStep
     DEF MemoryIInv

-----------------------------------------------------------------------------
(* Remembered devices: what a blank password is answered with.              *)

\* The password of the first row found.
LEMMA SecretAtIs ==
  ASSUME NEW rows \in Seq(Rows), NEW found \in SUBSET DOMAIN rows, found # {}
  PROVE  \E i \in found : SecretAt(rows, found) = secrets[Account(rows[i])]
<1>1. \E i \in found : First(rows, found) = rows[i]
  BY FirstIs
<1>2. QED
  BY <1>1 DEF SecretAt

\* The row of the id answers if its password is there, and if not a row of the
\* address, if there is one.
LEMMA ResolvedIs ==
  ASSUME NEW rows \in Seq(Rows), NEW d, NEW h, NEW u
  PROVE  \/ /\ d # NONE /\ \E r \in ToSet(rows) : r.dev = d /\ r.user = u
            /\ secrets[<<u, d>>] # NONE
            /\ Resolved(rows, d, h, u) = secrets[<<u, d>>]
         \/ /\ \/ d = NONE
               \/ secrets[<<u, d>>] = NONE
               \/ \A r \in ToSet(rows) : ~(r.dev = d /\ r.user = u)
            /\ \/ \E q \in ToSet(rows) : /\ q.user = u /\ h \in ToSet(q.paths)
                                         /\ Resolved(rows, d, h, u) = secrets[Account(q)]
               \/ /\ Resolved(rows, d, h, u) = NONE
                  /\ \A q \in ToSet(rows) : ~(q.user = u /\ h \in ToSet(q.paths))
<1> DEFINE exact == {i \in DOMAIN rows : d # NONE /\ rows[i].dev = d /\ rows[i].user = u}
           near == ByHost(rows, h, u)
           a == Resolved(rows, d, h, u)
<1>1. a = IF SecretAt(rows, exact) # NONE THEN SecretAt(rows, exact) ELSE SecretAt(rows, near)
  BY DEF Resolved
<1>2. exact = {} => SecretAt(rows, exact) = NONE
  BY DEF SecretAt
<1>3. exact # {} => SecretAt(rows, exact) = secrets[<<u, d>>]
  <2> SUFFICES ASSUME exact # {} PROVE SecretAt(rows, exact) = secrets[<<u, d>>]
    OBVIOUS
  <2>1. PICK i \in exact : SecretAt(rows, exact) = secrets[Account(rows[i])]
    BY SecretAtIs
  <2>2. Account(rows[i]) = <<u, d>>
    BY <2>1 DEF Account
  <2>3. QED
    BY <2>1, <2>2
<1>4. exact # {} <=> d # NONE /\ \E r \in ToSet(rows) : r.dev = d /\ r.user = u
  BY DEF ToSet
<1>5. near = {} => /\ SecretAt(rows, near) = NONE
                   /\ \A q \in ToSet(rows) : ~(q.user = u /\ h \in ToSet(q.paths))
  BY DEF SecretAt, ByHost, ToSet
<1>6. near # {} => \E q \in ToSet(rows) : /\ q.user = u /\ h \in ToSet(q.paths)
                                          /\ SecretAt(rows, near) = secrets[Account(q)]
  <2> SUFFICES ASSUME near # {}
               PROVE  \E q \in ToSet(rows) : /\ q.user = u /\ h \in ToSet(q.paths)
                                             /\ SecretAt(rows, near) = secrets[Account(q)]
    OBVIOUS
  <2>1. near \in SUBSET DOMAIN rows
    BY DEF ByHost
  <2>2. PICK i \in near : SecretAt(rows, near) = secrets[Account(rows[i])]
    BY <2>1, SecretAtIs
  <2>3. rows[i] \in ToSet(rows) /\ rows[i].user = u /\ h \in ToSet(rows[i].paths)
    BY <2>2 DEF ByHost, ToSet
  <2>4. QED
    BY <2>2, <2>3
<1> HIDE DEF exact, near, a
<1>7. QED
  BY <1>1, <1>2, <1>3, <1>4, <1>5, <1>6 DEF a

\* Without an id it is a row of the address that answers.
LEMMA ResolvedAt ==
  ASSUME NEW rows \in Seq(Rows), NEW h, NEW u,
         NEW r \in ToSet(rows), r.user = u, h \in ToSet(r.paths)
  PROVE  \E q \in ToSet(rows) : /\ q.user = u /\ h \in ToSet(q.paths)
                                /\ Resolved(rows, NONE, h, u) = secrets[Account(q)]
BY ResolvedIs

\* The types of a connection's question.
LEMMA AskFacts ==
  ASSUME MemoryIInv, ask.op = "listed"
  PROVE  /\ ask.rows \in Seq(Rows) /\ ask.host \in Hosts /\ ask.user \in Users
         /\ ask.dev \in {NONE, IdOf(ask.host)} /\ At[ask.host] \in Devices /\ NONE \notin Devices
         /\ \A r \in ToSet(ask.rows) : r \in Rows /\ OfOneDevice(r)
         /\ Merged(ask.rows)
<1>1. /\ ask \in {Silent} \cup [op : {"listed"}, dev : Devices \cup {NONE}, host : Hosts, user : Users,
                                rows : Seq(Rows)]
  BY DEF MemoryIInv, TypeOK
<1>2. ask.rows \in Seq(Rows) /\ ask.host \in Hosts /\ ask.user \in Users
  BY <1>1 DEF Silent
<1>3. ask.dev \in {NONE, IdOf(ask.host)} /\ ListInv(ask.rows)
  BY DEF MemoryIInv, AskInv
<1>4. \A r \in ToSet(ask.rows) : r \in Rows
  BY <1>2 DEF ToSet
<1>5. QED
  BY <1>2, <1>3, <1>4, RememberAssumption DEF ListInv

\* Whatever answers is about the device that is asked for.
LEMMA AnswerOfDevice == MemoryIInv => OwnSecret
<1> SUFFICES ASSUME MemoryIInv, ask.op = "listed", Answer # NONE PROVE Owner[Answer] = At[ask.host]
  BY DEF OwnSecret
<1> DEFINE d == ask.dev
           h == ask.host
           u == ask.user
<1>1. /\ ask.rows \in Seq(Rows) /\ h \in Hosts /\ u \in Users
      /\ d \in {NONE, IdOf(h)} /\ At[h] \in Devices /\ NONE \notin Devices
      /\ \A r \in ToSet(ask.rows) : r \in Rows /\ OfOneDevice(r)
  BY AskFacts
<1>2. \A a \in Accounts : secrets[a] # NONE => Owner[secrets[a]] = DeviceOf(a)
  BY DEF MemoryIInv, SecretInv
<1>3. CASE d # NONE /\ Answer = secrets[<<u, d>>]
  <2>1. d = At[h]
    BY <1>1, <1>3 DEF IdOf
  <2>2. <<u, d>> \in Accounts /\ DeviceOf(<<u, d>>) = d
    BY <1>1, <2>1 DEF Accounts, DeviceOf
  <2>3. QED
    BY <1>2, <1>3, <2>1, <2>2
<1>4. ASSUME NEW q \in ToSet(ask.rows), h \in ToSet(q.paths), Answer = secrets[Account(q)]
      PROVE  Owner[Answer] = At[ask.host]
  <2>1. q \in Rows /\ OfOneDevice(q)
    BY <1>1
  <2>2. At[q.paths[1]] = At[h]
    BY <1>4, <2>1 DEF OfOneDevice
  <2>3. Account(q) \in Accounts /\ DeviceOf(Account(q)) = At[h]
    BY <2>1, <2>2, RowFacts, AccountDevice
  <2>4. QED
    BY <1>2, <1>4, <2>3
<1>5. QED
  BY <1>1, <1>3, <1>4, ResolvedIs DEF Answer

\* One row per device and per legacy address, and no blank password answered
\* with another device's.
THEOREM MemoryInvariant == Spec => []MemoryInv
<1>1. MemoryIInv => MemoryInv
  BY AnswerOfDevice DEF MemoryIInv, MemoryInv
<1>2. QED
  BY <1>1, MemoryStart, MemoryStep, PTL DEF Spec

\* The password last remembered for a device connects it, at any of its
\* addresses and in the middle of any other command.
LEMMA AnswerIsKept ==
  ASSUME MemoryIInv, ask.op = "listed", NEW r \in ToSet(ask.rows),
         r.dev = At[ask.host], r.user = ask.user,
         ask.dev # NONE \/ ask.host \in ToSet(r.paths),
         kept[<<ask.user, At[ask.host]>>] # NONE
  PROVE  Answer = kept[<<ask.user, At[ask.host]>>]
<1> DEFINE d == At[ask.host]
           h == ask.host
           u == ask.user
<1>1. /\ ask.rows \in Seq(Rows) /\ h \in Hosts /\ u \in Users
      /\ ask.dev \in {NONE, IdOf(h)} /\ d \in Devices /\ NONE \notin Devices
      /\ \A q \in ToSet(ask.rows) : q \in Rows /\ OfOneDevice(q)
      /\ Merged(ask.rows)
  BY AskFacts
<1>2. d \notin Nameless
  <2>1. r.dev = IdOf(r.paths[1]) /\ r.dev # NONE
    BY <1>1 DEF OfOneDevice
  <2>2. QED
    BY <2>1 DEF IdOf
<1>3. secrets[<<u, d>>] = kept[<<u, d>>] /\ secrets[<<u, d>>] # NONE
  <2>1. <<u, d>> \in Logins /\ <<u, d>>[2] = d
    BY <1>1 DEF Logins
  <2>2. QED
    BY <1>2, <2>1 DEF MemoryIInv, KeptInv
<1>4. CASE ask.dev # NONE
  <2>1. ask.dev = d
    BY <1>1, <1>4 DEF IdOf
  <2>2. Answer = secrets[<<u, ask.dev>>]
    BY <1>1, <1>3, <1>4, <2>1, ResolvedIs DEF Answer
  <2>3. QED
    BY <1>3, <2>1, <2>2
<1>5. CASE ask.dev = NONE
  <2>1. h \in ToSet(r.paths)
    BY <1>5
  <2>2. PICK q \in ToSet(ask.rows) : q.user = u /\ h \in ToSet(q.paths) /\ Answer = secrets[Account(q)]
    <3>1. ask.rows \in Seq(Rows) /\ r.user = u /\ r \in ToSet(ask.rows)
      BY <1>1
    <3>2. \E q \in ToSet(ask.rows) : /\ q.user = u /\ h \in ToSet(q.paths)
                                     /\ Resolved(ask.rows, NONE, h, u) = secrets[Account(q)]
      <4> HIDE DEF d, h, u
      <4>1. QED
        BY <2>1, <3>1, ResolvedAt
    <3>3. QED
      BY <1>5, <3>2 DEF Answer
  <2>3. q \in Rows /\ OfOneDevice(q) /\ At[q.paths[1]] = d
    BY <1>1, <2>2 DEF OfOneDevice
  <2>4. q.dev # NONE
    BY <1>1, <2>1, <2>2 DEF Merged, AtAny
  <2>5. Account(q) = <<u, d>>
    BY <2>2, <2>3, <2>4, AccountDevice
  <2>6. QED
    BY <1>3, <2>2, <2>5
<1>6. QED
  BY <1>4, <1>5

\* A device that was remembered and not forgotten is answered with the password
\* last remembered for it.
THEOREM RememberedIsKept == Spec => RememberedConnects
<1> DEFINE Right ==
             (/\ Answers
              /\ \E r \in ToSet(ask.rows) :
                   /\ r.dev = At[ask.host] /\ r.user = ask.user
                   /\ ask.dev # NONE \/ ask.host \in ToSet(r.paths)
              /\ kept[<<ask.user, At[ask.host]>>] # NONE)
             => Answer = kept[<<ask.user, At[ask.host]>>]
<1>1. MemoryIInv => Right
  BY AnswerIsKept DEF Answers
<1>2. Spec => [][Right]_vars
  BY <1>1, MemoryStart, MemoryStep, PTL DEF Spec
<1>3. QED
  BY <1>2 DEF RememberedConnects

\* After a device's forget neither its id nor the address finds a password.
THEOREM ForgetsDevice == Spec => ForgottenIsGone
<1> DEFINE Gone == ForgetUnlists /\ cmd.dev # NONE => Resolved(list', cmd.dev, cmd.host, cmd.user) = NONE
<1>1. ASSUME MemoryIInv PROVE Gone
  <2> SUFFICES ASSUME ForgetUnlists, cmd.dev # NONE
               PROVE  Resolved(list', cmd.dev, cmd.host, cmd.user) = NONE
    OBVIOUS
  <2> DEFINE d == cmd.dev
             h == cmd.host
             u == cmd.user
  <2>1. TypeOK /\ list \in Seq(Rows) /\ ListInv(list) /\ cmd.op = "delete" /\ ForgetInv
    BY <1>1 DEF MemoryIInv, TypeOK, ForgetUnlists
  <2>2. d = IdOf(h) /\ d = At[h]
    BY <2>1 DEF ForgetInv, IdOf
  <2>3. /\ list' \in Seq(Rows)
        /\ ToSet(list') = {list[i] : i \in {i \in DOMAIN list : ~Matched(list[i], d, h, u)}}
    BY <2>1, FilteredElements DEF ForgetUnlists, Removed
  <2>4. \A q \in ToSet(list') : q \in Rows /\ q \in ToSet(list) /\ ~Matched(q, d, h, u)
    <3> SUFFICES ASSUME NEW i \in DOMAIN list, ~Matched(list[i], d, h, u)
                 PROVE  list[i] \in Rows /\ list[i] \in ToSet(list)
      BY <2>3
    <3>1. QED
      BY <2>1 DEF ToSet
  <2>5. ASSUME NEW q \in ToSet(list'), q.user = u PROVE q.dev # d /\ h \notin ToSet(q.paths)
    <3>1. q \in Rows /\ OfOneDevice(q) /\ ~Matched(q, d, h, u)
      BY <2>1, <2>4 DEF ListInv
    <3>2. q.dev # d
      BY <3>1 DEF Matched
    <3>3. ASSUME h \in ToSet(q.paths) PROVE FALSE
      <4>1. At[q.paths[1]] = d /\ IdOf(q.paths[1]) = d
        BY <2>2, <3>1, <3>3 DEF OfOneDevice, IdOf
      <4>2. q.dev = NONE
        BY <3>1, <3>2, <4>1 DEF OfOneDevice
      <4>3. Legacy(q, u, {h})
        BY <2>5, <3>3, <4>2 DEF Legacy, AtAny
      <4>4. QED
        BY <3>1, <4>3 DEF Matched
    <3>4. QED
      BY <3>2, <3>3
  <2>6. QED
    BY <2>3, <2>5, ResolvedIs
<1>2. Spec => [][Gone]_vars
  BY <1>1, MemoryStart, MemoryStep, PTL DEF Spec
<1>3. QED
  BY <1>2 DEF ForgottenIsGone

-----------------------------------------------------------------------------
(* Provisioning: a ready Jetson is left alone.                              *)

\* A stopped apt-get leaves the rest of the Jetson alone and takes no package away.
LEMMA HalfIs ==
  ASSUME env \in Environment, NEW e \in HalfInstalled
  PROVE  /\ e \in Environment
         /\ e.xsession = env.xsession /\ e.host = env.host /\ e.service = env.service
         /\ env.packages # "missing" => e.packages # "missing"
<1>1. CASE env.interrupted
  BY <1>1 DEF HalfInstalled
<1>2. CASE ~env.interrupted
  <2>1. /\ e \in Environment
        /\ e = [env EXCEPT !.packages = e.packages, !.interrupted = e.interrupted]
        /\ e.packages \in Further
    BY <1>2 DEF HalfInstalled
  <2>2. env.packages # "missing" => e.packages # "missing"
    BY <2>1 DEF Further, Environment
  <2>3. e.xsession = env.xsession /\ e.host = env.host /\ e.service = env.service
    BY <2>1 DEF Environment
  <2>4. QED
    BY <2>1, <2>2, <2>3
<1>3. QED
  BY <1>1, <1>2

\* The package of xrdp may start it.
LEMMA StartedIs ==
  ASSUME env \in Environment
  PROVE  /\ Started \subseteq {"down", "keyless", "deaf", "up"}
         /\ env.service = "up" => Started = {"up"}
BY DEF Started, Environment

\* Every step keeps the types.
LEMMA PrepareTypeStep == PrepareTypeOK /\ [PrepareNext]_prepareVars => PrepareTypeOK'
<1> SUFFICES ASSUME PrepareTypeOK, [PrepareNext]_prepareVars
             PROVE  PrepareTypeOK'
  OBVIOUS
<1> DEFINE Run == [shown : Seq(StageNames), failed : BOOLEAN, unanswered : BOOLEAN,
                   answer : {"none", "ready", "refused", "failed"}]
           PC == {"idle", "check", "preflight", "mktemp", "upload", "run", "remove", "verify"}
<1>a. /\ \A n \in {"CheckingEnvironment", "AlreadyReady", "ProvisionRequired", "Preflight",
                   "Uploading", "InstallingPackages", "ConfiguringSession", "StartingService",
                   "Verifying", "Complete"} : n \in StageNames
  BY DEF StageNames, Stages
<1>b. \A r \in Runs : run[r] \in Run
  BY DEF PrepareTypeOK
<1>1. CASE UNCHANGED prepareVars
  BY <1>1 DEF prepareVars, PrepareTypeOK
<1>2. CASE Listens \/ Breaks
  <2>1. env' \in Environment
    <3>1. CASE Listens
      BY <3>1 DEF Listens, PrepareTypeOK, Environment
    <3>2. CASE Breaks
      <4>1. PICK part \in Breakable : \E state \in Broken[part] : env' = [env EXCEPT ![part] = state]
        BY <3>2 DEF Breaks
      <4>2. PICK state \in Broken[part] : env' = [env EXCEPT ![part] = state]
        BY <4>1
      <4>3. env \in Environment /\ part \in {"packages", "xsession", "host", "service"}
        BY BreakableAssumption DEF PrepareTypeOK
      <4>4. CASE part = "packages"
        BY <4>2, <4>3, <4>4 DEF Broken, Environment
      <4>5. CASE part = "xsession"
        BY <4>2, <4>3, <4>5 DEF Broken, Environment
      <4>6. CASE part = "host"
        BY <4>2, <4>3, <4>6 DEF Broken, Environment
      <4>7. CASE part = "service"
        BY <4>2, <4>3, <4>7 DEF Broken, Environment
      <4>8. QED
        BY <4>3, <4>4, <4>5, <4>6, <4>7
    <3>3. QED
      BY <1>2, <3>1, <3>2
  <2>2. QED
    BY <1>2, <2>1 DEF Listens, Breaks, PrepareTypeOK
<1>3. ASSUME NEW r \in Runs, Prepare(r) PROVE PrepareTypeOK'
  <2>1. <<"CheckingEnvironment">> \in Seq(StageNames)
    BY <1>a
  <2>2. [NoRun EXCEPT !.shown = <<"CheckingEnvironment">>] \in Run
    BY <2>1 DEF NoRun
  <2>3. QED
    BY <1>3, <2>2 DEF Prepare, PrepareTypeOK
<1>4. ASSUME NEW r \in Runs, NEW a \in {"ready", "refused", "failed"}, NEW lost \in BOOLEAN,
             Replies(r, a, lost)
      PROVE  pc' \in [Runs -> PC] /\ run' \in [Runs -> Run]
  <2>1. <<>> \in Seq(StageNames)
    OBVIOUS
  <2>2. [NoRun EXCEPT !.answer = a, !.unanswered = run[r].unanswered \/ lost] \in Run
    BY <1>b, <2>1 DEF NoRun
  <2>3. QED
    BY <1>4, <2>2 DEF Replies, PrepareTypeOK
<1>5. ASSUME NEW r \in Runs, NEW to \in PC, NEW s \in Seq(StageNames), Goes(r, to, s)
      PROVE  pc' \in [Runs -> PC] /\ run' \in [Runs -> Run]
  <2>1. run[r].shown \o s \in Seq(StageNames)
    BY <1>b
  <2>2. [run[r] EXCEPT !.shown = @ \o s] \in Run
    BY <1>b, <2>1
  <2>3. QED
    BY <1>5, <2>2 DEF Goes, PrepareTypeOK
<1>6. ASSUME NEW r \in Runs, Requests(r) \/ OutputTooLarge(r) PROVE PrepareTypeOK'
  <2>1. CASE CheckReady(r) \/ Refused(r) \/ RemovesFailed(r) \/ VerifyReady(r) \/ VerifyFails(r)
    <3>1. \E a \in {"ready", "refused", "failed"} : Replies(r, a, FALSE)
      BY <2>1 DEF CheckReady, Refused, RemovesFailed, VerifyReady, VerifyFails
    <3>2. pc' \in [Runs -> PC] /\ run' \in [Runs -> Run]
      BY <3>1, <1>4
    <3>3. env' = env /\ script' = script /\ files' \subseteq Runs
      BY <2>1 DEF CheckReady, Refused, RemovesFailed, VerifyReady, VerifyFails, PrepareTypeOK
    <3>4. QED
      BY <3>2, <3>3 DEF PrepareTypeOK
  <2>2. CASE CheckRequires(r)
    <3>1. <<"ProvisionRequired", "Preflight">> \in Seq(StageNames)
      BY <1>a
    <3>2. QED
      BY <2>2, <3>1, <1>5 DEF CheckRequires, PrepareTypeOK
  <2>3. CASE SudoPasses(r)
    <3>1. <<"Uploading">> \in Seq(StageNames)
      BY <1>a
    <3>2. QED
      BY <2>3, <3>1, <1>5 DEF SudoPasses, PrepareTypeOK
  <2>4. CASE Mktemp(r) \/ Uploads(r)
    <3>1. <<>> \in Seq(StageNames)
      OBVIOUS
    <3>2. pc' \in [Runs -> PC] /\ run' \in [Runs -> Run]
      BY <2>4, <3>1, <1>5 DEF Mktemp, Uploads
    <3>3. env' = env /\ files' \subseteq Runs
      BY <2>4 DEF Mktemp, Uploads, PrepareTypeOK
    <3>4. script' \in [Runs -> Going \cup Ended \cup {"none"}]
      BY <2>4 DEF Mktemp, Uploads, PrepareTypeOK, Going, Ended
    <3>5. QED
      BY <3>2, <3>3, <3>4 DEF PrepareTypeOK
  <2>5. CASE ScriptAnswers(r) \/ OutputTooLarge(r)
    <3>1. PICK f \in BOOLEAN : Closes(r, f)
      BY <2>5 DEF ScriptAnswers, OutputTooLarge
    <3>2. [run[r] EXCEPT !.failed = f] \in Run
      BY <1>b
    <3>3. pc' \in [Runs -> PC] /\ run' \in [Runs -> Run]
      BY <3>1, <3>2 DEF Closes, PrepareTypeOK
    <3>4. QED
      BY <2>5, <3>3 DEF ScriptAnswers, OutputTooLarge, PrepareTypeOK
  <2>6. CASE Removes(r)
    <3>1. <<"Verifying">> \in Seq(StageNames)
      BY <1>a
    <3>2. pc' \in [Runs -> PC] /\ run' \in [Runs -> Run]
      BY <2>6, <3>1, <1>5 DEF Removes
    <3>3. env' = env /\ script' = script /\ files' \subseteq Runs
      BY <2>6 DEF Removes, PrepareTypeOK
    <3>4. QED
      BY <3>2, <3>3 DEF PrepareTypeOK
  <2>7. CASE Unanswered(r)
    <3>1. env' = env /\ files' \subseteq Runs
      BY <2>7 DEF Unanswered, PrepareTypeOK
    <3>2. script' \in [Runs -> Going \cup Ended \cup {"none"}]
      BY <2>7 DEF Unanswered, PrepareTypeOK
    <3>3. pc \in [Runs -> PC] /\ run \in [Runs -> Run]
      BY DEF PrepareTypeOK
    <3>4. \/ Replies(r, "refused", TRUE) \/ Replies(r, "failed", TRUE)
          \/ /\ pc' = [pc EXCEPT ![r] = "remove"]
             /\ run' = [run EXCEPT ![r].failed = TRUE, ![r].unanswered = TRUE]
          \/ /\ pc' = [pc EXCEPT ![r] = "verify"]
             /\ run' = [run EXCEPT ![r].shown = @ \o <<"Verifying">>, ![r].unanswered = TRUE]
      BY <2>7 DEF Unanswered
    <3>5. run[r].shown \o <<"Verifying">> \in Seq(StageNames)
      BY <1>a, <1>b
    <3>6. /\ [run[r] EXCEPT !.failed = TRUE, !.unanswered = TRUE] \in Run
          /\ [run[r] EXCEPT !.shown = @ \o <<"Verifying">>, !.unanswered = TRUE] \in Run
      BY <1>b, <3>5
    <3>7. pc' \in [Runs -> PC] /\ run' \in [Runs -> Run]
      <4>1. CASE Replies(r, "refused", TRUE) \/ Replies(r, "failed", TRUE)
        BY <4>1, <1>4
      <4>2. CASE /\ pc' = [pc EXCEPT ![r] = "remove"]
                 /\ run' = [run EXCEPT ![r].failed = TRUE, ![r].unanswered = TRUE]
        <5>1. run' = [run EXCEPT ![r] = [run[r] EXCEPT !.failed = TRUE, !.unanswered = TRUE]]
          BY <1>b, <3>3, <4>2
        <5>2. PICK x \in Run : x = [run[r] EXCEPT !.failed = TRUE, !.unanswered = TRUE]
          BY <3>6
        <5>3. QED
          BY <3>3, <4>2, <5>1, <5>2
      <4>3. CASE /\ pc' = [pc EXCEPT ![r] = "verify"]
                 /\ run' = [run EXCEPT ![r].shown = @ \o <<"Verifying">>, ![r].unanswered = TRUE]
        <5>1. run' = [run EXCEPT ![r] = [run[r] EXCEPT !.shown = @ \o <<"Verifying">>, !.unanswered = TRUE]]
          BY <1>b, <3>3, <4>3
        <5>2. PICK x \in Run : x = [run[r] EXCEPT !.shown = @ \o <<"Verifying">>, !.unanswered = TRUE]
          BY <3>6
        <5>3. QED
          BY <3>3, <4>3, <5>1, <5>2
      <4>4. QED
        BY <3>4, <4>1, <4>2, <4>3
    <3>8. QED
      BY <3>1, <3>2, <3>7 DEF PrepareTypeOK
  <2>8. QED
    BY <1>6, <2>1, <2>2, <2>3, <2>4, <2>5, <2>6, <2>7 DEF Requests
<1>7. ASSUME NEW r \in Runs, ScriptSteps(r) PROVE PrepareTypeOK'
  <2>1. UNCHANGED <<files, pc>>
    BY <1>7 DEF ScriptSteps, Supported, Unsupported, InstallSkips, AptRuns, AptLocked, AptInstalls,
       AptFails, KeepsSession, Configures, Truncates, Writes, WriteFails, Repairs, Serves, Joins,
     GroupFails, Restarts, Verified, Killed, ScriptGoes, ScriptEnds
  <2>2. script' \in [Runs -> Going \cup Ended \cup {"none"}]
    BY <1>7 DEF ScriptSteps, Supported, Unsupported, InstallSkips, AptRuns, AptLocked, AptInstalls,
       AptFails, KeepsSession, Configures, Truncates, Writes, WriteFails, Repairs, Serves, Joins,
     GroupFails, Restarts, Verified, Killed, ScriptGoes, ScriptEnds,
       PrepareTypeOK, Going, Ended
  <2>3. env' \in Environment
    <3>1. env \in Environment
      BY DEF PrepareTypeOK
    <3>2. CASE AptInstalls(r)
      BY <3>1, <3>2, StartedIs DEF AptInstalls, Environment
    <3>3. CASE AptFails(r) \/ Killed(r)
      <4>1. env' = env \/ env' \in HalfInstalled
        BY <3>3 DEF AptFails, Killed
      <4>2. QED
        BY <3>1, <4>1, HalfIs
    <3>4. CASE Truncates(r) \/ Writes(r) \/ WriteFails(r) \/ Repairs(r) \/ Joins(r) \/ Restarts(r)
      BY <3>1, <3>4 DEF Truncates, Writes, WriteFails, Repairs, Joins, Restarts, Environment
    <3>5. QED
      BY <1>7, <3>1, <3>2, <3>3, <3>4 DEF ScriptSteps, Supported, Unsupported, InstallSkips, AptRuns,
         AptLocked, KeepsSession, Configures, Serves, GroupFails, Verified
  <2>4. ASSUME NEW line \in {"install_packages", "configure_session", "fix_xsessionrc",
                             "enable_service", "verify"},
               Prints(r, line)
        PROVE  run' \in [Runs -> Run]
    <3>1. Parses(line) \in Seq(StageNames)
      BY <1>a DEF Parses
    <3>2. Streamed(run[r].shown, line) \in Seq(StageNames)
      BY <1>b, <3>1 DEF Streamed
    <3>3. [run[r] EXCEPT !.shown = Streamed(@, line)] \in Run
      BY <1>b, <3>2
    <3>4. QED
      BY <2>4, <3>3 DEF Prints, PrepareTypeOK
  <2>5. run' \in [Runs -> Run]
    <3>1. \/ UNCHANGED run
          \/ \E line \in {"install_packages", "configure_session", "fix_xsessionrc",
                          "enable_service", "verify"} : Prints(r, line)
      BY <1>7 DEF ScriptSteps, Supported, Unsupported, InstallSkips, AptRuns, AptLocked, AptInstalls,
         AptFails, KeepsSession, Configures, Truncates, Writes, WriteFails, Repairs, Serves, Joins,
     GroupFails, Restarts, Verified, Killed, ScriptEnds
    <3>2. QED
      BY <3>1, <2>4 DEF PrepareTypeOK
  <2>6. QED
    BY <2>1, <2>2, <2>3, <2>5 DEF PrepareTypeOK
<1>8. QED
  BY <1>1, <1>2, <1>3, <1>6, <1>7 DEF PrepareNext

\* Types of the Jetson, its scripts and the commands.
THEOREM PrepareTypeCorrect == PrepareSpec => []PrepareTypeOK
<1>1. PrepareInit => PrepareTypeOK
  BY JetsonsAssumption DEF PrepareInit, PrepareTypeOK, NoRun
<1>2. QED
  BY <1>1, PrepareTypeStep, PTL DEF PrepareSpec

\* No step of any script, an orphan's or a second command's, takes anything
\* from a Jetson that is ready, unless one is about to by what it saw earlier.
THEOREM ReadyIsLeftAlone == PrepareSpec => ReadyStaysReady
<1> DEFINE Left == Untouched /\ (\E r \in Runs : ScriptSteps(r)) => Untouched'
<1>1. ASSUME PrepareTypeOK PROVE Left
  <2> SUFFICES ASSUME Untouched, NEW r \in Runs, ScriptSteps(r) PROVE Untouched'
    OBVIOUS
  <2>1. /\ env \in Environment /\ env.packages \in {"checked", "all"} /\ env.xsession = "own"
        /\ env.host /\ env.service = "up" /\ Serving
        /\ script[r] \notin {"rewrite", "write", "restart"}
        /\ DOMAIN script = Runs
    BY <1>1 DEF PrepareTypeOK, Untouched, Ready, Serving, Environment
  <2>2. /\ env'.packages # "missing" /\ env'.xsession = "own" /\ env'.host /\ env'.service = "up"
    <3>1. CASE AptInstalls(r)
      BY <2>1, <3>1, StartedIs DEF AptInstalls, Environment
    <3>2. CASE AptFails(r) \/ Killed(r)
      <4>1. env' = env \/ env' \in HalfInstalled
        BY <3>2 DEF AptFails, Killed
      <4>2. QED
        BY <2>1, <4>1, HalfIs
    <3>3. CASE Repairs(r)
      BY <2>1, <3>3 DEF Repairs, Environment
    <3>4. CASE Truncates(r) \/ Writes(r) \/ WriteFails(r) \/ Restarts(r) \/ Joins(r)
      BY <2>1, <3>4 DEF Truncates, Writes, WriteFails, Restarts, Joins, ScriptGoes
    <3>5. QED
      BY <2>1, <3>1, <3>2, <3>3, <3>4 DEF ScriptSteps, Supported, Unsupported, InstallSkips, AptRuns,
         AptLocked, KeepsSession, Configures, Serves, GroupFails, Verified
  <2>3. script'[r] \notin {"rewrite", "write", "restart"}
    BY <2>1 DEF ScriptSteps, Supported, Unsupported, InstallSkips, AptRuns, AptLocked, AptInstalls,
       AptFails, KeepsSession, Configures, Truncates, Writes, WriteFails, Repairs, Serves, Joins,
       GroupFails, Restarts, Verified, Killed, ScriptGoes, ScriptEnds
  <2>4. \A q \in Runs : q # r => script'[q] = script[q]
    BY <2>1 DEF ScriptSteps, Supported, Unsupported, InstallSkips, AptRuns, AptLocked, AptInstalls,
       AptFails, KeepsSession, Configures, Truncates, Writes, WriteFails, Repairs, Serves, Joins,
       GroupFails, Restarts, Verified, Killed, ScriptGoes, ScriptEnds
  <2>5. QED
    BY <2>2, <2>3, <2>4 DEF Untouched, Ready
<1>2. PrepareSpec => [][Left]_prepareVars
  BY <1>1, PrepareTypeCorrect, PTL DEF PrepareSpec
<1>3. QED
  BY <1>2 DEF ReadyStaysReady
-----------------------------------------------------------------------------
(* The stages a command shows.                                              *)

\* ProvisionStage's order: the rank of a stage is its place.
LEMMA RankOf ==
  /\ Rank("CheckingEnvironment") = 1 /\ Rank("AlreadyReady") = 2
  /\ Rank("ProvisionRequired") = 3 /\ Rank("Preflight") = 4 /\ Rank("Uploading") = 5
  /\ Rank("InstallingPackages") = 6 /\ Rank("ConfiguringSession") = 7
  /\ Rank("StartingService") = 8 /\ Rank("Verifying") = 9 /\ Rank("Complete") = 10
<1>1. ASSUME NEW n \in 1..10 PROVE Rank(Stages[n]) = n
  <2>1. n \in DOMAIN Stages /\ Rank(Stages[n]) \in DOMAIN Stages
        /\ Stages[Rank(Stages[n])] = Stages[n]
    BY DEF Rank, Stages
  <2>2. \A i, j \in 1..10 : Stages[i] = Stages[j] => i = j
    BY DEF Stages
  <2>3. DOMAIN Stages = 1..10
    BY DEF Stages
  <2>4. QED
    BY <2>1, <2>2, <2>3
<1>2. QED
  BY <1>1 DEF Stages

\* Stages are told apart by their ranks.
LEMMA RankTells ==
  /\ \A m \in StageNames : Rank(m) \in 1..10
  /\ \A m, n \in StageNames : Rank(m) = Rank(n) => m = n
BY RankOf DEF StageNames, Stages

\* The first n stages of s are in their order, and none is shown twice.
Rising(s, n) == \A i, j \in 1..n : i < j => Rank(s[i]) < Rank(s[j])
Below(s, n, c) == \A i \in 1..n : Rank(s[i]) <= c

\* How far the script has got tells which stages it can have shown.
ScriptCeiling(at) ==
  CASE at = "os" -> 5
    [] at \in {"install", "apt", "configure"} -> 6
    [] at \in {"rewrite", "write", "repair", "service"} -> 7
    [] at \in {"restart", "verify"} -> 8
    [] OTHER -> 9

\* And the position of the command, which it can have shown itself.
Ceiling(r) ==
  CASE pc[r] = "idle" -> 0
    [] pc[r] = "check" -> 1
    [] pc[r] = "preflight" -> 4
    [] pc[r] \in {"mktemp", "upload"} -> 5
    [] pc[r] = "run" -> ScriptCeiling(script[r])
    [] OTHER -> 9

\* Until the verification the stages rise; it is shown whatever was before.
StageInv(r) ==
  LET s == run[r].shown
  IN  IF pc[r] = "verify"
      THEN /\ Len(s) > 0 /\ s[Len(s)] = "Verifying"
           /\ Rising(s, Len(s) - 1) /\ Below(s, Len(s) - 1, 9)
      ELSE Rising(s, Len(s)) /\ Below(s, Len(s), Ceiling(r))

\* The inductive invariant.
PrepareIInv == PrepareTypeOK /\ NoLeftover /\ \A r \in Runs : StageInv(r)

\* The stages shown go forward.
LEMMA StagesRise == PrepareIInv => StagesForward
<1> SUFFICES ASSUME PrepareIInv, NEW r \in Runs,
                    NEW i \in DOMAIN run[r].shown, NEW j \in DOMAIN run[r].shown, i < j
             PROVE  \/ Rank(run[r].shown[i]) < Rank(run[r].shown[j])
                    \/ run[r].shown[i] = "Verifying" /\ j = i + 1 /\ j = Len(run[r].shown)
  BY DEF StagesForward
<1> DEFINE s == run[r].shown
<1>1. s \in Seq(StageNames) /\ i \in 1..Len(s) /\ j \in 1..Len(s) /\ Len(s) \in Nat
      /\ s[i] \in StageNames
  BY DEF PrepareIInv, PrepareTypeOK
<1>2. CASE pc[r] # "verify"
  BY <1>1, <1>2 DEF PrepareIInv, StageInv, Rising
<1>3. CASE pc[r] = "verify"
  <2>1. /\ s[Len(s)] = "Verifying" /\ Rising(s, Len(s) - 1) /\ Below(s, Len(s) - 1, 9)
    BY <1>3 DEF PrepareIInv, StageInv
  <2>2. CASE j < Len(s)
    BY <1>1, <2>1, <2>2 DEF Rising
  <2>3. CASE j = Len(s)
    <3>a. i \in 1..(Len(s) - 1)
      BY <1>1, <2>3
    <3>b. Rank(s[j]) = 9
      BY <2>1, <2>3, RankOf
    <3>c. Rank(s[i]) <= 9
      BY <2>1, <3>a DEF Below
    <3>d. Rank(s[i]) \in 1..10
      BY <1>1, RankTells
    <3>1. Rank(s[j]) = 9 /\ Rank(s[i]) <= 9 /\ Rank(s[i]) \in 1..10
      BY <3>b, <3>c, <3>d
    <3>2. Rank(s[i]) = 9 => i = Len(s) - 1
      <4> SUFFICES ASSUME Rank(s[i]) = 9, i # Len(s) - 1 PROVE FALSE
        OBVIOUS
      <4>1. Len(s) - 1 \in 1..(Len(s) - 1) /\ i \in 1..(Len(s) - 1) /\ i < Len(s) - 1
        BY <1>1, <2>3
      <4>2. Rank(s[i]) < Rank(s[Len(s) - 1]) /\ Rank(s[Len(s) - 1]) <= 9
        BY <2>1, <4>1 DEF Rising, Below
      <4>3. Rank(s[Len(s) - 1]) \in 1..10
        BY <1>1, <4>1, RankTells
      <4>4. QED
        BY <4>2, <4>3
    <3>3. "Verifying" \in StageNames
      BY DEF StageNames, Stages
    <3>4. QED
      BY <1>1, <2>3, <3>1, <3>2, <3>3, RankOf, RankTells
  <2>4. QED
    BY <1>1, <2>2, <2>3
<1>4. QED
  BY <1>2, <1>3

\* One more stage, above those shown, or one of the same rank shown once more.
LEMMA OneMore ==
  ASSUME NEW s \in Seq(StageNames), NEW m \in StageNames, NEW c \in Nat,
         Rising(s, Len(s)), Below(s, Len(s), c), c < Rank(m)
  PROVE  LET t == s \o <<m>>
         IN  t \in Seq(StageNames) /\ Rising(t, Len(t)) /\ Below(t, Len(t), Rank(m))
<1> DEFINE t == s \o <<m>>
<1>1. /\ t \in Seq(StageNames) /\ Len(t) = Len(s) + 1 /\ t[Len(s) + 1] = m
      /\ \A i \in 1..Len(s) : t[i] = s[i]
  OBVIOUS
<1>2. Rank(m) \in 1..10 /\ \A i \in 1..Len(s) : Rank(s[i]) \in 1..10
  BY RankTells
<1> HIDE DEF t
<1>3. Rising(t, Len(t))
  BY <1>1, <1>2 DEF Rising, Below
<1>4. Below(t, Len(t), Rank(m))
  BY <1>1, <1>2 DEF Below
<1>5. QED
  BY <1>1, <1>3, <1>4 DEF t

\* A line of the script shows its stage, unless it is the last one shown.
LEMMA StreamedRises ==
  ASSUME NEW s \in Seq(StageNames), NEW m \in StageNames, NEW line, Parses(line) = <<m>>,
         Rising(s, Len(s)), Below(s, Len(s), Rank(m))
  PROVE  LET t == Streamed(s, line) IN Rising(t, Len(t)) /\ Below(t, Len(t), Rank(m))
<1>1. Rank(m) \in 1..10 /\ \A i \in 1..Len(s) : Rank(s[i]) \in 1..10 /\ s[i] \in StageNames
  BY RankTells
<1>2. CASE Streamed(s, line) = s
  BY <1>2
<1>3. CASE Streamed(s, line) = s \o <<m>> /\ s[Len(s)] # m
  <2>1. \A i \in 1..Len(s) : Rank(s[i]) < Rank(m)
    <3> SUFFICES ASSUME NEW i \in 1..Len(s) PROVE Rank(s[i]) < Rank(m)
      OBVIOUS
    <3>1. CASE i = Len(s)
      BY <1>1, <1>3, <3>1, RankTells DEF Below
    <3>2. CASE i < Len(s)
      BY <1>1, <3>2 DEF Rising, Below
    <3>3. QED
      BY <3>1, <3>2
  <2>2. Below(s, Len(s), Rank(m) - 1)
    BY <1>1, <2>1 DEF Below
  <2>3. Rank(m) - 1 \in Nat /\ Rank(m) - 1 < Rank(m)
    BY <1>1
  <2>4. QED
    BY <1>3, <2>2, <2>3, OneMore
<1>4. QED
  BY <1>2, <1>3 DEF Streamed

\* The temporary script of a command that has its answers is removed.
LEMMA LeftoverStep == PrepareTypeOK /\ NoLeftover /\ [PrepareNext]_prepareVars => NoLeftover'
<1> SUFFICES ASSUME PrepareTypeOK, NoLeftover, [PrepareNext]_prepareVars, NEW q \in files'
             PROVE  pc'[q] \in {"upload", "run", "remove"} \/ run'[q].unanswered
  BY DEF NoLeftover
<1>1. /\ \A r \in Runs : run[r] \in [shown : Seq(StageNames), failed : BOOLEAN, unanswered : BOOLEAN,
                                     answer : {"none", "ready", "refused", "failed"}]
      /\ DOMAIN run = Runs /\ DOMAIN pc = Runs /\ files \subseteq Runs
      /\ q \in Runs
  BY PrepareTypeStep DEF PrepareTypeOK
<1>2. q \in files => pc[q] \in {"upload", "run", "remove"} \/ run[q].unanswered
  BY DEF NoLeftover
<1>3. CASE UNCHANGED prepareVars
  BY <1>2, <1>3 DEF prepareVars
<1>4. CASE Listens \/ Breaks
  BY <1>2, <1>4 DEF Listens, Breaks
<1>5. ASSUME NEW r \in Runs, Prepare(r)
      PROVE  pc'[q] \in {"upload", "run", "remove"} \/ run'[q].unanswered
  BY <1>1, <1>2, <1>5 DEF Prepare
<1>6. ASSUME NEW r \in Runs, Requests(r) \/ OutputTooLarge(r)
      PROVE  pc'[q] \in {"upload", "run", "remove"} \/ run'[q].unanswered
  <2>1. CASE CheckReady(r) \/ Refused(r) \/ RemovesFailed(r) \/ VerifyReady(r) \/ VerifyFails(r)
    <3>1. PICK a : Replies(r, a, FALSE)
      BY <2>1 DEF CheckReady, Refused, RemovesFailed, VerifyReady, VerifyFails
    <3>2. /\ files' \subseteq files
          /\ r \in files' => pc[r] \notin {"upload", "run", "remove"}
      BY <2>1 DEF CheckReady, Refused, RemovesFailed, VerifyReady, VerifyFails
    <3>3. q = r => run'[q].unanswered = run[q].unanswered
      BY <1>1, <3>1, <1>6 DEF Replies, NoRun
    <3>4. q # r => run'[q] = run[q] /\ pc'[q] = pc[q]
      BY <1>1, <3>1 DEF Replies
    <3>5. QED
      BY <1>2, <3>2, <3>3, <3>4
  <2>2. CASE CheckRequires(r) \/ SudoPasses(r) \/ Mktemp(r) \/ Uploads(r) \/ Removes(r)
    <3>1. PICK to, t : Goes(r, to, t)
      BY <2>2 DEF CheckRequires, SudoPasses, Mktemp, Uploads, Removes
    <3>2. q = r => pc'[q] = to /\ run'[q].unanswered = run[q].unanswered
      BY <1>1, <3>1, <1>6 DEF Goes
    <3>3. q # r => run'[q] = run[q] /\ pc'[q] = pc[q]
      BY <1>1, <3>1 DEF Goes
    <3>4. CASE Mktemp(r)
      BY <1>1, <1>2, <1>6, <3>3, <3>4 DEF Mktemp, Goes
    <3>5. CASE Uploads(r)
      BY <1>1, <1>2, <1>6, <3>3, <3>5 DEF Uploads, Goes
    <3>6. CASE Removes(r)
      BY <1>1, <1>2, <1>6, <3>3, <3>6 DEF Removes
    <3>7. CASE CheckRequires(r) \/ SudoPasses(r)
      BY <1>2, <3>2, <3>3, <3>7 DEF CheckRequires, SudoPasses
    <3>8. QED
      BY <2>2, <3>4, <3>5, <3>6, <3>7
  <2>3. CASE ScriptAnswers(r) \/ OutputTooLarge(r)
    BY <1>1, <1>2, <1>6, <2>3 DEF ScriptAnswers, OutputTooLarge, Closes
  <2>4. CASE Unanswered(r)
    <3>1. q # r => run'[q] = run[q] /\ pc'[q] = pc[q]
      BY <1>1, <2>4 DEF Unanswered, Replies
    <3>2. run'[r].unanswered
      <4>1. CASE \E a : Replies(r, a, TRUE)
        BY <1>1, <4>1 DEF Replies, NoRun
      <4>2. CASE ~(\E a : Replies(r, a, TRUE))
        BY <1>1, <2>4, <4>2 DEF Unanswered
      <4>3. QED
        BY <4>1, <4>2
    <3>3. q \in files \cup {r}
      BY <2>4 DEF Unanswered
    <3>4. QED
      BY <1>2, <3>1, <3>2, <3>3
  <2>5. QED
    BY <1>6, <2>1, <2>2, <2>3, <2>4 DEF Requests
<1>7. ASSUME NEW r \in Runs, ScriptSteps(r)
      PROVE  pc'[q] \in {"upload", "run", "remove"} \/ run'[q].unanswered
  <2>1. UNCHANGED <<files, pc>>
    BY <1>7 DEF ScriptSteps, Supported, Unsupported, InstallSkips, AptRuns, AptLocked, AptInstalls,
       AptFails, KeepsSession, Configures, Truncates, Writes, WriteFails, Repairs, Serves, Joins,
     GroupFails, Restarts, Verified, Killed, ScriptGoes, ScriptEnds
  <2>2. \/ UNCHANGED run
        \/ \E line : Prints(r, line)
    BY <1>7 DEF ScriptSteps, Supported, Unsupported, InstallSkips, AptRuns, AptLocked, AptInstalls,
       AptFails, KeepsSession, Configures, Truncates, Writes, WriteFails, Repairs, Serves, Joins,
     GroupFails, Restarts, Verified, Killed, ScriptEnds
  <2>3. run'[q].unanswered = run[q].unanswered
    BY <1>1, <1>7, <2>1, <2>2 DEF Prints
  <2>4. QED
    BY <1>2, <2>1, <2>3
<1>8. QED
  BY <1>3, <1>4, <1>5, <1>6, <1>7 DEF PrepareNext

\* What is below a ceiling is below a higher one.
LEMMA HigherCeiling ==
  ASSUME NEW s \in Seq(StageNames), NEW c \in Nat, NEW d \in Nat, Below(s, Len(s), c), c <= d
  PROVE  Below(s, Len(s), d)
<1>1. \A i \in 1..Len(s) : Rank(s[i]) \in 1..10
  BY RankTells
<1>2. QED
  BY <1>1 DEF Below

\* A request of the command keeps the stages in order.
LEMMA RequestStages ==
  ASSUME PrepareTypeOK, NEW r \in Runs, StageInv(r),
         Prepare(r) \/ Requests(r) \/ OutputTooLarge(r)
  PROVE  StageInv(r)'
<1> DEFINE s == run[r].shown
<1>1. /\ run[r] \in [shown : Seq(StageNames), failed : BOOLEAN, unanswered : BOOLEAN,
                    answer : {"none", "ready", "refused", "failed"}]
      /\ DOMAIN run = Runs /\ DOMAIN pc = Runs /\ DOMAIN script = Runs
      /\ s \in Seq(StageNames) /\ Len(s) \in Nat
  BY DEF PrepareTypeOK
<1>2. \A m \in {"CheckingEnvironment", "AlreadyReady", "ProvisionRequired", "Preflight",
                "Uploading", "InstallingPackages", "ConfiguringSession", "StartingService",
                "Verifying", "Complete"} : m \in StageNames
  BY DEF StageNames, Stages
<1>3. CASE Prepare(r)
  <2> DEFINE t == <<"CheckingEnvironment">>
  <2>1. pc'[r] = "check" /\ run'[r].shown = t
    BY <1>1, <1>3 DEF Prepare, NoRun
  <2>2. Len(t) = 1 /\ t[1] = "CheckingEnvironment"
    OBVIOUS
  <2>3. Rising(t, Len(t)) /\ Below(t, Len(t), 1)
    BY <2>2, RankOf DEF Rising, Below
  <2>4. QED
    BY <2>1, <2>3 DEF StageInv, Ceiling
<1>4. ASSUME pc'[r] = "idle", run'[r].shown = <<>> PROVE StageInv(r)'
  BY <1>4 DEF StageInv, Ceiling, Rising, Below
<1>5. CASE CheckReady(r) \/ Refused(r) \/ RemovesFailed(r) \/ VerifyReady(r) \/ VerifyFails(r)
  <2>1. \E a : Replies(r, a, FALSE)
    BY <1>5 DEF CheckReady, Refused, RemovesFailed, VerifyReady, VerifyFails
  <2>2. pc'[r] = "idle" /\ run'[r].shown = <<>>
    BY <1>1, <2>1 DEF Replies, NoRun
  <2>3. QED
    BY <1>4, <2>2
<1>6. ASSUME NEW to, NEW t, Goes(r, to, t) PROVE pc'[r] = to /\ run'[r].shown = s \o t
  BY <1>1, <1>6 DEF Goes
<1>7. CASE CheckRequires(r)
  <2>1. pc'[r] = "preflight" /\ run'[r].shown = s \o <<"ProvisionRequired", "Preflight">>
    BY <1>6, <1>7 DEF CheckRequires
  <2>2. Rising(s, Len(s)) /\ Below(s, Len(s), 1)
    BY <1>7 DEF CheckRequires, StageInv, Ceiling
  <2> DEFINE t == s \o <<"ProvisionRequired">>
             u == t \o <<"Preflight">>
  <2>3. t \in Seq(StageNames) /\ Rising(t, Len(t)) /\ Below(t, Len(t), 3)
    BY <1>1, <1>2, <2>2, RankOf, OneMore
  <2>4. u \in Seq(StageNames) /\ Rising(u, Len(u)) /\ Below(u, Len(u), 4)
    <3> HIDE DEF t
    <3>1. QED
      BY <1>2, <2>3, RankOf, OneMore
  <2>5. run'[r].shown = u
    BY <1>1, <1>2, <2>1
  <2> HIDE DEF u
  <2>6. QED
    BY <2>1, <2>4, <2>5 DEF StageInv, Ceiling
<1>8. CASE SudoPasses(r)
  <2> DEFINE t == s \o <<"Uploading">>
  <2>1. pc'[r] = "mktemp" /\ run'[r].shown = t
    BY <1>6, <1>8 DEF SudoPasses
  <2>2. Rising(s, Len(s)) /\ Below(s, Len(s), 4)
    BY <1>8 DEF SudoPasses, StageInv, Ceiling
  <2>3. Rising(t, Len(t)) /\ Below(t, Len(t), 5)
    BY <1>1, <1>2, <2>2, RankOf, OneMore
  <2> HIDE DEF t
  <2>4. QED
    BY <2>1, <2>3 DEF StageInv, Ceiling
<1>9. CASE Mktemp(r)
  <2>1. run'[r].shown = s \o <<>> /\ pc[r] # "verify" /\ pc'[r] # "verify"
    BY <1>1, <1>9 DEF Mktemp, Goes
  <2>2. run'[r].shown = s
    BY <1>1, <2>1
  <2>3. Ceiling(r)' = Ceiling(r)
    BY <1>6, <1>9 DEF Mktemp, Ceiling
  <2>4. QED
    BY <2>1, <2>2, <2>3 DEF StageInv
<1>10. CASE Uploads(r)
  <2>1. pc'[r] = "run" /\ run'[r].shown = s \o <<>> /\ pc[r] = "upload"
    BY <1>6, <1>10 DEF Uploads
  <2>2. run'[r].shown = s
    BY <1>1, <2>1
  <2>3. script'[r] \in {"os", "ok"}
    BY <1>1, <1>10 DEF Uploads
  <2>4. Ceiling(r)' \in {5, 9}
    BY <2>1, <2>3 DEF Ceiling, ScriptCeiling
  <2>5. Rising(s, Len(s)) /\ Below(s, Len(s), 5)
    BY <2>1 DEF StageInv, Ceiling
  <2>6. Below(s, Len(s), Ceiling(r)')
    BY <1>1, <2>4, <2>5, HigherCeiling
  <2>7. QED
    BY <2>1, <2>2, <2>5, <2>6 DEF StageInv
<1>11. ASSUME pc[r] \in {"upload", "run"}, pc'[r] = "remove", run'[r].shown = s
       PROVE  StageInv(r)'
  <2>1. Ceiling(r) \in 0..9 /\ Ceiling(r)' = 9
    BY <1>11 DEF Ceiling, ScriptCeiling
  <2>2. Rising(s, Len(s)) /\ Below(s, Len(s), Ceiling(r))
    BY <1>11 DEF StageInv
  <2>3. Below(s, Len(s), 9)
    BY <1>1, <2>1, <2>2, HigherCeiling
  <2>4. QED
    BY <1>11, <2>1, <2>2, <2>3 DEF StageInv
<1>12. CASE ScriptAnswers(r) \/ OutputTooLarge(r)
  BY <1>1, <1>11, <1>12 DEF ScriptAnswers, OutputTooLarge, Closes
<1>13. ASSUME pc[r] = "remove", pc'[r] = "verify", run'[r].shown = s \o <<"Verifying">>
       PROVE  StageInv(r)'
  <2> DEFINE t == s \o <<"Verifying">>
  <2>1. pc'[r] = "verify" /\ run'[r].shown = t
    BY <1>13
  <2>2. Rising(s, Len(s)) /\ Below(s, Len(s), 9)
    BY <1>13 DEF StageInv, Ceiling
  <2>3. Len(t) = Len(s) + 1 /\ t[Len(t)] = "Verifying" /\ \A i \in 1..Len(s) : t[i] = s[i]
    BY <1>1
  <2> HIDE DEF t
  <2>4. Len(t) - 1 = Len(s) /\ Len(t) > 0
    BY <1>1, <2>3
  <2>5. Rising(t, Len(t) - 1) /\ Below(t, Len(t) - 1, 9)
    BY <2>2, <2>3, <2>4 DEF Rising, Below
  <2>6. QED
    BY <2>1, <2>3, <2>4, <2>5 DEF StageInv
<1>14. CASE Unanswered(r)
  <2>1. CASE \E a : Replies(r, a, TRUE)
    BY <1>1, <1>4, <2>1 DEF Replies, NoRun
  <2>2. CASE pc[r] \in {"upload", "run"}
    BY <1>1, <1>11, <1>14, <2>2 DEF Unanswered
  <2>3. CASE /\ pc[r] = "remove" /\ pc' = [pc EXCEPT ![r] = "verify"]
             /\ run' = [run EXCEPT ![r].shown = @ \o <<"Verifying">>, ![r].unanswered = TRUE]
    BY <1>1, <1>13, <2>3
  <2>4. QED
    BY <1>14, <2>1, <2>2, <2>3 DEF Unanswered
<1>15. CASE Removes(r)
  BY <1>6, <1>13, <1>15 DEF Removes
<1>16. QED
  BY <1>3, <1>5, <1>7, <1>8, <1>9, <1>10, <1>12, <1>14, <1>15 DEF Requests

\* A step of the script keeps them in order, its command waiting or gone.
LEMMA ScriptStages ==
  ASSUME PrepareTypeOK, NEW r \in Runs, StageInv(r), ScriptSteps(r)
  PROVE  StageInv(r)'
<1> DEFINE s == run[r].shown
<1>1. /\ run[r] \in [shown : Seq(StageNames), failed : BOOLEAN, unanswered : BOOLEAN,
                    answer : {"none", "ready", "refused", "failed"}]
      /\ DOMAIN run = Runs /\ DOMAIN pc = Runs /\ DOMAIN script = Runs
      /\ s \in Seq(StageNames) /\ Len(s) \in Nat
  BY DEF PrepareTypeOK
<1>2. pc' = pc
  BY DEF ScriptSteps, Supported, Unsupported, InstallSkips, AptRuns, AptLocked, AptInstalls,
     AptFails, KeepsSession, Configures, Truncates, Writes, WriteFails, Repairs, Serves, Joins,
     GroupFails, Restarts, Verified, Killed, ScriptGoes, ScriptEnds
<1>3. CASE pc[r] # "run"
  <2>1. run' = run
    BY <1>3 DEF ScriptSteps, Supported, Unsupported, InstallSkips, AptRuns, AptLocked, AptInstalls,
       AptFails, KeepsSession, Configures, Truncates, Writes, WriteFails, Repairs, Serves, Joins,
     GroupFails, Restarts, Verified, Killed, ScriptEnds, Prints
  <2>2. Ceiling(r)' = Ceiling(r)
    BY <1>2, <1>3 DEF Ceiling
  <2>3. QED
    BY <1>2, <2>1, <2>2 DEF StageInv
<1>4. CASE pc[r] = "run"
  <2>1. Rising(s, Len(s)) /\ Below(s, Len(s), ScriptCeiling(script[r]))
    BY <1>4 DEF StageInv, Ceiling
  <2>2. ASSUME NEW from, NEW to, ScriptGoes(r, from, to)
        PROVE  script[r] = from /\ script'[r] = to
    BY <1>1, <2>2 DEF ScriptGoes
  <2>3. ASSUME run' = run, ScriptCeiling(script[r]) <= ScriptCeiling(script'[r])
        PROVE  StageInv(r)'
    <3>1. ScriptCeiling(script[r]) \in Nat /\ ScriptCeiling(script'[r]) \in Nat
      BY DEF ScriptCeiling
    <3>2. Below(s, Len(s), ScriptCeiling(script'[r]))
      BY <1>1, <2>1, <2>3, <3>1, HigherCeiling
    <3>3. QED
      BY <1>2, <1>4, <2>1, <2>3, <3>2 DEF StageInv, Ceiling
  <2>4. ASSUME NEW line, NEW m \in StageNames, Parses(line) = <<m>>, Prints(r, line),
               ScriptCeiling(script[r]) <= Rank(m), Rank(m) <= ScriptCeiling(script'[r])
        PROVE  StageInv(r)'
    <3> DEFINE t == Streamed(s, line)
    <3>1. run'[r].shown = t
      BY <1>1, <1>4, <2>4 DEF Prints
    <3>2. ScriptCeiling(script[r]) \in Nat /\ ScriptCeiling(script'[r]) \in Nat /\ Rank(m) \in Nat
      BY RankTells DEF ScriptCeiling
    <3>3. Below(s, Len(s), Rank(m))
      BY <1>1, <2>1, <2>4, <3>2, HigherCeiling
    <3>4. Rising(t, Len(t)) /\ Below(t, Len(t), Rank(m))
      BY <1>1, <2>1, <2>4, <3>3, StreamedRises
    <3>5. t \in Seq(StageNames)
      BY <1>1, <2>4 DEF Streamed
    <3> HIDE DEF t
    <3>6. Below(t, Len(t), ScriptCeiling(script'[r]))
      BY <2>4, <3>2, <3>4, <3>5, HigherCeiling
    <3>7. QED
      BY <1>2, <1>4, <3>1, <3>4, <3>6 DEF StageInv, Ceiling
  <2>5. \A m \in {"InstallingPackages", "ConfiguringSession", "StartingService", "Verifying"} :
          m \in StageNames
    BY DEF StageNames, Stages
  <2>6. CASE Supported(r) \/ InstallSkips(r) \/ AptInstalls(r)
    <3>1. script[r] \in {"os", "install", "apt"} /\ script'[r] \in {"install", "configure"}
      BY <2>2, <2>6 DEF Supported, InstallSkips, AptInstalls
    <3>2. Prints(r, "install_packages") /\ Parses("install_packages") = <<"InstallingPackages">>
      BY <2>6 DEF Supported, InstallSkips, AptInstalls, Parses
    <3>3. ScriptCeiling(script[r]) <= 6 /\ 6 <= ScriptCeiling(script'[r])
      BY <3>1 DEF ScriptCeiling
    <3>4. QED
      BY <2>4, <2>5, <3>2, <3>3, RankOf
  <2>7. CASE KeepsSession(r) \/ Configures(r) \/ Repairs(r)
    <3>1. script[r] \in {"configure", "repair"} /\ script'[r] \in {"rewrite", "repair", "service"}
      BY <2>2, <2>7 DEF KeepsSession, Configures, Repairs
    <3>2. PICK line \in {"configure_session", "fix_xsessionrc"} : Prints(r, line)
      BY <2>7 DEF KeepsSession, Configures, Repairs
    <3>3. Parses(line) = <<"ConfiguringSession">>
      BY DEF Parses
    <3>4. ScriptCeiling(script[r]) <= 7 /\ 7 <= ScriptCeiling(script'[r])
      BY <3>1 DEF ScriptCeiling
    <3>5. QED
      BY <2>4, <2>5, <3>2, <3>3, <3>4, RankOf
  <2>8. CASE Serves(r) \/ Joins(r)
    <3>1. script[r] = "service" /\ script'[r] \in {"verify", "restart"}
      BY <2>2, <2>8 DEF Serves, Joins
    <3>2. Prints(r, "enable_service") /\ Parses("enable_service") = <<"StartingService">>
      BY <2>8 DEF Serves, Joins, Parses
    <3>3. ScriptCeiling(script[r]) <= 8 /\ 8 <= ScriptCeiling(script'[r])
      BY <3>1 DEF ScriptCeiling
    <3>4. QED
      BY <2>4, <2>5, <3>2, <3>3, RankOf
  <2>9. CASE Verified(r)
    <3>1. script[r] = "verify" /\ script'[r] \in {"ok", "error"}
      BY <1>4, <2>2, <2>9 DEF Verified
    <3>2. Prints(r, "verify") /\ Parses("verify") = <<"Verifying">>
      BY <2>9 DEF Verified, Parses
    <3>3. ScriptCeiling(script[r]) <= 9 /\ 9 <= ScriptCeiling(script'[r])
      BY <3>1 DEF ScriptCeiling
    <3>4. QED
      BY <2>4, <2>5, <3>2, <3>3, RankOf
  <2>10. CASE AptRuns(r)
    <3>1. script[r] = "install" /\ script'[r] = "apt" /\ run' = run
      BY <2>2, <2>10 DEF AptRuns
    <3>2. QED
      BY <2>3, <3>1 DEF ScriptCeiling
  <2>11. CASE Truncates(r) \/ Writes(r) \/ WriteFails(r) \/ Restarts(r)
    <3>1. /\ \/ script[r] \in {"rewrite", "write"} /\ script'[r] \in {"write", "repair"}
             \/ script[r] = "restart" /\ script'[r] = "verify"
          /\ run' = run
      BY <2>2, <2>11 DEF Truncates, Writes, WriteFails, Restarts
    <3>2. QED
      BY <2>3, <3>1 DEF ScriptCeiling
  <2>12. CASE Unsupported(r) \/ AptLocked(r) \/ AptFails(r) \/ GroupFails(r) \/ Killed(r)
    <3>1. run' = run
      BY <2>12 DEF Unsupported, AptLocked, AptFails, GroupFails, Killed, ScriptEnds
    <3>2. script'[r] \in {"error", "killed"}
      BY <1>4, <2>2, <2>12 DEF Unsupported, AptLocked, AptFails, GroupFails, Killed, ScriptEnds
    <3>3. ScriptCeiling(script[r]) \in 0..9 /\ ScriptCeiling(script'[r]) = 9
      BY <3>2 DEF ScriptCeiling
    <3>4. QED
      BY <2>3, <3>1, <3>3
  <2>13. QED
    BY <2>6, <2>7, <2>8, <2>9, <2>10, <2>11, <2>12 DEF ScriptSteps
<1>5. QED
  BY <1>3, <1>4

\* The stages of the other commands are left alone.
LEMMA OtherStages ==
  ASSUME PrepareTypeOK, NEW r \in Runs, NEW q \in Runs, q # r, StageInv(q),
         Prepare(r) \/ Requests(r) \/ OutputTooLarge(r) \/ ScriptSteps(r)
  PROVE  StageInv(q)'
<1>1. DOMAIN run = Runs /\ DOMAIN pc = Runs /\ DOMAIN script = Runs
  BY DEF PrepareTypeOK
<1>2. pc'[q] = pc[q]
  BY <1>1 DEF Requests, Prepare, OutputTooLarge, CheckReady, CheckRequires, SudoPasses, Refused, Mktemp,
     Uploads, ScriptAnswers, RemovesFailed, Removes, VerifyReady, VerifyFails, Unanswered,
     ScriptSteps, Supported, Unsupported, InstallSkips, AptRuns, AptLocked, AptInstalls,
     AptFails, KeepsSession, Configures, Truncates, Writes, WriteFails, Repairs, Serves, Joins,
     GroupFails, Restarts, Verified, Killed, ScriptGoes, ScriptEnds,
     Goes, Replies, Closes
<1>3. script'[q] = script[q]
  BY <1>1 DEF Requests, Prepare, OutputTooLarge, CheckReady, CheckRequires, SudoPasses, Refused, Mktemp,
     Uploads, ScriptAnswers, RemovesFailed, Removes, VerifyReady, VerifyFails, Unanswered,
     ScriptSteps, Supported, Unsupported, InstallSkips, AptRuns, AptLocked, AptInstalls,
     AptFails, KeepsSession, Configures, Truncates, Writes, WriteFails, Repairs, Serves, Joins,
     GroupFails, Restarts, Verified, Killed, ScriptGoes, ScriptEnds
<1>4. run'[q] = run[q]
  <2>1. CASE Prepare(r) \/ Requests(r) \/ OutputTooLarge(r)
    BY <1>1, <2>1 DEF Requests, Prepare, OutputTooLarge, CheckReady, CheckRequires, SudoPasses, Refused,
       Mktemp, Uploads, ScriptAnswers, RemovesFailed, Removes, VerifyReady,
       VerifyFails, Unanswered, Goes, Replies, Closes
  <2>2. CASE ScriptSteps(r)
    <3>1. UNCHANGED run \/ \E line : Prints(r, line)
      BY <2>2 DEF ScriptSteps, Supported, Unsupported, InstallSkips, AptRuns, AptLocked, AptInstalls,
         AptFails, KeepsSession, Configures, Truncates, Writes, WriteFails, Repairs, Serves, Joins,
     GroupFails, Restarts, Verified, Killed, ScriptEnds
    <3>2. QED
      BY <1>1, <3>1 DEF Prints
  <2>3. QED
    BY <2>1, <2>2
<1>5. Ceiling(q)' = Ceiling(q)
  BY <1>2, <1>3 DEF Ceiling
<1>6. QED
  BY <1>2, <1>4, <1>5 DEF StageInv

\* Every step keeps the inductive invariant.
LEMMA PrepareStep == PrepareIInv /\ [PrepareNext]_prepareVars => PrepareIInv'
<1> SUFFICES ASSUME PrepareIInv, [PrepareNext]_prepareVars
             PROVE  PrepareIInv'
  OBVIOUS
<1>1. PrepareTypeOK' /\ NoLeftover'
  BY PrepareTypeStep, LeftoverStep DEF PrepareIInv
<1>2. ASSUME NEW q \in Runs PROVE StageInv(q)'
  <2>1. PrepareTypeOK /\ StageInv(q)
    BY DEF PrepareIInv
  <2>2. CASE UNCHANGED <<script, pc, run>>
    <3>1. Ceiling(q)' = Ceiling(q)
      BY <2>2 DEF Ceiling
    <3>2. QED
      BY <2>1, <2>2, <3>1 DEF StageInv
  <2>3. ASSUME NEW r \in Runs, Prepare(r) \/ Requests(r) \/ OutputTooLarge(r) \/ ScriptSteps(r)
        PROVE  StageInv(q)'
    <3>1. CASE q = r
      BY <2>1, <2>3, <3>1, RequestStages, ScriptStages
    <3>2. CASE q # r
      BY <2>1, <2>3, <3>2, OtherStages
    <3>3. QED
      BY <3>1, <3>2
  <2>4. QED
    BY <2>2, <2>3 DEF PrepareNext, Listens, Breaks, prepareVars
<1>3. QED
  BY <1>1, <1>2 DEF PrepareIInv

\* What a prepare shows goes forward, and what it leaves behind is removed
\* unless a request of it got no answer.
THEOREM PrepareInvariant == PrepareSpec => []PrepareInv
<1>1. PrepareInit => PrepareIInv
  <2> SUFFICES ASSUME PrepareInit PROVE PrepareIInv
    OBVIOUS
  <2>1. PrepareTypeOK
    BY JetsonsAssumption DEF PrepareInit, PrepareTypeOK, NoRun
  <2>2. NoLeftover
    BY DEF PrepareInit, NoLeftover
  <2>3. ASSUME NEW r \in Runs PROVE StageInv(r)
    BY <2>3 DEF PrepareInit, NoRun, StageInv, Ceiling, Rising, Below
  <2>4. QED
    BY <2>1, <2>2, <2>3 DEF PrepareIInv
<1>2. PrepareIInv => PrepareInv
  BY StagesRise DEF PrepareIInv, PrepareInv
<1>3. QED
  BY <1>1, <1>2, PrepareStep, PTL DEF PrepareSpec
=============================================================================
