--------------------------- MODULE RememberedDevices ---------------------------
(***************************************************************************)
(* The memory of devices (src-tauri/src/remember.rs) and its commands       *)
(* (commands/remember.rs): the list in remembered.json, the passwords in    *)
(* secrets.json.  Each file is replaced as a whole (a temporary file, then  *)
(* a rename), so a write is one step; a command makes several of them, may  *)
(* stop after any of them, and a connection that resolves its password      *)
(* reads the two files one after the other in the middle of it.             *)
(*                                                                          *)
(* remember_device and forget_remembered_device are not async: they run on  *)
(* the main thread, one at a time.  Names are left out, an upsert stamps    *)
(* later than what is in the file, so the order of the file is the order of *)
(* the stamps.  An address keeps its device.                                *)
(***************************************************************************)
EXTENDS Naturals, FiniteSets, SequencesExt

CONSTANTS
  Devices,      \* deviceIds
  Nameless,     \* the devices that report neither serial nor machine-id
  Users, Hosts, Passwords,
  At,           \* the device behind an address
  Owner,        \* the device a password is good for
  Reports,      \* device -> the lists of addresses detect.sh may print
  OldFiles,     \* what a file of version 2 may list: sets of logins, by address
  NONE

ASSUME RememberAssumption ==
  /\ Nameless \subseteq Devices
  /\ At \in [Hosts -> Devices]
  /\ Owner \in [Passwords -> Devices]
  /\ Reports \in [Devices -> SUBSET Seq(Hosts)]
  \* detect.sh:145 leaves out the addresses that every Jetson has.
  /\ \A d \in Devices : \A ps \in Reports[d] : \A h \in ToSet(ps) : At[h] = d
  /\ OldFiles \subseteq SUBSET (Users \X Hosts)
  /\ \A old \in OldFiles : IsFiniteSet(old)
  \* No address is written like a serial or a machine-id.
  /\ Devices \cap Hosts = {}
  /\ NONE \notin Devices \cup Hosts \cup Passwords

VARIABLES
  valid,        \* what sshd accepts: login -> password
  list,         \* remembered.json, most recent first
  secrets,      \* secrets.json: account -> password
  cmd,          \* the command on the main thread
  ask,          \* a connection that resolves its password
  kept          \* history: login -> what was last remembered for it

vars == <<valid, list, secrets, cmd, ask, kept>>

Accounts == Users \X (Devices \cup Hosts)
Logins == Users \X Devices

Row(d, u, ps) == [dev |-> d, user |-> u, paths |-> ps]

\* RememberedDevice::account.
Account(r) == <<r.user, IF r.dev # NONE THEN r.dev ELSE r.paths[1]>>

AtAny(r, hs) == ToSet(r.paths) \cap hs # {}

\* same_device(None, ..): same_device_legacy.
Legacy(r, u, hs) == r.dev = NONE /\ r.user = u /\ AtAny(r, hs)

Idle == [op |-> "none"]
Silent == [op |-> "none"]

Rows == [dev : Devices \cup {NONE}, user : Users, paths : Seq(Hosts) \ {<<>>}]

\* One row per device, one per legacy address.
Distinct(rows) ==
  \A i, j \in DOMAIN rows :
    /\ rows[i].dev = rows[j].dev
    /\ rows[i].dev = NONE => Account(rows[i]) = Account(rows[j])
    => i = j

TypeOK ==
  /\ valid \in [Logins -> Passwords]
  /\ list \in Seq(Rows)
  /\ secrets \in [Accounts -> Passwords \cup {NONE}]
  /\ cmd \in {Idle}
         \cup [op : {"merge", "unlist", "upsert"}, row : Rows, typed : Passwords \cup {NONE},
               login : Logins, todo : Seq(Rows)]
         \cup [op : {"delete"}, dev : Devices \cup {NONE}, host : Hosts, user : Users,
               todo : Seq(Accounts)]
  /\ ask \in {Silent}
         \cup [op : {"listed"}, dev : Devices \cup {NONE}, host : Hosts, user : Users,
               rows : Seq(Rows)]
  /\ kept \in [Logins -> Passwords \cup {NONE}]

\* filter: the elements of s at the places I, in their order.
Filtered(s, I) ==
  [k \in 1..Cardinality(I) |-> s[CHOOSE i \in I : Cardinality({j \in I : j <= i}) = k]]

\* find: the first of them.
First(s, I) == s[CHOOSE i \in I : \A j \in I : i <= j]

\* A row of a file of version 2 (or 1): one address, no id.
OldRow(o) == Row(NONE, o[1], <<o[2]>>)

Init ==
  /\ valid \in {v \in [Logins -> Passwords] : \A l \in Logins : Owner[v[l]] = l[2]}
  /\ \E old \in OldFiles :
       /\ list \in SetToSeqs({OldRow(o) : o \in old})
       /\ secrets \in {s \in [Accounts -> Passwords \cup {NONE}] :
                         \A a \in Accounts :
                           s[a] # NONE => a \in old /\ Owner[s[a]] = At[a[2]]}
  /\ cmd = Idle
  /\ ask = Silent
  /\ kept = [l \in Logins |-> NONE]

-----------------------------------------------------------------------------
(* resolve_password.                                                        *)

ByHost(rows, h, u) == {i \in DOMAIN rows : rows[i].user = u /\ h \in ToSet(rows[i].paths)}

SecretAt(rows, found) == IF found = {} THEN NONE ELSE secrets[Account(First(rows, found))]

\* Mutant: the user's most recent device.
ResolvedRecent(rows, d, h, u) == SecretAt(rows, {i \in DOMAIN rows : rows[i].user = u})

\* The row of the id if its secret is there, or else the first at the address.
Resolved(rows, d, h, u) ==
  LET exact == {i \in DOMAIN rows : d # NONE /\ rows[i].dev = d /\ rows[i].user = u}
  IN  IF SecretAt(rows, exact) # NONE THEN SecretAt(rows, exact)
      ELSE SecretAt(rows, ByHost(rows, h, u))

\* load_all.
Lists(d, h, u) ==
  /\ ask = Silent
  /\ ask' = [op |-> "listed", dev |-> d, host |-> h, user |-> u, rows |-> list]
  /\ UNCHANGED <<valid, list, secrets, cmd, kept>>

Answer == Resolved(ask.rows, ask.dev, ask.host, ask.user)

\* secrets.get.
Answers ==
  /\ ask.op = "listed"
  /\ ask' = Silent
  /\ UNCHANGED <<valid, list, secrets, cmd, kept>>

ChangePassword(l) ==
  /\ \E p \in Passwords \ {valid[l]} :
       Owner[p] = l[2] /\ valid' = [valid EXCEPT ![l] = p]
  /\ UNCHANGED <<list, secrets, cmd, ask, kept>>

-----------------------------------------------------------------------------
(* remember_device, after a connection that authenticated.                  *)

WithEntry(ps, h) == IF h \in ToSet(ps) THEN ps ELSE Append(ps, h)

IdOf(h) == IF At[h] \in Nameless THEN NONE ELSE At[h]

\* legacy_merge_candidates.
Candidates(u, ps) == Filtered(list, {i \in DOMAIN list : Legacy(list[i], u, ToSet(ps))})

Remember(h, u, typed) ==
  /\ cmd = Idle
  /\ \/ typed = valid[<<u, At[h]>>]
     \/ /\ typed = NONE
        /\ \E id \in {NONE, IdOf(h)} : Resolved(list, id, h, u) = valid[<<u, At[h]>>]
  /\ \E ps \in Reports[At[h]] :
       cmd' = [op |-> "merge", row |-> Row(IdOf(h), u, WithEntry(ps, h)),
               typed |-> typed, login |-> <<u, At[h]>>,
               todo |-> Candidates(u, WithEntry(ps, h))]
  /\ UNCHANGED <<valid, list, secrets, ask, kept>>

Sets(a, p) == secrets' = [secrets EXCEPT ![a] = p]

\* Mutant: the legacy secret wins.
NeedsCopyAlways ==
  LET old == secrets[Account(Head(cmd.todo))]
  IN  old # NONE /\ secrets[Account(cmd.row)] # old

NeedsCopy ==
  /\ secrets[Account(Head(cmd.todo))] # NONE
  /\ secrets[Account(cmd.row)] = NONE

MergeCopies ==
  /\ cmd.op = "merge"
  /\ cmd.todo # <<>>
  /\ NeedsCopy
  /\ Sets(Account(cmd.row), secrets[Account(Head(cmd.todo))])
  /\ UNCHANGED <<valid, list, cmd, ask, kept>>

MergeDeletes ==
  /\ cmd.op = "merge"
  /\ cmd.todo # <<>>
  /\ ~NeedsCopy
  /\ Sets(Account(Head(cmd.todo)), NONE)
  /\ cmd' = [cmd EXCEPT !.op = "unlist"]
  /\ UNCHANGED <<valid, list, ask, kept>>

\* Mutant: a forget by id leaves the legacy rows at its address.
MatchedExactly(r, d, h, u) == IF d # NONE THEN r.dev = d ELSE Legacy(r, u, {h})

\* RememberedDeviceStore::remove.
Matched(r, d, h, u) ==
  \/ d # NONE /\ r.dev = d
  \/ Legacy(r, u, {h})

Removed(d, h, u) == Filtered(list, {i \in DOMAIN list : ~Matched(list[i], d, h, u)})

MergeUnlists ==
  /\ cmd.op = "unlist"
  /\ list' = Removed(NONE, Head(cmd.todo).paths[1], cmd.row.user)
  /\ cmd' = [cmd EXCEPT !.op = "merge", !.todo = Tail(@)]
  /\ UNCHANGED <<valid, secrets, ask, kept>>

\* A typed password is written before the row.
WritesSecret ==
  /\ cmd.op = "merge"
  /\ cmd.todo = <<>>
  /\ cmd.typed # NONE
  /\ Sets(Account(cmd.row), cmd.typed)
  /\ kept' = IF kept[cmd.login] # NONE THEN [kept EXCEPT ![cmd.login] = cmd.typed] ELSE kept
  /\ cmd' = [cmd EXCEPT !.op = "upsert"]
  /\ UNCHANGED <<valid, list, ask>>

\* upsert: the row goes to the front, in the place of the same device's.
SameDevice(r, row) ==
  \/ row.dev # NONE /\ r.dev = row.dev
  \/ row.dev = NONE /\ Legacy(r, row.user, ToSet(row.paths))

Others(row) == Filtered(list, {i \in DOMAIN list : ~SameDevice(list[i], row)})

Upserted(row) == <<row>> \o Others(row)

Upserts ==
  /\ \/ cmd.op = "upsert"
     \/ cmd.op = "merge" /\ cmd.todo = <<>> /\ cmd.typed = NONE
  /\ list' = Upserted(cmd.row)
  /\ kept' = [l \in Logins |->
                IF l = cmd.login THEN secrets[Account(cmd.row)]
                ELSE IF l[2] = cmd.login[2] THEN NONE ELSE kept[l]]
  /\ cmd' = Idle
  /\ UNCHANGED <<valid, secrets, ask>>

-----------------------------------------------------------------------------
(* forget_remembered_device.                                                *)

Forgettable(d, h, u) ==
  Filtered(list, {i \in DOMAIN list : list[i].user = u /\ Matched(list[i], d, h, u)})

\* Nothing listed: the account is derived.
AccountsOf(d, h, u) ==
  LET rows == Forgettable(d, h, u)
  IN  IF rows = <<>> THEN <<<<u, IF d # NONE THEN d ELSE h>>>>
      ELSE [i \in 1..Len(rows) |-> Account(rows[i])]

Forget(d, h, u) ==
  /\ cmd = Idle
  /\ d \in {NONE, IdOf(h)}
  /\ cmd' = [op |-> "delete", dev |-> d, host |-> h, user |-> u, todo |-> AccountsOf(d, h, u)]
  /\ kept' = IF d # NONE \/ At[h] \in Nameless
             THEN [kept EXCEPT ![<<u, At[h]>>] = NONE] ELSE kept
  /\ UNCHANGED <<valid, list, secrets, ask>>

ForgetDeletes ==
  /\ cmd.op = "delete"
  /\ cmd.todo # <<>>
  /\ Sets(Head(cmd.todo), NONE)
  /\ cmd' = [cmd EXCEPT !.todo = Tail(@)]
  /\ UNCHANGED <<valid, list, ask, kept>>

ForgetUnlists ==
  /\ cmd.op = "delete"
  /\ cmd.todo = <<>>
  /\ list' = Removed(cmd.dev, cmd.host, cmd.user)
  /\ cmd' = Idle
  /\ UNCHANGED <<valid, secrets, ask, kept>>

\* The application ends, or a write fails and its error is returned.
Stops ==
  /\ cmd # Idle
  /\ cmd' = Idle
  /\ UNCHANGED <<valid, list, secrets, ask, kept>>

-----------------------------------------------------------------------------

Commands ==
  \/ MergeCopies \/ MergeDeletes \/ MergeUnlists \/ WritesSecret \/ Upserts
  \/ ForgetDeletes \/ ForgetUnlists \/ Stops

Next ==
  \/ \E h \in Hosts, u \in Users :
       \/ \E d \in {NONE, IdOf(h)} : Lists(d, h, u) \/ Forget(d, h, u)
       \/ \E typed \in Passwords \cup {NONE} : Remember(h, u, typed)
  \/ Answers
  \/ \E l \in Logins : ChangePassword(l)
  \/ Commands

Spec == Init /\ [][Next]_vars

-----------------------------------------------------------------------------
(* Properties.                                                              *)

\* A device that was remembered and not forgotten connects with a blank
\* password, at any of its addresses, in the middle of other commands and
\* after those that stopped half way: with the password last remembered.
RememberedConnects ==
  [][(/\ Answers
      /\ \E r \in ToSet(ask.rows) :
           /\ r.dev = At[ask.host] /\ r.user = ask.user
           /\ ask.dev # NONE \/ ask.host \in ToSet(r.paths)
      /\ kept[<<ask.user, At[ask.host]>>] # NONE)
     => Answer = kept[<<ask.user, At[ask.host]>>]]_vars

\* A blank password is never answered with another device's.
OwnSecret ==
  ask.op = "listed" /\ Answer # NONE => Owner[Answer] = At[ask.host]

\* One row per device and per legacy address, and every answer the device's own.
MemoryInv == TypeOK /\ Distinct(list) /\ OwnSecret

\* After a device's forget a blank password gets nowhere with its id or the
\* address that was forgotten, whatever earlier commands left half done.
ForgottenIsGone ==
  [][ForgetUnlists /\ cmd.dev # NONE => Resolved(list', cmd.dev, cmd.host, cmd.user) = NONE]_vars
=============================================================================
