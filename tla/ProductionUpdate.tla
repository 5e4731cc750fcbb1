-------------------------- MODULE ProductionUpdate --------------------------
(***************************************************************************)
(* The updater the application ships (src-tauri/src/updater.rs) and the    *)
(* footer that drives it (features/update/UpdateChecker.tsx): ask GitHub   *)
(* for the latest release, download, extract, rename the running bundle    *)
(* away and the new one in, start it and exit.  Nothing is recorded on     *)
(* disk.  One instance of the application runs at a time; it may be killed *)
(* before any step and started again, if there is still a bundle to start. *)
(***************************************************************************)
EXTENDS Naturals, Sequences

CONSTANTS
  Releases,    \* release versions, as parse_version reads them: sequences of numbers
  Rank,        \* the order the releases are meant to have
  HalfBundle,  \* a bundle with files missing
  NONE

ASSUME UpdateAssumption ==
  /\ Releases \subseteq Seq(Nat)
  /\ Rank \in [Releases -> Nat]
  /\ NONE \notin Releases /\ HalfBundle \notin Releases \cup {NONE}

VARIABLES
  latest,   \* GitHub's latest release, NONE before the first
  app,      \* the bundle at the application's path
  backups,  \* the bundles under a .old- name beside it
  new,      \* what the work directory's extract/ holds
  tar,      \* the downloaded archive
  proc      \* the process: its version, the footer's phase or the install's step, the offer

productionVars == <<latest, app, backups, new, tar, proc>>

Bundles == Releases \cup {NONE, HalfBundle}
FooterPhases == {"idle", "checking", "latest", "no-release", "available", "error"}
Steps == {"download", "extract", "locate", "away", "in", "undo", "relaunch"}
Down == [ver |-> NONE, at |-> "down", offer |-> NONE]

ProductionTypeOK ==
  /\ latest \in Releases \cup {NONE}
  /\ app \in Bundles
  /\ backups \subseteq Bundles
  /\ new \in Bundles
  /\ tar \in {"none", "cut", "whole"}
  /\ proc \in [ver : Releases \cup {NONE}, at : FooterPhases \cup Steps \cup {"down"},
               offer : Releases \cup {NONE}]
  /\ proc.at \in Steps => proc.offer # NONE

ProductionInit ==
  /\ latest = NONE
  /\ app \in Releases
  /\ backups = {} /\ new = NONE /\ tar = "none"
  /\ proc = Down

Publish ==
  /\ latest' \in Releases \ {latest}
  /\ UNCHANGED <<app, backups, new, tar, proc>>

Launch ==
  /\ proc = Down
  /\ app \in Releases
  /\ proc' = [Down EXCEPT !.ver = app, !.at = "idle"]
  /\ UNCHANGED <<latest, app, backups, new, tar>>

Killed ==
  /\ proc # Down
  /\ proc' = Down
  /\ UNCHANGED <<latest, app, backups, new, tar>>

Goes(from, to) == proc.at = from /\ proc' = [proc EXCEPT !.at = to]
Fails(from) == Goes(from, "error")

(***************************************************************************)
(* check_for_update.                                                       *)
(***************************************************************************)
Part(v, i) == IF i <= Len(v) THEN v[i] ELSE 0

\* Mutant: a version with more parts is the newer one.
NewerWhenLonger(a, b) == Len(b) > Len(a) \/ \E i \in 1..Len(b) : Part(b, i) > Part(a, i)
Newer(a, b) ==
  \E i \in 1..(Len(a) + Len(b)) :
    /\ Part(b, i) > Part(a, i)
    /\ \A j \in 1..(i - 1) : Part(b, j) = Part(a, j)

Check == Goes("idle", "checking") /\ UNCHANGED <<latest, app, backups, new, tar>>

\* The release may come without an .app.tar.gz: then there is nothing to click.
CheckAnswers ==
  /\ proc.at = "checking"
  /\ \E asset \in {latest, NONE} :
       proc' = [proc EXCEPT
         !.offer = asset,
         !.at = IF latest = NONE THEN "no-release"
                ELSE IF Newer(proc.ver, latest) THEN "available" ELSE "latest"]
  /\ UNCHANGED <<latest, app, backups, new, tar>>

CheckFails == Fails("checking") /\ UNCHANGED <<latest, app, backups, new, tar>>

(***************************************************************************)
(* do_install.                                                             *)
(***************************************************************************)
Installable == proc.offer # NONE

\* The work directory is made anew; that its removal may fail is not looked at.
ClickInstall ==
  /\ Installable
  /\ Goes("available", "download")
  /\ new' \in {NONE, new} /\ tar' \in {"none", tar}
  /\ UNCHANGED <<latest, app, backups>>

\* curl's exit status is not looked at: a body cut short passes when it is long enough.
Download ==
  /\ Goes("download", "extract")
  /\ tar' \in {"cut", "whole"}
  /\ UNCHANGED <<latest, app, backups, new>>
DownloadFails ==
  /\ Fails("download")
  /\ tar' \in {"none", "cut"}
  /\ UNCHANGED <<latest, app, backups, new>>

Extracted == tar = "whole" /\ new' = proc.offer

Extract ==
  /\ Goes("extract", "locate")
  /\ Extracted
  /\ UNCHANGED <<latest, app, backups, tar>>
ExtractFails ==
  /\ Fails("extract")
  /\ new' \in {new, HalfBundle}
  /\ UNCHANGED <<latest, app, backups, tar>>

\* There is an .app with its executable in it.
Locate == Goes("locate", "away") /\ UNCHANGED <<latest, app, backups, new, tar>>
LocateFails == Fails("locate") /\ UNCHANGED <<latest, app, backups, new, tar>>

Away ==
  /\ Goes("away", "in")
  /\ app' = NONE
  /\ backups' = backups \cup {app}
  /\ UNCHANGED <<latest, new, tar>>
AwayFails == Fails("away") /\ UNCHANGED <<latest, app, backups, new, tar>>

MoveIn ==
  /\ Goes("in", "relaunch")
  /\ app' = new
  /\ new' = NONE
  /\ UNCHANGED <<latest, backups, tar>>
MoveInFails == Goes("in", "undo") /\ UNCHANGED <<latest, app, backups, new, tar>>

Back == app' = proc.ver /\ backups' = backups \ {proc.ver}
\* Mutant: what is left of a failed install is removed, the backup with it.
UndoneAndCleaned == Back \/ (app' = app /\ backups' = backups \ {proc.ver})
\* The rename back may fail as well; that is not looked at either.
Undone == Back \/ UNCHANGED <<app, backups>>

Undo ==
  /\ Fails("undo")
  /\ Undone
  /\ UNCHANGED <<latest, new, tar>>

\* The backup is removed, or a part of it; open -n; exit(0).
Relaunch ==
  /\ proc.at = "relaunch"
  /\ \E rest \in {{}, {HalfBundle}, {proc.ver}} : backups' = (backups \ {proc.ver}) \cup rest
  /\ proc' = Down
  /\ UNCHANGED <<latest, app, new, tar>>

Updates ==
  \/ CheckAnswers \/ CheckFails \/ Download \/ DownloadFails \/ Extract \/ ExtractFails
  \/ Locate \/ LocateFails \/ Away \/ AwayFails \/ MoveIn \/ MoveInFails \/ Undo \/ Relaunch

ProductionNext == Publish \/ Launch \/ Killed \/ Check \/ ClickInstall \/ Updates

ProductionSpec == ProductionInit /\ [][ProductionNext]_productionVars

(***************************************************************************)
(* Properties.                                                             *)
(***************************************************************************)
\* Whatever was cut short, what stands at the application's path is a whole
\* bundle, or nothing.
AppIsWhole == app # HalfBundle

\* The last whole bundle is never removed: killed between the two renames, or
\* with a rollback that failed, the old one is still there under its backup name.
LastCopyKept == app \in Releases \/ backups \cap Releases # {}

\* At every instant there is a whole bundle to start or to move back, and never
\* half of one at the application's path.
BundleKept == AppIsWhole /\ LastCopyKept

\* What is moved in is a later release than what was moved away, by the order
\* the releases are meant to have.
NeverOlder == [][MoveIn => Rank[app'] > Rank[proc.ver]]_productionVars

=============================================================================
