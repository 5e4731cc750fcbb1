------------------------------ MODULE Provisioning ------------------------------
(***************************************************************************)
(* prepare_remote_desktop after its session is authenticated                *)
(* (src-tauri/src/commands/connection.rs): check the environment, provision *)
(* it, verify (src-tauri/src/bootstrap/), request by request over the SSH   *)
(* executor (src-tauri/src/ssh/), against scripts/remote/bootstrap.sh on    *)
(* the Jetson.  The script goes on when its command has given up; two       *)
(* commands may prepare the same Jetson at once, since leaving the wizard   *)
(* does not stop a command.                                                 *)
(*                                                                          *)
(* A request that gets no answer in time and one that fails with the link   *)
(* are the same here: the command cannot tell whether it was carried out.   *)
(* The Jetson is one fact per part that classify and the script tell apart: *)
(* what both look at differs, and where it does a part has a value of its   *)
(* own ("checked", "plain", "torn", "deaf").                                *)
(***************************************************************************)
EXTENDS Naturals, Sequences

CONSTANTS
  Runs,       \* prepare commands; one is named again when it is gone
  Jetsons,    \* the states a Jetson may be in at first
  Breakable   \* the parts that somebody else may break meanwhile

VARIABLES
  env,      \* the Jetson
  script,   \* where a run's bootstrap.sh is on the Jetson
  files,    \* the runs whose temporary script is on the Jetson
  pc,
  run       \* what a command knows: the stages shown, an error, a request unanswered

prepareVars == <<env, script, files, pc, run>>

\* ProvisionStage, in its order.
Stages == <<"CheckingEnvironment", "AlreadyReady", "ProvisionRequired", "Preflight", "Uploading",
            "InstallingPackages", "ConfiguringSession", "StartingService", "Verifying", "Complete">>

\* packages: "checked" are the three classify asks for, "all" the six of the
\* script; interrupted: dpkg stopped half way, and apt-get refuses until
\* somebody mends it; xsession: "plain" starts the desktop but leaves its
\* compositor on, "torn" is one of the script's that ends before it starts the
\* desktop; host: .xsessionrc parses, ::1 is on lo, xrdp is enabled; service:
\* "keyless" runs without the group of the TLS key, "deaf" is active and does
\* not listen.
Environment ==
  [packages : {"missing", "checked", "all"}, interrupted : BOOLEAN,
   xsession : {"none", "plain", "torn", "own"}, host : BOOLEAN,
   service : {"down", "keyless", "deaf", "up"}]

ASSUME JetsonsAssumption == Jetsons \subseteq Environment
ASSUME BreakableAssumption == Breakable \subseteq {"packages", "xsession", "host", "service"}

NoRun == [shown |-> <<>>, failed |-> FALSE, unanswered |-> FALSE, answer |-> "none"]

Going == {"os", "install", "apt", "configure", "rewrite", "write", "repair", "service", "restart",
          "verify"}
Ended == {"ok", "error", "killed"}

StageNames == {Stages[i] : i \in DOMAIN Stages}

PrepareTypeOK ==
  /\ env \in Environment
  /\ script \in [Runs -> Going \cup Ended \cup {"none"}]
  /\ files \subseteq Runs
  /\ pc \in [Runs -> {"idle", "check", "preflight", "mktemp", "upload", "run", "remove", "verify"}]
  /\ run \in [Runs -> [shown : Seq(StageNames), failed : BOOLEAN, unanswered : BOOLEAN,
                       answer : {"none", "ready", "refused", "failed"}]]

PrepareInit ==
  /\ env \in Jetsons
  /\ script = [r \in Runs |-> "none"]
  /\ files = {}
  /\ pc = [r \in Runs |-> "idle"]
  /\ run = [r \in Runs |-> NoRun]

\* Mutant: the session does not count.
ClassifyService(e) == e.packages # "missing" /\ e.host /\ e.service = "up"

\* What is not ready is provisioned, whatever it is called.
Classify(e) ==
  e.packages # "missing" /\ e.xsession \in {"plain", "own"} /\ e.host /\ e.service = "up"

Ready ==
  env.packages # "missing" /\ env.xsession \in {"plain", "own"} /\ env.host /\ env.service = "up"

-----------------------------------------------------------------------------
(* The command.                                                             *)

Goes(r, to, shown) ==
  /\ pc' = [pc EXCEPT ![r] = to]
  /\ run' = [run EXCEPT ![r].shown = @ \o shown]

\* The session is dropped, and the script's channel with it.
Replies(r, a, lost) ==
  /\ pc' = [pc EXCEPT ![r] = "idle"]
  /\ run' = [run EXCEPT ![r] =
               [NoRun EXCEPT !.answer = a, !.unanswered = run[r].unanswered \/ lost]]

\* What an earlier run left on the Jetson is not followed further.
Prepare(r) ==
  /\ pc[r] = "idle"
  /\ script[r] = "none"
  /\ pc' = [pc EXCEPT ![r] = "check"]
  /\ run' = [run EXCEPT ![r] = [NoRun EXCEPT !.shown = <<"CheckingEnvironment">>]]
  /\ files' = files \ {r}
  /\ UNCHANGED <<env, script>>

\* AlreadyReady.
CheckReady(r) ==
  /\ pc[r] = "check"
  /\ Classify(env)
  /\ Replies(r, "ready", FALSE)
  /\ UNCHANGED <<env, script, files>>

CheckRequires(r) ==
  /\ pc[r] = "check"
  /\ ~Classify(env)
  /\ Goes(r, "preflight", <<"ProvisionRequired", "Preflight">>)
  /\ UNCHANGED <<env, script, files>>

\* sudo_preflight.
SudoPasses(r) ==
  /\ pc[r] = "preflight"
  /\ Goes(r, "mktemp", <<"Uploading">>)
  /\ UNCHANGED <<env, script, files>>

\* The script could not be run: a bad answer of the check, of sudo, of mktemp.
Refused(r) ==
  /\ pc[r] \in {"check", "preflight", "mktemp", "verify"}
  /\ Replies(r, "refused", FALSE)
  /\ UNCHANGED <<env, script, files>>

Mktemp(r) ==
  /\ pc[r] = "mktemp"
  /\ files' = files \cup {r}
  /\ Goes(r, "upload", <<>>)
  /\ UNCHANGED <<env, script>>

\* cat, chmod, bash.  Their exit codes are not looked at: a script that did
\* not arrive ends at once, with 0.
Uploads(r) ==
  /\ pc[r] = "upload"
  /\ script' \in {[script EXCEPT ![r] = s] : s \in {"os", "ok"}}
  /\ Goes(r, "run", <<>>)
  /\ UNCHANGED <<env, files>>

\* parse_bootstrap_line; other lines are ignored.
Parses(line) ==
  CASE line = "install_packages" -> <<"InstallingPackages">>
    [] line \in {"configure_session", "fix_xsessionrc", "disable_wayland"} -> <<"ConfiguringSession">>
    [] line = "enable_service" -> <<"StartingService">>
    [] line = "verify" -> <<"Verifying">>
    [] OTHER -> <<>>

Closes(r, failed) ==
  /\ pc' = [pc EXCEPT ![r] = "remove"]
  /\ run' = [run EXCEPT ![r].failed = failed]

\* The channel closes; no exit status counts as 0.
ScriptAnswers(r) ==
  /\ pc[r] = "run"
  /\ script[r] \in Ended
  /\ Closes(r, script[r] = "error")
  /\ script' = [script EXCEPT ![r] = "none"]
  /\ UNCHANGED <<env, files>>

\* More than MAX_OUTPUT_BYTES: the script is left running.
OutputTooLarge(r) ==
  /\ pc[r] = "run"
  /\ script[r] \in Going
  /\ Closes(r, TRUE)
  /\ UNCHANGED <<env, script, files>>

\* rm -f, on every way out of provision_inner; its result is ignored.
RemovesFailed(r) ==
  /\ pc[r] = "remove"
  /\ run[r].failed
  /\ files' = files \ {r}
  /\ Replies(r, "failed", FALSE)
  /\ UNCHANGED <<env, script>>

Removes(r) ==
  /\ pc[r] = "remove"
  /\ ~run[r].failed
  /\ files' = files \ {r}
  /\ Goes(r, "verify", <<"Verifying">>)
  /\ UNCHANGED <<env, script>>

VerifyReady(r) ==
  /\ pc[r] = "verify"
  /\ Classify(env)
  /\ Replies(r, "ready", FALSE)
  /\ UNCHANGED <<env, script, files>>

VerifyFails(r) ==
  /\ pc[r] = "verify"
  /\ ~Classify(env)
  /\ Replies(r, "failed", FALSE)
  /\ UNCHANGED <<env, script, files>>

\* A request of this step gets no answer within its timeout, or the link is lost.
Unanswered(r) ==
  /\ UNCHANGED env
  /\ script' = IF script[r] \in Ended THEN [script EXCEPT ![r] = "none"] ELSE script
  /\ \/ /\ pc[r] \in {"check", "preflight", "mktemp", "verify"}
        /\ files' \in {files} \cup (IF pc[r] = "mktemp" THEN {files \cup {r}} ELSE {})
        /\ Replies(r, "refused", TRUE)
     \/ /\ pc[r] \in {"upload", "run"}
        /\ pc' = [pc EXCEPT ![r] = "remove"]
        /\ run' = [run EXCEPT ![r].failed = TRUE, ![r].unanswered = TRUE]
        /\ UNCHANGED files
     \/ /\ pc[r] = "remove"
        /\ files' \in {files, files \ {r}}
        /\ \/ run[r].failed /\ Replies(r, "failed", TRUE)
           \/ /\ ~run[r].failed
              /\ pc' = [pc EXCEPT ![r] = "verify"]
              /\ run' = [run EXCEPT ![r].shown = @ \o <<"Verifying">>, ![r].unanswered = TRUE]

-----------------------------------------------------------------------------
(* bootstrap.sh.                                                            *)

\* Mutant: the marker at the end of a step shows its stage again.
StreamedTwice(shown, line) == shown \o Parses(line)

\* exec_with_stdin_lines: a stage is shown when it differs from the last.
Streamed(shown, line) ==
  IF Parses(line) = <<>> \/ shown[Len(shown)] = Parses(line)[1] THEN shown ELSE shown \o Parses(line)

ScriptGoes(r, from, to) ==
  /\ script[r] = from
  /\ script' = [script EXCEPT ![r] = to]
  /\ UNCHANGED <<files, pc>>

\* A line that is late is shown before the script's end, or not at all.
Prints(r, line) ==
  run' = IF pc[r] = "run" THEN [run EXCEPT ![r].shown = Streamed(@, line)] ELSE run

\* Nobody waits for an orphan's exit status.
ScriptEnds(r, from, with) ==
  /\ ScriptGoes(r, from, IF pc[r] = "run" THEN with ELSE "none")
  /\ UNCHANGED run

Supported(r) ==
  /\ ScriptGoes(r, "os", "install")
  /\ Prints(r, "install_packages")
  /\ UNCHANGED env

Unsupported(r) == ScriptEnds(r, "os", "error") /\ UNCHANGED env

\* The six of the script.
Installed == env.packages = "all"

InstallSkips(r) ==
  /\ Installed
  /\ ScriptGoes(r, "install", "configure")
  /\ Prints(r, "install_packages")
  /\ UNCHANGED env

AptRuns(r) ==
  /\ ~Installed
  /\ \A o \in Runs : script[o] # "apt"
  /\ ScriptGoes(r, "install", "apt")
  /\ UNCHANGED <<env, run>>

\* Another apt-get holds the lock.
AptLocked(r) ==
  /\ ~Installed
  /\ \E o \in Runs : script[o] = "apt"
  /\ ScriptEnds(r, "install", "error")
  /\ UNCHANGED env

\* xrdp's package starts it, before anybody gives it the group.
Started ==
  {env.service} \cup
  (IF env.packages = "missing" /\ env.service = "down" THEN {"keyless"} ELSE {})

AptInstalls(r) ==
  /\ ~env.interrupted
  /\ ScriptGoes(r, "apt", "configure")
  /\ Prints(r, "install_packages")
  /\ \E started \in Started : env' = [env EXCEPT !.packages = "all", !.service = started]

\* The packages one by one.
Further ==
  CASE env.packages = "missing" -> {"missing", "checked", "all"}
    [] env.packages = "checked" -> {"checked", "all"}
    [] OTHER -> {"all"}

\* apt-get stopped anywhere, between two packages or within one.
HalfInstalled ==
  IF env.interrupted THEN {env}
  ELSE {e \in Environment :
          /\ e = [env EXCEPT !.packages = e.packages, !.interrupted = e.interrupted]
          /\ e.packages \in Further
          /\ e.interrupted => e.packages # "all"}

AptFails(r) ==
  /\ ScriptEnds(r, "apt", "error")
  /\ env' \in HalfInstalled

\* A .xsession with use_compositing in it is taken for the script's own.
KeepsSession(r) ==
  /\ env.xsession \in {"torn", "own"}
  /\ ScriptGoes(r, "configure", "repair")
  /\ Prints(r, "configure_session")
  /\ UNCHANGED env

\* Any other is written anew, whatever another script does meanwhile.
Configures(r) ==
  /\ env.xsession \in {"none", "plain"}
  /\ ScriptGoes(r, "configure", "rewrite")
  /\ Prints(r, "configure_session")
  /\ UNCHANGED env

Truncates(r) ==
  /\ ScriptGoes(r, "rewrite", "write")
  /\ env' = [env EXCEPT !.xsession = "none"]
  /\ UNCHANGED run

Writes(r) ==
  /\ ScriptGoes(r, "write", "repair")
  /\ env' = [env EXCEPT !.xsession = "own"]
  /\ UNCHANGED run

\* The file cannot be opened, or the disk is full; the script goes on.
WriteFails(r) ==
  /\ ScriptGoes(r, script[r], "repair")
  /\ \/ script[r] \in {"rewrite", "write"} /\ UNCHANGED env
     \/ script[r] = "write" /\ env.xsession = "none" /\ env' = [env EXCEPT !.xsession = "torn"]
  /\ UNCHANGED run

\* .xsessionrc, ::1 of lo, enabling xrdp: what fails is a warning.
Repairs(r) ==
  /\ ScriptGoes(r, "repair", "service")
  /\ Prints(r, "fix_xsessionrc")
  /\ \E mended \in {env.host, TRUE} : env' = [env EXCEPT !.host = mended]

\* Mutant: the services are restarted in any case.
ServingNever == FALSE

\* Active services with their group are left alone, listening or not.
Serving == env.service \in {"deaf", "up"}

Serves(r) ==
  /\ Serving
  /\ ScriptGoes(r, "service", "verify")
  /\ Prints(r, "enable_service")
  /\ UNCHANGED env

\* adduser: from here on the services pass for ready, before they are restarted.
Joins(r) ==
  /\ ~Serving
  /\ ScriptGoes(r, "service", "restart")
  /\ Prints(r, "enable_service")
  /\ env' = [env EXCEPT !.service = IF @ = "keyless" THEN "up" ELSE @]

GroupFails(r) ==
  /\ env.service \in {"down", "keyless"}
  /\ ScriptEnds(r, "service", "error")
  /\ UNCHANGED env

\* Its exit status is not looked at.
Restarts(r) ==
  /\ ScriptGoes(r, "restart", "verify")
  /\ \E started \in {"down", "deaf", "up"} : env' = [env EXCEPT !.service = started]
  /\ UNCHANGED run

Verified(r) ==
  /\ ScriptGoes(r, "verify",
       IF pc[r] # "run" THEN "none" ELSE IF env.service = "up" THEN "ok" ELSE "error")
  /\ Prints(r, "verify")
  /\ UNCHANGED env

\* A signal; the closed channel of an orphan; a reboot.
Killed(r) ==
  /\ script[r] \in Going
  /\ ScriptEnds(r, script[r], "killed")
  /\ IF script[r] = "apt" THEN env' \in HalfInstalled ELSE UNCHANGED env

\* The ports of a service that is slow to start, or waits for another.
Listens ==
  /\ env.service = "deaf"
  /\ env' = [env EXCEPT !.service = "up"]
  /\ UNCHANGED <<script, files, pc, run>>

Broken ==
  [packages |-> {"missing"}, xsession |-> {"none"}, host |-> {FALSE}, service |-> {"down", "deaf"}]

\* Somebody removes a package, a file, stops a service.
Breaks ==
  /\ \E part \in Breakable : \E state \in Broken[part] : env' = [env EXCEPT ![part] = state]
  /\ UNCHANGED <<script, files, pc, run>>

-----------------------------------------------------------------------------

Requests(r) ==
  \/ CheckReady(r) \/ CheckRequires(r) \/ SudoPasses(r) \/ Refused(r) \/ Mktemp(r)
  \/ Uploads(r) \/ ScriptAnswers(r) \/ RemovesFailed(r) \/ Removes(r) \/ VerifyReady(r) \/ VerifyFails(r)
  \/ Unanswered(r)

ScriptSteps(r) ==
  \/ Supported(r) \/ Unsupported(r) \/ InstallSkips(r) \/ AptRuns(r) \/ AptLocked(r)
  \/ AptInstalls(r) \/ AptFails(r) \/ KeepsSession(r) \/ Configures(r) \/ Truncates(r)
  \/ Writes(r) \/ WriteFails(r) \/ Repairs(r) \/ Serves(r) \/ Joins(r) \/ GroupFails(r)
  \/ Restarts(r) \/ Verified(r) \/ Killed(r)

PrepareNext ==
  \/ \E r \in Runs : Prepare(r) \/ Requests(r) \/ OutputTooLarge(r) \/ ScriptSteps(r)
  \/ Listens \/ Breaks

PrepareSpec == PrepareInit /\ [][PrepareNext]_prepareVars

\* Every request has a timeout; the script itself may hang, an orphan ends.
PrepareFairSpec ==
  /\ PrepareSpec
  /\ \A r \in Runs : WF_prepareVars(Requests(r)) /\ WF_prepareVars(pc[r] # "run" /\ ScriptSteps(r))

-----------------------------------------------------------------------------
(* Properties.                                                              *)

Rank(stage) == CHOOSE i \in DOMAIN Stages : Stages[i] = stage

\* The stages shown to the user go forward, and none is shown twice but the
\* verification, once by the script and once by the command.
StagesForward ==
  \A r \in Runs : \A i, j \in DOMAIN run[r].shown :
    i < j => \/ Rank(run[r].shown[i]) < Rank(run[r].shown[j])
             \/ run[r].shown[i] = "Verifying" /\ j = i + 1 /\ j = Len(run[r].shown)

\* provisioner.rs:115: the temporary script is removed on every way out,
\* unless a request got no answer.
NoLeftover ==
  \A r \in files : pc[r] \in {"upload", "run", "remove"} \/ run[r].unanswered

\* What a prepare shows, and what it leaves behind.
PrepareInv == PrepareTypeOK /\ StagesForward /\ NoLeftover

\* Ready with the script's own .xsession, and no script about to write that
\* file or to restart the services by what it saw earlier.
Untouched ==
  /\ Ready
  /\ env.xsession = "own"
  /\ \A r \in Runs : script[r] \notin {"rewrite", "write", "restart"}

\* bootstrap.sh:6: such a Jetson stays so under every step of every script, an
\* orphan's or a second command's, failed or killed: a desktop in use is not
\* restarted, and a script that starts now will not do it either.
ReadyStaysReady ==
  [][Untouched /\ (\E r \in Runs : ScriptSteps(r)) => Untouched']_prepareVars

Succeeds(r) == CheckReady(r) \/ VerifyReady(r)

Mishap ==
  \E r \in Runs :
    \/ Unanswered(r) \/ Refused(r) \/ OutputTooLarge(r) \/ Unsupported(r)
    \/ AptFails(r) /\ ~env.interrupted
    \/ WriteFails(r) \/ GroupFails(r)
    \/ Truncates(r) /\ env.xsession = "own"
    \/ pc[r] = "run" /\ Killed(r)
    \/ Repairs(r) /\ ~env'.host
    \/ Restarts(r) /\ env'.service # "up"
    \/ Uploads(r) /\ script'[r] = "ok"

\* What no run of the script mends: it takes the file for its own, the services
\* for running, and does not ask dpkg to finish.
Unrepaired ==
  env.xsession = "torn" \/ env.service = "deaf" \/ (env.interrupted /\ ~Installed)

\* Once nothing goes wrong any more, preparing again makes the Jetson ready,
\* in whatever state earlier scripts, stopped anywhere, have left it, but for
\* those the script does not mend.
PrepareHeals ==
  \A r \in Runs :
    (/\ <>[][~Mishap /\ ~Breaks]_prepareVars
     /\ []<>(pc[r] = "check"))
    => \/ []<><<Succeeds(r) /\ Ready>>_prepareVars
       \/ <>[]Unrepaired
=============================================================================
