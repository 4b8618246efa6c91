---------------------------- MODULE SandboxCall ----------------------------
(***************************************************************************)
(* The code calls of one task: ContainerSupervisor.run                     *)
(* (sandbox/container_supervisor.py) with the call directory and commit of *)
(* CallWorkspace (sandbox/call_workspace.py), the Docker engine as its     *)
(* environment, and the OrphanSweeper beside it.  The application takes    *)
(* tasks once preflight has tried a container of its own.                  *)
(*                                                                         *)
(* Each Docker command is one step: what the engine does and what the CLI  *)
(* reports may differ, and the host timer may fire first.  The user's code *)
(* runs in the container from the exec on, and what it has started goes on *)
(* after the exec has returned, until the container is gone.               *)
(***************************************************************************)
EXTENDS Naturals, FiniteSets

CONSTANTS Calls,      (* call ids, fresh for each call                       *)
          Files,      (* names a call may leave in out/                      *)
          MaxFiles,   (* sandbox_commit_max_files                            *)
          Absent,     (* the content of a file that is not there             *)
          Bad,        (* a symlink, special file or reserved name            *)
          NoCall,     (* no call in progress, nothing to sweep               *)
          Probe       (* the call id of preflight                            *)

ASSUME SandboxAssumption ==
    /\ IsFiniteSet(Files)
    /\ MaxFiles \in Nat
    /\ NoCall \notin Calls \cup {Probe} /\ Probe \notin Calls
    /\ Absent # Bad /\ {Absent, Bad} \cap Calls = {}

VARIABLES app,        (* the startup of the application                      *)
          container,  (* what the engine has for each call                   *)
          artifacts,  (* <task>/out: the call that wrote each file           *)
          debris,     (* a *.doc-agent-tmp file was left there               *)
          out,        (* out/ of the call in progress                        *)
          dirs,       (* call directories on the host                        *)
          cur,        (* the call in progress                                *)
          at,         (* where run() is                                      *)
          verdict,    (* what run() will report once the container is gone   *)
          todo,       (* files still to be written by commit                 *)
          base,       (* artifacts when the call started                     *)
          result,     (* what each call reported                             *)
          stopped,    (* the run of the task has ended                       *)
          active,     (* the record of the task is RUNNING                   *)
          sweeping    (* the container the sweeper is about to remove        *)

run == <<cur, at, verdict, todo, base>>
disk == <<artifacts, debris>>
ended == <<result, stopped, dirs>>
vars == <<app, container, artifacts, debris, out, dirs, cur, at, verdict, todo, base,
          result, stopped, active, sweeping>>

\* "raised": an exception leaves run(); "lost": the process died.
Results == {"ok", "error", "timeout", "uncertain", "raised", "lost"}
Terminal == {"timeout", "uncertain"}

Committed == Calls \cup {Absent}

TypeOK ==
    /\ app \in {"starting", "serving", "refused"}
    /\ container \in [Calls \cup {Probe} -> {"none", "pending", "up", "gone"}]
    /\ artifacts \in [Files -> Committed]
    /\ debris \in BOOLEAN
    /\ out \in [Files -> Committed \cup {Bad}]
    /\ dirs \in SUBSET (Calls \cup {Probe})
    /\ cur \in Calls \cup {Probe, NoCall}
    /\ at \in {"idle", "probe_create", "probe", "probe_rm", "probe_verify", "create", "validate",
               "exec", "rm", "verify", "finally", "confirm", "scan", "commit"}
    /\ verdict \in (Results \ {"lost"}) \cup {"none"}
    /\ todo \in SUBSET Files
    /\ base \in [Files -> Committed]
    /\ result \in [Calls -> Results \cup {"none"}]
    /\ stopped \in BOOLEAN
    /\ active \in BOOLEAN
    /\ sweeping \in Calls \cup {NoCall}

Init ==
    /\ app = "starting"
    /\ container = [c \in Calls \cup {Probe} |-> "none"]
    /\ artifacts = [f \in Files |-> Absent]
    /\ debris = FALSE
    /\ out = [f \in Files |-> Absent]
    /\ dirs = {}
    /\ cur = NoCall
    /\ at = "idle"
    /\ verdict = "none"
    /\ todo = {}
    /\ base = artifacts
    /\ result = [c \in Calls |-> "none"]
    /\ stopped = FALSE
    /\ active = TRUE
    /\ sweeping = NoCall

Goto(place) ==
    /\ at' = place
    /\ UNCHANGED <<cur, todo, base>>

\* prepare and discard the directory of a call.
Prepare(c) == dirs' = dirs \cup {c}
Discard(c) == dirs' = dirs \ {c}

\* rm -f by id, whatever the command reports.
RemoveContainer ==
    \/ container' = [container EXCEPT ![cur] = "gone"]
    \/ UNCHANGED container

-----------------------------------------------------------------------------
(* Preflight at startup                                                     *)

rest == <<disk, out, todo, base, result, stopped, active, sweeping>>

\* The application serves, or create_app's lifespan raises.
PreflightEnds(ok) ==
    /\ app' = IF ok THEN "serving" ELSE "refused"
    /\ cur' = NoCall /\ at' = "idle" /\ verdict' = "none"

\* _preflight_sandbox: switched off, refused for a root uid or a missing image, or
\* a container to be tried.
StartApplication ==
    /\ app = "starting" /\ at = "idle"
    /\ \/ /\ \E ok \in BOOLEAN : PreflightEnds(ok)
          /\ UNCHANGED dirs
       \/ /\ Prepare(Probe)
          /\ cur' = Probe /\ at' = "probe_create" /\ verdict' = "ok"
          /\ UNCHANGED app
    /\ UNCHANGED <<container, rest>>

\* docker run, then a look from inside; a problem is remembered.  Without an id
\* there is nothing to look at or to remove.
ProbeCreate ==
    /\ at = "probe_create"
    /\ \/ /\ container' = [container EXCEPT ![Probe] = "up"]
          /\ at' = "probe" /\ verdict' \in {"ok", "error"}
          /\ UNCHANGED <<app, cur, dirs>>
       \/ /\ \E left \in {"none", "pending", "up"} : container' = [container EXCEPT ![Probe] = left]
          /\ PreflightEnds(FALSE)
          /\ Discard(Probe)
    /\ UNCHANGED rest

ProbeContainer ==
    /\ at = "probe"
    /\ \/ container[Probe] = "up" /\ UNCHANGED verdict
       \/ verdict' = "error"
    /\ at' = "probe_rm"
    /\ UNCHANGED <<app, container, cur, dirs, rest>>

ProbeRemove ==
    /\ at = "probe_rm"
    /\ RemoveContainer
    /\ at' = "probe_verify"
    /\ UNCHANGED <<app, cur, verdict, dirs, rest>>

\* The answer to "is it gone" is one more check.
ProbeVerify ==
    /\ at = "probe_verify"
    /\ \/ container[Probe] = "gone" /\ PreflightEnds(verdict = "ok")
       \/ PreflightEnds(FALSE)
    /\ Discard(Probe)
    /\ UNCHANGED <<container, rest>>

\* DockerTimeout out of rm or inspect leaves preflight, and the directory stays.
ProbeTimeout ==
    /\ at \in {"probe_rm", "probe_verify"}
    /\ RemoveContainer
    /\ PreflightEnds(FALSE)
    /\ UNCHANGED <<dirs, rest>>

-----------------------------------------------------------------------------
(* The end of a call                                                        *)

\* run() reports r; the executor ends the run on a terminal result.
Report(r) ==
    /\ result' = [result EXCEPT ![cur] = r]
    /\ stopped' = IF r \in Terminal THEN TRUE ELSE stopped
    /\ cur' = NoCall
    /\ at' = "idle"
    /\ verdict' = "none"
    /\ todo' = {}
    /\ UNCHANGED base

\* The finally block when no container id is held: the directory goes, unless
\* the call succeeded.
EndCall(r) ==
    /\ Report(r)
    /\ IF r = "ok" THEN UNCHANGED dirs ELSE Discard(cur)

-----------------------------------------------------------------------------
(* Start and validation                                                     *)

\* The committed artifacts, files and directories, copied into a private out/.
SeedCallOut == out' = artifacts

\* The executor dispatches a code tool.  prepare, the runner script, and the
\* committed artifacts copied into the private out/.
Start(c) ==
    /\ app = "serving" /\ cur = NoCall /\ ~stopped
    /\ result[c] = "none"
    /\ cur' = c
    /\ at' = "create"
    /\ verdict' = "none"
    /\ todo' = {}
    /\ base' = artifacts
    /\ SeedCallOut
    /\ Prepare(c)
    /\ UNCHANGED <<app, container, disk, result, stopped, active, sweeping>>

\* docker run -d, unless a failure on the host comes first.  The command may report
\* an id although it failed, leave a container it did not report, or bring one up
\* after the host timer has fired.
Create ==
    /\ at = "create"
    /\ \/ /\ container' = [container EXCEPT ![cur] = "up"]
          /\ Goto("validate") /\ UNCHANGED <<verdict, ended>>
       \/ /\ container' = [container EXCEPT ![cur] = "up"]
          /\ Goto("finally") /\ verdict' = "uncertain" /\ UNCHANGED ended
       \/ /\ \E left \in {"none", "up"} : container' = [container EXCEPT ![cur] = left]
          /\ EndCall("uncertain")
       \/ /\ \E left \in {"none", "pending", "up"} : container' = [container EXCEPT ![cur] = left]
          /\ EndCall("raised")
    /\ UNCHANGED <<disk, out, app, active, sweeping>>

\* _validate_call: the probe reports no problem, or the container is destroyed
\* and the call ends as uncertain; so it does when the probe times out.
Validate ==
    /\ at = "validate"
    /\ \/ /\ container[cur] = "up"
          /\ Goto("exec") /\ UNCHANGED verdict
       \/ /\ Goto("rm") /\ verdict' = "uncertain"
    /\ UNCHANGED <<container, disk, out, ended, app, active, sweeping>>

\* Mutant: the commit comes before the removal.
ExecThenCommit ==
    /\ at = "exec"
    /\ \/ container[cur] = "up" /\ verdict' = "ok" /\ Goto("scan")
       \/ verdict' \in {"error", "timeout"} /\ Goto("rm")
    /\ UNCHANGED <<container, disk, out, ended, app, active, sweeping>>

\* docker exec returns zero only if the container is there; verdict is what the
\* call becomes once its container is confirmed to be gone.
Exec ==
    /\ at = "exec"
    /\ \/ container[cur] = "up" /\ verdict' = "ok"
       \/ verdict' \in {"error", "timeout"}
    /\ Goto("rm")
    /\ UNCHANGED <<container, disk, out, ended, app, active, sweeping>>

-----------------------------------------------------------------------------
(* _destroy, called by run ("rm") or by its finally block ("finally")       *)

\* rm -f: whether it reports success is ignored.
Remove ==
    /\ at \in {"rm", "finally"}
    /\ RemoveContainer
    /\ Goto(IF at = "rm" THEN "verify" ELSE "confirm")
    /\ UNCHANGED <<verdict, disk, out, ended, app, active, sweeping>>

\* Mutant: an unconfirmed removal is taken for a removal.
VerifyUnchecked ==
    /\ at = "verify"
    /\ \/ verdict = "ok" /\ Goto("scan") /\ UNCHANGED <<verdict, ended>>
       \/ verdict # "ok" /\ EndCall(verdict)
    /\ UNCHANGED <<container, disk, out, app, active, sweeping>>

\* _verify_gone answers yes only to "no such object"; no at its deadline.  A
\* return of _validate_call or of the timeout handler does not look at the answer.
VerifyGone ==
    /\ at = "verify"
    /\ \/ /\ container[cur] = "gone"
          /\ \/ verdict = "ok" /\ Goto("scan") /\ UNCHANGED <<verdict, ended>>
             \/ verdict # "ok" /\ EndCall(verdict)
       \/ EndCall(IF verdict = "timeout" THEN "timeout" ELSE "uncertain")
    /\ UNCHANGED <<container, disk, out, app, active, sweeping>>

\* The finally block has its answer, or its own deadline.
ConfirmGone ==
    /\ at = "confirm"
    /\ EndCall(verdict)
    /\ UNCHANGED <<container, disk, out, app, active, sweeping>>

\* DockerTimeout out of rm or inspect: the finally block tries once more, and
\* when it fails the same way the directory stays.
DockerTimeout ==
    /\ at \in {"rm", "verify", "finally", "confirm"}
    /\ RemoveContainer
    /\ \/ /\ at \in {"rm", "verify"}
          /\ Goto("finally") /\ verdict' = "raised" /\ UNCHANGED ended
       \/ /\ at \in {"finally", "confirm"}
          /\ Report("raised") /\ UNCHANGED dirs
    /\ UNCHANGED <<disk, out, app, active, sweeping>>

-----------------------------------------------------------------------------
(* CallWorkspace.commit                                                     *)

Present == {f \in Files : out[f] # Absent}

\* Mutant: symlinks are followed.
RejectedByCount == Cardinality(Present) > MaxFiles

\* _scan refuses the batch before anything is written.
Rejected == (\E f \in Files : out[f] = Bad) \/ Cardinality(Present) > MaxFiles

\* A rejection is a plain error; an OSError while reading leaves run().
Scan ==
    /\ at = "scan"
    /\ \/ /\ ~Rejected
          /\ at' = "commit"
          /\ todo' = {f \in Present : out[f] # artifacts[f]}
          /\ UNCHANGED <<cur, verdict, base, ended>>
       \/ Rejected /\ EndCall("error")
       \/ EndCall("raised")
    /\ UNCHANGED <<container, disk, out, app, active, sweeping>>

\* Mutant: a failure half-way is reported like a rejection.
WritePlainError ==
    /\ at = "commit"
    /\ \/ \E f \in todo :
             /\ out[f] # Absent
             /\ artifacts' = [artifacts EXCEPT ![f] = out[f]]
             /\ todo' = todo \ {f}
             /\ UNCHANGED <<debris, cur, at, verdict, base, ended>>
       \/ /\ todo # {}
          /\ debris' \in {debris, TRUE}
          /\ EndCall("error")
          /\ UNCHANGED artifacts
    /\ UNCHANGED <<container, out, app, active, sweeping>>

\* One file: copied beside its target and moved over it, or the commit fails
\* there and is reported with what it has written.
Write ==
    /\ at = "commit"
    /\ \/ \E f \in todo :
             /\ out[f] # Absent
             /\ artifacts' = [artifacts EXCEPT ![f] = out[f]]
             /\ todo' = todo \ {f}
             /\ UNCHANGED <<debris, cur, at, verdict, base, ended>>
       \/ /\ todo # {}
          /\ debris' \in {debris, TRUE}
          /\ EndCall("uncertain")
          /\ UNCHANGED artifacts
    /\ UNCHANGED <<container, out, app, active, sweeping>>

CommitDone ==
    /\ at = "commit" /\ todo = {}
    /\ EndCall("ok")
    /\ UNCHANGED <<container, disk, out, app, active, sweeping>>

-----------------------------------------------------------------------------
(* The environment                                                          *)

\* Code in the container creates, replaces or deletes a file of out/.
UserWrites(f) ==
    /\ cur \in Calls /\ at \notin {"create", "validate"}
    /\ container[cur] = "up"
    /\ out' \in {[out EXCEPT ![f] = new] : new \in {cur, Bad, Absent}}
    /\ UNCHANGED <<container, disk, run, ended, app, active, sweeping>>

\* The engine brings up a container the host has given up on.
LateCreate(c) ==
    /\ container[c] = "pending"
    /\ container' = [container EXCEPT ![c] = "up"]
    /\ UNCHANGED <<disk, out, run, ended, app, active, sweeping>>

\* A container disappears: engine restart, a removal that takes effect late.
Vanish(c) ==
    /\ container[c] = "up"
    /\ container' = [container EXCEPT ![c] = "gone"]
    /\ UNCHANGED <<disk, out, run, ended, app, active, sweeping>>

\* The record is no longer RUNNING: the reaper under a run that goes on, or the
\* end of the run.
EndTask ==
    /\ app = "serving" /\ active
    /\ active' = FALSE
    /\ \/ UNCHANGED stopped
       \/ cur = NoCall /\ stopped' = TRUE
    /\ UNCHANGED <<container, disk, out, run, result, dirs, app, sweeping>>

\* The host process dies; recovery at startup fails the task.
Crash ==
    /\ cur \in Calls
    /\ result' = [result EXCEPT ![cur] = "lost"]
    /\ stopped' = TRUE
    /\ cur' = NoCall /\ at' = "idle" /\ verdict' = "none" /\ todo' = {}
    /\ debris' \in {debris, debris \/ at = "commit"}
    /\ sweeping' = NoCall
    /\ UNCHANGED <<container, artifacts, out, dirs, base, app, active>>

-----------------------------------------------------------------------------
(* OrphanSweeper                                                            *)

\* A listed container is to be removed when its task is not active and it is
\* older than the TTL, which any container may or may not be.
Examine(c) ==
    /\ sweeping = NoCall /\ container[c] = "up"
    /\ ~active
    /\ sweeping' = c
    /\ UNCHANGED <<container, disk, out, run, ended, app, active>>

SweepRemove ==
    /\ sweeping # NoCall
    /\ \/ container' = [container EXCEPT ![sweeping] = "gone"]
       \/ UNCHANGED container
    /\ sweeping' = NoCall
    /\ UNCHANGED <<disk, out, run, ended, app, active>>

-----------------------------------------------------------------------------

Supervisor ==
    \/ Create \/ Validate \/ Exec \/ Remove \/ VerifyGone \/ ConfirmGone
    \/ DockerTimeout \/ Scan \/ Write \/ CommitDone

Preflight ==
    StartApplication \/ ProbeCreate \/ ProbeContainer \/ ProbeRemove \/ ProbeVerify \/ ProbeTimeout

Next ==
    \/ Preflight
    \/ \E c \in Calls : Start(c)
    \/ Supervisor
    \/ \E f \in Files : UserWrites(f)
    \/ \E c \in Calls \cup {Probe} : LateCreate(c) \/ Vanish(c)
    \/ EndTask \/ Crash
    \/ \E c \in Calls : Examine(c)
    \/ SweepRemove

Spec == Init /\ [][Next]_vars

-----------------------------------------------------------------------------
(* Properties                                                               *)

\* A step in which a call reports one of rs.
Reports(c, rs) == result[c] = "none" /\ result'[c] \in rs

(* What a successful call reports is what its container left: no code of the   *)
(* container runs between the scan and the last write, so every file of out/ is *)
(* committed as it is (the order rm, verify, commit of run()).                 *)
OkIsComplete ==
    [][\A c \in Calls : Reports(c, {"ok"}) =>
          \A f \in Files : out'[f] # Absent => artifacts'[f] = out'[f]]_vars

(* A call that ends in an error, a timeout or an exception has not touched the *)
(* committed artifacts: "Failed calls leave nothing behind", and a rejection   *)
(* comes before the first write.                                               *)
FailureLeavesArtifacts ==
    [][\A c \in Calls : Reports(c, {"error", "timeout", "raised"}) => artifacts' = base]_vars

(* No call is ever seeded with, and so can publish, what an interrupted commit *)
(* left: a half-way failure is terminal and ends the run.                      *)
CleanSeed == cur # NoCall => ~debris /\ \A c \in Calls : result[c] \notin Terminal \cup {"lost"}

(* Artifacts are regular files of calls whose container is gone.               *)
ArtifactsOfTheGone ==
    \A f \in Files : artifacts[f] # Absent =>
        artifacts[f] \in Calls /\ container[artifacts[f]] = "gone"

(* The run goes on after an ordinary error or success only when the container  *)
(* of that call is gone, and the application takes tasks only when no container *)
(* of its own preflight is left.                                               *)
ReturnedIsGone ==
    /\ \A c \in Calls : result[c] \in {"ok", "error"} => container[c] = "gone"
    /\ app = "serving" => container[Probe] \in {"none", "gone"}

(* docs/design/14, 3.7 and 3.8: a removal that is not confirmed ends the task  *)
(* as uncertain and terminal.                                                  *)
UnconfirmedStopsTask ==
    [][(/\ at \in {"rm", "verify", "finally", "confirm"}
        /\ cur' = NoCall
        /\ container'[cur] = "up") => stopped']_vars

=============================================================================
