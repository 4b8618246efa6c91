------------------------- MODULE SandboxCallProofs -------------------------
(* Proofs about SandboxCall, for any calls, files and limits.               *)
EXTENDS SandboxCall, TLAPS

-----------------------------------------------------------------------------
(* The invariant                                                            *)

Probing == {"probe_create", "probe", "probe_rm", "probe_verify"}

\* Who is running, and how far the verdict is.
Placed ==
    /\ at = "idle" <=> cur = NoCall
    /\ at \in Probing <=> cur = Probe
    /\ cur = Probe => app = "starting"
    /\ cur \in Calls => app = "serving" /\ result[cur] = "none"
    /\ at \in {"finally", "confirm"} => verdict \in {"uncertain", "raised"}

\* What has stopped the task.
Halted ==
    /\ app = "starting" \/ cur # NoCall => ~stopped
    /\ debris => stopped
    /\ \A c \in Calls : result[c] \in Terminal \cup {"lost"} => stopped

\* A call is over or about to write, and its container is gone.
Settled(c) == container[c] = "gone" /\ (result[c] # "none" \/ (cur = c /\ at = "commit"))

\* Only what settled calls have written is committed, or seeded.
Gone ==
    /\ \A c \in Calls : result[c] \in {"ok", "error"} => container[c] = "gone"
    /\ at \in {"scan", "commit"} => container[cur] = "gone"
    /\ app = "starting" /\ cur = NoCall => container[Probe] = "none"
    /\ app = "serving" => container[Probe] \in {"none", "gone"}
    /\ \A f \in Files : artifacts[f] \in Calls => Settled(artifacts[f])
    /\ cur \in Calls => \A f \in Files : out[f] \in Calls \ {cur} => Settled(out[f])

\* What is written, and what is still to be.
Written ==
    /\ cur \in Calls /\ at # "commit" => artifacts = base
    /\ at = "commit" => \A f \in Files :
           /\ out[f] # Bad
           /\ out[f] # Absent /\ f \notin todo => artifacts[f] = out[f]

IInv == TypeOK /\ Placed /\ Halted /\ Gone /\ Written

LEMMA InitIInv == Init => IInv
  BY SandboxAssumption
  DEF Init, IInv, TypeOK, Placed, Halted, Gone, Written, Settled, Probing, Terminal, Committed, Results

-----------------------------------------------------------------------------
(* Every action preserves it                                                *)

LEMMA Preserved == IInv /\ [Next]_vars => IInv'
<1> SUFFICES ASSUME IInv, [Next]_vars
             PROVE  IInv'
  OBVIOUS
<1> USE SandboxAssumption
    DEF IInv, TypeOK, Placed, Halted, Gone, Written, Settled, Probing, Terminal, Committed, Results
<1>1. CASE StartApplication
  BY <1>1 DEF StartApplication, PreflightEnds, Prepare, rest, disk
<1>2. CASE ProbeCreate
  BY <1>2 DEF ProbeCreate, PreflightEnds, Discard, rest, disk
<1>3. CASE ProbeContainer
  BY <1>3 DEF ProbeContainer, rest, disk
<1>4. CASE ProbeRemove
  BY <1>4 DEF ProbeRemove, RemoveContainer, rest, disk
<1>5. CASE ProbeVerify
  BY <1>5 DEF ProbeVerify, PreflightEnds, Discard, rest, disk
<1>6. CASE ProbeTimeout
  BY <1>6 DEF ProbeTimeout, RemoveContainer, PreflightEnds, rest, disk
<1>7. CASE \E c \in Calls : Start(c)
  BY <1>7 DEF Start, SeedCallOut, Prepare, disk
<1>8. CASE Create
  <2>1. cur \in Calls /\ at = "create" /\ app = "serving" /\ ~stopped /\ ~debris /\ result[cur] = "none"
    BY <1>8 DEF Create
  <2>2. CASE UNCHANGED ended
    <3>1. TypeOK'
      BY <2>1, <2>2, <1>8 DEF Create, Goto, EndCall, Report, Discard, disk, ended
    <3>2. Placed'
      BY <2>1, <2>2, <1>8 DEF Create, Goto, EndCall, Report, Discard, disk, ended
    <3>3. Halted'
      BY <2>1, <2>2, <1>8 DEF Create, Goto, EndCall, Report, Discard, disk, ended
    <3>4. Gone'
      BY <2>1, <2>2, <1>8 DEF Create, Goto, EndCall, Report, Discard, disk, ended
    <3>5. Written'
      BY <2>1, <2>2, <1>8 DEF Create, Goto, EndCall, Report, Discard, disk, ended
    <3>. QED  BY <3>1, <3>2, <3>3, <3>4, <3>5
  <2>3. CASE \E r \in {"uncertain", "raised"} : EndCall(r)
    <3>0. PICK r \in {"uncertain", "raised"} : EndCall(r)
      BY <2>3
    <3>1. PICK left \in {"none", "pending", "up"} :
              /\ container' = [container EXCEPT ![cur] = left]
              /\ UNCHANGED <<disk, out, app, active, sweeping>>
      BY <1>8 DEF Create
    <3>2. TypeOK'
      BY <2>1, <3>0, <3>1 DEF EndCall, Report, Discard, disk
    <3>3. Placed'
      BY <2>1, <3>0, <3>1 DEF EndCall, Report, Discard, disk
    <3>4. Halted'
      BY <2>1, <3>0, <3>1 DEF EndCall, Report, Discard, disk
    <3>5. Gone'
      BY <2>1, <3>0, <3>1 DEF EndCall, Report, Discard, disk
    <3>6. Written'
      BY <2>1, <3>0, <3>1 DEF EndCall, Report, Discard, disk
    <3>. QED  BY <3>2, <3>3, <3>4, <3>5, <3>6
  <2>. QED
    BY <2>1, <2>2, <2>3, <1>8 DEF Create
<1>9. CASE Validate
  BY <1>9 DEF Validate, Goto, disk, ended
<1>10. CASE Exec
  BY <1>10 DEF Exec, Goto, disk, ended
<1>11. CASE Remove
  BY <1>11 DEF Remove, RemoveContainer, Goto, disk, ended
<1>12. CASE VerifyGone
  <2>1. cur \in Calls /\ at \notin Probing /\ app = "serving" /\ ~stopped /\ ~debris /\ result[cur] = "none"
    BY <1>12 DEF VerifyGone
  <2>2. CASE UNCHANGED ended
    <3>1. TypeOK'
      BY <2>1, <2>2, <1>12 DEF VerifyGone, Goto, EndCall, Report, Discard, disk, ended
    <3>2. Placed'
      BY <2>1, <2>2, <1>12 DEF VerifyGone, Goto, EndCall, Report, Discard, disk, ended
    <3>3. Halted'
      BY <2>1, <2>2, <1>12 DEF VerifyGone, Goto, EndCall, Report, Discard, disk, ended
    <3>4. Gone'
      BY <2>1, <2>2, <1>12 DEF VerifyGone, Goto, EndCall, Report, Discard, disk, ended
    <3>5. Written'
      BY <2>1, <2>2, <1>12 DEF VerifyGone, Goto, EndCall, Report, Discard, disk, ended
    <3>. QED  BY <3>1, <3>2, <3>3, <3>4, <3>5
  <2>3. CASE \E r \in {"none"} \cup (Results \ {"ok", "lost"}) : EndCall(r)
    <3>0. PICK r \in {"none"} \cup (Results \ {"ok", "lost"}) : EndCall(r)
      BY <2>3
    <3>1. TypeOK'
      BY <2>1, <3>0, <1>12 DEF VerifyGone, Goto, EndCall, Report, Discard, disk, ended
    <3>2. Placed'
      BY <2>1, <3>0, <1>12 DEF VerifyGone, EndCall, Report, disk
    <3>3. Halted'
      <4>1. UNCHANGED <<app, debris>>
        BY <1>12 DEF VerifyGone, disk
      <4>. QED  BY <2>1, <3>0, <4>1 DEF EndCall, Report
    <3>4. Gone'
      BY <2>1, <3>0, <1>12 DEF VerifyGone, Goto, EndCall, Report, Discard, disk, ended
    <3>5. Written'
      BY <2>1, <3>0, <1>12 DEF VerifyGone, Goto, EndCall, Report, Discard, disk, ended
    <3>. QED  BY <3>1, <3>2, <3>3, <3>4, <3>5
  <2>. QED
    BY <2>1, <2>2, <2>3, <1>12 DEF VerifyGone
<1>13. CASE ConfirmGone
  BY <1>13 DEF ConfirmGone, EndCall, Report, Discard, disk
<1>14. CASE DockerTimeout
  BY <1>14 DEF DockerTimeout, RemoveContainer, Goto, Report, disk, ended
<1>15. CASE Scan
  BY <1>15 DEF Scan, Rejected, Present, EndCall, Report, Discard, disk, ended
<1>16. CASE Write
  <2>1. cur \in Calls /\ at \notin Probing /\ app = "serving" /\ ~stopped /\ ~debris /\ result[cur] = "none"
    BY <1>16 DEF Write
  <2>2. CASE UNCHANGED ended
    <3>1. TypeOK'
      BY <2>1, <2>2, <1>16 DEF Write, EndCall, Report, Discard, ended
    <3>2. Placed'
      BY <2>1, <2>2, <1>16 DEF Write, EndCall, Report, Discard, ended
    <3>3. Halted'
      BY <2>1, <2>2, <1>16 DEF Write, EndCall, Report, Discard, ended
    <3>4. Gone'
      BY <2>1, <2>2, <1>16 DEF Write, EndCall, Report, Discard, ended
    <3>5. Written'
      BY <2>1, <2>2, <1>16 DEF Write, EndCall, Report, Discard, ended
    <3>. QED  BY <3>1, <3>2, <3>3, <3>4, <3>5
  <2>3. CASE todo # {} /\ EndCall("uncertain")
    <3>1. TypeOK'
      BY <2>1, <2>3, <1>16 DEF Write, EndCall, Report, Discard, ended
    <3>2. Placed'
      BY <2>1, <2>3, <1>16 DEF Write, EndCall, Report, Discard, ended
    <3>3. Halted'
      BY <2>1, <2>3, <1>16 DEF Write, EndCall, Report, Discard, ended
    <3>4. Gone'
      BY <2>1, <2>3, <1>16 DEF Write, EndCall, Report, Discard, ended
    <3>5. Written'
      BY <2>1, <2>3, <1>16 DEF Write, EndCall, Report, Discard, ended
    <3>. QED  BY <3>1, <3>2, <3>3, <3>4, <3>5
  <2>. QED
    BY <2>1, <2>2, <2>3, <1>16 DEF Write
<1>17. CASE CommitDone
  BY <1>17 DEF CommitDone, EndCall, Report, disk
<1>18. CASE \E f \in Files : UserWrites(f)
  BY <1>18 DEF UserWrites, disk, run, ended
<1>19. CASE \E c \in Calls \cup {Probe} : LateCreate(c) \/ Vanish(c)
  BY <1>19 DEF LateCreate, Vanish, disk, run, ended
<1>20. CASE EndTask
  <2>1. app = "serving"
    BY <1>20 DEF EndTask
  <2>2. CASE UNCHANGED stopped
    <3>1. TypeOK'
      BY <2>1, <2>2, <1>20 DEF EndTask, disk, run
    <3>2. Placed'
      BY <2>1, <2>2, <1>20 DEF EndTask, disk, run
    <3>3. Halted'
      BY <2>1, <2>2, <1>20 DEF EndTask, disk, run
    <3>4. Gone'
      BY <2>1, <2>2, <1>20 DEF EndTask, disk, run
    <3>5. Written'
      BY <2>1, <2>2, <1>20 DEF EndTask, disk, run
    <3>. QED  BY <3>1, <3>2, <3>3, <3>4, <3>5
  <2>3. CASE cur = NoCall /\ stopped' = TRUE
    <3>1. TypeOK'
      BY <2>1, <2>3, <1>20 DEF EndTask, disk, run
    <3>2. Placed'
      BY <2>1, <2>3, <1>20 DEF EndTask, disk, run
    <3>3. Halted'
      BY <2>1, <2>3, <1>20 DEF EndTask, disk, run
    <3>4. Gone'
      BY <2>1, <2>3, <1>20 DEF EndTask, disk, run
    <3>5. Written'
      BY <2>1, <2>3, <1>20 DEF EndTask, disk, run
    <3>. QED  BY <3>1, <3>2, <3>3, <3>4, <3>5
  <2>. QED
    BY <2>1, <2>2, <2>3, <1>20 DEF EndTask
<1>21. CASE Crash
  BY <1>21 DEF Crash
<1>22. CASE \E c \in Calls : Examine(c)
  BY <1>22 DEF Examine, disk, run, ended
<1>23. CASE SweepRemove
  BY <1>23 DEF SweepRemove, disk, run, ended
<1>24. CASE UNCHANGED vars
  BY <1>24 DEF vars
<1>. QED
  BY <1>1, <1>2, <1>3, <1>4, <1>5, <1>6, <1>7, <1>8, <1>9, <1>10, <1>11, <1>12, <1>13, <1>14, <1>15, <1>16, <1>17, <1>18, <1>19, <1>20, <1>21, <1>22, <1>23, <1>24
  DEF Next, Preflight, Supervisor

-----------------------------------------------------------------------------
(* What a report is made of                                                 *)

\* Only the end of a commit reports success; nothing else is written.
LEMMA OkReport ==
    ASSUME IInv, Next, NEW c \in Calls, Reports(c, {"ok"})
    PROVE  CommitDone /\ c = cur
<1> USE DEF IInv, TypeOK, Placed, Reports, Probing
<1>1. CASE Preflight
  BY <1>1 DEF Preflight, StartApplication, ProbeCreate, ProbeContainer, ProbeRemove, ProbeVerify,
              ProbeTimeout, rest
<1>2. CASE \E d \in Calls : Start(d)
  BY <1>2 DEF Start
<1>3. CASE Create \/ Validate \/ Exec
  BY <1>3 DEF Create, Validate, Exec, EndCall, Report, ended
<1>4. CASE Remove \/ VerifyGone \/ ConfirmGone \/ DockerTimeout
  BY <1>4 DEF Remove, VerifyGone, ConfirmGone, DockerTimeout, EndCall, Report, ended
<1>5. CASE Scan \/ Write
  BY <1>5 DEF Scan, Write, EndCall, Report, ended
<1>6. CASE CommitDone
  BY <1>6 DEF CommitDone, EndCall, Report
<1>7. CASE \/ \E f \in Files : UserWrites(f)
           \/ \E d \in Calls \cup {Probe} : LateCreate(d) \/ Vanish(d)
           \/ EndTask
           \/ \E d \in Calls : Examine(d)
           \/ SweepRemove
  BY <1>7 DEF UserWrites, LateCreate, Vanish, EndTask, Examine, SweepRemove, ended
<1>8. CASE Crash
  BY <1>8 DEF Crash
<1>. QED  BY <1>1, <1>2, <1>3, <1>4, <1>5, <1>6, <1>7, <1>8 DEF Next, Supervisor

\* No failure is reported from within a commit.
LEMMA FailureReport ==
    ASSUME IInv, Next, NEW c \in Calls, Reports(c, {"error", "timeout", "raised"})
    PROVE  cur \in Calls /\ at # "commit" /\ UNCHANGED artifacts
<1> USE DEF IInv, TypeOK, Placed, Reports, Probing, disk
<1>1. CASE Preflight
  BY <1>1 DEF Preflight, StartApplication, ProbeCreate, ProbeContainer, ProbeRemove, ProbeVerify,
              ProbeTimeout, rest
<1>2. CASE \E d \in Calls : Start(d)
  BY <1>2 DEF Start
<1>3. CASE Create \/ Validate \/ Exec
  BY <1>3 DEF Create, Validate, Exec, EndCall, Report, ended
<1>4. CASE Remove \/ VerifyGone \/ ConfirmGone \/ DockerTimeout
  BY <1>4 DEF Remove, VerifyGone, ConfirmGone, DockerTimeout, EndCall, Report, ended
<1>5. CASE Scan
  BY <1>5 DEF Scan, EndCall, Report, ended
<1>6. CASE Write \/ CommitDone
  BY <1>6 DEF Write, CommitDone, EndCall, Report, ended
<1>7. CASE \/ \E f \in Files : UserWrites(f)
           \/ \E d \in Calls \cup {Probe} : LateCreate(d) \/ Vanish(d)
           \/ EndTask
           \/ \E d \in Calls : Examine(d)
           \/ SweepRemove
  BY <1>7 DEF UserWrites, LateCreate, Vanish, EndTask, Examine, SweepRemove, ended
<1>8. CASE Crash
  BY <1>8 DEF Crash
<1>. QED  BY <1>1, <1>2, <1>3, <1>4, <1>5, <1>6, <1>7, <1>8 DEF Next, Supervisor

-----------------------------------------------------------------------------
(* The theorems                                                             *)

LEMMA Inductive == Spec => []IInv
<1>. QED  BY InitIInv, Preserved, PTL DEF Spec

\* Every variable has its type (the states of run() and of preflight).
THEOREM TypeCorrect == Spec => []TypeOK
<1>1. IInv => TypeOK
  BY DEF IInv
<1>. QED  BY <1>1, Inductive, PTL

\* No call is seeded with what an interrupted commit left.
THEOREM SeedIsClean == Spec => []CleanSeed
<1>1. IInv => CleanSeed
  BY DEF IInv, Halted, CleanSeed
<1>. QED  BY <1>1, Inductive, PTL

\* The artifacts of a task are regular files of calls whose container is gone.
THEOREM CommittedAreGone == Spec => []ArtifactsOfTheGone
<1>1. IInv => ArtifactsOfTheGone
  BY DEF IInv, TypeOK, Committed, Gone, Settled, ArtifactsOfTheGone
<1>. QED  BY <1>1, Inductive, PTL

\* After a call that lets the run go on, and after preflight, no container is left.
THEOREM NoneIsLeft == Spec => []ReturnedIsGone
<1>1. IInv => ReturnedIsGone
  BY DEF IInv, Gone, ReturnedIsGone
<1>. QED  BY <1>1, Inductive, PTL

\* A successful call has committed all its container left.
THEOREM OkCommitsAll == Spec => OkIsComplete
<1>1. IInv /\ [Next]_vars =>
        [\A c \in Calls : Reports(c, {"ok"}) =>
            \A f \in Files : out'[f] # Absent => artifacts'[f] = out'[f]]_vars
  <2> SUFFICES ASSUME IInv, Next, NEW c \in Calls, Reports(c, {"ok"})
               PROVE  \A f \in Files : out'[f] # Absent => artifacts'[f] = out'[f]
    OBVIOUS
  <2>1. CommitDone
    BY OkReport
  <2>. QED  BY <2>1 DEF CommitDone, IInv, Written, disk
<1>. QED  BY <1>1, Inductive, PTL DEF Spec, OkIsComplete

\* A call that fails has not touched the committed artifacts.
THEOREM FailuresLeaveArtifacts == Spec => FailureLeavesArtifacts
<1>1. IInv /\ [Next]_vars =>
        [\A c \in Calls : Reports(c, {"error", "timeout", "raised"}) => artifacts' = base]_vars
  <2> SUFFICES ASSUME IInv, Next, NEW c \in Calls, Reports(c, {"error", "timeout", "raised"})
               PROVE  artifacts' = base
    OBVIOUS
  <2>1. cur \in Calls /\ at # "commit" /\ UNCHANGED artifacts
    BY FailureReport
  <2>. QED  BY <2>1 DEF IInv, Written
<1>. QED  BY <1>1, Inductive, PTL DEF Spec, FailureLeavesArtifacts

=============================================================================
