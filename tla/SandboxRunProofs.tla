-------------------------- MODULE SandboxRunProofs --------------------------
(***************************************************************************)
(* Theorems about SandboxRun, for every set of packages, targets, disks    *)
(* and commands: what a refused run leaves, what a successful one keeps,   *)
(* and that the only full copy of a directory survives every ending; and   *)
(* about CapturedRun: what is left when a captured run is over.            *)
(***************************************************************************)
EXTENDS SandboxRun, CapturedRun, TLAPS

Undoing == \E reason \in {"refused", "failed", "dry"} : Undo(reason, DOMAIN snap')
Returning == \E c \in {1, 127, rc} : Return(c)

\* Which actions write each variable.
Writers ==
  /\ UNCHANGED <<cmd, disk0>>
  /\ UNCHANGED lock \/ WriteLock \/ Undoing
  /\ UNCHANGED root \/ \E r \in Roots : WriteTarget(r) \/ RestoreTarget(r) \/ ClearForBackup(r) \/ RestoreBackup(r)
  /\ UNCHANGED redirected \/ \E r \in Roots : Redirect(r)
  /\ UNCHANGED <<snap, scanned>> \/ Snapshot \/ Collect
  /\ UNCHANGED <<why, lockLost>> \/ Undoing
  /\ UNCHANGED todo \/ Undoing \/ \E r \in Roots : RestoreTarget(r) \/ RestoreBackup(r)
  /\ UNCHANGED reported \/ \E r \in Roots : RestoreTarget(r) \/ RestoreBackup(r)
  /\ UNCHANGED keep \/ Raise \/ \E r \in Roots : RestoreBackup(r)
  /\ UNCHANGED onDisk \/ Snapshot \/ Raise \/ Returning
  /\ UNCHANGED code \/ Returning
  /\ UNCHANGED scanOk \/ ScanLock \/ PostRunCooldown
  /\ UNCHANGED <<pending, undated>> \/ CooldownCheck \/ PostRunCooldown
  /\ UNCHANGED unanswered \/ ScanLock \/ PostScan
  /\ UNCHANGED cleared \/ Store
  /\ UNCHANGED rc \/ Exit
  /\ UNCHANGED unseen \/ Collect

LEMMA WritersNext == [Next]_vars => Writers
<1> SUFFICES ASSUME [Next]_vars PROVE Writers
  OBVIOUS
<1> USE DEF Writers, Undoing, Returning, disk, gates, rollback, unseen
<1>1. CASE Begin \/ OpenGates \/ RiskCheck \/ CooldownCheck \/ Preflight \/ Snapshot \/ Assemble
  BY <1>1 DEF Begin, OpenShell, OpenGates, RiskCheck, CooldownCheck, Preflight, Snapshot, Assemble
<1>2. CASE WriteLock \/ Tamper \/ Exit \/ \E r \in Roots : WriteTarget(r) \/ Redirect(r)
  BY <1>2 DEF WriteLock, Tamper, Exit, WriteTarget, Redirect, Runs
<1>3. CASE ScanLock \/ PostRunCooldown
  BY <1>3 DEF ScanLock, PostRunCooldown
<1>4. CASE CheckTampered \/ Verdict \/ PostScan \/ PostScanRisk \/ Final
  BY <1>4 DEF CheckTampered, Verdict, PostScan, PostScanRisk, Final
<1>5. CASE Collect
  BY <1>5 DEF Collect
<1>6. CASE \E r \in Roots : RestoreTarget(r) \/ ClearForBackup(r) \/ RestoreBackup(r)
  BY <1>6 DEF RestoreTarget, ClearForBackup, RestoreBackup
<1>7. CASE Restored \/ AfterUndo \/ Store
  BY <1>7 DEF Restored, AfterUndo, Store
<1>8. CASE Interrupt \/ Raise \/ Kill \/ Stopped \/ UNCHANGED vars
  BY <1>8 DEF Interrupt, Raise, Kill, Stopped, vars
<1> QED BY <1>1, <1>2, <1>3, <1>4, <1>5, <1>6, <1>7, <1>8 DEF Next

BeforeTheRun == {"start", "open", "risk", "cooldown", "preflight", "snapshot", "assemble"}
BeforeCollect == {"assemble", "running", "exited", "lockscan", "postrun", "verdict", "collect"}
Commanded == {"running", "exited", "lockscan", "postrun", "verdict", "collect", "postscan", "postrisk", "final",
              "undo", "undone", "store"}

\* Which phase follows which.
Order ==
  /\ phase' \in BeforeTheRun => phase \in BeforeTheRun
  /\ phase' \in Commanded => phase \in Commanded \cup {"assemble"}
  /\ phase' = "assemble" => phase = "assemble" \/ Snapshot
  /\ phase' \in Commanded \ {"running"} => phase \in Commanded
  /\ phase' \in BeforeCollect => phase \in BeforeCollect \/ Snapshot
  /\ phase' \in Live \cup Ended \/ UNCHANGED phase
  /\ phase \in Ended => UNCHANGED vars

LEMMA OrderNext == [Next]_vars => Order
<1> SUFFICES ASSUME [Next]_vars PROVE Order
  OBVIOUS
<1> USE DEF Order, BeforeTheRun, BeforeCollect, Commanded, Live, Ended, Undo, Return, disk, gates, rollback
<1>1. CASE Begin \/ OpenGates \/ RiskCheck \/ CooldownCheck \/ Preflight \/ Snapshot \/ Assemble
  BY <1>1 DEF Begin, OpenShell, OpenGates, RiskCheck, CooldownCheck, Preflight, Snapshot, Assemble
<1>2. CASE WriteLock \/ Tamper \/ Exit \/ \E r \in Roots : WriteTarget(r) \/ Redirect(r)
  BY <1>2 DEF WriteLock, Tamper, Exit, WriteTarget, Redirect, Runs
<1>3. CASE ScanLock \/ PostRunCooldown
  BY <1>3 DEF ScanLock, PostRunCooldown
<1>4. CASE CheckTampered \/ Verdict \/ PostScan \/ PostScanRisk \/ Final
  BY <1>4 DEF CheckTampered, Verdict, PostScan, PostScanRisk, Final
<1>5. CASE Collect
  BY <1>5 DEF Collect
<1>6. CASE \E r \in Roots : RestoreTarget(r) \/ ClearForBackup(r) \/ RestoreBackup(r)
  BY <1>6 DEF RestoreTarget, ClearForBackup, RestoreBackup
<1>7. CASE Restored \/ AfterUndo \/ Store
  BY <1>7 DEF Restored, AfterUndo, Store
<1>8. CASE Interrupt \/ Raise \/ Kill
  BY <1>8 DEF Interrupt, Raise, Kill
<1>9. CASE Stopped \/ UNCHANGED vars
  BY <1>9 DEF Stopped, vars
<1> QED BY <1>1, <1>2, <1>3, <1>4, <1>5, <1>6, <1>7, <1>8, <1>9 DEF Next

\* The course of a run: why and when a rollback happens, and what a run that goes on has passed.
Course ==
  /\ phase # "done" => code = 99
  /\ why # "" => phase \in {"undo", "undone", "store", "done", "raised", "killed"}
  /\ why = "" => todo = {} /\ phase \notin {"undo", "undone"}
  /\ phase \in {"collect", "postscan", "postrisk", "final", "store"} => scanOk /\ ~Failed
  /\ phase = "store" => why # "refused" /\ (why = "" => ~cmd.nochange)
  /\ why = "dry" => cmd.nochange
  /\ why = "failed" => Failed
  /\ phase \in {"open", "cooldown"} => ~Shell

LEMMA CourseInit == Init => Course
  BY DEF Init, Course

LEMMA CourseNext == Course /\ [Next]_vars => Course'
<1> SUFFICES ASSUME Course, [Next]_vars PROVE Course'
  OBVIOUS
<1> USE DEF Course, Shell, Failed, Undo, Return, disk, gates, rollback
<1>1. CASE Begin \/ OpenGates \/ RiskCheck \/ CooldownCheck \/ Preflight \/ Snapshot \/ Assemble
  BY <1>1 DEF Begin, OpenShell, OpenGates, RiskCheck, CooldownCheck, Preflight, Snapshot, Assemble
<1>2. CASE WriteLock \/ Tamper \/ Exit \/ \E r \in Roots : WriteTarget(r) \/ Redirect(r)
  BY <1>2 DEF WriteLock, Tamper, Exit, WriteTarget, Redirect, Runs
<1>3. CASE CheckTampered \/ ScanLock \/ PostRunCooldown
  BY <1>3 DEF CheckTampered, ScanLock, PostRunCooldown
<1>4. CASE Verdict
  BY <1>4 DEF Verdict
<1>5. CASE Collect
  BY <1>5 DEF Collect
<1>6. CASE PostScan \/ PostScanRisk \/ Final
  BY <1>6 DEF PostScan, PostScanRisk, Final
<1>7. ASSUME NEW r \in Roots, RestoreTarget(r) \/ ClearForBackup(r) \/ RestoreBackup(r)
      PROVE  Course'
  <2>1. /\ UNCHANGED <<phase, code, why, scanOk, rc, cmd>> /\ phase = "undo"
        /\ todo' \subseteq todo
    BY <1>7 DEF RestoreTarget, ClearForBackup, RestoreBackup
  <2> QED BY <2>1
<1>8. CASE Restored \/ AfterUndo \/ Store
  BY <1>8 DEF Restored, AfterUndo, Store
<1>9. CASE Interrupt \/ Raise \/ Kill
  BY <1>9 DEF Interrupt, Raise, Kill, Live
<1>10. CASE Stopped \/ UNCHANGED vars
  BY <1>10 DEF Stopped, vars
<1> QED BY <1>1, <1>2, <1>3, <1>4, <1>5, <1>6, <1>7, <1>8, <1>9, <1>10 DEF Next
-----------------------------------------------------------------------------
LEMMA Inputs ==
  /\ Locks \subseteq LockStates /\ Trees \subseteq RootStates
  /\ \A d \in Disks : d.lock \in LockStates /\ d.root \in [Roots -> RootStates]
<1>1. /\ Locks \subseteq LockStates /\ Trees \subseteq RootStates
      /\ Disks \subseteq [lock : LockStates, root : [Roots -> RootStates]]
  BY InputsAssumption
<1> QED BY <1>1

LEMMA WithoutLargeType ==
  ASSUME NEW t \in RootStates
  PROVE  WithoutLarge(t) \in RootStates
  BY DEF RootStates, WithoutLarge

LEMMA GoneType == Gone \in RootStates
  BY DEF Gone, RootStates

LEMMA CooldownDecideType ==
  ASSUME NEW versions, NEW ok, NEW clears, NEW missed, CooldownDecide(versions, ok, clears, missed)
  PROVE  /\ clears \subseteq versions \cap Young /\ missed \subseteq versions \cap Young
         /\ ok => versions \cap Young \subseteq clears \cup missed \cup cleared
  BY DEF CooldownDecide

LEMMA TypeInit == Init => TypeOK
<1> SUFFICES ASSUME Init PROVE TypeOK
  OBVIOUS
<1>1. disk0.lock \in LockStates /\ disk0.root \in [Roots -> RootStates]
  BY Inputs DEF Init
<1> QED BY <1>1 DEF Init, TypeOK, Live, Ended

\* What a run finds of the environments it created, and what it overlooks.
LEMMA FoundType ==
  ASSUME TypeOK, Collect
  PROVE  \E told \in SUBSET Created :
           /\ snap' = [r \in DOMAIN snap \cup told |-> IF r \in DOMAIN snap THEN snap[r] ELSE Gone]
           /\ scanned' = scanned \cup told
           /\ unscanned' = (Created \ told) \cap Envs
           /\ \A r \in (Created \ told) \ Envs : \A p \in root[r].pkgs : <<r, p>> \in overlooked'
           /\ overlooked' \subseteq Roots \X Pkgs
<1>1. PICK told \in SUBSET Created :
        /\ snap' = [r \in DOMAIN snap \cup told |-> IF r \in DOMAIN snap THEN snap[r] ELSE Gone]
        /\ scanned' = scanned \cup told
        /\ unscanned' = (Created \ told) \cap Envs
        /\ \E missed \in SUBSET UNION {{r} \X NewIn(r, snap'[r]) : r \in scanned'} :
             overlooked' = missed \cup UNION {{r} \X root[r].pkgs : r \in (Created \ told) \ Envs}
  BY DEF Collect
<1>2. PICK missed \in SUBSET UNION {{r} \X NewIn(r, snap'[r]) : r \in scanned'} :
        overlooked' = missed \cup UNION {{r} \X root[r].pkgs : r \in (Created \ told) \ Envs}
  BY <1>1
<1>3. ASSUME NEW r \in Roots
      PROVE  root[r].pkgs \subseteq Pkgs
  <2>1. root \in [Roots -> RootStates]
    BY DEF TypeOK
  <2> QED BY <2>1 DEF RootStates
<1>4. Created \subseteq Roots /\ scanned' \subseteq Roots
  BY <1>1 DEF Created, TypeOK, Roots
<1>5. missed \subseteq Roots \X Pkgs
  <2>1. ASSUME NEW r \in scanned'
        PROVE  {r} \X NewIn(r, snap'[r]) \subseteq Roots \X Pkgs
    BY <1>3, <1>4 DEF NewIn
  <2> QED BY <2>1
<1>6. ASSUME NEW r \in (Created \ told) \ Envs
      PROVE  {r} \X root[r].pkgs \subseteq Roots \X Pkgs
  BY <1>3, <1>4
<1>7. overlooked' \subseteq Roots \X Pkgs
  BY <1>2, <1>5, <1>6
<1>8. ASSUME NEW r \in (Created \ told) \ Envs, NEW p \in root[r].pkgs
      PROVE  <<r, p>> \in overlooked'
  BY <1>2
<1> QED BY <1>1, <1>7, <1>8

LEMMA TypeNext == TypeOK /\ Course /\ [Next]_vars => TypeOK'
<1> SUFFICES ASSUME TypeOK, Course, [Next]_vars PROVE TypeOK'
  OBVIOUS
<1>w. Writers
  BY WritersNext
<1>1. cmd' \in Commands /\ disk0' \in Disks
  BY <1>w DEF Writers, TypeOK
<1>2. lock' \in LockStates
  <2>1. lock \in LockStates /\ disk0.lock \in LockStates
    BY Inputs DEF TypeOK
  <2>2. CASE WriteLock
    BY <2>2, Inputs DEF WriteLock, Runs
  <2>3. CASE Undoing
    BY <2>1, <2>3 DEF Undoing, Undo
  <2> QED BY <1>w, <2>1, <2>2, <2>3 DEF Writers
<1>3. root' \in [Roots -> RootStates]
  <2>1. root \in [Roots -> RootStates]
    BY DEF TypeOK
  <2>2. ASSUME NEW r \in Roots, WriteTarget(r)
        PROVE  root' \in [Roots -> RootStates]
    BY <2>1, <2>2, Inputs DEF WriteTarget, Runs
  <2>3. ASSUME NEW r \in Roots, RestoreTarget(r) \/ ClearForBackup(r) \/ RestoreBackup(r)
        PROVE  root' \in [Roots -> RootStates]
    <3>1. r \in DOMAIN snap
      BY <2>3 DEF RestoreTarget, ClearForBackup, RestoreBackup, TypeOK
    <3>2. snap[r] \in RootStates
      BY <3>1 DEF TypeOK
    <3>3. WithoutLarge(snap[r]) \in RootStates /\ Gone \in RootStates
      BY <3>2, WithoutLargeType, GoneType
    <3>4. CASE RestoreTarget(r)
      BY <2>1, <3>2, <3>3, <3>4 DEF RestoreTarget
    <3>5. CASE ClearForBackup(r)
      BY <2>1, <3>3, <3>5 DEF ClearForBackup
    <3>6. CASE RestoreBackup(r)
      BY <2>1, <3>2, <3>6 DEF RestoreBackup
    <3> QED BY <2>3, <3>4, <3>5, <3>6
  <2> QED BY <1>w, <2>1, <2>2, <2>3 DEF Writers
<1>4. redirected' \subseteq Roots
  BY <1>w DEF Writers, TypeOK, Redirect, Runs
<1>5. DOMAIN snap' \subseteq Roots /\ (\A r \in DOMAIN snap' : snap'[r] \in RootStates)
      /\ scanned' \subseteq Scanned \cup Venvs \cup Envs
  <2>1. CASE Snapshot
    <3>1. root \in [Roots -> RootStates] /\ Recorded \subseteq Roots
      BY DEF TypeOK, Recorded, Roots
    <3> QED BY <2>1, <3>1 DEF Snapshot
  <2>2. CASE Collect
    <3>1. Created \subseteq Venvs \cup Envs
      BY DEF Created
    <3>2. PICK told \in SUBSET Created :
            /\ snap' = [r \in DOMAIN snap \cup told |-> IF r \in DOMAIN snap THEN snap[r] ELSE Gone]
            /\ scanned' = scanned \cup told
      BY <2>2, FoundType
    <3> QED BY <3>1, <3>2, GoneType DEF TypeOK, Roots
  <2> QED BY <1>w, <2>1, <2>2 DEF Writers, TypeOK
<1>6. onDisk' \subseteq Backed /\ keep' \subseteq Backed
  BY <1>w DEF Writers, TypeOK, Snapshot, Returning, Return, Raise, RestoreBackup, Covered
<1>7. why' \in {"", "refused", "failed", "dry"}
  BY <1>w DEF Writers, TypeOK, Undoing, Undo
<1>8. todo' \subseteq DOMAIN snap'
  <2>1. todo \subseteq DOMAIN snap
    BY DEF TypeOK
  <2>2. CASE Snapshot
    BY <2>2 DEF Snapshot, rollback, Course
  <2>3. CASE Undoing
    BY <2>3 DEF Undoing, Undo
  <2>4. CASE \E r \in Roots : RestoreTarget(r) \/ RestoreBackup(r)
    BY <2>1, <2>4 DEF RestoreTarget, RestoreBackup
  <2>5. CASE Collect
    <3>1. PICK told \in SUBSET Created :
            snap' = [r \in DOMAIN snap \cup told |-> IF r \in DOMAIN snap THEN snap[r] ELSE Gone]
      BY <2>5, FoundType
    <3>2. todo' = DOMAIN snap' \/ todo' = todo
      BY <2>5 DEF Collect, Undo
    <3> QED BY <2>1, <3>1, <3>2
  <2> QED BY <1>w, <2>1, <2>2, <2>3, <2>4, <2>5 DEF Writers
<1>9. reported' \subseteq Roots
  BY <1>w DEF Writers, TypeOK, RestoreTarget, RestoreBackup, NotRestored
<1>10. pending' \subseteq Young /\ undated' \subseteq Young /\ cleared' \subseteq Young
  <2>1. pending \subseteq Young /\ undated \subseteq Young /\ cleared \subseteq Young
    BY DEF TypeOK
  <2>2. CASE CooldownCheck
    <3>1. PICK clears, missed \in SUBSET Young : pending' = clears /\ undated' = undated \cup missed
      BY <2>2 DEF CooldownCheck
    <3> QED BY <2>1, <2>2, <3>1 DEF CooldownCheck
  <2>3. CASE PostRunCooldown
    <3>1. PICK clears, missed \in SUBSET Young :
             pending' \in {pending, pending \cup clears} /\ undated' = undated \cup missed
      BY <2>3 DEF PostRunCooldown
    <3> QED BY <2>1, <2>3, <3>1 DEF PostRunCooldown
  <2>4. CASE UNCHANGED <<pending, undated>>
    BY <1>w, <2>1, <2>4 DEF Writers, Store
  <2> QED BY <1>w, <2>2, <2>3, <2>4 DEF Writers
<1>11. unanswered' \subseteq Pkgs
  <2>1. unanswered \subseteq Pkgs /\ lock.pkgs \subseteq Pkgs
    BY DEF TypeOK, LockStates
  <2>2. NewPackages \subseteq Pkgs
    <3>1. ASSUME NEW r \in Roots
          PROVE  root[r].pkgs \subseteq Pkgs
      <4>1. root \in [Roots -> RootStates]
        BY DEF TypeOK
      <4> QED BY <4>1 DEF RootStates
    <3>2. scanned \subseteq Roots
      BY DEF TypeOK, Roots
    <3> QED BY <3>1, <3>2 DEF NewPackages, NewIn
  <2>3. CASE ScanLock
    BY <2>1, <2>3 DEF ScanLock
  <2>4. CASE PostScan
    BY <2>1, <2>2, <2>4 DEF PostScan
  <2> QED BY <1>w, <2>1, <2>3, <2>4 DEF Writers
<1>12. phase' \in Live \cup Ended
  BY OrderNext DEF Order, TypeOK
<1>13. rc' \in {0, 2} /\ code' \in {0, 1, 2, 99, 127}
  <2>1. rc \in {0, 2} /\ code \in {0, 1, 2, 99, 127}
    BY DEF TypeOK
  <2>2. Returning => code' \in {1, 127, rc}
    BY DEF Returning, Return
  <2>3. Exit => rc' \in {0, 2}
    BY DEF Exit
  <2> QED BY <1>w, <2>1, <2>2, <2>3 DEF Writers
<1>14. means' \in {"none", "db", "engine"} /\ tampered' \in BOOLEAN /\ cancelled' \in BOOLEAN
  <2> USE DEF TypeOK, disk, gates
  <2>1. CASE Begin \/ OpenGates \/ RiskCheck \/ CooldownCheck \/ Preflight \/ Snapshot \/ Assemble
    BY <2>1 DEF Begin, OpenGates, RiskCheck, CooldownCheck, Preflight, Snapshot, Assemble
  <2>2. CASE WriteLock \/ Tamper \/ Exit \/ \E r \in Roots : WriteTarget(r) \/ Redirect(r)
    BY <2>2 DEF WriteLock, Tamper, Exit, WriteTarget, Redirect, Runs
  <2>3. CASE CheckTampered \/ ScanLock \/ PostRunCooldown \/ Verdict \/ Collect \/ PostScan \/ PostScanRisk \/ Final
    BY <2>3 DEF CheckTampered, ScanLock, PostRunCooldown, Verdict, Collect, PostScan, PostScanRisk, Final
  <2>4. CASE \E r \in Roots : RestoreTarget(r) \/ ClearForBackup(r) \/ RestoreBackup(r)
    BY <2>4 DEF RestoreTarget, ClearForBackup, RestoreBackup
  <2>5. CASE Restored \/ AfterUndo \/ Store \/ Interrupt \/ Raise \/ Kill
    BY <2>5 DEF Restored, AfterUndo, Store, Interrupt, Raise, Kill
  <2>6. CASE Stopped \/ UNCHANGED vars
    BY <2>6 DEF Stopped, vars
  <2> QED BY <2>1, <2>2, <2>3, <2>4, <2>5, <2>6 DEF Next
<1>15. lockLost' \in BOOLEAN /\ scanOk' \in BOOLEAN
  <2>1. lockLost \in BOOLEAN /\ scanOk \in BOOLEAN
    BY DEF TypeOK
  <2>2. Undoing => lockLost' \in BOOLEAN
    BY <2>1 DEF Undoing, Undo
  <2>3. ScanLock \/ PostRunCooldown => scanOk' \in BOOLEAN
    BY <2>1 DEF ScanLock, PostRunCooldown
  <2> QED BY <1>w, <2>1, <2>2, <2>3 DEF Writers
<1>16. unscanned' \subseteq Envs /\ overlooked' \subseteq Roots \X Pkgs
  <2>1. CASE Collect
    BY <2>1, FoundType
  <2>2. CASE UNCHANGED unseen
    BY <2>2 DEF unseen, TypeOK
  <2> QED BY <1>w, <2>1, <2>2 DEF Writers
<1> QED
  BY <1>1, <1>2, <1>3, <1>4, <1>5, <1>6, <1>7, <1>8, <1>9, <1>10, <1>11, <1>12, <1>13, <1>14, <1>15, <1>16 DEF TypeOK
-----------------------------------------------------------------------------
(* Until the command runs nothing has changed, so a snapshot is of the     *)
(* disk before the run; and no target is missing from the snapshots.       *)
Snapshots ==
  /\ phase \in BeforeTheRun => lock = disk0.lock /\ root = disk0.root
  /\ \A r \in DOMAIN snap : snap[r] = disk0.root[r]
  /\ phase \in Commanded \cup {"assemble"} => Recorded \subseteq DOMAIN snap
  /\ phase \in Commanded \cup {"assemble"} => Scanned \subseteq scanned /\ scanned \subseteq DOMAIN snap
  /\ phase \in BeforeCollect => scanned = Scanned

LEMMA SnapshotsInit == Init => Snapshots
  BY DEF Init, Snapshots, BeforeTheRun, Commanded, BeforeCollect

LEMMA SnapshotsNext == TypeOK /\ Course /\ Snapshots /\ [Next]_vars => Snapshots'
<1> SUFFICES ASSUME TypeOK, Course, Snapshots, [Next]_vars PROVE Snapshots'
  OBVIOUS
<1>w. Writers /\ Order
  BY WritersNext, OrderNext
<1>1. phase' \in BeforeTheRun => lock' = disk0'.lock /\ root' = disk0'.root
  <2> SUFFICES ASSUME phase' \in BeforeTheRun PROVE lock' = disk0'.lock /\ root' = disk0'.root
    OBVIOUS
  <2>1. phase \in BeforeTheRun /\ lock = disk0.lock /\ root = disk0.root
    BY <1>w DEF Order, Snapshots
  <2>2. ~WriteLock /\ ~Undoing
    BY <2>1 DEF BeforeTheRun, WriteLock, Runs, Undoing, Undo
  <2>3. ~ \E r \in Roots : WriteTarget(r) \/ RestoreTarget(r) \/ ClearForBackup(r) \/ RestoreBackup(r)
    BY <2>1 DEF BeforeTheRun, WriteTarget, Runs, RestoreTarget, ClearForBackup, RestoreBackup
  <2> QED BY <1>w, <2>1, <2>2, <2>3 DEF Writers
<1>2. \A r \in DOMAIN snap' : snap'[r] = disk0'.root[r]
  <2>1. CASE Snapshot
    <3>1. root = disk0.root /\ snap' = [r \in Recorded |-> root[r]]
      BY <2>1 DEF Snapshot, Snapshots, BeforeTheRun
    <3> QED BY <1>w, <3>1 DEF Writers
  <2>2. CASE Collect
    <3>1. \A r \in Created : disk0.root[r] = Gone
      <4>1. disk0 \in Disks /\ Created \subseteq Venvs \cup Envs
        BY DEF TypeOK, Created
      <4> QED BY <4>1, EnvironmentsAssumption
    <3>2. PICK told \in SUBSET Created :
            /\ snap' = [r \in DOMAIN snap \cup told |-> IF r \in DOMAIN snap THEN snap[r] ELSE Gone]
            /\ scanned' = scanned \cup told
      BY <2>2, FoundType
    <3>3. UNCHANGED disk0
      BY <1>w DEF Writers
    <3> QED BY <3>1, <3>2, <3>3 DEF Snapshots
  <2> QED BY <1>w, <2>1, <2>2 DEF Writers, Snapshots
<1>3. phase' \in Commanded \cup {"assemble"} =>
        /\ Recorded \subseteq DOMAIN snap'
        /\ Scanned \subseteq scanned' /\ scanned' \subseteq DOMAIN snap'
  <2>1. CASE Snapshot
    BY <2>1 DEF Snapshot, Recorded
  <2>2. CASE Collect
    <3>1. PICK told \in SUBSET Created :
            /\ snap' = [r \in DOMAIN snap \cup told |-> IF r \in DOMAIN snap THEN snap[r] ELSE Gone]
            /\ scanned' = scanned \cup told
      BY <2>2, FoundType
    <3>2. phase = "collect"
      BY <2>2 DEF Collect
    <3> QED BY <3>1, <3>2 DEF Snapshots, Commanded
  <2>3. CASE UNCHANGED <<snap, scanned>> /\ ~Snapshot
    BY <1>w, <2>3 DEF Order, Snapshots
  <2> QED BY <1>w, <2>1, <2>2, <2>3 DEF Writers
<1>4. phase' \in BeforeCollect => scanned' = Scanned
  <2>1. CASE Snapshot
    BY <2>1 DEF Snapshot
  <2>2. CASE Collect
    BY <2>2 DEF Collect, Undo, BeforeCollect
  <2>3. CASE UNCHANGED <<snap, scanned>> /\ ~Snapshot
    BY <1>w, <2>3 DEF Order, Snapshots
  <2> QED BY <1>w, <2>1, <2>2, <2>3 DEF Writers
<1> QED BY <1>1, <1>2, <1>3, <1>4 DEF Snapshots, Recorded

(* Once a rollback has begun: the lock file is back or reported lost, each *)
(* target is still to do, back, or reported, and one whose backup exists   *)
(* is still to do, back, or has its backup kept.                           *)
Rollback ==
  why # "" =>
    /\ SameLock
    /\ \A r \in DOMAIN snap : r \in todo \/ SameTarget(r) \/ r \in reported
    /\ \A r \in Covered : r \in todo \/ SameTarget(r) \/ r \in keep
    /\ phase \in {"undone", "store", "done"} => todo = {}

LEMMA RollbackInit == Init => Rollback
  BY DEF Init, Rollback

LEMMA RollbackNext == TypeOK /\ Course /\ Snapshots /\ Rollback /\ [Next]_vars => Rollback'
<1> SUFFICES ASSUME TypeOK, Course, Snapshots, Rollback, [Next]_vars, why' # "" PROVE Rollback'
  BY DEF Rollback
<1>w. Writers /\ Order
  BY WritersNext, OrderNext
<1>1. CASE why = ""
  <2>1. Undoing
    BY <1>w, <1>1 DEF Writers
  <2>2. SameLock' /\ todo' = DOMAIN snap' /\ phase' = "undo"
    BY <1>w, <2>1 DEF Undoing, Undo, SameLock, LockUnread, Writers
  <2>3. phase \in Commanded
    BY <1>w, <2>2 DEF Order, Commanded
  <2>4. Recorded \subseteq DOMAIN snap'
    BY <2>2, SnapshotsNext DEF Snapshots, Commanded, Recorded
  <2>5. Covered' \subseteq DOMAIN snap'
    BY <2>4, SandboxRunAssumption DEF Covered, Recorded
  <2> QED BY <2>2, <2>5 DEF Rollback
<1>2. CASE why # "" /\ phase = "undo"
  <2>1. CASE \E r \in Roots : RestoreTarget(r)
    <3>1. PICK r \in Roots : RestoreTarget(r)
      BY <2>1
    <3>2. root \in [Roots -> RootStates] /\ r \in DOMAIN snap /\ snap[r] = disk0.root[r]
      BY <3>1 DEF RestoreTarget, TypeOK, Snapshots
    <3>3. /\ UNCHANGED <<why, lock, lockLost, disk0, snap, onDisk, keep, phase>>
          /\ todo' = todo \ {r} /\ r \notin Covered
      BY <3>1 DEF RestoreTarget
    <3>4. \A q \in Roots \ {r} : root'[q] = root[q]
      BY <3>1, <3>2 DEF RestoreTarget
    <3>5. reported \subseteq reported' /\ (root'[r] = disk0.root[r] \/ r \in reported')
      BY <3>1, <3>2 DEF RestoreTarget, NotRestored
    <3>6. DOMAIN snap \subseteq Roots /\ Covered \subseteq Roots
      BY SandboxRunAssumption DEF TypeOK, Covered, Roots
    <3> QED BY <1>2, <3>3, <3>4, <3>5, <3>6 DEF Rollback, SameLock, LockUnread, SameTarget, Covered
  <2>2. CASE \E r \in Roots : ClearForBackup(r)
    <3>1. PICK r \in Roots : ClearForBackup(r)
      BY <2>2
    <3>2. root \in [Roots -> RootStates] /\ r \in todo
      BY <3>1 DEF ClearForBackup, TypeOK
    <3>3. UNCHANGED <<why, lock, lockLost, disk0, snap, onDisk, keep, phase, todo, reported>>
      BY <3>1 DEF ClearForBackup, rollback
    <3>4. \A q \in Roots \ {r} : root'[q] = root[q]
      BY <3>1, <3>2 DEF ClearForBackup
    <3>6. DOMAIN snap \subseteq Roots /\ Covered \subseteq Roots
      BY SandboxRunAssumption DEF TypeOK, Covered, Roots
    <3> QED BY <1>2, <3>2, <3>3, <3>4, <3>6 DEF Rollback, SameLock, LockUnread, SameTarget, Covered
  <2>3. CASE \E r \in Roots : RestoreBackup(r)
    <3>1. PICK r \in Roots : RestoreBackup(r)
      BY <2>3
    <3>2. root \in [Roots -> RootStates] /\ r \in DOMAIN snap /\ snap[r] = disk0.root[r]
      BY <3>1 DEF RestoreBackup, TypeOK, Snapshots
    <3>3. UNCHANGED <<why, lock, lockLost, disk0, snap, onDisk, phase>> /\ todo' = todo \ {r}
      BY <3>1 DEF RestoreBackup
    <3>4. \A q \in Roots \ {r} : root'[q] = root[q]
      BY <3>1, <3>2 DEF RestoreBackup
    <3>5. /\ reported \subseteq reported' /\ keep \subseteq keep'
          /\ root'[r] = disk0.root[r] \/ (r \in reported' /\ r \in keep')
      BY <3>1, <3>2 DEF RestoreBackup, NotRestored
    <3>6. DOMAIN snap \subseteq Roots /\ Covered \subseteq Roots
      BY SandboxRunAssumption DEF TypeOK, Covered, Roots
    <3> QED BY <1>2, <3>3, <3>4, <3>5, <3>6 DEF Rollback, SameLock, LockUnread, SameTarget, Covered
  <2>4. CASE Restored
    BY <1>2, <2>4 DEF Restored, disk, rollback, Rollback, SameLock, LockUnread, SameTarget, Covered
  <2>5. CASE Interrupt \/ Kill \/ UNCHANGED vars
    BY <1>2, <2>5 DEF Interrupt, Kill, vars, disk, rollback, Rollback, SameLock, LockUnread, SameTarget, Covered
  <2>6. CASE Raise
    BY <1>2, <2>6 DEF Raise, disk, Rollback, SameLock, LockUnread, SameTarget, Covered
  <2>7. Restored \/ Interrupt \/ Kill \/ UNCHANGED vars \/ Raise
        \/ \E r \in Roots : RestoreTarget(r) \/ ClearForBackup(r) \/ RestoreBackup(r)
    BY <1>2 DEF Next, Begin, OpenGates, RiskCheck, CooldownCheck, Preflight, Snapshot, Assemble, WriteLock, Tamper,
                Exit, WriteTarget, Redirect, Runs, CheckTampered, ScanLock, PostRunCooldown, Verdict, Collect,
                PostScan, PostScanRisk, Final, AfterUndo, Store, Stopped
  <2> QED BY <2>1, <2>2, <2>3, <2>4, <2>5, <2>6, <2>7
<1>3. CASE why # "" /\ phase # "undo"
  <2>1. phase \in {"undone", "store", "done", "raised", "killed"}
    BY <1>3 DEF Course
  <2>2. UNCHANGED <<lock, root, why, lockLost, todo, reported, snap, disk0>> /\ phase' # "undo"
        /\ keep \subseteq keep' /\ onDisk' \subseteq onDisk
        /\ (phase' \in {"undone", "store", "done"} => phase \in {"undone", "store", "done"})
    <3>1. AfterUndo \/ Store \/ Interrupt \/ Raise \/ Kill \/ UNCHANGED vars
      BY <2>1 DEF Next, Begin, OpenGates, RiskCheck, CooldownCheck, Preflight, Snapshot, Assemble, WriteLock, Tamper,
                Exit, WriteTarget, Redirect, Runs, CheckTampered, ScanLock, PostRunCooldown, Verdict, Collect,
                PostScan, PostScanRisk, Final, RestoreTarget, ClearForBackup, RestoreBackup, Restored, Stopped
    <3>2. CASE AfterUndo \/ Store
      BY <2>1, <3>2 DEF AfterUndo, Store, Return, disk, rollback
    <3>3. CASE Interrupt \/ Raise \/ Kill
      BY <2>1, <3>3 DEF Interrupt, Raise, Kill, disk, rollback
    <3>4. CASE UNCHANGED vars
      BY <2>1, <3>4 DEF vars
    <3> QED BY <3>1, <3>2, <3>3, <3>4
  <2> QED BY <1>3, <2>2 DEF Rollback, SameLock, LockUnread, SameTarget, Covered
<1> QED BY <1>1, <1>2, <1>3
-----------------------------------------------------------------------------
(* While the command runs and after it, the directories to back up that    *)
(* were there have their backup.                                           *)
WholeCopies == {r \in Backed : disk0.root[r].kind = "dir"}

Copies == phase \in Commanded \cup {"assemble"} /\ ~Shell => WholeCopies \subseteq onDisk

LEMMA CopiesInit == Init => Copies
  BY DEF Init, Copies, Commanded

LEMMA CopiesNext == Snapshots /\ Copies /\ [Next]_vars => Copies'
<1> SUFFICES ASSUME Snapshots, Copies, [Next]_vars, (phase \in Commanded \cup {"assemble"})', ~Shell'
             PROVE  (WholeCopies \subseteq onDisk)'
  BY DEF Copies
<1>w. Writers /\ Order
  BY WritersNext, OrderNext
<1>1. WholeCopies' = WholeCopies /\ ~Shell
  BY <1>w DEF Writers, WholeCopies, Shell
<1>2. CASE Snapshot
  <2>1. root = disk0.root
    BY <1>2 DEF Snapshot, Snapshots, BeforeTheRun
  <2>2. onDisk' = {r \in Backed : root[r].kind = "dir"}
    BY <1>1, <1>2 DEF Snapshot, Return, Commanded
  <2> QED BY <1>1, <2>1, <2>2 DEF WholeCopies
<1>3. CASE ~Snapshot
  <2>1. phase \in Commanded \cup {"assemble"}
    BY <1>w, <1>3 DEF Order
  <2>2. ~Returning /\ ~Raise
    BY DEF Returning, Return, Raise, Commanded
  <2> QED BY <1>w, <1>1, <1>3, <2>1, <2>2 DEF Writers, Copies
<1> QED BY <1>2, <1>3

(* What the checks have passed.  Of what the lock file has and did not     *)
(* have before, nothing malicious but what OSV or the cache did not tell,  *)
(* and nothing young that has not been accepted.                           *)
NewInLock == lock.pkgs \ disk0.lock.pkgs
Answered == pending \cup cleared \cup undated
AfterScan == {"postrun", "verdict", "collect", "postscan", "postrisk", "final", "undo", "undone", "store"}
Passed == scanOk /\ why # "refused"

LockScanned == phase \in AfterScan /\ Passed => NewInLock \cap Malicious \subseteq unanswered \cup cmd.stale
LockAnswered == phase \in AfterScan \ {"postrun"} /\ Passed /\ ~Failed => NewInLock \cap Young \subseteq Answered
QueriesAnswered ==
  phase \in {"preflight", "snapshot", "assemble"} \cup Commanded /\ ~Shell => Queries \cap Young \subseteq Answered

LEMMA CheckedInit == Init => LockScanned /\ LockAnswered /\ QueriesAnswered
  BY DEF Init, LockScanned, LockAnswered, QueriesAnswered, AfterScan, Commanded

\* A rollback leaves no more in the lock file than there was.
LEMMA NewInLockShrinks == Undoing /\ UNCHANGED disk0 => NewInLock' \subseteq NewInLock
  BY DEF Undoing, Undo, NewInLock

LEMMA ScannedNext == Course /\ LockScanned /\ [Next]_vars => LockScanned'
<1> SUFFICES ASSUME Course, LockScanned, [Next]_vars, phase' \in AfterScan, Passed'
             PROVE  (NewInLock \cap Malicious \subseteq unanswered \cup cmd.stale)'
  BY DEF LockScanned
<1>w. Writers
  BY WritersNext
<1>1. CASE ScanLock
  <2>1. CASE LockChanged
    <3>1. PICK degraded \in SUBSET (lock.pkgs \ cmd.stale) :
            Flagged(lock.pkgs, degraded, cmd.stale) = {} /\ unanswered' = unanswered \cup degraded
      BY <1>1, <2>1 DEF ScanLock, Passed
    <3> QED BY <1>1, <1>w, <3>1 DEF Flagged, NewInLock, Writers, ScanLock, disk
  <2>2. CASE ~LockChanged
    BY <1>1, <1>w, <2>2 DEF LockChanged, NewInLock, Writers, ScanLock, disk
  <2> QED BY <2>1, <2>2
<1>2. CASE ~ScanLock
  <2>1. phase \in AfterScan /\ why # "refused"
    <3> USE DEF AfterScan, Passed, Course, Undo, Return, disk, gates, rollback
    <3>1. CASE Begin \/ OpenGates \/ RiskCheck \/ CooldownCheck \/ Preflight \/ Snapshot \/ Assemble
      BY <3>1 DEF Begin, OpenShell, OpenGates, RiskCheck, CooldownCheck, Preflight, Snapshot, Assemble
    <3>2. CASE WriteLock \/ Tamper \/ Exit \/ \E r \in Roots : WriteTarget(r) \/ Redirect(r)
      BY <3>2 DEF WriteLock, Tamper, Exit, WriteTarget, Redirect, Runs
    <3>3. CASE CheckTampered \/ PostRunCooldown
      BY <3>3 DEF CheckTampered, PostRunCooldown
    <3>4. CASE Verdict \/ Collect \/ PostScan \/ PostScanRisk \/ Final
      BY <3>4 DEF Verdict, Collect, PostScan, PostScanRisk, Final
    <3>5. CASE \E r \in Roots : RestoreTarget(r) \/ ClearForBackup(r) \/ RestoreBackup(r)
      BY <3>5 DEF RestoreTarget, ClearForBackup, RestoreBackup
    <3>6. CASE Restored \/ AfterUndo \/ Store \/ Interrupt \/ Raise \/ Kill
      BY <3>6 DEF Restored, AfterUndo, Store, Interrupt, Raise, Kill
    <3>7. CASE Stopped \/ UNCHANGED vars
      BY <3>7 DEF Stopped, vars
    <3> QED BY <1>2, <3>1, <3>2, <3>3, <3>4, <3>5, <3>6, <3>7 DEF Next
  <2>2. scanOk
    BY <1>w, <1>2 DEF Writers, Passed, PostRunCooldown
  <2>3. NewInLock' \subseteq NewInLock
    <3>1. ~WriteLock
      BY <2>1 DEF WriteLock, Runs, AfterScan
    <3> QED BY <1>w, <3>1, NewInLockShrinks DEF Writers, NewInLock
  <2>4. unanswered \subseteq unanswered'
    BY <1>w, <1>2 DEF Writers, PostScan
  <2> QED BY <1>w, <2>1, <2>2, <2>3, <2>4 DEF LockScanned, Passed, Writers
<1> QED BY <1>1, <1>2

LEMMA AnsweredNext == TypeOK /\ Course /\ LockAnswered /\ [Next]_vars => LockAnswered'
<1> SUFFICES ASSUME TypeOK, Course, LockAnswered, [Next]_vars, phase' \in AfterScan \ {"postrun"}, Passed', ~Failed'
             PROVE  (NewInLock \cap Young \subseteq Answered)'
  BY DEF LockAnswered
<1>w. Writers
  BY WritersNext
<1>1. CASE PostRunCooldown
  <2>1. ~Failed
    BY <1>w, <1>1 DEF PostRunCooldown, Failed, Shell
  <2>2. PICK ok \in BOOLEAN, clears, missed \in SUBSET Young :
           /\ CooldownDecide(Chosen, ok, clears, missed)
           /\ scanOk' = (scanOk /\ ok)
           /\ pending' = pending \cup clears
           /\ undated' = undated \cup missed
    BY <1>1, <2>1 DEF PostRunCooldown, Failed
  <2>3. scanOk /\ ok
    BY <2>2 DEF Passed
  <2>4. Chosen \cap Young \subseteq clears \cup missed \cup cleared
    BY <2>2, <2>3 DEF CooldownDecide
  <2>5. NewInLock' \cap Young \subseteq Chosen
    BY <1>1, <1>w, <2>3 DEF Chosen, NewInLock, LockChanged, Writers, PostRunCooldown, disk
  <2> QED BY <1>1, <2>2, <2>4, <2>5 DEF Answered, PostRunCooldown
<1>2. CASE ~PostRunCooldown
  <2>1. phase \in AfterScan \ {"postrun"} /\ why # "refused" /\ rc' = rc
    <3> USE DEF AfterScan, Passed, Course, Undo, Return, disk, gates, rollback
    <3>1. CASE Begin \/ OpenGates \/ RiskCheck \/ CooldownCheck \/ Preflight \/ Snapshot \/ Assemble
      BY <3>1 DEF Begin, OpenShell, OpenGates, RiskCheck, CooldownCheck, Preflight, Snapshot, Assemble
    <3>2. CASE WriteLock \/ Tamper \/ Exit \/ \E r \in Roots : WriteTarget(r) \/ Redirect(r)
      BY <3>2 DEF WriteLock, Tamper, Exit, WriteTarget, Redirect, Runs
    <3>3. CASE CheckTampered \/ ScanLock
      BY <3>3 DEF CheckTampered, ScanLock
    <3>4. CASE Verdict \/ Collect \/ PostScan \/ PostScanRisk \/ Final
      BY <3>4 DEF Verdict, Collect, PostScan, PostScanRisk, Final
    <3>5. CASE \E r \in Roots : RestoreTarget(r) \/ ClearForBackup(r) \/ RestoreBackup(r)
      BY <3>5 DEF RestoreTarget, ClearForBackup, RestoreBackup
    <3>6. CASE Restored \/ AfterUndo \/ Store \/ Interrupt \/ Raise \/ Kill
      BY <3>6 DEF Restored, AfterUndo, Store, Interrupt, Raise, Kill
    <3>7. CASE Stopped \/ UNCHANGED vars
      BY <3>7 DEF Stopped, vars
    <3> QED BY <1>2, <3>1, <3>2, <3>3, <3>4, <3>5, <3>6, <3>7 DEF Next
  <2>2. scanOk /\ ~Failed
    BY <1>w, <1>2, <2>1 DEF Writers, Passed, ScanLock, AfterScan, Failed, Shell
  <2>3. NewInLock' \subseteq NewInLock
    <3>1. ~WriteLock
      BY <2>1 DEF WriteLock, Runs, AfterScan
    <3> QED BY <1>w, <3>1, NewInLockShrinks DEF Writers, NewInLock
  <2>4. Answered \subseteq Answered'
    <3>1. ~CooldownCheck
      BY <2>1 DEF CooldownCheck, AfterScan
    <3>2. cleared \subseteq cleared'
      BY <1>w DEF Writers, Store
    <3> QED BY <1>w, <1>2, <3>1, <3>2 DEF Writers, Answered
  <2> QED BY <2>1, <2>2, <2>3, <2>4 DEF LockAnswered, Passed
<1> QED BY <1>1, <1>2

LEMMA QueriesNext == Course /\ QueriesAnswered /\ [Next]_vars => QueriesAnswered'
<1> SUFFICES ASSUME Course, QueriesAnswered, [Next]_vars,
                    (phase \in {"preflight", "snapshot", "assemble"} \cup Commanded)', ~Shell'
             PROVE  (Queries \cap Young \subseteq Answered)'
  BY DEF QueriesAnswered
<1>w. Writers /\ Order
  BY WritersNext, OrderNext
<1>1. Queries' = Queries /\ ~Shell
  BY <1>w DEF Writers, Queries, Shell
<1>2. CASE CooldownCheck
  <2>1. PICK ok \in BOOLEAN, clears, missed \in SUBSET Young :
           /\ CooldownDecide(Queries, ok, clears, missed)
           /\ pending' = clears
           /\ undated' = undated \cup missed
           /\ IF ok /\ ~cmd.external THEN phase' = "preflight" /\ UNCHANGED <<code, onDisk>> ELSE Return(1)
    BY <1>2 DEF CooldownCheck
  <2>2. ok
    BY <2>1 DEF Return, Commanded
  <2>3. Queries \cap Young \subseteq clears \cup missed \cup cleared
    BY <2>1, <2>2, CooldownDecideType
  <2> QED BY <1>1, <1>2, <2>1, <2>3 DEF Answered, CooldownCheck
<1>3. CASE ~CooldownCheck
  <2>1. phase \in {"preflight", "snapshot", "assemble"} \cup Commanded
    <3>1. CASE phase' \in Commanded
      BY <1>w, <3>1 DEF Order
    <3>2. CASE phase' \in {"preflight", "snapshot", "assemble"}
      <4> USE <3>2 DEF Undo, Return, Commanded
      <4>1. CASE Begin \/ OpenGates \/ RiskCheck \/ Preflight \/ Snapshot \/ Assemble
        BY <1>1, <4>1 DEF Begin, OpenShell, OpenGates, RiskCheck, Preflight, Snapshot, Assemble
      <4>2. CASE WriteLock \/ Tamper \/ Exit \/ \E r \in Roots : WriteTarget(r) \/ Redirect(r)
        BY <4>2 DEF WriteLock, Tamper, Exit, WriteTarget, Redirect, Runs
      <4>3. CASE CheckTampered \/ ScanLock \/ PostRunCooldown
        BY <4>3 DEF CheckTampered, ScanLock, PostRunCooldown
      <4>4. CASE Verdict \/ Collect \/ PostScan \/ PostScanRisk \/ Final
        BY <4>4 DEF Verdict, Collect, PostScan, PostScanRisk, Final
      <4>5. CASE \E r \in Roots : RestoreTarget(r) \/ ClearForBackup(r) \/ RestoreBackup(r)
        BY <4>5 DEF RestoreTarget, ClearForBackup, RestoreBackup
      <4>6. CASE Restored \/ AfterUndo \/ Store \/ Interrupt \/ Raise \/ Kill
        BY <4>6 DEF Restored, AfterUndo, Store, Interrupt, Raise, Kill
      <4>7. CASE Stopped \/ UNCHANGED vars
        BY <4>7 DEF Stopped, vars
      <4> QED BY <1>3, <4>1, <4>2, <4>3, <4>4, <4>5, <4>6, <4>7 DEF Next
    <3> QED BY <3>1, <3>2
  <2>2. pending \subseteq pending' /\ undated \subseteq undated' /\ cleared \subseteq cleared'
    BY <1>w, <1>3 DEF Writers, PostRunCooldown, Store
  <2> QED BY <1>1, <2>1, <2>2 DEF QueriesAnswered, Answered
<1> QED BY <1>2, <1>3

(* Of the new packages of every target scanned, none is malicious but what *)
(* OSV did not tell; and an environment not scanned holds no package, is   *)
(* one the user is told of, or was overlooked.                             *)
TargetsScanned ==
  why = "" =>
    /\ phase \in {"postrisk", "final", "store"} => NewPackages \cap Malicious \subseteq unanswered
    /\ phase \in {"postscan", "postrisk", "final", "store"} /\ ~Shell =>
         \A r \in (Venvs \cup Envs) \ unscanned : r \in scanned \/ root[r].pkgs \subseteq Overlooked(r)

LEMMA TargetsInit == Init => TargetsScanned
  BY DEF Init, TargetsScanned

LEMMA NewPackagesSame == UNCHANGED <<root, scanned, snap, overlooked>> => NewPackages' = NewPackages
<1> SUFFICES ASSUME root' = root, scanned' = scanned, snap' = snap, overlooked' = overlooked
             PROVE NewPackages' = NewPackages
  OBVIOUS
<1>1. \A r : NewIn(r, snap[r])' = NewIn(r, snap[r]) /\ Overlooked(r)' = Overlooked(r)
  BY DEF NewIn, Overlooked
<1> QED BY <1>1 DEF NewPackages

LEMMA TargetsNext == TypeOK /\ Course /\ Snapshots /\ TargetsScanned /\ [Next]_vars => TargetsScanned'
<1> SUFFICES ASSUME TypeOK, Course, Snapshots, TargetsScanned, [Next]_vars, why' = "",
                    phase' \in {"postscan", "postrisk", "final", "store"}
             PROVE  /\ phase' \in {"postrisk", "final", "store"} => NewPackages' \cap Malicious \subseteq unanswered'
                    /\ ~Shell' => \A r \in (Venvs \cup Envs) \ unscanned' :
                                     r \in scanned' \/ root'[r].pkgs \subseteq Overlooked(r)'
  BY DEF TargetsScanned
<1> USE DEF Course
<1>w. Writers
  BY WritersNext
<1>1. CASE Collect
  <2>0. PICK told \in SUBSET Created :
          /\ scanned' = scanned \cup told
          /\ unscanned' = (Created \ told) \cap Envs
          /\ \A r \in (Created \ told) \ Envs : \A p \in root[r].pkgs : <<r, p>> \in overlooked'
    BY <1>1, FoundType
  <2>1. ASSUME NEW r \in (Venvs \cup Envs) \ unscanned', r \notin scanned', ~Shell
        PROVE  root[r].pkgs \subseteq Overlooked(r)'
    <3>0. root[r] \in RootStates
      BY <2>1 DEF TypeOK, Roots
    <3>1. CASE r \in Created
      <4>1. \A p \in root[r].pkgs : <<r, p>> \in overlooked'
        BY <2>0, <2>1, <3>1
      <4>2. root[r].pkgs \subseteq Pkgs
        BY <3>0 DEF RootStates
      <4> QED BY <4>1, <4>2 DEF Overlooked
    <3>2. CASE r \notin Created
      <4>1. scanned = {} \/ r \in Envs
        BY <1>1, <2>1, EnvironmentsAssumption DEF Snapshots, BeforeCollect, Collect
      <4>2. root[r].kind # "dir"
        BY <2>1, <3>2, <4>1 DEF Created
      <4> QED BY <3>0, <4>2 DEF RootStates
    <3> QED BY <3>1, <3>2
  <2>2. phase' = "postscan"
    BY <1>1 DEF Collect, Undo
  <2>3. root' = root /\ (Shell' => Shell) /\ (Shell => Shell')
    BY <1>1 DEF Collect, Shell
  <2> QED BY <2>1, <2>2, <2>3
<1>2. CASE PostScan
  <2>1. PICK degraded \in SUBSET NewPackages :
           unanswered' = unanswered \cup degraded /\ Flagged(NewPackages, degraded, {}) = {}
    BY <1>2 DEF PostScan, Undo
  <2>2. NewPackages' = NewPackages
    BY <1>2, NewPackagesSame DEF PostScan, disk, unseen
  <2>3. phase = "postscan" /\ UNCHANGED <<root, scanned>> /\ why = "" /\ (Shell' <=> Shell)
    BY <1>2, <1>w DEF PostScan, Undo, Shell, Writers
  <2>4. unscanned' = unscanned /\ \A r : Overlooked(r)' = Overlooked(r)
    BY <1>2 DEF PostScan, unseen, Overlooked
  <2> QED BY <2>1, <2>2, <2>3, <2>4 DEF Flagged, TargetsScanned
<1>3. CASE ~Collect /\ ~PostScan
  <2>0. UNCHANGED <<unscanned, overlooked>>
    BY <1>w, <1>3 DEF Writers, unseen
  <2>1. /\ UNCHANGED <<root, scanned, snap, unanswered, why, cmd>>
        /\ phase \in {"postscan", "postrisk", "final", "store"}
        /\ phase' \in {"postrisk", "final", "store"} => phase \in {"postrisk", "final", "store"}
    <3> USE DEF Undo, Return, disk, gates, rollback
    <3>1. CASE Begin \/ OpenGates \/ RiskCheck \/ CooldownCheck \/ Preflight \/ Snapshot \/ Assemble
      BY <3>1 DEF Begin, OpenShell, OpenGates, RiskCheck, CooldownCheck, Preflight, Snapshot, Assemble
    <3>2. CASE WriteLock \/ Tamper \/ Exit \/ \E r \in Roots : WriteTarget(r) \/ Redirect(r)
      BY <3>2 DEF WriteLock, Tamper, Exit, WriteTarget, Redirect, Runs
    <3>3. CASE CheckTampered \/ ScanLock \/ PostRunCooldown
      BY <3>3 DEF CheckTampered, ScanLock, PostRunCooldown
    <3>4. CASE Verdict \/ PostScanRisk \/ Final
      BY <3>4 DEF Verdict, PostScanRisk, Final
    <3>5. CASE \E r \in Roots : RestoreTarget(r) \/ ClearForBackup(r) \/ RestoreBackup(r)
      BY <3>5 DEF RestoreTarget, ClearForBackup, RestoreBackup
    <3>6. CASE Restored \/ AfterUndo \/ Store \/ Interrupt \/ Raise \/ Kill
      BY <3>6 DEF Restored, AfterUndo, Store, Interrupt, Raise, Kill
    <3>7. CASE Stopped \/ UNCHANGED vars
      BY <3>7 DEF Stopped, vars
    <3> QED BY <1>3, <3>1, <3>2, <3>3, <3>4, <3>5, <3>6, <3>7 DEF Next
  <2>2. NewPackages' = NewPackages
    BY <2>0, <2>1, NewPackagesSame
  <2>3. (Shell' => Shell) /\ (Shell => Shell') /\ \A r : Overlooked(r)' = Overlooked(r)
    BY <2>0, <2>1 DEF Shell, Overlooked
  <2> QED BY <2>0, <2>1, <2>2, <2>3 DEF TargetsScanned
<1> QED BY <1>1, <1>2, <1>3
-----------------------------------------------------------------------------
Inv ==
  /\ TypeOK /\ Course /\ Snapshots /\ Rollback /\ Copies
  /\ LockScanned /\ LockAnswered /\ QueriesAnswered /\ TargetsScanned

LEMMA Invariance == Spec => []Inv
<1>1. Init => Inv
  BY TypeInit, CourseInit, SnapshotsInit, RollbackInit, CopiesInit, CheckedInit, TargetsInit DEF Inv
<1>2. Inv /\ [Next]_vars => Inv'
  BY TypeNext, CourseNext, SnapshotsNext, RollbackNext, CopiesNext, ScannedNext, AnsweredNext, QueriesNext,
     TargetsNext DEF Inv
<1> QED BY <1>1, <1>2, PTL DEF Spec

(* TypeOK: the state of a run and of the disk has its type.                *)
THEOREM Typing == Spec => []TypeOK
<1>1. Inv => TypeOK
  BY DEF Inv
<1> QED BY <1>1, Invariance, PTL

(* RefusedIsUndone, for `_restore_lock_files` and                          *)
(* `_restore_install_targets`: a run refused after its command had run has *)
(* put everything back or has said what it could not.                      *)
THEOREM RefusalUndoes == Spec => []RefusedIsUndone
<1>1. Inv => RefusedIsUndone
  BY DEF Inv, Rollback, RefusedIsUndone
<1> QED BY <1>1, Invariance, PTL

(* BackupKeptUntilSafe, for `run` and `dir_backup`: whatever ends the run, *)
(* a directory backed up whole is as it was, has its backup, or was left   *)
(* as a run that succeeded made it.                                        *)
THEOREM BackupSurvives == Spec => []BackupKeptUntilSafe
<1>1. Init => BackupKeptUntilSafe
  BY DEF Init, BackupKeptUntilSafe, SameTarget
<1>2. Inv /\ Inv' /\ BackupKeptUntilSafe /\ [Next]_vars => BackupKeptUntilSafe'
  <2> SUFFICES ASSUME Inv, Inv', BackupKeptUntilSafe, [Next]_vars,
                      NEW r \in Backed, disk0'.root[r].kind = "dir", ~Shell'
               PROVE  (r \in onDisk \/ SameTarget(r) \/ (phase = "done" /\ code = 0 /\ ~cmd.nochange))'
    BY DEF BackupKeptUntilSafe
  <2>w. Writers /\ Order
    BY WritersNext, OrderNext
  <2>0. disk0.root[r].kind = "dir" /\ ~Shell
    BY <2>w DEF Writers, Shell
  <2>1. CASE phase' \in BeforeTheRun
    BY <2>1 DEF Inv, Snapshots, SameTarget
  <2>2. CASE phase' \in Commanded
    BY <2>2 DEF Inv, Copies, WholeCopies
  <2>3. CASE phase \in Ended
    BY <2>0, <2>3, <2>w DEF Order, vars, BackupKeptUntilSafe, SameTarget
  <2>4. CASE phase \notin Ended /\ phase' \in Ended
    <3>1. phase \in Live
      BY <2>4 DEF Inv, TypeOK
    <3>2. UNCHANGED <<root, disk0, cmd>>
      <4>1. ~WriteLock /\ ~Undoing /\ phase' # phase
        BY <2>4, <3>1 DEF Ended, Live, WriteLock, Runs, Undoing, Undo
      <4>2. ~ \E q \in Roots : WriteTarget(q) \/ RestoreTarget(q) \/ ClearForBackup(q) \/ RestoreBackup(q)
        BY <4>1 DEF WriteTarget, Runs, RestoreTarget, ClearForBackup, RestoreBackup
      <4> QED BY <2>w, <4>2 DEF Writers
    <3>3. CASE phase \in BeforeTheRun
      BY <3>2, <3>3 DEF Inv, Snapshots, SameTarget
    <3>4. CASE phase \in Commanded
      <4>1. r \in onDisk
        BY <2>0, <3>4 DEF Inv, Copies, WholeCopies
      <4>2. CASE Raise \/ UNCHANGED onDisk
        BY <3>4, <4>1, <4>2 DEF Raise, Started, Commanded
      <4>3. CASE Returning
        <5>1. phase' = "done" /\ onDisk' = onDisk \cap keep
          BY <4>3 DEF Returning, Return
        <5>2. CASE why # "" /\ phase \in {"undone", "store"}
          <6>1. r \in keep \/ SameTarget(r)
            BY <4>1, <5>2 DEF Inv, Rollback, Covered
          <6> QED BY <3>2, <4>1, <5>1, <6>1 DEF SameTarget
        <5>3. CASE Store /\ why = ""
          <6>1. rc = 0 /\ code' = rc /\ ~cmd.nochange
            BY <2>0, <5>3 DEF Inv, Course, Failed, Store, Return
          <6> QED BY <3>2, <5>1, <6>1
        <5>4. CASE Verdict
          BY <4>1, <5>1, <5>4 DEF Verdict, Undo, Return
        <5>5. Store \/ AfterUndo \/ Verdict
          BY <3>4, <5>1
          DEF Commanded, Next, Begin, OpenGates, RiskCheck, CooldownCheck, Preflight, Snapshot, Assemble, WriteLock,
              Tamper, Exit, WriteTarget, Redirect, Runs, CheckTampered, ScanLock, PostRunCooldown, Collect,
              PostScan, PostScanRisk, Final, Undo, RestoreTarget, ClearForBackup, RestoreBackup, Restored,
              Interrupt, Raise, Kill, Stopped, vars
        <5>6. Store => phase = "store"
          BY DEF Store
        <5>7. AfterUndo => phase = "undone" /\ why # ""
          BY DEF AfterUndo, Inv, Course
        <5> QED BY <5>2, <5>3, <5>4, <5>5, <5>6, <5>7
      <4>4. ~Snapshot
        BY <3>4 DEF Snapshot, Commanded
      <4> QED BY <2>w, <4>2, <4>3, <4>4 DEF Writers
    <3> QED BY <3>1, <3>3, <3>4 DEF Live, BeforeTheRun, Commanded
  <2>5. phase' \in BeforeTheRun \cup Commanded \cup Ended
    BY DEF Inv, TypeOK, Live, BeforeTheRun, Commanded
  <2> QED BY <2>1, <2>2, <2>3, <2>4, <2>5
<1> QED BY <1>1, <1>2, Invariance, PTL DEF Spec

\* Only storing the clearances ends a run with success.
LEMMA SuccessIsStore ==
  ASSUME Inv, [Next]_vars, phase # "done", phase' = "done", code' = 0
  PROVE  /\ Store /\ rc = 0 /\ phase = "store" /\ scanOk /\ why # "refused" /\ ~Failed
         /\ UNCHANGED <<cmd, lock, root, rc, disk0, undated, unanswered>> /\ cleared' = cleared \cup pending
         /\ cmd.nochange \/ why = ""
<1>1. code = 99
  BY DEF Inv, Course
<1>2. Store
  <2> USE <1>1 DEF Undo, Return, disk, gates, rollback
  <2>1. CASE Begin \/ OpenGates \/ RiskCheck \/ CooldownCheck \/ Preflight \/ Snapshot \/ Assemble
    BY <2>1 DEF Begin, OpenShell, OpenGates, RiskCheck, CooldownCheck, Preflight, Snapshot, Assemble
  <2>2. CASE WriteLock \/ Tamper \/ Exit \/ \E r \in Roots : WriteTarget(r) \/ Redirect(r)
    BY <2>2 DEF WriteLock, Tamper, Exit, WriteTarget, Redirect, Runs
  <2>3. CASE CheckTampered \/ ScanLock \/ PostRunCooldown \/ Collect \/ PostScan \/ PostScanRisk \/ Final
    BY <2>3 DEF CheckTampered, ScanLock, PostRunCooldown, Collect, PostScan, PostScanRisk, Final
  <2>4. CASE Verdict \/ AfterUndo
    BY <2>4 DEF Verdict, AfterUndo, Failed
  <2>5. CASE \E r \in Roots : RestoreTarget(r) \/ ClearForBackup(r) \/ RestoreBackup(r)
    BY <2>5 DEF RestoreTarget, ClearForBackup, RestoreBackup
  <2>6. CASE Restored \/ Interrupt \/ Raise \/ Kill
    BY <2>6 DEF Restored, Interrupt, Raise, Kill
  <2>7. CASE Stopped \/ UNCHANGED vars
    BY <2>7 DEF Stopped, vars
  <2> QED BY <2>1, <2>2, <2>3, <2>4, <2>5, <2>6, <2>7 DEF Next
<1>3. rc = 0 /\ phase = "store"
  BY <1>1, <1>2 DEF Store, Return
<1>4. scanOk /\ ~Failed /\ why # "refused" /\ (cmd.nochange \/ why = "")
  <2>1. why \in {"", "refused", "failed", "dry"}
    BY DEF Inv, TypeOK
  <2> QED BY <1>3, <2>1 DEF Inv, Course
<1> QED BY <1>2, <1>3, <1>4 DEF Store, Return, disk, gates

(* YoungIsAnswered, for `_cooldown_check`, `_post_run_cooldown` and        *)
(* `_store_cooldown_clears`: a run that succeeds has asked about every     *)
(* young version it could date, and has recorded the answer.               *)
THEOREM YoungAreAnswered == Spec => []YoungIsAnswered
<1>1. Init => YoungIsAnswered
  BY DEF Init, YoungIsAnswered
<1>2. Inv /\ YoungIsAnswered /\ [Next]_vars => YoungIsAnswered'
  <2> SUFFICES ASSUME Inv, YoungIsAnswered, [Next]_vars, phase' = "done", code' = 0
               PROVE  (((IF Shell THEN {} ELSE Queries) \cup NewInLock) \cap Young \subseteq cleared \cup undated)'
    BY DEF YoungIsAnswered, NewInLock
  <2>1. CASE phase = "done"
    <3>1. UNCHANGED vars
      BY <2>1, OrderNext DEF Order, Ended
    <3> QED BY <3>1 DEF vars, YoungIsAnswered, NewInLock, Shell, Queries
  <2>2. CASE phase # "done"
    <3>1. /\ rc = 0 /\ phase = "store" /\ scanOk /\ why # "refused" /\ ~Failed
          /\ UNCHANGED <<cmd, lock, disk0, undated>> /\ cleared' = cleared \cup pending
      BY <2>2, SuccessIsStore
    <3>2. NewInLock \cap Young \subseteq Answered
      BY <3>1 DEF Inv, LockAnswered, AfterScan, Passed
    <3>3. ~Shell => Queries \cap Young \subseteq Answered
      BY <3>1 DEF Inv, QueriesAnswered, Commanded
    <3>4. NewInLock' = NewInLock /\ Queries' = Queries /\ (Shell' <=> Shell)
      BY <3>1 DEF NewInLock, Queries, Shell
    <3> QED BY <3>1, <3>2, <3>3, <3>4 DEF Answered
  <2> QED BY <2>1, <2>2
<1> QED BY <1>1, <1>2, Invariance, PTL DEF Spec

\* A run ends with its command's own code when everything has passed, or when the command
\* failed and its lock file passed.
LEMMA OwnCodeIsPassed ==
  ASSUME Inv, [Next]_vars, phase # "done", phase' = "done", code' = rc'
  PROVE  /\ phase \in AfterScan /\ scanOk /\ why # "refused"
         /\ ~Failed => phase = "store" /\ (cmd.nochange \/ why = "")
         /\ UNCHANGED <<cmd, lock, root, rc, disk0, unanswered, unscanned, overlooked>>
<1>1. code = 99 /\ rc \in {0, 2}
  BY DEF Inv, Course, TypeOK
<1>2. Verdict \/ AfterUndo \/ Store
  <2> USE <1>1 DEF Undo, Return, disk, gates, rollback
  <2>1. CASE Begin \/ OpenGates \/ RiskCheck \/ CooldownCheck \/ Preflight \/ Snapshot \/ Assemble
    BY <2>1 DEF Begin, OpenShell, OpenGates, RiskCheck, CooldownCheck, Preflight, Snapshot, Assemble
  <2>2. CASE WriteLock \/ Tamper \/ Exit \/ \E r \in Roots : WriteTarget(r) \/ Redirect(r)
    BY <2>2 DEF WriteLock, Tamper, Exit, WriteTarget, Redirect, Runs
  <2>3. CASE CheckTampered \/ ScanLock \/ PostRunCooldown \/ Collect \/ PostScan \/ PostScanRisk \/ Final
    BY <2>3 DEF CheckTampered, ScanLock, PostRunCooldown, Collect, PostScan, PostScanRisk, Final
  <2>5. CASE \E r \in Roots : RestoreTarget(r) \/ ClearForBackup(r) \/ RestoreBackup(r)
    BY <2>5 DEF RestoreTarget, ClearForBackup, RestoreBackup
  <2>6. CASE Restored \/ Interrupt \/ Raise \/ Kill
    BY <2>6 DEF Restored, Interrupt, Raise, Kill
  <2>7. CASE Stopped \/ UNCHANGED vars
    BY <2>7 DEF Stopped, vars
  <2> QED BY <2>1, <2>2, <2>3, <2>5, <2>6, <2>7 DEF Next
<1>3. CASE Store
  <2>1. phase = "store" /\ UNCHANGED <<cmd, lock, root, rc, disk0, unanswered, unscanned, overlooked>>
    BY <1>3 DEF Store, disk, gates, unseen
  <2>2. scanOk /\ ~Failed /\ why # "refused" /\ (cmd.nochange \/ why = "")
    <3>1. why \in {"", "refused", "failed", "dry"}
      BY DEF Inv, TypeOK
    <3> QED BY <2>1, <3>1 DEF Inv, Course
  <2> QED BY <2>1, <2>2 DEF AfterScan
<1>4. CASE AfterUndo
  <2>1. phase = "undone" /\ UNCHANGED <<cmd, lock, root, rc, disk0, unanswered, unscanned, overlooked>>
    BY <1>4 DEF AfterUndo, disk, gates, unseen
  <2>2. scanOk /\ why # "refused" /\ Failed
    BY <1>1, <1>4, <2>1 DEF AfterUndo, Return
  <2> QED BY <2>1, <2>2 DEF AfterScan
<1>5. CASE Verdict
  <2>1. phase = "verdict" /\ UNCHANGED <<cmd, root, rc, disk0, unanswered, unscanned, overlooked>>
    BY <1>5 DEF Verdict, gates, unseen
  <2>2. scanOk /\ Failed /\ lock' = lock
    BY <1>5 DEF Verdict, Undo
  <2>3. why = ""
    BY <2>1 DEF Inv, Course
  <2> QED BY <2>1, <2>2, <2>3 DEF AfterScan
<1> QED BY <1>2, <1>3, <1>4, <1>5

(* What lies at a path that was not there before.                          *)
Appeared(r) == {p \in root[r].pkgs : Path[p] \notin Paths(disk0.root[r].pkgs)}

(* What a run that kept its changes let through: for any naming of paths,  *)
(* nothing malicious at a new path but what OSV did not tell, what lies in *)
(* an environment the user was told is not scanned, and what a language    *)
(* module that raised did not tell of.                                     *)
AppearedIsScanned ==
  phase = "done" /\ code = rc /\ ~cmd.nochange =>
    /\ \A r \in Looked : Appeared(r) \cap Malicious \subseteq unanswered \cup Overlooked(r)
    /\ NewInLock \cap Malicious \subseteq unanswered \cup cmd.stale

(* AppearedIsScanned, for `_scan_updated_lock_files`,                      *)
(* `_add_new_env_targets`, `_collect_new_packages` and `_post_scan`.       *)
THEOREM NewPathsAreScanned == Spec => []AppearedIsScanned
<1>1. Init => AppearedIsScanned
  BY DEF Init, AppearedIsScanned
<1>2. Inv /\ AppearedIsScanned /\ [Next]_vars => AppearedIsScanned'
  <2> SUFFICES ASSUME Inv, AppearedIsScanned, [Next]_vars, phase' = "done", code' = rc', ~cmd'.nochange
               PROVE  (/\ \A r \in Looked : Appeared(r) \cap Malicious \subseteq unanswered \cup Overlooked(r)
                       /\ NewInLock \cap Malicious \subseteq unanswered \cup cmd.stale)'
    BY DEF AppearedIsScanned
  <2>1. CASE phase = "done"
    <3>1. UNCHANGED vars
      BY <2>1, OrderNext DEF Order, Ended
    <3>2. AppearedIsScanned'
      BY <3>1 DEF vars, AppearedIsScanned, Looked, Failed, Overlooked, Appeared, NewInLock, Shell
    <3> QED BY <3>2 DEF AppearedIsScanned
  <2>2. CASE phase # "done"
    <3>1. /\ phase \in AfterScan /\ scanOk /\ why # "refused"
          /\ ~Failed => phase = "store" /\ (cmd.nochange \/ why = "")
          /\ UNCHANGED <<cmd, lock, root, rc, disk0, unanswered, unscanned, overlooked>>
      BY <2>2, OwnCodeIsPassed
    <3>2. NewInLock \cap Malicious \subseteq unanswered \cup cmd.stale
      BY <3>1 DEF Inv, LockScanned, Passed
    <3>3. ASSUME NEW r \in Looked
          PROVE  Appeared(r) \cap Malicious \subseteq unanswered \cup Overlooked(r)
      <4>1. phase = "store" /\ why = "" /\ ~Failed
        BY <3>1, <3>3 DEF Looked
      <4>2. NewPackages \cap Malicious \subseteq unanswered
        BY <4>1 DEF Inv, TargetsScanned
      <4>3. r \in scanned \/ root[r].pkgs \subseteq Overlooked(r)
        BY <3>3, <4>1 DEF Inv, TargetsScanned, Snapshots, Commanded, Looked, Roots
      <4>4. CASE r \in scanned
        <5>1. snap[r] = disk0.root[r]
          BY <4>1, <4>4 DEF Inv, Snapshots, Commanded
        <5>2. Appeared(r) \ Overlooked(r) \subseteq NewPackages
          BY <4>4, <5>1 DEF Appeared, NewPackages, NewIn
        <5> QED BY <4>2, <5>2
      <4> QED BY <4>3, <4>4 DEF Appeared
    <3>4. \A r : Appeared(r)' = Appeared(r) /\ Overlooked(r)' = Overlooked(r)
      BY <3>1 DEF Appeared, Overlooked
    <3>5. Looked' = Looked /\ NewInLock' = NewInLock
      BY <3>1 DEF Looked, Failed, NewInLock, Shell
    <3> QED BY <3>1, <3>2, <3>3, <3>4, <3>5
  <2> QED BY <2>1, <2>2
<1> QED BY <1>1, <1>2, Invariance, PTL DEF Spec

\* The path of a package's metadata tells its version, as a dist-info directory's does.
PathsNameVersions == \A p, q \in Pkgs : Path[p] = Path[q] => p = q

(* NoMaliciousKept, for an ecosystem whose metadata paths name the version *)
(* (Python's do; of an npm package or a Composer one replaced in place     *)
(* only the lock file tells): what `run` keeps of a command, failed or not,*)
(* but for an environment it warned of and what a language module that     *)
(* raised did not tell of.                                                 *)
THEOREM NothingMaliciousIsKept == ASSUME PathsNameVersions PROVE Spec => []NoMaliciousKept
<1>1. Inv /\ AppearedIsScanned => NoMaliciousKept
  <2> SUFFICES ASSUME Inv, AppearedIsScanned, phase = "done", code = rc, ~cmd.nochange
               PROVE  /\ \A r \in Looked : (root[r].pkgs \ disk0.root[r].pkgs) \cap Malicious
                                             \subseteq unanswered \cup Overlooked(r)
                      /\ NewInLock \cap Malicious \subseteq unanswered \cup cmd.stale
    BY DEF NoMaliciousKept, NewInLock
  <2>1. ASSUME NEW r \in Looked
        PROVE  root[r].pkgs \ disk0.root[r].pkgs \subseteq Appeared(r)
    <3>1. r \in Roots
      BY DEF Looked, Roots
    <3>2. root[r].pkgs \subseteq Pkgs
      <4>1. root \in [Roots -> RootStates]
        BY DEF Inv, TypeOK
      <4> QED BY <3>1, <4>1 DEF RootStates
    <3>3. disk0.root[r].pkgs \subseteq Pkgs
      <4>1. disk0.root \in [Roots -> RootStates]
        BY Inputs DEF Inv, TypeOK
      <4> QED BY <3>1, <4>1 DEF RootStates
    <3> QED BY <3>2, <3>3, PathsNameVersions DEF PathsNameVersions, Appeared, Paths
  <2> QED BY <2>1 DEF AppearedIsScanned
<1> QED BY <1>1, Invariance, NewPathsAreScanned, PTL

(* NothingThroughLinks, for `_restore_install_targets`: the rollback       *)
(* writes nothing below a directory the run replaced by a link.            *)
THEOREM LinksAreNotFollowed == Spec => NothingThroughLinks
<1>1. TypeOK /\ [Next]_vars => [phase = "undo" => \A r \in redirected : root'[r] = root[r]]_vars
  <2> SUFFICES ASSUME TypeOK, [Next]_vars, phase = "undo", NEW q \in redirected
               PROVE  root'[q] = root[q]
    OBVIOUS
  <2>1. q \in Roots /\ root \in [Roots -> RootStates]
    BY DEF TypeOK
  <2>2. ASSUME NEW r \in Roots, RestoreTarget(r) \/ ClearForBackup(r) \/ RestoreBackup(r)
        PROVE  root'[q] = root[q]
    <3>1. UNCHANGED root \/ r # q
      BY <2>2 DEF RestoreTarget, ClearForBackup, RestoreBackup
    <3> QED BY <2>1, <2>2, <3>1 DEF RestoreTarget, ClearForBackup, RestoreBackup
  <2>3. ~ \E r \in Roots : WriteTarget(r)
    BY DEF WriteTarget, Runs
  <2> QED BY <2>2, <2>3, WritersNext DEF Writers
<1> QED BY <1>1, Typing, PTL DEF Spec, NothingThroughLinks

-----------------------------------------------------------------------------
(* CapturedRun.  The invariant relates the call, the thread that runs its  *)
(* command and the command: how far each has come when the others are      *)
(* where they are.                                                         *)

\* The flags of the call are ones the checks let pass, and its command is one
\* that may be run.
Agreed == \E flags \in agreed : \A ns \in Namespaces : flags[ns] = call.flags[ns]
AskedFor == Agreed /\ Acceptable(call)

CallTypes ==
    /\ call \in Calls
    /\ agreed \subseteq FlagSets
    /\ caller \in {"idle", "asking", "assembling", "waiting", "grace", "leaving"}
    /\ worker \in {"none", "queued", "prepared", "starting", "launching", "polling", "ending",
                   "done"}
    /\ binds \in BOOLEAN /\ cancel \in BOOLEAN /\ abandoned \in BOOLEAN /\ planted \in BOOLEAN
    /\ leader \in {"none", "running", "exited", "killed"}

\* An answer that is remembered is that of the flags it was asked for.
Remembered ==
    \A key \in DOMAIN authorized : authorized[key] => \E flags \in agreed : AuthKey(flags) = key

\* Nothing is started before it was asked for.
Asking ==
    /\ caller = "asking" => Acceptable(call)
    /\ caller \in {"assembling", "waiting", "grace", "leaving"} => AskedFor
    /\ worker # "none" => AskedFor
    /\ leader # "none" => AskedFor

\* The thread and the command.
Working ==
    /\ worker \in {"none", "queued", "prepared", "starting", "launching"} => leader = "none"
      /\ kid = "none"
    /\ worker \in {"ending", "done"} => leader # "running"
    /\ worker \in {"ending", "done"} /\ Container => kid = "none"
    /\ worker = "done" /\ Container => home # "made"

\* The call and the thread.
Calling ==
    /\ caller \in {"idle", "asking", "assembling"} => ~binds
    /\ caller \in {"asking", "assembling"} => worker = "none"
    /\ caller \in {"leaving", "idle"} /\ ~abandoned => worker \in {"none", "done"}
    /\ caller = "grace" => Container
    /\ cancel => caller \in {"grace", "leaving", "idle"}
    /\ answer = "cancelled" => cancel

\* What the call has said.
Saying ==
    caller \in {"leaving", "idle"} =>
        /\ callOutcome = "cancelled" /\ ~abandoned => worker = "done" /\ Container
        /\ callOutcome \in {"result", "timedout"} => worker = "done" /\ ~planted

CallInv == CallTypes /\ Remembered /\ Asking /\ Working /\ Calling /\ Saying

LEMMA CallInitHolds == CallInit => CallInv
<1> SUFFICES ASSUME CallInit PROVE CallInv
  OBVIOUS
<1>1. CallTypes
  BY DEF CallInit, CallTypes
<1>2. Remembered
  BY DEF CallInit, Remembered
<1>3. Asking /\ Working /\ Calling /\ Saying
  BY DEF CallInit, Asking, Working, Calling, Saying
<1> QED BY <1>1, <1>2, <1>3 DEF CallInv

\* A step that neither begins a call nor asks leaves what was asked for.
LEMMA AskedStays ==
  ASSUME UNCHANGED <<call, authorized, agreed>>, Remembered
  PROVE /\ AskedFor <=> AskedFor'
        /\ Acceptable(call) <=> Acceptable(call)'
        /\ Container <=> Container'
        /\ Remembered'
  BY DEF AskedFor, Agreed, Acceptable, Approved, Container, Remembered

LEMMA PrepareKeeps == ASSUME CallInv, Prepare PROVE CallInv'
<1>1. UNCHANGED <<call, authorized, agreed>>
  BY DEF Prepare, WorkerEnds, caller_vars, command_vars, worker_vars
<1>2. (AskedFor <=> AskedFor') /\ (Acceptable(call) <=> Acceptable(call)')
      /\ (Container <=> Container') /\ Remembered'
  BY <1>1, AskedStays DEF CallInv
<1>3. CallTypes'
  BY <1>1 DEF CallInv, CallTypes, Prepare, WorkerEnds, caller_vars, command_vars, worker_vars
<1>4. Asking'
  BY <1>2 DEF CallInv, Asking, Calling, Prepare, WorkerEnds, caller_vars, command_vars, worker_vars
<1>5. Working'
  BY <1>2 DEF CallInv, CallTypes, Working, Calling, Prepare, WorkerEnds, caller_vars, command_vars,
     worker_vars
<1>6. Calling'
  BY <1>2 DEF CallInv, CallTypes, Calling, Prepare, WorkerEnds, caller_vars, command_vars,
     worker_vars
<1>7. Saying'
  BY <1>2 DEF CallInv, CallTypes, Saying, Calling, Working, Prepare, WorkerEnds, caller_vars,
     command_vars, worker_vars
<1> QED BY <1>2, <1>3, <1>4, <1>5, <1>6, <1>7 DEF CallInv

LEMMA PopulateKeeps == ASSUME CallInv, Populate PROVE CallInv'
<1>1. UNCHANGED <<call, authorized, agreed>>
  BY DEF Populate, WorkerEnds, caller_vars, command_vars, worker_vars
<1>2. (AskedFor <=> AskedFor') /\ (Acceptable(call) <=> Acceptable(call)')
      /\ (Container <=> Container') /\ Remembered'
  BY <1>1, AskedStays DEF CallInv
<1>3. CallTypes'
  BY <1>1 DEF CallInv, CallTypes, Populate, WorkerEnds, caller_vars, command_vars, worker_vars
<1>4. Asking'
  BY <1>2 DEF CallInv, Asking, Calling, Populate, WorkerEnds, caller_vars, command_vars, worker_vars
<1>5. Working'
  BY <1>2 DEF CallInv, CallTypes, Working, Calling, Populate, WorkerEnds, caller_vars,
     command_vars, worker_vars
<1>6. Calling'
  BY <1>2 DEF CallInv, CallTypes, Calling, Populate, WorkerEnds, caller_vars, command_vars,
     worker_vars
<1>7. Saying'
  BY <1>2 DEF CallInv, CallTypes, Saying, Calling, Working, Populate, WorkerEnds, caller_vars,
     command_vars, worker_vars
<1> QED BY <1>2, <1>3, <1>4, <1>5, <1>6, <1>7 DEF CallInv

LEMMA LastLookKeeps == ASSUME CallInv, LastLook PROVE CallInv'
<1>1. UNCHANGED <<call, authorized, agreed>>
  BY DEF LastLook, WorkerEnds, caller_vars, command_vars, worker_vars
<1>2. (AskedFor <=> AskedFor') /\ (Acceptable(call) <=> Acceptable(call)')
      /\ (Container <=> Container') /\ Remembered'
  BY <1>1, AskedStays DEF CallInv
<1>3. CallTypes'
  BY <1>1 DEF CallInv, CallTypes, LastLook, WorkerEnds, caller_vars, command_vars, worker_vars
<1>4. Asking'
  BY <1>2 DEF CallInv, Asking, Calling, LastLook, WorkerEnds, caller_vars, command_vars, worker_vars
<1>5. Working'
  BY <1>2 DEF CallInv, CallTypes, Working, Calling, LastLook, WorkerEnds, caller_vars,
     command_vars, worker_vars
<1>6. Calling'
  BY <1>2 DEF CallInv, CallTypes, Calling, LastLook, WorkerEnds, caller_vars, command_vars,
     worker_vars
<1>7. Saying'
  BY <1>2 DEF CallInv, CallTypes, Saying, Calling, Working, LastLook, WorkerEnds, caller_vars,
     command_vars, worker_vars
<1> QED BY <1>2, <1>3, <1>4, <1>5, <1>6, <1>7 DEF CallInv

LEMMA LaunchKeeps == ASSUME CallInv, Launch PROVE CallInv'
<1>1. UNCHANGED <<call, authorized, agreed>>
  BY DEF Launch, WorkerEnds, caller_vars, command_vars, worker_vars
<1>2. (AskedFor <=> AskedFor') /\ (Acceptable(call) <=> Acceptable(call)')
      /\ (Container <=> Container') /\ Remembered'
  BY <1>1, AskedStays DEF CallInv
<1>3. CallTypes'
  BY <1>1 DEF CallInv, CallTypes, Launch, WorkerEnds, caller_vars, command_vars, worker_vars
<1>4. Asking'
  BY <1>2 DEF CallInv, Asking, Calling, Launch, WorkerEnds, caller_vars, command_vars, worker_vars
<1>5. Working'
  BY <1>2 DEF CallInv, CallTypes, Working, Calling, Launch, WorkerEnds, caller_vars, command_vars,
     worker_vars
<1>6. Calling'
  BY <1>2 DEF CallInv, CallTypes, Calling, Launch, WorkerEnds, caller_vars, command_vars,
     worker_vars
<1>7. Saying'
  BY <1>2 DEF CallInv, CallTypes, Saying, Calling, Working, Launch, WorkerEnds, caller_vars,
     command_vars, worker_vars
<1> QED BY <1>2, <1>3, <1>4, <1>5, <1>6, <1>7 DEF CallInv

LEMMA FinishedCallKeeps == ASSUME CallInv, FinishedCall PROVE CallInv'
<1>1. UNCHANGED <<call, authorized, agreed>>
  BY DEF FinishedCall, WorkerEnds, KillGroup, PipesOpen, caller_vars, command_vars, worker_vars
<1>2. (AskedFor <=> AskedFor') /\ (Acceptable(call) <=> Acceptable(call)')
      /\ (Container <=> Container') /\ Remembered'
  BY <1>1, AskedStays DEF CallInv
<1>3. CallTypes'
  BY <1>1 DEF CallInv, CallTypes, FinishedCall, WorkerEnds, KillGroup, PipesOpen, caller_vars,
     command_vars, worker_vars
<1>4. Asking'
  BY <1>2 DEF CallInv, Asking, Calling, FinishedCall, WorkerEnds, KillGroup, PipesOpen,
     caller_vars, command_vars, worker_vars
<1>5. Working'
  BY <1>2 DEF CallInv, CallTypes, Working, Calling, FinishedCall, WorkerEnds, KillGroup, PipesOpen,
     caller_vars, command_vars, worker_vars
<1>6. Calling'
  BY <1>2 DEF CallInv, CallTypes, Calling, FinishedCall, WorkerEnds, KillGroup, PipesOpen,
     caller_vars, command_vars, worker_vars
<1>7. Saying'
  BY <1>2 DEF CallInv, CallTypes, Saying, Calling, Working, FinishedCall, WorkerEnds, KillGroup,
     PipesOpen, caller_vars, command_vars, worker_vars
<1> QED BY <1>2, <1>3, <1>4, <1>5, <1>6, <1>7 DEF CallInv

LEMMA PollCancelledKeeps == ASSUME CallInv, PollCancelled PROVE CallInv'
<1>1. UNCHANGED <<call, authorized, agreed>>
  BY DEF PollCancelled, WorkerEnds, KillGroup, PipesOpen, caller_vars, command_vars, worker_vars
<1>2. (AskedFor <=> AskedFor') /\ (Acceptable(call) <=> Acceptable(call)')
      /\ (Container <=> Container') /\ Remembered'
  BY <1>1, AskedStays DEF CallInv
<1>3. CallTypes'
  BY <1>1 DEF CallInv, CallTypes, PollCancelled, WorkerEnds, KillGroup, PipesOpen, caller_vars,
     command_vars, worker_vars
<1>4. Asking'
  BY <1>2 DEF CallInv, Asking, Calling, PollCancelled, WorkerEnds, KillGroup, PipesOpen,
     caller_vars, command_vars, worker_vars
<1>5. Working'
  BY <1>2 DEF CallInv, CallTypes, Working, Calling, PollCancelled, WorkerEnds, KillGroup,
     PipesOpen, caller_vars, command_vars, worker_vars
<1>6. Calling'
  BY <1>2 DEF CallInv, CallTypes, Calling, PollCancelled, WorkerEnds, KillGroup, PipesOpen,
     caller_vars, command_vars, worker_vars
<1>7. Saying'
  BY <1>2 DEF CallInv, CallTypes, Saying, Calling, Working, PollCancelled, WorkerEnds, KillGroup,
     PipesOpen, caller_vars, command_vars, worker_vars
<1> QED BY <1>2, <1>3, <1>4, <1>5, <1>6, <1>7 DEF CallInv

LEMMA PollExitedKeeps == ASSUME CallInv, PollExited PROVE CallInv'
<1>1. UNCHANGED <<call, authorized, agreed>>
  BY DEF PollExited, KillGroup, PipesOpen, caller_vars, command_vars, worker_vars
<1>2. (AskedFor <=> AskedFor') /\ (Acceptable(call) <=> Acceptable(call)')
      /\ (Container <=> Container') /\ Remembered'
  BY <1>1, AskedStays DEF CallInv
<1>3. CallTypes'
  BY <1>1 DEF CallInv, CallTypes, PollExited, KillGroup, PipesOpen, caller_vars, command_vars,
     worker_vars
<1>4. Asking'
  BY <1>2 DEF CallInv, Asking, Calling, PollExited, KillGroup, PipesOpen, caller_vars,
     command_vars, worker_vars
<1>5. Working'
  BY <1>2 DEF CallInv, CallTypes, Working, Calling, PollExited, KillGroup, PipesOpen, caller_vars,
     command_vars, worker_vars
<1>6. Calling'
  BY <1>2 DEF CallInv, CallTypes, Calling, PollExited, KillGroup, PipesOpen, caller_vars,
     command_vars, worker_vars
<1>7. Saying'
  BY <1>2 DEF CallInv, CallTypes, Saying, Calling, Working, PollExited, KillGroup, PipesOpen,
     caller_vars, command_vars, worker_vars
<1> QED BY <1>2, <1>3, <1>4, <1>5, <1>6, <1>7 DEF CallInv

LEMMA PollLateKeeps == ASSUME CallInv, PollLate PROVE CallInv'
<1>1. UNCHANGED <<call, authorized, agreed>>
  BY DEF PollLate, WorkerEnds, KillGroup, PipesOpen, caller_vars, command_vars, worker_vars
<1>2. (AskedFor <=> AskedFor') /\ (Acceptable(call) <=> Acceptable(call)')
      /\ (Container <=> Container') /\ Remembered'
  BY <1>1, AskedStays DEF CallInv
<1>3. CallTypes'
  BY <1>1 DEF CallInv, CallTypes, PollLate, WorkerEnds, KillGroup, PipesOpen, caller_vars,
     command_vars, worker_vars
<1>4. Asking'
  BY <1>2 DEF CallInv, Asking, Calling, PollLate, WorkerEnds, KillGroup, PipesOpen, caller_vars,
     command_vars, worker_vars
<1>5. Working'
  BY <1>2 DEF CallInv, CallTypes, Working, Calling, PollLate, WorkerEnds, KillGroup, PipesOpen,
     caller_vars, command_vars, worker_vars
<1>6. Calling'
  BY <1>2 DEF CallInv, CallTypes, Calling, PollLate, WorkerEnds, KillGroup, PipesOpen, caller_vars,
     command_vars, worker_vars
<1>7. Saying'
  BY <1>2 DEF CallInv, CallTypes, Saying, Calling, Working, PollLate, WorkerEnds, KillGroup,
     PipesOpen, caller_vars, command_vars, worker_vars
<1> QED BY <1>2, <1>3, <1>4, <1>5, <1>6, <1>7 DEF CallInv

LEMMA RemoveHomeKeeps == ASSUME CallInv, RemoveHome PROVE CallInv'
<1>1. UNCHANGED <<call, authorized, agreed>>
  BY DEF RemoveHome, caller_vars, command_vars, worker_vars
<1>2. (AskedFor <=> AskedFor') /\ (Acceptable(call) <=> Acceptable(call)')
      /\ (Container <=> Container') /\ Remembered'
  BY <1>1, AskedStays DEF CallInv
<1>3. CallTypes'
  BY <1>1 DEF CallInv, CallTypes, RemoveHome, caller_vars, command_vars, worker_vars
<1>4. Asking'
  BY <1>2 DEF CallInv, Asking, Calling, RemoveHome, caller_vars, command_vars, worker_vars
<1>5. Working'
  BY <1>2 DEF CallInv, CallTypes, Working, Calling, RemoveHome, caller_vars, command_vars,
     worker_vars
<1>6. Calling'
  BY <1>2 DEF CallInv, CallTypes, Calling, RemoveHome, caller_vars, command_vars, worker_vars
<1>7. Saying'
  BY <1>2 DEF CallInv, CallTypes, Saying, Calling, Working, RemoveHome, caller_vars, command_vars,
     worker_vars
<1> QED BY <1>2, <1>3, <1>4, <1>5, <1>6, <1>7 DEF CallInv

LEMMA BwrapStartsKeeps == ASSUME CallInv, BwrapStarts PROVE CallInv'
<1>1. UNCHANGED <<call, authorized, agreed>>
  BY DEF BwrapStarts, caller_vars, command_vars, worker_vars
<1>2. (AskedFor <=> AskedFor') /\ (Acceptable(call) <=> Acceptable(call)')
      /\ (Container <=> Container') /\ Remembered'
  BY <1>1, AskedStays DEF CallInv
<1>3. CallTypes'
  BY <1>1 DEF CallInv, CallTypes, BwrapStarts, caller_vars, command_vars, worker_vars
<1>4. Asking'
  BY <1>2 DEF CallInv, Asking, Calling, BwrapStarts, caller_vars, command_vars, worker_vars
<1>5. Working'
  BY <1>2 DEF CallInv, CallTypes, Working, Calling, BwrapStarts, caller_vars, command_vars,
     worker_vars
<1>6. Calling'
  BY <1>2 DEF CallInv, CallTypes, Calling, BwrapStarts, caller_vars, command_vars, worker_vars
<1>7. Saying'
  BY <1>2 DEF CallInv, CallTypes, Saying, Calling, Working, BwrapStarts, caller_vars, command_vars,
     worker_vars
<1> QED BY <1>2, <1>3, <1>4, <1>5, <1>6, <1>7 DEF CallInv

LEMMA BwrapEndsKeeps == ASSUME CallInv, BwrapEnds PROVE CallInv'
<1>1. UNCHANGED <<call, authorized, agreed>>
  BY DEF BwrapEnds, caller_vars, command_vars, worker_vars
<1>2. (AskedFor <=> AskedFor') /\ (Acceptable(call) <=> Acceptable(call)')
      /\ (Container <=> Container') /\ Remembered'
  BY <1>1, AskedStays DEF CallInv
<1>3. CallTypes'
  BY <1>1 DEF CallInv, CallTypes, BwrapEnds, caller_vars, command_vars, worker_vars
<1>4. Asking'
  BY <1>2 DEF CallInv, Asking, Calling, BwrapEnds, caller_vars, command_vars, worker_vars
<1>5. Working'
  BY <1>2 DEF CallInv, CallTypes, Working, Calling, BwrapEnds, caller_vars, command_vars,
     worker_vars
<1>6. Calling'
  BY <1>2 DEF CallInv, CallTypes, Calling, BwrapEnds, caller_vars, command_vars, worker_vars
<1>7. Saying'
  BY <1>2 DEF CallInv, CallTypes, Saying, Calling, Working, BwrapEnds, caller_vars, command_vars,
     worker_vars
<1> QED BY <1>2, <1>3, <1>4, <1>5, <1>6, <1>7 DEF CallInv

LEMMA PlantKeeps == ASSUME CallInv, Plant PROVE CallInv'
<1>1. UNCHANGED <<call, authorized, agreed>>
  BY DEF Plant, WhileRunning, caller_vars, command_vars, worker_vars
<1>2. (AskedFor <=> AskedFor') /\ (Acceptable(call) <=> Acceptable(call)')
      /\ (Container <=> Container') /\ Remembered'
  BY <1>1, AskedStays DEF CallInv
<1>3. CallTypes'
  BY <1>1 DEF CallInv, CallTypes, Plant, WhileRunning, caller_vars, command_vars, worker_vars
<1>4. Asking'
  BY <1>2 DEF CallInv, Asking, Calling, Plant, WhileRunning, caller_vars, command_vars, worker_vars
<1>5. Working'
  BY <1>2 DEF CallInv, CallTypes, Working, Calling, Plant, WhileRunning, caller_vars, command_vars,
     worker_vars
<1>6. Calling'
  BY <1>2 DEF CallInv, CallTypes, Calling, Plant, WhileRunning, caller_vars, command_vars,
     worker_vars
<1>7. Saying'
  BY <1>2 DEF CallInv, CallTypes, Saying, Calling, Working, Plant, WhileRunning, caller_vars,
     command_vars, worker_vars
<1> QED BY <1>2, <1>3, <1>4, <1>5, <1>6, <1>7 DEF CallInv

LEMMA LeaveKidKeeps == ASSUME CallInv, LeaveKid PROVE CallInv'
<1>1. UNCHANGED <<call, authorized, agreed>>
  BY DEF LeaveKid, WhileRunning, caller_vars, command_vars, worker_vars
<1>2. (AskedFor <=> AskedFor') /\ (Acceptable(call) <=> Acceptable(call)')
      /\ (Container <=> Container') /\ Remembered'
  BY <1>1, AskedStays DEF CallInv
<1>3. CallTypes'
  BY <1>1 DEF CallInv, CallTypes, LeaveKid, WhileRunning, caller_vars, command_vars, worker_vars
<1>4. Asking'
  BY <1>2 DEF CallInv, Asking, Calling, LeaveKid, WhileRunning, caller_vars, command_vars,
     worker_vars
<1>5. Working'
  BY <1>2 DEF CallInv, CallTypes, Working, Calling, LeaveKid, WhileRunning, caller_vars,
     command_vars, worker_vars
<1>6. Calling'
  BY <1>2 DEF CallInv, CallTypes, Calling, LeaveKid, WhileRunning, caller_vars, command_vars,
     worker_vars
<1>7. Saying'
  BY <1>2 DEF CallInv, CallTypes, Saying, Calling, Working, LeaveKid, WhileRunning, caller_vars,
     command_vars, worker_vars
<1> QED BY <1>2, <1>3, <1>4, <1>5, <1>6, <1>7 DEF CallInv

LEMMA LeaveStrayKeeps == ASSUME CallInv, LeaveStray PROVE CallInv'
<1>1. UNCHANGED <<call, authorized, agreed>>
  BY DEF LeaveStray, WhileRunning, caller_vars, command_vars, worker_vars
<1>2. (AskedFor <=> AskedFor') /\ (Acceptable(call) <=> Acceptable(call)')
      /\ (Container <=> Container') /\ Remembered'
  BY <1>1, AskedStays DEF CallInv
<1>3. CallTypes'
  BY <1>1 DEF CallInv, CallTypes, LeaveStray, WhileRunning, caller_vars, command_vars, worker_vars
<1>4. Asking'
  BY <1>2 DEF CallInv, Asking, Calling, LeaveStray, WhileRunning, caller_vars, command_vars,
     worker_vars
<1>5. Working'
  BY <1>2 DEF CallInv, CallTypes, Working, Calling, LeaveStray, WhileRunning, caller_vars,
     command_vars, worker_vars
<1>6. Calling'
  BY <1>2 DEF CallInv, CallTypes, Calling, LeaveStray, WhileRunning, caller_vars, command_vars,
     worker_vars
<1>7. Saying'
  BY <1>2 DEF CallInv, CallTypes, Saying, Calling, Working, LeaveStray, WhileRunning, caller_vars,
     command_vars, worker_vars
<1> QED BY <1>2, <1>3, <1>4, <1>5, <1>6, <1>7 DEF CallInv

LEMMA ExitsKeeps == ASSUME CallInv, Exits PROVE CallInv'
<1>1. UNCHANGED <<call, authorized, agreed>>
  BY DEF Exits, WhileRunning, caller_vars, command_vars, worker_vars
<1>2. (AskedFor <=> AskedFor') /\ (Acceptable(call) <=> Acceptable(call)')
      /\ (Container <=> Container') /\ Remembered'
  BY <1>1, AskedStays DEF CallInv
<1>3. CallTypes'
  BY <1>1 DEF CallInv, CallTypes, Exits, WhileRunning, caller_vars, command_vars, worker_vars
<1>4. Asking'
  BY <1>2 DEF CallInv, Asking, Calling, Exits, WhileRunning, caller_vars, command_vars, worker_vars
<1>5. Working'
  BY <1>2 DEF CallInv, CallTypes, Working, Calling, Exits, WhileRunning, caller_vars, command_vars,
     worker_vars
<1>6. Calling'
  BY <1>2 DEF CallInv, CallTypes, Calling, Exits, WhileRunning, caller_vars, command_vars,
     worker_vars
<1>7. Saying'
  BY <1>2 DEF CallInv, CallTypes, Saying, Calling, Working, Exits, WhileRunning, caller_vars,
     command_vars, worker_vars
<1> QED BY <1>2, <1>3, <1>4, <1>5, <1>6, <1>7 DEF CallInv

LEMMA ChildExitsKeeps == ASSUME CallInv, ChildExits PROVE CallInv'
<1>1. UNCHANGED <<call, authorized, agreed>>
  BY DEF ChildExits, caller_vars, command_vars, worker_vars
<1>2. (AskedFor <=> AskedFor') /\ (Acceptable(call) <=> Acceptable(call)')
      /\ (Container <=> Container') /\ Remembered'
  BY <1>1, AskedStays DEF CallInv
<1>3. CallTypes'
  BY <1>1 DEF CallInv, CallTypes, ChildExits, caller_vars, command_vars, worker_vars
<1>4. Asking'
  BY <1>2 DEF CallInv, Asking, Calling, ChildExits, caller_vars, command_vars, worker_vars
<1>5. Working'
  BY <1>2 DEF CallInv, CallTypes, Working, Calling, ChildExits, caller_vars, command_vars,
     worker_vars
<1>6. Calling'
  BY <1>2 DEF CallInv, CallTypes, Calling, ChildExits, caller_vars, command_vars, worker_vars
<1>7. Saying'
  BY <1>2 DEF CallInv, CallTypes, Saying, Calling, Working, ChildExits, caller_vars, command_vars,
     worker_vars
<1> QED BY <1>2, <1>3, <1>4, <1>5, <1>6, <1>7 DEF CallInv

LEMMA TimePassesKeeps == ASSUME CallInv, TimePasses PROVE CallInv'
<1>1. UNCHANGED <<call, authorized, agreed>>
  BY DEF TimePasses, caller_vars, command_vars, worker_vars
<1>2. (AskedFor <=> AskedFor') /\ (Acceptable(call) <=> Acceptable(call)')
      /\ (Container <=> Container') /\ Remembered'
  BY <1>1, AskedStays DEF CallInv
<1>3. CallTypes'
  BY <1>1 DEF CallInv, CallTypes, TimePasses, caller_vars, command_vars, worker_vars
<1>4. Asking'
  BY <1>2 DEF CallInv, Asking, Calling, TimePasses, caller_vars, command_vars, worker_vars
<1>5. Working'
  BY <1>2 DEF CallInv, CallTypes, Working, Calling, TimePasses, caller_vars, command_vars,
     worker_vars
<1>6. Calling'
  BY <1>2 DEF CallInv, CallTypes, Calling, TimePasses, caller_vars, command_vars, worker_vars
<1>7. Saying'
  BY <1>2 DEF CallInv, CallTypes, Saying, Calling, Working, TimePasses, caller_vars, command_vars,
     worker_vars
<1> QED BY <1>2, <1>3, <1>4, <1>5, <1>6, <1>7 DEF CallInv

LEMMA AssembleCallKeeps == ASSUME CallInv, AssembleCall PROVE CallInv'
<1>1. UNCHANGED <<call, authorized, agreed>>
  BY DEF AssembleCall, caller_vars, command_vars, worker_vars
<1>2. (AskedFor <=> AskedFor') /\ (Acceptable(call) <=> Acceptable(call)')
      /\ (Container <=> Container') /\ Remembered'
  BY <1>1, AskedStays DEF CallInv
<1>3. CallTypes'
  BY <1>1 DEF CallInv, CallTypes, AssembleCall, caller_vars, command_vars, worker_vars
<1>4. Asking'
  BY <1>2 DEF CallInv, Asking, Calling, AssembleCall, caller_vars, command_vars, worker_vars
<1>5. Working'
  BY <1>2 DEF CallInv, CallTypes, Working, Calling, AssembleCall, caller_vars, command_vars,
     worker_vars
<1>6. Calling'
  BY <1>2 DEF CallInv, CallTypes, Calling, AssembleCall, caller_vars, command_vars, worker_vars
<1>7. Saying'
  BY <1>2 DEF CallInv, CallTypes, Saying, Calling, Working, AssembleCall, caller_vars,
     command_vars, worker_vars
<1> QED BY <1>2, <1>3, <1>4, <1>5, <1>6, <1>7 DEF CallInv

LEMMA InterruptCallKeeps == ASSUME CallInv, InterruptCall PROVE CallInv'
<1>1. UNCHANGED <<call, authorized, agreed>>
  BY DEF InterruptCall, caller_vars, command_vars, worker_vars
<1>2. (AskedFor <=> AskedFor') /\ (Acceptable(call) <=> Acceptable(call)')
      /\ (Container <=> Container') /\ Remembered'
  BY <1>1, AskedStays DEF CallInv
<1>3. CallTypes'
  BY <1>1 DEF CallInv, CallTypes, InterruptCall, caller_vars, command_vars, worker_vars
<1>4. Asking'
  BY <1>2 DEF CallInv, Asking, Calling, InterruptCall, caller_vars, command_vars, worker_vars
<1>5. Working'
  BY <1>2 DEF CallInv, CallTypes, Working, Calling, InterruptCall, caller_vars, command_vars,
     worker_vars
<1>6. Calling'
  BY <1>2 DEF CallInv, CallTypes, Calling, InterruptCall, caller_vars, command_vars, worker_vars
<1>7. Saying'
  BY <1>2 DEF CallInv, CallTypes, Saying, Calling, Working, InterruptCall, caller_vars,
     command_vars, worker_vars
<1> QED BY <1>2, <1>3, <1>4, <1>5, <1>6, <1>7 DEF CallInv

LEMMA GraceEndsKeeps == ASSUME CallInv, GraceEnds PROVE CallInv'
<1>1. UNCHANGED <<call, authorized, agreed>>
  BY DEF GraceEnds, caller_vars, command_vars, worker_vars
<1>2. (AskedFor <=> AskedFor') /\ (Acceptable(call) <=> Acceptable(call)')
      /\ (Container <=> Container') /\ Remembered'
  BY <1>1, AskedStays DEF CallInv
<1>3. CallTypes'
  BY <1>1 DEF CallInv, CallTypes, GraceEnds, caller_vars, command_vars, worker_vars
<1>4. Asking'
  BY <1>2 DEF CallInv, Asking, Calling, GraceEnds, caller_vars, command_vars, worker_vars
<1>5. Working'
  BY <1>2 DEF CallInv, CallTypes, Working, Calling, GraceEnds, caller_vars, command_vars,
     worker_vars
<1>6. Calling'
  BY <1>2 DEF CallInv, CallTypes, Calling, GraceEnds, caller_vars, command_vars, worker_vars
<1>7. Saying'
  BY <1>2 DEF CallInv, CallTypes, Saying, Calling, Working, GraceEnds, caller_vars, command_vars,
     worker_vars
<1> QED BY <1>2, <1>3, <1>4, <1>5, <1>6, <1>7 DEF CallInv

LEMMA CollectAnswerKeeps == ASSUME CallInv, CollectAnswer PROVE CallInv'
<1>1. UNCHANGED <<call, authorized, agreed>>
  BY DEF CollectAnswer, FoundPlanted, Quarantine, caller_vars, command_vars, worker_vars
<1>2. (AskedFor <=> AskedFor') /\ (Acceptable(call) <=> Acceptable(call)')
      /\ (Container <=> Container') /\ Remembered'
  BY <1>1, AskedStays DEF CallInv
<1>3. CallTypes'
  BY <1>1 DEF CallInv, CallTypes, CollectAnswer, FoundPlanted, Quarantine, caller_vars,
     command_vars, worker_vars
<1>4. Asking'
  BY <1>2 DEF CallInv, Asking, Calling, CollectAnswer, FoundPlanted, Quarantine, caller_vars,
     command_vars, worker_vars
<1>5. Working'
  BY <1>2 DEF CallInv, CallTypes, Working, Calling, CollectAnswer, FoundPlanted, Quarantine,
     caller_vars, command_vars, worker_vars
<1>6. Calling'
  BY <1>2 DEF CallInv, CallTypes, Calling, CollectAnswer, FoundPlanted, Quarantine, caller_vars,
     command_vars, worker_vars
<1>7. Saying'
  BY <1>2 DEF CallInv, CallTypes, Saying, Calling, Working, CollectAnswer, FoundPlanted,
     Quarantine, caller_vars, command_vars, worker_vars
<1> QED BY <1>2, <1>3, <1>4, <1>5, <1>6, <1>7 DEF CallInv

LEMMA LeaveCallKeeps == ASSUME CallInv, LeaveCall PROVE CallInv'
<1>1. UNCHANGED <<call, authorized, agreed>>
  BY DEF LeaveCall, caller_vars, command_vars, worker_vars
<1>2. (AskedFor <=> AskedFor') /\ (Acceptable(call) <=> Acceptable(call)')
      /\ (Container <=> Container') /\ Remembered'
  BY <1>1, AskedStays DEF CallInv
<1>3. CallTypes'
  BY <1>1 DEF CallInv, CallTypes, LeaveCall, caller_vars, command_vars, worker_vars
<1>4. Asking'
  BY <1>2 DEF CallInv, Asking, Calling, LeaveCall, caller_vars, command_vars, worker_vars
<1>5. Working'
  BY <1>2 DEF CallInv, CallTypes, Working, Calling, LeaveCall, caller_vars, command_vars,
     worker_vars
<1>6. Calling'
  BY <1>2 DEF CallInv, CallTypes, Calling, LeaveCall, caller_vars, command_vars, worker_vars
<1>7. Saying'
  BY <1>2 DEF CallInv, CallTypes, Saying, Calling, Working, LeaveCall, caller_vars, command_vars,
     worker_vars
<1> QED BY <1>2, <1>3, <1>4, <1>5, <1>6, <1>7 DEF CallInv

LEMMA NoCallKeeps == ASSUME CallInv, UNCHANGED callVars PROVE CallInv'
<1>1. UNCHANGED <<call, authorized, agreed>>
  BY DEF callVars
<1>2. (AskedFor <=> AskedFor') /\ (Acceptable(call) <=> Acceptable(call)')
      /\ (Container <=> Container') /\ Remembered'
  BY <1>1, AskedStays DEF CallInv
<1>3. CallTypes' /\ Asking' /\ Working' /\ Calling' /\ Saying'
  BY <1>2 DEF CallInv, CallTypes, Asking, Working, Calling, Saying, callVars
<1> QED BY <1>2, <1>3 DEF CallInv

LEMMA BeginCallKeeps == ASSUME CallInv, BeginCall PROVE CallInv'
<1>1. PICK c \in Calls :
        /\ call' = c
        /\ IF Acceptable(c) THEN caller' = "asking" /\ callOutcome' = "none"
                            ELSE caller' = "idle" /\ callOutcome' = "refused"
  BY DEF BeginCall
<1>2. caller' = "asking" => Acceptable(call)'
  <2>1. Acceptable(call)' <=> Acceptable(c)
    BY <1>1 DEF Acceptable, Approved
  <2> QED BY <1>1, <2>1
<1>3. /\ worker' = "none" /\ answer' = "none" /\ cancel' = FALSE /\ leader' = "none"
      /\ kid' = "none"
      /\ planted' = FALSE /\ abandoned' = FALSE /\ caller' \in {"idle", "asking"}
      /\ callOutcome' \in {"none", "refused"} /\ caller = "idle"
      /\ UNCHANGED <<authorized, agreed, binds>>
  BY <1>1 DEF BeginCall
<1>4. CallTypes'
  BY <1>1, <1>3 DEF CallInv, CallTypes
<1>5. Remembered'
  BY <1>3 DEF CallInv, Remembered
<1>6. Asking'
  BY <1>2, <1>3 DEF Asking
<1>7. Working'
  BY <1>3 DEF Working
<1>8. Calling' /\ Saying'
  BY <1>3 DEF CallInv, Calling, Saying
<1> QED BY <1>4, <1>5, <1>6, <1>7, <1>8 DEF CallInv

\* authorize_captured's key tells flags apart: of the same key, they grant the same to
\* every namespace.
LEMMA KeysTellFlagsApart ==
  ASSUME NEW f \in FlagSets, NEW g \in FlagSets, AuthKey(f) = AuthKey(g)
  PROVE \A ns \in Namespaces : f[ns] = g[ns]
<1> SUFFICES ASSUME NEW ns \in Namespaces PROVE f[ns] = g[ns]
  OBVIOUS
<1>1. \A m \in Namespaces : f[m] # {} => <<m, f[m]>> \in AuthKey(g)
  BY DEF AuthKey
<1>2. \A m \in Namespaces : g[m] # {} => <<m, g[m]>> \in AuthKey(f)
  BY DEF AuthKey
<1>3. \A x \in AuthKey(g) : x[2] = g[x[1]]
  BY DEF AuthKey
<1>4. \A x \in AuthKey(f) : x[2] = f[x[1]]
  BY DEF AuthKey
<1>5. CASE f[ns] # {}
  BY <1>1, <1>3, <1>5
<1>6. CASE g[ns] # {}
  BY <1>2, <1>4, <1>6
<1> QED BY <1>5, <1>6

LEMMA AuthorizeKeeps == ASSUME CallInv, Authorize PROVE CallInv'
<1>1. /\ caller = "asking" /\ worker = "none" /\ leader = "none" /\ ~binds /\ ~cancel
      /\ Acceptable(call)
      /\ call \in Calls /\ call.flags \in FlagSets
  BY DEF CallInv, CallTypes, Asking, Calling, Working, Authorize, Calls
<1>2. UNCHANGED <<call, binds, abandoned, cancel, leader, kid, planted, worker, answer, home>>
  BY DEF Authorize, command_vars, worker_vars
<1>3. PICK key : key = AuthKey(call.flags)
  OBVIOUS
<1>4. Remembered' /\ (caller' = "assembling" => Agreed') /\ agreed' \subseteq FlagSets
      /\ (caller' = "assembling" \/ (caller' = "idle" /\ callOutcome' = "refused"))
  <2>1. CASE key \in DOMAIN authorized
    <3>1. UNCHANGED <<authorized, agreed>>
          /\ IF authorized[key] THEN caller' = "assembling" /\ UNCHANGED callOutcome
                                ELSE caller' = "idle" /\ callOutcome' = "refused"
      BY <1>3, <2>1 DEF Authorize
    <3>2. ASSUME authorized[key] PROVE Agreed
      <4>1. PICK f \in agreed : AuthKey(f) = key
        BY <2>1, <3>2 DEF CallInv, Remembered
      <4>2. f \in FlagSets
        BY DEF CallInv, CallTypes
      <4> QED BY <1>1, <1>3, <4>1, <4>2, KeysTellFlagsApart DEF Agreed
    <3>3. Agreed' <=> Agreed
      BY <1>2, <3>1 DEF Agreed
    <3>4. Remembered'
      BY <3>1 DEF CallInv, Remembered
    <3>5. CASE authorized[key]
      BY <3>1, <3>2, <3>3, <3>4, <3>5 DEF CallInv, CallTypes
    <3>6. CASE ~authorized[key]
      <4>1. caller' = "idle" /\ callOutcome' = "refused"
        BY <3>1, <3>6
      <4> QED BY <3>1, <3>4, <4>1 DEF CallInv, CallTypes
    <3> QED BY <3>5, <3>6
  <2>2. CASE key \notin DOMAIN authorized
    <3>1. PICK answers \in [Checks(call.flags) -> {"allows", "blocks", "raises"}] :
            /\ authorized' = [k \in DOMAIN authorized \cup {key} |->
                                IF k = key THEN Allowed(answers) ELSE authorized[k]]
            /\ agreed' = IF Allowed(answers) THEN agreed \cup {call.flags} ELSE agreed
            /\ IF Allowed(answers) THEN caller' = "assembling" /\ UNCHANGED callOutcome
                                   ELSE caller' = "idle" /\ callOutcome' = "refused"
      BY <1>3, <2>2 DEF Authorize
    <3>2. agreed \subseteq agreed' /\ (Allowed(answers) => call.flags \in agreed')
          /\ agreed' \subseteq FlagSets
      BY <1>1, <3>1 DEF CallInv, CallTypes
    <3>3. \A k \in DOMAIN authorized' : k \in DOMAIN authorized \/ k = key
      BY <3>1
    <3>4. \A k \in DOMAIN authorized : k # key /\ authorized'[k] = authorized[k]
      BY <2>2, <3>1
    <3>5. authorized'[key] => Allowed(answers)
      BY <3>1
    <3>6. Remembered'
      BY <1>3, <3>2, <3>3, <3>4, <3>5 DEF CallInv, Remembered
    <3>7. caller' = "assembling" => Agreed'
      BY <1>2, <3>1, <3>2 DEF Agreed
    <3>8. CASE Allowed(answers)
      BY <3>1, <3>2, <3>6, <3>7, <3>8
    <3>9. CASE ~Allowed(answers)
      <4>1. caller' = "idle" /\ callOutcome' = "refused"
        BY <3>1, <3>9
      <4> QED BY <3>2, <3>6, <4>1
    <3> QED BY <3>8, <3>9
  <2> QED BY <2>1, <2>2
<1>5. CallTypes'
  BY <1>2, <1>4 DEF CallInv, CallTypes
<1>6. Asking'
  <2>1. Acceptable(call)'
    BY <1>1, <1>2 DEF Acceptable, Approved
  <2> QED BY <1>1, <1>2, <1>4, <2>1 DEF Asking, AskedFor
<1>7. Working' /\ Calling' /\ Saying'
  BY <1>1, <1>2, <1>4 DEF CallInv, Working, Calling, Saying, Container
<1> QED BY <1>4, <1>5, <1>6, <1>7 DEF CallInv

LEMMA CallInvNext == CallInv /\ [CallNext]_callVars => CallInv'
  BY BeginCallKeeps, AuthorizeKeeps, PrepareKeeps, PopulateKeeps, LastLookKeeps,
     LaunchKeeps, FinishedCallKeeps, PollCancelledKeeps, PollExitedKeeps, PollLateKeeps,
     RemoveHomeKeeps, BwrapStartsKeeps, BwrapEndsKeeps, PlantKeeps, LeaveKidKeeps,
     LeaveStrayKeeps, ExitsKeeps, ChildExitsKeeps, TimePassesKeeps, AssembleCallKeeps,
     InterruptCallKeeps, GraceEndsKeeps, CollectAnswerKeeps, LeaveCallKeeps, NoCallKeeps
     DEF CallNext, NoCall

-----------------------------------------------------------------------------
(* NothingOutlivesTheCall, for `run_captured`, `authorize_captured`,       *)
(* `run_container` and `_execute`: whenever Ctrl-C, the timeout, the end   *)
(* of the command and of what it left behind come, nothing of the command  *)
(* runs when its thread is done, the snapshots of a call are gone when it  *)
(* is over, no command runs with capabilities the checks were not asked    *)
(* about, and an answer leaves no repository where it was planted.         *)
THEOREM NoProcessOutlivesItsCall == CallSpec => []NothingOutlivesTheCall
<1>1. CallInv => NothingOutlivesTheCall
  <2> SUFFICES ASSUME CallInv PROVE NothingOutlivesTheCall
    OBVIOUS
  <2>1. ProcessesEndWithTheCall
    BY DEF CallInv, Working, Calling, Saying, ProcessesEndWithTheCall
  <2>2. NothingRunsUnasked
    BY DEF CallInv, Asking, AskedFor, Agreed, NothingRunsUnasked
  <2>3. PlantedIsMovedAside
    BY DEF CallInv, Saying, PlantedIsMovedAside
  <2> QED BY <2>1, <2>2, <2>3 DEF NothingOutlivesTheCall
<1> QED BY <1>1, CallInitHolds, CallInvNext, PTL DEF CallSpec
=============================================================================
