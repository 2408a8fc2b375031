----------------------------- MODULE SandboxRun -----------------------------
(***************************************************************************)
(* One `pa run` (sandbox/runner.py): the gates before the command, the     *)
(* snapshots a rollback needs, the command itself, which may write         *)
(* anything the sandbox leaves writable, the checks after it, the          *)
(* rollback, and the backups kept when it cannot be completed.  The run    *)
(* may be interrupted, fail or be killed at any step.                      *)
(*                                                                         *)
(* The disk is one lock file and the install targets.  A target is absent, *)
(* a directory (the packages in it, and one file over the size up to which *)
(* a snapshot keeps contents), or something else put in its place.  What   *)
(* a snapshot of one directory records and restores, entry by entry, is    *)
(* SnapshotRestore's subject; here a restore puts back all but the large   *)
(* file, or fails.                                                         *)
(***************************************************************************)
EXTENDS Naturals, FiniteSets

CONSTANTS
  Pkgs,          \* package versions
  Malicious,     \* those OSV has a MAL- advisory for
  Risky,         \* those the risk engine scores over the threshold
  Young,         \* those younger than the cooldown period
  Path,          \* the path a version's metadata is found at in its target
  Scanned,       \* targets scanned for new packages after the run
  SnapshotOnly,  \* targets put back but not scanned
  Backed,        \* targets copied whole before the run (backup_dirs)
  Venvs,         \* environments found after the run when nothing is scanned
  Envs,          \* environments found after the run under env_parents
  Locks, Trees,  \* what the command may leave in the lock file, in a target
  Disks,         \* the disks a run may start from
  Commands,      \* the commands, see Init
  Interruptions  \* whether the run may be interrupted, fail or be killed

Roots == Scanned \cup SnapshotOnly \cup Venvs \cup Envs

ASSUME SandboxRunAssumption ==
  /\ Malicious \subseteq Pkgs /\ Risky \subseteq Pkgs /\ Young \subseteq Pkgs
  /\ Backed \subseteq Scanned \cup SnapshotOnly
  /\ (Venvs \cup Envs) \cap (Scanned \cup SnapshotOnly) = {}
  /\ Interruptions \in BOOLEAN

LockStates == [kind : {"gone", "unreadable", "garbled", "parsed"}, pkgs : SUBSET Pkgs]
RootStates ==
  {t \in [kind : {"gone", "impostor", "dir"}, pkgs : SUBSET Pkgs, large : {"none", "old", "new"}] :
     t.kind = "dir" \/ t.pkgs = {}}
Gone == [kind |-> "gone", pkgs |-> {}, large |-> "none"]

ASSUME InputsAssumption ==
  /\ Locks \subseteq LockStates /\ Trees \subseteq RootStates
  /\ Disks \subseteq [lock : LockStates, root : [Roots -> RootStates]]
  /\ Commands \subseteq [kind : {"command", "shell", "global", "unknown"}, nochange : BOOLEAN, named : SUBSET Pkgs,
                         fromlock : BOOLEAN, external : BOOLEAN, stale : SUBSET Pkgs]

(* An environment found after the run was not there before it (the new     *)
(* entries of env_parents; the one post_run_scan_targets finds, which is   *)
(* asked only when nothing was there to scan).                             *)
ASSUME EnvironmentsAssumption ==
  /\ \A d \in Disks, r \in Venvs \cup Envs : d.root[r] = Gone
  /\ Venvs = {} \/ Scanned = {}

VARIABLES
  cmd,         \* the command: kind, nochange, the packages it names, whether it installs the lock file,
               \* whether that is outside the project, stale clean verdicts in the cache
  lock, root,  \* the disk
  redirected,  \* targets with a directory above them replaced by a link during the run
  tampered,    \* a repository planted in a checkout, or a stable directory replaced
  phase, rc, code,
  means,       \* what the gates have to work with: "none", "db" or "engine"
  snap,        \* the snapshots
  scanned,     \* ctx.scan_targets
  onDisk,      \* backups that exist
  keep,        \* backups not to be discarded
  scanOk,      \* the lock-file scan and the cooldown after it
  why,         \* why the rollback is done
  todo,        \* targets the rollback has still to put back
  reported,    \* targets the user was told were not put back
  lockLost,    \* the lock file could not be put back (only logged)
  pending,     \* versions the user accepted at a cooldown prompt
  cleared,     \* versions recorded as cleared
  undated,     \* young versions whose age was not obtained
  unanswered,  \* versions OSV gave no verdict on
  unscanned,   \* new environments that could not be scanned, of which the user is told
  overlooked,  \* <<target, version>>: what a language module that raised did not tell of; only logged
  cancelled,   \* Ctrl-C was pressed; the next await raises
  disk0        \* history: the disk before the run

vars == <<cmd, lock, root, redirected, tampered, phase, rc, code, means, snap, scanned, onDisk, keep, scanOk,
          why, todo, reported, lockLost, pending, cleared, undated, unanswered, unscanned,
          overlooked, cancelled, disk0>>

disk == <<lock, root, redirected, tampered>>
gates == <<means, pending, undated, unanswered>>
unseen == <<unscanned, overlooked>>
rollback == <<why, todo, reported, lockLost, keep>>

Live == {"start", "open", "risk", "cooldown", "preflight", "snapshot", "assemble", "running", "exited", "lockscan", "postrun",
         "verdict", "collect", "postscan", "postrisk", "final", "undo", "undone", "store"}
Ended == {"done", "execed", "raised", "killed"}

Started == phase \in {"running", "exited", "lockscan", "postrun", "verdict", "collect", "postscan",
                      "postrisk", "final", "undo", "undone", "store"}

Shell == cmd.kind = "shell"
Covered == Backed \cap onDisk    \* put back from the backup, not from the snapshot

(***************************************************************************)
(* The end of run(): backups that need not be kept are discarded.          *)
(***************************************************************************)
Return(c) ==
  /\ phase' = "done"
  /\ code' = c
  /\ onDisk' = onDisk \cap keep

(* The gates' and scans' lookups.  OSV answers for all but degraded; one   *)
(* of the cache's stale clean verdicts hides an advisory.                  *)
Flagged(asked, degraded, stale) == ((asked \cap Malicious) \ degraded) \ stale

(* The packages looked up before the command runs: those it names, and     *)
(* those of the lock file it installs; a shell's are its lock file's.  A   *)
(* lock file that lies outside the project is not read.                    *)
Queries ==
  IF cmd.external THEN {}
  ELSE (IF Shell THEN {} ELSE cmd.named) \cup (IF Shell \/ cmd.fromlock THEN disk0.lock.pkgs ELSE {})

(* A lock file that is there and cannot be read, or that a link leads out  *)
(* of the project, is recorded as unreadable, not as absent.               *)
LockUnread == disk0.lock.kind = "unreadable"

Asks(packages) == packages # {} => ~cancelled    \* an await, where Ctrl-C is noticed

(***************************************************************************)
(* The start of a run: refused (no isolation, a directory that cannot be   *)
(* resolved, a pre-run check); handed over as it is when the command is    *)
(* not one the language modules know; or on to the gates.                  *)
(***************************************************************************)
(* _run_shell, up to its gates; no language module's answer stops it.      *)
OpenShell == Shell /\ phase' = "risk" /\ UNCHANGED <<code, onDisk>>

Begin ==
  /\ phase = "start"
  /\ \/ Return(1)
     \/ cmd.kind = "unknown" /\ (Return(127) \/ (phase' = "execed" /\ UNCHANGED <<code, onDisk>>))
     \/ cmd.kind \in {"command", "global"} /\ phase' = "open" /\ UNCHANGED <<code, onDisk>>
     \/ OpenShell
  /\ UNCHANGED <<cmd, disk, rc, snap, scanned, rollback, scanOk, gates, cleared, cancelled, unseen, disk0>>

(* The database and the risk engine the two gates share; either may fail   *)
(* to open, and then the gates that need it let everything through.        *)
OpenGates ==
  /\ phase = "open" /\ Asks(Queries)
  /\ means' \in IF Queries = {} THEN {"none"} ELSE {"none", "db", "engine"}
  /\ phase' = "risk"
  /\ UNCHANGED <<cmd, disk, rc, code, snap, scanned, onDisk, rollback, scanOk, pending, undated, unanswered,
                 cleared, cancelled, unseen, disk0>>

(***************************************************************************)
(* _risk_check: a risky package is refused, accepted at a prompt, or let   *)
(* through.  A shell scores its lock file, and has no cooldown before it.  *)
(***************************************************************************)
RiskCheck ==
  /\ phase = "risk"
  /\ Shell \/ means = "engine" => Asks(Queries)
  /\ \/ phase' = (IF Shell THEN "preflight" ELSE "cooldown") /\ UNCHANGED <<code, onDisk, means>>
     \/ cmd.external /\ Return(1) /\ means' = "none"
     \/ (Shell \/ means = "engine") /\ Queries \cap Risky # {} /\ Return(1) /\ means' = "none"
  /\ UNCHANGED <<cmd, disk, rc, snap, scanned, rollback, scanOk, pending, undated, unanswered, cleared, cancelled,
                 unseen, disk0>>

(***************************************************************************)
(* _cooldown_decide on a set of versions: those too young, dated and not   *)
(* cleared are asked about together (refused outright when nobody can      *)
(* answer).  Without a database nothing is dated.                          *)
(***************************************************************************)
CooldownDecide(versions, ok, clears, missed) ==
  LET asked == ((versions \cap Young) \ missed) \ cleared
  IN  /\ missed \subseteq versions \cap Young
      /\ IF asked = {} THEN ok /\ clears = {} ELSE clears = IF ok THEN asked ELSE {}

CooldownCheck ==
  /\ phase = "cooldown" /\ (means # "none" => Asks(Queries))
  /\ \E ok \in BOOLEAN, clears, missed \in SUBSET Young :
       /\ CooldownDecide(Queries, ok, clears, missed)
       /\ means = "none" => missed = Queries \cap Young
       /\ pending' = clears
       /\ undated' = undated \cup missed
       /\ IF ok /\ ~cmd.external THEN phase' = "preflight" /\ UNCHANGED <<code, onDisk>> ELSE Return(1)
  /\ means' = "none"
  /\ UNCHANGED <<cmd, disk, rc, snap, scanned, rollback, scanOk, unanswered, cleared, cancelled, unseen, disk0>>

(* _preflight and _preflight_shell let through all but a malicious         *)
(* package, an unanswered lookup too, which is reported.  A global install *)
(* is then handed over as it is.                                           *)
PreflightPasses(degraded) == Flagged(Queries, degraded, cmd.stale) = {} /\ ~cmd.external

Preflight ==
  /\ phase = "preflight" /\ Asks(Queries)
  /\ \E degraded \in SUBSET (Queries \ cmd.stale) :
       IF PreflightPasses(degraded)
         THEN IF cmd.kind = "global"
                THEN Return(127) \/ (phase' = "execed" /\ UNCHANGED <<code, onDisk>>)
                ELSE phase' = "snapshot" /\ UNCHANGED <<code, onDisk>>
         ELSE Return(1)
  /\ UNCHANGED <<cmd, disk, rc, snap, scanned, rollback, scanOk, gates, cleared, cancelled, unseen, disk0>>

(***************************************************************************)
(* The snapshots of the targets, the lock file and the directories to back *)
(* up; one that cannot be made aborts the run.                             *)
(***************************************************************************)
Recorded == Scanned \cup SnapshotOnly

Snapshot ==
  /\ phase = "snapshot"
  /\ snap' = [r \in Recorded |-> root[r]]
  /\ scanned' = Scanned
  /\ LET made == IF Shell THEN {} ELSE {r \in Backed : root[r].kind = "dir"}
     IN  \/ phase' = "assemble" /\ onDisk' = made /\ UNCHANGED code
         \/ Return(1)
  /\ UNCHANGED <<cmd, disk, rc, rollback, scanOk, gates, cleared, cancelled, unseen, disk0>>

(* _assemble_sandbox and the checks of what it made writable (no backup    *)
(* below it, its repositories listed): the run is refused, or begins.      *)
Assemble ==
  /\ phase = "assemble"
  /\ \/ phase' = "running" /\ UNCHANGED <<code, onDisk>>
     \/ Return(1)
  /\ UNCHANGED <<cmd, disk, rc, snap, scanned, rollback, scanOk, gates, cleared, cancelled, unseen, disk0>>

(***************************************************************************)
(* The command, and the build code it runs.                                *)
(***************************************************************************)
Runs(step) ==
  /\ phase = "running"
  /\ step
  /\ UNCHANGED <<cmd, phase, rc, code, snap, scanned, onDisk, rollback, scanOk, gates, cleared,
                 cancelled, unseen, disk0>>

WriteLock == Runs(lock' \in Locks /\ UNCHANGED <<root, redirected, tampered>>)
WriteTarget(r) ==
  Runs((\E t \in Trees : root' = [root EXCEPT ![r] = t]) /\ UNCHANGED <<lock, redirected, tampered>>)
Redirect(r) == Runs(redirected' = redirected \cup {r} /\ UNCHANGED <<lock, root, tampered>>)
Tamper == Runs(~Shell /\ tampered' = TRUE /\ UNCHANGED <<lock, root, redirected>>)

Exit ==
  /\ phase = "running"
  /\ rc' \in {0, 2}
  /\ phase' = IF Shell THEN "lockscan" ELSE "exited"
  /\ UNCHANGED <<cmd, disk, code, snap, scanned, onDisk, rollback, scanOk, gates, cleared, cancelled,
                 unseen, disk0>>


(***************************************************************************)
(* Rolling back: the lock file, each snapshot no backup covers, the        *)
(* backups last.  Nothing below a directory replaced by a link is written. *)
(***************************************************************************)
Undo(reason, targets) ==
  /\ phase' = "undo"
  /\ why' = reason
  /\ todo' = targets
  /\ \/ lock' = (IF LockUnread THEN lock ELSE disk0.lock) /\ UNCHANGED lockLost
     \/ lock # disk0.lock /\ UNCHANGED lock /\ lockLost' = TRUE

(* Repositories planted in a writable checkout, or a stable directory      *)
(* that is no longer the one it was.                                       *)
CheckTampered ==
  /\ phase = "exited"
  /\ IF tampered THEN Undo("refused", DOMAIN snap)
                 ELSE phase' = "lockscan" /\ UNCHANGED <<lock, why, todo, lockLost>>
  /\ UNCHANGED <<cmd, root, redirected, tampered, rc, code, snap, scanned, onDisk, keep, reported, scanOk,
                 gates, cleared, cancelled, unseen, disk0>>


(* Mutant: what could not be read before counts as unchanged.              *)
LockChangedIfRead == ~LockUnread /\ lock # disk0.lock

(* _changed_lock_files: what could not be read before counts as changed.   *)
LockChanged == LockUnread \/ lock # disk0.lock

(* _scan_updated_lock_files: the packages of a changed lock file, from the *)
(* cache where it has them; one with no packages is refused.               *)
ScanLock ==
  /\ phase = "lockscan"
  /\ LockChanged => ~cancelled
  /\ \E degraded \in SUBSET (lock.pkgs \ cmd.stale) :
       /\ scanOk' = (LockChanged => /\ lock.kind = "parsed" /\ lock.pkgs # {}
                                    /\ Flagged(lock.pkgs, degraded, cmd.stale) = {})
       /\ unanswered' = unanswered \cup IF LockChanged THEN degraded ELSE {}
  /\ phase' = "postrun"
  /\ UNCHANGED <<cmd, disk, rc, code, snap, scanned, onDisk, rollback, means, pending, undated, cleared,
                 cancelled, unseen, disk0>>


(* _post_run_cooldown: the versions the lock file did not have before.  A  *)
(* failed command's clearances are discarded.                              *)
(* Mutant: a command that installs the lock file has been asked about it.  *)
ChosenByGate == IF scanOk /\ LockChanged /\ ~cmd.fromlock THEN lock.pkgs \ disk0.lock.pkgs ELSE {}

Chosen == IF scanOk /\ LockChanged THEN lock.pkgs \ disk0.lock.pkgs ELSE {}

PostRunCooldown ==
  /\ phase = "postrun"
  /\ Chosen # {} => ~cancelled
  /\ \E ok \in BOOLEAN, clears, missed \in SUBSET Young :
       /\ CooldownDecide(Chosen, ok, clears, missed)
       /\ scanOk' = (scanOk /\ ok)
       /\ pending' = IF rc # 0 /\ ~Shell THEN pending ELSE pending \cup clears
       /\ undated' = undated \cup missed
  /\ phase' = "verdict"
  /\ UNCHANGED <<cmd, disk, rc, code, snap, scanned, onDisk, rollback, means, unanswered, cleared,
                 cancelled, unseen, disk0>>

(* A command that failed: its lock file has been checked, its packages are *)
(* not scanned; what it was rebuilding is put back.                        *)
Failed == rc # 0 /\ ~Shell

Verdict ==
  /\ phase = "verdict"
  /\ \/ /\ Failed /\ cmd.nochange
        /\ Undo("dry", DOMAIN snap) /\ UNCHANGED <<code, onDisk>>
     \/ /\ ~scanOk /\ ~(Failed /\ cmd.nochange)
        /\ Undo("refused", DOMAIN snap) /\ UNCHANGED <<code, onDisk>>
     \/ /\ scanOk /\ Failed /\ ~cmd.nochange /\ onDisk # {}
        /\ Undo("failed", DOMAIN snap) /\ UNCHANGED <<code, onDisk>>
     \/ /\ scanOk /\ Failed /\ ~cmd.nochange /\ onDisk = {}
        /\ Return(rc) /\ UNCHANGED <<lock, why, todo, lockLost>>
     \/ /\ scanOk /\ ~Failed
        /\ phase' = "collect" /\ UNCHANGED <<lock, why, todo, lockLost, code, onDisk>>
  /\ UNCHANGED <<cmd, root, redirected, tampered, rc, snap, scanned, keep, reported, scanOk, gates, cleared,
                 cancelled, unseen, disk0>>


(* The environments the run created: post_run_scan_targets when nothing    *)
(* was to be scanned, _add_new_env_targets under env_parents.              *)
Created ==
  IF Shell THEN {}
  ELSE {r \in Envs \cup (IF scanned = {} THEN Venvs ELSE {}) : root[r].kind = "dir"}

(* _collect_new_packages: the versions whose metadata lies at a path that  *)
(* was not there before.                                                   *)
Paths(pkgs) == {Path[p] : p \in pkgs}
NewIn(r, before) == {p \in root[r].pkgs : Path[p] \notin Paths(before.pkgs)}
Unscannable(r) ==
  \/ root[r].kind = "impostor"
  \/ root[r].kind = "gone" /\ disk0.root[r].kind # "gone"

(* A new environment that cannot be scanned (its parent cannot be listed,   *)
(* the language module raises, its scan target lies elsewhere) is not put  *)
(* among the targets, nor in the snapshots: the user is warned and the run *)
(* goes on.  What raises when it is asked for an environment, or for the   *)
(* packages of a target, is skipped, with a line in the log.               *)
Overlooked(r) == {p \in Pkgs : <<r, p>> \in overlooked}

Collect ==
  /\ phase = "collect"
  /\ \E told \in SUBSET Created :
       /\ snap' = [r \in DOMAIN snap \cup told |-> IF r \in DOMAIN snap THEN snap[r] ELSE Gone]
       /\ scanned' = scanned \cup told
       /\ unscanned' = (Created \ told) \cap Envs
       /\ \E missed \in SUBSET UNION {{r} \X NewIn(r, snap'[r]) : r \in scanned'} :
            overlooked' = missed \cup UNION {{r} \X root[r].pkgs : r \in (Created \ told) \ Envs}
  /\ IF \E r \in scanned' : Unscannable(r)
       THEN Undo("refused", DOMAIN snap')
       ELSE phase' = "postscan" /\ UNCHANGED <<lock, why, todo, lockLost>>
  /\ UNCHANGED <<cmd, root, redirected, tampered, rc, code, onDisk, keep, reported, scanOk, gates, cleared,
                 cancelled, disk0>>

(* _post_scan on the new packages: OSV is asked afresh.                    *)
NewPackages == UNION {NewIn(r, snap[r]) \ Overlooked(r) : r \in scanned}

PostScan ==
  /\ phase = "postscan" /\ Asks(NewPackages)
  /\ \E degraded \in SUBSET NewPackages :
       /\ unanswered' = unanswered \cup degraded
       /\ IF Flagged(NewPackages, degraded, {}) # {}
            THEN Undo("refused", DOMAIN snap)
            ELSE /\ phase' = IF NewPackages = {} THEN "final" ELSE "postrisk"
                 /\ UNCHANGED <<lock, why, todo, lockLost>>
  /\ UNCHANGED <<cmd, root, redirected, tampered, rc, code, snap, scanned, onDisk, keep, reported, scanOk,
                 means, pending, undated, cleared, cancelled, unseen, disk0>>

(* _post_scan_risk, with resources of its own: a flagged package is kept   *)
(* (allowed, warned of, accepted, or nothing to score with) or refused.    *)
PostScanRisk ==
  /\ phase = "postrisk" /\ ~cancelled
  /\ \/ NewPackages \cap Risky # {} /\ Undo("refused", DOMAIN snap)
     \/ phase' = "final" /\ UNCHANGED <<lock, why, todo, lockLost>>
  /\ UNCHANGED <<cmd, root, redirected, tampered, rc, code, snap, scanned, onDisk, keep, reported, scanOk,
                 gates, cleared, cancelled, unseen, disk0>>

(* Every check passed: --no-change puts everything back all the same.      *)
Final ==
  /\ phase = "final"
  /\ IF cmd.nochange THEN Undo("dry", DOMAIN snap) ELSE phase' = "store" /\ UNCHANGED <<lock, why, todo, lockLost>>
  /\ UNCHANGED <<cmd, root, redirected, tampered, rc, code, snap, scanned, onDisk, keep, reported, scanOk,
                 gates, cleared, cancelled, unseen, disk0>>


(* Mutant: what could not be put back is logged, not reported.             *)
NotRestoredSilently(r) == r \in Roots /\ UNCHANGED reported

(***************************************************************************)
(* _restore_install_targets, one target at a time.                         *)
(***************************************************************************)
NotRestored(r) == reported' = reported \cup {r}
WithoutLarge(t) == [kind |-> t.kind, pkgs |-> t.pkgs, large |-> "none"]


(* Mutant: the links put above a target are not looked for.                *)
RestoreThroughLinks(r) ==
  /\ phase = "undo" /\ r \in todo \ Covered
  /\ todo' = todo \ {r}
  /\ root' = [root EXCEPT ![r] = snap[r]]
  /\ UNCHANGED <<cmd, lock, redirected, tampered, phase, rc, code, snap, scanned, onDisk, keep, reported, why,
                 lockLost, scanOk, gates, cleared, cancelled, unseen, disk0>>

RestoreTarget(r) ==
  /\ phase = "undo" /\ r \in todo \ Covered
  /\ todo' = todo \ {r}
  /\ \/ r \in redirected /\ NotRestored(r) /\ UNCHANGED root
     \/ /\ r \notin redirected
        /\ LET lost == snap[r].large = "old" /\ root[r].large # "old"
           IN  /\ root' = [root EXCEPT ![r] = IF lost THEN WithoutLarge(snap[r]) ELSE snap[r]]
               /\ IF lost THEN NotRestored(r) ELSE UNCHANGED reported
     \/ r \notin redirected /\ root[r] # snap[r] /\ NotRestored(r) /\ UNCHANGED root
  /\ UNCHANGED <<cmd, lock, redirected, tampered, phase, rc, code, snap, scanned, onDisk, keep, why, lockLost,
                 scanOk, gates, cleared, cancelled, unseen, disk0>>

(* dir_backup.restore: remove what is there, then copy the backup back;    *)
(* one that cannot be (or whose links lead to something changed) is kept.  *)
ClearForBackup(r) ==
  /\ phase = "undo" /\ r \in todo \cap Covered /\ todo \subseteq Covered
  /\ r \notin redirected /\ root[r] # Gone
  /\ root' = [root EXCEPT ![r] = Gone]
  /\ UNCHANGED <<cmd, lock, redirected, tampered, phase, rc, code, snap, scanned, onDisk, rollback, scanOk,
                 gates, cleared, cancelled, unseen, disk0>>

RestoreBackup(r) ==
  /\ phase = "undo" /\ r \in todo \cap Covered /\ todo \subseteq Covered
  /\ todo' = todo \ {r}
  /\ \/ /\ r \notin redirected /\ root[r] = Gone
        /\ root' = [root EXCEPT ![r] = snap[r]]
        /\ UNCHANGED <<keep, reported>>
     \/ /\ \/ UNCHANGED root
           \/ r \notin redirected /\ root[r] = Gone /\ root' = [root EXCEPT ![r] = snap[r]]
        /\ keep' = keep \cup {r}
        /\ NotRestored(r)
  /\ UNCHANGED <<cmd, lock, redirected, tampered, phase, rc, code, snap, scanned, onDisk, why, lockLost,
                 scanOk, gates, cleared, cancelled, unseen, disk0>>

Restored ==
  /\ phase = "undo" /\ todo = {}
  /\ phase' = "undone"
  /\ UNCHANGED <<cmd, disk, rc, code, snap, scanned, onDisk, rollback, scanOk, gates, cleared,
                 cancelled, unseen, disk0>>

(* What the run returns after a rollback.                                  *)
AfterUndo ==
  /\ phase = "undone"
  /\ IF why = "refused" \/ reported # {} \/ ~scanOk
       THEN Return(1)
       ELSE IF Failed THEN Return(rc)
                      ELSE phase' = "store" /\ UNCHANGED <<code, onDisk>>
  /\ UNCHANGED <<cmd, disk, rc, snap, scanned, rollback, scanOk, gates, cleared, cancelled, unseen, disk0>>


(* _store_cooldown_clears, for a run that has succeeded.                   *)
Store ==
  /\ phase = "store"
  /\ pending # {} /\ rc = 0 => ~cancelled
  /\ cleared' = IF rc = 0 THEN cleared \cup pending ELSE cleared
  /\ Return(rc)
  /\ UNCHANGED <<cmd, disk, rc, snap, scanned, rollback, scanOk, gates, cancelled, unseen, disk0>>

(***************************************************************************)
(* Interruptions.  asyncio.run answers the first Ctrl-C by cancelling the  *)
(* task, which raises at its next await; a second one raises at once, as   *)
(* an exception does.  run() then keeps every backup of a command that had *)
(* started, and puts nothing back.                                         *)
(***************************************************************************)
Interrupt ==
  /\ Interruptions /\ phase \in Live /\ ~cancelled
  /\ cancelled' = TRUE
  /\ UNCHANGED <<cmd, disk, phase, rc, code, snap, scanned, onDisk, rollback, scanOk, gates, cleared,
                 unseen, disk0>>


(* Mutant: an interrupted run discards its backups.                        *)
RaiseDiscards ==
  /\ Interruptions /\ phase \in Live
  /\ phase' = "raised"
  /\ onDisk' = onDisk \cap keep
  /\ UNCHANGED <<cmd, disk, rc, code, snap, scanned, rollback, scanOk, gates, cleared, cancelled,
                 unseen, disk0>>

Raise ==
  /\ Interruptions /\ phase \in Live
  /\ phase' = "raised"
  /\ keep' = IF Started THEN keep \cup onDisk ELSE keep
  /\ onDisk' = IF Started THEN onDisk ELSE onDisk \cap keep
  /\ UNCHANGED <<cmd, disk, rc, code, snap, scanned, why, todo, reported, lockLost, scanOk, gates, cleared,
                 cancelled, unseen, disk0>>

Kill ==
  /\ Interruptions /\ phase \in Live
  /\ phase' = "killed"
  /\ UNCHANGED <<cmd, disk, rc, code, snap, scanned, onDisk, rollback, scanOk, gates, cleared,
                 cancelled, unseen, disk0>>

Stopped == phase \in Ended /\ UNCHANGED vars

Init ==
  /\ cmd \in Commands
  /\ disk0 \in Disks
  /\ lock = disk0.lock /\ root = disk0.root
  /\ redirected = {} /\ tampered = FALSE
  /\ phase = "start" /\ rc = 0 /\ code = 99 /\ means = "none"
  /\ snap = [r \in {} |-> Gone] /\ scanned = {}
  /\ onDisk = {} /\ keep = {} /\ scanOk = TRUE
  /\ why = "" /\ todo = {} /\ reported = {} /\ lockLost = FALSE
  /\ pending = {} /\ cleared = {} /\ undated = {} /\ unanswered = {}
  /\ unscanned = {} /\ overlooked = {}
  /\ cancelled = FALSE

Next ==
  \/ Begin \/ OpenGates \/ RiskCheck \/ CooldownCheck \/ Preflight \/ Snapshot \/ Assemble
  \/ WriteLock \/ Tamper \/ Exit
  \/ \E r \in Roots : WriteTarget(r) \/ Redirect(r)
  \/ CheckTampered \/ ScanLock \/ PostRunCooldown \/ Verdict \/ Collect \/ PostScan \/ PostScanRisk
  \/ Final
  \/ \E r \in Roots : RestoreTarget(r) \/ ClearForBackup(r) \/ RestoreBackup(r)
  \/ Restored \/ AfterUndo \/ Store
  \/ Interrupt \/ Raise \/ Kill \/ Stopped

Spec == Init /\ [][Next]_vars
-----------------------------------------------------------------------------
(* The state of the run and of the disk.                                   *)
TypeOK ==
  /\ cmd \in Commands /\ disk0 \in Disks
  /\ lock \in LockStates /\ root \in [Roots -> RootStates] /\ redirected \subseteq Roots
  /\ tampered \in BOOLEAN /\ phase \in Live \cup Ended /\ rc \in {0, 2} /\ code \in {0, 1, 2, 99, 127}
  /\ means \in {"none", "db", "engine"}
  /\ DOMAIN snap \subseteq Roots /\ \A r \in DOMAIN snap : snap[r] \in RootStates
  /\ scanned \subseteq Scanned \cup Venvs \cup Envs /\ onDisk \subseteq Backed /\ keep \subseteq Backed
  /\ scanOk \in BOOLEAN /\ why \in {"", "refused", "failed", "dry"}
  /\ todo \subseteq DOMAIN snap /\ reported \subseteq Roots /\ lockLost \in BOOLEAN
  /\ pending \subseteq Young /\ cleared \subseteq Young /\ undated \subseteq Young
  /\ unanswered \subseteq Pkgs /\ cancelled \in BOOLEAN
  /\ unscanned \subseteq Envs /\ overlooked \subseteq Roots \X Pkgs

SameTarget(r) == root[r] = disk0.root[r]
SameLock == lock = disk0.lock \/ lockLost \/ LockUnread

(***************************************************************************)
(* A run that was refused after the command had run (a malicious, risky or *)
(* too young package, a scan that could not be made, a planted repository) *)
(* leaves the lock file, and every target it knows of, as they were before *)
(* it, or has said which target it could not put back.  (It knows of a new *)
(* environment only once the checks of the lock file have passed.)         *)
(***************************************************************************)
RefusedIsUndone ==
  phase = "done" /\ why = "refused" =>
    SameLock /\ \A r \in DOMAIN snap : SameTarget(r) \/ r \in reported

(* The targets that have been scanned when a run ends with its command's   *)
(* own code: none of a command that failed, which leaves the lock file.    *)
Looked == IF Failed THEN {} ELSE IF Shell THEN Scanned ELSE Roots \ (SnapshotOnly \cup unscanned)

(***************************************************************************)
(* When a run ends with its command's own exit code and keeps its changes, *)
(* no package OSV calls malicious was written to the lock file, whether    *)
(* the command failed or not, nor, by one that did not, installed into a   *)
(* target or an environment made by it: unless OSV did not answer for it,  *)
(* the cache answered for the lock file, the user was told that the        *)
(* environment was not scanned, or a language module raised.               *)
(***************************************************************************)
NoMaliciousKept ==
  phase = "done" /\ code = rc /\ ~cmd.nochange =>
    /\ \A r \in Looked :
         (root[r].pkgs \ disk0.root[r].pkgs) \cap Malicious \subseteq unanswered \cup Overlooked(r)
    /\ (lock.pkgs \ disk0.lock.pkgs) \cap Malicious \subseteq unanswered \cup cmd.stale

(***************************************************************************)
(* When a run succeeds, every young version it asked for, took from its    *)
(* lock file or wrote to it has been accepted, and is on record as         *)
(* accepted, unless its age could not be found.                            *)
(***************************************************************************)
YoungIsAnswered ==
  phase = "done" /\ code = 0 =>
    ((IF Shell THEN {} ELSE Queries) \cup (lock.pkgs \ disk0.lock.pkgs)) \cap Young \subseteq cleared \cup undated

(***************************************************************************)
(* From the start of the command on, a directory backed up whole is as it  *)
(* was, or its backup exists, or the run has succeeded: however the run    *)
(* ends, interrupted in the middle of the rollback or killed.              *)
(***************************************************************************)
BackupKeptUntilSafe ==
  \A r \in Backed :
    disk0.root[r].kind = "dir" /\ ~Shell =>
      r \in onDisk \/ SameTarget(r) \/ (phase = "done" /\ code = 0 /\ ~cmd.nochange)

(***************************************************************************)
(* The rollback writes no target with a directory above it that the run    *)
(* replaced by a link.                                                     *)
(***************************************************************************)
NothingThroughLinks ==
  [][phase = "undo" => \A r \in redirected : root'[r] = root[r]]_vars
=============================================================================
