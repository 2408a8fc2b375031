# A TLA+ verification project for package-alert

package-alert (`pa`) watches a developer's machine for package installs, looks every install up in
OSV, scores it, and alerts; it also runs package managers in a sandbox with roll-back (`pa run`),
scans projects on a schedule, plans and applies fixes (`pa fix`), and reports to a fleet server
through a plugin. This directory models the parts of it whose behaviour depends on the order of
events, on failures, or on time: TLA+ modules, TLC configurations that check them on small
instances, and TLAPS proofs for every instance. Paths are relative to the repository root, which
`src/` stands for.

## 1. The system

| Part | Code | State it keeps | Operations | What makes it correct |
|---|---|---|---|---|
| Event pipeline | `packagealert/daemon.py`, `osv/cache.py` | in-flight claims, completions by key, OSV cache, alerts table | consume, claim, wait, prefetch, evaluate, alert, prune | each install is evaluated once per window; an outage is never remembered as clean; malicious means alerted; no circle of waiting tasks |
| Process monitor | `monitors/process.py` | `_seen_processes`, `_pending` | poll, reconcile, defer, report | an install is reported once, after its lock file is complete, and under its own process |
| Site-packages watches | `monitors/cache.py` | watches with generation and owners, baselines | add, schedule, observe, rescan, clean up | a watch that cannot hear is found out; one that can is kept while its installers run |
| Cache roots and backfill | `monitors/cache.py` | registered roots, baselines, claims, retries | snapshot, register, scan, catch up | every new artifact is reported; nothing that was there before is |
| Daemon lifecycle | `daemon.py`, `daemon_pid.py`, `cli/app.py` | PID file, tasks | start, stop, kill | one daemon; stopped plugins get no alert |
| Scheduled scans | `scheduler/runner.py`, `scheduler/db.py` | projects, scan history | tick, scan, record, prune | no slot missed, no slot repeated, history bounded |
| Central outbox | `plugins/central/*` | `central_outbox`, transactions | enqueue, evict, drain, settle | a report is delivered, or leaves for a stated reason |
| Sandboxed runs | `sandbox/*` | backups, snapshots, clearances | gates, command, scans, roll-back | a refused run changes nothing; nothing malicious is kept; backups outlive a failed roll-back |
| Snapshots of install targets | `sandbox/backends/filesystem.py` | the record of a tree | record, restore | a difference that is left is named |
| Isolation | `sandbox/bwrap.py`, `isolation.py`, `runner.py` | mounts, throwaway copies, the trial's process and thread | bind, hide, run captured, clean up | hidden stays hidden; nothing outlives the call |
| Planning a fix | `osv/remediation.py`, `remediate/planner.py` | none | merge findings, choose a version | each vulnerable copy is in one fix, at a version that fixes it |
| Verifying a fix | `remediate/verify.py`, the fix adapters | plan items, trials | trial, free a parent, force, upgrade a parent, combine | a verified plan makes nothing worse |
| `pa fix` | `cli/fix_cmd.py` | the snapshot of the project, its frozen copy | find, read, plan, try, report, apply, sync | what is applied is what was tried; the exit code is true |
| Writing a fix | `remediate/apply.py` | files and their backups | snapshot, exchange, check, roll back | no version another program wrote is lost |
| Tool environments | `cli/fix_tools.py`, `languages/python_fix/*` | a tool's environment and executables | back up, apply, restore | a failed change leaves the tool as it was |
| OSV client | `osv/client.py`, `osv/cache.py` | `osv_cache` rows | read, batch, retry, parse, enrich, store | no verdict reaches the wrong package; a failure is not a clean answer; what was named malicious is heard |
| Polled cache roots | `monitors/cache.py` | baseline, discovered roots, pending plugins | seed, walk, judge | nothing new is taken for old |
| Risk engine, heuristics | `analyzers/risk.py`, `scoring.py`, `heuristics/*`, `osv/popularity.py` | corpus, memo, popularity and date rows | fetch, score | a score is against today's corpus; its parts add up |
| Risk and cooldown gates | `sandbox/preflight_risk.py`, `cooldown.py`, `runner.py` | clearances | judge, ask, clear | every trigger counts; a clearance expires |
| Scan commands | `cli/app.py`, `cli/scan_tools.py`, `scheduler/runner.py` | the running totals, `osv_cache`, alerts | list, ask, store, clear, count | no package is passed over; cleared is clean |
| Storage | `storage/db.py` | tables and columns | create, migrate, run plug-ins' statements | an opened database is current |
| Languages, parsers, CLI output, plugin discovery | `languages/*`, `parsers/*`, `cli/*`, `plugins/*` | settings | parse, format, dispatch | what the parts above get from them |

How they interact: the two monitors put events in queues that the daemon's consumer tasks read; a
process event makes the daemon ask the cache monitor for a watch on the install's site-packages
directory (`add_site_packages_watch`), whose observations come back as cache events; the pipeline
writes alerts to SQLite and dispatches them to plugins, one of which queues reports in the same
database; the scheduler runs inside the daemon and shares the database with the `pa schedule`
commands; `pa run`, `pa fix` and the scans are processes of their own that share the database and
the disk with the daemon, with package managers and with other programs; each of them opens, and so
migrates, the database. `pa fix` plans, verifies in captured sandboxed runs, and writes; each of the
three is a module, and `FixCommand` has each as one step with the outcomes the other module allows.

What is hard here: asyncio tasks that share tables across awaits; observer threads that post to the
loop late; process and inode numbers that are reused; two readings of one attribute that differ;
SQLite transactions that a busy timeout leaves open; interruption and kill between any two renames;
time that passes while a scan runs; package managers whose trial changes more than what it was asked
to; code that a package builds, which writes whatever it can reach; a command in a thread that
Ctrl-C does not reach. `PROJECT.json` lists every such place with its line under "hazards", with the
properties that cover it; section 6 names others that no property covers.

## 2. The modules

Every module is parameterised by CONSTANTS, most with named assumptions. A component that interacts
with others, or has liveness to check, has an `MC<Module>` of its own with one `.cfg` per question.
The rest, which do not interact with each other, are instantiated in two modules: `MCDaemonSide` and
`MCFixSide`. Each explores the disjoint union of its components' instances in one run: `which` says
which component a behaviour is of and never changes, the nth variable of that component is `vn`, and
the other variables are `"unused"`. The components that a theorem is about (`DaemonLifecycle`,
`SchemaMigration`, `CachePolling`, `Scheduler`, `RiskScoring` and `ScanCommand`; `FixWrite`,
`ToolApply`, `FixCommand`, `CapturedRun` and `SnapshotRestore`) are extended instead: each has its
own variables, which keep an initial value in the behaviours of the others, so that its property in
the run is the very definition that its theorem names. A property of a union says what holds when
`which` is that component, and is a conjunction of the properties its module states; liveness is
left to the runs with a module of their own. A module of pure functions (`RiskRules`, `FixPlan`,
`SandboxMounts`) is checked over a set of inputs: each input is an initial state, and the property
is evaluated on it there, or, where the functions are deep, on the one step from "asked" to
"answered". Where one instance with every complication at once is beyond TLC, the MC module's
`MCSpec` adds a bound, `Within`, to the steps: a union of small instances, in each of which a few
complications happen and any may be chosen. A definition that translates code has its lines in
`PROJECT.json` under "map". Operators whose comment starts with "Mutant:" are plausible bugs that a
property was shown to catch; nothing uses them.

### EventPipeline, InstallLedger (`daemon.py`, `osv/cache.py`)

One `_consume()` task per monitor. A step is what a task does between two awaits: take what is
queued, drop what a completion table remembers, claim the whole batch of dedup keys or wait for the
holder of one, warm the OSV cache, evaluate, store the alert, complete or release. The claim pass of
the code has no await in it, so it is one action; waiters are woken on release as `asyncio.Event`
does; the prefetch's reads of the cache are one step. OSV's verdict for a package is constant; a
lookup may fail, or answer in part, when a malicious package is still told of and stored, and yet
the lookup is repeated and nothing is cached (`OsvLookup` opens this up). Completions age by the two
windows (five minutes for processes, two hours for caches in the code), and `Prune` forgets the aged
ones. An alert's hand-over to plugins and desktop is one step, `Notify`.

`InstallLedger` is the abstract specification: an evaluator takes a batch of installs or none of it,
completes each of them once, and no install completes twice within its window.
`EventPipeline!LedgerSpec` is the refinement mapping.

- `MCEventPipeline_monitors`: the deployment, a process and a cache monitor with their own windows.
  Their keys are disjoint, so waiting is left to the next run.
- `MCEventPipeline_shared`: two tasks that see the same installs, two keys, also in opposite orders,
  with liveness and the refinement.
- Fairness: WF on each task's step; the asyncio loop runs every ready task and every query ends by
  its timeout.
- `CHECK_DEADLOCK FALSE`: arrivals are bounded.
- The hand-off of directories to the cache monitor is `SitePackagesWatch`'s.

### OsvLookup (`osv/client.py`, `osv/cache.py`)

Processes and tasks that share the `osv_cache` table: rows are read one by one, the missing packages
are asked about in one batch, with retries; a reply may lack items, hold malformed items, and hold
malformed entries in an item; details are fetched; complete results are stored, one commit each; the
caller judges all. OSV's list grows meanwhile. Time is an age in ticks: a lookup takes at most
`Longest` (its requests have timeouts and its retries are bounded) and rows live for `Ttl`, so what
OSV has listed for `Ttl + 2 * Longest` must be known to any verdict that claims to be complete: that
a late row is dated by its writing and not by OSV's answer is why the bound has two `Longest`s.

- `MCOsvLookup`: two lookups of two packages, one with two advisories, one of them malicious by its
  id and one by its alias. `Within`: the latter is listed with the former.
- Withdrawn advisories, duplicates within a batch and batches above 50 are not modelled.

### ProcessMonitor (`monitors/process.py`)

A poll is a walk over the process table, one process per step, with processes starting and exiting
in between. `create_time`, the working directory and the command line may fail to read each time,
those of them in the constant `Unreadable`. A command is one of eight kinds: it defers to a lock
file, names public, private or mixed packages, names a directory that cannot be resolved, raises
when it is read ("broken") or may raise when its lock file is searched for ("faulty"), or is no
installer. The n-th process started has create_time n. `FairSpec` has WF on the monitor alone:
`_poll_loop` repeats as long as the daemon runs; nothing obliges an installer to exit.

- `MCProcessMonitor`: two processes, two pids, one of them reused or both in use, every kind, a
  create_time that comes and goes. The working directory stays readable: where it does not, a
  deferred install is never tracked (section 5). A "faulty" install may be lost (section 5), which
  `ExitedIsReported` excepts: what it says is that nobody else's exception loses an install. A poll
  ended by an exception may leave a pid with two identities (section 5 again), so two properties are
  about behaviours without those two kinds; and a process whose command line fails to read in one
  poll and whose create_time in another is seen anew and reported again under the tag it had, so
  `ReportedOncePerTag` assumes that command lines read.

### SitePackagesWatch (`monitors/cache.py`)

Directories are incarnations on inodes; both inode numbers and pids are reused. A registration reads
the inode and asks the observer in two steps; a directory replaced between them is the exception
that `DeafIsFoundOut` names. Deletions and activity travel kernel, observer thread, event loop.
watchdog looks up an event's handlers by path when it dispatches it, so an event of a watch that was
unscheduled is lost or reaches the one registered at the path since, with the generation of that one
(`Handled`); what was posted to the loop before carries the old generation and is ignored. A watch
registered while a deletion at its path is still the observer's is `late`, the exception
`HealthyIsSpared` names (section 5). Idleness is a flag set by `Elapse`.

- `MCSitePackagesWatch`: rebuilt directories, several installers, idleness and configured
  directories, each of them alone or in pairs (`Complications`).
- Fairness: the observer thread and the loop run (WF); the maintenance pass is reached again and
  again (SF, since its guard is lost while a call is handled). Installers promise nothing but what a
  property's left side says of them.
- `ConfiguredIsWatched` excuses a daemon that has used up its bound of watches.

### CacheBackfill (`monitors/cache.py`)

One root: startup snapshot, watch, backfill scan, live events, refused registrations, plugins whose
discovery or glob raises and recovers. Walks read an entry per step while installers write. The
guard of `Close` states the assumption the code makes: the grace period is longer than the
observer's latency. Vanished artifacts' events are let through and not counted. Files that cannot
yet be classified, and forged mtimes, are not modelled.

- `MCCacheBackfill`: two plugins, liveness. `NoneReplayed` is about one incarnation of the root and
  plugins that do not raise: a new incarnation's artifacts are new, and after a plugin raised the
  catch-up repeats (section 5).

### CachePolling (`monitors/cache.py`)

The roots no watch covers: the startup walk that seeds the baseline, the polls that compare with it,
the roots a walk leaves out because a watched or another polled root has them, and the plugins whose
hooks or globs raised at startup and have no baseline yet. A walk is a glob per step on its own
thread, so that installers write between any two. The nth artifact made has identity n.

- In `MCDaemonSide`: a polled root above a watched one, two plugins, two artifacts, two exceptions.
  An old artifact may be reported when both exceptions happen (section 5), so that one property
  (`OldIsNotReplayed`) is about at most one, and about roots (`Declared`) that some plug-in declares
  and that no plug-in watches without declaring them: elsewhere, when the hook that declares a root
  raises at a later poll, the root is walked with its watcher's exclusion globs, and an old artifact
  that only those match is reported.

### DaemonLifecycle (`daemon.py`, `daemon_pid.py`, `cli/app.py`)

Starts in two steps (read the PID file; write it), stops in the order of `Daemon._run`'s finally,
kills at any step, and pids reused by daemons and by other programs. `Overlap = FALSE` serialises
starts.

- In `MCDaemonSide`: three daemons one after the other, over two locks of the PID file.
  `MCDaemonLifecycle_overlap` expects a violation: two starts that overlap.

### Scheduler (`scheduler/runner.py`, `scheduler/db.py`)

Ticks from the first midnight of a week; a pass scans what is due and the loop sleeps `Hour` from
its end. Crashes at each step of a scan, failing scans, and `pa schedule` commands from another
process. An error outside the scan's `try` (the storing of its result, the marking, the pruning, the
reading of what is due) ends the pass with the daemon up: `Abandon` drops what is left of it and the
loop sleeps. `hindered` remembers whom it kept from a scan, and `EveryDayIsOnRecord` excepts those,
no others. The clock never steps back, no daylight saving. `PluginStores` chooses whether a plugin
keeps the history.

- In `MCDaemonSide`: two projects, two-tick hours, three-hour days, two-day weeks, 12 ticks, a
  crash, an error or a failed scan. Scans are at the first hour of the day, where no day is skipped;
  at the last one a day can be (section 5).

### CentralOutbox (`plugins/central/*`)

A connection is modelled as SQLite in WAL mode under Python's implicit transactions: one writer; a
commit publishes; a read inside a transaction pins a snapshot; a write that times out leaves its
transaction open. Fairness: the drain runs again and again; steps that need the write lock or the
plugin's asyncio lock are SF, as both are handed on.

- `MCCentralOutbox`: three reports, one of them from another process and one that the server
  rejects, a cap of two rows, a server that fails and recovers, and a busy timeout or a restart.
  `ReportsNotLost` and `QueuedIsDelivered` allow for what a busy timeout leads to (section 5).

### SandboxRun (`sandbox/runner.py`, `dir_backup.py`, `backend.py`)

`pa run` and `pa shell`: gates, snapshots and whole-directory backups, a command that writes
anything the sandbox leaves writable (one write per step), tampering checks, lock-file scan,
cooldown of the versions the command chose (in the configuration that asks about young versions),
environments the command created, scan of new packages, roll-back, and what is kept when it fails.
An environment made by the command that cannot be scanned (the directory it is in cannot be read, or
the language module raises or names nothing to scan) is `unscanned`: it is kept and the user is
warned. What a language module that raises does not tell of is `overlooked`, and only logged.
Neither refuses the run, and `NoMaliciousKept` excepts both by name (section 5). The first Ctrl-C
cancels the task at its next await, the second raises at once; a kill may fall anywhere. The gates'
answers are nondeterministic. A restore of a target brings back all but a file over the size limit,
or fails and says so. There is one lock file; a scan target and the backed-up directory it lies in
are one root. Global installs, unrecognised commands, `.npmrc` and the assembling of the sandbox are
not modelled.

- `MCSandboxRun`: one site directory that is scanned and backed up, one environment the command may
  create, one young version. The interruption and the kill are of a command that rebuilds the
  directory. Not promised, and so outside the properties: what a shell makes outside its targets,
  and environments made by a run that is refused before they become targets (section 5).

### FixWrite (`remediate/apply.py`)

Writing the files of a verified plan by exchange renames, with another program replacing, reverting
or removing them, up to two interruptions, a failure, a kill at any step. Permission bits are part
of a file's content; each version is written once; other programs replace by rename; setting aside
always succeeds; a file system without atomic exchange is found out at the first rename.

- In `MCFixSide`: a lock file that exists, a manifest that is new, a third file that is checked;
  another program writes two versions, undoes one and deletes one file; two interruptions.

### ScanCommand (`cli/app.py`, `cli/scan_tools.py`, `scheduler/runner.py`)

`pa scan-cache`, `pa scan-project`, `pa scan-tools`, `pa query` and the scheduler's scan, one
command after the other over one `osv_cache` table: a step is a batch asked, an answer stored, an
environment counted, an alert cleared. An answer may be degraded: it has then lost advisories, and
never invents one. What a lock file or a tool lists is an input, private packages included. What a
loop still has to do, has queued, was answered or failed is a set of places in the listing, as a
package may be listed twice.

- In `MCDaemonSide`: two commands, three packages of which two are malicious and one is of an
  ecosystem nobody registers, batches of one, so that a degraded batch, a batch between two and a
  row that another command stored all happen. What the project or tool lists is bounded by two
  packages in one place, or one in each of two.

### SchemaMigration (`storage/db.py`)

`open_db` of several processes, statement by statement: tables that are missing, columns added to
them in `_migrate`'s order, and the plug-ins' statements, which run under an authorizer in one
transaction that is rolled back as a whole when the error of a refused one comes out.
`extra_migrate` is code, which may catch that error and go on; then the rest is committed (section
5). DDL outside a transaction is committed at once, as Python's sqlite3 opens none for it. A kill
may fall between any two statements.

- In `MCDaemonSide`: two processes, three opens, any old schema, one plug-in with four
  contributions. `OpenedIsCurrent` is about an opening that succeeds; that one of two racing
  openings may fail is in section 5.

### RiskRules, RiskScoring (`analyzers/risk.py`, `scoring.py`, `heuristics/*`, `osv/popularity.py`, `sandbox/*`)

`RiskRules` has the decisions as functions: the nearest popular name and when it counts, the score
with its factors (exact fractions) and the rounding of what is shown, the gates' decision for a
package and for a run, the age gate with its clearances, the single question asked, the answers
about yanked versions. `RiskScoring` has what is stateful around them: packages scored at once under
a semaphore, one fetch of the corpus of popular names that the others wait for, the detector's memo,
popularity and publication rows whose failures expire early.

- In `MCDaemonSide`: two packages scored over a corpus that changes, one of them in two copies;
  `RulesHold` over all pairs of names within distance 3, popularities at each threshold, ages around
  the limits, and all answers to three questions.

### FixPlan, FixVerify, FixCommand (`osv/remediation.py`, `remediate/*`, `cli/fix_cmd.py`)

`FixPlan` has the planning functions: ranges as sequences of events, aliases merged until none are
left to merge, the version each copy is upgraded to, what is held and why, and the joining of fixes.
A version is a number on a major line.

`FixVerify` is one plan's verification: each fix along the routes of `_verify_one` (alone, with a
parent free to move, with the parent at an exact version, forced, with upgraded parents), judged
after each trial, and then all together. A trial may end in any state in which the pins it was told
are installed; advisories and ages may be missing at any lookup; three managers print different
pins. When the combination needs overrides no fix had alone and is then refused, the first fix is
printed with an override that its own trial never had (section 5): `tried` says whether a trial ran
what is printed, and two of the properties are about plans of which it does. `--apply` writes an
untried one no more than any other that ends elsewhere than its trial did, as it compares what it
resolves with the end of the trial.

`FixCommand` is one run of the command, in which a trial of a plan is one step with every outcome:
discovery, the recorded snapshot, what is read, the queries, the frozen copy, the holds, the report,
the application, the sync and the exit code, while the project is edited.

- In `MCFixSide`: two fixes, each blocked by the other or by a third package, in four worlds (plain;
  a parent of unknown age and one in cooldown; a parent with an advisory and one yanked; a target
  with another advisory); `FixCommand` with two findings, one of a direct dependency, one edit,
  three adapters; `FixPlan` over all pairs of findings of a set of ranges with one and two lines.
- The files of a trial directory and the resolution itself are the package managers'.

### ToolApply (`cli/fix_tools.py`, `languages/python_fix/*`)

`pa fix --tools --apply` on one tool of uv or pipx: the tool and the directory of its executables
are recorded and copied, the verified command runs, and what it leaves is accepted or undone. What a
package builds may change whatever the sandbox lets it write, other programs change the tool and the
executables at any time; deletions and writes outside the recorded directories are remembered.

- In `MCFixSide`: both kinds, one edit, two writes by what is built. `MCToolApply` expects a
  violation (section 5): `FailedIsUndone` excuses what it shows.

### SnapshotRestore (`sandbox/backends/filesystem.py`)

The record of an install target and its restoration, pass by pass as in the code: a walk from the
deepest entry upwards that removes what was not there and puts the contents of files back; then the
links, the files and the directories that are gone or were replaced, the unrecorded files that are
lost, and the mode of the root last. A root that was itself replaced is rebuilt. Siblings do not
influence each other, so the tree is a path. An operation fails where rights or what is in the way
make it fail, and what could not be put back is named; a restoration that cannot begin is an error
to the caller.

- In `MCFixSide`: two levels below the root, directories that are writable or not. An unreadable
  directory is section 5's.

### SandboxMounts, SnapshotBinds, CapturedRun (`sandbox/bwrap.py`, `isolation.py`, `runner.py`)

`SandboxMounts` has how a run's writable, read-only and hidden paths become an ordered list of
mounts and what each path then shows, for paths with links, inside and beside one another, and the
same for a container's imitation without mounts. The empty mounts of `extra_tmpfs` and
`post_ro_tmpfs`, `/dev` and `/proc`, and the single files `write_files` binds in place are left out.
The repositories of a writable checkout (its own, a worktree's with the common directory it names, a
bare one) are among what must stay read-only. `SnapshotBinds` has the throwaway copies of
credentials the language modules offer: validated, accepted or removed, also when interrupted.
`CapturedRun` has the call that runs a trial: the coroutine, the worker thread, the command, its
children in its process group and out of it, the time limit, cancellation, the second Ctrl-C, and a
repository planted in a writable checkout, which is renamed or, when it cannot be, named.

- In `MCFixSide`: a few hundred runs that mix the places of the project, the editable checkouts, the
  state directory and the links; two language modules that each name two copies, nested or linked or
  none; two calls of one runner.
- Environment variables, seccomp and network options are not modelled.

### What is composed

`MCDaemonSide` and `MCFixSide` do not compose: nothing in one component's instance changes
another's. The interactions are inside the modules: `SitePackagesWatch` has the process monitor's
calls, `SandboxRun` what a restore promises, `FixCommand` what a trial and a write may answer,
`CentralOutbox` the other connections, `Scheduler` the commands of another process.

## 3. What the runs show

`PROJECT.json` has one entry per run with its properties and a sentence on what it shows. The
passing runs finish within minutes on two workers. Bounds are named in each module's CONSTANTS; each
is chosen so that the case a property is about happens: every property has a mutant of a mapped
definition that breaks it under the same configuration, so the bounds are at least large enough to
reach the failure it excludes.

Five of the properties are conjunctions of what the module states part by part: `WatchesAreTrue` (a
deaf watch is found out; owners install where the watch is), `QueueKeepsItsReports` (the cap holds;
no report is lost), `AdvisoriesAreHeard` (malicious is heard; old news is told), `NothingIsLost`
(every version is somewhere; untouched when said so; every original is at its path or in the backup;
what is applied saw every change) and `ReuseIsHarmless` (a lock file is read after the command
exits; no process is masked by the one whose pid it has).

| Run | What it adds to its module's section |
|---|---|
| `MCDaemonSide` | seven components; `CHECK_DEADLOCK FALSE`, as daemons, commands and openings are bounded and an answered question is the end |
| `MCFixSide` | nine components; `CHECK_DEADLOCK FALSE`, as a command ends |
| `MCEventPipeline_*`, `MCOsvLookup`, `MCProcessMonitor`, `MCCentralOutbox`, `MCSitePackagesWatch`, `MCCacheBackfill` | `CHECK_DEADLOCK FALSE` where arrivals, processes or lookups are bounded |
| `MCDaemonLifecycle_overlap`, `MCToolApply` | expect a violation: "findings" quotes what the repository says and what the run shows instead |

## 4. What is proved

`EventPipelineProofs` holds the TLAPS proofs about the pipeline, for any sets of tasks, packages,
events, any windows and bounds that satisfy the ASSUMEs of `EventPipeline`:

- `TypeCorrect`, `ClaimsAreExclusive`, `DropsAreJustified`, `CompletionsAreKept`,
  `EvaluatedOncePerWindow`, `MaliciousIsAlerted`, `OutagesAreNotCached`;
- `ImplementsLedger`: each step is a step of `InstallLedger` or a stutter.

None of these is inductive alone. The argument is in layers: `Typed`; `Ownership` (what a task holds
is its batch, and only while it works on it); `ClaimsExclusive`; `Memory` (a completion that is
still in its window is in a table), together `Inv`; then `Sound`, which relates a task's verdict to
the package's true status, the cache to OSV's answers, and the alerts table to what was settled.
`Invariance` is proved with one step per action; the refinement uses `Inv` to show that a claim is
taken only when the ledger allows it.

The other modules have their theorems in a module of their own, each from an inductive invariant
that is a conjunction of named parts, with a lemma per part (the part is kept by every step, one
proof step per action) and a last step that combines them.

- `SandboxRunProofs` (`RefusalUndoes`, `BackupSurvives`, `YoungAreAnswered`, `NewPathsAreScanned`,
  `NothingMaliciousIsKept`, `LinksAreNotFollowed`, `NoProcessOutlivesItsCall`), from
  `InputsAssumption` and `EnvironmentsAssumption`. `Writers` says which actions write each variable
  and `Order` which phase follows which, so that most actions need no step of their own; `Course`
  says what each phase has behind it, `Snapshots` that a snapshot is of the disk before the run,
  `Rollback` that each target is still to do, back, or reported, `Copies` that a directory backed up
  whole has its copy. `NothingMaliciousIsKept` has a hypothesis, `PathsNameVersions`: a Python
  dist-info path names its version, so that a malicious version has a path of its own; an npm or
  Composer package replaced in place keeps its path, and then only the lock file tells, which
  `NewPathsAreScanned` states without it. Of `CapturedRun`, `Asking` says that the checks were asked
  about what will run, `Working` what of the command is alive at each step of its thread, `Calling`
  how far caller and thread may be apart, `Saying` what an answer leaves.
- `EventPipelineProofs` also has `DaemonsAreAlone` of `DaemonLifecycle`, from `PidsAssumption` and
  for starts that do not overlap (`~Overlap`; with overlap the property is false, and
  `MCDaemonLifecycle_overlap` shows it). Where no start begins between the two steps of another, the
  PID file names the daemon until it has left (`FileNamesTheDaemon`), a start is alone while it
  writes (`StartsAlone`), and what has ended stays so (`StaysEnded`).
- `CentralOutboxProofs` (`TheQueueKeepsItsReports`, `OpenedDatabasesAreCurrent`,
  `CountedScansAreOnRecord`, `NoDayPassesUnscanned`), from the modules' assumptions. `Transactions`
  says who may have one open, a failed write's left-over included, `Views` that what it does not see
  was evicted or received; `Holders`, `Placed` and `Bounded` follow a report into the table,
  `Drains` and `Ends` out of it. Of `SchemaMigration`: `TablesAdvance` (each process finds in the
  database what its place in `open_db` says it has been through), `OneWriter` (who has uncommitted
  statements holds the lock) and `PluginsAreContained` (no statement that must be refused is
  committed, and of a contribution all of it is, or of a migration all that was not refused). Of
  `Scheduler`: `RowInHand` (what is scanned is due since its slot; slots never go back,
  `SlotsAdvance`) and `OnRecord` give `CountedScansAreOnRecord`, however long a pass lasts.
  `PaidOrPending` gives `NoDayPassesUnscanned`: from the hour on, a project registered before it has
  been scanned, or is still to be by a pass that began before the hour, by the sleep after it, or by
  a row of the next pass, or an error ended a pass that still had its row since the hour. An error
  before the hour, or after its row, is no exception: the project is due again in the next pass. Its
  hypothesis, `PassesFit`, says that two passes and a sleep fit between the hour and midnight, which
  the code does not see to (section 5): with the default hour, 2, it holds of passes of up to ten
  hours.
- `OsvLookupProofs` (`NobodyIsAccusedWrongly`, `AdvisoriesAreAlwaysHeard`, `ScoresHoldTogether`,
  `ScansAreComplete`). Rows, cache hits and fresh results are each sane up to an age: they name only
  advisories listed for their package, and miss none that is older than their age. That a reply with
  as many answers as were asked answers each in its place (an increasing map of 1 .. n into itself
  is the identity) is a least-element argument, `LeastNat`, in place of an induction. Of
  `RiskScoring`: `SingleFlight` (one task resolves the corpus and fetches it once, and who waits
  waits for it), `VerdictsHold` and `SentinelsHold` (what is remembered is of the corpus, and the
  lookup, it is said to be of), `ReportsHold` and `Counted` (the report follows the groups analysed
  so far). Of `ScanCommand`, `CommandInv`: a row says what OSV says of its package (`RowsAreTrue`);
  what scan-cache has seen is judged, alerted or counted (`CacheScanInv`); the places of a report
  that are queued, answered and failed are, together, the public ones, and their numbers add up
  (`JobInv`).
- `CacheBackfillProofs` (`RegistrationsAreSound`, `NothingIsReplayed`,
  `PolledArtifactsAreReportedOnce`). `Registration`: a watch and its backfill job go through a
  registration together. `BaselinesHold`: a baseline is complete where it is used. `Paid`: each path
  has an account; what was made at it since the start and may still be queued (`Owed`) is at least
  what is due, and each report pays for one artifact. Of `CachePolling`: what was reported under a
  root, and is still there, stays in its baseline (`StaysKnown`), what a walk found and has not yet
  judged is new (`FoundIsNew`), and until something raises twice the walk of the seed (`SeedCovers`)
  and of each poll (`PollCovers`) has met whatever is old before it is judged (`OldIsSilent`).
- `FixWriteProofs` (`WritesLoseNothing`, `AToolIsUpdatedOrBack`, `AnExitCodeIsTrue`), from
  `FixWriteAssumption` and `FixCommandAssumption`. `Held`: every version another program wrote and
  did not itself take away is at a path, in a temporary file, or was kept under a name that was
  told. It is inductive with `Waiting`, `Carried` and `Discarding` (no temporary file that carries
  another's version is written over or removed), `InPlace` (which files are exchanged, up to the one
  at hand) and `Rolling` (which are back, or named, up to the one at hand). `Truthful` gives what is
  said at the end. Of `ToolApply`, `Judged` says what the backup and the inventory are of at each
  step; of `FixCommand`, `Trials`, `Findings` and `Written` say what the plan, the doubts and the
  files are once each phase is behind, and `Telling` which warning each of them has become.
- `SitePackagesWatchProofs` (`StatesAreTyped`, `WatchesTellTheTruth`, `HealthyWatchesAreSpared`,
  `WhatCanBeWrittenIsRestored`, `RestorationsAreTrue`), from `InodesAssumption` (0, the inode of no
  directory, is not one) and `BoundsAssumption`. `Reported` is the core: the directory a watch is
  bound to exists if and only if its deletion is not on the way, in the kernel's queue, the
  observer's or the loop's; a deletion the observer still has when a watch is registered makes that
  one `late`, and one it hands over afterwards carries the generation of the watch that it finds at
  the path; `Apart` and `Numbered` keep the directories that had an inode one after the other apart,
  `Known` the installers that had a pid. Of `SnapshotRestore`, from `SnapshotAssumption` (which the
  union's assumption has), for trees of any depth: `Frame` says what a pass may do to the rest of
  the tree when it stands at an entry (a directory that was there may come back above it, what was
  not there may go below it). So what the passes have done stays done, and `Accounted`, the core,
  holds at each step: an entry is named, lies below one that is, or is as far restored as the passes
  behind it say (`Restored`; after the walk it is nothing that a later pass trips over, `Walked`).
  `AllFree` says that nothing is named where all can be written. `RestorationsAreTrue` has a
  hypothesis: no directory that can be entered and written but not listed (`"wx" \notin Rights`);
  with one the property is false (section 5); `WhatCanBeWrittenIsRestored` does without it.
- `ProcessMonitorProofs` (`MonitorTypes`, `ReportsAreNotRepeated`, `PidsAreReusedSafely`), from the
  module's assumptions. `Single` and `SingleKnown`: while no poll is abandoned a pid has one
  identity in `_seen_processes`, and it is the one `known_create_time_by_pid` has; so what is parsed
  again has an identity that is new, and an entry moves only then (`MovesWhenParsed`). A report made
  or to be made (`SpentReport`) keeps the identity of its process from being new (`Fresh`), which
  makes it single; `Followed` (the poll finds the entry of a process that runs) gives the reading
  after the exit, and `Noticed`, which abandoned polls do not disturb but for the install whose own
  lock file search raises, that nothing is hidden.

Liveness (every observation is settled, queued reports are delivered, watches reclaimed) is
model-checked only: ENABLED and fairness are out of the prover's reach. So are, of what the unions
check, `RulesHold`, `PlansFix` and `MountsConfine`. `SandboxMounts`, which follows links with a
recursive operator, and the folds and recursive functions of `FixPlan` and `RiskRules` stay with TLC
for good: what a recursion computes for every input takes an induction over data.

## 5. Disagreements found while modelling

The code and what the repository says of it differ in these places. The models keep what the code
does; the properties name the exception or the instance leaves the case out, as section 2 says.

- `osv/client.py:84` (comment): the verdict is authoritative before `_enrich`, which "only decorates
  it". The MAL- alias of an advisory arrives in `_enrich` alone (its own comment at 158), so when
  that fetch fails a package that is malicious by an alias only is judged vulnerable, with
  `degraded` unset, and cached so for the TTL.
- `daemon.py:394`: the README's "Only one instance may run at a time" (`MCDaemonLifecycle_overlap`).
- `cli/fix_tools.py:543` (docstring: "every entry that changed is put back") and README.md:529:
  another program's small executable that the failed run deleted is not put back, and the reason
  says "restored as it was" (`MCToolApply`).
- `remediate/verify.py`, `_combined_pins` (docstring): for uv, the combined command may have pins
  that were in no trial together, when a parent was freed on one fix's route (`PrintedIsTried` of
  `FixVerify` is stated and not checked).
- `remediate/verify.py:859` (comment at 844: "keeping the trial and the printed commands alike"):
  fixes forced for the combined trial are marked so before the combination may be refused (865). The
  first of them, printed alone (897), then has an override that its own trial never had, and may
  bring a version of unknown age while it says that its cooldown was checked.
- `sandbox/backends/filesystem.py`, `restore_install_target` (docstring) and SANDBOX.md:179: a
  directory that became unlistable hides what is in it from the restoration's own check
  (`SnapshotRestore` with `Rights` {"rwx", "wx"} violates `DifferencesAreNamed`).
- `storage/db.py:244` (docstring: "rejected as a unit"): an `extra_migrate` that catches the error
  of a refused statement returns, and what else it ran is committed (303). Nothing it ran is on a
  core table.
- `storage/db.py`: two processes that migrate at once may both find a column missing; the second
  ALTER fails and so does its command (`tests/unit/test_scheduler_db.py:371` tests the idempotence
  of one). No data is at stake.
- `sandbox/runner.py`, SANDBOX.md:275: a repository planted by a trial is moved aside, not when the
  trial is interrupted.
- `monitors/cache.py`, `_poll_cache_dirs_sync`: an artifact older than the daemon may be reported
  when a plugin's hooks and a glob raise one after the other.
- `monitors/process.py:503` (comment): a running deferred install "is correctly excluded from
  `finished`". A poll ended by an exception skips the update of `_seen_processes`; a pid then has
  two identities, the next poll may take the old one, and the lock file is read early.
- `monitors/process.py:513`: the entry of a finished install is taken out of `_pending` before its
  lock file is searched for. When that search raises (`candidate.exists()` of a directory that
  cannot be read), nothing is queued and the install is never reported.
- `monitors/process.py:522`: an install whose working directory is unreadable when it is first seen
  is never tracked.
- `plugins/central/plugin.py:375` (comment): `_db_lock` prevents "cannot start a transaction within
  a transaction". A `delete` or `mark_failed` that times out leaves a transaction open, and the next
  enqueue fails with that error; and (`:768`, rows "are retried next tick") a later drain reads in
  that transaction, so once another connection commits it settles nothing until a restart.
- `monitors/cache.py:3286` (comment): configured directories are exempt from the idle timeout. One
  that a process event registers first is not (`:3193`).
- `monitors/cache.py:3257`: expiring idle watches "closes the window" of the ObservedWatch-equality
  race (106), for directories rebuilt much later. A deletion that is still in the observer's own
  queue when the new watch is registered is dispatched to it, with its generation, and removes a
  healthy watch; the next install registers it again, or, for a cache root or a configured
  directory, the maintenance pass.
- `monitors/cache.py:2042` (docstring): a catch-up is "never a duplicate alert". What was reported
  live since the registration is queued again.
- `tests/integration/test_daemon.py` ("An in-flight _process_event should complete before the daemon
  exits"): the real `_run` cancels its consumers at the signal, also between the storing of an alert
  and its hand-over.
- `scheduler/runner.py:89`: only the scan is in the `try`. An SQLite error when a result is stored,
  a project marked scanned or the history pruned is caught by the loop alone (`daemon.py:106`),
  which abandons the pass. The list is ordered by path, so that an error that comes again at one
  project keeps every project listed after it from being scanned, day after day.
- `scheduler/runner.py`, `_is_due`: the README allows any `daily_hour`; at 23 two passes can fall on
  either side of the hour, and the day has no scan.
- `remediate/apply.py`, `_take_out` (comment): another writer's file is "never left under the hidden
  temporary name". An interruption between its rename and the return leaves it there, unnamed.
- `SANDBOX.md`: "a freshly created venv is removed entirely", not when the lock-file scan or the
  cooldown refuses the run, as the venv becomes a target only afterwards; "always restored", not
  when a dry run is interrupted; `_run_shell`'s docstring: the scan catches "any packages installed
  during the session", not in an environment made in it, nor an npm version installed over another.
  An environment that cannot be scanned is kept with a warning, and the run succeeds
  (`runner.py:765`, 797, 803, 814, 817); where a language module raises (`runner.py:724`, 5225)
  there is only a line in the log.

## 6. Hazards no property covers

`pa update`, which signals whatever process has the number in the PID file and waits ten seconds for
it; a clock that steps back (`prune_scan_results` orders by it) and hours that a zone repeats; a
`store_alert` that times out and leaves the daemon's shared connection in a transaction; a payload
the server refuses with a 5xx for ever, which holds up the outbox until the cap evicts it; a write
in place by a program that had the old file open; a lock file that cannot be put back and is only
logged; a watch that is cleaned up while the observer holds its last event; an artifact whose mtime
was preserved from before the daemon started; a plug-in that takes longer than its time limit, which
is logged as a forbidden operation.

## 7. What is not modelled, and the plan

PROJECT.json "components" gives the status of each part. What could still be added, in order:

1. A theorem for the order of trials in `FixVerify`.
2. `pa update`'s restart, in `DaemonLifecycle`; the heartbeat and the configuration overlay of the
   fleet server.
3. Global installs and unrecognised commands in `SandboxRun`; directories without x in
   `SnapshotRestore`.
4. A watch cleaned up by one task while another registers it: `SitePackagesWatch` and
   `CacheBackfill` composed.

Left out for good: the language modules' tables and the parsers of files and argument vectors
(functions of their input whose reference is the package managers' grammars, with oracles in the
tests), formatting and wording, the resolvers of package managers, and network I/O, whose answers
are nondeterministic.
