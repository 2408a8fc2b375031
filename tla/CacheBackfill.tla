--------------------------- MODULE CacheBackfill ---------------------------
(***************************************************************************)
(* How one cache root comes under watch: monitors/cache.py, CacheMonitor.  *)
(*                                                                         *)
(* A root is watched, and then scanned for what its watch could not see.   *)
(* What was there when the daemon started is not an install and is left    *)
(* out by a baseline; what a live event and the scan both see is queued    *)
(* once, by the claims of _BackfillDedup.  A registration may be refused   *)
(* and is retried; a plugin may fail to name its directories or its glob   *)
(* may fail, and the root is scanned again when it recovers.               *)
(*                                                                         *)
(* Installers write and the observer's thread runs between any two entries *)
(* a walk reads.  The n-th artifact made has identity n.                   *)
(***************************************************************************)
EXTENDS Integers, FiniteSets

CONSTANTS
  Paths,       \* artifact paths under the root
  Plugins,     \* the language plugins that share the root
  PluginOf,    \* PluginOf[p]: the plugin whose cache_file_globs match p
  MaxArts,     \* bound: artifacts made
  MaxRoots,    \* bound: times the root is made
  MaxRefused,  \* bound: registrations the observer refuses
  MaxRaised    \* bound: discoveries and globs that raise

ASSUME PluginAssumption ==
  PluginOf \in [Paths -> Plugins] /\ IsFiniteSet(Paths) /\ IsFiniteSet(Plugins)
ASSUME BoundsAssumption ==
  {MaxArts, MaxRoots, MaxRefused, MaxRaised} \subseteq Nat /\ MaxRoots > 0

Arts == 1 .. MaxArts
Absent == 0
NoWatch == [root |-> 0]
NoBaseline == [root |-> 0, ids |-> {}, incomplete |-> TRUE]
Idle == [step |-> "idle"]

VARIABLES
  file,     \* file[p]: the artifact at path p
  made,     \* artifacts made so far
  old,      \* those made before the startup cutoff
  root,     \* which making of the root directory this is
  watch,    \* _cache_root_watches: [root, open, seen, plugins, content]
  known,    \* _known_cache_roots: a _RootBaseline
  kernel,   \* creations the observer's thread has not handled
  job,      \* the registration or catch-up under way
  refused, raised,
  due,      \* due[p]: artifacts made at p since the start, less the events queued
  covered   \* artifacts at whose path an event was queued while they were there

disk == <<file, made, old, root>>
vars == <<file, made, old, root, watch, known, kernel, job, refused, raised, due, covered>>

Baselines == [root : 0 .. MaxRoots, ids : SUBSET Arts, incomplete : BOOLEAN]
Watches == [root : 1 .. MaxRoots, open : BOOLEAN, seen : SUBSET Arts,
            plugins : SUBSET Plugins, content : Baselines]
Jobs == [step : {"start", "snapshot", "refused", "scan", "grace", "content"},
         globs : SUBSET Plugins, exclude : Baselines,
         todo : SUBSET Paths, got : SUBSET Arts, bad : BOOLEAN]

TypeOK ==
  /\ made \in 0 .. MaxArts /\ file \in [Paths -> 0 .. made] /\ old \subseteq 1 .. made
  /\ root \in 1 .. MaxRoots
  /\ watch \in Watches \cup {NoWatch} /\ known \in Baselines
  /\ kernel \subseteq [path : Paths, id : 1 .. made]
  /\ job \in Jobs \cup {Idle}
  /\ refused \in 0 .. MaxRefused /\ raised \in 0 .. MaxRaised
  /\ due \in [Paths -> -1 .. made] /\ covered \subseteq Arts

Job(step, globs, exclude) ==
  [step |-> step, globs |-> globs, exclude |-> exclude,
   todo |-> IF step = "start" THEN {} ELSE {p \in Paths : PluginOf[p] \in globs},
   got |-> {}, bad |-> FALSE]

Init ==
  /\ \E P \in SUBSET Paths :
       /\ Cardinality(P) <= MaxArts
       /\ file \in [Paths -> 0 .. Cardinality(P)]
       /\ {p \in Paths : file[p] # Absent} = P
       /\ \A p, q \in P : p # q => file[p] # file[q]
       /\ made = Cardinality(P) /\ old = 1 .. Cardinality(P)
  /\ root = 1 /\ watch = NoWatch /\ known = NoBaseline /\ kernel = {}
  /\ job = Job("start", {}, NoBaseline)
  /\ refused = 0 /\ raised = 0
  /\ due = [p \in Paths |-> 0] /\ covered = {}

-----------------------------------------------------------------------------
(* Installers.                                                             *)

Hearing == watch # NoWatch /\ watch.root = root

\* An artifact is made at p, or renamed over what is there.
Create(p) ==
  /\ made < MaxArts
  /\ made' = made + 1 /\ file' = [file EXCEPT ![p] = made + 1]
  /\ due' = [due EXCEPT ![p] = @ + 1]
  /\ kernel' = kernel \cup {e \in {[path |-> p, id |-> made + 1]} : Hearing}
  /\ UNCHANGED <<old, root, watch, known, job, refused, raised, covered>>

Delete(p) ==
  /\ file[p] # Absent
  /\ file' = [file EXCEPT ![p] = Absent]
  /\ UNCHANGED <<made, old, root, watch, known, kernel, job, refused, raised, due, covered>>

\* The root is removed and made again.
Rebuild ==
  /\ root < MaxRoots
  /\ root' = root + 1 /\ file' = [p \in Paths |-> Absent]
  /\ UNCHANGED <<made, old, watch, known, kernel, job, refused, raised, due, covered>>

-----------------------------------------------------------------------------
(* Queuing.                                                                *)

\* An event for what has vanished by then is let through, and not counted.
Report(p) ==
  /\ due' = [due EXCEPT ![p] = IF file[p] = Absent \/ @ < 0 THEN @ ELSE @ - 1]
  /\ covered' = covered \cup ({file[p]} \ {Absent})

NotReported == UNCHANGED <<due, covered>>

\* Mutant: no coordination.
ClaimedNever(a) == FALSE

\* _BackfillDedup.claim refuses what was claimed while it is open.
Claimed(a) == watch # NoWatch /\ watch.open /\ a \in watch.seen

Claim(a) ==
  watch' = IF watch # NoWatch /\ watch.open
           THEN [watch EXCEPT !.seen = @ \cup ({a} \ {Absent})] ELSE watch

\* _Handler._classify_and_dispatch: the claim is for what is at the path by then.
Dispatch(e) ==
  /\ e \in kernel
  /\ kernel' = kernel \ {e}
  /\ IF Claimed(file[e.path]) THEN NotReported /\ UNCHANGED watch
     ELSE Report(e.path) /\ Claim(file[e.path])
  /\ UNCHANGED <<disk, known, job, refused, raised>>

-----------------------------------------------------------------------------
(* Registration.                                                           *)

\* Plugins whose cache_paths and cache_file_globs calls succeed.
Discovered(D) ==
  /\ D \subseteq Plugins /\ D # {}
  /\ raised' = raised + Cardinality(Plugins \ D) /\ raised' <= MaxRaised

NewWatch == [root |-> root, open |-> TRUE, seen |-> {}, plugins |-> {}, content |-> NoBaseline]

\* _known_root_exclude: the baseline, if it is of this root.
KnownExclude == IF known.root = root THEN known ELSE NoBaseline

\* start: _reschedule_missing_watch with snapshot_exclude_after_schedule
Start(D) ==
  /\ job.step = "start" /\ Discovered(D)
  /\ \/ /\ watch' = NewWatch /\ job' = Job("snapshot", D, NoBaseline)
        /\ UNCHANGED refused
     \/ /\ refused < MaxRefused /\ refused' = refused + 1
        /\ job' = Job("refused", D, NoBaseline) /\ UNCHANGED watch
  /\ UNCHANGED <<disk, known, kernel, due, covered>>

\* _cleanup_dead_watches and _rescan_cache_paths, where the root has no watch.
Rescan(D) ==
  /\ job = Idle /\ ~Hearing /\ Discovered(D)
  /\ kernel' = {}
  /\ LET forgotten == IF watch = NoWatch THEN KnownExclude ELSE NoBaseline
     IN /\ known' = forgotten
        /\ \/ /\ watch' = NewWatch /\ job' = Job("scan", D, forgotten)
              /\ UNCHANGED refused
           \/ /\ refused < MaxRefused /\ refused' = refused + 1
              /\ watch' = NoWatch /\ UNCHANGED job
  /\ UNCHANGED <<disk, due, covered>>

\* _backfill_new_contributors, where a plugin was not scanned for.
CatchUp(D) ==
  /\ job = Idle /\ Hearing /\ Discovered(D) /\ ~ D \subseteq watch.plugins
  /\ job' = Job("scan", D, watch.content)
  /\ UNCHANGED <<disk, watch, known, kernel, refused, due, covered>>

-----------------------------------------------------------------------------
(* The walks of a registration, an entry at a time.                        *)

\* Mutant: whatever is there predates the daemon.
StaleUnbounded(a) == TRUE

\* _snapshot_root_baseline's cutoff, which its use as known_content goes without.
Stale(a) == a \in old

Baselined(a) == a # Absent /\ (job.step = "content" \/ Stale(a))

\* _snapshot_root_baseline reads an entry.
Snapshot(p) ==
  /\ job # Idle /\ job.step \in {"snapshot", "refused", "content"} /\ p \in job.todo
  /\ job' = [job EXCEPT !.todo = @ \ {p},
                        !.got = @ \cup {a \in {file[p]} : Baselined(a)}]
  /\ UNCHANGED <<disk, watch, known, kernel, refused, raised, due, covered>>

\* What _backfill_scan leaves out: entries of a complete baseline, unchanged.
Excluded(p) == ~job.exclude.incomplete /\ file[p] \in job.exclude.ids

\* _backfill_scan reads an entry.
Scan(p) ==
  /\ job # Idle /\ job.step = "scan" /\ p \in job.todo
  /\ job' = [job EXCEPT !.todo = @ \ {p}]
  /\ IF file[p] = Absent \/ Excluded(p) \/ Claimed(file[p])
     THEN NotReported /\ UNCHANGED watch
     ELSE Report(p) /\ Claim(file[p])
  /\ UNCHANGED <<disk, known, kernel, refused, raised>>

\* A plugin's glob raises, a snapshot's on each of its retries.
GlobRaises(g) ==
  /\ job # Idle /\ raised < MaxRaised /\ \E p \in job.todo : PluginOf[p] = g
  /\ raised' = raised + 1
  /\ job' = [job EXCEPT !.todo = {p \in @ : PluginOf[p] # g}, !.bad = TRUE]
  /\ UNCHANGED <<disk, watch, known, kernel, refused, due, covered>>

Walked == job # Idle /\ job.todo = {}
Baseline == [root |-> root, ids |-> job.got, incomplete |-> job.bad]

SnapshotDone ==
  /\ Walked /\ job.step \in {"snapshot", "refused"}
  /\ known' = Baseline
  /\ job' = IF job.step = "refused" THEN Idle ELSE Job("scan", job.globs, Baseline)
  /\ UNCHANGED <<disk, watch, kernel, refused, raised, due, covered>>

Trusted(bad) == ~bad

\* A registration keeps its claims open for a while longer; a catch-up has none.
ScanDone ==
  /\ Walked /\ job.step = "scan"
  /\ job' = IF watch.open THEN [job EXCEPT !.step = "grace"]
            ELSE IF Trusted(job.bad) THEN Job("content", job.globs, NoBaseline)
            ELSE Idle
  /\ UNCHANGED <<disk, watch, known, kernel, refused, raised, due, covered>>

\* _BACKFILL_DEDUP_GRACE_SECONDS is longer than the observer takes to hand over
\* what the scan has claimed.
Close ==
  /\ Walked /\ job.step = "grace"
  /\ \A e \in kernel : e.id \notin watch.seen
  /\ watch' = [watch EXCEPT !.open = FALSE, !.seen = {}]
  /\ job' = IF Trusted(job.bad) THEN Job("content", job.globs, NoBaseline) ELSE Idle
  /\ UNCHANGED <<disk, known, kernel, refused, raised, due, covered>>

\* known_content and known_plugins
ContentDone ==
  /\ Walked /\ job.step = "content"
  /\ watch' = [watch EXCEPT !.content = Baseline, !.plugins = @ \cup job.globs]
  /\ job' = Idle
  /\ UNCHANGED <<disk, known, kernel, refused, raised, due, covered>>

-----------------------------------------------------------------------------
Maintain == \E D \in SUBSET Plugins : Start(D) \/ Rescan(D) \/ CatchUp(D)

Walk == \/ \E p \in Paths : Snapshot(p) \/ Scan(p)
        \/ SnapshotDone \/ ScanDone \/ Close \/ ContentDone

Next ==
  \/ \E p \in Paths : Create(p) \/ Delete(p)
  \/ Rebuild
  \/ \E e \in kernel : Dispatch(e)
  \/ Maintain \/ Walk
  \/ \E g \in Plugins : GlobRaises(g)

Spec == Init /\ [][Next]_vars

\* The observer's thread runs, maintenance comes round, and walks end.
FairSpec == Spec /\ WF_vars(\E e \in kernel : Dispatch(e)) /\ WF_vars(Maintain) /\ WF_vars(Walk)

-----------------------------------------------------------------------------
(* Properties.                                                             *)

\* While the root stays and nothing raises, no more events are queued at a path than
\* artifacts were made there since the daemon started: what was there before is not
\* replayed, though its registration was refused and tried again, and no artifact is
\* queued by its live event and by a scan.
\* (_BackfillDedup, _known_cache_roots, _backfill_new_contributors)
NoneReplayed == root = 1 /\ raised = 0 => \A p \in Paths : due[p] >= 0

\* A new artifact that stays is reported in the end: not lost between a snapshot
\* and a watch, behind a refused registration, a rebuild, a raising glob or a
\* plugin that recovers.  (_reschedule_missing_watch, _rescan_cache_paths)
NewIsReported == \A p \in Paths : <>[](file[p] \in covered \cup old \cup {Absent})
=============================================================================
