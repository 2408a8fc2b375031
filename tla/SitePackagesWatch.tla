------------------------- MODULE SitePackagesWatch -------------------------
(***************************************************************************)
(* The site-packages watches of monitors/cache.py, class CacheMonitor.     *)
(*                                                                         *)
(* A watch is bound to a directory's inode and known by (path,             *)
(* generation).  The observer's threads tell the event loop of a deletion  *)
(* or of activity at some later time; _cleanup_dead_watches removes a      *)
(* watch that was deleted, that is bound to another inode, or that has     *)
(* been idle while none of its owning processes runs.  A pid is reused     *)
(* after its process is reaped, and a freed inode after its directory is   *)
(* removed: the n-th process has create_time n and the n-th directory      *)
(* incarnation n, which no two share.                                      *)
(***************************************************************************)
EXTENDS Integers, FiniteSets, FiniteSetsExt

CONSTANTS
  Paths,        \* site-packages directories
  Configured,   \* the paths of WatchConfig.site_packages_dirs
  Pids,         \* process numbers
  Inodes,       \* inode numbers
  MaxProcs,     \* bound: processes started
  MaxDirs,      \* bound: directories made
  MaxFailures,  \* bound: registrations the observer refuses
  MaxWatches    \* bound: generations after which nothing is registered

ASSUME PathsAssumption == Configured \subseteq Paths
ASSUME InodesAssumption == 0 \notin Inodes   \* no directory has inode 0
ASSUME BoundsAssumption == {MaxProcs, MaxDirs, MaxFailures, MaxWatches} \subseteq Nat /\ MaxDirs # 0

Procs == 1 .. MaxProcs
Incs == 1 .. MaxDirs
Gone == [inc |-> 0, ino |-> 0]                     \* no directory
Directories == {Gone} \cup [inc : Incs, ino : Inodes]
NoOwner == [pid |-> 0, time |-> 0]
Owners == [pid : Pids, time : Procs]               \* (pid, create_time)
NoWatch == [gen |-> 0]
NoReg == [path |-> "none"]
Signals == [kind : {"created", "deleted"}, path : Paths, gen : 1 .. MaxWatches]

VARIABLES
  dir,      \* dir[p]: the directory at path p
  away,     \* directories renamed away and not removed
  dirs,     \* directories made so far
  procs,    \* procs[n]: the n-th process: pid, the path it installs into, state
  calls,    \* add_site_packages_watch calls waiting behind queued events
  watch,    \* watch[p]: _site_package_watches[p]
  gens,     \* _next_generation
  reg,      \* the registration between _file_identity and Observer.schedule
  refused,  \* registrations refused so far
  kernel,   \* signals the observer's thread has not handled
  posts,    \* signals handed to the event loop and not yet run
  told,     \* _invalidated_roots and _activity
  todo,     \* configured paths the rescan under way has still to visit
  running   \* whether start() has returned

disk == <<dir, away, dirs>>
vars == <<dir, away, dirs, procs, calls, watch, gens, reg, refused, kernel, posts, told,
          todo, running>>

Procstates == {"unborn", "running", "zombie", "reaped"}
Registration == [path : Paths, ino : Inodes, owner : Owners \cup {NoOwner}, exempt : BOOLEAN]

TypeOK ==
  /\ dir \in [Paths -> Directories] /\ away \subseteq Directories \ {Gone}
  /\ dirs \in 0 .. MaxDirs
  /\ procs \in [Procs -> [pid : Pids \cup {0}, path : Paths, state : Procstates]]
  /\ calls \subseteq [path : Paths, owner : Owners \cup {NoOwner}]
  /\ \A p \in Paths : watch[p] = NoWatch \/
       /\ watch[p].gen \in 1 .. gens /\ watch[p].ino \in Inodes /\ watch[p].bound \in Directories \ {Gone}
       /\ watch[p].owners \subseteq Owners
       /\ {watch[p].idle, watch[p].exempt, watch[p].late} \subseteq BOOLEAN
  /\ gens \in 0 .. MaxWatches /\ refused \in 0 .. MaxFailures
  /\ reg = NoReg \/ reg \in Registration
  /\ kernel \cup posts \cup told \subseteq Signals
  /\ todo \subseteq Configured /\ running \in BOOLEAN

Init ==
  /\ dir \in [Paths -> {Gone} \cup {d \in Directories : d.inc = 1}]
  /\ \E p \in Paths : \A q \in Paths \ {p} : dir[q] = Gone
  /\ away = {} /\ dirs = 1
  /\ procs \in [Procs -> [pid : {0}, path : Paths, state : {"unborn"}]]
  /\ calls = {} /\ watch = [p \in Paths |-> NoWatch] /\ gens = 0
  /\ reg = NoReg /\ refused = 0
  /\ kernel = {} /\ posts = {} /\ told = {}
  /\ todo = Configured /\ running = FALSE

-----------------------------------------------------------------------------
(* The world: processes, directories and the kernel's reports of them.     *)

Owner(n) == [pid |-> procs[n].pid, time |-> n]
Watched(d) == {p \in Paths : watch[p] # NoWatch /\ watch[p].bound = d}
Signal(kind, p) == [kind |-> kind, path |-> p, gen |-> watch[p].gen]

\* A process starts under a free pid.
Start(n, pid) ==
  /\ procs[n].state = "unborn" /\ \A m \in Procs : m < n => procs[m].state # "unborn"
  /\ \A m \in Procs : procs[m].state \in {"running", "zombie"} => procs[m].pid # pid
  /\ procs' = [procs EXCEPT ![n].pid = pid, ![n].state = "running"]
  /\ UNCHANGED <<disk, calls, watch, gens, reg, refused, kernel, posts, told, todo, running>>

\* The process monitor reports it; a create_time it could not read hides the pid.
Observe(n, known) ==
  /\ procs[n].state = "running" /\ running
  /\ calls' = calls \cup {[path |-> procs[n].path,
                           owner |-> IF known THEN Owner(n) ELSE NoOwner]}
  /\ UNCHANGED <<disk, procs, watch, gens, reg, refused, kernel, posts, told, todo, running>>

\* It writes an artifact into the directory at its path.
Write(n) ==
  /\ procs[n].state = "running" /\ dir[procs[n].path] # Gone
  /\ kernel' = kernel \cup {Signal("created", p) : p \in Watched(dir[procs[n].path])}
  /\ UNCHANGED <<disk, procs, calls, watch, gens, reg, refused, posts, told, todo, running>>

Exit(n) ==
  /\ procs[n].state = "running"
  /\ procs' = [procs EXCEPT ![n].state = "zombie"]
  /\ UNCHANGED <<disk, calls, watch, gens, reg, refused, kernel, posts, told, todo, running>>

\* Its parent reaps it, if ever.
Reap(n) ==
  /\ procs[n].state = "zombie"
  /\ procs' = [procs EXCEPT ![n].state = "reaped"]
  /\ UNCHANGED <<disk, calls, watch, gens, reg, refused, kernel, posts, told, todo, running>>

\* The inode of a removed directory is free for the next one made.
Mkdir(p, ino) ==
  /\ dir[p] = Gone /\ dirs < MaxDirs
  /\ \A d \in away \cup {dir[q] : q \in Paths} : d.ino # ino
  /\ dir' = [dir EXCEPT ![p] = [inc |-> dirs + 1, ino |-> ino]] /\ dirs' = dirs + 1
  /\ UNCHANGED <<away, procs, calls, watch, gens, reg, refused, kernel, posts, told, todo, running>>

\* IN_DELETE_SELF goes to whoever watches the inode.
Removed(d) == kernel' = kernel \cup {Signal("deleted", p) : p \in Watched(d)}

Rmdir(p) ==
  /\ dir[p] # Gone
  /\ dir' = [dir EXCEPT ![p] = Gone] /\ Removed(dir[p])
  /\ UNCHANGED <<away, dirs, procs, calls, watch, gens, reg, refused, posts, told, todo, running>>

\* A rename is reported to nobody.
Rename(p) ==
  /\ dir[p] # Gone
  /\ away' = away \cup {dir[p]} /\ dir' = [dir EXCEPT ![p] = Gone]
  /\ UNCHANGED <<dirs, procs, calls, watch, gens, reg, refused, kernel, posts, told, todo, running>>

RmdirAway(d) ==
  /\ d \in away
  /\ away' = away \ {d} /\ Removed(d)
  /\ UNCHANGED <<dir, dirs, procs, calls, watch, gens, reg, refused, posts, told, todo, running>>

\* Five minutes pass with no activity the watch was told of.
Elapse(p) ==
  /\ watch[p] # NoWatch /\ ~watch[p].idle
  /\ watch' = [watch EXCEPT ![p].idle = TRUE]
  /\ UNCHANGED <<disk, procs, calls, gens, reg, refused, kernel, posts, told, todo, running>>

-----------------------------------------------------------------------------
(* The observer's threads and the event loop's queues.                     *)

\* The observer keeps its handlers by ObservedWatch, equal for equal paths: what a watch
\* that was unscheduled had queued reaches the handler of a later watch of its path, which
\* posts its own generation.
Handled(s) ==
  IF watch[s.path] = NoWatch THEN {} ELSE {[s EXCEPT !.gen = watch[s.path].gen]}

\* What the emitter of the unscheduled watch had not queued is lost with it.
Dispatch(s) ==
  /\ s \in kernel
  /\ kernel' = kernel \ {s}
  /\ \/ posts' = posts \cup Handled(s)
     \/ watch[s.path].gen # s.gen /\ posts' = posts
  /\ UNCHANGED <<disk, procs, calls, watch, gens, reg, refused, told, todo, running>>

Deliver(s) ==
  /\ s \in posts /\ reg = NoReg
  /\ posts' = posts \ {s} /\ told' = told \cup {s}
  /\ UNCHANGED <<disk, procs, calls, watch, gens, reg, refused, kernel, todo, running>>

-----------------------------------------------------------------------------
(* The monitor, on the event loop.                                         *)

\* Mutant: any process under the number will do, dead or alive.
StillRunningByPid(o) ==
  \E n \in Procs : procs[n].state \in {"running", "zombie"} /\ procs[n].pid = o.pid

\* _pid_still_running: the same process, and not a zombie.
StillRunning(o) == procs[o.time].state = "running" /\ procs[o.time].pid = o.pid

\* _resolve_owning_pid: the owner to record, if it still runs.
Resolved(o) == {x \in {o} \ {NoOwner} : StillRunning(x)}

Told(kind, p) == [kind |-> kind, path |-> p, gen |-> watch[p].gen] \in told

\* _apply_activity and _prune_dead_owners
Refreshed(p) == [watch[p] EXCEPT !.idle = @ /\ ~Told("created", p),
                                 !.owners = {o \in @ : StillRunning(o)}]

\* _is_idle_expired
Expired(p) == ~watch[p].exempt /\ Refreshed(p).idle /\ Refreshed(p).owners = {}

\* _still_watching: the path has the inode the watch was registered with.
StillWatching(p) == dir[p].ino = watch[p].ino

\* Mutants: without the deletion events, without the inode, with a deletion of any
\* generation.
DeadByInode(p) == ~StillWatching(p) \/ Expired(p)
DeadByEvent(p) == Told("deleted", p) \/ Expired(p)
DeadByPath(p) ==
  \/ \E s \in told : s.kind = "deleted" /\ s.path = p
  \/ ~StillWatching(p) \/ Expired(p)

\* What _cleanup_dead_watches removes.
Dead(p) == Told("deleted", p) \/ ~StillWatching(p) \/ Expired(p)

\* _cleanup_dead_watches.  Owners are pruned only where idleness is asked for.
Cleaned == [p \in Paths |->
  IF watch[p] = NoWatch \/ Dead(p) THEN NoWatch
  ELSE IF watch[p].exempt THEN [Refreshed(p) EXCEPT !.owners = watch[p].owners]
  ELSE Refreshed(p)]

\* _schedule_watch, to the reading of the identity.
Begin(p, owner, exempt) ==
  reg' = [path |-> p, ino |-> dir[p].ino, owner |-> owner, exempt |-> exempt]

\* add_site_packages_watch
AddWatch(c) ==
  /\ running /\ reg = NoReg /\ c \in calls
  /\ calls' = calls \ {c}
  /\ \/ /\ dir[c.path] = Gone
        /\ UNCHANGED <<watch, told, reg>>
     \/ /\ dir[c.path] # Gone /\ Cleaned[c.path] = NoWatch /\ gens < MaxWatches
        /\ watch' = Cleaned /\ told' = {} /\ Begin(c.path, c.owner, FALSE)
     \/ /\ dir[c.path] # Gone /\ Cleaned[c.path] # NoWatch
        /\ watch' = [Cleaned EXCEPT ![c.path].owners = @ \cup Resolved(c.owner),
                                    ![c.path].idle = FALSE]
        /\ told' = {} /\ reg' = NoReg
  /\ UNCHANGED <<disk, procs, gens, refused, kernel, posts, todo, running>>

\* _run_maintenance_if_due: the cleanup, with which a rescan begins.
Maintain ==
  /\ running /\ reg = NoReg /\ todo = {}
  /\ watch' = Cleaned /\ told' = {} /\ todo' = Configured
  /\ UNCHANGED <<disk, procs, calls, gens, reg, refused, kernel, posts, running>>

\* start and _rescan_cache_paths: each configured path, the loop running between.
Rescan(p) ==
  /\ reg = NoReg /\ p \in todo
  /\ todo' = todo \ {p}
  /\ \/ /\ watch[p] = NoWatch /\ dir[p] # Gone /\ gens < MaxWatches
        /\ Begin(p, NoOwner, TRUE)
     \/ /\ watch[p] # NoWatch \/ dir[p] = Gone
        /\ reg' = NoReg
  /\ UNCHANGED <<disk, procs, calls, watch, gens, refused, kernel, posts, told, running>>

Running ==
  /\ ~running /\ todo = {} /\ reg = NoReg
  /\ running' = TRUE
  /\ UNCHANGED <<disk, procs, calls, watch, gens, reg, refused, kernel, posts, told, todo>>

\* A deletion of what was watched before is still in the observer's queue.  (No state of
\* the code: what HealthyIsSpared asks of the past.)
Late(p) == \E s \in kernel : s.kind = "deleted" /\ s.path = p

\* _schedule_watch, from Observer.schedule: the watch binds to what is there now.
Schedule ==
  /\ reg # NoReg /\ dir[reg.path] # Gone
  /\ gens' = gens + 1
  /\ watch' = [watch EXCEPT ![reg.path] =
       [gen |-> gens + 1, ino |-> reg.ino, bound |-> dir[reg.path],
        owners |-> Resolved(reg.owner), idle |-> FALSE, exempt |-> reg.exempt,
        late |-> Late(reg.path)]]
  /\ reg' = NoReg
  /\ UNCHANGED <<disk, procs, calls, refused, kernel, posts, told, todo, running>>

\* ENOSPC, or a directory that has vanished.
ScheduleFails ==
  /\ reg # NoReg
  /\ \/ dir[reg.path] = Gone /\ refused' = refused
     \/ dir[reg.path] # Gone /\ refused < MaxFailures /\ refused' = refused + 1
  /\ reg' = NoReg
  /\ UNCHANGED <<disk, procs, calls, watch, gens, kernel, posts, told, todo, running>>

-----------------------------------------------------------------------------
World ==
  \/ \E n \in Procs : \/ \E pid \in Pids : Start(n, pid)
                      \/ Exit(n) \/ Reap(n) \/ Write(n)
                      \/ \E known \in BOOLEAN : Observe(n, known)
  \/ \E p \in Paths : Rmdir(p) \/ Rename(p) \/ (\E ino \in Inodes : Mkdir(p, ino))
  \/ \E d \in away : RmdirAway(d)

Observer == \E s \in kernel : Dispatch(s)

Loop ==
  \/ \E s \in posts : Deliver(s)
  \/ \E c \in calls : AddWatch(c)
  \/ \E p \in Paths : Rescan(p)
  \/ Maintain \/ Running \/ Schedule \/ ScheduleFails

Next == World \/ Observer \/ Loop \/ \E p \in Paths : Elapse(p)

Spec == Init /\ [][Next]_vars

\* Time passes, processes end, the observer's threads run, and the event loop
\* takes each of its turns.
Fairness ==
  /\ WF_vars(\E p \in Paths : Elapse(p)) /\ WF_vars(\E n \in Procs : Exit(n))
  /\ WF_vars(Observer \/ \E s \in posts : Deliver(s))
  /\ WF_vars(\/ \E p \in Paths : Rescan(p)
             \/ \E c \in calls : AddWatch(c)
             \/ Running \/ Schedule \/ ScheduleFails)
  /\ SF_vars(Maintain)

FairSpec == Spec /\ Fairness

-----------------------------------------------------------------------------
(* Properties.                                                             *)

\* What the watch is bound to is at its path, under the inode it was given.
Healthy(p) == watch[p].bound = dir[p] /\ watch[p].ino = dir[p].ino

Installing(p) == \E o \in watch[p].owners : StillRunning(o)

\* A watch bound to the directory at its path is removed only when it has been
\* idle while none of its installers ran: not by the exit of one of two installers,
\* and not by a deletion that was on its way to the event loop when it was registered,
\* which is of an earlier generation.  One that was still in the observer's queue then
\* may reach its own handler: the race on equal watches that the code knows of.
\* (_cleanup_dead_watches, _Handler.on_deleted, _SITE_PACKAGES_WATCH_IDLE_SECONDS)
HealthyIsSpared == [][\A p \in Paths :
  watch[p] # NoWatch /\ watch'[p].gen # watch[p].gen /\ Healthy(p)
    => watch[p].late \/ (watch[p].idle /\ ~Installing(p))]_vars

\* A watch whose directory has gone is found out: it is under another inode, or
\* the deletion is on its way to _invalidated_roots.  An inode handed out again
\* hides it from _still_watching alone.  (A directory replaced between the two steps
\* of its registration is the exception.)  (_Handler.on_deleted, _still_watching)
DeafIsFoundOut == \A p \in Paths :
  watch[p] # NoWatch /\ watch[p].bound # dir[p] =>
    \/ watch[p].ino # dir[p].ino \/ watch[p].ino # watch[p].bound.ino
    \/ Signal("deleted", p) \in kernel \cup posts \cup told

\* The owner a watch is kept for is the process that was seen to install there,
\* and not another that was given its pid while the event was queued.
\* (_resolve_owning_pid)
OwnersInstallHere == \A p \in Paths : watch[p] # NoWatch =>
  \A o \in watch[p].owners : procs[o.time].path = p /\ procs[o.time].pid = o.pid

\* A watch that was added for an install goes again, although a pid of its owners
\* is held by another process or a zombie for ever.  (_is_idle_expired)
IdleIsReclaimed == \A p \in Paths \ Configured : []<>(watch[p] = NoWatch)

\* A configured directory that stays is in the end watched, after rebuilds,
\* renames and refused registrations, unless the model has run out of generations.
\* (_rescan_cache_paths)
ConfiguredIsWatched == \A p \in Configured :
  []<>(\/ dir[p] = Gone \/ gens = MaxWatches
       \/ watch[p] # NoWatch /\ watch[p].bound = dir[p])

\* A watch is of the directory at its path and of the installers that were seen
\* there, or it is found out.
WatchesAreTrue == DeafIsFoundOut /\ OwnersInstallHere
=============================================================================
