----------------------- MODULE SitePackagesWatchProofs -----------------------
(***************************************************************************)
(* Theorems about SitePackagesWatch: for any directories, configured or    *)
(* not, processes, inodes and refusals, a watch is of the directory at its *)
(* path and of those that install there, or it is found out, and a sound   *)
(* one is left alone.  And about SnapshotRestore: for a tree of any depth, *)
(* what the restoration of an install target does not put back has been    *)
(* named, and what can be written is put back.                             *)
(***************************************************************************)
EXTENDS SitePackagesWatch, SnapshotRestore, WellFoundedInduction, TLAPS

Watches == [gen : 1 .. MaxWatches, ino : Inodes, bound : Directories \ {Gone}, owners : SUBSET Owners,
            idle : BOOLEAN, exempt : BOOLEAN, late : BOOLEAN]

Typed ==
  /\ dir \in [Paths -> Directories] /\ away \subseteq Directories \ {Gone} /\ dirs \in 0 .. MaxDirs
  /\ procs \in [Procs -> [pid : Pids \cup {0}, path : Paths, state : Procstates]]
  /\ calls \subseteq [path : Paths, owner : Owners \cup {NoOwner}]
  /\ watch \in [Paths -> {NoWatch} \cup Watches]
  /\ gens \in 0 .. MaxWatches /\ refused \in 0 .. MaxFailures
  /\ reg # NoReg => reg \in Registration
  /\ kernel \subseteq Signals /\ posts \subseteq Signals /\ told \subseteq Signals
  /\ todo \subseteq Configured /\ running \in BOOLEAN

\* A path is without a watch while one is being registered for it.
Registering == reg # NoReg => watch[reg.path] = NoWatch /\ gens < MaxWatches

\* Directories that exist are told apart by their inodes and by their paths ...
Live == (away \cup {dir[p] : p \in Paths}) \ {Gone}

Apart ==
  /\ \A d, e \in Live : d.ino = e.ino => d = e
  /\ \A p, q \in Paths : dir[p] # Gone /\ dir[p] = dir[q] => p = q
  /\ \A p \in Paths : dir[p] \notin away

\* ... and were made before those to come, as were those that are watched.
DirsNumbered == \A d \in Live : d.inc <= dirs
WatchesNumbered == \A p \in Paths : watch[p] # NoWatch =>
  watch[p].bound.inc <= dirs /\ watch[p].gen <= gens
SignalsNumbered == \A s \in kernel \cup posts \cup told : s.gen <= gens

Numbered == DirsNumbered /\ WatchesNumbered /\ SignalsNumbered

\* The deletion of what a watch is bound to is on its way to it; and nothing else is, nor is
\* there anything in the observer's queue that its handler may take for it, unless the watch
\* was registered while the deletion of an earlier directory was in that queue.
Pending == kernel \cup posts \cup told

ReachesIt(p) == watch[p].bound \notin Live => Signal("deleted", p) \in Pending
ItsOwn(p) == watch[p].bound \in Live => Signal("deleted", p) \notin Pending
NoOther(p) == \A s \in kernel : s.kind = "deleted" /\ s.path = p => s.gen = watch[p].gen

Reported == \A p \in Paths : watch[p] # NoWatch =>
  ReachesIt(p) /\ (watch[p].late \/ (ItsOwn(p) /\ NoOther(p)))

\* Whoever a watch is kept for, or is to be, is a process that was seen to install there.
Seen(o, p) == procs[o.time].path = p /\ procs[o.time].pid = o.pid /\ procs[o.time].state # "unborn"

Known ==
  /\ \A n \in Procs : procs[n].state # "unborn" => procs[n].pid \in Pids
  /\ \A c \in calls : c.owner # NoOwner => Seen(c.owner, c.path)
  /\ reg # NoReg /\ reg.owner # NoOwner => Seen(reg.owner, reg.path)
  /\ \A p \in Paths : watch[p] # NoWatch => \A o \in watch[p].owners : Seen(o, p)

Inv == Typed /\ Registering /\ Apart /\ Numbered /\ Reported /\ Known

LEMMA DirectoriesAre ==
  /\ \A p \in Paths : Typed => dir[p] \in Directories
  /\ \A d \in Directories \ {Gone} : d.inc \in Incs /\ d.ino \in Inodes
  /\ Gone.ino = 0 /\ Gone.inc = 0 /\ 0 \notin Incs
  /\ \A n \in Incs, i \in Inodes : [inc |-> n, ino |-> i] \in Directories \ {Gone}
  BY DEF Directories, Gone, Typed, Incs

LEMMA WatchesAre ==
  /\ NoWatch \notin Watches
  /\ \A w \in Watches : /\ w.gen \in 1 .. MaxWatches /\ w.ino \in Inodes
                        /\ w.bound \in Directories \ {Gone}
                        /\ w.owners \subseteq Owners /\ w.idle \in BOOLEAN /\ w.exempt \in BOOLEAN
                        /\ w.late \in BOOLEAN
<1>1. NoWatch.gen = 0
  BY DEF NoWatch
<1>2. \A w \in Watches : w.gen # 0
  BY DEF Watches
<1>3. NoWatch \notin Watches
  BY <1>1, <1>2
<1> QED
  BY <1>3 DEF Watches

LEMMA RegisteredIs ==
  ASSUME Typed, reg # NoReg
  PROVE  /\ reg.path \in Paths /\ reg.ino \in Inodes /\ reg.owner \in Owners \cup {NoOwner}
         /\ reg.exempt \in BOOLEAN
  BY DEF Typed, Registration

\* A cleanup leaves a watch alone or removes it, and what it leaves is not dead.
SameWatch(w, v) ==
  w.gen = v.gen /\ w.ino = v.ino /\ w.bound = v.bound /\ w.late = v.late /\ w.owners \subseteq v.owners

LEMMA CleanedWatches ==
  ASSUME Typed
  PROVE  /\ Cleaned \in [Paths -> {NoWatch} \cup Watches]
         /\ \A p \in Paths : Cleaned[p] # NoWatch =>
              watch[p] # NoWatch /\ ~Dead(p) /\ SameWatch(Cleaned[p], watch[p])
<1>1. SUFFICES ASSUME NEW p \in Paths
               PROVE  /\ Cleaned[p] \in {NoWatch} \cup Watches
                      /\ Cleaned[p] # NoWatch =>
                           watch[p] # NoWatch /\ ~Dead(p) /\ SameWatch(Cleaned[p], watch[p])
  BY DEF Cleaned
<1>2. CASE watch[p] = NoWatch \/ Dead(p)
  BY <1>2 DEF Cleaned
<1>3. CASE watch[p] # NoWatch /\ ~Dead(p)
  <2>1. watch[p] \in Watches
    BY <1>3 DEF Typed
  <2>2. Refreshed(p) \in Watches /\ SameWatch(Refreshed(p), watch[p])
    BY <2>1 DEF Refreshed, Watches, SameWatch
  <2>3. [Refreshed(p) EXCEPT !.owners = watch[p].owners] \in Watches
    BY <2>1, <2>2 DEF Watches
  <2>4. SameWatch([Refreshed(p) EXCEPT !.owners = watch[p].owners], watch[p])
    BY <2>1, <2>2 DEF Watches, SameWatch
  <2> QED
    BY <1>3, <2>2, <2>3, <2>4 DEF Cleaned
<1> QED
  BY <1>2, <1>3

LEMMA ResolvedAre == ASSUME NEW o PROVE Resolved(o) \subseteq {o} \ {NoOwner}
  BY DEF Resolved

LEMMA SignalsAre ==
  ASSUME Typed, NEW p \in Paths, watch[p] # NoWatch, NEW kind \in {"created", "deleted"}
  PROVE  Signal(kind, p) \in Signals
  BY WatchesAre DEF Typed, Signal, Signals

LEMMA OwnerIs ==
  ASSUME Typed, Known, NEW n \in Procs, procs[n].state # "unborn"
  PROVE  Owner(n) \in Owners /\ Owner(n).time = n /\ Owner(n).pid = procs[n].pid
  BY DEF Known, Owner, Owners, Typed

\* What a handler posts is of the watch that is at its path.
LEMMA HandledAre ==
  ASSUME Typed, NEW s \in kernel, NEW t \in Handled(s)
  PROVE  /\ t \in Signals /\ t.kind = s.kind /\ t.path = s.path
         /\ watch[s.path] # NoWatch /\ t.gen = watch[s.path].gen
         /\ s.gen = watch[s.path].gen => t = s
<1>1. s \in Signals
  BY DEF Typed
<1>2. watch[s.path] # NoWatch /\ t = [s EXCEPT !.gen = watch[s.path].gen]
  BY DEF Handled
<1>3. watch[s.path].gen \in 1 .. MaxWatches
  BY <1>1, <1>2, WatchesAre DEF Typed, Signals
<1> QED
  BY <1>1, <1>2, <1>3 DEF Signals

LEMMA TypeNext ==
  ASSUME Typed, Registering, Known, [Next]_vars
  PROVE  Typed'
<1>1. ASSUME NEW n \in Procs, NEW pid \in Pids, Start(n, pid) PROVE Typed'
  <2>1. procs' \in [Procs -> [pid : Pids \cup {0}, path : Paths, state : Procstates]]
    BY <1>1 DEF Start, Typed, Procstates
  <2> QED
    BY <1>1, <2>1 DEF Start, disk, Typed
<1>2. ASSUME NEW n \in Procs, Exit(n) PROVE Typed'
  <2>1. procs' \in [Procs -> [pid : Pids \cup {0}, path : Paths, state : Procstates]]
    BY <1>2 DEF Exit, Typed, Procstates
  <2> QED
    BY <1>2, <2>1 DEF Exit, disk, Typed
<1>3. ASSUME NEW n \in Procs, Reap(n) PROVE Typed'
  <2>1. procs' \in [Procs -> [pid : Pids \cup {0}, path : Paths, state : Procstates]]
    BY <1>3 DEF Reap, Typed, Procstates
  <2> QED
    BY <1>3, <2>1 DEF Reap, disk, Typed
<1>4. ASSUME NEW n \in Procs, Write(n) PROVE Typed'
  <2>1. kernel' \subseteq Signals
    BY <1>4, SignalsAre DEF Write, Watched, Typed
  <2> QED
    BY <1>4, <2>1 DEF Write, disk, Typed
<1>5. ASSUME NEW n \in Procs, NEW known \in BOOLEAN, Observe(n, known) PROVE Typed'
  <2>1. calls' \subseteq [path : Paths, owner : Owners \cup {NoOwner}]
    BY <1>5, OwnerIs DEF Observe, Typed
  <2> QED
    BY <1>5, <2>1 DEF Observe, disk, Typed
<1>6. ASSUME NEW p \in Paths, Rmdir(p) PROVE Typed'
  <2>1. Gone \in Directories
    BY <1>6 DEF Directories
  <2>2. dir' \in [Paths -> Directories]
    BY <1>6, <2>1 DEF Rmdir, Typed
  <2>3. kernel' \subseteq Signals
    BY <1>6, SignalsAre DEF Rmdir, Removed, Watched, Typed
  <2> QED
    BY <1>6, <2>1, <2>2, <2>3 DEF Rmdir, disk, Typed
<1>7. ASSUME NEW p \in Paths, Rename(p) PROVE Typed'
  <2>1. Gone \in Directories
    BY <1>7 DEF Directories
  <2>2. dir' \in [Paths -> Directories] /\ away' \subseteq Directories \ {Gone}
    BY <1>7, <2>1 DEF Rename, Typed
  <2> QED
    BY <1>7, <2>1, <2>2 DEF Rename, disk, Typed
<1>8. ASSUME NEW p \in Paths, NEW ino \in Inodes, Mkdir(p, ino) PROVE Typed'
  <2>1. dirs + 1 \in Incs /\ dirs + 1 \in 0 .. MaxDirs
    BY <1>8, BoundsAssumption DEF Mkdir, Typed, Incs
  <2>2. dir' \in [Paths -> Directories]
    BY <1>8, <2>1, DirectoriesAre DEF Mkdir, Typed
  <2> QED
    BY <1>8, <2>1, <2>2 DEF Mkdir, disk, Typed
<1>9. ASSUME NEW d \in away, RmdirAway(d) PROVE Typed'
  <2>1. kernel' \subseteq Signals
    BY <1>9, SignalsAre DEF RmdirAway, Removed, Watched, Typed
  <2> QED
    BY <1>9, <2>1 DEF RmdirAway, disk, Typed
<1>10. ASSUME NEW s \in kernel, Dispatch(s) PROVE Typed'
  <2>1. posts' \subseteq Signals
    BY <1>10, HandledAre DEF Dispatch, Typed
  <2> QED
    BY <1>10, <2>1 DEF Dispatch, disk, Typed
<1>11. ASSUME NEW s \in posts, Deliver(s) PROVE Typed'
  BY <1>11
     DEF Deliver, disk, Typed
<1>12. ASSUME NEW c \in calls, AddWatch(c) PROVE Typed'
  <2>1. c.path \in Paths /\ c.owner \in Owners \cup {NoOwner}
    BY DEF Typed
  <2>2. dir[c.path] # Gone => [path |-> c.path, ino |-> dir[c.path].ino, owner |-> c.owner, exempt |-> FALSE] \in Registration
    <3>1. dir[c.path] # Gone => dir[c.path].ino \in Inodes
      BY <2>1, DirectoriesAre
    <3> QED
      BY <2>1, <3>1 DEF Registration
  <2>3. reg' # NoReg => reg' \in Registration
    BY <1>12, <2>2 DEF AddWatch, Begin, Typed
  <2>4. ASSUME Cleaned[c.path] # NoWatch
        PROVE  [Cleaned EXCEPT ![c.path].owners = @ \cup Resolved(c.owner), ![c.path].idle = FALSE]
                 \in [Paths -> {NoWatch} \cup Watches]
    <3>1. Cleaned[c.path] \in Watches /\ Resolved(c.owner) \subseteq Owners
      BY <2>1, <2>4, CleanedWatches, ResolvedAre
    <3>2. [Cleaned[c.path] EXCEPT !.owners = @ \cup Resolved(c.owner)] \in Watches
      BY <3>1 DEF Watches
    <3>3. [[Cleaned[c.path] EXCEPT !.owners = @ \cup Resolved(c.owner)] EXCEPT !.idle = FALSE] \in Watches
      BY <3>2 DEF Watches
    <3> QED
      BY <2>1, <3>3, CleanedWatches
  <2>5. watch' \in [Paths -> {NoWatch} \cup Watches]
    BY <1>12, <2>4, CleanedWatches DEF AddWatch, Typed
  <2>6. told' \subseteq Signals /\ calls' \subseteq calls
    BY <1>12 DEF AddWatch, Typed
  <2> QED
    BY <1>12, <2>3, <2>5, <2>6 DEF AddWatch, disk, Typed
<1>13. ASSUME NEW p \in Paths, Rescan(p) PROVE Typed'
  <2>1. dir[p] # Gone => dir[p].ino \in Inodes
    BY DirectoriesAre
  <2>2. dir[p] # Gone => [path |-> p, ino |-> dir[p].ino, owner |-> NoOwner, exempt |-> TRUE] \in Registration
    BY <2>1 DEF Registration
  <2>3. reg' # NoReg => reg' \in Registration
    BY <1>13, <2>2 DEF Rescan, Begin
  <2> QED
    BY <1>13, <2>3 DEF Rescan, disk, Typed
<1>14. ASSUME Maintain PROVE Typed'
  <2>1. watch' \in [Paths -> {NoWatch} \cup Watches]
    BY <1>14, CleanedWatches DEF Maintain
  <2> QED
    BY <1>14, <2>1 DEF Maintain, disk, Typed
<1>15. ASSUME Running PROVE Typed'
  BY <1>15
     DEF Running, disk, Typed
<1>16. ASSUME Schedule PROVE Typed'
  <2>1. gens + 1 \in 1 .. MaxWatches /\ gens + 1 \in 0 .. MaxWatches
    BY <1>16, BoundsAssumption DEF Schedule, Registering, Typed
  <2>2. [gen |-> gens + 1, ino |-> reg.ino, bound |-> dir[reg.path], owners |-> Resolved(reg.owner),
         idle |-> FALSE, exempt |-> reg.exempt, late |-> Late(reg.path)] \in Watches
    BY <1>16, <2>1, RegisteredIs, ResolvedAre, DirectoriesAre DEF Schedule, Watches, Late
  <2>3. watch' \in [Paths -> {NoWatch} \cup Watches]
    BY <1>16, <2>2 DEF Schedule, Typed
  <2> QED
    BY <1>16, <2>1, <2>2, <2>3 DEF Schedule, disk, Typed
<1>17. ASSUME ScheduleFails PROVE Typed'
  <2>1. refused' \in 0 .. MaxFailures
    BY <1>17, BoundsAssumption DEF ScheduleFails, Typed
  <2> QED
    BY <1>17, <2>1 DEF ScheduleFails, disk, Typed
<1>18. ASSUME NEW p \in Paths, Elapse(p) PROVE Typed'
  <2>1. [watch[p] EXCEPT !.idle = TRUE] \in Watches
    BY <1>18 DEF Elapse, Typed, Watches
  <2>2. watch' \in [Paths -> {NoWatch} \cup Watches]
    BY <1>18, <2>1 DEF Elapse, Typed
  <2> QED
    BY <1>18, <2>1, <2>2 DEF Elapse, disk, Typed
<1>19. ASSUME UNCHANGED vars PROVE Typed'
  BY <1>19 DEF vars, disk, Typed
<1> QED
  BY <1>1, <1>2, <1>3, <1>4, <1>5, <1>6, <1>7, <1>8, <1>9, <1>10, <1>11, <1>12, <1>13,
        <1>14, <1>15, <1>16, <1>17, <1>18, <1>19 DEF Next, World, Observer, Loop

LEMMA RegisteringNext ==
  ASSUME Typed, Registering, [Next]_vars
  PROVE  Registering'
<1>1. ASSUME NEW n \in Procs, NEW pid \in Pids, Start(n, pid) PROVE Registering'
  BY <1>1, WatchesAre, RegisteredIs
     DEF Start, disk, Registering, Typed
<1>2. ASSUME NEW n \in Procs, Exit(n) PROVE Registering'
  BY <1>2, WatchesAre, RegisteredIs
     DEF Exit, disk, Registering, Typed
<1>3. ASSUME NEW n \in Procs, Reap(n) PROVE Registering'
  BY <1>3, WatchesAre, RegisteredIs
     DEF Reap, disk, Registering, Typed
<1>4. ASSUME NEW n \in Procs, Write(n) PROVE Registering'
  BY <1>4, WatchesAre, RegisteredIs
     DEF Write, disk, Registering, Typed
<1>5. ASSUME NEW n \in Procs, NEW known \in BOOLEAN, Observe(n, known) PROVE Registering'
  BY <1>5, WatchesAre, RegisteredIs
     DEF Observe, disk, Registering, Typed
<1>6. ASSUME NEW p \in Paths, Rmdir(p) PROVE Registering'
  BY <1>6, WatchesAre, RegisteredIs
     DEF Rmdir, Removed, Registering, Typed
<1>7. ASSUME NEW p \in Paths, Rename(p) PROVE Registering'
  BY <1>7, WatchesAre, RegisteredIs
     DEF Rename, Registering, Typed
<1>8. ASSUME NEW p \in Paths, NEW ino \in Inodes, Mkdir(p, ino) PROVE Registering'
  BY <1>8, WatchesAre, RegisteredIs
     DEF Mkdir, Registering, Typed
<1>9. ASSUME NEW d \in away, RmdirAway(d) PROVE Registering'
  BY <1>9, WatchesAre, RegisteredIs
     DEF RmdirAway, Removed, Registering, Typed
<1>10. ASSUME NEW s \in kernel, Dispatch(s) PROVE Registering'
  BY <1>10, WatchesAre, RegisteredIs
     DEF Dispatch, disk, Registering, Typed
<1>11. ASSUME NEW s \in posts, Deliver(s) PROVE Registering'
  BY <1>11, WatchesAre, RegisteredIs
     DEF Deliver, disk, Registering, Typed
<1>12. ASSUME NEW c \in calls, AddWatch(c) PROVE Registering'
  BY <1>12, WatchesAre, RegisteredIs
     DEF AddWatch, Begin, disk, Registering, Typed
<1>13. ASSUME NEW p \in Paths, Rescan(p) PROVE Registering'
  BY <1>13, WatchesAre, RegisteredIs
     DEF Rescan, Begin, disk, Registering, Typed
<1>14. ASSUME Maintain PROVE Registering'
  BY <1>14, WatchesAre, RegisteredIs
     DEF Maintain, disk, Registering, Typed
<1>15. ASSUME Running PROVE Registering'
  BY <1>15, WatchesAre, RegisteredIs
     DEF Running, disk, Registering, Typed
<1>16. ASSUME Schedule PROVE Registering'
  BY <1>16, WatchesAre, RegisteredIs
     DEF Schedule, disk, Registering, Typed
<1>17. ASSUME ScheduleFails PROVE Registering'
  BY <1>17, WatchesAre, RegisteredIs
     DEF ScheduleFails, disk, Registering, Typed
<1>18. ASSUME NEW p \in Paths, Elapse(p) PROVE Registering'
  BY <1>18, WatchesAre, RegisteredIs
     DEF Elapse, disk, Registering, Typed
<1>19. ASSUME UNCHANGED vars PROVE Registering'
  BY <1>19 DEF vars, disk, Registering, Typed
<1> QED
  BY <1>1, <1>2, <1>3, <1>4, <1>5, <1>6, <1>7, <1>8, <1>9, <1>10, <1>11, <1>12, <1>13,
        <1>14, <1>15, <1>16, <1>17, <1>18, <1>19 DEF Next, World, Observer, Loop

LEMMA ApartNext ==
  ASSUME Typed, Apart, [Next]_vars
  PROVE  Apart'
<1>1. ASSUME NEW n \in Procs, NEW pid \in Pids, Start(n, pid) PROVE Apart'
  BY <1>1, DirectoriesAre, InodesAssumption
     DEF Start, disk, Apart, Live, Typed
<1>2. ASSUME NEW n \in Procs, Exit(n) PROVE Apart'
  BY <1>2, DirectoriesAre, InodesAssumption
     DEF Exit, disk, Apart, Live, Typed
<1>3. ASSUME NEW n \in Procs, Reap(n) PROVE Apart'
  BY <1>3, DirectoriesAre, InodesAssumption
     DEF Reap, disk, Apart, Live, Typed
<1>4. ASSUME NEW n \in Procs, Write(n) PROVE Apart'
  BY <1>4, DirectoriesAre, InodesAssumption
     DEF Write, disk, Apart, Live, Typed
<1>5. ASSUME NEW n \in Procs, NEW known \in BOOLEAN, Observe(n, known) PROVE Apart'
  BY <1>5, DirectoriesAre, InodesAssumption
     DEF Observe, disk, Apart, Live, Typed
<1>6. ASSUME NEW p \in Paths, Rmdir(p) PROVE Apart'
  BY <1>6, DirectoriesAre, InodesAssumption
     DEF Rmdir, Removed, Apart, Live, Typed
<1>7. ASSUME NEW p \in Paths, Rename(p) PROVE Apart'
  BY <1>7, DirectoriesAre, InodesAssumption
     DEF Rename, Apart, Live, Typed
<1>8. ASSUME NEW p \in Paths, NEW ino \in Inodes, Mkdir(p, ino) PROVE Apart'
  BY <1>8, DirectoriesAre, InodesAssumption
     DEF Mkdir, Apart, Live, Typed
<1>9. ASSUME NEW d \in away, RmdirAway(d) PROVE Apart'
  BY <1>9, DirectoriesAre, InodesAssumption
     DEF RmdirAway, Removed, Apart, Live, Typed
<1>10. ASSUME NEW s \in kernel, Dispatch(s) PROVE Apart'
  BY <1>10, DirectoriesAre, InodesAssumption
     DEF Dispatch, disk, Apart, Live, Typed
<1>11. ASSUME NEW s \in posts, Deliver(s) PROVE Apart'
  BY <1>11, DirectoriesAre, InodesAssumption
     DEF Deliver, disk, Apart, Live, Typed
<1>12. ASSUME NEW c \in calls, AddWatch(c) PROVE Apart'
  BY <1>12, DirectoriesAre, InodesAssumption
     DEF AddWatch, Begin, disk, Apart, Live, Typed
<1>13. ASSUME NEW p \in Paths, Rescan(p) PROVE Apart'
  BY <1>13, DirectoriesAre, InodesAssumption
     DEF Rescan, Begin, disk, Apart, Live, Typed
<1>14. ASSUME Maintain PROVE Apart'
  BY <1>14, DirectoriesAre, InodesAssumption
     DEF Maintain, disk, Apart, Live, Typed
<1>15. ASSUME Running PROVE Apart'
  BY <1>15, DirectoriesAre, InodesAssumption
     DEF Running, disk, Apart, Live, Typed
<1>16. ASSUME Schedule PROVE Apart'
  BY <1>16, DirectoriesAre, InodesAssumption
     DEF Schedule, disk, Apart, Live, Typed
<1>17. ASSUME ScheduleFails PROVE Apart'
  BY <1>17, DirectoriesAre, InodesAssumption
     DEF ScheduleFails, disk, Apart, Live, Typed
<1>18. ASSUME NEW p \in Paths, Elapse(p) PROVE Apart'
  BY <1>18, DirectoriesAre, InodesAssumption
     DEF Elapse, disk, Apart, Live, Typed
<1>19. ASSUME UNCHANGED vars PROVE Apart'
  BY <1>19 DEF vars, disk, Apart, Live, Typed
<1> QED
  BY <1>1, <1>2, <1>3, <1>4, <1>5, <1>6, <1>7, <1>8, <1>9, <1>10, <1>11, <1>12, <1>13,
        <1>14, <1>15, <1>16, <1>17, <1>18, <1>19 DEF Next, World, Observer, Loop

LEMMA AddWatchKeeps ==
  ASSUME Typed, NEW c \in calls, AddWatch(c), NEW q \in Paths, watch'[q] # NoWatch
  PROVE  /\ watch[q] # NoWatch /\ watch'[q].gen = watch[q].gen /\ watch'[q].ino = watch[q].ino
         /\ watch'[q].bound = watch[q].bound /\ watch'[q].late = watch[q].late
         /\ (watch' = watch /\ told' = told) \/ (~Dead(q) /\ told' = {})
<1>1. Cleaned[q] # NoWatch => watch[q] # NoWatch /\ ~Dead(q) /\ SameWatch(Cleaned[q], watch[q])
  BY CleanedWatches
<1>2. CASE watch' = watch /\ told' = told
  BY <1>2
<1>3. CASE watch' = Cleaned /\ told' = {}
  BY <1>1, <1>3 DEF SameWatch
<1>4. CASE /\ Cleaned[c.path] # NoWatch /\ told' = {}
           /\ watch' = [Cleaned EXCEPT ![c.path].owners = @ \cup Resolved(c.owner), ![c.path].idle = FALSE]
  <2>1. Cleaned[q] \in {NoWatch} \cup Watches /\ (q # c.path => watch'[q] = Cleaned[q])
    BY <1>4, CleanedWatches
  <2>2. CASE q # c.path
    BY <1>1, <1>4, <2>1, <2>2 DEF SameWatch
  <2>3. CASE q = c.path
    <3>1. watch'[q] = [[Cleaned[q] EXCEPT !.owners = @ \cup Resolved(c.owner)] EXCEPT !.idle = FALSE]
      BY <1>4, <2>3, CleanedWatches
    <3>2. /\ watch'[q].gen = Cleaned[q].gen /\ watch'[q].ino = Cleaned[q].ino
          /\ watch'[q].bound = Cleaned[q].bound /\ watch'[q].late = Cleaned[q].late
      <4>1. Cleaned[q] \in Watches
        BY <1>4, <2>1, <2>3
      <4> QED
        BY <3>1, <4>1 DEF Watches
    <3> QED
      BY <1>1, <1>4, <2>3, <3>2 DEF SameWatch
  <2> QED
    BY <2>2, <2>3
<1> QED
  BY <1>2, <1>3, <1>4 DEF AddWatch

LEMMA NumberedNext ==
  ASSUME Typed, Registering, Numbered, [Next]_vars
  PROVE  Numbered'
<1>1. ASSUME NEW n \in Procs, NEW pid \in Pids, Start(n, pid) PROVE Numbered'
  BY <1>1, DirectoriesAre, WatchesAre, RegisteredIs, CleanedWatches
     DEF Start, disk, Numbered, DirsNumbered, WatchesNumbered, SignalsNumbered, Live,
        SameWatch, Typed
<1>2. ASSUME NEW n \in Procs, Exit(n) PROVE Numbered'
  BY <1>2, DirectoriesAre, WatchesAre, RegisteredIs, CleanedWatches
     DEF Exit, disk, Numbered, DirsNumbered, WatchesNumbered, SignalsNumbered, Live,
        SameWatch, Typed
<1>3. ASSUME NEW n \in Procs, Reap(n) PROVE Numbered'
  BY <1>3, DirectoriesAre, WatchesAre, RegisteredIs, CleanedWatches
     DEF Reap, disk, Numbered, DirsNumbered, WatchesNumbered, SignalsNumbered, Live,
        SameWatch, Typed
<1>4. ASSUME NEW n \in Procs, Write(n) PROVE Numbered'
  <2>1. \A q \in Watched(dir[procs[n].path]), kind \in {"created", "deleted"} : Signal(kind, q).gen <= gens
    BY DEF Watched, Signal, Numbered, WatchesNumbered
  <2>2. SignalsNumbered'
    BY <1>4, <2>1 DEF Write, Numbered, SignalsNumbered
  <2>3. Live' \subseteq Live
    BY <1>4 DEF Write, Live, disk, Typed
  <2> QED
    BY <1>4, <2>2, <2>3 DEF Write, disk, Numbered, DirsNumbered, WatchesNumbered
<1>5. ASSUME NEW n \in Procs, NEW known \in BOOLEAN, Observe(n, known) PROVE Numbered'
  BY <1>5, DirectoriesAre, WatchesAre, RegisteredIs, CleanedWatches
     DEF Observe, disk, Numbered, DirsNumbered, WatchesNumbered, SignalsNumbered, Live,
        SameWatch, Typed
<1>6. ASSUME NEW p \in Paths, Rmdir(p) PROVE Numbered'
  <2>1. \A q \in Watched(dir[p]), kind \in {"created", "deleted"} : Signal(kind, q).gen <= gens
    BY DEF Watched, Signal, Numbered, WatchesNumbered
  <2>2. SignalsNumbered'
    BY <1>6, <2>1 DEF Rmdir, Removed, Numbered, SignalsNumbered
  <2>3. Live' \subseteq Live
    BY <1>6 DEF Rmdir, Live, disk, Typed
  <2> QED
    BY <1>6, <2>2, <2>3 DEF Rmdir, disk, Numbered, DirsNumbered, WatchesNumbered
<1>7. ASSUME NEW p \in Paths, Rename(p) PROVE Numbered'
  BY <1>7, DirectoriesAre, WatchesAre, RegisteredIs, CleanedWatches
     DEF Rename, Numbered, DirsNumbered, WatchesNumbered, SignalsNumbered, Live, SameWatch,
        Typed
<1>8. ASSUME NEW p \in Paths, NEW ino \in Inodes, Mkdir(p, ino) PROVE Numbered'
  <2>1. Live' \subseteq Live \cup {[inc |-> dirs + 1, ino |-> ino]}
    BY <1>8 DEF Mkdir, Live, Typed
  <2>2. /\ dirs \in Nat /\ \A d \in Live : d.inc \in Nat
        /\ \A q \in Paths : watch[q] # NoWatch => watch[q].bound.inc \in Nat
    BY DirectoriesAre, WatchesAre, BoundsAssumption DEF Typed, Live, Incs
  <2>3. DirsNumbered'
    BY <1>8, <2>1, <2>2 DEF Mkdir, Numbered, DirsNumbered
  <2>4. WatchesNumbered'
    BY <1>8, <2>2 DEF Mkdir, Numbered, WatchesNumbered
  <2> QED
    BY <1>8, <2>3, <2>4 DEF Mkdir, Numbered, SignalsNumbered
<1>9. ASSUME NEW d \in away, RmdirAway(d) PROVE Numbered'
  <2>1. \A q \in Watched(d), kind \in {"created", "deleted"} : Signal(kind, q).gen <= gens
    BY DEF Watched, Signal, Numbered, WatchesNumbered
  <2>2. SignalsNumbered'
    BY <1>9, <2>1 DEF RmdirAway, Removed, Numbered, SignalsNumbered
  <2>3. Live' \subseteq Live
    BY <1>9 DEF RmdirAway, Live, disk, Typed
  <2> QED
    BY <1>9, <2>2, <2>3 DEF RmdirAway, disk, Numbered, DirsNumbered, WatchesNumbered
<1>10. ASSUME NEW s \in kernel, Dispatch(s) PROVE Numbered'
  <2>1. \A t \in Handled(s) : t.gen <= gens
    BY HandledAre DEF Numbered, WatchesNumbered, Typed, Signals
  <2>2. kernel' \subseteq kernel /\ posts' \subseteq posts \cup Handled(s) /\ UNCHANGED <<disk, watch, gens, told>>
    BY <1>10 DEF Dispatch
  <2>3. SignalsNumbered'
    BY <2>1, <2>2 DEF Numbered, SignalsNumbered
  <2> QED
    BY <2>2, <2>3 DEF disk, Live, Numbered, DirsNumbered, WatchesNumbered
<1>11. ASSUME NEW s \in posts, Deliver(s) PROVE Numbered'
  BY <1>11, DirectoriesAre, WatchesAre, RegisteredIs, CleanedWatches
     DEF Deliver, disk, Numbered, DirsNumbered, WatchesNumbered, SignalsNumbered, Live,
        SameWatch, Typed
<1>12. ASSUME NEW c \in calls, AddWatch(c) PROVE Numbered'
  <2>1. \A q \in Paths : watch'[q] # NoWatch =>
          watch[q] # NoWatch /\ watch'[q].bound = watch[q].bound /\ watch'[q].gen = watch[q].gen
    BY <1>12, AddWatchKeeps
  <2> QED
    BY <1>12, <2>1 DEF AddWatch, disk, Live, Numbered, DirsNumbered, WatchesNumbered, SignalsNumbered
<1>13. ASSUME NEW p \in Paths, Rescan(p) PROVE Numbered'
  BY <1>13, DirectoriesAre, WatchesAre, RegisteredIs, CleanedWatches
     DEF Rescan, Begin, disk, Numbered, DirsNumbered, WatchesNumbered, SignalsNumbered,
        Live, SameWatch, Typed
<1>14. ASSUME Maintain PROVE Numbered'
  <2>1. \A q \in Paths : watch'[q] # NoWatch =>
          watch[q] # NoWatch /\ watch'[q].bound = watch[q].bound /\ watch'[q].gen = watch[q].gen
    BY <1>14, CleanedWatches DEF Maintain, SameWatch
  <2> QED
    BY <1>14, <2>1 DEF Maintain, disk, Live, Numbered, DirsNumbered, WatchesNumbered, SignalsNumbered
<1>15. ASSUME Running PROVE Numbered'
  BY <1>15, DirectoriesAre, WatchesAre, RegisteredIs, CleanedWatches
     DEF Running, disk, Numbered, DirsNumbered, WatchesNumbered, SignalsNumbered, Live,
        SameWatch, Typed
<1>16. ASSUME Schedule PROVE Numbered'
  <2>1. gens \in Nat /\ gens' = gens + 1 /\ dir[reg.path] \in Live /\ reg.path \in Paths
    BY <1>16, RegisteredIs, BoundsAssumption DEF Schedule, Live, Typed
  <2>2. /\ watch'[reg.path].gen = gens + 1 /\ watch'[reg.path].bound = dir[reg.path]
        /\ \A q \in Paths : q # reg.path => watch'[q] = watch[q]
    BY <1>16, <2>1 DEF Schedule, Typed
  <2>3. \A q \in Paths : watch[q] # NoWatch => watch[q].gen \in Nat
    BY WatchesAre DEF Typed
  <2>4. \A s \in Pending : s.gen \in Nat
    BY DEF Pending, Signals, Typed
  <2>5. DirsNumbered' /\ UNCHANGED <<dirs, kernel, posts, told>>
    BY <1>16 DEF Schedule, disk, Live, Numbered, DirsNumbered
  <2>6. WatchesNumbered'
    BY <2>1, <2>2, <2>3, <2>5 DEF Numbered, DirsNumbered, WatchesNumbered
  <2>7. SignalsNumbered'
    BY <2>1, <2>4, <2>5 DEF Pending, Numbered, SignalsNumbered
  <2> QED
    BY <2>5, <2>6, <2>7 DEF Numbered
<1>17. ASSUME ScheduleFails PROVE Numbered'
  BY <1>17, DirectoriesAre, WatchesAre, RegisteredIs, CleanedWatches
     DEF ScheduleFails, disk, Numbered, DirsNumbered, WatchesNumbered, SignalsNumbered,
        Live, SameWatch, Typed
<1>18. ASSUME NEW p \in Paths, Elapse(p) PROVE Numbered'
  BY <1>18, DirectoriesAre, WatchesAre, RegisteredIs, CleanedWatches
     DEF Elapse, disk, Numbered, DirsNumbered, WatchesNumbered, SignalsNumbered, Live,
        SameWatch, Typed
<1>19. ASSUME UNCHANGED vars PROVE Numbered'
  BY <1>19 DEF vars, disk, Numbered, DirsNumbered, WatchesNumbered, SignalsNumbered, Live, SameWatch,
        Typed
<1> QED
  BY <1>1, <1>2, <1>3, <1>4, <1>5, <1>6, <1>7, <1>8, <1>9, <1>10, <1>11, <1>12, <1>13,
        <1>14, <1>15, <1>16, <1>17, <1>18, <1>19 DEF Next, World, Observer, Loop

LEMMA SignalsDiffer ==
  /\ \A p, q : Signal("deleted", p) = Signal("deleted", q) => p = q
  /\ \A p, q : Signal("deleted", p) # Signal("created", q)
<1>1. \A p, kind : Signal(kind, p).path = p /\ Signal(kind, p).kind = kind
  BY DEF Signal
<1> QED
  BY <1>1

LEMMA RemovedAreReported ==
  ASSUME Typed, Reported, NEW d \in Live, Live' = Live \ {d}, Removed(d), UNCHANGED <<watch, posts, told>>
  PROVE  Reported'
<1>1. \A p \in Paths : Signal("deleted", p) \in Pending' <=>
                         Signal("deleted", p) \in Pending \/ (watch[p] # NoWatch /\ watch[p].bound = d)
  BY SignalsDiffer DEF Removed, Pending, Watched
<1>2. \A p \in Paths : Signal("deleted", p)' = Signal("deleted", p)
  BY DEF Signal
<1>3. SUFFICES ASSUME NEW p \in Paths, watch[p] # NoWatch
               PROVE  ReachesIt(p)' /\ (watch[p].late \/ (ItsOwn(p)' /\ NoOther(p)'))
  BY DEF Reported
<1>4. watch' = watch /\ ReachesIt(p) /\ (watch[p].late \/ (ItsOwn(p) /\ NoOther(p)))
  BY <1>3 DEF Reported
<1>5. ReachesIt(p)' /\ (watch[p].late \/ ItsOwn(p)')
  <2>1. Signal("deleted", p)' \in Pending' <=> Signal("deleted", p) \in Pending \/ watch[p].bound = d
    BY <1>1, <1>2, <1>3
  <2>2. watch[p].bound \in Live' <=> watch[p].bound \in Live /\ watch[p].bound # d
    OBVIOUS
  <2> QED
    BY <1>4, <2>1, <2>2 DEF ReachesIt, ItsOwn
<1>6. watch[p].late \/ NoOther(p)'
  <2>1. \A s \in kernel' : s \in kernel \/ \E q \in Watched(d) : s = Signal("deleted", q)
    BY DEF Removed
  <2>2. \A s \in kernel' : s \in kernel \/ s.gen = watch[s.path].gen
    BY <2>1 DEF Signal
  <2> QED
    BY <1>4, <2>2 DEF NoOther
<1> QED
  BY <1>5, <1>6

LEMMA ReportedNext ==
  ASSUME Typed, Registering, Apart, Numbered, Reported, [Next]_vars
  PROVE  Reported'
<1>1. ASSUME NEW n \in Procs, NEW pid \in Pids, Start(n, pid) PROVE Reported'
  BY <1>1, DirectoriesAre, WatchesAre, RegisteredIs, AddWatchKeeps
     DEF Start, disk, Reported, ReachesIt, ItsOwn, NoOther, Pending, Live, Signal
<1>2. ASSUME NEW n \in Procs, Exit(n) PROVE Reported'
  BY <1>2, DirectoriesAre, WatchesAre, RegisteredIs, AddWatchKeeps
     DEF Exit, disk, Reported, ReachesIt, ItsOwn, NoOther, Pending, Live, Signal
<1>3. ASSUME NEW n \in Procs, Reap(n) PROVE Reported'
  BY <1>3, DirectoriesAre, WatchesAre, RegisteredIs, AddWatchKeeps
     DEF Reap, disk, Reported, ReachesIt, ItsOwn, NoOther, Pending, Live, Signal
<1>4. ASSUME NEW n \in Procs, Write(n) PROVE Reported'
  <2>1. \A q \in Paths : Signal("deleted", q) \in Pending' <=> Signal("deleted", q) \in Pending
    BY <1>4, SignalsDiffer DEF Write, Pending
  <2>2. Live' = Live /\ watch' = watch /\ \A q \in Paths : Signal("deleted", q)' = Signal("deleted", q)
    BY <1>4 DEF Write, disk, Live, Signal
  <2>3. \A s \in kernel' : s \in kernel \/ s.kind # "deleted"
    BY <1>4 DEF Write, Signal
  <2> QED
    BY <2>1, <2>2, <2>3 DEF Reported, ReachesIt, ItsOwn, NoOther
<1>5. ASSUME NEW n \in Procs, NEW known \in BOOLEAN, Observe(n, known) PROVE Reported'
  BY <1>5, DirectoriesAre, WatchesAre, RegisteredIs, AddWatchKeeps
     DEF Observe, disk, Reported, ReachesIt, ItsOwn, NoOther, Pending, Live, Signal
<1>6. ASSUME NEW p \in Paths, Rmdir(p) PROVE Reported'
  <2>1. dir[p] \in Live /\ Live' = Live \ {dir[p]}
    BY <1>6 DEF Rmdir, Live, Apart, Typed
  <2> QED
    BY <1>6, <2>1, RemovedAreReported DEF Rmdir
<1>7. ASSUME NEW p \in Paths, Rename(p) PROVE Reported'
  BY <1>7, DirectoriesAre, WatchesAre, RegisteredIs, AddWatchKeeps
     DEF Rename, Reported, ReachesIt, ItsOwn, NoOther, Pending, Live, Signal
<1>8. ASSUME NEW p \in Paths, NEW ino \in Inodes, Mkdir(p, ino) PROVE Reported'
  <2>1. Live' = Live \cup ({[inc |-> dirs + 1, ino |-> ino]} \ {Gone})
    BY <1>8 DEF Mkdir, Live, Typed
  <2>2. \A q \in Paths : watch[q] # NoWatch => watch[q].bound # [inc |-> dirs + 1, ino |-> ino]
    <3>1. \A q \in Paths : watch[q] # NoWatch => watch[q].bound.inc <= dirs
      BY DEF Numbered, WatchesNumbered
    <3>2. ~(dirs + 1 <= dirs)
      BY BoundsAssumption DEF Typed
    <3> QED
      BY <3>1, <3>2
  <2>3. UNCHANGED <<watch, kernel, posts, told>>
    BY <1>8 DEF Mkdir
  <2> QED
    BY <2>1, <2>2, <2>3 DEF Reported, ReachesIt, ItsOwn, NoOther, Pending, Signal
<1>9. ASSUME NEW d \in away, RmdirAway(d) PROVE Reported'
  <2>1. d \in Live /\ Live' = Live \ {d}
    BY <1>9 DEF RmdirAway, Live, Apart, Typed
  <2> QED
    BY <1>9, <2>1, RemovedAreReported DEF RmdirAway
<1>10. ASSUME NEW s \in kernel, Dispatch(s) PROVE Reported'
  <2>1. /\ kernel' = kernel \ {s} /\ UNCHANGED <<watch, told>> /\ Live' = Live
        /\ posts' = posts \cup Handled(s) \/ (watch[s.path].gen # s.gen /\ posts' = posts)
    BY <1>10 DEF Dispatch, disk, Live
  <2>2. SUFFICES ASSUME NEW q \in Paths, watch[q] # NoWatch
                 PROVE  ReachesIt(q)' /\ (watch[q].late \/ (ItsOwn(q)' /\ NoOther(q)'))
    BY <2>1 DEF Reported
  <2>3. Signal("deleted", q)' = Signal("deleted", q)
    BY <2>1 DEF Signal
  <2>4. ReachesIt(q)'
    <3>1. CASE Signal("deleted", q) = s
      <4>1. s.path = q /\ s.gen = watch[q].gen
        BY <3>1 DEF Signal
      <4>2. [s EXCEPT !.gen = watch[q].gen] = s
        BY <4>1 DEF Typed, Signals
      <4>3. s \in Handled(s)
        BY <4>1, <4>2, <2>2 DEF Handled
      <4> QED
        BY <2>1, <2>3, <3>1, <4>1, <4>3 DEF ReachesIt, Pending
    <3>2. CASE Signal("deleted", q) # s
      BY <2>1, <2>2, <2>3, <3>2 DEF Reported, ReachesIt, Pending
    <3> QED
      BY <3>1, <3>2
  <2>5. ASSUME ~watch[q].late PROVE ItsOwn(q)'
    <3>1. SUFFICES ASSUME watch[q].bound \in Live, Signal("deleted", q) \in Pending' PROVE FALSE
      BY <2>1, <2>3 DEF ItsOwn
    <3>2. Signal("deleted", q) \notin Pending
      BY <2>2, <2>5, <3>1 DEF Reported, ItsOwn
    <3>3. Signal("deleted", q) \in Handled(s)
      BY <2>1, <3>1, <3>2 DEF Pending
    <3>4. s.kind = "deleted" /\ s.path = q
      BY <3>3, HandledAre DEF Signal
    <3>5. s.gen = watch[q].gen
      BY <2>2, <2>5, <3>4 DEF Reported, NoOther
    <3>6. s = Signal("deleted", q)
      BY <3>3, <3>4, <3>5, HandledAre
    <3> QED
      BY <3>2, <3>6 DEF Pending
  <2>6. watch[q].late \/ NoOther(q)'
    BY <2>1, <2>2 DEF Reported, NoOther
  <2> QED
    BY <2>4, <2>5, <2>6
<1>11. ASSUME NEW s \in posts, Deliver(s) PROVE Reported'
  BY <1>11, DirectoriesAre, WatchesAre, RegisteredIs, AddWatchKeeps
     DEF Deliver, disk, Reported, ReachesIt, ItsOwn, NoOther, Pending, Live, Signal
<1>12. ASSUME NEW c \in calls, AddWatch(c) PROVE Reported'
  <2>1. \A q \in Paths : watch'[q] # NoWatch =>
          /\ watch[q] # NoWatch /\ watch'[q].bound = watch[q].bound /\ watch'[q].gen = watch[q].gen
          /\ watch'[q].late = watch[q].late
          /\ told' = told \/ (~Dead(q) /\ told' = {})
    BY <1>12, AddWatchKeeps
  <2>2. Live' = Live /\ UNCHANGED <<kernel, posts>>
    BY <1>12 DEF AddWatch, disk, Live
  <2> QED
    BY <2>1, <2>2 DEF Reported, ReachesIt, ItsOwn, NoOther, Pending, Signal, Dead, Told
<1>13. ASSUME NEW p \in Paths, Rescan(p) PROVE Reported'
  BY <1>13, DirectoriesAre, WatchesAre, RegisteredIs, AddWatchKeeps
     DEF Rescan, Begin, disk, Reported, ReachesIt, ItsOwn, NoOther, Pending, Live, Signal
<1>14. ASSUME Maintain PROVE Reported'
  <2>1. \A q \in Paths : watch'[q] # NoWatch =>
          /\ watch[q] # NoWatch /\ watch'[q].bound = watch[q].bound /\ watch'[q].gen = watch[q].gen
          /\ watch'[q].late = watch[q].late
          /\ told' = told \/ (~Dead(q) /\ told' = {})
    BY <1>14, CleanedWatches DEF Maintain, SameWatch
  <2>2. Live' = Live /\ UNCHANGED <<kernel, posts>>
    BY <1>14 DEF Maintain, disk, Live
  <2> QED
    BY <2>1, <2>2 DEF Reported, ReachesIt, ItsOwn, NoOther, Pending, Signal, Dead, Told
<1>15. ASSUME Running PROVE Reported'
  BY <1>15, DirectoriesAre, WatchesAre, RegisteredIs, AddWatchKeeps
     DEF Running, disk, Reported, ReachesIt, ItsOwn, NoOther, Pending, Live, Signal
<1>16. ASSUME Schedule PROVE Reported'
  <2>1. dir[reg.path] \in Live /\ reg.path \in Paths
    BY <1>16, RegisteredIs DEF Schedule, Live, Typed
  <2>2. /\ watch'[reg.path].gen = gens + 1 /\ watch'[reg.path].bound = dir[reg.path]
        /\ watch'[reg.path].late = Late(reg.path)
        /\ \A q \in Paths : q # reg.path => watch'[q] = watch[q]
    BY <1>16, <2>1 DEF Schedule, Typed
  <2>3. Live' = Live /\ UNCHANGED <<kernel, posts, told>>
    BY <1>16 DEF Schedule, disk, Live
  <2>4. \A s \in Pending : s.gen # gens + 1
    <3>1. ~(gens + 1 <= gens)
      BY BoundsAssumption DEF Typed
    <3> QED
      BY <3>1 DEF Pending, Numbered, SignalsNumbered
  <2>5. \A q \in Paths : [kind |-> "deleted", path |-> q, gen |-> gens + 1] \notin Pending
    BY <2>4
  <2> QED
    <3>1. SUFFICES ASSUME NEW q \in Paths, watch'[q] # NoWatch
                   PROVE  ReachesIt(q)' /\ (watch'[q].late \/ (ItsOwn(q)' /\ NoOther(q)'))
      BY DEF Reported
    <3>2. CASE q # reg.path
      <4>1. watch[q] # NoWatch /\ watch'[q] = watch[q] /\ Signal("deleted", q)' = Signal("deleted", q)
        BY <2>2, <3>1, <3>2 DEF Signal
      <4>2. ReachesIt(q) /\ (watch[q].late \/ (ItsOwn(q) /\ NoOther(q)))
        BY <4>1 DEF Reported
      <4> QED
        BY <2>3, <4>1, <4>2 DEF ReachesIt, ItsOwn, NoOther, Pending
    <3>3. CASE q = reg.path
      <4>1. Signal("deleted", q)' = [kind |-> "deleted", path |-> q, gen |-> gens + 1]
        BY <2>2, <3>3 DEF Signal
      <4>2. Signal("deleted", q)' \notin Pending'
        BY <2>3, <2>5, <4>1 DEF Pending
      <4>3. ReachesIt(q)' /\ ItsOwn(q)'
        BY <2>1, <2>2, <2>3, <3>3, <4>2 DEF ReachesIt, ItsOwn
      <4>4. watch'[q].late \/ NoOther(q)'
        BY <2>2, <2>3, <3>3 DEF NoOther, Late
      <4> QED
        BY <4>3, <4>4
    <3> QED
      BY <3>2, <3>3
<1>17. ASSUME ScheduleFails PROVE Reported'
  BY <1>17, DirectoriesAre, WatchesAre, RegisteredIs, AddWatchKeeps
     DEF ScheduleFails, disk, Reported, ReachesIt, ItsOwn, NoOther, Pending, Live, Signal
<1>18. ASSUME NEW p \in Paths, Elapse(p) PROVE Reported'
  BY <1>18, DirectoriesAre, WatchesAre, RegisteredIs, AddWatchKeeps
     DEF Elapse, disk, Reported, ReachesIt, ItsOwn, NoOther, Pending, Live, Signal
<1>19. ASSUME UNCHANGED vars PROVE Reported'
  BY <1>19 DEF vars, disk, Reported, ReachesIt, ItsOwn, NoOther, Pending, Live, Signal
<1> QED
  BY <1>1, <1>2, <1>3, <1>4, <1>5, <1>6, <1>7, <1>8, <1>9, <1>10, <1>11, <1>12, <1>13,
        <1>14, <1>15, <1>16, <1>17, <1>18, <1>19 DEF Next, World, Observer, Loop

LEMMA AddWatchOwners ==
  ASSUME Typed, NEW c \in calls, AddWatch(c), NEW q \in Paths, watch'[q] # NoWatch
  PROVE  watch'[q].owners \subseteq watch[q].owners \cup (IF q = c.path THEN {c.owner} \ {NoOwner} ELSE {})
<1>1. Cleaned[q] # NoWatch => watch[q] # NoWatch /\ Cleaned[q].owners \subseteq watch[q].owners
  BY CleanedWatches DEF SameWatch
<1>2. CASE watch' = watch
  BY <1>2
<1>3. CASE watch' = Cleaned
  BY <1>1, <1>3
<1>4. CASE /\ Cleaned[c.path] # NoWatch
           /\ watch' = [Cleaned EXCEPT ![c.path].owners = @ \cup Resolved(c.owner), ![c.path].idle = FALSE]
  <2>1. CASE q # c.path
    BY <1>1, <1>4, <2>1, CleanedWatches
  <2>2. CASE q = c.path
    <3>1. watch'[q] = [[Cleaned[q] EXCEPT !.owners = @ \cup Resolved(c.owner)] EXCEPT !.idle = FALSE]
      BY <1>4, <2>2, CleanedWatches
    <3>2. Cleaned[q] \in Watches
      BY <1>4, <2>2, CleanedWatches
    <3>3. watch'[q].owners = Cleaned[q].owners \cup Resolved(c.owner)
      BY <3>1, <3>2 DEF Watches
    <3> QED
      BY <1>1, <1>4, <2>2, <3>3, ResolvedAre
  <2> QED
    BY <2>1, <2>2
<1> QED
  BY <1>2, <1>3, <1>4 DEF AddWatch

LEMMA KnownNext ==
  ASSUME Typed, Known, [Next]_vars
  PROVE  Known'
<1>1. ASSUME NEW n \in Procs, NEW pid \in Pids, Start(n, pid) PROVE Known'
  BY <1>1, ResolvedAre, OwnerIs, CleanedWatches
     DEF Start, disk, Known, Seen, Typed
<1>2. ASSUME NEW n \in Procs, Exit(n) PROVE Known'
  BY <1>2, ResolvedAre, OwnerIs, CleanedWatches
     DEF Exit, disk, Known, Seen, Typed
<1>3. ASSUME NEW n \in Procs, Reap(n) PROVE Known'
  BY <1>3, ResolvedAre, OwnerIs, CleanedWatches
     DEF Reap, disk, Known, Seen, Typed
<1>4. ASSUME NEW n \in Procs, Write(n) PROVE Known'
  BY <1>4, ResolvedAre, OwnerIs, CleanedWatches
     DEF Write, disk, Known, Seen, Typed
<1>5. ASSUME NEW n \in Procs, NEW known \in BOOLEAN, Observe(n, known) PROVE Known'
  BY <1>5, ResolvedAre, OwnerIs, CleanedWatches
     DEF Observe, disk, Known, Seen, Typed
<1>6. ASSUME NEW p \in Paths, Rmdir(p) PROVE Known'
  BY <1>6, ResolvedAre, OwnerIs, CleanedWatches
     DEF Rmdir, Removed, Known, Seen, Typed
<1>7. ASSUME NEW p \in Paths, Rename(p) PROVE Known'
  BY <1>7, ResolvedAre, OwnerIs, CleanedWatches
     DEF Rename, Known, Seen, Typed
<1>8. ASSUME NEW p \in Paths, NEW ino \in Inodes, Mkdir(p, ino) PROVE Known'
  BY <1>8, ResolvedAre, OwnerIs, CleanedWatches
     DEF Mkdir, Known, Seen, Typed
<1>9. ASSUME NEW d \in away, RmdirAway(d) PROVE Known'
  BY <1>9, ResolvedAre, OwnerIs, CleanedWatches
     DEF RmdirAway, Removed, Known, Seen, Typed
<1>10. ASSUME NEW s \in kernel, Dispatch(s) PROVE Known'
  BY <1>10, ResolvedAre, OwnerIs, CleanedWatches
     DEF Dispatch, disk, Known, Seen, Typed
<1>11. ASSUME NEW s \in posts, Deliver(s) PROVE Known'
  BY <1>11, ResolvedAre, OwnerIs, CleanedWatches
     DEF Deliver, disk, Known, Seen, Typed
<1>12. ASSUME NEW c \in calls, AddWatch(c) PROVE Known'
  <2>1. procs' = procs /\ calls' \subseteq calls
    BY <1>12 DEF AddWatch
  <2>2. reg' # NoReg /\ reg'.owner # NoOwner => reg'.path = c.path /\ reg'.owner = c.owner
    BY <1>12 DEF AddWatch, Begin
  <2>3. \A q \in Paths : watch'[q] # NoWatch => watch[q] # NoWatch /\ \A o \in watch'[q].owners :
          o \in watch[q].owners \/ (q = c.path /\ o = c.owner /\ o # NoOwner)
    BY <1>12, AddWatchOwners, AddWatchKeeps
  <2> QED
    BY <2>1, <2>2, <2>3 DEF Known, Seen
<1>13. ASSUME NEW p \in Paths, Rescan(p) PROVE Known'
  BY <1>13, ResolvedAre, OwnerIs, CleanedWatches
     DEF Rescan, Begin, disk, Known, Seen, Typed
<1>14. ASSUME Maintain PROVE Known'
  <2>1. \A q \in Paths : watch'[q] # NoWatch => watch[q] # NoWatch /\ watch'[q].owners \subseteq watch[q].owners
    BY <1>14, CleanedWatches DEF Maintain, SameWatch
  <2> QED
    BY <1>14, <2>1 DEF Maintain, Known, Seen
<1>15. ASSUME Running PROVE Known'
  BY <1>15, ResolvedAre, OwnerIs, CleanedWatches
     DEF Running, disk, Known, Seen, Typed
<1>16. ASSUME Schedule PROVE Known'
  BY <1>16, ResolvedAre, OwnerIs, CleanedWatches
     DEF Schedule, disk, Known, Seen, Typed
<1>17. ASSUME ScheduleFails PROVE Known'
  BY <1>17, ResolvedAre, OwnerIs, CleanedWatches
     DEF ScheduleFails, disk, Known, Seen, Typed
<1>18. ASSUME NEW p \in Paths, Elapse(p) PROVE Known'
  BY <1>18, ResolvedAre, OwnerIs, CleanedWatches
     DEF Elapse, disk, Known, Seen, Typed
<1>19. ASSUME UNCHANGED vars PROVE Known'
  BY <1>19 DEF vars, disk, Known, Seen, Typed
<1> QED
  BY <1>1, <1>2, <1>3, <1>4, <1>5, <1>6, <1>7, <1>8, <1>9, <1>10, <1>11, <1>12, <1>13,
        <1>14, <1>15, <1>16, <1>17, <1>18, <1>19 DEF Next, World, Observer, Loop

LEMMA InvInit == Init => Inv
<1> SUFFICES ASSUME Init PROVE Inv
  OBVIOUS
<1>1. Typed
  <2>1. dir \in [Paths -> Directories]
    BY DEF Init, Directories
  <2>2. procs \in [Procs -> [pid : Pids \cup {0}, path : Paths, state : Procstates]]
    BY DEF Init, Procstates
  <2>3. dirs \in 0 .. MaxDirs
    BY BoundsAssumption DEF Init
  <2>4. 0 \in 0 .. MaxWatches /\ 0 \in 0 .. MaxFailures
    BY BoundsAssumption
  <2> QED
    BY <2>1, <2>2, <2>3, <2>4 DEF Init, Typed
<1>2. Registering
  BY DEF Init, Registering
<1>3. PICK p \in Paths : \A q \in Paths \ {p} : dir[q] = Gone
  BY DEF Init
<1>4. Live \subseteq {dir[p]} /\ away = {}
  BY <1>3 DEF Live, Init
<1>5. Apart
  BY <1>3, <1>4 DEF Apart
<1>6. Numbered
  <2>1. \A q \in Paths : dir[q] = Gone \/ dir[q].inc = 1
    BY DEF Init
  <2> QED
    BY <2>1 DEF Init, Live, Numbered, DirsNumbered, WatchesNumbered, SignalsNumbered
<1>7. Reported /\ Known
  BY DEF Init, Reported, ReachesIt, ItsOwn, NoOther, Known
<1> QED
  BY <1>1, <1>2, <1>5, <1>6, <1>7 DEF Inv

LEMMA InvNext == Inv /\ [Next]_vars => Inv'
  BY TypeNext, RegisteringNext, ApartNext, NumberedNext, ReportedNext, KnownNext DEF Inv

LEMMA CleanedRemoves ==
  ASSUME Typed, NEW p \in Paths, watch[p] # NoWatch, Cleaned[p] = NoWatch
  PROVE  Dead(p)
<1> SUFFICES ASSUME ~Dead(p) PROVE FALSE
  OBVIOUS
<1>1. watch[p] \in Watches
  BY DEF Typed
<1>2. Refreshed(p) \in Watches
  BY <1>1 DEF Refreshed, Watches
<1>3. [Refreshed(p) EXCEPT !.owners = watch[p].owners] \in Watches
  BY <1>1, <1>2 DEF Watches
<1>4. Cleaned[p] \in Watches
  BY <1>2, <1>3 DEF Cleaned
<1> QED
  BY <1>4, WatchesAre

\* A healthy watch is dead to a cleanup only if it is idle and nobody installs there.
LEMMA HealthyIsExpired ==
  ASSUME Typed, Reported, NEW p \in Paths, watch[p] # NoWatch, Healthy(p), Dead(p), ~watch[p].late
  PROVE  watch[p].idle /\ ~Installing(p)
<1>1. watch[p] \in Watches
  BY DEF Typed
<1>2. watch[p].bound \in Live
  BY <1>1, WatchesAre DEF Healthy, Live
<1>3. ~Told("deleted", p) /\ StillWatching(p)
  BY <1>2 DEF Reported, ItsOwn, Pending, Signal, Told, Healthy, StillWatching
<1>4. Expired(p)
  BY <1>3 DEF Dead
<1>5. Refreshed(p).idle = (watch[p].idle /\ ~Told("created", p))
      /\ Refreshed(p).owners = {o \in watch[p].owners : StillRunning(o)}
  BY <1>1 DEF Refreshed, Watches
<1>6. Refreshed(p).idle /\ Refreshed(p).owners = {}
  BY <1>4 DEF Expired
<1> QED
  BY <1>5, <1>6 DEF Installing

LEMMA RemovedIsDead ==
  ASSUME Typed, Registering, [Next]_vars, NEW p \in Paths, watch[p] # NoWatch,
         watch'[p].gen # watch[p].gen
  PROVE  Dead(p)
<1>1. ASSUME NEW c \in calls, AddWatch(c) PROVE Dead(p)
  <2>1. watch'[p] = NoWatch
    BY <1>1, AddWatchKeeps
  <2>2. CASE watch' = watch
    BY <2>2
  <2>3. CASE watch' = Cleaned
    BY <2>1, <2>3, CleanedRemoves
  <2>4. CASE /\ Cleaned[c.path] # NoWatch
             /\ watch' = [Cleaned EXCEPT ![c.path].owners = @ \cup Resolved(c.owner), ![c.path].idle = FALSE]
    <3>1. CASE p = c.path
      <4>1. watch'[p] = [[Cleaned[p] EXCEPT !.owners = @ \cup Resolved(c.owner)] EXCEPT !.idle = FALSE]
        BY <2>4, <3>1, CleanedWatches
      <4>2. Cleaned[p] \in Watches /\ watch[p] # NoWatch /\ Cleaned[p].gen = watch[p].gen
        BY <2>4, <3>1, CleanedWatches DEF SameWatch
      <4>3. watch'[p].gen = Cleaned[p].gen
        BY <4>1, <4>2 DEF Watches
      <4> QED
        BY <4>2, <4>3
    <3>2. CASE p # c.path
      <4>1. watch'[p] = Cleaned[p]
        BY <2>4, <3>2, CleanedWatches
      <4> QED
        BY <2>1, <4>1, CleanedRemoves
    <3> QED
      BY <3>1, <3>2
  <2> QED
    BY <1>1, <2>2, <2>3, <2>4 DEF AddWatch
<1>2. ASSUME Maintain PROVE Dead(p)
  BY <1>2, CleanedWatches, CleanedRemoves DEF Maintain, SameWatch
<1>3. ASSUME Schedule PROVE Dead(p)
  BY <1>3, RegisteredIs DEF Schedule, Registering, Typed
<1>4. ASSUME NEW q \in Paths, Elapse(q) PROVE Dead(p)
  <2>1. watch[q] \in Watches
    BY <1>4 DEF Elapse, Typed
  <2>2. [watch[q] EXCEPT !.idle = TRUE].gen = watch[q].gen
    BY <2>1 DEF Watches
  <2>3. watch'[p].gen = watch[p].gen
    BY <1>4, <2>2 DEF Elapse, Typed
  <2> QED
    BY <2>3
<1>5. watch' # watch
  OBVIOUS
<1> QED
  BY <1>1, <1>2, <1>3, <1>4, <1>5
     DEF Next, World, Observer, Loop, Start, Exit, Reap, Write, Observe, Rmdir, Rename, Mkdir, RmdirAway,
         Dispatch, Deliver, Rescan, Running, ScheduleFails, vars

\* The invariant gives each part of WatchesAreTrue.
LEMMA DeafAreFoundOut == Inv => DeafIsFoundOut
<1> SUFFICES ASSUME Inv, NEW p \in Paths, watch[p] # NoWatch, watch[p].bound # dir[p],
                    watch[p].ino = dir[p].ino, watch[p].ino = watch[p].bound.ino,
                    Signal("deleted", p) \notin Pending
             PROVE  FALSE
  BY DEF DeafIsFoundOut, Pending
<1>1. watch[p].bound \in Live /\ watch[p].ino \in Inodes
  BY WatchesAre DEF Inv, Reported, ReachesIt, Typed
<1>2. dir[p] # Gone
  BY <1>1, InodesAssumption, DirectoriesAre
<1>3. dir[p] \in Live
  BY <1>2 DEF Live
<1> QED
  BY <1>1, <1>3 DEF Inv, Apart

LEMMA OwnersAreInstallers == Inv => OwnersInstallHere
  BY DEF Inv, Known, Seen, OwnersInstallHere

(* Every reachable state is well typed.                                    *)
THEOREM StatesAreTyped == Spec => []TypeOK
<1>1. Inv => TypeOK
  <2> SUFFICES ASSUME Inv PROVE TypeOK
    OBVIOUS
  <2>1. \A p \in Paths : watch[p] # NoWatch => watch[p] \in Watches /\ watch[p].gen \in 1 .. gens
    <3>1. ASSUME NEW p \in Paths, watch[p] # NoWatch PROVE watch[p].gen \in 1 .. gens
      <4>1. watch[p].gen \in 1 .. MaxWatches /\ watch[p].gen <= gens
        BY <3>1, WatchesAre DEF Inv, Typed, Numbered, WatchesNumbered
      <4> QED
        BY <4>1, BoundsAssumption DEF Inv, Typed
    <3> QED
      BY <3>1 DEF Inv, Typed
  <2> QED
    BY <2>1, WatchesAre DEF Inv, Typed, TypeOK
<1> QED
  BY <1>1, InvInit, InvNext, PTL DEF Spec

(* WatchesAreTrue, for `_cleanup_dead_watches`, `_Handler.on_deleted` and  *)
(* `_resolve_owning_pid`: a watch whose directory has gone is under        *)
(* another inode or has its deletion on the way, inodes used again or not, *)
(* and it is kept for the processes that were seen to install there only,  *)
(* pids used again or not.                                                 *)
THEOREM WatchesTellTheTruth == Spec => []WatchesAreTrue
<1>1. Inv => WatchesAreTrue
  BY DeafAreFoundOut, OwnersAreInstallers DEF WatchesAreTrue
<1> QED
  BY <1>1, InvInit, InvNext, PTL DEF Spec

(* HealthyIsSpared, for `_cleanup_dead_watches` and `_is_idle_expired`: no *)
(* step takes a watch from the directory it is bound to unless it has      *)
(* been idle while none of its installers ran, or unless a deletion of an  *)
(* earlier directory was still in the observer's queue when it was         *)
(* registered: one that had been handed to the event loop by then, however *)
(* late it is heard, does the watch no harm.                               *)
THEOREM HealthyWatchesAreSpared == Spec => HealthyIsSpared
<1>1. Inv /\ [Next]_vars =>
        [\A p \in Paths : watch[p] # NoWatch /\ watch'[p].gen # watch[p].gen /\ Healthy(p)
           => watch[p].late \/ (watch[p].idle /\ ~Installing(p))]_vars
  BY RemovedIsDead, HealthyIsExpired DEF Inv
<1> QED
  BY <1>1, InvInit, InvNext, PTL DEF Spec, HealthyIsSpared

-----------------------------------------------------------------------------
(* SnapshotRestore.  The node at an entry, and the entries above it.        *)
LEMMA EntriesAre ==
  ASSUME SnapshotAssumption
  PROVE  /\ Depth \in Nat /\ 1 \in Entries /\ Depth \in Entries
         /\ \A k : k \in Entries <=> k \in Int /\ 1 <= k /\ k <= Depth
BY DEF SnapshotAssumption, Entries

LEMMA NodeKinds ==
  ASSUME SnapshotAssumption, NEW n \in Nodes
  PROVE  /\ n.kind = "none" <=> n = None
         /\ n.kind \in {"none", "file", "big", "odd", "link", "dir"}
         /\ n.kind = "dir" => n.value \in Rights /\ n = Dir(n.value)
         /\ n.kind = "link" => n.value \in LinkTargets /\ n = [kind |-> "link", value |-> n.value]
BY DEF Nodes, None, Dir

LEMMA DirNodes ==
  ASSUME SnapshotAssumption
  PROVE  /\ Dir("rwx") \in Nodes /\ Dir("rwx").kind = "dir" /\ Dir("rwx").value = "rwx"
         /\ None \in Nodes /\ None.kind = "none" /\ Dir("rwx") # None
BY DEF Nodes, None, Dir, SnapshotAssumption

LEMMA TreesAre ==
  ASSUME SnapshotAssumption, NEW t \in Trees
  PROVE  /\ t \in [Entries -> Nodes]
         /\ \A k \in Entries : t[k] \in Nodes
         /\ \A k \in Entries, j \in Entries : t[k] # None /\ j < k => t[j].kind = "dir"
         /\ \A k \in Entries, j \in Entries : t[k].kind # "dir" /\ k < j => t[j] = None
<1>1. t \in [Entries -> Nodes] /\ \A k \in Entries : t[k] \in Nodes BY DEF Trees
<1>2. ASSUME NEW k \in Entries, NEW j \in Entries, t[k] # None, j < k PROVE t[j].kind = "dir"
  <2>1. j \in 1 .. (k - 1) BY <1>2, EntriesAre
  <2> QED BY <2>1, <1>2 DEF Trees
<1> QED BY <1>1, <1>2

LEMMA IsATree ==
  ASSUME SnapshotAssumption, NEW u \in [Entries -> Nodes],
         \A i \in Entries, j \in Entries : u[i] # None /\ j < i => u[j].kind = "dir"
  PROVE  u \in Trees
<1> SUFFICES ASSUME NEW i \in Entries, u[i] # None, NEW j \in 1 .. (i - 1) PROVE u[j].kind = "dir"
  BY DEF Trees
<1>1. i \in Int /\ i <= Depth /\ Depth \in Nat BY EntriesAre
<1>2. j \in Int /\ 1 <= j /\ j < i BY <1>1
<1>3. j \in Int /\ 1 <= j /\ j <= Depth BY <1>1, <1>2
<1>4. j \in Entries BY <1>3, EntriesAre
<1> QED BY <1>2, <1>4

LEMMA LeastOf ==
  ASSUME NEW S \in SUBSET Nat, S # {} PROVE \E j \in S : \A i \in S : j <= i
<1>1. IsWellFoundedOn(OpToRel(<, Nat), Nat) BY NatLessThanWellFounded
<1>2. PICK j \in S : \A i \in S : ~(<<i, j>> \in OpToRel(<, Nat)) BY <1>1, WFMin
<1>3. \A i \in S : ~(i < j) BY <1>2 DEF OpToRel
<1> QED BY <1>3

LEMMA GreatestOf ==
  ASSUME NEW n \in Nat, NEW S \in SUBSET (0 .. n), S # {} PROVE \E j \in S : \A i \in S : i <= j
<1> DEFINE T == {m \in Nat : n - m \in S}
<1>1. T # {}
  <2>1. PICK i \in S : TRUE OBVIOUS
  <2>2. n - i \in Nat /\ n - (n - i) = i OBVIOUS
  <2> QED BY <2>1, <2>2
<1>2. PICK m \in T : \A i \in T : m <= i BY <1>1, LeastOf
<1>3. n - m \in S BY <1>2
<1>4. \A i \in S : n - i \in T
  <2> TAKE i \in S
  <2>1. n - i \in Nat /\ n - (n - i) = i OBVIOUS
  <2> QED BY <2>1
<1>5. \A i \in S : i <= n - m
  <2> TAKE i \in S
  <2>1. m <= n - i BY <1>2, <1>4
  <2> QED BY <2>1
<1> QED BY <1>3, <1>5

-----------------------------------------------------------------------------
(* The operations of the file system.                                       *)

(* Everything in the tree can be written.                                   *)
Free(t, r) == r = "rwx" /\ \A j \in Entries : t[j].kind = "dir" => t[j].value = "rwx"

LEMMA FreeIsWritable ==
  ASSUME SnapshotAssumption, NEW t, NEW r, Free(t, r), NEW k \in Entries,
         k = 1 \/ t[k - 1].kind = "dir"
  PROVE  Writable(t, r, k) /\ Holder(t, r, k) = "rwx"
<1>1. CASE k = 1 BY <1>1 DEF Free, Writable, Holder
<1>2. CASE k # 1 /\ t[k - 1].kind = "dir"
  <2>1. k - 1 \in Entries BY <1>2, EntriesAre
  <2> QED BY <2>1, <1>2 DEF Free, Writable, Holder
<1> QED BY <1>1, <1>2

LEMMA UnlinkSays ==
  ASSUME SnapshotAssumption, NEW t \in Trees, NEW r, NEW k \in Entries, t[k].kind # "dir"
  PROVE  /\ Unlink(t, r, k).tree \in Trees
         /\ \A j \in Entries : j # k => Unlink(t, r, k).tree[j] = t[j]
         /\ Unlink(t, r, k).ok => Unlink(t, r, k).tree[k] = None
         /\ ~Unlink(t, r, k).ok => Unlink(t, r, k).tree = t
         /\ Writable(t, r, k) => Unlink(t, r, k).ok
<1>1. PICK u : u = [t EXCEPT ![k] = None] OBVIOUS
<1>2. /\ u \in [Entries -> Nodes] /\ u[k] = None /\ \A j \in Entries : j # k => u[j] = t[j]
  BY <1>1, TreesAre, DirNodes
<1>3. u \in Trees
  <2>1. ASSUME NEW i \in Entries, NEW j \in Entries, u[i] # None, j < i PROVE u[j].kind = "dir"
    <3>1. i # k /\ t[i] # None BY <1>2, <2>1
    <3>2. t[j].kind = "dir" BY <3>1, <2>1, TreesAre
    <3> QED BY <3>2, <1>2
  <2> QED BY <2>1, <1>2, IsATree
<1>4. CASE Writable(t, r, k)
  <2>1. Unlink(t, r, k) = [ok |-> TRUE, tree |-> u] BY <1>4, <1>1 DEF Unlink, Succeeded
  <2> QED BY <2>1, <1>2, <1>3
<1>5. CASE ~Writable(t, r, k)
  <2>1. Unlink(t, r, k) = [ok |-> FALSE, tree |-> t] BY <1>5 DEF Unlink, Stuck
  <2> QED BY <2>1, <1>5
<1> QED BY <1>4, <1>5

LEMMA CutSays ==
  ASSUME SnapshotAssumption, NEW t \in Trees, NEW k \in Int
  PROVE  /\ Cut(t, k) \in Trees
         /\ \A j \in Entries : Cut(t, k)[j] = IF j >= k THEN None ELSE t[j]
<1>1. PICK u : u = Cut(t, k) OBVIOUS
<1>2. u \in [Entries -> Nodes] /\ \A j \in Entries : u[j] = IF j >= k THEN None ELSE t[j]
  BY <1>1, TreesAre, DirNodes DEF Cut
<1>3. u \in Trees
  <2>1. ASSUME NEW i \in Entries, NEW j \in Entries, u[i] # None, j < i PROVE u[j].kind = "dir"
    <3>1. ~(i >= k) /\ t[i] # None BY <1>2, <2>1
    <3>2. ~(j >= k) BY <3>1, <2>1, EntriesAre
    <3>3. t[j].kind = "dir" BY <3>1, <2>1, TreesAre
    <3> QED BY <3>2, <3>3, <1>2
  <2> QED BY <2>1, <1>2, IsATree
<1> QED BY <1>1, <1>2, <1>3

LEMMA RmTreeSays ==
  ASSUME SnapshotAssumption, NEW t \in Trees, NEW r, NEW k \in Entries
  PROVE  /\ RmTree(t, r, k).tree \in Trees
         /\ \A j \in Entries : j < k => RmTree(t, r, k).tree[j] = t[j]
         /\ \A j \in Entries : j >= k => RmTree(t, r, k).tree[j] \in {t[j], None}
         /\ RmTree(t, r, k).ok => RmTree(t, r, k).tree = Cut(t, k) /\ t[k].kind = "dir"
         /\ ~RmTree(t, r, k).ok => RmTree(t, r, k).tree[k] = t[k]
         /\ Free(t, r) /\ t[k].kind = "dir" => RmTree(t, r, k).ok
<1> DEFINE inside == {j \in k..Depth : t[j] # None}
           stuck == {j \in inside : ~Writable(t, r, j)}
<1>0. k \in Int /\ k >= 1 /\ k <= Depth /\ Depth \in Nat BY DEF SnapshotAssumption, Entries
<1>1. CASE t[k].kind # "dir"
  <2>1. RmTree(t, r, k) = [ok |-> FALSE, tree |-> t] BY <1>1 DEF RmTree, Stuck
  <2> QED BY <2>1, <1>1
<1>2. CASE t[k].kind = "dir" /\ \E j \in inside : t[j] = Dir("wx")
  <2>1. RmTree(t, r, k) = [ok |-> FALSE, tree |-> t] BY <1>2 DEF RmTree, Stuck
  <2>2. ~Free(t, r)
    <3>1. PICK j \in inside : t[j] = Dir("wx") BY <1>2
    <3>2. j \in Entries /\ t[j].kind = "dir" /\ t[j].value = "wx" BY <3>1, <1>0 DEF Entries, Dir
    <3> QED BY <3>2 DEF Free
  <2> QED BY <2>1, <2>2
<1>3. CASE t[k].kind = "dir" /\ ~(\E j \in inside : t[j] = Dir("wx")) /\ stuck = {}
  <2>1. RmTree(t, r, k) = [ok |-> TRUE, tree |-> Cut(t, k)] BY <1>3 DEF RmTree, Succeeded
  <2>2. Cut(t, k) \in Trees /\ \A j \in Entries : Cut(t, k)[j] = IF j >= k THEN None ELSE t[j]
    BY <1>0, CutSays
  <2> QED BY <2>1, <2>2, <1>3, <1>0 DEF Entries
<1>4. CASE t[k].kind = "dir" /\ ~(\E j \in inside : t[j] = Dir("wx")) /\ stuck # {}
  <2>1. PICK m : m = CHOOSE j \in stuck : \A i \in stuck : i <= j OBVIOUS
  <2>2. m \in stuck
    <3>1. stuck \in SUBSET (0 .. Depth) BY <1>0
    <3> HIDE DEF stuck
    <3>2. \E j \in stuck : \A i \in stuck : i <= j BY <3>1, <1>0, <1>4, GreatestOf
    <3> QED BY <2>1, <3>2
  <2>3. m \in k .. Depth BY <2>2
  <2>4. PICK c \in Int : c = 1 + m BY <2>3
  <2>5. RmTree(t, r, k) = [ok |-> FALSE, tree |-> Cut(t, c)] BY <1>4, <2>1, <2>4 DEF RmTree, Stuck
  <2>6. Cut(t, c) \in Trees /\ \A j \in Entries : Cut(t, c)[j] = IF j >= c THEN None ELSE t[j]
    BY CutSays
  <2>7. k < c /\ \A j \in Entries : j < k => j < c BY <2>3, <2>4, <1>0 DEF Entries
  <2>8. ~Free(t, r)
    <3>1. m \in Entries /\ t[m] # None /\ ~Writable(t, r, m) BY <2>2, <1>0 DEF Entries
    <3>2. m = 1 \/ t[m - 1].kind = "dir"
      <4>1. CASE m = 1 BY <4>1
      <4>2. CASE m # 1
        <5>1. m - 1 \in Entries /\ m - 1 < m BY <3>1, <4>2, EntriesAre
        <5> QED BY <5>1, <3>1, TreesAre
      <4> QED BY <4>1, <4>2
    <3> QED BY <3>1, <3>2, FreeIsWritable
  <2>9. \A j \in Entries : (j < c) \/ (j >= c) BY <2>4 DEF Entries
  <2>10. k \in Entries OBVIOUS
  <2>11. \A j \in Entries : j < k => Cut(t, c)[j] = t[j] BY <2>6, <2>7, <2>4 DEF Entries
  <2>12. \A j \in Entries : Cut(t, c)[j] \in {t[j], None} BY <2>6
  <2>13. Cut(t, c)[k] = t[k] BY <2>6, <2>7, <2>4, <1>0
  <2> QED BY <2>5, <2>6, <2>8, <2>11, <2>12, <2>13
<1> QED BY <1>1, <1>2, <1>3, <1>4

(* A link above entry k, which leads what is put at k out of the tree.      *)
Bridged(t, k) == \E i \in Entries : i < k /\ t[i].kind = "link"

LEMMA PutSays ==
  ASSUME SnapshotAssumption, NEW t \in Trees, NEW r, NEW k \in Entries, NEW n \in Nodes,
         t[k].kind # "dir", NEW p, p = Put(t, r, k, n)
  PROVE  /\ p.tree \in Trees
         /\ \A j \in Entries : k < j => p.tree[j] = t[j]
         /\ \A j \in Entries : j < k =>
              \/ p.tree[j] = t[j]
              \/ p.tree[j] = Dir("rwx") /\ \E i \in Entries : i <= j /\ t[i] = None
         /\ p.tree[k] \in {t[k], n}
         /\ p.ok => p.tree[k] = n \/ Bridged(t, k)
         /\ Free(t, r) /\ (\A i \in Entries : i < k => t[i].kind \in {"dir", "none"}) => p.ok
<1> DEFINE gaps == {j \in 1 .. (k - 1) : t[j].kind # "dir"}
<1>0. k \in Int /\ 1 <= k /\ k <= Depth /\ Depth \in Nat BY EntriesAre
<1>a. \A j \in 1 .. (k - 1) : j \in Entries /\ j < k
  <2> TAKE j \in 1 .. (k - 1)
  <2>1. j \in Int /\ 1 <= j /\ j < k /\ j <= Depth BY <1>0
  <2> QED BY <2>1, EntriesAre
<1>b. \A j \in Entries : j < k => j \in 1 .. (k - 1) BY <1>0, EntriesAre
<1>t. t \in [Entries -> Nodes] /\ \A j \in Entries : t[j] \in Nodes BY TreesAre
<1>d. \A j \in Entries : k < j => t[j] = None BY TreesAre
<1>1. CASE gaps = {}
  <2>1. p = IF Writable(t, r, k) THEN [ok |-> TRUE, tree |-> [t EXCEPT ![k] = n]]
            ELSE [ok |-> FALSE, tree |-> t]
    BY <1>1 DEF Put, Succeeded, Stuck
  <2>2. \A j \in Entries : j < k => t[j].kind = "dir" BY <1>1, <1>b
  <2>3. CASE Writable(t, r, k)
    <3>1. PICK u : u = [t EXCEPT ![k] = n] OBVIOUS
    <3>2. u \in [Entries -> Nodes] /\ u[k] = n /\ \A j \in Entries : j # k => u[j] = t[j]
      BY <3>1, <1>t
    <3>3. u \in Trees
      <4>1. ASSUME NEW i \in Entries, NEW j \in Entries, u[i] # None, j < i PROVE u[j].kind = "dir"
        <5>1. i <= k
          <6>1. CASE k < i BY <6>1, <4>1, <1>d, <3>2, EntriesAre
          <6> QED BY <6>1, EntriesAre
        <5>2. j < k BY <5>1, <4>1, EntriesAre
        <5> QED BY <5>2, <2>2, <3>2
      <4> QED BY <4>1, <3>2, IsATree
    <3>4. p.ok /\ p.tree = u BY <2>1, <2>3, <3>1
    <3>5. \A j \in Entries : k < j \/ j < k => j # k BY EntriesAre
    <3> QED BY <3>2, <3>3, <3>4, <3>5
  <2>4. CASE ~Writable(t, r, k)
    <3>1. ~p.ok /\ p.tree = t BY <2>1, <2>4
    <3>2. k = 1 \/ t[k - 1].kind = "dir"
      <4>1. CASE k # 1
        <5>1. k - 1 \in Entries /\ k - 1 < k BY <4>1, <1>0, EntriesAre
        <5> QED BY <5>1, <2>2
      <4> QED BY <4>1
    <3>3. ~Free(t, r) BY <3>2, <2>4, FreeIsWritable
    <3> QED BY <3>1, <3>3
  <2> QED BY <2>3, <2>4
<1>2. CASE gaps # {}
  <2> DEFINE First(j) == j \in gaps /\ \A i \in gaps : j <= i
  <2>1. \E j \in gaps : \A i \in gaps : j <= i
    <3>1. gaps \in SUBSET Nat BY <1>0
    <3> HIDE DEF gaps
    <3> QED BY <3>1, <1>2, LeastOf
  <2>2. PICK gap : gap = CHOOSE j \in gaps : \A i \in gaps : j <= i OBVIOUS
  <2>3. gap \in gaps /\ \A i \in gaps : gap <= i
    <3> HIDE DEF gaps
    <3> QED BY <2>1, <2>2
  <2>4. gap \in Entries /\ gap < k /\ t[gap].kind # "dir" BY <2>3, <1>a
  <2>5. \A j \in Entries : j < gap => t[j].kind = "dir"
    <3> TAKE j \in Entries
    <3>1. CASE j < gap
      <4>1. j < k /\ ~(gap <= j) BY <3>1, <2>4, EntriesAre
      <4>2. j \in 1 .. (k - 1) BY <4>1, <1>b
      <4> QED BY <4>1, <4>2, <2>3
    <3> QED BY <3>1
  <2>6. PICK u : u = [[j \in Entries |-> IF j \in gap .. (k - 1) THEN Dir("rwx") ELSE t[j]]
                        EXCEPT ![k] = n]
    OBVIOUS
  <2>7. p = CASE t[gap] = None /\ Writable(t, r, gap) -> [ok |-> TRUE, tree |-> u]
              [] LeadsToDir(t[gap]) -> [ok |-> TRUE, tree |-> t]
              [] OTHER -> [ok |-> FALSE, tree |-> t]
    BY <1>2, <2>2, <2>6 DEF Put, Succeeded, Stuck
  <2>8. t[gap] \in Nodes /\ (t[gap].kind = "none" <=> t[gap] = None) BY <2>4, <1>t, NodeKinds
  <2>9. CASE t[gap] = None /\ Writable(t, r, gap)
    <3>0. ~LeadsToDir(t[gap]) BY <2>9, DirNodes DEF LeadsToDir
    <3>1. p.ok /\ p.tree = u BY <2>7, <2>9, <3>0
    <3>2. \A j \in Entries : j \in gap .. (k - 1) <=> gap <= j /\ j < k BY <1>0, <2>4, EntriesAre
    <3>3. /\ u \in [Entries -> Nodes] /\ u[k] = n
          /\ \A j \in Entries : j # k => u[j] = IF gap <= j /\ j < k THEN Dir("rwx") ELSE t[j]
      BY <2>6, <3>2, <1>t, DirNodes
    <3>4. \A j \in Entries : k < j => u[j] = t[j] /\ u[j] = None BY <3>3, <1>d, EntriesAre
    <3>5. \A j \in Entries : j < k => u[j].kind = "dir"
      <4> TAKE j \in Entries
      <4>1. CASE j < gap /\ j < k BY <4>1, <3>3, <2>5, <2>4, EntriesAre
      <4>2. CASE gap <= j /\ j < k BY <4>2, <3>3, DirNodes, EntriesAre
      <4> QED BY <4>1, <4>2, <2>4, EntriesAre
    <3>6. u \in Trees
      <4>1. ASSUME NEW i \in Entries, NEW j \in Entries, u[i] # None, j < i PROVE u[j].kind = "dir"
        <5>1. ~(k < i) BY <4>1, <3>4
        <5>2. j < k BY <5>1, <4>1, EntriesAre
        <5> QED BY <5>2, <3>5
      <4> QED BY <4>1, <3>3, IsATree
    <3>7. \A j \in Entries : j < k =>
            u[j] = t[j] \/ (u[j] = Dir("rwx") /\ \E i \in Entries : i <= j /\ t[i] = None)
      <4> TAKE j \in Entries
      <4>1. CASE gap <= j /\ j < k BY <4>1, <3>3, <2>9, <2>4, EntriesAre
      <4>2. CASE ~(gap <= j) /\ j < k BY <4>2, <3>3, EntriesAre
      <4> QED BY <4>1, <4>2
    <3> QED BY <3>1, <3>3, <3>4, <3>6, <3>7
  <2>10. CASE ~(t[gap] = None /\ Writable(t, r, gap)) /\ LeadsToDir(t[gap])
    <3>1. p.ok /\ p.tree = t BY <2>7, <2>10
    <3>2. Bridged(t, k) BY <2>10, <2>4 DEF LeadsToDir, Bridged
    <3> QED BY <3>1, <3>2
  <2>11. CASE ~(t[gap] = None /\ Writable(t, r, gap)) /\ ~LeadsToDir(t[gap])
    <3>1. ~p.ok /\ p.tree = t BY <2>7, <2>11
    <3>2. gap = 1 \/ t[gap - 1].kind = "dir"
      <4>1. CASE gap # 1
        <5>1. gap - 1 \in Entries /\ gap - 1 < gap BY <4>1, <2>4, EntriesAre
        <5> QED BY <5>1, <2>5
      <4> QED BY <4>1
    <3>3. Free(t, r) => Writable(t, r, gap) BY <3>2, <2>4, FreeIsWritable
    <3>4. ~(Free(t, r) /\ \A i \in Entries : i < k => t[i].kind \in {"dir", "none"})
      BY <3>3, <2>4, <2>8, <2>11
    <3> QED BY <3>1, <3>4
  <2> QED BY <2>9, <2>10, <2>11
<1> QED BY <1>1, <1>2

LEMMA PutLands ==
  ASSUME SnapshotAssumption, NEW t \in Trees, NEW r, NEW k \in Entries, NEW n \in Nodes,
         t[k].kind # "dir", NEW p, p = Put(t, r, k, n), p.ok
  PROVE  p.tree[k] = n \/ Bridged(t, k)
BY PutSays

-----------------------------------------------------------------------------
(* The passes.  What any of them does at entry k to the rest of the tree: a *)
(* directory that was there may come back above it, and what was not there  *)
(* may go below it; and it puts nothing anywhere that was not there before. *)
Frame(s, t, k, u) ==
  /\ u \in Trees
  /\ \A j \in Entries : j < k =>
       \/ u[j] = t[j]
       \/ /\ s[j].kind = "dir" /\ u[j].kind = "dir"
          /\ \E i \in Entries : i <= j /\ s[i].kind = "dir" /\ t[i] = None
  /\ \A j \in Entries : k < j => u[j] = t[j] \/ (u[j] = None /\ s[j] = None)
  /\ \A j \in Entries : u[j] \in {t[j], None, s[j], Dir("rwx")}

LEMMA SameFrame ==
  ASSUME SnapshotAssumption, NEW s, NEW t \in Trees, NEW k PROVE Frame(s, t, k, t)
BY DEF Frame

LEMMA FrameIsFree ==
  ASSUME NEW s, NEW t, NEW k, NEW u, NEW r, Frame(s, t, k, u), Free(t, r), Free(s, "rwx")
  PROVE  Free(u, r)
<1>1. \A j \in Entries : u[j] \in {t[j], None, s[j], Dir("rwx")} BY DEF Frame
<1>2. None.kind # "dir" /\ Dir("rwx").value = "rwx" BY DEF None, Dir
<1> QED BY <1>1, <1>2 DEF Free

\* What is below an entry that was no directory was not there.
LEMMA BelowNothing ==
  ASSUME SnapshotAssumption, NEW s \in Trees, NEW k \in Entries, s[k].kind # "dir"
  PROVE  \A j \in Entries : k < j => s[j] = None
BY TreesAre

LEMMA UnlinkFrame ==
  ASSUME SnapshotAssumption, NEW s \in Trees, NEW t \in Trees, NEW r, NEW k \in Entries,
         t[k].kind # "dir"
  PROVE  Frame(s, t, k, Unlink(t, r, k).tree)
<1>1. PICK p : p = Unlink(t, r, k) OBVIOUS
<1>2. /\ p.tree \in Trees
      /\ \A j \in Entries : j # k => p.tree[j] = t[j]
      /\ p.ok => p.tree[k] = None
      /\ ~p.ok => p.tree = t
  BY <1>1, UnlinkSays
<1>3. \A j \in Entries : j < k \/ k < j => j # k BY EntriesAre
<1>4. p.tree[k] \in {t[k], None} BY <1>2
<1>5. \A j \in Entries : p.tree[j] \in {t[j], None} BY <1>2, <1>4
<1> QED BY <1>1, <1>2, <1>3, <1>5 DEF Frame

LEMMA RmTreeFrame ==
  ASSUME SnapshotAssumption, NEW s \in Trees, NEW t \in Trees, NEW r, NEW k \in Entries,
         s[k].kind # "dir"
  PROVE  Frame(s, t, k, RmTree(t, r, k).tree)
<1>1. PICK p : p = RmTree(t, r, k) OBVIOUS
<1>2. /\ p.tree \in Trees
      /\ \A j \in Entries : j < k => p.tree[j] = t[j]
      /\ \A j \in Entries : j >= k => p.tree[j] \in {t[j], None}
  BY <1>1, RmTreeSays
<1>3. \A j \in Entries : k < j => j >= k /\ s[j] = None BY EntriesAre, BelowNothing
<1>4. \A j \in Entries : j < k \/ j >= k BY EntriesAre
<1>5. \A j \in Entries : p.tree[j] \in {t[j], None} BY <1>2, <1>4
<1> QED BY <1>1, <1>2, <1>3, <1>5 DEF Frame

\* An entry that was there is put back, and what leads to it was a directory.
LEMMA PutFrame ==
  ASSUME SnapshotAssumption, NEW s \in Trees, NEW t \in Trees, NEW r, NEW k \in Entries,
         t[k].kind # "dir", s[k] # None
  PROVE  Frame(s, t, k, Put(t, r, k, s[k]).tree)
<1>0. s[k] \in Nodes BY TreesAre
<1>1. PICK p : p = Put(t, r, k, s[k]) OBVIOUS
<1>2. /\ p.tree \in Trees
      /\ \A j \in Entries : k < j => p.tree[j] = t[j]
      /\ \A j \in Entries : j < k =>
           p.tree[j] = t[j] \/ (p.tree[j] = Dir("rwx") /\ \E i \in Entries : i <= j /\ t[i] = None)
      /\ p.tree[k] \in {t[k], s[k]}
  BY <1>0, <1>1, PutSays
<1>3. \A j \in Entries : j < k => s[j].kind = "dir" BY TreesAre
<1>4. ASSUME NEW j \in Entries, j < k, p.tree[j] # t[j]
      PROVE  /\ s[j].kind = "dir" /\ p.tree[j].kind = "dir"
             /\ \E i \in Entries : i <= j /\ s[i].kind = "dir" /\ t[i] = None
  <2>1. p.tree[j] = Dir("rwx") BY <1>2, <1>4
  <2>2. PICK i \in Entries : i <= j /\ t[i] = None BY <1>2, <1>4
  <2>3. i < k BY <2>2, <1>4, EntriesAre
  <2> QED BY <1>3, <1>4, <2>1, <2>2, <2>3, DirNodes
<1>5. \A j \in Entries : p.tree[j] \in {t[j], s[j], Dir("rwx")}
  <2> TAKE j \in Entries
  <2>1. CASE j = k BY <2>1, <1>2
  <2>2. CASE j < k BY <2>2, <1>2
  <2>3. CASE k < j BY <2>3, <1>2
  <2> QED BY <2>1, <2>2, <2>3, EntriesAre
<1> QED BY <1>1, <1>2, <1>4, <1>5 DEF Frame

\* What is put where a directory was removed.
LEMMA FrameThenPut ==
  ASSUME SnapshotAssumption, NEW s \in Trees, NEW t \in Trees, NEW r, NEW k \in Entries,
         NEW u \in Trees,
         s[k] # None, s[k].kind # "dir", u[k].kind # "dir",
         \A j \in Entries : j < k => u[j] = t[j],
         \A j \in Entries : k <= j => u[j] \in {t[j], None}
  PROVE  /\ Frame(s, t, k, Put(u, r, k, s[k]).tree)
         /\ Bridged(u, k) => Bridged(t, k)
<1>0. s[k] \in Nodes BY TreesAre
<1>1. PICK p : p = Put(u, r, k, s[k]) OBVIOUS
<1>t. p.tree[k] \in {u[k], s[k]} BY <1>0, <1>1, PutSays
<1>k. k \in Entries /\ k <= k BY EntriesAre
<1>n. p.tree[k] \in {t[k], None, s[k]} BY <1>t, <1>k
<1>2. Frame(s, u, k, p.tree) BY <1>1, PutFrame
<1>3. \A j \in Entries : k < j => s[j] = None BY BelowNothing
<1>4. p.tree \in Trees BY <1>2 DEF Frame
<1>5. ASSUME NEW j \in Entries, j < k, p.tree[j] # t[j]
      PROVE  /\ s[j].kind = "dir" /\ p.tree[j].kind = "dir"
             /\ \E i \in Entries : i <= j /\ s[i].kind = "dir" /\ t[i] = None
  <2>1. s[j].kind = "dir" /\ p.tree[j].kind = "dir" BY <1>2, <1>5 DEF Frame
  <2>2. PICK i \in Entries : i <= j /\ s[i].kind = "dir" /\ u[i] = None BY <1>2, <1>5 DEF Frame
  <2>3. i < k BY <2>2, <1>5, EntriesAre
  <2> QED BY <2>1, <2>2, <2>3
<1>6. \A j \in Entries : k < j => p.tree[j] = t[j] \/ (p.tree[j] = None /\ s[j] = None)
  <2> TAKE j \in Entries
  <2>1. k < j => p.tree[j] \in {u[j], None} BY <1>2 DEF Frame
  <2>2. k < j => k <= j BY EntriesAre
  <2> QED BY <2>1, <2>2, <1>3
<1>7. \A j \in Entries : p.tree[j] \in {t[j], None, s[j], Dir("rwx")}
  <2> TAKE j \in Entries
  <2>1. p.tree[j] \in {u[j], None, s[j], Dir("rwx")} BY <1>2 DEF Frame
  <2>2. CASE j = k BY <2>2, <1>n
  <2>3. CASE j < k BY <2>3, <2>1
  <2>4. CASE k < j BY <2>4, <2>1, EntriesAre
  <2> QED BY <2>2, <2>3, <2>4, EntriesAre
<1>8. Bridged(u, k) => Bridged(t, k) BY DEF Bridged
<1> QED BY <1>1, <1>4, <1>5, <1>6, <1>7, <1>8 DEF Frame

LEMMA QuietlyIs ==
  ASSUME NEW p PROVE Quietly(p).tree = p.tree /\ (Quietly(p).named <=> ~p.ok)
<1>1. PICK stuck : stuck = ~p.ok OBVIOUS
<1>2. Quietly(p) = [tree |-> p.tree, named |-> stuck] BY <1>1, Zenon DEF Quietly
<1>3. Quietly(p).tree = p.tree /\ Quietly(p).named = stuck BY <1>2
<1> QED BY <1>1, <1>3, Zenon

\* What the walk leaves of an entry that was x: nothing that the passes to come trip over.
Walked(x, y) ==
  /\ x.kind \in Unrecorded => y \in {x, None}
  /\ x.kind = "none" => y = None
  /\ x.kind = "dir" => y.kind \in {"dir", "none"}
  /\ x.kind = "file" => y \in {x, None} \/ y.kind = "dir"

LEMMA ListedWhenThere ==
  ASSUME SnapshotAssumption, NEW t \in Trees, NEW r \in Rights, NEW k \in Entries, t[k] # None,
         "wx" \notin Rights \/ Free(t, r)
  PROVE  Listed(t, r, k)
<1>0. k \in Int /\ k <= Depth /\ Depth \in Nat BY EntriesAre
<1> SUFFICES ASSUME NEW j \in 1 .. k PROVE Holder(t, r, j) \in {"rwx", "rx"}
  BY DEF Listed
<1>1. j \in Int /\ 1 <= j /\ j <= k /\ j <= Depth BY <1>0
<1>2. j \in Entries BY <1>1, EntriesAre
<1>3. CASE j = 1 BY <1>3 DEF Holder, Free, SnapshotAssumption
<1>4. CASE j # 1
  <2>1. j - 1 \in Entries /\ j - 1 < k BY <1>0, <1>1, <1>4, EntriesAre
  <2>2. t[j - 1].kind = "dir" BY <2>1, TreesAre
  <2>3. t[j - 1].value \in Rights BY <2>1, <2>2, TreesAre, NodeKinds
  <2>4. Holder(t, r, j) = t[j - 1].value BY <1>4, <2>2 DEF Holder
  <2>5. Free(t, r) => t[j - 1].value = "rwx" BY <2>1, <2>2 DEF Free
  <2> QED BY <2>3, <2>4, <2>5 DEF SnapshotAssumption
<1> QED BY <1>3, <1>4

\* An entry that is there lies in directories: nothing leads away, nothing is missing.
LEMMA NothingInBetween ==
  ASSUME SnapshotAssumption, NEW t \in Trees, NEW k \in Entries, t[k] # None
  PROVE  /\ ~Bridged(t, k)
         /\ \A i \in Entries : i < k => t[i].kind \in {"dir", "none"}
         /\ \A r : Free(t, r) => Writable(t, r, k)
<1>1. \A i \in Entries : i < k => t[i].kind = "dir" BY TreesAre
<1>2. ~Bridged(t, k) BY <1>1 DEF Bridged
<1>3. k = 1 \/ t[k - 1].kind = "dir"
  <2>1. CASE k # 1
    <3>1. k - 1 \in Entries /\ k - 1 < k BY <2>1, EntriesAre
    <3> QED BY <3>1, <1>1
  <2> QED BY <2>1
<1> QED BY <1>1, <1>2, <1>3, FreeIsWritable

LEMMA PutInPlace ==
  ASSUME SnapshotAssumption, NEW t \in Trees, NEW r, NEW k \in Entries, NEW n \in Nodes,
         t[k].kind # "dir", t[k] # None, NEW p, p = Put(t, r, k, n)
  PROVE  (p.ok => p.tree[k] = n) /\ (Free(t, r) => p.ok)
<1>1. p.ok => p.tree[k] = n \/ Bridged(t, k) BY PutSays
<1>2. Free(t, r) /\ (\A i \in Entries : i < k => t[i].kind \in {"dir", "none"}) => p.ok BY PutSays
<1> QED BY <1>1, <1>2, NothingInBetween

LEMMA WalkFileSays ==
  ASSUME SnapshotAssumption, NEW s \in Trees, NEW t \in Trees, NEW r \in Rights, NEW k \in Entries,
         t[k] # None, ~LeadsToDir(t[k]), NEW m, m = WalkFile(s, t, r, k)
  PROVE  /\ Frame(s, t, k, m.tree)
         /\ m.named \/ Walked(s[k], m.tree[k])
         /\ Free(t, r) /\ (s[k].kind \in Unrecorded => t[k] = s[k]) => ~m.named
         /\ s[k].kind \in Unrecorded /\ t[k] = s[k] => m.tree = t
<1>1. s[k] \in Nodes /\ s[k].kind \in {"none", "file", "big", "odd", "link", "dir"}
      /\ t \in [Entries -> Nodes] /\ t[k].kind # "dir"
  BY TreesAre, NodeKinds DEF LeadsToDir
<1>2. PICK d : d = Unlink(t, r, k) OBVIOUS
<1>3. /\ Frame(s, t, k, d.tree)
      /\ d.ok => d.tree[k] = None
      /\ Free(t, r) => d.ok
  BY <1>1, <1>2, UnlinkFrame, UnlinkSays, NothingInBetween
<1>4. CASE s[k].kind \in Unrecorded /\ t[k] = s[k]
  <2>1. m = [tree |-> t, named |-> FALSE] BY <1>4 DEF WalkFile, Left, Unrecorded
  <2>2. Walked(s[k], t[k]) BY <1>4 DEF Walked, Unrecorded
  <2> QED BY <2>1, <2>2, SameFrame
<1>5. CASE s[k].kind \in Unrecorded /\ t[k] # s[k]
  <2>1. m = [tree |-> d.tree, named |-> TRUE] BY <1>5, <1>2 DEF WalkFile, Naming, Unrecorded
  <2> QED BY <2>1, <1>3, <1>5
<1>6. CASE s[k].kind \in {"none", "dir"}
  <2>1. m = Quietly(d) BY <1>6, <1>2 DEF WalkFile, Unrecorded
  <2>2. Walked(s[k], None) BY <1>6 DEF Walked, Unrecorded, None
  <2>3. m.tree = d.tree /\ (m.named <=> ~d.ok) BY <2>1, QuietlyIs
  <2>4. s[k].kind \notin Unrecorded BY <1>6 DEF Unrecorded
  <2> QED BY <2>3, <2>2, <2>4, <1>3
<1>7. CASE s[k].kind = "link"
  <2>1. m = [tree |-> t, named |-> FALSE] BY <1>7 DEF WalkFile, Left, Unrecorded
  <2>2. Walked(s[k], t[k]) BY <1>7 DEF Walked, Unrecorded
  <2> QED BY <2>1, <2>2, SameFrame
<1>8. CASE s[k].kind = "file" /\ t[k].kind = "file" /\ t[k].value[1] = s[k].value[1]
  <2>1. m = [tree |-> [t EXCEPT ![k] = s[k]], named |-> FALSE]
    BY <1>8 DEF WalkFile, Left, Unrecorded
  <2>2. PICK u : u = [t EXCEPT ![k] = s[k]] OBVIOUS
  <2>3. u \in [Entries -> Nodes] /\ u[k] = s[k] /\ \A j \in Entries : j # k => u[j] = t[j]
    BY <2>2, <1>1
  <2>4. u \in Trees
    <3>1. ASSUME NEW i \in Entries, NEW j \in Entries, u[i] # None, j < i PROVE u[j].kind = "dir"
      <4>1. t[i] # None BY <3>1, <2>3
      <4>2. t[j].kind = "dir" BY <4>1, <3>1, TreesAre
      <4> QED BY <4>2, <2>3, <1>1
    <3> QED BY <3>1, <2>3, IsATree
  <2>5. Frame(s, t, k, u)
    <3>1. \A j \in Entries : j < k \/ k < j => j # k BY EntriesAre
    <3> QED BY <2>3, <2>4, <3>1 DEF Frame
  <2>6. Walked(s[k], s[k]) BY <1>8 DEF Walked, Unrecorded
  <2> QED BY <2>1, <2>2, <2>3, <2>5, <2>6
<1>9. CASE s[k].kind = "file" /\ ~(t[k].kind = "file" /\ t[k].value[1] = s[k].value[1])
  <2>1. PICK p : p = Put(t, r, k, s[k]) OBVIOUS
  <2>2. m = Quietly(p) BY <1>9, <2>1 DEF WalkFile, Unrecorded
  <2>3. s[k] # None BY <1>9, <1>1, NodeKinds
  <2>4. Frame(s, t, k, p.tree) BY <1>1, <2>1, <2>3, PutFrame
  <2>5. (p.ok => p.tree[k] = s[k]) /\ (Free(t, r) => p.ok)
    <3>1. s[k] \in Nodes /\ t[k].kind # "dir" BY <1>1
    <3> QED BY <3>1, <2>1, PutInPlace
  <2>6. Walked(s[k], s[k]) BY <1>9 DEF Walked, Unrecorded
  <2>7. m.tree = p.tree /\ (m.named <=> ~p.ok) BY <2>2, QuietlyIs
  <2>8. s[k].kind \notin Unrecorded BY <1>9 DEF Unrecorded
  <2> QED BY <2>4, <2>5, <2>6, <2>7, <2>8
<1> QED BY <1>1, <1>4, <1>5, <1>6, <1>7, <1>8, <1>9 DEF Unrecorded

LEMMA WalkDirSays ==
  ASSUME SnapshotAssumption, NEW s \in Trees, NEW t \in Trees, NEW r \in Rights, NEW k \in Entries,
         t[k] # None, LeadsToDir(t[k]), NEW m, m = WalkDir(s, t, r, k)
  PROVE  /\ Frame(s, t, k, m.tree)
         /\ m.named \/ Walked(s[k], m.tree[k])
         /\ Free(t, r) /\ (s[k].kind \in Unrecorded => t[k] = s[k]) => ~m.named
         /\ s[k].kind \in Unrecorded /\ t[k] = s[k] => m.tree = t
<1>1. s[k] \in Nodes /\ s[k].kind \in {"none", "file", "big", "odd", "link", "dir"}
  BY TreesAre, NodeKinds
<1>a. s[k].kind \in Unrecorded => s[k].kind \notin {"dir", "link"} BY DEF Unrecorded
<1>b. t[k].kind \in {"dir", "link"} BY DEF LeadsToDir
<1>2. CASE t[k].kind = "link" /\ s[k].kind # "link"
  <2>1. PICK d : d = Unlink(t, r, k) OBVIOUS
  <2>2. /\ Frame(s, t, k, d.tree)
        /\ d.ok => d.tree[k] = None
        /\ Free(t, r) => d.ok
    BY <1>2, <2>1, UnlinkFrame, UnlinkSays, NothingInBetween
  <2>3. m = Quietly(d) BY <1>2, <2>1 DEF WalkDir
  <2>4. Walked(s[k], None) BY DEF Walked, None
  <2>5. m.tree = d.tree /\ (m.named <=> ~d.ok) BY <2>3, QuietlyIs
  <2>6. t[k] # s[k] BY <1>2
  <2> QED BY <2>2, <2>4, <2>5, <2>6
<1>3. CASE t[k].kind = "link" /\ s[k].kind = "link" /\ t[k].value[1] = s[k].value[1]
  <2>1. m = [tree |-> t, named |-> FALSE] BY <1>3 DEF WalkDir, Left
  <2>2. Walked(s[k], t[k]) BY <1>3 DEF Walked, Unrecorded
  <2> QED BY <2>1, <2>2, SameFrame
<1>4. CASE t[k].kind = "link" /\ s[k].kind = "link" /\ t[k].value[1] # s[k].value[1]
  <2>1. PICK p : p = Put(t, r, k, s[k]) OBVIOUS
  <2>2. m = Quietly(p) BY <1>4, <2>1 DEF WalkDir
  <2>3. s[k] # None BY <1>4, <1>1, NodeKinds
  <2>4. Frame(s, t, k, p.tree) BY <1>4, <2>1, <2>3, PutFrame
  <2>5. Free(t, r) => p.ok
    <3>1. s[k] \in Nodes /\ t[k].kind # "dir" BY <1>1, <1>4
    <3> QED BY <3>1, <2>1, PutInPlace
  <2>6. Walked(s[k], p.tree[k]) BY <1>4 DEF Walked, Unrecorded
  <2>7. m.tree = p.tree /\ (m.named <=> ~p.ok) BY <2>2, QuietlyIs
  <2>8. s[k].kind \notin Unrecorded BY <1>4, <1>a
  <2> QED BY <2>4, <2>5, <2>6, <2>7, <2>8
<1>5. CASE t[k].kind = "dir" /\ s[k].kind \in {"none"} \cup Unrecorded
  <2>1. PICK d : d = RmTree(t, r, k) OBVIOUS
  <2>2. s[k].kind # "dir" BY <1>5, <1>a
  <2>3. /\ Frame(s, t, k, d.tree)
        /\ d.ok => d.tree[k] = None
        /\ Free(t, r) => d.ok
    <3>1. Frame(s, t, k, d.tree) BY <2>1, <2>2, RmTreeFrame
    <3>2. d.ok => d.tree = Cut(t, k) BY <2>1, RmTreeSays
    <3>3. Cut(t, k)[k] = None
      <4>1. k \in Int /\ k >= k BY EntriesAre
      <4> QED BY <4>1, CutSays
    <3>4. Free(t, r) => d.ok BY <1>5, <2>1, RmTreeSays
    <3> QED BY <3>1, <3>2, <3>3, <3>4
  <2>4. CASE s[k].kind = "none"
    <3>1. m = Quietly(d) BY <1>5, <2>4, <2>1 DEF WalkDir, Unrecorded
    <3>2. m.tree = d.tree /\ (m.named <=> ~d.ok) BY <3>1, QuietlyIs
    <3>3. Walked(s[k], None) BY <2>4 DEF Walked, None
    <3>4. s[k].kind \notin Unrecorded BY <2>4 DEF Unrecorded
    <3> QED BY <2>3, <3>2, <3>3, <3>4
  <2>5. CASE s[k].kind \in Unrecorded
    <3>0. s[k].kind # "none" BY <2>5 DEF Unrecorded
    <3>1. m = [tree |-> d.tree, named |-> TRUE] BY <1>5, <2>5, <3>0, <2>1 DEF WalkDir, Naming
    <3>2. t[k] # s[k] BY <1>5, <2>2
    <3> QED BY <2>3, <3>1, <3>2, <2>5
  <2> QED BY <1>5, <2>4, <2>5
<1>6. CASE t[k].kind = "dir" /\ s[k].kind \in {"file", "link", "dir"}
  <2>0. s[k].kind # "none" /\ s[k].kind \notin Unrecorded BY <1>6 DEF Unrecorded
  <2>1. m = [tree |-> t, named |-> FALSE] BY <1>6, <2>0 DEF WalkDir, Left
  <2>2. Walked(s[k], t[k]) BY <1>6, <2>0 DEF Walked
  <2> QED BY <2>1, <2>2, SameFrame
<1>7. s[k].kind \in {"none", "file", "link", "dir"} \cup Unrecorded BY <1>1 DEF Unrecorded
<1> QED BY <1>7, <1>b, <1>2, <1>3, <1>4, <1>5, <1>6

LEMMA WalkSays ==
  ASSUME SnapshotAssumption, NEW s \in Trees, NEW t \in Trees, NEW r \in Rights, NEW k \in Entries,
         NEW m, m = WalkEntry(s, t, r, k)
  PROVE  /\ Frame(s, t, k, m.tree)
         /\ "wx" \notin Rights \/ Free(t, r) => m.named \/ Walked(s[k], m.tree[k])
         /\ Free(t, r) /\ (s[k].kind \in Unrecorded => t[k] = s[k]) => ~m.named
         /\ s[k].kind \in Unrecorded /\ t[k] = s[k] => m.tree = t
<1>1. CASE t[k] = None
  <2>1. m = [tree |-> t, named |-> FALSE] BY <1>1 DEF WalkEntry, Left
  <2>2. Walked(s[k], None) BY DEF Walked, None
  <2> QED BY <1>1, <2>1, <2>2, SameFrame
<1>2. CASE t[k] # None /\ ~Listed(t, r, k)
  <2>1. m = [tree |-> t, named |-> FALSE] BY <1>2 DEF WalkEntry, Left
  <2>2. ~("wx" \notin Rights \/ Free(t, r)) BY <1>2, ListedWhenThere
  <2> QED BY <2>1, <2>2, SameFrame
<1>3. CASE t[k] # None /\ Listed(t, r, k) /\ LeadsToDir(t[k])
  <2>1. m = WalkDir(s, t, r, k) BY <1>3 DEF WalkEntry
  <2> QED BY <1>3, <2>1, WalkDirSays
<1>4. CASE t[k] # None /\ Listed(t, r, k) /\ ~LeadsToDir(t[k])
  <2>1. m = WalkFile(s, t, r, k) BY <1>4 DEF WalkEntry
  <2> QED BY <1>4, <2>1, WalkFileSays
<1> QED BY <1>1, <1>2, <1>3, <1>4

\* Something is removed at k, and what was there is put back.
LEMMA ThenPutSays ==
  ASSUME SnapshotAssumption, NEW s \in Trees, NEW t \in Trees, NEW r, NEW k \in Entries,
         s[k].kind \in {"file", "link"}, NEW clear,
         \/ clear = RmTree(t, r, k)
         \/ t[k].kind # "dir" /\ clear = Unlink(t, r, k)
         \/ t[k] = None /\ clear = Succeeded(t),
         NEW m, m = Quietly(ThenPut(clear, r, k, s[k]))
  PROVE  /\ Frame(s, t, k, m.tree)
         /\ m.named \/ m.tree[k] = s[k] \/ Bridged(t, k)
         /\ Free(t, r) /\ clear.ok
            /\ (\A i \in Entries : i < k => t[i].kind \in {"dir", "none"}) => ~m.named
<1>1. s[k] \in Nodes /\ s[k] # None /\ s[k].kind # "dir"
  BY TreesAre, DirNodes
<1>2. /\ Frame(s, t, k, clear.tree)
      /\ clear.ok => clear.tree[k] = None
      /\ \A j \in Entries : j < k => clear.tree[j] = t[j]
      /\ \A j \in Entries : k <= j => clear.tree[j] \in {t[j], None}
  <2>1. CASE clear = RmTree(t, r, k)
    <3>1. Frame(s, t, k, clear.tree) BY <2>1, <1>1, RmTreeFrame
    <3>2. /\ clear.ok => clear.tree = Cut(t, k)
          /\ \A j \in Entries : j < k => clear.tree[j] = t[j]
          /\ \A j \in Entries : j >= k => clear.tree[j] \in {t[j], None}
      BY <2>1, RmTreeSays
    <3>3. Cut(t, k)[k] = None
      <4>1. k \in Int /\ k >= k BY EntriesAre
      <4> QED BY <4>1, CutSays
    <3>4. \A j \in Entries : k <= j => j >= k BY EntriesAre
    <3> QED BY <3>1, <3>2, <3>3, <3>4
  <2>2. CASE t[k].kind # "dir" /\ clear = Unlink(t, r, k)
    <3>1. Frame(s, t, k, clear.tree) BY <2>2, UnlinkFrame
    <3>2. /\ \A j \in Entries : j # k => clear.tree[j] = t[j]
          /\ clear.ok => clear.tree[k] = None
          /\ ~clear.ok => clear.tree = t
      BY <2>2, UnlinkSays
    <3>3. \A j \in Entries : j < k => j # k BY EntriesAre
    <3>4. clear.tree[k] \in {t[k], None} BY <3>2
    <3>5. \A j \in Entries : clear.tree[j] \in {t[j], None} BY <3>2, <3>4
    <3> QED BY <3>1, <3>2, <3>3, <3>5
  <2>3. CASE t[k] = None /\ clear = Succeeded(t)
    <3>1. clear.tree = t BY <2>3 DEF Succeeded
    <3> QED BY <3>1, <2>3, SameFrame
  <2> QED BY <2>1, <2>2, <2>3
<1>3. CASE ~clear.ok
  <2>1. ThenPut(clear, r, k, s[k]) = clear BY <1>3 DEF ThenPut
  <2>2. m.tree = clear.tree /\ m.named BY <2>1, <1>3, QuietlyIs
  <2> QED BY <2>2, <1>2, <1>3
<1>4. CASE clear.ok
  <2>1. PICK u : u = clear.tree OBVIOUS
  <2>2. u \in Trees /\ u[k] = None /\ u[k].kind # "dir" BY <2>1, <1>2, <1>4, DirNodes DEF Frame
  <2>3. PICK p : p = Put(u, r, k, s[k]) OBVIOUS
  <2>4. ThenPut(clear, r, k, s[k]) = p BY <1>4, <2>1, <2>3 DEF ThenPut
  <2>5. m.tree = p.tree /\ (m.named <=> ~p.ok) BY <2>4, QuietlyIs
  <2>6. \A j \in Entries : j < k => u[j] = t[j] BY <1>2, <2>1
  <2>7. \A j \in Entries : k <= j => u[j] \in {t[j], None} BY <1>2, <2>1
  <2>8. Frame(s, t, k, p.tree) /\ (Bridged(u, k) => Bridged(t, k))
    BY <1>1, <2>2, <2>3, <2>6, <2>7, FrameThenPut
  <2>9. ASSUME p.ok PROVE p.tree[k] = s[k] \/ Bridged(u, k) BY <1>1, <2>2, <2>3, <2>9, PutLands
  <2>10. Free(u, r) /\ (\A i \in Entries : i < k => u[i].kind \in {"dir", "none"}) => p.ok
    BY <1>1, <2>2, <2>3, PutSays
  <2>11. Free(t, r) => Free(u, r)
    <3>1. \A j \in Entries : u[j] \in {t[j], None}
      <4> TAKE j \in Entries
      <4>1. j < k \/ k <= j BY EntriesAre
      <4> QED BY <4>1, <2>6, <2>7
    <3> QED BY <3>1, DirNodes DEF Free
  <2> QED BY <2>5, <2>6, <2>8, <2>9, <2>10, <2>11
<1> QED BY <1>3, <1>4

LEMMA PutLinkSays ==
  ASSUME SnapshotAssumption, NEW s \in Trees, NEW t \in Trees, NEW r, NEW k \in Entries,
         NEW m, m = PutLink(s, t, r, k)
  PROVE  /\ Frame(s, t, k, m.tree)
         /\ s[k].kind # "link" => m.tree = t /\ ~m.named
         /\ s[k].kind = "link" => m.named \/ m.tree[k] = s[k] \/ Bridged(t, k)
         /\ Free(t, r) /\ (\A i \in Entries : i < k => t[i].kind \in {"dir", "none"}) => ~m.named
<1>1. CASE s[k].kind # "link"
  <2>1. m = [tree |-> t, named |-> FALSE] BY <1>1 DEF PutLink, Left
  <2> QED BY <1>1, <2>1, SameFrame
<1>2. CASE s[k].kind = "link" /\ t[k].kind = "link" /\ t[k].value[1] = s[k].value[1]
  <2>1. m = [tree |-> t, named |-> FALSE] BY <1>2 DEF PutLink, Left
  <2>2. /\ s[k].value \in LinkTargets /\ s[k] = [kind |-> "link", value |-> s[k].value]
        /\ t[k].value \in LinkTargets /\ t[k] = [kind |-> "link", value |-> t[k].value]
    BY <1>2, TreesAre, NodeKinds
  <2>3. t[k].value = s[k].value BY <1>2, <2>2 DEF SnapshotAssumption
  <2>4. t[k] = s[k] BY <2>2, <2>3
  <2> QED BY <1>2, <2>1, <2>4, SameFrame
<1>3. CASE s[k].kind = "link" /\ t[k].kind = "link" /\ t[k].value[1] # s[k].value[1]
  <2>0. s[k] \in Nodes /\ s[k] # None /\ t[k].kind # "dir" /\ t[k] # None
    BY <1>3, TreesAre, DirNodes
  <2>1. PICK p : p = Put(t, r, k, s[k]) OBVIOUS
  <2>2. m = Quietly(p) BY <1>3, <2>1 DEF PutLink
  <2>3. m.tree = p.tree /\ (m.named <=> ~p.ok) BY <2>2, QuietlyIs
  <2>4. Frame(s, t, k, p.tree) BY <2>0, <2>1, PutFrame
  <2>5. (p.ok => p.tree[k] = s[k]) /\ (Free(t, r) => p.ok) BY <2>0, <2>1, PutInPlace
  <2> QED BY <1>3, <2>3, <2>4, <2>5
<1>4. CASE s[k].kind = "link" /\ t[k].kind # "link"
  <2> DEFINE clear == CASE t[k].kind = "dir" -> RmTree(t, r, k)
                        [] t[k] = None -> Succeeded(t)
                        [] OTHER -> Unlink(t, r, k)
  <2>1. PICK c : c = clear OBVIOUS
  <2>2. m = Quietly(ThenPut(c, r, k, s[k])) BY <1>4, <2>1 DEF PutLink
  <2>3. t[k] = None => t[k].kind # "dir" BY DirNodes
  <2>4. \/ t[k].kind = "dir" /\ c = RmTree(t, r, k)
        \/ t[k].kind # "dir" /\ t[k] # None /\ c = Unlink(t, r, k)
        \/ t[k] = None /\ c = Succeeded(t)
    BY <2>1, <2>3
  <2> HIDE DEF clear
  <2>5. /\ Frame(s, t, k, m.tree)
        /\ m.named \/ m.tree[k] = s[k] \/ Bridged(t, k)
        /\ Free(t, r) /\ c.ok
           /\ (\A i \in Entries : i < k => t[i].kind \in {"dir", "none"}) => ~m.named
    <3>1. \/ c = RmTree(t, r, k)
          \/ t[k].kind # "dir" /\ c = Unlink(t, r, k)
          \/ t[k] = None /\ c = Succeeded(t)
      BY <2>4
    <3>2. s[k].kind \in {"file", "link"} BY <1>4
    <3> QED BY <2>2, <3>1, <3>2, ThenPutSays
  <2>6. Free(t, r) => c.ok
    <3>1. CASE t[k].kind = "dir" /\ c = RmTree(t, r, k) BY <3>1, RmTreeSays
    <3>2. CASE t[k].kind # "dir" /\ t[k] # None /\ c = Unlink(t, r, k)
      BY <3>2, UnlinkSays, NothingInBetween
    <3>3. CASE t[k] = None /\ c = Succeeded(t) BY <3>3 DEF Succeeded
    <3> QED BY <2>4, <3>1, <3>2, <3>3
  <2> QED BY <1>4, <2>5, <2>6
<1> QED BY <1>1, <1>2, <1>3, <1>4

LEMMA PutFileSays ==
  ASSUME SnapshotAssumption, NEW s \in Trees, NEW t \in Trees, NEW r, NEW k \in Entries,
         NEW m, m = PutFile(s, t, r, k)
  PROVE  /\ Frame(s, t, k, m.tree)
         /\ s[k].kind # "file" => m.tree = t /\ ~m.named
         /\ s[k].kind = "file" /\ Walked(s[k], t[k]) => m.named \/ m.tree[k] = s[k] \/ Bridged(t, k)
         /\ Free(t, r) /\ Walked(s[k], t[k])
            /\ (\A i \in Entries : i < k => t[i].kind \in {"dir", "none"})
              => ~m.named
<1>0. t[k] \in Nodes /\ (t[k].kind = "none" <=> t[k] = None) BY TreesAre, NodeKinds
<1>1. CASE s[k].kind # "file"
  <2>1. m = [tree |-> t, named |-> FALSE] BY <1>1 DEF PutFile, Left
  <2> QED BY <1>1, <2>1, SameFrame
<1>2. CASE s[k].kind = "file" /\ Exists(t[k]) /\ t[k].kind \notin {"link", "dir"}
  <2>1. m = [tree |-> t, named |-> FALSE] BY <1>2 DEF PutFile, Left
  <2>2. t[k] # None BY <1>2, <1>0 DEF Exists
  <2>3. Walked(s[k], t[k]) => t[k] = s[k] BY <1>2, <2>2 DEF Walked
  <2> QED BY <1>2, <2>1, <2>3, SameFrame
<1>3. CASE s[k].kind = "file" /\ ~(Exists(t[k]) /\ t[k].kind \notin {"link", "dir"})
  <2> DEFINE clear == CASE LeadsToDir(t[k]) -> RmTree(t, r, k)
                        [] t[k].kind = "link" /\ ~LeadsToDir(t[k]) -> Unlink(t, r, k)
                        [] OTHER -> Succeeded(t)
  <2>1. PICK c : c = clear OBVIOUS
  <2>2. m = Quietly(ThenPut(c, r, k, s[k])) BY <1>3, <2>1 DEF PutFile
  <2>3. t[k] = None \/ t[k].kind \in {"link", "dir"} BY <1>0, <1>3 DEF Exists
  <2>4. \/ LeadsToDir(t[k]) /\ c = RmTree(t, r, k)
        \/ t[k].kind = "link" /\ c = Unlink(t, r, k)
        \/ t[k] = None /\ c = Succeeded(t)
    BY <2>1, <2>3 DEF LeadsToDir
  <2> HIDE DEF clear
  <2>5. /\ Frame(s, t, k, m.tree)
        /\ m.named \/ m.tree[k] = s[k] \/ Bridged(t, k)
        /\ Free(t, r) /\ c.ok
           /\ (\A i \in Entries : i < k => t[i].kind \in {"dir", "none"}) => ~m.named
    <3>1. \/ c = RmTree(t, r, k)
          \/ t[k].kind # "dir" /\ c = Unlink(t, r, k)
          \/ t[k] = None /\ c = Succeeded(t)
      BY <2>4
    <3>2. s[k].kind \in {"file", "link"} BY <1>3
    <3> QED BY <2>2, <3>1, <3>2, ThenPutSays
  <2>6. Free(t, r) /\ Walked(s[k], t[k]) => c.ok
    <3>0. Walked(s[k], t[k]) => t[k].kind # "link" BY <1>3, <1>0 DEF Walked
    <3>1. CASE LeadsToDir(t[k]) /\ c = RmTree(t, r, k) BY <3>0, <3>1, RmTreeSays DEF LeadsToDir
    <3>2. CASE t[k].kind = "link" BY <3>0, <3>2
    <3>3. CASE t[k] = None /\ c = Succeeded(t) BY <3>3 DEF Succeeded
    <3> QED BY <2>4, <3>1, <3>2, <3>3
  <2> QED BY <1>3, <2>5, <2>6
<1> QED BY <1>1, <1>2, <1>3

LEMMA PutDirSays ==
  ASSUME SnapshotAssumption, NEW s \in Trees, NEW t \in Trees, NEW r, NEW k \in Entries,
         NEW m, m = PutDir(s, t, r, k)
  PROVE  /\ Frame(s, t, k, m.tree)
         /\ s[k].kind # "dir" => m.tree = t /\ ~m.named
         /\ s[k].kind = "dir" /\ Walked(s[k], t[k]) => m.named \/ m.tree[k] = s[k] \/ Bridged(t, k)
         /\ Free(t, r) /\ Walked(s[k], t[k])
            /\ (\A i \in Entries : i < k => t[i].kind \in {"dir", "none"})
              => ~m.named
<1>0. /\ t[k] \in Nodes /\ (t[k].kind = "none" <=> t[k] = None)
      /\ s[k] \in Nodes /\ (s[k].kind = "none" <=> s[k] = None) /\ t \in [Entries -> Nodes]
  BY TreesAre, NodeKinds
<1>1. CASE s[k].kind # "dir"
  <2>1. m = [tree |-> t, named |-> FALSE] BY <1>1 DEF PutDir, Left
  <2> QED BY <1>1, <2>1, SameFrame
<1>2. CASE s[k].kind = "dir" /\ t[k] = None
  <2>0. s[k] # None /\ t[k].kind # "dir" BY <1>2, <1>0
  <2>1. PICK p : p = Put(t, r, k, s[k]) OBVIOUS
  <2>2. m = Quietly(p) BY <1>2, <2>0, <2>1 DEF PutDir
  <2>3. m.tree = p.tree /\ (m.named <=> ~p.ok) BY <2>2, QuietlyIs
  <2>4. Frame(s, t, k, p.tree) BY <2>0, <2>1, PutFrame
  <2>5. ASSUME p.ok PROVE p.tree[k] = s[k] \/ Bridged(t, k) BY <1>0, <2>0, <2>1, <2>5, PutLands
  <2>6. Free(t, r) /\ (\A i \in Entries : i < k => t[i].kind \in {"dir", "none"}) => p.ok
    BY <1>0, <2>0, <2>1, PutSays
  <2> QED BY <1>2, <2>3, <2>4, <2>5, <2>6
<1>3. CASE s[k].kind = "dir" /\ t[k].kind = "dir"
  <2>0. t[k] # None BY <1>3, <1>0
  <2>1. m = [tree |-> [t EXCEPT ![k] = s[k]], named |-> FALSE] BY <1>3, <2>0 DEF PutDir, Left
  <2>2. PICK u : u = [t EXCEPT ![k] = s[k]] OBVIOUS
  <2>3. u \in [Entries -> Nodes] /\ u[k] = s[k] /\ \A j \in Entries : j # k => u[j] = t[j]
    BY <2>2, <1>0
  <2>4. u \in Trees
    <3>1. ASSUME NEW i \in Entries, NEW j \in Entries, u[i] # None, j < i PROVE u[j].kind = "dir"
      <4>1. t[i] # None BY <3>1, <2>3, <2>0
      <4>2. t[j].kind = "dir" BY <4>1, <3>1, TreesAre
      <4> QED BY <4>2, <2>3, <1>3
    <3> QED BY <3>1, <2>3, IsATree
  <2>5. Frame(s, t, k, u)
    <3>1. \A j \in Entries : j < k \/ k < j => j # k BY EntriesAre
    <3> QED BY <2>3, <2>4, <3>1 DEF Frame
  <2> QED BY <1>3, <2>1, <2>2, <2>3, <2>5
<1>4. CASE s[k].kind = "dir" /\ t[k] # None /\ t[k].kind # "dir"
  <2>1. m = [tree |-> t, named |-> ~Exists(t[k])] BY <1>4 DEF PutDir
  <2>2. m.tree = t BY <2>1
  <2>3. ~Walked(s[k], t[k]) BY <1>4, <1>0 DEF Walked
  <2> QED BY <1>4, <2>2, <2>3, SameFrame
<1> QED BY <1>1, <1>2, <1>3, <1>4

-----------------------------------------------------------------------------
(* What the passes have done so far when stage p stands at entry m.  An     *)
(* entry is covered when it, one above it or the root has been named.       *)
Rebuilding == {"newDirs", "newLinks", "newFiles", "newLost"}
Repairing == {"walk", "links", "files", "dirs", "lost", "mode"}
Passes == (Repairing \ {"mode"}) \cup Rebuilding

WalkDone(p, m, k) ==
  p \in {"links", "files", "dirs", "lost", "mode", "done"} \cup Rebuilding \/ (p = "walk" /\ m < k)
LinkDone(p, m, k) ==
  \/ p \in {"files", "dirs", "lost", "mode", "newFiles", "newLost", "done"}
  \/ p \in {"links", "newLinks"} /\ k < m
FileDone(p, m, k) ==
  p \in {"dirs", "lost", "mode", "newLost", "done"} \/ (p \in {"files", "newFiles"} /\ k < m)
DirDone(p, m, k) ==
  \/ p \in {"lost", "mode", "newLinks", "newFiles", "newLost", "done"}
  \/ p \in {"dirs", "newDirs"} /\ k < m
LostDone(p, m, k) == p \in {"mode", "done"} \/ (p \in {"lost", "newLost"} /\ k < m)

Covered(named, k) == \E j \in {0} \cup Entries : j <= k /\ j \in named

Restored(p, m, k, x, y) ==
  /\ WalkDone(p, m, k) => Walked(x, y)
  /\ LinkDone(p, m, k) /\ x.kind = "link" => y = x
  /\ FileDone(p, m, k) /\ x.kind = "file" => y = x
  /\ DirDone(p, m, k) /\ x.kind = "dir" => y = x
  /\ LostDone(p, m, k) /\ x.kind \in Unrecorded => y = x

Accounted(p, m, named, s, t) ==
  \A k \in Entries : Covered(named, k) \/ Restored(p, m, k, s[k], t[k])

LEMMA CoverGrows ==
  ASSUME NEW named, NEW more, NEW k, named \subseteq more, Covered(named, k) PROVE Covered(more, k)
BY DEF Covered

LEMMA CoverGoesDown ==
  ASSUME SnapshotAssumption, NEW named, NEW i \in Entries, NEW k \in Entries, i <= k,
         Covered(named, i)
  PROVE  Covered(named, k)
<1>1. PICK j \in {0} \cup Entries : j <= i /\ j \in named BY DEF Covered
<1>2. j <= k BY <1>1, EntriesAre
<1> QED BY <1>1, <1>2 DEF Covered

\* A pass at k leaves what was said of the other entries true.
LEMMA OthersStay ==
  ASSUME SnapshotAssumption, NEW s \in Trees, NEW t \in Trees, NEW p, NEW k \in Entries, NEW named,
         Accounted(p, k, named, s, t), NEW u, Frame(s, t, k, u), NEW j \in Entries, j # k
  PROVE  Covered(named, j) \/ Restored(p, k, j, s[j], u[j])
<1>1. CASE u[j] = t[j] BY <1>1 DEF Accounted
<1>2. CASE u[j] # t[j] /\ j < k
  <2>1. s[j].kind = "dir" /\ u[j].kind = "dir" BY <1>2 DEF Frame
  <2>2. PICK i \in Entries : i <= j /\ s[i].kind = "dir" /\ t[i] = None BY <1>2 DEF Frame
  <2>3. Covered(named, i) \/ ~DirDone(p, k, i) BY <2>2, DirNodes DEF Accounted, Restored
  <2>4. CASE Covered(named, i) BY <2>2, <2>4, CoverGoesDown
  <2>5. CASE ~DirDone(p, k, i)
    <3>1. ~DirDone(p, k, j) BY <2>5, <2>2, EntriesAre DEF DirDone
    <3>2. Walked(s[j], u[j]) BY <2>1 DEF Walked, Unrecorded
    <3> QED BY <2>1, <3>1, <3>2 DEF Restored, Unrecorded
  <2> QED BY <2>3, <2>4, <2>5
<1>3. CASE u[j] # t[j] /\ k < j
  <2>1. u[j] = None /\ s[j] = None BY <1>3 DEF Frame
  <2>2. Walked(None, None) BY DEF Walked, None
  <2> QED BY <2>1, <2>2 DEF Restored
<1> QED BY <1>1, <1>2, <1>3, EntriesAre

\* A link where a directory was has been named, once the walk is over.
LEMMA BridgesAreCovered ==
  ASSUME SnapshotAssumption, NEW s \in Trees, NEW t \in Trees, NEW p, NEW k \in Entries, NEW named,
         Accounted(p, k, named, s, t), p \in Passes \ {"walk"}, s[k] # None, Bridged(t, k)
  PROVE  Covered(named, k)
<1>1. PICK i \in Entries : i < k /\ t[i].kind = "link" BY DEF Bridged
<1>2. s[i].kind = "dir" BY <1>1, TreesAre
<1>3. WalkDone(p, k, i) BY DEF WalkDone, Passes, Repairing, Rebuilding
<1>4. ~Restored(p, k, i, s[i], t[i]) BY <1>1, <1>2, <1>3 DEF Restored, Walked
<1>5. Covered(named, i) BY <1>4 DEF Accounted
<1>6. i <= k BY <1>1, EntriesAre
<1> QED BY <1>5, <1>6, CoverGoesDown

\* Where nothing is named, what leads to an entry that was there is there, or nothing is.
LEMMA NothingLeadsAway ==
  ASSUME SnapshotAssumption, NEW s \in Trees, NEW t \in Trees, NEW p, NEW k \in Entries,
         Accounted(p, k, {}, s, t), p \in Passes \ {"walk"}, s[k] # None
  PROVE  /\ \A i \in Entries : i < k => t[i].kind \in {"dir", "none"}
         /\ Walked(s[k], t[k])
<1>1. \A i \in Entries : WalkDone(p, k, i) BY DEF WalkDone, Passes, Repairing, Rebuilding
<1>2. \A i \in Entries : ~Covered({}, i) BY DEF Covered
<1>3. \A i \in Entries : Walked(s[i], t[i]) BY <1>1, <1>2 DEF Accounted, Restored
<1>4. ASSUME NEW i \in Entries, i < k PROVE t[i].kind \in {"dir", "none"}
  <2>1. s[i].kind = "dir" BY <1>4, TreesAre
  <2> QED BY <2>1, <1>3 DEF Walked
<1> QED BY <1>3, <1>4

-----------------------------------------------------------------------------
(* The inductive invariant.  A directory that can be entered and written,   *)
(* but not listed, hides what is in it; where there is none, or everything  *)
(* can be written, every entry is accounted for.                            *)
Lists == "wx" \notin Rights \/ ~obstructed

Claims == Lists => Accounted(stage, place, failures, treeBefore, tree)

RootHolds ==
  /\ rootBefore.held /\ (~ByLink => rootBefore.real = "absent")
  /\ ~HoldsTree(rootBefore) => rootBefore.rights = "rwx" /\ treeBefore = Empty
  /\ stage \in {"snapshot", "run"} => root = rootBefore /\ failures = {}
  /\ stage = "snapshot" => (~HoldsTree(rootBefore) => tree = Empty)
  /\ stage \notin {"snapshot", "refused"} =>
       rootBefore.path \in {"absent", "dir"} \/ (ByLink /\ rootBefore.real \in {"absent", "dir"})
  /\ stage = "root" =>
       /\ ~HoldsTree(root) => tree = Empty /\ root.rights = "rwx"
       /\ ~ByLink => root.real = "absent"
  /\ stage \in Repairing \cup Rebuilding =>
       HoldsTree(rootBefore) /\ root.path = rootBefore.path /\ root.real = rootBefore.real
  /\ stage \in Rebuilding => root.rights = rootBefore.rights
  /\ stage = "done" => RootAsBefore \/ 0 \in failures

(* Where everything can be written, nothing fails, and what was not         *)
(* recorded is as it was.                                                   *)
Undisturbed ==
  /\ stage # "raised" /\ failures = {} /\ root.held
  /\ Free(treeBefore, rootBefore.rights) /\ Free(tree, root.rights)
  /\ stage \in {"root"} \cup Repairing =>
       \A k \in Entries : treeBefore[k].kind \in Unrecorded => tree[k] = treeBefore[k]
  /\ stage \in Rebuilding => \A k \in Entries : treeBefore[k].kind \notin Unrecorded

AllFree == ~obstructed /\ stage \notin {"snapshot", "refused", "run"} => Undisturbed

RestoreInv == SnapshotTypeOK /\ RootHolds /\ Claims /\ AllFree

(* From stage p at entry k to stage q at entry m nothing more is done, but  *)
(* what the pass does at k itself.                                          *)
Goes(p, k, q, m, does) == \A j \in Entries :
  /\ WalkDone(q, m, j) /\ (j = k => does # "walk") => WalkDone(p, k, j)
  /\ LinkDone(q, m, j) /\ (j = k => does # "link") => LinkDone(p, k, j)
  /\ FileDone(q, m, j) /\ (j = k => does # "file") => FileDone(p, k, j)
  /\ DirDone(q, m, j) /\ (j = k => does # "dir") => DirDone(p, k, j)
  /\ LostDone(q, m, j) /\ (j = k => does # "lost") => LostDone(p, k, j)

\* What a step of a pass has in common: made is what it makes of the entry.
Passing(made) ==
  /\ tree' = made.tree
  /\ failures' = IF made.named THEN failures \cup {place} ELSE failures
  /\ place' \in Entries
  /\ stage \in Repairing => stage' \in Repairing
  /\ stage \in Rebuilding => stage' \in Rebuilding \cup {"done"}
  /\ UNCHANGED <<treeBefore, rootBefore, root, obstructed>>

LEMMA PassKeeps ==
  ASSUME SnapshotAssumption, RestoreInv, stage \in Passes, NEW made, Passing(made), NEW does,
         Goes(stage, place, stage', place', does),
         Frame(treeBefore, tree, place, made.tree),
         Lists => \/ made.named \/ Covered(failures, place)
                  \/ Restored(stage', place', place, treeBefore[place], made.tree[place]),
         ~obstructed => ~made.named,
         treeBefore[place].kind \in Unrecorded /\ tree[place] = treeBefore[place]
           => made.tree[place] = tree[place]
  PROVE  RestoreInv'
<1>0. SnapshotTypeOK /\ RootHolds /\ Claims /\ AllFree BY DEF RestoreInv
<1>t. treeBefore \in Trees /\ tree \in Trees /\ place \in Entries BY <1>0 DEF SnapshotTypeOK
<1>p. stage \in Repairing \cup Rebuilding BY DEF Passes
<1>q. /\ stage' \in Repairing \cup Rebuilding \cup {"done"}
      /\ stage' \in Rebuilding \cup {"done"} => stage \in Rebuilding
      /\ stage' \notin {"snapshot", "refused", "run", "root", "raised"}
      /\ stage \notin {"snapshot", "refused", "run", "root", "raised", "done"}
  BY <1>p DEF Passing, Repairing, Rebuilding
<1>u. PICK u : u = made.tree OBVIOUS
<1>n. PICK more : more = failures' OBVIOUS
<1>m. failures \subseteq more /\ (made.named => place \in more) BY <1>n DEF Passing
<1>1. SnapshotTypeOK'
  <2>1. tree' \in Trees BY DEF Frame, Passing
  <2>2. failures' \subseteq {0} \cup Entries BY <1>0 DEF Passing, SnapshotTypeOK
  <2> QED BY <1>0, <2>1, <2>2 DEF SnapshotTypeOK, Passing
<1>2. RootHolds'
  <2>1. stage' = "done" => RootAsBefore'
    BY <1>0, <1>p, <1>q DEF RootHolds, RootAsBefore, Passing, HoldsTree, ByLink
  <2> QED BY <1>0, <1>p, <1>q, <2>1 DEF RootHolds, Passing, HoldsTree, ByLink
<1>3. Claims'
  <2> SUFFICES ASSUME Lists PROVE Accounted(stage', place', more, treeBefore, u)
    BY <1>n, <1>u DEF Claims, Passing, Lists
  <2>1. Accounted(stage, place, failures, treeBefore, tree) BY <1>0 DEF Claims
  <2>2. ASSUME NEW j \in Entries
        PROVE  Covered(more, j) \/ Restored(stage', place', j, treeBefore[j], u[j])
    <3>1. CASE j = place
      <4>1. made.named => Covered(more, j) BY <3>1, <1>m, EntriesAre DEF Covered
      <4>2. Covered(failures, place) => Covered(more, j) BY <3>1, <1>m, CoverGrows
      <4> QED BY <3>1, <4>1, <4>2, <1>u
    <3>2. CASE j # place
      <4>1. Covered(failures, j) \/ Restored(stage, place, j, treeBefore[j], u[j])
        BY <3>2, <2>1, <1>t, <1>u, OthersStay
      <4>2. Restored(stage, place, j, treeBefore[j], u[j])
              => Restored(stage', place', j, treeBefore[j], u[j])
        BY <3>2 DEF Restored, Goes
      <4>3. Covered(failures, j) => Covered(more, j) BY <1>m, CoverGrows
      <4> QED BY <4>1, <4>2, <4>3
    <3> QED BY <3>1, <3>2
  <2> QED BY <2>2 DEF Accounted
<1>4. AllFree'
  <2> SUFFICES ASSUME ~obstructed PROVE Undisturbed' BY DEF AllFree, Passing
  <2>1. Undisturbed BY <1>0, <1>q DEF AllFree
  <2>2. failures' = {} BY <2>1 DEF Undisturbed, Passing
  <2>3. Free(u, root.rights) BY <2>1, <1>u, FrameIsFree DEF Undisturbed, Free
  <2>4. ASSUME NEW k \in Entries, treeBefore[k].kind \in Unrecorded, stage' \in Repairing
        PROVE  u[k] = treeBefore[k]
    <3>1. tree[k] = treeBefore[k]
      BY <2>1, <2>4, <1>p, <1>q DEF Undisturbed, Passing, Repairing, Rebuilding
    <3>2. treeBefore[k].kind \notin {"dir", "none"} BY <2>4 DEF Unrecorded
    <3>3. CASE k = place BY <3>1, <3>3, <2>4, <1>u
    <3>4. CASE k # place
      <4>1. k < place \/ place < k BY <3>4, <1>t, EntriesAre
      <4>2. u[k] = tree[k] BY <4>1, <3>2, <1>u, DirNodes DEF Frame
      <4> QED BY <4>2, <3>1
    <3> QED BY <3>3, <3>4
  <2>5. stage' \in Rebuilding => \A k \in Entries : treeBefore'[k].kind \notin Unrecorded
    BY <2>1, <1>q DEF Undisturbed, Passing
  <2>6. stage' \in {"root"} \cup Repairing =>
          \A k \in Entries : treeBefore'[k].kind \in Unrecorded => tree'[k] = treeBefore'[k]
    BY <2>4, <1>q, <1>u DEF Passing
  <2>7. root' = root /\ treeBefore' = treeBefore /\ rootBefore' = rootBefore /\ tree' = u
    BY <1>u DEF Passing
  <2>8. Free(tree', root'.rights) /\ Free(treeBefore', rootBefore'.rights)
    BY <2>1, <2>3, <2>7 DEF Undisturbed
  <2> QED BY <2>1, <2>2, <2>5, <2>6, <2>7, <2>8, <1>q DEF Undisturbed
<1> QED BY <1>1, <1>2, <1>3, <1>4 DEF RestoreInv

\* The passes that put something back: what they do not put they leave.
LEMMA PutPassKeeps ==
  ASSUME SnapshotAssumption, RestoreInv, stage \in Passes \ {"walk"}, NEW made, Passing(made),
         NEW does \in {"link", "file", "dir"},
         Goes(stage, place, stage', place', does),
         Frame(treeBefore, tree, place, made.tree),
         treeBefore[place].kind # does => made.tree = tree /\ ~made.named,
         treeBefore[place].kind = does /\ Walked(treeBefore[place], tree[place]) =>
           made.named \/ made.tree[place] = treeBefore[place] \/ Bridged(tree, place),
         Free(tree, root.rights) /\ Walked(treeBefore[place], tree[place])
           /\ (\A i \in Entries : i < place => tree[i].kind \in {"dir", "none"}) => ~made.named
  PROVE  RestoreInv'
<1>0. SnapshotTypeOK /\ RootHolds /\ Claims /\ AllFree BY DEF RestoreInv
<1>t. treeBefore \in Trees /\ tree \in Trees /\ place \in Entries BY <1>0 DEF SnapshotTypeOK
<1>s. treeBefore[place].kind = does => treeBefore[place] # None BY DirNodes
<1>1. Lists => \/ made.named \/ Covered(failures, place)
               \/ Restored(stage', place', place, treeBefore[place], made.tree[place])
  <2> SUFFICES ASSUME Lists, ~made.named, ~Covered(failures, place)
               PROVE  Restored(stage', place', place, treeBefore[place], made.tree[place])
    OBVIOUS
  <2>1. Accounted(stage, place, failures, treeBefore, tree) BY <1>0 DEF Claims
  <2>2. Restored(stage, place, place, treeBefore[place], tree[place]) BY <2>1, <1>t DEF Accounted
  <2>3. WalkDone(stage, place, place) BY DEF WalkDone, Passes, Repairing, Rebuilding
  <2>4. Walked(treeBefore[place], tree[place]) BY <2>2, <2>3 DEF Restored
  <2>5. CASE treeBefore[place].kind = does
    <3>1. ~Bridged(tree, place) BY <2>1, <2>5, <1>s, <1>t, BridgesAreCovered
    <3>2. made.tree[place] = treeBefore[place] BY <3>1, <2>4, <2>5
    <3>3. Walked(treeBefore[place], treeBefore[place]) BY <2>5 DEF Walked, Unrecorded
    <3> QED BY <3>2, <3>3 DEF Restored
  <2>6. CASE treeBefore[place].kind # does
    <3>1. made.tree = tree BY <2>6
    <3> QED BY <3>1, <2>2, <2>6, <1>t DEF Restored, Goes
  <2> QED BY <2>5, <2>6
<1>2. ~obstructed => ~made.named
  <2> SUFFICES ASSUME ~obstructed, treeBefore[place].kind = does PROVE ~made.named OBVIOUS
  <2>1. failures = {} /\ Free(tree, root.rights)
    BY <1>0 DEF AllFree, Undisturbed, Passes, Repairing, Rebuilding
  <2>2. Accounted(stage, place, {}, treeBefore, tree) BY <1>0, <2>1 DEF Claims, Lists
  <2>3. /\ \A i \in Entries : i < place => tree[i].kind \in {"dir", "none"}
        /\ Walked(treeBefore[place], tree[place])
    BY <2>2, <1>s, <1>t, NothingLeadsAway
  <2> QED BY <2>1, <2>3
<1>3. treeBefore[place].kind \in Unrecorded => made.tree = tree BY DEF Unrecorded
<1>4. stage \in Passes OBVIOUS
<1> QED BY <1>1, <1>2, <1>3, <1>4, PassKeeps

-----------------------------------------------------------------------------
(* One lemma per action.                                                    *)
LEMMA PlaceInEntries ==
  ASSUME SnapshotAssumption, NEW k \in Entries
  PROVE  /\ k # 1 => k + -1 \in Entries
         /\ k # Depth => k + 1 \in Entries
BY EntriesAre

LEMMA RemoveAddedKeeps == ASSUME SnapshotAssumption, RestoreInv, RemoveAdded PROVE RestoreInv'
<1>0. SnapshotTypeOK /\ Claims /\ AllFree BY DEF RestoreInv
<1>t. treeBefore \in Trees /\ tree \in Trees /\ place \in Entries /\ root.rights \in Rights
  BY <1>0 DEF SnapshotTypeOK, Roots
<1>1. PICK made : made = WalkEntry(treeBefore, tree, root.rights, place) OBVIOUS
<1>2. /\ stage = "walk"
      /\ tree' = made.tree /\ failures' = IF made.named THEN failures \cup {place} ELSE failures
      /\ \/ place = 1 /\ stage' = "links" /\ place' = 1
         \/ place # 1 /\ stage' = stage /\ place' = place + -1
      /\ UNCHANGED <<treeBefore, rootBefore, root, obstructed>>
  BY <1>1 DEF RemoveAdded, Step
<1>3. Passing(made) BY <1>2, <1>t, PlaceInEntries, EntriesAre DEF Passing, Repairing, Rebuilding
<1>4. Goes(stage, place, stage', place', "walk")
  BY <1>2, <1>t, EntriesAre
  DEF Goes, WalkDone, LinkDone, FileDone, DirDone, LostDone, Rebuilding
<1>5. stage \in Passes BY <1>2 DEF Passes, Repairing, Rebuilding
<1>6. /\ Frame(treeBefore, tree, place, made.tree)
      /\ "wx" \notin Rights \/ Free(tree, root.rights) =>
           made.named \/ Walked(treeBefore[place], made.tree[place])
      /\ Free(tree, root.rights)
         /\ (treeBefore[place].kind \in Unrecorded => tree[place] = treeBefore[place])
           => ~made.named
      /\ treeBefore[place].kind \in Unrecorded /\ tree[place] = treeBefore[place]
           => made.tree = tree
  BY <1>1, <1>t, WalkSays
<1>7. ~obstructed => /\ Free(tree, root.rights)
                     /\ treeBefore[place].kind \in Unrecorded => tree[place] = treeBefore[place]
  BY <1>0, <1>2, <1>t DEF AllFree, Undisturbed, Repairing
<1>8. /\ ~LinkDone(stage', place', place) /\ ~FileDone(stage', place', place)
      /\ ~DirDone(stage', place', place) /\ ~LostDone(stage', place', place)
  BY <1>2, <1>t, EntriesAre DEF LinkDone, FileDone, DirDone, LostDone
<1>9. Lists => \/ made.named \/ Covered(failures, place)
               \/ Restored(stage', place', place, treeBefore[place], made.tree[place])
  BY <1>6, <1>7, <1>8 DEF Lists, Restored
<1>10. ~obstructed => ~made.named BY <1>6, <1>7
<1> QED BY <1>3, <1>4, <1>5, <1>6, <1>9, <1>10, PassKeeps

LEMMA RestoreLinksKeeps == ASSUME SnapshotAssumption, RestoreInv, RestoreLinks PROVE RestoreInv'
<1>t. treeBefore \in Trees /\ tree \in Trees /\ place \in Entries
  BY DEF RestoreInv, SnapshotTypeOK
<1>1. PICK made : made = PutLink(treeBefore, tree, root.rights, place) OBVIOUS
<1>2. /\ stage = "links"
      /\ tree' = made.tree /\ failures' = IF made.named THEN failures \cup {place} ELSE failures
      /\ \/ place = Depth /\ stage' = "files" /\ place' = 1
         \/ place # Depth /\ stage' = stage /\ place' = place + 1
      /\ UNCHANGED <<treeBefore, rootBefore, root, obstructed>>
  BY <1>1 DEF RestoreLinks, Step
<1>3. Passing(made) BY <1>2, <1>t, PlaceInEntries, EntriesAre DEF Passing, Repairing, Rebuilding
<1>4. Goes(stage, place, stage', place', "link")
  BY <1>2, <1>t, EntriesAre
  DEF Goes, WalkDone, LinkDone, FileDone, DirDone, LostDone, Rebuilding
<1>5. stage \in Passes \ {"walk"} BY <1>2 DEF Passes, Repairing, Rebuilding
<1>6. /\ Frame(treeBefore, tree, place, made.tree)
      /\ treeBefore[place].kind # "link" => made.tree = tree /\ ~made.named
      /\ treeBefore[place].kind = "link" =>
           made.named \/ made.tree[place] = treeBefore[place] \/ Bridged(tree, place)
      /\ Free(tree, root.rights)
         /\ (\A i \in Entries : i < place => tree[i].kind \in {"dir", "none"}) => ~made.named
  BY <1>1, <1>t, PutLinkSays
<1> QED BY <1>3, <1>4, <1>5, <1>6, PutPassKeeps

LEMMA RestoreFilesKeeps == ASSUME SnapshotAssumption, RestoreInv, RestoreFiles PROVE RestoreInv'
<1>t. treeBefore \in Trees /\ tree \in Trees /\ place \in Entries
  BY DEF RestoreInv, SnapshotTypeOK
<1>1. PICK made : made = PutFile(treeBefore, tree, root.rights, place) OBVIOUS
<1>2. /\ stage = "files"
      /\ tree' = made.tree /\ failures' = IF made.named THEN failures \cup {place} ELSE failures
      /\ \/ place = Depth /\ stage' = "dirs" /\ place' = 1
         \/ place # Depth /\ stage' = stage /\ place' = place + 1
      /\ UNCHANGED <<treeBefore, rootBefore, root, obstructed>>
  BY <1>1 DEF RestoreFiles, Step
<1>3. Passing(made) BY <1>2, <1>t, PlaceInEntries, EntriesAre DEF Passing, Repairing, Rebuilding
<1>4. Goes(stage, place, stage', place', "file")
  BY <1>2, <1>t, EntriesAre
  DEF Goes, WalkDone, LinkDone, FileDone, DirDone, LostDone, Rebuilding
<1>5. stage \in Passes \ {"walk"} BY <1>2 DEF Passes, Repairing, Rebuilding
<1>6. /\ Frame(treeBefore, tree, place, made.tree)
      /\ treeBefore[place].kind # "file" => made.tree = tree /\ ~made.named
      /\ treeBefore[place].kind = "file" /\ Walked(treeBefore[place], tree[place]) =>
           made.named \/ made.tree[place] = treeBefore[place] \/ Bridged(tree, place)
      /\ Free(tree, root.rights) /\ Walked(treeBefore[place], tree[place])
         /\ (\A i \in Entries : i < place => tree[i].kind \in {"dir", "none"}) => ~made.named
  BY <1>1, <1>t, PutFileSays
<1> QED BY <1>3, <1>4, <1>5, <1>6, PutPassKeeps

LEMMA RestoreDirsKeeps == ASSUME SnapshotAssumption, RestoreInv, RestoreDirs PROVE RestoreInv'
<1>t. treeBefore \in Trees /\ tree \in Trees /\ place \in Entries
  BY DEF RestoreInv, SnapshotTypeOK
<1>1. PICK made : made = PutDir(treeBefore, tree, root.rights, place) OBVIOUS
<1>2. /\ stage = "dirs"
      /\ tree' = made.tree /\ failures' = IF made.named THEN failures \cup {place} ELSE failures
      /\ \/ place = Depth /\ stage' = "lost" /\ place' = 1
         \/ place # Depth /\ stage' = stage /\ place' = place + 1
      /\ UNCHANGED <<treeBefore, rootBefore, root, obstructed>>
  BY <1>1 DEF RestoreDirs, Step
<1>3. Passing(made) BY <1>2, <1>t, PlaceInEntries, EntriesAre DEF Passing, Repairing, Rebuilding
<1>4. Goes(stage, place, stage', place', "dir")
  BY <1>2, <1>t, EntriesAre
  DEF Goes, WalkDone, LinkDone, FileDone, DirDone, LostDone, Rebuilding
<1>5. stage \in Passes \ {"walk"} BY <1>2 DEF Passes, Repairing, Rebuilding
<1>6. /\ Frame(treeBefore, tree, place, made.tree)
      /\ treeBefore[place].kind # "dir" => made.tree = tree /\ ~made.named
      /\ treeBefore[place].kind = "dir" /\ Walked(treeBefore[place], tree[place]) =>
           made.named \/ made.tree[place] = treeBefore[place] \/ Bridged(tree, place)
      /\ Free(tree, root.rights) /\ Walked(treeBefore[place], tree[place])
         /\ (\A i \in Entries : i < place => tree[i].kind \in {"dir", "none"}) => ~made.named
  BY <1>1, <1>t, PutDirSays
<1> QED BY <1>3, <1>4, <1>5, <1>6, PutPassKeeps

LEMMA RebuildDirsKeeps == ASSUME SnapshotAssumption, RestoreInv, RebuildDirs PROVE RestoreInv'
<1>t. treeBefore \in Trees /\ tree \in Trees /\ place \in Entries
  BY DEF RestoreInv, SnapshotTypeOK
<1>1. PICK made : made = PutDir(treeBefore, tree, root.rights, place) OBVIOUS
<1>2. /\ stage = "newDirs"
      /\ tree' = made.tree /\ failures' = IF made.named THEN failures \cup {place} ELSE failures
      /\ \/ place = Depth /\ stage' = "newLinks" /\ place' = 1
         \/ place # Depth /\ stage' = stage /\ place' = place + 1
      /\ UNCHANGED <<treeBefore, rootBefore, root, obstructed>>
  BY <1>1 DEF RebuildDirs, Step
<1>3. Passing(made) BY <1>2, <1>t, PlaceInEntries, EntriesAre DEF Passing, Repairing, Rebuilding
<1>4. Goes(stage, place, stage', place', "dir")
  BY <1>2, <1>t, EntriesAre
  DEF Goes, WalkDone, LinkDone, FileDone, DirDone, LostDone, Rebuilding
<1>5. stage \in Passes \ {"walk"} BY <1>2 DEF Passes, Repairing, Rebuilding
<1>6. /\ Frame(treeBefore, tree, place, made.tree)
      /\ treeBefore[place].kind # "dir" => made.tree = tree /\ ~made.named
      /\ treeBefore[place].kind = "dir" /\ Walked(treeBefore[place], tree[place]) =>
           made.named \/ made.tree[place] = treeBefore[place] \/ Bridged(tree, place)
      /\ Free(tree, root.rights) /\ Walked(treeBefore[place], tree[place])
         /\ (\A i \in Entries : i < place => tree[i].kind \in {"dir", "none"}) => ~made.named
  BY <1>1, <1>t, PutDirSays
<1> QED BY <1>3, <1>4, <1>5, <1>6, PutPassKeeps

LEMMA RebuildLinksKeeps == ASSUME SnapshotAssumption, RestoreInv, RebuildLinks PROVE RestoreInv'
<1>t. treeBefore \in Trees /\ tree \in Trees /\ place \in Entries
  BY DEF RestoreInv, SnapshotTypeOK
<1>1. PICK made : made = PutLink(treeBefore, tree, root.rights, place) OBVIOUS
<1>2. /\ stage = "newLinks"
      /\ tree' = made.tree /\ failures' = IF made.named THEN failures \cup {place} ELSE failures
      /\ \/ place = Depth /\ stage' = "newFiles" /\ place' = 1
         \/ place # Depth /\ stage' = stage /\ place' = place + 1
      /\ UNCHANGED <<treeBefore, rootBefore, root, obstructed>>
  BY <1>1 DEF RebuildLinks, Step
<1>3. Passing(made) BY <1>2, <1>t, PlaceInEntries, EntriesAre DEF Passing, Repairing, Rebuilding
<1>4. Goes(stage, place, stage', place', "link")
  BY <1>2, <1>t, EntriesAre
  DEF Goes, WalkDone, LinkDone, FileDone, DirDone, LostDone, Rebuilding
<1>5. stage \in Passes \ {"walk"} BY <1>2 DEF Passes, Repairing, Rebuilding
<1>6. /\ Frame(treeBefore, tree, place, made.tree)
      /\ treeBefore[place].kind # "link" => made.tree = tree /\ ~made.named
      /\ treeBefore[place].kind = "link" =>
           made.named \/ made.tree[place] = treeBefore[place] \/ Bridged(tree, place)
      /\ Free(tree, root.rights)
         /\ (\A i \in Entries : i < place => tree[i].kind \in {"dir", "none"}) => ~made.named
  BY <1>1, <1>t, PutLinkSays
<1> QED BY <1>3, <1>4, <1>5, <1>6, PutPassKeeps

LEMMA RebuildFilesKeeps == ASSUME SnapshotAssumption, RestoreInv, RebuildFiles PROVE RestoreInv'
<1>t. treeBefore \in Trees /\ tree \in Trees /\ place \in Entries
  BY DEF RestoreInv, SnapshotTypeOK
<1>1. PICK made : made = PutFile(treeBefore, tree, root.rights, place) OBVIOUS
<1>2. /\ stage = "newFiles"
      /\ tree' = made.tree /\ failures' = IF made.named THEN failures \cup {place} ELSE failures
      /\ \/ place = Depth /\ stage' = "newLost" /\ place' = 1
         \/ place # Depth /\ stage' = stage /\ place' = place + 1
      /\ UNCHANGED <<treeBefore, rootBefore, root, obstructed>>
  BY <1>1 DEF RebuildFiles, Step
<1>3. Passing(made) BY <1>2, <1>t, PlaceInEntries, EntriesAre DEF Passing, Repairing, Rebuilding
<1>4. Goes(stage, place, stage', place', "file")
  BY <1>2, <1>t, EntriesAre
  DEF Goes, WalkDone, LinkDone, FileDone, DirDone, LostDone, Rebuilding
<1>5. stage \in Passes \ {"walk"} BY <1>2 DEF Passes, Repairing, Rebuilding
<1>6. /\ Frame(treeBefore, tree, place, made.tree)
      /\ treeBefore[place].kind # "file" => made.tree = tree /\ ~made.named
      /\ treeBefore[place].kind = "file" /\ Walked(treeBefore[place], tree[place]) =>
           made.named \/ made.tree[place] = treeBefore[place] \/ Bridged(tree, place)
      /\ Free(tree, root.rights) /\ Walked(treeBefore[place], tree[place])
         /\ (\A i \in Entries : i < place => tree[i].kind \in {"dir", "none"}) => ~made.named
  BY <1>1, <1>t, PutFileSays
<1> QED BY <1>3, <1>4, <1>5, <1>6, PutPassKeeps

LEMMA NameTheLostKeeps == ASSUME SnapshotAssumption, RestoreInv, NameTheLost PROVE RestoreInv'
<1>0. SnapshotTypeOK /\ Claims /\ AllFree BY DEF RestoreInv
<1>t. treeBefore \in Trees /\ tree \in Trees /\ place \in Entries BY <1>0 DEF SnapshotTypeOK
<1>1. PICK made : made = NameLost(treeBefore, tree, root.rights, place) OBVIOUS
<1>2. /\ stage = "lost"
      /\ tree' = made.tree /\ failures' = IF made.named THEN failures \cup {place} ELSE failures
      /\ \/ place = Depth /\ stage' = "mode" /\ place' = 1
         \/ place # Depth /\ stage' = stage /\ place' = place + 1
      /\ UNCHANGED <<treeBefore, rootBefore, root, obstructed>>
  BY <1>1 DEF NameTheLost, Step
<1>3. Passing(made) BY <1>2, <1>t, PlaceInEntries, EntriesAre DEF Passing, Repairing, Rebuilding
<1>4. Goes(stage, place, stage', place', "lost")
  BY <1>2, <1>t, EntriesAre
  DEF Goes, WalkDone, LinkDone, FileDone, DirDone, LostDone, Rebuilding
<1>5. stage \in Passes BY <1>2 DEF Passes, Repairing, Rebuilding
<1>6. PICK lost : lost = (treeBefore[place].kind \in Unrecorded /\ tree[place] = None) OBVIOUS
<1>7. made = [tree |-> tree, named |-> lost] BY <1>1, <1>6, Zenon DEF NameLost
<1>8. made.tree = tree /\ made.named = lost BY <1>7
<1>9. made.named <=> treeBefore[place].kind \in Unrecorded /\ tree[place] = None
  BY <1>6, <1>8, Zenon
<1>10. Lists => \/ made.named \/ Covered(failures, place)
                \/ Restored(stage', place', place, treeBefore[place], made.tree[place])
  <2> SUFFICES ASSUME Lists, ~made.named, ~Covered(failures, place)
               PROVE  Restored(stage', place', place, treeBefore[place], tree[place])
    BY <1>8
  <2>1. Restored(stage, place, place, treeBefore[place], tree[place])
    BY <1>0, <1>t DEF Claims, Accounted
  <2>2. WalkDone(stage, place, place) BY <1>2 DEF WalkDone
  <2>3. treeBefore[place].kind \in Unrecorded => tree[place] = treeBefore[place]
    BY <2>1, <2>2, <1>9 DEF Restored, Walked
  <2>4. place = place BY <1>t
  <2> QED BY <2>1, <2>3, <1>4, <1>t DEF Restored, Goes
<1>11. ~obstructed => ~made.named
  <2> SUFFICES ASSUME ~obstructed, treeBefore[place].kind \in Unrecorded PROVE tree[place] # None
    BY <1>9
  <2>1. tree[place] = treeBefore[place]
    BY <1>0, <1>2, <1>t DEF AllFree, Undisturbed, Repairing
  <2> QED BY <2>1, DirNodes DEF Unrecorded
<1>12. Frame(treeBefore, tree, place, made.tree) BY <1>8, <1>t, SameFrame
<1> QED BY <1>3, <1>4, <1>5, <1>8, <1>10, <1>11, <1>12, PassKeeps

LEMMA RebuildLostKeeps == ASSUME SnapshotAssumption, RestoreInv, RebuildLost PROVE RestoreInv'
<1>0. SnapshotTypeOK /\ Claims /\ AllFree BY DEF RestoreInv
<1>t. treeBefore \in Trees /\ tree \in Trees /\ place \in Entries BY <1>0 DEF SnapshotTypeOK
<1>1. PICK made : made = NameAll(treeBefore, tree, root.rights, place) OBVIOUS
<1>2. /\ stage = "newLost"
      /\ tree' = made.tree /\ failures' = IF made.named THEN failures \cup {place} ELSE failures
      /\ \/ place = Depth /\ stage' = "done" /\ place' = 1
         \/ place # Depth /\ stage' = stage /\ place' = place + 1
      /\ UNCHANGED <<treeBefore, rootBefore, root, obstructed>>
  BY <1>1 DEF RebuildLost, Step
<1>3. Passing(made) BY <1>2, <1>t, PlaceInEntries, EntriesAre DEF Passing, Repairing, Rebuilding
<1>4. Goes(stage, place, stage', place', "lost")
  BY <1>2, <1>t, EntriesAre
  DEF Goes, WalkDone, LinkDone, FileDone, DirDone, LostDone, Rebuilding
<1>5. stage \in Passes BY <1>2 DEF Passes, Repairing, Rebuilding
<1>6. PICK lost : lost = (treeBefore[place].kind \in Unrecorded) OBVIOUS
<1>7. made = [tree |-> tree, named |-> lost] BY <1>1, <1>6, Zenon DEF NameAll
<1>8. made.tree = tree /\ made.named = lost BY <1>7
<1>9. made.named <=> treeBefore[place].kind \in Unrecorded
  BY <1>6, <1>8, Zenon
<1>10. Lists => \/ made.named \/ Covered(failures, place)
                \/ Restored(stage', place', place, treeBefore[place], made.tree[place])
  <2> SUFFICES ASSUME Lists, ~made.named, ~Covered(failures, place)
               PROVE  Restored(stage', place', place, treeBefore[place], tree[place])
    BY <1>8
  <2>1. Restored(stage, place, place, treeBefore[place], tree[place])
    BY <1>0, <1>t DEF Claims, Accounted
  <2>3. treeBefore[place].kind \notin Unrecorded BY <1>9
  <2>4. place = place BY <1>t
  <2> QED BY <2>1, <2>3, <1>4, <1>t DEF Restored, Goes
<1>11. ~obstructed => ~made.named
  BY <1>0, <1>2, <1>9, <1>t DEF AllFree, Undisturbed, Rebuilding
<1>12. Frame(treeBefore, tree, place, made.tree) BY <1>8, <1>t, SameFrame
<1> QED BY <1>3, <1>4, <1>5, <1>8, <1>10, <1>11, <1>12, PassKeeps

LEMMA WalkedIsSame == ASSUME SnapshotAssumption, NEW x \in Nodes PROVE Walked(x, x)
BY NodeKinds DEF Walked

LEMMA SameIsAccounted ==
  ASSUME SnapshotAssumption, NEW s \in Trees, NEW p, NEW m, NEW named
  PROVE  Accounted(p, m, named, s, s)
<1>1. \A k \in Entries : Walked(s[k], s[k]) BY TreesAre, WalkedIsSame
<1> QED BY <1>1 DEF Accounted, Restored

LEMMA EmptyIs ==
  ASSUME SnapshotAssumption
  PROVE  /\ Empty \in Trees /\ \A k \in Entries : Empty[k] = None
         /\ Free(Empty, "rwx")
<1>1. Empty \in [Entries -> Nodes] /\ \A k \in Entries : Empty[k] = None BY DirNodes DEF Empty
<1>2. Empty \in Trees BY <1>1, IsATree
<1> QED BY <1>1, <1>2, DirNodes DEF Free

LEMMA NothingIsDone ==
  ASSUME SnapshotAssumption, NEW s, NEW t, NEW p, NEW m \in Entries, NEW named,
         p \in {"snapshot", "refused", "run", "root", "raised"} \/ (p = "walk" /\ m = Depth)
  PROVE  Accounted(p, m, named, s, t)
<1>1. ASSUME NEW k \in Entries
      PROVE  /\ ~WalkDone(p, m, k) /\ ~LinkDone(p, m, k) /\ ~FileDone(p, m, k)
             /\ ~DirDone(p, m, k) /\ ~LostDone(p, m, k)
  BY <1>1, EntriesAre DEF WalkDone, LinkDone, FileDone, DirDone, LostDone, Rebuilding
<1> QED BY <1>1 DEF Accounted, Restored

LEMMA RebuildingStarts ==
  ASSUME SnapshotAssumption, NEW s \in Trees, NEW named
  PROVE  Accounted("newDirs", 1, named, s, Empty)
<1>1. ASSUME NEW k \in Entries PROVE Restored("newDirs", 1, k, s[k], Empty[k])
  <2>1. Empty[k] = None /\ None.kind = "none" BY EmptyIs, DirNodes
  <2>2. Walked(s[k], None) BY <2>1 DEF Walked
  <2>3. /\ ~LinkDone("newDirs", 1, k) /\ ~FileDone("newDirs", 1, k)
        /\ ~DirDone("newDirs", 1, k) /\ ~LostDone("newDirs", 1, k)
    BY EntriesAre DEF LinkDone, FileDone, DirDone, LostDone
  <2> QED BY <2>1, <2>2, <2>3 DEF Restored
<1> QED BY <1>1 DEF Accounted

LEMMA EmptiedSays ==
  ASSUME SnapshotAssumption, NEW t \in Trees, NEW r, NEW e, e = Emptied(t, r)
  PROVE  /\ e.tree \in Trees
         /\ e.ok => e.tree = Empty
         /\ Free(t, r) => e.ok /\ Free(e.tree, r)
<1>0. 1 \in Entries /\ 1 \in Int BY EntriesAre
<1>1. ASSUME NEW u \in Trees, u[1] = None PROVE u = Empty
  <2>1. ASSUME NEW k \in Entries PROVE u[k] = None
    <3>1. k = 1 \/ 1 < k BY EntriesAre
    <3> QED BY <3>1, <1>0, <1>1, TreesAre, DirNodes
  <2>2. u \in [Entries -> Nodes] BY TreesAre
  <2> QED BY <2>1, <2>2 DEF Empty
<1>2. Free(Empty, "rwx") BY EmptyIs
<1>3. CASE r = "wx"
  <2>1. e = [ok |-> FALSE, tree |-> t] BY <1>3 DEF Emptied, Stuck
  <2> QED BY <2>1, <1>3 DEF Free
<1>4. CASE r # "wx" /\ t[1] = None
  <2>0. t[1].kind # "dir" BY <1>4, DirNodes
  <2>1. e = [ok |-> TRUE, tree |-> t] BY <1>4, <2>0 DEF Emptied, Succeeded
  <2> QED BY <2>1, <1>1, <1>4
<1>5. CASE r # "wx" /\ t[1].kind = "dir"
  <2>0. t[1] # None BY <1>5, DirNodes
  <2>1. e = RmTree(t, r, 1) BY <1>5, <2>0 DEF Emptied
  <2>2. /\ e.tree \in Trees
        /\ e.ok => e.tree = Cut(t, 1)
        /\ Free(t, r) => e.ok
    BY <2>1, <1>0, <1>5, RmTreeSays
  <2>3. Cut(t, 1)[1] = None BY <1>0, CutSays
  <2>4. e.ok => e.tree = Empty BY <1>1, <2>2, <2>3
  <2> QED BY <2>2, <2>4, <1>2 DEF Free
<1>6. CASE r # "wx" /\ t[1] # None /\ t[1].kind # "dir"
  <2>1. e = Unlink(t, r, 1) BY <1>6 DEF Emptied
  <2>2. /\ e.tree \in Trees
        /\ e.ok => e.tree[1] = None
        /\ Writable(t, r, 1) => e.ok
    BY <2>1, <1>0, <1>6, UnlinkSays
  <2>3. Free(t, r) => Writable(t, r, 1) BY <1>0, FreeIsWritable
  <2>4. e.ok => e.tree = Empty BY <1>1, <2>2
  <2> QED BY <2>2, <2>3, <2>4, <1>2 DEF Free
<1> QED BY <1>3, <1>4, <1>5, <1>6

LEMMA RecordTargetKeeps == ASSUME SnapshotAssumption, RestoreInv, RecordTarget PROVE RestoreInv'
<1>0. SnapshotTypeOK /\ RootHolds BY DEF RestoreInv
<1>1. stage = "snapshot" /\ stage' \in {"run", "refused"} BY DEF RecordTarget
<1>2. /\ treeBefore' \in {tree, treeBefore}
      /\ stage' = "run" => treeBefore' = tree /\ Recordable
      /\ stage' = "refused" => treeBefore' = treeBefore
      /\ UNCHANGED <<rootBefore, tree, root, place, failures, obstructed>>
  BY DEF RecordTarget
<1>3. SnapshotTypeOK' BY <1>0, <1>2 DEF SnapshotTypeOK
<1>4. RootHolds'
  BY <1>0, <1>1, <1>2 DEF RootHolds, Recordable, ByLink, HoldsTree, Repairing, Rebuilding
<1>5. Claims' BY <1>1, <1>3, NothingIsDone DEF Claims, SnapshotTypeOK
<1>6. AllFree' BY <1>1 DEF AllFree
<1> QED BY <1>3, <1>4, <1>5, <1>6 DEF RestoreInv

LEMMA RunCommandKeeps == ASSUME SnapshotAssumption, RestoreInv, RunCommand PROVE RestoreInv'
<1>0. SnapshotTypeOK /\ RootHolds BY DEF RestoreInv
<1>1. stage = "run" /\ stage' = "root" /\ UNCHANGED <<treeBefore, rootBefore, place, failures>>
  BY DEF RunCommand
<1>2. PICK r \in Roots : /\ ~ByLink => r.real = "absent"
                         /\ ~HoldsTree(r) => r.rights = "rwx"
                         /\ root' = r
                         /\ tree' \in IF HoldsTree(r) THEN Trees ELSE {Empty}
  BY DEF RunCommand
<1>3. SnapshotTypeOK' BY <1>0, <1>1, <1>2, EmptyIs DEF SnapshotTypeOK
<1>4. RootHolds'
  BY <1>0, <1>1, <1>2 DEF RootHolds, ByLink, HoldsTree, Repairing, Rebuilding
<1>5. Claims' BY <1>1, <1>3, NothingIsDone DEF Claims, SnapshotTypeOK
<1>6. AllFree'
  <2> SUFFICES ASSUME ~obstructed' PROVE Undisturbed' BY DEF AllFree
  <2>1. /\ ~Sealed(treeBefore, rootBefore) /\ ~Sealed(tree', r)
        /\ \A k \in Entries : treeBefore[k].kind \in Unrecorded => tree'[k] = treeBefore[k]
    BY <1>2 DEF RunCommand
  <2>2. failures = {} /\ root = rootBefore BY <1>0, <1>1 DEF RootHolds
  <2>3. r.held /\ Free(tree', r.rights) BY <2>1, <1>2 DEF Sealed, Free
  <2>4. Free(treeBefore, rootBefore.rights) BY <2>1, <1>0 DEF Sealed, Free, RootHolds
  <2> QED BY <2>1, <2>2, <2>3, <2>4, <1>1, <1>2 DEF Undisturbed, Rebuilding, Repairing
<1> QED BY <1>3, <1>4, <1>5, <1>6 DEF RestoreInv

LEMMA RemoveNewKeeps == ASSUME SnapshotAssumption, RestoreInv, RemoveNew PROVE RestoreInv'
<1>0. SnapshotTypeOK /\ RootHolds /\ AllFree BY DEF RestoreInv
<1>t. tree \in Trees /\ root \in Roots /\ place \in Entries BY <1>0 DEF SnapshotTypeOK
<1>1. stage = "root" /\ rootBefore.path = "absent" BY DEF RemoveNew
<1>2. treeBefore = Empty /\ ~ByLink /\ root.real = "absent" /\ rootBefore.real = "absent"
  BY <1>0, <1>1 DEF RootHolds, HoldsTree, ByLink
<1>3. PICK contents : contents = IF root.path = "dir" THEN Emptied(tree, root.rights)
                                 ELSE Succeeded(tree)
  OBVIOUS
<1>4. PICK gone : gone = (contents.ok /\ (root.held \/ root.path = "absent")) OBVIOUS
<1>5. /\ tree' = contents.tree
      /\ root' = IF gone THEN [root EXCEPT !.path = "absent", !.rights = "rwx"] ELSE root
      /\ stage' = IF gone THEN "done" ELSE "raised"
      /\ UNCHANGED <<treeBefore, rootBefore, place, failures, obstructed>>
  BY <1>3, <1>4 DEF RemoveNew
<1>6. /\ contents.tree \in Trees
      /\ contents.ok => contents.tree = Empty
      /\ Free(tree, root.rights) => contents.ok
  <2>1. CASE root.path = "dir" BY <2>1, <1>3, <1>t, EmptiedSays
  <2>2. CASE root.path # "dir"
    <3>1. contents = [ok |-> TRUE, tree |-> tree] BY <2>2, <1>3 DEF Succeeded
    <3>2. tree = Empty BY <2>2, <1>0, <1>1, <1>2 DEF RootHolds, HoldsTree
    <3> QED BY <3>1, <3>2, EmptyIs
  <2> QED BY <2>1, <2>2
<1>7. CASE gone
  <2>1. contents.ok BY <1>7, <1>4
  <2>2. tree' = Empty /\ stage' = "done" BY <2>1, <1>5, <1>6, <1>7
  <2>3. root' = [root EXCEPT !.path = "absent", !.rights = "rwx"] BY <1>5, <1>7
  <2>4. /\ root' \in Roots /\ root'.path = "absent" /\ root'.real = "absent"
        /\ root'.rights = "rwx" /\ root'.held = root.held
    BY <2>3, <1>t, <1>2 DEF Roots, SnapshotAssumption
  <2>5. SnapshotTypeOK' BY <1>0, <1>5, <2>2, <2>4, EmptyIs DEF SnapshotTypeOK
  <2>6. RootHolds'
    BY <1>0, <1>1, <1>2, <1>5, <2>2, <2>4
    DEF RootHolds, RootAsBefore, HoldsTree, ByLink, Repairing, Rebuilding
  <2>7. Claims' BY <1>2, <1>5, <2>2, EmptyIs, SameIsAccounted DEF Claims
  <2>8. AllFree'
    <3>1. ~obstructed' => ~obstructed /\ Undisturbed BY <1>0, <1>1, <1>5 DEF AllFree
    <3> QED BY <3>1, <1>5, <2>2, <2>4, EmptyIs DEF AllFree, Undisturbed, Repairing, Rebuilding
  <2> QED BY <2>5, <2>6, <2>7, <2>8 DEF RestoreInv
<1>8. CASE ~gone
  <2>1. root' = root /\ stage' = "raised" BY <1>5, <1>8
  <2>2. SnapshotTypeOK' BY <1>0, <1>5, <1>6, <2>1 DEF SnapshotTypeOK
  <2>3. RootHolds'
    BY <1>0, <1>1, <1>5, <2>1 DEF RootHolds, HoldsTree, ByLink, Repairing, Rebuilding
  <2>4. Claims' BY <2>1, <2>2, NothingIsDone DEF Claims, SnapshotTypeOK
  <2>5. obstructed'
    <3>1. ~obstructed => Undisturbed BY <1>0, <1>1 DEF AllFree
    <3>2. Undisturbed => contents.ok /\ root.held BY <1>6 DEF Undisturbed
    <3>3. ~(contents.ok /\ (root.held \/ root.path = "absent")) BY <1>4, <1>8
    <3>4. obstructed BY <3>1, <3>2, <3>3
    <3> QED BY <3>4, <1>5
  <2>6. AllFree' BY <2>5 DEF AllFree
  <2> QED BY <2>2, <2>3, <2>4, <2>6 DEF RestoreInv
<1> QED BY <1>7, <1>8

\* The passes over a directory that is still there start at its deepest entry.
LEMMA RepairKeeps ==
  ASSUME SnapshotAssumption, RestoreInv, stage = "root", HoldsTree(rootBefore),
         root.path = rootBefore.path, root.real = rootBefore.real,
         stage' = "walk", place' = Depth,
         UNCHANGED <<treeBefore, rootBefore, tree, root, failures, obstructed>>
  PROVE  RestoreInv'
<1>0. SnapshotTypeOK /\ RootHolds /\ AllFree BY DEF RestoreInv
<1>1. SnapshotTypeOK' BY <1>0, EntriesAre DEF SnapshotTypeOK
<1>2. RootHolds' BY <1>0 DEF RootHolds, HoldsTree, ByLink, Repairing, Rebuilding
<1>3. Claims' BY EntriesAre, NothingIsDone DEF Claims
<1>4. AllFree'
  <2>1. ~obstructed' => Undisturbed BY <1>0 DEF AllFree
  <2> QED BY <2>1 DEF AllFree, Undisturbed, Repairing, Rebuilding
<1> QED BY <1>1, <1>2, <1>3, <1>4 DEF RestoreInv

\* Those over a directory that was made anew start with the directories in it.
LEMMA RebuildKeeps ==
  ASSUME SnapshotAssumption, RestoreInv, stage = "root", HoldsTree(rootBefore), ~HoldsTree(root),
         root' \in Roots, root'.path = rootBefore.path, root'.real = rootBefore.real,
         root'.rights = rootBefore.rights, root'.held = root.held,
         stage' = "newDirs", place' = 1, tree' = Empty,
         UNCHANGED <<treeBefore, rootBefore, failures, obstructed>>
  PROVE  RestoreInv'
<1>0. SnapshotTypeOK /\ RootHolds /\ AllFree BY DEF RestoreInv
<1>1. SnapshotTypeOK' BY <1>0, EntriesAre, EmptyIs DEF SnapshotTypeOK
<1>2. RootHolds' BY <1>0 DEF RootHolds, HoldsTree, ByLink, Repairing, Rebuilding
<1>3. Claims' BY <1>0, RebuildingStarts DEF Claims, SnapshotTypeOK
<1>4. AllFree'
  <2> SUFFICES ASSUME ~obstructed PROVE Undisturbed' BY DEF AllFree
  <2>1. Undisturbed BY <1>0 DEF AllFree
  <2>2. tree = Empty BY <1>0 DEF RootHolds
  <2>3. \A k \in Entries : treeBefore[k].kind \notin Unrecorded
    BY <2>1, <2>2, EmptyIs, DirNodes DEF Undisturbed, Unrecorded
  <2>4. Free(Empty, rootBefore.rights) BY <2>1, EmptyIs DEF Undisturbed, Free
  <2>5. Free(treeBefore', rootBefore'.rights) /\ Free(tree', root'.rights)
    BY <2>1, <2>4 DEF Undisturbed
  <2> QED BY <2>1, <2>3, <2>5 DEF Undisturbed, Repairing, Rebuilding
<1> QED BY <1>1, <1>2, <1>3, <1>4 DEF RestoreInv

\* The restoration is given up.
LEMMA RaisedKeeps ==
  ASSUME SnapshotAssumption, RestoreInv, stage = "root", stage' = "raised", obstructed',
         UNCHANGED <<treeBefore, rootBefore, tree, root, place, failures>>
  PROVE  RestoreInv'
<1>0. SnapshotTypeOK /\ RootHolds BY DEF RestoreInv
<1>1. SnapshotTypeOK' BY <1>0 DEF SnapshotTypeOK
<1>2. RootHolds' BY <1>0 DEF RootHolds, HoldsTree, ByLink, Repairing, Rebuilding
<1>3. Claims' BY <1>1, NothingIsDone DEF Claims, SnapshotTypeOK
<1>4. AllFree' BY DEF AllFree
<1> QED BY <1>1, <1>2, <1>3, <1>4 DEF RestoreInv

\* What cannot be written is an obstruction.
LEMMA HeldOrObstructed ==
  ASSUME RestoreInv, stage = "root", ~root.held PROVE obstructed
BY DEF RestoreInv, AllFree, Undisturbed

LEMMA RestoreDirRootKeeps == ASSUME SnapshotAssumption, RestoreInv, RestoreDirRoot PROVE RestoreInv'
<1>0. SnapshotTypeOK /\ RootHolds BY DEF RestoreInv
<1>1. /\ stage = "root" /\ rootBefore.path = "dir"
      /\ UNCHANGED <<treeBefore, rootBefore, failures, obstructed>>
  BY DEF RestoreDirRoot
<1>2. HoldsTree(rootBefore) /\ ~ByLink /\ root.real = "absent" /\ rootBefore.real = "absent"
  BY <1>0, <1>1 DEF RootHolds, HoldsTree, ByLink
<1>3. CASE root.path = "dir" /\ Enter("walk", Depth) /\ UNCHANGED <<root, tree>>
  BY <1>1, <1>2, <1>3, RepairKeeps DEF Enter
<1>4. CASE /\ root.path # "dir" /\ root.held /\ Enter("newDirs", 1)
           /\ root' = Rebuilt([root EXCEPT !.path = "dir"]) /\ tree' = Empty
  <2>1. root \in Roots /\ rootBefore.rights \in Rights BY <1>0 DEF SnapshotTypeOK, Roots
  <2>2. root' = [root EXCEPT !.path = "dir", !.rights = rootBefore.rights]
    BY <1>4, <2>1 DEF Rebuilt, Roots
  <2>3. /\ root' \in Roots /\ root'.path = "dir" /\ root'.real = root.real
        /\ root'.rights = rootBefore.rights /\ root'.held = root.held
    BY <2>1, <2>2 DEF Roots
  <2>4. ~HoldsTree(root) BY <1>2, <1>4 DEF HoldsTree
  <2> QED BY <1>1, <1>2, <1>4, <2>3, <2>4, RebuildKeeps DEF Enter
<1>5. CASE root.path # "dir" /\ ~root.held /\ Enter("raised", place) /\ UNCHANGED <<root, tree>>
  BY <1>1, <1>5, HeldOrObstructed, RaisedKeeps DEF Enter
<1> QED BY <1>3, <1>4, <1>5 DEF RestoreDirRoot

LEMMA RelinkKeeps == ASSUME SnapshotAssumption, RestoreInv, Relink PROVE RestoreInv'
<1>0. SnapshotTypeOK /\ RootHolds /\ AllFree BY DEF RestoreInv
<1>1. /\ stage = "root" /\ rootBefore.path = "link" /\ root.path # "link"
      /\ UNCHANGED <<treeBefore, rootBefore, tree, place, failures>>
      /\ obstructed' = (obstructed \/ stage' = "raised")
  BY DEF Relink
<1>2. CASE root.held /\ root' = [root EXCEPT !.path = "link"] /\ UNCHANGED stage
  <2>1. root \in Roots BY <1>0 DEF SnapshotTypeOK
  <2>2. /\ root' \in Roots /\ root'.path = "link" /\ root'.real = root.real
        /\ root'.rights = root.rights /\ root'.held = root.held
    BY <1>2, <2>1 DEF Roots
  <2>3. SnapshotTypeOK' BY <1>0, <1>1, <2>2 DEF SnapshotTypeOK
  <2>4. RootHolds'
    BY <1>0, <1>1, <1>2, <2>2 DEF RootHolds, HoldsTree, ByLink, Repairing, Rebuilding
  <2>5. stage' = "root" BY <1>1, <1>2
  <2>6. Claims' BY <2>3, <2>5, NothingIsDone DEF Claims, SnapshotTypeOK
  <2>7. AllFree'
    <3>1. ~obstructed' => Undisturbed BY <1>0, <1>1 DEF AllFree
    <3>2. Free(tree, root.rights) => Free(tree', root'.rights) BY <1>1, <2>2
    <3> QED BY <3>1, <3>2, <1>1, <2>2, <2>5 DEF AllFree, Undisturbed, Repairing, Rebuilding
  <2> QED BY <2>3, <2>4, <2>6, <2>7 DEF RestoreInv
<1>3. CASE stage' = "raised" /\ UNCHANGED root
  <2>1. obstructed' BY <1>1, <1>3
  <2> QED BY <1>1, <1>3, <2>1, RaisedKeeps
<1> QED BY <1>2, <1>3 DEF Relink

LEMMA RestoreLinkedRootKeeps ==
  ASSUME SnapshotAssumption, RestoreInv, RestoreLinkedRoot PROVE RestoreInv'
<1>0. SnapshotTypeOK /\ RootHolds /\ AllFree BY DEF RestoreInv
<1>t. /\ tree \in Trees /\ root \in Roots /\ place \in Entries /\ treeBefore \in Trees
      /\ rootBefore.rights \in Rights
  BY <1>0 DEF SnapshotTypeOK, Roots
<1>1. /\ stage = "root" /\ rootBefore.path = "link" /\ root.path = "link"
      /\ UNCHANGED <<treeBefore, rootBefore, obstructed>>
  BY DEF RestoreLinkedRoot
<1>2. ByLink BY <1>1 DEF ByLink
\* Nothing is left of what was put where the link led to nothing, or the root is named.
<1>3. ASSUME rootBefore.real = "absent", stage' = "done", place' = place,
             root' \in Roots, root'.held = root.held, root'.path = root.path, tree' \in Trees,
             \/ /\ tree' = Empty /\ failures' = failures
                /\ root'.real = "absent" /\ root'.rights = "rwx"
             \/ obstructed /\ failures' = failures \cup {0}
      PROVE  RestoreInv'
  <2>1. treeBefore = Empty BY <1>0, <1>2, <1>3 DEF RootHolds, HoldsTree
  <2>2. SnapshotTypeOK' BY <1>0, <1>1, <1>3 DEF SnapshotTypeOK
  <2>3. RootHolds'
    BY <1>0, <1>1, <1>2, <1>3
    DEF RootHolds, RootAsBefore, HoldsTree, ByLink, Repairing, Rebuilding
  <2>4. Claims'
    <3>1. CASE tree' = Empty BY <3>1, <2>1, <1>1, EmptyIs, SameIsAccounted DEF Claims
    <3>2. CASE 0 \in failures'
      <4>1. PICK named : named = failures' OBVIOUS
      <4>2. \A k \in Entries : Covered(named, k) BY <3>2, <4>1, EntriesAre DEF Covered
      <4> QED BY <4>1, <4>2 DEF Claims, Accounted
    <3> QED BY <1>3, <3>1, <3>2
  <2>5. AllFree'
    <3>1. ~obstructed' => ~obstructed /\ Undisturbed BY <1>0, <1>1 DEF AllFree
    <3> QED BY <3>1, <1>1, <1>3, EmptyIs DEF AllFree, Undisturbed, Repairing, Rebuilding
  <2> QED BY <2>2, <2>3, <2>4, <2>5 DEF RestoreInv
<1>4. CASE /\ rootBefore.real = "absent" /\ root.real = "absent" /\ Enter("done", place)
           /\ UNCHANGED <<root, tree, failures>>
  <2>1. tree = Empty /\ root.rights = "rwx" BY <1>0, <1>1, <1>2, <1>4 DEF RootHolds, HoldsTree
  <2> QED BY <2>1, <1>3, <1>4, <1>t DEF Enter
<1>5. CASE /\ rootBefore.real = "absent" /\ root.real # "absent" /\ Enter("done", place)
           /\ LET contents == IF root.real = "dir" THEN Emptied(tree, root.rights)
                              ELSE Succeeded(tree)
                  gone == contents.ok /\ root.held
              IN /\ tree' = contents.tree
                 /\ root' = IF gone THEN [root EXCEPT !.real = "absent", !.rights = "rwx"]
                            ELSE root
                 /\ failures' = IF gone THEN failures ELSE failures \cup {0}
  <2>1. PICK contents : contents = IF root.real = "dir" THEN Emptied(tree, root.rights)
                                   ELSE Succeeded(tree)
    OBVIOUS
  <2>2. PICK gone : gone = (contents.ok /\ root.held) OBVIOUS
  <2>3. /\ tree' = contents.tree
        /\ root' = IF gone THEN [root EXCEPT !.real = "absent", !.rights = "rwx"] ELSE root
        /\ failures' = IF gone THEN failures ELSE failures \cup {0}
    BY <1>5, <2>1, <2>2
  <2>4. /\ contents.tree \in Trees
        /\ contents.ok => contents.tree = Empty
        /\ Free(tree, root.rights) => contents.ok
    <3>1. CASE root.real = "dir" BY <3>1, <2>1, <1>t, EmptiedSays
    <3>2. CASE root.real # "dir"
      <4>1. contents = [ok |-> TRUE, tree |-> tree] BY <3>2, <2>1 DEF Succeeded
      <4>2. tree = Empty BY <3>2, <1>0, <1>1, <1>2 DEF RootHolds, HoldsTree
      <4> QED BY <4>1, <4>2, EmptyIs
    <3> QED BY <3>1, <3>2
  <2>5. CASE gone
    <3>1. contents.ok BY <2>2, <2>5
    <3>2. tree' = Empty /\ failures' = failures BY <2>3, <2>4, <2>5, <3>1
    <3>3. /\ root' \in Roots /\ root'.path = root.path /\ root'.real = "absent"
          /\ root'.rights = "rwx" /\ root'.held = root.held
      BY <2>3, <2>5, <1>t DEF Roots, SnapshotAssumption
    <3> QED BY <3>2, <3>3, <1>3, <1>5, EmptyIs DEF Enter
  <2>6. CASE ~gone
    <3>1. ~(contents.ok /\ root.held) BY <2>2, <2>6
    <3>2. obstructed BY <3>1, <2>4, <1>0, <1>1 DEF AllFree, Undisturbed
    <3>3. root' = root /\ failures' = failures \cup {0} BY <2>3, <2>6
    <3> QED BY <3>2, <3>3, <2>3, <2>4, <1>3, <1>5, <1>t DEF Enter
  <2> QED BY <2>5, <2>6
<1>6. CASE /\ rootBefore.real = "dir" /\ root.real = "dir" /\ Enter("walk", Depth)
           /\ UNCHANGED <<root, tree, failures>>
  BY <1>1, <1>2, <1>6, RepairKeeps DEF Enter, HoldsTree
<1>7. CASE /\ rootBefore.real = "dir" /\ root.real # "dir" /\ root.held /\ Enter("newDirs", 1)
           /\ root' = Rebuilt([root EXCEPT !.real = "dir"])
           /\ tree' = Empty /\ UNCHANGED failures
  <2>1. root' = [root EXCEPT !.real = "dir", !.rights = rootBefore.rights]
    BY <1>7, <1>t DEF Rebuilt, Roots
  <2>2. /\ root' \in Roots /\ root'.path = root.path /\ root'.real = "dir"
        /\ root'.rights = rootBefore.rights /\ root'.held = root.held
    BY <2>1, <1>t DEF Roots
  <2>3. HoldsTree(rootBefore) /\ ~HoldsTree(root) BY <1>2, <1>7 DEF HoldsTree
  <2> QED BY <1>1, <1>7, <2>2, <2>3, RebuildKeeps DEF Enter
<1>8. CASE /\ rootBefore.real = "dir" /\ root.real \notin {"dir", "absent"} /\ ~root.held
           /\ Enter("done", place) /\ failures' = failures \cup {0} /\ UNCHANGED <<root, tree>>
  <2>0. obstructed' BY <1>1, <1>8, HeldOrObstructed
  <2>1. SnapshotTypeOK' BY <1>0, <1>1, <1>8 DEF SnapshotTypeOK, Enter
  <2>2. RootHolds'
    BY <1>0, <1>1, <1>8 DEF RootHolds, HoldsTree, ByLink, Repairing, Rebuilding, Enter
  <2>3. Claims'
    <3>1. PICK named : named = failures' OBVIOUS
    <3>2. \A k \in Entries : Covered(named, k) BY <1>8, <3>1, EntriesAre DEF Covered
    <3> QED BY <3>1, <3>2 DEF Claims, Accounted
  <2>4. AllFree' BY <2>0 DEF AllFree
  <2> QED BY <2>1, <2>2, <2>3, <2>4 DEF RestoreInv
<1>9. CASE /\ rootBefore.real = "dir" /\ root.real = "absent" /\ ~root.held
           /\ Enter("raised", place) /\ UNCHANGED <<root, tree, failures>>
  BY <1>1, <1>9, HeldOrObstructed, RaisedKeeps DEF Enter
<1> QED BY <1>4, <1>5, <1>6, <1>7, <1>8, <1>9 DEF RestoreLinkedRoot

LEMMA RestoreRootModeKeeps ==
  ASSUME SnapshotAssumption, RestoreInv, RestoreRootMode PROVE RestoreInv'
<1>0. SnapshotTypeOK /\ RootHolds /\ Claims /\ AllFree BY DEF RestoreInv
<1>t. root \in Roots /\ rootBefore.rights \in Rights BY <1>0 DEF SnapshotTypeOK, Roots
<1>1. /\ stage = "mode" /\ stage' = "done"
      /\ UNCHANGED <<treeBefore, rootBefore, tree, place, failures, obstructed>>
      /\ root' = [root EXCEPT !.rights = rootBefore.rights]
  BY DEF RestoreRootMode, Rebuilt
<1>2. /\ root' \in Roots /\ root'.path = root.path /\ root'.real = root.real
      /\ root'.rights = rootBefore.rights /\ root'.held = root.held
  BY <1>1, <1>t DEF Roots
<1>3. SnapshotTypeOK' BY <1>0, <1>1, <1>2 DEF SnapshotTypeOK
<1>4. RootHolds'
  BY <1>0, <1>1, <1>2
  DEF RootHolds, RootAsBefore, HoldsTree, ByLink, Repairing, Rebuilding
<1>5. Claims'
  <2>1. \A k \in Entries : /\ WalkDone("done", place, k) => WalkDone("mode", place, k)
                           /\ LinkDone("done", place, k) => LinkDone("mode", place, k)
                           /\ FileDone("done", place, k) => FileDone("mode", place, k)
                           /\ DirDone("done", place, k) => DirDone("mode", place, k)
                           /\ LostDone("done", place, k) => LostDone("mode", place, k)
    BY DEF WalkDone, LinkDone, FileDone, DirDone, LostDone
  <2>2. Accounted("mode", place, failures, treeBefore, tree)
          => Accounted("done", place, failures, treeBefore, tree)
    BY <2>1 DEF Accounted, Restored
  <2> QED BY <2>2, <1>0, <1>1 DEF Claims, Lists
<1>6. AllFree'
  <2>1. ~obstructed' => ~obstructed /\ Undisturbed BY <1>0, <1>1 DEF AllFree
  <2>2. Undisturbed => Free(tree', root'.rights) BY <1>1, <1>2 DEF Undisturbed, Free
  <2> QED BY <2>1, <2>2, <1>1, <1>2 DEF AllFree, Undisturbed, Repairing, Rebuilding
<1> QED BY <1>3, <1>4, <1>5, <1>6 DEF RestoreInv

LEMMA RestoreInvInit == ASSUME SnapshotAssumption, SnapshotInit PROVE RestoreInv
<1>1. SnapshotTypeOK BY EntriesAre, EmptyIs DEF SnapshotInit, SnapshotTypeOK
<1>2. RootHolds
  BY DEF SnapshotInit, RootHolds, ByLink, HoldsTree, Repairing, Rebuilding
<1>3. Claims BY <1>1, NothingIsDone DEF Claims, SnapshotInit, SnapshotTypeOK
<1>4. AllFree BY DEF AllFree, SnapshotInit
<1> QED BY <1>1, <1>2, <1>3, <1>4 DEF RestoreInv

LEMMA RestoreInvNext ==
  ASSUME SnapshotAssumption, RestoreInv, [SnapshotNext]_snapshotVars PROVE RestoreInv'
<1>1. CASE UNCHANGED snapshotVars
  <2> USE <1>1 DEF snapshotVars
  <2>1. SnapshotTypeOK' BY DEF RestoreInv, SnapshotTypeOK
  <2>2. RootHolds' BY DEF RestoreInv, RootHolds, RootAsBefore, HoldsTree, ByLink
  <2>3. Claims' BY DEF RestoreInv, Claims, Lists
  <2>4. AllFree' BY DEF RestoreInv, AllFree, Undisturbed
  <2> QED BY <2>1, <2>2, <2>3, <2>4 DEF RestoreInv
<1> QED
  BY <1>1, RecordTargetKeeps, RunCommandKeeps, RemoveNewKeeps, RestoreDirRootKeeps, RelinkKeeps,
     RestoreLinkedRootKeeps, RemoveAddedKeeps, RestoreLinksKeeps, RestoreFilesKeeps,
     RestoreDirsKeeps, NameTheLostKeeps, RebuildDirsKeeps, RebuildLinksKeeps, RebuildFilesKeeps,
     RebuildLostKeeps, RestoreRootModeKeeps
  DEF SnapshotNext

\* When the restoration is over, what is not named is as it was.
LEMMA RestoredIsSame ==
  ASSUME SnapshotAssumption, NEW m, NEW k, NEW x \in Nodes, NEW y, Restored("done", m, k, x, y)
  PROVE  y = x
<1>1. /\ WalkDone("done", m, k) /\ LinkDone("done", m, k) /\ FileDone("done", m, k)
      /\ DirDone("done", m, k) /\ LostDone("done", m, k)
  BY DEF WalkDone, LinkDone, FileDone, DirDone, LostDone
<1>2. x.kind \in {"none", "file", "link", "dir"} \cup Unrecorded /\ (x.kind = "none" => x = None)
  BY NodeKinds DEF Unrecorded
<1> QED BY <1>1, <1>2 DEF Restored, Walked

LEMMA WritableAreRestored == ASSUME SnapshotAssumption, RestoreInv PROVE WritableIsRestored
<1>0. SnapshotTypeOK /\ RootHolds /\ Claims /\ AllFree BY DEF RestoreInv
<1> SUFFICES ASSUME ~obstructed
             PROVE  /\ stage # "raised"
                    /\ stage = "done" => failures = {} /\ tree = treeBefore /\ RootAsBefore
  BY DEF WritableIsRestored
<1>1. stage \in {"raised", "done"} => Undisturbed BY <1>0 DEF AllFree
<1>2. ASSUME stage = "done" PROVE failures = {} /\ tree = treeBefore /\ RootAsBefore
  <2>1. failures = {} BY <1>1, <1>2 DEF Undisturbed
  <2>2. Accounted("done", place, {}, treeBefore, tree) BY <1>0, <1>2, <2>1 DEF Claims, Lists
  <2>3. tree \in Trees /\ treeBefore \in Trees BY <1>0 DEF SnapshotTypeOK
  <2>4. ASSUME NEW k \in Entries PROVE tree[k] = treeBefore[k]
    <3>1. Restored("done", place, k, treeBefore[k], tree[k]) BY <2>2 DEF Accounted, Covered
    <3>2. treeBefore[k] \in Nodes BY <2>3, TreesAre
    <3> QED BY <3>1, <3>2, RestoredIsSame
  <2>5. tree \in [Entries -> Nodes] /\ treeBefore \in [Entries -> Nodes] BY <2>3, TreesAre
  <2>6. tree = treeBefore BY <2>4, <2>5
  <2>7. RootAsBefore BY <1>0, <1>2, <2>1 DEF RootHolds
  <2> QED BY <2>1, <2>6, <2>7
<1> QED BY <1>1, <1>2 DEF Undisturbed

LEMMA NamesAreTrue ==
  ASSUME SnapshotAssumption, "wx" \notin Rights, RestoreInv PROVE DifferencesAreNamed
<1>0. SnapshotTypeOK /\ RootHolds /\ Claims BY DEF RestoreInv
<1> SUFFICES ASSUME stage = "done"
             PROVE  /\ RootAsBefore \/ 0 \in failures
                    /\ \A k \in Entries :
                         tree[k] # treeBefore[k] => \E j \in 0 .. k : j \in failures
  BY DEF DifferencesAreNamed
<1>1. ASSUME NEW k \in Entries, tree[k] # treeBefore[k] PROVE \E j \in 0 .. k : j \in failures
  <2>1. Accounted("done", place, failures, treeBefore, tree) BY <1>0 DEF Claims, Lists
  <2>2. treeBefore[k] \in Nodes BY <1>0, TreesAre DEF SnapshotTypeOK
  <2>3. Covered(failures, k) BY <2>1, <2>2, <1>1, RestoredIsSame DEF Accounted
  <2>4. PICK j \in {0} \cup Entries : j <= k /\ j \in failures BY <2>3 DEF Covered
  <2>5. j \in 0 .. k BY <2>4, EntriesAre
  <2> QED BY <2>4, <2>5
<1>2. RootAsBefore \/ 0 \in failures BY <1>0 DEF RootHolds
<1> QED BY <1>1, <1>2

(* WritableIsRestored, for FileSystemBackend.restore_install_target: where  *)
(* every directory can be written and no unrecorded file was touched, a     *)
(* target of any depth ends exactly as it was, with directories that        *)
(* cannot be listed or without.                                             *)
THEOREM WhatCanBeWrittenIsRestored ==
  ASSUME SnapshotAssumption PROVE SnapshotSpec => []WritableIsRestored
<1>1. RestoreInv => WritableIsRestored BY WritableAreRestored
<1>2. SnapshotInit => RestoreInv BY RestoreInvInit
<1>3. RestoreInv /\ [SnapshotNext]_snapshotVars => RestoreInv' BY RestoreInvNext
<1> QED BY <1>1, <1>2, <1>3, PTL DEF SnapshotSpec

(* RestoreIsTrue, for FileSystemBackend.restore_install_target and          *)
(* _restore_dir_contents: where no directory is entered and written but     *)
(* not listed, every difference the restoration of a target of any depth    *)
(* leaves has been named, and what can be written is restored.              *)
THEOREM RestorationsAreTrue ==
  ASSUME SnapshotAssumption, "wx" \notin Rights PROVE SnapshotSpec => []RestoreIsTrue
<1>1. RestoreInv => RestoreIsTrue BY WritableAreRestored, NamesAreTrue DEF RestoreIsTrue
<1>2. SnapshotInit => RestoreInv BY RestoreInvInit
<1>3. RestoreInv /\ [SnapshotNext]_snapshotVars => RestoreInv' BY RestoreInvNext
<1> QED BY <1>1, <1>2, <1>3, PTL DEF SnapshotSpec
=============================================================================
