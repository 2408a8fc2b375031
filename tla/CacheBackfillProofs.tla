------------------------ MODULE CacheBackfillProofs ------------------------
(***************************************************************************)
(* Theorems about CacheBackfill and CachePolling: for any paths, plug-ins, *)
(* artifacts and refused registrations, a root whose discovery never fails *)
(* replays nothing; and for any roots, globs and failures of hooks, a      *)
(* polled root reports what is new once, and nothing that is old.          *)
(***************************************************************************)
EXTENDS CacheBackfill, CachePolling, FiniteSetTheorems, TLAPS

\* The root has stayed and nothing has raised.
Quiet == root = 1 /\ raised = 0

Doing(steps) == job # Idle /\ job.step \in steps

\* What walks for a watch has one.
Engaged == watch = NoWatch => job = Idle \/ Doing({"start", "refused"})

\* Watch and job go through one registration together.
Registration ==
  /\ watch = NoWatch => kernel = {}
  /\ watch # NoWatch =>
       /\ watch.root = 1 /\ (job = Idle \/ Doing({"snapshot", "scan", "grace", "content"}))
       /\ watch.open <=> Doing({"snapshot", "scan", "grace"})
       /\ ~watch.open => watch.seen = {}
       /\ job = Idle => watch.plugins = Plugins
  /\ job # Idle => ~job.bad /\ (job.step # "start" => job.globs = Plugins)

\* A baseline that was there at the start of what is still there.
Complete(ids, P) == ids \subseteq old /\ \A p \in P : file[p] \in old => file[p] \in ids

BaselinesHold ==
  /\ Doing({"snapshot", "refused"}) => Complete(job.got, Paths \ job.todo)
  /\ Doing({"scan"}) => ~job.exclude.incomplete /\ Complete(job.exclude.ids, Paths)
  /\ watch = NoWatch /\ job = Idle =>
       known.root = 1 /\ ~known.incomplete /\ Complete(known.ids, Paths)

\* The scan of this registration has not come to p.
Pending(p) == watch = NoWatch \/ Doing({"snapshot"}) \/ (Doing({"scan"}) /\ p \in job.todo)

Seen == IF watch # NoWatch /\ watch.open THEN watch.seen ELSE {}

\* What was made at p and may still be queued.
Owed(p) == {a \in Arts \ Seen :
  [path |-> p, id |-> a] \in kernel \/ (a = file[p] /\ a \notin old /\ Pending(p))}

\* Nothing made since the start escapes the claims while they are kept.
Accounted ==
  /\ \A e \in kernel : file[e.path] \notin old
  /\ watch # NoWatch /\ watch.open => \A p \in Paths :
       file[p] \notin old \cup {Absent} =>
         file[p] \in watch.seen \/ [path |-> p, id |-> file[p]] \in kernel \/ Pending(p)

Paid == \A p \in Paths : due[p] >= Cardinality(Owed(p))

Settled == Registration /\ BaselinesHold /\ Accounted /\ Paid

Inv == TypeOK /\ Engaged /\ (Quiet => Settled)

-----------------------------------------------------------------------------

LEMMA Distinct ==
  /\ \A w \in Watches : w # NoWatch
  /\ \A j \in Jobs : j # Idle
<1>1. ASSUME NEW w \in Watches PROVE w # NoWatch
  <2>1. w.root # 0
    BY <1>1, BoundsAssumption DEF Watches
  <2>2. NoWatch.root = 0
    BY DEF NoWatch
  <2> QED
    BY <2>1, <2>2
<1>2. ASSUME NEW j \in Jobs PROVE j # Idle
  <2>1. j.step # "idle"
    BY <1>2 DEF Jobs
  <2>2. Idle.step = "idle"
    BY DEF Idle
  <2> QED
    BY <2>1, <2>2
<1> QED
  BY <1>1, <1>2

LEMMA EmptyBaseline == NoBaseline \in Baselines
  BY BoundsAssumption DEF NoBaseline, Baselines

LEMMA FirstWatch ==
  ASSUME TypeOK
  PROVE  /\ NewWatch \in Watches /\ NewWatch.open /\ NewWatch.seen = {}
         /\ NewWatch.root = root
  BY EmptyBaseline DEF NewWatch, Watches, TypeOK

LEMMA NewJob ==
  ASSUME NEW D \in SUBSET Plugins, NEW exclude \in Baselines,
         NEW step \in {"snapshot", "refused", "scan", "content"}
  PROVE  Job(step, D, exclude) \in Jobs
  BY DEF Job, Jobs

LEMMA FirstJob == Job("start", {}, NoBaseline) \in Jobs /\
                  Job("start", {}, NoBaseline).step = "start" /\
                  Job("start", {}, NoBaseline).bad = FALSE
  BY EmptyBaseline DEF Job, Jobs

\* What a job that is under way is.
LEMMA Working ==
  ASSUME TypeOK, job # Idle
  PROVE  job \in Jobs
  BY DEF TypeOK

LEMMA ArtsFinite == IsFiniteSet(Arts)
  BY FS_Interval, BoundsAssumption DEF Arts

-----------------------------------------------------------------------------
LEMMA TypeInit == Init => TypeOK
<1> SUFFICES ASSUME Init PROVE TypeOK
  OBVIOUS
<1>1. PICK P \in SUBSET Paths :
       /\ Cardinality(P) <= MaxArts
       /\ file \in [Paths -> 0 .. Cardinality(P)]
       /\ made = Cardinality(P) /\ old = 1 .. Cardinality(P)
  BY DEF Init
<1>2. Cardinality(P) \in Nat
  BY FS_Subset, FS_CardinalityType, PluginAssumption
<1>3. made \in 0 .. MaxArts /\ file \in [Paths -> 0 .. made] /\ old \subseteq 1 .. made
  BY <1>1, <1>2, BoundsAssumption
<1>4. due \in [Paths -> -1 .. made] /\ covered \subseteq Arts /\ root \in 1 .. MaxRoots
  BY <1>3, BoundsAssumption DEF Init
<1>5. watch \in Watches \cup {NoWatch} /\ known \in Baselines
  BY EmptyBaseline DEF Init
<1>6. kernel \subseteq [path : Paths, id : 1 .. made] /\ job \in Jobs \cup {Idle}
  BY FirstJob DEF Init
<1>7. refused \in 0 .. MaxRefused /\ raised \in 0 .. MaxRaised
  BY BoundsAssumption DEF Init
<1> QED
  BY <1>3, <1>4, <1>5, <1>6, <1>7 DEF TypeOK

\* What is at a path is an artifact or nothing.
LEMMA FileType ==
  ASSUME TypeOK, NEW p \in Paths
  PROVE  file[p] \in 0 .. made /\ {file[p]} \ {Absent} \subseteq Arts
  BY BoundsAssumption DEF TypeOK, Absent, Arts

LEMMA TypeReport ==
  ASSUME TypeOK, NEW p \in Paths, Report(p), made' = made
  PROVE  due' \in [Paths -> -1 .. made'] /\ covered' \subseteq Arts
<1>1. due[p] \in -1 .. made /\ made \in Nat
  BY BoundsAssumption DEF TypeOK
<1>2. (IF file[p] = Absent \/ due[p] < 0 THEN due[p] ELSE due[p] - 1) \in -1 .. made
  BY <1>1
<1>3. due' \in [Paths -> -1 .. made]
  BY <1>2 DEF Report, TypeOK
<1> QED
  BY <1>3, FileType DEF Report, TypeOK

LEMMA TypeClaim ==
  ASSUME TypeOK, NEW p \in Paths, Claim(file[p])
  PROVE  watch' \in Watches \cup {NoWatch} /\ (watch # NoWatch => watch' \in Watches)
<1>1. CASE watch # NoWatch /\ watch.open
  <2>1. watch \in Watches
    BY <1>1 DEF TypeOK
  <2>2. watch.seen \cup ({file[p]} \ {Absent}) \subseteq Arts
    BY <2>1, FileType DEF Watches
  <2> QED
    BY <1>1, <2>1, <2>2 DEF Claim, Watches
<1>2. CASE ~(watch # NoWatch /\ watch.open)
  BY <1>2 DEF Claim, TypeOK
<1> QED
  BY <1>1, <1>2

LEMMA TypeRaised ==
  ASSUME TypeOK, NEW D \in SUBSET Plugins, Discovered(D)
  PROVE  raised' \in 0 .. MaxRaised
<1>1. Cardinality(Plugins \ D) \in Nat
  BY FS_Subset, FS_CardinalityType, PluginAssumption
<1> QED
  BY <1>1, BoundsAssumption DEF TypeOK, Discovered

LEMMA TypeNext ==
  ASSUME TypeOK, Engaged, [Next]_vars
  PROVE  TypeOK'
<1> USE DEF disk
<1>1. ASSUME NEW p \in Paths, Create(p) PROVE TypeOK'
  <2>1. made' \in 0 .. MaxArts /\ made' = made + 1 /\ made \in Nat
    BY <1>1, BoundsAssumption DEF Create, TypeOK
  <2>2. file' \in [Paths -> 0 .. made']
    BY <1>1, <2>1 DEF Create, TypeOK
  <2>3. old' \subseteq 1 .. made' /\ kernel' \subseteq [path : Paths, id : 1 .. made']
    BY <1>1, <2>1 DEF Create, TypeOK
  <2>4. due[p] + 1 \in -1 .. made'
    <3>1. due[p] \in -1 .. made
      BY DEF TypeOK
    <3> QED
      BY <2>1, <3>1
  <2>5. due' \in [Paths -> -1 .. made']
    BY <1>1, <2>1, <2>4 DEF Create, TypeOK
  <2> QED
    BY <1>1, <2>1, <2>2, <2>3, <2>5 DEF Create, TypeOK
<1>2. ASSUME NEW p \in Paths, Delete(p) PROVE TypeOK'
  BY <1>2, BoundsAssumption DEF Delete, TypeOK, Absent
<1>3. ASSUME Rebuild PROVE TypeOK'
  BY <1>3, BoundsAssumption DEF Rebuild, TypeOK, Absent
<1>4. ASSUME NEW e \in kernel, Dispatch(e) PROVE TypeOK'
  <2>1. e.path \in Paths
    BY DEF TypeOK
  <2>2. due' \in [Paths -> -1 .. made] /\ covered' \subseteq Arts
    BY <1>4, <2>1, TypeReport DEF Dispatch, NotReported, TypeOK
  <2>3. watch' \in Watches \cup {NoWatch}
    BY <1>4, <2>1, TypeClaim DEF Dispatch, TypeOK
  <2> QED
    BY <1>4, <2>2, <2>3 DEF Dispatch, TypeOK
<1>5. ASSUME NEW D \in SUBSET Plugins, Start(D) PROVE TypeOK'
  <2>1. Job("snapshot", D, NoBaseline) \in Jobs /\ Job("refused", D, NoBaseline) \in Jobs
    BY NewJob, EmptyBaseline
  <2>4. job' \in Jobs
    BY <1>5, <2>1 DEF Start
  <2>2. watch' \in Watches \cup {NoWatch}
    BY <1>5, FirstWatch DEF Start, TypeOK
  <2>3. refused' \in 0 .. MaxRefused /\ raised' \in 0 .. MaxRaised
    BY <1>5, TypeRaised, BoundsAssumption DEF Start, TypeOK
  <2> QED
    BY <1>5, <2>2, <2>3, <2>4 DEF Start, TypeOK
<1>6. ASSUME NEW D \in SUBSET Plugins, Rescan(D) PROVE TypeOK'
  <2>1. known' \in Baselines
    BY <1>6, EmptyBaseline DEF Rescan, KnownExclude, TypeOK
  <2>2. watch' \in Watches \cup {NoWatch}
    BY <1>6, FirstWatch DEF Rescan, TypeOK
  <2>4. Job("scan", D, known') \in Jobs
    BY <2>1, NewJob
  <2>5. job' \in Jobs \cup {Idle}
    BY <1>6, <2>4 DEF Rescan, TypeOK
  <2>3. refused' \in 0 .. MaxRefused /\ raised' \in 0 .. MaxRaised
    BY <1>6, TypeRaised, BoundsAssumption DEF Rescan, TypeOK
  <2> QED
    BY <1>6, <2>1, <2>2, <2>3, <2>5 DEF Rescan, TypeOK
<1>7. ASSUME NEW D \in SUBSET Plugins, CatchUp(D) PROVE TypeOK'
  <2>1. watch.content \in Baselines
    BY <1>7 DEF CatchUp, Hearing, TypeOK, Watches
  <2>2. job' \in Jobs
    BY <1>7, <2>1, NewJob DEF CatchUp
  <2>3. raised' \in 0 .. MaxRaised
    BY <1>7, TypeRaised DEF CatchUp
  <2> QED
    BY <1>7, <2>2, <2>3 DEF CatchUp, TypeOK
<1>8. ASSUME NEW p \in Paths, Snapshot(p) PROVE TypeOK'
  <2>1. {a \in {file[p]} : Baselined(a)} \subseteq Arts
    BY FileType DEF Baselined
  <2>2. job \in Jobs
    BY <1>8, Working DEF Snapshot
  <2>3. job.got \cup {a \in {file[p]} : Baselined(a)} \in SUBSET Arts
        /\ job.todo \ {p} \in SUBSET Paths
    BY <2>1, <2>2 DEF Jobs
  <2>4. job' \in Jobs
    BY <1>8, <2>2, <2>3 DEF Snapshot, Jobs
  <2> QED
    BY <1>8, <2>4 DEF Snapshot, TypeOK
<1>9. ASSUME NEW p \in Paths, Scan(p) PROVE TypeOK'
  <2>1. job' \in Jobs
    BY <1>9, Working DEF Scan, Jobs
  <2>2. due' \in [Paths -> -1 .. made] /\ covered' \subseteq Arts
    BY <1>9, TypeReport DEF Scan, NotReported, TypeOK
  <2>3. watch' \in Watches \cup {NoWatch}
    BY <1>9, TypeClaim DEF Scan, TypeOK
  <2> QED
    BY <1>9, <2>1, <2>2, <2>3 DEF Scan, TypeOK
<1>10. ASSUME NEW g \in Plugins, GlobRaises(g) PROVE TypeOK'
  <2>1. job' \in Jobs
    BY <1>10, Working DEF GlobRaises, Jobs
  <2>2. raised' \in 0 .. MaxRaised
    BY <1>10, BoundsAssumption DEF GlobRaises, TypeOK
  <2> QED
    BY <1>10, <2>1, <2>2 DEF GlobRaises, TypeOK
<1>11. ASSUME Walked PROVE Baseline \in Baselines /\ job \in Jobs
  BY <1>11, Working, BoundsAssumption DEF Walked, Baseline, Baselines, Jobs, TypeOK
<1>12. ASSUME SnapshotDone PROVE TypeOK'
  <2>1. job.globs \in SUBSET Plugins
    BY <1>11, <1>12 DEF SnapshotDone, Jobs
  <2>2. job' \in Jobs \cup {Idle}
    BY <1>11, <1>12, <2>1, NewJob DEF SnapshotDone
  <2> QED
    BY <1>11, <1>12, <2>2 DEF SnapshotDone, TypeOK
<1>13. ASSUME ScanDone PROVE TypeOK'
  <2>1. job \in Jobs /\ job.globs \in SUBSET Plugins
    BY <1>11, <1>13 DEF ScanDone, Jobs
  <2>2. [job EXCEPT !.step = "grace"] \in Jobs
    BY <2>1 DEF Jobs
  <2>3. job' \in Jobs \cup {Idle}
    BY <1>13, <2>1, <2>2, NewJob, EmptyBaseline DEF ScanDone
  <2> QED
    BY <1>13, <2>3 DEF ScanDone, TypeOK
<1>14. ASSUME Close PROVE TypeOK'
  <2>1. job \in Jobs /\ job.globs \in SUBSET Plugins
    BY <1>11, <1>14 DEF Close, Jobs
  <2>2. job' \in Jobs \cup {Idle}
    BY <1>14, <2>1, NewJob, EmptyBaseline DEF Close
  <2>3. watch \in Watches
    BY <1>14 DEF Close, Walked, Engaged, Doing, TypeOK
  <2>4. watch' \in Watches
    BY <1>14, <2>3 DEF Close, Watches
  <2> QED
    BY <1>14, <2>2, <2>4 DEF Close, TypeOK
<1>15. ASSUME ContentDone PROVE TypeOK'
  <2>1. watch \in Watches
    BY <1>15 DEF ContentDone, Walked, Engaged, Doing, TypeOK
  <2>2. job.globs \in SUBSET Plugins /\ Baseline \in Baselines
    BY <1>11, <1>15 DEF ContentDone, Jobs
  <2>3. watch' \in Watches
    BY <1>15, <2>1, <2>2 DEF ContentDone, Watches
  <2> QED
    BY <1>15, <2>3 DEF ContentDone, TypeOK
<1>16. ASSUME UNCHANGED vars PROVE TypeOK'
  BY <1>16 DEF vars, TypeOK
<1> QED
  BY <1>1, <1>2, <1>3, <1>4, <1>5, <1>6, <1>7, <1>8, <1>9, <1>10, <1>12, <1>13, <1>14,
     <1>15, <1>16 DEF Next, Maintain, Walk

LEMMA EngagedNext ==
  ASSUME TypeOK, Engaged, [Next]_vars
  PROVE  Engaged'
<1> SUFFICES ASSUME watch' = NoWatch PROVE (job = Idle \/ Doing({"start", "refused"}))'
  BY DEF Engaged
<1> USE DEF disk, Doing
<1>1. ASSUME NEW p \in Paths, Create(p) \/ Delete(p) PROVE Engaged'
  BY <1>1 DEF Create, Delete, Engaged
<1>2. ASSUME Rebuild PROVE Engaged'
  BY <1>2 DEF Rebuild, Engaged
<1>3. ASSUME NEW p \in Paths, Claim(file[p]) PROVE watch = NoWatch
  BY <1>3, TypeClaim, Distinct
<1>4. ASSUME NEW e \in kernel, Dispatch(e) PROVE Engaged'
  <2>1. e.path \in Paths
    BY DEF TypeOK
  <2>2. watch = NoWatch
    BY <1>3, <1>4, <2>1 DEF Dispatch
  <2> QED
    BY <1>4, <2>2 DEF Dispatch, Engaged
<1>5. ASSUME NEW D \in SUBSET Plugins, Start(D) PROVE Engaged'
  <2>1. watch' # NewWatch
    BY FirstWatch, Distinct
  <2>2. job' = Job("refused", D, NoBaseline)
    BY <1>5, <2>1 DEF Start
  <2>3. Job("refused", D, NoBaseline) \in Jobs
    BY NewJob, EmptyBaseline
  <2>5. Job("refused", D, NoBaseline).step = "refused"
    BY DEF Job
  <2>4. job' # Idle /\ job'.step = "refused"
    BY <2>2, <2>3, <2>5, Distinct
  <2> QED
    BY <2>4 DEF Engaged
<1>6. ASSUME NEW D \in SUBSET Plugins, Rescan(D) PROVE Engaged'
  <2>1. watch' # NewWatch
    BY FirstWatch, Distinct
  <2> QED
    BY <1>6, <2>1 DEF Rescan, Engaged
<1>7. ASSUME NEW D \in SUBSET Plugins, CatchUp(D) PROVE Engaged'
  BY <1>7 DEF CatchUp, Hearing
<1>8. ASSUME NEW p \in Paths, Snapshot(p) PROVE Engaged'
  <2>1. job \in Jobs /\ job.step = "refused"
    BY <1>8, Working DEF Snapshot, Engaged
  <2>2. job'.step = "refused"
    BY <1>8, <2>1 DEF Snapshot, Jobs
  <2>3. Idle.step # "refused"
    BY DEF Idle
  <2> QED
    BY <2>2, <2>3 DEF Engaged
<1>9. ASSUME NEW p \in Paths, Scan(p) PROVE Engaged'
  <2>1. watch = NoWatch
    BY <1>3, <1>9 DEF Scan
  <2> QED
    BY <1>9, <2>1 DEF Scan, Engaged
<1>10. ASSUME NEW g \in Plugins, GlobRaises(g) PROVE Engaged'
  <2>1. job \in Jobs /\ job.step \in {"start", "refused"}
    BY <1>10, Working DEF GlobRaises, Engaged
  <2>2. job'.step = job.step
    BY <1>10, <2>1 DEF GlobRaises, Jobs
  <2>3. Idle.step \notin {"start", "refused"}
    BY DEF Idle
  <2> QED
    BY <2>1, <2>2, <2>3 DEF Engaged
<1>11. ASSUME SnapshotDone PROVE Engaged'
  <2>1. job.step = "refused"
    BY <1>11 DEF SnapshotDone, Walked, Engaged
  <2> QED
    BY <1>11, <2>1 DEF SnapshotDone, Engaged
<1>12. ASSUME ScanDone PROVE Engaged'
  BY <1>12 DEF ScanDone, Walked, Engaged
<1>13. ASSUME Close \/ ContentDone PROVE Engaged'
  <2>1. watch \in Watches
    BY <1>13 DEF Close, ContentDone, Walked, Engaged, TypeOK
  <2>2. watch'.root = watch.root
    BY <1>13, <2>1 DEF Close, ContentDone, Watches
  <2>3. watch.root # 0 /\ NoWatch.root = 0
    BY <2>1, BoundsAssumption DEF Watches, NoWatch
  <2> QED
    BY <2>2, <2>3
<1>14. ASSUME UNCHANGED vars PROVE Engaged'
  BY <1>14 DEF vars, Engaged
<1> QED
  BY <1>1, <1>2, <1>4, <1>5, <1>6, <1>7, <1>8, <1>9, <1>10, <1>11, <1>12, <1>13, <1>14
     DEF Next, Maintain, Walk, Engaged

-----------------------------------------------------------------------------
(* What is owed and what is due.                                           *)

LEMMA OwedFinite ==
  ASSUME NEW p \in Paths
  PROVE  /\ Owed(p) \subseteq Arts /\ IsFiniteSet(Owed(p))
         /\ Cardinality(Owed(p)) \in Nat
  BY ArtsFinite, FS_Subset, FS_CardinalityType DEF Owed

LEMMA KeepsPaid ==
  ASSUME Paid, due' = due, \A p \in Paths : Owed(p)' \subseteq Owed(p), TypeOK, TypeOK'
  PROVE  Paid'
<1> SUFFICES ASSUME NEW p \in Paths PROVE due'[p] >= Cardinality(Owed(p)')
  BY DEF Paid
<1>1. Cardinality(Owed(p)') <= Cardinality(Owed(p)) /\ Cardinality(Owed(p)') \in Nat
  BY OwedFinite, FS_Subset, FS_CardinalityType
<1>2. due[p] >= Cardinality(Owed(p)) /\ Cardinality(Owed(p)) \in Nat /\ due[p] \in Int
  BY OwedFinite DEF Paid, TypeOK
<1> QED
  BY <1>1, <1>2

LEMMA PaysOne ==
  ASSUME Paid, TypeOK, TypeOK', NEW p \in Paths, NEW x \in Owed(p),
         due' = [due EXCEPT ![p] = @ - 1], Owed(p)' \subseteq Owed(p) \ {x},
         \A q \in Paths \ {p} : Owed(q)' \subseteq Owed(q)
  PROVE  Paid'
<1> SUFFICES ASSUME NEW q \in Paths PROVE due'[q] >= Cardinality(Owed(q)')
  BY DEF Paid
<1>1. due[q] >= Cardinality(Owed(q)) /\ Cardinality(Owed(q)) \in Nat /\ due[q] \in Int
  BY OwedFinite DEF Paid, TypeOK
<1>2. CASE q # p
  <2>1. Cardinality(Owed(q)') <= Cardinality(Owed(q)) /\ Cardinality(Owed(q)') \in Nat
    BY <1>2, OwedFinite, FS_Subset, FS_CardinalityType
  <2>2. due'[q] = due[q]
    BY <1>2 DEF TypeOK
  <2> QED
    BY <1>1, <2>1, <2>2
<1>3. CASE q = p
  <2>1. IsFiniteSet(Owed(q) \ {x})
        /\ Cardinality(Owed(q) \ {x}) = Cardinality(Owed(q)) - 1
    BY <1>3, OwedFinite, FS_RemoveElement
  <2>2. Cardinality(Owed(q)') <= Cardinality(Owed(q) \ {x}) /\ Cardinality(Owed(q)') \in Nat
    BY <1>3, <2>1, FS_Subset, FS_CardinalityType
  <2>3. due'[q] = due[q] - 1
    BY <1>3 DEF TypeOK
  <2> QED
    BY <1>1, <2>1, <2>2, <2>3
<1> QED
  BY <1>2, <1>3

LEMMA OwesOne ==
  ASSUME Paid, TypeOK, TypeOK', NEW p \in Paths, NEW x,
         due' = [due EXCEPT ![p] = @ + 1], Owed(p)' \subseteq Owed(p) \cup {x},
         \A q \in Paths \ {p} : Owed(q)' \subseteq Owed(q)
  PROVE  Paid'
<1> SUFFICES ASSUME NEW q \in Paths PROVE due'[q] >= Cardinality(Owed(q)')
  BY DEF Paid
<1>1. due[q] >= Cardinality(Owed(q)) /\ Cardinality(Owed(q)) \in Nat /\ due[q] \in Int
  BY OwedFinite DEF Paid, TypeOK
<1>2. CASE q # p
  <2>1. Cardinality(Owed(q)') <= Cardinality(Owed(q)) /\ Cardinality(Owed(q)') \in Nat
    BY <1>2, OwedFinite, FS_Subset, FS_CardinalityType
  <2>2. due'[q] = due[q]
    BY <1>2 DEF TypeOK
  <2> QED
    BY <1>1, <2>1, <2>2
<1>3. CASE q = p
  <2>1. IsFiniteSet(Owed(q) \cup {x})
        /\ Cardinality(Owed(q) \cup {x}) \in {Cardinality(Owed(q)), Cardinality(Owed(q)) + 1}
    BY <1>3, OwedFinite, FS_AddElement
  <2>2. Cardinality(Owed(q)') <= Cardinality(Owed(q) \cup {x}) /\ Cardinality(Owed(q)') \in Nat
    BY <1>3, <2>1, FS_Subset, FS_CardinalityType
  <2>3. due'[q] = due[q] + 1
    BY <1>3 DEF TypeOK
  <2> QED
    BY <1>1, <2>1, <2>2, <2>3
<1> QED
  BY <1>2, <1>3

-----------------------------------------------------------------------------
(* The actions, while the root stays and nothing raises.                   *)

LEMMA AtStart == Init => Engaged /\ Settled
<1> SUFFICES ASSUME Init PROVE Engaged /\ Settled
  OBVIOUS
<1>1. TypeOK
  BY TypeInit
<1>2. /\ watch = NoWatch /\ kernel = {} /\ job # Idle /\ job.step = "start" /\ job.bad = FALSE
      /\ due = [p \in Paths |-> 0]
  BY FirstJob, Distinct DEF Init
<1>3. Engaged /\ Registration /\ BaselinesHold /\ Accounted
  BY <1>2 DEF Engaged, Registration, BaselinesHold, Accounted, Doing
<1>4. ASSUME NEW p \in Paths PROVE Owed(p) = {}
  <2>1. PICK P \in SUBSET Paths : made = Cardinality(P) /\ old = 1 .. Cardinality(P)
    BY DEF Init
  <2>2. file[p] \in 0 .. made /\ made \in Nat
    BY <1>1, BoundsAssumption DEF TypeOK
  <2>3. file[p] \in Arts => file[p] \in old
    BY <2>1, <2>2, BoundsAssumption DEF Arts
  <2> QED
    BY <1>2, <2>3 DEF Owed
<1>5. Paid
  BY <1>2, <1>4, FS_EmptySet DEF Paid
<1> QED
  BY <1>3, <1>5 DEF Settled

LEMMA CreateSettles ==
  ASSUME TypeOK, TypeOK', Engaged, Quiet, Settled, NEW p \in Paths, Create(p)
  PROVE  Settled'
<1> DEFINE n == made + 1
<1>1. /\ UNCHANGED <<old, root, watch, known, job, raised>>
      /\ file' = [file EXCEPT ![p] = n] /\ due' = [due EXCEPT ![p] = @ + 1]
      /\ kernel' = kernel \cup {e \in {[path |-> p, id |-> n]} : Hearing}
  BY DEF Create
<1>2. n \notin old
  BY BoundsAssumption DEF TypeOK
<1> HIDE DEF n
<1>3. file'[p] = n /\ \A q \in Paths \ {p} : file'[q] = file[q]
  BY <1>1 DEF TypeOK
<1>4. Hearing <=> watch # NoWatch
  BY DEF Hearing, Settled, Registration, Quiet
<1>5. \A e \in kernel' : e \in kernel \/ (e = [path |-> p, id |-> n] /\ watch # NoWatch)
  BY <1>1, <1>4
<1>6. Registration'
  BY <1>1, <1>5 DEF Settled, Registration, Doing
<1>7. ASSUME NEW I, NEW P \in SUBSET Paths, Complete(I, P) PROVE Complete(I, P)'
  BY <1>1, <1>2, <1>3, <1>7 DEF Complete
<1>8. BaselinesHold'
  <2>1. Paths \ job.todo \in SUBSET Paths
    OBVIOUS
  <2>2. Doing({"snapshot", "refused"})' => Complete(job.got, Paths \ job.todo)'
    BY <1>1, <1>7, <2>1 DEF Settled, BaselinesHold, Doing
  <2>3. Doing({"scan"})' => ~job.exclude.incomplete /\ Complete(job.exclude.ids, Paths)'
    BY <1>1, <1>7 DEF Settled, BaselinesHold, Doing
  <2>4. watch = NoWatch /\ job = Idle =>
          known.root = 1 /\ ~known.incomplete /\ Complete(known.ids, Paths)'
    BY <1>1, <1>7 DEF Settled, BaselinesHold
  <2> QED
    BY <1>1, <2>2, <2>3, <2>4 DEF BaselinesHold, Complete
<1>9. Accounted'
  <2>1. ASSUME NEW e \in kernel' PROVE file'[e.path] \notin old'
    <3>1. e.path \in Paths
      BY DEF TypeOK
    <3>2. CASE e.path = p
      BY <1>1, <1>2, <1>3, <3>2
    <3>3. CASE e.path # p
      BY <1>1, <1>3, <1>5, <3>1, <3>3 DEF Settled, Accounted
    <3> QED
      BY <3>2, <3>3
  <2>2. ASSUME watch # NoWatch, watch.open, NEW q \in Paths,
               file'[q] \notin old \cup {Absent}
        PROVE  file'[q] \in watch.seen \/ [path |-> q, id |-> file'[q]] \in kernel'
                 \/ Pending(q)
    <3>1. CASE q = p
      BY <1>1, <1>3, <1>4, <2>2, <3>1
    <3>2. CASE q # p
      BY <1>1, <1>3, <2>2, <3>2 DEF Settled, Accounted
    <3> QED
      BY <3>1, <3>2
  <2> QED
    BY <1>1, <2>1, <2>2 DEF Accounted, Pending, Doing
<1>10. Paid'
  <2>1. Seen' = Seen /\ \A q \in Paths : Pending(q)' <=> Pending(q)
    BY <1>1 DEF Seen, Pending, Doing
  <2>2. Owed(p)' \subseteq Owed(p) \cup {n}
    BY <1>1, <1>3, <1>5, <2>1 DEF Owed
  <2>3. \A q \in Paths \ {p} : Owed(q)' \subseteq Owed(q)
    BY <1>1, <1>3, <1>5, <2>1 DEF Owed
  <2> QED
    BY <1>1, <2>2, <2>3, OwesOne DEF Settled
<1> QED
  BY <1>6, <1>8, <1>9, <1>10 DEF Settled

LEMMA DeleteSettles ==
  ASSUME TypeOK, TypeOK', Engaged, Quiet, Settled, NEW p \in Paths, Delete(p)
  PROVE  Settled'
<1>1. /\ UNCHANGED <<old, root, watch, known, job, raised, kernel, due>>
      /\ file' = [file EXCEPT ![p] = Absent]
  BY DEF Delete
<1>2. Absent \notin old
  BY BoundsAssumption DEF TypeOK, Absent
<1>3. file'[p] = Absent /\ \A q \in Paths \ {p} : file'[q] = file[q]
  BY <1>1 DEF TypeOK
<1>4. Registration'
  BY <1>1 DEF Settled, Registration, Doing
<1>5. ASSUME NEW I, NEW P \in SUBSET Paths, Complete(I, P) PROVE Complete(I, P)'
  BY <1>1, <1>2, <1>3, <1>5 DEF Complete
<1>6. BaselinesHold'
  <2>1. Paths \ job.todo \in SUBSET Paths
    OBVIOUS
  <2>2. Doing({"snapshot", "refused"})' => Complete(job.got, Paths \ job.todo)'
    BY <1>1, <1>5, <2>1 DEF Settled, BaselinesHold, Doing
  <2>3. Doing({"scan"})' => ~job.exclude.incomplete /\ Complete(job.exclude.ids, Paths)'
    BY <1>1, <1>5 DEF Settled, BaselinesHold, Doing
  <2>4. watch = NoWatch /\ job = Idle =>
          known.root = 1 /\ ~known.incomplete /\ Complete(known.ids, Paths)'
    BY <1>1, <1>5 DEF Settled, BaselinesHold
  <2> QED
    BY <1>1, <2>2, <2>3, <2>4 DEF BaselinesHold, Complete
<1>7. Accounted'
  <2>1. ASSUME NEW e \in kernel PROVE file'[e.path] \notin old
    <3>1. e.path \in Paths
      BY DEF TypeOK
    <3> QED
      BY <1>2, <1>3, <3>1 DEF Settled, Accounted
  <2>2. ASSUME watch # NoWatch, watch.open, NEW q \in Paths,
               file'[q] \notin old \cup {Absent}
        PROVE  file'[q] \in watch.seen \/ [path |-> q, id |-> file'[q]] \in kernel
                 \/ Pending(q)
    <3>1. q # p
      BY <1>3, <2>2
    <3> QED
      BY <1>3, <2>2, <3>1 DEF Settled, Accounted
  <2> QED
    BY <1>1, <2>1, <2>2 DEF Accounted, Pending, Doing
<1>8. Paid'
  <2>1. Seen' = Seen /\ \A q \in Paths : Pending(q)' <=> Pending(q)
    BY <1>1 DEF Seen, Pending, Doing
  <2>2. 0 \notin Arts
    BY BoundsAssumption DEF Arts
  <2>3. ASSUME NEW q \in Paths PROVE Owed(q)' \subseteq Owed(q)
    BY <1>1, <1>3, <2>1, <2>2 DEF Owed, Absent
  <2> QED
    BY <1>1, <2>3, KeepsPaid DEF Settled
<1> QED
  BY <1>4, <1>6, <1>7, <1>8 DEF Settled

\* While nothing raises, every plugin is asked.
LEMMA AllDiscovered ==
  ASSUME TypeOK, raised = 0, raised' = 0, NEW D \in SUBSET Plugins, Discovered(D)
  PROVE  D = Plugins
<1>1. IsFiniteSet(Plugins \ D)
  BY FS_Subset, PluginAssumption
<1>2. Cardinality(Plugins \ D) = 0
  BY <1>1, FS_CardinalityType DEF Discovered
<1>3. Plugins \ D = {}
  BY <1>1, <1>2, FS_EmptySet
<1> QED
  BY <1>3

\* Every path is walked.
LEMMA AllWalked ==
  ASSUME NEW exclude, NEW step, step # "start"
  PROVE  Job(step, Plugins, exclude).todo = Paths
BY PluginAssumption DEF Job

LEMMA StartSettles ==
  ASSUME TypeOK, TypeOK', Engaged, Quiet, Quiet', Settled, NEW D \in SUBSET Plugins, Start(D)
  PROVE  Settled'
<1>1. D = Plugins /\ NoBaseline \in Baselines
  BY AllDiscovered, EmptyBaseline DEF Start, Quiet
<1>2. /\ job.step = "start" /\ UNCHANGED <<file, made, old, root, known, kernel, due>>
  BY DEF Start, disk
<1>3. job # Idle
  BY <1>2 DEF Idle
<1>4. watch = NoWatch /\ kernel = {}
  BY <1>2, <1>3 DEF Settled, Registration, Doing
<1>5. \A p \in Paths : Pending(p)
  BY <1>4 DEF Pending
<1>6. CASE watch' = NewWatch /\ job' = Job("snapshot", D, NoBaseline)
  <2>1. /\ watch' # NoWatch /\ watch'.open /\ watch'.seen = {} /\ watch'.root = 1
    BY <1>6, FirstWatch, Distinct DEF Quiet
  <2>10. job' \in Jobs
    BY <1>1, <1>6, NewJob
  <2>2. /\ job'.step = "snapshot" /\ job'.globs = Plugins
        /\ job'.got = {} /\ job'.bad = FALSE
    BY <1>1, <1>6 DEF Job
  <2>3. job'.todo = Paths /\ job' # Idle
    BY <1>1, <1>6, <2>10, AllWalked, Distinct
  <2>4. Registration'
    BY <2>1, <2>2, <2>3 DEF Registration, Doing
  <2>5. BaselinesHold'
    BY <2>1, <2>2, <2>3 DEF BaselinesHold, Complete, Doing
  <2>6. \A p \in Paths : Pending(p)'
    BY <2>2, <2>3 DEF Pending, Doing
  <2>7. Accounted'
    BY <1>2, <1>4, <2>6 DEF Accounted
  <2>8. Seen' = {} /\ Seen = {}
    BY <1>4, <2>1 DEF Seen
  <2>9. Paid'
    BY <1>2, <1>5, <2>8, KeepsPaid DEF Owed, Settled
  <2> QED
    BY <2>4, <2>5, <2>7, <2>9 DEF Settled
<1>7. CASE UNCHANGED watch /\ job' = Job("refused", D, NoBaseline)
  <2>8. job' \in Jobs
    BY <1>1, <1>7, NewJob
  <2>1. /\ job'.step = "refused" /\ job'.globs = Plugins
        /\ job'.got = {} /\ job'.bad = FALSE
    BY <1>1, <1>7 DEF Job
  <2>2. job'.todo = Paths /\ job' # Idle
    BY <1>1, <1>7, <2>8, AllWalked, Distinct
  <2>3. Registration'
    BY <1>2, <1>4, <1>7, <2>1, <2>2 DEF Registration, Doing
  <2>4. BaselinesHold'
    BY <1>4, <1>7, <2>1, <2>2 DEF BaselinesHold, Complete, Doing
  <2>5. Accounted'
    BY <1>2, <1>4, <1>7 DEF Accounted
  <2>6. Seen' = Seen
    BY <1>7 DEF Seen
  <2>7. Paid'
    BY <1>2, <1>5, <2>6, KeepsPaid DEF Owed, Settled
  <2> QED
    BY <2>3, <2>4, <2>5, <2>7 DEF Settled
<1> QED
  BY <1>6, <1>7 DEF Start

LEMMA RescanSettles ==
  ASSUME TypeOK, TypeOK', Engaged, Quiet, Quiet', Settled, NEW D \in SUBSET Plugins, Rescan(D)
  PROVE  Settled'
<1>1. D = Plugins
  BY AllDiscovered DEF Rescan, Quiet
<1>2. watch = NoWatch /\ job = Idle
  BY DEF Rescan, Hearing, Settled, Registration, Quiet
<1>3. kernel = {} /\ known.root = 1 /\ ~known.incomplete /\ Complete(known.ids, Paths)
  BY <1>2 DEF Settled, Registration, BaselinesHold
<1>4. UNCHANGED <<file, made, old, root, known, kernel, due>>
  BY <1>2, <1>3 DEF Rescan, KnownExclude, disk, Quiet
<1>5. known \in Baselines /\ \A p \in Paths : Pending(p)
  BY <1>2 DEF Pending, TypeOK
<1>6. CASE watch' = NewWatch /\ job' = Job("scan", D, known)
  <2>1. /\ watch' # NoWatch /\ watch'.open /\ watch'.seen = {} /\ watch'.root = 1
    BY <1>6, FirstWatch, Distinct DEF Quiet
  <2>10. job' \in Jobs
    BY <1>1, <1>5, <1>6, NewJob
  <2>2. /\ job'.step = "scan" /\ job'.globs = Plugins
        /\ job'.exclude = known /\ job'.bad = FALSE
    BY <1>1, <1>6 DEF Job
  <2>3. job'.todo = Paths /\ job' # Idle
    BY <1>1, <1>5, <1>6, <2>10, AllWalked, Distinct
  <2>4. Registration'
    BY <2>1, <2>2, <2>3 DEF Registration, Doing
  <2>5. BaselinesHold'
    BY <1>3, <1>4, <2>1, <2>2, <2>3 DEF BaselinesHold, Complete, Doing
  <2>6. \A p \in Paths : Pending(p)'
    BY <2>2, <2>3 DEF Pending, Doing
  <2>7. Accounted'
    BY <1>3, <1>4, <2>6 DEF Accounted
  <2>8. Seen' = {} /\ Seen = {}
    BY <1>2, <2>1 DEF Seen
  <2>9. Paid'
    BY <1>4, <1>5, <2>8, KeepsPaid DEF Owed, Settled
  <2> QED
    BY <2>4, <2>5, <2>7, <2>9 DEF Settled
<1>7. CASE watch' = NoWatch /\ UNCHANGED job
  <2>1. Registration'
    BY <1>2, <1>3, <1>4, <1>7 DEF Registration, Settled, Doing
  <2>2. BaselinesHold'
    BY <1>2, <1>3, <1>4, <1>7 DEF BaselinesHold, Complete, Doing
  <2>3. Accounted'
    BY <1>3, <1>4, <1>7 DEF Accounted
  <2>4. Seen' = Seen
    BY <1>2, <1>7 DEF Seen
  <2>5. Paid'
    BY <1>4, <1>5, <2>4, KeepsPaid DEF Owed, Settled
  <2> QED
    BY <2>1, <2>2, <2>3, <2>5 DEF Settled
<1>8. KnownExclude = known
  BY <1>3 DEF KnownExclude, Quiet
<1> QED
  BY <1>2, <1>6, <1>7, <1>8 DEF Rescan

LEMMA CatchUpSettles ==
  ASSUME TypeOK, Quiet, Settled, NEW D \in SUBSET Plugins, CatchUp(D)
  PROVE  FALSE
BY DEF CatchUp, Hearing, Settled, Registration

-----------------------------------------------------------------------------
(* Queuing.                                                                *)

LEMMA ClaimOne ==
  ASSUME TypeOK, watch # NoWatch, NEW p \in Paths, Claim(file[p])
  PROVE  /\ watch' # NoWatch /\ watch'.root = watch.root /\ watch'.open = watch.open
         /\ watch'.plugins = watch.plugins
         /\ watch'.seen = IF watch.open THEN watch.seen \cup ({file[p]} \ {Absent})
                          ELSE watch.seen
<1>1. watch \in Watches
  BY DEF TypeOK
<1>2. watch' # NoWatch
  BY TypeClaim, Distinct
<1>3. CASE watch.open
  BY <1>1, <1>2, <1>3 DEF Claim, Watches
<1>4. CASE ~watch.open
  BY <1>2, <1>4 DEF Claim
<1> QED
  BY <1>3, <1>4

\* A report at p, while anything is owed there or not.
LEMMA ReportPays ==
  ASSUME TypeOK, Paid, NEW p \in Paths, Report(p)
  PROVE  /\ file[p] = Absent => due' = due
         /\ file[p] # Absent => due' = [due EXCEPT ![p] = @ - 1]
<1>1. due[p] \in Int /\ Cardinality(Owed(p)) \in Nat /\ due[p] >= Cardinality(Owed(p))
  BY OwedFinite DEF Paid, TypeOK
<1>2. ~(due[p] < 0)
  BY <1>1
<1> QED
  BY <1>2 DEF Report, TypeOK

\* A watch that claims keeps its registration.
LEMMA ClaimRegistered ==
  ASSUME Registration, watch # NoWatch, UNCHANGED root,
         watch' = watch \/ /\ watch' # NoWatch /\ watch'.root = watch.root
                           /\ watch'.open = watch.open /\ watch'.plugins = watch.plugins
                           /\ (~watch.open => watch'.seen = watch.seen),
         job' = job \/ /\ job # Idle /\ job' # Idle /\ job'.step = job.step
                       /\ job'.globs = job.globs /\ job'.bad = job.bad
  PROVE  Registration'
<1>1. /\ watch' # NoWatch /\ watch'.root = watch.root /\ watch'.open = watch.open
      /\ watch'.plugins = watch.plugins /\ (~watch.open => watch'.seen = watch.seen)
  OBVIOUS
<1>2. /\ job' = Idle <=> job = Idle
      /\ job # Idle => job'.step = job.step /\ job'.globs = job.globs /\ job'.bad = job.bad
  OBVIOUS
<1> QED
  BY <1>1, <1>2 DEF Registration, Doing

LEMMA DispatchSettles ==
  ASSUME TypeOK, TypeOK', Engaged, Quiet, Settled, NEW e \in kernel, Dispatch(e)
  PROVE  Settled'
<1> DEFINE p == e.path
           x == file[p]
<1>1. /\ UNCHANGED <<file, made, old, root, known, job, raised>> /\ kernel' = kernel \ {e}
  BY DEF Dispatch, disk
<1>2. p \in Paths /\ e = [path |-> p, id |-> e.id] /\ e.id \in Arts
  BY BoundsAssumption DEF TypeOK, Arts
<1>3. watch # NoWatch
  BY DEF Settled, Registration
<1>4. x \notin old /\ (x # Absent => x \in Arts)
  BY <1>2, FileType DEF Settled, Accounted
<1>5. \/ Claimed(x) /\ UNCHANGED <<watch, due>>
      \/ ~Claimed(x) /\ Report(p) /\ Claim(x)
  BY DEF Dispatch, NotReported
<1> HIDE DEF p
<1>6. Claim(x) =>
        /\ watch' # NoWatch /\ watch'.root = watch.root /\ watch'.open = watch.open
        /\ watch'.plugins = watch.plugins
        /\ watch'.seen = IF watch.open THEN watch.seen \cup ({x} \ {Absent}) ELSE watch.seen
  BY <1>2, <1>3, ClaimOne
<1>7. Registration'
  BY <1>1, <1>3, <1>5, <1>6, ClaimRegistered DEF Settled
<1>8. watch' # NoWatch /\ watch'.open = watch.open /\ Seen \subseteq Seen'
  BY <1>3, <1>5, <1>6 DEF Seen
<1>9. \A q \in Paths : Pending(q)' <=> Pending(q)
  BY <1>1, <1>3, <1>8 DEF Pending, Doing
<1>10. BaselinesHold'
  BY <1>1, <1>8 DEF Settled, BaselinesHold, Complete, Doing
<1>11. watch.open /\ x # Absent => x \in watch'.seen
  BY <1>3, <1>5, <1>6 DEF Claimed
<1>12. Accounted'
  <2>1. \A f \in kernel' : file'[f.path] \notin old'
    BY <1>1 DEF Settled, Accounted
  <2>2. ASSUME watch.open, NEW q \in Paths, file[q] \notin old \cup {Absent}
        PROVE  file[q] \in watch'.seen \/ [path |-> q, id |-> file[q]] \in kernel'
                 \/ Pending(q)
    <3>1. CASE [path |-> q, id |-> file[q]] = e
      BY <1>2, <1>11, <2>2, <3>1
    <3>2. CASE [path |-> q, id |-> file[q]] # e
      <4>1. file[q] \in watch.seen \/ [path |-> q, id |-> file[q]] \in kernel \/ Pending(q)
        BY <1>3, <2>2 DEF Settled, Accounted
      <4> QED
        BY <1>1, <1>3, <1>8, <2>2, <3>2, <4>1 DEF Seen
    <3> QED
      BY <3>1, <3>2
  <2> QED
    BY <1>1, <1>8, <1>9, <2>1, <2>2 DEF Accounted
<1>13. \A q \in Paths : Owed(q)' \subseteq Owed(q)
  BY <1>1, <1>8, <1>9 DEF Owed
<1>14. CASE UNCHANGED due
  <2>1. Paid'
    BY <1>13, <1>14, KeepsPaid DEF Settled
  <2> QED
    BY <1>7, <1>10, <1>12, <2>1 DEF Settled
<1>15. CASE ~Claimed(x) /\ Report(p) /\ Claim(x) /\ x # Absent
  <2>1. due' = [due EXCEPT ![p] = @ - 1]
    BY <1>2, <1>15, ReportPays DEF Settled
  <2>2. CASE watch.open
    <3>1. x \notin Seen /\ x \in Seen'
      BY <1>3, <1>8, <1>11, <1>15, <2>2 DEF Claimed, Seen
    <3>2. [path |-> p, id |-> x] \in kernel \/ Pending(p)
      BY <1>2, <1>3, <1>4, <1>15, <2>2, <3>1 DEF Settled, Accounted, Seen
    <3>3. x \in Owed(p) /\ x \notin Owed(p)'
      BY <1>4, <1>15, <3>1, <3>2 DEF Owed
    <3>4. Paid'
      BY <1>2, <1>13, <2>1, <3>3, PaysOne DEF Settled
    <3> QED
      BY <1>7, <1>10, <1>12, <3>4 DEF Settled
  <2>3. CASE ~watch.open
    <3>1. Seen = {} /\ ~Pending(p)
      BY <1>3, <2>3 DEF Seen, Pending, Settled, Registration, Doing
    <3>2. e.id \in Owed(p)
      BY <1>2, <3>1 DEF Owed
    <3>3. e.id \notin Owed(p)'
      BY <1>1, <1>2, <1>9, <3>1 DEF Owed
    <3>4. Paid'
      BY <1>2, <1>13, <2>1, <3>2, <3>3, PaysOne DEF Settled
    <3> QED
      BY <1>7, <1>10, <1>12, <3>4 DEF Settled
  <2> QED
    BY <2>2, <2>3
<1> QED
  BY <1>2, <1>5, <1>14, <1>15, ReportPays DEF Settled

LEMMA ScanSettles ==
  ASSUME TypeOK, TypeOK', Engaged, Quiet, Settled, NEW p \in Paths, Scan(p)
  PROVE  Settled'
<1> DEFINE x == file[p]
<1>1. /\ UNCHANGED <<file, made, old, root, known, raised, kernel>>
      /\ job # Idle /\ job.step = "scan" /\ p \in job.todo
      /\ job' = [job EXCEPT !.todo = @ \ {p}]
  BY DEF Scan, disk
<1>2. /\ job' # Idle /\ job'.step = "scan" /\ job'.globs = job.globs /\ job'.bad = job.bad
      /\ job'.exclude = job.exclude /\ job'.todo = job.todo \ {p}
  <2>1. job \in Jobs
    BY <1>1, Working
  <2>2. /\ job'.step = "scan" /\ job'.globs = job.globs /\ job'.bad = job.bad
        /\ job'.exclude = job.exclude /\ job'.todo = job.todo \ {p}
    BY <1>1, <2>1 DEF Jobs
  <2>3. Idle.step = "idle"
    BY DEF Idle
  <2> QED
    BY <2>2, <2>3
<1>3. watch # NoWatch /\ watch.open
  BY <1>1 DEF Engaged, Settled, Registration, Doing
<1>4. x # Absent => x \in Arts
  BY FileType
<1>5. \/ (x = Absent \/ Excluded(p) \/ Claimed(x)) /\ UNCHANGED <<watch, due>>
      \/ x # Absent /\ ~Excluded(p) /\ ~Claimed(x) /\ Report(p) /\ Claim(x)
  BY DEF Scan, NotReported
<1>6. Claim(x) =>
        /\ watch' # NoWatch /\ watch'.root = watch.root /\ watch'.open = watch.open
        /\ watch'.plugins = watch.plugins
        /\ watch'.seen = IF watch.open THEN watch.seen \cup ({x} \ {Absent}) ELSE watch.seen
  BY <1>3, ClaimOne
<1>7. Registration'
  BY <1>1, <1>2, <1>3, <1>5, <1>6, ClaimRegistered DEF Settled
<1>8. watch' # NoWatch /\ watch'.open = watch.open /\ Seen \subseteq Seen'
  BY <1>3, <1>5, <1>6 DEF Seen
<1>9. /\ \A q \in Paths \ {p} : Pending(q)' <=> Pending(q)
      /\ Pending(p) /\ ~Pending(p)'
  BY <1>1, <1>2, <1>3, <1>8 DEF Pending, Doing
<1>10. BaselinesHold'
  BY <1>1, <1>2, <1>8 DEF Settled, BaselinesHold, Complete, Doing
<1>11. x \notin old => ~Excluded(p)
  BY <1>1 DEF Excluded, Settled, BaselinesHold, Complete, Doing
<1>12. x \in old => Excluded(p)
  BY <1>1 DEF Excluded, Settled, BaselinesHold, Complete, Doing
<1>13. x \notin old \cup {Absent} => x \in watch'.seen
  BY <1>3, <1>5, <1>6, <1>11 DEF Claimed
<1>14. Accounted'
  <2>1. \A f \in kernel' : file'[f.path] \notin old'
    BY <1>1 DEF Settled, Accounted
  <2>2. ASSUME NEW q \in Paths \ {p}, file[q] \notin old \cup {Absent}
        PROVE  file[q] \in watch'.seen \/ [path |-> q, id |-> file[q]] \in kernel
                 \/ Pending(q)
    <3>1. file[q] \in watch.seen \/ [path |-> q, id |-> file[q]] \in kernel \/ Pending(q)
      BY <1>3, <2>2 DEF Settled, Accounted
    <3> QED
      BY <1>3, <1>8, <3>1 DEF Seen
  <2> QED
    BY <1>1, <1>8, <1>9, <1>13, <2>1, <2>2 DEF Accounted
<1>15. \A q \in Paths : Owed(q)' \subseteq Owed(q)
  BY <1>1, <1>8, <1>9 DEF Owed
<1>16. CASE UNCHANGED due
  <2>1. Paid'
    BY <1>15, <1>16, KeepsPaid DEF Settled
  <2> QED
    BY <1>7, <1>10, <1>14, <2>1 DEF Settled
<1>17. CASE x # Absent /\ ~Excluded(p) /\ ~Claimed(x) /\ Report(p) /\ Claim(x)
  <2>1. due' = [due EXCEPT ![p] = @ - 1]
    BY <1>17, ReportPays DEF Settled
  <2>2. x \notin Seen /\ x \in Seen'
    BY <1>3, <1>8, <1>12, <1>13, <1>17 DEF Claimed, Seen
  <2>3. x \in Owed(p) /\ x \notin Owed(p)'
    BY <1>4, <1>9, <1>12, <1>17, <2>2 DEF Owed
  <2>4. Paid'
    BY <1>15, <2>1, <2>3, PaysOne DEF Settled
  <2> QED
    BY <1>7, <1>10, <1>14, <2>4 DEF Settled
<1> QED
  BY <1>5, <1>16, <1>17

-----------------------------------------------------------------------------
(* The walks.                                                              *)

LEMMA SnapshotSettles ==
  ASSUME TypeOK, TypeOK', Engaged, Quiet, Settled, NEW p \in Paths, Snapshot(p)
  PROVE  Settled'
<1> DEFINE found == {a \in {file[p]} : Baselined(a)}
<1>1. /\ UNCHANGED <<file, made, old, root, watch, known, kernel, raised, due>>
      /\ job # Idle /\ job.step \in {"snapshot", "refused", "content"}
      /\ job' = [job EXCEPT !.todo = @ \ {p}, !.got = @ \cup found]
  BY DEF Snapshot, disk
<1>2. job.step # "content" => found = {file[p]} \cap old
  BY BoundsAssumption DEF Baselined, Stale, TypeOK, Absent
<1> HIDE DEF found
<1>3. /\ job' # Idle /\ job'.step = job.step /\ job'.globs = job.globs /\ job'.bad = job.bad
      /\ job'.todo = job.todo \ {p} /\ job'.got = job.got \cup found
  <2>1. job \in Jobs
    BY <1>1, Working
  <2>2. /\ job'.step = job.step /\ job'.globs = job.globs /\ job'.bad = job.bad
        /\ job'.todo = job.todo \ {p} /\ job'.got = job.got \cup found
    BY <1>1, <2>1 DEF Jobs
  <2>3. Idle.step = "idle"
    BY DEF Idle
  <2> QED
    BY <1>1, <2>2, <2>3
<1>4. Registration'
  BY <1>1, <1>3 DEF Settled, Registration, Doing
<1>5. BaselinesHold'
  <2>1. ASSUME job.step \in {"snapshot", "refused"}
        PROVE  Complete(job.got \cup found, Paths \ (job.todo \ {p}))
    BY <1>1, <1>2, <2>1 DEF Settled, BaselinesHold, Complete, Doing
  <2> QED
    BY <1>1, <1>3, <2>1 DEF BaselinesHold, Complete, Doing
<1>6. \A q \in Paths : Pending(q)' <=> Pending(q)
  BY <1>1, <1>3 DEF Pending, Doing
<1>7. Accounted'
  BY <1>1, <1>6 DEF Settled, Accounted
<1>8. Seen' = Seen
  BY <1>1 DEF Seen
<1>9. Paid'
  BY <1>1, <1>6, <1>8, KeepsPaid DEF Owed, Settled
<1> QED
  BY <1>4, <1>5, <1>7, <1>9 DEF Settled

LEMMA SnapshotDoneSettles ==
  ASSUME TypeOK, TypeOK', Engaged, Quiet, Settled, SnapshotDone
  PROVE  Settled'
<1>1. /\ UNCHANGED <<file, made, old, root, watch, kernel, raised, due>>
      /\ job # Idle /\ job.todo = {} /\ job.step \in {"snapshot", "refused"}
      /\ known' = Baseline
  BY DEF SnapshotDone, Walked, disk
<1>2. /\ Baseline.root = 1 /\ Baseline.ids = job.got /\ Baseline.incomplete = FALSE
      /\ job.globs = Plugins
  BY <1>1 DEF Baseline, Settled, Registration, Doing, Quiet
<1>3. Complete(job.got, Paths) /\ Complete(Baseline.ids, Paths)
  BY <1>1, <1>2 DEF Settled, BaselinesHold, Doing
<1>4. Baseline \in Baselines
  BY <1>1 DEF TypeOK
<1>5. CASE job.step = "refused"
  <2>1. watch = NoWatch /\ job' = Idle
    BY <1>1, <1>5 DEF SnapshotDone, Settled, Registration, Doing
  <2>2. Registration'
    BY <1>1, <2>1 DEF Settled, Registration, Doing
  <2>3. BaselinesHold'
    BY <1>1, <1>2, <1>3, <2>1 DEF BaselinesHold, Complete, Doing
  <2>4. \A p \in Paths : Pending(p) /\ Pending(p)'
    BY <1>1, <2>1 DEF Pending
  <2>5. Accounted'
    BY <1>1, <2>1 DEF Settled, Accounted
  <2>6. Seen' = Seen
    BY <1>1 DEF Seen
  <2>7. Paid'
    BY <1>1, <2>4, <2>6, KeepsPaid DEF Owed, Settled
  <2> QED
    BY <2>2, <2>3, <2>5, <2>7 DEF Settled
<1>6. CASE job.step = "snapshot"
  <2>1. watch # NoWatch /\ watch.open
    BY <1>1, <1>6 DEF Engaged, Settled, Registration, Doing
  <2>2. job' = Job("scan", Plugins, Baseline)
    BY <1>2, <1>6 DEF SnapshotDone
  <2>3. job' \in Jobs
    BY <1>4, <2>2, NewJob
  <2>4. /\ job'.step = "scan" /\ job'.globs = Plugins /\ job'.exclude = Baseline
        /\ job'.bad = FALSE
    BY <2>2 DEF Job
  <2>5. job'.todo = Paths /\ job' # Idle
    BY <2>2, <2>3, AllWalked, Distinct
  <2>6. Registration'
    BY <1>1, <2>1, <2>4, <2>5 DEF Settled, Registration, Doing
  <2>7. BaselinesHold'
    BY <1>1, <1>2, <1>3, <2>1, <2>4, <2>5 DEF BaselinesHold, Complete, Doing
  <2>8. \A p \in Paths : Pending(p) /\ Pending(p)'
    BY <1>1, <1>6, <2>4, <2>5 DEF Pending, Doing
  <2>9. Accounted'
    BY <1>1, <2>8 DEF Settled, Accounted
  <2>10. Seen' = Seen
    BY <1>1 DEF Seen
  <2>11. Paid'
    BY <1>1, <2>8, <2>10, KeepsPaid DEF Owed, Settled
  <2> QED
    BY <2>6, <2>7, <2>9, <2>11 DEF Settled
<1> QED
  BY <1>1, <1>5, <1>6

LEMMA ScanDoneSettles ==
  ASSUME TypeOK, TypeOK', Engaged, Quiet, Settled, ScanDone
  PROVE  Settled'
<1>1. /\ UNCHANGED <<file, made, old, root, watch, known, kernel, raised, due>>
      /\ job # Idle /\ job.todo = {} /\ job.step = "scan"
  BY DEF ScanDone, Walked, disk
<1>2. watch # NoWatch /\ watch.open
  BY <1>1 DEF Engaged, Settled, Registration, Doing
<1>3. job' # Idle /\ job'.step = "grace" /\ job'.globs = job.globs /\ job'.bad = job.bad
  <2>1. job \in Jobs /\ job' = [job EXCEPT !.step = "grace"]
    BY <1>1, <1>2, Working DEF ScanDone
  <2>2. job'.step = "grace" /\ job'.globs = job.globs /\ job'.bad = job.bad
    BY <2>1 DEF Jobs
  <2>3. Idle.step = "idle"
    BY DEF Idle
  <2> QED
    BY <2>2, <2>3
<1>4. Registration'
  BY <1>1, <1>2, <1>3 DEF Settled, Registration, Doing
<1>5. BaselinesHold'
  BY <1>1, <1>2, <1>3 DEF BaselinesHold, Doing
<1>6. \A p \in Paths : ~Pending(p) /\ ~Pending(p)'
  BY <1>1, <1>2, <1>3 DEF Pending, Doing
<1>7. Accounted'
  BY <1>1, <1>6 DEF Settled, Accounted
<1>8. Seen' = Seen
  BY <1>1 DEF Seen
<1>9. Paid'
  BY <1>1, <1>6, <1>8, KeepsPaid DEF Owed, Settled
<1> QED
  BY <1>4, <1>5, <1>7, <1>9 DEF Settled

\* What the claims were kept for has been handed over.
LEMMA CloseSettles ==
  ASSUME TypeOK, TypeOK', Engaged, Quiet, Settled, Close
  PROVE  Settled'
<1>1. /\ UNCHANGED <<file, made, old, root, known, kernel, raised, due>>
      /\ job # Idle /\ job.todo = {} /\ job.step = "grace"
      /\ watch' = [watch EXCEPT !.open = FALSE, !.seen = {}]
      /\ \A e \in kernel : e.id \notin watch.seen
  BY DEF Close, Walked, disk
<1>2. watch # NoWatch /\ watch \in Watches /\ watch.open /\ ~job.bad /\ job.globs = Plugins
  BY <1>1 DEF Engaged, Settled, Registration, Doing, TypeOK
<1>3. /\ watch'.open = FALSE /\ watch'.seen = {} /\ watch'.root = watch.root
      /\ watch'.plugins = watch.plugins
  BY <1>1, <1>2 DEF Watches
<1>4. watch' # NoWatch
  <2>1. watch'.root # 0 /\ NoWatch.root = 0
    BY <1>2, <1>3, BoundsAssumption DEF Watches, NoWatch
  <2> QED
    BY <2>1
<1>5. job' = Job("content", Plugins, NoBaseline)
  BY <1>2 DEF Close, Trusted
<1>6. job' # Idle
  BY <1>5, NewJob, EmptyBaseline, Distinct
<1>7. job'.step = "content" /\ job'.globs = Plugins /\ job'.bad = FALSE
  BY <1>5 DEF Job
<1>8. Registration'
  BY <1>1, <1>2, <1>3, <1>4, <1>6, <1>7 DEF Settled, Registration, Doing
<1>9. BaselinesHold'
  BY <1>4, <1>7 DEF BaselinesHold, Doing
<1>10. \A p \in Paths : ~Pending(p) /\ ~Pending(p)'
  BY <1>1, <1>2, <1>4, <1>7 DEF Pending, Doing
<1>11. Accounted'
  BY <1>1, <1>3 DEF Settled, Accounted
<1>12. Seen' = {} /\ Seen = watch.seen
  BY <1>2, <1>3 DEF Seen
<1>13. ASSUME NEW p \in Paths PROVE Owed(p)' \subseteq Owed(p)
  <2> SUFFICES ASSUME NEW a \in Arts, [path |-> p, id |-> a] \in kernel
               PROVE  a \notin watch.seen
    BY <1>1, <1>10, <1>12 DEF Owed
  <2> QED
    BY <1>1
<1>14. Paid'
  BY <1>1, <1>13, KeepsPaid DEF Settled
<1> QED
  BY <1>8, <1>9, <1>11, <1>14 DEF Settled

LEMMA ContentDoneSettles ==
  ASSUME TypeOK, TypeOK', Engaged, Quiet, Settled, ContentDone
  PROVE  Settled'
<1>1. /\ UNCHANGED <<file, made, old, root, known, kernel, raised, due>>
      /\ job # Idle /\ job.step = "content" /\ job' = Idle
      /\ watch' = [watch EXCEPT !.content = Baseline, !.plugins = @ \cup job.globs]
  BY DEF ContentDone, Walked, disk
<1>2. watch # NoWatch /\ watch \in Watches /\ ~watch.open /\ job.globs = Plugins
  BY <1>1 DEF Engaged, Settled, Registration, Doing, TypeOK
<1>3. /\ watch'.open = watch.open /\ watch'.seen = watch.seen /\ watch'.root = watch.root
      /\ watch'.plugins = Plugins
  BY <1>1, <1>2 DEF Watches
<1>4. watch' # NoWatch
  <2>1. watch'.root # 0 /\ NoWatch.root = 0
    BY <1>2, <1>3, BoundsAssumption DEF Watches, NoWatch
  <2> QED
    BY <2>1
<1>5. Registration'
  BY <1>1, <1>2, <1>3, <1>4 DEF Settled, Registration, Doing
<1>6. BaselinesHold'
  BY <1>1, <1>4 DEF BaselinesHold, Doing
<1>7. \A p \in Paths : ~Pending(p) /\ ~Pending(p)'
  BY <1>1, <1>2, <1>4 DEF Pending, Doing
<1>8. Accounted'
  BY <1>1, <1>2, <1>3 DEF Settled, Accounted
<1>9. Seen' = {} /\ Seen = {}
  BY <1>2, <1>3 DEF Seen
<1>10. Paid'
  BY <1>1, <1>7, <1>9, KeepsPaid DEF Owed, Settled
<1> QED
  BY <1>5, <1>6, <1>8, <1>10 DEF Settled

-----------------------------------------------------------------------------
LEMMA QuietBefore ==
  ASSUME TypeOK, [Next]_vars, Quiet'
  PROVE  Quiet
<1> SUFFICES root' >= root /\ raised' >= raised
  BY BoundsAssumption DEF Quiet, TypeOK
<1>1. root \in Nat /\ raised \in Nat
  BY BoundsAssumption DEF TypeOK
<1>2. root' = root \/ root' = root + 1
  BY DEF Next, Maintain, Walk, Create, Delete, Rebuild, Dispatch, Start, Rescan, CatchUp,
         Snapshot, Scan, SnapshotDone, ScanDone, Close, ContentDone, GlobRaises, vars, disk
<1>3. ASSUME NEW D \in SUBSET Plugins, Discovered(D) PROVE raised' >= raised
  <2>1. Cardinality(Plugins \ D) \in Nat
    BY FS_Subset, FS_CardinalityType, PluginAssumption
  <2> QED
    BY <1>1, <1>3, <2>1 DEF Discovered
<1>4. ASSUME Maintain PROVE raised' >= raised
  BY <1>3, <1>4 DEF Maintain, Start, Rescan, CatchUp
<1>5. ASSUME NEW g \in Plugins, GlobRaises(g) PROVE raised' >= raised
  BY <1>1, <1>5 DEF GlobRaises
<1>6. raised' = raised \/ raised' >= raised
  BY <1>4, <1>5 DEF Next, Walk, Create, Delete, Rebuild, Dispatch, Snapshot, Scan,
         SnapshotDone, ScanDone, Close, ContentDone, vars, disk
<1> QED
  BY <1>1, <1>2, <1>6

LEMMA SettledNext ==
  ASSUME TypeOK, TypeOK', Engaged, Quiet, Quiet', Settled, [Next]_vars
  PROVE  Settled'
<1>1. ASSUME Rebuild PROVE FALSE
  BY <1>1 DEF Rebuild, Quiet
<1>2. ASSUME NEW g \in Plugins, GlobRaises(g) PROVE FALSE
  BY <1>2 DEF GlobRaises, Quiet
<1>3. ASSUME UNCHANGED vars PROVE Settled'
  <2>1. UNCHANGED <<file, old, root, watch, known, kernel, job, due>>
    BY <1>3 DEF vars
  <2>2. Registration' /\ BaselinesHold'
    BY <2>1 DEF Settled, Registration, BaselinesHold, Complete, Doing
  <2>3. Seen' = Seen /\ \A p \in Paths : Pending(p)' <=> Pending(p)
    BY <2>1 DEF Seen, Pending, Doing
  <2>4. Accounted'
    BY <2>1, <2>3 DEF Settled, Accounted
  <2>5. Paid'
    BY <2>1, <2>3, KeepsPaid DEF Owed, Settled
  <2> QED
    BY <2>2, <2>4, <2>5 DEF Settled
<1> QED
  BY <1>1, <1>2, <1>3, CreateSettles, DeleteSettles, DispatchSettles, StartSettles,
     RescanSettles, CatchUpSettles, SnapshotSettles, ScanSettles, SnapshotDoneSettles,
     ScanDoneSettles, CloseSettles, ContentDoneSettles DEF Next, Maintain, Walk

LEMMA InvStep == Inv /\ [Next]_vars => Inv'
<1> SUFFICES ASSUME Inv, [Next]_vars PROVE Inv'
  OBVIOUS
<1>1. TypeOK /\ Engaged /\ TypeOK' /\ Engaged'
  BY TypeNext, EngagedNext DEF Inv
<1>2. ASSUME Quiet' PROVE Settled'
  BY <1>1, <1>2, QuietBefore, SettledNext DEF Inv
<1> QED
  BY <1>1, <1>2 DEF Inv

\* A registration goes through its steps with its watch and its baselines, at every
\* state of every run.  (CacheMonitor._reschedule_missing_watch)
THEOREM RegistrationsAreSound == Spec => []Inv
<1>1. Init => Inv
  BY TypeInit, AtStart DEF Inv
<1> QED
  BY <1>1, InvStep, PTL DEF Spec

\* For any paths, plug-ins and artifacts, whatever is refused and retried and wherever
\* installers and the observer's thread come between two entries of a walk: while the
\* root stays and nothing raises, no more events are queued at a path than artifacts
\* were made there since the start.  (_BackfillDedup, _known_cache_roots)
THEOREM NothingIsReplayed == Spec => []NoneReplayed
<1>1. Inv => NoneReplayed
  <2> SUFFICES ASSUME Inv, Quiet, NEW p \in Paths PROVE due[p] >= 0
    BY DEF NoneReplayed, Quiet
  <2>1. due[p] >= Cardinality(Owed(p)) /\ Cardinality(Owed(p)) \in Nat /\ due[p] \in Int
    BY OwedFinite DEF Inv, Settled, Paid, TypeOK
  <2> QED
    BY <2>1
<1> QED
  BY <1>1, RegistrationsAreSound, PTL

-----------------------------------------------------------------------------
(* CachePolling.  What the walk, a discovery and the records hold.         *)
Works == [todo : SUBSET Roots, root : SUBSET Roots, left : SUBSET Owners,
          matched : SUBSET (PolledPaths \X Owners),
          snapshot : [Roots -> SUBSET (PolledPaths \X Artifacts)],
          found : [Roots -> SUBSET Artifacts], incomplete : SUBSET Roots]
Discoveries == [dirs : SUBSET Roots, globs : [Roots -> SUBSET Owners],
                owning : [Roots -> SUBSET Owners], failed : BOOLEAN, succeeded : SUBSET Owners]

WalkTyped ==
  /\ work \in Works /\ disc \in Discoveries
  /\ unseeded \in [roots : SUBSET Roots, globs : [Roots -> SUBSET Owners]]
  /\ pass \in {"seed", "poll"} /\ pc \in {"watched", "discover", "judge", "walk", "idle"}

RecordsTyped ==
  /\ exclusions \in [Roots -> SUBSET Owners] /\ discovered \subseteq Roots
    /\ succeeded \subseteq Owners
  /\ seen \in [Roots -> SUBSET (PolledPaths \X Artifacts)] /\ seedIncomplete \subseteq Roots
  /\ knownPlugins \in [Roots -> SUBSET Owners] /\ pendingGlobs \in [Roots -> SUBSET Owners]
  /\ reported \in [Roots -> [Artifacts -> {0, 1}]]

\* An artifact is at one path, and the roots it is under exist.
WorldIsRight ==
  /\ artifactAt \in [PolledPaths -> 0 .. artifactsMade]
  /\ artifactsMade \in 0 .. MaxArtifacts /\ older \subseteq 1 .. artifactsMade
  /\ \A p, q \in PolledPaths : artifactAt[p] = artifactAt[q] /\ artifactAt[p] # NoArtifact => p = q
  /\ \A p \in PolledPaths : artifactAt[p] # NoArtifact => Under[p] \subseteq exists
  /\ exists \subseteq Roots /\ hookFailures \in Nat

\* No artifact is known before it is made.
Numbered ==
  /\ \A r \in Roots, p \in PolledPaths, a \in Artifacts :
       <<p, a>> \in seen[r] \/ <<p, a>> \in work.snapshot[r] => a <= artifactsMade
  /\ \A r \in Roots, a \in Artifacts :
       a \in work.found[r] \/ reported[r][a] = 1 => a <= artifactsMade

\* A baseline is of artifacts under its root, which discoveries go on listing.
Listable(r) == (\E l \in Owners : r \in PolledBy[l]) \/ exclusions[r] # {}
Rooted ==
  /\ \A r \in disc.dirs : Listable(r)
  /\ \A r \in Roots, p \in PolledPaths, a \in Artifacts :
       /\ <<p, a>> \in seen[r] => r \in Under[p] /\ Listable(r)
       /\ <<p, a>> \in work.snapshot[r] => r \in Under[p] /\ r \in disc.dirs

\* The walk is of one root at a time, with its own globs.
WalkIsRight ==
  /\ pc # "walk" => work = NoWork
  /\ work.todo \subseteq disc.dirs /\ work.root \subseteq disc.dirs
  /\ \A r, q \in work.root : r = q
  /\ work.root \cap work.todo = {}
  /\ \A r \in work.root : work.left \subseteq disc.globs[r]
  /\ \A r \in work.root, p \in PolledPaths, l \in Owners :
       <<p, l>> \in work.matched => r \in Under[p] /\ l \in MatchedBy[p] /\ l \in disc.globs[r]

\* Until the seed is recorded there is nothing in the records.
SeedIsFirst == pass = "seed" =>
  /\ \A r \in Roots, a \in Artifacts : reported[r][a] = 0
  /\ pc # "idle" => /\ discovered = {} /\ succeeded = {} /\ seedIncomplete = {}
                    /\ \A r \in Roots : seen[r] = {} /\ knownPlugins[r] = {} /\ pendingGlobs[r] = {}

\* What a walk adds to a baseline is old, or reported.
Absorbed ==
  /\ \A r \in Roots, p \in PolledPaths, a \in Artifacts :
       <<p, a>> \in seen[r] => a \in older \/ reported[r][a] = 1
  /\ \A r \in Roots, p \in PolledPaths, a \in Artifacts :
       <<p, a>> \in work.snapshot[r] =>
          a \in older \/ (pass = "poll" /\ (<<p, a>> \in seen[r] \/ a \in work.found[r]))

\* What has been reported, and is still there, stays in the baseline ...
StaysKnown ==
  /\ \A r \in Roots, p \in PolledPaths :
       artifactAt[p] # NoArtifact /\ reported[r][artifactAt[p]] = 1 => <<p, artifactAt[p]>> \in seen[r]
  /\ \A r \in Roots, p \in PolledPaths :
       pass = "poll" /\ <<p, artifactAt[p]>> \in seen[r] =>
         /\ pc = "judge" => disc.failed \/ r \in disc.dirs
         /\ pc = "walk" => disc.failed \/ r \in work.todo \/ <<p, artifactAt[p]>> \in work.snapshot[r]
         /\ r \in work.root => <<p, artifactAt[p]>> \in work.snapshot[r]

\* ... and so is not found again.
FoundIsNew == \A r \in Roots, a \in Artifacts : a \in work.found[r] =>
  /\ reported[r][a] = 0 /\ r \notin work.root /\ r \notin work.todo /\ pass = "poll"
  /\ \A p \in PolledPaths : artifactAt[p] = a => <<p, a>> \in work.snapshot[r]

\* The plugins that declare a root, and those of them that find an artifact there.
Declarers(r) == {l \in Owners : r \in PolledBy[l]}
Finders(r, p) == MatchedBy[p] \cap Declarers(r)

\* A declared root is walked with the globs of its declarers.
GlobsDeclared ==
  /\ \A r \in Declared : exclusions[r] \subseteq Declarers(r)
  /\ pc \in {"judge", "walk"} => \A r \in Declared :
       /\ disc.owning[r] \subseteq Declarers(r) /\ disc.globs[r] \subseteq Declarers(r)
       /\ disc.owning[r] # {} => r \in disc.dirs /\ disc.globs[r] = disc.owning[r]

\* An artifact from before the start, in a declared root.
IsOld(r, p) == r \in Declared /\ r \in Under[p] /\ artifactAt[p] \in older /\ Finders(r, p) # {}

\* The seed records it, or its glob has failed, or a declarer had.
SeedCovers == \A r \in Roots, p \in PolledPaths :
  hookFailures <= 1 /\ IsOld(r, p) /\ pass = "seed" /\ pc \in {"judge", "walk"} =>
    /\ disc.owning[r] = Declarers(r) \cap disc.succeeded
    /\ disc.succeeded # Owners => hookFailures >= 1
    /\ pc = "walk" /\ r \in disc.dirs => \A l \in MatchedBy[p] \cap disc.globs[r] :
         \/ r \in work.todo
         \/ r \in work.root /\ l \in work.left
         \/ <<p, artifactAt[p]>> \in work.snapshot[r]
         \/ r \in work.incomplete /\ hookFailures >= 1

\* What the seed has missed is in doubt: its root, or those who find it, were lost.
Missed(r, p) ==
  \/ r \in seedIncomplete
  \/ r \notin discovered /\ Declarers(r) \cap succeeded = {}
  \/ r \in discovered /\ Finders(r, p) \cap knownPlugins[r] \subseteq pendingGlobs[r]

\* The next poll meets no failure, and takes it into the baseline while it is in doubt.
DiscoveredAll(r) ==
  /\ disc.failed = FALSE /\ disc.succeeded = Owners /\ work.incomplete = {}
  /\ disc.owning[r] = Declarers(r)
InDoubtAll(r, p) ==
  r \in seedIncomplete \cup unseeded.roots \/ Finders(r, p) \subseteq unseeded.globs[r]
WalkFinds(r, p) == \A l \in Finders(r, p) :
  \/ r \in work.todo
  \/ r \in work.root /\ (l \in work.left \/ <<p, l>> \in work.matched)
  \/ <<p, artifactAt[p]>> \in work.snapshot[r]

IsUnseen(r, p) == hookFailures <= 1 /\ IsOld(r, p) /\ <<p, artifactAt[p]>> \notin seen[r]
PollCovers == \A r \in Roots, p \in PolledPaths :
  IsUnseen(r, p) /\ (pass = "seed" => pc = "idle") =>
    /\ hookFailures = 1
    /\ pc # "walk" => Missed(r, p)
    /\ pc \in {"judge", "walk"} => DiscoveredAll(r)
    /\ pc = "walk" => InDoubtAll(r, p) /\ WalkFinds(r, p)

OldIsSilent == hookFailures <= 1 => \A r \in Declared : \A a \in older :
  reported[r][a] = 0 /\ a \notin work.found[r]

PollInv ==
  /\ WalkTyped /\ RecordsTyped /\ WorldIsRight /\ Numbered /\ Rooted /\ WalkIsRight /\ SeedIsFirst
  /\ Absorbed /\ StaysKnown /\ FoundIsNew /\ GlobsDeclared /\ SeedCovers /\ PollCovers /\ OldIsSilent

LEMMA RaisingCounts ==
  ASSUME PollingAssumption, hookFailures \in Nat, NEW S \in SUBSET Owners, Raising(S)
  PROVE  /\ hookFailures' \in Nat /\ hookFailures <= hookFailures'
         /\ S # {} => hookFailures < hookFailures'
<1>1. IsFiniteSet(S)
  BY FS_Subset DEF PollingAssumption
<1>2. Cardinality(S) \in Nat /\ (Cardinality(S) = 0 <=> S = {})
  BY <1>1, FS_CardinalityType, FS_EmptySet
<1>3. hookFailures' = hookFailures + Cardinality(S)
  BY DEF Raising
<1> QED BY <1>2, <1>3

\* Installers and cache cleans make new artifacts and take old ones away.
Survives ==
  /\ \A p \in PolledPaths : artifactAt'[p] \in 1 .. artifactsMade => artifactAt'[p] = artifactAt[p]
  /\ artifactsMade <= artifactsMade'
  /\ UNCHANGED <<older, hookFailures, pc, pass, disc, unseeded, work, exclusions, seen, discovered,
                 succeeded, seedIncomplete, knownPlugins, pendingGlobs, reported>>

LEMMA WorldMoves ==
  ASSUME PollingAssumption, PollInv, WorldIsRight', Survives
  PROVE  PollInv'
<1>1. /\ artifactsMade \in Nat /\ artifactsMade' \in Nat /\ artifactsMade <= artifactsMade'
      /\ UNCHANGED <<older, hookFailures, pc, pass, disc, unseeded, work, exclusions, seen, discovered,
                     succeeded, seedIncomplete, knownPlugins, pendingGlobs, reported>>
  BY DEF PollInv, WorldIsRight, Survives, PollingAssumption
<1>2. \A p \in PolledPaths : artifactAt'[p] \in older => artifactAt'[p] = artifactAt[p]
  BY DEF PollInv, WorldIsRight, Survives
<1>3. \A r \in Roots, p \in PolledPaths :
         <<p, artifactAt'[p]>> \in seen[r] \/ <<p, artifactAt'[p]>> \in work.snapshot[r] =>
            artifactAt'[p] = artifactAt[p]
  <2> SUFFICES ASSUME NEW r \in Roots, NEW p \in PolledPaths,
                      <<p, artifactAt'[p]>> \in seen[r] \/ <<p, artifactAt'[p]>> \in work.snapshot[r]
               PROVE  artifactAt'[p] = artifactAt[p]
    OBVIOUS
  <2>1. artifactAt'[p] \in Artifacts
    <3>1. seen[r] \subseteq PolledPaths \X Artifacts
          /\ work.snapshot[r] \subseteq PolledPaths \X Artifacts
      BY DEF PollInv, WalkTyped, RecordsTyped, Works
    <3> QED BY <3>1
  <2>2. artifactAt'[p] <= artifactsMade
    BY <2>1 DEF PollInv, Numbered
  <2>3. artifactAt'[p] \in 1 .. artifactsMade
    BY <1>1, <2>1, <2>2 DEF Artifacts, PollingAssumption
  <2> QED BY <2>3 DEF Survives
<1>4. \A r \in Roots, p \in PolledPaths, a \in Artifacts :
         artifactAt'[p] = a /\ (reported[r][a] = 1 \/ a \in work.found[r]) =>
            artifactAt'[p] = artifactAt[p]
  <2> SUFFICES ASSUME NEW r \in Roots, NEW p \in PolledPaths, NEW a \in Artifacts,
                      artifactAt'[p] = a, reported[r][a] = 1 \/ a \in work.found[r]
               PROVE  artifactAt'[p] = artifactAt[p]
    OBVIOUS
  <2>1. a <= artifactsMade
    BY DEF PollInv, Numbered
  <2>2. artifactAt'[p] \in 1 .. artifactsMade
    BY <1>1, <2>1 DEF Artifacts, PollingAssumption
  <2> QED BY <2>2 DEF Survives
<1>5. \A p \in PolledPaths : artifactAt'[p] # NoArtifact => artifactAt'[p] \in Artifacts
  BY DEF WorldIsRight, Artifacts, NoArtifact, PollingAssumption
<1>6. WalkTyped'
  BY <1>1 DEF PollInv, WalkTyped
<1>7. RecordsTyped'
  BY <1>1 DEF PollInv, RecordsTyped
<1>8. WorldIsRight'
  OBVIOUS
<1>9. Numbered'
  <2>1. \A a \in Artifacts : a <= artifactsMade => a <= artifactsMade'
    BY <1>1 DEF Artifacts, PollingAssumption
  <2> QED BY <1>1, <2>1 DEF PollInv, Numbered
<1>10. Rooted'
  BY <1>1 DEF PollInv, Rooted, Listable
<1>11. WalkIsRight'
  BY <1>1 DEF PollInv, WalkIsRight
<1>12. SeedIsFirst'
  BY <1>1 DEF PollInv, SeedIsFirst
<1>13. Absorbed'
  BY <1>1 DEF PollInv, Absorbed
<1>14. StaysKnown'
  BY <1>1, <1>3, <1>4, <1>5 DEF PollInv, StaysKnown
<1>15. FoundIsNew'
  BY <1>1, <1>4 DEF PollInv, FoundIsNew
<1>16. GlobsDeclared'
  BY <1>1 DEF PollInv, GlobsDeclared
<1>17. SeedCovers'
  BY <1>1, <1>2 DEF PollInv, SeedCovers, IsOld
<1>18. PollCovers'
  BY <1>1, <1>2 DEF PollInv, PollCovers, IsUnseen, IsOld, Missed, DiscoveredAll, InDoubtAll,
     WalkFinds
<1>19. OldIsSilent'
  BY <1>1 DEF PollInv, OldIsSilent
<1> QED BY <1>6, <1>7, <1>8, <1>9, <1>10, <1>11, <1>12, <1>13, <1>14, <1>15, <1>16, <1>17, <1>18,
<1>19 DEF PollInv

LEMMA InstallKeeps ==
  ASSUME PollingAssumption, PollInv, NEW p0 \in PolledPaths, Install(p0) PROVE PollInv'
<1>1. /\ artifactsMade < MaxArtifacts /\ artifactsMade' = artifactsMade + 1
      /\ artifactAt' = [artifactAt EXCEPT ![p0] = artifactsMade + 1]
        /\ exists' = exists \cup Under[p0]
      /\ UNCHANGED <<older, hookFailures, pc, pass, disc, unseeded, work, exclusions, seen, discovered,
                     succeeded, seedIncomplete, knownPlugins, pendingGlobs, reported>>
  BY DEF Install, records
<1>2. artifactsMade \in Nat /\ MaxArtifacts \in Nat
      /\ artifactAt \in [PolledPaths -> 0 .. artifactsMade]
  BY DEF PollInv, WorldIsRight, PollingAssumption
<1>3. \A p \in PolledPaths : artifactAt'[p] = IF p = p0 THEN artifactsMade + 1 ELSE artifactAt[p]
  BY <1>1, <1>2
<1>4. Survives
  BY <1>1, <1>2, <1>3 DEF Survives
<1>5. WorldIsRight'
  <2>1. /\ artifactAt' \in [PolledPaths -> 0 .. artifactsMade']
        /\ artifactsMade' \in 0 .. MaxArtifacts
        /\ older' \subseteq 1 .. artifactsMade' /\ hookFailures' \in Nat
    BY <1>1, <1>2 DEF PollInv, WorldIsRight
  <2>2. \A p, q \in PolledPaths :
           artifactAt'[p] = artifactAt'[q] /\ artifactAt'[p] # NoArtifact => p = q
    BY <1>2, <1>3 DEF PollInv, WorldIsRight
  <2>3. \A p \in PolledPaths : artifactAt'[p] # NoArtifact => Under[p] \subseteq exists'
    BY <1>1, <1>3 DEF PollInv, WorldIsRight
  <2>4. exists' \subseteq Roots
    BY <1>1 DEF PollInv, WorldIsRight, PollingAssumption
  <2> QED BY <2>1, <2>2, <2>3, <2>4 DEF WorldIsRight
<1> QED BY <1>4, <1>5, WorldMoves

LEMMA CleanRootKeeps ==
  ASSUME PollingAssumption, PollInv, NEW r0 \in Roots, CleanRoot(r0) PROVE PollInv'
<1>1. /\ exists' = {q \in exists : r0 \notin Inside[q]}
      /\ artifactAt' = [p \in PolledPaths |-> IF r0 \in Under[p] THEN NoArtifact ELSE artifactAt[p]]
      /\ UNCHANGED <<artifactsMade, older, hookFailures, pc, pass, disc, unseeded, work, exclusions, seen,
                     discovered, succeeded, seedIncomplete, knownPlugins, pendingGlobs, reported>>
  BY DEF CleanRoot, records
<1>2. artifactsMade \in Nat /\ artifactAt \in [PolledPaths -> 0 .. artifactsMade]
  BY DEF PollInv, WorldIsRight, PollingAssumption
<1>3. \A p \in PolledPaths : artifactAt'[p] = IF r0 \in Under[p] THEN NoArtifact ELSE artifactAt[p]
  BY <1>1
<1>4. Survives
  BY <1>1, <1>2, <1>3 DEF Survives, NoArtifact
<1>5. WorldIsRight'
  <2>1. /\ artifactAt' \in [PolledPaths -> 0 .. artifactsMade']
        /\ artifactsMade' \in 0 .. MaxArtifacts
        /\ older' \subseteq 1 .. artifactsMade' /\ hookFailures' \in Nat /\ exists' \subseteq Roots
    BY <1>1, <1>2 DEF PollInv, WorldIsRight, NoArtifact
  <2>2. \A p, q \in PolledPaths :
           artifactAt'[p] = artifactAt'[q] /\ artifactAt'[p] # NoArtifact => p = q
    BY <1>3 DEF PollInv, WorldIsRight
  <2>3. ASSUME NEW p \in PolledPaths, artifactAt'[p] # NoArtifact PROVE Under[p] \subseteq exists'
    <3>1. r0 \notin Under[p] /\ Under[p] \subseteq exists
      BY <1>3, <2>3 DEF PollInv, WorldIsRight
    <3>2. \A q \in Under[p] : Inside[q] \subseteq Under[p]
      BY DEF PollingAssumption
    <3> QED BY <1>1, <3>1, <3>2
  <2> QED BY <2>1, <2>2, <2>3 DEF WorldIsRight
<1> QED BY <1>4, <1>5, WorldMoves

LEMMA MaintainPolledKeeps ==
  ASSUME PollingAssumption, PollInv, MaintainPolled
  PROVE  PollInv'
<1>1. /\ pc = "idle" /\ pc' = "watched" /\ pass' = "poll"
      /\ UNCHANGED <<artifactAt, artifactsMade, older, exists, hookFailures, disc, unseeded,
                  work, exclusions, seen, discovered, succeeded, seedIncomplete,
                  knownPlugins, pendingGlobs, reported>>
  BY DEF MaintainPolled, world, records
<1>2. work = NoWork
  BY <1>1 DEF PollInv, WalkIsRight
<1>3. WalkTyped'
  BY <1>1 DEF PollInv, WalkTyped
<1>4. RecordsTyped'
  BY <1>1 DEF PollInv, RecordsTyped
<1>5. WorldIsRight'
  BY <1>1 DEF PollInv, WorldIsRight
<1>6. Numbered'
  BY <1>1 DEF PollInv, Numbered
<1>7. Rooted'
  BY <1>1 DEF PollInv, Rooted, Listable
<1>8. WalkIsRight'
  BY <1>1 DEF PollInv, WalkIsRight
<1>9. SeedIsFirst'
  BY <1>1 DEF PollInv, SeedIsFirst
<1>10. Absorbed'
  BY <1>1, <1>2 DEF PollInv, Absorbed, NoWork
<1>11. StaysKnown'
  BY <1>1, <1>2 DEF PollInv, StaysKnown, NoWork
<1>12. FoundIsNew'
  BY <1>1, <1>2 DEF PollInv, FoundIsNew, NoWork
<1>13. GlobsDeclared'
  BY <1>1 DEF PollInv, GlobsDeclared
<1>14. SeedCovers'
  BY <1>1 DEF PollInv, SeedCovers, IsOld
<1>15. PollCovers'
  BY <1>1 DEF PollInv, PollCovers, IsUnseen, IsOld, Missed, DiscoveredAll, InDoubtAll, WalkFinds
<1>16. OldIsSilent'
  BY <1>1 DEF PollInv, OldIsSilent
<1> QED BY <1>3, <1>4, <1>5, <1>6, <1>7, <1>8, <1>9, <1>10, <1>11, <1>12, <1>13, <1>14, <1>15,
<1>16 DEF PollInv

LEMMA DiscoverWatchedKeeps ==
  ASSUME PollingAssumption, PollInv, DiscoverWatched
  PROVE  PollInv'
<1>1. PICK bad \in SUBSET Owners :
        /\ Raising(bad)
        /\ exclusions' = [r \in Roots |-> exclusions[r] \cup {l \in Owners \ bad : r \in Outer(l)}]
  BY DEF DiscoverWatched
<1>2. /\ pc = "watched" /\ pc' = "discover"
      /\ UNCHANGED <<artifactAt, artifactsMade, older, exists, pass, disc, unseeded, work,
                  seen, discovered, succeeded, seedIncomplete, knownPlugins,
                  pendingGlobs, reported>>
  BY DEF DiscoverWatched, world
<1>3. hookFailures \in Nat /\ hookFailures' \in Nat /\ hookFailures <= hookFailures'
  BY <1>1, RaisingCounts DEF PollInv, WorldIsRight
<1>4. exclusions' \in [Roots -> SUBSET Owners]
      /\ \A r \in Roots : exclusions[r] \subseteq exclusions'[r]
  BY <1>1 DEF PollInv, RecordsTyped
<1>5. \A r \in Roots : Listable(r) => Listable(r)'
  BY <1>4 DEF Listable
<1>6. WalkTyped'
  BY <1>2, <1>3, <1>4 DEF PollInv, WalkTyped
<1>7. RecordsTyped'
  BY <1>2, <1>3, <1>4 DEF PollInv, RecordsTyped
<1>8. WorldIsRight'
  BY <1>2, <1>3, <1>4 DEF PollInv, WorldIsRight
<1>9. Numbered'
  BY <1>2, <1>3, <1>4 DEF PollInv, Numbered
<1>10. Rooted'
  BY <1>2, <1>5 DEF PollInv, Rooted, WalkTyped, Discoveries
<1>11. WalkIsRight'
  BY <1>2, <1>3, <1>4 DEF PollInv, WalkIsRight
<1>12. SeedIsFirst'
  BY <1>2, <1>3, <1>4 DEF PollInv, SeedIsFirst
<1>13. Absorbed'
  BY <1>2, <1>3, <1>4 DEF PollInv, Absorbed
<1>14. StaysKnown'
  BY <1>2, <1>3, <1>4 DEF PollInv, StaysKnown
<1>15. FoundIsNew'
  BY <1>2, <1>3, <1>4 DEF PollInv, FoundIsNew
<1>16. GlobsDeclared'
  <2>1. ASSUME NEW r \in Declared, NEW l \in Owners, r \in Outer(l) PROVE l \in Declarers(r)
    BY <2>1 DEF Outer, PollOnly, Declarers, Declared
  <2>2. \A r \in Declared : r \in Roots /\ exclusions[r] \subseteq Declarers(r)
    BY DEF PollInv, GlobsDeclared, Declared
  <2>3. \A r \in Declared : exclusions'[r] \subseteq Declarers(r)
    BY <1>1, <2>1, <2>2
  <2> QED BY <1>2, <2>3 DEF GlobsDeclared
<1>17. SeedCovers'
  BY <1>2, <1>3, <1>4 DEF PollInv, SeedCovers, IsOld
<1>18. PollCovers'
  <2> SUFFICES ASSUME NEW r \in Roots, NEW p \in PolledPaths, IsUnseen(r, p)',
                      pass' = "seed" => pc' = "idle"
               PROVE  hookFailures' = 1 /\ Missed(r, p)'
    BY <1>2 DEF PollCovers
  <2>1. IsUnseen(r, p) /\ pass = "poll"
    BY <1>2, <1>3 DEF IsUnseen, IsOld, PollInv, WalkTyped
  <2>2. hookFailures = 1 /\ Missed(r, p)
    BY <1>2, <2>1 DEF PollInv, PollCovers
  <2>3. hookFailures' = 1
    BY <1>3, <2>2 DEF IsUnseen
  <2> QED BY <1>2, <2>2, <2>3 DEF Missed
<1>19. OldIsSilent'
  BY <1>2, <1>3, <1>4 DEF PollInv, OldIsSilent
<1> QED BY <1>6, <1>7, <1>8, <1>9, <1>10, <1>11, <1>12, <1>13, <1>14, <1>15, <1>16, <1>17, <1>18,
<1>19 DEF PollInv

LEMMA DiscoverKeeps ==
  ASSUME PollingAssumption, PollInv, Discover
  PROVE  PollInv'
<1>1. PICK bad \in SUBSET Owners :
        LET owners == [r \in Roots |-> {l \in Owners \ bad : r \in PollOnly(l)}]
        IN  /\ Raising(bad)
            /\ disc' = [dirs |-> Listed(owners), owning |-> owners,
                        globs |-> [r \in Roots |->
                                     IF owners[r] # {} THEN owners[r] ELSE exclusions[r]],
                        failed |-> bad # {}, succeeded |-> Owners \ bad]
  BY DEF Discover
<1>2. /\ pc = "discover" /\ pc' = "judge"
      /\ UNCHANGED <<artifactAt, artifactsMade, older, exists, pass, unseeded, work,
                  exclusions, seen, discovered, succeeded, seedIncomplete,
                  knownPlugins, pendingGlobs, reported>>
  BY DEF Discover, world, records
<1>3. /\ hookFailures \in Nat /\ hookFailures' \in Nat /\ hookFailures <= hookFailures'
      /\ bad # {} => hookFailures < hookFailures'
  BY <1>1, RaisingCounts DEF PollInv, WorldIsRight
<1>4. work = NoWork /\ work' = NoWork
  BY <1>2 DEF PollInv, WalkIsRight
<1>5. /\ disc'.succeeded = Owners \ bad
      /\ disc'.failed = (bad # {})
      /\ \A r \in Roots : disc'.owning[r] = {l \in Owners \ bad : r \in PolledBy[l] /\ r \in exists}
  BY <1>1 DEF PollOnly
<1>6. \A r \in Roots :
         disc'.globs[r] = IF disc'.owning[r] # {} THEN disc'.owning[r] ELSE exclusions[r]
  BY <1>1
<1>7. \A r \in Roots : r \in disc'.dirs <=> disc'.owning[r] # {} \/ exclusions[r] # {}
  BY <1>1 DEF Listed
<1>8. disc' \in Discoveries
  <2>1. exclusions \in [Roots -> SUBSET Owners]
    BY DEF PollInv, RecordsTyped
  <2> QED BY <1>1, <2>1 DEF Discoveries, Listed
<1>9. WalkTyped'
  BY <1>2, <1>8 DEF PollInv, WalkTyped
<1>10. RecordsTyped'
  BY <1>2, <1>3, <1>4 DEF PollInv, RecordsTyped
<1>11. WorldIsRight'
  BY <1>2, <1>3, <1>4 DEF PollInv, WorldIsRight
<1>12. Numbered'
  BY <1>2, <1>3, <1>4 DEF PollInv, Numbered
<1>13. Rooted'
  <2>1. \A r \in disc'.dirs : r \in Roots /\ Listable(r)
    BY <1>5, <1>7, <1>8 DEF Listable, Discoveries
  <2>2. \A r \in disc'.dirs : Listable(r)'
    BY <1>2, <2>1 DEF Listable
  <2>3. ASSUME NEW r \in Roots, NEW p \in PolledPaths, NEW a \in Artifacts
        PROVE  /\ <<p, a>> \in seen'[r] => r \in Under[p] /\ Listable(r)'
               /\ <<p, a>> \notin work'.snapshot[r]
    <3>1. work'.snapshot[r] = {}
      BY <1>4 DEF NoWork, NoneOfAny
    <3> QED BY <1>2, <3>1 DEF PollInv, Rooted, Listable
  <2> QED BY <2>2, <2>3 DEF Rooted
<1>14. WalkIsRight'
  BY <1>2, <1>4 DEF WalkIsRight, NoWork
<1>15. SeedIsFirst'
  BY <1>2, <1>3, <1>4 DEF PollInv, SeedIsFirst
<1>16. Absorbed'
  BY <1>2, <1>3, <1>4 DEF PollInv, Absorbed
<1>17. StaysKnown'
  <2>1. ASSUME NEW r \in Roots, NEW p \in PolledPaths, <<p, artifactAt[p]>> \in seen[r]
        PROVE  disc'.failed \/ r \in disc'.dirs
    <3>1. artifactAt[p] \in Artifacts
      <4>1. seen[r] \subseteq PolledPaths \X Artifacts
        BY DEF PollInv, RecordsTyped
      <4> QED BY <2>1, <4>1
    <3>2. r \in Under[p] /\ Listable(r)
      BY <2>1, <3>1 DEF PollInv, Rooted
    <3>3. r \in exists
      BY <3>1, <3>2 DEF PollInv, WorldIsRight, Artifacts, NoArtifact, PollingAssumption
    <3>4. CASE bad # {}
      BY <1>5, <3>4
    <3>5. CASE bad = {} /\ exclusions[r] # {}
      BY <1>7, <3>5
    <3>6. ASSUME bad = {}, NEW l \in Owners, r \in PolledBy[l] PROVE r \in disc'.dirs
      BY <1>5, <1>7, <3>3, <3>6
    <3> QED BY <3>2, <3>4, <3>5, <3>6 DEF Listable
  <2> QED BY <1>2, <1>4, <2>1 DEF PollInv, StaysKnown, NoWork
<1>18. FoundIsNew'
  BY <1>2, <1>3, <1>4 DEF PollInv, FoundIsNew
<1>19. GlobsDeclared'
  <2>1. \A r \in Declared : r \in Roots /\ exclusions[r] \subseteq Declarers(r)
    BY DEF PollInv, GlobsDeclared, Declared
  <2>2. \A r \in Declared : disc'.owning[r] \subseteq Declarers(r)
    BY <1>5, <2>1 DEF Declarers
  <2>3. \A r \in Declared : disc'.globs[r] \subseteq Declarers(r)
    BY <1>6, <2>1, <2>2
  <2> QED BY <1>2, <1>6, <1>7, <2>1, <2>2, <2>3 DEF GlobsDeclared
<1>20. SeedCovers'
  <2> SUFFICES ASSUME NEW r \in Roots, NEW p \in PolledPaths, IsOld(r, p)
               PROVE  /\ disc'.owning[r] = Declarers(r) \cap disc'.succeeded
                      /\ disc'.succeeded # Owners => hookFailures' >= 1
    BY <1>2 DEF SeedCovers, IsOld
  <2>1. r \in exists
    BY DEF IsOld, PollInv, WorldIsRight, NoArtifact
  <2> QED BY <1>3, <1>5, <2>1 DEF Declarers
<1>21. PollCovers'
  <2> SUFFICES ASSUME NEW r \in Roots, NEW p \in PolledPaths, IsUnseen(r, p)',
                      pass' = "seed" => pc' = "idle"
               PROVE  hookFailures' = 1 /\ Missed(r, p)' /\ DiscoveredAll(r)'
    BY <1>2 DEF PollCovers
  <2>1. IsUnseen(r, p) /\ pass = "poll"
    BY <1>2, <1>3 DEF IsUnseen, IsOld, PollInv, WalkTyped
  <2>2. hookFailures = 1 /\ Missed(r, p)
    BY <1>2, <2>1 DEF PollInv, PollCovers
  <2>3. hookFailures' = 1 /\ bad = {}
    BY <1>3, <2>2 DEF IsUnseen
  <2>4. r \in exists
    BY <2>1 DEF IsUnseen, IsOld, PollInv, WorldIsRight, NoArtifact
  <2>5. DiscoveredAll(r)'
    <3>1. disc'.failed = FALSE
      BY <1>5, <2>3
    <3>2. disc'.succeeded = Owners /\ disc'.owning[r] = Declarers(r)
      BY <1>5, <2>3, <2>4 DEF Declarers
    <3> QED BY <1>4, <3>1, <3>2 DEF DiscoveredAll, NoWork
  <2> QED BY <1>2, <2>2, <2>3, <2>5 DEF Missed
<1>22. OldIsSilent'
  BY <1>2, <1>3, <1>4 DEF PollInv, OldIsSilent
<1> QED BY <1>9, <1>10, <1>11, <1>12, <1>13, <1>14, <1>15, <1>16, <1>17, <1>18, <1>19, <1>20,
<1>21, <1>22 DEF PollInv

LEMMA JudgeKeeps == ASSUME PollingAssumption, PollInv, Judge PROVE PollInv'
<1>1. /\ pc = "judge" /\ pc' = "walk" /\ work' = [NoWork EXCEPT !.todo = disc.dirs]
      /\ UNCHANGED <<artifactAt, artifactsMade, older, exists, hookFailures, pass, disc,
                  exclusions, seen, seedIncomplete, reported>>
  BY DEF Judge, world
<1>2. /\ work'.todo = disc.dirs /\ work'.root = {} /\ work'.left = {} /\ work'.matched = {}
      /\ work'.snapshot = NoneOfAny /\ work'.found = NoneOfAny /\ work'.incomplete = {}
      /\ work' \in Works
  <2>1. disc.dirs \subseteq Roots
    BY DEF PollInv, WalkTyped, Discoveries
  <2> QED BY <1>1, <2>1 DEF NoWork, NoneOfAny, Works
<1>3. pass = "seed" => UNCHANGED <<unseeded, knownPlugins, pendingGlobs, discovered, succeeded>>
  BY DEF Judge
<1>4. pass = "poll" =>
        /\ pendingGlobs' = [r \in Roots |-> pendingGlobs[r] \cup
                              (IF r \in disc.dirs THEN NewContributors(r) ELSE {})]
        /\ unseeded' = [roots |-> {r \in disc.dirs : Untrusted(r)}, globs |-> pendingGlobs']
        /\ knownPlugins' = [r \in Roots |-> knownPlugins[r] \cup disc.owning[r]]
        /\ discovered' = discovered \cup disc.dirs
        /\ succeeded' = succeeded \cup disc.succeeded
  BY DEF Judge
<1>5. \A r \in Roots : work'.snapshot[r] = {} /\ work'.found[r] = {}
  BY <1>2 DEF NoneOfAny
<1>6. \A r \in Roots : NewContributors(r) \subseteq Owners
  BY DEF NewContributors, PollInv, WalkTyped, Discoveries
<1>7. pass \in {"seed", "poll"}
  BY DEF PollInv, WalkTyped
<1>8. WalkTyped'
  <2>1. pass = "poll" => unseeded' \in [roots : SUBSET Roots, globs : [Roots -> SUBSET Owners]]
    <3>1. pass = "poll" => pendingGlobs' \in [Roots -> SUBSET Owners]
      BY <1>4, <1>6 DEF PollInv, RecordsTyped
    <3>2. {r \in disc.dirs : Untrusted(r)} \subseteq Roots
      BY DEF PollInv, WalkTyped, Discoveries
    <3> QED BY <1>4, <3>1, <3>2
  <2> QED BY <1>1, <1>2, <1>3, <1>7, <2>1 DEF PollInv, WalkTyped
<1>9. RecordsTyped'
  <2>1. CASE pass = "seed"
    BY <1>1, <1>3, <2>1 DEF PollInv, RecordsTyped
  <2>2. CASE pass = "poll"
    <3>1. disc.dirs \subseteq Roots /\ disc.succeeded \subseteq Owners
          /\ disc.owning \in [Roots -> SUBSET Owners]
      BY DEF PollInv, WalkTyped, Discoveries
    <3>2. pendingGlobs' \in [Roots -> SUBSET Owners] /\ knownPlugins' \in [Roots -> SUBSET Owners]
      BY <1>4, <1>6, <2>2, <3>1 DEF PollInv, RecordsTyped
    <3> QED BY <1>1, <1>4, <2>2, <3>1, <3>2 DEF PollInv, RecordsTyped
  <2> QED BY <1>7, <2>1, <2>2
<1>10. WorldIsRight'
  BY <1>1 DEF PollInv, WorldIsRight
<1>11. Numbered'
  BY <1>1, <1>5 DEF PollInv, Numbered
<1>12. Rooted'
  BY <1>1, <1>5 DEF PollInv, Rooted, Listable
<1>13. WalkIsRight'
  BY <1>1, <1>2 DEF PollInv, WalkIsRight
<1>14. SeedIsFirst'
  BY <1>1, <1>3 DEF PollInv, SeedIsFirst
<1>15. Absorbed'
  BY <1>1, <1>5 DEF PollInv, Absorbed
<1>16. StaysKnown'
  BY <1>1, <1>2 DEF PollInv, StaysKnown
<1>17. FoundIsNew'
  BY <1>5 DEF FoundIsNew
<1>18. GlobsDeclared'
  BY <1>1 DEF PollInv, GlobsDeclared
<1>19. SeedCovers'
  BY <1>1, <1>2 DEF PollInv, SeedCovers, IsOld
<1>20. PollCovers'
  <2> SUFFICES ASSUME NEW r \in Roots, NEW p \in PolledPaths, IsUnseen(r, p)',
                      pass' = "seed" => pc' = "idle"
               PROVE  hookFailures' = 1 /\ DiscoveredAll(r)' /\ InDoubtAll(r, p)'
                 /\ WalkFinds(r, p)'
    BY <1>1 DEF PollCovers
  <2>1. IsUnseen(r, p) /\ pass = "poll"
    BY <1>1, <1>7 DEF IsUnseen, IsOld
  <2>2. hookFailures = 1 /\ Missed(r, p) /\ DiscoveredAll(r)
    BY <1>1, <2>1 DEF PollInv, PollCovers
  <2>3. r \in Declared /\ Finders(r, p) # {} /\ Finders(r, p) \subseteq Declarers(r)
    BY <2>1 DEF IsUnseen, IsOld, Finders
  <2>4. disc.owning[r] = Declarers(r) /\ r \in disc.dirs
    BY <1>1, <2>2, <2>3 DEF DiscoveredAll, PollInv, GlobsDeclared
  <2>5. InDoubtAll(r, p)'
    <3>1. unseeded'.roots = {q \in disc.dirs : Untrusted(q)} /\ unseeded'.globs = pendingGlobs'
      BY <1>4, <2>1
    <3>2. CASE r \in seedIncomplete
      BY <1>1, <3>2 DEF InDoubtAll
    <3>3. CASE r \notin discovered /\ Declarers(r) \cap succeeded = {}
      <4>1. Untrusted(r)
        BY <2>3, <2>4, <3>3 DEF Untrusted
      <4> QED BY <2>4, <3>1, <4>1 DEF InDoubtAll
    <3>4. CASE r \in discovered /\ Finders(r, p) \cap knownPlugins[r] \subseteq pendingGlobs[r]
      <4>1. pendingGlobs'[r] = pendingGlobs[r] \cup (Declarers(r) \ knownPlugins[r])
        BY <1>4, <2>1, <2>4, <3>4 DEF NewContributors
      <4>2. Finders(r, p) \subseteq pendingGlobs'[r]
        BY <2>3, <3>4, <4>1
      <4> QED BY <3>1, <4>2 DEF InDoubtAll, Finders, Declarers
    <3> QED BY <2>2, <3>2, <3>3, <3>4 DEF Missed
  <2>6. WalkFinds(r, p)'
    BY <1>2, <2>4 DEF WalkFinds
  <2> QED BY <1>1, <1>2, <2>2, <2>5, <2>6 DEF DiscoveredAll
<1>21. OldIsSilent'
  <2>1. \A r \in Declared : r \in Roots
    BY DEF Declared
  <2> QED BY <1>1, <1>5, <2>1 DEF PollInv, OldIsSilent
<1> QED BY <1>8, <1>9, <1>10, <1>11, <1>12, <1>13, <1>14, <1>15, <1>16, <1>17, <1>18, <1>19, <1>20,
<1>21 DEF PollInv

\* In a walk, nothing but the walk changes.
Walks == pc = "walk" /\ work' \in Works
  /\ UNCHANGED <<artifactAt, artifactsMade, older, exists, pc, pass, disc, unseeded, exclusions, seen,
                 discovered, succeeded, seedIncomplete, knownPlugins, pendingGlobs, reported>>

LEMMA WalkIsOfArtifacts ==
  ASSUME PollingAssumption, PollInv, NEW r \in Roots, NEW p \in PolledPaths,
         \/ <<p, artifactAt[p]>> \in seen[r]
         \/ IsOld(r, p)
  PROVE  artifactAt[p] \in Artifacts /\ artifactAt[p] # NoArtifact /\ r \in exists
<1>1. seen[r] \subseteq PolledPaths \X Artifacts /\ older \subseteq 1 .. artifactsMade
  BY DEF PollInv, RecordsTyped, WorldIsRight
<1>2. artifactAt[p] \in Artifacts
  <2>1. CASE <<p, artifactAt[p]>> \in seen[r]
    BY <1>1, <2>1
  <2>2. CASE IsOld(r, p)
    BY <1>1, <2>2 DEF IsOld, PollInv, WorldIsRight, Artifacts, PollingAssumption
  <2> QED BY <2>1, <2>2
<1>3. artifactAt[p] # NoArtifact
  BY <1>2 DEF Artifacts, NoArtifact, PollingAssumption
<1>4. r \in Under[p]
  BY <1>2 DEF PollInv, Rooted, IsOld
<1> QED BY <1>2, <1>3, <1>4 DEF PollInv, WorldIsRight

LEMMA SkipRootKeeps ==
  ASSUME PollingAssumption, PollInv, Walks, NEW r0 \in work.todo, r0 \notin exists,
         work' = [work EXCEPT !.todo = @ \ {r0}], UNCHANGED hookFailures
  PROVE  PollInv'
<1>1. /\ work'.todo = work.todo \ {r0} /\ work'.root = work.root /\ work'.left = work.left
      /\ work'.matched = work.matched /\ work'.snapshot = work.snapshot /\ work'.found = work.found
      /\ work'.incomplete = work.incomplete
  BY DEF PollInv, WalkTyped, Works
<1>2. WalkTyped'
  BY DEF PollInv, WalkTyped, Walks
<1>3. RecordsTyped'
  BY DEF PollInv, RecordsTyped, Walks
<1>4. WorldIsRight'
  BY DEF PollInv, WorldIsRight, Walks
<1>5. Numbered'
  BY <1>1 DEF PollInv, Numbered, Walks
<1>6. Rooted'
  BY <1>1 DEF PollInv, Rooted, Listable, Walks
<1>7. WalkIsRight'
  BY <1>1 DEF PollInv, WalkIsRight, Walks
<1>8. SeedIsFirst'
  BY DEF PollInv, SeedIsFirst, Walks
<1>9. Absorbed'
  BY <1>1 DEF PollInv, Absorbed, Walks
<1>10. StaysKnown'
  <2>1. \A r \in Roots, p \in PolledPaths : <<p, artifactAt[p]>> \in seen[r] => r # r0
    BY WalkIsOfArtifacts
  <2> QED BY <1>1, <2>1 DEF PollInv, StaysKnown, Walks
<1>11. FoundIsNew'
  BY <1>1 DEF PollInv, FoundIsNew, Walks
<1>12. GlobsDeclared'
  BY DEF PollInv, GlobsDeclared, Walks
<1>13. SeedCovers'
  <2>1. \A r \in Roots, p \in PolledPaths : IsOld(r, p) => r # r0
    BY WalkIsOfArtifacts
  <2> QED BY <1>1, <2>1 DEF PollInv, SeedCovers, IsOld, Walks
<1>14. PollCovers'
  <2>1. \A r \in Roots, p \in PolledPaths : IsOld(r, p) => r # r0
    BY WalkIsOfArtifacts
  <2> SUFFICES ASSUME NEW r \in Roots, NEW p \in PolledPaths, IsUnseen(r, p)',
                      pass' = "seed" => pc' = "idle"
               PROVE  hookFailures' = 1 /\ DiscoveredAll(r)' /\ InDoubtAll(r, p)'
                 /\ WalkFinds(r, p)'
    BY DEF PollCovers, Walks
  <2>2. IsUnseen(r, p) /\ r # r0
    BY <2>1 DEF IsUnseen, IsOld, Walks
  <2>3. hookFailures = 1 /\ DiscoveredAll(r) /\ InDoubtAll(r, p) /\ WalkFinds(r, p)
    BY <2>2 DEF PollInv, PollCovers, Walks
  <2> QED BY <1>1, <2>2, <2>3 DEF Walks, DiscoveredAll, InDoubtAll, WalkFinds
<1>15. OldIsSilent'
  BY <1>1 DEF PollInv, OldIsSilent, Walks
<1> QED BY <1>2, <1>3, <1>4, <1>5, <1>6, <1>7, <1>8, <1>9, <1>10, <1>11, <1>12, <1>13, <1>14,
<1>15 DEF PollInv

LEMMA BeginRootKeeps ==
  ASSUME PollingAssumption, PollInv, Walks, NEW r0 \in work.todo, work.root = {},
         work' = [work EXCEPT !.todo = @ \ {r0}, !.root = {r0}, !.left = disc.globs[r0], !.matched = {},
                              !.snapshot[r0] = IF pass = "poll" THEN Still(r0) ELSE {}],
         UNCHANGED hookFailures
  PROVE  PollInv'
<1>1. /\ work'.todo = work.todo \ {r0} /\ work'.root = {r0} /\ work'.left = disc.globs[r0]
      /\ work'.matched = {} /\ work'.found = work.found /\ work'.incomplete = work.incomplete
      /\ work'.snapshot = [work.snapshot EXCEPT ![r0] = IF pass = "poll" THEN Still(r0) ELSE {}]
  BY DEF PollInv, WalkTyped, Works
<1>2. /\ r0 \in Roots /\ r0 \in disc.dirs
      /\ work.snapshot \in [Roots -> SUBSET (PolledPaths \X Artifacts)]
  BY DEF PollInv, WalkTyped, WalkIsRight, Works, Discoveries
<1>3. \A r \in Roots : work'.snapshot[r] = IF r = r0 THEN (IF pass = "poll" THEN Still(r0) ELSE {})
                                                     ELSE work.snapshot[r]
  BY <1>1, <1>2
<1>4. \A r \in Roots, p \in PolledPaths, a \in Artifacts : <<p, a>> \in work'.snapshot[r] =>
         IF r = r0 THEN pass = "poll" /\ <<p, a>> \in seen[r0] ELSE <<p, a>> \in work.snapshot[r]
  BY <1>3 DEF Still
<1>5. \A r \in Roots : r # r0 => work'.snapshot[r] = work.snapshot[r]
  BY <1>3
<1>6. \A a \in Artifacts : a \notin work.found[r0]
  BY <1>2 DEF PollInv, FoundIsNew
<1>7. WalkTyped'
  BY DEF PollInv, WalkTyped, Walks
<1>8. RecordsTyped'
  BY DEF PollInv, RecordsTyped, Walks
<1>9. WorldIsRight'
  BY DEF PollInv, WorldIsRight, Walks
<1>10. Numbered'
  BY <1>1, <1>4 DEF PollInv, Numbered, Walks
<1>11. Rooted'
  BY <1>2, <1>4 DEF PollInv, Rooted, Listable, Walks
<1>12. WalkIsRight'
  BY <1>1, <1>2 DEF PollInv, WalkIsRight, Walks
<1>13. SeedIsFirst'
  BY DEF PollInv, SeedIsFirst, Walks
<1>14. Absorbed'
  BY <1>1, <1>4 DEF PollInv, Absorbed, Walks
<1>15. StaysKnown'
  <2>1. ASSUME NEW p \in PolledPaths, pass = "poll", <<p, artifactAt[p]>> \in seen[r0]
        PROVE  <<p, artifactAt[p]>> \in work'.snapshot[r0]
    <3>1. work'.snapshot[r0] = {e \in seen[r0] : artifactAt[e[1]] = e[2]}
      BY <1>2, <1>3, <2>1 DEF Still
    <3> QED BY <2>1, <3>1
  <2> QED BY <1>1, <1>5, <2>1 DEF PollInv, StaysKnown, Walks
<1>16. FoundIsNew'
  <2>1. \A r \in Roots, a \in Artifacts : a \in work'.found[r] => a \in work.found[r] /\ r # r0
    BY <1>1, <1>6
  <2> QED BY <1>1, <1>5, <2>1 DEF PollInv, FoundIsNew, Walks
<1>17. GlobsDeclared'
  BY DEF PollInv, GlobsDeclared, Walks
<1>18. SeedCovers'
  <2> SUFFICES ASSUME NEW r \in Roots, NEW p \in PolledPaths,
                      hookFailures <= 1, IsOld(r, p), pass = "seed"
               PROVE  /\ disc.owning[r] = Declarers(r) \cap disc.succeeded
                      /\ disc.succeeded # Owners => hookFailures >= 1
                      /\ r \in disc.dirs => \A l \in MatchedBy[p] \cap disc.globs[r] :
                           \/ r \in work'.todo
                           \/ r \in work'.root /\ l \in work'.left
                           \/ <<p, artifactAt[p]>> \in work'.snapshot[r]
                           \/ r \in work'.incomplete /\ hookFailures >= 1
    BY DEF SeedCovers, IsOld, Walks
  <2>1. /\ disc.owning[r] = Declarers(r) \cap disc.succeeded
        /\ disc.succeeded # Owners => hookFailures >= 1
        /\ r \in disc.dirs => \A l \in MatchedBy[p] \cap disc.globs[r] :
             \/ r \in work.todo
             \/ r \in work.root /\ l \in work.left
             \/ <<p, artifactAt[p]>> \in work.snapshot[r]
             \/ r \in work.incomplete /\ hookFailures >= 1
    BY DEF PollInv, SeedCovers, Walks
  <2>2. CASE r = r0
    BY <1>1, <2>1, <2>2
  <2>3. CASE r # r0
    BY <1>1, <1>5, <2>1, <2>3
  <2> QED BY <2>2, <2>3
<1>19. PollCovers'
  <2> SUFFICES ASSUME NEW r \in Roots, NEW p \in PolledPaths, IsUnseen(r, p)',
                      pass' = "seed" => pc' = "idle"
               PROVE  hookFailures' = 1 /\ DiscoveredAll(r)' /\ InDoubtAll(r, p)'
                 /\ WalkFinds(r, p)'
    BY DEF PollCovers, Walks
  <2>1. IsUnseen(r, p)
    BY DEF IsUnseen, IsOld, Walks
  <2>2. hookFailures = 1 /\ DiscoveredAll(r) /\ InDoubtAll(r, p) /\ WalkFinds(r, p)
    BY <2>1 DEF PollInv, PollCovers, Walks
  <2>3. DiscoveredAll(r)' /\ InDoubtAll(r, p)'
    BY <1>1, <2>2 DEF Walks, DiscoveredAll, InDoubtAll
  <2>4. CASE r = r0
    <3>1. r \in Declared /\ Finders(r, p) # {} /\ Finders(r, p) \subseteq Declarers(r)
      BY <2>1 DEF IsUnseen, IsOld, Finders
    <3>2. Finders(r, p) \subseteq disc.globs[r0]
      BY <2>2, <2>4, <3>1 DEF PollInv, GlobsDeclared, DiscoveredAll, Walks
    <3> QED BY <1>1, <2>2, <2>3, <2>4, <3>2 DEF WalkFinds
  <2>5. CASE r # r0
    BY <1>1, <1>5, <2>2, <2>3, <2>5 DEF WalkFinds, Walks
  <2> QED BY <2>4, <2>5
<1>20. OldIsSilent'
  BY <1>1 DEF PollInv, OldIsSilent, Walks
<1> QED BY <1>7, <1>8, <1>9, <1>10, <1>11, <1>12, <1>13, <1>14, <1>15, <1>16, <1>17, <1>18, <1>19,
<1>20 DEF PollInv

LEMMA GlobKeeps == ASSUME PollingAssumption, PollInv, Glob PROVE PollInv'
<1>1. PICK r0 \in work.root, l0 \in work.left, complete \in BOOLEAN :
        /\ IF complete THEN UNCHANGED hookFailures ELSE Raising({l0})
        /\ \E got \in IF complete THEN {Entries(r0, l0)} ELSE {{}} \cup {{p} : p \in Entries(r0, l0)} :
             work' = [work EXCEPT
               !.left = @ \ {l0},
               !.incomplete = IF complete THEN @ ELSE @ \cup {r0},
               !.matched = @ \cup {<<p, l0>> : p \in got},
               !.snapshot[r0] = IF pass = "poll" THEN @
                               ELSE @ \cup {Now(p) : p \in {q \in got : Seedable(q)}}]
  BY DEF Glob
<1>2. PICK got \in IF complete THEN {Entries(r0, l0)} ELSE {{}} \cup {{p} : p \in Entries(r0, l0)} :
        work' = [work EXCEPT
             !.left = @ \ {l0},
             !.incomplete = IF complete THEN @ ELSE @ \cup {r0},
             !.matched = @ \cup {<<p, l0>> : p \in got},
             !.snapshot[r0] = IF pass = "poll" THEN @
                             ELSE @ \cup {Now(p) : p \in {q \in got : Seedable(q)}}]
  BY <1>1
<1>3. got \subseteq Entries(r0, l0) /\ (complete => got = Entries(r0, l0))
  OBVIOUS
<1>4. /\ work'.left = work.left \ {l0} /\ work'.todo = work.todo /\ work'.root = work.root
      /\ work'.found = work.found
      /\ work'.incomplete = IF complete THEN work.incomplete ELSE work.incomplete \cup {r0}
      /\ work'.matched = work.matched \cup {<<p, l0>> : p \in got}
      /\ work'.snapshot = [work.snapshot EXCEPT ![r0] = IF pass = "poll" THEN @
                             ELSE @ \cup {Now(p) : p \in {q \in got : Seedable(q)}}]
  BY <1>2 DEF PollInv, WalkTyped, Works
<1>5. /\ r0 \in Roots /\ l0 \in Owners /\ work \in Works /\ r0 \in disc.dirs
      /\ l0 \in disc.globs[r0]
      /\ \A r \in work.root : r = r0
  BY DEF PollInv, WalkTyped, WalkIsRight, Works
<1>6. work.snapshot \in [Roots -> SUBSET (PolledPaths \X Artifacts)]
  BY <1>5 DEF Works
<1>7. \A r \in Roots : r # r0 \/ pass = "poll" => work'.snapshot[r] = work.snapshot[r]
  BY <1>4, <1>6
<1>8. pass # "poll" =>
        work'.snapshot[r0] = work.snapshot[r0] \cup {Now(p) : p \in {q \in got : Seedable(q)}}
  BY <1>4, <1>5, <1>6
<1>9. \A p \in got : /\ p \in PolledPaths /\ r0 \in Under[p] /\ l0 \in MatchedBy[p]
                     /\ artifactAt[p] \in Artifacts /\ artifactAt[p] <= artifactsMade
  <2>1. \A p \in PolledPaths : artifactAt[p] # NoArtifact =>
           artifactAt[p] \in Artifacts /\ artifactAt[p] <= artifactsMade
    BY DEF PollInv, WorldIsRight, Artifacts, NoArtifact, PollingAssumption
  <2> QED BY <1>3, <2>1 DEF Entries
<1>10. \A r \in Roots, p \in PolledPaths, a \in Artifacts : <<p, a>> \in work'.snapshot[r] =>
         \/ <<p, a>> \in work.snapshot[r]
         \/ r = r0 /\ pass # "poll" /\ p \in got /\ a = artifactAt[p] /\ a \in older
  <2> SUFFICES ASSUME NEW r \in Roots, NEW p \in PolledPaths, NEW a \in Artifacts,
                      <<p, a>> \in work'.snapshot[r], <<p, a>> \notin work.snapshot[r]
               PROVE  r = r0 /\ pass # "poll" /\ p \in got /\ a = artifactAt[p] /\ a \in older
    OBVIOUS
  <2>1. r = r0 /\ pass # "poll"
    BY <1>7
  <2>2. PICK q \in got : Seedable(q) /\ <<p, a>> = Now(q)
    BY <1>8, <2>1
  <2> QED BY <2>1, <2>2 DEF Now, Seedable
<1>11. work' \in Works
  <2>1. work'.snapshot \in [Roots -> SUBSET (PolledPaths \X Artifacts)]
    <3>1. {Now(p) : p \in {q \in got : Seedable(q)}} \subseteq PolledPaths \X Artifacts
      BY <1>9 DEF Now
    <3> QED BY <1>4, <1>6, <3>1
  <2>2. {<<p, l0>> : p \in got} \subseteq PolledPaths \X Owners
    BY <1>5, <1>9
  <2>3. work'.matched \in SUBSET (PolledPaths \X Owners)
    BY <1>4, <1>5, <2>2 DEF Works
  <2>4. work'.left \in SUBSET Owners /\ work'.incomplete \in SUBSET Roots
    BY <1>4, <1>5 DEF Works
  <2>5. work' = [todo |-> work'.todo, root |-> work'.root, left |-> work'.left, matched |-> work'.matched,
                 snapshot |-> work'.snapshot, found |-> work'.found, incomplete |-> work'.incomplete]
    BY <1>2, <1>5 DEF Works
  <2>6. work'.todo \in SUBSET Roots /\ work'.root \in SUBSET Roots
        /\ work'.found \in [Roots -> SUBSET Artifacts]
    BY <1>4, <1>5 DEF Works
  <2> QED BY <2>1, <2>3, <2>4, <2>5, <2>6 DEF Works
<1>12. Walks
  BY <1>11 DEF Glob, Walks, world, records
<1>13. /\ hookFailures \in Nat /\ hookFailures' \in Nat /\ hookFailures <= hookFailures'
       /\ complete => hookFailures' = hookFailures
       /\ ~complete => hookFailures < hookFailures'
  <2>1. hookFailures \in Nat
    BY DEF PollInv, WorldIsRight
  <2>2. CASE complete
    BY <1>1, <2>1, <2>2
  <2>3. CASE ~complete
    BY <1>1, <1>5, <2>1, <2>3, RaisingCounts
  <2> QED BY <2>2, <2>3
<1>14. ASSUME complete, NEW p \in PolledPaths, IsOld(r0, p), l0 \in MatchedBy[p] PROVE p \in got
  BY <1>5, <1>14, <1>3, WalkIsOfArtifacts DEF Entries, IsOld
<1>15. WalkTyped'
  BY <1>12 DEF PollInv, WalkTyped, Walks
<1>16. RecordsTyped'
  BY <1>12 DEF PollInv, RecordsTyped, Walks
<1>17. WorldIsRight'
  BY <1>12, <1>13 DEF PollInv, WorldIsRight, Walks
<1>18. Numbered'
  BY <1>4, <1>9, <1>10, <1>12 DEF PollInv, Numbered, Walks
<1>19. Rooted'
  BY <1>5, <1>9, <1>10, <1>12 DEF PollInv, Rooted, Listable, Walks
<1>20. WalkIsRight'
  <2>1. \A r \in work.root, p \in PolledPaths, l \in Owners :
           <<p, l>> \in work'.matched => r \in Under[p] /\ l \in MatchedBy[p] /\ l \in disc.globs[r]
    BY <1>4, <1>5, <1>9 DEF PollInv, WalkIsRight
  <2> QED BY <1>4, <1>12, <2>1 DEF PollInv, WalkIsRight, Walks
<1>21. SeedIsFirst'
  BY <1>12 DEF PollInv, SeedIsFirst, Walks
<1>22. Absorbed'
  BY <1>4, <1>10, <1>12 DEF PollInv, Absorbed, Walks
<1>23. StaysKnown'
  BY <1>4, <1>7, <1>12 DEF PollInv, StaysKnown, Walks
<1>24. FoundIsNew'
  BY <1>4, <1>7, <1>12 DEF PollInv, FoundIsNew, Walks
<1>25. GlobsDeclared'
  BY <1>12 DEF PollInv, GlobsDeclared, Walks
<1>26. SeedCovers'
  <2> SUFFICES ASSUME NEW r \in Roots, NEW p \in PolledPaths,
                      hookFailures' <= 1, IsOld(r, p), pass = "seed"
               PROVE  /\ disc.owning[r] = Declarers(r) \cap disc.succeeded
                      /\ disc.succeeded # Owners => hookFailures' >= 1
                      /\ r \in disc.dirs => \A l \in MatchedBy[p] \cap disc.globs[r] :
                           \/ r \in work'.todo
                           \/ r \in work'.root /\ l \in work'.left
                           \/ <<p, artifactAt[p]>> \in work'.snapshot[r]
                           \/ r \in work'.incomplete /\ hookFailures' >= 1
    BY <1>12 DEF SeedCovers, IsOld, Walks
  <2>1. /\ disc.owning[r] = Declarers(r) \cap disc.succeeded
        /\ disc.succeeded # Owners => hookFailures >= 1
        /\ r \in disc.dirs => \A l \in MatchedBy[p] \cap disc.globs[r] :
             \/ r \in work.todo
             \/ r \in work.root /\ l \in work.left
             \/ <<p, artifactAt[p]>> \in work.snapshot[r]
             \/ r \in work.incomplete /\ hookFailures >= 1
    BY <1>12, <1>13 DEF PollInv, SeedCovers, Walks
  <2>2. work.snapshot[r] \subseteq work'.snapshot[r] /\ work.incomplete \subseteq work'.incomplete
    BY <1>4, <1>5, <1>7, <1>8
  <2>3. ASSUME r = r0, l0 \in MatchedBy[p]
        PROVE  <<p, artifactAt[p]>> \in work'.snapshot[r] \/ (r \in work'.incomplete
          /\ hookFailures' >= 1)
    <3>1. CASE complete
      <4>1. p \in got /\ Seedable(p)
        BY <1>14, <2>3, <3>1 DEF IsOld, Seedable
      <4> QED BY <1>8, <2>3, <4>1 DEF Now
    <3>2. CASE ~complete
      BY <1>4, <1>13, <2>3, <3>2
    <3> QED BY <3>1, <3>2
  <2>4. hookFailures >= 1 => hookFailures' >= 1
    BY <1>13
  <2>5. ASSUME r \in disc.dirs, NEW l \in MatchedBy[p] \cap disc.globs[r]
        PROVE  \/ r \in work'.todo
               \/ r \in work'.root /\ l \in work'.left
               \/ <<p, artifactAt[p]>> \in work'.snapshot[r]
               \/ r \in work'.incomplete /\ hookFailures' >= 1
    BY <1>4, <1>5, <2>1, <2>2, <2>3, <2>4, <2>5
  <2> QED BY <2>1, <2>4, <2>5
<1>27. PollCovers'
  <2> SUFFICES ASSUME NEW r \in Roots, NEW p \in PolledPaths, IsUnseen(r, p)',
                      pass' = "seed" => pc' = "idle"
               PROVE  hookFailures' = 1 /\ DiscoveredAll(r)' /\ InDoubtAll(r, p)'
                 /\ WalkFinds(r, p)'
    BY <1>12 DEF PollCovers, Walks
  <2>1. IsUnseen(r, p) /\ pass # "seed"
    BY <1>12, <1>13 DEF IsUnseen, IsOld, Walks
  <2>2. hookFailures = 1 /\ DiscoveredAll(r) /\ InDoubtAll(r, p) /\ WalkFinds(r, p)
    BY <1>12, <2>1 DEF PollInv, PollCovers, Walks
  <2>3. complete /\ hookFailures' = 1
    <3>1. hookFailures' <= 1
      BY DEF IsUnseen
    <3> QED BY <1>13, <2>2, <3>1
  <2>4. DiscoveredAll(r)' /\ InDoubtAll(r, p)'
    BY <1>4, <1>12, <2>2, <2>3 DEF Walks, DiscoveredAll, InDoubtAll
  <2>5. pass = "poll" /\ work'.snapshot[r] = work.snapshot[r]
    BY <1>7, <2>1 DEF PollInv, WalkTyped
  <2>6. ASSUME r = r0, l0 \in Finders(r, p) PROVE <<p, l0>> \in work'.matched
    <3>1. p \in got
      BY <1>14, <2>1, <2>3, <2>6 DEF Finders, IsUnseen
    <3> QED BY <1>4, <3>1
  <2>7. WalkFinds(r, p)'
    BY <1>4, <1>5, <1>12, <2>2, <2>5, <2>6 DEF WalkFinds, Walks
  <2> QED BY <2>3, <2>4, <2>7
<1>28. OldIsSilent'
  BY <1>4, <1>12, <1>13 DEF PollInv, OldIsSilent, Walks
<1> QED BY <1>15, <1>16, <1>17, <1>18, <1>19, <1>20, <1>21, <1>22, <1>23, <1>24, <1>25, <1>26,
<1>27, <1>28 DEF PollInv

LEMMA StartRootKeeps ==
  ASSUME PollingAssumption, PollInv, StartRoot
  PROVE  PollInv'
<1>1. PICK r0 \in work.todo :
        work' = IF r0 \notin exists THEN [work EXCEPT !.todo = @ \ {r0}]
                ELSE [work EXCEPT !.todo = @ \ {r0}, !.root = {r0}, !.left = disc.globs[r0], !.matched = {},
                                  !.snapshot[r0] = IF pass = "poll" THEN Still(r0) ELSE {}]
  BY DEF StartRoot
<1>2. work.root = {} /\ UNCHANGED hookFailures
  BY DEF StartRoot
<1>3. work' \in Works
  <2>1. work \in Works /\ r0 \in Roots /\ disc.globs \in [Roots -> SUBSET Owners]
    BY DEF PollInv, WalkTyped, Works, Discoveries
  <2>2. (IF pass = "poll" THEN Still(r0) ELSE {}) \in SUBSET (PolledPaths \X Artifacts)
    BY <2>1 DEF Still, PollInv, RecordsTyped
  <2>3. CASE r0 \notin exists
    BY <1>1, <2>1, <2>3 DEF Works
  <2>4. CASE r0 \in exists
    BY <1>1, <2>1, <2>2, <2>4 DEF Works
  <2> QED BY <2>3, <2>4
<1>4. Walks
  BY <1>3 DEF StartRoot, Walks, world, records
<1>5. CASE r0 \notin exists
  <2>1. work' = [work EXCEPT !.todo = @ \ {r0}]
    BY <1>1, <1>5
  <2> QED BY <1>2, <1>4, <1>5, <2>1, SkipRootKeeps
<1>6. CASE r0 \in exists
  <2>1. work' = [work EXCEPT !.todo = @ \ {r0}, !.root = {r0}, !.left = disc.globs[r0], !.matched = {},
                             !.snapshot[r0] = IF pass = "poll" THEN Still(r0) ELSE {}]
    BY <1>1, <1>6
  <2> QED BY <1>2, <1>4, <2>1, BeginRootKeeps
<1> QED BY <1>5, <1>6

LEMMA EndSeedRootKeeps ==
  ASSUME PollingAssumption, PollInv, Walks, pass = "seed", work.left = {},
         work' = [work EXCEPT !.root = {}], UNCHANGED hookFailures
  PROVE  PollInv'
<1>1. /\ work'.todo = work.todo /\ work'.root = {} /\ work'.left = work.left
      /\ work'.matched = work.matched /\ work'.snapshot = work.snapshot /\ work'.found = work.found
      /\ work'.incomplete = work.incomplete
  BY DEF PollInv, WalkTyped, Works
<1>2. WalkTyped'
  BY DEF PollInv, WalkTyped, Walks
<1>3. RecordsTyped'
  BY DEF PollInv, RecordsTyped, Walks
<1>4. WorldIsRight'
  BY DEF PollInv, WorldIsRight, Walks
<1>5. Numbered'
  BY <1>1 DEF PollInv, Numbered, Walks
<1>6. Rooted'
  BY <1>1 DEF PollInv, Rooted, Listable, Walks
<1>7. WalkIsRight'
  BY <1>1 DEF PollInv, WalkIsRight, Walks
<1>8. SeedIsFirst'
  BY DEF PollInv, SeedIsFirst, Walks
<1>9. Absorbed'
  BY <1>1 DEF PollInv, Absorbed, Walks
<1>10. StaysKnown'
  BY <1>1 DEF PollInv, StaysKnown, Walks
<1>11. FoundIsNew'
  BY <1>1 DEF PollInv, FoundIsNew, Walks
<1>12. GlobsDeclared'
  BY DEF PollInv, GlobsDeclared, Walks
<1>13. SeedCovers'
  BY <1>1 DEF PollInv, SeedCovers, IsOld, Walks
<1>14. PollCovers'
  BY DEF PollCovers, Walks
<1>15. OldIsSilent'
  BY <1>1 DEF PollInv, OldIsSilent, Walks
<1> QED BY <1>2, <1>3, <1>4, <1>5, <1>6, <1>7, <1>8, <1>9, <1>10, <1>11, <1>12, <1>13, <1>14,
<1>15 DEF PollInv

\* What a poll finds at the end of a root's walk.
Judged(r) == {p \in PolledPaths : GlobsOf(p) # {} /\ artifactAt[p] # NoArtifact
  /\ Now(p) \notin work.snapshot[r]}

LEMMA EndPollRootKeeps ==
  ASSUME PollingAssumption, PollInv, Walks, pass = "poll", NEW r0 \in work.root, work.left = {},
         work' = [work EXCEPT !.root = {}, !.snapshot[r0] = @ \cup {Now(p) : p \in Judged(r0)},
                    !.found[r0] = {artifactAt[p] : p \in {q \in Judged(r0) : ~Suppressed(r0, q)}}],
         UNCHANGED hookFailures
  PROVE  PollInv'
<1>1. /\ work'.todo = work.todo /\ work'.root = {} /\ work'.left = {}
      /\ work'.matched = work.matched /\ work'.incomplete = work.incomplete
      /\ work'.snapshot = [work.snapshot EXCEPT ![r0] = @ \cup {Now(p) : p \in Judged(r0)}]
      /\ work'.found = [work.found EXCEPT ![r0] =
                          {artifactAt[p] : p \in {q \in Judged(r0) : ~Suppressed(r0, q)}}]
  BY DEF PollInv, WalkTyped, Works
<1>2. /\ r0 \in Roots /\ r0 \in disc.dirs /\ r0 \notin work.todo /\ \A r \in work.root : r = r0
      /\ work.snapshot \in [Roots -> SUBSET (PolledPaths \X Artifacts)]
      /\ work.found \in [Roots -> SUBSET Artifacts]
  BY DEF PollInv, WalkTyped, WalkIsRight, Works
<1>3. /\ \A r \in Roots : r # r0 =>
           work'.snapshot[r] = work.snapshot[r] /\ work'.found[r] = work.found[r]
      /\ work'.snapshot[r0] = work.snapshot[r0] \cup {Now(p) : p \in Judged(r0)}
      /\ work'.found[r0] = {artifactAt[p] : p \in {q \in Judged(r0) : ~Suppressed(r0, q)}}
  BY <1>1, <1>2
<1>4. \A p \in PolledPaths : artifactAt[p] # NoArtifact =>
         artifactAt[p] \in Artifacts /\ artifactAt[p] <= artifactsMade
  BY DEF PollInv, WorldIsRight, Artifacts, NoArtifact, PollingAssumption
<1>5. ASSUME NEW p \in Judged(r0)
      PROVE  /\ p \in PolledPaths /\ r0 \in Under[p] /\ artifactAt[p] \in Artifacts
             /\ artifactAt[p] <= artifactsMade /\ artifactAt[p] # NoArtifact
             /\ <<p, artifactAt[p]>> \notin work.snapshot[r0]
             /\ \E l \in Owners : l \in MatchedBy[p] /\ l \in disc.globs[r0]
  <2>1. p \in PolledPaths /\ artifactAt[p] # NoArtifact
        /\ <<p, artifactAt[p]>> \notin work.snapshot[r0]
    BY DEF Judged, Now
  <2>2. PICK l \in Owners : <<p, l>> \in work.matched
    BY DEF Judged, GlobsOf
  <2> QED BY <1>4, <2>1, <2>2 DEF PollInv, WalkIsRight
<1>6. \A r \in Roots, p \in PolledPaths, a \in Artifacts : <<p, a>> \in work'.snapshot[r] =>
         <<p, a>> \in work.snapshot[r] \/ (r = r0 /\ p \in Judged(r0) /\ a = artifactAt[p])
  <2> SUFFICES ASSUME NEW r \in Roots, NEW p \in PolledPaths, NEW a \in Artifacts,
                      <<p, a>> \in work'.snapshot[r], <<p, a>> \notin work.snapshot[r]
               PROVE  r = r0 /\ p \in Judged(r0) /\ a = artifactAt[p]
    OBVIOUS
  <2>1. r = r0
    BY <1>3
  <2>2. PICK q \in Judged(r0) : <<p, a>> = Now(q)
    BY <1>3, <2>1
  <2> QED BY <2>1, <2>2 DEF Now
<1>7. \A r \in Roots : work.snapshot[r] \subseteq work'.snapshot[r]
  BY <1>3
<1>8. \A p \in Judged(r0) : <<p, artifactAt[p]>> \in work'.snapshot[r0]
  BY <1>3 DEF Now
<1>9. \A a \in Artifacts : a \notin work.found[r0]
  BY <1>2 DEF PollInv, FoundIsNew
<1>10. \A r \in Roots, a \in Artifacts : a \in work'.found[r] =>
          \/ r # r0 /\ a \in work.found[r]
          \/ r = r0 /\ \E p \in Judged(r0) : a = artifactAt[p] /\ ~Suppressed(r0, p)
  BY <1>3
<1>11. \A p \in Judged(r0) : <<p, artifactAt[p]>> \notin seen[r0]
  BY <1>2, <1>5 DEF PollInv, StaysKnown
<1>12. WalkTyped'
  BY DEF PollInv, WalkTyped, Walks
<1>13. RecordsTyped'
  BY DEF PollInv, RecordsTyped, Walks
<1>14. WorldIsRight'
  BY DEF PollInv, WorldIsRight, Walks
<1>15. Numbered'
  <2>1. \A r \in Roots, p \in PolledPaths, a \in Artifacts :
           <<p, a>> \in seen[r] \/ <<p, a>> \in work'.snapshot[r] => a <= artifactsMade
    BY <1>5, <1>6 DEF PollInv, Numbered
  <2>2. \A r \in Roots, a \in Artifacts :
           a \in work.found[r] \/ reported[r][a] = 1 => a <= artifactsMade
    BY DEF PollInv, Numbered
  <2>3. ASSUME NEW r \in Roots, NEW a \in Artifacts, a \in work'.found[r] PROVE a <= artifactsMade
    <3>1. CASE a \in work.found[r]
      BY <2>2, <3>1
    <3>2. ASSUME NEW p \in Judged(r0), a = artifactAt[p] PROVE a <= artifactsMade
      BY <1>5, <3>2
    <3> QED BY <1>10, <2>3, <3>1, <3>2
  <2> QED BY <2>1, <2>2, <2>3 DEF Numbered, Walks
<1>16. Rooted'
  BY <1>2, <1>5, <1>6 DEF PollInv, Rooted, Listable, Walks
<1>17. WalkIsRight'
  BY <1>1 DEF PollInv, WalkIsRight, Walks
<1>18. SeedIsFirst'
  BY DEF PollInv, SeedIsFirst, Walks
<1>19. Absorbed'
  <2> SUFFICES ASSUME NEW r \in Roots, NEW p \in PolledPaths, NEW a \in Artifacts,
                      <<p, a>> \in work'.snapshot[r]
               PROVE  a \in older \/ <<p, a>> \in seen[r] \/ a \in work'.found[r]
    BY DEF PollInv, Absorbed, Walks
  <2>1. CASE <<p, a>> \in work.snapshot[r]
    <3>1. a \in older \/ <<p, a>> \in seen[r] \/ a \in work.found[r]
      BY <2>1 DEF PollInv, Absorbed
    <3> QED BY <1>3, <1>9, <3>1
  <2>2. CASE r = r0 /\ p \in Judged(r0) /\ a = artifactAt[p]
    BY <1>3, <2>2 DEF Suppressed
  <2> QED BY <1>6, <2>1, <2>2
<1>20. StaysKnown'
  BY <1>1, <1>7 DEF PollInv, StaysKnown, Walks
<1>21. FoundIsNew'
  <2> SUFFICES ASSUME NEW r \in Roots, NEW a \in Artifacts, a \in work'.found[r]
               PROVE  /\ reported[r][a] = 0 /\ r \notin work'.root /\ r \notin work'.todo
                      /\ \A p \in PolledPaths : artifactAt[p] = a => <<p, a>> \in work'.snapshot[r]
    BY DEF FoundIsNew, Walks
  <2>1. CASE r # r0 /\ a \in work.found[r]
    BY <1>1, <1>7, <2>1 DEF PollInv, FoundIsNew
  <2>2. ASSUME r = r0, NEW q \in Judged(r0), a = artifactAt[q]
        PROVE  /\ reported[r][a] = 0 /\ r \notin work'.root /\ r \notin work'.todo
               /\ \A p \in PolledPaths : artifactAt[p] = a => <<p, a>> \in work'.snapshot[r]
    <3>1. reported[r0][a] # 1
      BY <1>2, <1>5, <1>11, <2>2 DEF PollInv, StaysKnown
    <3>2. reported[r0][a] = 0
      BY <1>2, <3>1 DEF PollInv, RecordsTyped
    <3>3. \A p \in PolledPaths : artifactAt[p] = a => p = q
      BY <1>5, <2>2 DEF PollInv, WorldIsRight
    <3> QED BY <1>1, <1>2, <1>8, <2>2, <3>2, <3>3
  <2> QED BY <1>10, <2>1, <2>2
<1>22. GlobsDeclared'
  BY DEF PollInv, GlobsDeclared, Walks
<1>23. SeedCovers'
  BY DEF SeedCovers, Walks
<1>24. PollCovers'
  <2> SUFFICES ASSUME NEW r \in Roots, NEW p \in PolledPaths, IsUnseen(r, p)',
                      pass' = "seed" => pc' = "idle"
               PROVE  hookFailures' = 1 /\ DiscoveredAll(r)' /\ InDoubtAll(r, p)'
                 /\ WalkFinds(r, p)'
    BY DEF PollCovers, Walks
  <2>1. IsUnseen(r, p)
    BY DEF IsUnseen, IsOld, Walks
  <2>2. hookFailures = 1 /\ DiscoveredAll(r) /\ InDoubtAll(r, p) /\ WalkFinds(r, p)
    BY <2>1 DEF PollInv, PollCovers, Walks
  <2>3. DiscoveredAll(r)' /\ InDoubtAll(r, p)'
    BY <1>1, <2>2 DEF Walks, DiscoveredAll, InDoubtAll
  <2>4. ASSUME r = r0, NEW l \in Finders(r, p), <<p, l>> \in work.matched
        PROVE  <<p, artifactAt[p]>> \in work'.snapshot[r]
    <3>1. GlobsOf(p) # {}
      BY <2>4 DEF GlobsOf, Finders, Declarers
    <3>2. artifactAt[p] # NoArtifact
      BY <2>1, WalkIsOfArtifacts DEF IsUnseen
    <3> QED BY <1>7, <1>8, <2>4, <3>1, <3>2 DEF Judged, Now
  <2>5. WalkFinds(r, p)'
    BY <1>1, <1>2, <1>7, <2>2, <2>4 DEF WalkFinds, Walks
  <2> QED BY <2>2, <2>3, <2>5
<1>25. OldIsSilent'
  <2> SUFFICES ASSUME hookFailures <= 1, NEW r \in Declared, NEW a \in older
               PROVE  reported[r][a] = 0 /\ a \notin work'.found[r]
    BY DEF OldIsSilent, Walks
  <2>1. reported[r][a] = 0 /\ a \notin work.found[r] /\ r \in Roots
    BY DEF PollInv, OldIsSilent, Declared
  <2>2. ASSUME r = r0, NEW q \in Judged(r0), a = artifactAt[q] PROVE Suppressed(r0, q)
    <3>1. \A l \in Owners : l \in disc.globs[r0] => l \in Declarers(r0)
      BY <2>2 DEF PollInv, GlobsDeclared, Walks
    <3>2. IsOld(r0, q)
      BY <1>5, <2>2, <3>1 DEF IsOld, Finders
    <3>3. IsUnseen(r0, q)
      BY <1>11, <3>2 DEF IsUnseen
    <3>4. InDoubtAll(r0, q)
      BY <1>2, <1>5, <3>3 DEF PollInv, PollCovers, Walks
    <3>5. GlobsOf(q) \subseteq Finders(r0, q)
      BY <1>5, <3>1 DEF PollInv, WalkIsRight, GlobsOf, Finders
    <3> QED BY <2>2, <3>4, <3>5 DEF InDoubtAll, InDoubt, Suppressed
  <2>3. a \in Artifacts
    BY DEF PollInv, WorldIsRight, Artifacts, PollingAssumption
  <2> QED BY <1>10, <2>1, <2>2, <2>3
<1> QED BY <1>12, <1>13, <1>14, <1>15, <1>16, <1>17, <1>18, <1>19, <1>20, <1>21, <1>22, <1>23,
<1>24, <1>25 DEF PollInv

LEMMA EndRootKeeps ==
  ASSUME PollingAssumption, PollInv, EndRoot
  PROVE  PollInv'
<1>1. PICK r0 \in work.root :
        work' = IF pass = "seed" THEN [work EXCEPT !.root = {}]
                ELSE [work EXCEPT !.root = {}, !.snapshot[r0] = @ \cup {Now(p) : p \in Judged(r0)},
                        !.found[r0] = {artifactAt[p] : p \in {q \in Judged(r0) : ~Suppressed(r0, q)}}]
  BY DEF EndRoot, Judged
<1>2. work.left = {} /\ UNCHANGED hookFailures
  BY DEF EndRoot
<1>3. work \in Works /\ r0 \in Roots /\ pass \in {"seed", "poll"}
  BY DEF PollInv, WalkTyped, Works
<1>4. work' \in Works
  <2>1. CASE pass = "seed"
    BY <1>1, <1>3, <2>1 DEF Works
  <2>2. CASE pass = "poll"
    <3>1. \A p \in Judged(r0) : p \in PolledPaths /\ artifactAt[p] \in Artifacts
      BY DEF Judged, PollInv, WorldIsRight, Artifacts, NoArtifact, PollingAssumption
    <3>2. {Now(p) : p \in Judged(r0)} \subseteq PolledPaths \X Artifacts
      BY <3>1 DEF Now
    <3>3. {artifactAt[p] : p \in {q \in Judged(r0) : ~Suppressed(r0, q)}} \subseteq Artifacts
      BY <3>1
    <3> QED BY <1>1, <1>3, <2>2, <3>2, <3>3 DEF Works
  <2> QED BY <1>3, <2>1, <2>2
<1>5. Walks
  BY <1>4 DEF EndRoot, Walks, world, records
<1>6. CASE pass = "seed"
  BY <1>1, <1>2, <1>5, <1>6, EndSeedRootKeeps
<1>7. CASE pass = "poll"
  <2>1. work' = [work EXCEPT !.root = {}, !.snapshot[r0] = @ \cup {Now(p) : p \in Judged(r0)},
                   !.found[r0] = {artifactAt[p] : p \in {q \in Judged(r0) : ~Suppressed(r0, q)}}]
    BY <1>1, <1>7
  <2> QED BY <1>2, <1>5, <1>7, <2>1, EndPollRootKeeps
<1> QED BY <1>3, <1>6, <1>7

LEMMA SeededKeeps == ASSUME PollingAssumption, PollInv, Seeded PROVE PollInv'
<1>1. /\ pc = "walk" /\ work.todo = {} /\ work.root = {} /\ pass = "seed"
  BY DEF Seeded, WalkedAll
<1>2. /\ pc' = "idle" /\ work' = NoWork /\ disc' = NoDisc
      /\ UNCHANGED <<artifactAt, artifactsMade, older, exists, hookFailures, pass, unseeded,
                  exclusions, pendingGlobs, reported>>
  BY DEF Seeded, world
<1>3. NoWork \in Works /\ NoDisc \in Discoveries
  BY DEF NoWork, NoDisc, NoneOfAny, Works, Discoveries
<1>4. pc' \in {"watched", "discover", "judge", "walk", "idle"}
  BY <1>2
<1>5. /\ discovered = {} /\ succeeded = {} /\ seedIncomplete = {}
      /\ \A r \in Roots : /\ seen[r] = {} /\ knownPlugins[r] = {} /\ pendingGlobs[r] = {}
                          /\ \A a \in Artifacts : reported[r][a] = 0
  BY <1>1 DEF PollInv, SeedIsFirst
<1>6. /\ discovered' = disc.dirs /\ succeeded' = disc.succeeded /\ seedIncomplete' = work.incomplete
      /\ \A r \in Roots : seen'[r] = work.snapshot[r] /\ knownPlugins'[r] = disc.owning[r]
  BY <1>5 DEF Seeded
<1>7. \A r \in Roots : work'.snapshot[r] = {} /\ work'.found[r] = {}
  BY <1>2 DEF NoWork, NoneOfAny
<1>8. WalkTyped'
  BY <1>2, <1>3, <1>4 DEF PollInv, WalkTyped
<1>9. RecordsTyped'
  <2>1. work \in Works /\ disc \in Discoveries
    BY DEF PollInv, WalkTyped
  <2>2. seen' \in [Roots -> SUBSET (PolledPaths \X Artifacts)]
        /\ knownPlugins' \in [Roots -> SUBSET Owners]
    BY <2>1 DEF Seeded, PollInv, RecordsTyped, Works, Discoveries
  <2> QED BY <1>2, <1>6, <2>1, <2>2 DEF PollInv, RecordsTyped, Works, Discoveries
<1>10. WorldIsRight'
  BY <1>2 DEF PollInv, WorldIsRight
<1>11. Numbered'
  BY <1>2, <1>6, <1>7 DEF PollInv, Numbered
<1>12. Rooted'
  <2>1. ASSUME NEW r \in Roots, NEW p \in PolledPaths, NEW a \in Artifacts,
               <<p, a>> \in work.snapshot[r]
        PROVE  r \in Under[p] /\ Listable(r)'
    BY <1>2, <2>1 DEF PollInv, Rooted, Listable
  <2>2. disc'.dirs = {}
    BY <1>2 DEF NoDisc
  <2> QED BY <1>6, <1>7, <2>1, <2>2 DEF Rooted
<1>13. WalkIsRight'
  BY <1>2 DEF WalkIsRight, NoWork
<1>14. SeedIsFirst'
  BY <1>2, <1>5 DEF SeedIsFirst
<1>15. Absorbed'
  BY <1>1, <1>2, <1>6, <1>7 DEF PollInv, Absorbed
<1>16. StaysKnown'
  <2>1. \A p \in PolledPaths : artifactAt[p] # NoArtifact => artifactAt[p] \in Artifacts
    BY DEF PollInv, WorldIsRight, Artifacts, NoArtifact, PollingAssumption
  <2> QED BY <1>1, <1>2, <1>5, <2>1 DEF StaysKnown
<1>17. FoundIsNew'
  BY <1>7 DEF FoundIsNew
<1>18. GlobsDeclared'
  BY <1>2 DEF PollInv, GlobsDeclared
<1>19. SeedCovers'
  BY <1>2 DEF SeedCovers
<1>20. PollCovers'
  <2> SUFFICES ASSUME NEW r \in Roots, NEW p \in PolledPaths, IsUnseen(r, p)'
               PROVE  hookFailures = 1 /\ Missed(r, p)'
    BY <1>2 DEF PollCovers
  <2>1. hookFailures \in Nat /\ hookFailures <= 1 /\ IsOld(r, p)
        /\ <<p, artifactAt[p]>> \notin work.snapshot[r]
    BY <1>2, <1>6 DEF IsUnseen, IsOld, PollInv, WorldIsRight
  <2>2. /\ disc.owning[r] = Declarers(r) \cap disc.succeeded
        /\ disc.succeeded # Owners => hookFailures >= 1
        /\ r \in disc.dirs => \A l \in MatchedBy[p] \cap disc.globs[r] :
                                r \in work.incomplete /\ hookFailures >= 1
    BY <1>1, <2>1 DEF PollInv, SeedCovers
  <2>3. /\ r \in Declared /\ Finders(r, p) # {} /\ Finders(r, p) \subseteq Declarers(r)
        /\ Declarers(r) \subseteq Owners
    BY <2>1 DEF IsOld, Finders, Declarers
  <2>4. disc.owning[r] # {} => r \in disc.dirs /\ disc.globs[r] = disc.owning[r]
    BY <1>1, <2>3 DEF PollInv, GlobsDeclared
  <2>5. pendingGlobs'[r] = {} /\ knownPlugins'[r] = disc.owning[r]
    BY <1>2, <1>5, <1>6
  <2>6. CASE r \notin disc.dirs
    <3>1. Declarers(r) \cap disc.succeeded = {} /\ disc.succeeded # Owners
      BY <2>2, <2>3, <2>4, <2>6
    <3> QED BY <1>6, <2>1, <2>2, <2>6, <3>1 DEF Missed, Declarers
  <2>7. ASSUME r \in disc.dirs, NEW l \in MatchedBy[p] \cap disc.globs[r]
        PROVE  hookFailures = 1 /\ Missed(r, p)'
    BY <1>6, <2>1, <2>2, <2>7 DEF Missed
  <2>8. CASE r \in disc.dirs /\ MatchedBy[p] \cap disc.globs[r] = {}
    <3>1. Finders(r, p) \cap disc.owning[r] = {}
      BY <2>4, <2>8 DEF Finders
    <3>2. disc.succeeded # Owners
      BY <2>2, <2>3, <3>1
    <3>3. (Finders(r, p) \cap knownPlugins[r])' = {}
      BY <2>5, <3>1 DEF Finders, Declarers
    <3> QED BY <1>6, <2>1, <2>2, <2>8, <3>2, <3>3 DEF Missed
  <2> QED BY <2>6, <2>7, <2>8
<1>21. OldIsSilent'
  <2>1. \A r \in Declared : r \in Roots
    BY DEF Declared
  <2> QED BY <1>2, <1>7, <2>1 DEF PollInv, OldIsSilent
<1> QED BY <1>8, <1>9, <1>10, <1>11, <1>12, <1>13, <1>14, <1>15, <1>16, <1>17, <1>18, <1>19, <1>20,
<1>21 DEF PollInv

LEMMA PolledKeeps == ASSUME PollingAssumption, PollInv, Polled PROVE PollInv'
<1>1. /\ pc = "walk" /\ work.todo = {} /\ work.root = {} /\ pass = "poll"
  BY DEF Polled, WalkedAll
<1>2. /\ pc' = "idle" /\ work' = NoWork /\ disc' = NoDisc /\ unseeded' = NotUnseeded
      /\ UNCHANGED <<artifactAt, artifactsMade, older, exists, hookFailures, pass, exclusions,
                  discovered, succeeded, knownPlugins>>
  BY DEF Polled, world
<1>3. NoWork \in Works /\ NoDisc \in Discoveries
  BY DEF NoWork, NoDisc, NoneOfAny, Works, Discoveries
<1>4. /\ pc' \in {"watched", "discover", "judge", "walk", "idle"}
      /\ NotUnseeded \in [roots : SUBSET Roots, globs : [Roots -> SUBSET Owners]]
  BY <1>2 DEF NotUnseeded, NoneOfAny
<1>5. \A r \in Roots : seen'[r] = work.snapshot[r] \cup (IF Kept(r) THEN seen[r] ELSE {})
  BY DEF Polled
<1>6. \A r \in Roots, a \in Artifacts :
         /\ reported'[r][a] = reported[r][a] + (IF a \in work.found[r] THEN 1 ELSE 0)
         /\ reported[r][a] \in {0, 1} /\ (a \in work.found[r] => reported[r][a] = 0)
  BY DEF Polled, PollInv, RecordsTyped, FoundIsNew
<1>7. \A r \in Roots : work'.snapshot[r] = {} /\ work'.found[r] = {}
  BY <1>2 DEF NoWork, NoneOfAny
<1>8. /\ \A r \in Roots, a \in Artifacts :
           reported'[r][a] = 1 <=> reported[r][a] = 1 \/ a \in work.found[r]
      /\ \A r \in Roots, a \in Artifacts : reported'[r][a] \in {0, 1}
  BY <1>6
<1>9. \A r \in Roots, p \in PolledPaths :
         <<p, artifactAt[p]>> \in seen[r] \/ <<p, artifactAt[p]>> \in work.snapshot[r] =>
            <<p, artifactAt[p]>> \in seen'[r]
  BY <1>1, <1>5 DEF PollInv, StaysKnown, Kept
<1>10. WalkTyped'
  BY <1>2, <1>3, <1>4 DEF PollInv, WalkTyped
<1>11. RecordsTyped'
  <2>1. work \in Works /\ disc \in Discoveries
    BY DEF PollInv, WalkTyped
  <2>2. seen' \in [Roots -> SUBSET (PolledPaths \X Artifacts)]
    BY <2>1 DEF Polled, PollInv, RecordsTyped, Works
  <2>3. seedIncomplete' \subseteq Roots /\ pendingGlobs' \in [Roots -> SUBSET Owners]
    BY DEF Polled, PollInv, RecordsTyped
  <2>4. reported' \in [Roots -> [Artifacts -> {0, 1}]]
    <3>1. reported' = [r \in Roots |-> [a \in Artifacts |->
                         reported[r][a] + IF a \in work.found[r] THEN 1 ELSE 0]]
      BY DEF Polled
    <3>2. \A r \in Roots, a \in Artifacts :
             (reported[r][a] + IF a \in work.found[r] THEN 1 ELSE 0) \in {0, 1}
      BY <1>6
    <3> QED BY <3>1, <3>2
  <2> QED BY <1>2, <2>2, <2>3, <2>4 DEF PollInv, RecordsTyped
<1>12. WorldIsRight'
  BY <1>2 DEF PollInv, WorldIsRight
<1>13. Numbered'
  BY <1>2, <1>5, <1>7, <1>8 DEF PollInv, Numbered
<1>14. Rooted'
  <2>1. ASSUME NEW r \in Roots, NEW p \in PolledPaths, NEW a \in Artifacts,
               <<p, a>> \in work.snapshot[r] \/ <<p, a>> \in seen[r]
        PROVE  r \in Under[p] /\ Listable(r)'
    BY <1>2, <2>1 DEF PollInv, Rooted, Listable
  <2>2. disc'.dirs = {}
    BY <1>2 DEF NoDisc
  <2> QED BY <1>5, <1>7, <2>1, <2>2 DEF Rooted
<1>15. WalkIsRight'
  BY <1>2 DEF WalkIsRight, NoWork
<1>16. SeedIsFirst'
  BY <1>1, <1>2 DEF SeedIsFirst
<1>17. Absorbed'
  BY <1>1, <1>2, <1>5, <1>7, <1>8 DEF PollInv, Absorbed
<1>18. StaysKnown'
  <2>1. \A p \in PolledPaths : artifactAt[p] # NoArtifact => artifactAt[p] \in Artifacts
    BY DEF PollInv, WorldIsRight, Artifacts, NoArtifact, PollingAssumption
  <2>2. ASSUME NEW r \in Roots, NEW p \in PolledPaths, artifactAt[p] # NoArtifact,
               reported'[r][artifactAt[p]] = 1
        PROVE  <<p, artifactAt[p]>> \in seen'[r]
    <3>1. CASE reported[r][artifactAt[p]] = 1
      BY <1>9, <2>2, <3>1 DEF PollInv, StaysKnown
    <3>2. CASE artifactAt[p] \in work.found[r]
      BY <1>9, <2>1, <2>2, <3>2 DEF PollInv, FoundIsNew
    <3> QED BY <1>8, <2>1, <2>2, <3>1, <3>2
  <2>3. work'.root = {}
    BY <1>2 DEF NoWork
  <2> QED BY <1>2, <2>2, <2>3 DEF StaysKnown
<1>19. FoundIsNew'
  BY <1>7 DEF FoundIsNew
<1>20. GlobsDeclared'
  BY <1>2 DEF PollInv, GlobsDeclared
<1>21. SeedCovers'
  BY <1>2 DEF SeedCovers
<1>22. PollCovers'
  <2> SUFFICES ASSUME NEW r \in Roots, NEW p \in PolledPaths, IsUnseen(r, p)' PROVE FALSE
    BY DEF PollCovers
  <2>1. IsUnseen(r, p) /\ <<p, artifactAt[p]>> \notin work.snapshot[r]
    BY <1>2, <1>9 DEF IsUnseen, IsOld
  <2>2. WalkFinds(r, p) /\ Finders(r, p) # {}
    BY <1>1, <2>1 DEF PollInv, PollCovers, IsUnseen, IsOld
  <2> QED BY <1>1, <2>1, <2>2 DEF WalkFinds
<1>23. OldIsSilent'
  <2>1. \A r \in Declared : r \in Roots
    BY DEF Declared
  <2>2. older \subseteq Artifacts
    BY DEF PollInv, WorldIsRight, Artifacts, PollingAssumption
  <2>3. ASSUME hookFailures <= 1, NEW r \in Declared, NEW a \in older PROVE reported'[r][a] = 0
    <3>1. reported[r][a] = 0 /\ a \notin work.found[r]
      BY <2>3 DEF PollInv, OldIsSilent
    <3> QED BY <1>6, <2>1, <2>2, <3>1
  <2> QED BY <1>2, <1>7, <2>1, <2>3 DEF OldIsSilent
<1> QED BY <1>10, <1>11, <1>12, <1>13, <1>14, <1>15, <1>16, <1>17, <1>18, <1>19, <1>20, <1>21,
<1>22, <1>23 DEF PollInv

LEMMA PollInvStarts == ASSUME PollingAssumption, PollingInit PROVE PollInv
<1>1. PICK before \in SUBSET PolledPaths :
        /\ Cardinality(before) <= MaxArtifacts
        /\ \E ids \in [before -> Artifacts] :
             /\ IsInjective(ids) /\ \A p \in before : ids[p] <= Cardinality(before)
             /\ artifactAt = [p \in PolledPaths |-> IF p \in before THEN ids[p] ELSE NoArtifact]
        /\ artifactsMade = Cardinality(before) /\ older = 1 .. Cardinality(before)
        /\ exists \in {e \in SUBSET Roots : UNION {Under[p] : p \in before} \subseteq e}
  BY DEF PollingInit
<1>2. PICK ids \in [before -> Artifacts] :
        /\ IsInjective(ids) /\ \A p \in before : ids[p] <= Cardinality(before)
        /\ artifactAt = [p \in PolledPaths |-> IF p \in before THEN ids[p] ELSE NoArtifact]
  BY <1>1
<1>3. Cardinality(before) \in Nat /\ MaxArtifacts \in Nat
  BY FS_Subset, FS_CardinalityType DEF PollingAssumption
<1>4. /\ hookFailures = 0 /\ pc = "watched" /\ pass = "seed"
      /\ disc = NoDisc /\ unseeded = NotUnseeded /\ work = NoWork
      /\ exclusions = NoneOfAny /\ seen = NoneOfAny /\ discovered = {} /\ succeeded = {}
      /\ seedIncomplete = {} /\ knownPlugins = NoneOfAny /\ pendingGlobs = NoneOfAny
      /\ reported = [r \in Roots |-> [a \in Artifacts |-> 0]]
  BY DEF PollingInit
<1>5. /\ NoWork \in Works /\ NoDisc \in Discoveries /\ NoDisc.dirs = {}
      /\ NotUnseeded \in [roots : SUBSET Roots, globs : [Roots -> SUBSET Owners]]
      /\ NoneOfAny \in [Roots -> SUBSET Owners]
      /\ NoneOfAny \in [Roots -> SUBSET (PolledPaths \X Artifacts)]
  BY DEF NoWork, NoDisc, NotUnseeded, NoneOfAny, Works, Discoveries
<1>6. \A r \in Roots : /\ work.snapshot[r] = {} /\ work.found[r] = {} /\ exclusions[r] = {}
      /\ seen[r] = {}
                       /\ knownPlugins[r] = {} /\ pendingGlobs[r] = {}
                       /\ \A a \in Artifacts : reported[r][a] = 0
  BY <1>4 DEF NoWork, NoneOfAny
<1>7. WalkTyped
  BY <1>4, <1>5 DEF WalkTyped
<1>8. RecordsTyped
  BY <1>4, <1>5 DEF RecordsTyped
<1>9. WorldIsRight
  <2>1. \A p \in PolledPaths : artifactAt[p] = IF p \in before THEN ids[p] ELSE NoArtifact
    BY <1>2
  <2>2. \A p \in before : ids[p] \in 1 .. Cardinality(before)
    BY <1>2, <1>3 DEF Artifacts
  <2>3. artifactAt \in [PolledPaths -> 0 .. artifactsMade]
    BY <1>1, <1>2, <1>3, <2>2 DEF NoArtifact
  <2>4. artifactsMade \in 0 .. MaxArtifacts /\ older \subseteq 1 .. artifactsMade
        /\ exists \subseteq Roots
    BY <1>1, <1>3
  <2>5. \A p, q \in before : ids[p] = ids[q] => p = q
    BY <1>2 DEF IsInjective
  <2>6. \A p, q \in PolledPaths : artifactAt[p] = artifactAt[q]
        /\ artifactAt[p] # NoArtifact => p = q
    BY <2>1, <2>5
  <2>7. \A p \in PolledPaths : artifactAt[p] # NoArtifact => Under[p] \subseteq exists
    BY <1>1, <2>1
  <2> QED BY <1>4, <2>3, <2>4, <2>6, <2>7 DEF WorldIsRight
<1>10. Numbered
  BY <1>6 DEF Numbered
<1>11. Rooted
  BY <1>4, <1>5, <1>6 DEF Rooted
<1>12. WalkIsRight
  BY <1>4 DEF WalkIsRight, NoWork
<1>13. SeedIsFirst
  BY <1>4, <1>6 DEF SeedIsFirst
<1>14. Absorbed
  BY <1>6 DEF Absorbed
<1>15. StaysKnown
  <2>1. \A p \in PolledPaths : artifactAt[p] # NoArtifact => artifactAt[p] \in Artifacts
    BY <1>3, <1>9 DEF WorldIsRight, Artifacts, NoArtifact
  <2> QED BY <1>4, <1>6, <2>1 DEF StaysKnown
<1>16. FoundIsNew
  BY <1>6 DEF FoundIsNew
<1>17. GlobsDeclared
  BY <1>4, <1>6 DEF GlobsDeclared, Declared
<1>18. SeedCovers /\ PollCovers
  BY <1>4 DEF SeedCovers, PollCovers
<1>19. OldIsSilent
  BY <1>1, <1>3, <1>6 DEF OldIsSilent, Declared, Artifacts
<1> QED BY <1>7, <1>8, <1>9, <1>10, <1>11, <1>12, <1>13, <1>14, <1>15, <1>16, <1>17, <1>18,
<1>19 DEF PollInv

LEMMA PollInvNext ==
  ASSUME PollingAssumption, PollInv, [PollingNext]_pollingVars
  PROVE  PollInv'
<1>1. ASSUME NEW p \in PolledPaths, Install(p) PROVE PollInv'
  BY <1>1, InstallKeeps
<1>2. ASSUME NEW r \in Roots, CleanRoot(r) PROVE PollInv'
  BY <1>2, CleanRootKeeps
<1>3. CASE DiscoverWatched
  BY <1>3, DiscoverWatchedKeeps
<1>4. CASE Discover
  BY <1>4, DiscoverKeeps
<1>5. CASE Judge
  BY <1>5, JudgeKeeps
<1>6. CASE StartRoot
  BY <1>6, StartRootKeeps
<1>7. CASE Glob
  BY <1>7, GlobKeeps
<1>8. CASE EndRoot
  BY <1>8, EndRootKeeps
<1>9. CASE Seeded
  BY <1>9, SeededKeeps
<1>10. CASE Polled
  BY <1>10, PolledKeeps
<1>11. CASE MaintainPolled
  BY <1>11, MaintainPolledKeeps
<1>12. CASE UNCHANGED pollingVars
  <2>1. UNCHANGED <<artifactAt, artifactsMade, older, exists, hookFailures, pc, pass, disc, unseeded, work,
                    exclusions, seen, discovered, succeeded, seedIncomplete, knownPlugins, pendingGlobs,
                    reported>>
    BY <1>12 DEF pollingVars, world, records
  <2>2. WorldIsRight'
    BY <2>1 DEF PollInv, WorldIsRight
  <2>3. Survives
    BY <2>1 DEF Survives, PollInv, WorldIsRight
  <2> QED BY <2>2, <2>3, WorldMoves
<1> QED BY <1>1, <1>2, <1>3, <1>4, <1>5, <1>6, <1>7, <1>8, <1>9, <1>10, <1>11, <1>12 DEF PollingNext

LEMMA PollInvIsEnough == ASSUME PollingAssumption, PollInv PROVE PolledOnce
<1>1. NothingNewIsAbsorbed
  <2> SUFFICES ASSUME NEW r \in Roots, NEW e \in seen[r], e[2] \notin older
               PROVE  reported[r][e[2]] > 0
    BY DEF NothingNewIsAbsorbed
  <2>1. e \in PolledPaths \X Artifacts
    BY DEF PollInv, RecordsTyped
  <2>2. PICK p \in PolledPaths, a \in Artifacts : e = <<p, a>>
    BY <2>1
  <2>3. reported[r][a] = 1 /\ e[2] = a
    BY <2>2 DEF PollInv, Absorbed
  <2> QED BY <2>3
<1>2. ReportedOnce
  <2> SUFFICES ASSUME NEW r \in Roots, NEW a \in Artifacts PROVE reported[r][a] <= 1
    BY DEF ReportedOnce
  <2>1. reported[r][a] \in {0, 1}
    BY DEF PollInv, RecordsTyped
  <2> QED BY <2>1
<1>3. OldIsNotReplayed
  BY DEF PollInv, OldIsSilent, OldIsNotReplayed
<1> QED BY <1>1, <1>2, <1>3 DEF PolledOnce

(* Whatever the plugins' roots and globs are, however they are nested or   *)
(* shared, and whatever raises and recovers: what _poll_cache_dirs takes   *)
(* into a root's baseline is old or has been reported from there; one      *)
(* artifact is reported once; and while no more than one hook or glob has  *)
(* raised since _seed_poll_only_baseline was called, nothing that was in a *)
(* declared root before the daemon started is reported.                    *)
THEOREM PolledArtifactsAreReportedOnce ==
  ASSUME PollingAssumption PROVE PollingSpec => []PolledOnce
<1>1. PollingInit => PollInv
  BY PollInvStarts
<1>2. PollInv /\ [PollingNext]_pollingVars => PollInv'
  BY PollInvNext
<1>3. PollInv => PolledOnce
  BY PollInvIsEnough
<1> QED BY <1>1, <1>2, <1>3, PTL DEF PollingSpec
=============================================================================
