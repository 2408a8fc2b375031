---- MODULE SandboxMounts ----
(* What a sandboxed command sees of the file system: how                    *)
(* SandboxRunner._assemble_sandbox and run_captured settle what may be      *)
(* written, how bwrap.build_cmd turns that into an ordered list of mounts,  *)
(* and how isolation.populate_home imitates it without a mount namespace.   *)
(* A path is a sequence of names.  A run is a record, see RunOK.  Left out   *)
(* are the mounts that show nothing of the host's directories, or a single   *)
(* file of them: /dev, /proc, the temporary file systems of extra_tmpfs and  *)
(* post_ro_tmpfs, and the files that write_files binds in place.             *)
EXTENDS Naturals, Sequences, SequencesExt, FiniteSetsExt, FiniteSets

CONSTANTS
  Dirs,         \* every real directory or file, as a resolved path
  Home,         \* Path.home()
  ScratchRoot,  \* SCRATCH_ROOT
  Tmp,          \* the temporary directory, under which snapshots lie
  Credentials,  \* credential_dirs()
  DotGit,       \* of a checkout, its .git: where it is, whether that is a file, the git
                \* directory a file names, and the common directory that one names
  Bare          \* the directories git would take for a bare repository

Within(p, r) == IsPrefix(r, p)
Below(p, r) == SubSeq(p, Len(r) + 1, Len(p))
Overlap(p, q) == Within(p, q) \/ Within(q, p)

(* Path.resolve(strict=False): links are absolute and lead to real places. *)
RECURSIVE Resolve(_, _)
Resolve(run, p) ==
  LET at == {k \in 1..Len(p) : SubSeq(p, 1, k) \in DOMAIN run.links}
      k == Min(at)
  IN  IF at = {} THEN p
      ELSE Resolve(run, run.links[SubSeq(p, 1, k)] \o SubSeq(p, k + 1, Len(p)))
Exists(run, p) == Resolve(run, p) \in Dirs

----
(* Which paths may be bound. *)

IsSafeSandboxPath(run, p, roots) ==
  LET real == Resolve(run, p)
  IN  /\ \A c \in Credentials : ~Overlap(real, c)
      /\ \E r \in roots : Within(real, Resolve(run, r))

IsSafeWritableBindDest(run, dest) ==
  LET real == Resolve(run, dest)
  IN  /\ Within(real, Home) /\ real # Home
      /\ Within(dest, Home)
      /\ \A c \in Credentials : ~Overlap(real, Resolve(run, c))
      /\ ~Overlap(real, Resolve(run, run.cwd))

IntroducedByMove(run, p) ==
  LET real == Resolve(run, p)
  IN  /\ run.project # run.cwd
      /\ ~Within(real, Resolve(run, run.cwd))
      /\ Within(p, run.project) \/ Within(real, run.project)

(* _resolve_targets(): the project's own write directories. *)
Targets(run) ==
  SelectSeq(run.targets, LAMBDA p : /\ ~IntroducedByMove(run, p)
                                    /\ IsSafeSandboxPath(run, p, {run.cwd, Home}))

(* What prepare_sandbox_env() adds. *)
ExtraWrites(run) == SelectSeq(run.extra, LAMBDA p : ~IntroducedByMove(run, p))

(* sandbox_extra_write_paths(): the editable and local sources. *)
Sources(run) ==
  LET safe == SelectSeq(run.sources, LAMBDA p : IsSafeSandboxPath(run, p, run.roots))
  IN  [k \in DOMAIN safe |-> Resolve(run, safe[k])]

(* git_dirs(): what must stay read-only of the repository whose checkout is d. *)
GitDirs(d) ==
  LET git == DotGit[d]
  IN  {git.at} \union (IF git.file /\ git.dir \in Dirs THEN {git.dir} \union ({git.common} \intersect Dirs) ELSE {})

(* os.walk descends neither into a .git nor into a bare repository. *)
Walked(p) ==
  LET closed == Bare \union {DotGit[d].at : d \in DOMAIN DotGit}
  IN  {d \in Dirs : Within(d, p) /\ ~\E c \in closed : Within(c, p) /\ Within(d, c) /\ d # c}
CheckoutGitDirs(p) ==
  UNION {GitDirs(d) : d \in Walked(p) \intersect DOMAIN DotGit} \union (Walked(p) \intersect Bare)

SourcesCounted(run) == run.mode = "run" \/ run.inPlace

RunWriteDirs(run) == <<run.cwd>> \o Targets(run) \o ExtraWrites(run) \o Sources(run)

WriteDirs(run) ==
  CASE run.mode = "run" -> RunWriteDirs(run)
    [] run.mode = "readonly" -> <<>>
    [] run.mode = "scratch" ->
         <<run.cwd>> \o (IF run.inPlace THEN Sources(run) ELSE <<>>)

HomeRo(run) ==
  LET project == SelectSeq(<<run.cwd, run.project>>, LAMBDA p : \A k \in DOMAIN run.ro : run.ro[k] # p)
      readOnly == run.ro \o project
  IN  SelectSeq(IF run.mode = "run" THEN run.ro ELSE readOnly,
                LAMBDA p : run.mode # "readonly" => ~Within(p, run.cwd))

RoOverWrite(run) ==
  IF SourcesCounted(run)
  THEN run.keep \union UNION {CheckoutGitDirs(s) : s \in ToSet(Sources(run))}
  ELSE run.keep

WritableBinds(run) == SelectSeq(run.binds, LAMBDA b : IsSafeWritableBindDest(run, b.dst))

(* A captured command is refused rather than run with these. *)
Refused(run) ==
  /\ run.mode = "scratch"
  /\ \/ run.cwd = ScratchRoot \/ ~Within(run.cwd, ScratchRoot)
     \/ \E b \in ToSet(WritableBinds(run)) : Overlap(Resolve(run, b.dst), run.cwd)
     \/ /\ run.inPlace
        /\ \/ \E p \in ToSet(run.sources) : ~IsSafeSandboxPath(run, p, run.roots)
           \/ \E p \in ToSet(Sources(run)) : Overlap(p, run.cwd)

----
(* build_cmd(): the mounts in order.  "ro" and "rw" show src at dst, "empty" *)
(* a fresh tmpfs.                                                            *)

Mount(kind, src, dst) == [kind |-> kind, src |-> src, dst |-> dst]

HiddenDirs(run) == {Resolve(run, h) : h \in run.hidden} \intersect Dirs
InsideHidden(run, p) ==
  Exists(run, p) /\ \E h \in HiddenDirs(run) : Within(Resolve(run, p), h)
Covers(run, outer, inner) ==
  /\ Within(inner, outer)
  /\ Resolve(run, inner) = Resolve(run, outer) \o Below(inner, outer)

BoundWriteDirs(run) ==
  LET all == SelectSeq(WriteDirs(run), LAMBDA d : ~InsideHidden(run, d))
      exposed(i) == \E j \in DOMAIN all \ {i} :
                       Covers(run, all[j], all[i]) /\ (all[j] # all[i] \/ j < i)
      kept == SelectSeq([i \in DOMAIN all |-> i], LAMBDA i : ~exposed(i))
  IN  [k \in DOMAIN kept |-> all[kept[k]]]

\* Mutant: a mount whose source lies inside a protected path stays writable.
RoOnlyInside(run, paths, writable) ==
  {Mount("ro", Resolve(run, p), m.dst \o Below(Resolve(run, p), Resolve(run, m.src))) :
     <<p, m>> \in {pm \in paths \X writable : /\ Exists(run, pm[1])
                                              /\ Within(Resolve(run, pm[1]), Resolve(run, pm[2].src))}}

(* Every (source, name) at which a writable mount shows one of the paths. *)
RoOverWriteLocations(run, paths, writable) ==
  LET place(p, m) ==
        LET real == Resolve(run, p)  shown == Resolve(run, m.src)
        IN  IF ~Exists(run, p) THEN {}
            ELSE IF Within(real, shown) THEN {Mount("ro", real, m.dst \o Below(real, shown))}
            ELSE IF Within(shown, real) THEN {Mount("ro", shown, m.dst)} ELSE {}
  IN  UNION {place(p, m) : p \in paths, m \in writable}
\* Mutant: a hidden directory is hidden under its own name alone.
HideWhereTheyAre(run, bound) == HiddenDirs(run)

(* Every name under which the sandbox would show a hidden directory. *)
HideLocations(run, bound) ==
  LET names(h) == {h} \union {e \o Below(h, Resolve(run, e)) :
                                e \in {e \in bound : Exists(run, e) /\ Within(h, Resolve(run, e))}}
  IN  UNION {names(h) : h \in HiddenDirs(run)}
BindsMade(run) ==
  SelectSeq(WritableBinds(run),
            LAMBDA b : Exists(run, b.src) /\ b.dst \in Dirs /\ b.dst \notin DOMAIN run.links)

(* A writable bind whose destination is hidden stands at each of its names. *)
BoundBinds(run, hideAt) ==
  LET aliases(b) == {a \in hideAt : a # b.dst /\ Resolve(run, a) = Resolve(run, b.dst)}
  IN  UNION {{Mount("rw", Resolve(run, b.src), n) : n \in {b.dst} \union aliases(b)} :
               b \in ToSet(BindsMade(run))}

InAnyOrder(S) == FoldSet(LAMBDA x, seq : Append(seq, x), <<>>, S)

Mounts(run) ==
  LET ro == SelectSeq(HomeRo(run), LAMBDA p : ~InsideHidden(run, p) /\ Exists(run, p))
      writes == BoundWriteDirs(run)
      over == {p \in RoOverWrite(run) : ~InsideHidden(run, p)}
      hideAt == HideLocations(run, ToSet(HomeRo(run)) \union ToSet(writes))
      bound == BoundBinds(run, hideAt)
      written == {Mount("rw", d, d) : d \in ToSet(writes)}
  IN  <<Mount("ro", <<>>, <<>>), Mount("empty", <<>>, Tmp), Mount("empty", <<>>, Home)>>
      \o [k \in 1..Len(ro) |-> Mount("ro", Resolve(run, ro[k]), ro[k])]
      \o [k \in 1..Len(writes) |-> Mount("rw", Resolve(run, writes[k]), writes[k])]
      \o InAnyOrder(RoOverWriteLocations(run, over, written))
      \o InAnyOrder({Mount("empty", <<>>, a) : a \in hideAt})
      \o InAnyOrder(bound)
      \o InAnyOrder(RoOverWriteLocations(run, over, bound))

----
(* What the command then finds at a name: the last mount over it decides,   *)
(* and a link in the content shown is followed inside the sandbox.          *)

Covering(mounts, name) == Max({k \in DOMAIN mounts : Within(name, mounts[k].dst)})
RECURSIVE Look(_, _, _)
Look(run, mounts, name) ==
  LET m == mounts[Covering(mounts, name)]
      rest == Below(name, m.dst)
      at == {k \in 1..Len(rest) : m.src \o SubSeq(rest, 1, k) \in DOMAIN run.links}
      k == Min(at)
  IN  IF m.kind = "empty" THEN [kind |-> "empty", real |-> <<>>]
      ELSE IF at = {} THEN [kind |-> m.kind, real |-> m.src \o rest]
      ELSE Look(run, mounts, run.links[m.src \o SubSeq(rest, 1, k)] \o SubSeq(rest, k + 1, Len(rest)))

(* The names worth looking at: each place below each mount. *)
Names(run, mounts) ==
  UNION {{m.dst \o Below(d, m.src) : d \in {d \in Dirs \union DOMAIN run.links : Within(d, m.src)}} :
           m \in {x \in ToSet(mounts) : x.kind # "empty"}}
Found(run, mounts) ==
  {f \in {Look(run, mounts, n) : n \in Names(run, mounts)} : f.kind # "empty" /\ f.real \in Dirs}

----
(* populate_home(): the home a command gets where there are no mounts, as   *)
(* the set of (name, place its content is copied from).                     *)

\* Mutant: what is denied is compared by name, and links are not resolved.
CopiedByName(run, src, dst, denied, above) ==
  IF \E x \in denied : Within(src, x) THEN {}
  ELSE {<<dst \o Below(d, Resolve(run, src)), d>> : d \in {d \in Dirs : Within(d, Resolve(run, src))}}
RECURSIVE Copied(_, _, _, _, _)
Copied(run, src, dst, denied, above) ==
  LET real == Resolve(run, src)
      children == {d \in Dirs \union DOMAIN run.links : Len(d) = Len(real) + 1 /\ Within(d, real)}
  IN  IF real \notin Dirs \/ real \in above \/ \E x \in denied : Within(real, x) THEN {}
      ELSE {<<dst, real>>} \union
           UNION {Copied(run, c, dst \o Below(c, real), denied, above \union {real}) : c \in children}

ContainerRefuses(run, denied) ==
  \E e \in ToSet(HomeRo(run)) :
     /\ Exists(run, e)
     /\ ~\E x \in {run.cwd, run.project} : Overlap(Resolve(run, e), Resolve(run, x))
     /\ \E c \in denied : Overlap(Resolve(run, e), c)

Populated(run) ==
  LET denied == {Resolve(run, c) : c \in Credentials}
      hiding == {Resolve(run, h) : h \in run.hidden}
      entries == {e \in ToSet(HomeRo(run)) :
                    /\ Exists(run, e) /\ Within(e, Home) /\ e # Home
                    /\ ~\E x \in {run.cwd, run.project} : Overlap(Resolve(run, e), Resolve(run, x))
                    /\ ~\E h \in hiding : Within(Resolve(run, e), h)}
      places(b) == {b.dst} \union {h \in run.hidden : /\ Within(h, Home) /\ h # Home
                                                      /\ Resolve(run, h) = Resolve(run, b.dst)}
      copied == UNION {Copied(run, e, e, denied \union hiding, {}) : e \in entries}
      over == UNION {places(b) : b \in ToSet(WritableBinds(run))}
  IN  {c \in copied : ~\E n \in over : Within(c[1], n)}
      \union UNION {UNION {Copied(run, b.src, n, denied, {}) : n \in places(b)} :
                      b \in ToSet(WritableBinds(run))}

----
(* A run the program can be asked for. *)
RunOK(run) ==
  /\ ~Refused(run)
  /\ run.project = Resolve(run, run.project)
  /\ run.mode = "scratch" => run.cwd = Resolve(run, run.cwd)
  /\ \A k \in DOMAIN run.binds : Within(run.binds[k].src, Tmp)
  \* bwrap starts: no mount point passes through a link in what is mounted already
  /\ LET ms == Mounts(run)
         through(k) == LET m == ms[Max({j \in 1..(k - 1) : Within(ms[k].dst, ms[j].dst)})]
                           rest == Below(ms[k].dst, m.dst)
                       IN  /\ m.kind # "empty"
                           /\ \E i \in 1..Len(rest) : m.src \o SubSeq(rest, 1, i) \in DOMAIN run.links
     IN  \A k \in 4..Len(ms) : ~through(k)

(* At no name does a sandboxed command find anything of a hidden directory:  *)
(* not where it is, not below a link or an alias that was bound, not through *)
(* a directory bound writable.  What stands there is empty, or the snapshot  *)
(* a writable bind puts there, and then at every such name.                  *)
HiddenStaysHidden(run) ==
  LET ms == Mounts(run)
      shown == ToSet(HomeRo(run)) \union ToSet(BoundWriteDirs(run))
  IN  /\ \A f \in Found(run, ms), h \in HiddenDirs(run) : ~Within(f.real, h)
      /\ \A b \in ToSet(BindsMade(run)) : b.dst \in HiddenDirs(run) =>
            \A e \in shown : Exists(run, e) /\ Within(b.dst, Resolve(run, e)) =>
               Look(run, ms, e \o Below(b.dst, Resolve(run, e))).real = Resolve(run, b.src)

(* A repository of a source bound writable, and whatever a plugin keeps      *)
(* read-only, is written through no name, wherever the writable mounts show  *)
(* it: a worktree's git directory may lie in another writable directory.     *)
RepositoriesStayReadOnly(run) ==
  \A f \in Found(run, Mounts(run)), p \in RoOverWrite(run) :
     f.kind = "rw" /\ Exists(run, p) => ~Within(f.real, Resolve(run, p))

(* Options that move the project outside the working directory make nothing  *)
(* there writable, unless sandbox.editable_roots allows it; a read-only run  *)
(* writes only snapshots, and a scratch run only its copy and such sources.  *)
WritesStayInside(run) ==
  \A f \in {g \in Found(run, Mounts(run)) : g.kind = "rw"} :
     \/ Within(f.real, Tmp)
     \/ run.mode # "readonly" /\ Within(f.real, Resolve(run, run.cwd))
     \/ \E r \in run.roots : Within(f.real, Resolve(run, r))
     \/ run.mode = "run" /\ (run.project = run.cwd \/ ~Within(f.real, run.project))

(* Without mounts the command is given the same home: whatever bwrap would   *)
(* show of a home entry is at that name in the fresh home, copied from the   *)
(* same place; a snapshot stands at the names the tool uses; and nothing of  *)
(* a hidden or credential directory is copied.                               *)
ContainerShowsTheSame(run) ==
  LET ms == Mounts(run)
      fresh == Populated(run)
      denied == {Resolve(run, c) : c \in Credentials}
      apart(e) == ~\E x \in {run.cwd, run.project} : Overlap(Resolve(run, e), Resolve(run, x))
      names(e) == {n \in Names(run, ms) : Within(n, e) /\ Within(n, Home)}
  IN  run.mode # "run" /\ ~ContainerRefuses(run, denied) =>
      /\ \A c \in fresh, h \in HiddenDirs(run) \union denied : ~Within(c[2], h)
      /\ \A e \in {e \in ToSet(HomeRo(run)) : apart(e)} : \A n \in names(e) :
            LET f == Look(run, ms, n)
            IN  f.kind # "empty" /\ f.real \in Dirs /\ apart(f.real) /\ ~Within(f.real, Tmp)
                  => <<n, f.real>> \in fresh
      /\ \A b \in ToSet(BindsMade(run)) : \A h \in {h \in run.hidden : Resolve(run, h) = b.dst} :
            <<h, Resolve(run, b.src)>> \in fresh
====
