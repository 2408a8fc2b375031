-------------------------- MODULE SnapshotRestore --------------------------
(***************************************************************************)
(* The file-system snapshot of one install target and its restoration      *)
(* (sandbox/backends/filesystem.py): FileSystemBackend records the target  *)
(* before a sandboxed run, the run changes it in any way, and a refused    *)
(* run is undone from the record.                                          *)
(*                                                                         *)
(* Siblings do not influence each other, so the tree is one path: entry k  *)
(* lies in entry k - 1, and entry 1 in the root.  A node is [kind, value]: *)
(*   none                                                                  *)
(*   file   value = <<content, mode>>                                      *)
(*   big    over the size limit: value = its size and mtime                *)
(*   odd    a FIFO, socket or device: value = its stat                     *)
(*   link   value = <<target, what the target is>>                         *)
(*   dir    value = its rights: "rwx", "rx" (read-only), "wx" (unlistable) *)
(*                                                                         *)
(* Left out: entries that could not be stat'ed, read or readlink'ed while  *)
(* the snapshot was taken; directories without x; a change of a big file   *)
(* that keeps its size and mtime; the mode an impostor that could not be   *)
(* removed is given; what is written behind a link that could not be       *)
(* removed (it lies outside the tree).  The process is not root.           *)
(***************************************************************************)
EXTENDS Integers, Sequences, FiniteSets

CONSTANTS Depth,       \* length of the path
          FileContents,
          FileModes,
          Stamps,      \* size and mtime of a file whose content is not recorded
          LinkTargets, \* targets of links in the tree: <<name, what it is>>
          Rights       \* rights a directory can have

(* A name in the tree leads to one thing, and directories can be made.     *)
SnapshotAssumption ==
    /\ Depth \in Nat \ {0}
    /\ {"rwx"} \subseteq Rights /\ Rights \subseteq {"rwx", "rx", "wx"}
    /\ \A a, b \in LinkTargets : a[1] = b[1] => a = b

VARIABLES stage,      \* the stage the run or the restoration is in
          treeBefore, \* the target when the snapshot was taken
          rootBefore,
          tree,       \* the target now
          root,
          place,      \* the entry the current pass stands at
          failures,   \* entries named as not restored; 0 is the root
          obstructed  \* history: something the run left cannot be undone

snapshotVars == <<stage, treeBefore, rootBefore, tree, root, place, failures, obstructed>>

None == [kind |-> "none", value |-> <<>>]
Dir(r) == [kind |-> "dir", value |-> r]
Unrecorded == {"big", "odd"}     \* snap.large_files

Nodes ==
    {None} \cup {[kind |-> "file", value |-> v] : v \in FileContents \X FileModes}
           \cup {[kind |-> "big", value |-> s] : s \in Stamps}
           \cup {[kind |-> "odd", value |-> s] : s \in Stamps}
           \cup {[kind |-> "link", value |-> v] : v \in LinkTargets}
           \cup {Dir(r) : r \in Rights}

Entries == 1..Depth
Empty == [k \in Entries |-> None]

Trees == {t \in [Entries -> Nodes] :
             \A k \in Entries : t[k] # None => \A j \in 1..(k - 1) : t[j].kind = "dir"}

(* What is at the target's path, what is at the directory a root link      *)
(* resolved to, the rights of the directory that holds the entries, and    *)
(* whether the directory holding that one can be written.                  *)
Roots == [path : {"absent", "dir", "link", "otherLink", "other"},
          real : {"absent", "dir", "link", "other"},
          rights : Rights, held : BOOLEAN]

ByLink == rootBefore.path = "link"
HoldsTree(r) == IF ByLink THEN r.real = "dir" ELSE r.path = "dir"

-----------------------------------------------------------------------------
(* The operations of the file system on tree t below a root with rights r. *)

Holder(t, r, k) == IF k = 1 THEN r ELSE IF t[k - 1].kind = "dir" THEN t[k - 1].value ELSE "none"
Writable(t, r, k) == Holder(t, r, k) \in {"rwx", "wx"}
Listed(t, r, k) == \A j \in 1..k : Holder(t, r, j) \in {"rwx", "rx"}

LeadsToDir(n) == n.kind = "dir" \/ (n.kind = "link" /\ n.value[2] = "dir")
Exists(n) == n.kind # "none" /\ ~(n.kind = "link" /\ n.value[2] = "none")

Cut(t, k) == [j \in Entries |-> IF j >= k THEN None ELSE t[j]]

Succeeded(t) == [ok |-> TRUE, tree |-> t]
Stuck(t) == [ok |-> FALSE, tree |-> t]

Unlink(t, r, k) == IF Writable(t, r, k) THEN Succeeded([t EXCEPT ![k] = None]) ELSE Stuck(t)

(* shutil.rmtree: the deepest entry first; it stops at the first one whose *)
(* directory cannot be written, and before all of them at a directory it   *)
(* cannot list.  It refuses a link.                                        *)
RmTree(t, r, k) ==
    LET inside == {j \in k..Depth : t[j] # None}
        stuck == {j \in inside : ~Writable(t, r, j)}
    IN CASE t[k].kind # "dir" -> Stuck(t)
         [] t[k].kind = "dir" /\ \E j \in inside : t[j] = Dir("wx") -> Stuck(t)
         [] OTHER -> IF stuck = {} THEN Succeeded(Cut(t, k))
                     ELSE Stuck(Cut(t, 1 + CHOOSE j \in stuck : \A i \in stuck : i <= j))

(* The same of the directory that holds the entries: they go first.        *)
Emptied(t, r) ==
    CASE r = "wx" -> Stuck(t)
      [] r # "wx" /\ t[1] = None -> Succeeded(t)
      [] r # "wx" /\ t[1].kind = "dir" -> RmTree(t, r, 1)
      [] OTHER -> Unlink(t, r, 1)

(* p.parent.mkdir(parents=True, exist_ok=True), then putting node n at p.  *)
(* Behind a link to a directory all of it happens outside the tree.        *)
Put(t, r, k, n) ==
    LET gaps == {j \in 1..(k - 1) : t[j].kind # "dir"}
        gap == CHOOSE j \in gaps : \A i \in gaps : j <= i
        made == [j \in Entries |-> IF j \in gap..(k - 1) THEN Dir("rwx") ELSE t[j]]
    IN IF gaps = {} THEN IF Writable(t, r, k) THEN Succeeded([t EXCEPT ![k] = n]) ELSE Stuck(t)
       ELSE CASE t[gap] = None /\ Writable(t, r, gap) -> Succeeded([made EXCEPT ![k] = n])
              [] LeadsToDir(t[gap]) -> Succeeded(t)
              [] OTHER -> Stuck(t)

(* Putting n where something was removed, if it could be.                  *)
ThenPut(clear, r, k, n) == IF clear.ok THEN Put(clear.tree, r, k, n) ELSE clear

-----------------------------------------------------------------------------
(* _restore_dir_contents: what each pass makes of entry k.  A result adds  *)
(* whether the entry is named.                                             *)

Naming(step) == [tree |-> step.tree, named |-> TRUE]
Quietly(step) == [tree |-> step.tree, named |-> ~step.ok]
Left(t) == [tree |-> t, named |-> FALSE]

(* An entry os.walk lists under filenames. *)
WalkFile(s, t, r, k) ==
    CASE s[k].kind \in Unrecorded ->
           IF t[k] = s[k] THEN Left(t) ELSE Naming(Unlink(t, r, k))
      [] s[k].kind \in {"none", "dir"} -> Quietly(Unlink(t, r, k))
      [] s[k].kind = "link" -> Left(t)
      [] s[k].kind = "file" ->
           IF t[k].kind = "file" /\ t[k].value[1] = s[k].value[1]
           THEN Left([t EXCEPT ![k] = s[k]])                     \* at most a chmod
           ELSE Quietly(Put(t, r, k, s[k]))                      \* _atomic_write

(* An entry it lists under dirnames. *)
WalkDir(s, t, r, k) ==
    IF t[k].kind = "link"
    THEN CASE s[k].kind # "link" -> Quietly(Unlink(t, r, k))
           [] s[k].kind = "link" -> IF t[k].value[1] = s[k].value[1] THEN Left(t)
                                    ELSE Quietly(Put(t, r, k, s[k]))
    ELSE CASE s[k].kind = "none" -> Quietly(RmTree(t, r, k))
           [] s[k].kind \in Unrecorded -> Naming(RmTree(t, r, k))
           [] OTHER -> Left(t)

WalkEntry(s, t, r, k) ==
    CASE t[k] = None \/ ~Listed(t, r, k) -> Left(t)
      [] t[k] # None /\ Listed(t, r, k) ->
           IF LeadsToDir(t[k]) THEN WalkDir(s, t, r, k) ELSE WalkFile(s, t, r, k)

PutLink(s, t, r, k) ==
    CASE s[k].kind # "link" -> Left(t)
      [] s[k].kind = "link" ->
           IF t[k].kind = "link"
           THEN IF t[k].value[1] = s[k].value[1] THEN Left(t) ELSE Quietly(Put(t, r, k, s[k]))
           ELSE LET clear == CASE t[k].kind = "dir" -> RmTree(t, r, k)
                               [] t[k] = None -> Succeeded(t)
                               [] OTHER -> Unlink(t, r, k)
                IN Quietly(ThenPut(clear, r, k, s[k]))

\* Mutant: whatever is found at a file's path is taken for the file.
PutFileIfAbsent(s, t, r, k) ==
    IF s[k].kind # "file" \/ Exists(t[k]) THEN Left(t) ELSE Quietly(Put(t, r, k, s[k]))

PutFile(s, t, r, k) ==
    IF s[k].kind # "file" \/ (Exists(t[k]) /\ t[k].kind \notin {"link", "dir"}) THEN Left(t)
    ELSE LET clear == CASE LeadsToDir(t[k]) -> RmTree(t, r, k)
                        [] t[k].kind = "link" /\ ~LeadsToDir(t[k]) -> Unlink(t, r, k)
                        [] OTHER -> Succeeded(t)
         IN Quietly(ThenPut(clear, r, k, s[k]))

(* p.mkdir of a directory that is gone, or the mode of one that is there.  *)
(* mkdir does not replace a broken link.                                   *)
PutDir(s, t, r, k) ==
    CASE s[k].kind # "dir" -> Left(t)
      [] s[k].kind = "dir" /\ t[k] = None -> Quietly(Put(t, r, k, s[k]))
      [] s[k].kind = "dir" /\ t[k].kind = "dir" -> Left([t EXCEPT ![k] = s[k]])
      [] OTHER -> [tree |-> t, named |-> ~Exists(t[k])]

NameLost(s, t, r, k) ==
    [tree |-> t, named |-> s[k].kind \in Unrecorded /\ t[k] = None]

(* _rebuild_from_snapshot names every unrecorded file without looking.     *)
NameAll(s, t, r, k) == [tree |-> t, named |-> s[k].kind \in Unrecorded]

-----------------------------------------------------------------------------
(* The snapshot and the run. *)

SnapshotInit ==
    /\ stage = "snapshot"
    /\ treeBefore = Empty
    /\ rootBefore \in {r \in Roots : r.held}
    /\ root = rootBefore
    /\ tree \in IF HoldsTree(rootBefore) THEN Trees ELSE {Empty}
    /\ ~ByLink => rootBefore.real = "absent"
    /\ ~HoldsTree(rootBefore) => rootBefore.rights = "rwx"
    /\ place = Depth
    /\ failures = {}
    /\ obstructed = FALSE

(* A target that is neither absent, a directory nor a link to a directory  *)
(* or to nothing is refused, and so is one with a directory that cannot be *)
(* listed.  Links that lead out of the project ("otherLink" here) as well. *)
Recordable ==
    /\ root.path \in {"absent", "dir"} \/ (root.path = "link" /\ root.real \in {"absent", "dir"})
    /\ HoldsTree(root) => root.rights # "wx" /\ \A k \in Entries : tree[k] # Dir("wx")

RecordTarget ==
    /\ stage = "snapshot"
    /\ stage' = IF Recordable THEN "run" ELSE "refused"
    /\ treeBefore' = IF Recordable THEN tree ELSE treeBefore
    /\ UNCHANGED <<rootBefore, tree, root, place, failures, obstructed>>

Sealed(t, r) == \/ ~r.held
                \/ HoldsTree(r) /\ r.rights # "rwx"
                \/ \E k \in Entries : t[k].kind = "dir" /\ t[k].value # "rwx"

(* The sandboxed command does as it likes below the target.                *)
RunCommand ==
    /\ stage = "run"
    /\ \E r \in Roots :
         /\ ~ByLink => r.real = "absent"
         /\ ~HoldsTree(r) => r.rights = "rwx"
         /\ root' = r
         /\ tree' \in IF HoldsTree(r) THEN Trees ELSE {Empty}
    /\ obstructed' = (Sealed(treeBefore, rootBefore) \/ Sealed(tree', root')
                      \/ \E k \in Entries : /\ treeBefore[k].kind \in Unrecorded
                                            /\ tree'[k] # treeBefore[k])
    /\ stage' = "root"
    /\ UNCHANGED <<treeBefore, rootBefore, place, failures>>

-----------------------------------------------------------------------------
(* _restore. *)

Enter(p, k) == stage' = p /\ place' = k

(* What was not there is removed; failing to remove it is an exception.    *)
RemoveNew ==
    /\ stage = "root"
    /\ rootBefore.path = "absent"
    /\ LET contents == IF root.path = "dir" THEN Emptied(tree, root.rights) ELSE Succeeded(tree)
           gone == contents.ok /\ (root.held \/ root.path = "absent")
       IN /\ tree' = contents.tree
          /\ root' = IF gone THEN [root EXCEPT !.path = "absent", !.rights = "rwx"] ELSE root
          /\ stage' = IF gone THEN "done" ELSE "raised"
    /\ UNCHANGED <<treeBefore, rootBefore, place, failures, obstructed>>

(* The root is put right: a link is recreated (what took its place is      *)
(* removed; that may raise), and whatever stands where the directory was   *)
(* is removed and the directory rebuilt.                                   *)
Rebuilt(r) == [r EXCEPT !.rights = rootBefore.rights]

RestoreDirRoot ==
    /\ stage = "root"
    /\ rootBefore.path = "dir"
    /\ \/ root.path = "dir" /\ Enter("walk", Depth) /\ UNCHANGED <<root, tree>>
       \/ /\ root.path # "dir" /\ root.held
          /\ Enter("newDirs", 1)
          /\ root' = Rebuilt([root EXCEPT !.path = "dir"])
          /\ tree' = Empty
       \/ root.path # "dir" /\ ~root.held /\ Enter("raised", place) /\ UNCHANGED <<root, tree>>
    /\ UNCHANGED <<treeBefore, rootBefore, failures, obstructed>>

Relink ==
    /\ stage = "root"
    /\ rootBefore.path = "link" /\ root.path # "link"
    /\ \/ root.held /\ root' = [root EXCEPT !.path = "link"] /\ UNCHANGED stage
       \/ ~root.held /\ stage' = "raised" /\ UNCHANGED root
       \/ root.path = "dir" /\ stage' = "raised" /\ UNCHANGED root   \* its contents resist rmtree
    /\ obstructed' = (obstructed \/ stage' = "raised")
    /\ UNCHANGED <<treeBefore, rootBefore, tree, place, failures>>

RestoreLinkedRoot ==
    /\ stage = "root"
    /\ rootBefore.path = "link" /\ root.path = "link"
    /\ \/ /\ rootBefore.real = "absent" /\ root.real = "absent"
          /\ Enter("done", place)
          /\ UNCHANGED <<root, tree, failures>>
       \/ /\ rootBefore.real = "absent" /\ root.real # "absent"
          /\ LET contents == IF root.real = "dir" THEN Emptied(tree, root.rights)
                             ELSE Succeeded(tree)
                 gone == contents.ok /\ root.held
             IN /\ tree' = contents.tree
                /\ root' = IF gone THEN [root EXCEPT !.real = "absent", !.rights = "rwx"] ELSE root
                /\ failures' = IF gone THEN failures ELSE failures \cup {0}
          /\ Enter("done", place)
       \/ /\ rootBefore.real = "dir" /\ root.real = "dir"
          /\ Enter("walk", Depth)
          /\ UNCHANGED <<root, tree, failures>>
       \/ /\ rootBefore.real = "dir" /\ root.real # "dir" /\ root.held
          /\ Enter("newDirs", 1)
          /\ root' = Rebuilt([root EXCEPT !.real = "dir"])
          /\ tree' = Empty
          /\ UNCHANGED failures
       \/ /\ rootBefore.real = "dir" /\ root.real \notin {"dir", "absent"} /\ ~root.held
          /\ Enter("done", place)
          /\ failures' = failures \cup {0}
          /\ UNCHANGED <<root, tree>>
       \/ /\ rootBefore.real = "dir" /\ root.real = "absent" /\ ~root.held    \* root.mkdir raises
          /\ Enter("raised", place)
          /\ UNCHANGED <<root, tree, failures>>
    /\ UNCHANGED <<treeBefore, rootBefore, obstructed>>

(* One step of a pass: what Pass makes of the entry the pass stands at,    *)
(* then the next entry or, after the last one, the next stage.             *)
Step(p, Pass(_, _, _, _), last, onward, next) ==
    /\ stage = p
    /\ LET made == Pass(treeBefore, tree, root.rights, place) IN
         /\ tree' = made.tree
         /\ failures' = IF made.named THEN failures \cup {place} ELSE failures
    /\ IF place = last THEN stage' = next /\ place' = 1
       ELSE stage' = stage /\ place' = place + onward
    /\ UNCHANGED <<treeBefore, rootBefore, root, obstructed>>

RemoveAdded == Step("walk", WalkEntry, 1, -1, "links")
RestoreLinks == Step("links", PutLink, Depth, 1, "files")
RestoreFiles == Step("files", PutFile, Depth, 1, "dirs")
RestoreDirs == Step("dirs", PutDir, Depth, 1, "lost")
NameTheLost == Step("lost", NameLost, Depth, 1, "mode")

RebuildDirs == Step("newDirs", PutDir, Depth, 1, "newLinks")
RebuildLinks == Step("newLinks", PutLink, Depth, 1, "newFiles")
RebuildFiles == Step("newFiles", PutFile, Depth, 1, "newLost")
RebuildLost == Step("newLost", NameAll, Depth, 1, "done")

RestoreRootMode ==
    /\ stage = "mode"
    /\ root' = Rebuilt(root)
    /\ stage' = "done"
    /\ UNCHANGED <<treeBefore, rootBefore, tree, place, failures, obstructed>>

SnapshotNext ==
    \/ RecordTarget \/ RunCommand
    \/ RemoveNew \/ RestoreDirRoot \/ Relink \/ RestoreLinkedRoot
    \/ RemoveAdded \/ RestoreLinks \/ RestoreFiles \/ RestoreDirs \/ NameTheLost
    \/ RebuildDirs \/ RebuildLinks \/ RebuildFiles \/ RebuildLost
    \/ RestoreRootMode

SnapshotSpec == SnapshotInit /\ [][SnapshotNext]_snapshotVars

-----------------------------------------------------------------------------
(* Properties. *)

SnapshotTypeOK ==
    /\ treeBefore \in Trees /\ tree \in Trees
    /\ rootBefore \in Roots /\ root \in Roots
    /\ place \in Entries /\ failures \subseteq {0} \cup Entries

RootAsBefore ==
    /\ root.path = rootBefore.path /\ root.real = rootBefore.real
    /\ HoldsTree(root) => root.rights = rootBefore.rights

(* restore_install_target returns whether `failures` is empty, and the     *)
(* refused run tells the user what could not be put back: when the         *)
(* restoration ends without an exception, every entry that is not as it    *)
(* was before the run has been named itself or lies below one that was.    *)
DifferencesAreNamed ==
    stage = "done" =>
        /\ RootAsBefore \/ 0 \in failures
        /\ \A k \in Entries : tree[k] # treeBefore[k] => \E j \in 0..k : j \in failures

(* Nothing is complained of without need: where every directory can be     *)
(* written, before the run and after it, and no file whose content was not *)
(* recorded is touched, the target ends exactly as it was.                 *)
WritableIsRestored ==
    ~obstructed => /\ stage # "raised"
                   /\ stage = "done" => failures = {} /\ tree = treeBefore /\ RootAsBefore

(* A restore that claims to be complete leaves no difference, and what can *)
(* be written is restored.  (FileSystemBackend.restore_install_target)     *)
RestoreIsTrue == DifferencesAreNamed /\ WritableIsRestored

=============================================================================
