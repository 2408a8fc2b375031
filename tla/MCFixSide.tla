---------------------------- MODULE MCFixSide ----------------------------
(***************************************************************************)
(* The instances, for TLC, of the components of `pa fix` and of the        *)
(* sandbox that do not interact with each other, explored as one disjoint  *)
(* union, as in MCDaemonSide; the nth variable of a component that is      *)
(* instantiated is vn, and the rest are unused.                            *)
(***************************************************************************)
EXTENDS Integers, Sequences, FiniteSets, TLC, FixWrite, FixCommand, ToolApply, CapturedRun, SnapshotRestore

VARIABLES
  which, v1, v2, v3, v4, v5, v6, v7, v8, v9, v10, v11, v12, v13, v14, v15, v16, v17, v18

unionVars ==
  <<which, v1, v2, v3, v4, v5, v6, v7, v8, v9, v10, v11, v12, v13, v14, v15, v16, v17, v18, vars, fixVars,
    toolVars, callVars, snapshotVars>>

Unset == "unused"

(* The variables after the nth are unused.                                 *)
Unused(n) ==
  /\ (n < 2 => v2 = Unset) /\ (n < 3 => v3 = Unset) /\ (n < 4 => v4 = Unset)
  /\ (n < 5 => v5 = Unset) /\ (n < 6 => v6 = Unset) /\ (n < 7 => v7 = Unset)
  /\ (n < 8 => v8 = Unset) /\ (n < 9 => v9 = Unset) /\ (n < 10 => v10 = Unset)
  /\ (n < 11 => v11 = Unset) /\ (n < 12 => v12 = Unset) /\ (n < 13 => v13 = Unset)
  /\ (n < 14 => v14 = Unset) /\ (n < 15 => v15 = Unset) /\ (n < 16 => v16 = Unset)
  /\ (n < 17 => v17 = Unset) /\ (n < 18 => v18 = Unset)

-----------------------------------------------------------------------------
(* A lock file, written before its manifest; another program writes two versions. *)
WriteOrder == <<"lock", "manifest">>
WriteInit ==
  /\ which = "write" /\ Init /\ v1 = Unset
  /\ Unused(1)
WriteNext ==
  /\ which = "write" /\ Next
  /\ UNCHANGED <<which, v1, v2, v3, v4, v5, v6, v7, v8, v9, v10, v11, v12, v13, v14, v15, v16, v17, v18, fixVars, toolVars, callVars, snapshotVars>>
(* What its variables are in a behaviour of another component. *)
WriteResting == Init

(* Two findings, one of a direct dependency, that an edit of the project may mend. *)
CommandVulnerable == [c \in {"old", "new"} |-> IF c = "old" THEN {"direct", "deep"} ELSE {"direct"}]
CommandAdapters == {[tool |-> FALSE, lists |-> TRUE, forces |-> TRUE, registry |-> TRUE],     \* npm
                    [tool |-> FALSE, lists |-> FALSE, forces |-> FALSE, registry |-> FALSE],  \* a plug-in's
                    [tool |-> TRUE, lists |-> FALSE, forces |-> FALSE, registry |-> TRUE]}    \* a tool
CommandInit ==
  /\ which = "command" /\ FixInit /\ v1 = Unset
  /\ Unused(1)
CommandNext ==
  /\ which = "command" /\ FixNext
  /\ UNCHANGED <<which, v1, v2, v3, v4, v5, v6, v7, v8, v9, v10, v11, v12, v13, v14, v15, v16, v17, v18, vars, toolVars, callVars, snapshotVars>>
(* What its variables are in a behaviour of another component. *)
CommandResting == FixInit /\ opts = (CHOOSE o \in Options : TRUE) /\ project = "old" /\ adapter = (CHOOSE a \in Adapters : TRUE)

(* A tool of each kind, one edit and two builds. *)
ReinstallInit ==
  /\ which = "tool" /\ ToolInit /\ v1 = Unset
  /\ Unused(1)
ReinstallNext ==
  /\ which = "tool" /\ ToolNext
  /\ UNCHANGED <<which, v1, v2, v3, v4, v5, v6, v7, v8, v9, v10, v11, v12, v13, v14, v15, v16, v17, v18, vars, fixVars, callVars, snapshotVars>>
(* What its variables are in a behaviour of another component. *)
ReinstallResting == ToolInit /\ kind = "uv" /\ bin = (CHOOSE b \in StartBins : TRUE)

(* Two captured runs in one process. *)
CapturedInit ==
  /\ which = "captured" /\ CallInit /\ v1 = Unset
  /\ Unused(1)
CapturedNext ==
  /\ which = "captured" /\ CallNext
  /\ UNCHANGED <<which, v1, v2, v3, v4, v5, v6, v7, v8, v9, v10, v11, v12, v13, v14, v15, v16, v17, v18, vars, fixVars, toolVars, snapshotVars>>
(* What its variables are in a behaviour of another component. *)
CapturedResting == CallInit

(* A fix of a transitive package and one of a direct one, each of which may be blocked by the other or by a third. *)
Versions3(va, vb, vq) == [p \in {"a", "b", "q"} |-> IF p = "a" THEN va ELSE IF p = "b" THEN vb ELSE vq]
VerifyItems == <<[package |-> "a", version |-> 1, target |-> 2, aged |-> TRUE, advisories |-> {"x"}],
                 [package |-> "b", version |-> 1, target |-> 2, aged |-> FALSE, advisories |-> {"y"}]>>
VerifyBaselines == {Versions3({1}, {1}, {1}), Versions3({1}, {1}, {2}), Versions3({2}, {1}, {1})}
VerifyEnds == {Versions3({va}, {vb}, {vq}) : va \in 1 .. 3, vb \in 1 .. 2, vq \in {1, 2, 4}} \cup {Versions3({1, 2}, {1}, {1})}
Aged == <<"old", "old", "old", "old">>
NoFinding == <<{}, {}, {}, {}>>
PlainWorld == [age |-> Versions3(Aged, Aged, Aged), yanked |-> {},
               advisories |-> Versions3(<<{"x"}, {}, {"x"}, {}>>, <<{"y"}, {}, {}, {}>>, NoFinding),
               allowMajor |-> {}, allowCooldown |-> FALSE]
VerifyWorlds ==
  {PlainWorld,
   \* a parent's releases of unknown age and in cooldown, its majors allowed
   [PlainWorld EXCEPT !.age = Versions3(<<"old", "old", "young", "old">>, Aged, <<"old", "unknown", "old", "young">>),
                      !.advisories["a"] = <<{"x"}, {}, {}, {}>>, !.allowMajor = {"q"}],
   \* a parent's release with an advisory and one that is yanked
   [PlainWorld EXCEPT !.advisories["q"] = <<{}, {"z"}, {}, {}>>, !.yanked = {<<"q", 4>>}],
   \* the target of a fix has another advisory, and its next version's age is unknown
   [PlainWorld EXCEPT !.advisories["b"] = <<{"y"}, {"z"}, {}, {}>>,
                      !.age = Versions3(Aged, <<"old", "old", "unknown", "old">>, Aged)]}
VerifyPin(p, v) == [package |-> p, version |-> v]
Verify == INSTANCE FixVerify WITH
  Packages <- {"a", "b", "q"}, Items <- VerifyItems, Direct <- {"b"}, Lock <- Versions3({1}, {1}, {1}),
  Baselines <- VerifyBaselines, Ends <- VerifyEnds, Managers <- {"uv", "npm", "uv tool"},
  Worlds <- VerifyWorlds, Releases <- {VerifyPin("q", 2), VerifyPin("q", 4), VerifyPin("b", 3)},
  manager <- v1, base <- v2, world <- v3, pc <- v4, n <- v5, fix <- v6, outs <- v7, bad <- v8,
  unaged <- v9, plan <- v10
VerifyInit ==
  /\ which = "verify" /\ Verify!Init
  /\ Unused(10)
VerifyNext ==
  /\ which = "verify" /\ Verify!Next
  /\ UNCHANGED <<which, v11, v12, v13, v14, v15, v16, v17, v18, vars, fixVars, toolVars, callVars, snapshotVars>>

(* Trees of two levels, of a target that may be a link. *)
RestoreTargets == {<<"here", "dir">>, <<"there", "dir">>, <<"note", "file">>}
RestoreInit ==
  /\ which = "restore" /\ SnapshotInit /\ v1 = Unset
  /\ Unused(1)
RestoreNext ==
  /\ which = "restore" /\ SnapshotNext
  /\ UNCHANGED <<which, v1, v2, v3, v4, v5, v6, v7, v8, v9, v10, v11, v12, v13, v14, v15, v16, v17, v18, vars, fixVars, toolVars, callVars>>
(* What its variables are in a behaviour of another component. *)
RestoreResting == SnapshotInit /\ rootBefore = [path |-> "absent", real |-> "absent", rights |-> "rwx", held |-> TRUE]

(* Two language modules, two nested snapshots, a link to one and a directory that is none. *)
BindDirs == {<<"t", "pa-a">>, <<"t", "pa-a", "pa-b">>, <<"t", "x">>}
Binds == INSTANCE SnapshotBinds WITH
  Directories <- BindDirs, Throwaway <- BindDirs \ {<<"t", "x">>},
  Links <- [l \in {<<"t", "ln">>} |-> <<"t", "pa-a">>], Dests <- {"d"}, Languages <- 2, MaxPairs <- 2,
  disk <- v1, asked <- v2, left <- v3, valid <- v4, pending <- v5, result <- v6, rejected <- v7,
  deferred <- v8, phase <- v9, returned <- v10
BindsInit ==
  /\ which = "binds" /\ Binds!Init
  /\ Unused(10)
BindsNext ==
  /\ which = "binds" /\ Binds!Next
  /\ UNCHANGED <<which, v11, v12, v13, v14, v15, v16, v17, v18, vars, fixVars, toolVars, callVars, snapshotVars>>

(* Runs whose project, editable checkouts and state lie inside or beside one another, with links between them. *)
Home == <<"h">>
Project == <<"h", "p">>
Worktree == <<"h", "p", "wt">>
Hooks == <<"h", "p", "wt", "hooks">>
Editable == <<"h", "e">>
State == <<"h", "s">>
Secret == <<"h", "s", "c">>
Moved == <<"h", "m">>
Venv == <<"h", "m", "v">>
Copy == <<"h", "k", "copy">>
Snap == <<"t", "pa">>
BareRepo == <<"h", "e", "b">>
LinkHere == <<"h", "ln">>
LinkIn == <<"h", "e", "in">>
LinkCred == <<"h", "cred">>
MountDirs == {<<>>, Home, Project, Project \o <<"git">>, Worktree, Hooks, Editable, Editable \o <<"git">>, BareRepo, State, Secret,
              Secret \o <<"key">>, Moved, Venv, <<"h", "ssh">>, <<"t">>, Snap, Snap \o <<"key">>, <<"h", "k">>, Copy}
MountDotGit == [d \in {Project, Editable} |->
                  [at |-> d \o <<"git">>, file |-> d = Editable, dir |-> Worktree, common |-> Project \o <<"git">>]]
Linked(here, in, cred) ==
  [l \in {x \in {LinkHere, LinkIn, LinkCred} :
            \/ x = LinkHere
            \/ x = LinkIn /\ in # <<>>
            \/ x = LinkCred /\ cred} |-> IF l = LinkHere THEN here ELSE IF l = LinkIn THEN in ELSE Secret]
PlainRun == [targets |-> <<>>, extra |-> <<>>, sources |-> <<>>, roots |-> {}, keep |-> {}, inPlace |-> FALSE,
             cwd |-> Project, project |-> Project]
SnapBind == <<[src |-> Snap, dst |-> Secret]>>
MountRuns ==
  {[mode |-> "run", links |-> Linked(a, b, FALSE), project |-> q, targets |-> t, sources |-> s, roots |-> {Editable},
    ro |-> r, hidden |-> {Secret}, binds |-> SnapBind, extra |-> <<Venv>>] @@ PlainRun :
      a \in {State, Hooks, Venv}, b \in {<<>>, Secret, Moved}, q \in {Project, Moved},
      t \in {<<LinkHere>>, <<State, LinkHere>>}, s \in {<<>>, <<Editable>>}, r \in {<<State>>, <<LinkHere>>}}
  \cup
  {[mode |-> "readonly", links |-> Linked(a, b, c), project |-> q, ro |-> r,
    hidden |-> IF c THEN {LinkCred} ELSE {Secret}, binds |-> x] @@ PlainRun :
      a \in {State, Secret}, b \in {<<>>, State}, c \in BOOLEAN, q \in {Project, Moved},
      r \in {<<State>>, <<LinkHere>>, <<LinkHere \o <<"c">>, State>>, <<Editable, State>>}, x \in {<<>>, SnapBind}}
  \cup
  {[mode |-> "scratch", cwd |-> Copy, project |-> Copy, links |-> Linked(a, Secret, FALSE), inPlace |-> b,
    sources |-> s, roots |-> o, ro |-> r, hidden |-> {Secret}, binds |-> x] @@ PlainRun :
      a \in {State, Editable}, b \in BOOLEAN, s \in {<<>>, <<Editable>>, <<LinkHere>>}, o \in {{}, {Editable}},
      r \in {<<State>>, <<LinkHere>>}, x \in {<<>>, SnapBind}}
Mounts == INSTANCE SandboxMounts WITH Dirs <- MountDirs, Home <- Home, ScratchRoot <- <<"h", "k">>, Tmp <- <<"t">>, Credentials <- {<<"h", "ssh">>}, DotGit <- MountDotGit, Bare <- {BareRepo}
MountsHold(x) ==
  Mounts!RunOK(x) => /\ Mounts!HiddenStaysHidden(x) /\ Mounts!RepositoriesStayReadOnly(x)
                     /\ Mounts!WritesStayInside(x) /\ Mounts!ContainerShowsTheSame(x)
MountsInit == which = "mounts" /\ v1 \in MountRuns /\ v2 = "asked" /\ Unused(2)
MountsNext ==
  /\ which = "mounts" /\ v2 = "asked" /\ v2' = "answered"
  /\ UNCHANGED <<which, v1, v3, v4, v5, v6, v7, v8, v9, v10, v11, v12, v13, v14, v15, v16, v17, v18, vars, fixVars, toolVars, callVars, snapshotVars>>

(* The planning of fixes, as functions of their findings. *)
\* Versions 1 .. 7 on two lines, and the ranges of an advisory over them.
Event(k, v) == [kind |-> k, at |-> v]
FromStart(e) == <<Event("introduced", 0), e>>
PlanRanges == {<<>>, <<FromStart(Event("fixed", 3))>>, <<FromStart(Event("fixed", 5))>>, <<FromStart(Event("last_affected", 2))>>,
               <<FromStart(Event("fixed", 2)), <<Event("introduced", 4), Event("fixed", 5)>>>>}
FixedBy(r) == {e.at : e \in {x \in UNION {{r[k][j] : j \in DOMAIN r[k]} : k \in DOMAIN r} : x.kind = "fixed"}}
Finding(names, fixed, ranges, mal) ==
  [names |-> names, fixed |-> fixed, ranges |-> ranges, listed |-> {}, malicious |-> mal]
PlanFindings == {Finding(n, FixedBy(r) \cup x, r, FALSE) : n \in {{"A"}, {"A", "B"}}, r \in PlanRanges, x \in {{}, {2}}}
                \cup {Finding({"A"}, {3}, <<>>, TRUE)}
PlanCopies == {[version |-> v, findings |-> <<f>>] : v \in {1, 4}, f \in PlanFindings}
PlanPolicies == {[pinsEveryCopy |-> p, direct |-> d, allowMajor |-> m, allowCooldown |-> FALSE, structural |-> "none",
                  age |-> [v \in 0 .. 7 |-> IF v = 5 THEN "young" ELSE "old"]] : p, d, m \in BOOLEAN}
Named == {Finding(s, {}, <<>>, FALSE) : s \in {{"A"}, {"B"}, {"A", "B"}, {"B", "C"}, {"A", "C"}}}
PlanInputs ==
  [kind : {"aliases"}, findings : [1 .. 4 -> Named]]
  \cup {[kind |-> "copy", copy |-> [version |-> 1, findings |-> <<f, g>>]] : f, g \in PlanFindings}
  \cup [kind : {"copies"}, copies : {<<c, d>> : c, d \in PlanCopies}, policy : PlanPolicies]
Plan == INSTANCE FixPlan WITH LineLength <- 4
PlanHold(x) ==
  /\ x.kind = "aliases" => Plan!AliasesAreMerged(x.findings)
  /\ x.kind = "copy" => Plan!BestIsRecommended(x.copy)
  /\ x.kind = "copies" => /\ Plan!PlannedFixesEveryCopy(x.copies, x.policy)
                          /\ Plan!EveryCopyIsPlannedOnce(x.copies, x.policy)
PlanInit == which = "plan" /\ v1 \in PlanInputs /\ v2 = "asked" /\ Unused(2)
PlanNext ==
  /\ which = "plan" /\ v2 = "asked" /\ v2' = "answered"
  /\ UNCHANGED <<which, v1, v3, v4, v5, v6, v7, v8, v9, v10, v11, v12, v13, v14, v15, v16, v17, v18, vars, fixVars, toolVars, callVars, snapshotVars>>

ASSUME InstanceAssumption ==
  /\ FixWriteAssumption
  /\ Plan!LineAssumption
  /\ FixCommandAssumption
  /\ SnapshotAssumption

-----------------------------------------------------------------------------
MCInit ==
  \/ WriteInit /\ CommandResting /\ ReinstallResting /\ CapturedResting /\ RestoreResting
  \/ CommandInit /\ WriteResting /\ ReinstallResting /\ CapturedResting /\ RestoreResting
  \/ ReinstallInit /\ WriteResting /\ CommandResting /\ CapturedResting /\ RestoreResting
  \/ CapturedInit /\ WriteResting /\ CommandResting /\ ReinstallResting /\ RestoreResting
  \/ RestoreInit /\ WriteResting /\ CommandResting /\ ReinstallResting /\ CapturedResting
  \/ WriteResting /\ CommandResting /\ ReinstallResting /\ CapturedResting /\ RestoreResting /\ (VerifyInit \/ BindsInit \/ MountsInit \/ PlanInit)
MCNext == WriteNext \/ CommandNext \/ ReinstallNext \/ CapturedNext \/ VerifyNext \/ RestoreNext \/ BindsNext \/ MountsNext \/ PlanNext
MCSpec == MCInit /\ [][MCNext]_unionVars
-----------------------------------------------------------------------------
(* FixPlan and FixVerify: a plan covers every copy once with the best version; a command that  *)
(* a trial ran makes nothing worse, unknown ages included, and every printed one fixes what it *)
(* says.                                                                                       *)
PlansFix ==
  /\ [](which = "verify" => Verify!NothingWorse /\ Verify!PrintedFixes /\ Verify!UnknownAgeIsSaid)
  /\ [][which = "plan" => PlanHold(v1)]_unionVars

(* SandboxMounts and SnapshotBinds: whatever lies inside what, hidden paths stay hidden,       *)
(* repositories read-only and writes inside, in either isolation; an accepted snapshot is      *)
(* there when the command starts, none is left after it, and nothing else is removed.          *)
MountsConfine ==
  /\ [](which = "binds" => Binds!AcceptedIsThere /\ Binds!NoSnapshotIsLeft /\ Binds!OthersAreKept)
  /\ [][which = "mounts" => MountsHold(v1)]_unionVars
=============================================================================
