----------------------------- MODULE FixCommand -----------------------------
(***************************************************************************)
(* One run of `pa fix` (cli/fix_cmd.py): the project's lock file is found, *)
(* recorded, read, checked against OSV, planned, trial-resolved on a       *)
(* frozen copy of what was recorded, reported and, with --apply, written   *)
(* and synced, while the user or another program goes on editing the       *)
(* project.                                                                *)
(*                                                                         *)
(* What a trial decides about an item is FixVerify's subject, how files    *)
(* are replaced is FixWrite's, how a tool is reinstalled is ToolApply's;   *)
(* here each is one step with every outcome it can have.  A project's      *)
(* contents are model values, told apart by what is vulnerable in them.    *)
(* Edits are bounded and may bring an earlier content back.                *)
(***************************************************************************)
EXTENDS Integers, FiniteSets

CONSTANTS ProjectStates, \* contents the project's files can have
          Items,         \* packages
          Direct,        \* those the project declares itself
          Vulnerable,    \* [ProjectStates -> SUBSET Items]
          Adapters,      \* package managers, see AdapterType
          MaxProjectEdits

FixCommandAssumption ==
    /\ Direct \subseteq Items
    /\ Vulnerable \in [ProjectStates -> SUBSET Items]
    /\ MaxProjectEdits \in Nat

(* tool: a tool environment (PlanTarget); lists: it has apply_files; forces *)
(* and registry: can_force and yanks_from_registry.                         *)
AdapterType == [tool : BOOLEAN, lists : BOOLEAN, forces : BOOLEAN, registry : BOOLEAN]

VARIABLES phase, opts, adapter,
          project,       \* the content of the project's files now
          projectEdits,
          snap,          \* what --apply recorded before reading anything
          settings,      \* the project run settings: "ok", "offline", "unusable"
          read,          \* the content the lock file was read from
          plan,
          frozen,        \* the trials run on the checked copy
          seen,          \* contents the trials saw
          doubts,        \* lookups that failed: "osv", "yanks", "drift"
          unverified,    \* why the plan is not verified, "" when it is (or is empty)
          applyOutcome,  \* the JSON `apply` object, as far as it decides anything
          told,          \* the warnings the report has given
          exit

fixVars == <<phase, opts, adapter, project, projectEdits, snap, settings, read, plan, frozen, seen,
          doubts, unverified, applyOutcome, told, exit>>

Phases == {"options", "find", "snapshot", "read", "query", "authorise", "freeze", "trial",
           "hold", "report", "apply", "reresolve", "write", "sync", "end", "exited", "raised"}
Reasons == {"", "--no-verify", "no sandbox", "settings", "offline", "blocked", "changed"}
NoSnap == [content |-> "none", inputs |-> "none"]
NoPlan == [planned |-> {}, held |-> {}, open |-> {}, verified |-> FALSE, separate |-> FALSE]
NoOutcome == [applied |-> FALSE, reason |-> "", synced |-> "no", backup |-> FALSE]

Modes == {"none", "lock-only", "sync"}
Options == [verify : BOOLEAN, mode : Modes, json : BOOLEAN, asks : BOOLEAN, container : BOOLEAN]

FixInit ==
    /\ phase = "options"
    /\ opts \in Options
    /\ adapter \in Adapters
    /\ project \in ProjectStates
    /\ projectEdits = 0
    /\ snap = NoSnap /\ settings = "ok" /\ read = project /\ plan = NoPlan
    /\ frozen = FALSE /\ seen = {} /\ doubts = {} /\ unverified = ""
    /\ applyOutcome = NoOutcome /\ told = {} /\ exit = -1

GoOn(to) == phase' = to
Quit(code) == phase' = "exited" /\ exit' = code

-----------------------------------------------------------------------------
(* Options that contradict each other are a usage error.  `asks` stands    *)
(* for a terminal without --yes, where JSON output could not prompt;       *)
(* container isolation cannot install.                                     *)
Contradictory(o) ==
    \/ o.mode # "none" /\ ~o.verify
    \/ o.mode # "none" /\ o.json /\ o.asks
    \/ o.mode = "sync" /\ o.container

CheckOptions ==
    /\ phase = "options"
    /\ \/ (Contradictory(opts) \/ (adapter.tool /\ opts.mode # "none" /\ opts.container))
          /\ Quit(2)
       \/ ~Contradictory(opts) /\ ~(adapter.tool /\ opts.mode # "none" /\ opts.container)
          /\ GoOn("find") /\ UNCHANGED exit
    /\ UNCHANGED <<opts, adapter, project, projectEdits, snap, settings, read, plan, frozen, seen,
                   doubts, unverified, applyOutcome, told>>

(* No lock file, several of them, or the one.                              *)
FindLock ==
    /\ phase = "find"
    /\ \/ ~adapter.tool /\ Quit(2)
       \/ GoOn("snapshot") /\ UNCHANGED exit
    /\ UNCHANGED <<opts, adapter, project, projectEdits, snap, settings, read, plan, frozen, seen,
                   doubts, unverified, applyOutcome, told>>

(* apply.snapshot                                                          *)
SnapshotOf(inputs) == [content |-> project, inputs |-> inputs]

(* Before anything is read, --apply records every file by digest; a list   *)
(* of inputs that cannot be had now is recorded as empty.                  *)
TakeSnapshot ==
    /\ phase = "snapshot"
    /\ IF opts.mode = "none" \/ adapter.tool THEN UNCHANGED snap
       ELSE \E inputs \in IF adapter.lists THEN {"listed", "empty"} ELSE {"none"} :
                snap' = SnapshotOf(inputs)
    /\ GoOn("read")
    /\ UNCHANGED <<opts, adapter, project, projectEdits, settings, read, plan, frozen, seen,
                   doubts, unverified, applyOutcome, told, exit>>

ReadLock ==
    /\ phase = "read"
    /\ read' = project
    /\ settings' \in {"ok", "offline", "unusable"}
    /\ \/ Quit(2)
       \/ GoOn("query") /\ UNCHANGED exit
    /\ UNCHANGED <<opts, adapter, project, projectEdits, snap, plan, frozen, seen,
                   doubts, unverified, applyOutcome, told>>

(* OSV and the registry are asked; a failed lookup hides what it would     *)
(* have found.  Of what was found some is planned and the rest is held;    *)
(* an adapter's own reason (held_reason) holds all of it.                  *)
MakePlan ==
    /\ phase = "query"
    /\ \E failed \in SUBSET {"osv", "yanks"}, found \in SUBSET Vulnerable[read] :
         /\ "osv" \notin failed => found = Vulnerable[read]
         /\ doubts' = failed
         /\ \E planned \in SUBSET found, open \in SUBSET found :
              /\ open \subseteq planned
              /\ plan' = [NoPlan EXCEPT !.planned = planned, !.held = found \ planned, !.open = open]
    /\ GoOn("authorise")
    /\ UNCHANGED <<opts, adapter, project, projectEdits, snap, settings, read, frozen, seen,
                   unverified, applyOutcome, told, exit>>

(* One sandbox runner is authorised for all the trials; what keeps them    *)
(* from running leaves the plan unverified.                                *)
Authorise ==
    /\ phase = "authorise"
    /\ IF plan.planned = {} THEN GoOn("hold") /\ UNCHANGED unverified
       ELSE \/ opts.verify /\ settings = "ok" /\ GoOn("freeze") /\ UNCHANGED unverified
            \/ /\ unverified' \in IF ~opts.verify THEN {"--no-verify"}
                                  ELSE CASE settings = "unusable" -> {"no sandbox", "settings"}
                                         [] settings = "offline" -> {"no sandbox", "offline"}
                                         [] settings = "ok" -> {"no sandbox", "blocked"}
               /\ GoOn("hold")
    /\ UNCHANGED <<opts, adapter, project, projectEdits, snap, settings, read, plan, frozen, seen,
                   doubts, applyOutcome, told, exit>>

(* _unchanged, copy_is_snapshot: every file is still what was recorded.    *)
ProjectUnchanged == project = snap.content

(* _FixTrialRunner.freeze: the recorded files are copied and the copy is   *)
(* checked against the record.                                             *)
Freeze ==
    /\ phase = "freeze"
    /\ IF snap.inputs # "listed" THEN GoOn("trial") /\ UNCHANGED <<frozen, unverified>>
       ELSE IF ProjectUnchanged THEN GoOn("trial") /\ frozen' = TRUE /\ UNCHANGED unverified
       ELSE GoOn("hold") /\ unverified' = "changed" /\ UNCHANGED frozen
    /\ UNCHANGED <<opts, adapter, project, projectEdits, snap, settings, read, plan, seen,
                   doubts, applyOutcome, told, exit>>

TrialSees == IF frozen THEN snap.content ELSE project

(* A trial.  It can hold the item it is for; an adapter whose tool reports *)
(* no yanks has them looked up, and the baseline's failed lookups are      *)
(* remembered as drift that could not be checked.                          *)
Trial ==
    /\ phase = "trial"
    /\ seen' = seen \cup {TrialSees}
    /\ \E keep \in SUBSET plan.planned :
         plan' = [plan EXCEPT !.planned = keep, !.held = @ \cup (plan.planned \ keep),
                              !.open = @ \cap keep]
    /\ doubts' \in IF adapter.registry THEN {doubts, doubts \cup {"drift"}} ELSE {doubts}
    /\ UNCHANGED <<phase, opts, adapter, project, projectEdits, snap, settings, read, frozen,
                   unverified, applyOutcome, told, exit>>

(* Interrupted while nothing is written, the command just stops.           *)
InterruptTrial ==
    /\ phase = "trial"
    /\ GoOn("raised")
    /\ UNCHANGED <<opts, adapter, project, projectEdits, snap, settings, read, plan, frozen, seen,
                   doubts, unverified, applyOutcome, told, exit>>

EndTrials ==
    /\ phase = "trial"
    /\ seen # {}
    /\ \E apart \in {FALSE, Cardinality(plan.planned) > 1} :
         plan' = [plan EXCEPT !.verified = TRUE, !.separate = apart]
    /\ GoOn("hold")
    /\ UNCHANGED <<opts, adapter, project, projectEdits, snap, settings, read, frozen, seen,
                   doubts, unverified, applyOutcome, told, exit>>

(* Untrialled, a transitive item of an adapter that forces versions has no *)
(* command; a verified plan may still have none (pin_problem).             *)
Untrialled == IF unverified # "" /\ adapter.forces THEN plan.planned \ Direct ELSE {}
Unpinnable == IF unverified = "" /\ adapter.tool THEN {{}, plan.planned} ELSE {{}}

Hold ==
    /\ phase = "hold"
    /\ \E more \in Unpinnable :
         LET lost == Untrialled \cup more
         IN  plan' = [plan EXCEPT !.planned = @ \ lost, !.held = @ \cup lost, !.open = @ \ lost]
    /\ \/ GoOn(IF opts.json THEN "apply" ELSE "report") /\ UNCHANGED exit
       \/ Quit(2)                                       \* commands() failed
    /\ UNCHANGED <<opts, adapter, project, projectEdits, snap, settings, read, frozen, seen,
                   doubts, unverified, applyOutcome, told>>

-----------------------------------------------------------------------------
(* _print_plan and _plan_json: the warnings among what they say.           *)
PlanSays ==
    {w \in {"unverified"} : unverified # "" /\ plan.planned # {}}
        \cup {w \in {"held"} : plan.held # {}}
        \cup {w \in {"open"} : plan.open # {}}
        \cup {w \in {"separate"} : plan.separate /\ plan.planned # {}}
        \cup (doubts \cap {"osv", "yanks"})

ApplySays ==
    {w \in {"not applied"} : ~applyOutcome.applied} \cup {w \in {"not synced"} : applyOutcome.synced = "failed"}

(* The JSON object holds everything, whatever there is to say of it.       *)
JsonSays == PlanSays \cup {w \in {"unverified"} : unverified # ""}
                     \cup IF opts.mode = "none" THEN {} ELSE ApplySays

ReportPlan ==
    /\ phase = "report"
    /\ told' = PlanSays
    /\ GoOn(IF opts.mode = "none" THEN "end" ELSE "apply")
    /\ UNCHANGED <<opts, adapter, project, projectEdits, snap, settings, read, plan, frozen, seen,
                   doubts, unverified, applyOutcome, exit>>

(* A tool has an applier of its own.                                       *)
CanApply == adapter.tool \/ adapter.lists

(* _apply: why nothing is applied before anything runs, "" when it is.     *)
Refusal ==
    IF unverified # "" THEN "unverified"
    ELSE IF "osv" \in doubts THEN "osv"
    ELSE IF "drift" \in doubts THEN "drift"
    ELSE IF plan.planned = {} THEN "nothing to apply"
    ELSE IF settings = "unusable" \/ (snap = NoSnap /\ ~adapter.tool) THEN "no sandbox"
    ELSE IF ~CanApply THEN "adapter"
    ELSE ""

StartApply ==
    /\ phase = "apply"
    /\ IF opts.mode = "none" THEN GoOn("end") /\ UNCHANGED applyOutcome
       ELSE IF Refusal # "" THEN applyOutcome' = [applyOutcome EXCEPT !.reason = Refusal] /\ GoOn("end")
       ELSE \/ GoOn("reresolve") /\ UNCHANGED applyOutcome
            \/ opts.asks /\ applyOutcome' = [applyOutcome EXCEPT !.reason = "declined"] /\ GoOn("end")
    /\ UNCHANGED <<opts, adapter, project, projectEdits, snap, settings, read, plan, frozen, seen,
                   doubts, unverified, told, exit>>

NotApplied(why, backup) ==
    applyOutcome' = [applyOutcome EXCEPT !.reason = why, !.backup = backup]

(* apply_plan re-resolves a fresh copy of the live project.                *)
Reresolve ==
    /\ phase = "reresolve" /\ ~adapter.tool
    /\ \/ ProjectUnchanged /\ snap.inputs = "listed" /\ GoOn("write") /\ UNCHANGED applyOutcome
       \/ NotApplied("re-resolve", FALSE) /\ GoOn("end")
       \/ NotApplied("interrupted", FALSE) /\ GoOn("end")
    /\ UNCHANGED <<opts, adapter, project, projectEdits, snap, settings, read, plan, frozen, seen,
                   doubts, unverified, told, exit>>

(* The write replaces the recorded files, or puts back what it replaced,   *)
(* or stops with a backup (FixWrite).                                      *)
WriteFiles ==
    /\ phase = "write"
    /\ \/ /\ ProjectUnchanged
          /\ applyOutcome' = [applyOutcome EXCEPT !.applied = TRUE, !.backup = TRUE]
          /\ GoOn(IF opts.mode = "sync" THEN "sync" ELSE "end")
       \/ NotApplied("changed", FALSE) /\ GoOn("end")
       \/ \E kept \in BOOLEAN : NotApplied("interrupted", kept) /\ GoOn("end")
    /\ UNCHANGED <<opts, adapter, project, projectEdits, snap, settings, read, plan, frozen, seen,
                   doubts, unverified, told, exit>>

(* A tool is reinstalled (ToolApply), which nothing syncs.                 *)
ApplyTool ==
    /\ phase = "reresolve" /\ adapter.tool
    /\ \/ applyOutcome' = [applyOutcome EXCEPT !.applied = TRUE]
       \/ \E why \in {"failed", "interrupted"}, kept \in BOOLEAN : NotApplied(why, kept)
    /\ GoOn("end")
    /\ UNCHANGED <<opts, adapter, project, projectEdits, snap, settings, read, plan, frozen, seen,
                   doubts, unverified, told, exit>>

(* The sync command, through pa run: unusable, failed or interrupted it    *)
(* counts as failed; the files are written by now.                         *)
Sync ==
    /\ phase = "sync"
    /\ \/ applyOutcome' = [applyOutcome EXCEPT !.synced = "yes"]
       \/ \E why \in {"", "interrupted"} : applyOutcome' = [applyOutcome EXCEPT !.synced = "failed", !.reason = why]
    /\ GoOn("end")
    /\ UNCHANGED <<opts, adapter, project, projectEdits, snap, settings, read, plan, frozen, seen,
                   doubts, unverified, told, exit>>

(* Mutant of Complete: advisories a target leaves open are not counted. *)
CompleteIfPlanned == ~plan.separate /\ plan.held = {} /\ (plan.planned # {} => plan.verified)

Complete == ~plan.separate /\ plan.held = {} /\ plan.open = {} /\ (plan.planned # {} => plan.verified)

ExitStatus ==
    LET planned == Complete /\ "osv" \notin doubts /\ unverified = ""
        done == opts.mode # "none" =>
                    /\ applyOutcome.applied \/ applyOutcome.reason = "nothing to apply"
                    /\ applyOutcome.synced # "failed"
    IN IF planned /\ done THEN 0 ELSE 1

(* The rest of the report comes first; an interruption is raised after it. *)
Finish ==
    /\ phase = "end"
    /\ told' = IF opts.json THEN JsonSays
               ELSE told \cup IF opts.mode = "none" THEN {} ELSE ApplySays
    /\ IF applyOutcome.reason = "interrupted" THEN GoOn("raised") /\ UNCHANGED exit ELSE Quit(ExitStatus)
    /\ UNCHANGED <<opts, adapter, project, projectEdits, snap, settings, read, plan, frozen, seen,
                   doubts, unverified, applyOutcome>>

(* Somebody edits the project, or undoes an edit.                          *)
EditProject ==
    /\ projectEdits < MaxProjectEdits
    /\ phase \in Phases \ {"sync", "end", "exited", "raised"}
    /\ project' \in ProjectStates \ {project}
    /\ projectEdits' = projectEdits + 1
    /\ UNCHANGED <<phase, opts, adapter, snap, settings, read, plan, frozen, seen,
                   doubts, unverified, applyOutcome, told, exit>>

FixNext ==
    \/ CheckOptions \/ FindLock \/ TakeSnapshot \/ ReadLock \/ MakePlan \/ Authorise
    \/ Freeze \/ Trial \/ InterruptTrial \/ EndTrials \/ Hold \/ ReportPlan
    \/ StartApply \/ Reresolve \/ WriteFiles \/ ApplyTool \/ Sync \/ Finish
    \/ EditProject

FixSpec == FixInit /\ [][FixNext]_fixVars

-----------------------------------------------------------------------------
(* Properties. *)

FixTypeOK ==
    /\ phase \in Phases /\ opts \in Options /\ adapter \in AdapterType
    /\ project \in ProjectStates /\ projectEdits \in 0..MaxProjectEdits /\ read \in ProjectStates
    /\ snap.content \in ProjectStates \cup {"none"} /\ snap.inputs \in {"listed", "empty", "none"}
    /\ plan.planned \cup plan.held \subseteq Items /\ unverified \in Reasons
    /\ seen \subseteq ProjectStates /\ exit \in {-1, 0, 1, 2}

(* What --apply writes replaces exactly the files its trials judged: every *)
(* trial saw the recorded content, and that content was still there to be  *)
(* replaced, however the project was edited, and edited back, in between.  *)
AppliedAsTrialled ==
    (applyOutcome.applied /\ ~adapter.tool) =>
        /\ plan.verified /\ plan.planned # {}
        /\ seen = {snap.content} /\ project = snap.content

(* Exit status 0 says that nothing vulnerable is left to do: every finding *)
(* in the lock file that was read is planned, verified and closed by its   *)
(* target, every package was looked up and, with --apply, the files are    *)
(* written and no sync failed.                                             *)
ZeroIsFixed ==
    exit = 0 =>
        /\ plan.planned = Vulnerable[read] /\ plan.open = {} /\ "osv" \notin doubts
        /\ plan.planned # {} => plan.verified
        /\ (opts.mode # "none" /\ plan.planned # {}) => applyOutcome.applied /\ applyOutcome.synced # "failed"

(* Any other end of a run that got as far as a plan is explained: exit     *)
(* status 1 comes with a warning that says why, and what was written is    *)
(* never passed over by an interruption.                                   *)
OneIsExplained ==
    /\ exit = 1 => told \cap {"unverified", "held", "open", "separate", "osv",
                              "not applied", "not synced"} # {}
    /\ (phase = "raised" /\ (applyOutcome.backup \/ applyOutcome.applied)) =>
           told \cap {"not applied", "not synced"} # {}

(* What the exit status of `pa fix` and the files it leaves can be taken   *)
(* for.                                                                    *)
ExitCodeIsTrue == AppliedAsTrialled /\ ZeroIsFixed /\ OneIsExplained

=============================================================================
