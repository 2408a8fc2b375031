------------------------------ MODULE ToolApply ------------------------------
(***************************************************************************)
(* `pa fix --tools --apply` on one tool (cli/fix_tools.py, apply_tool, and *)
(* its two adapters in languages/python_fix): the tool and the directory   *)
(* its executables are in are recorded and backed up, the verified command *)
(* runs in the sandbox, and what it leaves is accepted or put back.        *)
(*                                                                         *)
(* What a package builds runs inside the command and may change whatever   *)
(* the sandbox lets it write: the tool, the entries of the executables'    *)
(* directory, and, through a mount the location check did not foresee, the *)
(* directories above them and the backup.  Other programs change the tool  *)
(* and the executables at any time.  MaxToolEdits and MaxBuild bound them. *)
(***************************************************************************)
EXTENDS Naturals, FiniteSets

CONSTANTS Kinds,      \* the tool managers: "uv" and "pipx"
          MaxToolEdits, MaxBuild

VARIABLES at, kind,
          tool, bin,            \* the tool and the executables now
          moved,                \* directories the run replaced: "root", "bin", "backup"
          toolEdits, built,
          plannedTool,          \* the tool as it was planned for
          before, inventory,    \* the tool as backed up, the entries as recorded
          toolBackup,           \* "none", "whole", "changed", "receipt" (copies discarded)
          code,                 \* the command's end: "none", "ok", "failed", "could not run", "interrupted"
          left,                 \* the entries named by the record the run left
          toolOutcome,          \* "none", "refused", "applied", "restored", "in part", "not restored"
          named,                \* the entries the reason names
          elsewhere             \* something was deleted or written outside the recorded directories

toolVars == <<at, kind, tool, bin, moved, toolEdits, built, plannedTool, before, inventory, toolBackup, code,
          left, toolOutcome, named, elsewhere>>

(* The tool's directory: whether it is a real directory of its own, what   *)
(* its record is (the planned one byte for byte, a different one the tool  *)
(* can still be planned from, one of those that claims more executables,   *)
(* one that would be held or names fewer, none that can be read), the      *)
(* versions in it, and whether it still starts.                            *)
Tools == [place : {"own", "link", "absent"}, record : {"planned", "new", "more", "odd", "bad"},
          versions : {"old", "verified", "other"}, starts : BOOLEAN]
Planned == [place |-> "own", record |-> "planned", versions |-> "old", starts |-> TRUE]

(* Entries of the executables' directory, by what they are: a link into    *)
(* the tool, a link elsewhere, small files, a large file, the same with    *)
(* its contents rewritten and its metadata put back, one whose permissions *)
(* alone changed, something that is neither, and one that cannot be read.  *)
Names == {"mine", "theirs", "large", "extra"}
States == {"absent", "tool", "link", "file", "file2", "big", "rewritten", "chmod", "other", "locked"}
IsLarge(s) == s \in {"big", "rewritten", "chmod"}
StartBins == {b \in [Names -> {"absent", "tool", "file", "other", "big"}] :
                 /\ b["mine"] \in {"tool", "absent"}
                 /\ b["theirs"] \in {"file", "other"}
                 /\ b["large"] = "big" /\ b["extra"] = "absent"}

(* _entry_state: rewriting a large file and putting its metadata back is   *)
(* not seen there.                                                         *)
Seen(s) == IF s = "rewritten" THEN "big" ELSE s

(* Adapter.executables: the entries a record names.  A record a build      *)
(* wrote may name what it likes; pipx's executables lie in the tool.       *)
NamedBy(record) ==
    IF kind = "pipx" THEN {}
    ELSE CASE record \in {"planned", "new"} -> {"mine"}
           [] record = "more" -> {"mine", "theirs", "extra"}
           [] OTHER -> {}

HasBin == kind = "uv"

ToolInit ==
    /\ at = "refuse" /\ kind \in Kinds
    /\ tool = Planned /\ bin \in StartBins
    /\ moved = {} /\ toolEdits = 0 /\ built = 0
    /\ plannedTool = Planned /\ before = Planned /\ inventory = bin
    /\ toolBackup = "none" /\ code = "none" /\ left = {}
    /\ toolOutcome = "none" /\ named = {} /\ elsewhere = FALSE

GoTo(to) == at' = to
Refuse == /\ toolOutcome' = "refused"
          /\ GoTo("end")

-----------------------------------------------------------------------------
(* Before anything is read again: what is not verified, held, not the      *)
(* directory planned, or could not be restored from a backup is refused    *)
(* whatever the machine's state, and the user may decline.                 *)
Consider ==
    /\ at = "refuse"
    /\ \/ Refuse
       \/ GoTo("reread") /\ UNCHANGED toolOutcome
    /\ UNCHANGED <<kind, tool, bin, moved, toolEdits, built, plannedTool, before, inventory, toolBackup, code,
                   left, named, elsewhere>>

(* reread_env, in_place: nothing is read through a link.                   *)
Readable == tool.place = "own" /\ "root" \notin moved

Reread ==
    /\ at = "reread"
    /\ IF ~Readable \/ tool.record # plannedTool.record \/ tool.versions # plannedTool.versions
       THEN Refuse
       ELSE GoTo("record") /\ UNCHANGED toolOutcome
    /\ UNCHANGED <<kind, tool, bin, moved, toolEdits, built, plannedTool, before, inventory, toolBackup, code,
                   left, named, elsewhere>>

(* _inventory without an error list: an entry that cannot be read refuses. *)
Record ==
    /\ at = "record"
    /\ IF HasBin /\ \E n \in Names : bin[n] = "locked"
       THEN Refuse /\ UNCHANGED inventory
       ELSE inventory' = bin /\ GoTo("back up") /\ UNCHANGED toolOutcome
    /\ UNCHANGED <<kind, tool, bin, moved, toolEdits, built, plannedTool, before, toolBackup, code,
                   left, named, elsewhere>>

(* _save_executables: small entries are saved as recorded, a large file    *)
(* only while it is still the one recorded.                                *)
Savable == \A n \in Names : inventory[n] = "big" => bin[n] = "big"

(* _backup; what stops short of a whole one (no room, a special file)      *)
(* leaves none.                                                            *)
Whole == before' = tool /\ toolBackup' = "whole"

BackUp ==
    /\ at = "back up"
    /\ \/ Refuse /\ UNCHANGED <<before, toolBackup>>
       \/ /\ HasBin => Savable
          /\ Whole
          /\ GoTo("run") /\ UNCHANGED toolOutcome
    /\ UNCHANGED <<kind, tool, bin, moved, toolEdits, built, plannedTool, inventory, code, left, named,
                   elsewhere>>

-----------------------------------------------------------------------------
(* The command acts where it was resolved before, or does not run.         *)
StartRun ==
    /\ at = "run"
    /\ \/ code' = "could not run" /\ GoTo("read back")
       \/ GoTo("running") /\ UNCHANGED code
    /\ UNCHANGED <<kind, tool, bin, moved, toolEdits, built, plannedTool, before, inventory, toolBackup,
                   left, toolOutcome, named, elsewhere>>

(* What a build does to one thing it can reach.                            *)
Build ==
    /\ at = "running" /\ built < MaxBuild
    /\ built' = built + 1
    /\ \/ \E place \in {"own", "link", "absent"} :
            tool' = [tool EXCEPT !.place = place] /\ UNCHANGED <<bin, moved, toolBackup>>
       \/ \E record \in {"more", "odd", "bad"} :
            tool' = [tool EXCEPT !.record = record] /\ UNCHANGED <<bin, moved, toolBackup>>
       \/ /\ tool' = [tool EXCEPT !.versions = "other"] /\ UNCHANGED <<bin, moved, toolBackup>>
       \/ /\ tool' = [tool EXCEPT !.starts = FALSE] /\ UNCHANGED <<bin, moved, toolBackup>>
       \/ /\ HasBin
          /\ \E n \in Names, s \in States \ {"other"} :
                /\ s # bin[n]
                /\ s \in {"rewritten", "chmod"} => bin[n] = "big"
                /\ s # "big"
                /\ bin' = [bin EXCEPT ![n] = s]
          /\ UNCHANGED <<tool, moved, toolBackup>>
       \/ /\ \E d \in {"root", "backup"} \cup (IF HasBin THEN {"bin"} ELSE {}) :
                moved' = moved \cup {d}
          /\ UNCHANGED <<tool, bin, toolBackup>>
       \/ toolBackup' = "changed" /\ UNCHANGED <<tool, bin, moved>>
    /\ UNCHANGED <<at, kind, toolEdits, plannedTool, before, inventory, code, left, toolOutcome, named, elsewhere>>

(* The command itself: the verified versions, another set, or (a uv build  *)
(* that failed) no tool at all.  uv writes the receipt anew.               *)
EndRun ==
    /\ at = "running"
    /\ \/ /\ code' = "ok"
          /\ tool' = [tool EXCEPT !.versions = IF tool.versions = "other" THEN "other" ELSE "verified",
                                  !.record = IF kind = "uv" /\ tool.record = "planned" THEN "new" ELSE tool.record]
          /\ UNCHANGED bin
       \/ /\ code' \in {"failed", "interrupted"}
          /\ \/ UNCHANGED <<tool, bin>>
             \/ /\ kind = "uv" /\ tool' = [tool EXCEPT !.place = "absent"]
                /\ bin' = [bin EXCEPT !["mine"] = IF bin["mine"] = "tool" THEN "absent" ELSE bin["mine"]]
             \/ tool' = [tool EXCEPT !.versions = "other"] /\ UNCHANGED bin
    /\ GoTo("read back")
    /\ UNCHANGED <<kind, moved, toolEdits, built, plannedTool, before, inventory, toolBackup,
                   left, toolOutcome, named, elsewhere>>

-----------------------------------------------------------------------------
(* end_state_problem, uv: a record pa fix could plan from again, that      *)
(* names every executable it named; pipx: the very same record.            *)
PlannableRecord == tool.record \in {"planned", "new", "more"}
SameRecord == tool.record = plannedTool.record

EndState ==
    /\ Readable /\ tool.starts /\ tool.versions = "verified"
    /\ IF kind = "uv" THEN PlannableRecord ELSE SameRecord

(* A mutant: the entries the record names after the run are the tool's own. *)
UnexpectedTrusting ==
    {n \in Names :
        /\ bin[n] # inventory[n]
        /\ ~(n \in NamedBy(plannedTool.record) \cup NamedBy(tool.record) /\ bin[n] \in {"absent", "tool"})}

(* _unexpected_executables: what changed, by contents for a large file,    *)
(* but for the entries the record named before the run that are now a link *)
(* into the tool or gone.                                                  *)
Unexpected ==
    {n \in Names :
        /\ bin[n] # inventory[n]
        /\ ~(n \in NamedBy(plannedTool.record) /\ bin[n] \in {"absent", "tool"})}

Accepted ==
    /\ code = "ok" /\ EndState
    /\ HasBin => "bin" \notin moved /\ Unexpected = {}

(* _discard_copies, in the backup directory that was recorded.             *)
DiscardedCopies == IF "backup" \in moved THEN toolBackup ELSE "receipt"

Accept ==
    /\ at = "read back" /\ Accepted
    /\ toolBackup' = DiscardedCopies
    /\ toolOutcome' = "applied" /\ GoTo("end")
    /\ UNCHANGED <<kind, tool, bin, moved, toolEdits, built, plannedTool, before, inventory, code,
                   left, named, elsewhere>>

(* _restore_environment: only in the tools directory recorded, only from   *)
(* the backup as it was made.                                              *)
MayRestore == "root" \notin moved /\ toolBackup = "whole" /\ "backup" \notin moved

RestoreTool ==
    /\ at = "read back" /\ ~Accepted
    /\ left' = IF Readable THEN NamedBy(tool.record) ELSE {}
    /\ IF MayRestore
       THEN /\ tool' = IF toolBackup = "whole" THEN before ELSE [before EXCEPT !.versions = "other"]
            /\ elsewhere' = ("root" \in moved)
            /\ GoTo("restore executables") /\ UNCHANGED toolOutcome
       ELSE toolOutcome' = "not restored" /\ GoTo("end") /\ UNCHANGED <<tool, elsewhere>>
    /\ UNCHANGED <<kind, bin, moved, toolEdits, built, plannedTool, before, inventory, toolBackup, code, named>>

-----------------------------------------------------------------------------
(* The entries _restore_executables looks at: those a record names, those  *)
(* added, those there and changed, and every large one.  An entry that     *)
(* cannot be read is not among those there.                                *)
There == {n \in Names : bin[n] \notin {"absent", "locked"}}
(* The record read back is the one before any restore (left_metadata).     *)
LookedAt ==
    NamedBy(plannedTool.record) \cup left
    \cup {n \in There : inventory[n] = "absent"}
    \cup {n \in There : inventory[n] # "absent" /\ Seen(bin[n]) # Seen(inventory[n])}
    \cup {n \in Names : IsLarge(inventory[n])}

(* What becomes of one entry: put back, or left when it was never saved.   *)
PutBackEntry(n) ==
    CASE bin[n] = inventory[n] -> bin[n]
      [] inventory[n] = "other" \/ bin[n] = "locked" -> bin[n]
      [] OTHER -> inventory[n]

Failed(n) == bin[n] = "locked" \/ (bin[n] # inventory[n] /\ inventory[n] = "other")

(* An entry added that does not lead into the tool is moved out and named. *)
MovedOut(n) == inventory[n] = "absent" /\ bin[n] \notin {"absent", "tool", "locked"}

RestoreExecutables ==
    /\ at = "restore executables"
    /\ \/ ~HasBin /\ toolOutcome' = "restored" /\ UNCHANGED <<bin, named>>
       \/ HasBin /\ "bin" \in moved /\ toolOutcome' = "in part" /\ named' = Names /\ UNCHANGED bin
       \/ /\ HasBin /\ "bin" \notin moved
          /\ bin' = [n \in Names |-> IF n \in LookedAt THEN PutBackEntry(n) ELSE bin[n]]
          /\ LET bad == {n \in Names : bin[n] = "locked"} \cup {n \in LookedAt : Failed(n)}
             IN  /\ named' = bad \cup {n \in LookedAt : MovedOut(n)}
                 /\ toolOutcome' = IF bad = {} THEN "restored" ELSE "in part"
    /\ GoTo("end")
    /\ UNCHANGED <<kind, tool, moved, toolEdits, built, plannedTool, before, inventory, toolBackup, code,
                   left, elsewhere>>

-----------------------------------------------------------------------------
(* Another program upgrades the tool, or installs an executable, before    *)
(* the command runs.                                                       *)
EditTool ==
    /\ toolEdits < MaxToolEdits /\ at \in {"refuse", "reread", "record", "back up"}
    /\ toolEdits' = toolEdits + 1
    /\ \/ \E v \in {"other"}, r \in {"planned", "new"} :
            tool' = [tool EXCEPT !.versions = v, !.record = r] /\ UNCHANGED bin
       \/ \E s \in {"file2", "locked"} :
            bin' = [bin EXCEPT !["theirs"] = s] /\ UNCHANGED tool
       \/ bin' = [bin EXCEPT !["large"] = "absent"] /\ UNCHANGED tool
    /\ UNCHANGED <<at, kind, moved, built, plannedTool, before, inventory, toolBackup, code,
                   left, toolOutcome, named, elsewhere>>

Done == at = "end" /\ UNCHANGED toolVars

ToolNext == Consider \/ Reread \/ Record \/ BackUp \/ StartRun \/ Build \/ EndRun \/ Accept
        \/ RestoreTool \/ RestoreExecutables \/ EditTool \/ Done

ToolSpec == ToolInit /\ [][ToolNext]_toolVars

-----------------------------------------------------------------------------
ToolTypeOK ==
    /\ tool \in Tools /\ plannedTool \in Tools /\ before \in Tools
    /\ bin \in [Names -> States] /\ inventory \in [Names -> States]
    /\ moved \subseteq {"root", "bin", "backup"}
    /\ left \subseteq Names /\ named \subseteq Names

(* A run is reported as applied only when the tool, in its own directory,  *)
(* starts at the verified versions, and no executable but the tool's own   *)
(* differs from what was there, by its contents, whatever the record the   *)
(* run left says: build code plants no command under a run pa accepts.     *)
AppliedIsVerified ==
    toolOutcome = "applied" =>
        /\ Readable /\ tool.starts /\ tool.versions = "verified"
        /\ HasBin => /\ "bin" \notin moved
                     /\ \A n \in Names : \/ bin[n] = inventory[n]
                                         \/ n = "mine" /\ bin[n] \in {"tool", "absent"}

(* After a run that failed, was cut short or was not accepted, the tool is *)
(* the one backed up, and no entry of the executables' directory is new or *)
(* changed, in its contents too, without being named; nothing was written  *)
(* in a directory the run put in the place of one recorded before; and     *)
(* the whole backup is still there.                                        *)
FailedIsUndone ==
    /\ toolOutcome \in {"restored", "in part"} =>
           /\ tool = before /\ toolBackup = "whole"
           /\ HasBin => \A n \in Names : bin[n] \in {inventory[n], "absent"} \cup
                                             (IF n \in named THEN States ELSE {})
    /\ ~elsewhere
    /\ toolOutcome = "not restored" => toolBackup # "receipt"

(* A tool that is said to be updated is the one that was verified, and one *)
(* that was not is as it was before, or the user has been told.            *)
ToolIsUpdatedOrBack == AppliedIsVerified /\ FailedIsUndone

(* What the report says, "restored as it was", read as what it says:       *)
(* every entry that was there before the run is there again.               *)
RestoredAsItWas == toolOutcome = "restored" /\ HasBin => bin = inventory

=============================================================================
