----------------------------- MODULE FixWrite ------------------------------
(***************************************************************************)
(* `pa fix --apply` writes the files of a verified plan into the project:  *)
(* remediate/apply.py, _writing and what it calls, and the end of          *)
(* apply_plan.                                                             *)
(*                                                                         *)
(* A new file is exchanged with its target in one step and what came out   *)
(* is looked at afterwards.  Another program may replace or remove the     *)
(* targets between any two steps, an interruption may fall anywhere, and   *)
(* the process may be killed.  A file is its content.  Its permission bits *)
(* are left out: the checks before and after a rename compare them too,    *)
(* but _put_back, _discard_temporary and the look at the file in flight    *)
(* compare bytes only, so a change of the bits alone may be lost there.    *)
(***************************************************************************)
EXTENDS Integers, Sequences, FiniteSets, Functions

CONSTANTS
  Order,       \* the files written, in their order
  Others,      \* the other files checked
  Fresh,       \* the files written that did not exist
  Versions,    \* what other programs may write, each once
  Undos, Deletes, Interrupts, Failures  \* bounds

Files == {Order[i] : i \in 1 .. Len(Order)}
Watched == Files \cup Others

\* What is written is not empty, each file once, and differs from what was there.
FixWriteAssumption ==
  /\ Len(Order) \in Nat \ {0} /\ \A j, k \in 1 .. Len(Order) : Order[j] = Order[k] => j = k
  /\ Fresh \subseteq Files /\ Files \cap Others = {}
  /\ Versions \cap {"absent", "original", "new"} = {}
  /\ {Undos, Deletes, Interrupts, Failures} \subseteq Nat

Contents == {"absent", "original", "new"} \cup Versions
original == [f \in Watched |-> IF f \in Fresh THEN "absent" ELSE "original"]

VARIABLES
  disk,       \* what is at each file's own path
  tmp,        \* what is in the temporary file made for it
  side,       \* what is in the temporary file its restoring uses
  kept,       \* versions set aside under a visible name
  backup,     \* whether the originals' backup exists
  pc,
  i,          \* the file at hand, as an index of Order
  todo,       \* files the check under way has still to read
  done,       \* files renamed into place
  inFlight,   \* the file whose rename has begun and is not recorded, as a set
  cause,      \* what stopped the write
  unrestored, \* files that could not be put back
  ending,     \* what is reported
  owed,       \* versions other programs wrote and have not themselves replaced
  touched,    \* files other programs have written or removed
  off,        \* files that were not as planned when the last check began
  used        \* what has been used of the bounds

write == <<backup, cause, unrestored, ending>>
others == <<owed, touched, used>>
vars == <<disk, tmp, side, kept, pc, i, todo, done, inFlight, off, write, others>>

Writing == {"temporaries", "checking", "swapped", "return", "return if gone", "keep"}
Undoing == {"undo", "return in flight", "return in flight if gone", "keep in flight",
            "restore", "taken", "kept out", "exchange", "exchanged",
            "return restored", "return restored if gone", "keep restored"}

TypeOK ==
  /\ disk \in [Watched -> Contents] /\ tmp \in [Files -> Contents] /\ side \in [Files -> Contents]
  /\ kept \subseteq Contents /\ backup \in BOOLEAN
  /\ pc \in Writing \cup Undoing \cup {"discard", "ended", "killed"}
  /\ i \in 1 .. Len(Order) + 1
  /\ todo \subseteq Watched /\ done \subseteq Files /\ inFlight \subseteq Files
  /\ cause \in {"none", "changed", "failed", "not atomic", "interrupted"}
  /\ unrestored \subseteq Files
  /\ ending \in {"none", "applied", "changed", "failed", "not atomic", "restored", "interrupted"}
  /\ owed \subseteq Versions /\ touched \subseteq Watched /\ off \subseteq Watched
  /\ used \in [{"undos", "deletes", "interrupts", "failures"} -> Nat]

Nothing(S) == [f \in S |-> "absent"]

\* From the making of the backup on.
Init ==
  /\ disk = original
  /\ tmp = Nothing(Files) /\ side = Nothing(Files) /\ kept = {}
  /\ backup = TRUE
  /\ pc = "temporaries" /\ i = 1 /\ todo = {} /\ done = {} /\ inFlight = {}
  /\ cause = "none" /\ unrestored = {} /\ ending = "none"
  /\ owed = {} /\ touched = {} /\ off = {}
  /\ used = [undos |-> 0, deletes |-> 0, interrupts |-> 0, failures |-> 0]

Use(what, bound) == used[what] < bound /\ used' = [used EXCEPT ![what] = @ + 1]

\* The process goes on at l with its files, and what it remembers of them, as they were.
Goto(l) == pc' = l
KeepFiles == UNCHANGED <<disk, tmp, side, kept>>
KeepPlace == UNCHANGED <<i, todo, done, inFlight, off>>

F == Order[i]

-----------------------------------------------------------------------------
(* Other programs.                                                         *)

Forget(f) == owed \ {disk[f]}

\* Mutable only by its replacement: a version is never written twice.
Replace(f) ==
  /\ \E v \in Versions : v \notin owed /\ v \notin Range(disk) /\ v \notin kept
       /\ v \notin Range(tmp) /\ v \notin Range(side)
       /\ disk' = [disk EXCEPT ![f] = v] /\ owed' = Forget(f) \cup {v}
  /\ UNCHANGED used

ChangeBack(f) ==
  /\ disk[f] # original[f] /\ original[f] # "absent" /\ Use("undos", Undos)
  /\ disk' = [disk EXCEPT ![f] = original[f]] /\ owed' = Forget(f)

Remove(f) ==
  /\ disk[f] # "absent" /\ Use("deletes", Deletes)
  /\ disk' = [disk EXCEPT ![f] = "absent"] /\ owed' = Forget(f)

Other(f) ==
  /\ pc \notin {"ended", "killed"}
  /\ Replace(f) \/ ChangeBack(f) \/ Remove(f)
  /\ touched' = touched \cup {f} /\ off' = off \ {f}
  /\ UNCHANGED <<tmp, side, kept, pc, i, todo, done, inFlight, write>>

-----------------------------------------------------------------------------
(* Renames: each is one step of the file system.                           *)

\* RENAME_EXCHANGE of a temporary file and its target.
Exchange(temp, f) ==
  disk[f] # "absent" /\ temp[f] # "absent" /\ disk' = [disk EXCEPT ![f] = temp[f]]

\* _set_aside
SetAside(v) == kept' = kept \cup {v}

-----------------------------------------------------------------------------
(* The write.                                                              *)

AllChecked == Watched

\* An exception leaves the write for its rollback.
Raise(what, flight) ==
  /\ Goto("undo") /\ cause' = what /\ inFlight' = flight /\ i' = 1 /\ todo' = {}
  /\ UNCHANGED <<done, off, backup, unrestored, ending>>

\* ... or, before anything is renamed, for its end.
Leave(how) ==
  /\ Goto("discard") /\ ending' = how /\ i' = 1 /\ todo' = {}
  /\ UNCHANGED <<done, inFlight, off, backup, cause, unrestored>>

MakeTemporary ==
  /\ pc = "temporaries"
  /\ tmp' = [tmp EXCEPT ![F] = "new"]
  /\ IF i < Len(Order) THEN i' = i + 1 /\ pc' = pc /\ todo' = todo /\ off' = off
     ELSE i' = 1 /\ Goto("checking") /\ todo' = AllChecked
          /\ off' = {f \in Watched : disk[f] # original[f]}
  /\ UNCHANGED <<disk, side, kept, done, inFlight, write, others>>

\* The disk is full, or the target is no regular file.
TemporaryFails ==
  /\ pc = "temporaries" /\ Use("failures", Failures) /\ Leave("failed")
  /\ KeepFiles /\ UNCHANGED <<owed, touched>>

\* ours_intact and unchanged, of one file.
AsPlanned(f) == disk[f] = IF f \in done THEN "new" ELSE original[f]

\* still_as_planned reads the files one after the other.
ReadPlanned ==
  /\ pc = "checking"
  /\ \E f \in todo : AsPlanned(f) /\ todo' = todo \ {f}
  /\ KeepFiles /\ UNCHANGED <<pc, i, done, inFlight, off, write, others>>

ReadChanged ==
  /\ pc = "checking" /\ (\E f \in todo : ~AsPlanned(f)) /\ Raise("changed", {})
  /\ KeepFiles /\ UNCHANGED others

Rename == pc = "checking" /\ todo = {} /\ i <= Len(Order)

\* _swap_in, its rename.
SwapIn ==
  /\ Rename /\ original[F] # "absent" /\ Exchange(tmp, F)
  /\ tmp' = [tmp EXCEPT ![F] = disk[F]]
  /\ Goto("swapped") /\ inFlight' = {F}
  /\ UNCHANGED <<side, kept, i, todo, done, off, write, others>>

SwapInFresh ==
  /\ Rename /\ original[F] = "absent" /\ disk[F] = "absent"
  /\ disk' = [disk EXCEPT ![F] = "new"] /\ tmp' = [tmp EXCEPT ![F] = "absent"]
  /\ Goto("swapped") /\ inFlight' = {F}
  /\ UNCHANGED <<side, kept, i, todo, done, off, write, others>>

\* Something has appeared, or the target has gone.
SwapInFails ==
  /\ Rename
  /\ \/ original[F] = "absent" /\ disk[F] # "absent" /\ Raise("changed", {})
     \/ original[F] # "absent" /\ disk[F] = "absent" /\ Raise("failed", {F})
  /\ KeepFiles /\ UNCHANGED others

\* The rename fails in another way.
RenameFails ==
  /\ Rename /\ Use("failures", Failures) /\ Raise("failed", {F})
  /\ KeepFiles /\ UNCHANGED <<owed, touched>>

\* The file system has no such renames: the first of them finds out.
NotAtomic ==
  /\ Rename /\ done = {} /\ Raise("not atomic", {})
  /\ KeepFiles /\ UNCHANGED others

\* What came out is what was there.
Expected(f) == original[f] = "absent" \/ tmp[f] = original[f]

Swapped ==
  /\ pc = "swapped" /\ Expected(F)
  /\ done' = done \cup {F} /\ inFlight' = {} /\ i' = i + 1
  /\ Goto("checking") /\ todo' = AllChecked
  /\ off' = {f \in Watched : disk[f] # IF f \in done \cup {F} THEN "new" ELSE original[f]}
  /\ KeepFiles /\ UNCHANGED <<write, others>>

SwappedAnother ==
  /\ pc = "swapped" /\ ~Expected(F) /\ Goto("return")
  /\ KeepFiles /\ KeepPlace /\ UNCHANGED <<write, others>>

\* _put_back, first by an exchange: what comes out must be what was put there.
PutBack(at, after, gone, keep, temp, temp2, f, ours) ==
  /\ pc = at
  /\ \/ /\ Exchange(temp, f) /\ temp2 = [temp EXCEPT ![f] = disk[f]]
        /\ Goto(IF disk[f] = ours THEN after ELSE keep)
     \/ /\ disk[f] = "absent" /\ Goto(gone) /\ UNCHANGED disk /\ temp2 = temp

\* ... then, the target having gone, without replacing anything.
PutBackGone(at, after, keep, temp, temp2, f) ==
  /\ pc = at
  /\ \/ /\ disk[f] = "absent" /\ disk' = [disk EXCEPT ![f] = temp[f]]
        /\ temp2 = [temp EXCEPT ![f] = "absent"] /\ Goto(after)
     \/ /\ disk[f] # "absent" /\ Goto(keep) /\ UNCHANGED disk /\ temp2 = temp

\* _keep_aside
KeepAside(at, temp, temp2, f) ==
  /\ pc = at /\ SetAside(temp[f]) /\ temp2 = [temp EXCEPT ![f] = "absent"] /\ UNCHANGED disk

\* _swap_in puts another writer's file back: _ProjectChanged, or _DisplacedKept.
Return ==
  /\ PutBack("return", "undo", "return if gone", "keep", tmp, tmp', F, "new")
     \/ PutBackGone("return if gone", "undo", "keep", tmp, tmp', F)
  /\ IF pc' = "undo" THEN cause' = "changed" /\ inFlight' = {} /\ i' = 1
     ELSE UNCHANGED <<cause, inFlight, i>>
  /\ UNCHANGED <<side, kept, todo, done, off, backup, unrestored, ending, others>>

ReturnKept ==
  /\ KeepAside("keep", tmp, tmp', F) /\ Raise("failed", {})
  /\ UNCHANGED <<side, others>>

\* The last check has passed.
Applied ==
  /\ pc = "checking" /\ todo = {} /\ i > Len(Order) /\ Leave("applied")
  /\ KeepFiles /\ UNCHANGED others

-----------------------------------------------------------------------------
(* The rollback.  i goes through Order again, over the files that are done. *)

Flying == CHOOSE f \in inFlight : TRUE

Landed == inFlight # {} /\ disk[Flying] = "new"

\* Mutant: the rollback goes by what is recorded alone.
InFlightForgotten ==
  /\ pc = "undo" /\ Landed
  /\ inFlight' = {} /\ Goto("restore") /\ UNCHANGED done
  /\ KeepFiles /\ UNCHANGED <<i, todo, off, write, others>>

\* The file in flight: its exchange was made, and what came out never looked at.
InFlightOurs ==
  /\ pc = "undo" /\ Landed
  /\ IF original[Flying] = "absent"
     THEN done' = done \cup inFlight /\ inFlight' = {} /\ Goto("restore")
     ELSE Goto("return in flight") /\ UNCHANGED <<done, inFlight>>
  /\ KeepFiles /\ UNCHANGED <<i, todo, off, write, others>>

\* The exchange was made and the target has changed since.
InFlightUnknown(f) == tmp[f] # "new"

InFlightOther ==
  /\ pc = "undo" /\ ~Landed
  /\ unrestored' = IF inFlight # {} /\ InFlightUnknown(Flying) THEN unrestored \cup inFlight
                   ELSE unrestored
  /\ inFlight' = {} /\ Goto("restore")
  /\ KeepFiles /\ UNCHANGED <<i, todo, done, off, backup, cause, ending, others>>

ReturnInFlight ==
  /\ \/ PutBack("return in flight", "restore", "return in flight if gone", "keep in flight",
                tmp, tmp', Flying, "new")
     \/ PutBackGone("return in flight if gone", "restore", "keep in flight", tmp, tmp', Flying)
  /\ inFlight' = IF pc' = "restore" THEN {} ELSE inFlight
  /\ UNCHANGED <<side, kept, i, todo, done, off, write, others>>

KeepInFlight ==
  /\ KeepAside("keep in flight", tmp, tmp', Flying) /\ Goto("restore")
  /\ unrestored' = unrestored \cup inFlight /\ inFlight' = {}
  /\ UNCHANGED <<side, i, todo, done, off, backup, cause, ending, others>>

\* The next file to restore.
Restoring == pc = "restore" /\ i <= Len(Order)

\* Past a file, which could be restored or not.
Past(restored) ==
  /\ Goto("restore") /\ i' = i + 1
  /\ unrestored' = IF restored THEN unrestored ELSE unrestored \cup {F}
  /\ UNCHANGED <<todo, done, inFlight, off, backup, cause, ending>>

NotDone ==
  /\ Restoring /\ F \notin done /\ Past(TRUE)
  /\ KeepFiles /\ UNCHANGED others

\* Somebody else has written it since: theirs is kept.
NotOurs ==
  /\ Restoring /\ F \in done /\ disk[F] # "new" /\ Past(FALSE)
  /\ KeepFiles /\ UNCHANGED others

Ours ==
  /\ Restoring /\ F \in done /\ disk[F] = "new"
  /\ IF original[F] = "absent" THEN Goto("taken") /\ UNCHANGED side
     ELSE Goto("exchange") /\ side' = [side EXCEPT ![F] = "original"]
  /\ UNCHANGED <<disk, tmp, kept>> /\ KeepPlace /\ UNCHANGED <<write, others>>

\* _write_temp fails.
RestoreFails ==
  /\ Restoring /\ F \in done /\ disk[F] = "new" /\ original[F] # "absent"
  /\ Use("failures", Failures) /\ Past(FALSE)
  /\ KeepFiles /\ UNCHANGED <<owed, touched>>

\* _take_out moves a fresh file aside, and removes it there if it is ours.
TakeOut ==
  /\ pc = "taken" /\ disk[F] # "absent"
  /\ disk' = [disk EXCEPT ![F] = "absent"] /\ side' = [side EXCEPT ![F] = disk[F]]
  /\ Goto("kept out")
  /\ UNCHANGED <<tmp, kept>> /\ KeepPlace /\ UNCHANGED <<write, others>>

TakeOutGone ==
  /\ pc = "taken" /\ disk[F] = "absent" /\ Past(FALSE)
  /\ KeepFiles /\ UNCHANGED others

TakenOurs(f) == side[f] = "new"

TakenOut ==
  /\ pc = "kept out" /\ UNCHANGED tmp
  /\ side' = [side EXCEPT ![F] = "absent"]
  /\ \/ TakenOurs(F) /\ Past(TRUE) /\ UNCHANGED <<disk, kept>>
     \/ /\ ~TakenOurs(F) /\ disk[F] = "absent" /\ Past(FALSE)
        /\ disk' = [disk EXCEPT ![F] = side[F]] /\ UNCHANGED kept
     \/ ~TakenOurs(F) /\ disk[F] # "absent" /\ Past(FALSE) /\ SetAside(side[F]) /\ UNCHANGED disk
  /\ UNCHANGED others

\* _discard_temporary: what is known is removed, what is not is kept.
Discard(temp, f) == IF temp[f] \in {"absent", "original", "new"} THEN UNCHANGED kept
                    ELSE SetAside(temp[f])

\* _swap_in puts the original back.
ExchangeBack ==
  /\ pc = "exchange"
  /\ \/ /\ Exchange(side, F) /\ side' = [side EXCEPT ![F] = disk[F]] /\ Goto("exchanged")
        /\ KeepPlace /\ UNCHANGED write
     \/ /\ disk[F] = "absent" /\ side' = [side EXCEPT ![F] = "absent"] /\ Past(FALSE)
        /\ UNCHANGED disk
  /\ UNCHANGED <<tmp, kept, others>>

ExchangedBack ==
  /\ pc = "exchanged"
  /\ IF side[F] = "new" THEN Past(TRUE) /\ side' = [side EXCEPT ![F] = "absent"]
     ELSE Goto("return restored") /\ KeepPlace /\ UNCHANGED <<write, side>>
  /\ UNCHANGED <<disk, tmp, kept, others>>

ReturnRestored ==
  /\ \/ PutBack("return restored", "restore", "return restored if gone", "keep restored",
                side, side', F, "original")
     \/ PutBackGone("return restored if gone", "restore", "keep restored", side, side', F)
  /\ IF pc' = "restore"
     THEN i' = i + 1 /\ unrestored' = unrestored \cup {F}
     ELSE UNCHANGED <<i, unrestored>>
  /\ UNCHANGED <<tmp, kept, todo, done, inFlight, off, backup, cause, ending, others>>

KeepRestored ==
  /\ KeepAside("keep restored", side, side', F) /\ Past(FALSE)
  /\ UNCHANGED <<tmp, others>>

\* What the rollback raises, and apply_plan makes of it.
Ending ==
  IF unrestored # {} THEN "failed"
  ELSE IF cause = "interrupted" THEN "restored" ELSE cause

Restored ==
  /\ pc = "restore" /\ i > Len(Order)
  /\ Goto("discard") /\ ending' = Ending /\ i' = 1
  /\ KeepFiles /\ UNCHANGED <<todo, done, inFlight, off, backup, cause, unrestored, others>>

-----------------------------------------------------------------------------
(* The end.                                                                *)

DiscardTemporary ==
  /\ pc = "discard" /\ i <= Len(Order)
  /\ Discard(tmp, F) /\ tmp' = [tmp EXCEPT ![F] = "absent"]
  /\ i' = i + 1
  /\ UNCHANGED <<disk, side, pc, todo, done, inFlight, off, write, others>>

\* How apply_plan ends with the backup kept.
BackupKept(how) == how \in {"applied", "failed", "interrupted"}

End ==
  /\ pc = "discard" /\ i > Len(Order)
  /\ Goto("ended") /\ backup' = BackupKept(ending)
  /\ KeepFiles /\ KeepPlace /\ UNCHANGED <<cause, unrestored, ending, others>>

-----------------------------------------------------------------------------
(* Interruptions, at any step.                                             *)

InterruptWrite ==
  /\ pc \in Writing \ {"temporaries"} /\ Use("interrupts", Interrupts)
  /\ Raise("interrupted", IF pc \in {"swapped", "return", "return if gone", "keep"} THEN {F} ELSE {})
  /\ KeepFiles /\ UNCHANGED <<owed, touched>>

InterruptTemporaries ==
  /\ pc = "temporaries" /\ Use("interrupts", Interrupts) /\ Leave("interrupted")
  /\ KeepFiles /\ UNCHANGED <<owed, touched>>

\* The files of a restoring that _swap_in had begun are discarded on the way out.
InterruptRollback ==
  /\ pc \in Undoing /\ Use("interrupts", Interrupts) /\ Leave("interrupted")
  /\ IF pc \in {"exchange", "exchanged", "return restored", "return restored if gone", "keep restored"}
     THEN Discard(side, F) /\ side' = [side EXCEPT ![F] = "absent"]
     ELSE UNCHANGED <<side, kept>>
  /\ UNCHANGED <<disk, tmp, owed, touched>>

InterruptEnd ==
  /\ pc = "discard" /\ Use("interrupts", Interrupts)
  /\ ending' = "interrupted" /\ i' = Len(Order) + 1
  /\ KeepFiles /\ UNCHANGED <<pc, todo, done, inFlight, off, backup, cause, unrestored, owed, touched>>

Kill ==
  /\ pc \notin {"ended", "killed"} /\ Goto("killed")
  /\ KeepFiles /\ KeepPlace /\ UNCHANGED <<write, others>>

Next ==
  \/ \E f \in Watched : Other(f)
  \/ MakeTemporary \/ TemporaryFails \/ ReadPlanned \/ ReadChanged
  \/ SwapIn \/ SwapInFresh \/ SwapInFails \/ RenameFails \/ NotAtomic \/ Swapped \/ SwappedAnother
  \/ Return \/ ReturnKept \/ Applied
  \/ InFlightOurs \/ InFlightOther \/ ReturnInFlight \/ KeepInFlight
  \/ NotDone \/ NotOurs \/ Ours \/ RestoreFails \/ TakeOut \/ TakeOutGone \/ TakenOut
  \/ ExchangeBack \/ ExchangedBack \/ ReturnRestored \/ KeepRestored \/ Restored
  \/ DiscardTemporary \/ End
  \/ InterruptWrite \/ InterruptTemporaries \/ InterruptRollback \/ InterruptEnd \/ Kill

Spec == Init /\ [][Next]_vars

-----------------------------------------------------------------------------
(* Properties.                                                             *)

Hidden == Range(tmp) \cup Range(side)
Visible == Range(disk) \cup kept

\* Whatever another program wrote, and has not itself replaced, is on the disk: at its
\* path, set aside under a visible name or in a temporary file, but in no temporary file
\* once the write has ended without a further interruption.
\* (_writing: "a change made while writing is never overwritten", _discard_temporary)
VersionsAreKept ==
  owed \subseteq Visible \cup (IF pc = "ended" /\ ending # "interrupted" THEN {} ELSE Hidden)

\* When it is said that nothing was written, no file of the fix is in place.
\* (apply_plan: _ProjectChanged, _NoAtomicRename, _InterruptedRestored)
UntouchedWhenSaid ==
  pc = "ended" /\ ending \in {"changed", "not atomic", "restored"} => \A f \in Files : disk[f] # "new"

\* While an original is not at its path, and no other program took it away, the backup
\* has it: whatever fails, is interrupted or is killed.  (_backup, apply_plan)
OriginalsAreKept ==
  backup \/ \A f \in Files : disk[f] = original[f] \/ f \in touched

\* A file that was not as planned when the last check began, and was not changed back,
\* keeps the fix from being reported as applied.
\* (_writing: "never reported as applied")
AppliedSawEveryChange == ending = "applied" => off = {}

\* No content another program wrote is lost, a project said to be untouched is, the
\* originals are kept until they are back, and what was applied saw every change.
NothingIsLost == VersionsAreKept /\ UntouchedWhenSaid /\ OriginalsAreKept /\ AppliedSawEveryChange
=============================================================================
