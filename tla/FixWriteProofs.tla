--------------------------- MODULE FixWriteProofs ---------------------------
(***************************************************************************)
(* Theorems about FixWrite: for any files, versions of other programs and  *)
(* numbers of failures and interruptions, a write loses nothing and says   *)
(* what it has done.  About ToolApply: however often a tool is edited, it  *)
(* is the verified one or the one backed up.  About FixCommand: for any    *)
(* packages, adapters and contents of the project, the exit status of      *)
(* `pa fix` is true.                                                       *)
(***************************************************************************)
EXTENDS FixWrite, ToolApply, FixCommand, FiniteSetTheorems, TLAPS

Positions == 1 .. Len(Order)

Renamed == {"swapped", "return", "return if gone", "keep"}
Flights == {"return in flight", "return in flight if gone", "keep in flight"}
Restoration == {"restore", "taken", "kept out", "exchange", "exchanged",
                "return restored", "return restored if gone", "keep restored"}
Touching == Restoration \ {"restore"}

\* Where the write is, and what it remembers of it.
Place ==
  /\ pc \in {"temporaries"} \cup Renamed \cup Touching => i \in Positions
  /\ pc = "temporaries" => done = {}
  /\ pc \in Writing \ {"temporaries"} => done = {Order[j] : j \in 1 .. i - 1}
  /\ pc \in Writing => ending = "none" /\ inFlight = IF pc \in Renamed THEN {F} ELSE {}
  /\ pc \in Undoing => ending = "none" /\ cause # "none"
  /\ pc \in Flights => inFlight # {}
  /\ pc \in {"undo"} \cup Flights => i = 1
  /\ pc \in Restoration => inFlight = {}
  /\ \A f, g \in inFlight : f = g
  /\ pc \in Touching => F \in done
  /\ pc # "ended" => backup

\* Where a version of another program can be.
Somewhere(v) ==
  v \in kept \/ (\E f \in Watched : disk[f] = v) \/ (\E f \in Files : tmp[f] = v \/ side[f] = v)

Held == \A v \in owed : Somewhere(v)

\* A temporary file with another program's version in it is never overwritten: the files
\* still to be renamed have the fix's in theirs ...
Waiting ==
  /\ pc = "temporaries" => \A j \in Positions : tmp[Order[j]] = IF j < i THEN "new" ELSE "absent"
  /\ pc = "checking" => \A j \in Positions : j >= i => tmp[Order[j]] = "new"
  /\ pc \in Renamed => \A j \in Positions : j > i => tmp[Order[j]] = "new"

\* ... and only an exchange just made leaves one in a file's restoring.
Carrying == {"kept out", "exchanged", "return restored", "return restored if gone", "keep restored"}

Carried == pc \in Writing \cup Undoing =>
  \A f \in Files : side[f] \in Versions => f = F /\ pc \in Carrying

\* At the end none is left with one, unless the end was interrupted.
Discarding ==
  /\ pc \in {"discard", "ended"} /\ ending # "interrupted" =>
       /\ \A f \in Files : side[f] \notin Versions
       /\ \A j \in Positions : j < i => tmp[Order[j]] \notin Versions
  /\ pc = "ended" /\ ending # "interrupted" => i > Len(Order)

\* The file is as other programs have it ...
Back(f) == disk[f] # "new" /\ (disk[f] = original[f] \/ f \in touched)
\* ... or it is the fix's, unless one of them has changed it since.
Placed(f) == disk[f] = "new" \/ f \in touched

\* Before the files are restored, one that is neither done nor in flight is as others have it.
Before == Writing \cup {"undo"} \cup Flights

DoneOrBack == pc \in Before =>
  \A f \in Files : IF f \in done THEN Placed(f) /\ f \notin inFlight ELSE f \in inFlight \/ Back(f)

\* The fix's content is in place or in its temporary file, never in both.
OneNew == pc \in Writing \cup {"undo"} => \A f \in Files :
  /\ disk[f] = "new" => tmp[f] # "new"
  /\ f \in inFlight =>
       \/ Back(f)
       \/ disk[f] = "new" /\ (f \in touched \/ tmp[f] = original[f] \/ original[f] = "absent")

\* What an exchange that has not been looked at, or is being undone, has left.
Exchanged ==
  /\ pc = "swapped" => Placed(F)
  /\ pc \in Renamed \ {"keep"} => tmp[F] # "new"
  /\ pc \in Renamed \ {"swapped"} => F \in touched
  /\ pc \in {"return if gone", "keep"} => disk[F] # "new"
  /\ \A f \in inFlight :
       /\ pc \in Flights \ {"keep in flight"} => tmp[f] # "new"
       /\ pc = "return in flight" => f \in touched \/ (disk[f] = "new" /\ tmp[f] = original[f])
       /\ pc = "return in flight if gone" => f \in touched

InPlace == DoneOrBack /\ OneNew /\ Exchanged

\* While they are, those passed are back or named as not restored.
BackOrNamed == pc \in Restoration => \A j \in Positions :
  IF j < i \/ Order[j] \notin done THEN Back(Order[j]) \/ Order[j] \in unrestored
  ELSE Placed(Order[j]) \/ (j = i /\ pc # "restore")

AtHand ==
  /\ pc = "taken" => original[F] = "absent" /\ Placed(F)
  /\ pc = "exchange" => side[F] = "original" /\ original[F] = "original" /\ Placed(F)
  /\ pc \in {"kept out", "exchanged"} => Back(F)

Rolling == BackOrNamed /\ AtHand

\* What is said at the end is so.
Truthful ==
  /\ pc \in {"discard", "ended"} => ending # "none" /\
       (ending \in {"changed", "not atomic", "restored"} => \A f \in Files : Back(f))
  /\ ending = "applied" => off = {}
  /\ pc = "checking" => off \subseteq todo /\ \A f \in off : ~AsPlanned(f)
  /\ ~backup => ending \in {"changed", "not atomic", "restored"}

Inv == TypeOK /\ Place /\ Held /\ Waiting /\ Carried /\ Discarding /\ InPlace /\ Rolling /\ Truthful

-----------------------------------------------------------------------------
(* The files at hand and what they hold.                                   *)

LEMMA NextPosition ==
  ASSUME FixWriteAssumption
  PROVE  /\ 1 \in 1 .. Len(Order) + 1 /\ Len(Order) + 1 \in 1 .. Len(Order) + 1
         /\ \A j \in Positions : j + 1 \in 1 .. Len(Order) + 1
         /\ \A j \in 1 .. Len(Order) + 1 : j <= Len(Order) => j \in Positions
  BY DEF FixWriteAssumption, Positions

LEMMA AtFile ==
  ASSUME FixWriteAssumption, TypeOK, Place
  PROVE  /\ i <= Len(Order) => i \in Positions /\ F \in Files
         /\ pc \in {"temporaries", "swapped", "return", "return if gone", "keep",
                    "taken", "kept out", "exchange", "exchanged", "return restored",
                    "return restored if gone", "keep restored"} => i \in Positions /\ F \in Files
<1>1. i \in 1 .. Len(Order) + 1
  BY DEF TypeOK
<1>2. \A j \in Positions : Order[j] \in Files
  BY DEF Positions, Files
<1> QED
  BY <1>1, <1>2, NextPosition DEF Place, F, Renamed, Touching, Restoration

LEMMA InTheAir ==
  ASSUME TypeOK, Place, inFlight # {}
  PROVE  Flying \in Files /\ inFlight = {Flying}
<1>1. Flying \in inFlight
  BY DEF Flying
<1> QED
  BY <1>1 DEF TypeOK, Place

LEMMA ContentsAre == {"absent", "original", "new"} \cup Versions = Contents
  BY DEF Contents

LEMMA OriginalsAre ==
  /\ \A f \in Watched : original[f] \in {"absent", "original"} /\ original[f] \in Contents
  /\ Files \subseteq Watched
  BY DEF Watched, original, Contents

LEMMA UseTyped ==
  ASSUME TypeOK, NEW what \in {"undos", "deletes", "interrupts", "failures"}, NEW bound,
         Use(what, bound)
  PROVE  used' \in [{"undos", "deletes", "interrupts", "failures"} -> Nat]
<1>1. used[what] \in Nat
  BY DEF TypeOK
<1>2. used[what] + 1 \in Nat
  BY <1>1
<1> QED
  BY <1>2 DEF Use, TypeOK

\* A temporary file is discarded, but not another program's version.
LEMMA Discarded ==
  ASSUME TypeOK, NEW temp \in [Files -> Contents], NEW f \in Files, Discard(temp, f)
  PROVE  kept' \subseteq Contents /\ kept \subseteq kept'
<1>1. CASE UNCHANGED kept
  BY <1>1 DEF TypeOK
<1>2. CASE kept' = kept \cup {temp[f]}
  BY <1>2 DEF TypeOK
<1> QED
  BY <1>1, <1>2 DEF Discard, SetAside

LEMMA IndexNext ==
  ASSUME FixWriteAssumption, TypeOK, Place, [Next]_vars
  PROVE  i' \in 1 .. Len(Order) + 1
<1>7. i \in 1 .. Len(Order) + 1
  BY DEF TypeOK
<1>1. ASSUME NEW f \in Watched, Other(f) PROVE i' = i
  BY <1>1 DEF Other
<1>10. ASSUME UNCHANGED vars PROVE i' = i
  BY <1>10 DEF vars
<1>11. ASSUME InterruptEnd PROVE i' = Len(Order) + 1
  BY <1>11 DEF InterruptEnd
<1>2. ASSUME ReadPlanned \/ SwapIn \/ SwapInFresh \/ SwappedAnother \/ InFlightOurs \/
        InFlightOther \/ ReturnInFlight \/ KeepInFlight \/ Ours \/ TakeOut \/ End \/
        Kill
      PROVE  i' = i
  BY <1>2 DEF ReadPlanned, SwapIn, SwapInFresh, SwappedAnother, InFlightOurs,
        InFlightOther, ReturnInFlight, KeepInFlight, Ours, TakeOut, End, Kill, KeepPlace
<1>3. ASSUME TemporaryFails \/ ReadChanged \/ SwapInFails \/ RenameFails \/ NotAtomic \/
             ReturnKept \/ Applied \/ Restored \/ InterruptWrite \/ InterruptTemporaries \/ InterruptRollback
      PROVE  i' = 1
  BY <1>3 DEF TemporaryFails, ReadChanged, SwapInFails, RenameFails, NotAtomic, ReturnKept,
        Applied, Restored, InterruptWrite, InterruptTemporaries, InterruptRollback, Raise,
        Leave
<1>8. i <= Len(Order) => i \in Positions
  BY <1>7, NextPosition
<1>4. ASSUME NotDone \/ NotOurs \/ RestoreFails \/ DiscardTemporary PROVE i \in Positions
      /\ i' = i + 1
  BY <1>4, <1>8 DEF NotDone, NotOurs, RestoreFails, DiscardTemporary, Past, Restoring
<1>9. ASSUME Swapped \/ TakeOutGone \/ TakenOut \/ KeepRestored PROVE i \in Positions /\ i' = i + 1
  BY <1>9, AtFile DEF Swapped, TakeOutGone, TakenOut, KeepRestored, KeepAside, Past
<1>5. ASSUME MakeTemporary \/ Return \/ ExchangeBack \/ ExchangedBack \/ ReturnRestored
      PROVE  i' = 1 \/ i' = i \/ (i \in Positions /\ i' = i + 1)
  BY <1>5, AtFile DEF MakeTemporary, Return, ExchangeBack, ExchangedBack, ReturnRestored, Past,
     PutBack, PutBackGone, KeepPlace
<1>6. i' = i \/ i' = 1 \/ i' = Len(Order) + 1 \/ (i \in Positions /\ i' = i + 1)
  BY <1>1, <1>2, <1>3, <1>4, <1>5, <1>9, <1>10, <1>11 DEF Next
<1> QED
  BY <1>6, <1>7, NextPosition

LEMMA TypeNext ==
  ASSUME FixWriteAssumption, TypeOK, Place, [Next]_vars
  PROVE  TypeOK'
<1>1. ASSUME NEW f \in Watched, Other(f) PROVE TypeOK'
  <2>1. disk' \in [Watched -> Contents]
    BY <1>1, ContentsAre, OriginalsAre DEF Other, Replace, ChangeBack, Remove, TypeOK
  <2>3. owed' \subseteq Versions
    BY <1>1 DEF Other, Replace, ChangeBack, Remove, Forget, TypeOK
  <2>2. used' \in [{"undos", "deletes", "interrupts", "failures"} -> Nat]
    BY <1>1, UseTyped DEF Other, Replace, ChangeBack, Remove, TypeOK
  <2> QED
    BY <1>1, <2>1, <2>2, <2>3, IndexNext DEF Other, write, TypeOK
<1>2. ASSUME MakeTemporary PROVE TypeOK'
  BY <1>2, IndexNext, AtFile, ContentsAre, UseTyped
     DEF MakeTemporary, F, Goto, AllChecked, write, others, TypeOK, Writing, Undoing
<1>3. ASSUME TemporaryFails PROVE TypeOK'
  BY <1>3, IndexNext, AtFile, ContentsAre, UseTyped
     DEF TemporaryFails, Use, Leave, KeepFiles, Goto, TypeOK, Writing, Undoing
<1>4. ASSUME ReadPlanned PROVE TypeOK'
  BY <1>4, IndexNext, AtFile, ContentsAre, UseTyped
     DEF ReadPlanned, AsPlanned, KeepFiles, write, others, TypeOK, Writing, Undoing
<1>5. ASSUME ReadChanged PROVE TypeOK'
  BY <1>5, IndexNext, AtFile, ContentsAre, UseTyped
     DEF ReadChanged, AsPlanned, Raise, KeepFiles, others, Goto, TypeOK, Writing, Undoing
<1>6. ASSUME SwapIn PROVE TypeOK'
  BY <1>6, IndexNext, AtFile, ContentsAre, OriginalsAre
     DEF SwapIn, Rename, F, Exchange, Goto, write, others, TypeOK, Writing, Undoing
<1>7. ASSUME SwapInFresh PROVE TypeOK'
  BY <1>7, IndexNext, AtFile, ContentsAre, UseTyped
     DEF SwapInFresh, Rename, F, Goto, write, others, TypeOK, Writing, Undoing
<1>8. ASSUME SwapInFails PROVE TypeOK'
  BY <1>8, IndexNext, AtFile, ContentsAre, UseTyped
     DEF SwapInFails, Rename, F, Raise, KeepFiles, others, Goto, TypeOK, Writing, Undoing
<1>9. ASSUME RenameFails PROVE TypeOK'
  BY <1>9, IndexNext, AtFile, ContentsAre, UseTyped
     DEF RenameFails, Rename, Use, Raise, F, KeepFiles, Goto, TypeOK, Writing, Undoing
<1>10. ASSUME NotAtomic PROVE TypeOK'
  BY <1>10, IndexNext, AtFile, ContentsAre, UseTyped
     DEF NotAtomic, Rename, Raise, KeepFiles, others, Goto, TypeOK, Writing, Undoing
<1>11. ASSUME Swapped PROVE TypeOK'
  BY <1>11, IndexNext, AtFile, ContentsAre, UseTyped
     DEF Swapped, Expected, F, Goto, AllChecked, KeepFiles, write, others, TypeOK, Writing,
        Undoing
<1>12. ASSUME SwappedAnother PROVE TypeOK'
  BY <1>12, IndexNext, AtFile, ContentsAre, UseTyped
     DEF SwappedAnother, Expected, F, Goto, KeepFiles, KeepPlace, write, others, TypeOK,
        Writing, Undoing
<1>13. ASSUME Return PROVE TypeOK'
  <2>1. F \in Files
    BY <1>13, AtFile DEF Return, PutBack, PutBackGone
  <2>2. disk' \in [Watched -> Contents] /\ tmp' \in [Files -> Contents]
    BY <1>13, <2>1, ContentsAre, OriginalsAre
       DEF Return, PutBack, PutBackGone, Exchange, TypeOK
  <2>3. pc' \in Writing \cup Undoing
    BY <1>13 DEF Return, PutBack, PutBackGone, Goto, Writing, Undoing
  <2>4. cause' \in {"none", "changed", "failed", "not atomic", "interrupted"}
        /\ inFlight' \subseteq Files
    BY <1>13 DEF Return, TypeOK
  <2> QED
    BY <1>13, <2>2, <2>3, <2>4, IndexNext DEF Return, others, TypeOK
<1>14. ASSUME ReturnKept PROVE TypeOK'
  BY <1>14, IndexNext, AtFile, ContentsAre, UseTyped
     DEF ReturnKept, KeepAside, F, Raise, others, SetAside, Goto, TypeOK, Writing, Undoing
<1>15. ASSUME Applied PROVE TypeOK'
  BY <1>15, IndexNext, AtFile, ContentsAre, UseTyped
     DEF Applied, Leave, KeepFiles, others, Goto, TypeOK, Writing, Undoing
<1>16. ASSUME InFlightOurs PROVE TypeOK'
  BY <1>16, IndexNext, AtFile, ContentsAre, UseTyped
     DEF InFlightOurs, Landed, Goto, KeepFiles, write, others, TypeOK, Writing, Undoing
<1>17. ASSUME InFlightOther PROVE TypeOK'
  BY <1>17, IndexNext, AtFile, ContentsAre, UseTyped
     DEF InFlightOther, Landed, InFlightUnknown, Goto, KeepFiles, others, TypeOK, Writing,
        Undoing
<1>18. ASSUME ReturnInFlight PROVE TypeOK'
  BY <1>18, IndexNext, InTheAir, ContentsAre, OriginalsAre
     DEF ReturnInFlight, PutBack, PutBackGone, write, others, Exchange, Goto, TypeOK,
        Writing, Undoing, Place, Flights
<1>19. ASSUME KeepInFlight PROVE TypeOK'
  <2>1. inFlight # {}
    BY <1>19 DEF KeepInFlight, KeepAside, Place, Flights
  <2>2. Flying \in Files
    BY <2>1, InTheAir
  <2>3. kept' \subseteq Contents /\ tmp' \in [Files -> Contents]
    BY <1>19, <2>2, ContentsAre DEF KeepInFlight, KeepAside, SetAside, TypeOK
  <2> QED
    BY <1>19, <2>3, IndexNext DEF KeepInFlight, KeepAside, Goto, others, TypeOK, Undoing
<1>20. ASSUME NotDone PROVE TypeOK'
  BY <1>20, IndexNext, AtFile, ContentsAre, UseTyped
     DEF NotDone, Restoring, F, Past, KeepFiles, others, Goto, TypeOK, Writing, Undoing
<1>21. ASSUME NotOurs PROVE TypeOK'
  BY <1>21, IndexNext, AtFile, ContentsAre, UseTyped
     DEF NotOurs, Restoring, F, Past, KeepFiles, others, Goto, TypeOK, Writing, Undoing
<1>22. ASSUME Ours PROVE TypeOK'
  BY <1>22, IndexNext, AtFile, ContentsAre, UseTyped
     DEF Ours, Restoring, F, Goto, KeepPlace, write, others, TypeOK, Writing, Undoing
<1>23. ASSUME RestoreFails PROVE TypeOK'
  BY <1>23, IndexNext, AtFile, ContentsAre, UseTyped
     DEF RestoreFails, Restoring, F, Use, Past, KeepFiles, Goto, TypeOK, Writing, Undoing
<1>24. ASSUME TakeOut PROVE TypeOK'
  BY <1>24, IndexNext, AtFile, ContentsAre, OriginalsAre
     DEF TakeOut, F, Goto, KeepPlace, write, others, TypeOK, Writing, Undoing
<1>25. ASSUME TakeOutGone PROVE TypeOK'
  BY <1>25, IndexNext, AtFile, ContentsAre, UseTyped
     DEF TakeOutGone, F, Past, KeepFiles, others, Goto, TypeOK, Writing, Undoing
<1>26. ASSUME TakenOut PROVE TypeOK'
  <2>1. F \in Files
    BY <1>26, AtFile DEF TakenOut
  <2>2. disk' \in [Watched -> Contents] /\ side' \in [Files -> Contents] /\ kept' \subseteq Contents
    BY <1>26, <2>1, ContentsAre, OriginalsAre DEF TakenOut, SetAside, TypeOK
  <2>3. unrestored' \subseteq Files
    BY <1>26, <2>1 DEF TakenOut, Past, TypeOK
  <2> QED
    BY <1>26, <2>2, <2>3, IndexNext DEF TakenOut, Past, Goto, others, TypeOK, Undoing
<1>27. ASSUME ExchangeBack PROVE TypeOK'
  <2>1. F \in Files
    BY <1>27, AtFile DEF ExchangeBack
  <2>2. disk' \in [Watched -> Contents] /\ side' \in [Files -> Contents]
    BY <1>27, <2>1, ContentsAre, OriginalsAre DEF ExchangeBack, Exchange, TypeOK
  <2>3. pc' \in Undoing /\ unrestored' \subseteq Files
    BY <1>27, <2>1 DEF ExchangeBack, Past, Goto, write, TypeOK, Undoing
  <2> QED
    BY <1>27, <2>2, <2>3, IndexNext DEF ExchangeBack, Past, KeepPlace, write, others, TypeOK
<1>28. ASSUME ExchangedBack PROVE TypeOK'
  BY <1>28, IndexNext, AtFile, ContentsAre, UseTyped
     DEF ExchangedBack, F, Past, Goto, KeepPlace, write, others, TypeOK, Writing, Undoing
<1>29. ASSUME ReturnRestored PROVE TypeOK'
  <2>1. F \in Files
    BY <1>29, AtFile DEF ReturnRestored, PutBack, PutBackGone
  <2>2. disk' \in [Watched -> Contents] /\ side' \in [Files -> Contents]
    BY <1>29, <2>1, ContentsAre, OriginalsAre
       DEF ReturnRestored, PutBack, PutBackGone, Exchange, TypeOK
  <2>3. pc' \in Undoing
    BY <1>29 DEF ReturnRestored, PutBack, PutBackGone, Goto, Undoing
  <2>4. unrestored' \subseteq Files
    BY <1>29, <2>1 DEF ReturnRestored, TypeOK
  <2> QED
    BY <1>29, <2>2, <2>3, <2>4, IndexNext DEF ReturnRestored, others, TypeOK
<1>30. ASSUME KeepRestored PROVE TypeOK'
  BY <1>30, IndexNext, AtFile, ContentsAre, UseTyped
     DEF KeepRestored, KeepAside, F, Past, others, SetAside, Goto, TypeOK, Writing, Undoing
<1>31. ASSUME Restored PROVE TypeOK'
  BY <1>31, IndexNext, AtFile, ContentsAre, UseTyped
     DEF Restored, Goto, Ending, KeepFiles, others, TypeOK, Writing, Undoing
<1>32. ASSUME DiscardTemporary PROVE TypeOK'
  <2>1. F \in Files
    BY <1>32, AtFile DEF DiscardTemporary
  <2>2. kept' \subseteq Contents /\ tmp' \in [Files -> Contents]
    BY <1>32, <2>1, ContentsAre, Discarded DEF DiscardTemporary, TypeOK
  <2> QED
    BY <1>32, <2>2, IndexNext DEF DiscardTemporary, write, others, TypeOK
<1>33. ASSUME End PROVE TypeOK'
  <2>1. backup' \in BOOLEAN
    BY <1>33 DEF End, BackupKept
  <2> QED
    BY <1>33, <2>1, IndexNext DEF End, Goto, KeepFiles, KeepPlace, others, TypeOK
<1>34. ASSUME InterruptWrite PROVE TypeOK'
  BY <1>34, IndexNext, AtFile, ContentsAre, UseTyped
     DEF InterruptWrite, Writing, Use, Raise, F, KeepFiles, Goto, TypeOK, Undoing
<1>35. ASSUME InterruptTemporaries PROVE TypeOK'
  BY <1>35, IndexNext, AtFile, ContentsAre, UseTyped
     DEF InterruptTemporaries, Use, Leave, KeepFiles, Goto, TypeOK, Writing, Undoing
<1>36. ASSUME InterruptRollback PROVE TypeOK'
  <2>1. kept' \subseteq Contents /\ side' \in [Files -> Contents]
    <3>1. CASE pc \in {"exchange", "exchanged", "return restored", "return restored if gone",
                     "keep restored"}
      <4>1. F \in Files
        BY <3>1, AtFile
      <4> QED
        BY <1>36, <3>1, <4>1, ContentsAre, Discarded DEF InterruptRollback, TypeOK
    <3>2. CASE UNCHANGED <<side, kept>>
      BY <3>2 DEF TypeOK
    <3> QED
      BY <1>36, <3>1, <3>2 DEF InterruptRollback
  <2>2. used' \in [{"undos", "deletes", "interrupts", "failures"} -> Nat]
    BY <1>36, UseTyped DEF InterruptRollback
  <2> QED
    BY <1>36, <2>1, <2>2, IndexNext DEF InterruptRollback, Leave, Goto, TypeOK
<1>37. ASSUME InterruptEnd PROVE TypeOK'
  BY <1>37, IndexNext, AtFile, ContentsAre, UseTyped
     DEF InterruptEnd, Use, KeepFiles, TypeOK, Writing, Undoing
<1>38. ASSUME Kill PROVE TypeOK'
  BY <1>38, IndexNext, AtFile, ContentsAre, UseTyped
     DEF Kill, Goto, KeepFiles, KeepPlace, write, others, TypeOK, Writing, Undoing
<1>39. ASSUME UNCHANGED vars PROVE TypeOK'
  BY <1>39 DEF vars, write, others, TypeOK
<1> QED
  BY <1>1, <1>2, <1>3, <1>4, <1>5, <1>6, <1>7, <1>8, <1>9, <1>10, <1>11, <1>12, <1>13,
        <1>14, <1>15, <1>16, <1>17, <1>18, <1>19, <1>20, <1>21, <1>22, <1>23, <1>24, <1>25,
        <1>26, <1>27, <1>28, <1>29, <1>30, <1>31, <1>32, <1>33, <1>34, <1>35, <1>36, <1>37,
        <1>38, <1>39 DEF Next

LEMMA DoneAre ==
  ASSUME FixWriteAssumption
  PROVE  /\ {Order[j] : j \in 1 .. 1 - 1} = {}
         /\ \A n \in Positions :
              {Order[j] : j \in 1 .. n - 1} \cup {Order[n]} = {Order[j] : j \in 1 .. (n + 1) - 1}
<1>1. \A n \in Positions : 1 .. (n + 1) - 1 = (1 .. n - 1) \cup {n}
  BY DEF Positions, FixWriteAssumption
<1> QED
  BY <1>1

LEMMA PlaceNext ==
  ASSUME FixWriteAssumption, TypeOK, Place, [Next]_vars
  PROVE  Place'
<1>1. ASSUME NEW f \in Watched, Other(f) PROVE Place'
  BY <1>1 DEF Other, write, F, Place, Renamed, Flights, Restoration, Touching, Writing,
        Undoing
<1>2. ASSUME MakeTemporary PROVE Place'
  <2>1. i \in Positions /\ i + 1 \in 1 .. Len(Order) + 1 /\ (i < Len(Order) => i + 1 \in Positions)
    <3>1. i \in Positions
      BY <1>2, AtFile DEF MakeTemporary
    <3> QED
      BY <3>1, NextPosition DEF Positions, FixWriteAssumption
  <2>2. CASE i < Len(Order)
    BY <1>2, <2>1, <2>2 DEF MakeTemporary, write, Place, Renamed, Flights, Restoration, Touching,
       Writing, Undoing
  <2>3. CASE ~(i < Len(Order))
    BY <1>2, <2>3, DoneAre DEF MakeTemporary, Goto, write, Place, Renamed, Flights, Restoration,
       Touching, Writing, Undoing
  <2> QED
    BY <2>2, <2>3
<1>3. ASSUME TemporaryFails PROVE Place'
  BY <1>3, NextPosition, AtFile, DoneAre
     DEF TemporaryFails, Use, Leave, KeepFiles, Goto, Place, Renamed, Flights, Restoration,
        Touching, Writing, Undoing
<1>4. ASSUME ReadPlanned PROVE Place'
  BY <1>4, NextPosition, AtFile, DoneAre
     DEF ReadPlanned, AsPlanned, KeepFiles, write, others, Place, Renamed, Flights,
        Restoration, Touching, Writing, Undoing
<1>5. ASSUME ReadChanged PROVE Place'
  BY <1>5, NextPosition, AtFile, DoneAre
     DEF ReadChanged, AsPlanned, Raise, KeepFiles, others, Goto, Place, Renamed, Flights,
        Restoration, Touching, Writing, Undoing
<1>6. ASSUME SwapIn PROVE Place'
  <2>1. i \in Positions
    BY <1>6, AtFile DEF SwapIn, Rename
  <2> QED
    BY <1>6, <2>1 DEF SwapIn, Rename, Raise, Goto, Exchange, KeepFiles, F, write, Place,
        Renamed, Flights, Restoration, Touching, Writing, Undoing
<1>7. ASSUME SwapInFresh PROVE Place'
  <2>1. i \in Positions
    BY <1>7, AtFile DEF SwapInFresh, Rename
  <2> QED
    BY <1>7, <2>1 DEF SwapInFresh, Rename, Raise, Goto, Exchange, KeepFiles, F, write,
        Place, Renamed, Flights, Restoration, Touching, Writing, Undoing
<1>8. ASSUME SwapInFails PROVE Place'
  <2>1. /\ pc' = "undo" /\ cause' # "none" /\ i' = 1 /\ inFlight' \in {{}, {F}}
        /\ UNCHANGED <<done, backup, ending>> /\ pc = "checking"
    BY <1>8 DEF SwapInFails, Rename, Raise, Goto
  <2> QED
    BY <2>1 DEF Place, Renamed, Flights, Restoration, Touching, Writing, Undoing
<1>9. ASSUME RenameFails PROVE Place'
  BY <1>9, NextPosition, AtFile, DoneAre
     DEF RenameFails, Rename, Use, Raise, F, KeepFiles, Goto, Place, Renamed, Flights,
        Restoration, Touching, Writing, Undoing
<1>10. ASSUME NotAtomic PROVE Place'
  BY <1>10, NextPosition, AtFile, DoneAre
     DEF NotAtomic, Rename, Raise, KeepFiles, others, Goto, Place, Renamed, Flights,
        Restoration, Touching, Writing, Undoing
<1>11. ASSUME Swapped PROVE Place'
  BY <1>11, NextPosition, AtFile, DoneAre
     DEF Swapped, Expected, F, Goto, AllChecked, KeepFiles, write, others, Place, Renamed,
        Flights, Restoration, Touching, Writing, Undoing
<1>12. ASSUME SwappedAnother PROVE Place'
  BY <1>12, NextPosition, AtFile, DoneAre
     DEF SwappedAnother, Expected, F, Goto, KeepFiles, KeepPlace, write, others, Place,
        Renamed, Flights, Restoration, Touching, Writing, Undoing
<1>13. ASSUME Return PROVE Place'
  BY <1>13, NextPosition, AtFile, DoneAre
     DEF Return, PutBack, F, PutBackGone, others, Exchange, Goto, Place, Renamed, Flights,
        Restoration, Touching, Writing, Undoing
<1>14. ASSUME ReturnKept PROVE Place'
  BY <1>14, NextPosition, AtFile, DoneAre
     DEF ReturnKept, KeepAside, F, Raise, others, SetAside, Goto, Place, Renamed, Flights,
        Restoration, Touching, Writing, Undoing
<1>15. ASSUME Applied PROVE Place'
  BY <1>15, NextPosition, AtFile, DoneAre
     DEF Applied, Leave, KeepFiles, others, Goto, Place, Renamed, Flights, Restoration,
        Touching, Writing, Undoing
<1>16. ASSUME InFlightOurs PROVE Place'
  BY <1>16, NextPosition, AtFile, DoneAre
     DEF InFlightOurs, Landed, Goto, KeepFiles, write, others, Place, Renamed, Flights,
        Restoration, Touching, Writing, Undoing
<1>17. ASSUME InFlightOther PROVE Place'
  BY <1>17, NextPosition, AtFile, DoneAre
     DEF InFlightOther, Landed, InFlightUnknown, Goto, KeepFiles, others, Place, Renamed,
        Flights, Restoration, Touching, Writing, Undoing
<1>18. ASSUME ReturnInFlight PROVE Place'
  BY <1>18, NextPosition, AtFile, DoneAre
     DEF ReturnInFlight, PutBack, PutBackGone, write, others, Exchange, Goto, Place,
        Renamed, Flights, Restoration, Touching, Writing, Undoing
<1>19. ASSUME KeepInFlight PROVE Place'
  BY <1>19, NextPosition, AtFile, DoneAre
     DEF KeepInFlight, KeepAside, Goto, others, SetAside, Place, Renamed, Flights,
        Restoration, Touching, Writing, Undoing
<1>20. ASSUME NotDone PROVE Place'
  BY <1>20, NextPosition, AtFile, DoneAre
     DEF NotDone, Restoring, F, Past, KeepFiles, others, Goto, Place, Renamed, Flights,
        Restoration, Touching, Writing, Undoing
<1>21. ASSUME NotOurs PROVE Place'
  BY <1>21, NextPosition, AtFile, DoneAre
     DEF NotOurs, Restoring, F, Past, KeepFiles, others, Goto, Place, Renamed, Flights,
        Restoration, Touching, Writing, Undoing
<1>22. ASSUME Ours PROVE Place'
  BY <1>22, NextPosition, AtFile, DoneAre
     DEF Ours, Restoring, F, Goto, KeepPlace, write, others, Place, Renamed, Flights,
        Restoration, Touching, Writing, Undoing
<1>23. ASSUME RestoreFails PROVE Place'
  BY <1>23, NextPosition, AtFile, DoneAre
     DEF RestoreFails, Restoring, F, Use, Past, KeepFiles, Goto, Place, Renamed, Flights,
        Restoration, Touching, Writing, Undoing
<1>24. ASSUME TakeOut PROVE Place'
  BY <1>24, NextPosition, AtFile, DoneAre
     DEF TakeOut, F, Goto, KeepPlace, write, others, Place, Renamed, Flights, Restoration,
        Touching, Writing, Undoing
<1>25. ASSUME TakeOutGone PROVE Place'
  BY <1>25, NextPosition, AtFile, DoneAre
     DEF TakeOutGone, F, Past, KeepFiles, others, Goto, Place, Renamed, Flights,
        Restoration, Touching, Writing, Undoing
<1>26. ASSUME TakenOut PROVE Place'
  BY <1>26, NextPosition, AtFile, DoneAre
     DEF TakenOut, F, TakenOurs, Past, SetAside, others, Goto, Place, Renamed, Flights,
        Restoration, Touching, Writing, Undoing
<1>27. ASSUME ExchangeBack PROVE Place'
  BY <1>27, NextPosition, AtFile, DoneAre
     DEF ExchangeBack, Exchange, F, Goto, KeepPlace, write, Past, others, Place, Renamed,
        Flights, Restoration, Touching, Writing, Undoing
<1>28. ASSUME ExchangedBack PROVE Place'
  <2>1. /\ pc = "exchanged" /\ UNCHANGED <<done, inFlight, cause, ending, backup>>
        /\ pc' = "restore" \/ (pc' = "return restored" /\ i' = i)
    BY <1>28 DEF ExchangedBack, Past, Goto, KeepPlace, write
  <2> QED
    BY <2>1 DEF Place, Renamed, Flights, Restoration, Touching, Writing, Undoing, F
<1>29. ASSUME ReturnRestored PROVE Place'
  BY <1>29, NextPosition, AtFile, DoneAre
     DEF ReturnRestored, PutBack, F, PutBackGone, others, Exchange, Goto, Place, Renamed,
        Flights, Restoration, Touching, Writing, Undoing
<1>30. ASSUME KeepRestored PROVE Place'
  BY <1>30, NextPosition, AtFile, DoneAre
     DEF KeepRestored, KeepAside, F, Past, others, SetAside, Goto, Place, Renamed, Flights,
        Restoration, Touching, Writing, Undoing
<1>31. ASSUME Restored PROVE Place'
  BY <1>31, NextPosition, AtFile, DoneAre
     DEF Restored, Goto, Ending, KeepFiles, others, Place, Renamed, Flights, Restoration,
        Touching, Writing, Undoing
<1>32. ASSUME DiscardTemporary PROVE Place'
  BY <1>32, NextPosition, AtFile, DoneAre
     DEF DiscardTemporary, Discard, F, write, others, SetAside, Place, Renamed, Flights,
        Restoration, Touching, Writing, Undoing
<1>33. ASSUME End PROVE Place'
  BY <1>33, NextPosition, AtFile, DoneAre
     DEF End, Goto, BackupKept, KeepFiles, KeepPlace, others, Place, Renamed, Flights,
        Restoration, Touching, Writing, Undoing
<1>34. ASSUME InterruptWrite PROVE Place'
  BY <1>34, NextPosition, AtFile, DoneAre
     DEF InterruptWrite, Writing, Use, Raise, F, KeepFiles, Goto, Place, Renamed, Flights,
        Restoration, Touching, Undoing
<1>35. ASSUME InterruptTemporaries PROVE Place'
  BY <1>35, NextPosition, AtFile, DoneAre
     DEF InterruptTemporaries, Use, Leave, KeepFiles, Goto, Place, Renamed, Flights,
        Restoration, Touching, Writing, Undoing
<1>36. ASSUME InterruptRollback PROVE Place'
  BY <1>36, NextPosition, AtFile, DoneAre
     DEF InterruptRollback, Undoing, Use, Leave, Discard, F, Goto, SetAside, Place,
        Renamed, Flights, Restoration, Touching, Writing
<1>37. ASSUME InterruptEnd PROVE Place'
  BY <1>37, NextPosition, AtFile, DoneAre
     DEF InterruptEnd, Use, KeepFiles, Place, Renamed, Flights, Restoration, Touching,
        Writing, Undoing
<1>38. ASSUME Kill PROVE Place'
  BY <1>38, NextPosition, AtFile, DoneAre
     DEF Kill, Goto, KeepFiles, KeepPlace, write, others, Place, Renamed, Flights,
        Restoration, Touching, Writing, Undoing
<1>39. ASSUME UNCHANGED vars PROVE Place'
  BY <1>39 DEF vars, write, others, F, Place, Renamed, Flights, Restoration, Touching,
        Writing, Undoing
<1> QED
  BY <1>1, <1>2, <1>3, <1>4, <1>5, <1>6, <1>7, <1>8, <1>9, <1>10, <1>11, <1>12, <1>13,
        <1>14, <1>15, <1>16, <1>17, <1>18, <1>19, <1>20, <1>21, <1>22, <1>23, <1>24, <1>25,
        <1>26, <1>27, <1>28, <1>29, <1>30, <1>31, <1>32, <1>33, <1>34, <1>35, <1>36, <1>37,
        <1>38, <1>39 DEF Next

LEMMA NotBefore == ASSUME FixWriteAssumption PROVE \A j \in Positions : ~(j < j)
  BY DEF Positions, FixWriteAssumption

LEMMA FilesTyped ==
  ASSUME TypeOK
  PROVE  /\ disk \in [Watched -> Contents] /\ tmp \in [Files -> Contents]
    /\ side \in [Files -> Contents]
         /\ Files \subseteq Watched
  BY DEF TypeOK, Watched

LEMMA VersionsApart ==
  ASSUME FixWriteAssumption
  PROVE  "absent" \notin Versions /\ "original" \notin Versions /\ "new" \notin Versions
  BY DEF FixWriteAssumption

\* A step on one file's paths holds what it held if no version at one of them is dropped.
Elsewhere(f) ==
  /\ \A g \in Watched \ {f} : disk'[g] = disk[g]
  /\ \A g \in Files \ {f} : tmp'[g] = tmp[g] /\ side'[g] = side[g]

HeldAt(f) == \A v \in Versions : v \in {disk[f], tmp[f], side[f]} =>
               v \in kept' \cup {disk'[f], tmp'[f], side'[f]}

LEMMA StillHeld ==
  ASSUME TypeOK, Held, NEW f \in Files, owed' = owed, kept \subseteq kept', Elsewhere(f), HeldAt(f)
  PROVE  Held'
<1>1. SUFFICES ASSUME NEW v \in owed PROVE Somewhere(v)'
  BY DEF Held
<1>2. v \in Versions /\ f \in Watched /\ Somewhere(v)
  BY DEF TypeOK, Held, Watched
<1>3. CASE v \in kept \/ v \in {disk[f], tmp[f], side[f]}
  <2>1. v \in kept' \cup {disk'[f], tmp'[f], side'[f]}
    BY <1>2, <1>3 DEF HeldAt
  <2> QED
    BY <1>2, <2>1 DEF Somewhere
<1>4. CASE \E g \in Watched \ {f} : disk[g] = v
  BY <1>4 DEF Elsewhere, Somewhere
<1>5. CASE \E g \in Files \ {f} : tmp[g] = v \/ side[g] = v
  BY <1>5 DEF Elsewhere, Somewhere
<1> QED
  BY <1>2, <1>3, <1>4, <1>5 DEF Somewhere

LEMMA HeldNext ==
  ASSUME FixWriteAssumption, TypeOK, Place, Held, Waiting, Carried, [Next]_vars
  PROVE  Held'
<1>1. ASSUME NEW f \in Watched, Other(f) PROVE Held'
  BY <1>1, FilesTyped DEF Other, Replace, ChangeBack, Remove, Forget, Held, Somewhere
<1>2. ASSUME MakeTemporary PROVE Held'
  <2>1. F \in Files
    BY <1>2, AtFile DEF MakeTemporary
  <2>2. owed' = owed /\ kept \subseteq kept' /\ Elsewhere(F)
    BY <1>2, <2>1, FilesTyped DEF MakeTemporary, Goto, AllChecked, others, others,
        Elsewhere
  <2>3. tmp[F] = "absent"
    BY <1>2, AtFile, NotBefore DEF MakeTemporary, Waiting, F
  <2>4. HeldAt(F)
    BY <1>2, <2>1, <2>3, FilesTyped, VersionsApart DEF MakeTemporary, Goto, AllChecked,
        others, HeldAt
  <2> QED
    BY <2>1, <2>2, <2>4, StillHeld
<1>3. ASSUME TemporaryFails PROVE Held'
  BY <1>3 DEF TemporaryFails, KeepFiles, others, Held, Somewhere, Leave
<1>4. ASSUME ReadPlanned PROVE Held'
  BY <1>4 DEF ReadPlanned, KeepFiles, others, Held, Somewhere
<1>5. ASSUME ReadChanged PROVE Held'
  BY <1>5 DEF ReadChanged, KeepFiles, others, Held, Somewhere, Raise
<1>6. ASSUME SwapIn PROVE Held'
  <2>1. F \in Files
    BY <1>6, AtFile DEF SwapIn, Rename
  <2>2. owed' = owed /\ kept \subseteq kept' /\ Elsewhere(F)
    BY <1>6, <2>1, FilesTyped DEF SwapIn, Rename, Exchange, Goto, others, others, Elsewhere
  <2>4. HeldAt(F)
    BY <1>6, <2>1, FilesTyped, VersionsApart DEF SwapIn, Rename, Exchange, Goto, others,
        HeldAt
  <2> QED
    BY <2>1, <2>2, <2>4, StillHeld
<1>7. ASSUME SwapInFresh PROVE Held'
  <2>1. F \in Files
    BY <1>7, AtFile DEF SwapInFresh, Rename
  <2>2. owed' = owed /\ kept \subseteq kept' /\ Elsewhere(F)
    BY <1>7, <2>1, FilesTyped DEF SwapInFresh, Rename, Goto, others, others, Elsewhere
  <2>3. tmp[F] = "new"
    BY <1>7, AtFile DEF SwapInFresh, Rename, Waiting, F, Positions
  <2>4. HeldAt(F)
    BY <1>7, <2>1, <2>3, FilesTyped, VersionsApart DEF SwapInFresh, Rename, Goto, others,
        HeldAt
  <2> QED
    BY <2>1, <2>2, <2>4, StillHeld
<1>8. ASSUME SwapInFails PROVE Held'
  BY <1>8 DEF SwapInFails, KeepFiles, others, Held, Somewhere, Raise
<1>9. ASSUME RenameFails PROVE Held'
  BY <1>9 DEF RenameFails, KeepFiles, others, Held, Somewhere, Raise
<1>10. ASSUME NotAtomic PROVE Held'
  BY <1>10 DEF NotAtomic, KeepFiles, others, Held, Somewhere, Raise
<1>11. ASSUME Swapped PROVE Held'
  BY <1>11 DEF Swapped, KeepFiles, others, Held, Somewhere
<1>12. ASSUME SwappedAnother PROVE Held'
  BY <1>12 DEF SwappedAnother, KeepFiles, others, Held, Somewhere
<1>13. ASSUME Return PROVE Held'
  <2>1. F \in Files
    BY <1>13, AtFile DEF Return, PutBack, PutBackGone
  <2>2. owed' = owed /\ kept \subseteq kept' /\ Elsewhere(F)
    BY <1>13, <2>1, FilesTyped DEF Return, PutBack, PutBackGone, others, Exchange, Goto,
        others, Elsewhere
  <2>4. HeldAt(F)
    BY <1>13, <2>1, FilesTyped, VersionsApart DEF Return, PutBack, PutBackGone, others,
        Exchange, Goto, HeldAt
  <2> QED
    BY <2>1, <2>2, <2>4, StillHeld
<1>14. ASSUME ReturnKept PROVE Held'
  <2>1. F \in Files
    BY <1>14, AtFile DEF ReturnKept, KeepAside
  <2>2. owed' = owed /\ kept \subseteq kept' /\ Elsewhere(F)
    BY <1>14, <2>1, FilesTyped DEF ReturnKept, KeepAside, Raise, others, SetAside, Goto,
        others, Elsewhere
  <2>4. HeldAt(F)
    BY <1>14, <2>1, FilesTyped, VersionsApart DEF ReturnKept, KeepAside, Raise, others,
        SetAside, Goto, HeldAt
  <2> QED
    BY <2>1, <2>2, <2>4, StillHeld
<1>15. ASSUME Applied PROVE Held'
  BY <1>15 DEF Applied, KeepFiles, others, Held, Somewhere, Leave
<1>16. ASSUME InFlightOurs PROVE Held'
  BY <1>16 DEF InFlightOurs, KeepFiles, others, Held, Somewhere
<1>17. ASSUME InFlightOther PROVE Held'
  BY <1>17 DEF InFlightOther, KeepFiles, others, Held, Somewhere
<1>18. ASSUME ReturnInFlight PROVE Held'
  <2>1. Flying \in Files
    BY <1>18, InTheAir DEF ReturnInFlight, PutBack, PutBackGone, Place, Flights
  <2>2. owed' = owed /\ kept \subseteq kept' /\ Elsewhere(Flying)
    BY <1>18, <2>1, FilesTyped DEF ReturnInFlight, PutBack, PutBackGone, others, Exchange,
        Goto, others, Elsewhere
  <2>4. HeldAt(Flying)
    BY <1>18, <2>1, FilesTyped, VersionsApart DEF ReturnInFlight, PutBack, PutBackGone,
        others, Exchange, Goto, HeldAt
  <2> QED
    BY <2>1, <2>2, <2>4, StillHeld
<1>19. ASSUME KeepInFlight PROVE Held'
  <2>1. Flying \in Files
    BY <1>19, InTheAir DEF KeepInFlight, KeepAside, Place, Flights
  <2>2. owed' = owed /\ kept \subseteq kept' /\ Elsewhere(Flying)
    BY <1>19, <2>1, FilesTyped DEF KeepInFlight, KeepAside, Goto, others, SetAside, others,
        Elsewhere
  <2>4. HeldAt(Flying)
    BY <1>19, <2>1, FilesTyped, VersionsApart DEF KeepInFlight, KeepAside, Goto, others,
        SetAside, HeldAt
  <2> QED
    BY <2>1, <2>2, <2>4, StillHeld
<1>20. ASSUME NotDone PROVE Held'
  BY <1>20 DEF NotDone, KeepFiles, others, Held, Somewhere
<1>21. ASSUME NotOurs PROVE Held'
  BY <1>21 DEF NotOurs, KeepFiles, others, Held, Somewhere
<1>22. ASSUME Ours PROVE Held'
  <2>1. F \in Files
    BY <1>22, AtFile DEF Ours, Restoring
  <2>2. owed' = owed /\ kept \subseteq kept' /\ Elsewhere(F)
    BY <1>22, <2>1, FilesTyped DEF Ours, Restoring, Goto, KeepPlace, others, others,
        Elsewhere
  <2>3. side[F] \notin Versions
    BY <1>22, <2>1 DEF Ours, Restoring, Carried, Carrying, Undoing
  <2>4. HeldAt(F)
    BY <1>22, <2>1, <2>3, FilesTyped, VersionsApart DEF Ours, Restoring, Goto, KeepPlace,
        others, HeldAt
  <2> QED
    BY <2>1, <2>2, <2>4, StillHeld
<1>23. ASSUME RestoreFails PROVE Held'
  BY <1>23 DEF RestoreFails, KeepFiles, others, Held, Somewhere
<1>24. ASSUME TakeOut PROVE Held'
  <2>1. F \in Files
    BY <1>24, AtFile DEF TakeOut
  <2>2. owed' = owed /\ kept \subseteq kept' /\ Elsewhere(F)
    BY <1>24, <2>1, FilesTyped DEF TakeOut, Goto, KeepPlace, others, others, Elsewhere
  <2>3. side[F] \notin Versions
    BY <1>24, <2>1 DEF TakeOut, Carried, Carrying, Undoing
  <2>4. HeldAt(F)
    BY <1>24, <2>1, <2>3, FilesTyped, VersionsApart DEF TakeOut, Goto, KeepPlace, others,
        HeldAt
  <2> QED
    BY <2>1, <2>2, <2>4, StillHeld
<1>25. ASSUME TakeOutGone PROVE Held'
  BY <1>25 DEF TakeOutGone, KeepFiles, others, Held, Somewhere
<1>26. ASSUME TakenOut PROVE Held'
  <2>1. F \in Files
    BY <1>26, AtFile DEF TakenOut
  <2>2. owed' = owed /\ kept \subseteq kept' /\ Elsewhere(F)
    BY <1>26, <2>1, FilesTyped DEF TakenOut, TakenOurs, Past, SetAside, others, Goto,
        others, Elsewhere
  <2>4. HeldAt(F)
    BY <1>26, <2>1, FilesTyped, VersionsApart DEF TakenOut, TakenOurs, Past, SetAside,
        others, Goto, HeldAt
  <2> QED
    BY <2>1, <2>2, <2>4, StillHeld
<1>27. ASSUME ExchangeBack PROVE Held'
  <2>1. F \in Files
    BY <1>27, AtFile DEF ExchangeBack
  <2>2. owed' = owed /\ kept \subseteq kept' /\ Elsewhere(F)
    BY <1>27, <2>1, FilesTyped DEF ExchangeBack, Exchange, Goto, KeepPlace, Past, others,
        others, Elsewhere
  <2>3. side[F] \notin Versions
    BY <1>27, <2>1 DEF ExchangeBack, Carried, Carrying, Undoing
  <2>4. HeldAt(F)
    BY <1>27, <2>1, <2>3, FilesTyped, VersionsApart DEF ExchangeBack, Exchange, Goto,
        KeepPlace, Past, others, HeldAt
  <2> QED
    BY <2>1, <2>2, <2>4, StillHeld
<1>28. ASSUME ExchangedBack PROVE Held'
  <2>1. F \in Files
    BY <1>28, AtFile DEF ExchangedBack
  <2>2. owed' = owed /\ kept \subseteq kept' /\ Elsewhere(F)
    BY <1>28, <2>1, FilesTyped DEF ExchangedBack, Past, Goto, KeepPlace, others, others,
        Elsewhere
  <2>4. HeldAt(F)
    BY <1>28, <2>1, FilesTyped, VersionsApart DEF ExchangedBack, Past, Goto, KeepPlace,
        others, HeldAt
  <2> QED
    BY <2>1, <2>2, <2>4, StillHeld
<1>29. ASSUME ReturnRestored PROVE Held'
  <2>1. F \in Files
    BY <1>29, AtFile DEF ReturnRestored, PutBack, PutBackGone
  <2>2. owed' = owed /\ kept \subseteq kept' /\ Elsewhere(F)
    BY <1>29, <2>1, FilesTyped DEF ReturnRestored, PutBack, PutBackGone, others, Exchange,
        Goto, others, Elsewhere
  <2>4. HeldAt(F)
    BY <1>29, <2>1, FilesTyped, VersionsApart DEF ReturnRestored, PutBack, PutBackGone,
        others, Exchange, Goto, HeldAt
  <2> QED
    BY <2>1, <2>2, <2>4, StillHeld
<1>30. ASSUME KeepRestored PROVE Held'
  <2>1. F \in Files
    BY <1>30, AtFile DEF KeepRestored, KeepAside
  <2>2. owed' = owed /\ kept \subseteq kept' /\ Elsewhere(F)
    BY <1>30, <2>1, FilesTyped DEF KeepRestored, KeepAside, Past, others, SetAside, Goto,
        others, Elsewhere
  <2>4. HeldAt(F)
    BY <1>30, <2>1, FilesTyped, VersionsApart DEF KeepRestored, KeepAside, Past, others,
        SetAside, Goto, HeldAt
  <2> QED
    BY <2>1, <2>2, <2>4, StillHeld
<1>31. ASSUME Restored PROVE Held'
  BY <1>31 DEF Restored, KeepFiles, others, Held, Somewhere
<1>32. ASSUME DiscardTemporary PROVE Held'
  <2>1. F \in Files
    BY <1>32, AtFile DEF DiscardTemporary
  <2>2. owed' = owed /\ kept \subseteq kept' /\ Elsewhere(F)
    BY <1>32, <2>1, FilesTyped DEF DiscardTemporary, Discard, others, SetAside, others,
        Elsewhere
  <2>4. HeldAt(F)
    BY <1>32, <2>1, FilesTyped, VersionsApart DEF DiscardTemporary, Discard, others,
        SetAside, HeldAt
  <2> QED
    BY <2>1, <2>2, <2>4, StillHeld
<1>33. ASSUME End PROVE Held'
  BY <1>33 DEF End, KeepFiles, others, Held, Somewhere
<1>34. ASSUME InterruptWrite PROVE Held'
  BY <1>34 DEF InterruptWrite, KeepFiles, others, Held, Somewhere, Raise
<1>35. ASSUME InterruptTemporaries PROVE Held'
  BY <1>35 DEF InterruptTemporaries, KeepFiles, others, Held, Somewhere, Leave
<1>36. ASSUME InterruptRollback PROVE Held'
  <2>1. CASE pc \in {"exchange", "exchanged", "return restored", "return restored if gone",
                     "keep restored"}
    <3>1. F \in Files
      BY <2>1, AtFile
    <3>2. owed' = owed /\ kept \subseteq kept' /\ Elsewhere(F)
      BY <1>36, <2>1, <3>1, FilesTyped DEF InterruptRollback, Discard, SetAside, Elsewhere
    <3>3. HeldAt(F)
      BY <1>36, <2>1, <3>1, FilesTyped, VersionsApart DEF InterruptRollback, Discard, SetAside,
         HeldAt
    <3> QED
      BY <3>1, <3>2, <3>3, StillHeld
  <2>2. CASE UNCHANGED <<side, kept>>
    BY <1>36, <2>2 DEF InterruptRollback, Held, Somewhere
  <2> QED
    BY <1>36, <2>1, <2>2 DEF InterruptRollback
<1>37. ASSUME InterruptEnd PROVE Held'
  BY <1>37 DEF InterruptEnd, KeepFiles, others, Held, Somewhere
<1>38. ASSUME Kill PROVE Held'
  BY <1>38 DEF Kill, KeepFiles, others, Held, Somewhere
<1>39. ASSUME UNCHANGED vars PROVE Held'
  BY <1>39 DEF vars, others, Held, Somewhere
<1> QED
  BY <1>1, <1>2, <1>3, <1>4, <1>5, <1>6, <1>7, <1>8, <1>9, <1>10, <1>11, <1>12, <1>13,
        <1>14, <1>15, <1>16, <1>17, <1>18, <1>19, <1>20, <1>21, <1>22, <1>23, <1>24, <1>25,
        <1>26, <1>27, <1>28, <1>29, <1>30, <1>31, <1>32, <1>33, <1>34, <1>35, <1>36, <1>37,
        <1>38, <1>39 DEF Next

LEMMA Positioned ==
  ASSUME FixWriteAssumption
  PROVE  /\ \A j, k \in Positions : /\ Order[j] = Order[k] => j = k
                                    /\ (j < k + 1 <=> j < k \/ j = k) /\ (j >= k + 1 <=> j > k)
                                    /\ (j >= k <=> j > k \/ j = k) /\ ~(k > k) /\ ~(k < 1)
                                    /\ (~(k < Len(Order)) => j < k \/ j = k)
         /\ \A j \in Positions : Order[j] \in Files
         /\ \A f \in Files : \E j \in Positions : Order[j] = f
  BY DEF Positions, FixWriteAssumption, Files

LEMMA WaitingNext ==
  ASSUME FixWriteAssumption, TypeOK, Place, Waiting, [Next]_vars
  PROVE  Waiting'
<1>1. ASSUME NEW f \in Watched, Other(f) PROVE Waiting'
  BY <1>1, AtFile, FilesTyped, VersionsApart, Positioned
     DEF Other, Replace, ChangeBack, Remove, write, Forget, Use, Waiting, Renamed, Writing,
        Undoing
<1>2. ASSUME MakeTemporary PROVE Waiting'
  <2>1. i \in Positions /\ F \in Files
    BY <1>2, AtFile DEF MakeTemporary
  <2>2. \A j \in Positions : tmp'[Order[j]] = IF j = i THEN "new" ELSE tmp[Order[j]]
    BY <1>2, <2>1, FilesTyped, Positioned DEF MakeTemporary, F
  <2>3. CASE i < Len(Order)
    BY <1>2, <2>1, <2>2, <2>3, Positioned DEF MakeTemporary, Waiting, Renamed
  <2>4. CASE ~(i < Len(Order))
    BY <1>2, <2>1, <2>2, <2>4, Positioned DEF MakeTemporary, Goto, Waiting, Renamed
  <2> QED
    BY <2>3, <2>4
<1>3. ASSUME TemporaryFails PROVE Waiting'
  BY <1>3, AtFile, FilesTyped, VersionsApart, Positioned
     DEF TemporaryFails, Use, Leave, KeepFiles, Goto, Waiting, Renamed, Writing, Undoing
<1>4. ASSUME ReadPlanned PROVE Waiting'
  BY <1>4, AtFile, FilesTyped, VersionsApart, Positioned
     DEF ReadPlanned, AsPlanned, KeepFiles, write, others, Waiting, Renamed, Writing,
        Undoing
<1>5. ASSUME ReadChanged PROVE Waiting'
  BY <1>5, AtFile, FilesTyped, VersionsApart, Positioned
     DEF ReadChanged, AsPlanned, Raise, KeepFiles, others, Goto, Waiting, Renamed, Writing,
        Undoing
<1>6. ASSUME SwapIn PROVE Waiting'
  <2>1. i \in Positions /\ F \in Files
    BY <1>6, AtFile DEF SwapIn, Rename
  <2>2. \A j \in Positions : j # i => Order[j] # F /\ Order[j] \in Files
    BY <2>1, Positioned DEF F
  <2>3. \A j \in Positions : j # i => tmp'[Order[j]] = tmp[Order[j]]
    BY <1>6, <2>1, <2>2, FilesTyped DEF SwapIn, Rename
  <2>4. \A j \in Positions : j > i => j # i /\ tmp[Order[j]] = "new"
    BY <1>6, <2>1, Positioned DEF SwapIn, Rename, Waiting, Renamed
  <2>5. (pc' \in Renamed /\ i' = i) \/ pc' = "undo"
    BY <1>6 DEF SwapIn, Rename, Goto, Renamed
  <2> QED
    BY <2>3, <2>4, <2>5 DEF Waiting, Renamed
<1>7. ASSUME SwapInFresh PROVE Waiting'
  <2>1. i \in Positions /\ F \in Files
    BY <1>7, AtFile DEF SwapInFresh, Rename
  <2>2. \A j \in Positions : j # i => Order[j] # F /\ Order[j] \in Files
    BY <2>1, Positioned DEF F
  <2>3. \A j \in Positions : j # i => tmp'[Order[j]] = tmp[Order[j]]
    BY <1>7, <2>1, <2>2, FilesTyped DEF SwapInFresh, Rename
  <2>4. \A j \in Positions : j > i => j # i /\ tmp[Order[j]] = "new"
    BY <1>7, <2>1, Positioned DEF SwapInFresh, Rename, Waiting, Renamed
  <2>5. (pc' \in Renamed /\ i' = i) \/ pc' = "undo"
    BY <1>7 DEF SwapInFresh, Rename, Goto, Renamed
  <2> QED
    BY <2>3, <2>4, <2>5 DEF Waiting, Renamed
<1>8. ASSUME SwapInFails PROVE Waiting'
  BY <1>8, AtFile, FilesTyped, VersionsApart, Positioned
     DEF SwapInFails, Rename, F, Raise, KeepFiles, others, Goto, Waiting, Renamed, Writing,
        Undoing
<1>9. ASSUME RenameFails PROVE Waiting'
  BY <1>9, AtFile, FilesTyped, VersionsApart, Positioned
     DEF RenameFails, Rename, Use, Raise, F, KeepFiles, Goto, Waiting, Renamed, Writing,
        Undoing
<1>10. ASSUME NotAtomic PROVE Waiting'
  BY <1>10, AtFile, FilesTyped, VersionsApart, Positioned
     DEF NotAtomic, Rename, Raise, KeepFiles, others, Goto, Waiting, Renamed, Writing,
        Undoing
<1>11. ASSUME Swapped PROVE Waiting'
  BY <1>11, AtFile, FilesTyped, VersionsApart, Positioned
     DEF Swapped, Expected, F, Goto, AllChecked, KeepFiles, write, others, Waiting,
        Renamed, Writing, Undoing
<1>12. ASSUME SwappedAnother PROVE Waiting'
  BY <1>12, AtFile, FilesTyped, VersionsApart, Positioned
     DEF SwappedAnother, Expected, F, Goto, KeepFiles, KeepPlace, write, others, Waiting,
        Renamed, Writing, Undoing
<1>13. ASSUME Return PROVE Waiting'
  <2>1. i \in Positions /\ F \in Files
    BY <1>13, AtFile DEF Return, PutBack, PutBackGone
  <2>2. \A j \in Positions : j # i => Order[j] # F /\ Order[j] \in Files
    BY <2>1, Positioned DEF F
  <2>3. \A j \in Positions : j # i => tmp'[Order[j]] = tmp[Order[j]]
    BY <1>13, <2>1, <2>2, FilesTyped DEF Return, PutBack, PutBackGone
  <2>4. \A j \in Positions : j > i => j # i /\ tmp[Order[j]] = "new"
    BY <1>13, <2>1, Positioned DEF Return, PutBack, PutBackGone, Waiting, Renamed
  <2>5. (pc' \in Renamed /\ i' = i) \/ pc' = "undo"
    BY <1>13 DEF Return, PutBack, PutBackGone, Goto, Renamed
  <2> QED
    BY <2>3, <2>4, <2>5 DEF Waiting, Renamed
<1>14. ASSUME ReturnKept PROVE Waiting'
  BY <1>14, AtFile, FilesTyped, VersionsApart, Positioned
     DEF ReturnKept, KeepAside, F, Raise, others, SetAside, Goto, Waiting, Renamed,
        Writing, Undoing
<1>15. ASSUME Applied PROVE Waiting'
  BY <1>15, AtFile, FilesTyped, VersionsApart, Positioned
     DEF Applied, Leave, KeepFiles, others, Goto, Waiting, Renamed, Writing, Undoing
<1>16. ASSUME InFlightOurs PROVE Waiting'
  BY <1>16, AtFile, FilesTyped, VersionsApart, Positioned
     DEF InFlightOurs, Landed, Goto, KeepFiles, write, others, Waiting, Renamed, Writing,
        Undoing
<1>17. ASSUME InFlightOther PROVE Waiting'
  BY <1>17, AtFile, FilesTyped, VersionsApart, Positioned
     DEF InFlightOther, Landed, InFlightUnknown, Goto, KeepFiles, others, Waiting, Renamed,
        Writing, Undoing
<1>18. ASSUME ReturnInFlight PROVE Waiting'
  BY <1>18, AtFile, FilesTyped, VersionsApart, Positioned
     DEF ReturnInFlight, PutBack, PutBackGone, write, others, Exchange, Goto, Waiting,
        Renamed, Writing, Undoing
<1>19. ASSUME KeepInFlight PROVE Waiting'
  BY <1>19, AtFile, FilesTyped, VersionsApart, Positioned
     DEF KeepInFlight, KeepAside, Goto, others, SetAside, Waiting, Renamed, Writing,
        Undoing
<1>20. ASSUME NotDone PROVE Waiting'
  BY <1>20, AtFile, FilesTyped, VersionsApart, Positioned
     DEF NotDone, Restoring, F, Past, KeepFiles, others, Goto, Waiting, Renamed, Writing,
        Undoing
<1>21. ASSUME NotOurs PROVE Waiting'
  BY <1>21, AtFile, FilesTyped, VersionsApart, Positioned
     DEF NotOurs, Restoring, F, Past, KeepFiles, others, Goto, Waiting, Renamed, Writing,
        Undoing
<1>22. ASSUME Ours PROVE Waiting'
  BY <1>22, AtFile, FilesTyped, VersionsApart, Positioned
     DEF Ours, Restoring, F, Goto, KeepPlace, write, others, Waiting, Renamed, Writing,
        Undoing
<1>23. ASSUME RestoreFails PROVE Waiting'
  BY <1>23, AtFile, FilesTyped, VersionsApart, Positioned
     DEF RestoreFails, Restoring, F, Use, Past, KeepFiles, Goto, Waiting, Renamed, Writing,
        Undoing
<1>24. ASSUME TakeOut PROVE Waiting'
  BY <1>24, AtFile, FilesTyped, VersionsApart, Positioned
     DEF TakeOut, F, Goto, KeepPlace, write, others, Waiting, Renamed, Writing, Undoing
<1>25. ASSUME TakeOutGone PROVE Waiting'
  BY <1>25, AtFile, FilesTyped, VersionsApart, Positioned
     DEF TakeOutGone, F, Past, KeepFiles, others, Goto, Waiting, Renamed, Writing, Undoing
<1>26. ASSUME TakenOut PROVE Waiting'
  BY <1>26, AtFile, FilesTyped, VersionsApart, Positioned
     DEF TakenOut, F, TakenOurs, Past, SetAside, others, Goto, Waiting, Renamed, Writing,
        Undoing
<1>27. ASSUME ExchangeBack PROVE Waiting'
  BY <1>27, AtFile, FilesTyped, VersionsApart, Positioned
     DEF ExchangeBack, Exchange, F, Goto, KeepPlace, write, Past, others, Waiting, Renamed,
        Writing, Undoing
<1>28. ASSUME ExchangedBack PROVE Waiting'
  BY <1>28, AtFile, FilesTyped, VersionsApart, Positioned
     DEF ExchangedBack, F, Past, Goto, KeepPlace, write, others, Waiting, Renamed, Writing,
        Undoing
<1>29. ASSUME ReturnRestored PROVE Waiting'
  BY <1>29, AtFile, FilesTyped, VersionsApart, Positioned
     DEF ReturnRestored, PutBack, F, PutBackGone, others, Exchange, Goto, Waiting, Renamed,
        Writing, Undoing
<1>30. ASSUME KeepRestored PROVE Waiting'
  BY <1>30, AtFile, FilesTyped, VersionsApart, Positioned
     DEF KeepRestored, KeepAside, F, Past, others, SetAside, Goto, Waiting, Renamed,
        Writing, Undoing
<1>31. ASSUME Restored PROVE Waiting'
  BY <1>31, AtFile, FilesTyped, VersionsApart, Positioned
     DEF Restored, Goto, Ending, KeepFiles, others, Waiting, Renamed, Writing, Undoing
<1>32. ASSUME DiscardTemporary PROVE Waiting'
  BY <1>32, AtFile, FilesTyped, VersionsApart, Positioned
     DEF DiscardTemporary, Discard, F, write, others, SetAside, Waiting, Renamed, Writing,
        Undoing
<1>33. ASSUME End PROVE Waiting'
  BY <1>33, AtFile, FilesTyped, VersionsApart, Positioned
     DEF End, Goto, BackupKept, KeepFiles, KeepPlace, others, Waiting, Renamed, Writing,
        Undoing
<1>34. ASSUME InterruptWrite PROVE Waiting'
  BY <1>34, AtFile, FilesTyped, VersionsApart, Positioned
     DEF InterruptWrite, Writing, Use, Raise, F, KeepFiles, Goto, Waiting, Renamed, Undoing
<1>35. ASSUME InterruptTemporaries PROVE Waiting'
  BY <1>35, AtFile, FilesTyped, VersionsApart, Positioned
     DEF InterruptTemporaries, Use, Leave, KeepFiles, Goto, Waiting, Renamed, Writing,
        Undoing
<1>36. ASSUME InterruptRollback PROVE Waiting'
  BY <1>36, AtFile, FilesTyped, VersionsApart, Positioned
     DEF InterruptRollback, Undoing, Use, Leave, Discard, F, Goto, SetAside, Waiting,
        Renamed, Writing
<1>37. ASSUME InterruptEnd PROVE Waiting'
  BY <1>37, AtFile, FilesTyped, VersionsApart, Positioned
     DEF InterruptEnd, Use, KeepFiles, Waiting, Renamed, Writing, Undoing
<1>38. ASSUME Kill PROVE Waiting'
  BY <1>38, AtFile, FilesTyped, VersionsApart, Positioned
     DEF Kill, Goto, KeepFiles, KeepPlace, write, others, Waiting, Renamed, Writing,
        Undoing
<1>39. ASSUME UNCHANGED vars PROVE Waiting'
  BY <1>39 DEF vars, write, others, F, Waiting, Renamed, Writing, Undoing
<1> QED
  BY <1>1, <1>2, <1>3, <1>4, <1>5, <1>6, <1>7, <1>8, <1>9, <1>10, <1>11, <1>12, <1>13,
        <1>14, <1>15, <1>16, <1>17, <1>18, <1>19, <1>20, <1>21, <1>22, <1>23, <1>24, <1>25,
        <1>26, <1>27, <1>28, <1>29, <1>30, <1>31, <1>32, <1>33, <1>34, <1>35, <1>36, <1>37,
        <1>38, <1>39 DEF Next

LEMMA CarriedNext ==
  ASSUME FixWriteAssumption, TypeOK, Place, Carried, [Next]_vars
  PROVE  Carried'
<1>1. ASSUME NEW f \in Watched, Other(f) PROVE Carried'
  BY <1>1 DEF Other, Carried, F
<1>2. ASSUME MakeTemporary PROVE Carried'
  BY <1>2, AtFile, FilesTyped, VersionsApart
     DEF MakeTemporary, F, Goto, AllChecked, write, others, Carried, Carrying, Writing,
        Undoing
<1>3. ASSUME TemporaryFails PROVE Carried'
  BY <1>3, AtFile, FilesTyped, VersionsApart
     DEF TemporaryFails, Use, Leave, KeepFiles, Goto, Carried, Carrying, Writing, Undoing
<1>4. ASSUME ReadPlanned PROVE Carried'
  BY <1>4, AtFile, FilesTyped, VersionsApart
     DEF ReadPlanned, AsPlanned, KeepFiles, write, others, Carried, Carrying, Writing,
        Undoing
<1>5. ASSUME ReadChanged PROVE Carried'
  BY <1>5, AtFile, FilesTyped, VersionsApart
     DEF ReadChanged, AsPlanned, Raise, KeepFiles, others, Goto, Carried, Carrying,
        Writing, Undoing
<1>6. ASSUME SwapIn PROVE Carried'
  BY <1>6, AtFile, FilesTyped, VersionsApart
     DEF SwapIn, Rename, F, Exchange, Goto, write, others, Carried, Carrying, Writing,
        Undoing
<1>7. ASSUME SwapInFresh PROVE Carried'
  BY <1>7, AtFile, FilesTyped, VersionsApart
     DEF SwapInFresh, Rename, F, Goto, write, others, Carried, Carrying, Writing, Undoing
<1>8. ASSUME SwapInFails PROVE Carried'
  BY <1>8, AtFile, FilesTyped, VersionsApart
     DEF SwapInFails, Rename, F, Raise, KeepFiles, others, Goto, Carried, Carrying,
        Writing, Undoing
<1>9. ASSUME RenameFails PROVE Carried'
  BY <1>9, AtFile, FilesTyped, VersionsApart
     DEF RenameFails, Rename, Use, Raise, F, KeepFiles, Goto, Carried, Carrying, Writing,
        Undoing
<1>10. ASSUME NotAtomic PROVE Carried'
  BY <1>10, AtFile, FilesTyped, VersionsApart
     DEF NotAtomic, Rename, Raise, KeepFiles, others, Goto, Carried, Carrying, Writing,
        Undoing
<1>11. ASSUME Swapped PROVE Carried'
  BY <1>11, AtFile, FilesTyped, VersionsApart
     DEF Swapped, Expected, F, Goto, AllChecked, KeepFiles, write, others, Carried,
        Carrying, Writing, Undoing
<1>12. ASSUME SwappedAnother PROVE Carried'
  BY <1>12, AtFile, FilesTyped, VersionsApart
     DEF SwappedAnother, Expected, F, Goto, KeepFiles, KeepPlace, write, others, Carried,
        Carrying, Writing, Undoing
<1>13. ASSUME Return PROVE Carried'
  BY <1>13, AtFile, FilesTyped, VersionsApart
     DEF Return, PutBack, F, PutBackGone, others, Exchange, Goto, Carried, Carrying,
        Writing, Undoing
<1>14. ASSUME ReturnKept PROVE Carried'
  BY <1>14, AtFile, FilesTyped, VersionsApart
     DEF ReturnKept, KeepAside, F, Raise, others, SetAside, Goto, Carried, Carrying,
        Writing, Undoing
<1>15. ASSUME Applied PROVE Carried'
  BY <1>15, AtFile, FilesTyped, VersionsApart
     DEF Applied, Leave, KeepFiles, others, Goto, Carried, Carrying, Writing, Undoing
<1>16. ASSUME InFlightOurs PROVE Carried'
  BY <1>16, AtFile, FilesTyped, VersionsApart
     DEF InFlightOurs, Landed, Goto, KeepFiles, write, others, Carried, Carrying, Writing,
        Undoing
<1>17. ASSUME InFlightOther PROVE Carried'
  BY <1>17, AtFile, FilesTyped, VersionsApart
     DEF InFlightOther, Landed, InFlightUnknown, Goto, KeepFiles, others, Carried,
        Carrying, Writing, Undoing
<1>18. ASSUME ReturnInFlight PROVE Carried'
  BY <1>18, AtFile, FilesTyped, VersionsApart
     DEF ReturnInFlight, PutBack, PutBackGone, write, others, Exchange, Goto, Carried,
        Carrying, Writing, Undoing
<1>19. ASSUME KeepInFlight PROVE Carried'
  BY <1>19, AtFile, FilesTyped, VersionsApart
     DEF KeepInFlight, KeepAside, Goto, others, SetAside, Carried, Carrying, Writing,
        Undoing
<1>20. ASSUME NotDone PROVE Carried'
  BY <1>20, AtFile, FilesTyped, VersionsApart
     DEF NotDone, Restoring, F, Past, KeepFiles, others, Goto, Carried, Carrying, Writing,
        Undoing
<1>21. ASSUME NotOurs PROVE Carried'
  BY <1>21, AtFile, FilesTyped, VersionsApart
     DEF NotOurs, Restoring, F, Past, KeepFiles, others, Goto, Carried, Carrying, Writing,
        Undoing
<1>22. ASSUME Ours PROVE Carried'
  BY <1>22, AtFile, FilesTyped, VersionsApart
     DEF Ours, Restoring, F, Goto, KeepPlace, write, others, Carried, Carrying, Writing,
        Undoing
<1>23. ASSUME RestoreFails PROVE Carried'
  BY <1>23, AtFile, FilesTyped, VersionsApart
     DEF RestoreFails, Restoring, F, Use, Past, KeepFiles, Goto, Carried, Carrying,
        Writing, Undoing
<1>24. ASSUME TakeOut PROVE Carried'
  BY <1>24, AtFile, FilesTyped, VersionsApart
     DEF TakeOut, F, Goto, KeepPlace, write, others, Carried, Carrying, Writing, Undoing
<1>25. ASSUME TakeOutGone PROVE Carried'
  BY <1>25, AtFile, FilesTyped, VersionsApart
     DEF TakeOutGone, F, Past, KeepFiles, others, Goto, Carried, Carrying, Writing, Undoing
<1>26. ASSUME TakenOut PROVE Carried'
  BY <1>26, AtFile, FilesTyped, VersionsApart
     DEF TakenOut, F, TakenOurs, Past, SetAside, others, Goto, Carried, Carrying, Writing,
        Undoing
<1>27. ASSUME ExchangeBack PROVE Carried'
  BY <1>27, AtFile, FilesTyped, VersionsApart
     DEF ExchangeBack, Exchange, F, Goto, KeepPlace, write, Past, others, Carried,
        Carrying, Writing, Undoing
<1>28. ASSUME ExchangedBack PROVE Carried'
  BY <1>28, AtFile, FilesTyped, VersionsApart
     DEF ExchangedBack, F, Past, Goto, KeepPlace, write, others, Carried, Carrying,
        Writing, Undoing
<1>29. ASSUME ReturnRestored PROVE Carried'
  BY <1>29, AtFile, FilesTyped, VersionsApart
     DEF ReturnRestored, PutBack, F, PutBackGone, others, Exchange, Goto, Carried,
        Carrying, Writing, Undoing
<1>30. ASSUME KeepRestored PROVE Carried'
  BY <1>30, AtFile, FilesTyped, VersionsApart
     DEF KeepRestored, KeepAside, F, Past, others, SetAside, Goto, Carried, Carrying,
        Writing, Undoing
<1>31. ASSUME Restored PROVE Carried'
  BY <1>31, AtFile, FilesTyped, VersionsApart
     DEF Restored, Goto, Ending, KeepFiles, others, Carried, Carrying, Writing, Undoing
<1>32. ASSUME DiscardTemporary PROVE Carried'
  BY <1>32, AtFile, FilesTyped, VersionsApart
     DEF DiscardTemporary, Discard, F, write, others, SetAside, Carried, Carrying, Writing,
        Undoing
<1>33. ASSUME End PROVE Carried'
  BY <1>33, AtFile, FilesTyped, VersionsApart
     DEF End, Goto, BackupKept, KeepFiles, KeepPlace, others, Carried, Carrying, Writing,
        Undoing
<1>34. ASSUME InterruptWrite PROVE Carried'
  BY <1>34, AtFile, FilesTyped, VersionsApart
     DEF InterruptWrite, Writing, Use, Raise, F, KeepFiles, Goto, Carried, Carrying,
        Undoing
<1>35. ASSUME InterruptTemporaries PROVE Carried'
  BY <1>35, AtFile, FilesTyped, VersionsApart
     DEF InterruptTemporaries, Use, Leave, KeepFiles, Goto, Carried, Carrying, Writing,
        Undoing
<1>36. ASSUME InterruptRollback PROVE Carried'
  BY <1>36, AtFile, FilesTyped, VersionsApart
     DEF InterruptRollback, Undoing, Use, Leave, Discard, F, Goto, SetAside, Carried,
        Carrying, Writing
<1>37. ASSUME InterruptEnd PROVE Carried'
  BY <1>37, AtFile, FilesTyped, VersionsApart
     DEF InterruptEnd, Use, KeepFiles, Carried, Carrying, Writing, Undoing
<1>38. ASSUME Kill PROVE Carried'
  BY <1>38, AtFile, FilesTyped, VersionsApart
     DEF Kill, Goto, KeepFiles, KeepPlace, write, others, Carried, Carrying, Writing,
        Undoing
<1>39. ASSUME UNCHANGED vars PROVE Carried'
  BY <1>39 DEF vars, write, others, F, Carried
<1> QED
  BY <1>1, <1>2, <1>3, <1>4, <1>5, <1>6, <1>7, <1>8, <1>9, <1>10, <1>11, <1>12, <1>13,
        <1>14, <1>15, <1>16, <1>17, <1>18, <1>19, <1>20, <1>21, <1>22, <1>23, <1>24, <1>25,
        <1>26, <1>27, <1>28, <1>29, <1>30, <1>31, <1>32, <1>33, <1>34, <1>35, <1>36, <1>37,
        <1>38, <1>39 DEF Next

LEMMA DiscardingNext ==
  ASSUME FixWriteAssumption, TypeOK, Place, Carried, Discarding, [Next]_vars
  PROVE  Discarding'
<1>1. ASSUME NEW f \in Watched, Other(f) PROVE Discarding'
  BY <1>1, AtFile, FilesTyped, VersionsApart, Positioned
     DEF Other, Replace, ChangeBack, Remove, write, Forget, Use, Discarding, Writing,
        Undoing, Carrying, Carried
<1>2. ASSUME MakeTemporary PROVE Discarding'
  BY <1>2, AtFile, FilesTyped, VersionsApart, Positioned
     DEF MakeTemporary, F, Goto, AllChecked, write, others, Discarding, Writing, Undoing,
        Carrying, Carried
<1>3. ASSUME TemporaryFails PROVE Discarding'
  BY <1>3, AtFile, FilesTyped, VersionsApart, Positioned
     DEF TemporaryFails, Use, Leave, KeepFiles, Goto, Discarding, Writing, Undoing,
        Carrying, Carried
<1>4. ASSUME ReadPlanned PROVE Discarding'
  BY <1>4, AtFile, FilesTyped, VersionsApart, Positioned
     DEF ReadPlanned, AsPlanned, KeepFiles, write, others, Discarding, Writing, Undoing,
        Carrying, Carried
<1>5. ASSUME ReadChanged PROVE Discarding'
  BY <1>5, AtFile, FilesTyped, VersionsApart, Positioned
     DEF ReadChanged, AsPlanned, Raise, KeepFiles, others, Goto, Discarding, Writing,
        Undoing, Carrying, Carried
<1>6. ASSUME SwapIn PROVE Discarding'
  BY <1>6, AtFile, FilesTyped, VersionsApart, Positioned
     DEF SwapIn, Rename, F, Exchange, Goto, write, others, Discarding, Writing, Undoing,
        Carrying, Carried
<1>7. ASSUME SwapInFresh PROVE Discarding'
  BY <1>7, AtFile, FilesTyped, VersionsApart, Positioned
     DEF SwapInFresh, Rename, F, Goto, write, others, Discarding, Writing, Undoing,
        Carrying, Carried
<1>8. ASSUME SwapInFails PROVE Discarding'
  BY <1>8, AtFile, FilesTyped, VersionsApart, Positioned
     DEF SwapInFails, Rename, F, Raise, KeepFiles, others, Goto, Discarding, Writing,
        Undoing, Carrying, Carried
<1>9. ASSUME RenameFails PROVE Discarding'
  BY <1>9, AtFile, FilesTyped, VersionsApart, Positioned
     DEF RenameFails, Rename, Use, Raise, F, KeepFiles, Goto, Discarding, Writing, Undoing,
        Carrying, Carried
<1>10. ASSUME NotAtomic PROVE Discarding'
  BY <1>10, AtFile, FilesTyped, VersionsApart, Positioned
     DEF NotAtomic, Rename, Raise, KeepFiles, others, Goto, Discarding, Writing, Undoing,
        Carrying, Carried
<1>11. ASSUME Swapped PROVE Discarding'
  BY <1>11, AtFile, FilesTyped, VersionsApart, Positioned
     DEF Swapped, Expected, F, Goto, AllChecked, KeepFiles, write, others, Discarding,
        Writing, Undoing, Carrying, Carried
<1>12. ASSUME SwappedAnother PROVE Discarding'
  BY <1>12, AtFile, FilesTyped, VersionsApart, Positioned
     DEF SwappedAnother, Expected, F, Goto, KeepFiles, KeepPlace, write, others,
        Discarding, Writing, Undoing, Carrying, Carried
<1>13. ASSUME Return PROVE Discarding'
  BY <1>13, AtFile, FilesTyped, VersionsApart, Positioned
     DEF Return, PutBack, F, PutBackGone, others, Exchange, Goto, Discarding, Writing,
        Undoing, Carrying, Carried
<1>14. ASSUME ReturnKept PROVE Discarding'
  BY <1>14, AtFile, FilesTyped, VersionsApart, Positioned
     DEF ReturnKept, KeepAside, F, Raise, others, SetAside, Goto, Discarding, Writing,
        Undoing, Carrying, Carried
<1>15. ASSUME Applied PROVE Discarding'
  BY <1>15, AtFile, FilesTyped, VersionsApart, Positioned
     DEF Applied, Leave, KeepFiles, others, Goto, Discarding, Writing, Undoing, Carrying,
        Carried
<1>16. ASSUME InFlightOurs PROVE Discarding'
  BY <1>16, AtFile, FilesTyped, VersionsApart, Positioned
     DEF InFlightOurs, Landed, Goto, KeepFiles, write, others, Discarding, Writing,
        Undoing, Carrying, Carried
<1>17. ASSUME InFlightOther PROVE Discarding'
  BY <1>17, AtFile, FilesTyped, VersionsApart, Positioned
     DEF InFlightOther, Landed, InFlightUnknown, Goto, KeepFiles, others, Discarding,
        Writing, Undoing, Carrying, Carried
<1>18. ASSUME ReturnInFlight PROVE Discarding'
  BY <1>18, AtFile, FilesTyped, VersionsApart, Positioned
     DEF ReturnInFlight, PutBack, PutBackGone, write, others, Exchange, Goto, Discarding,
        Writing, Undoing, Carrying, Carried
<1>19. ASSUME KeepInFlight PROVE Discarding'
  BY <1>19, AtFile, FilesTyped, VersionsApart, Positioned
     DEF KeepInFlight, KeepAside, Goto, others, SetAside, Discarding, Writing, Undoing,
        Carrying, Carried
<1>20. ASSUME NotDone PROVE Discarding'
  BY <1>20, AtFile, FilesTyped, VersionsApart, Positioned
     DEF NotDone, Restoring, F, Past, KeepFiles, others, Goto, Discarding, Writing,
        Undoing, Carrying, Carried
<1>21. ASSUME NotOurs PROVE Discarding'
  BY <1>21, AtFile, FilesTyped, VersionsApart, Positioned
     DEF NotOurs, Restoring, F, Past, KeepFiles, others, Goto, Discarding, Writing,
        Undoing, Carrying, Carried
<1>22. ASSUME Ours PROVE Discarding'
  BY <1>22, AtFile, FilesTyped, VersionsApart, Positioned
     DEF Ours, Restoring, F, Goto, KeepPlace, write, others, Discarding, Writing, Undoing,
        Carrying, Carried
<1>23. ASSUME RestoreFails PROVE Discarding'
  BY <1>23, AtFile, FilesTyped, VersionsApart, Positioned
     DEF RestoreFails, Restoring, F, Use, Past, KeepFiles, Goto, Discarding, Writing,
        Undoing, Carrying, Carried
<1>24. ASSUME TakeOut PROVE Discarding'
  BY <1>24, AtFile, FilesTyped, VersionsApart, Positioned
     DEF TakeOut, F, Goto, KeepPlace, write, others, Discarding, Writing, Undoing,
        Carrying, Carried
<1>25. ASSUME TakeOutGone PROVE Discarding'
  BY <1>25, AtFile, FilesTyped, VersionsApart, Positioned
     DEF TakeOutGone, F, Past, KeepFiles, others, Goto, Discarding, Writing, Undoing,
        Carrying, Carried
<1>26. ASSUME TakenOut PROVE Discarding'
  BY <1>26, AtFile, FilesTyped, VersionsApart, Positioned
     DEF TakenOut, F, TakenOurs, Past, SetAside, others, Goto, Discarding, Writing,
        Undoing, Carrying, Carried
<1>27. ASSUME ExchangeBack PROVE Discarding'
  BY <1>27, AtFile, FilesTyped, VersionsApart, Positioned
     DEF ExchangeBack, Exchange, F, Goto, KeepPlace, write, Past, others, Discarding,
        Writing, Undoing, Carrying, Carried
<1>28. ASSUME ExchangedBack PROVE Discarding'
  BY <1>28, AtFile, FilesTyped, VersionsApart, Positioned
     DEF ExchangedBack, F, Past, Goto, KeepPlace, write, others, Discarding, Writing,
        Undoing, Carrying, Carried
<1>29. ASSUME ReturnRestored PROVE Discarding'
  BY <1>29, AtFile, FilesTyped, VersionsApart, Positioned
     DEF ReturnRestored, PutBack, F, PutBackGone, others, Exchange, Goto, Discarding,
        Writing, Undoing, Carrying, Carried
<1>30. ASSUME KeepRestored PROVE Discarding'
  BY <1>30, AtFile, FilesTyped, VersionsApart, Positioned
     DEF KeepRestored, KeepAside, F, Past, others, SetAside, Goto, Discarding, Writing,
        Undoing, Carrying, Carried
<1>31. ASSUME Restored PROVE Discarding'
  BY <1>31, AtFile, FilesTyped, VersionsApart, Positioned
     DEF Restored, Goto, Ending, KeepFiles, others, Discarding, Writing, Undoing, Carrying,
        Carried
<1>32. ASSUME DiscardTemporary PROVE Discarding'
  BY <1>32, AtFile, FilesTyped, VersionsApart, Positioned
     DEF DiscardTemporary, Discard, F, write, others, SetAside, Discarding, Writing,
        Undoing, Carrying, Carried
<1>33. ASSUME End PROVE Discarding'
  BY <1>33, AtFile, FilesTyped, VersionsApart, Positioned
     DEF End, Goto, BackupKept, KeepFiles, KeepPlace, others, Discarding, Writing, Undoing,
        Carrying, Carried
<1>34. ASSUME InterruptWrite PROVE Discarding'
  BY <1>34, AtFile, FilesTyped, VersionsApart, Positioned
     DEF InterruptWrite, Writing, Use, Raise, F, KeepFiles, Goto, Discarding, Undoing,
        Carrying, Carried
<1>35. ASSUME InterruptTemporaries PROVE Discarding'
  BY <1>35, AtFile, FilesTyped, VersionsApart, Positioned
     DEF InterruptTemporaries, Use, Leave, KeepFiles, Goto, Discarding, Writing, Undoing,
        Carrying, Carried
<1>36. ASSUME InterruptRollback PROVE Discarding'
  BY <1>36, AtFile, FilesTyped, VersionsApart, Positioned
     DEF InterruptRollback, Undoing, Use, Leave, Discard, F, Goto, SetAside, Discarding,
        Writing, Carrying, Carried
<1>37. ASSUME InterruptEnd PROVE Discarding'
  BY <1>37, AtFile, FilesTyped, VersionsApart, Positioned
     DEF InterruptEnd, Use, KeepFiles, Discarding, Writing, Undoing, Carrying, Carried
<1>38. ASSUME Kill PROVE Discarding'
  BY <1>38, AtFile, FilesTyped, VersionsApart, Positioned
     DEF Kill, Goto, KeepFiles, KeepPlace, write, others, Discarding, Writing, Undoing,
        Carrying, Carried
<1>39. ASSUME UNCHANGED vars PROVE Discarding'
  BY <1>39 DEF vars, write, others, F, Discarding, Writing, Undoing, Carrying
<1> QED
  BY <1>1, <1>2, <1>3, <1>4, <1>5, <1>6, <1>7, <1>8, <1>9, <1>10, <1>11, <1>12, <1>13,
        <1>14, <1>15, <1>16, <1>17, <1>18, <1>19, <1>20, <1>21, <1>22, <1>23, <1>24, <1>25,
        <1>26, <1>27, <1>28, <1>29, <1>30, <1>31, <1>32, <1>33, <1>34, <1>35, <1>36, <1>37,
        <1>38, <1>39 DEF Next

LEMMA NotYetDone ==
  ASSUME FixWriteAssumption, Place, pc = "checking", i \in Positions
  PROVE  F \notin done
<1>1. \A j \in 1 .. i - 1 : j \in Positions /\ j # i
  BY DEF Positions, FixWriteAssumption
<1> QED
  BY <1>1, Positioned DEF Place, Writing, F

LEMMA InPlaceNext ==
  ASSUME FixWriteAssumption, TypeOK, Place, Waiting, InPlace, [Next]_vars
  PROVE  InPlace'
<1>1. ASSUME NEW f \in Watched, Other(f) PROVE InPlace'
  <2>1. disk' \in [Watched -> Contents] /\ \A g \in Files : g # f => disk'[g] = disk[g]
    BY <1>1, FilesTyped, OriginalsAre, ContentsAre DEF Other, Replace, ChangeBack, Remove
  <2>2. disk'[f] # "new" /\ (f \in touched)' /\ touched \subseteq touched'
    BY <1>1, FilesTyped, OriginalsAre, VersionsApart DEF Other, Replace, ChangeBack, Remove
  <2>3. UNCHANGED <<pc, i, done, inFlight, tmp>> /\ F' = F
    BY <1>1 DEF Other, F
  <2>4. \A g \in Files : (Back(g) => Back(g)') /\ (Placed(g) => Placed(g)')
                        /\ ((disk[g] = "new")' => disk[g] = "new")
                          /\ (disk[g] = disk'[g] \/ Back(g)')
    BY <2>1, <2>2 DEF Back, Placed
  <2>5. \A g \in Files : (g \in touched => g \in touched')
        /\ (disk[g] = "new" => (disk[g] = "new")' \/ g \in touched')
    BY <2>1, <2>2
  <2>6. (pc \in Renamed => F \in Files) /\ inFlight \subseteq Files
    BY AtFile DEF TypeOK, Renamed
  <2>7. DoneOrBack'
    BY <2>2, <2>3, <2>4, <2>5, <2>6
       DEF Before, Renamed, Flights, Writing, InPlace, DoneOrBack
  <2>8. OneNew'
    BY <2>2, <2>3, <2>4, <2>5, <2>6
       DEF Before, Renamed, Flights, Writing, InPlace, OneNew, DoneOrBack
  <2>9. Exchanged'
    BY <2>2, <2>3, <2>4, <2>5, <2>6
       DEF Before, Renamed, Flights, Writing, InPlace, Exchanged
  <2> QED
    BY <2>7, <2>8, <2>9 DEF InPlace
<1>2. ASSUME MakeTemporary PROVE InPlace'
  BY <1>2, AtFile, FilesTyped, InTheAir, OriginalsAre, Positioned
     DEF MakeTemporary, F, Goto, AllChecked, write, others, InPlace, DoneOrBack, OneNew,
        Exchanged, Before, Renamed, Flights, Back, Placed, Writing, Undoing, Place, Waiting
<1>3. ASSUME TemporaryFails PROVE InPlace'
  BY <1>3, AtFile, FilesTyped, InTheAir, OriginalsAre, Positioned
     DEF TemporaryFails, Use, Leave, KeepFiles, Goto, InPlace, DoneOrBack, OneNew,
        Exchanged, Before, Renamed, Flights, Back, Placed, Writing, Undoing, Place, Waiting
<1>4. ASSUME ReadPlanned PROVE InPlace'
  BY <1>4, AtFile, FilesTyped, InTheAir, OriginalsAre, Positioned
     DEF ReadPlanned, AsPlanned, KeepFiles, write, others, InPlace, DoneOrBack, OneNew,
        Exchanged, Before, Renamed, Flights, Back, Placed, Writing, Undoing, Place, Waiting
<1>5. ASSUME ReadChanged PROVE InPlace'
  BY <1>5, AtFile, FilesTyped, InTheAir, OriginalsAre, Positioned
     DEF ReadChanged, AsPlanned, Raise, KeepFiles, others, Goto, InPlace, DoneOrBack,
        OneNew, Exchanged, Before, Renamed, Flights, Back, Placed, Writing, Undoing, Place,
        Waiting
<1>6. ASSUME SwapIn PROVE InPlace'
  <2>1. i \in Positions /\ F \in Files /\ pc = "checking" /\ inFlight = {}
    BY <1>6, AtFile DEF SwapIn, Rename, Place, Writing, Renamed
  <2>2. F \notin done /\ tmp[F] = "new" /\ Back(F)
    BY <2>1, NotYetDone, Positioned DEF Waiting, InPlace, DoneOrBack, Before, Writing, F
  <2>3. disk'[F] = "new" /\ tmp'[F] = disk[F] /\ \A f \in Files : f # F => disk'[f] = disk[f]
        /\ tmp'[f] = tmp[f]
    BY <1>6, <2>1, <2>2, FilesTyped DEF SwapIn, Exchange
  <2>4. UNCHANGED <<i, done, touched>> /\ inFlight' = {F} /\ pc' = "swapped" /\ F' = F
    BY <1>6 DEF SwapIn, Goto, others, F
  <2>7. DoneOrBack'
    BY <1>6, <2>1, <2>2, <2>3, <2>4
       DEF Before, Renamed, Flights, Writing, Back, Placed, InPlace, DoneOrBack
  <2>8. OneNew'
    BY <1>6, <2>1, <2>2, <2>3, <2>4
       DEF Before, Renamed, Flights, Writing, Back, Placed, InPlace, OneNew, DoneOrBack
  <2>9. Exchanged'
    BY <1>6, <2>1, <2>2, <2>3, <2>4
       DEF Before, Renamed, Flights, Writing, Back, Placed, InPlace, Exchanged
  <2> QED
    BY <2>7, <2>8, <2>9 DEF InPlace
<1>7. ASSUME SwapInFresh PROVE InPlace'
  <2>1. i \in Positions /\ F \in Files /\ pc = "checking" /\ inFlight = {}
    BY <1>7, AtFile DEF SwapInFresh, Rename, Place, Writing, Renamed
  <2>2. F \notin done /\ tmp[F] = "new" /\ Back(F)
    BY <2>1, NotYetDone, Positioned DEF Waiting, InPlace, DoneOrBack, Before, Writing, F
  <2>3. disk'[F] = "new" /\ tmp'[F] = disk[F] /\ \A f \in Files : f # F => disk'[f] = disk[f]
        /\ tmp'[f] = tmp[f]
    BY <1>7, <2>1, <2>2, FilesTyped DEF SwapInFresh, Exchange
  <2>4. UNCHANGED <<i, done, touched>> /\ inFlight' = {F} /\ pc' = "swapped" /\ F' = F
    BY <1>7 DEF SwapInFresh, Goto, others, F
  <2>7. DoneOrBack'
    BY <1>7, <2>1, <2>2, <2>3, <2>4
       DEF Before, Renamed, Flights, Writing, Back, Placed, InPlace, DoneOrBack
  <2>8. OneNew'
    BY <1>7, <2>1, <2>2, <2>3, <2>4
       DEF Before, Renamed, Flights, Writing, Back, Placed, InPlace, OneNew, DoneOrBack
  <2>9. Exchanged'
    BY <1>7, <2>1, <2>2, <2>3, <2>4
       DEF Before, Renamed, Flights, Writing, Back, Placed, InPlace, Exchanged
  <2> QED
    BY <2>7, <2>8, <2>9 DEF InPlace
<1>8. ASSUME SwapInFails PROVE InPlace'
  <2>1. i \in Positions /\ F \in Files /\ pc = "checking" /\ inFlight = {}
    BY <1>8, AtFile DEF SwapInFails, Rename, Place, Writing, Renamed
  <2>2. F \notin done /\ Back(F)
    BY <2>1, NotYetDone DEF InPlace, DoneOrBack, Before, Writing
  <2>3. pc' = "undo" /\ inFlight' \in {{}, {F}} /\ UNCHANGED <<disk, tmp, done, touched>>
    BY <1>8 DEF SwapInFails, Raise, Goto, KeepFiles, others
  <2>7. DoneOrBack'
    BY <1>8, <2>1, <2>2, <2>3
       DEF Before, Renamed, Flights, Writing, Back, Placed, InPlace, DoneOrBack
  <2>8. OneNew'
    BY <1>8, <2>1, <2>2, <2>3
       DEF Before, Renamed, Flights, Writing, Back, Placed, InPlace, OneNew, DoneOrBack
  <2>9. Exchanged'
    BY <1>8, <2>1, <2>2, <2>3
       DEF Before, Renamed, Flights, Writing, Back, Placed, InPlace, Exchanged
  <2> QED
    BY <2>7, <2>8, <2>9 DEF InPlace
<1>9. ASSUME RenameFails PROVE InPlace'
  <2>1. i \in Positions /\ F \in Files /\ pc = "checking" /\ inFlight = {}
    BY <1>9, AtFile DEF RenameFails, Rename, Place, Writing, Renamed
  <2>2. F \notin done /\ Back(F)
    BY <2>1, NotYetDone DEF InPlace, DoneOrBack, Before, Writing
  <2>3. pc' = "undo" /\ inFlight' \in {{}, {F}} /\ UNCHANGED <<disk, tmp, done, touched>>
    BY <1>9 DEF RenameFails, Raise, Goto, KeepFiles, others
  <2>7. DoneOrBack'
    BY <1>9, <2>1, <2>2, <2>3
       DEF Before, Renamed, Flights, Writing, Back, Placed, InPlace, DoneOrBack
  <2>8. OneNew'
    BY <1>9, <2>1, <2>2, <2>3
       DEF Before, Renamed, Flights, Writing, Back, Placed, InPlace, OneNew, DoneOrBack
  <2>9. Exchanged'
    BY <1>9, <2>1, <2>2, <2>3
       DEF Before, Renamed, Flights, Writing, Back, Placed, InPlace, Exchanged
  <2> QED
    BY <2>7, <2>8, <2>9 DEF InPlace
<1>10. ASSUME NotAtomic PROVE InPlace'
  BY <1>10, AtFile, FilesTyped, InTheAir, OriginalsAre, Positioned
     DEF NotAtomic, Rename, Raise, KeepFiles, others, Goto, InPlace, DoneOrBack, OneNew,
        Exchanged, Before, Renamed, Flights, Back, Placed, Writing, Undoing, Place, Waiting
<1>11. ASSUME Swapped PROVE InPlace'
  BY <1>11, AtFile, FilesTyped, InTheAir, OriginalsAre, Positioned
     DEF Swapped, Expected, F, Goto, AllChecked, KeepFiles, write, others, InPlace,
        DoneOrBack, OneNew, Exchanged, Before, Renamed, Flights, Back, Placed, Writing,
        Undoing, Place, Waiting
<1>12. ASSUME SwappedAnother PROVE InPlace'
  BY <1>12, AtFile, FilesTyped, InTheAir, OriginalsAre, Positioned
     DEF SwappedAnother, Expected, F, Goto, KeepFiles, KeepPlace, write, others, InPlace,
        DoneOrBack, OneNew, Exchanged, Before, Renamed, Flights, Back, Placed, Writing,
        Undoing, Place, Waiting
<1>13. ASSUME Return PROVE InPlace'
  <2>1. /\ pc \in {"return", "return if gone"} /\ F \in Files /\ inFlight = {F}
        /\ F \in touched /\ F \notin done /\ tmp[F] # "new"
          /\ (pc = "return if gone" => disk[F] # "new")
    <3>1. pc \in {"return", "return if gone"}
      BY <1>13 DEF Return, PutBack, PutBackGone
    <3>2. F \in Files /\ inFlight = {F}
      BY <3>1, AtFile DEF Place, Renamed, Writing
    <3> QED
      BY <3>1, <3>2 DEF InPlace, DoneOrBack, Exchanged, Before, Renamed, Writing
  <2>2. /\ UNCHANGED <<done, touched>>
        /\ \A f \in Files : f # F => disk'[f] = disk[f] /\ tmp'[f] = tmp[f]
    BY <1>13, <2>1, FilesTyped DEF Return, PutBack, PutBackGone, Exchange, others
  <2>3. /\ pc' \in {"undo", "return if gone", "keep"}
        /\ IF pc' = "undo" THEN inFlight' = {} ELSE inFlight' = {F} /\ F' = F
    BY <1>13, <2>1 DEF Return, PutBack, PutBackGone, Goto, F
  <2>4. disk'[F] # "new" /\ (pc' = "return if gone" => tmp'[F] # "new")
    BY <1>13, <2>1, FilesTyped DEF Return, PutBack, PutBackGone, Exchange, Goto
  <2>7. DoneOrBack'
    BY <2>1, <2>2, <2>3, <2>4
       DEF Before, Renamed, Flights, Writing, Back, Placed, InPlace, DoneOrBack
  <2>8. OneNew'
    BY <2>1, <2>2, <2>3, <2>4
       DEF Before, Renamed, Flights, Writing, Back, Placed, InPlace, OneNew, DoneOrBack
  <2>9. Exchanged'
    BY <2>1, <2>2, <2>3, <2>4
       DEF Before, Renamed, Flights, Writing, Back, Placed, InPlace, Exchanged
  <2> QED
    BY <2>7, <2>8, <2>9 DEF InPlace
<1>14. ASSUME ReturnKept PROVE InPlace'
  BY <1>14, AtFile, FilesTyped, InTheAir, OriginalsAre, Positioned
     DEF ReturnKept, KeepAside, F, Raise, others, SetAside, Goto, InPlace, DoneOrBack,
        OneNew, Exchanged, Before, Renamed, Flights, Back, Placed, Writing, Undoing, Place,
        Waiting
<1>15. ASSUME Applied PROVE InPlace'
  BY <1>15, AtFile, FilesTyped, InTheAir, OriginalsAre, Positioned
     DEF Applied, Leave, KeepFiles, others, Goto, InPlace, DoneOrBack, OneNew, Exchanged,
        Before, Renamed, Flights, Back, Placed, Writing, Undoing, Place, Waiting
<1>16. ASSUME InFlightOurs PROVE InPlace'
  <2>1. Flying \in Files /\ inFlight = {Flying} /\ disk[Flying] = "new" /\ pc = "undo"
    BY <1>16, InTheAir DEF InFlightOurs, Landed
  <2>2. CASE original[Flying] = "absent"
    BY <1>16, <2>2 DEF InFlightOurs, Goto, InPlace, DoneOrBack, OneNew, Exchanged, Before, Renamed,
       Flights,
       Writing
  <2>3. CASE original[Flying] # "absent"
    <3>1. pc' = "return in flight" /\ UNCHANGED <<disk, tmp, done, inFlight, touched>>
      BY <1>16, <2>3 DEF InFlightOurs, Goto, KeepFiles, others
    <3>2. tmp[Flying] # "new" /\ (Flying \in touched \/ tmp[Flying] = original[Flying])
      BY <2>1, <2>3 DEF InPlace, OneNew, Back
    <3> QED
      BY <2>1, <3>1, <3>2 DEF InPlace, DoneOrBack, OneNew, Exchanged, Before, Renamed, Flights,
         Writing,
         Back, Placed
  <2> QED
    BY <2>2, <2>3
<1>17. ASSUME InFlightOther PROVE InPlace'
  BY <1>17, AtFile, FilesTyped, InTheAir, OriginalsAre, Positioned
     DEF InFlightOther, Landed, InFlightUnknown, Goto, KeepFiles, others, InPlace,
        DoneOrBack, OneNew, Exchanged, Before, Renamed, Flights, Back, Placed, Writing,
        Undoing, Place, Waiting
<1>18. ASSUME ReturnInFlight PROVE InPlace'
  <2>1. pc \in {"return in flight", "return in flight if gone"}
    BY <1>18 DEF ReturnInFlight, PutBack, PutBackGone
  <2>2. Flying \in Files /\ inFlight = {Flying}
    BY <2>1, InTheAir DEF Place, Flights
  <2>3. pc' \in {"restore", "return in flight if gone", "keep in flight"}
        /\ UNCHANGED <<done, touched>>
    BY <1>18 DEF ReturnInFlight, PutBack, PutBackGone, Goto, write, others
  <2>4. CASE pc' = "restore"
    BY <2>4 DEF InPlace, DoneOrBack, OneNew, Exchanged, Before, Renamed, Flights, Writing
  <2>5. CASE pc' # "restore"
    <3>1. inFlight' = inFlight
      BY <1>18, <2>5 DEF ReturnInFlight
    <3>2. \A f \in Files : f # Flying => disk'[f] = disk[f]
      BY <1>18, <2>2, FilesTyped DEF ReturnInFlight, PutBack, PutBackGone, Exchange
    <3>3. pc' = "return in flight if gone" => tmp'[Flying] = tmp[Flying]
          /\ disk[Flying] = "absent" /\ pc = "return in flight"
      BY <1>18, <2>2, FilesTyped DEF ReturnInFlight, PutBack, PutBackGone, Exchange, Goto
    <3>4. pc' = "return in flight if gone" => tmp'[Flying] # "new" /\ Flying \in touched
      BY <2>1, <2>2, <3>3 DEF InPlace, Exchanged, Flights
    <3>5. DoneOrBack'
      BY <2>1, <2>2, <2>3, <3>1, <3>2 DEF InPlace, DoneOrBack, Before, Flights, Back, Placed
    <3>6. Exchanged'
      BY <2>2, <2>3, <2>5, <3>1, <3>4 DEF Exchanged, Renamed, Flights
    <3>7. OneNew'
      BY <2>3, <2>5 DEF OneNew, Writing
    <3> QED
      BY <3>5, <3>6, <3>7 DEF InPlace
  <2> QED
    BY <2>4, <2>5
<1>19. ASSUME KeepInFlight PROVE InPlace'
  BY <1>19, AtFile, FilesTyped, InTheAir, OriginalsAre, Positioned
     DEF KeepInFlight, KeepAside, Goto, others, SetAside, InPlace, DoneOrBack, OneNew,
        Exchanged, Before, Renamed, Flights, Back, Placed, Writing, Undoing, Place, Waiting
<1>20. ASSUME NotDone PROVE InPlace'
  BY <1>20, AtFile, FilesTyped, InTheAir, OriginalsAre, Positioned
     DEF NotDone, Restoring, F, Past, KeepFiles, others, Goto, InPlace, DoneOrBack, OneNew,
        Exchanged, Before, Renamed, Flights, Back, Placed, Writing, Undoing, Place, Waiting
<1>21. ASSUME NotOurs PROVE InPlace'
  BY <1>21, AtFile, FilesTyped, InTheAir, OriginalsAre, Positioned
     DEF NotOurs, Restoring, F, Past, KeepFiles, others, Goto, InPlace, DoneOrBack, OneNew,
        Exchanged, Before, Renamed, Flights, Back, Placed, Writing, Undoing, Place, Waiting
<1>22. ASSUME Ours PROVE InPlace'
  BY <1>22, AtFile, FilesTyped, InTheAir, OriginalsAre, Positioned
     DEF Ours, Restoring, F, Goto, KeepPlace, write, others, InPlace, DoneOrBack, OneNew,
        Exchanged, Before, Renamed, Flights, Back, Placed, Writing, Undoing, Place, Waiting
<1>23. ASSUME RestoreFails PROVE InPlace'
  BY <1>23, AtFile, FilesTyped, InTheAir, OriginalsAre, Positioned
     DEF RestoreFails, Restoring, F, Use, Past, KeepFiles, Goto, InPlace, DoneOrBack,
        OneNew, Exchanged, Before, Renamed, Flights, Back, Placed, Writing, Undoing, Place,
        Waiting
<1>24. ASSUME TakeOut PROVE InPlace'
  BY <1>24, AtFile, FilesTyped, InTheAir, OriginalsAre, Positioned
     DEF TakeOut, F, Goto, KeepPlace, write, others, InPlace, DoneOrBack, OneNew,
        Exchanged, Before, Renamed, Flights, Back, Placed, Writing, Undoing, Place, Waiting
<1>25. ASSUME TakeOutGone PROVE InPlace'
  BY <1>25, AtFile, FilesTyped, InTheAir, OriginalsAre, Positioned
     DEF TakeOutGone, F, Past, KeepFiles, others, Goto, InPlace, DoneOrBack, OneNew,
        Exchanged, Before, Renamed, Flights, Back, Placed, Writing, Undoing, Place, Waiting
<1>26. ASSUME TakenOut PROVE InPlace'
  BY <1>26, AtFile, FilesTyped, InTheAir, OriginalsAre, Positioned
     DEF TakenOut, F, TakenOurs, Past, SetAside, others, Goto, InPlace, DoneOrBack, OneNew,
        Exchanged, Before, Renamed, Flights, Back, Placed, Writing, Undoing, Place, Waiting
<1>27. ASSUME ExchangeBack PROVE InPlace'
  BY <1>27, AtFile, FilesTyped, InTheAir, OriginalsAre, Positioned
     DEF ExchangeBack, Exchange, F, Goto, KeepPlace, write, Past, others, InPlace,
        DoneOrBack, OneNew, Exchanged, Before, Renamed, Flights, Back, Placed, Writing,
        Undoing, Place, Waiting
<1>28. ASSUME ExchangedBack PROVE InPlace'
  BY <1>28, AtFile, FilesTyped, InTheAir, OriginalsAre, Positioned
     DEF ExchangedBack, F, Past, Goto, KeepPlace, write, others, InPlace, DoneOrBack,
        OneNew, Exchanged, Before, Renamed, Flights, Back, Placed, Writing, Undoing, Place,
        Waiting
<1>29. ASSUME ReturnRestored PROVE InPlace'
  BY <1>29, AtFile, FilesTyped, InTheAir, OriginalsAre, Positioned
     DEF ReturnRestored, PutBack, F, PutBackGone, others, Exchange, Goto, InPlace,
        DoneOrBack, OneNew, Exchanged, Before, Renamed, Flights, Back, Placed, Writing,
        Undoing, Place, Waiting
<1>30. ASSUME KeepRestored PROVE InPlace'
  BY <1>30, AtFile, FilesTyped, InTheAir, OriginalsAre, Positioned
     DEF KeepRestored, KeepAside, F, Past, others, SetAside, Goto, InPlace, DoneOrBack,
        OneNew, Exchanged, Before, Renamed, Flights, Back, Placed, Writing, Undoing, Place,
        Waiting
<1>31. ASSUME Restored PROVE InPlace'
  BY <1>31, AtFile, FilesTyped, InTheAir, OriginalsAre, Positioned
     DEF Restored, Goto, Ending, KeepFiles, others, InPlace, DoneOrBack, OneNew, Exchanged,
        Before, Renamed, Flights, Back, Placed, Writing, Undoing, Place, Waiting
<1>32. ASSUME DiscardTemporary PROVE InPlace'
  BY <1>32, AtFile, FilesTyped, InTheAir, OriginalsAre, Positioned
     DEF DiscardTemporary, Discard, F, write, others, SetAside, InPlace, DoneOrBack,
        OneNew, Exchanged, Before, Renamed, Flights, Back, Placed, Writing, Undoing, Place,
        Waiting
<1>33. ASSUME End PROVE InPlace'
  BY <1>33, AtFile, FilesTyped, InTheAir, OriginalsAre, Positioned
     DEF End, Goto, BackupKept, KeepFiles, KeepPlace, others, InPlace, DoneOrBack, OneNew,
        Exchanged, Before, Renamed, Flights, Back, Placed, Writing, Undoing, Place, Waiting
<1>34. ASSUME InterruptWrite PROVE InPlace'
  BY <1>34, AtFile, FilesTyped, InTheAir, OriginalsAre, Positioned
     DEF InterruptWrite, Writing, Use, Raise, F, KeepFiles, Goto, InPlace, DoneOrBack,
        OneNew, Exchanged, Before, Renamed, Flights, Back, Placed, Undoing, Place, Waiting
<1>35. ASSUME InterruptTemporaries PROVE InPlace'
  BY <1>35, AtFile, FilesTyped, InTheAir, OriginalsAre, Positioned
     DEF InterruptTemporaries, Use, Leave, KeepFiles, Goto, InPlace, DoneOrBack, OneNew,
        Exchanged, Before, Renamed, Flights, Back, Placed, Writing, Undoing, Place, Waiting
<1>36. ASSUME InterruptRollback PROVE InPlace'
  BY <1>36, AtFile, FilesTyped, InTheAir, OriginalsAre, Positioned
     DEF InterruptRollback, Undoing, Use, Leave, Discard, F, Goto, SetAside, InPlace,
        DoneOrBack, OneNew, Exchanged, Before, Renamed, Flights, Back, Placed, Writing,
        Place, Waiting
<1>37. ASSUME InterruptEnd PROVE InPlace'
  BY <1>37, AtFile, FilesTyped, InTheAir, OriginalsAre, Positioned
     DEF InterruptEnd, Use, KeepFiles, InPlace, DoneOrBack, OneNew, Exchanged, Before,
        Renamed, Flights, Back, Placed, Writing, Undoing, Place, Waiting
<1>38. ASSUME Kill PROVE InPlace'
  BY <1>38, AtFile, FilesTyped, InTheAir, OriginalsAre, Positioned
     DEF Kill, Goto, KeepFiles, KeepPlace, write, others, InPlace, DoneOrBack, OneNew,
        Exchanged, Before, Renamed, Flights, Back, Placed, Writing, Undoing, Place, Waiting
<1>39. ASSUME UNCHANGED vars PROVE InPlace'
  BY <1>39 DEF vars, write, others, F, InPlace, DoneOrBack, OneNew, Exchanged, Before,
        Renamed, Flights, Back, Placed, Writing, Undoing
<1> QED
  BY <1>1, <1>2, <1>3, <1>4, <1>5, <1>6, <1>7, <1>8, <1>9, <1>10, <1>11, <1>12, <1>13,
        <1>14, <1>15, <1>16, <1>17, <1>18, <1>19, <1>20, <1>21, <1>22, <1>23, <1>24, <1>25,
        <1>26, <1>27, <1>28, <1>29, <1>30, <1>31, <1>32, <1>33, <1>34, <1>35, <1>36, <1>37,
        <1>38, <1>39 DEF Next

BackNext(f) == disk'[f] # "new" /\ (disk'[f] = original[f] \/ f \in touched')

LEMMA RestorationBegins ==
  ASSUME FixWriteAssumption, TypeOK, Place, DoneOrBack, pc \in {"undo"} \cup Flights,
         UNCHANGED <<i, touched>>, unrestored \subseteq unrestored',
         \A f \in Files \ inFlight : disk'[f] = disk[f] /\ (f \in done' <=> f \in done),
         \A f \in inFlight : IF f \in done' THEN Placed(f)' ELSE Back(f)' \/ f \in unrestored'
  PROVE  BackOrNamed'
<1>1. \A j \in Positions : Order[j] \in Files /\ ~(j < i')
  BY Positioned DEF Place
<1>2. \A f \in Files : f \notin inFlight => IF f \in done' THEN Placed(f)' ELSE Back(f)'
  BY DEF DoneOrBack, Before, Flights, Back, Placed
<1> QED
  BY <1>1, <1>2 DEF BackOrNamed

LEMMA RestorationGoesOn ==
  ASSUME FixWriteAssumption, BackOrNamed, pc \in Restoration, i \in Positions, F \in done,
         UNCHANGED <<done, touched>>, unrestored \subseteq unrestored',
         \A f \in Files : f # F => disk'[f] = disk[f],
         \/ i' = i /\ pc' # "restore"
         \/ i' = i + 1 /\ (BackNext(F) \/ F \in unrestored')
  PROVE  BackOrNamed'
<1>1. \A j \in Positions : Order[j] \in Files /\ (j # i => Order[j] # F)
  BY Positioned DEF F
<1>3. \A j \in Positions : j # i =>
        IF j < i \/ Order[j] \notin done' THEN BackNext(Order[j]) \/ Order[j] \in unrestored'
        ELSE Placed(Order[j])'
  BY <1>1 DEF BackOrNamed, Back, Placed, BackNext
<1>4. CASE i' = i /\ pc' # "restore"
  BY <1>3, <1>4, Positioned DEF BackOrNamed, Back, BackNext, F
<1>5. CASE i' = i + 1 /\ (BackNext(F) \/ F \in unrestored')
  <2>1. BackNext(Order[i]) \/ Order[i] \in unrestored'
    BY <1>5 DEF F
  <2>2. \A j \in Positions : j < i' <=> j < i \/ j = i
    BY <1>5, Positioned
  <2> QED
    BY <1>3, <2>1, <2>2 DEF BackOrNamed, Back, BackNext
<1> QED
  BY <1>4, <1>5

LEMMA RollingNext ==
  ASSUME FixWriteAssumption, TypeOK, Place, InPlace, Rolling, [Next]_vars
  PROVE  Rolling'
<1>1. ASSUME NEW f \in Watched, Other(f) PROVE Rolling'
  <2>1. disk' \in [Watched -> Contents] /\ \A g \in Files : g # f => disk'[g] = disk[g]
    BY <1>1, FilesTyped, OriginalsAre, ContentsAre DEF Other, Replace, ChangeBack, Remove
  <2>2. disk'[f] # "new" /\ (f \in touched)' /\ touched \subseteq touched'
    BY <1>1, FilesTyped, OriginalsAre, VersionsApart DEF Other, Replace, ChangeBack, Remove
  <2>3. UNCHANGED <<pc, i, done, side, unrestored>> /\ F' = F
    BY <1>1 DEF Other, write, F
  <2>4. \A g \in Files : (Back(g) => Back(g)') /\ (Placed(g) => Placed(g)')
    BY <2>1, <2>2 DEF Back, Placed
  <2>5. pc \in Touching => F \in Files
    BY AtFile DEF Touching, Restoration
  <2>6. BackOrNamed'
    BY <2>3, <2>4, Positioned DEF Rolling, BackOrNamed
  <2>7. AtHand'
    BY <2>3, <2>4, <2>5 DEF Rolling, AtHand, Touching, Restoration
  <2> QED
    BY <2>6, <2>7 DEF Rolling
<1>2. ASSUME MakeTemporary PROVE Rolling'
  BY <1>2, AtFile, FilesTyped, InTheAir, OriginalsAre, Positioned
     DEF MakeTemporary, F, Goto, AllChecked, write, others, Rolling, BackOrNamed, AtHand,
        Restoration, Back, Placed, Place, InPlace, DoneOrBack, OneNew, Exchanged, Before,
        Flights, Touching
<1>3. ASSUME TemporaryFails PROVE Rolling'
  BY <1>3, AtFile, FilesTyped, InTheAir, OriginalsAre, Positioned
     DEF TemporaryFails, Use, Leave, KeepFiles, Goto, Rolling, BackOrNamed, AtHand,
        Restoration, Back, Placed, Place, InPlace, DoneOrBack, OneNew, Exchanged, Before,
        Flights, Touching
<1>4. ASSUME ReadPlanned PROVE Rolling'
  BY <1>4, AtFile, FilesTyped, InTheAir, OriginalsAre, Positioned
     DEF ReadPlanned, AsPlanned, KeepFiles, write, others, Rolling, BackOrNamed, AtHand,
        Restoration, Back, Placed, Place, InPlace, DoneOrBack, OneNew, Exchanged, Before,
        Flights, Touching
<1>5. ASSUME ReadChanged PROVE Rolling'
  BY <1>5, AtFile, FilesTyped, InTheAir, OriginalsAre, Positioned
     DEF ReadChanged, AsPlanned, Raise, KeepFiles, others, Goto, Rolling, BackOrNamed,
        AtHand, Restoration, Back, Placed, Place, InPlace, DoneOrBack, OneNew, Exchanged,
        Before, Flights, Touching
<1>6. ASSUME SwapIn PROVE Rolling'
  BY <1>6, AtFile, FilesTyped, InTheAir, OriginalsAre, Positioned
     DEF SwapIn, Rename, F, Exchange, Goto, write, others, Rolling, BackOrNamed, AtHand,
        Restoration, Back, Placed, Place, InPlace, DoneOrBack, OneNew, Exchanged, Before,
        Flights, Touching
<1>7. ASSUME SwapInFresh PROVE Rolling'
  BY <1>7, AtFile, FilesTyped, InTheAir, OriginalsAre, Positioned
     DEF SwapInFresh, Rename, F, Goto, write, others, Rolling, BackOrNamed, AtHand,
        Restoration, Back, Placed, Place, InPlace, DoneOrBack, OneNew, Exchanged, Before,
        Flights, Touching
<1>8. ASSUME SwapInFails PROVE Rolling'
  BY <1>8, AtFile, FilesTyped, InTheAir, OriginalsAre, Positioned
     DEF SwapInFails, Rename, F, Raise, KeepFiles, others, Goto, Rolling, BackOrNamed,
        AtHand, Restoration, Back, Placed, Place, InPlace, DoneOrBack, OneNew, Exchanged,
        Before, Flights, Touching
<1>9. ASSUME RenameFails PROVE Rolling'
  BY <1>9, AtFile, FilesTyped, InTheAir, OriginalsAre, Positioned
     DEF RenameFails, Rename, Use, Raise, F, KeepFiles, Goto, Rolling, BackOrNamed, AtHand,
        Restoration, Back, Placed, Place, InPlace, DoneOrBack, OneNew, Exchanged, Before,
        Flights, Touching
<1>10. ASSUME NotAtomic PROVE Rolling'
  BY <1>10, AtFile, FilesTyped, InTheAir, OriginalsAre, Positioned
     DEF NotAtomic, Rename, Raise, KeepFiles, others, Goto, Rolling, BackOrNamed, AtHand,
        Restoration, Back, Placed, Place, InPlace, DoneOrBack, OneNew, Exchanged, Before,
        Flights, Touching
<1>11. ASSUME Swapped PROVE Rolling'
  BY <1>11, AtFile, FilesTyped, InTheAir, OriginalsAre, Positioned
     DEF Swapped, Expected, F, Goto, AllChecked, KeepFiles, write, others, Rolling,
        BackOrNamed, AtHand, Restoration, Back, Placed, Place, InPlace, DoneOrBack, OneNew,
        Exchanged, Before, Flights, Touching
<1>12. ASSUME SwappedAnother PROVE Rolling'
  BY <1>12, AtFile, FilesTyped, InTheAir, OriginalsAre, Positioned
     DEF SwappedAnother, Expected, F, Goto, KeepFiles, KeepPlace, write, others, Rolling,
        BackOrNamed, AtHand, Restoration, Back, Placed, Place, InPlace, DoneOrBack, OneNew,
        Exchanged, Before, Flights, Touching
<1>13. ASSUME Return PROVE Rolling'
  BY <1>13, AtFile, FilesTyped, InTheAir, OriginalsAre, Positioned
     DEF Return, PutBack, F, PutBackGone, others, Exchange, Goto, Rolling, BackOrNamed,
        AtHand, Restoration, Back, Placed, Place, InPlace, DoneOrBack, OneNew, Exchanged,
        Before, Flights, Touching
<1>14. ASSUME ReturnKept PROVE Rolling'
  BY <1>14, AtFile, FilesTyped, InTheAir, OriginalsAre, Positioned
     DEF ReturnKept, KeepAside, F, Raise, others, SetAside, Goto, Rolling, BackOrNamed,
        AtHand, Restoration, Back, Placed, Place, InPlace, DoneOrBack, OneNew, Exchanged,
        Before, Flights, Touching
<1>15. ASSUME Applied PROVE Rolling'
  BY <1>15, AtFile, FilesTyped, InTheAir, OriginalsAre, Positioned
     DEF Applied, Leave, KeepFiles, others, Goto, Rolling, BackOrNamed, AtHand,
        Restoration, Back, Placed, Place, InPlace, DoneOrBack, OneNew, Exchanged, Before,
        Flights, Touching
<1>16. ASSUME InFlightOurs PROVE Rolling'
  <2>1. Flying \in Files /\ inFlight = {Flying} /\ disk[Flying] = "new" /\ pc = "undo"
    BY <1>16, InTheAir DEF InFlightOurs, Landed
  <2>2. CASE original[Flying] = "absent"
    <3>1. done' = done \cup inFlight /\ UNCHANGED <<i, touched, unrestored, disk>>
          /\ pc' = "restore"
      BY <1>16, <2>2 DEF InFlightOurs, Goto, KeepFiles, write, others
    <3>2. BackOrNamed'
      BY <2>1, <3>1, RestorationBegins DEF InPlace, Placed
    <3> QED
      BY <3>1, <3>2 DEF Rolling, AtHand
  <2>3. CASE original[Flying] # "absent"
    BY <1>16, <2>3 DEF InFlightOurs, Goto, Rolling, BackOrNamed, AtHand, Restoration
  <2> QED
    BY <2>2, <2>3
<1>17. ASSUME InFlightOther PROVE Rolling'
  BY <1>17, AtFile, FilesTyped, InTheAir, OriginalsAre, Positioned
     DEF InFlightOther, Landed, InFlightUnknown, Goto, KeepFiles, others, Rolling,
        BackOrNamed, AtHand, Restoration, Back, Placed, Place, InPlace, DoneOrBack, OneNew,
        Exchanged, Before, Flights, Touching
<1>18. ASSUME ReturnInFlight PROVE Rolling'
  <2>1. pc \in {"return in flight", "return in flight if gone"}
    BY <1>18 DEF ReturnInFlight, PutBack, PutBackGone
  <2>2. Flying \in Files /\ inFlight = {Flying}
    BY <2>1, InTheAir DEF Place, Flights
  <2>3. pc' \in {"restore", "return in flight if gone", "keep in flight"}
        /\ UNCHANGED <<i, done, touched, unrestored>>
    BY <1>18 DEF ReturnInFlight, PutBack, PutBackGone, Goto, write, others
  <2>4. CASE pc' = "restore"
    <3>1. \A f \in Files : f # Flying => disk'[f] = disk[f]
      BY <1>18, <2>2, FilesTyped DEF ReturnInFlight, PutBack, PutBackGone, Exchange
    <3>2. /\ disk'[Flying] = tmp[Flying]
          /\ pc = "return in flight" => disk[Flying] = "new"
      BY <1>18, <2>2, <2>4, FilesTyped DEF ReturnInFlight, PutBack, PutBackGone, Exchange, Goto
    <3>3. tmp[Flying] # "new" /\ (Flying \in touched \/ tmp[Flying] = original[Flying])
          /\ Flying \notin done
      BY <2>1, <2>2, <3>2 DEF InPlace, DoneOrBack, Exchanged, Before, Flights
    <3>5. \A f \in inFlight : Back(f)' /\ f \notin done'
      BY <2>2, <2>3, <3>2, <3>3 DEF Back
    <3>4. BackOrNamed'
      BY <2>1, <2>2, <2>3, <3>1, <3>5, RestorationBegins DEF InPlace, Flights
    <3> QED
      BY <2>4, <3>4 DEF Rolling, AtHand
  <2>5. CASE pc' # "restore"
    BY <2>3, <2>5 DEF Rolling, BackOrNamed, AtHand, Restoration
  <2> QED
    BY <2>4, <2>5
<1>19. ASSUME KeepInFlight PROVE Rolling'
  <2>1. pc = "keep in flight" /\ pc' = "restore"
    BY <1>19 DEF KeepInFlight, KeepAside, Goto
  <2>2. UNCHANGED <<disk, i, done, touched>> /\ unrestored' = unrestored \cup inFlight
    BY <1>19 DEF KeepInFlight, KeepAside, others
  <2>3. \A f \in inFlight : f \in Files /\ f \notin done
    BY <2>1 DEF TypeOK, InPlace, DoneOrBack, Before, Flights
  <2>4. BackOrNamed'
    BY <2>1, <2>2, <2>3, RestorationBegins DEF InPlace, Flights
  <2> QED
    BY <2>1, <2>4 DEF Rolling, AtHand
<1>20. ASSUME NotDone PROVE Rolling'
  BY <1>20, AtFile, FilesTyped, InTheAir, OriginalsAre, Positioned
     DEF NotDone, Restoring, F, Past, KeepFiles, others, Goto, Rolling, BackOrNamed,
        AtHand, Restoration, Back, Placed, Place, InPlace, DoneOrBack, OneNew, Exchanged,
        Before, Flights, Touching
<1>21. ASSUME NotOurs PROVE Rolling'
  BY <1>21, AtFile, FilesTyped, InTheAir, OriginalsAre, Positioned
     DEF NotOurs, Restoring, F, Past, KeepFiles, others, Goto, Rolling, BackOrNamed,
        AtHand, Restoration, Back, Placed, Place, InPlace, DoneOrBack, OneNew, Exchanged,
        Before, Flights, Touching
<1>22. ASSUME Ours PROVE Rolling'
  <2>1. i \in Positions /\ F \in Files /\ F \in done /\ disk[F] = "new" /\ pc = "restore"
    BY <1>22, AtFile DEF Ours, Restoring
  <2>2. UNCHANGED <<disk, i, done, touched, unrestored>> /\ F' = F /\ pc' \in {"taken", "exchange"}
    BY <1>22 DEF Ours, Goto, KeepPlace, write, others, F
  <2>3. BackOrNamed'
    BY <2>1, <2>2, RestorationGoesOn DEF Rolling, Restoration
  <2>4. IF pc' = "taken" THEN original[F] = "absent" ELSE original[F] = "original"
        /\ side'[F] = "original"
    BY <1>22, <2>1, FilesTyped, OriginalsAre DEF Ours, Goto
  <2> QED
    BY <2>1, <2>2, <2>3, <2>4 DEF Rolling, AtHand, Placed
<1>23. ASSUME RestoreFails PROVE Rolling'
  BY <1>23, AtFile, FilesTyped, InTheAir, OriginalsAre, Positioned
     DEF RestoreFails, Restoring, F, Use, Past, KeepFiles, Goto, Rolling, BackOrNamed,
        AtHand, Restoration, Back, Placed, Place, InPlace, DoneOrBack, OneNew, Exchanged,
        Before, Flights, Touching
<1>24. ASSUME TakeOut PROVE Rolling'
  BY <1>24, AtFile, FilesTyped, InTheAir, OriginalsAre, Positioned
     DEF TakeOut, F, Goto, KeepPlace, write, others, Rolling, BackOrNamed, AtHand,
        Restoration, Back, Placed, Place, InPlace, DoneOrBack, OneNew, Exchanged, Before,
        Flights, Touching
<1>25. ASSUME TakeOutGone PROVE Rolling'
  BY <1>25, AtFile, FilesTyped, InTheAir, OriginalsAre, Positioned
     DEF TakeOutGone, F, Past, KeepFiles, others, Goto, Rolling, BackOrNamed, AtHand,
        Restoration, Back, Placed, Place, InPlace, DoneOrBack, OneNew, Exchanged, Before,
        Flights, Touching
<1>26. ASSUME TakenOut PROVE Rolling'
  <2>1. i \in Positions /\ F \in Files /\ F \in done /\ pc \in Touching
    BY <1>26, AtFile DEF TakenOut, Place, Touching, Restoration
  <2>2. UNCHANGED <<done, touched>> /\ unrestored \subseteq unrestored'
    BY <1>26 DEF TakenOut, Past, KeepPlace, write, others
  <2>3. \A f \in Files : f # F => disk'[f] = disk[f]
    BY <1>26, <2>1, FilesTyped DEF TakenOut, Exchange
  <2>4. i' = i + 1 /\ (BackNext(F) \/ F \in unrestored')
    BY <1>26, <2>1, FilesTyped DEF TakenOut, Past, Rolling, AtHand, Back, BackNext, others
  <2>7. BackOrNamed'
    BY <2>1, <2>2, <2>3, <2>4, RestorationGoesOn DEF Rolling, Touching
  <2>8. AtHand'
    BY <1>26 DEF TakenOut, Past, Goto, AtHand
  <2> QED
    BY <2>7, <2>8 DEF Rolling
<1>27. ASSUME ExchangeBack PROVE Rolling'
  <2>1. i \in Positions /\ F \in Files /\ F \in done /\ pc \in Touching
    BY <1>27, AtFile DEF ExchangeBack, Place, Touching, Restoration
  <2>2. UNCHANGED <<done, touched>> /\ unrestored \subseteq unrestored'
    BY <1>27 DEF ExchangeBack, Past, KeepPlace, write, others
  <2>3. \A f \in Files : f # F => disk'[f] = disk[f]
    BY <1>27, <2>1, FilesTyped DEF ExchangeBack, Exchange
  <2>4. \/ i' = i /\ pc' = "exchanged" /\ F' = F /\ BackNext(F)
        \/ i' = i + 1 /\ pc' = "restore" /\ F \in unrestored'
    <3>1. pc = "exchange" /\ side[F] = "original" /\ original[F] = "original"
      BY <1>27 DEF ExchangeBack, Rolling, AtHand
    <3>2. CASE Exchange(side, F) /\ Goto("exchanged") /\ KeepPlace
      <4>1. disk'[F] = original[F] /\ disk'[F] # "new"
        BY <3>1, <3>2, <2>1, FilesTyped DEF Exchange
      <4> QED
        BY <3>2, <4>1 DEF Goto, KeepPlace, BackNext, F
    <3>3. CASE Past(FALSE)
      BY <3>3 DEF Past, Goto
    <3> QED
      BY <1>27, <3>2, <3>3 DEF ExchangeBack
  <2>7. BackOrNamed'
    BY <2>1, <2>2, <2>3, <2>4, RestorationGoesOn DEF Rolling, Touching
  <2>8. AtHand'
    BY <2>4 DEF AtHand, Back, BackNext
  <2> QED
    BY <2>7, <2>8 DEF Rolling
<1>28. ASSUME ExchangedBack PROVE Rolling'
  <2>1. i \in Positions /\ F \in Files /\ F \in done /\ pc \in Touching
    BY <1>28, AtFile DEF ExchangedBack, Place, Touching, Restoration
  <2>2. UNCHANGED <<done, touched>> /\ unrestored \subseteq unrestored'
    BY <1>28 DEF ExchangedBack, Past, KeepPlace, write, others
  <2>3. \A f \in Files : f # F => disk'[f] = disk[f]
    BY <1>28, <2>1, FilesTyped DEF ExchangedBack, Exchange
  <2>4. \/ i' = i /\ pc' = "return restored"
        \/ i' = i + 1 /\ pc' = "restore" /\ BackNext(F)
    BY <1>28 DEF ExchangedBack, Past, Goto, KeepPlace, Rolling, AtHand, Back, BackNext, others
  <2>7. BackOrNamed'
    BY <2>1, <2>2, <2>3, <2>4, RestorationGoesOn DEF Rolling, Touching
  <2>8. AtHand'
    BY <2>4 DEF AtHand
  <2> QED
    BY <2>7, <2>8 DEF Rolling
<1>29. ASSUME ReturnRestored PROVE Rolling'
  <2>1. i \in Positions /\ F \in Files /\ F \in done /\ pc \in Touching
    BY <1>29, AtFile DEF ReturnRestored, PutBack, PutBackGone, Place, Touching, Restoration
  <2>2. UNCHANGED <<done, touched>> /\ unrestored \subseteq unrestored'
    BY <1>29 DEF ReturnRestored, Past, KeepPlace, write, others
  <2>3. \A f \in Files : f # F => disk'[f] = disk[f]
    BY <1>29, <2>1, FilesTyped DEF ReturnRestored, PutBack, PutBackGone, Exchange
  <2>4. \/ i' = i /\ pc' \in {"return restored if gone", "keep restored"}
        \/ i' = i + 1 /\ pc' = "restore" /\ F \in unrestored'
    BY <1>29 DEF ReturnRestored, PutBack, PutBackGone, Goto
  <2>7. BackOrNamed'
    BY <2>1, <2>2, <2>3, <2>4, RestorationGoesOn DEF Rolling, Touching
  <2>8. AtHand'
    BY <2>4 DEF AtHand
  <2> QED
    BY <2>7, <2>8 DEF Rolling
<1>30. ASSUME KeepRestored PROVE Rolling'
  BY <1>30, AtFile, FilesTyped, InTheAir, OriginalsAre, Positioned
     DEF KeepRestored, KeepAside, F, Past, others, SetAside, Goto, Rolling, BackOrNamed,
        AtHand, Restoration, Back, Placed, Place, InPlace, DoneOrBack, OneNew, Exchanged,
        Before, Flights, Touching
<1>31. ASSUME Restored PROVE Rolling'
  BY <1>31, AtFile, FilesTyped, InTheAir, OriginalsAre, Positioned
     DEF Restored, Goto, Ending, KeepFiles, others, Rolling, BackOrNamed, AtHand,
        Restoration, Back, Placed, Place, InPlace, DoneOrBack, OneNew, Exchanged, Before,
        Flights, Touching
<1>32. ASSUME DiscardTemporary PROVE Rolling'
  BY <1>32, AtFile, FilesTyped, InTheAir, OriginalsAre, Positioned
     DEF DiscardTemporary, Discard, F, write, others, SetAside, Rolling, BackOrNamed,
        AtHand, Restoration, Back, Placed, Place, InPlace, DoneOrBack, OneNew, Exchanged,
        Before, Flights, Touching
<1>33. ASSUME End PROVE Rolling'
  BY <1>33, AtFile, FilesTyped, InTheAir, OriginalsAre, Positioned
     DEF End, Goto, BackupKept, KeepFiles, KeepPlace, others, Rolling, BackOrNamed, AtHand,
        Restoration, Back, Placed, Place, InPlace, DoneOrBack, OneNew, Exchanged, Before,
        Flights, Touching
<1>34. ASSUME InterruptWrite PROVE Rolling'
  BY <1>34, AtFile, FilesTyped, InTheAir, OriginalsAre, Positioned
     DEF InterruptWrite, Writing, Use, Raise, F, KeepFiles, Goto, Rolling, BackOrNamed,
        AtHand, Restoration, Back, Placed, Place, InPlace, DoneOrBack, OneNew, Exchanged,
        Before, Flights, Touching
<1>35. ASSUME InterruptTemporaries PROVE Rolling'
  BY <1>35, AtFile, FilesTyped, InTheAir, OriginalsAre, Positioned
     DEF InterruptTemporaries, Use, Leave, KeepFiles, Goto, Rolling, BackOrNamed, AtHand,
        Restoration, Back, Placed, Place, InPlace, DoneOrBack, OneNew, Exchanged, Before,
        Flights, Touching
<1>36. ASSUME InterruptRollback PROVE Rolling'
  BY <1>36, AtFile, FilesTyped, InTheAir, OriginalsAre, Positioned
     DEF InterruptRollback, Undoing, Use, Leave, Discard, F, Goto, SetAside, Rolling,
        BackOrNamed, AtHand, Restoration, Back, Placed, Place, InPlace, DoneOrBack, OneNew,
        Exchanged, Before, Flights, Touching
<1>37. ASSUME InterruptEnd PROVE Rolling'
  BY <1>37, AtFile, FilesTyped, InTheAir, OriginalsAre, Positioned
     DEF InterruptEnd, Use, KeepFiles, Rolling, BackOrNamed, AtHand, Restoration, Back,
        Placed, Place, InPlace, DoneOrBack, OneNew, Exchanged, Before, Flights, Touching
<1>38. ASSUME Kill PROVE Rolling'
  BY <1>38, AtFile, FilesTyped, InTheAir, OriginalsAre, Positioned
     DEF Kill, Goto, KeepFiles, KeepPlace, write, others, Rolling, BackOrNamed, AtHand,
        Restoration, Back, Placed, Place, InPlace, DoneOrBack, OneNew, Exchanged, Before,
        Flights, Touching
<1>39. ASSUME UNCHANGED vars PROVE Rolling'
  BY <1>39 DEF vars, write, others, F, Rolling, BackOrNamed, AtHand, Restoration, Back,
        Placed
<1> QED
  BY <1>1, <1>2, <1>3, <1>4, <1>5, <1>6, <1>7, <1>8, <1>9, <1>10, <1>11, <1>12, <1>13,
        <1>14, <1>15, <1>16, <1>17, <1>18, <1>19, <1>20, <1>21, <1>22, <1>23, <1>24, <1>25,
        <1>26, <1>27, <1>28, <1>29, <1>30, <1>31, <1>32, <1>33, <1>34, <1>35, <1>36, <1>37,
        <1>38, <1>39 DEF Next

LEMMA TruthfulNext ==
  ASSUME FixWriteAssumption, TypeOK, Place, Rolling, Truthful, [Next]_vars
  PROVE  Truthful'
<1>1. ASSUME NEW f \in Watched, Other(f) PROVE Truthful'
  <2>1. disk' \in [Watched -> Contents] /\ \A g \in Watched : g # f => disk'[g] = disk[g]
    BY <1>1, FilesTyped, OriginalsAre, ContentsAre DEF Other, Replace, ChangeBack, Remove
  <2>2. disk'[f] # "new" /\ (f \in touched)' /\ touched \subseteq touched'
    BY <1>1, FilesTyped, OriginalsAre, VersionsApart DEF Other, Replace, ChangeBack, Remove
  <2>3. UNCHANGED <<pc, done, todo, ending, backup>> /\ off' = off \ {f} /\ off \subseteq Watched
    BY <1>1 DEF Other, write, TypeOK
  <2>4. \A g \in Files : Back(g) => Back(g)'
    BY <2>1, <2>2, OriginalsAre DEF Back
  <2>5. \A g \in off' : ~AsPlanned(g) => ~AsPlanned(g)'
    BY <2>1, <2>3 DEF AsPlanned
  <2> QED
    BY <2>3, <2>4, <2>5 DEF Truthful
<1>2. ASSUME MakeTemporary PROVE Truthful'
  BY <1>2, AtFile, FilesTyped, OriginalsAre
     DEF MakeTemporary, F, Goto, AllChecked, write, others, Truthful, Back, AsPlanned,
        Place, Writing, Undoing
<1>3. ASSUME TemporaryFails PROVE Truthful'
  BY <1>3, AtFile, FilesTyped, OriginalsAre
     DEF TemporaryFails, Use, Leave, KeepFiles, Goto, Truthful, Back, AsPlanned, Place,
        Writing, Undoing
<1>4. ASSUME ReadPlanned PROVE Truthful'
  BY <1>4, AtFile, FilesTyped, OriginalsAre
     DEF ReadPlanned, AsPlanned, KeepFiles, write, others, Truthful, Back, Place, Writing,
        Undoing
<1>5. ASSUME ReadChanged PROVE Truthful'
  BY <1>5, AtFile, FilesTyped, OriginalsAre
     DEF ReadChanged, AsPlanned, Raise, KeepFiles, others, Goto, Truthful, Back, Place,
        Writing, Undoing
<1>6. ASSUME SwapIn PROVE Truthful'
  BY <1>6, AtFile, FilesTyped, OriginalsAre
     DEF SwapIn, Rename, F, Exchange, Goto, write, others, Truthful, Back, AsPlanned,
        Place, Writing, Undoing
<1>7. ASSUME SwapInFresh PROVE Truthful'
  BY <1>7, AtFile, FilesTyped, OriginalsAre
     DEF SwapInFresh, Rename, F, Goto, write, others, Truthful, Back, AsPlanned, Place,
        Writing, Undoing
<1>8. ASSUME SwapInFails PROVE Truthful'
  <2>1. pc = "checking" /\ pc' = "undo" /\ UNCHANGED <<off, ending, backup>>
    BY <1>8 DEF SwapInFails, Rename, Raise, Goto
  <2> QED
    BY <2>1 DEF Truthful
<1>9. ASSUME RenameFails PROVE Truthful'
  BY <1>9, AtFile, FilesTyped, OriginalsAre
     DEF RenameFails, Rename, Use, Raise, F, KeepFiles, Goto, Truthful, Back, AsPlanned,
        Place, Writing, Undoing
<1>10. ASSUME NotAtomic PROVE Truthful'
  BY <1>10, AtFile, FilesTyped, OriginalsAre
     DEF NotAtomic, Rename, Raise, KeepFiles, others, Goto, Truthful, Back, AsPlanned,
        Place, Writing, Undoing
<1>11. ASSUME Swapped PROVE Truthful'
  BY <1>11, AtFile, FilesTyped, OriginalsAre
     DEF Swapped, Expected, F, Goto, AllChecked, KeepFiles, write, others, Truthful, Back,
        AsPlanned, Place, Writing, Undoing
<1>12. ASSUME SwappedAnother PROVE Truthful'
  BY <1>12, AtFile, FilesTyped, OriginalsAre
     DEF SwappedAnother, Expected, F, Goto, KeepFiles, KeepPlace, write, others, Truthful,
        Back, AsPlanned, Place, Writing, Undoing
<1>13. ASSUME Return PROVE Truthful'
  BY <1>13, AtFile, FilesTyped, OriginalsAre
     DEF Return, PutBack, F, PutBackGone, others, Exchange, Goto, Truthful, Back,
        AsPlanned, Place, Writing, Undoing
<1>14. ASSUME ReturnKept PROVE Truthful'
  BY <1>14, AtFile, FilesTyped, OriginalsAre
     DEF ReturnKept, KeepAside, F, Raise, others, SetAside, Goto, Truthful, Back,
        AsPlanned, Place, Writing, Undoing
<1>15. ASSUME Applied PROVE Truthful'
  BY <1>15, AtFile, FilesTyped, OriginalsAre
     DEF Applied, Leave, KeepFiles, others, Goto, Truthful, Back, AsPlanned, Place,
        Writing, Undoing
<1>16. ASSUME InFlightOurs PROVE Truthful'
  BY <1>16, AtFile, FilesTyped, OriginalsAre
     DEF InFlightOurs, Landed, Goto, KeepFiles, write, others, Truthful, Back, AsPlanned,
        Place, Writing, Undoing
<1>17. ASSUME InFlightOther PROVE Truthful'
  BY <1>17, AtFile, FilesTyped, OriginalsAre
     DEF InFlightOther, Landed, InFlightUnknown, Goto, KeepFiles, others, Truthful, Back,
        AsPlanned, Place, Writing, Undoing
<1>18. ASSUME ReturnInFlight PROVE Truthful'
  BY <1>18, AtFile, FilesTyped, OriginalsAre
     DEF ReturnInFlight, PutBack, PutBackGone, write, others, Exchange, Goto, Truthful,
        Back, AsPlanned, Place, Writing, Undoing
<1>19. ASSUME KeepInFlight PROVE Truthful'
  BY <1>19, AtFile, FilesTyped, OriginalsAre
     DEF KeepInFlight, KeepAside, Goto, others, SetAside, Truthful, Back, AsPlanned, Place,
        Writing, Undoing
<1>20. ASSUME NotDone PROVE Truthful'
  BY <1>20, AtFile, FilesTyped, OriginalsAre
     DEF NotDone, Restoring, F, Past, KeepFiles, others, Goto, Truthful, Back, AsPlanned,
        Place, Writing, Undoing
<1>21. ASSUME NotOurs PROVE Truthful'
  BY <1>21, AtFile, FilesTyped, OriginalsAre
     DEF NotOurs, Restoring, F, Past, KeepFiles, others, Goto, Truthful, Back, AsPlanned,
        Place, Writing, Undoing
<1>22. ASSUME Ours PROVE Truthful'
  BY <1>22, AtFile, FilesTyped, OriginalsAre
     DEF Ours, Restoring, F, Goto, KeepPlace, write, others, Truthful, Back, AsPlanned,
        Place, Writing, Undoing
<1>23. ASSUME RestoreFails PROVE Truthful'
  BY <1>23, AtFile, FilesTyped, OriginalsAre
     DEF RestoreFails, Restoring, F, Use, Past, KeepFiles, Goto, Truthful, Back, AsPlanned,
        Place, Writing, Undoing
<1>24. ASSUME TakeOut PROVE Truthful'
  BY <1>24, AtFile, FilesTyped, OriginalsAre
     DEF TakeOut, F, Goto, KeepPlace, write, others, Truthful, Back, AsPlanned, Place,
        Writing, Undoing
<1>25. ASSUME TakeOutGone PROVE Truthful'
  BY <1>25, AtFile, FilesTyped, OriginalsAre
     DEF TakeOutGone, F, Past, KeepFiles, others, Goto, Truthful, Back, AsPlanned, Place,
        Writing, Undoing
<1>26. ASSUME TakenOut PROVE Truthful'
  BY <1>26, AtFile, FilesTyped, OriginalsAre
     DEF TakenOut, F, TakenOurs, Past, SetAside, others, Goto, Truthful, Back, AsPlanned,
        Place, Writing, Undoing
<1>27. ASSUME ExchangeBack PROVE Truthful'
  BY <1>27, AtFile, FilesTyped, OriginalsAre
     DEF ExchangeBack, Exchange, F, Goto, KeepPlace, write, Past, others, Truthful, Back,
        AsPlanned, Place, Writing, Undoing
<1>28. ASSUME ExchangedBack PROVE Truthful'
  BY <1>28, AtFile, FilesTyped, OriginalsAre
     DEF ExchangedBack, F, Past, Goto, KeepPlace, write, others, Truthful, Back, AsPlanned,
        Place, Writing, Undoing
<1>29. ASSUME ReturnRestored PROVE Truthful'
  BY <1>29, AtFile, FilesTyped, OriginalsAre
     DEF ReturnRestored, PutBack, F, PutBackGone, others, Exchange, Goto, Truthful, Back,
        AsPlanned, Place, Writing, Undoing
<1>30. ASSUME KeepRestored PROVE Truthful'
  BY <1>30, AtFile, FilesTyped, OriginalsAre
     DEF KeepRestored, KeepAside, F, Past, others, SetAside, Goto, Truthful, Back,
        AsPlanned, Place, Writing, Undoing
<1>31. ASSUME Restored PROVE Truthful'
  <2>1. pc = "restore" /\ pc' = "discard" /\ UNCHANGED <<disk, touched, backup, off>>
        /\ ending' = Ending /\ i > Len(Order)
    BY <1>31 DEF Restored, Goto, KeepFiles, others
  <2>2. Ending # "none" /\ Ending # "applied" /\ backup
    BY <2>1 DEF Ending, Place, Undoing, TypeOK
  <2>3. Ending # "failed" /\ unrestored = {} => \A f \in Files : Back(f)
    <3>1. i \in 1 .. Len(Order) + 1
      BY DEF TypeOK
    <3>2. \A j \in Positions : j < i
      BY <2>1, <3>1 DEF Positions, FixWriteAssumption
    <3> QED
      BY <2>1, <3>2, Positioned DEF Rolling, BackOrNamed, Restoration
  <2>4. Ending \in {"changed", "not atomic", "restored"} => Ending # "failed" /\ unrestored = {}
    BY DEF Ending
  <2> QED
    BY <2>1, <2>2, <2>3, <2>4 DEF Truthful, Back
<1>32. ASSUME DiscardTemporary PROVE Truthful'
  BY <1>32, AtFile, FilesTyped, OriginalsAre
     DEF DiscardTemporary, Discard, F, write, others, SetAside, Truthful, Back, AsPlanned,
        Place, Writing, Undoing
<1>33. ASSUME End PROVE Truthful'
  <2>1. pc = "discard" /\ pc' = "ended" /\ UNCHANGED <<disk, touched, off, ending>>
        /\ backup' = BackupKept(ending)
    BY <1>33 DEF End, Goto, KeepFiles, KeepPlace, others
  <2>2. ending # "none" /\ ending \in {"none", "applied", "changed", "failed", "not atomic", "restored", "interrupted"}
    BY <2>1 DEF Truthful, TypeOK
  <2>3. ~backup' => ending \in {"changed", "not atomic", "restored"}
    BY <2>1, <2>2 DEF BackupKept
  <2> QED
    BY <2>1, <2>3 DEF Truthful, Back
<1>34. ASSUME InterruptWrite PROVE Truthful'
  BY <1>34, AtFile, FilesTyped, OriginalsAre
     DEF InterruptWrite, Writing, Use, Raise, F, KeepFiles, Goto, Truthful, Back,
        AsPlanned, Place, Undoing
<1>35. ASSUME InterruptTemporaries PROVE Truthful'
  BY <1>35, AtFile, FilesTyped, OriginalsAre
     DEF InterruptTemporaries, Use, Leave, KeepFiles, Goto, Truthful, Back, AsPlanned,
        Place, Writing, Undoing
<1>36. ASSUME InterruptRollback PROVE Truthful'
  BY <1>36, AtFile, FilesTyped, OriginalsAre
     DEF InterruptRollback, Undoing, Use, Leave, Discard, F, Goto, SetAside, Truthful,
        Back, AsPlanned, Place, Writing
<1>37. ASSUME InterruptEnd PROVE Truthful'
  BY <1>37, AtFile, FilesTyped, OriginalsAre
     DEF InterruptEnd, Use, KeepFiles, Truthful, Back, AsPlanned, Place, Writing, Undoing
<1>38. ASSUME Kill PROVE Truthful'
  BY <1>38, AtFile, FilesTyped, OriginalsAre
     DEF Kill, Goto, KeepFiles, KeepPlace, write, others, Truthful, Back, AsPlanned, Place,
        Writing, Undoing
<1>39. ASSUME UNCHANGED vars PROVE Truthful'
  BY <1>39 DEF vars, write, others, Truthful, Back, AsPlanned
<1> QED
  BY <1>1, <1>2, <1>3, <1>4, <1>5, <1>6, <1>7, <1>8, <1>9, <1>10, <1>11, <1>12, <1>13,
        <1>14, <1>15, <1>16, <1>17, <1>18, <1>19, <1>20, <1>21, <1>22, <1>23, <1>24, <1>25,
        <1>26, <1>27, <1>28, <1>29, <1>30, <1>31, <1>32, <1>33, <1>34, <1>35, <1>36, <1>37,
        <1>38, <1>39 DEF Next

LEMMA InvInit ==
  ASSUME FixWriteAssumption, Init
  PROVE  Inv
<1>1. TypeOK
  BY NextPosition DEF Init, TypeOK, Nothing, original, Contents, Writing, write, others, Watched
<1>2. Place
  BY NextPosition DEF Init, Place, Writing, Undoing, Renamed, Flights, Restoration, Touching,
     Positions,
     FixWriteAssumption
<1>3. /\ Held /\ Carried /\ Discarding
      /\ \A f \in Files : tmp[f] = "absent" /\ side[f] = "absent" /\ disk[f] = original[f]
  BY VersionsApart, OriginalsAre DEF Init, Nothing, Held, Carried, Discarding
<1>4. Waiting
  BY <1>3, Positioned DEF Init, Waiting, Renamed
<1>5. DoneOrBack /\ OneNew /\ Exchanged
  BY <1>3, OriginalsAre DEF Init, DoneOrBack, OneNew, Exchanged, Renamed, Back
<1>6. BackOrNamed /\ AtHand /\ Truthful
  BY DEF Init, BackOrNamed, AtHand, Restoration, Truthful
<1> QED
  BY <1>1, <1>2, <1>3, <1>4, <1>5, <1>6 DEF Inv, InPlace, Rolling

LEMMA InvNext ==
  ASSUME FixWriteAssumption, Inv, [Next]_vars
  PROVE  Inv'
  BY TypeNext, PlaceNext, HeldNext, WaitingNext, CarriedNext, DiscardingNext, InPlaceNext,
     RollingNext,
     TruthfulNext DEF Inv

LEMMA InvIsEnough ==
  ASSUME FixWriteAssumption, Inv
  PROVE  NothingIsLost
<1>1. VersionsAreKept
  <2>1. SUFFICES ASSUME NEW v \in owed
                 PROVE  v \in Visible \cup (IF pc = "ended"
                   /\ ending # "interrupted" THEN {} ELSE Hidden)
    BY DEF VersionsAreKept
  <2>2. v \in Versions /\ Somewhere(v)
    BY DEF Inv, TypeOK, Held
  <2>3. /\ DOMAIN disk = Watched /\ DOMAIN tmp = Files /\ DOMAIN side = Files
    BY DEF Inv, TypeOK
  <2>4. v \in Visible \cup Hidden
    BY <2>2, <2>3 DEF Somewhere, Visible, Hidden, Range
  <2>5. ASSUME pc = "ended", ending # "interrupted" PROVE v \in Visible
    <3>1. \A j \in Positions : j < i
      <4>1. i > Len(Order) /\ i \in 1 .. Len(Order) + 1
        BY <2>5 DEF Inv, Discarding, TypeOK
      <4> QED
        BY <4>1 DEF Positions, FixWriteAssumption
    <3>2. \A f \in Files : tmp[f] # v /\ side[f] # v
      BY <2>2, <2>5, <3>1, Positioned DEF Inv, Discarding
    <3> QED
      BY <2>2, <2>3, <3>2 DEF Somewhere, Visible, Range
  <2> QED
    BY <2>4, <2>5
<1>2. UntouchedWhenSaid
  BY DEF Inv, Truthful, Back, UntouchedWhenSaid
<1>3. OriginalsAreKept
  <2>1. ASSUME ~backup PROVE \A f \in Files : Back(f)
    BY <2>1 DEF Inv, Place, Truthful
  <2> QED
    BY <2>1 DEF OriginalsAreKept, Back
<1>4. AppliedSawEveryChange
  BY DEF Inv, Truthful, AppliedSawEveryChange
<1> QED
  BY <1>1, <1>2, <1>3, <1>4 DEF NothingIsLost

\* Whatever the files and whenever other programs write, renames fail or an interruption or
\* a kill falls: no content another program wrote is lost, a project said to be untouched is,
\* the originals are at their paths or in the backup, and what was applied saw every change.
\* (remediate/apply.py, _writing, _roll_back, apply_plan)
THEOREM WritesLoseNothing ==
  ASSUME FixWriteAssumption
  PROVE  Spec => []NothingIsLost
<1>1. Init => Inv
  BY InvInit
<1>2. Inv /\ [Next]_vars => Inv'
  BY InvNext
<1>3. Inv => NothingIsLost
  BY InvIsEnough
<1> QED
  BY <1>1, <1>2, <1>3, PTL DEF Spec

-----------------------------------------------------------------------------
(* ToolApply.  An outcome is the last thing a run has; the tool is the one *)
(* backed up, and the backup whole, from the restore of the tool to the    *)
(* end; and no step after an outcome changes what it was judged by.        *)

Judged ==
    /\ toolOutcome # "none" => at = "end"
    /\ at = "restore executables" => tool = before /\ toolBackup = "whole"
    /\ toolBackup = "receipt" => toolOutcome = "applied"
    /\ plannedTool = Planned

ToolInv == ToolTypeOK /\ Judged /\ AppliedIsVerified /\ FailedIsUndone

LEMMA PlannedIsATool == Planned \in Tools
  BY DEF Planned, Tools

LEMMA ToolInitHolds == ToolInit => ToolInv
<1> SUFFICES ASSUME ToolInit PROVE ToolInv
  OBVIOUS
<1>1. ToolTypeOK
  BY PlannedIsATool DEF ToolInit, ToolTypeOK, StartBins, States
<1>2. Judged /\ AppliedIsVerified /\ FailedIsUndone
  BY DEF ToolInit, Judged, AppliedIsVerified, FailedIsUndone
<1> QED BY <1>1, <1>2 DEF ToolInv

LEMMA EntriesNamed ==
  NamedBy("planned") \subseteq {"mine"} /\ \A record : NamedBy(record) \subseteq Names
  BY DEF NamedBy, Names

\* A run that has no outcome yet owes nothing but that no directory was written in the
\* place of another, and that the backup is not discarded.
LEMMA NoOutcomeYet ==
  ASSUME toolOutcome = "none", ~elsewhere PROVE AppliedIsVerified /\ FailedIsUndone
  BY DEF AppliedIsVerified, FailedIsUndone

LEMMA AllEntriesAreSeen ==
  ASSUME ToolTypeOK, NEW n \in Names, n \notin LookedAt, bin[n] # "locked"
  PROVE bin[n] \in {inventory[n], "absent"}
<1> SUFFICES ASSUME bin[n] # "absent" PROVE bin[n] = inventory[n]
  OBVIOUS
<1>1. n \in There
  BY DEF There
<1>2. inventory[n] # "absent" /\ Seen(bin[n]) = Seen(inventory[n]) /\ ~IsLarge(inventory[n])
  BY <1>1 DEF LookedAt
<1> QED BY <1>2 DEF Seen, IsLarge

LEMMA ConsiderKeeps == ASSUME ToolInv, Consider PROVE ToolInv'
<1>1. ToolTypeOK'
  BY DEF ToolInv, ToolTypeOK, Consider, Refuse, GoTo
<1>2. Judged'
  BY DEF ToolInv, Judged, Consider, Refuse, GoTo
<1>3. AppliedIsVerified' /\ FailedIsUndone'
  BY DEF ToolInv, Judged, AppliedIsVerified, FailedIsUndone, Consider, Refuse, GoTo
<1> QED BY <1>1, <1>2, <1>3 DEF ToolInv

LEMMA RereadKeeps == ASSUME ToolInv, Reread PROVE ToolInv'
<1>1. ToolTypeOK'
  BY DEF ToolInv, ToolTypeOK, Reread, Refuse, GoTo, Readable
<1>2. Judged'
  BY DEF ToolInv, Judged, Reread, Refuse, GoTo, Readable
<1>3. AppliedIsVerified' /\ FailedIsUndone'
  BY DEF ToolInv, Judged, AppliedIsVerified, FailedIsUndone, Reread, Refuse, GoTo, Readable
<1> QED BY <1>1, <1>2, <1>3 DEF ToolInv

LEMMA RecordKeeps == ASSUME ToolInv, Record PROVE ToolInv'
<1>1. ToolTypeOK'
  BY DEF ToolInv, ToolTypeOK, Record, Refuse, GoTo
<1>2. Judged'
  BY DEF ToolInv, Judged, Record, Refuse, GoTo
<1>3. AppliedIsVerified' /\ FailedIsUndone'
  BY DEF ToolInv, Judged, AppliedIsVerified, FailedIsUndone, Record, Refuse, GoTo
<1> QED BY <1>1, <1>2, <1>3 DEF ToolInv

LEMMA BackUpKeeps == ASSUME ToolInv, BackUp PROVE ToolInv'
<1>1. ToolTypeOK'
  BY DEF ToolInv, ToolTypeOK, BackUp, Refuse, GoTo, Whole
<1>2. Judged'
  BY DEF ToolInv, Judged, BackUp, Refuse, GoTo, Whole
<1>3. AppliedIsVerified' /\ FailedIsUndone'
  BY DEF ToolInv, Judged, AppliedIsVerified, FailedIsUndone, BackUp, Refuse, GoTo, Whole
<1> QED BY <1>1, <1>2, <1>3 DEF ToolInv

LEMMA StartRunKeeps == ASSUME ToolInv, StartRun PROVE ToolInv'
<1>1. ToolTypeOK'
  BY DEF ToolInv, ToolTypeOK, StartRun, GoTo
<1>2. Judged'
  BY DEF ToolInv, Judged, StartRun, GoTo
<1>3. AppliedIsVerified' /\ FailedIsUndone'
  BY DEF ToolInv, Judged, AppliedIsVerified, FailedIsUndone, StartRun, GoTo
<1> QED BY <1>1, <1>2, <1>3 DEF ToolInv

LEMMA BuildKeeps == ASSUME ToolInv, Build PROVE ToolInv'
<1>1. ToolTypeOK'
  <2>1. tool' \in Tools
    <3>1. tool \in Tools
      BY DEF ToolInv, ToolTypeOK
    <3>2. \/ tool' = tool
          \/ \E p \in {"own", "link", "absent"} : tool' = [tool EXCEPT !.place = p]
          \/ \E r \in {"more", "odd", "bad"} : tool' = [tool EXCEPT !.record = r]
          \/ tool' = [tool EXCEPT !.versions = "other"]
          \/ tool' = [tool EXCEPT !.starts = FALSE]
      BY DEF Build
    <3> QED BY <3>1, <3>2 DEF Tools
  <2>2. bin' \in [Names -> States]
    <3>1. bin' = bin \/ \E n \in Names, s \in States : bin' = [bin EXCEPT ![n] = s]
      BY DEF Build
    <3> QED BY <3>1 DEF ToolInv, ToolTypeOK
  <2>3. moved' \subseteq {"root", "bin", "backup"}
    <3>1. moved' = moved \/ \E d \in {"root", "bin", "backup"} : moved' = moved \cup {d}
      BY DEF Build
    <3> QED BY <3>1 DEF ToolInv, ToolTypeOK
  <2>4. UNCHANGED <<plannedTool, before, inventory, left, named>>
    BY DEF Build
  <2> QED BY <2>1, <2>2, <2>3, <2>4 DEF ToolInv, ToolTypeOK
<1>2. Judged'
  BY DEF ToolInv, Judged, Build
<1>3. AppliedIsVerified' /\ FailedIsUndone'
  BY DEF ToolInv, Judged, AppliedIsVerified, FailedIsUndone, Build
<1> QED BY <1>1, <1>2, <1>3 DEF ToolInv

LEMMA EndRunKeeps == ASSUME ToolInv, EndRun PROVE ToolInv'
<1>1. ToolTypeOK'
  <2>1. tool \in Tools /\ bin \in [Names -> States]
    BY DEF ToolInv, ToolTypeOK
  <2>2. tool' \in Tools
    <3>1. CASE code' = "ok"
      <4>1. \E v \in {"other", "verified"}, r \in {"new", tool.record} :
               tool' = [tool EXCEPT !.versions = v, !.record = r]
        BY <3>1 DEF EndRun
      <4> QED BY <2>1, <4>1 DEF Tools
    <3>2. CASE code' # "ok"
      <4>1. \/ tool' = tool \/ tool' = [tool EXCEPT !.place = "absent"]
            \/ tool' = [tool EXCEPT !.versions = "other"]
        BY <3>2 DEF EndRun
      <4> QED BY <2>1, <4>1 DEF Tools
    <3> QED BY <3>1, <3>2
  <2>3. bin' \in [Names -> States]
    <3>1. bin' = bin \/ \E s \in {"absent", bin["mine"]} : bin' = [bin EXCEPT !["mine"] = s]
      BY DEF EndRun
    <3>2. bin["mine"] \in States /\ "absent" \in States
      BY <2>1 DEF Names, States
    <3> QED BY <2>1, <3>1, <3>2
  <2>4. UNCHANGED <<moved, plannedTool, before, inventory, left, named>>
    BY DEF EndRun
  <2> QED BY <2>2, <2>3, <2>4 DEF ToolInv, ToolTypeOK
<1>2. Judged'
  BY DEF ToolInv, Judged, EndRun, GoTo
<1>3. AppliedIsVerified' /\ FailedIsUndone'
  BY DEF ToolInv, Judged, AppliedIsVerified, FailedIsUndone, EndRun, GoTo
<1> QED BY <1>1, <1>2, <1>3 DEF ToolInv

LEMMA EditToolKeeps == ASSUME ToolInv, EditTool PROVE ToolInv'
<1>1. ToolTypeOK'
  <2>1. tool' \in Tools
    <3>1. \/ tool' = tool
          \/ \E r \in {"planned", "new"} : tool' = [tool EXCEPT !.versions = "other", !.record = r]
      BY DEF EditTool
    <3> QED BY <3>1 DEF Tools, ToolInv, ToolTypeOK
  <2>2. bin' \in [Names -> States]
    <3>1. \/ bin' = bin
          \/ \E n \in Names, s \in {"file2", "locked", "absent"} : bin' = [bin EXCEPT ![n] = s]
      BY DEF EditTool, Names
    <3>2. {"file2", "locked", "absent"} \subseteq States
      BY DEF States
    <3> QED BY <3>1, <3>2 DEF ToolInv, ToolTypeOK
  <2>3. UNCHANGED <<moved, plannedTool, before, inventory, left, named>>
    BY DEF EditTool
  <2> QED BY <2>1, <2>2, <2>3 DEF ToolInv, ToolTypeOK
<1>2. Judged'
  BY DEF ToolInv, Judged, EditTool
<1>3. AppliedIsVerified' /\ FailedIsUndone'
  BY DEF ToolInv, Judged, AppliedIsVerified, FailedIsUndone, EditTool
<1> QED BY <1>1, <1>2, <1>3 DEF ToolInv

LEMMA AcceptKeeps == ASSUME ToolInv, Accept PROVE ToolInv'
<1>1. UNCHANGED <<kind, tool, bin, moved, plannedTool, before, inventory, left, named, elsewhere>>
      /\ toolOutcome' = "applied" /\ at' = "end"
  BY DEF Accept, GoTo
<1>2. ToolTypeOK'
  BY <1>1 DEF ToolInv, ToolTypeOK
<1>3. Judged'
  BY <1>1 DEF ToolInv, Judged
<1>4. AppliedIsVerified'
  <2>1. Readable /\ tool.starts /\ tool.versions = "verified"
    BY DEF Accept, Accepted, EndState
  <2>2. ASSUME HasBin, NEW n \in Names, bin[n] # inventory[n]
        PROVE n = "mine" /\ bin[n] \in {"tool", "absent"}
    <3>1. n \in NamedBy(plannedTool.record) /\ bin[n] \in {"absent", "tool"}
      BY <2>2 DEF Accept, Accepted, Unexpected
    <3> QED BY <3>1, EntriesNamed DEF ToolInv, Judged, Planned
  <2>3. HasBin => "bin" \notin moved
    BY DEF Accept, Accepted
  <2> QED BY <1>1, <2>1, <2>2, <2>3 DEF AppliedIsVerified, Readable, HasBin
<1>5. FailedIsUndone'
  BY <1>1 DEF ToolInv, FailedIsUndone
<1> QED BY <1>2, <1>3, <1>4, <1>5 DEF ToolInv

LEMMA RestoreToolKeeps == ASSUME ToolInv, RestoreTool PROVE ToolInv'
<1>1. UNCHANGED <<kind, bin, moved, plannedTool, before, inventory, toolBackup, named>>
      /\ left' \subseteq Names /\ toolOutcome = "none" /\ at = "read back"
  BY EntriesNamed DEF RestoreTool, ToolInv, Judged
<1>2. CASE MayRestore
  <2>1. tool' = before /\ ~elsewhere' /\ at' = "restore executables" /\ toolOutcome' = "none"
        /\ toolBackup = "whole"
    <3>1. toolBackup = "whole" /\ "root" \notin moved
      BY <1>2 DEF MayRestore
    <3>2. elsewhere' = ("root" \in moved) /\ at' = "restore executables"
          /\ toolOutcome' = toolOutcome
      BY <1>2 DEF RestoreTool, GoTo
    <3>3. tool' = before
      BY <1>2, <3>1 DEF RestoreTool
    <3>4. ~elsewhere'
      BY <3>1, <3>2
    <3>5. toolOutcome' = "none"
      BY <1>1, <3>2
    <3> QED BY <3>1, <3>2, <3>3, <3>4, <3>5
  <2>2. ToolTypeOK'
    BY <1>1, <2>1 DEF ToolInv, ToolTypeOK
  <2>3. Judged'
    BY <1>1, <2>1 DEF ToolInv, Judged
  <2> QED BY <2>1, <2>2, <2>3 DEF ToolInv, AppliedIsVerified, FailedIsUndone
<1>3. CASE ~MayRestore
  <2>1. toolOutcome' = "not restored" /\ at' = "end" /\ UNCHANGED <<tool, elsewhere>>
    BY <1>3 DEF RestoreTool, GoTo
  <2>2. toolBackup # "receipt"
    BY <1>1 DEF ToolInv, Judged
  <2>3. ToolTypeOK'
    BY <1>1, <2>1 DEF ToolInv, ToolTypeOK
  <2>4. Judged'
    BY <1>1, <2>1, <2>2 DEF ToolInv, Judged
  <2> QED BY <1>1, <2>1, <2>2, <2>3, <2>4 DEF ToolInv, AppliedIsVerified, FailedIsUndone
<1> QED BY <1>2, <1>3

LEMMA RestoreExecutablesKeeps == ASSUME ToolInv, RestoreExecutables PROVE ToolInv'
<1>1. UNCHANGED <<kind, tool, moved, plannedTool, before, inventory, toolBackup, left, elsewhere>>
      /\ at' = "end" /\ tool = before /\ toolBackup = "whole"
        /\ toolOutcome' \in {"restored", "in part"}
  BY DEF RestoreExecutables, GoTo, ToolInv, Judged
<1>2. bin' \in [Names -> States] /\ named' \subseteq Names
      /\ (HasBin => \A n \in Names : bin'[n] \in {inventory[n], "absent"} \/ n \in named')
  <2>1. CASE ~HasBin
    BY <2>1 DEF RestoreExecutables, ToolInv, ToolTypeOK
  <2>2. CASE HasBin /\ "bin" \in moved
    BY <2>2 DEF RestoreExecutables, ToolInv, ToolTypeOK
  <2>3. CASE HasBin /\ "bin" \notin moved
    <3>1. /\ bin' = [n \in Names |-> IF n \in LookedAt THEN PutBackEntry(n) ELSE bin[n]]
          /\ named' = {n \in Names : bin[n] = "locked"} \cup {n \in LookedAt : Failed(n)}
                        \cup {n \in LookedAt : MovedOut(n)}
      BY <2>3 DEF RestoreExecutables
    <3>2. LookedAt \subseteq Names
      BY EntriesNamed DEF LookedAt, There, ToolInv, ToolTypeOK
    <3>3. \A n \in Names : PutBackEntry(n) \in {inventory[n], bin[n]}
      BY DEF PutBackEntry
    <3>4. \A n \in Names : PutBackEntry(n) # inventory[n] => Failed(n)
      BY DEF PutBackEntry, Failed
    <3>5. bin' \in [Names -> States]
      BY <3>1, <3>3 DEF ToolInv, ToolTypeOK
    <3>6. named' \subseteq Names
      BY <3>1, <3>2
    <3>7. ASSUME NEW n \in Names PROVE bin'[n] \in {inventory[n], "absent"} \/ n \in named'
      <4>1. CASE n \in LookedAt
        BY <3>1, <3>4, <4>1
      <4>2. CASE n \notin LookedAt
        BY <3>1, <4>2, AllEntriesAreSeen DEF ToolInv
      <4> QED BY <4>1, <4>2
    <3> QED BY <3>5, <3>6, <3>7
  <2> QED BY <2>1, <2>2, <2>3
<1>3. ToolTypeOK'
  BY <1>1, <1>2 DEF ToolInv, ToolTypeOK
<1>4. Judged'
  BY <1>1 DEF ToolInv, Judged
<1>5. AppliedIsVerified'
  BY <1>1 DEF AppliedIsVerified
<1>6. FailedIsUndone'
  <2>1. HasBin' <=> HasBin
    BY <1>1 DEF HasBin
  <2>2. HasBin' => \A n \in Names : bin'[n] \in {inventory'[n], "absent"} \cup
                                        (IF n \in named' THEN States ELSE {})
    BY <1>1, <1>2, <2>1
  <2>3. ~elsewhere'
    BY <1>1 DEF ToolInv, FailedIsUndone
  <2> QED BY <1>1, <2>2, <2>3 DEF FailedIsUndone
<1> QED BY <1>3, <1>4, <1>5, <1>6 DEF ToolInv

LEMMA ToolDoneKeeps == ASSUME ToolInv, UNCHANGED toolVars PROVE ToolInv'
<1>1. ToolTypeOK' /\ Judged'
  BY DEF ToolInv, ToolTypeOK, Judged, toolVars
<1>2. AppliedIsVerified'
  BY DEF ToolInv, AppliedIsVerified, Readable, HasBin, toolVars
<1>3. FailedIsUndone'
  BY DEF ToolInv, FailedIsUndone, HasBin, toolVars
<1> QED BY <1>1, <1>2, <1>3 DEF ToolInv

LEMMA ToolInvNext == ToolInv /\ [ToolNext]_toolVars => ToolInv'
  BY ConsiderKeeps, RereadKeeps, RecordKeeps, BackUpKeeps, StartRunKeeps, BuildKeeps, EndRunKeeps,
     EditToolKeeps, AcceptKeeps, RestoreToolKeeps, RestoreExecutablesKeeps, ToolDoneKeeps
     DEF ToolNext, Done

-----------------------------------------------------------------------------
(* ToolIsUpdatedOrBack, for `apply_tool` with `_backup`,                   *)
(* `_unexpected_executables`, `_restore_environment` and                   *)
(* `_restore_executables`: however often the tool and its executables are  *)
(* edited and whatever builds change under the run, a tool said to be      *)
(* updated is the verified one with no executable planted, and after any   *)
(* other run it is the one backed up, what could not be put back is named, *)
(* and nothing was written outside the directories recorded.               *)
THEOREM AToolIsUpdatedOrBack == ToolSpec => []ToolIsUpdatedOrBack
<1>1. ToolInv => ToolIsUpdatedOrBack
  BY DEF ToolInv, ToolIsUpdatedOrBack
<1> QED BY <1>1, ToolInitHolds, ToolInvNext, PTL DEF ToolSpec

-----------------------------------------------------------------------------
(* FixCommand.  Where the run is decides what it has found out so far.     *)

Unplanned == {"options", "find", "snapshot", "read", "query"}
Untried == Unplanned \cup {"authorise", "freeze"}
Reported == {"apply", "reresolve", "write", "sync", "end"}
Decided == {"hold", "report"} \cup Reported
Over == {"end", "exited", "raised"}

Plans == [planned : SUBSET Items, held : SUBSET Items, open : SUBSET Items,
          verified : BOOLEAN, separate : BOOLEAN]

RunTyped ==
  /\ plan \in Plans /\ read \in ProjectStates /\ project \in ProjectStates
  /\ settings \in {"ok", "offline", "unusable"}

\* Trials of recorded files see nothing else, and no plan is verified without one.
Trials ==
  /\ phase \in Untried => seen = {} /\ unverified = ""
  /\ phase = "trial" => unverified = "" /\ (snap.inputs = "listed" => frozen)
  /\ snap.inputs = "listed" => seen \subseteq {snap.content}
  /\ plan.verified => seen # {}
  /\ phase \in Decided /\ unverified = "" /\ plan.planned # {} => plan.verified

\* Nothing found is dropped: it is planned or held, all through.
Findings == phase \in {"authorise", "freeze", "trial"} \cup Decided =>
  /\ plan.open \subseteq plan.planned
  /\ "osv" \notin doubts => plan.planned \cup plan.held = Vulnerable[read]
  /\ plan.separate \/ unverified # "" => plan.planned # {} \/ plan.held # {}
  /\ phase = "freeze" => plan.planned # {}

\* What is written is what was verified.
Written ==
  /\ phase \in {"reresolve", "write", "sync"} =>
       unverified = "" /\ plan.verified /\ plan.planned # {} /\ opts.mode # "none"
  /\ phase \notin {"sync"} \cup Over => applyOutcome = NoOutcome
  /\ phase = "sync" => applyOutcome = [NoOutcome EXCEPT !.applied = TRUE, !.backup = TRUE]
  /\ phase = "write" => snap.inputs = "listed" /\ ~adapter.tool
  /\ applyOutcome.applied =>
       /\ phase \in {"sync"} \cup Over /\ plan.verified /\ plan.planned # {}
       /\ ~adapter.tool => snap.inputs = "listed" /\ project = snap.content
  /\ applyOutcome.reason = "nothing to apply" => plan.planned = {}
  /\ applyOutcome.reason = "interrupted" =>
       opts.mode # "none" /\ (applyOutcome.applied => applyOutcome.synced = "failed")

\* The warnings are given before the end.
Telling ==
  /\ phase \in Reported /\ ~opts.json => PlanSays \subseteq told
  /\ phase # "exited" => exit = -1

FixInv == RunTyped /\ Trials /\ Findings /\ Written /\ Telling /\ ZeroIsFixed /\ OneIsExplained

\* What the exit status stands for.
LEMMA ExitStatusIs ==
  /\ ExitStatus = 0 =>
       /\ Complete /\ "osv" \notin doubts /\ unverified = ""
       /\ opts.mode # "none" =>
            /\ applyOutcome.applied \/ applyOutcome.reason = "nothing to apply"
            /\ applyOutcome.synced # "failed"
  /\ ExitStatus = 1 =>
       \/ ~(Complete /\ "osv" \notin doubts /\ unverified = "")
       \/ opts.mode # "none" /\ (~applyOutcome.applied \/ applyOutcome.synced = "failed")
<1> DEFINE fixed == Complete /\ "osv" \notin doubts /\ unverified = ""
           carriedOut == opts.mode # "none" =>
                     /\ applyOutcome.applied \/ applyOutcome.reason = "nothing to apply"
                     /\ applyOutcome.synced # "failed"
<1>1. ExitStatus = IF fixed /\ carriedOut THEN 0 ELSE 1
  BY DEF ExitStatus
<1>2. (fixed /\ carriedOut => ExitStatus = 0) /\ (~(fixed /\ carriedOut) => ExitStatus = 1)
  <2> HIDE DEF fixed, carriedOut
  <2> QED BY <1>1
<1>3. (ExitStatus = 0 => fixed /\ carriedOut) /\ (ExitStatus = 1 => ~(fixed /\ carriedOut))
  <2> HIDE DEF fixed, carriedOut
  <2>1. 0 # 1
    OBVIOUS
  <2> QED BY <1>2, <2>1
<1> QED BY <1>3

LEMMA FixInitHolds == ASSUME FixCommandAssumption, FixInit PROVE FixInv
<1>1. RunTyped
  BY DEF FixInit, RunTyped, Plans, NoPlan
<1>2. Trials /\ Findings /\ Written /\ Telling
  BY DEF FixInit, Trials, Findings, Written, Telling, NoPlan, NoOutcome, Unplanned, Untried,
     Reported, Decided, Over
<1>3. exit \notin {0, 1} /\ phase # "raised"
  <2>1. exit = -1 /\ phase = "options"
    BY DEF FixInit
  <2> QED BY <2>1
<1>4. ZeroIsFixed /\ OneIsExplained
  BY <1>3 DEF ZeroIsFixed, OneIsExplained
<1> QED BY <1>1, <1>2, <1>4 DEF FixInv

LEMMA CheckOptionsKeeps == ASSUME FixCommandAssumption, FixInv, CheckOptions PROVE FixInv'
<1>1. exit' \notin {0, 1} /\ phase' # "raised"
  <2>1. exit = -1
    BY DEF FixInv, Telling, CheckOptions
  <2>2. exit' = exit \/ exit' = 2
    BY DEF CheckOptions, GoOn, Quit
  <2>3. phase' # "raised"
    BY DEF FixInv, CheckOptions, GoOn, Quit
  <2> QED BY <2>1, <2>2, <2>3
<1>2. RunTyped'
  BY DEF FixInv, RunTyped, Plans, CheckOptions, GoOn, Quit
<1>3. Trials'
  BY DEF FixInv, Trials, Unplanned, Untried, Reported, Decided, Over, CheckOptions, GoOn, Quit
<1>4. Findings'
  BY DEF FixInv, Findings, Unplanned, Untried, Reported, Decided, Over, CheckOptions, GoOn, Quit
<1>5. Written'
  BY DEF FixInv, Written, Unplanned, Untried, Reported, Decided, Over, CheckOptions, GoOn, Quit
<1>6. Telling'
  BY DEF FixInv, Telling, PlanSays, Unplanned, Untried, Reported, Decided, Over, CheckOptions,
     GoOn, Quit
<1>7. ZeroIsFixed'
  BY <1>1 DEF ZeroIsFixed
<1>8. OneIsExplained'
  BY <1>1 DEF OneIsExplained
<1> QED BY <1>2, <1>3, <1>4, <1>5, <1>6, <1>7, <1>8 DEF FixInv

LEMMA FindLockKeeps == ASSUME FixCommandAssumption, FixInv, FindLock PROVE FixInv'
<1>1. exit' \notin {0, 1} /\ phase' # "raised"
  <2>1. exit = -1
    BY DEF FixInv, Telling, FindLock
  <2>2. exit' = exit \/ exit' = 2
    BY DEF FindLock, GoOn, Quit
  <2>3. phase' # "raised"
    BY DEF FixInv, FindLock, GoOn, Quit
  <2> QED BY <2>1, <2>2, <2>3
<1>2. RunTyped'
  BY DEF FixInv, RunTyped, Plans, FindLock, GoOn, Quit
<1>3. Trials'
  BY DEF FixInv, Trials, Unplanned, Untried, Reported, Decided, Over, FindLock, GoOn, Quit
<1>4. Findings'
  BY DEF FixInv, Findings, Unplanned, Untried, Reported, Decided, Over, FindLock, GoOn, Quit
<1>5. Written'
  BY DEF FixInv, Written, Unplanned, Untried, Reported, Decided, Over, FindLock, GoOn, Quit
<1>6. Telling'
  BY DEF FixInv, Telling, PlanSays, Unplanned, Untried, Reported, Decided, Over, FindLock, GoOn,
     Quit
<1>7. ZeroIsFixed'
  BY <1>1 DEF ZeroIsFixed
<1>8. OneIsExplained'
  BY <1>1 DEF OneIsExplained
<1> QED BY <1>2, <1>3, <1>4, <1>5, <1>6, <1>7, <1>8 DEF FixInv

LEMMA TakeSnapshotKeeps == ASSUME FixCommandAssumption, FixInv, TakeSnapshot PROVE FixInv'
<1>1. exit' \notin {0, 1} /\ phase' # "raised"
  <2>1. exit = -1
    BY DEF FixInv, Telling, TakeSnapshot
  <2>2. exit' = exit \/ exit' = 2
    BY DEF TakeSnapshot, GoOn
  <2>3. phase' # "raised"
    BY DEF FixInv, TakeSnapshot, GoOn
  <2> QED BY <2>1, <2>2, <2>3
<1>2. RunTyped'
  BY DEF FixInv, RunTyped, Plans, TakeSnapshot, GoOn, SnapshotOf
<1>3. Trials'
  BY DEF FixInv, Trials, Unplanned, Untried, Reported, Decided, Over, TakeSnapshot, GoOn, SnapshotOf
<1>4. Findings'
  BY DEF FixInv, Findings, Unplanned, Untried, Reported, Decided, Over, TakeSnapshot, GoOn,
     SnapshotOf
<1>5. Written'
  BY DEF FixInv, Written, Unplanned, Untried, Reported, Decided, Over, TakeSnapshot, GoOn,
     SnapshotOf
<1>6. Telling'
  BY DEF FixInv, Telling, PlanSays, Unplanned, Untried, Reported, Decided, Over, TakeSnapshot,
     GoOn, SnapshotOf
<1>7. ZeroIsFixed'
  BY <1>1 DEF ZeroIsFixed
<1>8. OneIsExplained'
  BY <1>1 DEF OneIsExplained
<1> QED BY <1>2, <1>3, <1>4, <1>5, <1>6, <1>7, <1>8 DEF FixInv

LEMMA ReadLockKeeps == ASSUME FixCommandAssumption, FixInv, ReadLock PROVE FixInv'
<1>1. exit' \notin {0, 1} /\ phase' # "raised"
  <2>1. exit = -1
    BY DEF FixInv, Telling, ReadLock
  <2>2. exit' = exit \/ exit' = 2
    BY DEF ReadLock, GoOn, Quit
  <2>3. phase' # "raised"
    BY DEF FixInv, ReadLock, GoOn, Quit
  <2> QED BY <2>1, <2>2, <2>3
<1>2. RunTyped'
  BY DEF FixInv, RunTyped, Plans, ReadLock, GoOn, Quit
<1>3. Trials'
  BY DEF FixInv, Trials, Unplanned, Untried, Reported, Decided, Over, ReadLock, GoOn, Quit
<1>4. Findings'
  BY DEF FixInv, Findings, Unplanned, Untried, Reported, Decided, Over, ReadLock, GoOn, Quit
<1>5. Written'
  BY DEF FixInv, Written, Unplanned, Untried, Reported, Decided, Over, ReadLock, GoOn, Quit
<1>6. Telling'
  BY DEF FixInv, Telling, PlanSays, Unplanned, Untried, Reported, Decided, Over, ReadLock, GoOn,
     Quit
<1>7. ZeroIsFixed'
  BY <1>1 DEF ZeroIsFixed
<1>8. OneIsExplained'
  BY <1>1 DEF OneIsExplained
<1> QED BY <1>2, <1>3, <1>4, <1>5, <1>6, <1>7, <1>8 DEF FixInv

LEMMA MakePlanKeeps == ASSUME FixCommandAssumption, FixInv, MakePlan PROVE FixInv'
<1>1. exit' \notin {0, 1} /\ phase' # "raised"
  <2>1. exit = -1
    BY DEF FixInv, Telling, MakePlan
  <2>2. exit' = exit \/ exit' = 2
    BY DEF MakePlan, GoOn
  <2>3. phase' # "raised"
    BY DEF FixInv, MakePlan, GoOn
  <2> QED BY <2>1, <2>2, <2>3
<1>2. PICK failed \in SUBSET {"osv", "yanks"}, found \in SUBSET Vulnerable[read],
           planned \in SUBSET Items, open \in SUBSET Items :
         /\ "osv" \notin failed => found = Vulnerable[read]
         /\ planned \subseteq found /\ open \subseteq planned /\ doubts' = failed
         /\ plan' = [NoPlan EXCEPT !.planned = planned, !.held = found \ planned, !.open = open]
  <2>1. Vulnerable[read] \subseteq Items
    BY DEF FixInv, RunTyped, FixCommandAssumption
  <2> QED BY <2>1 DEF MakePlan
<1>3. /\ plan' \in Plans /\ plan'.planned = planned /\ plan'.held = found \ planned
      /\ plan'.open = open /\ ~plan'.verified /\ ~plan'.separate
  <2>1. found \subseteq Items
    BY DEF FixInv, RunTyped, FixCommandAssumption
  <2> QED BY <1>2, <2>1 DEF NoPlan, Plans
<1>4. /\ phase' = "authorise" /\ phase = "query"
      /\ UNCHANGED <<read, settings, project, unverified, applyOutcome, seen, snap>>
  BY DEF MakePlan, GoOn
<1>5. RunTyped'
  BY <1>3, <1>4 DEF FixInv, RunTyped
<1>6. Trials'
  BY <1>3, <1>4 DEF FixInv, Trials, Unplanned, Untried, Reported, Decided, Over
<1>7. Findings'
  <2>1. plan'.planned \cup plan'.held = found
    BY <1>2, <1>3
  <2>2. unverified' = ""
    BY <1>4 DEF FixInv, Trials, Unplanned, Untried, Reported, Decided, Over
  <2>3. "osv" \notin doubts' => found = Vulnerable[read']
    BY <1>2, <1>4
  <2>4. plan'.open \subseteq plan'.planned
    BY <1>2, <1>3
  <2> QED BY <1>3, <1>4, <2>1, <2>2, <2>3, <2>4 DEF Findings
<1>8. Written'
  <2>1. applyOutcome' = NoOutcome
    BY <1>4 DEF FixInv, Written, Unplanned, Untried, Reported, Decided, Over
  <2>2. ~applyOutcome'.applied /\ applyOutcome'.reason = ""
    BY <2>1 DEF NoOutcome
  <2> QED BY <1>4, <2>1, <2>2 DEF Written, Unplanned, Untried, Reported, Decided, Over
<1>9. Telling'
  BY DEF FixInv, Telling, PlanSays, Unplanned, Untried, Reported, Decided, Over, MakePlan, GoOn,
     NoPlan
<1>10. ZeroIsFixed'
  BY <1>1 DEF ZeroIsFixed
<1>11. OneIsExplained'
  BY <1>1 DEF OneIsExplained
<1> QED BY <1>5, <1>6, <1>7, <1>8, <1>9, <1>10, <1>11 DEF FixInv

LEMMA AuthoriseKeeps == ASSUME FixCommandAssumption, FixInv, Authorise PROVE FixInv'
<1>1. exit' \notin {0, 1} /\ phase' # "raised"
  <2>1. exit = -1
    BY DEF FixInv, Telling, Authorise
  <2>2. exit' = exit \/ exit' = 2
    BY DEF Authorise, GoOn
  <2>3. phase' # "raised"
    BY DEF FixInv, Authorise, GoOn
  <2> QED BY <2>1, <2>2, <2>3
<1>2. phase' \in {"freeze", "hold"} /\ phase = "authorise" /\ UNCHANGED <<plan, seen, snap>>
  BY DEF Authorise, GoOn
<1>3. phase' = "freeze" => unverified' = unverified
  BY DEF Authorise, GoOn
<1>4. phase' = "hold" /\ unverified' = "" => plan.planned = {}
  <2>1. ASSUME plan.planned # {}, phase' = "hold" PROVE unverified' # ""
    <3>1. unverified' \in {"--no-verify", "no sandbox", "settings", "offline", "blocked"}
      BY <2>1 DEF Authorise, GoOn, FixInv, RunTyped
    <3> QED BY <3>1
  <2> QED BY <2>1
<1>5. RunTyped'
  BY DEF FixInv, RunTyped, Plans, Authorise, GoOn
<1>6. Trials'
  BY <1>2, <1>3, <1>4 DEF FixInv, Trials, Unplanned, Untried, Reported, Decided, Over
<1>7. Findings'
  BY DEF FixInv, Findings, Unplanned, Untried, Reported, Decided, Over, Authorise, GoOn
<1>8. Written'
  BY DEF FixInv, Written, Unplanned, Untried, Reported, Decided, Over, Authorise, GoOn
<1>9. Telling'
  BY DEF FixInv, Telling, PlanSays, Unplanned, Untried, Reported, Decided, Over, Authorise, GoOn
<1>10. ZeroIsFixed'
  BY <1>1 DEF ZeroIsFixed
<1>11. OneIsExplained'
  BY <1>1 DEF OneIsExplained
<1> QED BY <1>5, <1>6, <1>7, <1>8, <1>9, <1>10, <1>11 DEF FixInv

LEMMA FreezeKeeps == ASSUME FixCommandAssumption, FixInv, Freeze PROVE FixInv'
<1>1. exit' \notin {0, 1} /\ phase' # "raised"
  <2>1. exit = -1
    BY DEF FixInv, Telling, Freeze
  <2>2. exit' = exit \/ exit' = 2
    BY DEF Freeze, GoOn
  <2>3. phase' # "raised"
    BY DEF FixInv, Freeze, GoOn
  <2> QED BY <2>1, <2>2, <2>3
<1>2. RunTyped'
  BY DEF FixInv, RunTyped, Plans, Freeze, GoOn, ProjectUnchanged
<1>3. Trials'
  BY DEF FixInv, Trials, Unplanned, Untried, Reported, Decided, Over, Freeze, GoOn, ProjectUnchanged
<1>4. Findings'
  BY DEF FixInv, Findings, Unplanned, Untried, Reported, Decided, Over, Freeze, GoOn,
     ProjectUnchanged
<1>5. Written'
  BY DEF FixInv, Written, Unplanned, Untried, Reported, Decided, Over, Freeze, GoOn,
     ProjectUnchanged
<1>6. Telling'
  BY DEF FixInv, Telling, PlanSays, Unplanned, Untried, Reported, Decided, Over, Freeze, GoOn,
     ProjectUnchanged
<1>7. ZeroIsFixed'
  BY <1>1 DEF ZeroIsFixed
<1>8. OneIsExplained'
  BY <1>1 DEF OneIsExplained
<1> QED BY <1>2, <1>3, <1>4, <1>5, <1>6, <1>7, <1>8 DEF FixInv

LEMMA TrialKeeps == ASSUME FixCommandAssumption, FixInv, Trial PROVE FixInv'
<1>1. exit' \notin {0, 1} /\ phase' # "raised"
  <2>1. exit = -1
    BY DEF FixInv, Telling, Trial
  <2>2. exit' = exit \/ exit' = 2
    BY DEF Trial
  <2>3. phase' # "raised"
    BY DEF FixInv, Trial
  <2> QED BY <2>1, <2>2, <2>3
<1>2. PICK keep \in SUBSET plan.planned :
         plan' = [plan EXCEPT !.planned = keep, !.held = @ \cup (plan.planned \ keep),
                              !.open = @ \cap keep]
  BY DEF Trial
<1>3. plan \in Plans
  BY DEF FixInv, RunTyped
<1>4. /\ plan' \in Plans /\ plan'.planned = keep
      /\ plan'.held = plan.held \cup (plan.planned \ keep) /\ plan'.open = plan.open \cap keep
      /\ plan'.verified = plan.verified /\ plan'.separate = plan.separate
  BY <1>2, <1>3 DEF Plans
<1>5. /\ phase' = "trial" /\ phase = "trial" /\ doubts \subseteq doubts'
      /\ UNCHANGED <<read, settings, project, unverified, applyOutcome, snap, frozen>>
  BY DEF Trial
<1>6. RunTyped'
  BY <1>4, <1>5 DEF FixInv, RunTyped
<1>7. Trials'
  BY DEF FixInv, Trials, Unplanned, Untried, Reported, Decided, Over, Trial, TrialSees
<1>8. Findings'
  <2>1. /\ plan.open \subseteq plan.planned
        /\ "osv" \notin doubts => plan.planned \cup plan.held = Vulnerable[read]
        /\ plan.separate => plan.planned # {} \/ plan.held # {}
        /\ unverified = ""
    BY <1>5 DEF FixInv, Findings, Trials
  <2>2. plan'.planned \cup plan'.held = plan.planned \cup plan.held
    BY <1>4
  <2>3. "osv" \notin doubts' => plan'.planned \cup plan'.held = Vulnerable[read']
    BY <1>5, <2>1, <2>2
  <2>4. plan'.separate => plan'.planned # {} \/ plan'.held # {}
    BY <1>4, <2>1, <2>2
  <2>5. plan'.open \subseteq plan'.planned
    BY <1>4, <2>1
  <2> QED BY <1>5, <2>1, <2>3, <2>4, <2>5 DEF Findings
<1>9. Written'
  <2>1. applyOutcome' = NoOutcome
    BY <1>5 DEF FixInv, Written, Unplanned, Untried, Reported, Decided, Over
  <2>2. ~applyOutcome'.applied /\ applyOutcome'.reason = ""
    BY <2>1 DEF NoOutcome
  <2> QED BY <1>5, <2>1, <2>2 DEF Written, Unplanned, Untried, Reported, Decided, Over
<1>10. Telling'
  BY DEF FixInv, Telling, PlanSays, Unplanned, Untried, Reported, Decided, Over, Trial, TrialSees
<1>11. ZeroIsFixed'
  BY <1>1 DEF ZeroIsFixed
<1>12. OneIsExplained'
  BY <1>1 DEF OneIsExplained
<1> QED BY <1>6, <1>7, <1>8, <1>9, <1>10, <1>11, <1>12 DEF FixInv

LEMMA InterruptTrialKeeps == ASSUME FixCommandAssumption, FixInv, InterruptTrial PROVE FixInv'
<1>1. exit' \notin {0, 1} /\ applyOutcome' = NoOutcome
  <2>1. exit = -1
    BY DEF FixInv, Telling, InterruptTrial
  <2>2. exit' = exit \/ exit' = 2
    BY DEF InterruptTrial, GoOn
  <2>3. applyOutcome' = NoOutcome
    BY DEF FixInv, Written, Unplanned, Untried, Reported, Decided, Over, InterruptTrial, GoOn
  <2> QED BY <2>1, <2>2, <2>3
<1>2. RunTyped'
  BY DEF FixInv, RunTyped, Plans, InterruptTrial, GoOn
<1>3. Trials'
  BY DEF FixInv, Trials, Unplanned, Untried, Reported, Decided, Over, InterruptTrial, GoOn
<1>4. Findings'
  BY DEF FixInv, Findings, Unplanned, Untried, Reported, Decided, Over, InterruptTrial, GoOn
<1>5. Written'
  BY DEF FixInv, Written, Unplanned, Untried, Reported, Decided, Over, InterruptTrial, GoOn
<1>6. Telling'
  BY DEF FixInv, Telling, PlanSays, Unplanned, Untried, Reported, Decided, Over, InterruptTrial,
     GoOn
<1>7. ZeroIsFixed'
  BY <1>1 DEF ZeroIsFixed
<1>8. OneIsExplained'
  BY <1>1 DEF OneIsExplained, NoOutcome
<1> QED BY <1>2, <1>3, <1>4, <1>5, <1>6, <1>7, <1>8 DEF FixInv

LEMMA EndTrialsKeeps == ASSUME FixCommandAssumption, FixInv, EndTrials PROVE FixInv'
<1>1. exit' \notin {0, 1} /\ phase' # "raised"
  <2>1. exit = -1
    BY DEF FixInv, Telling, EndTrials
  <2>2. exit' = exit \/ exit' = 2
    BY DEF EndTrials, GoOn
  <2>3. phase' # "raised"
    BY DEF FixInv, EndTrials, GoOn
  <2> QED BY <2>1, <2>2, <2>3
<1>2. PICK apart \in {FALSE, Cardinality(plan.planned) > 1} :
         plan' = [plan EXCEPT !.verified = TRUE, !.separate = apart]
  BY DEF EndTrials
<1>3. plan \in Plans
  BY DEF FixInv, RunTyped
<1>4. apart \in BOOLEAN /\ (apart => plan.planned # {})
  <2>1. plan.planned = {} => ~(Cardinality(plan.planned) > 1)
    <3>1. Cardinality({}) = 0
      BY FS_EmptySet
    <3> QED BY <3>1
  <2>2. CASE Cardinality(plan.planned) > 1
    <3>1. apart \in {FALSE, TRUE}
      BY <2>2, Zenon
    <3> QED BY <2>1, <2>2, <3>1
  <2>3. CASE ~(Cardinality(plan.planned) > 1)
    <3>1. (Cardinality(plan.planned) > 1) = FALSE
      BY <2>3
    <3>2. apart = FALSE
      BY <3>1, Zenon
    <3> QED BY <3>2
  <2> QED BY <2>2, <2>3
<1>5. /\ plan' \in Plans /\ plan'.planned = plan.planned /\ plan'.held = plan.held
      /\ plan'.open = plan.open /\ plan'.verified /\ plan'.separate = apart
  BY <1>2, <1>3, <1>4 DEF Plans
<1>6. /\ phase' = "hold" /\ phase = "trial" /\ seen # {}
      /\ UNCHANGED <<read, settings, project, unverified, applyOutcome, snap, seen, doubts>>
  BY DEF EndTrials, GoOn
<1>7. RunTyped'
  BY <1>5, <1>6 DEF FixInv, RunTyped
<1>8. Trials'
  BY <1>5, <1>6 DEF FixInv, Trials, Unplanned, Untried, Reported, Decided, Over
<1>9. Findings'
  <2>1. /\ plan.open \subseteq plan.planned
        /\ "osv" \notin doubts => plan.planned \cup plan.held = Vulnerable[read]
        /\ unverified = ""
    BY <1>6 DEF FixInv, Findings, Trials
  <2> QED BY <1>4, <1>5, <1>6, <2>1 DEF Findings
<1>10. Written'
  <2>1. applyOutcome' = NoOutcome
    BY <1>6 DEF FixInv, Written, Unplanned, Untried, Reported, Decided, Over
  <2>2. ~applyOutcome'.applied /\ applyOutcome'.reason = ""
    BY <2>1 DEF NoOutcome
  <2> QED BY <1>6, <2>1, <2>2 DEF Written, Unplanned, Untried, Reported, Decided, Over
<1>11. Telling'
  BY DEF FixInv, Telling, PlanSays, Unplanned, Untried, Reported, Decided, Over, EndTrials, GoOn
<1>12. ZeroIsFixed'
  BY <1>1 DEF ZeroIsFixed
<1>13. OneIsExplained'
  BY <1>1 DEF OneIsExplained
<1> QED BY <1>7, <1>8, <1>9, <1>10, <1>11, <1>12, <1>13 DEF FixInv

LEMMA HoldKeeps == ASSUME FixCommandAssumption, FixInv, Hold PROVE FixInv'
<1>1. exit' \notin {0, 1} /\ phase' # "raised"
  <2>1. exit = -1
    BY DEF FixInv, Telling, Hold
  <2>2. exit' = exit \/ exit' = 2
    BY DEF Hold, GoOn, Quit
  <2>3. phase' # "raised"
    BY DEF FixInv, Hold, GoOn, Quit
  <2> QED BY <2>1, <2>2, <2>3
<1>2. PICK lost :
         plan' = [plan EXCEPT !.planned = @ \ lost, !.held = @ \cup lost, !.open = @ \ lost]
         /\ lost \subseteq plan.planned
  <2>1. PICK more \in Unpinnable :
           plan' = [plan EXCEPT !.planned = @ \ (Untrialled \cup more),
                                !.held = @ \cup (Untrialled \cup more),
                                !.open = @ \ (Untrialled \cup more)]
    BY DEF Hold
  <2>2. Untrialled \cup more \subseteq plan.planned
    BY DEF Untrialled, Unpinnable
  <2> QED BY <2>1, <2>2
<1>3. plan \in Plans
  BY DEF FixInv, RunTyped
<1>4. /\ plan' \in Plans /\ plan'.planned = plan.planned \ lost /\ plan'.held = plan.held \cup lost
      /\ plan'.open = plan.open \ lost
      /\ plan'.verified = plan.verified /\ plan'.separate = plan.separate
  BY <1>2, <1>3 DEF Plans
<1>5. /\ phase' \in {"apply", "report", "exited"} /\ phase = "hold"
      /\ UNCHANGED <<read, settings, project, unverified, applyOutcome, snap, seen, doubts>>
  BY DEF Hold, GoOn, Quit
<1>6. RunTyped'
  BY <1>4, <1>5 DEF FixInv, RunTyped
<1>7. Trials'
  BY <1>4, <1>5 DEF FixInv, Trials, Unplanned, Untried, Reported, Decided, Over
<1>8. Findings'
  <2>1. /\ plan.open \subseteq plan.planned
        /\ "osv" \notin doubts => plan.planned \cup plan.held = Vulnerable[read]
        /\ plan.separate \/ unverified # "" => plan.planned # {} \/ plan.held # {}
    BY <1>5 DEF FixInv, Findings, Unplanned, Untried, Reported, Decided, Over
  <2>2. plan'.planned \cup plan'.held = plan.planned \cup plan.held
    BY <1>2, <1>4
  <2>3. "osv" \notin doubts' => plan'.planned \cup plan'.held = Vulnerable[read']
    BY <1>5, <2>1, <2>2
  <2>4. plan'.separate \/ unverified' # "" => plan'.planned # {} \/ plan'.held # {}
    BY <1>4, <1>5, <2>1, <2>2
  <2>5. plan'.open \subseteq plan'.planned
    BY <1>4, <2>1
  <2> QED BY <1>5, <2>3, <2>4, <2>5 DEF Findings
<1>9. Written'
  <2>1. applyOutcome' = NoOutcome
    BY <1>5 DEF FixInv, Written, Unplanned, Untried, Reported, Decided, Over
  <2>2. ~applyOutcome'.applied /\ applyOutcome'.reason = ""
    BY <2>1 DEF NoOutcome
  <2> QED BY <1>5, <2>1, <2>2 DEF Written, Unplanned, Untried, Reported, Decided, Over
<1>10. Telling'
  BY DEF FixInv, Telling, PlanSays, Unplanned, Untried, Reported, Decided, Over, Hold, GoOn, Quit
<1>11. ZeroIsFixed'
  BY <1>1 DEF ZeroIsFixed
<1>12. OneIsExplained'
  BY <1>1 DEF OneIsExplained
<1> QED BY <1>6, <1>7, <1>8, <1>9, <1>10, <1>11, <1>12 DEF FixInv

LEMMA ReportPlanKeeps == ASSUME FixCommandAssumption, FixInv, ReportPlan PROVE FixInv'
<1>1. exit' \notin {0, 1} /\ phase' # "raised"
  <2>1. exit = -1
    BY DEF FixInv, Telling, ReportPlan
  <2>2. exit' = exit \/ exit' = 2
    BY DEF ReportPlan, GoOn
  <2>3. phase' # "raised"
    BY DEF FixInv, ReportPlan, GoOn
  <2> QED BY <2>1, <2>2, <2>3
<1>2. RunTyped'
  BY DEF FixInv, RunTyped, Plans, ReportPlan, GoOn
<1>3. Trials'
  BY DEF FixInv, Trials, Unplanned, Untried, Reported, Decided, Over, ReportPlan, GoOn
<1>4. Findings'
  BY DEF FixInv, Findings, Unplanned, Untried, Reported, Decided, Over, ReportPlan, GoOn
<1>5. Written'
  BY DEF FixInv, Written, Unplanned, Untried, Reported, Decided, Over, ReportPlan, GoOn
<1>6. Telling'
  BY DEF FixInv, Telling, PlanSays, Unplanned, Untried, Reported, Decided, Over, ReportPlan, GoOn
<1>7. ZeroIsFixed'
  BY <1>1 DEF ZeroIsFixed
<1>8. OneIsExplained'
  BY <1>1 DEF OneIsExplained
<1> QED BY <1>2, <1>3, <1>4, <1>5, <1>6, <1>7, <1>8 DEF FixInv

LEMMA StartApplyKeeps == ASSUME FixCommandAssumption, FixInv, StartApply PROVE FixInv'
<1>1. exit' \notin {0, 1} /\ phase' # "raised"
  <2>1. exit = -1
    BY DEF FixInv, Telling, StartApply
  <2>2. exit' = exit \/ exit' = 2
    BY DEF StartApply, GoOn
  <2>3. phase' # "raised"
    BY DEF FixInv, StartApply, GoOn
  <2> QED BY <2>1, <2>2, <2>3
<1>2. applyOutcome = NoOutcome
  BY DEF FixInv, Written, Unplanned, Untried, Reported, Decided, Over, StartApply
<1>3. /\ phase = "apply" /\ phase' \in {"reresolve", "end"}
      /\ UNCHANGED <<plan, unverified, opts, adapter, snap, project>>
  BY DEF StartApply, GoOn
<1>4. phase' = "reresolve" => opts.mode # "none" /\ Refusal = "" /\ applyOutcome' = NoOutcome
  BY <1>2, <1>3 DEF StartApply, GoOn
<1>5. \/ applyOutcome' = NoOutcome
      \/ \E why \in {Refusal, "declined"} : applyOutcome' = [NoOutcome EXCEPT !.reason = why]
  BY <1>2 DEF StartApply
<1>6. Refusal # "interrupted" /\ (Refusal = "nothing to apply" => plan.planned = {})
  BY DEF Refusal
<1>7. Refusal = "" => unverified = "" /\ plan.planned # {}
  BY DEF Refusal
<1>8. RunTyped'
  BY DEF FixInv, RunTyped, Plans, StartApply, GoOn
<1>9. Trials'
  BY DEF FixInv, Trials, Unplanned, Untried, Reported, Decided, Over, StartApply, GoOn
<1>10. Findings'
  BY DEF FixInv, Findings, Unplanned, Untried, Reported, Decided, Over, StartApply, GoOn
<1>11. Written'
  <2>1. ~applyOutcome'.applied /\ applyOutcome'.reason \in {"", Refusal, "declined"}
    <3>1. CASE applyOutcome' = NoOutcome
      BY <3>1 DEF NoOutcome
    <3>2. ASSUME NEW why \in {Refusal, "declined"},
                 applyOutcome' = [NoOutcome EXCEPT !.reason = why]
          PROVE ~applyOutcome'.applied /\ applyOutcome'.reason = why
      BY <3>2 DEF NoOutcome
    <3> QED BY <1>5, <3>1, <3>2
  <2>2. phase' = "reresolve" => plan.verified
    BY <1>3, <1>4, <1>7 DEF FixInv, Trials, Unplanned, Untried, Reported, Decided, Over
  <2> QED BY <1>3, <1>4, <1>6, <1>7, <2>1, <2>2 DEF Written, Unplanned, Untried, Reported, Decided,
  Over
<1>12. Telling'
  BY DEF FixInv, Telling, PlanSays, Unplanned, Untried, Reported, Decided, Over, StartApply, GoOn
<1>13. ZeroIsFixed'
  BY <1>1 DEF ZeroIsFixed
<1>14. OneIsExplained'
  BY <1>1 DEF OneIsExplained
<1> QED BY <1>8, <1>9, <1>10, <1>11, <1>12, <1>13, <1>14 DEF FixInv

LEMMA ReresolveKeeps == ASSUME FixCommandAssumption, FixInv, Reresolve PROVE FixInv'
<1>1. exit' \notin {0, 1} /\ phase' # "raised"
  <2>1. exit = -1
    BY DEF FixInv, Telling, Reresolve
  <2>2. exit' = exit \/ exit' = 2
    BY DEF Reresolve, GoOn
  <2>3. phase' # "raised"
    BY DEF FixInv, Reresolve, GoOn
  <2> QED BY <2>1, <2>2, <2>3
<1>2. applyOutcome = NoOutcome
  BY DEF FixInv, Written, Unplanned, Untried, Reported, Decided, Over, Reresolve
<1>3. /\ phase = "reresolve" /\ ~adapter.tool /\ phase' \in {"write", "end"}
      /\ UNCHANGED <<plan, unverified, opts, adapter, snap, project>>
  BY DEF Reresolve, GoOn
<1>4. phase' = "write" => applyOutcome' = NoOutcome /\ snap.inputs = "listed"
  BY <1>2 DEF Reresolve, GoOn
<1>5. ~applyOutcome'.applied /\ applyOutcome'.reason \in {"", "re-resolve", "interrupted"}
  <2>1. \/ applyOutcome' = NoOutcome
        \/ \E why \in {"re-resolve", "interrupted"} :
              applyOutcome' = [NoOutcome EXCEPT !.reason = why, !.backup = FALSE]
    BY <1>2 DEF Reresolve, NotApplied
  <2>2. CASE applyOutcome' = NoOutcome
    BY <2>2 DEF NoOutcome
  <2>3. ASSUME NEW why \in {"re-resolve", "interrupted"},
               applyOutcome' = [NoOutcome EXCEPT !.reason = why, !.backup = FALSE]
        PROVE ~applyOutcome'.applied /\ applyOutcome'.reason = why
    BY <2>3 DEF NoOutcome
  <2> QED BY <2>1, <2>2, <2>3
<1>6. RunTyped'
  BY DEF FixInv, RunTyped, Plans, Reresolve, GoOn, NotApplied, ProjectUnchanged
<1>7. Trials'
  BY DEF FixInv, Trials, Unplanned, Untried, Reported, Decided, Over, Reresolve, GoOn, NotApplied,
     ProjectUnchanged
<1>8. Findings'
  BY DEF FixInv, Findings, Unplanned, Untried, Reported, Decided, Over, Reresolve, GoOn,
     NotApplied, ProjectUnchanged
<1>9. Written'
  BY <1>3, <1>4, <1>5 DEF FixInv, Written, Unplanned, Untried, Reported, Decided, Over
<1>10. Telling'
  BY DEF FixInv, Telling, PlanSays, Unplanned, Untried, Reported, Decided, Over, Reresolve, GoOn,
     NotApplied, ProjectUnchanged
<1>11. ZeroIsFixed'
  BY <1>1 DEF ZeroIsFixed
<1>12. OneIsExplained'
  BY <1>1 DEF OneIsExplained
<1> QED BY <1>6, <1>7, <1>8, <1>9, <1>10, <1>11, <1>12 DEF FixInv

LEMMA WriteFilesKeeps == ASSUME FixCommandAssumption, FixInv, WriteFiles PROVE FixInv'
<1>1. exit' \notin {0, 1} /\ phase' # "raised"
  <2>1. exit = -1
    BY DEF FixInv, Telling, WriteFiles
  <2>2. exit' = exit \/ exit' = 2
    BY DEF WriteFiles, GoOn
  <2>3. phase' # "raised"
    BY DEF FixInv, WriteFiles, GoOn
  <2> QED BY <2>1, <2>2, <2>3
<1>2. applyOutcome = NoOutcome
  BY DEF FixInv, Written, Unplanned, Untried, Reported, Decided, Over, WriteFiles
<1>3. /\ phase = "write" /\ phase' \in {"sync", "end"}
      /\ UNCHANGED <<plan, unverified, opts, adapter, snap, project>>
  BY DEF WriteFiles, GoOn
<1>4. \/ /\ applyOutcome' = [NoOutcome EXCEPT !.applied = TRUE, !.backup = TRUE] /\ ProjectUnchanged
      \/ /\ phase' = "end" /\ ~applyOutcome'.applied
         /\ applyOutcome'.reason \in {"changed", "interrupted"}
  BY <1>2 DEF WriteFiles, GoOn, NotApplied, NoOutcome
<1>5. RunTyped'
  BY DEF FixInv, RunTyped, Plans, WriteFiles, GoOn, NotApplied, ProjectUnchanged
<1>6. Trials'
  BY DEF FixInv, Trials, Unplanned, Untried, Reported, Decided, Over, WriteFiles, GoOn, NotApplied,
     ProjectUnchanged
<1>7. Findings'
  BY DEF FixInv, Findings, Unplanned, Untried, Reported, Decided, Over, WriteFiles, GoOn,
     NotApplied, ProjectUnchanged
<1>8. Written'
  <2>1. CASE /\ applyOutcome' = [NoOutcome EXCEPT !.applied = TRUE, !.backup = TRUE]
             /\ ProjectUnchanged
    <3>1. applyOutcome'.applied /\ applyOutcome'.reason = ""
      BY <2>1 DEF NoOutcome
    <3> QED BY <1>3, <2>1, <3>1 DEF FixInv, Written, ProjectUnchanged, Unplanned, Untried,
    Reported, Decided, Over
  <2>2. CASE /\ phase' = "end" /\ ~applyOutcome'.applied
             /\ applyOutcome'.reason \in {"changed", "interrupted"}
    BY <1>3, <2>2 DEF FixInv, Written, Unplanned, Untried, Reported, Decided, Over
  <2> QED BY <1>4, <2>1, <2>2
<1>9. Telling'
  BY DEF FixInv, Telling, PlanSays, Unplanned, Untried, Reported, Decided, Over, WriteFiles, GoOn,
     NotApplied, ProjectUnchanged
<1>10. ZeroIsFixed'
  BY <1>1 DEF ZeroIsFixed
<1>11. OneIsExplained'
  BY <1>1 DEF OneIsExplained
<1> QED BY <1>5, <1>6, <1>7, <1>8, <1>9, <1>10, <1>11 DEF FixInv

LEMMA ApplyToolKeeps == ASSUME FixCommandAssumption, FixInv, ApplyTool PROVE FixInv'
<1>1. exit' \notin {0, 1} /\ phase' # "raised"
  <2>1. exit = -1
    BY DEF FixInv, Telling, ApplyTool
  <2>2. exit' = exit \/ exit' = 2
    BY DEF ApplyTool, GoOn
  <2>3. phase' # "raised"
    BY DEF FixInv, ApplyTool, GoOn
  <2> QED BY <2>1, <2>2, <2>3
<1>2. applyOutcome = NoOutcome
  BY DEF FixInv, Written, Unplanned, Untried, Reported, Decided, Over, ApplyTool
<1>3. /\ phase = "reresolve" /\ adapter.tool /\ phase' = "end"
      /\ UNCHANGED <<plan, unverified, opts, adapter, snap, project>>
  BY DEF ApplyTool, GoOn
<1>4. \/ applyOutcome'.reason = ""
      \/ ~applyOutcome'.applied /\ applyOutcome'.reason \in {"failed", "interrupted"}
  BY <1>2 DEF ApplyTool, NotApplied, NoOutcome
<1>5. RunTyped'
  BY DEF FixInv, RunTyped, Plans, ApplyTool, GoOn, NotApplied
<1>6. Trials'
  BY DEF FixInv, Trials, Unplanned, Untried, Reported, Decided, Over, ApplyTool, GoOn, NotApplied
<1>7. Findings'
  BY DEF FixInv, Findings, Unplanned, Untried, Reported, Decided, Over, ApplyTool, GoOn, NotApplied
<1>8. Written'
  BY <1>3, <1>4 DEF FixInv, Written, Unplanned, Untried, Reported, Decided, Over
<1>9. Telling'
  BY DEF FixInv, Telling, PlanSays, Unplanned, Untried, Reported, Decided, Over, ApplyTool, GoOn,
     NotApplied
<1>10. ZeroIsFixed'
  BY <1>1 DEF ZeroIsFixed
<1>11. OneIsExplained'
  BY <1>1 DEF OneIsExplained
<1> QED BY <1>5, <1>6, <1>7, <1>8, <1>9, <1>10, <1>11 DEF FixInv

LEMMA SyncKeeps == ASSUME FixCommandAssumption, FixInv, Sync PROVE FixInv'
<1>1. exit' \notin {0, 1} /\ phase' # "raised"
  <2>1. exit = -1
    BY DEF FixInv, Telling, Sync
  <2>2. exit' = exit \/ exit' = 2
    BY DEF Sync, GoOn
  <2>3. phase' # "raised"
    BY DEF FixInv, Sync, GoOn
  <2> QED BY <2>1, <2>2, <2>3
<1>2. applyOutcome = [NoOutcome EXCEPT !.applied = TRUE, !.backup = TRUE]
  BY DEF FixInv, Written, Sync
<1>3. /\ phase = "sync" /\ phase' = "end"
      /\ UNCHANGED <<plan, unverified, opts, adapter, snap, project>>
  BY DEF Sync, GoOn
<1>4. /\ applyOutcome.applied
      /\ \/ applyOutcome'.reason = ""
         \/ applyOutcome'.reason = "interrupted" /\ applyOutcome'.synced = "failed"
  BY <1>2 DEF Sync, NoOutcome
<1>5. RunTyped'
  BY DEF FixInv, RunTyped, Plans, Sync, GoOn
<1>6. Trials'
  BY DEF FixInv, Trials, Unplanned, Untried, Reported, Decided, Over, Sync, GoOn
<1>7. Findings'
  BY DEF FixInv, Findings, Unplanned, Untried, Reported, Decided, Over, Sync, GoOn
<1>8. Written'
  BY <1>3, <1>4 DEF FixInv, Written, Unplanned, Untried, Reported, Decided, Over
<1>9. Telling'
  BY DEF FixInv, Telling, PlanSays, Unplanned, Untried, Reported, Decided, Over, Sync, GoOn
<1>10. ZeroIsFixed'
  BY <1>1 DEF ZeroIsFixed
<1>11. OneIsExplained'
  BY <1>1 DEF OneIsExplained
<1> QED BY <1>5, <1>6, <1>7, <1>8, <1>9, <1>10, <1>11 DEF FixInv

LEMMA FinishKeeps == ASSUME FixCommandAssumption, FixInv, Finish PROVE FixInv'
<1>1. /\ phase = "end" /\ UNCHANGED <<opts, plan, read, doubts, unverified, applyOutcome>>
      /\ exit = -1 /\ phase' \in {"exited", "raised"}
  BY DEF Finish, GoOn, Quit, FixInv, Telling
<1>2. PlanSays \subseteq told'
  <2>1. CASE opts.json
    BY <2>1 DEF Finish, JsonSays
  <2>2. CASE ~opts.json
    BY <1>1, <2>2 DEF Finish, FixInv, Telling, Reported
  <2> QED BY <2>1, <2>2
<1>3. opts.mode # "none" => ApplySays \subseteq told'
  BY DEF Finish, JsonSays
<1>4. /\ plan.open \subseteq plan.planned
      /\ "osv" \notin doubts => plan.planned \cup plan.held = Vulnerable[read]
      /\ plan.separate \/ unverified # "" => plan.planned # {} \/ plan.held # {}
      /\ unverified = "" /\ plan.planned # {} => plan.verified
  BY <1>1 DEF FixInv, Findings, Trials, Unplanned, Untried, Reported, Decided, Over
<1>5. \/ phase' = "raised" /\ applyOutcome.reason = "interrupted" /\ exit' = -1
      \/ phase' = "exited" /\ exit' = ExitStatus
  BY <1>1 DEF Finish, GoOn, Quit
<1>6. RunTyped'
  BY DEF FixInv, RunTyped, Plans, Finish, GoOn, Quit
<1>7. Trials'
  BY DEF FixInv, Trials, Unplanned, Untried, Reported, Decided, Over, Finish, GoOn, Quit
<1>8. Findings'
  BY DEF FixInv, Findings, Unplanned, Untried, Reported, Decided, Over, Finish, GoOn, Quit
<1>9. Written'
  BY DEF FixInv, Written, Unplanned, Untried, Reported, Decided, Over, Finish, GoOn, Quit
<1>10. Telling'
  BY DEF FixInv, Telling, PlanSays, Unplanned, Untried, Reported, Decided, Over, Finish, GoOn, Quit
<1>11. ZeroIsFixed'
  <2> SUFFICES ASSUME exit' = 0 PROVE ZeroIsFixed'
    BY DEF ZeroIsFixed
  <2>1. ExitStatus = 0
    BY <1>5
  <2>2. Complete /\ "osv" \notin doubts /\ unverified = ""
    BY <2>1, ExitStatusIs
  <2>3. opts.mode # "none" =>
          /\ applyOutcome.applied \/ applyOutcome.reason = "nothing to apply"
          /\ applyOutcome.synced # "failed"
    BY <2>1, ExitStatusIs
  <2>4. plan.planned = Vulnerable[read] /\ plan.open = {}
    BY <1>4, <2>2 DEF Complete
  <2>5. applyOutcome.reason = "nothing to apply" => plan.planned = {}
    BY DEF FixInv, Written
  <2> QED BY <1>1, <1>4, <2>2, <2>3, <2>4, <2>5 DEF ZeroIsFixed
<1>12. OneIsExplained'
  <2>1. ASSUME exit' = 1
        PROVE told' \cap {"unverified", "held", "open", "separate", "osv",
                           "not applied", "not synced"} # {}
    <3>1. ExitStatus = 1
      BY <1>5, <2>1
    <3>2. \/ ~(Complete /\ "osv" \notin doubts /\ unverified = "")
          \/ opts.mode # "none" /\ (~applyOutcome.applied \/ applyOutcome.synced = "failed")
      BY <3>1, ExitStatusIs
    <3>3. ASSUME ~(Complete /\ "osv" \notin doubts /\ unverified = "")
          PROVE PlanSays \cap {"unverified", "held", "open", "separate", "osv"} # {}
      <4>1. \/ plan.held # {} \/ plan.open # {} \/ "osv" \in doubts
            \/ (plan.separate /\ plan.planned # {}) \/ (unverified # "" /\ plan.planned # {})
        BY <1>4, <3>3 DEF Complete
      <4>2. CASE plan.held # {}
        <5>1. "held" \in PlanSays
          BY <4>2 DEF PlanSays
        <5> QED BY <5>1
      <4>3. CASE plan.open # {}
        <5>1. "open" \in PlanSays
          BY <4>3 DEF PlanSays
        <5> QED BY <5>1
      <4>4. CASE "osv" \in doubts
        <5>1. "osv" \in PlanSays
          BY <4>4 DEF PlanSays
        <5> QED BY <5>1
      <4>5. CASE plan.separate /\ plan.planned # {}
        <5>1. "separate" \in PlanSays
          BY <4>5 DEF PlanSays
        <5> QED BY <5>1
      <4>6. CASE unverified # "" /\ plan.planned # {}
        <5>1. "unverified" \in PlanSays
          BY <4>6 DEF PlanSays
        <5> QED BY <5>1
      <4> QED BY <4>1, <4>2, <4>3, <4>4, <4>5, <4>6
    <3>4. ASSUME opts.mode # "none", ~applyOutcome.applied \/ applyOutcome.synced = "failed"
          PROVE told' \cap {"not applied", "not synced"} # {}
      <4>1. ApplySays \cap {"not applied", "not synced"} # {}
        BY <3>4 DEF ApplySays
      <4> QED BY <1>3, <3>4, <4>1
    <3> QED BY <1>2, <3>2, <3>3, <3>4
  <2>2. ASSUME phase' = "raised", applyOutcome'.backup \/ applyOutcome'.applied
        PROVE told' \cap {"not applied", "not synced"} # {}
    <3>1. opts.mode # "none" /\ (applyOutcome.applied => applyOutcome.synced = "failed")
      BY <1>5, <2>2 DEF FixInv, Written
    <3>2. ApplySays \cap {"not applied", "not synced"} # {}
      BY <3>1 DEF ApplySays
    <3> QED BY <1>3, <3>1, <3>2
  <2> QED BY <2>1, <2>2 DEF OneIsExplained
<1> QED BY <1>6, <1>7, <1>8, <1>9, <1>10, <1>11, <1>12 DEF FixInv

LEMMA EditProjectKeeps == ASSUME FixCommandAssumption, FixInv, EditProject PROVE FixInv'
<1>1. exit' \notin {0, 1} /\ phase' # "raised"
  <2>1. exit = -1
    BY DEF FixInv, Telling, EditProject
  <2>2. exit' = exit \/ exit' = 2
    BY DEF EditProject
  <2>3. phase' # "raised"
    BY DEF FixInv, EditProject
  <2> QED BY <2>1, <2>2, <2>3
<1>2. RunTyped'
  BY DEF FixInv, RunTyped, Plans, EditProject
<1>3. Trials'
  BY DEF FixInv, Trials, Unplanned, Untried, Reported, Decided, Over, EditProject
<1>4. Findings'
  BY DEF FixInv, Findings, Unplanned, Untried, Reported, Decided, Over, EditProject
<1>5. Written'
  BY DEF FixInv, Written, Unplanned, Untried, Reported, Decided, Over, EditProject
<1>6. Telling'
  BY DEF FixInv, Telling, PlanSays, Unplanned, Untried, Reported, Decided, Over, EditProject
<1>7. ZeroIsFixed'
  BY <1>1 DEF ZeroIsFixed
<1>8. OneIsExplained'
  BY <1>1 DEF OneIsExplained
<1> QED BY <1>2, <1>3, <1>4, <1>5, <1>6, <1>7, <1>8 DEF FixInv

LEMMA CommandStutters == ASSUME FixInv, UNCHANGED fixVars PROVE FixInv'
<1>1. RunTyped' /\ Trials'
  BY DEF fixVars, FixInv, RunTyped, Trials
<1>2. Findings' /\ Written'
  BY DEF fixVars, FixInv, Findings, Written
<1>3. Telling' /\ ZeroIsFixed' /\ OneIsExplained'
  BY DEF fixVars, FixInv, Telling, PlanSays, ZeroIsFixed, OneIsExplained
<1> QED BY <1>1, <1>2, <1>3 DEF FixInv

LEMMA FixInvNext == FixCommandAssumption /\ FixInv /\ [FixNext]_fixVars => FixInv'
  BY CheckOptionsKeeps, FindLockKeeps, TakeSnapshotKeeps, ReadLockKeeps, MakePlanKeeps,
     AuthoriseKeeps, FreezeKeeps, TrialKeeps, InterruptTrialKeeps, EndTrialsKeeps,
     HoldKeeps, ReportPlanKeeps, StartApplyKeeps, ReresolveKeeps, WriteFilesKeeps,
     ApplyToolKeeps, SyncKeeps, FinishKeeps, EditProjectKeeps,
     CommandStutters DEF FixNext

-----------------------------------------------------------------------------
(* ExitCodeIsTrue, for `_plan_and_report`, `_verify`, `_apply` and         *)
(* `_exit_status` of `pa fix`: for any contents of the project, packages,  *)
(* adapters and number of edits of the project in the middle of a run,     *)
(* what --apply writes replaces what its trials judged, exit status 0      *)
(* leaves nothing vulnerable to do, and exit status 1, or an interruption  *)
(* after something was written, comes with a warning that says why.        *)
THEOREM AnExitCodeIsTrue == ASSUME FixCommandAssumption PROVE FixSpec => []ExitCodeIsTrue
<1>1. FixInv => ExitCodeIsTrue
  <2>1. FixInv => AppliedAsTrialled
    BY DEF FixInv, Trials, Written, AppliedAsTrialled
  <2> QED BY <2>1 DEF FixInv, ExitCodeIsTrue
<1> QED BY <1>1, FixInitHolds, FixInvNext, PTL DEF FixSpec
=============================================================================
