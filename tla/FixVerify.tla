----------------------------- MODULE FixVerify -----------------------------
(***************************************************************************)
(* `pa fix` verifies a plan before it prints it: remediate/verify.py, with *)
(* the trials of the three kinds of adapter (uv, npm, uv tool) and the     *)
(* pins each of them prints.                                               *)
(*                                                                         *)
(* A fix is tried alone, along the routes of _verify_one, then the fixes   *)
(* that passed are tried together.  A package manager is not trusted: a    *)
(* trial may end in any state of Ends in which the versions it was told to *)
(* install are installed.  Advisories and ages may be missing at any       *)
(* lookup.  The items' trials are independent of each other, so they are   *)
(* taken in turn.                                                          *)
(***************************************************************************)
EXTENDS Integers, Sequences, FiniteSets, FiniteSetsExt, Functions

CONSTANTS
  Packages,
  Items,      \* the planned fixes, in order: [package, version, target, aged]
  Direct,     \* the packages the project depends on directly
  Lock,       \* package -> the versions the project locks
  Baselines,  \* what re-locking may make of it with nothing pinned
  Ends,       \* the end states a trial may reach: package -> versions
  Managers,   \* of {"uv", "npm", "uv tool"}
  Worlds,     \* [age, yanked, advisories] of the versions, and what is allowed
  Releases    \* the releases parent_upgrade may find

\* Two versions are on one major line when nothing breaking lies between them.
Line(v) == v \div 4

VARIABLES
  manager, base, world, \* what the run is about, chosen once
  pc,
  n,          \* the item at hand
  fix,        \* its route so far
  outs,       \* what became of the items before it
  bad,        \* the drift that holds a fix, with its reason
  unaged,     \* pinned drift of unknown age
  plan        \* what is printed

about == <<manager, base, world>>
vars == <<about, pc, n, fix, outs, bad, unaged, plan>>

-----------------------------------------------------------------------------
(* The adapters' traits.                                                   *)

CanForce == manager = "npm"
PinsEveryCopy == manager = "npm"
HasParentUpgrade == manager = "npm"
DriftPinned == manager = "uv tool"
MajorOnly == IF manager = "npm" THEN Direct ELSE Packages

Advisories(p, v) == world.advisories[p][v]
Age(p, v) == world.age[p][v]

-----------------------------------------------------------------------------
(* What a trial changes.                                                   *)

None == 0
Change(p, old, new) == [package |-> p, old |-> old, new |-> new]

\* uv_trial._expand: a version that is new is paired with the one just below it, one that
\* is gone with the one just above.
Expand(p, old, new) ==
  LET Below(v) == {o \in old : o < v}
      Above(v) == {w \in new : w > v}
  IN  IF old = {} THEN {Change(p, None, v) : v \in new}
      ELSE IF new = {} THEN {Change(p, v, None) : v \in old}
      ELSE {Change(p, IF Below(v) # {} THEN Max(Below(v)) ELSE Min(old), v) : v \in new \ old}
           \cup {Change(p, v, IF Above(v) # {} THEN Min(Above(v)) ELSE Max(new)) : v \in old \ new}

\* The baseline's upgrade of a package is not taken, without going below the project's own.
Declines(end, p) ==
  /\ Cardinality(base[p]) = 1 /\ Cardinality(end[p]) = 1 /\ Cardinality(Lock[p]) < 2
  /\ Max(end[p]) < Max(base[p])
  /\ Lock[p] = {} \/ Max(end[p]) >= Max(Lock[p])

\* diff_from_baseline
Changes(end) ==
  UNION {IF Declines(end, p) THEN Expand(p, Lock[p], end[p]) ELSE Expand(p, base[p], end[p])
         : p \in Packages}
Declined(end) ==
  {Change(p, Max(base[p]), Max(end[p])) : p \in {r \in Packages : Declines(end, r)}}

\* What re-locking changes with nothing pinned; uv's adapter does not ask.
Drift == IF manager = "uv" THEN {} ELSE UNION {Expand(p, Lock[p], base[p]) : p \in Packages}

New(changes) == {c \in changes : c.new # None}
Updates(changes) == {c \in changes : c.old # None /\ c.new # None}

CrossesMajor(old, new) == Line(new) > Line(old)

-----------------------------------------------------------------------------
(* The checks of a trial.                                                  *)

Downgrades(changes) == {c \in Updates(changes) : c.new < c.old}
IntroducedYanks(changes) == {c \in New(changes) : <<c.package, c.new>> \in world.yanked}

MajorBumps(changes, exempt, only) ==
  {c \in Updates(changes) : /\ CrossesMajor(c.old, c.new)
                            /\ c.package \notin world.allowMajor \cup exempt /\ c.package \in only}

Before(c) == IF c.old = None THEN {} ELSE Advisories(c.package, c.old)
Added(changes) == {c \in New(changes) : ~(Advisories(c.package, c.new) \subseteq Before(c))}

SideEffects(changes, declined, degraded) ==
  IF IntroducedYanks(changes) # {} THEN "yanked"
  ELSE IF Downgrades(changes) # {} THEN "downgrade"
  ELSE IF New(changes) \cup declined = {} THEN "none"
  ELSE IF degraded THEN "could not verify"
  ELSE IF Added(changes \cup declined) # {} THEN "adds" ELSE "none"

MovesOff(c, end) == c.new # None /\ c.new \notin end[c.package]

\* _drift_problem: the holds for bad drift that a trial's end state leaves in place.
DriftProblems(end, degraded) ==
  LET FromProject(b) == Expand(b[1].package, Lock[b[1].package], end[b[1].package])
      Again(b) == SideEffects(FromProject(b), {}, degraded)
  IN  {IF ~MovesOff(b[1], end) THEN b[2]
       ELSE IF Again(b) # "none" THEN Again(b)
       ELSE IF DriftPinned /\ MajorBumps(FromProject(b), {}, Packages) # {} THEN "major"
       ELSE "none" : b \in bad} \ {"none"}

\* _side_effects of a whole trial
Harm(end, degraded) ==
  IF DriftProblems(end, degraded) # {} THEN CHOOSE r \in DriftProblems(end, degraded) : TRUE
  ELSE SideEffects(Changes(end), Declined(end), degraded)

TooYoung(changes) == {c \in New(changes) : Age(c.package, c.new) = "young" /\ ~world.allowCooldown}
OfUnknownAge(changes) == {c \in New(changes) : Age(c.package, c.new) = "unknown"}

\* The re-lock's own change installs the target, and the trial leaves the package alone.
RelockChange(item, target, end, drift) ==
  IF \E c \in Changes(end) : c.package = item.package THEN {}
  ELSE {c \in drift : c.package = item.package /\ c.new = target}

MovesTarget(item, target, end, drift) ==
  \/ \E c \in Changes(end) : c.package = item.package /\ c.new = target
  \/ RelockChange(item, target, end, drift) # {}

Split(item, end) == Cardinality(end[item.package]) > 1 /\ \E c \in Changes(end) : c.package = item.package

\* The version a parent carried the package to, past its target and on its line.
Overshoot(item, target, end) ==
  LET moved == {c.new : c \in {d \in New(Changes(end)) : d.package = item.package
                                                         /\ Line(d.new) = Line(target)}}
  IN  IF moved = {} \/ Min(moved) < target THEN None ELSE Min(moved)

Keeps(item, v) == item.advisories \cap Advisories(item.package, v)

-----------------------------------------------------------------------------
(* Trials.                                                                 *)

Pin(p, v) == [package |-> p, version |-> v]

\* npm installs a direct pin by name, overrides a forced one and a transitive parent, and
\* only looks at the others; uv takes every pin.
Told(pins, force, parents) ==
  IF manager = "npm" THEN {p \in pins : p.package \in Direct \/ p \in force \cup parents} ELSE pins

\* _left_below: a copy of a pinned package, on its lowest copy's line, below its target.
LeftBelow(item, target, end) ==
  manager = "npm" /\ \E v \in end[item.package] : Line(v) >= Line(item.version) /\ v < target

\* The states a trial may resolve to.
Resolved(pins, force, parents) ==
  {e \in Ends : \A p \in Told(pins, force, parents) : p.version \in e[p.package]}

Own == Items[n]
OwnPin == Pin(Own.package, fix.target)
ParentPins == {Pin(fix.parents[k].package, fix.parents[k].version) : k \in DOMAIN fix.parents}

\* Those of the item at hand, alone.
OwnEnds(force, parents) ==
  {e \in Resolved({OwnPin} \cup parents, force, parents) : ~LeftBelow(Own, fix.target, e)}

-----------------------------------------------------------------------------
(* One item.                                                               *)

Start(item, aged, held) ==
  [target |-> item.target, aged |-> aged, checked |-> item.aged \/ ~aged, parents |-> <<>>,
   pinner |-> "none", held |-> held, route |-> "none"]

CheckedFrom == Own.aged \/ ~fix.aged

\* The next of the items, or the fixes together.
Past(out) ==
  /\ outs' = Append(outs, out)
  /\ IF n < Len(Items) THEN /\ n' = n + 1 /\ pc' = "trial"
                            /\ fix' = Start(Items[n + 1], Items[n + 1].aged, "none")
     ELSE n' = n /\ pc' = "together" /\ fix' = fix
  /\ UNCHANGED <<about, bad, unaged, plan>>

At(l, f) == pc' = l /\ fix' = f /\ UNCHANGED <<about, n, outs, bad, unaged, plan>>

LadderReasons == {"blocked", "downgrade", "adds", "yanked", "could not verify"}

\* The item is held; a newer version may still be tried.
Held(reason) ==
  IF fix.held # "none" THEN Past([kind |-> "held", reason |-> fix.held])
  ELSE IF CanForce /\ reason \in LadderReasons THEN At("ladder", [fix EXCEPT !.held = reason])
  ELSE Past([kind |-> "held", reason |-> reason])

\* The parent's route ended held, then the forced one.
RouteHeld(reason, forced) ==
  IF CanForce /\ Own.package \notin Direct /\ ~forced
  THEN At("forced", [fix EXCEPT !.route = reason, !.checked = CheckedFrom, !.parents = <<>>])
  ELSE IF reason = "blocked" /\ HasParentUpgrade
  THEN At("upgrade", [fix EXCEPT !.route = reason, !.checked = CheckedFrom, !.parents = <<>>])
  ELSE Held(reason)

Verified(end, target, forced, checked, relock) ==
  Past([kind |-> "planned", package |-> Own.package, version |-> Own.version, target |-> target,
        tried |-> fix.target, end |-> end, parents |-> fix.parents, forced |-> forced,
        own |-> checked, byRelock |-> relock,
        checked |-> checked /\ ~\E u \in unaged : u[2] \in end[u[1]]])

\* The changes whose age counts: the item's own target does not where the planner looked.
Aged(changes) == {c \in changes : ~(fix.aged /\ c.package = Own.package)}

\* The checks, in their order: the reason to hold the item, or "none".
Judge(end, only, drift, degraded) ==
  LET counted == Aged(Changes(end) \cup RelockChange(Own, fix.target, end, drift))
  IN  IF Harm(end, degraded) # "none" THEN Harm(end, degraded)
      ELSE IF MajorBumps(Changes(end), {Own.package}, only) # {} THEN "major"
      ELSE IF TooYoung(counted) # {} THEN "cooldown"
      ELSE "none"

StillChecked(changes) == fix.checked /\ OfUnknownAge(changes) = {}
Counted(end, drift) == Aged(Changes(end) \cup RelockChange(Own, fix.target, end, drift))

Unsplit(end) == PinsEveryCopy \/ ~Split(Own, end)

\* The pin alone.
TrialResolved ==
  /\ pc = "trial"
  /\ \E end \in OwnEnds({}, {}), degraded \in BOOLEAN :
       LET reason == Judge(end, MajorOnly, Drift, degraded)
       IN  IF reason # "none" THEN Held(reason)
           ELSE IF ~Unsplit(end) THEN Held("several versions")
           ELSE IF ~MovesTarget(Own, fix.target, end, Drift) THEN Held("could not verify")
           ELSE Verified(end, fix.target, FALSE, StillChecked(Counted(end, Drift)),
                         RelockChange(Own, fix.target, end, Drift) # {})

TrialBlocked ==
  /\ pc = "trial"
  /\ \/ Held("blocked")
     \/ \E p \in Packages \ {Own.package} : At("retry", [fix EXCEPT !.pinner = p])

\* Every route's trial may say nothing, or raise.
Inconclusive ==
  \/ pc = "trial" /\ Held("could not verify")
  \/ pc = "retry" /\ RouteHeld("could not verify", FALSE)
  \/ pc = "exact" /\ RouteHeld("could not verify", FALSE)
  \/ pc = "forced" /\ RouteHeld("could not verify", TRUE)
  \/ pc = "upgraded" /\ Held(fix.route)

\* _parent_route: the retry only finds the parent's version.
RetryBlocked == pc = "retry" /\ RouteHeld("blocked", FALSE)

RetryResolved ==
  /\ pc = "retry"
  /\ \E end \in OwnEnds({}, {}) :
       LET moved == {c \in New(Changes(end)) : c.package = fix.pinner}
       IN  IF moved = {} THEN RouteHeld("blocked", FALSE)
           ELSE \E c \in moved :
                  At("exact", [fix EXCEPT !.parents = <<Pin(fix.pinner, c.new)>>])

\* The parents at versions a retry found may be forced next, those of a release may not.
HeldParent(exact, reason) == IF exact THEN RouteHeld(reason, FALSE) ELSE Held(reason)

\* _judge_parent of a resolved trial: held for a reason, or verified at a target.
JudgeParent(end, drift, forced, exact) ==
  \E degraded \in BOOLEAN :
    LET only == MajorOnly \cup {p.package : p \in ParentPins}
        reason == Judge(end, only, drift, degraded)
        over == Overshoot(Own, fix.target, end)
        own == {c \in Changes(end) : c.package = Own.package}
        counted == Counted(end, drift)
    IN  IF reason # "none" THEN HeldParent(exact, reason)
        ELSE IF ~Unsplit(end) THEN HeldParent(exact, "several versions")
        ELSE IF MovesTarget(Own, fix.target, end, drift)
        THEN Verified(end, fix.target, forced, StillChecked(counted), FALSE)
        ELSE IF over = None \/ Keeps(Own, over) # {} THEN HeldParent(exact, "could not verify")
        ELSE \/ HeldParent(exact, "could not verify")  \* the lookup failed
             \/ IF TooYoung(own) # {} THEN HeldParent(exact, "cooldown")
                ELSE Verified(end, over, forced, StillChecked(counted \cup own), FALSE)

ExactResolved ==
  /\ pc = "exact"
  /\ \E end \in OwnEnds({}, ParentPins) :
       JudgeParent(end, {}, FALSE, TRUE)

\* _forced
ForcedBlocked == pc = "forced" /\ RouteHeld("blocked", TRUE)

ForcedResolved ==
  /\ pc = "forced"
  /\ \E end \in OwnEnds({OwnPin}, {}), degraded \in BOOLEAN :
       LET reason == Judge(end, MajorOnly, Drift, degraded)
       IN  IF reason # "none" THEN RouteHeld(reason, TRUE)
           ELSE IF ~MovesTarget(Own, fix.target, end, Drift) THEN RouteHeld("could not verify", TRUE)
           ELSE Verified(end, fix.target, TRUE, StillChecked(Counted(end, Drift)), FALSE)

\* _parent_upgrade_route: the parent's next release that admits the target, if there is one.
MaxParentUpgrades == 3

NoRelease == pc = "upgrade" /\ Held(fix.route)

FindRelease ==
  /\ pc = "upgrade"
  /\ \E r \in Releases : /\ r.package = fix.pinner /\ r.version > Max(Lock[r.package])
                         /\ At("upgraded", [fix EXCEPT !.parents = Append(@, r)])

UsesForce == CanForce /\ Own.package \notin Direct

UpgradedBlocked ==
  /\ pc = "upgraded"
  /\ \E p \in Packages \ {Own.package} :
       IF p \in {q.package : q \in ParentPins} \/ Len(fix.parents) = MaxParentUpgrades
       THEN Held(fix.route)
       ELSE At("upgrade", [fix EXCEPT !.pinner = p])

UpgradedResolved ==
  /\ pc = "upgraded"
  /\ \E end \in OwnEnds(IF UsesForce THEN {OwnPin} ELSE {}, ParentPins) :
       JudgeParent(end, Drift, UsesForce, FALSE)

\* _ladder: a float finds the newest version the item's dependents allow.
NewestAllowed(end) ==
  LET own == {c \in Updates(Changes(end)) : c.package = Own.package
                /\ ~CrossesMajor(Own.version, c.old) /\ ~CrossesMajor(fix.target, c.new)}
      newer == {c.new : c \in {d \in own : d.new > fix.target}}
  IN  IF newer = {} THEN None ELSE Min(newer)

LadderEnds == IF pc = "ladder" THEN Ends ELSE {}

Ladder ==
  /\ pc = "ladder"
  /\ \/ Past([kind |-> "held", reason |-> fix.held])  \* no float resolves, or a lookup fails
     \/ \E end \in LadderEnds :
          LET over == NewestAllowed(end)
          IN  IF over = None \/ Keeps(Own, over) # {} THEN Past([kind |-> "held", reason |-> fix.held])
              ELSE At("trial", [Start(Own, FALSE, fix.held) EXCEPT !.target = over])

-----------------------------------------------------------------------------
(* The fixes together.                                                     *)

Planned == {k \in DOMAIN outs : outs[k].kind = "planned"}
Higher(S) == Max({p.version : p \in S})

\* _combined_pins: a parent is pinned once, at its highest release, and raises a fix of
\* the same package on its line.
ParentsOf(items) == UNION {Range(outs[k].parents) : k \in items}
HighestParents(items) ==
  {p \in ParentsOf(items) : p.version = Higher({q \in ParentsOf(items) : q.package = p.package})}

FixPin(k, items) ==
  LET same == {p \in HighestParents(items) : p.package = outs[k].package
                                             /\ Line(p.version) = Line(outs[k].target)}
  IN  Pin(outs[k].package, Higher(same \cup {Pin(outs[k].package, outs[k].target)}))

CombinedPins(items) ==
  {FixPin(k, items) : k \in items}
  \cup {p \in HighestParents(items) :
          ~\E k \in items : outs[k].package = p.package /\ Line(p.version) = Line(outs[k].target)}

Report(kind, items, end, pins, forced, checked, tried) ==
  /\ plan' = [kind |-> kind, items |-> items, end |-> end, pins |-> pins, forced |-> forced,
              checked |-> checked, tried |-> tried]
  /\ pc' = "printed" /\ UNCHANGED <<about, n, fix, outs, bad, unaged>>

\* One fix is printed with its own trial, and so is the first of several that cannot be
\* applied together; but when the combined trial had it overridden as well, as one of more,
\* it keeps that mark, and no trial ran the command that is printed for it.
First == CHOOSE k \in Planned : \A j \in Planned : k <= j
PrintFirst(kind, more) ==
  LET out == outs[First]
      parents == Range(out.parents)
      checked == IF out.checked THEN {First} ELSE {}
  IN  IF First \notin more
      THEN Report(kind, {First}, out.end, {Pin(out.package, out.tried)} \cup parents,
                  IF out.forced THEN {First} ELSE {}, checked, TRUE)
      ELSE LET own == Pin(out.package, out.target)
           IN  \E end \in Resolved({own} \cup parents, {own}, parents) :
                 Report(kind, {First}, end, {own} \cup parents, {First}, checked, FALSE)

NothingPlanned ==
  [kind |-> "nothing", items |-> {}, end |-> Lock, pins |-> {}, forced |-> {}, checked |-> {}, tried |-> TRUE]

PrintNone ==
  /\ pc = "together" /\ Planned = {} /\ pc' = "printed" /\ plan' = NothingPlanned
  /\ UNCHANGED <<about, n, fix, outs, bad, unaged>>
PrintOne == pc = "together" /\ Cardinality(Planned) = 1 /\ PrintFirst("one", {})

ForcedOf(items) == {k \in items : outs[k].forced}

\* _combined_problem, but for what the package manager says.
CombinedProblem(end, degraded) ==
  \/ \E k \in Planned :
       LET item == Items[k] over == Overshoot(item, outs[k].target, end)
       IN  ~MovesTarget(item, outs[k].target, end, Drift)
           /\ (over = None \/ degraded \/ Keeps(item, over) # {})
  \/ ~PinsEveryCopy /\ \E k \in Planned : Split(Items[k], end)
  \/ Harm(end, degraded) # "none"
  \/ MajorBumps(Changes(end), {outs[k].package : k \in Planned},
                MajorOnly \cup {p.package : p \in ParentsOf(Planned)}) # {}

\* The versions whose ages the fixes' own trials looked up.
CheckedBefore(c) ==
  Pin(c.package, c.new) \in {Pin(outs[k].package, outs[k].target) : k \in Planned} \cup CombinedPins(Planned)

\* The combined trial: some fixes may have to be overridden as well.  They are marked before
\* the trial is judged, so the marks outlive a combination that is refused, or that a lookup
\* raising keeps from being judged.
Together ==
  /\ pc = "together" /\ Cardinality(Planned) > 1
  /\ \E more \in SUBSET (Planned \ ForcedOf(Planned)), degraded \in BOOLEAN :
       LET force == ForcedOf(Planned) \cup more
           pins == CombinedPins(Planned)
       IN  /\ more # {} => CanForce
           /\ \A k \in more : outs[k].package \notin Direct
           /\ \E end \in Resolved(pins, {FixPin(k, Planned) : k \in force},
                                  {p \in pins : ~\E k \in Planned : p = FixPin(k, Planned)}) :
                LET changes == {c \in Changes(end) : ~CheckedBefore(c)}
                    unknown == OfUnknownAge(changes) # {} \/ \E u \in unaged : u[2] \in end[u[1]]
                IN  /\ \A k \in Planned : ~LeftBelow(Items[k], FixPin(k, Planned).version, end)
                    /\ IF CombinedProblem(end, degraded) \/ TooYoung(changes) # {}
                       THEN PrintFirst("separate", more)
                       ELSE \/ PrintFirst("separate", more)  \* a lookup raises
                            \/ Report("together", Planned, end, pins, force,
                                      IF unknown THEN {} ELSE {k \in Planned : outs[k].own}, TRUE)

\* No resolution, no conclusion, or an exception.
NotTogether == pc = "together" /\ Cardinality(Planned) > 1 /\ PrintFirst("separate", {})

-----------------------------------------------------------------------------
(* The start.                                                              *)

\* What is wrong with the drift itself, with the advisories known or not.
DriftHolds(degraded) ==
  {<<c, SideEffects({c}, {}, degraded)>> : c \in {d \in Drift : SideEffects({d}, {}, degraded) # "none"}}
  \cup (IF ~DriftPinned THEN {}
        ELSE {<<c, "major">> : c \in MajorBumps(Drift, {}, Packages)}
             \cup {<<c, "cooldown">> : c \in TooYoung(Drift)})

Init ==
  /\ manager \in Managers /\ base \in Baselines /\ world \in Worlds
  /\ manager = "uv" => base = Lock
  /\ \E degraded \in BOOLEAN : bad = DriftHolds(degraded)
  /\ unaged = IF DriftPinned THEN {<<c.package, c.new>> : c \in OfUnknownAge(Drift)} ELSE {}
  /\ pc = "trial" /\ n = 1 /\ outs = <<>>
  /\ fix = Start(Items[1], Items[1].aged, "none")
  /\ plan = NothingPlanned

Next ==
  \/ TrialResolved \/ TrialBlocked \/ Inconclusive
  \/ RetryBlocked \/ RetryResolved \/ ExactResolved \/ ForcedBlocked \/ ForcedResolved
  \/ NoRelease \/ FindRelease \/ UpgradedBlocked \/ UpgradedResolved \/ Ladder
  \/ PrintNone \/ PrintOne \/ Together \/ NotTogether

Spec == Init /\ [][Next]_vars

-----------------------------------------------------------------------------
(* What is printed.                                                        *)

\* The pins of the printed command, of the items it applies.
Printed ==
  LET items == plan.items
      own == {Pin(outs[k].package, outs[k].target) : k \in items}
  IN  CASE manager = "uv" ->
             own \cup {outs[k].parents[1] : k \in {j \in items : outs[j].parents # <<>>}}
        [] manager = "uv tool" ->
             IF \A k \in items : outs[k].byRelock THEN {} ELSE CombinedPins(items)
        [] manager = "npm" ->
             LET told == {FixPin(k, items) : k \in {j \in items : outs[j].package \in Direct \/ j \in plan.forced}}
                 named == told \cup HighestParents(items)
             IN  {p \in named : p.version = Higher({q \in named : q.package = p.package
                                                                /\ Line(q.version) = Line(p.version)})}

-----------------------------------------------------------------------------
(* Properties.                                                             *)

IsPrinted == pc = "printed" /\ plan.kind # "nothing"
Fixes == {outs[k].package : k \in plan.items}
Installs(p) == plan.end[p] \ (base[p] \cup Lock[p])

\* What the printed command installs, when a trial ran it with its overrides, is nowhere
\* worse than what the project had: no yanked version, no downgrade, no advisory that was
\* not there, whether a fix or the re-lock brought it in, and no direct dependency on another
\* major line that was not allowed, unless re-locking takes it there with nothing pinned.
\* (verify_plan: _side_effects, _drift_problem, _major_hold, _combined_problem)
NothingWorse ==
  IsPrinted /\ plan.tried => \A p \in Packages : \A v \in plan.end[p] \ Lock[p] :
    /\ <<p, v>> \notin world.yanked
    /\ Lock[p] # {} => v >= Min(Lock[p])
    /\ Advisories(p, v) \subseteq UNION {Advisories(p, o) : o \in Lock[p]}
    /\ \/ p \in Fixes \cup world.allowMajor \/ p \notin MajorOnly
       \/ base[p] = {} \/ v \in base[p] \/ Line(v) \in {Line(o) : o \in base[p] \cup Lock[p]}

\* Each fix that is printed is one: no version it brings has an advisory of the fix, by
\* whichever of the routes it was found and whatever the fixes do to each other.
\* (_moves_target, _overshoot, _combined_problem)
PrintedFixes ==
  IsPrinted => \A k \in plan.items :
    \E v \in plan.end[Items[k].package] : v >= outs[k].tried /\ Keeps(Items[k], v) = {}

\* A version whose age is not known is never installed silently by a command that a trial
\* ran: some fix printed with it does not claim that its ages were checked.
\* (_cooldown_check, verify_plan)
UnknownAgeIsSaid ==
  IsPrinted /\ plan.tried => \A p \in Packages : \A v \in Installs(p) :
    Age(p, v) = "unknown" => \E k \in plan.items : k \notin plan.checked

\* The printed command is the one that was tried: every version it pins was pinned in the
\* trial that verified it, or is where that trial carried a fix past its target.
\* (_combined_pins: "so no package is pinned twice on one major line")
PrintedIsTried ==
  IsPrinted => \A p \in Printed :
    \/ p \in plan.pins
    \/ \E k \in plan.items : p.package = outs[k].package /\ p.version = outs[k].target
                             /\ outs[k].target # outs[k].tried
=============================================================================
