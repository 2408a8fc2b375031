------------------------------ MODULE FixPlan ------------------------------
(***************************************************************************)
(* What `pa fix` plans for one vulnerable package, before anything is      *)
(* tried: osv/remediation.py (which version to upgrade a copy to) and      *)
(* remediate/planner.py (what becomes of its copies).                      *)
(*                                                                         *)
(* A version is a number, 0 for one that cannot be ordered.  A finding is  *)
(* [names, fixed, ranges, listed, malicious]: its id and aliases, the      *)
(* fixed versions it lists, its OSV ranges, each a sequence of events      *)
(* [kind, at], and the versions it lists as affected.  A copy is           *)
(* [version, findings], its findings a sequence in OSV's order.            *)
(***************************************************************************)
EXTENDS Integers, Sequences, FiniteSets, FiniteSetsExt, SequencesExt, Functions

\* The last version on every major line but the last, so that Line tells them apart.
CONSTANT LineLength
LineAssumption == LineLength \in Nat \ {0}

\* _major_for
Line(v) == v \div LineLength

Unreadable == 0
NoVersion == 0
MinOf(S) == IF S = {} THEN NoVersion ELSE Min(S)

-----------------------------------------------------------------------------
(* Ranges.                                                                 *)

Bounds == {"introduced", "fixed", "last_affected"}

\* An event decides for the versions at it and above it, or only above.
Passed(e, v) == IF e.kind = "last_affected" THEN v > e.at ELSE v >= e.at

\* _in_range: the last event at or below the version decides, in OSV's order where two are
\* at one version.  introduced "0" comes before every version.
InRange(events, v) ==
  LET at == {k \in DOMAIN events : events[k].kind \in Bounds /\ Passed(events[k], v)}
      last == {k \in at : \A j \in at : events[j].at < events[k].at
                                        \/ (events[j].at = events[k].at /\ j <= k)}
      limits == {k \in DOMAIN events : events[k].kind = "limit"}
  IN  /\ limits = {} \/ \E k \in limits : v < events[k].at
      /\ \E k \in last : events[k].kind = "introduced"

Readable(events) == \A k \in DOMAIN events : events[k].at # Unreadable \/ events[k].kind = "introduced"

Affects(f, v) == v \in f.listed \/ \E k \in DOMAIN f.ranges : InRange(f.ranges[k], v)

\* A finding's ranges say what is fixed only if they cover the version it was found in.
Usable(f, installed) ==
  /\ f.ranges # <<>> /\ \A k \in DOMAIN f.ranges : Readable(f.ranges[k])
  /\ Unreadable \notin f.listed /\ Affects(f, installed)

FixesAbove(f, installed) == {v \in f.fixed : v > installed}

\* _advisory_checks: whether a version still has the finding.
StillAffected(f, installed, v) ==
  IF Usable(f, installed) THEN Affects(f, v)
  ELSE FixesAbove(f, installed) = {} \/ v < Min(FixesAbove(f, installed))

-----------------------------------------------------------------------------
(* Aliases.                                                                *)

\* merge_aliases: a finding joins the vulnerability of the first one that had any of its
\* names, and the vulnerabilities it joins become one.
Merge(parents, owners, i, j) ==
  LET low == IF parents[i] < parents[j] THEN i ELSE j
      high == IF parents[i] < parents[j] THEN j ELSE i
  IN  [k \in DOMAIN parents |-> IF parents[k] = parents[high] THEN parents[low] ELSE parents[k]]

\* Mutant: a finding joins only the first vulnerability that shares a name with it.
JoinedOnce(parents, findings, i) ==
  LET sharing == {j \in 1 .. (i - 1) : findings[j].names \cap findings[i].names # {}}
  IN  IF sharing = {} THEN parents ELSE Merge(parents, {}, Min(sharing), i)

\* The owners of i's names are the first findings that had each of them.
Joined(parents, findings, i) ==
  LET owners == {Min({j \in 1 .. i : name \in findings[j].names}) : name \in findings[i].names}
  IN  FoldSet(LAMBDA j, p : Merge(p, owners, j, i), parents, owners)

Clusters(findings) ==
  FoldLeftDomain(LAMBDA p, i : Joined(p, findings, i), [k \in DOMAIN findings |-> k], findings)

-----------------------------------------------------------------------------
(* One copy.                                                               *)

\* A fix: the version, what it leaves open (as indices of the findings), whether it is a
\* major upgrade, and whether every finding could be checked against its ranges.
NoFix(findings, verified) ==
  [version |-> NoVersion, unfixed |-> DOMAIN findings, major |-> FALSE, verified |-> verified,
   sameLine |-> NoVersion, sameLineUnfixed |-> {}]

Open(copy, v) == {k \in DOMAIN copy.findings : StillAffected(copy.findings[k], copy.version, v)}

\* Aliases of one flaw count once.
OpenCount(copy, v) == Cardinality({Clusters(copy.findings)[k] : k \in Open(copy, v)})

\* recommend_fix's pick: in ascending order, only strictly fewer open ones are better.
Pick(copy, pool) ==
  LET better(best, v) == IF best = NoVersion \/ OpenCount(copy, v) < OpenCount(copy, best) THEN v ELSE best
  IN  FoldLeft(better, NoVersion, SetToSortSeq(pool, <))

Recommend(copy) ==
  LET candidates == UNION {FixesAbove(copy.findings[k], copy.version) : k \in DOMAIN copy.findings}
      best == Pick(copy, candidates)
      verified == \A k \in DOMAIN copy.findings : Usable(copy.findings[k], copy.version)
      major == Line(best) # Line(copy.version)
      inLine == Pick(copy, {v \in candidates : Line(v) = Line(copy.version)})
      worth == major /\ inLine # NoVersion
               /\ OpenCount(copy, inLine) < Cardinality(Range(Clusters(copy.findings)))
  IN  IF best = NoVersion THEN NoFix(copy.findings, verified)
      ELSE [version |-> best, unfixed |-> Open(copy, best), major |-> major, verified |-> verified,
            sameLine |-> IF worth THEN inLine ELSE NoVersion,
            sameLineUnfixed |-> IF worth THEN Open(copy, inLine) ELSE {}]

-----------------------------------------------------------------------------
(* The copies of a package.                                                *)

\* A group of copies with one recommendation: a finding of it is <<copy, index>>.
FindingsOf(copies, group) == UNION {{<<c, k>> : k \in DOMAIN copies[c].findings} : c \in group}
OpenIn(copies, group, v) == UNION {{<<c, k>> : k \in Open(copies[c], v)} : c \in group}

\* _merged_recommendation: the highest copy's target, if every copy has one.
Merged(copies, group) ==
  LET rec == [c \in group |-> Recommend(copies[c])]
      target == Max({rec[c].version : c \in group})
      lines == {Line(copies[c].version) : c \in group}
      major == lines # {Line(target)}
      alternatives == {IF rec[c].major THEN rec[c].sameLine ELSE rec[c].version : c \in group}
      highest == Max(alternatives)
      worth == /\ major /\ Cardinality(lines) = 1 /\ NoVersion \notin alternatives
               /\ OpenIn(copies, group, highest) # FindingsOf(copies, group)
      verified == \A c \in group : rec[c].verified
  IN  IF \E c \in group : rec[c].version = NoVersion
      THEN [version |-> NoVersion, unfixed |-> FindingsOf(copies, group), major |-> FALSE,
            verified |-> verified, sameLine |-> NoVersion, sameLineUnfixed |-> {}]
      ELSE [version |-> target, unfixed |-> OpenIn(copies, group, target), major |-> major,
            verified |-> verified, sameLine |-> IF worth THEN highest ELSE NoVersion,
            sameLineUnfixed |-> IF worth THEN OpenIn(copies, group, highest) ELSE {}]

Single(copies, c) ==
  LET rec == Recommend(copies[c])
      of(ks) == {<<c, k>> : k \in ks}
  IN  [rec EXCEPT !.unfixed = of(@), !.sameLineUnfixed = of(@)]

RecommendGroup(copies, group) ==
  IF Cardinality(group) = 1 THEN Single(copies, CHOOSE c \in group : TRUE) ELSE Merged(copies, group)

\* A direct dependency is installed once; another's copies are grouped by line, and the
\* lines whose groups come to one allowed target are one group again.
ByLine(copies, direct) ==
  {{d \in DOMAIN copies : direct \/ Line(copies[d].version) = Line(copies[c].version)} : c \in DOMAIN copies}

Groups(copies, direct, allowMajor) ==
  LET lines == ByLine(copies, direct)
      target(g) == RecommendGroup(copies, g).version
      plannable(g) == target(g) # NoVersion /\ (allowMajor \/ ~RecommendGroup(copies, g).major)
  IN  IF direct THEN lines
      ELSE {IF plannable(g) THEN UNION {h \in lines : plannable(h) /\ target(h) = target(g)} ELSE g
            : g \in lines}

-----------------------------------------------------------------------------
(* The plan.                                                               *)

\* The full fix is a major upgrade that is not allowed, and the line offers something.
FallsBack(rec, allowMajor) == rec.major /\ rec.sameLine # NoVersion /\ ~allowMajor

OnItsLine(rec) ==
  [rec EXCEPT !.version = rec.sameLine, !.unfixed = rec.sameLineUnfixed, !.major = FALSE]

IsMalicious(copies, group) == \E p \in FindingsOf(copies, group) : copies[p[1]].findings[p[2]].malicious

\* _hold_reason: what cannot be pinned comes before what may not be.
HoldReason(copies, group, rec, c) ==
  IF IsMalicious(copies, group) THEN "malicious"
  ELSE IF rec.version = NoVersion THEN "no fix known"
  ELSE IF c.structural # "none" THEN c.structural
  ELSE IF ~c.pinsEveryCopy /\ Cardinality(Range([d \in DOMAIN copies |-> copies[d].version])) > 1
    THEN "multiple locked versions"
  ELSE IF rec.major /\ ~c.allowMajor THEN "major upgrade"
  ELSE IF ~rec.verified THEN "unverified"
  ELSE IF c.age[rec.version] = "young" /\ ~c.allowCooldown THEN "in cooldown"
  ELSE "none"

\* plan_fixes of one group.
PlanGroup(copies, group, c) ==
  LET full == RecommendGroup(copies, group)
      rec == IF FallsBack(full, c.allowMajor) THEN OnItsLine(full) ELSE full
      reason == HoldReason(copies, group, rec, c)
  IN  [group |-> group, version |-> Min({copies[d].version : d \in group}), target |-> rec.version,
       reason |-> reason, leftOpen |-> rec.unfixed,
       checked |-> rec.version # NoVersion /\ c.age[rec.version] # "unknown",
       fixesAll |-> IF rec # full /\ rec.unfixed \ full.unfixed # {} THEN full.version ELSE NoVersion]

\* Without an adapter that moves every copy, each copy is a group of its own.
Plan(copies, c) ==
  LET groups == IF c.pinsEveryCopy THEN Groups(copies, c.direct, c.allowMajor)
                ELSE {{d} : d \in DOMAIN copies}
  IN  {PlanGroup(copies, g, c) : g \in groups}

-----------------------------------------------------------------------------
(* Properties.                                                             *)

\* Findings that share a name, directly or through others, are one vulnerability, and no
\* others are: whatever order they come in.  (merge_aliases: "followed transitively")
AliasesAreMerged(findings) ==
  LET related(i, j) == findings[i].names \cap findings[j].names # {}
      \* everything a chain of shared names leads to, one finding of it after the other
      reach[S \in SUBSET DOMAIN findings] ==
        LET more == {j \in DOMAIN findings \ S : \E i \in S : related(i, j)}
        IN  IF more = {} THEN S ELSE reach[S \cup more]
      together == Clusters(findings)
  IN  \A i, j \in DOMAIN findings : together[i] = together[j] <=> j \in reach[{i}]

\* The recommended version is above the copy's, is the lowest listed fix that leaves the
\* fewest vulnerabilities open, and leaves open what it says.  (recommend_fix)
BestIsRecommended(copy) ==
  LET rec == Recommend(copy)
      candidates == UNION {FixesAbove(copy.findings[k], copy.version) : k \in DOMAIN copy.findings}
      vulnerabilities(v) ==
        Cardinality({Clusters(copy.findings)[k] : k \in {j \in DOMAIN copy.findings :
                      StillAffected(copy.findings[j], copy.version, v)}})
      best == {v \in candidates : \A w \in candidates : vulnerabilities(v) <= vulnerabilities(w)}
  IN  IF candidates = {} THEN rec.version = NoVersion
      ELSE rec.version = Min(best) /\ rec.unfixed = Open(copy, rec.version)

\* A planned fix is a fix of every copy it moves: its target is above each of them, is not
\* malicious or on another line unless that is allowed, and has no advisory of any copy but
\* those it says it leaves open, whose ranges say so.  (plan_fixes, _merge_copies)
PlannedFixesEveryCopy(copies, c) ==
  \A item \in Plan(copies, c) : item.reason = "none" =>
    \A d \in item.group : \A k \in DOMAIN copies[d].findings :
      LET f == copies[d].findings[k]
      IN  /\ ~f.malicious
          /\ item.target > copies[d].version
          /\ c.allowMajor \/ Line(item.target) = Line(copies[d].version)
          /\ Affects(f, item.target) => <<d, k>> \in item.leftOpen

\* Every vulnerable copy is in one item, planned or held, and no two items of an adapter
\* that moves every copy are pinned to one version.  (_merge_copies)
EveryCopyIsPlannedOnce(copies, c) ==
  /\ \A d \in DOMAIN copies : Cardinality({item \in Plan(copies, c) : d \in item.group}) = 1
  /\ c.pinsEveryCopy => \A x, y \in Plan(copies, c) :
       x # y /\ x.reason = "none" /\ y.reason = "none" => x.target # y.target
=============================================================================
