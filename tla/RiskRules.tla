----------------------------- MODULE RiskRules -----------------------------
(***************************************************************************)
(* How a package's risk is judged before and after it is installed: the    *)
(* name check of heuristics/typosquat.py, the scoring of analyzers/risk.py *)
(* and the gates of sandbox/preflight_risk.py, cooldown.py and runner.py.  *)
(*                                                                         *)
(* A factor is a fraction <<n, d>>.  A popular name that a package's name  *)
(* is compared with is [distance, affix, short]: its edit distance,        *)
(* whether only a version marker differs, and whether the shorter of the   *)
(* two names has under five characters.                                    *)
(***************************************************************************)
EXTENDS Integers, Sequences, FiniteSets, FiniteSetsExt, SequencesExt, Functions

Least(i, j) == IF i < j THEN i ELSE j
Most(i, j) == IF i > j THEN i ELSE j

-----------------------------------------------------------------------------
(* The name.                                                               *)

TypoThreshold == 2
NoTypo == [is |-> FALSE, distance |-> 0, score |-> 0, affix |-> FALSE]

\* _len_eligible
Eligible(c) == c.distance # 2 \/ ~c.short

\* The order of preference between two names: a smaller distance, then one that is long
\* enough, then one that is not a version of it; the first in the sorted corpus otherwise.
Beats(c, best) ==
  \/ c.distance < best.distance
  \/ /\ c.distance = best.distance
     /\ \/ Eligible(c) /\ ~Eligible(best)
        \/ Eligible(c) = Eligible(best) /\ best.affix /\ ~c.affix

\* _analyze_uncached: the corpus is a sequence, sorted by name.
Typosquat(corpus) ==
  LET none == [distance |-> TypoThreshold + 1, affix |-> TRUE, short |-> TRUE]
      best == FoldLeft(LAMBDA b, c : IF Beats(c, b) THEN c ELSE b, none, corpus)
  IN  IF (\E k \in DOMAIN corpus : corpus[k].distance = 0) \/ best.distance > TypoThreshold \/ ~Eligible(best)
      THEN NoTypo
      ELSE [is |-> TRUE, distance |-> best.distance, score |-> IF best.distance = 1 THEN 20 ELSE 15,
            affix |-> best.affix]

-----------------------------------------------------------------------------
(* What is known of the name: [known, versions, dependents], known one of  *)
(* "yes", "absent" and "failed".                                           *)

MinDependents == 25
TrustedDependents == 1000
TrustedVersions == 40

\* _typosquat_adoption_factor: dependents carry the weight, and releases a fifth of it.
\* In twentieths the score keeps 5, or 1 of a version of the name.
Adoption(pop, affix) ==
  LET dependents == Least(pop.dependents, TrustedDependents)
      releases == Least(pop.versions, TrustedVersions)
      scale == 20 * 5 * TrustedDependents * TrustedVersions
      lost == dependents * (4 * TrustedVersions + releases) * (20 - IF affix THEN 1 ELSE 5)
  IN  IF pop.known # "yes" \/ pop.dependents < MinDependents THEN <<1, 1>>
      ELSE <<scale - lost, scale>>

TypoSignal(typo, pop) ==
  LET f == Adoption(pop, typo.affix)
  IN  IF ~typo.is THEN <<>>
      ELSE <<[name |-> "typosquat",
              score |-> IF f[1] = f[2] THEN typo.score ELSE Most(1, (typo.score * f[1]) \div f[2])]>>

LowVersions == 5
LowDependents == 10

\* _popularity_signal: a failed lookup is not evidence, an absent package is.
PopularitySignal(typo, pop) ==
  LET low == pop.known = "yes" /\ pop.versions < LowVersions /\ pop.dependents < LowDependents
      signal(score) == <<[name |-> "low_popularity", score |-> score]>>
  IN  CASE pop.known = "absent" /\ typo.is -> signal(20)
        [] low -> signal(IF typo.is THEN 15 ELSE 5)
        [] OTHER -> <<>>

-----------------------------------------------------------------------------
(* Damping: what a heuristic found counts less in an established package.  *)

Undampened == {"low_popularity", "typosquat", "unverifiable_manifest"}
Total(signals) == FoldLeft(LAMBDA sum, s : sum + s.score, 0, signals)
IsDampened(s) == s.name \notin Undampened

PopularityFactor(pop, cfg) ==
  LET count == IF pop.dependents > 0 THEN pop.dependents ELSE pop.versions
      enough == IF pop.dependents > 0 THEN cfg.highDependents ELSE cfg.highVersions
  IN  IF pop.known # "yes" THEN <<1, 1>>
      ELSE <<enough * 100 - Least(count, enough) * (100 - cfg.popularityFloor), enough * 100>>

\* An age that is not known, Unknown, and one inside the cooldown period change nothing.
Unknown == -1

AgeFactor(age, cfg) ==
  LET window == cfg.maxAge - cfg.period
      past == Most(0, Least(window, age - cfg.period))
  IN  IF age = Unknown \/ window <= 0 THEN <<1, 1>>
      ELSE <<window * 100 - past * (100 - cfg.ageFloor), window * 100>>

Times(f, g) == <<f[1] * g[1], f[2] * g[2]>>

\* _compute_damping
Damping(pop, age, cfg) ==
  LET product == Times(PopularityFactor(pop, cfg), AgeFactor(age, cfg))
  IN  IF product[1] * 100 < cfg.combinedFloor * product[2] THEN <<cfg.combinedFloor, 100>> ELSE product

\* _apply_damping: the largest remainders are rounded up, so that the scores that are shown
\* add up to the total.
ApplyDamping(signals, f, target) ==
  LET at == {k \in DOMAIN signals : IsDampened(signals[k])}
      budget == Most(0, target - Total(SelectSeq(signals, LAMBDA s : ~IsDampened(s))))
      raw == Total(SelectSeq(signals, IsDampened))
      share(k) == IF raw * f[1] = 0 THEN 0 ELSE (signals[k].score * budget) \div raw
      left(k) == IF raw * f[1] = 0 THEN 0 ELSE (signals[k].score * budget) % raw
      over == budget - FoldSet(LAMBDA k, sum : sum + share(k), 0, at)
      before(k) == {j \in at : left(j) > left(k) \/ (left(j) = left(k) /\ j < k)}
  IN  [k \in DOMAIN signals |->
         IF k \notin at THEN signals[k]
         ELSE [signals[k] EXCEPT !.score = share(k) + IF Cardinality(before(k)) < over THEN 1 ELSE 0]]

\* analyze: [score, signals] from what the heuristics found and what is known of the name.
\* localOnly is a package that is not the public one of its name.
Analyze(found, manifest, localOnly, typo, pop, age, cfg) ==
  LET own == found \o manifest
      public == own \o TypoSignal(typo, pop) \o PopularitySignal(typo, pop)
      f == Damping(pop, age, cfg)
      raw == FoldLeft(LAMBDA sum, s : sum + s.score * (IF IsDampened(s) THEN f[1] ELSE f[2]), 0, public)
      damped == Least(100, raw \div f[2])
  IN  IF localOnly THEN [score |-> Least(100, Total(own)), signals |-> own]
      ELSE IF found = <<>> THEN [score |-> Least(100, Total(public)), signals |-> public]
      ELSE [score |-> damped, signals |-> ApplyDamping(public, f, damped)]

\* _dedupe_signals_by_name: one of each name, the highest, where the first of them was.
Deduped(signals) ==
  LET firsts == SelectSeq([k \in DOMAIN signals |-> k],
                          LAMBDA k : \A j \in 1 .. (k - 1) : signals[j].name # signals[k].name)
      best(name) == Max({signals[k].score : k \in {j \in DOMAIN signals : signals[j].name = name}})
  IN  [i \in DOMAIN firsts |-> [signals[firsts[i]] EXCEPT !.score = best(@.name)]]

-----------------------------------------------------------------------------
(* The gates.  An action is one of Actions.                                *)

Rank == [allow |-> 0, warn |-> 1, prompt |-> 2, block |-> 3]
Actions == DOMAIN Rank
Worst(actions) == CHOOSE a \in actions : \A b \in actions : Rank[b] <= Rank[a]

\* escalate_if_prompt
Escalate(action, tty, fallback) == IF action = "prompt" /\ ~tty THEN fallback ELSE action

\* The gate judges the score the engine reduced.
Reconcile(typo, report) ==
  LET own == {k \in DOMAIN report.signals : report.signals[k].name = "typosquat"}
  IN  IF typo.is /\ own # {} THEN [typo EXCEPT !.score = report.signals[Min(own)].score] ELSE typo

Qualifies(typo, cfg) == typo.score >= cfg.minScore /\ typo.distance <= cfg.maxDistance

\* The actions of the two triggers, each on its own.
Fired(typo, report, cfg) ==
  (IF typo.is THEN {IF Qualifies(typo, cfg) THEN cfg.onTyposquat ELSE "warn"} ELSE {})
  \cup (IF report.score >= cfg.riskThreshold THEN {cfg.onHighRisk} ELSE {})

\* Mutant: the worst of the triggers is found before the prompt is replaced.
WorstThenEscalate(typo, report, cfg, tty) ==
  LET fired == Fired(typo, report, cfg)
  IN  IF ~cfg.enabled \/ fired = {} THEN "allow" ELSE Escalate(Worst(fired), tty, cfg.fallback)

\* decide_risk
DecideRisk(typo, report, cfg, tty) ==
  LET fired == Fired(typo, report, cfg)
  IN  IF ~cfg.enabled \/ fired = {} THEN "allow"
      ELSE Worst({Escalate(a, tty, cfg.fallback) : a \in fired})

\* cooldown.decide, of a package risk was scored for.
DecideAge(age, risk, cfg, tty) ==
  IF age = Unknown THEN "warn"
  ELSE IF age >= cfg.period THEN "allow"
  ELSE Escalate(IF risk > 0 THEN cfg.onNewMedium ELSE cfg.onNewLow, tty, cfg.fallback)

\* decide_with_cleared: the user's clearance, `cleared` days ago, lasts a period.
DecideWithCleared(age, risk, cfg, tty, cleared) ==
  IF cleared # Unknown /\ cleared < cfg.period THEN "allow" ELSE DecideAge(age, risk, cfg, tty)

\* _risk_check, of the packages' actions in order: what is asked before something blocks.
RiskGate(actions, answers) ==
  LET step(s, k) ==
        CASE actions[k] = "block" -> [s EXCEPT !.blocked = @ \cup {k}]
          [] actions[k] = "prompt" /\ s.blocked = {} ->
               [s EXCEPT !.asked = @ \cup {k}, !.blocked = IF answers[k] THEN @ ELSE @ \cup {k}]
          [] actions[k] = "prompt" /\ s.blocked # {} -> [s EXCEPT !.blocked = @ \cup {k}]
          [] OTHER -> s
      none == [blocked |-> {}, asked |-> {}]
  IN  FoldLeftDomain(step, none, actions)

\* _cooldown_decide asks once, about all of them, when nothing blocks already; the packages
\* it was told to install are cleared.
CooldownGate(actions, answer) ==
  LET blocking == {k \in DOMAIN actions : actions[k] = "block"}
      prompted == {k \in DOMAIN actions : actions[k] = "prompt"}
      asked == IF blocking = {} THEN prompted ELSE {}
  IN  [asked |-> asked, cleared |-> IF answer THEN asked ELSE {},
       blocked |-> blocking \cup (IF answer /\ blocking = {} THEN {} ELSE prompted)]

\* _risk_check_lockfiles: one question about the project, where the worst is to be asked.
LockfileGate(actions, answer) ==
  LET worst == Worst({"allow"} \cup Range(actions))
  IN  worst # "block" /\ (worst = "prompt" => answer)

-----------------------------------------------------------------------------
(* Yanks (yanks.py).  A package to check is [key, public]; what is known   *)
(* of a version is a row and what the registry would answer, each of       *)
(* "none", "failed", "yanked" and "kept".                                  *)

\* check_yanks: one package of each key, a public one if there is one.
Unique(specs) ==
  {LET same == {j \in DOMAIN specs : specs[j].key = specs[k].key}
       publics == {j \in same : specs[j].public}
   IN  IF publics # {} THEN Min(publics) ELSE Min(same) : k \in DOMAIN specs}

\* _status: a row of the last day, then the registry.
Status(spec, row, answer) ==
  IF ~spec.public THEN "none" ELSE IF row[spec.key] # "none" THEN row[spec.key] ELSE answer[spec.key]

CheckYanks(specs, row, answer) ==
  LET status(k) == Status(specs[k], row, answer)
  IN  [yanked |-> {specs[k].key : k \in {j \in Unique(specs) : status(j) = "yanked"}},
       unchecked |-> Cardinality({k \in Unique(specs) : status(k) = "failed"})]

-----------------------------------------------------------------------------
(* Properties, of one input each.                                          *)

\* The scores shown for a package's signals add up to the score it is judged by, however
\* they were damped, rounded and capped.  (_apply_damping: "guarantees sum(displayed
\* scores) == report.score")
ShownScoresAddUp(found, manifest, typo, pop, age, cfg) ==
  LET report == Analyze(found, manifest, FALSE, typo, pop, age, cfg)
  IN  /\ Total(report.signals) = report.score
      /\ \A k \in DOMAIN report.signals : report.signals[k].score >= 0

\* A name close to a popular one is gated unless people use it: whatever other names are
\* in the corpus, a version marker or a long release history changes nothing for a package
\* that few depend on, and adoption never erases the signal.  (_typosquat_adoption_factor)
ResemblanceIsGated(corpus, pop, cfg, tty) ==
  LET typo == Typosquat(corpus)
      report == Analyze(<<>>, <<>>, FALSE, typo, pop, Unknown, cfg)
      close == {k \in DOMAIN corpus : corpus[k].distance = 1}
      longer == {k \in DOMAIN corpus : corpus[k].distance = 2 /\ ~corpus[k].short}
      exact == \E k \in DOMAIN corpus : corpus[k].distance = 0
      unused == pop.known # "yes" \/ pop.dependents < MinDependents
  IN  /\ ~exact /\ close \cup longer # {} => typo.is /\ report.score >= 1
      /\ ~exact /\ unused /\ close \cup longer # {} /\ cfg.enabled /\ cfg.maxDistance = 2 /\ cfg.minScore <= 15 =>
           Rank[DecideRisk(Reconcile(typo, report), report, cfg, tty)] >= Rank[Escalate(cfg.onTyposquat, tty, cfg.fallback)]

\* The gate is no weaker than any trigger that fired is alone, and never asks where nobody
\* can answer.  (decide_risk: "substituting only the ranked winner let one policy erase
\* another")
EveryTriggerCounts(typo, report, cfg, tty) ==
  LET action == DecideRisk(typo, report, cfg, tty)
  IN  cfg.enabled =>
        /\ \A a \in Fired(typo, report, cfg) : Rank[action] >= Rank[Escalate(a, tty, cfg.fallback)]
        /\ tty \/ action # "prompt"

\* A version within its cooldown passes without a word only where the policy says so or the
\* user cleared it within the last period, whatever was answered before.
\* (decide_with_cleared)
ClearancesExpire(age, risk, cfg, tty, cleared) ==
  age # Unknown /\ age < cfg.period /\ DecideWithCleared(age, risk, cfg, tty, cleared) = "allow" =>
    \/ cleared # Unknown /\ cleared < cfg.period
    \/ Escalate(IF risk > 0 THEN cfg.onNewMedium ELSE cfg.onNewLow, tty, cfg.fallback) = "allow"

\* An install goes ahead only if nothing blocks it and everything that was to be asked was
\* answered yes, whatever the order of the packages, and nobody is asked in vain.
\* (_risk_check, _cooldown_decide)
GatesAskOnce(actions, answers) ==
  LET gate == RiskGate(actions, answers)
      refused == \E k \in DOMAIN actions : actions[k] = "block" \/ (actions[k] = "prompt" /\ ~answers[k])
      cooled == CooldownGate(actions, answers[1])
  IN  /\ gate.blocked # {} <=> refused
      /\ \A k \in gate.asked : \A j \in 1 .. (k - 1) : actions[j] # "block"
      /\ cooled.blocked = {} => \A k \in DOMAIN actions : actions[k] = "prompt" => k \in cooled.cleared
      /\ cooled.cleared # {} => cooled.blocked = {}
      /\ LockfileGate(actions, answers[1]) => cooled.blocked = {}

\* Each version a registry could be asked about is reported as yanked, counted as unchecked,
\* or known to be neither; a private copy of it does not hide it.  (check_yanks)
YanksAreAnswered(specs, row, answer) ==
  LET result == CheckYanks(specs, row, answer)
      public == {specs[k].key : k \in {j \in DOMAIN specs : specs[j].public}}
      known(key) == IF row[key] # "none" THEN row[key] ELSE answer[key]
  IN  /\ result.yanked = {key \in public : known(key) = "yanked"}
      /\ result.unchecked = Cardinality({key \in public : known(key) = "failed"})
=============================================================================
