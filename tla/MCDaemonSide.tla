---------------------------- MODULE MCDaemonSide ----------------------------
(***************************************************************************)
(* The instances, for TLC, of the components of the daemon, and of the     *)
(* checks it shares with the commands, that do not interact with each      *)
(* other: one run explores their disjoint union.  `which` says which of    *)
(* them a behaviour is of; the variables of the others are at rest in it,  *)
(* and v1 is the input of the rules.                                       *)
(***************************************************************************)
EXTENDS Integers, Sequences, FiniteSets, TLC, DaemonLifecycle, SchemaMigration, CachePolling, Scheduler,
  RiskScoring, ScanCommand

VARIABLES
  which, v1

unionVars ==
  <<which, v1, lifecycleVars, openingVars, pollingVars, schedulerVars, scoringVars, scanningVars>>

Nothing == "unused"

-----------------------------------------------------------------------------
(* Three daemons, started one after the other over two locks of the PID file. *)
LifeInit ==
  /\ which = "lifecycle" /\ LifecycleInit /\ v1 = Nothing
LifeNext ==
  /\ which = "lifecycle" /\ LifecycleNext
  /\ UNCHANGED <<which, v1, openingVars, pollingVars, schedulerVars, scoringVars, scanningVars>>
(* What its variables are in a behaviour of another component. *)
LifeResting == LifecycleInit /\ pidfile = NoPid /\ stage = [p \in Pids |-> "free"]

(* Two processes that open the database, and a plug-in with tables of its own. *)
SomeContributions == {<<>>, <<"own", "own">>, <<"own", "control", "fails">>, <<"own", "core">>}
OpenInit ==
  /\ which = "schema" /\ OpeningInit /\ v1 = Nothing
OpenNext ==
  /\ which = "schema" /\ OpeningNext
  /\ UNCHANGED <<which, v1, lifecycleVars, pollingVars, schedulerVars, scoringVars, scanningVars>>
(* What its variables are in a behaviour of another component. *)
OpenResting == OpeningInit /\ schema = [t \in AllTables |-> Missing]

(* A polled root above a watched one, and two plug-ins; one artifact of each. *)
PollUnder == [p \in {"wheel", "egg"} |-> {"sdists", "uv"}]
PollMatchedBy == [p \in {"wheel", "egg"} |-> IF p = "wheel" THEN {"A"} ELSE {"B"}]
PollWatchedBy == [l \in {"A", "B"} |-> IF l = "A" THEN {"uv"} ELSE {}]
PollPolledBy == [l \in {"A", "B"} |-> {"sdists"}]
PollInside == [r \in {"sdists", "uv"} |-> IF r = "sdists" THEN {"sdists", "uv"} ELSE {"uv"}]
PollInit ==
  /\ which = "polling" /\ PollingInit /\ v1 = Nothing
PollNext ==
  /\ which = "polling" /\ PollingNext
  /\ UNCHANGED <<which, v1, lifecycleVars, openingVars, schedulerVars, scoringVars, scanningVars>>
(* What its variables are in a behaviour of another component. *)
PollResting == PollingInit /\ artifactsMade = 0 /\ exists = Roots

(* Days of three hours, of two ticks each, with one crash, one failed scan or one abandoned
   pass; or two projects, both daily from the start, with an error. *)
SchedInit ==
  /\ which = "scheduler" /\ SchedulerInit /\ v1 = Nothing
SchedNext ==
  /\ which = "scheduler" /\ SchedulerNext
  /\ used'["cuts"] + used'["fails"] <= 1
  /\ projects'["beside"].schedule # "none" =>
       /\ used'["cuts"] = 0 /\ \A p \in Projects : projects'[p].schedule = "daily"
       /\ now = 0 \/ projects["beside"].schedule # "none"
  /\ UNCHANGED <<which, v1, lifecycleVars, openingVars, pollingVars, scoringVars, scanningVars>>
(* What its variables are in a behaviour of another component. *)
SchedResting == SchedulerInit

(* Two packages scored at once, one of them in two copies; the corpus changes. *)
ScoredGroups == [t \in {"t", "u"} |-> IF t = "t" THEN <<2, 6>> ELSE <<4>>]
NearLater(t, c) == c = "B"
ScoreInit ==
  /\ which = "scoring" /\ ScoringInit /\ v1 = Nothing
ScoreNext ==
  /\ which = "scoring" /\ ScoringNext
  /\ UNCHANGED <<which, v1, lifecycleVars, openingVars, pollingVars, schedulerVars, scanningVars>>
(* What its variables are in a behaviour of another component. *)
ScoreResting == ScoringInit /\ top.corpus = NoCorpus /\ top.current

(* Two commands, over two packages of one place or one of each of two tools, with lookups in
   batches of one, and folders of one entry or none. *)
SmallFolders == {{}} \cup {{e} : e \in Entry}
ScanInit ==
  /\ which = "scan" /\ ScanningInit /\ v1 = Nothing
ScanNext ==
  /\ which = "scan" /\ ScanningNext
  /\ Len(job'.environments) = 2 => \A k \in 1 .. 2 : Len(job'.environments[k]) <= 1
  /\ UNCHANGED <<which, v1, lifecycleVars, openingVars, pollingVars, schedulerVars, scoringVars>>
(* What its variables are in a behaviour of another component. *)
ScanResting == ScanningInit

(* The rules of risk, as functions of their inputs. *)
RuleCfg == [highDependents |-> 10, highVersions |-> 10, popularityFloor |-> 25, maxAge |-> 9, period |-> 7, ageFloor |-> 25,
            combinedFloor |-> 10, enabled |-> TRUE, riskThreshold |-> 25, onTyposquat |-> "prompt", onHighRisk |-> "warn",
            minScore |-> 15, maxDistance |-> 2, fallback |-> "block", onNewMedium |-> "prompt", onNewLow |-> "warn"]
RulePops == {[known |-> "yes", versions |-> v, dependents |-> d] : v \in {0, 4, 40}, d \in {0, 9, 24, 25, 300, 1000}}
            \cup {[known |-> k, versions |-> 0, dependents |-> 0] : k \in {"absent", "failed"}}
RuleNames == {[distance |-> d, affix |-> a, short |-> s] : d \in 0 .. 3, a, s \in BOOLEAN}
RuleFound == {<<>>, <<[name |-> "eval", score |-> 15]>>,
              <<[name |-> "eval", score |-> 40], [name |-> "binary", score |-> 40], [name |-> "script", score |-> 33]>>}
             \cup {<<[name |-> "eval", score |-> s], [name |-> "binary", score |-> t]>> : s \in {7, 35}, t \in {20, 33}}
RuleTypos == {[is |-> FALSE, distance |-> 0, score |-> 0, affix |-> FALSE], [is |-> TRUE, distance |-> 1, score |-> 20, affix |-> TRUE],
              [is |-> TRUE, distance |-> 2, score |-> 15, affix |-> FALSE]}
RuleActions == {"allow", "warn", "prompt", "block"}
RuleCfgs == {[RuleCfg EXCEPT !.onTyposquat = a, !.onHighRisk = b, !.fallback = f, !.enabled = e, !.onNewLow = a, !.onNewMedium = b] :
               a, b \in RuleActions, f \in {"allow", "block"}, e \in BOOLEAN}
RuleInputs ==
  [kind : {"score"}, found : RuleFound, manifest : {<<>>, <<[name |-> "unverifiable_manifest", score |-> 20]>>},
   typo : RuleTypos, pop : RulePops, age : {-1, 0, 8, 40}]
  \cup [kind : {"name"}, corpus : {<<>>} \cup {<<c>> : c \in RuleNames} \cup {<<c, d>> : c, d \in RuleNames},
        pop : RulePops, cfg : {RuleCfg}, tty : BOOLEAN]
  \cup [kind : {"gate"}, typo : RuleTypos, score : {0, 24, 25}, cfg : RuleCfgs, tty : BOOLEAN]
  \cup [kind : {"age"}, age : {-1, 0, 6, 7}, risk : {0, 5}, cfg : RuleCfgs, tty : BOOLEAN, cleared : {-1, 0, 6, 7}]
  \cup [kind : {"ask"}, actions : [1 .. 3 -> RuleActions], answers : [1 .. 3 -> BOOLEAN]]
  \cup [kind : {"yanks"}, specs : [1 .. 3 -> [key : {"x", "y"}, public : BOOLEAN]],
        row : [{"x", "y"} -> {"none", "yanked", "kept"}], answer : [{"x", "y"} -> {"failed", "yanked", "kept"}]]
Rules == INSTANCE RiskRules
RulesInit == which = "rules" /\ v1 \in RuleInputs

ASSUME InstanceAssumption ==
  /\ PidsAssumption
  /\ SchedulerAssumption
  /\ PassesFit
  /\ RiskScoringAssumption
  /\ SchemaAssumption
  /\ PollingAssumption
  /\ ScanAssumption

-----------------------------------------------------------------------------
MCInit ==
  \/ LifeInit /\ OpenResting /\ PollResting /\ SchedResting /\ ScoreResting /\ ScanResting
  \/ OpenInit /\ LifeResting /\ PollResting /\ SchedResting /\ ScoreResting /\ ScanResting
  \/ PollInit /\ LifeResting /\ OpenResting /\ SchedResting /\ ScoreResting /\ ScanResting
  \/ SchedInit /\ LifeResting /\ OpenResting /\ PollResting /\ ScoreResting /\ ScanResting
  \/ ScoreInit /\ LifeResting /\ OpenResting /\ PollResting /\ SchedResting /\ ScanResting
  \/ ScanInit /\ LifeResting /\ OpenResting /\ PollResting /\ SchedResting /\ ScoreResting
  \/ LifeResting /\ OpenResting /\ PollResting /\ SchedResting /\ ScoreResting /\ ScanResting /\ (RulesInit)
MCNext == LifeNext \/ OpenNext \/ PollNext \/ SchedNext \/ ScoreNext \/ ScanNext
MCSpec == MCInit /\ [][MCNext]_unionVars
-----------------------------------------------------------------------------
(* RiskRules: the shown signals add up to the score, a name that resembles a popular one is    *)
(* gated, every trigger counts, clearances expire, one question is asked, and yanks answered.  *)
RulesHold ==
  which = "rules" =>
    /\ v1.kind = "score" => Rules!ShownScoresAddUp(v1.found, v1.manifest, v1.typo, v1.pop, v1.age, RuleCfg)
    /\ v1.kind = "name" => Rules!ResemblanceIsGated(v1.corpus, v1.pop, v1.cfg, v1.tty)
    /\ v1.kind = "gate" => Rules!EveryTriggerCounts(v1.typo, [score |-> v1.score, signals |-> <<>>], v1.cfg, v1.tty)
    /\ v1.kind = "age" => Rules!ClearancesExpire(v1.age, v1.risk, v1.cfg, v1.tty, v1.cleared)
    /\ v1.kind = "ask" => Rules!GatesAskOnce(v1.actions, v1.answers)
    /\ v1.kind = "yanks" => Rules!YanksAreAnswered(v1.specs, v1.row, v1.answer)
=============================================================================
