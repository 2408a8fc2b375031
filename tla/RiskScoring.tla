---------------------------- MODULE RiskScoring ----------------------------
(***************************************************************************)
(* The concurrent scoring of packages (scoring.py), each through           *)
(* RiskEngine.analyze (analyzers/risk.py), and the caches it reads: the    *)
(* corpus of popular names with its one fetch at a time                    *)
(* (heuristics/top_packages.py), the detector's memo                       *)
(* (heuristics/typosquat.py), and the rows with failures that              *)
(* expire early (osv/popularity.py, the publication dates of               *)
(* storage/db.py).                                                         *)
(*                                                                         *)
(* A corpus is a set of popular names.  A package is scored from its       *)
(* groups of directories in turn; what is kept of a group's report is its  *)
(* score, the verdict on the name and what the caches answered.            *)
(***************************************************************************)
EXTENDS Integers, Sequences, FiniteSets, FiniteSetsExt, Functions

CONSTANTS
  Tasks,        \* the packages of one score_packages call, scored at once
  Concurrency,  \* the semaphore's slots
  Groups,       \* package -> the scores of its groups' heuristics, in order
  Corpora,      \* the corpora a registry may return, Fallback among them
  Fallback,     \* the corpus a language ships
  Near(_, _),   \* whether a package's name is near a name of a corpus
  CorpusTTL, RowTTL, FailureTTL,
  MaxTime       \* bounds the clock

NoCorpus == "no corpus"

(* A package has a group at least, an empty one if need be.                *)
RiskScoringAssumption ==
  /\ Concurrency \in Nat \ {0} /\ MaxTime \in Nat
  /\ CorpusTTL \in Nat /\ RowTTL \in Nat \ {0} /\ FailureTTL \in Nat \ {0}
  /\ IsFiniteSet(Tasks) /\ Fallback \in Corpora /\ NoCorpus \notin Corpora
  /\ \A t \in Tasks : Groups[t] \in Seq(Nat) \ {<<>>} /\ \A c \in Corpora : Near(t, c) \in BOOLEAN

VARIABLES
  scoringNow,
  top,            \* top_packages_cache: [at, corpus, current], current for a row of this schema
  corpusTask,     \* the task that resolves the corpus: "none", "started" or "fetching"
  memo,           \* verdicts: <<package, corpus>> -> BOOLEAN
  memoFor,        \* the corpus the memo is for
  rows,           \* of each package, the popularity row: [at, value]
  task,           \* package -> [pc, group, best, corpus, verdict]
  reports,        \* package -> the report that is kept, or NoReport
  failures,
  corpusFetches,  \* how many fetches of the corpus are in the air (a ghost)
  groupScores,    \* package -> the scores of its groups that were analysed (a ghost)
  lookupFailedAt  \* package -> when its last lookup failed (a ghost)

caches == <<top, corpusTask, memo, memoFor, rows>>
results == <<reports, failures, groupScores>>
scoringVars == <<scoringNow, caches, task, results, corpusFetches, lookupFailedAt>>

NoReport == -1

Unscored ==
  [pc |-> "queued", group |-> 1, best |-> NoReport, corpus |-> NoCorpus, verdict |-> FALSE]
InSlot == {t \in Tasks : task[t].pc \notin {"queued", "done"}}

To(t, r) == task' = [task EXCEPT ![t] = r]

-----------------------------------------------------------------------------
(* The corpus.                                                             *)

Cached == top.current /\ top.corpus # NoCorpus
Fresh == Cached /\ scoringNow - top.at <= CorpusTTL

\* get and get_or_stale: a row of another schema is evicted as it is read, a stale one kept.
Evicted == IF top.corpus # NoCorpus /\ ~top.current THEN [top EXCEPT !.corpus = NoCorpus] ELSE top

\* score_packages: a slot of the semaphore.
Acquire(t) ==
  /\ task[t].pc = "queued" /\ Cardinality(InSlot) < Concurrency
  /\ To(t, [task[t] EXCEPT !.pc = "heuristics"])
  /\ UNCHANGED <<scoringNow, caches, results, corpusFetches, lookupFailedAt>>

LastGroup(t) == task[t].group = Len(Groups[t])

\* Ends the group at hand: the higher score of the package's groups is its report.
Scored(t, r) ==
  IF ~LastGroup(t)
  THEN To(t, [r EXCEPT !.pc = "heuristics", !.group = @ + 1]) /\ UNCHANGED <<reports, failures>>
  ELSE /\ To(t, [r EXCEPT !.pc = "done"])
       /\ IF r.best = NoReport THEN failures' = failures + 1 /\ UNCHANGED reports
          ELSE reports' = [reports EXCEPT ![t] = Max({@, r.best})] /\ UNCHANGED failures

\* analyze raises: the other groups are still tried.
Raise(t) ==
  /\ task[t].pc \in {"heuristics", "missed", "judge", "popularity", "lookup", "raised"}
  /\ Scored(t, task[t])
  /\ UNCHANGED <<scoringNow, caches, groupScores, corpusFetches, lookupFailedAt>>

\* TopPackagesCache.resolve: a fresh row, or the answer of the one task that resolves it.
Heuristics(t) ==
  /\ task[t].pc = "heuristics"
  /\ top' = Evicted
  /\ To(t, IF Fresh THEN [task[t] EXCEPT !.pc = "judge", !.corpus = top.corpus]
           ELSE [task[t] EXCEPT !.pc = "missed"])
  /\ UNCHANGED <<scoringNow, corpusTask, memo, memoFor, rows, results, corpusFetches, lookupFailedAt>>

Join(t) ==
  /\ task[t].pc = "missed"
  /\ To(t, [task[t] EXCEPT !.pc = "waiting"])
  /\ corpusTask' = IF corpusTask = "none" THEN "started" ELSE corpusTask
  /\ UNCHANGED <<scoringNow, top, memo, memoFor, rows, results, corpusFetches, lookupFailedAt>>

Waiting == {t \in Tasks : task[t].pc = "waiting"}

\* The task has an answer: every waiter takes it, and the next miss starts another.
Land(corpus) ==
  /\ corpusTask' = "none"
  /\ task' = [t \in Tasks |-> IF t \in Waiting
                               THEN [task[t] EXCEPT !.pc = "judge", !.corpus = corpus] ELSE task[t]]

\* The task, and every waiter with it, raises.
Down ==
  /\ corpusTask' = "none"
  /\ task' = [t \in Tasks |-> IF t \in Waiting THEN [task[t] EXCEPT !.pc = "raised"] ELSE task[t]]

\* Mutant: the task is forgotten as soon as it starts to fetch.
FlyUnshared == corpusTask' = "none"
Fly == corpusTask' = "fetching"

\* _resolve_uncached reads the row again, then fetches.
Start ==
  /\ corpusTask = "started" /\ top' = Evicted
  /\ IF Fresh THEN Land(top.corpus) /\ UNCHANGED corpusFetches
     ELSE Fly /\ corpusFetches' = corpusFetches + 1 /\ UNCHANGED task
  /\ UNCHANGED <<scoringNow, memo, memoFor, rows, results, lookupFailedAt>>

StartFails ==
  /\ corpusTask = "started" /\ Down
  /\ UNCHANGED <<scoringNow, top, memo, memoFor, rows, results, corpusFetches, lookupFailedAt>>

\* TopPackagesCache.set
Stored(corpus) == [at |-> scoringNow, corpus |-> corpus, current |-> TRUE]

\* The registry answers, or does not: then a stale row will do, or the shipped names.
Fetched ==
  /\ corpusFetches > 0 /\ corpusFetches' = corpusFetches - 1
  /\ \/ \E c \in Corpora : top' = Stored(c) /\ Land(c)
     \/ top' = Evicted /\ Land(IF Cached THEN top.corpus ELSE Fallback)
     \/ Down /\ UNCHANGED top
  /\ UNCHANGED <<scoringNow, memo, memoFor, rows, results, lookupFailedAt>>

-----------------------------------------------------------------------------
(* The verdict and the caches' rows.                                       *)

\* TyposquatDetector.analyze: the memo of another corpus is dropped.
Generation(t) ==
  [memo |-> IF memoFor \in {NoCorpus, task[t].corpus} THEN memo ELSE [k \in {} |-> FALSE],
   key |-> <<t, task[t].corpus>>]

JudgeName(t) ==
  /\ task[t].pc = "judge"
  /\ LET g == Generation(t)
         verdict == IF g.key \in DOMAIN g.memo THEN g.memo[g.key] ELSE Near(t, task[t].corpus)
     IN  /\ memo' = [k \in DOMAIN g.memo \cup {g.key} |-> IF k = g.key THEN verdict ELSE g.memo[k]]
         /\ memoFor' = task[t].corpus
         /\ To(t, [task[t] EXCEPT !.pc = "popularity", !.verdict = verdict])
  /\ UNCHANGED <<scoringNow, top, corpusTask, rows, results, corpusFetches, lookupFailedAt>>

\* PopularityCache.get
Served(t) ==
  IF rows[t].value = "none" \/ scoringNow - rows[t].at > RowTTL THEN "miss" ELSE rows[t].value

\* A name near a popular one counts twice as much in a package that is absent, and an
\* established one has what its heuristics found damped; a failure is no evidence.
ScoreOf(t, value) ==
  LET own == Groups[t][task[t].group]
      near == IF task[t].verdict THEN 2 ELSE 0
  IN  IF value = "popular" THEN own \div 2 ELSE own + (IF value = "absent" THEN 2 * near ELSE near)

Analysed(t, value) ==
  /\ Scored(t, [task[t] EXCEPT !.best = Max({@, ScoreOf(t, value)})])
  /\ groupScores' = [groupScores EXCEPT ![t] = @ \cup {ScoreOf(t, value)}]

Popularity(t) ==
  /\ task[t].pc = "popularity"
  /\ IF Served(t) = "miss" THEN To(t, [task[t] EXCEPT !.pc = "lookup"]) /\ UNCHANGED results
     ELSE Analysed(t, Served(t))
  /\ UNCHANGED <<scoringNow, caches, corpusFetches, lookupFailedAt>>

\* store_failure_sentinel: a row that looks old enough to expire FailureTTL from now.
Sentinel == [at |-> scoringNow - (RowTTL - Min({FailureTTL, RowTTL})), value |-> "failed"]

\* PopularityCache.set
KeptRow(value) == IF value = "failed" THEN Sentinel ELSE [at |-> scoringNow, value |-> value]

\* PopularityClient.fetch; a package the registry does not have gets no row.
Lookup(t) ==
  /\ task[t].pc = "lookup"
  /\ \E value \in {"popular", "unused", "absent", "failed"} :
       /\ rows' = IF value = "absent" THEN rows ELSE [rows EXCEPT ![t] = KeptRow(value)]
       /\ lookupFailedAt' = IF value = "failed" THEN [lookupFailedAt EXCEPT ![t] = scoringNow]
                            ELSE lookupFailedAt
       /\ Analysed(t, value)
  /\ UNCHANGED <<scoringNow, top, corpusTask, memo, memoFor, corpusFetches>>

-----------------------------------------------------------------------------
(* Around it.                                                              *)

ScoringTick ==
  /\ scoringNow < MaxTime /\ scoringNow' = scoringNow + 1
  /\ UNCHANGED <<caches, task, results, corpusFetches, lookupFailedAt>>

\* The daemon scores the same packages again.
Again ==
  /\ \A t \in Tasks : task[t].pc = "done"
  /\ scoringNow < MaxTime
  /\ task' = [t \in Tasks |-> Unscored] /\ reports' = [t \in Tasks |-> NoReport] /\ failures' = 0
  /\ groupScores' = [t \in Tasks |-> {}]
  /\ UNCHANGED <<scoringNow, caches, corpusFetches, lookupFailedAt>>

ScoringInit ==
  /\ scoringNow = 0 /\ corpusTask = "none" /\ corpusFetches = 0
  /\ top \in [at : {0}, corpus : Corpora \cup {NoCorpus}, current : BOOLEAN]
  /\ memo = [k \in {} |-> FALSE] /\ memoFor = NoCorpus
  /\ rows = [t \in Tasks |-> [at |-> 0, value |-> "none"]]
  /\ task = [t \in Tasks |-> Unscored] /\ reports = [t \in Tasks |-> NoReport] /\ failures = 0
  /\ groupScores = [t \in Tasks |-> {}] /\ lookupFailedAt = [t \in Tasks |-> 0]

ScoringNext ==
  \/ \E t \in Tasks : \/ Acquire(t) \/ Heuristics(t) \/ Join(t) \/ Raise(t) \/ JudgeName(t)
                      \/ Popularity(t) \/ Lookup(t)
  \/ Start \/ StartFails \/ Fetched \/ ScoringTick \/ Again

ScoringSpec == ScoringInit /\ [][ScoringNext]_scoringVars

-----------------------------------------------------------------------------
(* Properties.                                                             *)

\* However many packages miss the cache at once, the corpus is fetched once, and whoever
\* waits for it has a task to wait for.  (TopPackagesCache.resolve: single flight)
OneFetchForAll ==
  /\ corpusFetches <= 1
  /\ Waiting # {} => corpusTask \in {"started", "fetching"}

\* A verdict is the one of the corpus that was resolved for it, when the memo has verdicts of
\* an older corpus too.  (TyposquatDetector.analyze: "must not share a cache entry")
VerdictIsCurrent ==
  \A t \in Tasks : task[t].pc \in {"popularity", "lookup"} =>
                     task[t].verdict = Near(t, task[t].corpus)

\* A failed lookup is tried again once FailureTTL has passed, although the row it leaves has
\* the lifetime of an answer.  (store_failure_sentinel)
FailureIsBrief ==
  \A t \in Tasks : Served(t) = "failed" => scoringNow - lookupFailedAt[t] <= FailureTTL

\* Whatever order the copies of a package score in, and whichever of them cannot be scored, its
\* report is that of the worst of those that can; a package without a report is counted.
\* (score_packages: "a compromised copy elsewhere be reported clean")
NoCopyIsConcealed ==
  LET done == {t \in Tasks : task[t].pc = "done"}
  IN  /\ \A t \in done : reports[t] = Max({NoReport} \cup groupScores[t])
      /\ Cardinality({t \in done : groupScores[t] = {}}) = failures

\* A score is of the corpus, and of the answers, of its time, whatever the packages scored with
\* it do: one fetch for all, no verdict of another corpus, no failure remembered long, and no copy
\* concealed.  (score_packages, RiskEngine.analyze)
ScoresAreCurrent == OneFetchForAll /\ VerdictIsCurrent /\ FailureIsBrief /\ NoCopyIsConcealed
=============================================================================
