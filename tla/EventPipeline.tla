--------------------------- MODULE EventPipeline ---------------------------
(***************************************************************************)
(* The daemon's event pipeline: daemon.py, class Daemon.                   *)
(*                                                                         *)
(* One _consume() task per monitor takes the observations its monitor has  *)
(* queued, removes duplicates, claims their dedup keys without ever        *)
(* waiting while it holds one, warms the OSV cache with one batch query    *)
(* and evaluates each claimed observation.  The tasks run on one event     *)
(* loop and share the in-flight table, the two completion tables, the OSV  *)
(* cache and the alerts table; a step of this module is what a task does   *)
(* between two awaits.                                                     *)
(*                                                                         *)
(* An observation is named by its arrival number, so a FIFO queue is a set *)
(* of arrival numbers read in increasing order.                            *)
(***************************************************************************)
EXTENDS Integers

CONSTANTS
  Consumers,      \* the _consume() tasks
  Sources,        \* Sources[c]: the event sources the monitor of c produces
  Packages,       \* (ecosystem, name, version) triples
  Unpinned,       \* those whose version did not resolve (version is None)
  Malicious,      \* those OSV lists a malicious-package advisory for
  Dirs, NoDir,    \* project paths; NoDir is "unknown"
  Procs, NoProc,  \* process identities (pid, create time); NoProc is "unknown"
  Events,         \* the PackageEvents the monitors can produce
  NoEvent,        \* stands for an observation that has not been made yet
  ProcWindow,     \* _DEDUP_WINDOW_SECONDS
  CacheWindow,    \* _CACHE_DEDUP_WINDOW_SECONDS
  Heuristics,     \* cfg.heuristics.enabled
  MaxArrivals,    \* bound: observations made
  MaxTime         \* bound: the clock

ASSUME ConsumersAssumption ==
  Sources \in [Consumers -> SUBSET {"process", "cache"}]
ASSUME PackagesAssumption == Unpinned \subseteq Packages /\ Malicious \subseteq Packages
\* A cache observation has no project, no process and no provenance.
ASSUME EventsAssumption ==
  /\ NoDir \in Dirs /\ NoProc \in Procs /\ NoEvent \notin Events
  /\ Events \subseteq [pkg : Packages, dir : Dirs, proc : Procs,
                       src : {"process", "cache"}, public : BOOLEAN]
  /\ \A e \in Events : e.src = "cache" => e.dir = NoDir /\ e.proc = NoProc /\ e.public
ASSUME WindowsAssumption ==
  /\ ProcWindow \in Nat \ {0} /\ CacheWindow \in Nat /\ ProcWindow <= CacheWindow
ASSUME BoundsAssumption == MaxArrivals \in Nat /\ MaxTime \in Nat
ASSUME HeuristicsAssumption == Heuristics \in BOOLEAN

Ids == 1 .. MaxArrivals
Times == 0 .. MaxTime
Never == -1       \* the time of what has no entry
NoId == 0         \* names no observation

-----------------------------------------------------------------------------
(* Dedup keys. *)

\* No identity tells this event apart from another install: an unpinned cache
\* event, or a process event whose process could not be identified.
Undedupable(e) == e.proc = NoProc /\ (e.src = "process" \/ e.pkg \in Unpinned)

\* Mutant: the key does not keep private copies apart from public ones.
KeyOfAnyOrigin(e) == [pkg |-> e.pkg, dir |-> e.dir, proc |-> e.proc, public |-> TRUE]

KeyOf(e) == [pkg |-> e.pkg, dir |-> e.dir, proc |-> e.proc, public |-> e.public]
CacheKeyOf(k) == [pkg |-> k.pkg, proc |-> k.proc, public |-> k.public]

Keys == {KeyOf(e) : e \in {x \in Events : ~Undedupable(x)}}
CacheKeys == {CacheKeyOf(k) : k \in Keys}

WindowOf(src) == IF src = "cache" THEN CacheWindow ELSE ProcWindow

-----------------------------------------------------------------------------
VARIABLES
  arrived,     \* how many observations have been made
  event,       \* event[i]: the i-th observation
  queue,       \* queue[c]: what c's monitor has queued
  batch,       \* batch[c]: the batch c is claiming
  claimed,     \* claimed[c]: what c has claimed and not finished
  pc,          \* pc[c]: the await c is suspended at
  waitOn,      \* waitOn[c]: the observation whose contested key c waits for
  asked,       \* asked[c]: packages c's prefetch has asked OSV about
  degraded,    \* degraded[c]: packages c's prefetch could not look up
  verdict,     \* verdict[c]: what c knows of the observation it evaluates
  inFlight,    \* Daemon._in_flight
  processed,   \* Daemon._processed_this_session
  cacheDone,   \* Daemon._cache_only_completions
  osvCache,    \* the osv_cache table
  alerts,      \* the alerts table
  now,         \* time.monotonic()
  status,      \* history: what became of each observation
  doneAt       \* history: when its evaluation was recorded as complete

tasks == <<queue, batch, claimed, pc, waitOn, asked, degraded, verdict>>
tables == <<inFlight, processed, cacheDone, osvCache, alerts>>
history == <<status, doneAt>>
vars == <<arrived, event, tasks, tables, now, history>>

Statuses == {"none", "queued", "merged", "held", "dropped", "done", "unresolved"}
Places == {"idle", "claim", "wait", "prefetch", "prefetching", "lookup", "asking",
           "store", "score", "notify", "finish"}
Verdicts == {"none", "private", "malicious", "clean", "degraded", "partial", "error"}

\* What OSV answers for package p.
Verdict(p) == IF p \in Malicious THEN "malicious" ELSE "clean"

\* What a degraded answer may say of p: nothing, or part of it, which may name the
\* malicious advisory.
DegradedVerdicts(p) == {"degraded"} \cup IF p \in Malicious THEN {"partial"} ELSE {}

\* Mutant: the window ends one unit early.
FreshShort(at, window) == at # Never /\ now - at < window - 1

Fresh(at, window) == at # Never /\ now - at < window

\* The claimed observation c evaluates: batches are worked through in order.
IsNext(c, i) == i \in claimed[c] /\ \A j \in claimed[c] : i <= j

Init ==
  /\ arrived = 0
  /\ event = [i \in Ids |-> NoEvent]
  /\ queue = [c \in Consumers |-> {}]
  /\ batch = [c \in Consumers |-> {}]
  /\ claimed = [c \in Consumers |-> {}]
  /\ pc = [c \in Consumers |-> "idle"]
  /\ waitOn = [c \in Consumers |-> NoId]
  /\ asked = [c \in Consumers |-> {}]
  /\ degraded = [c \in Consumers |-> {}]
  /\ verdict = [c \in Consumers |-> "none"]
  /\ inFlight = {}
  /\ processed = [k \in Keys |-> Never]
  /\ cacheDone = [k \in CacheKeys |-> Never]
  /\ osvCache = [p \in Packages |-> "none"]
  /\ alerts = {}
  /\ now = 0
  /\ status = [i \in Ids |-> "none"]
  /\ doneAt = [i \in Ids |-> Never]

-----------------------------------------------------------------------------
(* The environment: monitors, the clock and the cache's expiry. *)

\* A monitor queues an observation.
Arrive(c, e) ==
  /\ arrived < MaxArrivals
  /\ e.src \in Sources[c]
  /\ arrived' = arrived + 1
  /\ event' = [event EXCEPT ![arrived + 1] = e]
  /\ queue' = [queue EXCEPT ![c] = @ \cup {arrived + 1}]
  /\ status' = [status EXCEPT ![arrived + 1] = "queued"]
  /\ UNCHANGED <<batch, claimed, pc, waitOn, asked, degraded, verdict, tables, now, doneAt>>

Tick ==
  /\ now < MaxTime
  /\ now' = now + 1
  /\ UNCHANGED <<arrived, event, tasks, tables, history>>

\* A row of osv_cache outlives its TTL and stops being returned.
ExpireRow(p) ==
  /\ osvCache[p] # "none"
  /\ osvCache' = [osvCache EXCEPT ![p] = "none"]
  /\ UNCHANGED <<arrived, event, tasks, inFlight, processed, cacheDone, alerts, now, history>>

-----------------------------------------------------------------------------
(* Taking a batch and claiming it. *)

SameKey(i, j) == KeyOf(event[i]) = KeyOf(event[j])

\* i repeats the key of an earlier observation of the same drain.
Repeated(S, i) ==
  /\ ~Undedupable(event[i])
  /\ \E j \in S : j < i /\ ~Undedupable(event[j]) /\ SameKey(i, j)

TakeBatch(c) ==
  /\ pc[c] = "idle"
  /\ queue[c] # {}
  /\ LET merged == {i \in queue[c] : Repeated(queue[c], i)}
     IN /\ batch' = [batch EXCEPT ![c] = queue[c] \ merged]
        /\ status' = [i \in Ids |-> IF i \in merged THEN "merged"
                                    ELSE IF i \in queue[c] THEN "held" ELSE status[i]]
  /\ queue' = [queue EXCEPT ![c] = {}]
  /\ pc' = [pc EXCEPT ![c] = "claim"]
  /\ UNCHANGED <<arrived, event, claimed, waitOn, asked, degraded, verdict, tables, now, doneAt>>

\* Mutant: an observation whose install is in flight is skipped.
DuplicateOrBusy(e) ==
  ~Undedupable(e) /\ (KeyOf(e) \in inFlight \/ Fresh(processed[KeyOf(e)], WindowOf(e.src)))

\* A completed evaluation within the window already covers e.
Duplicate(e) ==
  /\ ~Undedupable(e)
  /\ \/ Fresh(processed[KeyOf(e)], WindowOf(e.src))
     \/ e.src = "cache" /\ Fresh(cacheDone[CacheKeyOf(KeyOf(e))], WindowOf(e.src))

\* Mutant: claims of other tasks are not looked at.
ContestedInBatch(c, i) ==
  /\ ~Undedupable(event[i]) /\ ~Duplicate(event[i])
  /\ \E j \in batch[c] : j < i /\ ~Undedupable(event[j]) /\ SameKey(i, j)

\* The key of i is in flight: in another task, or claimed earlier in this pass.
Contested(c, i) ==
  /\ ~Undedupable(event[i])
  /\ ~Duplicate(event[i])
  /\ \/ KeyOf(event[i]) \in inFlight
     \/ \E j \in batch[c] : j < i /\ ~Undedupable(event[j]) /\ SameKey(i, j)

FirstContested(c, i) ==
  /\ i \in batch[c] /\ Contested(c, i)
  /\ \A j \in batch[c] : Contested(c, j) => i <= j

\* Looking at the observations S pops the entries found to be stale.
PopStale(S) ==
  /\ processed' = [k \in Keys |->
       IF \E i \in S : /\ ~Undedupable(event[i]) /\ KeyOf(event[i]) = k
                       /\ ~Fresh(processed[k], WindowOf(event[i].src))
       THEN Never ELSE processed[k]]
  /\ cacheDone' = [k \in CacheKeys |->
       IF \E i \in S : /\ ~Undedupable(event[i]) /\ event[i].src = "cache"
                       /\ CacheKeyOf(KeyOf(event[i])) = k
                       /\ ~Fresh(processed[KeyOf(event[i])], CacheWindow)
                       /\ ~Fresh(cacheDone[k], CacheWindow)
       THEN Never ELSE cacheDone[k]]

Claimable(c) == {i \in batch[c] : ~Duplicate(event[i])}
KeysAt(S) == {KeyOf(event[i]) : i \in {j \in S : ~Undedupable(event[j])}}

\* A pass over the batch meets no contested key: every observation that is not
\* a duplicate is claimed, the others are dropped.
ClaimBatch(c) ==
  /\ pc[c] = "claim"
  /\ \A i \in batch[c] : ~Contested(c, i)
  /\ PopStale(batch[c])
  /\ claimed' = [claimed EXCEPT ![c] = Claimable(c)]
  /\ inFlight' = inFlight \cup KeysAt(Claimable(c))
  /\ status' = [i \in Ids |-> IF i \in batch[c] \ Claimable(c) THEN "dropped" ELSE status[i]]
  /\ batch' = [batch EXCEPT ![c] = {}]
  /\ pc' = [pc EXCEPT ![c] = "prefetch"]
  /\ UNCHANGED <<arrived, event, queue, waitOn, asked, degraded, verdict, osvCache,
                 alerts, now, doneAt>>

\* A pass meets a contested key: the claims it made are released again and the
\* task waits on the first such key (at once over when the key is its own).
BackOff(c) ==
  /\ pc[c] = "claim"
  /\ \E i \in batch[c] :
       /\ FirstContested(c, i)
       /\ PopStale({j \in batch[c] : j <= i})
       /\ LET waits == KeyOf(event[i]) \in inFlight
          IN /\ pc' = [pc EXCEPT ![c] = IF waits THEN "wait" ELSE "claim"]
             /\ waitOn' = [waitOn EXCEPT ![c] = IF waits THEN i ELSE NoId]
  /\ UNCHANGED <<arrived, event, queue, batch, claimed, asked, degraded, verdict,
                 inFlight, osvCache, alerts, now, history>>

-----------------------------------------------------------------------------
(* Warming the OSV cache. *)

\* Where a task goes with the observations S still to evaluate.
PlaceWith(S) == IF S = {} THEN "idle" ELSE "lookup"

\* The packages of c's claimed observations that are looked up and not cached.
Uncached(c) == {p \in Packages :
  osvCache[p] = "none" /\ \E i \in claimed[c] : event[i].public /\ event[i].pkg = p}

Cached(T) == [p \in Packages |-> IF p \in T THEN Verdict(p) ELSE osvCache[p]]

PrefetchQuery(c) ==
  /\ pc[c] = "prefetch"
  /\ asked' = [asked EXCEPT ![c] = Uncached(c)]
  /\ pc' = [pc EXCEPT ![c] = IF Uncached(c) = {} THEN PlaceWith(claimed[c]) ELSE "prefetching"]
  /\ UNCHANGED <<arrived, event, queue, batch, claimed, waitOn, degraded, verdict, tables,
                 now, history>>

\* Mutant: degraded answers, which list no advisory, are cached too.
PrefetchAnswerAll(c) ==
  /\ pc[c] = "prefetching"
  /\ \E D \in SUBSET asked[c] :
       osvCache' = [p \in Packages |-> IF p \in D THEN "clean" ELSE Cached(asked[c])[p]]
  /\ asked' = [asked EXCEPT ![c] = {}]
  /\ pc' = [pc EXCEPT ![c] = "lookup"]
  /\ UNCHANGED <<arrived, event, queue, batch, claimed, waitOn, degraded, verdict, inFlight,
                 processed, cacheDone, alerts, now, history>>

\* The answers: the packages D came back degraded, the others are cached.
PrefetchAnswer(c) ==
  /\ pc[c] = "prefetching"
  /\ \E D \in SUBSET asked[c] :
       /\ osvCache' = Cached(asked[c] \ D)
       /\ degraded' = [degraded EXCEPT ![c] = D]
  /\ asked' = [asked EXCEPT ![c] = {}]
  /\ pc' = [pc EXCEPT ![c] = "lookup"]
  /\ UNCHANGED <<arrived, event, queue, batch, claimed, waitOn, verdict, inFlight, processed,
                 cacheDone, alerts, now, history>>

\* The prefetch raises, with the answers T already cached: the batch goes on.
PrefetchFail(c) ==
  /\ pc[c] = "prefetching"
  /\ \E T \in SUBSET asked[c] : osvCache' = Cached(T)
  /\ asked' = [asked EXCEPT ![c] = {}]
  /\ pc' = [pc EXCEPT ![c] = "lookup"]
  /\ UNCHANGED <<arrived, event, queue, batch, claimed, waitOn, degraded, verdict, inFlight,
                 processed, cacheDone, alerts, now, history>>

-----------------------------------------------------------------------------
(* Evaluating one claimed observation. *)

\* Where an evaluation goes once its verdict is v.
PlaceOf(v) ==
  IF v \in {"malicious", "partial"} THEN "store" ELSE IF Heuristics THEN "score" ELSE "finish"

Judge(c, v) ==
  /\ verdict' = [verdict EXCEPT ![c] = v]
  /\ pc' = [pc EXCEPT ![c] = PlaceOf(v)]

\* The verdicts e may have without a query of its own; none when one is needed.
KnownVerdicts(c, e) ==
  CASE ~e.public -> {"private"}
    [] e.public /\ osvCache[e.pkg] # "none" -> {osvCache[e.pkg]}
    [] e.public /\ osvCache[e.pkg] = "none" /\ e.pkg \in degraded[c] -> DegradedVerdicts(e.pkg)
    [] OTHER -> {}

Lookup(c) ==
  /\ pc[c] = "lookup"
  /\ \E i \in claimed[c] :
       /\ IsNext(c, i)
       /\ \/ \E v \in KnownVerdicts(c, event[i]) : Judge(c, v)
          \/ /\ KnownVerdicts(c, event[i]) = {}
             /\ pc' = [pc EXCEPT ![c] = "asking"] /\ UNCHANGED verdict
  /\ UNCHANGED <<arrived, event, queue, batch, claimed, waitOn, asked, degraded, tables,
                 now, history>>

\* The task's own query is answered, or comes back degraded.
Answer(c) ==
  /\ pc[c] = "asking"
  /\ \E i \in claimed[c] :
       /\ IsNext(c, i)
       /\ \/ Judge(c, Verdict(event[i].pkg)) /\ osvCache' = Cached({event[i].pkg})
          \/ (\E v \in DegradedVerdicts(event[i].pkg) : Judge(c, v)) /\ UNCHANGED osvCache
  /\ UNCHANGED <<arrived, event, queue, batch, claimed, waitOn, asked, degraded, inFlight,
                 processed, cacheDone, alerts, now, history>>

Row(i, kind) == [id |-> i, kind |-> kind]

StoreAlert(c) ==
  /\ pc[c] = "store"
  /\ \E i \in claimed[c] : IsNext(c, i) /\ alerts' = alerts \cup {Row(i, "advisory")}
  /\ pc' = [pc EXCEPT ![c] = "notify"]
  /\ UNCHANGED <<arrived, event, queue, batch, claimed, waitOn, asked, degraded, verdict,
                 inFlight, processed, cacheDone, osvCache, now, history>>

\* The score stays below the warning threshold, or an alert is recorded.
ScoreRisk(c) ==
  /\ pc[c] = "score"
  /\ \E i \in claimed[c] :
       /\ IsNext(c, i)
       /\ \/ pc' = [pc EXCEPT ![c] = "finish"] /\ UNCHANGED alerts
          \/ pc' = [pc EXCEPT ![c] = "notify"] /\ alerts' = alerts \cup {Row(i, "risk")}
  /\ UNCHANGED <<arrived, event, queue, batch, claimed, waitOn, asked, degraded, verdict,
                 inFlight, processed, cacheDone, osvCache, now, history>>

Notify(c) ==
  /\ pc[c] = "notify"
  /\ pc' = [pc EXCEPT ![c] = "finish"]
  /\ UNCHANGED <<arrived, event, queue, batch, claimed, waitOn, asked, degraded, verdict,
                 tables, now, history>>

\* Any await of the evaluation raises.
Fail(c) ==
  /\ pc[c] \in {"lookup", "asking", "store", "score", "notify"}
  /\ pc' = [pc EXCEPT ![c] = "finish"]
  /\ verdict' = [verdict EXCEPT ![c] = "error"]
  /\ UNCHANGED <<arrived, event, queue, batch, claimed, waitOn, asked, degraded, tables,
                 now, history>>

Authoritative(v) == v \in {"private", "malicious", "clean"}

\* Mutant: the time the entry expires is recorded for the time it was made.
RecordExpiry(i) ==
  /\ processed' = [k \in Keys |->
       IF ~Undedupable(event[i]) /\ k = KeyOf(event[i])
       THEN now + WindowOf(event[i].src) ELSE processed[k]]
  /\ UNCHANGED cacheDone

\* An authoritative evaluation of i is recorded with the time it ended.
Record(i) ==
  /\ processed' = [k \in Keys |->
       IF ~Undedupable(event[i]) /\ k = KeyOf(event[i]) THEN now ELSE processed[k]]
  /\ cacheDone' = [k \in CacheKeys |->
       IF /\ ~Undedupable(event[i]) /\ event[i].src = "cache"
          /\ k = CacheKeyOf(KeyOf(event[i]))
       THEN now ELSE cacheDone[k]]

\* Mutant: only a successful evaluation releases its claim.
ReleasedOnSuccess(c, i) == IF Authoritative(verdict[c]) THEN KeysAt({i}) ELSE {}

\* The claim the evaluation of i releases, whatever its outcome.
Released(c, i) == KeysAt({i})

\* Mutant: the release does not set the key's Event.
WaitersNone(i) == {}

\* The tasks that wait for the key of i.
Waiters(i) == {d \in Consumers :
  pc[d] = "wait" /\ ~Undedupable(event[i]) /\ SameKey(waitOn[d], i)}

\* The evaluation ends: the claim is released and its waiters retry.
Finish(c) ==
  /\ pc[c] = "finish"
  /\ \E i \in claimed[c] :
       /\ IsNext(c, i)
       /\ IF Authoritative(verdict[c])
          THEN /\ Record(i)
               /\ status' = [status EXCEPT ![i] = "done"]
               /\ doneAt' = [doneAt EXCEPT ![i] = now]
          ELSE /\ status' = [status EXCEPT ![i] = "unresolved"]
               /\ UNCHANGED <<processed, cacheDone, doneAt>>
       /\ inFlight' = inFlight \ Released(c, i)
       /\ claimed' = [claimed EXCEPT ![c] = @ \ {i}]
       /\ degraded' = [degraded EXCEPT ![c] = IF claimed[c] = {i} THEN {} ELSE @]
       /\ pc' = [d \in Consumers |-> IF d = c THEN PlaceWith(claimed[c] \ {i})
                                     ELSE IF d \in Waiters(i) THEN "claim" ELSE pc[d]]
       /\ waitOn' = [d \in Consumers |-> IF d \in Waiters(i) THEN NoId ELSE waitOn[d]]
  /\ verdict' = [verdict EXCEPT ![c] = "none"]
  /\ UNCHANGED <<arrived, event, queue, batch, asked, osvCache, alerts, now>>

-----------------------------------------------------------------------------
(* The pruning task. *)

PruneWindow(k) == IF cacheDone[CacheKeyOf(k)] # Never THEN CacheWindow ELSE ProcWindow

Prune ==
  /\ processed' = [k \in Keys |->
       IF Fresh(processed[k], PruneWindow(k)) THEN processed[k] ELSE Never]
  /\ cacheDone' = [k \in CacheKeys |->
       IF Fresh(cacheDone[k], CacheWindow) THEN cacheDone[k] ELSE Never]
  /\ <<processed', cacheDone'>> # <<processed, cacheDone>>
  /\ UNCHANGED <<arrived, event, tasks, inFlight, osvCache, alerts, now, history>>

-----------------------------------------------------------------------------
Step(c) ==
  \/ TakeBatch(c) \/ ClaimBatch(c) \/ BackOff(c)
  \/ PrefetchQuery(c) \/ PrefetchAnswer(c)
  \/ Lookup(c) \/ Answer(c) \/ StoreAlert(c) \/ ScoreRisk(c) \/ Notify(c) \/ Finish(c)

Next ==
  \/ \E c \in Consumers : \E e \in Events : Arrive(c, e)
  \/ \E c \in Consumers : Step(c) \/ PrefetchFail(c) \/ Fail(c)
  \/ \E p \in Packages : ExpireRow(p)
  \/ Tick \/ Prune

\* The event loop resumes every task whose await is over; queries are answered
\* or time out.  Monitors, faults and the clock promise nothing.
Fairness == \A c \in Consumers : WF_vars(Step(c))

Spec == Init /\ [][Next]_vars
FairSpec == Spec /\ Fairness

-----------------------------------------------------------------------------
(* Properties. *)

\* Every variable stays in its domain.
TypeOK ==
  /\ arrived \in 0 .. MaxArrivals
  /\ event \in [Ids -> Events \cup {NoEvent}]
  /\ queue \in [Consumers -> SUBSET Ids]
  /\ batch \in [Consumers -> SUBSET Ids]
  /\ claimed \in [Consumers -> SUBSET Ids]
  /\ pc \in [Consumers -> Places]
  /\ waitOn \in [Consumers -> Ids \cup {NoId}]
  /\ asked \in [Consumers -> SUBSET Packages]
  /\ degraded \in [Consumers -> SUBSET Packages]
  /\ verdict \in [Consumers -> Verdicts]
  /\ inFlight \subseteq Keys
  /\ processed \in [Keys -> Times \cup {Never}]
  /\ cacheDone \in [CacheKeys -> Times \cup {Never}]
  /\ osvCache \in [Packages -> {"none", "clean", "malicious"}]
  /\ alerts \subseteq [id : Ids, kind : {"advisory", "risk"}]
  /\ now \in Times
  /\ status \in [Ids -> Statuses]
  /\ doneAt \in [Ids -> Times \cup {Never}]

\* i and j are observations of one install: the same package, from the same
\* kind of origin, put in the same place by the same process.
SameInstall(i, j) ==
  /\ event[i].pkg = event[j].pkg /\ event[i].public = event[j].public
  /\ event[i].dir = event[j].dir /\ event[i].proc = event[j].proc

\* The keys in flight are exactly those of the claimed observations, and no
\* key is claimed twice: one install is never evaluated by two tasks at once,
\* and no claim outlives its evaluation (_claim_batch_without_deadlock,
\* _process_claimed_event's finally).
ClaimsExclusive ==
  /\ inFlight = UNION {KeysAt(claimed[c]) : c \in Consumers}
  /\ \A c, d \in Consumers : \A i \in claimed[c], j \in claimed[d] :
       ~Undedupable(event[i]) /\ ~Undedupable(event[j]) /\ SameKey(i, j) => i = j

DropJustified(i) ==
  status[i] # "dropped" /\ status'[i] = "dropped" =>
    \E j \in Ids : /\ status[j] = "done" /\ SameInstall(i, j)
                   /\ now - doneAt[j] < WindowOf(event[i].src)

\* An observation is dropped as a duplicate only when an evaluation of the same
\* install was completed authoritatively within the window of its source
\* (_try_claim_once returning False).
DropsOnlyEvaluated == [][\A i \in Ids : DropJustified(i)]_vars

StaysRemembered(i) ==
  /\ status[i] = "done" /\ ~Undedupable(event[i])
  /\ now - doneAt[i] < WindowOf(event[i].src)
  => /\ processed'[KeyOf(event[i])] # Never
     /\ event[i].src = "cache" => cacheDone'[CacheKeyOf(KeyOf(event[i]))] # Never

\* The pruning task, like the lazy pop, only forgets a completion when the
\* window of the source that recorded it is over, and the two completion tables
\* forget a cache observation together (_dedup_pruning_loop).
ForgetsOnlyStale == [][\A i \in Ids : StaysRemembered(i)]_vars

\* One install is evaluated to an authoritative end at most once per window,
\* however its observations are spread over tasks, batches and retries: one
\* build does not alert twice (_processed_this_session's comment).
OneEvaluationPerWindow == \A i, j \in Ids :
  /\ i < j /\ status[i] = "done" /\ status[j] = "done"
  /\ ~Undedupable(event[i]) /\ SameInstall(i, j) /\ event[i].src = event[j].src
  => \/ doneAt[j] - doneAt[i] >= WindowOf(event[i].src)
     \/ doneAt[i] - doneAt[j] >= WindowOf(event[i].src)

\* An OSV outage is never remembered as a clean verdict: a row of osv_cache
\* holds what OSV answered (the degraded guards of _batch_prefetch and
\* _process_event).
OutageNotCached == \A p \in Packages : osvCache[p] \in {"none", Verdict(p)}

\* The observations that are accounted for by the evaluation of j.
AccountsFor(j, i) == Row(j, "advisory") \in alerts /\ SameInstall(i, j)

\* No public install of a malicious package is laid to rest in silence: one
\* that was evaluated, or dropped because its install had been evaluated, has
\* an advisory row for that install.
NoSilentMalicious == \A i \in Ids :
  /\ status[i] \in {"done", "dropped"}
  /\ event[i].public /\ event[i].pkg \in Malicious
  => \E j \in Ids : AccountsFor(j, i)

Settled(i) == status[i] \in {"merged", "dropped", "done", "unresolved"}

\* Every observation is eventually settled: nothing queued is lost, and tasks
\* whose batches share keys in opposite orders do not wait for each other.
EveryObservationSettled == \A i \in Ids : status[i] = "queued" ~> Settled(i)

\* The claims and completion tables implement the ledger of installs: what
\* several tasks, batches, back-offs and prunings do to them is one exclusive
\* evaluation at a time, never repeated within its window.
Ledger == INSTANCE InstallLedger WITH
  Installs <- Keys,
  Window <- [k \in Keys |-> IF k.proc = NoProc THEN CacheWindow ELSE ProcWindow],
  busy <- inFlight,
  memory <- processed

LedgerSpec == Ledger!Spec
=============================================================================
