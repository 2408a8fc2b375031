---------------------------- MODULE ScanCommand ----------------------------
(***************************************************************************)
(* The scans a user (or the scheduler) starts: `pa scan-cache`,            *)
(* `pa scan-project`, `pa scan-tools`, `pa query` and the scheduled scan   *)
(* of a project.  They share the osv_cache table, so what one of them      *)
(* writes the next one believes.                                           *)
(*                                                                         *)
(* A package is a canonical (ecosystem, name, version); OSV's answer is    *)
(* abstracted to whether it was degraded (failed or partly unreadable) and *)
(* whether it holds a malicious advisory.  A degraded answer may have lost *)
(* the advisory, and never invents one.                                    *)
(***************************************************************************)
EXTENDS Integers, Sequences, FiniteSets, SequencesExt, Functions

CONSTANTS
    Languages,      \* the number of registered languages
    Keys,           \* canonical (ecosystem, name, version)
    Malicious,      \* those OSV has a malicious advisory for
    Unregistered,   \* those whose ecosystem no language registers
    BatchSize,      \* packages per OSV batch
    Folders,        \* the sets of entries that directories of a language may hold
    MaxListed,      \* bound: packages listed by one project or tool
    Tools,          \* bound: tool environments of one `pa scan-tools`
    MaxCommands     \* bound: commands run one after the other

VARIABLES
    step,       \* where the running command stands; "idle" between commands
    ran,        \* commands started so far
    osvCache,   \* the osv_cache table: key -> has a malicious advisory
    scan,       \* scan-cache: languages left, entries left, packages seen...
    job,        \* scan-project and its kin: mode, environments, totals
    sent,       \* packages whose name left this machine in this command
    cleared     \* packages the last command told the user are clean

scanningVars == <<step, ran, osvCache, scan, job, sent, cleared>>
-----------------------------------------------------------------------------
\* OSV.

Answer(degraded, malicious) == [degraded |-> degraded, malicious |-> malicious]

\* What OSV may answer: the truth, or a degraded part of it.
OsvAnswers(p) == {Answer(FALSE, p \in Malicious), Answer(TRUE, FALSE),
                  Answer(TRUE, p \in Malicious)}

\* OsvCache.get, then OsvClient.batch_query for what the cache has not.
\* A row holds advisories only, so what is read back is never degraded.
MayAnswer(cache, p) ==
    IF p \in DOMAIN cache THEN {Answer(FALSE, cache[p])} ELSE OsvAnswers(p)

\* Mutant: an outage is written to the table as a verdict.
KeepDegraded(cache, p, answer) ==
    [q \in DOMAIN cache \cup {p} |-> IF q = p THEN answer.malicious ELSE cache[q]]

\* OsvCache.set: a degraded answer is never kept.
Keep(cache, p, answer) ==
    IF answer.degraded THEN cache
    ELSE [q \in DOMAIN cache \cup {p} |-> IF q = p THEN answer.malicious ELSE cache[q]]

\* A row outlives osv.cache_ttl_hours and is not served again.
RowExpires ==
    /\ step = "idle"
    /\ \E p \in DOMAIN osvCache : osvCache' = Restrict(osvCache, DOMAIN osvCache \ {p})
    /\ UNCHANGED <<step, ran, scan, job, sent, cleared>>
-----------------------------------------------------------------------------
\* `pa query`: one package, asked by name.  No advisories in a degraded
\* answer is reported as "unavailable", never as clean.  A name that is not
\* typed in its canonical spelling is asked about, and kept, under a key that
\* no scan reads; only canonical names are modelled.

Cleared(p, answer) == IF ~answer.degraded /\ ~answer.malicious THEN {p} ELSE {}

Query ==
    /\ step = "idle"
    /\ ran < MaxCommands
    /\ ran' = ran + 1
    /\ \E p \in Keys : \E answer \in MayAnswer(osvCache, p) :
          /\ osvCache' = Keep(osvCache, p, answer)
          /\ cleared' = Cleared(p, answer)
          /\ sent' = {p}
    /\ UNCHANGED <<step, scan, job>>
-----------------------------------------------------------------------------
\* `pa scan-cache`.

Spellings == {"canonical", "other"}
Unusable == {"raises", "nothing", "malformed", "unversioned"}

\* A path the language's globs match under one of its directories, by what
\* classify_cache_file makes of it.  Dual classification and two spellings
\* of one name give distinct entries of the same package.
Entry ==
    [says : Unusable, names : {{}}, spelled : {"canonical"}]
    \cup [says : {"package"}, names : {{p} : p \in Keys}, spelled : Spellings]

\* Bounds are numbers, a batch is never empty, and folders hold entries.
ScanAssumption ==
    /\ {Languages, MaxListed, Tools, MaxCommands} \subseteq Nat
    /\ BatchSize \in Nat \ {0} /\ Folders \subseteq SUBSET Entry

NoScan == [left |-> 0, entries |-> {}, seen |-> {}, current |-> {}, alerts |-> <<>>,
           failures |-> 0, offered |-> {}, skipped |-> {}]

StartScanCache ==
    /\ step = "idle"
    /\ ran < MaxCommands
    /\ ran' = ran + 1
    /\ step' = "languages"
    /\ scan' = [NoScan EXCEPT !.left = Languages]
    /\ sent' = {}
    /\ cleared' = {}
    /\ UNCHANGED <<osvCache, job>>

Offered(entries) == UNION {e.names : e \in entries}

\* cache_file_globs and cache_paths: a language whose answers are malformed,
\* or that raises, is left out alone; one without globs has nothing to scan.
SkipLanguage ==
    /\ step = "languages"
    /\ scan.left > 0
    /\ scan' = [scan EXCEPT !.left = @ - 1]
    /\ UNCHANGED <<step, ran, osvCache, job, sent, cleared>>

\* The directories of cache_paths, and those of the optional
\* poll_only_cache_paths unless that hook raises or answers nonsense.
TakeLanguage(required, polled, polledUsable) ==
    /\ step = "languages"
    /\ scan.left > 0
    /\ LET entries == required \cup (IF polledUsable THEN polled ELSE {})
       IN scan' = [scan EXCEPT !.left = @ - 1, !.entries = entries,
                               !.offered = @ \cup Offered(entries)]
    /\ step' = "entries"
    /\ UNCHANGED <<ran, osvCache, job, sent, cleared>>

\* normalise_ecosystem and normalise_package_name_for: the key a package is
\* looked up, remembered and alerted under.
ScanKey(entry) == entry.names

\* classify_cache_file raises, or names no package: this entry only.
SkipEntry(entry) ==
    /\ entry.says \in Unusable
    /\ scan' = [scan EXCEPT !.entries = @ \ {entry}]
    /\ UNCHANGED step

TakeEntry(entry) ==
    /\ entry.says \notin Unusable
    /\ LET key == ScanKey(entry)
           rest == [scan EXCEPT !.entries = @ \ {entry}]
       IN IF key \in scan.seen
          THEN /\ scan' = rest
               /\ UNCHANGED step
          ELSE /\ scan' = [rest EXCEPT !.seen = @ \cup {key}, !.current = entry.names]
               /\ step' = "lookup"

ScanEntry ==
    /\ step = "entries"
    /\ \E entry \in scan.entries : SkipEntry(entry) \/ TakeEntry(entry)
    /\ UNCHANGED <<ran, osvCache, job, sent, cleared>>

EndLanguage ==
    /\ step = "entries"
    /\ scan.entries = {}
    /\ step' = "languages"
    /\ UNCHANGED <<ran, osvCache, scan, job, sent, cleared>>

\* What a result does to the totals: a degraded one is counted, and still
\* alerts if it holds a malicious advisory; an event that cannot be built
\* (PackageEvent refuses the ecosystem) costs this entry only.
Counting(s, p, answer) ==
    LET counted == IF answer.degraded THEN [s EXCEPT !.failures = @ + 1] ELSE s
    IN IF ~answer.malicious THEN counted
       ELSE IF p \in Unregistered THEN [counted EXCEPT !.skipped = @ \cup {p}]
       ELSE [counted EXCEPT !.alerts = Append(@, p)]

ScanLookup ==
    /\ step = "lookup"
    /\ \E p \in scan.current : \E answer \in MayAnswer(osvCache, p) :
          /\ osvCache' = Keep(osvCache, p, answer)
          /\ scan' = [Counting(scan, p, answer) EXCEPT !.current = {}]
          /\ sent' = sent \cup {p}
    /\ step' = "entries"
    /\ UNCHANGED <<ran, job, cleared>>

\* "Scan complete. N malicious package(s) found.", with the number that were
\* NOT checked: only without one does the count speak for every package.
CacheScanDone == step = "languages" /\ scan.left = 0

EndScanCache ==
    /\ CacheScanDone
    /\ cleared' = IF scan.failures = 0 THEN scan.offered \ (Range(scan.alerts) \cup scan.skipped)
                  ELSE {}
    /\ step' = "idle"
    /\ scan' = NoScan
    /\ UNCHANGED <<ran, osvCache, job, sent>>
-----------------------------------------------------------------------------
\* `pa scan-project`, `pa scan-tools` and the scheduled scan: what is listed
\* is looked up in OSV, scored, and checked for yanks.

Requirements == [package : Keys, public : BOOLEAN, pinned : BOOLEAN]

\* installed: packages come from a site-packages or node_modules, not from
\* lock files, so their source is on disk.
Modes ==
    [command : {"project"}, installed : BOOLEAN, unpinned : BOOLEAN,
     risk : BOOLEAN, yanks : BOOLEAN]
    \cup [command : {"tools"}, installed : {TRUE}, unpinned : {FALSE},
          risk : BOOLEAN, yanks : {FALSE}]
    \cup [command : {"scheduled"}, installed : BOOLEAN, unpinned : {FALSE},
          risk : {FALSE}, yanks : {FALSE}]

NoTotals == [findings |-> {}, osvFailures |-> 0, scored |-> {}, riskFailures |-> 0,
             yanksTold |-> {}, yankFailures |-> 0, notPublic |-> 0]

NoJob == [mode |-> CHOOSE mode \in Modes : TRUE, environments |-> <<>>, at |-> 0, queue |-> {},
          totals |-> NoTotals, answered |-> 0]

Environments(mode) ==
    SeqOf({l \in Requirements : mode.command = "tools" => l.pinned}, MaxListed)

\* detect_project, collect_requirements_packages or scan_installed; without
\* any source there is nothing to open and the command ends at once.
StartScan ==
    /\ step = "idle"
    /\ ran < MaxCommands
    /\ ran' = ran + 1
    /\ \E mode \in Modes :
         \E listed \in [1..(IF mode.command = "tools" THEN Tools ELSE 1) -> Environments(mode)] :
            job' = [NoJob EXCEPT !.mode = mode, !.environments = listed]
    /\ step' = "environments"
    /\ sent' = {}
    /\ cleared' = {}
    /\ UNCHANGED <<osvCache, scan>>

\* What is listed is known by its place: the environment, and where in it.
Item(x) == job.environments[x[1]][x[2]]
KeysOf(xs) == {Item(x).package : x \in xs}
Public(xs) == {x \in xs : Item(x).public}

\* The packages a scan goes through: the pinned ones, and the unpinned ones
\* when asked to.
ToQuery(k) ==
    {x \in {k} \X DOMAIN job.environments[k] : Item(x).pinned \/ job.mode.unpinned}

\* Those of the environment at hand, and of all so far.
Here == ToQuery(job.at)
Listing == UNION {ToQuery(k) : k \in 1..job.at}

NextEnvironment ==
    /\ step = "environments"
    /\ job.at < Len(job.environments)
    /\ LET found == ToQuery(job.at + 1) IN
       job' = [job EXCEPT !.at = @ + 1, !.queue = Public(found),
                          !.totals.notPublic = @ + Cardinality(found \ Public(found))]
    /\ step' = "osv"
    /\ UNCHANGED <<ran, osvCache, scan, sent, cleared>>

\* The next packages of the queue, in its order.
Batch == {x \in job.queue : Cardinality({y \in job.queue : y[2] < x[2]}) < BatchSize}

\* _query_osv_findings and ScheduledScanner._run_osv_queries: the batch is
\* read from the cache first, the rest asked for in one request, and only
\* whole answers are written back.
KeepAll(cache, answers) ==
    LET whole == {x \in DOMAIN answers : Item(x).package \notin DOMAIN cache /\ ~answers[x].degraded}
    IN [q \in DOMAIN cache \cup KeysOf(whole) |->
           IF q \in DOMAIN cache THEN cache[q]
           ELSE answers[CHOOSE x \in whole : Item(x).package = q].malicious]

OsvBatch ==
    /\ step = "osv"
    /\ job.queue # {}
    /\ \E answers \in [Batch -> [degraded : BOOLEAN, malicious : BOOLEAN]] :
         /\ \A x \in Batch : answers[x] \in MayAnswer(osvCache, Item(x).package)
         /\ osvCache' = KeepAll(osvCache, answers)
         /\ job' = [job EXCEPT
              !.queue = @ \ Batch,
              !.answered = @ + Cardinality({x \in Batch : ~answers[x].degraded}),
              !.totals.osvFailures = @ + Cardinality({x \in Batch : answers[x].degraded}),
              !.totals.findings = @ \cup KeysOf({x \in Batch : answers[x].malicious})]
    /\ sent' = sent \cup KeysOf(Batch)
    /\ UNCHANGED <<step, ran, scan, cleared>>

EndOsv ==
    /\ step = "osv"
    /\ job.queue = {}
    /\ step' = "risk"
    /\ UNCHANGED <<ran, osvCache, scan, job, sent, cleared>>

\* An installed package's source can be scored without its name; a locked
\* one has nothing to score.
ToScore == IF job.mode.installed THEN Here ELSE Public(Here)

\* Scored on its source alone: a key any private copy is listed under.
LocalOnly == KeysOf(ToScore \ Public(ToScore))

\* _risk_pass never raises.  Each key is scored, or counted as unscored:
\* its scoring failed, or its row could not be built.
RiskPass ==
    /\ step = "risk"
    /\ job.mode.risk
    /\ \E scored \in SUBSET KeysOf(ToScore) :
         job' = [job EXCEPT !.totals.scored = @ \cup scored,
                            !.totals.riskFailures = @ + Cardinality(KeysOf(ToScore) \ scored)]
    /\ sent' = sent \cup (KeysOf(ToScore) \ LocalOnly)
    /\ step' = "yanks"
    /\ UNCHANGED <<ran, osvCache, scan, cleared>>

\* The pass itself fails (an import, a plug-in's entry point, the engine):
\* every package is reported unscored, whatever had been sent by then.
RiskPassFails ==
    /\ step = "risk"
    /\ job.mode.risk
    /\ job' = [job EXCEPT !.totals.riskFailures = @ + Cardinality(ToScore)]
    /\ \E some \in {{}, KeysOf(ToScore) \ LocalOnly} : sent' = sent \cup some
    /\ step' = "yanks"
    /\ UNCHANGED <<ran, osvCache, scan, cleared>>

SkipRisk ==
    /\ step = "risk"
    /\ ~job.mode.risk
    /\ step' = "yanks"
    /\ UNCHANGED <<ran, osvCache, scan, job, sent, cleared>>

\* check_yanks: once per key, and only through a public copy of it.
YankChecked == KeysOf(Public(Here))

CheckYanks ==
    /\ step = "yanks"
    /\ job.mode.yanks /\ ~job.mode.installed
    /\ \/ \E failed \in SUBSET YankChecked :
             /\ job' = [job EXCEPT !.totals.yankFailures = @ + Cardinality(failed),
                                   !.totals.yanksTold = @ \cup (YankChecked \ failed)]
             /\ sent' = sent \cup YankChecked
       \/ \* the check itself raises: nothing in it is known
          /\ job' = [job EXCEPT !.totals.yankFailures = @ + Cardinality(Here)]
          /\ UNCHANGED sent
    /\ step' = "environments"
    /\ UNCHANGED <<ran, osvCache, scan, cleared>>

SkipYanks ==
    /\ step = "yanks"
    /\ ~(job.mode.yanks /\ ~job.mode.installed)
    /\ step' = "environments"
    /\ UNCHANGED <<ran, osvCache, scan, job, sent, cleared>>

PublicKeys == KeysOf(Public(Listing))

ScanDone == step = "environments" /\ job.at = Len(job.environments)

\* The number of packages the summary prints as checked.
Checked == Cardinality(Public(Listing)) - job.totals.osvFailures

\* The ScanResult and the summary: with no failed lookup, every public
\* package that has no finding reads as clean.
EndScan ==
    /\ ScanDone
    /\ cleared' = IF job.totals.osvFailures = 0 THEN PublicKeys \ job.totals.findings ELSE {}
    /\ step' = "idle"
    /\ job' = NoJob
    /\ UNCHANGED <<ran, osvCache, scan, sent>>
-----------------------------------------------------------------------------
ScanningInit ==
    /\ step = "idle"
    /\ ran = 0
    /\ osvCache = [p \in {} |-> FALSE]
    /\ scan = NoScan
    /\ job = NoJob
    /\ sent = {}
    /\ cleared = {}

ScanningNext ==
    \/ RowExpires \/ Query
    \/ StartScanCache \/ SkipLanguage \/ ScanEntry \/ EndLanguage \/ ScanLookup \/ EndScanCache
    \/ \E required, polled \in Folders, usable \in BOOLEAN : TakeLanguage(required, polled, usable)
    \/ StartScan \/ NextEnvironment \/ OsvBatch \/ EndOsv
    \/ RiskPass \/ RiskPassFails \/ SkipRisk \/ CheckYanks \/ SkipYanks \/ EndScan

ScanningSpec == ScanningInit /\ [][ScanningNext]_scanningVars
-----------------------------------------------------------------------------
\* Properties.

\* No package is told clean that OSV lists as malicious, whatever earlier
\* commands met: an outage one of them ran into is never remembered as a
\* verdict that another reads back from osv_cache.
ClearedIsClean == cleared \cap Malicious = {}

\* scan-cache alerts each malicious package exactly once, however many
\* entries, spellings and directories show it, and whatever the other
\* languages' hooks do; otherwise it says that packages were NOT checked.  The
\* one exception is an ecosystem no language registers.
NoneIsPassedOver ==
    CacheScanDone =>
        /\ IsInjective(scan.alerts)
        /\ Range(scan.alerts) \subseteq Malicious
        /\ scan.failures = 0 =>
              (scan.offered \cap Malicious) \ Unregistered \subseteq Range(scan.alerts)

\* The report of a scan adds up: what it says was checked is what OSV answered
\* in full, checked, unchecked and non-public are together all that was
\* attempted, and a package without a risk score, or without a yank status
\* where one was asked for, is counted as such.
ReportAddsUp ==
    ScanDone =>
        /\ Checked = job.answered
        /\ Checked + job.totals.osvFailures + job.totals.notPublic = Cardinality(Listing)
        /\ job.totals.osvFailures = 0 => PublicKeys \cap Malicious \subseteq job.totals.findings
        /\ (job.mode.risk /\ job.totals.riskFailures = 0) =>
              KeysOf(IF job.mode.installed THEN Listing ELSE Public(Listing)) \subseteq job.totals.scored
        /\ (job.mode.yanks /\ ~job.mode.installed /\ job.totals.yankFailures = 0) =>
              PublicKeys \subseteq job.totals.yanksTold

\* The name of a package that only comes from a private registry, git or a
\* local path is sent to nobody: not to OSV, not to the popularity and
\* registry lookups of the risk engine, not to the yank check.
PrivateNamesStayHere == step \in {"osv", "risk", "yanks", "environments"} => sent \subseteq PublicKeys

\* An answer is cleared, and a report complete, only where that is so: no package OSV lists
\* is told clean or passed over, the totals of the report add up, and the names of private
\* packages are not sent.  (_run_scan_cache, _run_scan_project, _assess_packages)
ScanIsComplete == ClearedIsClean /\ NoneIsPassedOver /\ ReportAddsUp /\ PrivateNamesStayHere
=============================================================================
