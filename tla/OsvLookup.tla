----------------------------- MODULE OsvLookup -----------------------------
(***************************************************************************)
(* Looking packages up in OSV: osv/client.py, osv/cache.py, and their      *)
(* callers (the pre-flight and post-install checks of pa run, the scans,   *)
(* the daemon), which share the osv_cache table from several processes.    *)
(*                                                                         *)
(* A lookup reads the table package by package, asks OSV about the rest    *)
(* in one batch, retries, parses what it gets, fetches each advisory's     *)
(* details, stores the complete results and judges them all.  OSV's reply  *)
(* may be malformed at any level.  Ages are counted in ticks, up to the    *)
(* point where no one tells them apart any more.                           *)
(***************************************************************************)
EXTENDS Integers, Sequences, FiniteSets

CONSTANTS
  Lookups,     \* the processes and tasks that look packages up
  Packages,    \* (ecosystem, name, version) triples
  Batches,     \* the sequences of packages that are looked up together
  Advisories,
  Listed,      \* Listed[p]: the advisories OSV lists for p, sooner or later
  MalById,     \* those with a MAL- id
  MalByAlias,  \* those with a MAL- id among their aliases only
  NoList,      \* an item of a reply that holds no list of advisories
  MaxRetries,  \* cfg.osv.max_retries
  Ttl,         \* cfg.osv.cache_ttl_hours
  Longest      \* the longest a lookup takes

ASSUME OsvAssumption ==
  /\ Batches \subseteq Seq(Packages)
  /\ Listed \in [Packages -> SUBSET Advisories]
  /\ MalById \subseteq Advisories /\ MalByAlias \subseteq Advisories
  /\ {MaxRetries, Ttl, Longest} \subseteq Nat

VARIABLES
  published,  \* published[p][a]: how long OSV has listed a for p
  row,        \* osv_cache: what was found of a package, and how long ago
  lookup      \* what each lookup is doing

vars == <<published, row, lookup>>

Unlisted == -1
Overdue == Ttl + 2 * Longest + 1    \* listed for longer than a row can hide it
NoRow == [age |-> Ttl + 1, found |-> {}, aliased |-> {}]

\* OsvResult; `aliased` are the advisories whose MAL- alias is known.
Result(p, found, aliased, degraded) ==
  [package |-> p, found |-> found, aliased |-> aliased, degraded |-> degraded]
Results == [package : Packages, found : SUBSET Advisories, aliased : SUBSET Advisories,
            degraded : BOOLEAN]

Idle == [step |-> "idle", age |-> 0, todo |-> <<>>, asked |-> <<>>, attempt |-> 0,
         hits |-> <<>>, fresh |-> <<>>, named |-> {}, stored |-> 0]

LookupStates ==
  [step : {"idle", "read", "ask", "enrich", "store", "told"}, age : 0 .. Longest,
   todo : Seq(Packages), asked : Seq(Packages), attempt : 0 .. MaxRetries,
   hits : Seq(Results), fresh : Seq(Results), named : SUBSET (Packages \X Advisories),
   stored : Nat]

TypeOK ==
  /\ published \in [Packages -> [Advisories -> Unlisted .. Overdue]]
  /\ row \in [Packages -> [age : 0 .. Ttl + 1, found : SUBSET Advisories,
                           aliased : SUBSET Advisories]]
  /\ lookup \in [Lookups -> LookupStates]
  /\ \A k \in Lookups : lookup[k].stored <= Len(lookup[k].fresh)

Init ==
  /\ published = [p \in Packages |-> [a \in Advisories |-> Unlisted]]
  /\ row = [p \in Packages |-> NoRow]
  /\ lookup = [k \in Lookups |-> Idle]

At(k, step) == lookup[k].step = step
Becomes(k, new) == lookup' = [lookup EXCEPT ![k] = new]

\* The lookup's results are handed to its caller; the rest is forgotten.
Told(k) == [lookup[k] EXCEPT !.step = "told", !.asked = <<>>, !.attempt = 0, !.stored = 0]

-----------------------------------------------------------------------------
(* The clock, and OSV's list. *)

Older(age, most) == IF age < most THEN age + 1 ELSE most

\* A caller judges its results at once.
Tick ==
  /\ \A k \in Lookups : At(k, "idle") \/ (lookup[k].age < Longest /\ ~At(k, "told"))
  /\ published' = [p \in Packages |-> [a \in Advisories |->
       IF published[p][a] = Unlisted THEN Unlisted ELSE Older(published[p][a], Overdue)]]
  /\ row' = [p \in Packages |->
       IF row[p].age < Ttl THEN [row[p] EXCEPT !.age = @ + 1] ELSE NoRow]
  /\ lookup' = [k \in Lookups |->
       IF At(k, "idle") THEN Idle ELSE [lookup[k] EXCEPT !.age = @ + 1]]

Publish(p, a) ==
  /\ a \in Listed[p] /\ published[p][a] = Unlisted
  /\ published' = [published EXCEPT ![p][a] = 0]
  /\ UNCHANGED <<row, lookup>>

-----------------------------------------------------------------------------
(* Reading the table. *)

\* A lookup of the packages b; the post-install check asks OSV about all of them.
Begin(k, b) ==
  /\ At(k, "idle")
  /\ \/ Becomes(k, [Idle EXCEPT !.step = "read", !.todo = b])
     \/ Becomes(k, [Idle EXCEPT !.step = "ask", !.asked = b])
  /\ UNCHANGED <<published, row>>

\* OsvCache.get: a row that has outlived the TTL is no answer.
Read(k) ==
  /\ At(k, "read") /\ lookup[k].todo # <<>>
  /\ LET p == Head(lookup[k].todo)
         rest == [lookup[k] EXCEPT !.todo = Tail(@)]
     IN Becomes(k, IF row[p].age <= Ttl
          THEN [rest EXCEPT !.hits = Append(@, Result(p, row[p].found, row[p].aliased, FALSE))]
          ELSE [rest EXCEPT !.asked = Append(@, p)])
  /\ UNCHANGED <<published, row>>

AllRead(k) ==
  /\ At(k, "read") /\ lookup[k].todo = <<>>
  /\ Becomes(k, IF lookup[k].asked = <<>> THEN Told(k) ELSE [lookup[k] EXCEPT !.step = "ask"])
  /\ UNCHANGED <<published, row>>

-----------------------------------------------------------------------------
(* Asking OSV: batch_query. *)

Attempting(k) == At(k, "ask") /\ lookup[k].attempt < MaxRetries
Retried(k) == [lookup[k] EXCEPT !.attempt = @ + 1]

\* 429 and 503, an exception of the request, a body that is no JSON object.
Fails(k) == Attempting(k) /\ Becomes(k, Retried(k)) /\ UNCHANGED <<published, row>>

\* The attempts are used up, or another status ends them.
GivesUp(k) ==
  /\ At(k, "ask")
  /\ Becomes(k, [lookup[k] EXCEPT !.step = "store",
       !.fresh = [i \in DOMAIN lookup[k].asked |-> Result(lookup[k].asked[i], {}, {}, TRUE)]])
  /\ UNCHANGED <<published, row>>

\* What OSV may say of p: of each advisory, well formed or not, or nothing usable.
Items(p) == {NoList} \cup
  [{a \in Advisories : published[p][a] # Unlisted} -> {"whole", "id only", "unreadable"}]

\* The replies that answer the queries S of those asked, in their order.
Replies(asked, S) ==
  LET n == Cardinality(S)
      nth == CHOOSE f \in [1 .. n -> S] : \A i, j \in 1 .. n : i < j => f[i] < f[j]
  IN {r \in [1 .. n -> UNION {Items(asked[i]) : i \in S}] :
        \A i \in 1 .. n : r[i] \in Items(asked[nth[i]])}

\* Mutant: what could not be read is not missed.
PartialNever(item) == FALSE

Partial(item) == \E a \in DOMAIN item : item[a] # "whole"

\* _parse_vulns keeps what has an id, whatever stands beside it.
Named(item) == {a \in DOMAIN item : item[a] # "unreadable"}

\* _parse_batch_response: an item is about the query at its place.
Parsed(p, item) == IF item = NoList THEN Result(p, {}, {}, TRUE)
                   ELSE Result(p, Named(item), {}, Partial(item))

\* The advisories a reply names, each of the package asked about at its place.
Heard(asked, reply) == {x \in Packages \X Advisories :
  \E i \in DOMAIN reply : asked[i] = x[1] /\ reply[i] # NoList /\ x[2] \in Named(reply[i])}

\* Mutant: a short reply is paired with the first queries.
AlignedShort(asked, reply) == Len(reply) <= Len(asked)

Aligned(asked, reply) == Len(reply) = Len(asked)

\* A JSON object arrives, answering all queries or only some of them.
Answered(k) ==
  /\ Attempting(k)
  /\ LET asked == lookup[k].asked IN
     \E S \in SUBSET DOMAIN asked : \E reply \in Replies(asked, S) :
       Becomes(k, IF ~Aligned(asked, reply) THEN Retried(k)
         ELSE [lookup[k] EXCEPT !.step = IF Heard(asked, reply) = {} THEN "store" ELSE "enrich",
                 !.fresh = [i \in DOMAIN reply |-> Parsed(asked[i], reply[i])],
                 !.named = Heard(asked, reply)])
  /\ UNCHANGED <<published, row>>

-----------------------------------------------------------------------------
(* What is done with the results. *)

\* _enrich: the details of the advisories in `got` arrive and are readable.
WithAliases(res, got) ==
  [res EXCEPT !.aliased = {a \in res.found \cap MalByAlias : <<res.package, a>> \in got}]

Enrich(k) ==
  /\ At(k, "enrich")
  /\ \E got \in SUBSET {x \in lookup[k].named : x[2] \in MalByAlias} :
       Becomes(k, [lookup[k] EXCEPT !.step = "store",
         !.fresh = [i \in DOMAIN lookup[k].fresh |-> WithAliases(lookup[k].fresh[i], got)]])
  /\ UNCHANGED <<published, row>>

\* OsvCache.set, a row per commit; a degraded result is not stored.
Store(k) ==
  /\ At(k, "store") /\ lookup[k].stored < Len(lookup[k].fresh)
  /\ LET res == lookup[k].fresh[lookup[k].stored + 1] IN
     row' = IF res.degraded THEN row
            ELSE [row EXCEPT ![res.package] =
                    [age |-> 0, found |-> res.found, aliased |-> res.aliased]]
  /\ Becomes(k, [lookup[k] EXCEPT !.stored = @ + 1])
  /\ UNCHANGED published

AllStored(k) ==
  /\ At(k, "store") /\ lookup[k].stored = Len(lookup[k].fresh)
  /\ Becomes(k, Told(k))
  /\ UNCHANGED <<published, row>>

\* The caller is done, or is interrupted or killed on the way.
End(k) ==
  /\ ~At(k, "idle")
  /\ Becomes(k, Idle)
  /\ UNCHANGED <<published, row>>

\* has_malicious
HasMalicious(res) == (res.found \cap MalById) \cup (res.aliased \cap MalByAlias) # {}

\* What a caller makes of a result.
Judged(res) ==
  CASE HasMalicious(res) -> "malicious"
    [] ~HasMalicious(res) /\ res.degraded -> "unchecked"
    [] OTHER -> IF res.found = {} THEN "clean" ELSE "vulnerable"

-----------------------------------------------------------------------------
Next ==
  \/ Tick
  \/ \E p \in Packages, a \in Advisories : Publish(p, a)
  \/ \E k \in Lookups :
       \/ \E b \in Batches : Begin(k, b)
       \/ Read(k) \/ AllRead(k) \/ Fails(k) \/ GivesUp(k) \/ Answered(k) \/ Enrich(k)
       \/ Store(k) \/ AllStored(k) \/ End(k)

Spec == Init /\ [][Next]_vars

-----------------------------------------------------------------------------
(* What a lookup promises. *)

ResultsOf(k) == {lookup[k].hits[i] : i \in DOMAIN lookup[k].hits}
                  \cup {lookup[k].fresh[i] : i \in DOMAIN lookup[k].fresh}

\* Nobody is accused of another's advisory, in a result or in the shared table,
\* whichever items of whichever reply are missing or malformed: a reply has no
\* names in it, only places (_parse_batch_response).
NothingMisattributed ==
  LET Known(p, S) == \A a \in S : published[p][a] # Unlisted IN
  /\ \A p \in Packages : Known(p, row[p].found)
  /\ \A k \in Lookups : \A res \in ResultsOf(k) : Known(res.package, res.found)

\* What OSV named for a package in the reply a lookup used is heard, when it is
\* malicious by its id, whatever else was wrong with the reply: a partial
\* result is judged by what it holds (_parse_vulns, the callers' order).
MaliciousIsHeard ==
  \A k \in Lookups : At(k, "told") =>
    \A x \in lookup[k].named : x[2] \in MalById =>
      \E res \in ResultsOf(k) : res.package = x[1] /\ Judged(res) = "malicious"

\* An advisory OSV has listed for longer than a row can hide it is not missing
\* from a verdict that claims to be complete: no outage, malformed reply, slow
\* lookup or interruption, of this process or of another, makes the table
\* vouch for what was not checked (OsvResult.degraded, OsvCache.get).
OldNewsIsTold ==
  \A k \in Lookups : At(k, "told") =>
    \A res \in ResultsOf(k) : Judged(res) \in {"clean", "vulnerable"} =>
      \A a \in Advisories : published[res.package][a] = Overdue => a \in res.found

\* A result tells what was named for its package, and misses nothing unsaid.
AdvisoriesAreHeard == MaliciousIsHeard /\ OldNewsIsTold
=============================================================================
