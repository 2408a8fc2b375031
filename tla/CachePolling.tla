---------------------------- MODULE CachePolling ----------------------------
(***************************************************************************)
(* Cache roots that are polled instead of watched: monitors/cache.py,      *)
(* _watched_paths, _seed_poll_only_baseline and _poll_cache_dirs.          *)
(*                                                                         *)
(* A polled root is seen by nothing else, so an artifact that a pass puts  *)
(* in the baseline without reporting it is never reported.  What was there *)
(* before the daemon started is left out, and stays left out when the      *)
(* plugin that names the root, or the glob that finds the artifact, raised *)
(* at startup and works again later; two plugins may share a root.         *)
(*                                                                         *)
(* A walk runs on a thread of its own, a glob at a time; installers create *)
(* and delete artifacts between any two of its steps.  The n-th artifact   *)
(* made has identity n.  A plugin's globs are one pattern, named after it. *)
(***************************************************************************)
EXTENDS Naturals, FiniteSets, Functions

CONSTANTS
  Roots, Owners,
  PolledPaths,
  Under,       \* Under[p]: the roots path p is below
  MatchedBy,   \* MatchedBy[p]: the plugins whose globs match p
  WatchedBy,   \* WatchedBy[l]: the roots l's cache_paths() names
  PolledBy,    \* PolledBy[l]: those its poll_only_cache_paths() names when they exist
  Inside,      \* Inside[r]: the roots r is inside of, r itself included
  MaxArtifacts, MaxHookFailures

(* What is below a root is below every root that root is inside of.        *)
PollingAssumption ==
    /\ Under \in [PolledPaths -> SUBSET Roots] /\ MatchedBy \in [PolledPaths -> SUBSET Owners]
    /\ WatchedBy \in [Owners -> SUBSET Roots] /\ PolledBy \in [Owners -> SUBSET Roots]
    /\ Inside \in [Roots -> SUBSET Roots]
    /\ \A p \in PolledPaths : \A r \in Under[p] : Inside[r] \subseteq Under[p]
    /\ IsFiniteSet(Owners) /\ IsFiniteSet(PolledPaths)
    /\ MaxArtifacts \in Nat /\ MaxHookFailures \in Nat

Artifacts == 1 .. MaxArtifacts
NoArtifact == 0

VARIABLES
  artifactAt,      \* the artifact at each path
  artifactsMade,
  older,           \* the artifacts last modified before the startup cutoff
  exists,          \* the roots that exist
  hookFailures,
  pc, pass,        \* "seed" or "poll"
  disc,            \* what discovery returned: [dirs, globs, owning, failed, succeeded]
  unseeded,        \* roots and globs whose old content is not to be reported
  work,            \* the walk: [todo, root, left, matched, snapshot, found, incomplete]
  exclusions,      \* _poll_only_exclusions
  seen,            \* _poll_only_seen
  discovered,      \* _poll_only_ever_cleanly_discovered
  succeeded,       \* _poll_only_ever_succeeded_plugins
  seedIncomplete,  \* _poll_only_seed_incomplete_roots
  knownPlugins,    \* _poll_only_root_known_plugins
  pendingGlobs,    \* _poll_only_pending_reseed_globs
  reported         \* reported[r][a]: how often artifact a was reported, seen under root r

world == <<artifactAt, artifactsMade, older, exists>>
records == <<exclusions, seen, discovered, succeeded, seedIncomplete, knownPlugins, pendingGlobs>>
pollingVars == <<world, hookFailures, pc, pass, disc, unseeded, work, records, reported>>

NoneOfAny == [r \in Roots |-> {}]
NoDisc == [dirs |-> {}, globs |-> NoneOfAny, owning |-> NoneOfAny, failed |-> FALSE, succeeded |-> {}]
NoWork == [todo |-> {}, root |-> {}, left |-> {}, matched |-> {}, snapshot |-> NoneOfAny,
           found |-> NoneOfAny, incomplete |-> {}]
NotUnseeded == [roots |-> {}, globs |-> NoneOfAny]

PollingInit ==
    /\ \E before \in SUBSET PolledPaths :
         /\ Cardinality(before) <= MaxArtifacts
         /\ \E ids \in [before -> Artifacts] :
              /\ IsInjective(ids) /\ \A p \in before : ids[p] <= Cardinality(before)
              /\ artifactAt = [p \in PolledPaths |-> IF p \in before THEN ids[p] ELSE NoArtifact]
         /\ artifactsMade = Cardinality(before) /\ older = 1 .. Cardinality(before)
         /\ exists \in {e \in SUBSET Roots : UNION {Under[p] : p \in before} \subseteq e}
    /\ hookFailures = 0 /\ pc = "watched" /\ pass = "seed"
    /\ disc = NoDisc /\ unseeded = NotUnseeded /\ work = NoWork
    /\ exclusions = NoneOfAny /\ seen = NoneOfAny /\ discovered = {} /\ succeeded = {}
    /\ seedIncomplete = {} /\ knownPlugins = NoneOfAny /\ pendingGlobs = NoneOfAny
    /\ reported = [r \in Roots |-> [a \in Artifacts |-> 0]]

-----------------------------------------------------------------------------
(* Installers, at any time.                                                *)
Install(p) ==
    /\ artifactsMade < MaxArtifacts
    /\ artifactsMade' = artifactsMade + 1 /\ artifactAt' = [artifactAt EXCEPT ![p] = artifactsMade + 1]
    /\ exists' = exists \cup Under[p]
    /\ UNCHANGED <<older, hookFailures, pc, pass, disc, unseeded, work, records, reported>>

(* A cache clean removes a root with everything in it.                     *)
CleanRoot(r) ==
    /\ r \in exists
    /\ exists' = {q \in exists : r \notin Inside[q]}
    /\ artifactAt' = [p \in PolledPaths |-> IF r \in Under[p] THEN NoArtifact ELSE artifactAt[p]]
    /\ UNCHANGED <<artifactsMade, older, hookFailures, pc, pass, disc, unseeded, work, records, reported>>

(* Which plugins' hooks raise this time.                                   *)
Raising(S) == Cardinality(S) + hookFailures <= MaxHookFailures /\ hookFailures' = hookFailures + Cardinality(S)

-----------------------------------------------------------------------------
(* The hook returns the roots that exist.                                  *)
PollOnly(l) == PolledBy[l] \cap exists

(* _watched_paths: a watched root that nests with one its plugin declares  *)
(* poll-only is not watched, and the outer of the two is recorded with the *)
(* plugin's globs.  A hook that raises excludes nothing.                   *)
Outer(l) == {r \in Roots : \E w \in WatchedBy[l], q \in PollOnly(l) :
                              (w \in Inside[q] /\ r = w) \/ (q \in Inside[w] /\ r = q)}

DiscoverWatched ==
    /\ pc = "watched"
    /\ \E bad \in SUBSET Owners :
         /\ Raising(bad)
         /\ exclusions' = [r \in Roots |-> exclusions[r] \cup {l \in Owners \ bad : r \in Outer(l)}]
    /\ pc' = "discover"
    /\ UNCHANGED <<world, pass, disc, unseeded, work, seen, discovered, succeeded,
                   seedIncomplete, knownPlugins, pendingGlobs, reported>>

(* _discover_poll_only_cache_dirs: an excluded root is polled whatever the *)
(* hooks return this time.                                                 *)
Listed(found) == {r \in Roots : found[r] # {} \/ exclusions[r] # {}}

Discover ==
    /\ pc = "discover"
    /\ \E bad \in SUBSET Owners :
         LET found == [r \in Roots |-> {l \in Owners \ bad : r \in PollOnly(l)}]
         IN  /\ Raising(bad)
             /\ disc' = [dirs |-> Listed(found), owning |-> found,
                         globs |-> [r \in Roots |-> IF found[r] # {} THEN found[r] ELSE exclusions[r]],
                         failed |-> bad # {}, succeeded |-> Owners \ bad]
    /\ pc' = "judge"
    /\ UNCHANGED <<world, pass, unseeded, work, records, reported>>

(* _roots_with_a_new_contributing_plugin: the plugins first heard of for a *)
(* root that was already discovered without them.                          *)
NewContributors(r) == IF r \in discovered THEN disc.owning[r] \ knownPlugins[r] ELSE {}

(* A root that was never discovered, of a plugin that once raised, may     *)
(* hold what a raise hid.                                                  *)
Untrusted(r) == r \notin discovered /\ ~(disc.owning[r] \subseteq succeeded)

Judge ==
    /\ pc = "judge"
    /\ IF pass = "seed" THEN UNCHANGED <<unseeded, knownPlugins, pendingGlobs, discovered, succeeded>>
       ELSE /\ pendingGlobs' = [r \in Roots |-> pendingGlobs[r] \cup
                                    (IF r \in disc.dirs THEN NewContributors(r) ELSE {})]
            /\ unseeded' = [roots |-> {r \in disc.dirs : Untrusted(r)}, globs |-> pendingGlobs']
            /\ knownPlugins' = [r \in Roots |-> knownPlugins[r] \cup disc.owning[r]]
            /\ discovered' = discovered \cup disc.dirs
            /\ succeeded' = succeeded \cup disc.succeeded
    /\ work' = [NoWork EXCEPT !.todo = disc.dirs]
    /\ pc' = "walk"
    /\ UNCHANGED <<world, hookFailures, pass, disc, exclusions, seen, seedIncomplete, reported>>

-----------------------------------------------------------------------------
Now(p) == <<p, artifactAt[p]>>

(* Entries recorded before and unchanged are carried forward.              *)
Still(r) == {e \in seen[r] : artifactAt[e[1]] = e[2]}

StartRoot ==
    /\ pc = "walk" /\ work.root = {}
    /\ \E r \in work.todo :
         work' = IF r \notin exists THEN [work EXCEPT !.todo = @ \ {r}]
                 ELSE [work EXCEPT !.todo = @ \ {r}, !.root = {r}, !.left = disc.globs[r], !.matched = {},
                                   !.snapshot[r] = IF pass = "poll" THEN Still(r) ELSE {}]
    /\ UNCHANGED <<world, hookFailures, pc, pass, disc, unseeded, records, reported>>

(* What the seed records: what was last modified before the cutoff.        *)
Seedable(p) == artifactAt[p] \in older

(* One glob of the root.  The seed takes each entry as it comes; a poll    *)
(* collects which globs match an entry before it judges any.               *)
Entries(r, l) == {p \in PolledPaths : r \in Under[p] /\ l \in MatchedBy[p] /\ artifactAt[p] # NoArtifact}

Glob ==
    /\ pc = "walk"
    /\ \E r \in work.root, l \in work.left :
         \E complete \in BOOLEAN :
           /\ IF complete THEN UNCHANGED hookFailures ELSE Raising({l})
           /\ \E got \in IF complete THEN {Entries(r, l)} ELSE {{}} \cup {{p} : p \in Entries(r, l)} :
                work' = [work EXCEPT
                    !.left = @ \ {l},
                    !.incomplete = IF complete THEN @ ELSE @ \cup {r},
                    !.matched = @ \cup {<<p, l>> : p \in got},
                    !.snapshot[r] = IF pass = "poll" THEN @
                                    ELSE @ \cup {Now(p) : p \in {q \in got : Seedable(q)}}]
    /\ UNCHANGED <<world, pc, pass, disc, unseeded, records, reported>>

(* In doubt is an entry whose root, or the seed of it, or every glob that  *)
(* matches it was lost to a raise.                                         *)
GlobsOf(p) == {l \in Owners : <<p, l>> \in work.matched}
InDoubt(r, p) ==
    \/ r \in seedIncomplete \cup unseeded.roots
    \/ GlobsOf(p) \subseteq unseeded.globs[r]

(* A mutant: what is in doubt is left unreported however new it is.        *)
SuppressedAtAnyAge(r, p) == InDoubt(r, p)

(* It is left unreported only when it is older than the startup.           *)
Suppressed(r, p) == artifactAt[p] \in older /\ InDoubt(r, p)

(* The end of a root's walk: each entry found is judged, unless it has     *)
(* gone or was carried forward.                                            *)
EndRoot ==
    /\ pc = "walk" /\ work.root # {} /\ work.left = {}
    /\ \E r \in work.root :
         LET new == {p \in PolledPaths : GlobsOf(p) # {} /\ artifactAt[p] # NoArtifact /\ Now(p) \notin work.snapshot[r]}
         IN  work' = IF pass = "seed" THEN [work EXCEPT !.root = {}]
                     ELSE [work EXCEPT !.root = {},
                               !.snapshot[r] = @ \cup {Now(p) : p \in new},
                               !.found[r] = {artifactAt[p] : p \in {q \in new : ~Suppressed(r, q)}}]
    /\ UNCHANGED <<world, hookFailures, pc, pass, disc, unseeded, records, reported>>

WalkedAll == pc = "walk" /\ work.todo = {} /\ work.root = {}

-----------------------------------------------------------------------------
(* _seed_poll_only_baseline, back on the event loop.                       *)
Seeded ==
    /\ WalkedAll /\ pass = "seed"
    /\ seen' = [r \in Roots |-> seen[r] \cup work.snapshot[r]]
    /\ discovered' = discovered \cup disc.dirs
    /\ succeeded' = succeeded \cup disc.succeeded
    /\ seedIncomplete' = seedIncomplete \cup work.incomplete
    /\ knownPlugins' = [r \in Roots |-> knownPlugins[r] \cup disc.owning[r]]
    /\ pc' = "idle"
    /\ work' = NoWork /\ disc' = NoDisc
    /\ UNCHANGED <<world, hookFailures, pass, unseeded, exclusions, pendingGlobs, reported>>

(* A walk that missed something adds to what was known, and does not       *)
(* replace it.                                                             *)
Kept(r) == disc.failed \/ r \in work.incomplete

Polled ==
    /\ WalkedAll /\ pass = "poll"
    /\ LET whole == disc.dirs \ work.incomplete
       IN  /\ seedIncomplete' = seedIncomplete \ whole
           /\ pendingGlobs' = [r \in Roots |-> IF r \in whole THEN {} ELSE pendingGlobs[r]]
    /\ seen' = [r \in Roots |-> work.snapshot[r] \cup IF Kept(r) THEN seen[r] ELSE {}]
    /\ reported' = [r \in Roots |-> [a \in Artifacts |->
                       reported[r][a] + IF a \in work.found[r] THEN 1 ELSE 0]]
    /\ pc' = "idle"
    /\ work' = NoWork /\ disc' = NoDisc /\ unseeded' = NotUnseeded
    /\ UNCHANGED <<world, hookFailures, pass, exclusions, discovered, succeeded, knownPlugins>>

(* Maintenance is due: the watched roots are discovered again, then the    *)
(* polled ones are polled.                                                 *)
MaintainPolled ==
    /\ pc = "idle"
    /\ pc' = "watched" /\ pass' = "poll"
    /\ UNCHANGED <<world, hookFailures, disc, unseeded, work, records, reported>>

PollingNext ==
    \/ \E p \in PolledPaths : Install(p)
    \/ \E r \in Roots : CleanRoot(r)
    \/ DiscoverWatched \/ Discover \/ Judge \/ StartRoot \/ Glob \/ EndRoot \/ Seeded \/ Polled \/ MaintainPolled

PollingSpec == PollingInit /\ [][PollingNext]_pollingVars

-----------------------------------------------------------------------------
PollingTypeOK ==
    /\ seen \in [Roots -> SUBSET (PolledPaths \X Artifacts)]
    /\ discovered \subseteq Roots /\ seedIncomplete \subseteq Roots /\ succeeded \subseteq Owners
    /\ knownPlugins \in [Roots -> SUBSET Owners] /\ pendingGlobs \in [Roots -> SUBSET Owners]

(* Nothing made since the daemon started is in a baseline without having   *)
(* been reported from there, whatever raised and whatever was created in   *)
(* the middle of a walk: no later poll would report it.                    *)
NothingNewIsAbsorbed ==
    \A r \in Roots : \A e \in seen[r] : e[2] \notin older => reported[r][e[2]] > 0

(* A polled root reports one artifact once, though discoveries and globs   *)
(* raise and recover and roots are removed and made again.                 *)
ReportedOnce == \A r \in Roots, a \in Artifacts : reported[r][a] <= 1

(* A root a plugin declares is not replayed: while no more than one hook   *)
(* or glob has raised, nothing in it that was there before the daemon      *)
(* started is reported.  (A root that another plugin watches above one it  *)
(* polls is excluded with that plugin's globs, and walked with those, and  *)
(* not the declaring plugin's, when the latter's hook raises.)             *)
Declared == {r \in Roots : /\ \E l \in Owners : r \in PolledBy[l]
                          /\ \A l \in Owners : r \in WatchedBy[l] => r \in PolledBy[l]}
OldIsNotReplayed ==
    hookFailures <= 1 => \A r \in Declared, a \in older : reported[r][a] = 0

(* What a poll reports: everything new, once, and nothing that is old.     *)
PolledOnce == NothingNewIsAbsorbed /\ ReportedOnce /\ OldIsNotReplayed

=============================================================================
