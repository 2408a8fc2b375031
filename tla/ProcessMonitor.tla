--------------------------- MODULE ProcessMonitor ---------------------------
(***************************************************************************)
(* The process monitor: monitors/process.py, class ProcessMonitor.         *)
(*                                                                         *)
(* Each poll walks the process table.  A process is known by the identity  *)
(* (pid, create_time), and create_time may fail to read.  A command that   *)
(* names its packages is reported when it is first seen; one whose         *)
(* packages are in a lock file, or come from a private source, is tracked  *)
(* in _pending and reported once its identity is missing from a poll.      *)
(*                                                                         *)
(* Processes start and exit between the steps of a poll.  The n-th process *)
(* started has create_time n, and no two processes share one.              *)
(***************************************************************************)
EXTENDS Integers, Sequences, FiniteSets, Functions, Bags

CONSTANTS
  Pids,        \* process numbers, reused after an exit
  Dirs,        \* working directories
  NoDir,       \* a working directory that could not be read
  Commands,    \* the kinds of command the processes run, among Kinds
  Unreadable,  \* the attributes whose read may fail, among Attributes
  Reuse,       \* whether a pid may be reused
  MaxProcs,    \* bound: processes started
  MaxCopies    \* bound: copies of one report after which no poll starts

Attributes == {"create_time", "cwd", "cmdline"}
\* "lock" defers to a lock file, and so does "faulty", whose search for it may
\* raise; "public", "private" and "mixed" name their packages; "misplaced" names
\* a directory that cannot be resolved; "broken" raises when it is first seen;
\* "other" is no package manager.
Kinds == {"lock", "faulty", "public", "private", "mixed", "misplaced", "broken", "other"}
Deferring == {"lock", "faulty"}

ASSUME PidsAssumption == Pids \subseteq Nat
ASSUME DirsAssumption == NoDir \notin Dirs
ASSUME CommandsAssumption == Commands \subseteq Kinds /\ Unreadable \subseteq Attributes
ASSUME ReuseAssumption == Reuse \in BOOLEAN /\ MaxProcs \in Nat /\ MaxCopies \in Nat

Procs == 1 .. MaxProcs
None == 0                       \* a create_time that could not be read
Times == Procs \cup {None}
Identities == Pids \X Times

\* The packages a command names, by their source.
Specs(kind) == CASE kind = "mixed" -> {"public", "private"}
                 [] kind \in {"public", "private"} -> {kind}
                 [] OTHER -> {}

\* A report: the process whose command it stands for, what was read (the lock
\* file or a package it names), and the create_time it is tagged with.
Reports == [proc : Procs, what : {"lock", "public", "private"}, tag : Times]

VARIABLES
  procs,    \* procs[n]: the n-th process started
  alive,    \* those that have not exited
  seen,     \* _seen_processes
  pending,  \* _pending: identity -> _PendingInstall
  poll,     \* the poll under way: the pids listed and not read, current_processes,
            \* known_create_time_by_pid; or Idle
  sent      \* the reports put on the queue

vars == <<procs, alive, seen, pending, poll, sent>>

CopiesOf(r, bag) == IF r \in DOMAIN bag THEN bag[r] ELSE 0

Idle == [todo |-> {}, current |-> {}, known |-> <<>>, open |-> FALSE]

TypeOK ==
  /\ procs \in Seq([pid : Pids, dir : Dirs, kind : Commands]) /\ Len(procs) <= MaxProcs
  /\ alive \subseteq DOMAIN procs
  /\ seen \subseteq Identities
  /\ DOMAIN pending \subseteq Identities
  /\ \A id \in DOMAIN pending :
       /\ pending[id].proc \in Procs /\ pending[id].dir \in Dirs
       /\ pending[id].tag \in Times /\ pending[id].scan \in BOOLEAN
       /\ DOMAIN pending[id].held \subseteq Reports
  /\ poll.todo \subseteq Pids /\ poll.current \subseteq Identities /\ poll.open \in BOOLEAN
  /\ IsABag(sent) /\ DOMAIN sent \subseteq Reports

Init ==
  /\ procs = <<>> /\ alive = {} /\ seen = {} /\ pending = <<>>
  /\ poll = Idle /\ sent = EmptyBag

-----------------------------------------------------------------------------
(* The operating system. *)

Busy(p) == \E n \in alive : procs[n].pid = p
PidFree(p) == ~Busy(p) /\ (Reuse \/ \A n \in DOMAIN procs : procs[n].pid # p)

\* A reused pid runs in another directory: the two cannot be told apart by the
\* migration below when it does not, which the code accepts.
Start(p, d, k) ==
  /\ Len(procs) < MaxProcs /\ PidFree(p)
  /\ \A n \in DOMAIN procs : procs[n].pid = p => procs[n].dir # d
  /\ procs' = Append(procs, [pid |-> p, dir |-> d, kind |-> k])
  /\ alive' = alive \cup {Len(procs) + 1}
  /\ UNCHANGED <<seen, pending, poll, sent>>

Exit(n) ==
  /\ n \in alive
  /\ alive' = alive \ {n}
  /\ UNCHANGED <<procs, seen, pending, poll, sent>>

-----------------------------------------------------------------------------
(* A poll: _scan_processes(). *)

\* The table with this entry for id.
Put(table, id, entry) ==
  [x \in DOMAIN table \cup {id} |-> IF x = id THEN entry ELSE table[x]]

TimesOf(p, ids) == {t \in Times : <<p, t>> \in ids}

\* known_create_time_by_pid: a pid's create_time among the identities seen, or
\* else among the pending ones.  It has at most one of each, unless a poll was
\* abandoned.
KnownTimes(p) == IF TimesOf(p, seen) # {} THEN TimesOf(p, seen)
                                         ELSE TimesOf(p, DOMAIN pending)
KnownTables ==
  LET known == {p \in Pids : KnownTimes(p) # {}} IN
  {f \in [known -> Times] : \A p \in known : f[p] \in KnownTimes(p)}

StartPoll ==
  /\ ~poll.open
  /\ \A r \in DOMAIN sent : CopiesOf(r, sent) <= MaxCopies
  /\ \E table \in KnownTables :
       poll' = [todo |-> {procs[n].pid : n \in alive}, current |-> {},
                known |-> table, open |-> TRUE]
  /\ UNCHANGED <<procs, alive, seen, pending, sent>>

\* Mutant: a create_time that fails to read makes a new identity.
IdentityUnreconciled(p, read) == <<p, read>>

\* The identity of the process at p, whose create_time was read as `read`.
Identity(p, read) ==
  <<p, IF p \in DOMAIN poll.known /\ read = None THEN poll.known[p] ELSE read>>

\* Mutant: the entry never moves.
MigratedNever(id, dir) == pending

\* An entry first tracked without a create_time moves to the identity that has
\* one, if the process still runs where the entry was recorded.
Migrated(id, dir) ==
  LET old == <<id[1], None>> IN
  IF id[2] = None \/ old \notin DOMAIN pending THEN pending
  ELSE IF pending[old].dir # dir THEN pending
  ELSE Put(Restrict(pending, DOMAIN pending \ {old}), id, [pending[old] EXCEPT !.tag = id[2]])

\* The reports of the packages of n's command that come from the given source.
Named(n, tag, what) ==
  IF what \in Specs(procs[n].kind)
  THEN SetToBag({[proc |-> n, what |-> what, tag |-> tag]}) ELSE EmptyBag

Track(n, dir, tag, scan) ==
  [proc |-> n, dir |-> dir, tag |-> tag, scan |-> scan, held |-> EmptyBag]

\* A private package's report is held in the process's entry, made if needed.
Held(table, id, n, dir) ==
  LET entry == IF id \in DOMAIN table THEN table[id] ELSE Track(n, dir, id[2], FALSE) IN
  Put(table, id, [entry EXCEPT !.held = @ (+) Named(n, id[2], "private")])

\* What a newly seen command adds to _pending, and what it reports at once.
PendingFor(n, id, dir, table) ==
  IF dir = NoDir THEN table
  ELSE CASE procs[n].kind \in Deferring -> Put(table, id, Track(n, dir, id[2], TRUE))
         [] "private" \in Specs(procs[n].kind) -> Held(table, id, n, dir)
         [] OTHER -> table

ReportedAtOnce(n, id, dir) ==
  Named(n, id[2], "public") (+) (IF dir = NoDir THEN Named(n, id[2], "private") ELSE EmptyBag)

\* Reading the process n at p, with the attributes in `miss` unreadable.
Read(n, p, miss) ==
  LET id == Identity(p, IF "create_time" \in miss THEN None ELSE n)
      dir == IF "cwd" \in miss THEN NoDir ELSE procs[n].dir
      parsed == id \notin seen /\ "cmdline" \notin miss /\ procs[n].kind # "other"
  IN /\ seen' = IF parsed THEN seen \cup {id} ELSE seen
     /\ pending' = IF parsed THEN PendingFor(n, id, dir, Migrated(id, dir)) ELSE Migrated(id, dir)
     /\ sent' = IF parsed THEN sent (+) ReportedAtOnce(n, id, dir) ELSE sent
     /\ poll' = IF parsed /\ procs[n].kind = "broken"
                THEN Idle       \* events() logs the exception and polls again
                ELSE [poll EXCEPT !.todo = @ \ {p}, !.current = @ \cup {id}]

\* psutil reads the listed processes in order of pid.
UpNext(p) == poll.open /\ p \in poll.todo /\ \A q \in poll.todo : p <= q

Visit(n, miss) ==
  /\ n \in alive /\ UpNext(procs[n].pid)
  /\ Read(n, procs[n].pid, miss)
  /\ UNCHANGED <<procs, alive>>

\* The process listed at p has exited: NoSuchProcess.
Vanished(p) ==
  /\ UpNext(p) /\ ~Busy(p)
  /\ poll' = [poll EXCEPT !.todo = @ \ {p}]
  /\ UNCHANGED <<procs, alive, seen, pending, sent>>

\* Mutant: a lock file whose process could not be identified is not read.
LockReportTagged(entry) ==
  IF entry.scan /\ entry.tag # None
  THEN SetToBag({[proc |-> entry.proc, what |-> "lock", tag |-> entry.tag]}) ELSE EmptyBag

\* The lock file an entry's command deferred to is read.
LockReport(entry) ==
  IF entry.scan THEN SetToBag({[proc |-> entry.proc, what |-> "lock", tag |-> entry.tag]})
                ELSE EmptyBag

Walked == poll.open /\ poll.todo = {}

Finished == DOMAIN pending \ poll.current

\* An entry's process is gone: its held reports, then its lock file's packages.
Finish(id) ==
  /\ Walked /\ id \in Finished
  /\ sent' = (sent (+) pending[id].held) (+) LockReport(pending[id])
  /\ pending' = Restrict(pending, DOMAIN pending \ {id})
  /\ UNCHANGED <<procs, alive, seen, poll>>

\* The same, and looking for the lock file raises: the entry is gone, what its
\* lock file would have said is not reported, and the poll is abandoned.
FinishBroken(id) ==
  /\ Walked /\ id \in Finished
  /\ pending[id].scan /\ procs[pending[id].proc].kind = "faulty"
  /\ sent' = sent (+) pending[id].held
  /\ pending' = Restrict(pending, DOMAIN pending \ {id})
  /\ poll' = Idle
  /\ UNCHANGED <<procs, alive, seen>>

EndPoll ==
  /\ Walked /\ Finished = {}
  /\ seen' = seen \cap poll.current
  /\ poll' = Idle
  /\ UNCHANGED <<procs, alive, pending, sent>>

-----------------------------------------------------------------------------

Monitor ==
  \/ StartPoll
  \/ \E n \in alive, miss \in SUBSET Unreadable : Visit(n, miss)
  \/ \E p \in Pids : Vanished(p)
  \/ \E id \in DOMAIN pending : Finish(id) \/ FinishBroken(id)
  \/ EndPoll

Next ==
  \/ \E p \in Pids, d \in Dirs, k \in Commands : Start(p, d, k)
  \/ \E n \in alive : Exit(n)
  \/ Monitor

Spec == Init /\ [][Next]_vars

\* The daemon keeps polling while it runs; commands need not end.
FairSpec == Spec /\ WF_vars(Monitor)

-----------------------------------------------------------------------------
(* What the monitor promises. *)

Awaited(n) == \E id \in DOMAIN pending :
  \/ pending[id].scan /\ pending[id].proc = n
  \/ \E r \in DOMAIN pending[id].held : r.proc = n
Reported(n) == \E r \in DOMAIN sent : r.proc = n
MoreSent(r) == CopiesOf(r, sent') > CopiesOf(r, sent)

\* A poll that was abandoned between two readings of a create_time leaves a pid
\* with two identities, of which the next poll may take either; the properties
\* that this defeats are about installers that do not make a poll raise.
NoneAbandons == \A n \in DOMAIN procs : procs[n].kind \notin {"broken", "faulty"}

\* A lock file, or a package from a private source, is read only after the
\* command that writes it has exited, whatever is read of its create_time in
\* whichever poll, and whoever held its pid before.  (With no working directory
\* to watch, the packages are reported at once.)
ReadsAfterExit ==
  [][Unreadable \subseteq {"create_time"} =>
       \A r \in DOMAIN sent' : NoneAbandons /\ MoreSent(r) /\ r.what # "public"
         => r.proc \notin alive]_vars

\* While no poll is abandoned, a command is reported once under each tag: a
\* create_time or a working directory that comes and goes does not make the
\* monitor report the same install again and again.  (A command line that does so
\* together with the create_time makes it forget what it has seen.)
ReportedOncePerTag ==
  NoneAbandons /\ "cmdline" \notin Unreadable => \A r \in DOMAIN sent : CopiesOf(r, sent) = 1

\* Whatever held the pid before, reading a whole installer process leaves it
\* reported or awaited: a reused pid hides nothing.  (One that was first seen
\* without a working directory is never awaited; and after an abandoned poll the
\* entry of a "faulty" one may be lost while it runs, as ExitedIsReported says.)
ReuseIsNoticed ==
  [][\A n \in alive :
       Visit(n, {}) /\ "cwd" \notin Unreadable
         /\ procs[n].kind \in {"lock", "public", "private", "mixed"}
       => Awaited(n)' \/ Reported(n)']_vars

\* An install that is awaited is reported once its command has exited, also when
\* another install's exception abandons the poll that was to report it, unless
\* another process has taken the pid (whose create_time may never be readable).
\* The install whose own lock file search raises is lost: its entry is taken out
\* of _pending before the search, and nothing puts it back.
PidTaken(n) == n \in DOMAIN procs /\ Busy(procs[n].pid)
SearchRaises(n) == n \in DOMAIN procs /\ procs[n].kind = "faulty"
ExitedIsReported ==
  \A n \in Procs : (Awaited(n) /\ n \notin alive /\ ~SearchRaises(n))
                      ~> (Reported(n) \/ PidTaken(n))

\* Both together: a pid that is used again, or whose create_time comes and goes,
\* neither hides an install nor has its files read too early.
ReuseIsHarmless == ReadsAfterExit /\ ReuseIsNoticed
=============================================================================
