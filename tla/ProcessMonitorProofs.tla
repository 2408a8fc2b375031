------------------------- MODULE ProcessMonitorProofs -------------------------
(***************************************************************************)
(* Theorems about ProcessMonitor, for every set of pids, directories and   *)
(* kinds of command, any number of processes and any attributes that fail  *)
(* to read: an install is not reported again under the identity it was     *)
(* reported under, and a reused pid neither hides one nor has its files    *)
(* read too early.                                                         *)
(***************************************************************************)
EXTENDS ProcessMonitor, TLAPS

(* Bags and tables. *)

LEMMA EmptyBagIs == IsABag(EmptyBag) /\ DOMAIN EmptyBag = {}
  BY DEF EmptyBag, SetToBag, IsABag

LEMMA SetToBagIs ==
  ASSUME NEW S
  PROVE  IsABag(SetToBag(S)) /\ DOMAIN SetToBag(S) = S /\ \A r \in S : SetToBag(S)[r] = 1
  BY DEF SetToBag, IsABag

\* What two bags of reports hold together.
LEMMA Together ==
  ASSUME NEW B, NEW C, IsABag(B), IsABag(C)
  PROVE  /\ IsABag(B (+) C) /\ \A r : r \in DOMAIN (B (+) C) <=> r \in DOMAIN B \/ r \in DOMAIN C
         /\ \A r \in DOMAIN B \ DOMAIN C : (B (+) C)[r] = B[r]
         /\ \A r \in DOMAIN C \ DOMAIN B : (B (+) C)[r] = C[r]
  BY DEF IsABag, (+)

LEMMA PutIs ==
  ASSUME NEW table, NEW id, NEW entry
  PROVE  /\ \A x : x \in DOMAIN Put(table, id, entry) <=> x \in DOMAIN table \/ x = id
         /\ Put(table, id, entry)[id] = entry
         /\ \A x \in DOMAIN table \ {id} : Put(table, id, entry)[x] = table[x]
  BY DEF Put

LEMMA NamedIs ==
  ASSUME NEW n, NEW tag, NEW what
  PROVE  /\ IsABag(Named(n, tag, what))
         /\ \A r \in DOMAIN Named(n, tag, what) :
              /\ r.proc = n /\ r.what = what /\ r.tag = tag
              /\ what \in Specs(procs[n].kind) /\ Named(n, tag, what)[r] = 1
         /\ what \in Specs(procs[n].kind) => \E r \in DOMAIN Named(n, tag, what) : r.proc = n
<1> DEFINE made == [proc |-> n, what |-> what, tag |-> tag]
<1>1. made.proc = n /\ made.what = what /\ made.tag = tag
  OBVIOUS
<1> HIDE DEF made
<1>2. CASE what \in Specs(procs[n].kind)
  <2>1. Named(n, tag, what) = SetToBag({made})
    BY <1>2 DEF Named, made
  <2>2. /\ IsABag(SetToBag({made})) /\ DOMAIN SetToBag({made}) = {made}
        /\ SetToBag({made})[made] = 1
    BY SetToBagIs
  <2> QED BY <1>1, <1>2, <2>1, <2>2
<1>3. CASE what \notin Specs(procs[n].kind)
  BY <1>3, EmptyBagIs DEF Named
<1> QED BY <1>2, <1>3

LEMMA NamedTyped ==
  ASSUME NEW n \in Procs, NEW tag \in Times, NEW what \in {"public", "private"}
  PROVE  DOMAIN Named(n, tag, what) \subseteq Reports
  BY EmptyBagIs, SetToBagIs DEF Named, Reports

LEMMA LockReportIs ==
  ASSUME NEW entry
  PROVE  /\ IsABag(LockReport(entry))
         /\ \A r \in DOMAIN LockReport(entry) :
              /\ r.proc = entry.proc /\ r.what = "lock" /\ r.tag = entry.tag
              /\ entry.scan /\ LockReport(entry)[r] = 1
         /\ entry.scan => \E r \in DOMAIN LockReport(entry) : r.proc = entry.proc
<1> DEFINE made == [proc |-> entry.proc, what |-> "lock", tag |-> entry.tag]
<1>1. made.proc = entry.proc /\ made.what = "lock" /\ made.tag = entry.tag
  OBVIOUS
<1> HIDE DEF made
<1>2. CASE entry.scan
  <2>1. LockReport(entry) = SetToBag({made})
    BY <1>2 DEF LockReport, made
  <2>2. /\ IsABag(SetToBag({made})) /\ DOMAIN SetToBag({made}) = {made}
        /\ SetToBag({made})[made] = 1
    BY SetToBagIs
  <2> QED BY <1>1, <1>2, <2>1, <2>2
<1>3. CASE ~entry.scan
  BY <1>3, EmptyBagIs DEF LockReport
<1> QED BY <1>2, <1>3

LEMMA LockReportTyped ==
  ASSUME NEW entry, entry.proc \in Procs, entry.tag \in Times
  PROVE  DOMAIN LockReport(entry) \subseteq Reports
  BY EmptyBagIs, SetToBagIs DEF LockReport, Reports

-----------------------------------------------------------------------------
(* The inductive invariant. *)

Interesting == Deferring \cup {"public", "private", "mixed"}

\* Those whose report no exception of their own can lose.
Surely == {"lock", "public", "private", "mixed"}

\* The state's shape.
Typed ==
  /\ procs \in Seq([pid : Pids, dir : Dirs, kind : Commands]) /\ Len(procs) <= MaxProcs
  /\ alive \subseteq DOMAIN procs
  /\ seen \subseteq Identities /\ DOMAIN pending \subseteq Identities
  /\ DOMAIN poll = {"todo", "current", "known", "open"}
  /\ poll.todo \subseteq Pids /\ poll.current \subseteq Identities /\ poll.open \in BOOLEAN
  /\ DOMAIN poll.known \subseteq Pids /\ \A p \in DOMAIN poll.known : poll.known[p] \in Times
  /\ IsABag(sent) /\ DOMAIN sent \subseteq Reports

\* Of the processes that had a pid only the last can be alive, and each ran
\* elsewhere.
Latest == \A m, n \in DOMAIN procs :
  m < n /\ procs[m].pid = procs[n].pid => m \notin alive /\ procs[m].dir # procs[n].dir

\* What an entry of _pending was made from.
EntryFits(id, e) ==
  /\ DOMAIN e = {"proc", "dir", "tag", "scan", "held"}
  /\ e.tag = id[2] /\ e.proc \in DOMAIN procs
  /\ procs[e.proc].pid = id[1] /\ procs[e.proc].dir = e.dir
  /\ procs[e.proc].kind \in Interesting
  /\ e.scan \in BOOLEAN /\ (e.scan => procs[e.proc].kind \in Deferring)
  /\ IsABag(e.held) /\ DOMAIN e.held \subseteq Reports
  /\ \A r \in DOMAIN e.held :
       r.what = "private" /\ r.proc \in DOMAIN procs /\ procs[r.proc].pid = id[1]

\* It waits for its process.
EntryWaits(e) == e.scan \/ \E r \in DOMAIN e.held : r.proc = e.proc
Entries == \A id \in DOMAIN pending : EntryFits(id, pending[id]) /\ EntryWaits(pending[id])

\* No identity has the create_time of a process that has not started.
Past ==
  /\ \A id \in seen \cup DOMAIN pending : id[2] \in DOMAIN procs \cup {None}
  /\ \A p \in DOMAIN poll.known : poll.known[p] \in DOMAIN procs \cup {None}

\* An installer that was seen is awaited or reported.
Noticed == "cwd" \notin Unreadable =>
  \A n \in alive : <<procs[n].pid, n>> \in seen /\ procs[n].kind \in Surely
                     => Awaited(n) \/ Reported(n)

\* No poll is abandoned, and what a poll has seen it sees again.
Steady == NoneAbandons /\ "cmdline" \notin Unreadable

\* A pid has one identity at a time: none twice in a finished poll or in the
\* part walked of the one under way, and in the rest of it the one that
\* known_create_time_by_pid has.
OneEach(ids) == \A x, y \in ids : x[1] = y[1] => x = y
Single ==
  /\ ~poll.open => OneEach(seen)
  /\ OneEach(poll.current)
  /\ \A x \in poll.current : x[1] \notin poll.todo
SingleKnown ==
  /\ poll.open => \A p \in DOMAIN poll.known : <<p, poll.known[p]>> \in seen
  /\ poll.open => \A x \in seen : x[1] \in poll.todo =>
       x[1] \in DOMAIN poll.known /\ poll.known[x[1]] = x[2]

PendingSeen == DOMAIN pending \subseteq seen

\* An entry is of the process that has its identity, and holds that one's reports.
EntryOwn(id, e) ==
  /\ id[2] \in {None, e.proc}
  /\ \A r \in DOMAIN e.held : r.proc = e.proc /\ r.tag \in {None, id[2]} /\ e.held[r] = 1
  /\ e.scan => DOMAIN e.held = {}
Own == \A id \in DOMAIN pending : EntryOwn(id, pending[id])

Unique == \A x, y \in DOMAIN pending : pending[x].proc = pending[y].proc => x = y

\* The reports an entry will make.
ToReport(e) == DOMAIN e.held \cup DOMAIN LockReport(e)
Unsent == \A id \in DOMAIN pending : ToReport(pending[id]) \cap DOMAIN sent = {}
Once == \A r \in DOMAIN sent : sent[r] = 1

\* The identities that the rest of the poll will still find for the pid.
Standing(p) == IF poll.open /\ p \notin poll.todo THEN seen \cap poll.current ELSE seen

\* A report made or to be made keeps the identity of its process from being new.
SpentReport(r) ==
  /\ r.proc \in DOMAIN procs /\ procs[r.proc].kind \in Interesting /\ r.tag \in {None, r.proc}
  /\ r.proc \in alive =>
       \/ <<procs[r.proc].pid, r.proc>> \in Standing(procs[r.proc].pid)
       \/ r.tag = None /\ <<procs[r.proc].pid, None>> \in Standing(procs[r.proc].pid)
SpentSent == \A r \in DOMAIN sent : SpentReport(r)
SpentHeld == \A id \in DOMAIN pending : \A r \in ToReport(pending[id]) : SpentReport(r)

Sound ==
  /\ Single /\ SingleKnown /\ PendingSeen /\ Own /\ Unique
  /\ Unsent /\ Once /\ SpentSent /\ SpentHeld

\* An entry whose process runs is found by the poll under way.
Followed == poll.open => \A id \in DOMAIN pending :
  pending[id].proc \in alive => id[1] \in poll.todo \/ id \in poll.current

Base == Typed /\ Latest /\ Entries /\ Past
Inv ==
  /\ Base /\ Noticed
  /\ Steady => Sound
  /\ NoneAbandons /\ Unreadable \subseteq {"create_time"} => Followed

-----------------------------------------------------------------------------
(* Processes. *)

LEMMA SeqIs ==
  ASSUME NEW S, NEW s \in Seq(S)
  PROVE  Len(s) \in Nat /\ s \in [1 .. Len(s) -> S]
  OBVIOUS

LEMMA ProcsAre ==
  ASSUME Typed
  PROVE  /\ DOMAIN procs \subseteq Procs /\ None \notin DOMAIN procs
         /\ \A n \in DOMAIN procs : /\ n \in Nat /\ procs[n].pid \in Pids /\ procs[n].kind \in Commands
                                    /\ procs[n].dir \in Dirs /\ procs[n].dir # NoDir
<1>1. procs \in Seq([pid : Pids, dir : Dirs, kind : Commands]) /\ Len(procs) \in Nat /\ Len(procs) <= MaxProcs
  BY DEF Typed
<1>2. DOMAIN procs = 1 .. Len(procs)
  BY <1>1
<1>3. DOMAIN procs \subseteq Procs /\ None \notin DOMAIN procs /\ DOMAIN procs \subseteq Nat
  BY <1>1, <1>2, ReuseAssumption DEF Procs, None
<1>4. procs \in [1 .. Len(procs) -> [pid : Pids, dir : Dirs, kind : Commands]]
  BY <1>1, SeqIs
<1>5. \A n \in DOMAIN procs : procs[n] \in [pid : Pids, dir : Dirs, kind : Commands]
  BY <1>2, <1>4
<1> QED BY <1>3, <1>5, DirsAssumption

\* Two processes with one pid, one of them alive.
LEMMA Predecessor ==
  ASSUME Typed, Latest, NEW m \in DOMAIN procs, NEW n \in alive, procs[m].pid = procs[n].pid, m # n
  PROVE  m \notin alive /\ procs[m].dir # procs[n].dir
<1>1. n \in DOMAIN procs /\ m \in Nat /\ n \in Nat
  BY ProcsAre DEF Typed
<1>2. m < n \/ n < m
  BY <1>1
<1> QED BY <1>1, <1>2 DEF Latest

LEMMA Started ==
  ASSUME Typed, NEW p \in Pids, NEW d \in Dirs, NEW k \in Commands, Start(p, d, k)
  PROVE  \E n \in Procs :
           /\ n \notin DOMAIN procs /\ \A m : m \in DOMAIN procs' <=> m \in DOMAIN procs \/ m = n
           /\ \A m : m \in alive' <=> m \in alive \/ m = n
           /\ procs'[n].pid = p /\ procs'[n].dir = d /\ procs'[n].kind = k
           /\ \A m \in DOMAIN procs : procs'[m] = procs[m] /\ m < n
           /\ procs' \in Seq([pid : Pids, dir : Dirs, kind : Commands]) /\ Len(procs') <= MaxProcs
<1> DEFINE n == Len(procs) + 1
<1>1. /\ procs \in Seq([pid : Pids, dir : Dirs, kind : Commands]) /\ Len(procs) < MaxProcs
      /\ procs' = Append(procs, [pid |-> p, dir |-> d, kind |-> k]) /\ alive' = alive \cup {n}
  BY DEF Typed, Start
<1>2. n \in Procs /\ n \notin DOMAIN procs
  BY <1>1, ReuseAssumption DEF Procs
<1>3. /\ \A m : m \in DOMAIN procs' <=> m \in DOMAIN procs \/ m = n
      /\ procs'[n].pid = p /\ procs'[n].dir = d /\ procs'[n].kind = k
      /\ \A m \in DOMAIN procs : procs'[m] = procs[m] /\ m < n
  BY <1>1
<1>4. procs' \in Seq([pid : Pids, dir : Dirs, kind : Commands]) /\ Len(procs') <= MaxProcs
  BY <1>1, ReuseAssumption
<1> QED BY <1>1, <1>2, <1>3, <1>4

-----------------------------------------------------------------------------
(* What visiting a process does. *)

Id(n, miss) == Identity(procs[n].pid, IF "create_time" \in miss THEN None ELSE n)
Dir(n, miss) == IF "cwd" \in miss THEN NoDir ELSE procs[n].dir
Parsed(n, miss) == Id(n, miss) \notin seen /\ "cmdline" \notin miss /\ procs[n].kind # "other"
Old(n) == <<procs[n].pid, None>>
Moves(n, miss) ==
  Id(n, miss)[2] # None /\ Old(n) \in DOMAIN pending /\ pending[Old(n)].dir = Dir(n, miss)
Adds(n, miss) == Parsed(n, miss) /\ Dir(n, miss) # NoDir /\ procs[n].kind \in Deferring
Holds(n, miss) == Parsed(n, miss) /\ Dir(n, miss) # NoDir /\ procs[n].kind \in {"private", "mixed"}

LEMMA IdIs ==
  ASSUME NEW n, NEW miss, n # None
  PROVE  /\ Id(n, miss) = <<procs[n].pid, Id(n, miss)[2]>>
         /\ "create_time" \notin miss => Id(n, miss)[2] = n
         /\ "create_time" \in miss =>
              \/ procs[n].pid \in DOMAIN poll.known /\ Id(n, miss)[2] = poll.known[procs[n].pid]
              \/ procs[n].pid \notin DOMAIN poll.known /\ Id(n, miss)[2] = None
  BY DEF Id, Identity

LEMMA IdTyped ==
  ASSUME Typed, NEW n \in alive, NEW miss
  PROVE  Id(n, miss) \in Identities
<1>1. n \in DOMAIN procs /\ n \in Procs /\ procs[n].pid \in Pids
  BY ProcsAre DEF Typed
<1>2. Id(n, miss)[2] \in Times
  BY <1>1, ProcsAre, IdIs DEF Typed, Times
<1> QED BY <1>1, <1>2, ProcsAre, IdIs DEF Identities

LEMMA Visited ==
  ASSUME Typed, NEW n \in alive, NEW miss \in SUBSET Unreadable, Visit(n, miss)
  PROVE  /\ procs' = procs /\ alive' = alive /\ poll.open /\ procs[n].pid \in poll.todo
         /\ seen' = IF Parsed(n, miss) THEN seen \cup {Id(n, miss)} ELSE seen
         /\ sent' = IF Parsed(n, miss) THEN sent (+) ReportedAtOnce(n, Id(n, miss), Dir(n, miss)) ELSE sent
         /\ pending' = IF Parsed(n, miss)
                         THEN PendingFor(n, Id(n, miss), Dir(n, miss), Migrated(Id(n, miss), Dir(n, miss)))
                         ELSE Migrated(Id(n, miss), Dir(n, miss))
         /\ poll' = IF Parsed(n, miss) /\ procs[n].kind = "broken" THEN Idle
                    ELSE [poll EXCEPT !.todo = @ \ {procs[n].pid}, !.current = @ \cup {Id(n, miss)}]
<1>1. procs' = procs /\ alive' = alive /\ poll.open /\ procs[n].pid \in poll.todo /\ Read(n, procs[n].pid, miss)
  BY DEF Visit, UpNext
<1> QED BY <1>1 DEF Read, Id, Dir, Parsed

LEMMA SeenAfter ==
  ASSUME Typed, NEW n \in alive, NEW miss \in SUBSET Unreadable, Visit(n, miss)
  PROVE  /\ procs' = procs /\ alive' = alive /\ poll.open /\ procs[n].pid \in poll.todo
         /\ \A x : x \in seen' <=> x \in seen \/ (x = Id(n, miss) /\ Parsed(n, miss))
  BY Visited

\* The poll after the visit, unless it is abandoned.
LEMMA PollOn ==
  ASSUME Typed, NEW n \in alive, NEW miss \in SUBSET Unreadable, Visit(n, miss)
  PROVE  \/ poll' = Idle /\ procs[n].kind = "broken"
         \/ /\ DOMAIN poll' = DOMAIN poll /\ poll'.open = poll.open /\ poll'.known = poll.known
            /\ \A p : p \in poll'.todo <=> p \in poll.todo /\ p # procs[n].pid
            /\ \A x : x \in poll'.current <=> x \in poll.current \/ x = Id(n, miss)
<1>1. CASE Parsed(n, miss) /\ procs[n].kind = "broken"
  BY <1>1, Visited
<1>2. CASE ~(Parsed(n, miss) /\ procs[n].kind = "broken")
  <2>1. poll' = [poll EXCEPT !.todo = @ \ {procs[n].pid}, !.current = @ \cup {Id(n, miss)}] /\ poll.open
    BY <1>2, Visited
  <2> QED BY <2>1 DEF Typed
<1> QED BY <1>1, <1>2

LEMMA IdleIs == Idle.todo = {} /\ Idle.current = {} /\ DOMAIN Idle.known = {} /\ Idle.open = FALSE
                /\ DOMAIN Idle = {"todo", "current", "known", "open"}
  BY DEF Idle

\* Where an entry without a create_time moves, the rest stays.
LEMMA MigratedIs ==
  ASSUME NEW n, NEW miss, n # None, NEW T, T = Migrated(Id(n, miss), Dir(n, miss))
  PROVE  /\ ~Moves(n, miss) => T = pending
         /\ Moves(n, miss) =>
              /\ Old(n) # Id(n, miss)
              /\ \A x : x \in DOMAIN T <=> (x \in DOMAIN pending /\ x # Old(n)) \/ x = Id(n, miss)
              /\ T[Id(n, miss)] = [pending[Old(n)] EXCEPT !.tag = Id(n, miss)[2]]
              /\ \A x \in DOMAIN T \ {Id(n, miss)} : T[x] = pending[x]
<1>1. Old(n) = <<Id(n, miss)[1], None>>
  BY IdIs DEF Old
<1>2. CASE ~Moves(n, miss)
  BY <1>1, <1>2 DEF Migrated, Moves
<1>3. CASE Moves(n, miss)
  <2> DEFINE R == Restrict(pending, DOMAIN pending \ {Old(n)})
             e == [pending[Old(n)] EXCEPT !.tag = Id(n, miss)[2]]
  <2>1. T = Put(R, Id(n, miss), e)
    BY <1>1, <1>3 DEF Migrated, Moves
  <2>2. DOMAIN R = DOMAIN pending \ {Old(n)} /\ \A x \in DOMAIN R : R[x] = pending[x]
    BY DEF Restrict
  <2>3. Old(n) # Id(n, miss)
    BY <1>3, IdIs DEF Moves, Old
  <2> HIDE DEF R, e
  <2>4. /\ \A x : x \in DOMAIN T <=> x \in DOMAIN R \/ x = Id(n, miss)
        /\ T[Id(n, miss)] = e
        /\ \A x \in DOMAIN R \ {Id(n, miss)} : T[x] = R[x]
    BY <2>1, PutIs
  <2> QED BY <1>3, <2>1, <2>2, <2>3, <2>4 DEF e
<1> QED BY <1>2, <1>3

\* The entry that a private package's report is held in, before it is.
Existing(n, miss, T) ==
  IF Id(n, miss) \in DOMAIN T THEN T[Id(n, miss)] ELSE Track(n, Dir(n, miss), Id(n, miss)[2], FALSE)

\* An entry that has come to hold a private package's report.
Holding(entry, n, tag) == [entry EXCEPT !.held = @ (+) Named(n, tag, "private")]

\* The table that the visit leaves, T being the one after the migration.
Left(n, miss, T) ==
  IF Parsed(n, miss) THEN PendingFor(n, Id(n, miss), Dir(n, miss), T) ELSE T

LEMMA PendingForIs ==
  ASSUME NEW n, NEW miss, NEW T
  PROVE  \/ Left(n, miss, T) = T /\ ~Adds(n, miss) /\ ~Holds(n, miss)
         \/ Adds(n, miss) /\ Left(n, miss, T) = Put(T, Id(n, miss), Track(n, Dir(n, miss), Id(n, miss)[2], TRUE))
         \/ Holds(n, miss) /\ Left(n, miss, T) = Put(T, Id(n, miss), Holding(Existing(n, miss, T), n, Id(n, miss)[2]))
<1>1. CASE Adds(n, miss)
  <2>1. "private" \notin Specs(procs[n].kind)
    BY <1>1 DEF Adds, Specs, Deferring
  <2> QED BY <1>1, <2>1 DEF Left, PendingFor, Adds
<1>2. CASE Holds(n, miss)
  <2>1. "private" \in Specs(procs[n].kind) /\ procs[n].kind \notin Deferring
    BY <1>2 DEF Holds, Specs, Deferring
  <2>2. PendingFor(n, Id(n, miss), Dir(n, miss), T) = Held(T, Id(n, miss), n, Dir(n, miss))
    BY <1>2, <2>1 DEF Left, Holds, PendingFor
  <2> QED BY <1>2, <2>2 DEF Left, Holds, Held, Existing, Holding
<1>3. CASE ~Adds(n, miss) /\ ~Holds(n, miss) /\ Parsed(n, miss) /\ Dir(n, miss) # NoDir
  <2>1. "private" \notin Specs(procs[n].kind) /\ procs[n].kind \notin Deferring
    BY <1>3 DEF Holds, Adds, Specs, Deferring
  <2> QED BY <1>3, <2>1 DEF Left, PendingFor
<1>4. CASE ~Parsed(n, miss) \/ Dir(n, miss) = NoDir
  BY <1>4 DEF Left, PendingFor, Adds, Holds
<1> QED BY <1>1, <1>2, <1>3, <1>4

\* The entry under the identity read, before the command adds to it.
Prior(n, miss) ==
  IF Moves(n, miss) THEN [pending[Old(n)] EXCEPT !.tag = Id(n, miss)[2]]
  ELSE IF Id(n, miss) \in DOMAIN pending THEN pending[Id(n, miss)]
  ELSE Track(n, Dir(n, miss), Id(n, miss)[2], FALSE)

\* The table after the visit, entry by entry.
LEMMA TableAfter ==
  ASSUME Typed, NEW n \in alive, NEW miss \in SUBSET Unreadable, Visit(n, miss)
  PROVE  /\ \A x : x \in DOMAIN pending' <=>
              \/ x \in DOMAIN pending /\ (Moves(n, miss) => x # Old(n))
              \/ x = Id(n, miss) /\ (Moves(n, miss) \/ Adds(n, miss) \/ Holds(n, miss))
         /\ \A x \in DOMAIN pending' : x # Id(n, miss) => pending'[x] = pending[x]
         /\ Adds(n, miss) => pending'[Id(n, miss)] = Track(n, Dir(n, miss), Id(n, miss)[2], TRUE)
         /\ Holds(n, miss) => pending'[Id(n, miss)] = Holding(Prior(n, miss), n, Id(n, miss)[2])
         /\ ~Adds(n, miss) /\ ~Holds(n, miss) /\ Id(n, miss) \in DOMAIN pending' =>
              pending'[Id(n, miss)] = Prior(n, miss)
<1> DEFINE id == Id(n, miss)
           T == Migrated(id, Dir(n, miss))
           added == Track(n, Dir(n, miss), id[2], TRUE)
           holding == Holding(Existing(n, miss, T), n, id[2])
<1>1. n # None
  BY ProcsAre DEF Typed
<1>2. /\ ~Moves(n, miss) => T = pending
      /\ Moves(n, miss) =>
           /\ Old(n) # id
           /\ \A x : x \in DOMAIN T <=> (x \in DOMAIN pending /\ x # Old(n)) \/ x = id
           /\ T[id] = [pending[Old(n)] EXCEPT !.tag = id[2]]
           /\ \A x \in DOMAIN T \ {id} : T[x] = pending[x]
  BY <1>1, MigratedIs
<1>a. pending' = Left(n, miss, T)
  BY Visited DEF Left
<1> HIDE DEF T
<1>3. \/ pending' = T /\ ~Adds(n, miss) /\ ~Holds(n, miss)
      \/ Adds(n, miss) /\ pending' = Put(T, id, added)
      \/ Holds(n, miss) /\ pending' = Put(T, id, holding)
  BY <1>a, PendingForIs
<1>4. ~(Adds(n, miss) /\ Holds(n, miss))
  BY DEF Adds, Holds, Deferring
<1>5. Existing(n, miss, T) = Prior(n, miss)
  BY <1>2 DEF Existing, Prior
<1> HIDE DEF T, added, holding
<1>6. CASE pending' = T /\ ~Adds(n, miss) /\ ~Holds(n, miss)
  <2>1. CASE Moves(n, miss)
    BY <1>2, <1>6, <2>1 DEF Prior
  <2>2. CASE ~Moves(n, miss)
    BY <1>2, <1>6, <2>2 DEF Prior
  <2> QED BY <2>1, <2>2
<1>7. CASE Adds(n, miss) /\ pending' = Put(T, id, added)
  <2>1. /\ \A x : x \in DOMAIN pending' <=> x \in DOMAIN T \/ x = id
        /\ pending'[id] = added /\ \A x \in DOMAIN T \ {id} : pending'[x] = T[x]
    BY <1>7, PutIs
  <2>2. CASE Moves(n, miss)
    BY <1>2, <1>4, <1>7, <2>1, <2>2 DEF added
  <2>3. CASE ~Moves(n, miss)
    BY <1>2, <1>4, <1>7, <2>1, <2>3 DEF added
  <2> QED BY <2>2, <2>3
<1>8. CASE Holds(n, miss) /\ pending' = Put(T, id, holding)
  <2>1. /\ \A x : x \in DOMAIN pending' <=> x \in DOMAIN T \/ x = id
        /\ pending'[id] = holding /\ \A x \in DOMAIN T \ {id} : pending'[x] = T[x]
    BY <1>8, PutIs
  <2>2. holding = Holding(Prior(n, miss), n, id[2])
    BY <1>5 DEF holding
  <2>3. CASE Moves(n, miss)
    BY <1>2, <1>4, <1>8, <2>1, <2>2, <2>3
  <2>4. CASE ~Moves(n, miss)
    BY <1>2, <1>4, <1>8, <2>1, <2>2, <2>4
  <2> QED BY <2>3, <2>4
<1> QED BY <1>3, <1>6, <1>7, <1>8

\* A directory that was read is the process's own.
LEMMA DirIs ==
  ASSUME NEW n, NEW miss
  PROVE  /\ Dir(n, miss) # NoDir => Dir(n, miss) = procs[n].dir
         /\ "cwd" \notin miss => Dir(n, miss) = procs[n].dir
  BY DEF Dir

\* What the entry's process is, whichever way it was made.
LEMMA PriorFits ==
  ASSUME Typed, Entries, NEW n \in alive, NEW miss \in SUBSET Unreadable,
         Holds(n, miss) \/ Moves(n, miss) \/ Id(n, miss) \in DOMAIN pending
  PROVE  EntryFits(Id(n, miss), Prior(n, miss))
<1> DEFINE id == Id(n, miss)
<1>1. n # None /\ n \in DOMAIN procs
  BY ProcsAre DEF Typed
<1>2. id[1] = procs[n].pid
  BY <1>1, IdIs
<1>3. CASE Moves(n, miss)
  <2> DEFINE e == pending[Old(n)]
  <2>1. EntryFits(Old(n), e) /\ Prior(n, miss) = [e EXCEPT !.tag = id[2]]
    BY <1>3 DEF Entries, Moves, Prior
  <2>2. "tag" \in DOMAIN e /\ Old(n)[1] = id[1]
    BY <1>2, <2>1 DEF EntryFits, Old
  <2> HIDE DEF e, id
  <2>3. /\ DOMAIN Prior(n, miss) = DOMAIN e /\ Prior(n, miss).tag = id[2]
        /\ Prior(n, miss).proc = e.proc /\ Prior(n, miss).dir = e.dir
        /\ Prior(n, miss).scan = e.scan /\ Prior(n, miss).held = e.held
    BY <2>1, <2>2 DEF EntryFits
  <2> QED BY <2>1, <2>2, <2>3 DEF EntryFits, id
<1>4. CASE ~Moves(n, miss) /\ id \in DOMAIN pending
  BY <1>4 DEF Prior, Entries
<1>5. CASE ~Moves(n, miss) /\ id \notin DOMAIN pending /\ Holds(n, miss)
  <2>1. Prior(n, miss) = Track(n, Dir(n, miss), id[2], FALSE)
    BY <1>5 DEF Prior
  <2>2. procs[n].kind \in Interesting /\ Dir(n, miss) = procs[n].dir
    BY <1>5, DirIs DEF Holds, Interesting
  <2> QED BY <1>1, <1>2, <2>1, <2>2, EmptyBagIs DEF EntryFits, Track
<1> QED BY <1>3, <1>4, <1>5

LEMMA PriorWaits ==
  ASSUME Typed, Entries, NEW n \in alive, NEW miss \in SUBSET Unreadable,
         Moves(n, miss) \/ Id(n, miss) \in DOMAIN pending
  PROVE  EntryWaits(Prior(n, miss))
<1>1. CASE Moves(n, miss)
  <2> DEFINE e == pending[Old(n)]
  <2>1. EntryWaits(e) /\ EntryFits(Old(n), e) /\ Prior(n, miss) = [e EXCEPT !.tag = Id(n, miss)[2]]
    BY <1>1 DEF Entries, Moves, Prior
  <2> HIDE DEF e
  <2>2. Prior(n, miss).scan = e.scan /\ Prior(n, miss).held = e.held /\ Prior(n, miss).proc = e.proc
    BY <2>1 DEF EntryFits
  <2> QED BY <2>1, <2>2 DEF EntryWaits
<1>2. CASE ~Moves(n, miss) /\ Id(n, miss) \in DOMAIN pending
  BY <1>2 DEF Prior, Entries
<1> QED BY <1>1, <1>2

\* A report that comes to be held.
LEMMA HeldMore ==
  ASSUME NEW e, NEW n, NEW tag, NEW f, DOMAIN e = {"proc", "dir", "tag", "scan", "held"}, IsABag(e.held),
         f = Holding(e, n, tag)
  PROVE  /\ DOMAIN f = DOMAIN e /\ f.proc = e.proc /\ f.dir = e.dir /\ f.tag = e.tag /\ f.scan = e.scan
         /\ IsABag(f.held)
         /\ \A r : r \in DOMAIN f.held <=> r \in DOMAIN e.held \/ r \in DOMAIN Named(n, tag, "private")
         /\ \A r \in DOMAIN e.held \ DOMAIN Named(n, tag, "private") : f.held[r] = e.held[r]
         /\ \A r \in DOMAIN Named(n, tag, "private") \ DOMAIN e.held : f.held[r] = 1
<1>1. /\ DOMAIN f = DOMAIN e /\ f.proc = e.proc /\ f.dir = e.dir /\ f.tag = e.tag /\ f.scan = e.scan
      /\ f.held = e.held (+) Named(n, tag, "private")
  BY DEF Holding
<1>2. /\ IsABag(f.held)
      /\ \A r : r \in DOMAIN f.held <=> r \in DOMAIN e.held \/ r \in DOMAIN Named(n, tag, "private")
      /\ \A r \in DOMAIN e.held \ DOMAIN Named(n, tag, "private") : f.held[r] = e.held[r]
      /\ \A r \in DOMAIN Named(n, tag, "private") \ DOMAIN e.held : f.held[r] = Named(n, tag, "private")[r]
  BY <1>1, NamedIs, Together
<1> QED BY <1>1, <1>2, NamedIs

LEMMA AfterFits ==
  ASSUME Typed, Entries, NEW n \in alive, NEW miss \in SUBSET Unreadable, Visit(n, miss),
         Id(n, miss) \in DOMAIN pending'
  PROVE  EntryFits(Id(n, miss), pending'[Id(n, miss)]) /\ EntryWaits(pending'[Id(n, miss)])
<1> DEFINE id == Id(n, miss)
<1>1. n # None /\ n \in DOMAIN procs /\ n \in Procs
  BY ProcsAre DEF Typed
<1>2. id[1] = procs[n].pid /\ id[2] \in Times
  BY <1>1, IdIs, IdTyped DEF Identities
<1>3. CASE Adds(n, miss)
  <2>1. pending'[id] = Track(n, Dir(n, miss), id[2], TRUE)
    BY <1>3, TableAfter
  <2>2. procs[n].kind \in Interesting /\ procs[n].kind \in Deferring /\ Dir(n, miss) = procs[n].dir
    BY <1>3, DirIs DEF Adds, Interesting
  <2> QED BY <1>1, <1>2, <2>1, <2>2, EmptyBagIs DEF EntryFits, EntryWaits, Track
<1>4. CASE Holds(n, miss)
  <2> DEFINE e == Prior(n, miss)
             f == pending'[id]
  <2>1. f = Holding(e, n, id[2])
    BY <1>4, TableAfter
  <2>2. EntryFits(id, e)
    BY <1>4, PriorFits
  <2> HIDE DEF e, f
  <2>3. /\ DOMAIN f = DOMAIN e /\ f.proc = e.proc /\ f.dir = e.dir /\ f.tag = e.tag /\ f.scan = e.scan
        /\ IsABag(f.held)
        /\ \A r : r \in DOMAIN f.held <=> r \in DOMAIN e.held \/ r \in DOMAIN Named(n, id[2], "private")
    BY <2>1, <2>2, HeldMore DEF EntryFits
  <2>4. \A r \in DOMAIN Named(n, id[2], "private") :
          r.what = "private" /\ r \in Reports /\ r.proc = n
    BY <1>1, <1>2, NamedIs, NamedTyped
  <2>5. EntryFits(id, f)
    BY <1>1, <1>2, <2>2, <2>3, <2>4 DEF EntryFits
  <2>6. EntryWaits(f)
    <3>1. CASE id \notin DOMAIN pending /\ ~Moves(n, miss)
      <4>1. e.proc = n
        BY <3>1 DEF e, Prior, Track
      <4>2. \E r \in DOMAIN Named(n, id[2], "private") : r.proc = n
        BY <1>4, NamedIs DEF Holds, Specs
      <4> QED BY <2>3, <4>1, <4>2 DEF EntryWaits
    <3>2. CASE id \in DOMAIN pending \/ Moves(n, miss)
      <4>1. EntryWaits(e)
        BY <3>2, PriorWaits DEF e
      <4> QED BY <2>3, <4>1 DEF EntryWaits
    <3> QED BY <3>1, <3>2
  <2> QED BY <2>5, <2>6 DEF f
<1>5. CASE ~Adds(n, miss) /\ ~Holds(n, miss)
  <2>1. pending'[id] = Prior(n, miss) /\ (Moves(n, miss) \/ id \in DOMAIN pending)
    BY <1>5, TableAfter
  <2> QED BY <2>1, PriorFits, PriorWaits
<1> QED BY <1>3, <1>4, <1>5

\* What is reported at once.
LEMMA AtOnceIs ==
  ASSUME NEW n, NEW id, NEW dir
  PROVE  /\ IsABag(ReportedAtOnce(n, id, dir))
         /\ \A r \in DOMAIN ReportedAtOnce(n, id, dir) :
              /\ r.proc = n /\ r.tag = id[2] /\ r.what \in Specs(procs[n].kind)
              /\ r.what = "public" \/ (r.what = "private" /\ dir = NoDir)
              /\ ReportedAtOnce(n, id, dir)[r] = 1
         /\ "public" \in Specs(procs[n].kind) =>
              \E r \in DOMAIN ReportedAtOnce(n, id, dir) : r.proc = n
<1> DEFINE P == Named(n, id[2], "public")
           Q == IF dir = NoDir THEN Named(n, id[2], "private") ELSE EmptyBag
<1>1. ReportedAtOnce(n, id, dir) = P (+) Q
  BY DEF ReportedAtOnce
<1>2. /\ IsABag(P)
      /\ \A r \in DOMAIN P : r.proc = n /\ r.tag = id[2] /\ r.what = "public"
                             /\ r.what \in Specs(procs[n].kind) /\ P[r] = 1
      /\ "public" \in Specs(procs[n].kind) => \E r \in DOMAIN P : r.proc = n
  BY NamedIs
<1>3. /\ IsABag(Q)
      /\ \A r \in DOMAIN Q : r.proc = n /\ r.tag = id[2] /\ r.what = "private" /\ dir = NoDir
                             /\ r.what \in Specs(procs[n].kind) /\ Q[r] = 1
  BY NamedIs, EmptyBagIs
<1> HIDE DEF P, Q
<1>4. /\ IsABag(P (+) Q) /\ \A r : r \in DOMAIN (P (+) Q) <=> r \in DOMAIN P \/ r \in DOMAIN Q
      /\ \A r \in DOMAIN P \ DOMAIN Q : (P (+) Q)[r] = P[r]
      /\ \A r \in DOMAIN Q \ DOMAIN P : (P (+) Q)[r] = Q[r]
  BY <1>2, <1>3, Together
<1>5. \A r \in DOMAIN P : r \notin DOMAIN Q
  BY <1>2, <1>3
<1> QED BY <1>1, <1>2, <1>3, <1>4, <1>5

LEMMA AtOnceTyped ==
  ASSUME NEW n \in Procs, NEW id \in Identities, NEW dir
  PROVE  DOMAIN ReportedAtOnce(n, id, dir) \subseteq Reports
<1> DEFINE P == Named(n, id[2], "public")
           Q == IF dir = NoDir THEN Named(n, id[2], "private") ELSE EmptyBag
<1>1. IsABag(P) /\ IsABag(Q)
  BY NamedIs, EmptyBagIs
<1>2. id[2] \in Times
  BY DEF Identities
<1>3. DOMAIN P \subseteq Reports /\ DOMAIN Q \subseteq Reports
  BY <1>2, NamedTyped, EmptyBagIs
<1>4. ReportedAtOnce(n, id, dir) = P (+) Q
  BY DEF ReportedAtOnce
<1> HIDE DEF P, Q
<1> QED BY <1>1, <1>3, <1>4, Together

LEMMA SentAfter ==
  ASSUME Typed, NEW n \in alive, NEW miss \in SUBSET Unreadable, Visit(n, miss)
  PROVE  /\ IsABag(sent') /\ DOMAIN sent' \subseteq Reports /\ DOMAIN sent \subseteq DOMAIN sent'
         /\ ~Parsed(n, miss) => sent' = sent
         /\ \A r \in DOMAIN sent' \ DOMAIN sent :
              /\ Parsed(n, miss) /\ r.proc = n /\ r.tag = Id(n, miss)[2] /\ r.what \in Specs(procs[n].kind)
              /\ r.what = "public" \/ (r.what = "private" /\ Dir(n, miss) = NoDir)
              /\ sent'[r] = 1
         /\ \A r \in DOMAIN sent : sent'[r] = sent[r] \/
              /\ Parsed(n, miss) /\ r.proc = n /\ r.tag = Id(n, miss)[2] /\ r.what \in Specs(procs[n].kind)
              /\ r.what = "public" \/ (r.what = "private" /\ Dir(n, miss) = NoDir)
         /\ Parsed(n, miss) /\ "public" \in Specs(procs[n].kind) => \E r \in DOMAIN sent' : r.proc = n
<1>1. n \in Procs /\ Id(n, miss) \in Identities
  BY ProcsAre, IdTyped DEF Typed
<1>2. CASE ~Parsed(n, miss)
  BY <1>2, Visited DEF Typed
<1>3. CASE Parsed(n, miss)
  <2> DEFINE R == ReportedAtOnce(n, Id(n, miss), Dir(n, miss))
  <2>1. sent' = sent (+) R /\ IsABag(sent) /\ DOMAIN sent \subseteq Reports
    BY <1>3, Visited DEF Typed
  <2>2. /\ IsABag(R) /\ DOMAIN R \subseteq Reports
        /\ \A r \in DOMAIN R :
              /\ r.proc = n /\ r.tag = Id(n, miss)[2] /\ r.what \in Specs(procs[n].kind)
              /\ r.what = "public" \/ (r.what = "private" /\ Dir(n, miss) = NoDir)
              /\ R[r] = 1
        /\ "public" \in Specs(procs[n].kind) => \E r \in DOMAIN R : r.proc = n
    BY <1>1, AtOnceIs, AtOnceTyped
  <2> HIDE DEF R
  <2>3. /\ IsABag(sent') /\ \A r : r \in DOMAIN sent' <=> r \in DOMAIN sent \/ r \in DOMAIN R
        /\ \A r \in DOMAIN sent \ DOMAIN R : sent'[r] = sent[r]
        /\ \A r \in DOMAIN R \ DOMAIN sent : sent'[r] = R[r]
    BY <2>1, <2>2, Together
  <2> QED BY <1>3, <2>1, <2>2, <2>3
<1> QED BY <1>2, <1>3

\* What finishing an entry does.
LEMMA Finishing ==
  ASSUME Typed, Entries, NEW id \in DOMAIN pending, Finish(id) \/ FinishBroken(id)
  PROVE  /\ procs' = procs /\ alive' = alive /\ seen' = seen
         /\ poll' = poll \/ (poll' = Idle /\ procs[pending[id].proc].kind = "faulty")
         /\ Walked /\ id \notin poll.current
         /\ \A x : x \in DOMAIN pending' <=> x \in DOMAIN pending /\ x # id
         /\ \A x \in DOMAIN pending' : pending'[x] = pending[x]
         /\ IsABag(sent') /\ DOMAIN sent' \subseteq Reports
         /\ DOMAIN sent \subseteq DOMAIN sent'
         /\ \A r \in DOMAIN sent' : r \in DOMAIN sent \/ r \in ToReport(pending[id])
         /\ \A r \in DOMAIN pending[id].held : r \in DOMAIN sent'
         /\ procs[pending[id].proc].kind # "faulty" =>
              \A r \in DOMAIN LockReport(pending[id]) : r \in DOMAIN sent'
         /\ \A r \in DOMAIN sent : r \notin ToReport(pending[id]) => sent'[r] = sent[r]
         /\ \A r \in DOMAIN pending[id].held : r \notin DOMAIN sent => sent'[r] = pending[id].held[r]
         /\ \A r \in DOMAIN LockReport(pending[id]) :
              r \in DOMAIN sent' /\ r \notin DOMAIN sent => sent'[r] = 1
<1> DEFINE H == pending[id].held
           L == LockReport(pending[id])
<1>1. /\ procs' = procs /\ alive' = alive /\ seen' = seen
      /\ poll' = poll \/ (poll' = Idle /\ procs[pending[id].proc].kind = "faulty")
      /\ Walked /\ id \notin poll.current
      /\ \/ sent' = (sent (+) H) (+) L
         \/ sent' = sent (+) H /\ procs[pending[id].proc].kind = "faulty"
      /\ pending' = Restrict(pending, DOMAIN pending \ {id})
  BY DEF Finish, FinishBroken, Finished
<1>2. /\ \A x : x \in DOMAIN pending' <=> x \in DOMAIN pending /\ x # id
      /\ \A x \in DOMAIN pending' : pending'[x] = pending[x]
  BY <1>1 DEF Restrict
<1>3. EntryFits(id, pending[id]) /\ id \in Identities
  BY DEF Entries, Typed
<1>4. pending[id].proc \in Procs /\ pending[id].tag \in Times
  BY <1>3, ProcsAre DEF EntryFits, Identities
<1>5. /\ IsABag(H) /\ DOMAIN H \subseteq Reports /\ IsABag(L) /\ DOMAIN L \subseteq Reports
      /\ \A r \in DOMAIN L : r.what = "lock" /\ L[r] = 1
      /\ \A r \in DOMAIN H : r.what = "private"
      /\ IsABag(sent) /\ DOMAIN sent \subseteq Reports
  BY <1>3, <1>4, LockReportIs, LockReportTyped DEF EntryFits, Typed
<1>6. \A r : r \in ToReport(pending[id]) <=> r \in DOMAIN H \/ r \in DOMAIN L
  BY DEF ToReport
<1> DEFINE S == sent (+) H
<1> HIDE DEF H, L
<1>7. /\ IsABag(S) /\ \A r : r \in DOMAIN S <=> r \in DOMAIN sent \/ r \in DOMAIN H
      /\ \A r \in DOMAIN sent \ DOMAIN H : S[r] = sent[r]
      /\ \A r \in DOMAIN H \ DOMAIN sent : S[r] = H[r]
  BY <1>5, Together
<1>8. sent' = S (+) L \/ (sent' = S /\ procs[pending[id].proc].kind = "faulty")
  BY <1>1
<1> HIDE DEF S
<1>9. /\ IsABag(S (+) L) /\ \A r : r \in DOMAIN (S (+) L) <=> r \in DOMAIN S \/ r \in DOMAIN L
      /\ \A r \in DOMAIN S \ DOMAIN L : (S (+) L)[r] = S[r]
      /\ \A r \in DOMAIN L \ DOMAIN S : (S (+) L)[r] = L[r]
  BY <1>5, <1>7, Together
<1>10. \A r \in DOMAIN H : r \notin DOMAIN L
  BY <1>5
<1> DEFINE Both == /\ IsABag(sent') /\ DOMAIN sent' \subseteq Reports
                   /\ DOMAIN sent \subseteq DOMAIN sent'
                   /\ \A r \in DOMAIN sent' : r \in DOMAIN sent \/ r \in DOMAIN H \/ r \in DOMAIN L
                   /\ \A r \in DOMAIN H : r \in DOMAIN sent'
                   /\ procs[pending[id].proc].kind # "faulty" => \A r \in DOMAIN L : r \in DOMAIN sent'
                   /\ \A r \in DOMAIN sent : r \notin DOMAIN H /\ r \notin DOMAIN L => sent'[r] = sent[r]
                   /\ \A r \in DOMAIN H : r \notin DOMAIN sent => sent'[r] = H[r]
                   /\ \A r \in DOMAIN L : r \in DOMAIN sent' /\ r \notin DOMAIN sent => sent'[r] = 1
<1>11. ASSUME sent' = S (+) L PROVE Both
  BY <1>5, <1>7, <1>9, <1>10, <1>11
<1>12. ASSUME sent' = S, procs[pending[id].proc].kind = "faulty" PROVE Both
  BY <1>5, <1>7, <1>10, <1>12
<1>13. Both
  BY <1>8, <1>11, <1>12
<1> QED BY <1>1, <1>2, <1>6, <1>13 DEF H, L

-----------------------------------------------------------------------------
(* The steps of a poll besides a visit. *)

LEMMA Polled ==
  ASSUME Typed, StartPoll
  PROVE  /\ UNCHANGED <<procs, alive, seen, pending, sent>> /\ ~poll.open
         /\ DOMAIN poll' = DOMAIN poll /\ poll'.open = TRUE /\ \A x : x \notin poll'.current
         /\ \A p : p \in poll'.todo <=> \E n \in alive : procs[n].pid = p
         /\ \A p \in DOMAIN poll'.known : p \in Pids /\ poll'.known[p] \in KnownTimes(p)
         /\ \A p \in Pids : KnownTimes(p) # {} => p \in DOMAIN poll'.known
<1>1. PICK table \in KnownTables :
        poll' = [todo |-> {procs[n].pid : n \in alive}, current |-> {}, known |-> table, open |-> TRUE]
  BY DEF StartPoll
<1> DEFINE known == {p \in Pids : KnownTimes(p) # {}}
<1>2. table \in [known -> Times] /\ \A p \in known : table[p] \in KnownTimes(p)
  BY DEF KnownTables
<1>3. DOMAIN table = known
  BY <1>2
<1>4. poll'.known = table /\ poll'.open = TRUE /\ poll'.current = {} /\ poll'.todo = {procs[n].pid : n \in alive}
  BY <1>1
<1>5. \A p \in DOMAIN poll'.known : p \in Pids /\ poll'.known[p] \in KnownTimes(p)
  BY <1>2, <1>3, <1>4
<1>6. \A p \in Pids : KnownTimes(p) # {} => p \in DOMAIN poll'.known
  BY <1>3, <1>4
<1>7. DOMAIN poll' = DOMAIN poll
  BY <1>1 DEF Typed
<1>8. UNCHANGED <<procs, alive, seen, pending, sent>> /\ ~poll.open
  BY DEF StartPoll
<1> QED BY <1>4, <1>5, <1>6, <1>7, <1>8

LEMMA KnownIs ==
  ASSUME NEW p, NEW t
  PROVE  /\ t \in KnownTimes(p) => t \in Times /\ (<<p, t>> \in seen \/ <<p, t>> \in DOMAIN pending)
         /\ t \in KnownTimes(p) /\ TimesOf(p, seen) # {} => <<p, t>> \in seen
         /\ t \in Times /\ <<p, t>> \in seen => KnownTimes(p) # {}
  BY DEF KnownTimes, TimesOf

LEMMA Skipped ==
  ASSUME Typed, NEW p, Vanished(p)
  PROVE  /\ UNCHANGED <<procs, alive, seen, pending, sent>> /\ poll.open /\ p \in poll.todo /\ ~Busy(p)
         /\ DOMAIN poll' = DOMAIN poll /\ poll'.open = poll.open /\ poll'.known = poll.known
         /\ poll'.current = poll.current
         /\ \A q : q \in poll'.todo <=> q \in poll.todo /\ q # p
  BY DEF Typed, Vanished, UpNext

-----------------------------------------------------------------------------
(* The part of the invariant that holds whatever fails. *)

LEMMA TypedNext ==
  ASSUME Typed, Entries, [Next]_vars
  PROVE  Typed'
<1>1. ASSUME NEW p \in Pids, NEW d \in Dirs, NEW k \in Commands, Start(p, d, k) PROVE Typed'
  BY <1>1, Started DEF Start, Typed
<1>2. ASSUME NEW n \in alive, Exit(n) PROVE Typed'
  BY <1>2 DEF Exit, Typed
<1>3. ASSUME StartPoll PROVE Typed'
  <2>1. \A n \in alive : procs[n].pid \in Pids
    BY ProcsAre DEF Typed
  <2>3. poll'.todo \subseteq Pids
    BY <1>3, <2>1, Polled
  <2>2. \A p \in DOMAIN poll'.known : poll'.known[p] \in Times
    BY <1>3, Polled, KnownIs
  <2> QED BY <1>3, <2>2, <2>3, Polled DEF Typed
<1>4. ASSUME NEW n \in alive, NEW miss \in SUBSET Unreadable, Visit(n, miss) PROVE Typed'
  <2>1. Id(n, miss) \in Identities /\ procs' = procs /\ alive' = alive
    BY <1>4, IdTyped, SeenAfter
  <2>2. seen' \subseteq Identities
    BY <1>4, <2>1, SeenAfter DEF Typed
  <2>3. DOMAIN pending' \subseteq Identities
    BY <1>4, <2>1, TableAfter DEF Typed
  <2>4. IsABag(sent') /\ DOMAIN sent' \subseteq Reports
    BY <1>4, SentAfter
  <2>5. CASE poll' = Idle
    BY <2>1, <2>2, <2>3, <2>4, <2>5, IdleIs DEF Typed
  <2>6. CASE /\ DOMAIN poll' = DOMAIN poll /\ poll'.open = poll.open /\ poll'.known = poll.known
             /\ \A p : p \in poll'.todo <=> p \in poll.todo /\ p # procs[n].pid
             /\ \A x : x \in poll'.current <=> x \in poll.current \/ x = Id(n, miss)
    BY <1>4, <2>1, <2>2, <2>3, <2>4, <2>6, SeenAfter DEF Typed
  <2> QED BY <1>4, <2>5, <2>6, PollOn
<1>5. ASSUME NEW p \in Pids, Vanished(p) PROVE Typed'
  BY <1>5, Skipped DEF Vanished, Typed
<1>6. ASSUME NEW id \in DOMAIN pending, Finish(id) \/ FinishBroken(id) PROVE Typed'
  BY <1>6, Finishing, IdleIs DEF Typed
<1>7. ASSUME EndPoll PROVE Typed'
  BY <1>7, IdleIs DEF EndPoll, Typed
<1>8. ASSUME UNCHANGED vars PROVE Typed'
  BY <1>8 DEF vars, Typed
<1> QED BY <1>1, <1>2, <1>3, <1>4, <1>5, <1>6, <1>7, <1>8 DEF Next, Monitor

LEMMA LatestNext ==
  ASSUME Typed, Latest, [Next]_vars
  PROVE  Latest'
<1>1. ASSUME NEW p \in Pids, NEW d \in Dirs, NEW k \in Commands, Start(p, d, k) PROVE Latest'
  <2>1. PICK n \in Procs :
          /\ n \notin DOMAIN procs /\ \A m : m \in DOMAIN procs' <=> m \in DOMAIN procs \/ m = n
          /\ \A m : m \in alive' <=> m \in alive \/ m = n
          /\ procs'[n].pid = p /\ procs'[n].dir = d /\ procs'[n].kind = k
          /\ \A m \in DOMAIN procs : procs'[m] = procs[m] /\ m < n
    BY <1>1, Started
  <2>2. \A m \in DOMAIN procs : procs[m].pid = p => m \notin alive /\ procs[m].dir # d
    BY <1>1 DEF Start, PidFree, Busy
  <2>3. \A m \in DOMAIN procs : m \in Nat /\ n \in Nat /\ ~(n < m)
    BY <2>1, ProcsAre DEF Procs
  <2>4. ~(n < n)
    BY DEF Procs
  <2>5. \A i, j \in DOMAIN procs' : i < j /\ procs'[i].pid = procs'[j].pid =>
           i \notin alive' /\ procs'[i].dir # procs'[j].dir
    <3> SUFFICES ASSUME NEW i \in DOMAIN procs', NEW j \in DOMAIN procs', i < j, procs'[i].pid = procs'[j].pid
                 PROVE  i \notin alive' /\ procs'[i].dir # procs'[j].dir
      OBVIOUS
    <3>1. i \in DOMAIN procs
      BY <2>1, <2>3, <2>4
    <3>2. CASE j = n
      BY <2>1, <2>2, <3>1, <3>2
    <3>3. CASE j \in DOMAIN procs
      BY <2>1, <3>1, <3>3 DEF Latest
    <3> QED BY <2>1, <3>2, <3>3
  <2> QED BY <2>5 DEF Latest
<1>2. ASSUME NEW n \in alive, Exit(n) PROVE Latest'
  BY <1>2 DEF Exit, Latest
<1>3. ASSUME StartPoll PROVE Latest'
  BY <1>3, Polled DEF StartPoll, Latest
<1>4. ASSUME NEW n \in alive, NEW miss \in SUBSET Unreadable, Visit(n, miss) PROVE Latest'
  BY <1>4, SeenAfter DEF Latest
<1>5. ASSUME NEW p \in Pids, Vanished(p) PROVE Latest'
  BY <1>5, Skipped DEF Vanished, Latest
<1>6. ASSUME NEW id \in DOMAIN pending, Finish(id) \/ FinishBroken(id) PROVE Latest'
  BY <1>6 DEF Finish, FinishBroken, Latest
<1>7. ASSUME EndPoll PROVE Latest'
  BY <1>7, IdleIs DEF EndPoll, Latest
<1>8. ASSUME UNCHANGED vars PROVE Latest'
  BY <1>8 DEF vars, Latest
<1> QED BY <1>1, <1>2, <1>3, <1>4, <1>5, <1>6, <1>7, <1>8 DEF Next, Monitor

LEMMA EntriesNext ==
  ASSUME Typed, Entries, [Next]_vars
  PROVE  Entries'
<1>1. ASSUME NEW p \in Pids, NEW d \in Dirs, NEW k \in Commands, Start(p, d, k) PROVE Entries'
  <2>1. PICK n \in Procs :
          /\ \A m : m \in DOMAIN procs' <=> m \in DOMAIN procs \/ m = n
          /\ \A m \in DOMAIN procs : procs'[m] = procs[m]
    BY <1>1, Started
  <2>2. pending' = pending
    BY <1>1 DEF Start
  <2> QED BY <2>1, <2>2 DEF Entries, EntryFits, EntryWaits
<1>2. ASSUME NEW n \in alive, Exit(n) PROVE Entries'
  BY <1>2 DEF Exit, Entries, EntryFits, EntryWaits
<1>3. ASSUME StartPoll PROVE Entries'
  BY <1>3, Polled DEF StartPoll, Entries, EntryFits, EntryWaits
<1>4. ASSUME NEW n \in alive, NEW miss \in SUBSET Unreadable, Visit(n, miss) PROVE Entries'
  <2>1. \A x \in DOMAIN pending' : EntryFits(x, pending'[x]) /\ EntryWaits(pending'[x])
    <3> SUFFICES ASSUME NEW x \in DOMAIN pending' PROVE EntryFits(x, pending'[x]) /\ EntryWaits(pending'[x])
      OBVIOUS
    <3>1. CASE x = Id(n, miss)
      BY <1>4, <3>1, AfterFits
    <3>2. CASE x # Id(n, miss)
      <4>1. x \in DOMAIN pending /\ pending'[x] = pending[x]
        BY <1>4, <3>2, TableAfter
      <4> QED BY <4>1 DEF Entries
    <3> QED BY <3>1, <3>2
  <2> QED BY <1>4, <2>1, SeenAfter DEF Entries, EntryFits, EntryWaits
<1>5. ASSUME NEW p \in Pids, Vanished(p) PROVE Entries'
  BY <1>5, Skipped DEF Vanished, Entries, EntryFits, EntryWaits
<1>6. ASSUME NEW id \in DOMAIN pending, Finish(id) \/ FinishBroken(id) PROVE Entries'
  BY <1>6, Finishing, IdleIs DEF Entries, EntryFits, EntryWaits
<1>7. ASSUME EndPoll PROVE Entries'
  BY <1>7, IdleIs DEF EndPoll, Entries, EntryFits, EntryWaits
<1>8. ASSUME UNCHANGED vars PROVE Entries'
  BY <1>8 DEF vars, Entries, EntryFits, EntryWaits
<1> QED BY <1>1, <1>2, <1>3, <1>4, <1>5, <1>6, <1>7, <1>8 DEF Next, Monitor

LEMMA PastNext ==
  ASSUME Typed, Entries, Past, [Next]_vars
  PROVE  Past'
<1>1. ASSUME NEW p \in Pids, NEW d \in Dirs, NEW k \in Commands, Start(p, d, k) PROVE Past'
  BY <1>1, Started DEF Start, Past
<1>2. ASSUME NEW n \in alive, Exit(n) PROVE Past'
  BY <1>2 DEF Exit, Past
<1>3. ASSUME StartPoll PROVE Past'
  <2>1. ASSUME NEW p \in DOMAIN poll'.known PROVE poll'.known[p] \in DOMAIN procs \cup {None}
    <3> DEFINE t == poll'.known[p]
    <3>1. <<p, t>> \in seen \/ <<p, t>> \in DOMAIN pending
      BY <1>3, Polled, KnownIs
    <3>2. <<p, t>>[2] = t
      OBVIOUS
    <3> QED BY <3>1, <3>2 DEF Past
  <2> QED BY <1>3, <2>1, Polled DEF Past
<1>4. ASSUME NEW n \in alive, NEW miss \in SUBSET Unreadable, Visit(n, miss) PROVE Past'
  <2>1. n \in DOMAIN procs /\ n # None
    BY <1>4, ProcsAre DEF Typed
  <2>2. Id(n, miss)[2] \in DOMAIN procs \cup {None}
    BY <2>1, IdIs DEF Past
  <2>3. \A x \in seen' \cup DOMAIN pending' : x \in seen \/ x \in DOMAIN pending \/ x = Id(n, miss)
    BY <1>4, SeenAfter, TableAfter
  <2>4. DOMAIN poll'.known = {} \/ poll'.known = poll.known
    BY <1>4, PollOn, IdleIs
  <2>5. procs' = procs
    BY <1>4, SeenAfter
  <2> QED BY <2>2, <2>3, <2>4, <2>5 DEF Past
<1>5. ASSUME NEW p \in Pids, Vanished(p) PROVE Past'
  BY <1>5, Skipped DEF Vanished, Past
<1>6. ASSUME NEW id \in DOMAIN pending, Finish(id) \/ FinishBroken(id) PROVE Past'
  BY <1>6, Finishing, IdleIs DEF Past
<1>7. ASSUME EndPoll PROVE Past'
  BY <1>7, IdleIs DEF EndPoll, Past
<1>8. ASSUME UNCHANGED vars PROVE Past'
  BY <1>8 DEF vars, Past
<1> QED BY <1>1, <1>2, <1>3, <1>4, <1>5, <1>6, <1>7, <1>8 DEF Next, Monitor


\* Reading an installer that something is made of makes it awaited.
LEMMA ChangedIsAwaited ==
  ASSUME Typed, Latest, Entries, NEW n \in alive, NEW miss \in SUBSET Unreadable, Visit(n, miss),
         Adds(n, miss) \/ Holds(n, miss) \/ Moves(n, miss)
  PROVE  Awaited(n)'
<1> DEFINE id == Id(n, miss)
<1>1. id \in DOMAIN pending'
  BY TableAfter
<1>2. n \in DOMAIN procs /\ n # None
  BY ProcsAre DEF Typed
<1>3. CASE Adds(n, miss)
  <2>1. pending'[id] = Track(n, Dir(n, miss), id[2], TRUE)
    BY <1>3, TableAfter
  <2>2. pending'[id].scan /\ pending'[id].proc = n
    BY <2>1 DEF Track
  <2> QED BY <1>1, <2>2 DEF Awaited
<1>4. CASE Holds(n, miss)
  <2> DEFINE e == Prior(n, miss)
             f == pending'[id]
  <2>1. f = Holding(e, n, id[2]) /\ EntryFits(id, e)
    BY <1>4, TableAfter, PriorFits
  <2>2. \E r \in DOMAIN Named(n, id[2], "private") : r.proc = n
    BY <1>4, NamedIs DEF Holds, Specs
  <2> HIDE DEF e
  <2>3. \E r \in DOMAIN f.held : r.proc = n
    BY <2>1, <2>2, HeldMore DEF EntryFits
  <2> QED BY <1>1, <2>3 DEF Awaited
<1>5. CASE Moves(n, miss) /\ ~Adds(n, miss) /\ ~Holds(n, miss)
  <2> DEFINE e == pending[Old(n)]
  <2>1. Old(n) \in DOMAIN pending /\ e.dir = Dir(n, miss) /\ EntryFits(Old(n), e)
    BY <1>5 DEF Moves, Entries
  <2>2. e.proc \in DOMAIN procs /\ procs[e.proc].pid = procs[n].pid /\ procs[e.proc].dir = e.dir
    BY <2>1 DEF EntryFits, Old
  <2>3. Dir(n, miss) = procs[n].dir
    BY <2>1, <2>2, DirIs, ProcsAre
  <2>4. e.proc = n
    BY <2>1, <2>2, <2>3, Predecessor
  <2>5. Prior(n, miss) = [e EXCEPT !.tag = id[2]]
    BY <1>5 DEF Prior
  <2> HIDE DEF e
  <2>6. Prior(n, miss).proc = n
    BY <2>1, <2>4, <2>5 DEF EntryFits
  <2>7. EntryWaits(Prior(n, miss)) /\ pending'[id] = Prior(n, miss)
    BY <1>1, <1>5, PriorWaits, TableAfter
  <2> QED BY <1>1, <2>6, <2>7 DEF Awaited, EntryWaits
<1> QED BY <1>3, <1>4, <1>5

LEMMA ReadIsNoticed ==
  ASSUME Typed, Latest, Entries, NEW n \in alive, NEW miss \in SUBSET Unreadable, Visit(n, miss),
         Parsed(n, miss), "cwd" \notin miss, procs[n].kind \in Surely
  PROVE  Awaited(n)' \/ Reported(n)'
<1>1. Dir(n, miss) # NoDir
  BY DirIs, ProcsAre DEF Typed
<1>2. CASE procs[n].kind \in Deferring \cup {"private", "mixed"}
  BY <1>1, <1>2, ChangedIsAwaited DEF Adds, Holds
<1>3. CASE procs[n].kind = "public"
  <2>1. "public" \in Specs(procs[n].kind)
    BY <1>3 DEF Specs
  <2> QED BY <2>1, SentAfter DEF Reported
<1> QED BY <1>2, <1>3 DEF Surely, Deferring

LEMMA NoticedIsKept ==
  ASSUME Typed, Latest, Entries, NEW n \in alive, NEW miss \in SUBSET Unreadable, Visit(n, miss),
         NEW m \in alive, Awaited(m) \/ Reported(m)
  PROVE  Awaited(m)' \/ Reported(m)'
<1>1. CASE Reported(m)
  BY <1>1, SentAfter DEF Reported
<1>2. CASE Awaited(m)
  <2>1. PICK x \in DOMAIN pending : \/ pending[x].scan /\ pending[x].proc = m
                                   \/ \E r \in DOMAIN pending[x].held : r.proc = m
    BY <1>2 DEF Awaited
  <2>2. CASE x \in DOMAIN pending' /\ pending'[x] = pending[x]
    BY <2>1, <2>2 DEF Awaited
  <2>3. CASE ~(x \in DOMAIN pending' /\ pending'[x] = pending[x])
    <3>0. n # None /\ m \in DOMAIN procs
      BY ProcsAre DEF Typed
    <3>1. CASE ~Adds(n, miss) /\ ~Holds(n, miss) /\ ~Moves(n, miss)
      <4>1. x \in DOMAIN pending'
        BY <3>1, TableAfter
      <4>2. x = Id(n, miss)
        BY <2>3, <4>1, TableAfter
      <4>3. pending'[x] = pending[x]
        BY <3>1, <4>1, <4>2, TableAfter DEF Prior
      <4> QED BY <2>3, <4>1, <4>3
    <3>2. CASE Adds(n, miss) \/ Holds(n, miss) \/ Moves(n, miss)
      <4>1. x = Id(n, miss) \/ x = Old(n)
        BY <2>3, TableAfter
      <4>2. x[1] = procs[n].pid
        BY <3>0, <4>1, IdIs DEF Old
      <4>3. procs[m].pid = x[1]
        BY <2>1 DEF Entries, EntryFits
      <4>4. m = n
        BY <3>0, <4>2, <4>3, Predecessor
      <4> QED BY <3>2, <4>4, ChangedIsAwaited
    <3> QED BY <3>1, <3>2
  <2> QED BY <2>2, <2>3
<1> QED BY <1>1, <1>2

LEMMA NoticedNext ==
  ASSUME Typed, Latest, Entries, Past, Noticed, [Next]_vars
  PROVE  Noticed'
<1>1. ASSUME NEW p \in Pids, NEW d \in Dirs, NEW k \in Commands, Start(p, d, k) PROVE Noticed'
  <2> SUFFICES ASSUME "cwd" \notin Unreadable, NEW m \in alive', <<procs'[m].pid, m>> \in seen',
                      procs'[m].kind \in Surely
               PROVE  Awaited(m)' \/ Reported(m)'
    BY DEF Noticed
  <2>1. PICK n \in Procs :
          /\ n \notin DOMAIN procs /\ \A i : i \in alive' <=> i \in alive \/ i = n
          /\ \A i \in DOMAIN procs : procs'[i] = procs[i]
    BY <1>1, Started
  <2>2. seen' = seen /\ pending' = pending /\ sent' = sent
    BY <1>1 DEF Start
  <2>3. m # n
    <3>1. <<procs'[m].pid, m>>[2] \in DOMAIN procs \cup {None}
      BY <2>2 DEF Past
    <3>2. n # None
      BY DEF Procs, None
    <3> QED BY <2>1, <3>1, <3>2
  <2>4. m \in alive /\ procs'[m] = procs[m]
    BY <2>1, <2>3 DEF Typed
  <2>5. Awaited(m) \/ Reported(m)
    BY <2>2, <2>4 DEF Noticed
  <2> QED BY <2>2, <2>5 DEF Awaited, Reported
<1>2. ASSUME NEW n \in alive, Exit(n) PROVE Noticed'
  BY <1>2 DEF Exit, Noticed, Awaited, Reported
<1>3. ASSUME StartPoll PROVE Noticed'
  BY <1>3, Polled DEF StartPoll, Noticed, Awaited, Reported
<1>4. ASSUME NEW n \in alive, NEW miss \in SUBSET Unreadable, Visit(n, miss) PROVE Noticed'
  <2> SUFFICES ASSUME "cwd" \notin Unreadable, NEW m \in alive', <<procs'[m].pid, m>> \in seen',
                      procs'[m].kind \in Surely
               PROVE  Awaited(m)' \/ Reported(m)'
    BY DEF Noticed
  <2>1. procs' = procs /\ alive' = alive
    BY <1>4, SeenAfter
  <2>2. CASE <<procs[m].pid, m>> \in seen
    BY <1>4, <2>1, <2>2, NoticedIsKept DEF Noticed
  <2>3. CASE <<procs[m].pid, m>> \notin seen
    <3>1. <<procs[m].pid, m>> = Id(n, miss) /\ Parsed(n, miss)
      BY <1>4, <2>1, <2>3, SeenAfter
    <3>2. Id(n, miss)[1] = procs[n].pid
      BY <1>4, ProcsAre, IdIs DEF Typed
    <3>3. m = n
      BY <1>4, <2>1, <3>1, <3>2, Predecessor DEF Typed
    <3> QED BY <1>4, <2>1, <3>1, <3>3, ReadIsNoticed
  <2> QED BY <2>2, <2>3
<1>5. ASSUME NEW p \in Pids, Vanished(p) PROVE Noticed'
  BY <1>5, Skipped DEF Vanished, Noticed, Awaited, Reported
<1>6. ASSUME NEW id \in DOMAIN pending, Finish(id) \/ FinishBroken(id) PROVE Noticed'
  <2> SUFFICES ASSUME "cwd" \notin Unreadable, NEW m \in alive', <<procs'[m].pid, m>> \in seen',
                      procs'[m].kind \in Surely
               PROVE  Awaited(m)' \/ Reported(m)'
    BY DEF Noticed
  <2>1. procs' = procs /\ alive' = alive /\ seen' = seen /\ DOMAIN sent \subseteq DOMAIN sent'
    BY <1>6, Finishing
  <2>2. CASE Reported(m)
    BY <2>1, <2>2 DEF Reported
  <2>3. CASE Awaited(m)
    <3>1. PICK x \in DOMAIN pending : \/ pending[x].scan /\ pending[x].proc = m
                                     \/ \E r \in DOMAIN pending[x].held : r.proc = m
      BY <2>3 DEF Awaited
    <3>2. CASE x # id
      <4>1. x \in DOMAIN pending' /\ pending'[x] = pending[x]
        BY <1>6, <3>2, Finishing
      <4> QED BY <3>1, <4>1 DEF Awaited
    <3>3. CASE x = id
      <4>1. CASE \E r \in DOMAIN pending[id].held : r.proc = m
        BY <1>6, <4>1, Finishing DEF Reported
      <4>2. CASE pending[id].scan /\ pending[id].proc = m
        <5>1. procs[pending[id].proc].kind # "faulty"
          BY <2>1, <4>2 DEF Surely
        <5>2. \E r \in DOMAIN LockReport(pending[id]) : r.proc = m
          BY <4>2, LockReportIs
        <5> QED BY <1>6, <5>1, <5>2, Finishing DEF Reported
      <4> QED BY <3>1, <3>3, <4>1, <4>2
    <3> QED BY <3>2, <3>3
  <2> QED BY <2>1, <2>2, <2>3 DEF Noticed
<1>7. ASSUME EndPoll PROVE Noticed'
  <2>1. seen' \subseteq seen /\ UNCHANGED <<procs, alive, pending, sent>>
    BY <1>7 DEF EndPoll
  <2> QED BY <2>1 DEF Noticed, Awaited, Reported
<1>8. ASSUME UNCHANGED vars PROVE Noticed'
  BY <1>8 DEF vars, Noticed, Awaited, Reported
<1> QED BY <1>1, <1>2, <1>3, <1>4, <1>5, <1>6, <1>7, <1>8 DEF Next, Monitor


-----------------------------------------------------------------------------
(* The part that holds while no poll is abandoned. *)

LEMMA PollStaysOpen ==
  ASSUME Typed, Steady, NEW n \in alive, NEW miss \in SUBSET Unreadable, Visit(n, miss)
  PROVE  /\ DOMAIN poll' = DOMAIN poll /\ poll'.open = TRUE /\ poll'.known = poll.known
         /\ \A p : p \in poll'.todo <=> p \in poll.todo /\ p # procs[n].pid
         /\ \A x : x \in poll'.current <=> x \in poll.current \/ x = Id(n, miss)
<1>1. procs[n].kind # "broken" /\ poll.open = TRUE
  BY SeenAfter DEF Steady, NoneAbandons, Typed
<1> QED BY <1>1, PollOn

LEMMA FinishStaysOpen ==
  ASSUME Typed, Entries, Steady, NEW id \in DOMAIN pending, Finish(id) \/ FinishBroken(id)
  PROVE  poll' = poll
<1>1. pending[id].proc \in DOMAIN procs
  BY DEF Entries, EntryFits
<1>2. procs[pending[id].proc].kind # "faulty"
  BY <1>1 DEF Steady, NoneAbandons
<1> QED BY <1>2, Finishing

\* The pid being read has no identity but the one that is found for it.
LEMMA SeenIsFound ==
  ASSUME Typed, SingleKnown, NEW n \in alive, NEW miss \in SUBSET Unreadable, Visit(n, miss),
         NEW x \in seen, x[1] = procs[n].pid
  PROVE  Id(n, miss) = x \/ (Id(n, miss) = <<procs[n].pid, n>> /\ x[2] # n)
<1>1. poll.open /\ x[1] \in poll.todo
  BY SeenAfter
<1>2. x[1] \in DOMAIN poll.known /\ poll.known[x[1]] = x[2]
  BY <1>1 DEF SingleKnown
<1>3. x = <<x[1], x[2]>>
  BY DEF Typed, Identities
<1>4. n # None
  BY ProcsAre DEF Typed
<1> QED BY <1>2, <1>3, <1>4, IdIs

LEMMA IdWhenParsed ==
  ASSUME Typed, SingleKnown, NEW n \in alive, NEW miss \in SUBSET Unreadable, Visit(n, miss),
         Parsed(n, miss)
  PROVE  Id(n, miss)[2] \in {None, n}
<1> DEFINE p == procs[n].pid
<1>1. n # None /\ poll.open
  BY ProcsAre, SeenAfter DEF Typed
<1>2. Id(n, miss) = <<p, Id(n, miss)[2]>>
  BY <1>1, IdIs
<1>3. CASE p \in DOMAIN poll.known /\ Id(n, miss)[2] = poll.known[p]
  <2>1. <<p, poll.known[p]>> \in seen
    BY <1>1, <1>3 DEF SingleKnown
  <2> QED BY <1>2, <1>3, <2>1 DEF Parsed
<1> QED BY <1>1, <1>3, IdIs

\* A command parsed under an identity has made no report under it.
LEMMA Fresh ==
  ASSUME Typed, SingleKnown, NEW n \in alive, NEW miss \in SUBSET Unreadable, Visit(n, miss),
         Parsed(n, miss), NEW r, SpentReport(r), r.proc = n
  PROVE  r.tag = None /\ Id(n, miss)[2] = n /\ n # None
<1> DEFINE p == procs[n].pid
<1>1. n # None /\ poll.open /\ p \in poll.todo
  BY ProcsAre, SeenAfter DEF Typed
<1>2. Standing(p) = seen
  BY <1>1 DEF Standing
<1>3. <<p, n>> \in seen \/ (r.tag = None /\ <<p, None>> \in seen)
  BY <1>2 DEF SpentReport
<1>4. CASE <<p, n>> \in seen
  <2>1. Id(n, miss) = <<p, n>>
    BY <1>4, SeenIsFound
  <2> QED BY <1>4, <2>1 DEF Parsed
<1>5. CASE r.tag = None /\ <<p, None>> \in seen
  <2>1. Id(n, miss) = <<p, None>> \/ Id(n, miss) = <<p, n>>
    BY <1>5, SeenIsFound
  <2>2. Id(n, miss) = <<p, n>>
    BY <1>5, <2>1 DEF Parsed
  <2> QED BY <1>1, <1>5, <2>2
<1> QED BY <1>3, <1>4, <1>5

\* An entry moves only when its command is parsed again, with its create_time.
LEMMA MovesWhenParsed ==
  ASSUME Typed, Latest, Entries, Steady, SingleKnown, PendingSeen, NEW n \in alive, NEW miss \in SUBSET Unreadable, Visit(n, miss),
         Moves(n, miss)
  PROVE  /\ Parsed(n, miss) /\ Id(n, miss)[2] = n /\ Dir(n, miss) # NoDir
         /\ Old(n) \in DOMAIN pending /\ pending[Old(n)].proc = n
<1> DEFINE p == procs[n].pid
           e == pending[Old(n)]
<1>1. Old(n) \in DOMAIN pending /\ e.dir = Dir(n, miss) /\ Id(n, miss)[2] # None /\ Old(n) \in seen
  BY DEF Moves, PendingSeen
<1>2. EntryFits(Old(n), e)
  BY <1>1 DEF Entries
<1>3. e.proc \in DOMAIN procs /\ procs[e.proc].pid = p /\ procs[e.proc].dir = e.dir
      /\ procs[e.proc].kind # "other"
  BY <1>2 DEF EntryFits, Old, Interesting, Deferring
<1>4. Dir(n, miss) = procs[n].dir /\ Dir(n, miss) # NoDir
  BY <1>1, <1>3, DirIs, ProcsAre
<1>5. e.proc = n
  BY <1>1, <1>3, <1>4, Predecessor
<1>6. Id(n, miss) = <<p, n>>
  BY <1>1, SeenIsFound DEF Old
<1>7. Id(n, miss) \notin seen
  <2>1. poll.open /\ p \in poll.todo /\ n # None
    BY SeenAfter, ProcsAre DEF Typed
  <2>2. poll.known[p] = None
    BY <1>1, <2>1 DEF SingleKnown, Old
  <2>3. Id(n, miss) \in seen => poll.known[p] = n
    BY <1>6, <2>1 DEF SingleKnown
  <2> QED BY <2>1, <2>2, <2>3
<1>8. "cmdline" \notin miss
  BY DEF Steady
<1> QED BY <1>1, <1>3, <1>4, <1>5, <1>6, <1>7, <1>8 DEF Parsed

\* What the entry that a visit changes is, and what it will report.
LEMMA ChangedEntry ==
  ASSUME Typed, Latest, Entries, Steady, SingleKnown, PendingSeen, Own, SpentHeld, NEW n \in alive, NEW miss \in SUBSET Unreadable, Visit(n, miss),
         Adds(n, miss) \/ Holds(n, miss) \/ Moves(n, miss)
  PROVE  /\ Parsed(n, miss) /\ Dir(n, miss) # NoDir /\ procs[n].kind \in Interesting
         /\ pending'[Id(n, miss)].proc = n
         /\ EntryOwn(Id(n, miss), pending'[Id(n, miss)])
         /\ \A r \in ToReport(pending'[Id(n, miss)]) :
              \/ Moves(n, miss) /\ r \in ToReport(pending[Old(n)])
              \/ r.proc = n /\ r.tag = Id(n, miss)[2] /\ r.what \in {"lock", "private"}
<1> DEFINE id == Id(n, miss)
           e == Prior(n, miss)
           f == pending'[id]
<1>1. Parsed(n, miss) /\ Dir(n, miss) # NoDir
  BY MovesWhenParsed DEF Adds, Holds
<1>2. id[2] \in {None, n} /\ id \in DOMAIN pending' /\ EntryFits(id, f)
  BY <1>1, IdWhenParsed, TableAfter, AfterFits
<1>3. id \notin DOMAIN pending
  BY <1>1 DEF Parsed, PendingSeen
<1>4. ASSUME Moves(n, miss)
      PROVE  /\ e.proc = n /\ e.tag = id[2] /\ e.scan = pending[Old(n)].scan
             /\ e.held = pending[Old(n)].held /\ EntryOwn(id, e)
             /\ \A r \in DOMAIN e.held : r \in ToReport(pending[Old(n)]) /\ SpentReport(r)
  <2> DEFINE g == pending[Old(n)]
  <2>1. EntryFits(Old(n), g) /\ EntryOwn(Old(n), g) /\ g.proc = n /\ Old(n)[2] = None /\ id[2] = n
    BY <1>4, MovesWhenParsed DEF Entries, Own, Old
  <2>2. e = [g EXCEPT !.tag = id[2]]
    BY <1>4 DEF Prior
  <2>3. \A r \in DOMAIN g.held : r \in ToReport(g)
    BY DEF ToReport
  <2>4. \A r \in ToReport(g) : SpentReport(r)
    BY <1>4 DEF Moves, SpentHeld
  <2> HIDE DEF e, g, id
  <2>5. e.proc = n /\ e.tag = id[2] /\ e.scan = g.scan /\ e.held = g.held
    BY <2>1, <2>2 DEF EntryFits
  <2>6. EntryOwn(id, e)
    BY <2>1, <2>5 DEF EntryOwn
  <2> QED BY <2>3, <2>4, <2>5, <2>6 DEF g
<1>5. CASE Adds(n, miss)
  <2>1. f = Track(n, Dir(n, miss), id[2], TRUE)
    BY <1>5, TableAfter
  <2> HIDE DEF f
  <2>2. f.proc = n /\ f.tag = id[2] /\ f.held = EmptyBag
    BY <2>1 DEF Track
  <2>3. DOMAIN f.held = {}
    BY <2>2, EmptyBagIs
  <2>4. EntryOwn(id, f)
    BY <1>2, <2>2, <2>3 DEF EntryOwn
  <2>5. \A r \in ToReport(f) : r.proc = n /\ r.tag = id[2] /\ r.what = "lock"
    BY <2>2, <2>3, LockReportIs DEF ToReport
  <2>6. procs[n].kind \in Interesting
    BY <1>5 DEF Adds, Interesting
  <2> QED BY <1>1, <2>2, <2>4, <2>5, <2>6 DEF f
<1>6. CASE Holds(n, miss)
  <2>1. f = Holding(e, n, id[2]) /\ EntryFits(id, e)
    BY <1>6, TableAfter, PriorFits
  <2>2. e.proc = n /\ e.tag = id[2] /\ EntryOwn(id, e)
        /\ \A r \in DOMAIN e.held : Moves(n, miss) /\ r \in ToReport(pending[Old(n)]) /\ SpentReport(r)
    <3>1. CASE Moves(n, miss)
      BY <1>4, <3>1
    <3>2. CASE ~Moves(n, miss)
      <4>1. e = Track(n, Dir(n, miss), id[2], FALSE)
        BY <1>3, <3>2 DEF Prior
      <4> HIDE DEF e
      <4>2. e.proc = n /\ e.tag = id[2] /\ e.held = EmptyBag
        BY <4>1 DEF Track
      <4>3. DOMAIN e.held = {}
        BY <4>2, EmptyBagIs
      <4> QED BY <1>2, <4>2, <4>3 DEF EntryOwn
    <3> QED BY <3>1, <3>2
  <2> HIDE DEF e, f
  <2>3. /\ f.proc = e.proc /\ f.tag = e.tag /\ f.scan = e.scan
        /\ \A r : r \in DOMAIN f.held <=> r \in DOMAIN e.held \/ r \in DOMAIN Named(n, id[2], "private")
        /\ \A r \in DOMAIN e.held \ DOMAIN Named(n, id[2], "private") : f.held[r] = e.held[r]
        /\ \A r \in DOMAIN Named(n, id[2], "private") \ DOMAIN e.held : f.held[r] = 1
    BY <2>1, HeldMore DEF EntryFits
  <2>4. \A r \in DOMAIN Named(n, id[2], "private") : r.proc = n /\ r.tag = id[2] /\ r.what = "private"
    BY NamedIs
  <2>5. \A r \in DOMAIN e.held : r.proc = n /\ r.tag # id[2]
    BY <1>1, <2>2, Fresh DEF EntryOwn
  <2>6. \A r \in DOMAIN e.held : r \notin DOMAIN Named(n, id[2], "private")
    BY <2>4, <2>5
  <2>7. ~f.scan
    BY <1>6, <2>1, <2>2, <2>3 DEF EntryFits, Holds, Deferring
  <2>8. EntryOwn(id, f)
    BY <1>2, <2>2, <2>3, <2>4, <2>6, <2>7 DEF EntryOwn
  <2>9. \A r \in ToReport(f) : \/ Moves(n, miss) /\ r \in ToReport(pending[Old(n)])
                               \/ r.proc = n /\ r.tag = id[2] /\ r.what \in {"lock", "private"}
    BY <2>2, <2>3, <2>4, <2>7, LockReportIs DEF ToReport
  <2>10. procs[n].kind \in Interesting
    BY <1>6 DEF Holds, Interesting
  <2> QED BY <1>1, <2>2, <2>3, <2>8, <2>9, <2>10 DEF f
<1>7. CASE Moves(n, miss) /\ ~Adds(n, miss) /\ ~Holds(n, miss)
  <2>1. f = e
    BY <1>2, <1>7, TableAfter
  <2>2. e.proc = n /\ e.tag = id[2] /\ EntryOwn(id, e)
        /\ \A r \in DOMAIN e.held : r \in ToReport(pending[Old(n)])
    BY <1>4, <1>7
  <2>3. procs[n].kind \in Interesting
    BY <1>2, <2>1, <2>2 DEF EntryFits
  <2> HIDE DEF e, f
  <2>4. \A r \in ToReport(f) : \/ Moves(n, miss) /\ r \in ToReport(pending[Old(n)])
                               \/ r.proc = n /\ r.tag = id[2] /\ r.what \in {"lock", "private"}
    BY <1>7, <2>1, <2>2, LockReportIs DEF ToReport
  <2> QED BY <1>1, <2>1, <2>2, <2>3, <2>4 DEF f
<1> QED BY <1>5, <1>6, <1>7

\* The entries that a visit does not change.
LEMMA Unchanged ==
  ASSUME Typed, NEW n \in alive, NEW miss \in SUBSET Unreadable, Visit(n, miss), NEW x \in DOMAIN pending',
         x # Id(n, miss) \/ ~(Adds(n, miss) \/ Holds(n, miss) \/ Moves(n, miss))
  PROVE  x \in DOMAIN pending /\ pending'[x] = pending[x] /\ (Moves(n, miss) => x # Old(n))
<1>1. CASE x # Id(n, miss)
  BY <1>1, TableAfter
<1>2. CASE x = Id(n, miss) /\ ~Adds(n, miss) /\ ~Holds(n, miss) /\ ~Moves(n, miss)
  BY <1>2, TableAfter DEF Prior
<1> QED BY <1>1, <1>2

LEMMA SteadyBefore ==
  ASSUME Typed, Entries, [Next]_vars, Steady'
  PROVE  Steady
<1> USE DEF Steady, NoneAbandons
<1>1. ASSUME NEW p \in Pids, NEW d \in Dirs, NEW k \in Commands, Start(p, d, k) PROVE Steady
  BY <1>1, Started DEF Start
<1>2. ASSUME NEW n \in alive, Exit(n) PROVE Steady
  BY <1>2 DEF Exit
<1>3. ASSUME StartPoll PROVE Steady
  BY <1>3, Polled DEF StartPoll
<1>4. ASSUME NEW n \in alive, NEW miss \in SUBSET Unreadable, Visit(n, miss) PROVE Steady
  BY <1>4, SeenAfter
<1>5. ASSUME NEW p \in Pids, Vanished(p) PROVE Steady
  BY <1>5, Skipped DEF Vanished
<1>6. ASSUME NEW id \in DOMAIN pending, Finish(id) \/ FinishBroken(id) PROVE Steady
  BY <1>6, Finishing
<1>7. ASSUME EndPoll PROVE Steady
  BY <1>7 DEF EndPoll
<1>8. ASSUME UNCHANGED vars PROVE Steady
  BY <1>8 DEF vars
<1> QED BY <1>1, <1>2, <1>3, <1>4, <1>5, <1>6, <1>7, <1>8 DEF Next, Monitor

LEMMA SingleNext ==
  ASSUME Typed, Entries, Steady, Single, [Next]_vars
  PROVE  Single'
<1>1. ASSUME NEW p \in Pids, NEW d \in Dirs, NEW k \in Commands, Start(p, d, k) PROVE Single'
  BY <1>1, Started DEF Start, Single, OneEach
<1>2. ASSUME NEW n \in alive, Exit(n) PROVE Single'
  BY <1>2 DEF Exit, Single, OneEach
<1>3. ASSUME StartPoll PROVE Single'
  BY <1>3, Polled DEF StartPoll, Single, OneEach
<1>4. ASSUME NEW n \in alive, NEW miss \in SUBSET Unreadable, Visit(n, miss) PROVE Single'
  <2>1. poll'.open = TRUE /\ (\A p : p \in poll'.todo <=> p \in poll.todo /\ p # procs[n].pid)
       /\ (\A x : x \in poll'.current <=> x \in poll.current \/ x = Id(n, miss))
    BY <1>4, PollStaysOpen
  <2>2. procs[n].pid \in poll.todo /\ Id(n, miss)[1] = procs[n].pid
    BY <1>4, SeenAfter, ProcsAre, IdIs DEF Typed
  <2>3. \A x \in poll.current : x[1] # procs[n].pid
    BY <2>2 DEF Single
  <2> QED BY <2>1, <2>2, <2>3 DEF Single, OneEach
<1>5. ASSUME NEW p \in Pids, Vanished(p) PROVE Single'
  BY <1>5, Skipped DEF Vanished, Single, OneEach
<1>6. ASSUME NEW id \in DOMAIN pending, Finish(id) \/ FinishBroken(id) PROVE Single'
  BY <1>6, FinishStaysOpen, Finishing DEF Single, OneEach
<1>7. ASSUME EndPoll PROVE Single'
  BY <1>7, IdleIs DEF EndPoll, Single, OneEach
<1>8. ASSUME UNCHANGED vars PROVE Single'
  BY <1>8 DEF vars, Single, OneEach
<1> QED BY <1>1, <1>2, <1>3, <1>4, <1>5, <1>6, <1>7, <1>8 DEF Next, Monitor

LEMMA SingleKnownNext ==
  ASSUME Typed, Entries, Steady, Single, PendingSeen, SingleKnown, [Next]_vars
  PROVE  SingleKnown'
<1>1. ASSUME NEW p \in Pids, NEW d \in Dirs, NEW k \in Commands, Start(p, d, k) PROVE SingleKnown'
  BY <1>1, Started DEF Start, SingleKnown
<1>2. ASSUME NEW n \in alive, Exit(n) PROVE SingleKnown'
  BY <1>2 DEF Exit, SingleKnown
<1>3. ASSUME StartPoll PROVE SingleKnown'
  <2>1. OneEach(seen)
    BY <1>3, Polled DEF Single
  <2>2. ASSUME NEW p \in DOMAIN poll'.known PROVE <<p, poll'.known[p]>> \in seen
    BY <1>3, Polled, KnownIs DEF PendingSeen
  <2>3. ASSUME NEW x \in seen PROVE x[1] \in DOMAIN poll'.known /\ poll'.known[x[1]] = x[2]
    <3>1. x = <<x[1], x[2]>> /\ x[1] \in Pids /\ x[2] \in Times
      BY DEF Typed, Identities
    <3>2. x[1] \in DOMAIN poll'.known
      BY <1>3, <3>1, Polled, KnownIs
    <3>3. <<x[1], poll'.known[x[1]]>> \in seen
      BY <2>2, <3>2
    <3>4. <<x[1], poll'.known[x[1]]>> = x
      BY <2>1, <3>3 DEF OneEach
    <3> QED BY <3>1, <3>2, <3>4
  <2>4. seen' = seen
    BY <1>3, Polled
  <2> QED BY <2>2, <2>3, <2>4 DEF SingleKnown
<1>4. ASSUME NEW n \in alive, NEW miss \in SUBSET Unreadable, Visit(n, miss) PROVE SingleKnown'
  <2>1. poll'.known = poll.known /\ poll.open /\ \A p : p \in poll'.todo <=> p \in poll.todo /\ p # procs[n].pid
    BY <1>4, PollStaysOpen, SeenAfter
  <2>2. Id(n, miss)[1] = procs[n].pid
    BY <1>4, ProcsAre, IdIs DEF Typed
  <2>3. \A x : x \in seen => x \in seen'
    BY <1>4, SeenAfter
  <2>4. \A x \in seen' : x \in seen \/ x = Id(n, miss)
    BY <1>4, SeenAfter
  <2> QED BY <2>1, <2>2, <2>3, <2>4 DEF SingleKnown
<1>5. ASSUME NEW p \in Pids, Vanished(p) PROVE SingleKnown'
  BY <1>5, Skipped DEF Vanished, SingleKnown
<1>6. ASSUME NEW id \in DOMAIN pending, Finish(id) \/ FinishBroken(id) PROVE SingleKnown'
  BY <1>6, FinishStaysOpen, Finishing DEF SingleKnown
<1>7. ASSUME EndPoll PROVE SingleKnown'
  BY <1>7, IdleIs DEF EndPoll, SingleKnown
<1>8. ASSUME UNCHANGED vars PROVE SingleKnown'
  BY <1>8 DEF vars, SingleKnown
<1> QED BY <1>1, <1>2, <1>3, <1>4, <1>5, <1>6, <1>7, <1>8 DEF Next, Monitor

LEMMA PendingSeenNext ==
  ASSUME Typed, Latest, Entries, Steady, SingleKnown, PendingSeen, [Next]_vars
  PROVE  PendingSeen'
<1>1. ASSUME NEW p \in Pids, NEW d \in Dirs, NEW k \in Commands, Start(p, d, k) PROVE PendingSeen'
  BY <1>1, Started DEF Start, PendingSeen
<1>2. ASSUME NEW n \in alive, Exit(n) PROVE PendingSeen'
  BY <1>2 DEF Exit, PendingSeen
<1>3. ASSUME StartPoll PROVE PendingSeen'
  BY <1>3, Polled DEF StartPoll, PendingSeen
<1>4. ASSUME NEW n \in alive, NEW miss \in SUBSET Unreadable, Visit(n, miss) PROVE PendingSeen'
  <2>1. \A x \in DOMAIN pending' : x \in DOMAIN pending \/
          (x = Id(n, miss) /\ (Moves(n, miss) \/ Adds(n, miss) \/ Holds(n, miss)))
    BY <1>4, TableAfter
  <2>2. Moves(n, miss) \/ Adds(n, miss) \/ Holds(n, miss) => Parsed(n, miss)
    BY <1>4, MovesWhenParsed DEF Adds, Holds
  <2> QED BY <1>4, <2>1, <2>2, SeenAfter DEF PendingSeen
<1>5. ASSUME NEW p \in Pids, Vanished(p) PROVE PendingSeen'
  BY <1>5, Skipped DEF Vanished, PendingSeen
<1>6. ASSUME NEW id \in DOMAIN pending, Finish(id) \/ FinishBroken(id) PROVE PendingSeen'
  BY <1>6, Finishing, IdleIs DEF PendingSeen
<1>7. ASSUME EndPoll PROVE PendingSeen'
  BY <1>7 DEF EndPoll, Finished, PendingSeen
<1>8. ASSUME UNCHANGED vars PROVE PendingSeen'
  BY <1>8 DEF vars, PendingSeen
<1> QED BY <1>1, <1>2, <1>3, <1>4, <1>5, <1>6, <1>7, <1>8 DEF Next, Monitor

LEMMA OwnNext ==
  ASSUME Typed, Latest, Entries, Steady, SingleKnown, PendingSeen, Own, SpentHeld, [Next]_vars
  PROVE  Own'
<1>1. ASSUME NEW p \in Pids, NEW d \in Dirs, NEW k \in Commands, Start(p, d, k) PROVE Own'
  BY <1>1, Started DEF Start, Own, EntryOwn
<1>2. ASSUME NEW n \in alive, Exit(n) PROVE Own'
  BY <1>2 DEF Exit, Own, EntryOwn
<1>3. ASSUME StartPoll PROVE Own'
  BY <1>3, Polled DEF StartPoll, Own, EntryOwn
<1>4. ASSUME NEW n \in alive, NEW miss \in SUBSET Unreadable, Visit(n, miss) PROVE Own'
  <2>1. \A x \in DOMAIN pending' : EntryOwn(x, pending'[x])
    <3> SUFFICES ASSUME NEW x \in DOMAIN pending' PROVE EntryOwn(x, pending'[x])
      OBVIOUS
    <3>1. CASE x = Id(n, miss) /\ (Adds(n, miss) \/ Holds(n, miss) \/ Moves(n, miss))
      BY <1>4, <3>1, ChangedEntry
    <3>2. CASE ~(x = Id(n, miss) /\ (Adds(n, miss) \/ Holds(n, miss) \/ Moves(n, miss)))
      <4>1. x \in DOMAIN pending /\ pending'[x] = pending[x]
        BY <1>4, <3>2, Unchanged
      <4> QED BY <4>1 DEF Own
    <3> QED BY <3>1, <3>2
  <2> QED BY <2>1 DEF Own, EntryOwn
<1>5. ASSUME NEW p \in Pids, Vanished(p) PROVE Own'
  BY <1>5, Skipped DEF Vanished, Own, EntryOwn
<1>6. ASSUME NEW id \in DOMAIN pending, Finish(id) \/ FinishBroken(id) PROVE Own'
  BY <1>6, Finishing, IdleIs DEF Own, EntryOwn
<1>7. ASSUME EndPoll PROVE Own'
  BY <1>7, IdleIs DEF EndPoll, Own, EntryOwn
<1>8. ASSUME UNCHANGED vars PROVE Own'
  BY <1>8 DEF vars, Own, EntryOwn
<1> QED BY <1>1, <1>2, <1>3, <1>4, <1>5, <1>6, <1>7, <1>8 DEF Next, Monitor

\* No other entry has the process of the one a visit changes.
LEMMA ChangedIsUnique ==
  ASSUME Typed, Latest, Entries, Steady, SingleKnown, PendingSeen, Own, SpentHeld, NEW n \in alive, NEW miss \in SUBSET Unreadable, Visit(n, miss),
         Adds(n, miss) \/ Holds(n, miss) \/ Moves(n, miss),
         NEW y \in DOMAIN pending', y # Id(n, miss)
  PROVE  pending'[y].proc # n
<1> DEFINE p == procs[n].pid
           e == pending[y]
<1>1. y \in DOMAIN pending /\ pending'[y] = e /\ (Moves(n, miss) => y # Old(n)) /\ y \in seen
  BY Unchanged DEF PendingSeen
<1>2. Parsed(n, miss) /\ Dir(n, miss) # NoDir
  BY ChangedEntry
<1>3. EntryFits(y, e) /\ EntryOwn(y, e) /\ y = <<y[1], y[2]>>
  BY <1>1 DEF Entries, Own, Typed, Identities
<1> SUFFICES ASSUME e.proc = n PROVE FALSE
  BY <1>1
<1>4. y[1] = p /\ y[2] \in {None, n} /\ e.dir = procs[n].dir
  BY <1>3 DEF EntryFits, EntryOwn
<1>5. Id(n, miss) = <<p, n>> /\ y[2] # n
  BY <1>1, <1>4, SeenIsFound
<1>6. y = Old(n) /\ n # None
  BY <1>3, <1>4, <1>5, ProcsAre DEF Old, Typed
<1>7. Moves(n, miss)
  BY <1>1, <1>2, <1>4, <1>5, <1>6, DirIs DEF Moves
<1> QED BY <1>1, <1>6, <1>7

LEMMA UniqueNext ==
  ASSUME Typed, Latest, Entries, Steady, SingleKnown, PendingSeen, Own, SpentHeld, Unique, [Next]_vars
  PROVE  Unique'
<1>1. ASSUME NEW p \in Pids, NEW d \in Dirs, NEW k \in Commands, Start(p, d, k) PROVE Unique'
  BY <1>1, Started DEF Start, Unique
<1>2. ASSUME NEW n \in alive, Exit(n) PROVE Unique'
  BY <1>2 DEF Exit, Unique
<1>3. ASSUME StartPoll PROVE Unique'
  BY <1>3, Polled DEF StartPoll, Unique
<1>4. ASSUME NEW n \in alive, NEW miss \in SUBSET Unreadable, Visit(n, miss) PROVE Unique'
  <2> DEFINE id == Id(n, miss)
             changed == Adds(n, miss) \/ Holds(n, miss) \/ Moves(n, miss)
  <2>1. \A x \in DOMAIN pending' : x # id \/ ~changed => x \in DOMAIN pending /\ pending'[x] = pending[x]
    BY <1>4, Unchanged
  <2>2. ASSUME changed PROVE pending'[id].proc = n /\ \A y \in DOMAIN pending' : y # id => pending'[y].proc # n
    BY <1>4, <2>2, ChangedEntry, ChangedIsUnique
  <2> HIDE DEF id, changed
  <2> QED BY <2>1, <2>2 DEF Unique
<1>5. ASSUME NEW p \in Pids, Vanished(p) PROVE Unique'
  BY <1>5, Skipped DEF Vanished, Unique
<1>6. ASSUME NEW id \in DOMAIN pending, Finish(id) \/ FinishBroken(id) PROVE Unique'
  BY <1>6, Finishing, IdleIs DEF Unique
<1>7. ASSUME EndPoll PROVE Unique'
  BY <1>7, IdleIs DEF EndPoll, Unique
<1>8. ASSUME UNCHANGED vars PROVE Unique'
  BY <1>8 DEF vars, Unique
<1> QED BY <1>1, <1>2, <1>3, <1>4, <1>5, <1>6, <1>7, <1>8 DEF Next, Monitor

\* A report stays spent.
LEMMA SpentVisited ==
  ASSUME Typed, Latest, Steady, SingleKnown, NEW n \in alive, NEW miss \in SUBSET Unreadable, Visit(n, miss),
         NEW r, SpentReport(r)
  PROVE  SpentReport(r)'
<1> DEFINE id == Id(n, miss)
           p == procs[n].pid
           q == procs[r.proc].pid
<1>1. /\ procs' = procs /\ alive' = alive /\ poll.open /\ p \in poll.todo
      /\ \A x : x \in seen' <=> x \in seen \/ (x = id /\ Parsed(n, miss))
      /\ poll'.open = TRUE /\ (\A t : t \in poll'.todo <=> t \in poll.todo /\ t # p)
      /\ \A x : x \in poll'.current <=> x \in poll.current \/ x = id
  BY SeenAfter, PollStaysOpen
<1>2. r.proc \in DOMAIN procs /\ procs[r.proc].kind \in Interesting /\ r.tag \in {None, r.proc}
  BY DEF SpentReport
<1> SUFFICES ASSUME r.proc \in alive
             PROVE  <<q, r.proc>> \in Standing(q)' \/ (r.tag = None /\ <<q, None>> \in Standing(q)')
  BY <1>1, <1>2 DEF SpentReport
<1>3. <<q, r.proc>> \in Standing(q) \/ (r.tag = None /\ <<q, None>> \in Standing(q))
  BY DEF SpentReport
<1>4. CASE r.proc = n
  <2>1. \A x \in seen' : x = id => x \in Standing(p)'
    BY <1>1 DEF Standing
  <2>2. Standing(p) = seen /\ p = q
    BY <1>1, <1>4 DEF Standing
  <2>3. CASE Parsed(n, miss)
    <3>1. id = <<p, n>>
      BY <1>4, <2>3, Fresh, IdIs
    <3> QED BY <1>1, <1>4, <2>1, <2>2, <2>3, <3>1
  <2>4. CASE ~Parsed(n, miss)
    <3>1. id \in seen
      BY <1>2, <1>4, <2>4 DEF Parsed, Steady, Interesting, Deferring
    <3>2. id = <<p, n>> \/ (r.tag = None /\ id = <<p, None>>)
      BY <1>3, <1>4, <2>2, SeenIsFound
    <3> QED BY <1>1, <1>4, <2>1, <2>2, <3>1, <3>2
  <2> QED BY <2>3, <2>4
<1>5. CASE r.proc # n
  <2>1. q # p
    BY <1>2, <1>5, Predecessor
  <2>2. \A x \in Standing(q) : x \in Standing(q)'
    BY <1>1, <2>1 DEF Standing
  <2> QED BY <1>3, <2>2
<1> QED BY <1>4, <1>5

LEMMA SpentMade ==
  ASSUME Typed, Steady, SingleKnown, NEW n \in alive, NEW miss \in SUBSET Unreadable, Visit(n, miss),
         Parsed(n, miss), procs[n].kind \in Interesting, NEW r, r.proc = n, r.tag = Id(n, miss)[2]
  PROVE  SpentReport(r)'
<1> DEFINE id == Id(n, miss)
           p == procs[n].pid
<1>1. /\ procs' = procs /\ id \in seen' /\ id \in poll'.current /\ p \notin poll'.todo /\ poll'.open = TRUE
  BY SeenAfter, PollStaysOpen
<1>2. n \in DOMAIN procs /\ n # None /\ id[2] \in {None, n}
  BY ProcsAre, IdWhenParsed DEF Typed
<1>3. id = <<p, id[2]>> /\ id \in Standing(p)'
  BY <1>1, <1>2, IdIs DEF Standing
<1>4. r.proc \in DOMAIN procs' /\ procs'[r.proc].kind \in Interesting /\ r.tag \in {None, r.proc}
  BY <1>1, <1>2
<1>5. \/ <<p, n>> \in Standing(p)'
      \/ r.tag = None /\ <<p, None>> \in Standing(p)'
  BY <1>2, <1>3
<1> QED BY <1>1, <1>4, <1>5 DEF SpentReport

LEMMA SpentKept ==
  ASSUME Typed, Latest, Entries, Steady, Single, SingleKnown, NEW r, SpentReport(r), [Next]_vars
  PROVE  SpentReport(r)'
<1>1. ASSUME NEW p \in Pids, NEW d \in Dirs, NEW k \in Commands, Start(p, d, k) PROVE SpentReport(r)'
  <2>1. PICK n \in Procs :
          /\ n \notin DOMAIN procs /\ \A i : i \in alive' <=> i \in alive \/ i = n
          /\ \A m : m \in DOMAIN procs' <=> m \in DOMAIN procs \/ m = n
          /\ \A i \in DOMAIN procs : procs'[i] = procs[i]
    BY <1>1, Started
  <2>2. seen' = seen /\ poll' = poll
    BY <1>1 DEF Start
  <2> QED BY <2>1, <2>2 DEF SpentReport, Standing
<1>2. ASSUME NEW n \in alive, Exit(n) PROVE SpentReport(r)'
  BY <1>2 DEF Exit, SpentReport, Standing
<1>3. ASSUME StartPoll PROVE SpentReport(r)'
  <2>1. UNCHANGED <<procs, alive, seen>> /\ ~poll.open /\ \A p : p \in poll'.todo <=> \E n \in alive : procs[n].pid = p
    BY <1>3, Polled
  <2>2. r.proc \in alive => Standing(procs[r.proc].pid) = seen /\ Standing(procs[r.proc].pid)' = seen
    BY <2>1 DEF Standing
  <2> QED BY <2>1, <2>2 DEF SpentReport
<1>4. ASSUME NEW n \in alive, NEW miss \in SUBSET Unreadable, Visit(n, miss) PROVE SpentReport(r)'
  BY <1>4, SpentVisited
<1>5. ASSUME NEW p \in Pids, Vanished(p) PROVE SpentReport(r)'
  <2>1. r.proc \in alive => procs[r.proc].pid # p
    BY <1>5, Skipped DEF Busy
  <2> QED BY <1>5, <2>1, Skipped DEF SpentReport, Standing
<1>6. ASSUME NEW id \in DOMAIN pending, Finish(id) \/ FinishBroken(id) PROVE SpentReport(r)'
  BY <1>6, Finishing, FinishStaysOpen DEF SpentReport, Standing
<1>7. ASSUME EndPoll PROVE SpentReport(r)'
  <2>1. poll.open /\ poll.todo = {} /\ seen' = seen \cap poll.current /\ UNCHANGED <<procs, alive>> /\ ~poll'.open
    BY <1>7, IdleIs DEF EndPoll, Walked
  <2>2. \A p : Standing(p)' = Standing(p)
    BY <2>1 DEF Standing
  <2> QED BY <2>1, <2>2 DEF SpentReport
<1>8. ASSUME UNCHANGED vars PROVE SpentReport(r)'
  BY <1>8 DEF vars, SpentReport, Standing
<1> QED BY <1>1, <1>2, <1>3, <1>4, <1>5, <1>6, <1>7, <1>8 DEF Next, Monitor

LEMMA SpentSentNext ==
  ASSUME Typed, Latest, Entries, Steady, Single, SingleKnown, PendingSeen, Own, SpentSent, SpentHeld, [Next]_vars
  PROVE  SpentSent'
<1>0. \A r : SpentReport(r) => SpentReport(r)'
  BY SpentKept
<1>1. ASSUME NEW p \in Pids, NEW d \in Dirs, NEW k \in Commands, Start(p, d, k) PROVE SpentSent'
  BY <1>1, <1>0, Started DEF Start, SpentSent
<1>2. ASSUME NEW n \in alive, Exit(n) PROVE SpentSent'
  BY <1>2, <1>0 DEF Exit, SpentSent
<1>3. ASSUME StartPoll PROVE SpentSent'
  BY <1>3, <1>0, Polled DEF StartPoll, SpentSent
<1>4. ASSUME NEW n \in alive, NEW miss \in SUBSET Unreadable, Visit(n, miss) PROVE SpentSent'
  <2> SUFFICES ASSUME NEW r \in DOMAIN sent' PROVE SpentReport(r)'
    BY DEF SpentSent
  <2>1. CASE r \in DOMAIN sent
    BY <1>0, <2>1 DEF SpentSent
  <2>2. CASE r \notin DOMAIN sent
    <3>1. Parsed(n, miss) /\ r.proc = n /\ r.tag = Id(n, miss)[2] /\ r.what \in Specs(procs[n].kind)
      BY <1>4, <2>2, SentAfter
    <3>2. procs[n].kind \in Interesting
      BY <3>1 DEF Specs, Interesting
    <3> QED BY <1>4, <3>1, <3>2, SpentMade
  <2> QED BY <2>1, <2>2
<1>5. ASSUME NEW p \in Pids, Vanished(p) PROVE SpentSent'
  BY <1>5, <1>0, Skipped DEF Vanished, SpentSent
<1>6. ASSUME NEW id \in DOMAIN pending, Finish(id) \/ FinishBroken(id) PROVE SpentSent'
  BY <1>0, <1>6, Finishing DEF SpentSent, SpentHeld
<1>7. ASSUME EndPoll PROVE SpentSent'
  BY <1>7, <1>0, IdleIs DEF EndPoll, SpentSent
<1>8. ASSUME UNCHANGED vars PROVE SpentSent'
  BY <1>8, <1>0 DEF vars, SpentSent
<1> QED BY <1>1, <1>2, <1>3, <1>4, <1>5, <1>6, <1>7, <1>8 DEF Next, Monitor

LEMMA SpentHeldNext ==
  ASSUME Typed, Latest, Entries, Steady, Single, SingleKnown, PendingSeen, Own, SpentSent, SpentHeld, [Next]_vars
  PROVE  SpentHeld'
<1>0. \A r : SpentReport(r) => SpentReport(r)'
  BY SpentKept
<1>1. ASSUME NEW p \in Pids, NEW d \in Dirs, NEW k \in Commands, Start(p, d, k) PROVE SpentHeld'
  BY <1>1, <1>0, Started DEF Start, SpentHeld, ToReport, LockReport
<1>2. ASSUME NEW n \in alive, Exit(n) PROVE SpentHeld'
  BY <1>2, <1>0 DEF Exit, SpentHeld, ToReport, LockReport
<1>3. ASSUME StartPoll PROVE SpentHeld'
  BY <1>3, <1>0, Polled DEF StartPoll, SpentHeld, ToReport, LockReport
<1>4. ASSUME NEW n \in alive, NEW miss \in SUBSET Unreadable, Visit(n, miss) PROVE SpentHeld'
  <2> SUFFICES ASSUME NEW x \in DOMAIN pending', NEW r \in ToReport(pending'[x]) PROVE SpentReport(r)'
    BY DEF SpentHeld, ToReport, LockReport
  <2>1. CASE x = Id(n, miss) /\ (Adds(n, miss) \/ Holds(n, miss) \/ Moves(n, miss))
    <3>1. CASE Moves(n, miss) /\ r \in ToReport(pending[Old(n)])
      BY <1>0, <3>1 DEF SpentHeld, Moves
    <3>2. CASE r.proc = n /\ r.tag = Id(n, miss)[2]
      BY <1>4, <2>1, <3>2, ChangedEntry, SpentMade
    <3> QED BY <1>4, <2>1, <3>1, <3>2, ChangedEntry
  <2>2. CASE ~(x = Id(n, miss) /\ (Adds(n, miss) \/ Holds(n, miss) \/ Moves(n, miss)))
    <3>1. x \in DOMAIN pending /\ pending'[x] = pending[x]
      BY <1>4, <2>2, Unchanged
    <3> QED BY <1>0, <3>1 DEF SpentHeld
  <2> QED BY <2>1, <2>2
<1>5. ASSUME NEW p \in Pids, Vanished(p) PROVE SpentHeld'
  BY <1>5, <1>0, Skipped DEF Vanished, SpentHeld, ToReport, LockReport
<1>6. ASSUME NEW id \in DOMAIN pending, Finish(id) \/ FinishBroken(id) PROVE SpentHeld'
  <2> SUFFICES ASSUME NEW x \in DOMAIN pending', NEW r \in ToReport(pending'[x]) PROVE SpentReport(r)'
    BY DEF SpentHeld, ToReport, LockReport
  <2>1. x \in DOMAIN pending /\ pending'[x] = pending[x]
    BY <1>6, Finishing
  <2> QED BY <1>0, <2>1 DEF SpentHeld
<1>7. ASSUME EndPoll PROVE SpentHeld'
  BY <1>7, <1>0, IdleIs DEF EndPoll, SpentHeld, ToReport, LockReport
<1>8. ASSUME UNCHANGED vars PROVE SpentHeld'
  BY <1>8, <1>0 DEF vars, SpentHeld, ToReport, LockReport
<1> QED BY <1>1, <1>2, <1>3, <1>4, <1>5, <1>6, <1>7, <1>8 DEF Next, Monitor

LEMMA UnsentNext ==
  ASSUME Typed, Latest, Entries, Steady, SingleKnown, PendingSeen, Own, Unique, SpentSent, SpentHeld, Unsent, [Next]_vars
  PROVE  Unsent'
<1>1. ASSUME NEW p \in Pids, NEW d \in Dirs, NEW k \in Commands, Start(p, d, k) PROVE Unsent'
  BY <1>1, Started DEF Start, Unsent, ToReport, LockReport
<1>2. ASSUME NEW n \in alive, Exit(n) PROVE Unsent'
  BY <1>2 DEF Exit, Unsent, ToReport, LockReport
<1>3. ASSUME StartPoll PROVE Unsent'
  BY <1>3, Polled DEF StartPoll, Unsent, ToReport, LockReport
<1>4. ASSUME NEW n \in alive, NEW miss \in SUBSET Unreadable, Visit(n, miss) PROVE Unsent'
  <2> SUFFICES ASSUME NEW x \in DOMAIN pending', NEW r \in ToReport(pending'[x]) PROVE r \notin DOMAIN sent'
    BY DEF Unsent, ToReport, LockReport
  <2>1. ASSUME NEW y \in DOMAIN pending, r \in ToReport(pending[y]) PROVE r \notin DOMAIN sent'
    <3>1. SpentReport(r) /\ r \notin DOMAIN sent
      BY <2>1 DEF SpentHeld, Unsent
    <3> QED BY <1>4, <3>1, SentAfter, Fresh
  <2>2. CASE ~(x = Id(n, miss) /\ (Adds(n, miss) \/ Holds(n, miss) \/ Moves(n, miss)))
    <3>1. x \in DOMAIN pending /\ pending'[x] = pending[x]
      BY <1>4, <2>2, Unchanged
    <3> QED BY <2>1, <3>1
  <2>3. CASE x = Id(n, miss) /\ (Adds(n, miss) \/ Holds(n, miss) \/ Moves(n, miss))
    <3>1. CASE Moves(n, miss) /\ r \in ToReport(pending[Old(n)])
      BY <2>1, <3>1 DEF Moves
    <3>2. CASE r.proc = n /\ r.tag = Id(n, miss)[2] /\ r.what \in {"lock", "private"}
      <4>1. Parsed(n, miss) /\ Dir(n, miss) # NoDir
        BY <1>4, <2>3, ChangedEntry
      <4>2. r \notin DOMAIN sent
        BY <1>4, <3>2, <4>1, Fresh DEF SpentSent
      <4>3. ~(r.what = "public" \/ (r.what = "private" /\ Dir(n, miss) = NoDir))
        BY <3>2, <4>1
      <4> QED BY <1>4, <4>2, <4>3, SentAfter
    <3> QED BY <1>4, <2>3, <3>1, <3>2, ChangedEntry
  <2> QED BY <2>2, <2>3
<1>5. ASSUME NEW p \in Pids, Vanished(p) PROVE Unsent'
  BY <1>5, Skipped DEF Vanished, Unsent, ToReport, LockReport
<1>6. ASSUME NEW id \in DOMAIN pending, Finish(id) \/ FinishBroken(id) PROVE Unsent'
  <2> SUFFICES ASSUME NEW x \in DOMAIN pending', NEW r \in ToReport(pending'[x]) PROVE r \notin DOMAIN sent'
    BY DEF Unsent, ToReport, LockReport
  <2>1. x \in DOMAIN pending /\ x # id /\ pending'[x] = pending[x]
    BY <1>6, Finishing
  <2>2. \A y \in DOMAIN pending : \A s \in ToReport(pending[y]) : s.proc = pending[y].proc
    BY LockReportIs DEF Own, EntryOwn, ToReport
  <2>3. r \notin ToReport(pending[id])
    BY <2>1, <2>2 DEF Unique
  <2>4. r \notin DOMAIN sent
    BY <2>1 DEF Unsent
  <2> QED BY <1>6, <2>3, <2>4, Finishing
<1>7. ASSUME EndPoll PROVE Unsent'
  BY <1>7, IdleIs DEF EndPoll, Unsent, ToReport, LockReport
<1>8. ASSUME UNCHANGED vars PROVE Unsent'
  BY <1>8 DEF vars, Unsent, ToReport, LockReport
<1> QED BY <1>1, <1>2, <1>3, <1>4, <1>5, <1>6, <1>7, <1>8 DEF Next, Monitor

LEMMA OnceNext ==
  ASSUME Typed, Latest, Entries, Steady, SingleKnown, PendingSeen, Own, Unique, SpentSent, SpentHeld, Unsent, Once, [Next]_vars
  PROVE  Once'
<1>1. ASSUME NEW p \in Pids, NEW d \in Dirs, NEW k \in Commands, Start(p, d, k) PROVE Once'
  BY <1>1, Started DEF Start, Once
<1>2. ASSUME NEW n \in alive, Exit(n) PROVE Once'
  BY <1>2 DEF Exit, Once
<1>3. ASSUME StartPoll PROVE Once'
  BY <1>3, Polled DEF StartPoll, Once
<1>4. ASSUME NEW n \in alive, NEW miss \in SUBSET Unreadable, Visit(n, miss) PROVE Once'
  <2> SUFFICES ASSUME NEW r \in DOMAIN sent' PROVE sent'[r] = 1
    BY DEF Once
  <2>1. CASE r \notin DOMAIN sent
    BY <1>4, <2>1, SentAfter
  <2>2. CASE r \in DOMAIN sent
    <3>1. ~(Parsed(n, miss) /\ r.proc = n /\ r.tag = Id(n, miss)[2])
      BY <1>4, <2>2, Fresh DEF SpentSent
    <3>2. sent'[r] = sent[r]
      BY <1>4, <2>2, <3>1, SentAfter
    <3> QED BY <2>2, <3>2 DEF Once
  <2> QED BY <2>1, <2>2
<1>5. ASSUME NEW p \in Pids, Vanished(p) PROVE Once'
  BY <1>5, Skipped DEF Vanished, Once
<1>6. ASSUME NEW id \in DOMAIN pending, Finish(id) \/ FinishBroken(id) PROVE Once'
  <2> SUFFICES ASSUME NEW r \in DOMAIN sent' PROVE sent'[r] = 1
    BY DEF Once
  <2>1. \A s \in DOMAIN pending[id].held : pending[id].held[s] = 1
    BY DEF Own, EntryOwn
  <2>2. \A s \in DOMAIN sent : s \notin ToReport(pending[id])
    BY DEF Unsent
  <2> QED BY <1>6, <2>1, <2>2, Finishing DEF Once, ToReport
<1>7. ASSUME EndPoll PROVE Once'
  BY <1>7, IdleIs DEF EndPoll, Once
<1>8. ASSUME UNCHANGED vars PROVE Once'
  BY <1>8 DEF vars, Once
<1> QED BY <1>1, <1>2, <1>3, <1>4, <1>5, <1>6, <1>7, <1>8 DEF Next, Monitor

LEMMA FollowedNext ==
  ASSUME Typed, Latest, Entries, Steady, Unreadable \subseteq {"create_time"}, Single, SingleKnown, PendingSeen, Own, SpentHeld, Followed, [Next]_vars
  PROVE  Followed'
<1>1. ASSUME NEW p \in Pids, NEW d \in Dirs, NEW k \in Commands, Start(p, d, k) PROVE Followed'
  <2>1. PICK n \in Procs :
          /\ n \notin DOMAIN procs /\ \A i : i \in alive' <=> i \in alive \/ i = n
    BY <1>1, Started
  <2>2. UNCHANGED <<pending, poll>> /\ \A id \in DOMAIN pending : pending[id].proc \in DOMAIN procs
    BY <1>1 DEF Start, Entries, EntryFits
  <2> QED BY <2>1, <2>2 DEF Followed
<1>2. ASSUME NEW n \in alive, Exit(n) PROVE Followed'
  BY <1>2 DEF Exit, Followed
<1>3. ASSUME StartPoll PROVE Followed'
  <2>1. \A id \in DOMAIN pending : procs[pending[id].proc].pid = id[1]
    BY DEF Entries, EntryFits
  <2> QED BY <1>3, <2>1, Polled DEF Followed
<1>4. ASSUME NEW n \in alive, NEW miss \in SUBSET Unreadable, Visit(n, miss) PROVE Followed'
  <2> SUFFICES ASSUME NEW x \in DOMAIN pending', pending'[x].proc \in alive
               PROVE  x[1] \in poll'.todo \/ x \in poll'.current
    BY <1>4, SeenAfter DEF Followed
  <2>1. /\ \A p : p \in poll'.todo <=> p \in poll.todo /\ p # procs[n].pid
       /\ \A y : y \in poll'.current <=> y \in poll.current \/ y = Id(n, miss)
    BY <1>4, PollStaysOpen
  <2>2. CASE x = Id(n, miss)
    BY <2>1, <2>2
  <2>3. CASE x # Id(n, miss)
    <3>1. x \in DOMAIN pending /\ pending'[x] = pending[x] /\ (Moves(n, miss) => x # Old(n))
      BY <1>4, <2>3, Unchanged
    <3>2. x[1] \in poll.todo \/ x \in poll.current
      BY <1>4, <3>1, SeenAfter DEF Followed
    <3>3. x[1] # procs[n].pid
      <4> SUFFICES ASSUME x[1] = procs[n].pid PROVE FALSE
        OBVIOUS
      <4>1. EntryFits(x, pending[x]) /\ EntryOwn(x, pending[x]) /\ x \in seen /\ x = <<x[1], x[2]>>
        BY <3>1 DEF Entries, Own, PendingSeen, Typed, Identities
      <4>2. pending[x].proc = n
        BY <1>4, <3>1, <4>1, Predecessor DEF EntryFits
      <4>3. Id(n, miss) = <<procs[n].pid, n>> /\ x[2] # n
        BY <1>4, <2>3, <4>1, SeenIsFound
      <4>4. x = Old(n) /\ n # None
        BY <4>1, <4>2, <4>3, ProcsAre DEF EntryOwn, Old, Typed
      <4>5. pending[x].dir = Dir(n, miss)
        BY <1>4, <4>1, <4>2, DirIs DEF EntryFits
      <4>6. Moves(n, miss)
        BY <3>1, <4>3, <4>4, <4>5 DEF Moves
      <4> QED BY <3>1, <4>4, <4>6
    <3> QED BY <2>1, <3>2, <3>3
  <2> QED BY <2>2, <2>3
<1>5. ASSUME NEW p \in Pids, Vanished(p) PROVE Followed'
  <2>1. \A id \in DOMAIN pending : pending[id].proc \in alive => id[1] # p
    BY <1>5, Skipped DEF Entries, EntryFits, Busy
  <2> QED BY <1>5, <2>1, Skipped DEF Followed
<1>6. ASSUME NEW id \in DOMAIN pending, Finish(id) \/ FinishBroken(id) PROVE Followed'
  BY <1>6, Finishing, FinishStaysOpen DEF Followed
<1>7. ASSUME EndPoll PROVE Followed'
  BY <1>7, IdleIs DEF EndPoll, Followed
<1>8. ASSUME UNCHANGED vars PROVE Followed'
  BY <1>8 DEF vars, Followed
<1> QED BY <1>1, <1>2, <1>3, <1>4, <1>5, <1>6, <1>7, <1>8 DEF Next, Monitor

-----------------------------------------------------------------------------
(* The theorems. *)

LEMMA InvInit == Init => Inv
<1> SUFFICES ASSUME Init PROVE Inv
  OBVIOUS
<1> USE DEF Init
<1>1. procs = <<>> /\ DOMAIN procs = {} /\ DOMAIN pending = {} /\ DOMAIN sent = {} /\ seen = {} /\ alive = {}
  BY EmptyBagIs
<1>2. Typed
  <2>1. procs \in Seq([pid : Pids, dir : Dirs, kind : Commands]) /\ Len(procs) = 0
    OBVIOUS
  <2>2. Len(procs) <= MaxProcs
    BY <2>1, ReuseAssumption
  <2>3. IsABag(sent) /\ DOMAIN sent = {}
    BY EmptyBagIs
  <2> QED BY <1>1, <2>1, <2>2, <2>3, IdleIs DEF Typed
<1>3. Latest /\ Entries /\ Past /\ Noticed
  BY <1>1, IdleIs DEF Latest, Entries, Past, Noticed
<1>4. Single /\ SingleKnown
  BY <1>1, IdleIs DEF Single, SingleKnown, OneEach
<1>5. PendingSeen /\ Own /\ Unique /\ Unsent /\ Once /\ SpentSent /\ SpentHeld /\ Followed
  BY <1>1, IdleIs DEF PendingSeen, Own, Unique, Unsent, Once, SpentSent, SpentHeld, Followed
<1> QED BY <1>2, <1>3, <1>4, <1>5 DEF Inv, Base, Sound

LEMMA InvNext == Inv /\ [Next]_vars => Inv'
<1> SUFFICES ASSUME Inv, [Next]_vars PROVE Inv'
  OBVIOUS
<1>1. Typed /\ Latest /\ Entries /\ Past /\ Noticed
  BY DEF Inv, Base
<1>2. Typed' /\ Latest' /\ Entries' /\ Past' /\ Noticed'
  BY <1>1, TypedNext, LatestNext, EntriesNext, PastNext, NoticedNext
<1>3. ASSUME Steady' PROVE Sound'
  <2>1. Steady
    BY <1>1, <1>3, SteadyBefore
  <2>2. Single /\ SingleKnown /\ PendingSeen /\ Own /\ Unique /\ Unsent /\ Once /\ SpentSent /\ SpentHeld
    BY <2>1 DEF Inv, Sound
  <2>3. Single' /\ SingleKnown' /\ PendingSeen' /\ Own' /\ Unique'
    BY <1>1, <2>1, <2>2, SingleNext, SingleKnownNext, PendingSeenNext, OwnNext, UniqueNext
  <2>4. Unsent' /\ Once' /\ SpentSent' /\ SpentHeld'
    BY <1>1, <2>1, <2>2, UnsentNext, OnceNext, SpentSentNext, SpentHeldNext
  <2> QED BY <2>3, <2>4 DEF Sound
<1>4. ASSUME NoneAbandons', Unreadable \subseteq {"create_time"} PROVE Followed'
  <2>1. Steady
    BY <1>1, <1>4, SteadyBefore DEF Steady
  <2>2. Single /\ SingleKnown /\ PendingSeen /\ Own /\ SpentHeld /\ Followed
    BY <1>4, <2>1 DEF Inv, Sound, Steady
  <2> QED BY <1>1, <1>4, <2>1, <2>2, FollowedNext
<1> QED BY <1>2, <1>3, <1>4 DEF Inv, Base

LEMMA InvHolds == Spec => []Inv
  BY InvInit, InvNext, PTL DEF Spec

\* The state keeps its types.
THEOREM MonitorTypes == Spec => []TypeOK
<1>1. Inv => TypeOK
  <2> SUFFICES ASSUME Typed, Entries PROVE TypeOK
    BY DEF Inv, Base
  <2>1. ASSUME NEW id \in DOMAIN pending
        PROVE  /\ pending[id].proc \in Procs /\ pending[id].dir \in Dirs
               /\ pending[id].tag \in Times /\ pending[id].scan \in BOOLEAN
               /\ DOMAIN pending[id].held \subseteq Reports
    <3>1. EntryFits(id, pending[id]) /\ id \in Identities
      BY DEF Entries, Typed
    <3> QED BY <3>1, ProcsAre DEF EntryFits, Identities
  <2> QED BY <2>1 DEF Typed, TypeOK
<1> QED BY <1>1, InvHolds, PTL

\* While no poll is abandoned and command lines read, an install is reported
\* once under each identity, however its create_time and its working directory
\* come and go and whoever had its pid before (ProcessMonitor._scan_processes:
\* the identities reconciled with those of the poll before, the entries that
\* move to an identity that has a create_time).
THEOREM ReportsAreNotRepeated == Spec => []ReportedOncePerTag
<1>1. Inv => ReportedOncePerTag
  BY DEF Inv, Steady, Sound, Once, ReportedOncePerTag, CopiesOf
<1> QED BY <1>1, InvHolds, PTL

\* A step that reports a lock file or a private package reports one whose
\* process has exited.
LEMMA ReadAfterExit ==
  ASSUME Inv, [Next]_vars, Unreadable \subseteq {"create_time"}, NoneAbandons,
         NEW r \in DOMAIN sent', MoreSent(r), r.what # "public"
  PROVE  r.proc \notin alive
<1>0. Typed /\ Latest /\ Entries /\ Steady /\ Own /\ Once /\ Followed
  BY DEF Inv, Base, Steady, Sound
<1>1. sent' # sent
  BY DEF MoreSent, CopiesOf, Inv, Base, Typed, IsABag
<1>2. ASSUME NEW n \in alive, NEW miss \in SUBSET Unreadable, Visit(n, miss) PROVE FALSE
  <2>1. Dir(n, miss) # NoDir
    BY <1>0, DirIs, ProcsAre DEF Typed
  <2>2. ~(r.what = "public" \/ (r.what = "private" /\ Dir(n, miss) = NoDir))
    BY <2>1
  <2>3. r \in DOMAIN sent /\ sent'[r] = sent[r]
    BY <1>0, <1>2, <2>2, SentAfter
  <2> QED BY <1>0, <2>3 DEF MoreSent, CopiesOf, Once
<1>3. ASSUME NEW id \in DOMAIN pending, Finish(id) \/ FinishBroken(id) PROVE r.proc \notin alive
  <2>1. r \in ToReport(pending[id])
    <3> SUFFICES ASSUME r \notin ToReport(pending[id]) PROVE FALSE
      OBVIOUS
    <3>1. r \in DOMAIN sent /\ sent'[r] = sent[r]
      BY <1>0, <1>3, Finishing
    <3> QED BY <1>0, <3>1 DEF MoreSent, CopiesOf, Once
  <2>2. r.proc = pending[id].proc
    BY <1>0, <2>1, LockReportIs DEF Own, EntryOwn, ToReport
  <2>3. poll.open /\ poll.todo = {} /\ id \notin poll.current
    BY <1>0, <1>3, Finishing DEF Walked
  <2> QED BY <1>0, <2>2, <2>3 DEF Followed
<1>4. CASE UNCHANGED sent
  BY <1>1, <1>4
<1>5. \/ UNCHANGED sent
      \/ \E n \in alive, miss \in SUBSET Unreadable : Visit(n, miss)
      \/ \E id \in DOMAIN pending : Finish(id) \/ FinishBroken(id)
  BY DEF Next, Monitor, Start, Exit, StartPoll, Vanished, EndPoll, vars
<1> QED BY <1>2, <1>3, <1>4, <1>5

\* A step that reads a whole installer process leaves it awaited or reported.
LEMMA ReadLeavesNoticed ==
  ASSUME Inv, NEW n \in alive, Visit(n, {}), "cwd" \notin Unreadable,
         procs[n].kind \in Surely
  PROVE  Awaited(n)' \/ Reported(n)'
<1>1. Typed /\ Latest /\ Entries /\ Noticed /\ {} \in SUBSET Unreadable
  BY DEF Inv, Base
<1>2. CASE Parsed(n, {})
  BY <1>1, <1>2, ReadIsNoticed
<1>3. CASE ~Parsed(n, {})
  <2>1. n # None
    BY <1>1, ProcsAre DEF Typed
  <2>2. Id(n, {}) = <<procs[n].pid, n>>
    BY <2>1, IdIs
  <2>3. <<procs[n].pid, n>> \in seen
    BY <1>3, <2>2 DEF Parsed, Surely
  <2>4. Awaited(n) \/ Reported(n)
    BY <1>1, <2>3 DEF Noticed
  <2> QED BY <1>1, <2>4, NoticedIsKept
<1> QED BY <1>2, <1>3

\* A pid that is used again, or whose create_time comes and goes, neither hides
\* an install (a process read in full, whose lock file search does not raise, is
\* left awaited or reported) nor has its files read before its command exits
\* (while no poll is abandoned).
THEOREM PidsAreReusedSafely == Spec => ReuseIsHarmless
<1>1. Inv /\ [Next]_vars =>
        [Unreadable \subseteq {"create_time"} =>
           \A r \in DOMAIN sent' : NoneAbandons /\ MoreSent(r) /\ r.what # "public"
             => r.proc \notin alive]_vars
  BY ReadAfterExit
<1>2. Inv /\ [Next]_vars =>
        [\A n \in alive :
           Visit(n, {}) /\ "cwd" \notin Unreadable
             /\ procs[n].kind \in {"lock", "public", "private", "mixed"}
           => Awaited(n)' \/ Reported(n)']_vars
  BY ReadLeavesNoticed DEF Surely
<1>3. Spec => ReadsAfterExit
  BY <1>1, InvHolds, PTL DEF Spec, ReadsAfterExit
<1>4. Spec => ReuseIsNoticed
  BY <1>2, InvHolds, PTL DEF Spec, ReuseIsNoticed
<1> QED BY <1>3, <1>4 DEF ReuseIsHarmless
=============================================================================
