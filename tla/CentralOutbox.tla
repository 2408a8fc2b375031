---------------------------- MODULE CentralOutbox ----------------------------
(***************************************************************************)
(* Reports to the fleet server: plugins/central (plugin.py, outbox.py).    *)
(*                                                                         *)
(* A report that cannot be sent is queued in the table central_outbox, at  *)
(* most Cap rows; the daemon's background loop drains the table.  Reports  *)
(* made by the daemon share one connection, guarded by an asyncio lock;    *)
(* those of one-shot commands open their own.                              *)
(*                                                                         *)
(* A connection is modelled as SQLite behaves in WAL mode under Python's   *)
(* implicit transactions: one writer at a time, a commit publishes the     *)
(* writer's rows, and a write that fails because another connection keeps  *)
(* the lock leaves the transaction it opened open.                         *)
(***************************************************************************)
EXTENDS Integers, Sequences, FiniteSets, SequencesExt

CONSTANTS
  Reports,      \* the reports made, each once
  Local,        \* those made by one-shot commands, each on its own connection
  Unbuildable,  \* those whose payload cannot be built
  Corrupt,      \* those whose stored payload does not parse
  Rejected,     \* those the server rejects on their own merits
  Cap,          \* _OUTBOX_CAP
  MaxStalls,    \* bound: times another writer outlasts the 10 s busy timeout
  Daemon,       \* the daemon's connection
  Other,        \* the connection of any other writer of the database
  NoOne,        \* no connection, no task
  MaxRestarts   \* bound: restarts of the daemon

ASSUME ReportsAssumption ==
  /\ Local \subseteq Reports /\ Unbuildable \subseteq Reports
  /\ Corrupt \subseteq Reports /\ Rejected \subseteq Reports
ASSUME CapAssumption == Cap \in Nat \ {0} /\ MaxRestarts \in Nat /\ MaxStalls \in Nat
ASSUME NamesAssumption ==
  /\ Daemon \notin Reports /\ Other \notin Reports \cup {Daemon}
  /\ NoOne \notin Reports \cup {Daemon, Other}

ConnOf(r) == IF r \in Local THEN r ELSE Daemon
Conns == {Daemon} \cup Local

VARIABLES
  at,         \* at[r]: how far report r has come
  rows,       \* central_outbox as committed: reports in order of created_at
  tx,         \* tx[c]: the transaction connection c has open
  work,       \* work[c]: the table as c's transaction sees it
  writer,     \* the connection that holds the database's write lock
  lock,       \* the task that holds _db_lock
  drain,      \* the background loop's _drain_outbox()
  up,         \* whether the server answers
  delivered,  \* the reports the server has received
  evicted,    \* the reports dropped at the cap
  stalls, restarts

vars == <<at, rows, tx, work, writer, lock, drain, up, delivered, evicted, stalls, restarts>>
table == <<rows, tx, work, writer>>

Stages == {"new", "sending", "failed", "begin", "write", "commit",
           "sent", "queued", "lost", "cancelled", "dropped"}
NoDrain == [stage |-> "idle", todo |-> <<>>, ok |-> FALSE]

TypeOK ==
  /\ at \in [Reports -> Stages]
  /\ rows \in Seq(Reports) /\ work \in [Conns -> Seq(Reports)]
  /\ tx \in [Conns -> {"none", "open", "read", "stale", "write"}]
  /\ writer \in Conns \cup {Other, NoOne} /\ lock \in Reports \cup {NoOne}
  /\ drain \in [stage : {"idle", "next", "sending", "settle"}, todo : Seq(Reports), ok : BOOLEAN]
  /\ up \in BOOLEAN /\ delivered \subseteq Reports /\ evicted \subseteq Reports
  /\ stalls \in 0 .. MaxStalls /\ restarts \in 0 .. MaxRestarts
  /\ lock # NoOne => at[lock] \in {"begin", "write", "commit"}
  /\ writer \in Conns => tx[writer] = "write"

Init ==
  /\ at = [r \in Reports |-> "new"] /\ rows = <<>>
  /\ tx = [c \in Conns |-> "none"] /\ work = [c \in Conns |-> <<>>]
  /\ writer = NoOne /\ lock = NoOne /\ drain = NoDrain
  /\ up \in BOOLEAN /\ delivered = {} /\ evicted = {} /\ stalls = 0 /\ restarts = 0

-----------------------------------------------------------------------------
(* The database. *)

\* The table as connection c sees it.
Seen(c) == IF tx[c] \in {"read", "stale", "write"} THEN work[c] ELSE rows

\* c may write: it has the write lock, or can take it on what it has read.
MayWrite(c) == writer = c \/ (writer = NoOne /\ tx[c] # "stale")
\* The write fails: the snapshot is stale, or the busy timeout ends.
WriteFails(c) ==
  /\ writer # c
  /\ \/ tx[c] = "stale" /\ stalls' = stalls
     \/ writer # NoOne /\ stalls < MaxStalls /\ stalls' = stalls + 1

\* c commits the table t: other connections' snapshots are now stale.
Commit(c, t) ==
  /\ rows' = t
  /\ tx' = [d \in Conns |-> IF d = c THEN "none"
                            ELSE IF tx[d] = "read" THEN "stale" ELSE tx[d]]
  /\ writer' = IF writer = c THEN NoOne ELSE writer
  /\ UNCHANGED work

\* Another writer of the database, maybe slow: it commits something else.
OtherWrites ==
  /\ writer = NoOne /\ writer' = Other
  /\ UNCHANGED <<at, rows, tx, work, lock, drain, up, delivered, evicted, stalls, restarts>>
OtherCommits ==
  /\ writer = Other /\ writer' = NoOne
  /\ tx' = [d \in Conns |-> IF tx[d] = "read" THEN "stale" ELSE tx[d]]
  /\ UNCHANGED <<at, rows, work, lock, drain, up, delivered, evicted, stalls, restarts>>

-----------------------------------------------------------------------------
(* A report: on_alert(), on_scan_complete(). *)

Report(r) ==
  /\ at[r] = "new"
  /\ at' = [at EXCEPT ![r] = IF r \in Unbuildable THEN "dropped" ELSE "sending"]
  /\ UNCHANGED <<table, lock, drain, up, delivered, evicted, stalls, restarts>>

\* The server's answer to r: what the sender learns, and whether it was received.
\* When it does not answer in time it may have received the report all the same.
Answers(r) ==
  IF ~up THEN {[kind |-> "retryable", got |-> g] : g \in BOOLEAN}
  ELSE IF r \in Rejected THEN {[kind |-> "payload_specific", got |-> FALSE]}
  ELSE {[kind |-> "ok", got |-> TRUE]}

Receive(r, a) == delivered' = IF a.got THEN delivered \cup {r} ELSE delivered

Send(r) ==
  /\ at[r] = "sending"
  /\ \E a \in Answers(r) :
       /\ Receive(r, a)
       /\ at' = [at EXCEPT ![r] = IF a.kind = "ok" THEN "sent" ELSE "failed"]
  /\ UNCHANGED <<table, lock, drain, up, evicted, stalls, restarts>>

-----------------------------------------------------------------------------
(* Queuing it: _enqueue_outbox(), outbox.enqueue(). *)

\* Mutant: the shared connection is used without the lock.
LockFreeAlways(r) == TRUE
LockFree(r) == r \in Local \/ lock = NoOne
LockTaken(r) == IF r \in Local THEN lock ELSE r
LockReleased(r) == IF lock = r THEN NoOne ELSE lock

Acquire(r) ==
  /\ at[r] = "failed" /\ LockFree(r)
  /\ lock' = LockTaken(r)
  /\ at' = [at EXCEPT ![r] = "begin"]
  /\ UNCHANGED <<table, drain, up, delivered, evicted, stalls, restarts>>

\* BEGIN IMMEDIATE.
Begin(r) ==
  LET c == ConnOf(r) IN
  /\ at[r] = "begin" /\ tx[c] = "none" /\ writer = NoOne
  /\ writer' = c
  /\ tx' = [tx EXCEPT ![c] = "write"] /\ work' = [work EXCEPT ![c] = rows]
  /\ at' = [at EXCEPT ![r] = "write"]
  /\ UNCHANGED <<rows, lock, drain, up, delivered, evicted, stalls, restarts>>

\* BEGIN IMMEDIATE fails inside a transaction, after it took the write lock if
\* it could; or the busy timeout ends.  The exception is logged.
BeginFails(r) ==
  LET c == ConnOf(r) IN
  /\ at[r] = "begin"
  /\ (tx[c] # "none" /\ stalls' = stalls) \/ WriteFails(c)
  /\ IF tx[c] # "none" /\ MayWrite(c)
     THEN /\ writer' = c /\ tx' = [tx EXCEPT ![c] = "write"]
          /\ work' = [work EXCEPT ![c] = Seen(c)]
     ELSE UNCHANGED <<writer, tx, work>>
  /\ lock' = LockReleased(r)
  /\ at' = [at EXCEPT ![r] = "lost"]
  /\ UNCHANGED <<rows, drain, up, delivered, evicted, restarts>>

\* The oldest row makes room at the cap.
Evict(t) == IF Len(t) >= Cap THEN Tail(t) ELSE t

Write(r) ==
  LET c == ConnOf(r) IN
  /\ at[r] = "write"
  /\ work' = [work EXCEPT ![c] = Append(Evict(Seen(c)), r)]
  /\ tx' = [tx EXCEPT ![c] = "write"]
  /\ evicted' = evicted \cup (ToSet(Seen(c)) \ ToSet(Evict(Seen(c))))
  /\ at' = [at EXCEPT ![r] = "commit"]
  /\ UNCHANGED <<rows, writer, lock, drain, up, delivered, stalls, restarts>>

CommitReport(r) ==
  /\ at[r] = "commit"
  /\ Commit(ConnOf(r), Seen(ConnOf(r)))
  /\ lock' = LockReleased(r)
  /\ at' = [at EXCEPT ![r] = "queued"]
  /\ UNCHANGED <<drain, up, delivered, evicted, stalls, restarts>>

-----------------------------------------------------------------------------
(* The background loop: _drain_outbox(). *)

DrainMayLock == lock = NoOne

\* dequeue_all(): a snapshot of the queue.
DrainStart ==
  /\ drain.stage = "idle" /\ DrainMayLock
  /\ drain' = [NoDrain EXCEPT !.stage = "next", !.todo = Seen(Daemon)]
  /\ IF tx[Daemon] = "open"
     THEN tx' = [tx EXCEPT ![Daemon] = "read"] /\ work' = [work EXCEPT ![Daemon] = rows]
     ELSE UNCHANGED <<tx, work>>
  /\ UNCHANGED <<at, rows, writer, lock, up, delivered, evicted, stalls, restarts>>

DrainNext ==
  /\ drain.stage = "next"
  /\ drain' = IF drain.todo = <<>> THEN NoDrain
              ELSE IF Head(drain.todo) \in Corrupt
                   THEN [drain EXCEPT !.stage = "settle", !.ok = TRUE]
                   ELSE [drain EXCEPT !.stage = "sending"]
  /\ UNCHANGED <<at, table, lock, up, delivered, evicted, stalls, restarts>>

DrainOk(a) == a.kind = "ok"

\* Mutant: any failure stops the drain.
StopsDrainAny(a) == a.kind # "ok"
\* A failure every other row would meet too stops the drain.
StopsDrain(a) == a.kind = "retryable"

\* The answer decides whether the row is deleted or marked, and which rows are left.
DrainSend ==
  LET r == Head(drain.todo) IN
  /\ drain.stage = "sending"
  /\ \E a \in Answers(r) :
       /\ Receive(r, a)
       /\ drain' = [stage |-> "settle", ok |-> DrainOk(a),
                    todo |-> IF StopsDrain(a) THEN <<r>> ELSE drain.todo]
  /\ UNCHANGED <<at, table, lock, up, evicted, stalls, restarts>>

\* Rows have AUTOINCREMENT ids: deleting one that is gone deletes nothing.
IndexOf(t, r) == CHOOSE i \in DOMAIN t : t[i] = r
Deleted(t, r) == IF r \in ToSet(t) THEN RemoveAt(t, IndexOf(t, r)) ELSE t

\* delete() or mark_failed(), and the commit.
DrainSettle ==
  LET r == Head(drain.todo) IN
  /\ drain.stage = "settle" /\ DrainMayLock
  /\ MayWrite(Daemon)
  /\ Commit(Daemon, IF drain.ok THEN Deleted(Seen(Daemon), r) ELSE Seen(Daemon))
  /\ drain' = [stage |-> "next", ok |-> FALSE, todo |-> Tail(drain.todo)]
  /\ UNCHANGED <<at, lock, up, delivered, evicted, stalls, restarts>>

\* The write fails and the exception ends the drain: the transaction stays open.
DrainSettleFails ==
  /\ drain.stage = "settle" /\ DrainMayLock
  /\ WriteFails(Daemon)
  /\ tx' = [tx EXCEPT ![Daemon] = IF @ = "none" THEN "open" ELSE @]
  /\ drain' = NoDrain
  /\ UNCHANGED <<at, rows, work, writer, lock, up, delivered, evicted, restarts>>

-----------------------------------------------------------------------------
(* The daemon and the server. *)

\* The daemon stops and starts again: tasks still running after drain_alert_tasks()
\* are cancelled, the loop too, and the connection is closed.  A crash does the same.
Restart ==
  /\ restarts < MaxRestarts /\ restarts' = restarts + 1
  /\ at' = [r \in Reports |->
              IF r \notin Local /\ at[r] \in {"sending", "failed", "begin", "write", "commit"}
              THEN "cancelled" ELSE at[r]]
  /\ tx' = [tx EXCEPT ![Daemon] = "none"]
  /\ writer' = IF writer = Daemon THEN NoOne ELSE writer
  /\ lock' = NoOne /\ drain' = NoDrain
  /\ UNCHANGED <<rows, work, up, delivered, evicted, stalls>>

ServerFlips ==
  /\ up' = ~up
  /\ UNCHANGED <<at, table, lock, drain, delivered, evicted, stalls, restarts>>

-----------------------------------------------------------------------------

Enqueue(r) == Acquire(r) \/ Begin(r) \/ BeginFails(r) \/ Write(r) \/ CommitReport(r)
Drain == DrainStart \/ DrainNext \/ DrainSend \/ DrainSettle \/ DrainSettleFails

Next ==
  \/ \E r \in Reports : Report(r) \/ Send(r) \/ Enqueue(r)
  \/ Drain
  \/ OtherWrites \/ OtherCommits
  \/ Restart \/ ServerFlips

Spec == Init /\ [][Next]_vars

\* The loop ticks while the daemon runs, requests time out, writers commit.
Fairness ==
  /\ WF_vars(Drain) /\ SF_vars(DrainSettle \/ DrainStart)
  /\ \A r \in Reports : WF_vars(Send(r) \/ Enqueue(r)) /\ SF_vars(Acquire(r) \/ Begin(r))
  /\ WF_vars(OtherCommits)

FairSpec == Spec /\ Fairness

-----------------------------------------------------------------------------
(* What the outbox promises. *)

Queued(r) == r \in ToSet(rows)

\* Concurrent reports do not exceed the cap, whichever connection they use.
CapHolds == Len(rows) <= Cap /\ IsInjective(rows)

\* A report that was made is received, queued or on its way, unless the cap, a
\* shutdown or a busy database dropped it: reports and the drain do not lose each
\* other's.
ReportsNotLost ==
  \A r \in Reports :
    \/ at[r] \in {"new", "sending", "failed", "begin", "write", "commit"}
    \/ at[r] \in {"cancelled", "dropped"}
    \/ at[r] = "lost" /\ stalls > 0
    \/ Queued(r) \/ r \in delivered \cup evicted \cup Corrupt

\* Once the server stays up, a queued report it accepts is received or evicted,
\* as long as no writer outlasted the busy timeout: a rejected row does not hold
\* up the rows behind it.
QueuedIsDelivered ==
  <>[]up => \A r \in Reports \ (Rejected \cup Corrupt) :
              Queued(r) ~> (r \in delivered \cup evicted \/ stalls > 0)

\* The outbox neither outgrows its cap nor loses a report for another reason,
\* whoever writes to it at once.
QueueKeepsItsReports == CapHolds /\ ReportsNotLost
=============================================================================
