------------------------ MODULE CentralOutboxProofs ------------------------
(***************************************************************************)
(* Theorems about CentralOutbox: for any reports, connections and cap, and *)
(* whatever other writers, restarts and server outages do in between;      *)
(* about SchemaMigration, the opening of the database that holds its table;*)
(* and about Scheduler, the scans the daemon makes by the hour.            *)
(***************************************************************************)
EXTENDS CentralOutbox, SchemaMigration, Scheduler, SequenceTheorems, FiniteSetTheorems, TLAPS

\* An open transaction is the daemon's and was left by a failed write; the one that
\* has written holds the write lock, and is a report's or was left so too.
Transactions ==
  \A c \in Conns :
    /\ tx[c] \in {"open", "read", "stale"} => c = Daemon /\ stalls > 0
    /\ tx[c] = "write" =>
         /\ writer = c
         /\ c = Daemon => stalls > 0 \/ (lock # NoOne /\ at[lock] \in {"write", "commit"})
         /\ c # Daemon => at[c] \in {"write", "commit"}

\* A report that is being queued has what it needs of the database.
Holders ==
  lock \notin Local /\
  \A r \in Reports :
    /\ at[r] \in {"begin", "write", "commit"} /\ r \notin Local => lock = r
    /\ at[r] \in {"write", "commit"} => writer = ConnOf(r)
    /\ at[r] = "commit" => r \in ToSet(work[ConnOf(r)])

\* No report is in the table, or in a transaction's view of it, before it is written.
Placed ==
  \A r \in Reports :
    (r \in ToSet(rows) \/ \E c \in Conns : r \in ToSet(work[c]))
      => at[r] \in {"commit", "queued", "cancelled"}

\* Every view of the table respects the cap.
Bounded ==
  /\ Len(rows) <= Cap /\ IsInjective(rows)
  /\ \A c \in Conns : Len(work[c]) <= Cap /\ IsInjective(work[c])

\* What the transaction that writes does not see was evicted or received.
Views ==
  \A c \in Conns :
    /\ tx[c] = "read" => work[c] = rows
    /\ tx[c] = "write" => ToSet(rows) \subseteq ToSet(work[c]) \cup delivered \cup evicted \cup Corrupt

\* The drain settles a row it has, and deletes it only when the server has it.
Drains ==
  /\ drain.stage \in {"sending", "settle"} => drain.todo # <<>>
  /\ drain.stage = "settle" /\ drain.ok => Head(drain.todo) \in delivered \cup Corrupt

\* What became of the reports that are no longer on their way.
Ends ==
  \A r \in Reports :
    /\ at[r] = "sent" => r \in delivered
    /\ at[r] = "lost" => stalls > 0
    /\ at[r] = "queued" => r \in ToSet(rows) \cup delivered \cup evicted \cup Corrupt

Inv == TypeOK /\ Transactions /\ Holders /\ Placed /\ Bounded /\ Views /\ Drains /\ Ends

-----------------------------------------------------------------------------
(* The table: what adding and deleting a row does to it. *)

LEMMA Connections ==
  /\ \A r \in Reports : ConnOf(r) \in Conns /\ (ConnOf(r) = Daemon <=> r \notin Local)
                         /\ (r \in Local => ConnOf(r) = r)
  /\ Daemon \in Conns /\ Daemon \notin Local /\ Local \subseteq Reports
  /\ NoOne \notin Conns /\ Other \notin Conns /\ NoOne \notin Reports /\ NoOne # Other
  BY ReportsAssumption, NamesAssumption DEF ConnOf, Conns

\* The entries of a sequence are the values at its indices.
LEMMA Entries == \A s \in Seq(Reports) :
                   ToSet(s) = {s[i] : i \in 1 .. Len(s)} /\ ToSet(s) \subseteq Reports
  <1> TAKE s \in Seq(Reports)
  <1>1. DOMAIN s = 1 .. Len(s) /\ \A i \in 1 .. Len(s) : s[i] \in Reports
    OBVIOUS
  <1> QED BY <1>1 DEF ToSet

LEMMA EvictMakesRoom ==
  ASSUME NEW t \in Seq(Reports), Len(t) <= Cap, IsInjective(t)
  PROVE  /\ Evict(t) \in Seq(Reports) /\ Len(Evict(t)) < Cap /\ IsInjective(Evict(t))
         /\ ToSet(Evict(t)) \subseteq ToSet(t)
<1> USE CapAssumption
<1>1. Cap \in Nat /\ Cap > 0 /\ Len(t) \in Nat
  OBVIOUS
<1>2. CASE Len(t) >= Cap
  <2>1. t # <<>> /\ Evict(t) = Tail(t)
    BY <1>1, <1>2 DEF Evict
  <2>2. /\ Tail(t) \in Seq(Reports) /\ Len(Tail(t)) = Len(t) - 1
        /\ \A i \in 1 .. Len(Tail(t)) : Tail(t)[i] = t[i + 1]
    BY <2>1, HeadTailProperties
  <2>3. IsInjective(Tail(t))
    <3>1. ASSUME NEW i \in 1 .. Len(Tail(t)), NEW j \in 1 .. Len(Tail(t)), Tail(t)[i] = Tail(t)[j]
          PROVE  i = j
      <4>1. t[i + 1] = t[j + 1] /\ i + 1 \in DOMAIN t /\ j + 1 \in DOMAIN t
        BY <2>2, <3>1
      <4>2. i + 1 = j + 1
        BY <4>1 DEF IsInjective
      <4> QED BY <4>2
    <3>2. DOMAIN Tail(t) = 1 .. Len(Tail(t))
      BY <2>2
    <3> QED BY <3>1, <3>2 DEF IsInjective
  <2>4. ToSet(Tail(t)) \subseteq ToSet(t)
    <3>1. \A i \in 1 .. Len(Tail(t)) : Tail(t)[i] = t[i + 1] /\ i + 1 \in 1 .. Len(t)
      BY <2>2
    <3>2. /\ ToSet(Tail(t)) = {Tail(t)[i] : i \in 1 .. Len(Tail(t))}
          /\ ToSet(t) = {t[i] : i \in 1 .. Len(t)}
      BY <2>2, Entries
    <3> QED BY <3>1, <3>2
  <2> QED BY <1>1, <1>2, <2>1, <2>2, <2>3, <2>4
<1>3. CASE Len(t) < Cap
  BY <1>1, <1>3 DEF Evict
<1> QED BY <1>1, <1>2, <1>3

LEMMA AppendKeeps ==
  ASSUME NEW t \in Seq(Reports), NEW r \in Reports, r \notin ToSet(t), IsInjective(t)
  PROVE  /\ Append(t, r) \in Seq(Reports) /\ Len(Append(t, r)) = Len(t) + 1
         /\ IsInjective(Append(t, r)) /\ ToSet(Append(t, r)) = ToSet(t) \cup {r}
<1> DEFINE u == Append(t, r)
<1>1. /\ u \in Seq(Reports) /\ Len(u) = Len(t) + 1 /\ u[Len(t) + 1] = r /\ Len(t) \in Nat
      /\ \A i \in 1 .. Len(t) : u[i] = t[i]
  BY AppendProperties
<1> HIDE DEF u
<1>2. \A i \in 1 .. Len(u) : i = Len(t) + 1 \/ i \in 1 .. Len(t)
  BY <1>1
<1>3. ToSet(u) = ToSet(t) \cup {r}
  <2>1. Len(t) + 1 \in 1 .. Len(u) /\ 1 .. Len(t) \subseteq 1 .. Len(u)
    BY <1>1
  <2> QED BY <1>1, <1>2, <2>1, Entries
<1>4. ASSUME NEW i \in 1 .. Len(u), NEW j \in 1 .. Len(u), u[i] = u[j]
      PROVE  i = j
  <2>1. \A k \in 1 .. Len(t) : t[k] # r
    BY Entries
  <2>2. \A k, l \in 1 .. Len(t) : t[k] = t[l] => k = l
    BY DEF IsInjective
  <2> QED BY <1>1, <1>2, <1>4, <2>1, <2>2
<1>5. DOMAIN u = 1 .. Len(u)
  BY <1>1
<1>6. IsInjective(u)
  BY <1>4, <1>5 DEF IsInjective
<1> QED BY <1>1, <1>3, <1>6 DEF u

LEMMA DeletedKeeps ==
  ASSUME NEW t \in Seq(Reports), NEW r \in Reports, IsInjective(t)
  PROVE  /\ Deleted(t, r) \in Seq(Reports) /\ Len(Deleted(t, r)) <= Len(t)
         /\ IsInjective(Deleted(t, r))
         /\ ToSet(Deleted(t, r)) \subseteq ToSet(t) /\ ToSet(t) \subseteq ToSet(Deleted(t, r)) \cup {r}
<1>1. CASE r \notin ToSet(t)
  BY <1>1 DEF Deleted
<1>2. CASE r \in ToSet(t)
  <2> DEFINE n == Len(t)
             k == IndexOf(t, r)
             a == SubSeq(t, 1, k - 1)
             b == SubSeq(t, k + 1, n)
             u == Deleted(t, r)
  <2>1. n \in Nat /\ DOMAIN t = 1 .. n /\ \A i \in 1 .. n : t[i] \in Reports
    OBVIOUS
  <2>2. k \in 1 .. n /\ t[k] = r
    BY <1>2, <2>1, Entries DEF IndexOf
  <2>3. u = a \o b
    BY <1>2 DEF Deleted, RemoveAt
  <2> HIDE DEF k, u
  <2>4. /\ a \in Seq(Reports) /\ Len(a) = k - 1 /\ \A i \in 1 .. k - 1 : a[i] = t[i]
    <3>1. \A i \in 1 .. k - 1 : t[i] \in Reports
      BY <2>1, <2>2
    <3>2. /\ a \in Seq(Reports) /\ Len(a) = IF 1 <= k - 1 THEN (k - 1) - 1 + 1 ELSE 0
          /\ \A i \in 1 .. (k - 1) - 1 + 1 : a[i] = t[1 + i - 1]
      BY <2>2, <3>1, SubSeqProperties
    <3> QED BY <2>2, <3>2
  <2>5. /\ b \in Seq(Reports) /\ Len(b) = n - k /\ \A i \in 1 .. n - k : b[i] = t[k + i]
    <3>1. \A i \in k + 1 .. n : t[i] \in Reports
      BY <2>1, <2>2
    <3>2. /\ b \in Seq(Reports) /\ Len(b) = IF k + 1 <= n THEN n - (k + 1) + 1 ELSE 0
          /\ \A i \in 1 .. n - (k + 1) + 1 : b[i] = t[(k + 1) + i - 1]
      BY <2>1, <2>2, <3>1, SubSeqProperties
    <3>3. n - (k + 1) + 1 = n - k /\ \A i \in 1 .. n - k : (k + 1) + i - 1 = k + i
      BY <2>1, <2>2
    <3>4. \A i \in 1 .. n - k : b[i] = t[k + i]
      BY <3>2, <3>3
    <3>5. n \in Int /\ k \in Int /\ k <= n
      BY <2>1, <2>2
    <3>6. CASE k + 1 <= n
      BY <3>2, <3>3, <3>4, <3>6
    <3>7. CASE ~(k + 1 <= n)
      <4>1. n - k = 0
        BY <3>5, <3>7
      <4> QED BY <3>2, <3>4, <3>7, <4>1
    <3> QED BY <3>6, <3>7
  <2> HIDE DEF a, b
  <2>6. /\ u \in Seq(Reports) /\ Len(u) = n - 1
        /\ \A i \in 1 .. n - 1 : u[i] = IF i < k THEN t[i] ELSE t[i + 1]
    <3>1. /\ a \o b \in Seq(Reports) /\ Len(a \o b) = Len(a) + Len(b)
          /\ \A i \in 1 .. Len(a) + Len(b) : (a \o b)[i] = IF i <= Len(a) THEN a[i] ELSE b[i - Len(a)]
      BY <2>4, <2>5, ConcatProperties
    <3>2. Len(a) + Len(b) = n - 1
      BY <2>1, <2>2, <2>4, <2>5
    <3>3. ASSUME NEW i \in 1 .. n - 1
          PROVE  u[i] = IF i < k THEN t[i] ELSE t[i + 1]
      <4>1. CASE i < k
        BY <2>1, <2>2, <2>3, <2>4, <3>1, <3>2, <4>1
      <4>2. CASE ~(i < k)
        <5>1. u[i] = b[i - (k - 1)]
          BY <2>1, <2>2, <2>3, <2>4, <3>1, <3>2, <4>2
        <5>2. i - (k - 1) \in 1 .. n - k /\ k + (i - (k - 1)) = i + 1
          BY <2>1, <2>2, <4>2
        <5>3. b[i - (k - 1)] = t[k + (i - (k - 1))]
          BY <2>5, <5>2
        <5> QED BY <4>2, <5>1, <5>2, <5>3
      <4> QED BY <4>1, <4>2
    <3> QED BY <2>3, <3>1, <3>2, <3>3
  <2>7. IsInjective(u)
    <3>1. ASSUME NEW i \in 1 .. n - 1, NEW j \in 1 .. n - 1, u[i] = u[j]
          PROVE  i = j
      <4>1. \A x, y \in 1 .. n : t[x] = t[y] => x = y
        BY <2>1 DEF IsInjective
      <4>2. i \in 1 .. n /\ i + 1 \in 1 .. n /\ j \in 1 .. n /\ j + 1 \in 1 .. n
        BY <2>1
      <4> QED BY <2>1, <2>2, <2>6, <3>1, <4>1, <4>2
    <3>2. DOMAIN u = 1 .. n - 1
      BY <2>1, <2>2, <2>6
    <3> QED BY <3>1, <3>2 DEF IsInjective
  <2>8. ToSet(u) \subseteq ToSet(t)
    <3>1. \A i \in 1 .. n - 1 : i \in 1 .. n /\ i + 1 \in 1 .. n
      BY <2>1
    <3> QED BY <2>6, <3>1, Entries
  <2>9. ToSet(t) \subseteq ToSet(u) \cup {r}
    <3>1. ASSUME NEW i \in 1 .. n, i # k
          PROVE  t[i] \in ToSet(u)
      <4>1. CASE i < k
        <5>1. i \in 1 .. n - 1 /\ u[i] = t[i]
          BY <2>1, <2>2, <2>6, <4>1
        <5> QED BY <2>6, <5>1, Entries
      <4>2. CASE i > k
        <5>1. i - 1 \in 1 .. n - 1 /\ ~(i - 1 < k) /\ (i - 1) + 1 = i
          BY <2>1, <2>2, <4>2
        <5>2. u[i - 1] = t[i]
          BY <2>6, <5>1
        <5> QED BY <2>6, <5>1, <5>2, Entries
      <4> QED BY <2>1, <2>2, <3>1, <4>1, <4>2
    <3> QED BY <2>2, <3>1, Entries
  <2> QED BY <2>1, <2>6, <2>7, <2>8, <2>9 DEF u
<1> QED BY <1>1, <1>2

-----------------------------------------------------------------------------
(* The invariant. *)

LEMMA SeenIsSound ==
  ASSUME Inv, NEW c \in Conns
  PROVE  /\ Seen(c) \in Seq(Reports) /\ Len(Seen(c)) <= Cap /\ IsInjective(Seen(c))
         /\ \A r \in ToSet(Seen(c)) : r \in Reports /\ at[r] \in {"commit", "queued", "cancelled"}
         /\ MayWrite(c) => ToSet(rows) \subseteq ToSet(Seen(c)) \cup delivered \cup evicted \cup Corrupt
<1>1. rows \in Seq(Reports) /\ work[c] \in Seq(Reports)
  BY DEF Inv, TypeOK
<1>2. Seen(c) = rows \/ Seen(c) = work[c]
  BY DEF Seen
<1>3. ToSet(rows) \subseteq Reports /\ ToSet(work[c]) \subseteq Reports
  BY <1>1, Entries
<1>4. \A r \in ToSet(Seen(c)) : r \in Reports /\ at[r] \in {"commit", "queued", "cancelled"}
  BY <1>2, <1>3 DEF Inv, Placed
<1>5. Len(Seen(c)) <= Cap /\ IsInjective(Seen(c))
  BY <1>2 DEF Inv, Bounded
<1>6. ASSUME MayWrite(c)
      PROVE  ToSet(rows) \subseteq ToSet(Seen(c)) \cup delivered \cup evicted \cup Corrupt
  <2>1. tx[c] # "stale"
    BY <1>6, Connections DEF MayWrite, Inv, TypeOK
  <2> QED BY <2>1 DEF Seen, Inv, Views
<1> QED BY <1>1, <1>2, <1>4, <1>5, <1>6

LEMMA InvInit == Init => Inv
<1> SUFFICES ASSUME Init PROVE Inv
  OBVIOUS
<1>1. <<>> \in Seq(Reports) /\ Len(<<>>) = 0 /\ ToSet(<<>>) = {} /\ IsInjective(<<>>)
  <2>1. <<>> \in Seq(Reports) /\ Len(<<>>) = 0 /\ DOMAIN <<>> = {}
    OBVIOUS
  <2> QED BY <2>1 DEF IsInjective, ToSet
<1>2. TypeOK
  <2>1. at \in [Reports -> Stages] /\ work \in [Conns -> Seq(Reports)] /\ rows \in Seq(Reports)
    BY <1>1 DEF Init, Stages
  <2>2. tx \in [Conns -> {"none", "open", "read", "stale", "write"}] /\ writer = NoOne /\ lock = NoOne
    BY DEF Init
  <2>3. drain \in [stage : {"idle", "next", "sending", "settle"}, todo : Seq(Reports), ok : BOOLEAN]
    BY <1>1 DEF Init, NoDrain
  <2>4. stalls \in 0 .. MaxStalls /\ restarts \in 0 .. MaxRestarts
    BY CapAssumption DEF Init
  <2>5. up \in BOOLEAN /\ delivered \subseteq Reports /\ evicted \subseteq Reports
    BY DEF Init
  <2> QED BY <2>1, <2>2, <2>3, <2>4, <2>5, Connections DEF TypeOK
<1>3. Bounded
  BY <1>1, CapAssumption DEF Init, Bounded
<1>4. Holders
  BY Connections DEF Init, Holders
<1>5. Placed
  BY <1>1 DEF Init, Placed
<1>6. Transactions /\ Views /\ Drains /\ Ends
  BY DEF Init, Transactions, Views, Drains, Ends, NoDrain
<1> QED BY <1>2, <1>3, <1>4, <1>5, <1>6 DEF Inv

\* Steps that leave the database alone.
LEMMA ReportKeeps == ASSUME Inv, NEW r \in Reports, Report(r) \/ Send(r) \/ Acquire(r) PROVE Inv'
<1> USE Connections
<1>1. /\ UNCHANGED <<rows, tx, work, writer, drain, up, evicted, stalls, restarts>>
      /\ at[r] \in {"new", "sending", "failed"}
      /\ at'[r] \in {"sending", "sent", "failed", "dropped", "begin"}
      /\ \E x \in Stages : at' = [at EXCEPT ![r] = x]
      /\ delivered \subseteq delivered' /\ delivered' \subseteq Reports
      /\ at'[r] = "sent" => r \in delivered'
  <2>1. CASE Report(r)
    BY <2>1 DEF Report, table, Inv, TypeOK, Stages
  <2>2. CASE Send(r)
    <3>1. PICK a \in Answers(r) :
             /\ Receive(r, a)
             /\ at' = [at EXCEPT ![r] = IF a.kind = "ok" THEN "sent" ELSE "failed"]
      BY <2>2 DEF Send
    <3>2. a.kind = "ok" => a.got
      BY DEF Answers
    <3>3. delivered \subseteq delivered' /\ delivered' \subseteq Reports /\ (a.got => r \in delivered')
      BY <3>1 DEF Receive, Inv, TypeOK
    <3> QED BY <2>2, <3>1, <3>2, <3>3 DEF Send, table, Inv, TypeOK, Stages
  <2>3. CASE Acquire(r)
    BY <2>3 DEF Acquire, table, Inv, TypeOK, Stages
  <2> QED BY <2>1, <2>2, <2>3
<1>2. \A q \in Reports \ {r} : at'[q] = at[q]
  BY <1>1 DEF Inv, TypeOK
<1>3. \/ lock' = lock /\ at'[r] # "begin"
      \/ at'[r] = "begin" /\ r \in Local /\ lock' = lock
      \/ at'[r] = "begin" /\ r \notin Local /\ lock = NoOne /\ lock' = r
  <2>1. CASE Acquire(r)
    BY <2>1 DEF Acquire, LockFree, LockTaken, Inv, TypeOK
  <2>2. CASE Report(r)
    BY <2>2 DEF Report, Inv, TypeOK
  <2>3. CASE Send(r)
    BY <2>3 DEF Send, Inv, TypeOK
  <2> QED BY <2>1, <2>2, <2>3
<1>4. lock # r
  BY <1>1 DEF Inv, TypeOK
<1>5. TypeOK'
  BY <1>1, <1>3, <1>4, <1>2 DEF Inv, TypeOK
<1>6. Transactions'
  BY <1>1, <1>2, <1>3, <1>4 DEF Inv, Transactions
<1>7. Holders'
  BY <1>1, <1>2, <1>3, <1>4 DEF Inv, Holders
<1>8. Placed'
  BY <1>1, <1>2 DEF Inv, Placed
<1>9. Bounded' /\ Drains'
  BY <1>1 DEF Inv, Bounded, Drains
<1>10. Views'
  BY <1>1 DEF Inv, Views
<1>11. Ends'
  BY <1>1, <1>2 DEF Inv, Ends
<1> QED BY <1>5, <1>6, <1>7, <1>8, <1>9, <1>10, <1>11 DEF Inv

LEMMA BeginKeeps == ASSUME Inv, NEW r \in Reports, Begin(r) PROVE Inv'
<1> DEFINE c == ConnOf(r)
<1> USE Connections
<1>1. /\ UNCHANGED <<rows, lock, drain, delivered, evicted, stalls, restarts, up>>
      /\ at[r] = "begin" /\ tx[c] = "none" /\ writer = NoOne /\ writer' = c
      /\ tx' = [tx EXCEPT ![c] = "write"] /\ work' = [work EXCEPT ![c] = rows]
      /\ at' = [at EXCEPT ![r] = "write"]
  BY DEF Begin
<1>2. /\ \A q \in Reports \ {r} : at'[q] = at[q]
      /\ at'[r] = "write" /\ c \in Conns
      /\ \A d \in Conns \ {c} : tx'[d] = tx[d] /\ work'[d] = work[d]
      /\ tx'[c] = "write" /\ work'[c] = rows
  BY <1>1 DEF Inv, TypeOK
<1>3. r \notin Local => lock = r
  BY <1>1 DEF Inv, Holders
<1>4. \A d \in Conns : tx[d] # "write"
  BY <1>1 DEF Inv, Transactions
<1>5. \A q \in Reports : at[q] \notin {"write", "commit"}
  BY <1>1 DEF Inv, Holders
<1> HIDE DEF c
<1>6. TypeOK'
  BY <1>1, <1>2 DEF Inv, TypeOK, Stages
<1>7. Transactions'
  BY <1>1, <1>2, <1>3, <1>4 DEF Inv, Transactions, c, Conns
<1>8. Holders'
  BY <1>1, <1>2, <1>3, <1>5 DEF Inv, Holders, c
<1>9. Placed'
  BY <1>1, <1>2 DEF Inv, Placed
<1>10. Bounded' /\ Drains'
  BY <1>1, <1>2 DEF Inv, Bounded, Drains
<1>11. Views'
  BY <1>1, <1>2 DEF Inv, Views
<1>12. Ends'
  BY <1>1, <1>2 DEF Inv, Ends
<1> QED BY <1>6, <1>7, <1>8, <1>9, <1>10, <1>11, <1>12 DEF Inv

LEMMA BeginFailsKeeps == ASSUME Inv, NEW r \in Reports, BeginFails(r) PROVE Inv'
<1> DEFINE c == ConnOf(r)
<1> USE Connections
<1>1. /\ UNCHANGED <<rows, drain, delivered, evicted, restarts, up>>
      /\ at[r] = "begin" /\ at' = [at EXCEPT ![r] = "lost"]
      /\ lock' = LockReleased(r)
  BY DEF BeginFails
<1>2. c \in Conns /\ stalls \in Nat
  BY CapAssumption DEF Inv, TypeOK
<1>3. /\ \A q \in Reports \ {r} : at'[q] = at[q]
      /\ at'[r] = "lost" /\ r \notin ToSet(rows) /\ \A d \in Conns : r \notin ToSet(work[d])
  BY <1>1 DEF Inv, TypeOK, Placed
<1>4. r \notin Local => lock = r
  BY <1>1 DEF Inv, Holders
<1>5. lock' = IF r \in Local THEN lock ELSE NoOne
  BY <1>1, <1>4 DEF LockReleased, Inv, Holders
<1>6. tx[c] # "none" => c = Daemon /\ stalls > 0
  BY <1>1, <1>2, <1>4 DEF Inv, TypeOK, Transactions
<1>7. stalls' \in 0 .. MaxStalls /\ stalls' > 0 /\ (stalls > 0 => stalls' > 0)
  BY <1>2, <1>6, CapAssumption DEF BeginFails, WriteFails, Inv, TypeOK
<1>8. \/ UNCHANGED <<writer, tx, work>>
      \/ /\ c = Daemon /\ r \notin Local /\ writer \in {Daemon, NoOne} /\ writer' = Daemon
         /\ \A d \in Conns \ {Daemon} : tx'[d] = tx[d] /\ work'[d] = work[d]
         /\ tx' \in [Conns -> {"none", "open", "read", "stale", "write"}]
         /\ work' \in [Conns -> Seq(Reports)]
         /\ tx'[Daemon] = "write" /\ work'[Daemon] = Seen(Daemon) /\ MayWrite(Daemon)
  <2>1. CASE tx[c] # "none" /\ MayWrite(c)
    <3>1. writer' = c /\ tx' = [tx EXCEPT ![c] = "write"] /\ work' = [work EXCEPT ![c] = Seen(c)]
      BY <2>1 DEF BeginFails
    <3>2. Seen(c) \in Seq(Reports) /\ c = Daemon
      BY <1>2, <1>6, <2>1, SeenIsSound
    <3>3. writer \in {Daemon, NoOne}
      BY <2>1, <3>2 DEF MayWrite
    <3> QED BY <2>1, <3>1, <3>2, <3>3 DEF Inv, TypeOK
  <2>2. CASE ~(tx[c] # "none" /\ MayWrite(c))
    BY <2>2 DEF BeginFails
  <2> QED BY <2>1, <2>2
<1> HIDE DEF c
<1>9. TypeOK'
  <2>1. lock' # NoOne => at'[lock'] \in {"begin", "write", "commit"}
    BY <1>1, <1>3, <1>5 DEF Inv, TypeOK, Holders
  <2>2. writer' \in Conns => tx'[writer'] = "write"
    BY <1>8 DEF Inv, TypeOK
  <2>3. at' \in [Reports -> Stages] /\ lock' \in Reports \cup {NoOne}
    BY <1>1, <1>5 DEF Inv, TypeOK, Stages
  <2>4. /\ writer' \in Conns \cup {Other, NoOne} /\ work' \in [Conns -> Seq(Reports)]
        /\ tx' \in [Conns -> {"none", "open", "read", "stale", "write"}]
    BY <1>8 DEF Inv, TypeOK
  <2> QED BY <1>1, <1>7, <2>1, <2>2, <2>3, <2>4 DEF Inv, TypeOK
<1>10. Transactions'
  BY <1>1, <1>3, <1>4, <1>5, <1>7, <1>8 DEF Inv, Transactions, Conns
<1>11. Holders'
  <2> SUFFICES ASSUME NEW q \in Reports
               PROVE  /\ at'[q] \in {"begin", "write", "commit"} /\ q \notin Local => lock' = q
                      /\ at'[q] \in {"write", "commit"} => writer' = ConnOf(q)
                      /\ at'[q] = "commit" => q \in ToSet(work'[ConnOf(q)])
    BY <1>5 DEF Inv, Holders
  <2>1. at'[q] \in {"begin", "write", "commit"} => q # r /\ at'[q] = at[q]
    BY <1>3
  <2>2. at'[q] \in {"begin", "write", "commit"} /\ q \notin Local => lock = q /\ r \in Local
    BY <1>4, <2>1 DEF Inv, Holders
  <2> QED BY <1>5, <1>8, <2>1, <2>2 DEF Inv, Holders
<1>12. Placed'
  <2>1. ASSUME NEW d \in Conns, NEW q \in Reports, q \in ToSet(work'[d])
        PROVE  q # r /\ at[q] \in {"commit", "queued", "cancelled"}
    <3>1. CASE work'[d] = work[d]
      BY <1>1, <2>1, <3>1 DEF Inv, Placed
    <3>2. CASE work'[d] = Seen(d)
      BY <1>1, <2>1, <3>2, SeenIsSound
    <3> QED BY <1>8, <3>1, <3>2
  <2> QED BY <1>1, <1>3, <2>1 DEF Inv, Placed
<1>13. Bounded' /\ Drains'
  BY <1>1, <1>8, SeenIsSound DEF Inv, Bounded, Drains
<1>14. Views'
  BY <1>1, <1>8, SeenIsSound DEF Inv, Views
<1>15. Ends'
  BY <1>1, <1>3, <1>7 DEF Inv, Ends
<1> QED BY <1>9, <1>10, <1>11, <1>12, <1>13, <1>14, <1>15 DEF Inv

LEMMA WriteKeeps == ASSUME Inv, NEW r \in Reports, Write(r) PROVE Inv'
<1> DEFINE c == ConnOf(r)
           t == Append(Evict(Seen(c)), r)
<1> USE Connections
<1>1. /\ UNCHANGED <<rows, writer, lock, drain, delivered, stalls, restarts, up>>
      /\ at[r] = "write" /\ at' = [at EXCEPT ![r] = "commit"]
      /\ work' = [work EXCEPT ![c] = t] /\ tx' = [tx EXCEPT ![c] = "write"]
      /\ evicted' = evicted \cup (ToSet(Seen(c)) \ ToSet(Evict(Seen(c))))
  BY DEF Write
<1>2. c \in Conns /\ writer = c /\ tx[c] = "write" /\ Seen(c) = work[c]
  BY <1>1 DEF Inv, TypeOK, Holders, Seen
<1>3. /\ Seen(c) \in Seq(Reports) /\ Len(Seen(c)) <= Cap /\ IsInjective(Seen(c))
      /\ r \notin ToSet(Seen(c)) /\ ToSet(Seen(c)) \subseteq Reports
      /\ ToSet(rows) \subseteq ToSet(Seen(c)) \cup delivered \cup evicted \cup Corrupt
      /\ \A q \in ToSet(Seen(c)) : at[q] \in {"commit", "queued", "cancelled"}
  BY <1>1, <1>2, SeenIsSound DEF MayWrite
<1>4. /\ Evict(Seen(c)) \in Seq(Reports) /\ Len(Evict(Seen(c))) < Cap /\ IsInjective(Evict(Seen(c)))
      /\ ToSet(Evict(Seen(c))) \subseteq ToSet(Seen(c))
  BY <1>3, EvictMakesRoom
<1>5. /\ t \in Seq(Reports) /\ Len(t) <= Cap /\ IsInjective(t)
      /\ ToSet(t) = ToSet(Evict(Seen(c))) \cup {r}
  <2>1. Len(t) = Len(Evict(Seen(c))) + 1 /\ t \in Seq(Reports) /\ IsInjective(t)
        /\ ToSet(t) = ToSet(Evict(Seen(c))) \cup {r}
    BY <1>3, <1>4, AppendKeeps
  <2>2. Len(Evict(Seen(c))) \in Nat /\ Cap \in Nat
    BY <1>4, CapAssumption
  <2> QED BY <1>4, <2>1, <2>2
<1> HIDE DEF c, t
<1>6. /\ \A q \in Reports \ {r} : at'[q] = at[q]
      /\ at'[r] = "commit" /\ tx' = tx
      /\ \A d \in Conns \ {c} : work'[d] = work[d]
      /\ work'[c] = t
  BY <1>1, <1>2 DEF Inv, TypeOK
<1>7. TypeOK'
  <2>1. at' \in [Reports -> Stages] /\ work' \in [Conns -> Seq(Reports)] /\ evicted' \subseteq Reports
    BY <1>1, <1>3, <1>5 DEF Inv, TypeOK, Stages
  <2>2. lock' # NoOne => at'[lock'] \in {"begin", "write", "commit"}
    BY <1>1, <1>6 DEF Inv, TypeOK
  <2> QED BY <1>1, <1>6, <2>1, <2>2 DEF Inv, TypeOK
<1>8. Transactions'
  BY <1>1, <1>6 DEF Inv, Transactions, TypeOK, Conns
<1>9. Holders'
  <2>1. \A q \in Reports \ {r} : at[q] = "commit" => ConnOf(q) # c
    BY <1>1 DEF Inv, Holders, c
  <2> QED BY <1>1, <1>2, <1>5, <1>6, <2>1 DEF Inv, Holders, c
<1>10. Placed'
  <2>1. ASSUME NEW d \in Conns, NEW q \in Reports, q \in ToSet(work'[d])
        PROVE  q = r \/ at[q] \in {"commit", "queued", "cancelled"}
    BY <1>3, <1>4, <1>5, <1>6, <2>1 DEF Inv, Placed
  <2> QED BY <1>1, <1>6, <2>1 DEF Inv, Placed
<1>11. Bounded' /\ Drains'
  BY <1>1, <1>5, <1>6 DEF Inv, Bounded, Drains
<1>12. Views'
  <2>1. ToSet(rows) \subseteq ToSet(t) \cup delivered \cup evicted' \cup Corrupt
    BY <1>1, <1>3, <1>4, <1>5
  <2>2. \A d \in Conns \ {c} : tx[d] # "write"
    BY <1>2 DEF Inv, Transactions
  <2> QED BY <1>1, <1>2, <1>6, <2>1, <2>2 DEF Inv, Views
<1>13. Ends'
  BY <1>1, <1>6 DEF Inv, Ends
<1> QED BY <1>7, <1>8, <1>9, <1>10, <1>11, <1>12, <1>13 DEF Inv

LEMMA CommitReportKeeps == ASSUME Inv, NEW r \in Reports, CommitReport(r) PROVE Inv'
<1> DEFINE c == ConnOf(r)
<1> USE Connections
<1>1. /\ UNCHANGED <<work, drain, delivered, evicted, stalls, restarts, up>>
      /\ at[r] = "commit" /\ at' = [at EXCEPT ![r] = "queued"]
      /\ Commit(c, Seen(c)) /\ lock' = LockReleased(r)
  BY DEF CommitReport, Commit
<1>2. c \in Conns /\ writer = c /\ tx[c] = "write" /\ Seen(c) = work[c]
  BY <1>1 DEF Inv, TypeOK, Holders, Seen
<1>3. /\ rows' = work[c] /\ writer' = NoOne
      /\ tx' = [d \in Conns |-> IF d = c THEN "none" ELSE IF tx[d] = "read" THEN "stale" ELSE tx[d]]
  BY <1>1, <1>2 DEF Commit
<1>4. /\ Seen(c) \in Seq(Reports) /\ Len(Seen(c)) <= Cap /\ IsInjective(Seen(c))
      /\ \A q \in ToSet(Seen(c)) : at[q] \in {"commit", "queued", "cancelled"}
      /\ ToSet(rows) \subseteq ToSet(Seen(c)) \cup delivered \cup evicted \cup Corrupt
  BY <1>2, SeenIsSound DEF MayWrite
<1>5. r \in ToSet(work[c])
  BY <1>1 DEF Inv, Holders
<1>6. r \notin Local => lock = r
  BY <1>1 DEF Inv, Holders
<1>7. lock' = IF r \in Local THEN lock ELSE NoOne
  BY <1>1, <1>6 DEF LockReleased, Inv, Holders
<1>8. \A q \in Reports \ {r} : at[q] \notin {"write", "commit"}
  <2> SUFFICES ASSUME NEW q \in Reports, at[q] \in {"write", "commit"} PROVE q = r
    OBVIOUS
  <2>1. ConnOf(q) = ConnOf(r)
    BY <1>2 DEF Inv, Holders
  <2>2. CASE r \in Local
    BY <2>1, <2>2
  <2>3. CASE r \notin Local
    <3>1. q \notin Local /\ lock = q
      BY <2>1, <2>3 DEF Inv, Holders
    <3> QED BY <1>6, <2>3, <3>1
  <2> QED BY <2>2, <2>3
<1>9. \A d \in Conns \ {c} : tx[d] # "write"
  BY <1>2 DEF Inv, Transactions
<1> HIDE DEF c
<1>10. at'[r] = "queued" /\ \A q \in Reports \ {r} : at'[q] = at[q]
  BY <1>1 DEF Inv, TypeOK
<1>11. TypeOK'
  <2>1. at' \in [Reports -> Stages] /\ lock' \in Reports \cup {NoOne}
    BY <1>1, <1>7 DEF Inv, TypeOK, Stages
  <2>2. lock' # NoOne => at'[lock'] \in {"begin", "write", "commit"}
    BY <1>1, <1>7, <1>10 DEF Inv, TypeOK, Holders
  <2>3. tx' \in [Conns -> {"none", "open", "read", "stale", "write"}]
    BY <1>3 DEF Inv, TypeOK
  <2> QED BY <1>1, <1>2, <1>3, <1>4, <2>1, <2>2, <2>3 DEF Inv, TypeOK
<1>12. Transactions'
  BY <1>1, <1>3, <1>9 DEF Inv, Transactions
<1>13. Holders'
  BY <1>1, <1>3, <1>6, <1>7, <1>8, <1>10 DEF Inv, Holders
<1>14. Placed'
  BY <1>1, <1>2, <1>3, <1>4, <1>10 DEF Inv, Placed
<1>15. Bounded' /\ Drains'
  BY <1>1, <1>2, <1>3, <1>4 DEF Inv, Bounded, Drains
<1>16. Views'
  BY <1>3, <1>9 DEF Inv, Views
<1>17. Ends'
  BY <1>1, <1>2, <1>3, <1>4, <1>5, <1>10 DEF Inv, Ends
<1> QED BY <1>11, <1>12, <1>13, <1>14, <1>15, <1>16, <1>17 DEF Inv

LEMMA OtherKeeps == ASSUME Inv, OtherWrites \/ OtherCommits PROVE Inv'
<1> USE Connections
<1>1. /\ UNCHANGED <<at, rows, work, lock, drain, up, delivered, evicted, stalls, restarts>>
      /\ writer \notin Conns /\ writer' \in {Other, NoOne}
      /\ tx' \in [Conns -> {"none", "open", "read", "stale", "write"}]
      /\ \A d \in Conns : tx'[d] = tx[d] \/ (tx[d] = "read" /\ tx'[d] = "stale")
  BY DEF OtherWrites, OtherCommits, Inv, TypeOK
<1>2. TypeOK'
  BY <1>1 DEF Inv, TypeOK
<1>3. Transactions'
  BY <1>1 DEF Inv, Transactions
<1>4. Holders'
  BY <1>1 DEF Inv, Holders
<1>5. Placed' /\ Bounded' /\ Drains' /\ Ends'
  BY <1>1 DEF Inv, Placed, Bounded, Drains, Ends
<1>6. Views'
  BY <1>1 DEF Inv, Views
<1> QED BY <1>2, <1>3, <1>4, <1>5, <1>6 DEF Inv

\* The steps of the drain that only read, or talk to the server.
LEMMA DrainReadsKeep == ASSUME Inv, DrainNext \/ DrainSend PROVE Inv'
<1> USE Connections
<1>1. UNCHANGED <<at, rows, tx, work, writer, lock, up, evicted, stalls, restarts>>
  BY DEF DrainNext, DrainSend, table
<1>2. drain \in [stage : {"idle", "next", "sending", "settle"}, todo : Seq(Reports), ok : BOOLEAN]
  BY DEF Inv, TypeOK
<1>3. /\ delivered \subseteq delivered' /\ delivered' \subseteq Reports /\ Drains'
      /\ drain' \in [stage : {"idle", "next", "sending", "settle"}, todo : Seq(Reports), ok : BOOLEAN]
  <2>1. CASE DrainNext
    <3>1. CASE drain.todo = <<>>
      BY <2>1, <3>1 DEF DrainNext, NoDrain, Drains, Inv, TypeOK
    <3>2. CASE drain.todo # <<>>
      BY <1>2, <2>1, <3>2 DEF DrainNext, Drains, Inv, TypeOK
    <3> QED BY <3>1, <3>2
  <2>2. CASE DrainSend
    <3> DEFINE r == Head(drain.todo)
    <3>1. drain.stage = "sending" /\ drain.todo # <<>> /\ r \in Reports
      BY <1>2, <2>2 DEF DrainSend, Inv, Drains
    <3>2. PICK a \in Answers(r) :
             /\ Receive(r, a)
             /\ drain' = [stage |-> "settle", ok |-> DrainOk(a),
                          todo |-> IF StopsDrain(a) THEN <<r>> ELSE drain.todo]
      BY <2>2 DEF DrainSend
    <3>3. (a.kind = "ok" => a.got) /\ DrainOk(a) \in BOOLEAN
      BY DEF Answers, DrainOk
    <3>4. delivered \subseteq delivered' /\ delivered' \subseteq Reports /\ (a.got => r \in delivered')
      BY <3>1, <3>2 DEF Receive, Inv, TypeOK
    <3>5. DrainOk(a) => r \in delivered'
      BY <3>3, <3>4 DEF DrainOk
    <3>6. <<r>> \in Seq(Reports) /\ <<r>> # <<>> /\ Head(<<r>>) = r
      BY <3>1
    <3> HIDE DEF r
    <3>7. drain'.todo \in Seq(Reports) /\ drain'.todo # <<>> /\ Head(drain'.todo) = r
      BY <1>2, <3>1, <3>2, <3>6 DEF r
    <3>8. Drains'
      BY <3>2, <3>5, <3>7 DEF Drains
    <3> QED BY <3>2, <3>3, <3>4, <3>7, <3>8
  <2> QED BY <2>1, <2>2
<1>4. TypeOK'
  BY <1>1, <1>3 DEF Inv, TypeOK
<1>5. Transactions' /\ Holders' /\ Placed' /\ Bounded'
  BY <1>1 DEF Inv, Transactions, Holders, Placed, Bounded
<1>6. Views' /\ Ends'
  BY <1>1, <1>3 DEF Inv, Views, Ends
<1> QED BY <1>3, <1>4, <1>5, <1>6 DEF Inv

LEMMA DrainStartKeeps == ASSUME Inv, DrainStart PROVE Inv'
<1> USE Connections
<1>1. /\ UNCHANGED <<at, rows, writer, lock, up, delivered, evicted, stalls, restarts>>
      /\ lock = NoOne /\ drain' = [NoDrain EXCEPT !.stage = "next", !.todo = Seen(Daemon)]
  BY DEF DrainStart, DrainMayLock
<1>2. drain'.stage = "next" /\ drain'.todo = Seen(Daemon) /\ drain'.ok = FALSE
  BY <1>1 DEF NoDrain
<1>3. /\ drain' \in [stage : {"idle", "next", "sending", "settle"}, todo : Seq(Reports), ok : BOOLEAN]
      /\ Drains'
  <2>1. Seen(Daemon) \in Seq(Reports)
    BY SeenIsSound
  <2> QED BY <1>1, <1>2, <2>1 DEF NoDrain, Drains
<1>4. \/ UNCHANGED <<tx, work>>
      \/ /\ tx[Daemon] = "open" /\ tx'[Daemon] = "read" /\ work'[Daemon] = rows
         /\ \A d \in Conns \ {Daemon} : tx'[d] = tx[d] /\ work'[d] = work[d]
         /\ tx' \in [Conns -> {"none", "open", "read", "stale", "write"}]
         /\ work' \in [Conns -> Seq(Reports)]
  <2>1. /\ tx \in [Conns -> {"none", "open", "read", "stale", "write"}]
        /\ work \in [Conns -> Seq(Reports)] /\ rows \in Seq(Reports)
    BY DEF Inv, TypeOK
  <2>2. CASE tx[Daemon] = "open"
    BY <2>1, <2>2 DEF DrainStart
  <2>3. CASE tx[Daemon] # "open"
    BY <2>3 DEF DrainStart
  <2> QED BY <2>2, <2>3
<1>5. TypeOK'
  BY <1>1, <1>3, <1>4 DEF Inv, TypeOK
<1>6. Transactions'
  BY <1>1, <1>4 DEF Inv, Transactions
<1>7. Holders'
  BY <1>1, <1>4 DEF Inv, Holders
<1>8. Placed'
  BY <1>1, <1>4 DEF Inv, Placed
<1>9. Bounded' /\ Ends'
  BY <1>1, <1>4 DEF Inv, Bounded, Ends
<1>10. Views'
  BY <1>1, <1>4 DEF Inv, Views
<1> QED BY <1>3, <1>5, <1>6, <1>7, <1>8, <1>9, <1>10 DEF Inv

LEMMA DrainSettleKeeps == ASSUME Inv, DrainSettle PROVE Inv'
<1> DEFINE r == Head(drain.todo)
           t == IF drain.ok THEN Deleted(Seen(Daemon), r) ELSE Seen(Daemon)
<1> USE Connections
<1>1. /\ UNCHANGED <<at, work, lock, up, delivered, evicted, stalls, restarts>>
      /\ drain.stage = "settle" /\ lock = NoOne /\ MayWrite(Daemon) /\ rows' = t
      /\ tx' = [d \in Conns |-> IF d = Daemon THEN "none" ELSE IF tx[d] = "read" THEN "stale" ELSE tx[d]]
      /\ writer' = IF writer = Daemon THEN NoOne ELSE writer
      /\ drain' = [stage |-> "next", ok |-> FALSE, todo |-> Tail(drain.todo)]
  BY DEF DrainSettle, DrainMayLock, Commit
<1>2. /\ drain.todo \in Seq(Reports) /\ drain.todo # <<>>
      /\ r \in Reports /\ Tail(drain.todo) \in Seq(Reports)
      /\ drain.ok \in BOOLEAN /\ (drain.ok => r \in delivered \cup Corrupt)
  BY <1>1, HeadTailProperties DEF Inv, TypeOK, Drains
<1>3. /\ Seen(Daemon) \in Seq(Reports) /\ Len(Seen(Daemon)) <= Cap /\ IsInjective(Seen(Daemon))
      /\ \A q \in ToSet(Seen(Daemon)) : q \in Reports /\ at[q] \in {"commit", "queued", "cancelled"}
      /\ ToSet(rows) \subseteq ToSet(Seen(Daemon)) \cup delivered \cup evicted \cup Corrupt
  BY <1>1, SeenIsSound
<1> HIDE DEF r
<1>4. /\ t \in Seq(Reports) /\ Len(t) <= Cap /\ IsInjective(t)
      /\ ToSet(t) \subseteq ToSet(Seen(Daemon))
      /\ ToSet(rows) \subseteq ToSet(t) \cup delivered \cup evicted \cup Corrupt
  <2>1. CASE drain.ok
    <3> DEFINE u == Deleted(Seen(Daemon), r)
    <3>1. /\ u \in Seq(Reports) /\ Len(u) <= Len(Seen(Daemon)) /\ IsInjective(u)
          /\ ToSet(u) \subseteq ToSet(Seen(Daemon)) /\ ToSet(Seen(Daemon)) \subseteq ToSet(u) \cup {r}
      BY <1>2, <1>3, DeletedKeeps
    <3> HIDE DEF u
    <3>2. Len(u) <= Cap
      <4>1. Len(u) \in Nat /\ Len(Seen(Daemon)) \in Nat /\ Cap \in Nat
        BY <1>3, <3>1, CapAssumption
      <4> QED BY <1>3, <3>1, <4>1
    <3>3. t = u
      BY <2>1 DEF u
    <3> HIDE DEF t
    <3> QED BY <1>2, <1>3, <2>1, <3>1, <3>2, <3>3
  <2>2. CASE ~drain.ok
    BY <1>3, <2>2
  <2> QED BY <1>2, <2>1, <2>2
<1> HIDE DEF t
<1>5. /\ writer \in {Daemon, NoOne} /\ writer' = NoOne
      /\ \A q \in Reports : at[q] \notin {"write", "commit"}
      /\ \A d \in Conns \ {Daemon} : tx[d] # "write"
  BY <1>1 DEF Inv, Holders, Transactions, MayWrite
<1>6. TypeOK'
  <2>1. tx' \in [Conns -> {"none", "open", "read", "stale", "write"}]
    BY <1>1 DEF Inv, TypeOK
  <2>2. drain' \in [stage : {"idle", "next", "sending", "settle"}, todo : Seq(Reports), ok : BOOLEAN]
    BY <1>1, <1>2
  <2> QED BY <1>1, <1>4, <1>5, <2>1, <2>2 DEF Inv, TypeOK
<1>7. Transactions'
  BY <1>1, <1>5 DEF Inv, Transactions
<1>8. Holders'
  BY <1>1, <1>5 DEF Inv, Holders
<1>9. Placed'
  BY <1>1, <1>3, <1>4 DEF Inv, Placed
<1>10. Bounded' /\ Drains'
  BY <1>1, <1>4 DEF Inv, Bounded, Drains
<1>11. Views'
  BY <1>1, <1>5 DEF Inv, Views
<1>12. Ends'
  BY <1>1, <1>4 DEF Inv, Ends
<1> QED BY <1>6, <1>7, <1>8, <1>9, <1>10, <1>11, <1>12 DEF Inv

LEMMA DrainSettleFailsKeeps == ASSUME Inv, DrainSettleFails PROVE Inv'
<1> USE Connections
<1>1. /\ UNCHANGED <<at, rows, work, writer, lock, up, delivered, evicted, restarts>>
      /\ lock = NoOne /\ drain' = NoDrain /\ WriteFails(Daemon)
      /\ tx' = [tx EXCEPT ![Daemon] = IF @ = "none" THEN "open" ELSE @]
  BY DEF DrainSettleFails, DrainMayLock
<1>2. /\ tx' \in [Conns -> {"none", "open", "read", "stale", "write"}]
      /\ \A d \in Conns : tx'[d] = tx[d] \/ (d = Daemon /\ tx[d] = "none" /\ tx'[d] = "open")
  BY <1>1 DEF Inv, TypeOK
<1>3. stalls \in Nat /\ stalls \in 0 .. MaxStalls /\ MaxStalls \in Nat
  BY CapAssumption DEF Inv, TypeOK
<1>4. stalls' \in 0 .. MaxStalls /\ stalls' >= stalls /\ (tx[Daemon] = "none" => stalls' > 0)
  BY <1>1, <1>3 DEF WriteFails
<1>5. stalls > 0 => stalls' > 0
  BY <1>3, <1>4
<1>6. TypeOK'
  <2>1. <<>> \in Seq(Reports)
    OBVIOUS
  <2>2. drain' \in [stage : {"idle", "next", "sending", "settle"}, todo : Seq(Reports), ok : BOOLEAN]
    BY <1>1, <2>1 DEF NoDrain
  <2>3. writer \in Conns => tx'[writer] = "write"
    BY <1>2 DEF Inv, TypeOK
  <2> QED BY <1>1, <1>2, <1>4, <2>2, <2>3 DEF Inv, TypeOK
<1>7. Transactions'
  BY <1>1, <1>2, <1>4, <1>5 DEF Inv, Transactions
<1>8. Holders' /\ Placed' /\ Bounded'
  BY <1>1 DEF Inv, Holders, Placed, Bounded
<1>9. Views'
  BY <1>1, <1>2 DEF Inv, Views
<1>10. Drains'
  BY <1>1 DEF Drains, NoDrain
<1>11. Ends'
  BY <1>1, <1>5 DEF Inv, Ends
<1> QED BY <1>6, <1>7, <1>8, <1>9, <1>10, <1>11 DEF Inv

LEMMA RestartKeeps == ASSUME Inv, Restart PROVE Inv'
<1> USE Connections
<1>1. /\ UNCHANGED <<rows, work, up, delivered, evicted, stalls>>
      /\ lock' = NoOne /\ drain' = NoDrain /\ restarts < MaxRestarts /\ restarts' = restarts + 1
      /\ at' = [r \in Reports |->
                  IF r \notin Local /\ at[r] \in {"sending", "failed", "begin", "write", "commit"}
                  THEN "cancelled" ELSE at[r]]
      /\ tx' = [tx EXCEPT ![Daemon] = "none"]
      /\ writer' = IF writer = Daemon THEN NoOne ELSE writer
  BY DEF Restart
<1>2. /\ tx' \in [Conns -> {"none", "open", "read", "stale", "write"}] /\ tx'[Daemon] = "none"
      /\ \A d \in Conns \ {Daemon} : tx'[d] = tx[d]
  BY <1>1 DEF Inv, TypeOK
<1>3. /\ at' \in [Reports -> Stages]
      /\ \A r \in Reports : \/ at'[r] = at[r] /\ (r \in Local \/ at[r] \notin {"begin", "write", "commit"})
                            \/ r \notin Local /\ at'[r] = "cancelled" /\ at[r] # "queued"
  BY <1>1 DEF Inv, TypeOK, Stages
<1>4. restarts' \in 0 .. MaxRestarts
  BY <1>1, CapAssumption DEF Inv, TypeOK
<1>5. TypeOK'
  <2>1. <<>> \in Seq(Reports)
    OBVIOUS
  <2>2. drain' \in [stage : {"idle", "next", "sending", "settle"}, todo : Seq(Reports), ok : BOOLEAN]
    BY <1>1, <2>1 DEF NoDrain
  <2>3. writer' \in Conns \cup {Other, NoOne} /\ (writer' \in Conns => tx'[writer'] = "write")
    BY <1>1, <1>2 DEF Inv, TypeOK
  <2> QED BY <1>1, <1>2, <1>3, <1>4, <2>2, <2>3 DEF Inv, TypeOK
<1>6. Transactions'
  BY <1>1, <1>2, <1>3 DEF Inv, Transactions, Conns
<1>7. Holders'
  BY <1>1, <1>3 DEF Inv, Holders
<1>8. Placed'
  BY <1>1, <1>3 DEF Inv, Placed
<1>9. Bounded'
  BY <1>1 DEF Inv, Bounded
<1>10. Views'
  BY <1>1, <1>2 DEF Inv, Views
<1>11. Drains'
  BY <1>1 DEF Drains, NoDrain
<1>12. Ends'
  BY <1>1, <1>3 DEF Inv, Ends
<1> QED BY <1>5, <1>6, <1>7, <1>8, <1>9, <1>10, <1>11, <1>12 DEF Inv

LEMMA StutterKeeps == ASSUME Inv, ServerFlips \/ UNCHANGED vars PROVE Inv'
<1>1. UNCHANGED <<at, rows, tx, work, writer, lock, drain, delivered, evicted, stalls, restarts>>
  BY DEF ServerFlips, vars, table
<1>2. up' \in BOOLEAN
  BY DEF ServerFlips, vars, Inv, TypeOK
<1>3. TypeOK'
  BY <1>1, <1>2 DEF Inv, TypeOK
<1>4. (Transactions /\ Holders /\ Placed /\ Bounded)'
  BY <1>1 DEF Inv, Transactions, Holders, Placed, Bounded
<1>5. (Views /\ Drains /\ Ends)'
  BY <1>1 DEF Inv, Views, Drains, Ends
<1> QED BY <1>3, <1>4, <1>5 DEF Inv

LEMMA InvNext == Inv /\ [Next]_vars => Inv'
  BY ReportKeeps, BeginKeeps, BeginFailsKeeps, WriteKeeps, CommitReportKeeps, OtherKeeps, DrainReadsKeep,
     DrainStartKeeps, DrainSettleKeeps, DrainSettleFailsKeeps, RestartKeeps, StutterKeeps
     DEF Next, Enqueue, Drain

-----------------------------------------------------------------------------
(* QueueKeepsItsReports, for `outbox.enqueue`, `_enqueue_outbox` and       *)
(* `_drain_outbox`: however many reports and connections there are, and    *)
(* however writes fail, the queue never exceeds the cap or holds a row     *)
(* twice, and a report is received, queued or on its way unless the cap, a *)
(* restart or a busy timeout dropped it.                                   *)
THEOREM TheQueueKeepsItsReports == Spec => []QueueKeepsItsReports
<1>1. Inv => QueueKeepsItsReports
  <2> SUFFICES ASSUME Inv PROVE QueueKeepsItsReports
    OBVIOUS
  <2>1. CapHolds
    BY DEF Inv, Bounded, CapHolds
  <2>2. ReportsNotLost
    BY DEF Inv, TypeOK, Stages, Ends, ReportsNotLost, Queued
  <2> QED BY <2>1, <2>2 DEF QueueKeepsItsReports
<1> QED BY <1>1, InvInit, InvNext, PTL DEF Spec

-----------------------------------------------------------------------------
(* SchemaMigration.  The invariant says, of each process, how far the      *)
(* tables are when it is where it is, which no other process undoes: no    *)
(* table is dropped and no column either; and that what is not committed   *)
(* is what the holder of the write lock has run of its contribution.       *)

Made(t) == schema[t] \subseteq ColumnsOf(t)
Current(t) == schema[t] = ColumnsOf(t)
Stations == {"closed", "failed", "opened", "script", "schemas", "guarded schemas", "check", "alter",
             "migrations", "guarded migrations"}
AllColumns == UNION {ColumnsOf(t) : t \in AllTables}

Turns == [at : Stations, n : Nat, seen : SUBSET (AllColumns \cup Missing), plugins : SUBSET Contributors,
          plugin : Contributors \cup {"none"}, code : Contributions \cup {<<>>}]

OpeningTypes ==
  /\ schema \in [AllTables -> {Missing} \cup SUBSET AllColumns]
  /\ \A t \in AllTables : schema[t] = Missing \/ Made(t)
  /\ proc \in [Processes -> Turns]

\* How far the tables are when r, a process, is where it is.
Reached(r) ==
  /\ r.at \in {"script", "check", "alter"} => r.n \in 1 .. 3
  /\ r.at = "schemas" => r.n = 1
  /\ \A i \in 1 .. 3 : r.at = "script" /\ i < r.n => Made(Tables[i])
  /\ \A i \in 1 .. 3 : r.at \in {"check", "alter"} /\ i < r.n => Current(Tables[i])
  /\ r.at \notin {"closed", "failed", "script"} => \A t \in AllTables : Made(t)
  /\ r.at = "alter" => r.seen \subseteq schema[Tables[r.n]]
  /\ r.at \in {"migrations", "guarded migrations", "opened"} => \A t \in AllTables : Current(t)

\* The plug-in's statements that are not committed are those of its call before the next,
\* without those that were refused to a migration that went on.
InCode(r) == r.code \in Contributions /\ r.n \in 1 .. Len(r.code) + 1
RunOrRefused(r, i) ==
  \/ r.code[i] = "own" /\ <<r.plugin, r.code, i, r.at>> \in uncommitted
  \/ r.code[i] # "own" /\ r.at = "guarded migrations"
IsRun(r, s) == \E i \in 1 .. r.n - 1 : s = <<r.plugin, r.code, i, r.at>> /\ r.code[i] = "own"
Pending(r) ==
  /\ InCode(r) /\ \A i \in 1 .. r.n - 1 : RunOrRefused(r, i)
  /\ \A s \in uncommitted : IsRun(r, s)

OneWriter ==
  /\ writeLock \in Processes \cup {"nobody"}
  /\ \A p \in Processes : proc[p].at \in Guarded <=> writeLock = p
  /\ \A p \in Processes : writeLock = p => Pending(proc[p])
  /\ writeLock = "nobody" => uncommitted = {}

TablesAdvance == \A p \in Processes : Reached(proc[p])

OpeningInv == OpeningTypes /\ TablesAdvance /\ OneWriter /\ PluginsAreContained

LEMMA TheTables ==
  /\ Len(Tables) = 3 /\ \A i \in 1 .. 3 : Tables[i] \in AllTables
  /\ \A t \in AllTables : \E i \in 1 .. 3 : t = Tables[i]
  /\ \A t \in AllTables : ColumnsOf(t) \subseteq AllColumns
<1>1. Len(Tables) = 3 /\ DOMAIN Tables = 1 .. 3
  BY DEF Tables
<1> QED BY <1>1 DEF AllTables, AllColumns

LEMMA OpeningInitHolds == ASSUME SchemaAssumption PROVE OpeningInit => OpeningInv
<1> SUFFICES ASSUME OpeningInit PROVE OpeningInv
  OBVIOUS
<1>1. NotOpen \in Turns
  BY DEF NotOpen, Turns, Stations
<1>2. OpeningTypes
  BY <1>1 DEF OpeningInit, OpeningTypes, Made, AllColumns
<1>3. \A p \in Processes : proc[p] = NotOpen
  BY DEF OpeningInit
<1>4. TablesAdvance
  <2>1. NotOpen.at = "closed"
    BY DEF NotOpen
  <2>2. Reached(NotOpen)
    BY <2>1 DEF Reached
  <2> QED BY <1>3, <2>2 DEF TablesAdvance
<1>5. OneWriter
  BY <1>3 DEF OneWriter, NotOpen, Guarded, OpeningInit, SchemaAssumption
<1> QED BY <1>2, <1>4, <1>5 DEF OpeningInv, PluginsAreContained, OpeningInit

\* A turn: what a step of p owes.
LEMMA ATurn ==
  ASSUME OpeningTypes, NEW p \in Processes, NEW r \in Turns, GoTo(p, r)
  PROVE /\ proc' \in [Processes -> Turns] /\ proc'[p] = r
        /\ \A q \in Processes : q # p => proc'[q] = proc[q]
  BY DEF OpeningTypes, GoTo

\* Tables that are made stay so, and no column is dropped.
Grows ==
  /\ schema' \in [AllTables -> {Missing} \cup SUBSET AllColumns]
  /\ \A t \in AllTables : schema'[t] = Missing \/ Made(t)'
  /\ \A t \in AllTables : Made(t) => Made(t)' /\ schema[t] \subseteq schema'[t]

LEMMA Undisturbed == ASSUME OpeningInv, Grows, NEW q \in Processes, proc'[q] = proc[q]
  PROVE Reached(proc[q])'
<1>1. Reached(proc[q])
  BY DEF OpeningInv, TablesAdvance
<1>2. \A t \in AllTables : Current(t) => Current(t)'
  BY DEF Grows, Made, Current
<1>3. proc[q].at = "alter" => proc[q].n \in 1 .. 3 /\ Made(Tables[proc[q].n])
  BY <1>1, TheTables DEF Reached
<1>4. \A i \in 1 .. 3 : (Made(Tables[i]) => Made(Tables[i])')
      /\ (Current(Tables[i]) => Current(Tables[i])')
  BY <1>2, TheTables DEF Grows
<1>5. proc[q].at = "alter" => proc[q].seen \subseteq schema'[Tables[proc[q].n]]
  BY <1>1, <1>3, TheTables DEF Grows, Reached
<1> HIDE DEF Made, Current
<1> QED BY <1>1, <1>2, <1>4, <1>5 DEF Reached, Grows

LEMMA SchemaStays == ASSUME OpeningInv, UNCHANGED schema PROVE Grows
  BY DEF OpeningInv, OpeningTypes, Grows, Made

LEMMA ATurnKeeps ==
  ASSUME OpeningInv, NEW p \in Processes, Grows, proc' \in [Processes -> Turns],
         \A q \in Processes : q # p => proc'[q] = proc[q],
         Reached(proc[p])', OneWriter', PluginsAreContained'
  PROVE OpeningInv'
<1>1. TablesAdvance'
  BY Undisturbed DEF TablesAdvance
<1>2. OpeningTypes'
  BY DEF OpeningTypes, Grows
<1> QED BY <1>1, <1>2 DEF OpeningInv

\* A step outside of the guarded calls.
LEMMA OutsideTheCall ==
  ASSUME SchemaAssumption, OpeningInv, NEW p \in Processes, UNCHANGED <<own, writeLock, uncommitted>>,
         \A q \in Processes : q # p => proc'[q] = proc[q],
         proc[p].at \notin Guarded, proc'[p].at \notin Guarded
  PROVE OneWriter' /\ PluginsAreContained'
<1>1. \A q \in Processes : proc'[q].at \in Guarded <=> writeLock' = q
  BY DEF OpeningInv, OneWriter
<1>2. \A q \in Processes : writeLock' = q => Pending(proc[q])'
  <2>1. ASSUME NEW q \in Processes, writeLock' = q PROVE Pending(proc[q])'
    <3>1. q # p /\ proc'[q] = proc[q] /\ Pending(proc[q])
      BY <1>1, <2>1 DEF OpeningInv, OneWriter
    <3> QED BY <3>1 DEF Pending, InCode, RunOrRefused, IsRun
  <2> QED BY <2>1
<1>3. PluginsAreContained'
  BY DEF OpeningInv, PluginsAreContained
<1> QED BY <1>1, <1>2, <1>3 DEF OpeningInv, OneWriter

-----------------------------------------------------------------------------
(* The steps. *)

LEMMA OpenKeeps == ASSUME SchemaAssumption, OpeningInv, NEW p \in Processes, Open(p)
  PROVE OpeningInv'
<1> DEFINE r == [NotOpen EXCEPT !.at = "script"]
<1>1. r \in Turns /\ r.at = "script" /\ r.n = 1
  BY DEF NotOpen, Turns, Stations
<1>2. GoTo(p, r) /\ UNCHANGED <<schema, own, writeLock, uncommitted>>
      /\ proc[p].at \in {"closed", "failed", "opened"}
  BY DEF Open, dbFile
<1> HIDE DEF r
<1>3. proc' \in [Processes -> Turns] /\ proc'[p] = r
      /\ \A q \in Processes : q # p => proc'[q] = proc[q]
  BY <1>1, <1>2, ATurn DEF OpeningInv
<1>4. Reached(proc[p])'
  <2>1. proc'[p].at = "script" /\ proc'[p].n = 1
    BY <1>1, <1>3
  <2>2. proc'[p].n \in 1 .. 3 /\ \A i \in 1 .. 3 : ~(i < proc'[p].n)
    BY <2>1
  <2> QED BY <2>1, <2>2 DEF Reached
<1>5. OneWriter' /\ PluginsAreContained'
  BY <1>1, <1>2, <1>3, OutsideTheCall DEF Guarded
<1> QED BY <1>2, <1>3, <1>4, <1>5, SchemaStays, ATurnKeeps

LEMMA CreateTableKeeps == ASSUME SchemaAssumption, OpeningInv, NEW p \in Processes, CreateTable(p)
  PROVE OpeningInv'
<1> DEFINE on == [proc[p] EXCEPT !.n = @ + 1]
           over == [proc[p] EXCEPT !.at = "schemas", !.n = 1, !.plugins = Contributors]
<1>1. proc[p] \in Turns /\ proc[p].at = "script" /\ proc[p].n \in 1 .. 3 /\ Reached(proc[p])
  BY DEF CreateTable, OpeningInv, OpeningTypes, TablesAdvance, Reached
<1>2. PICK t \in AllTables : t = Tables[proc[p].n]
  BY <1>1, TheTables
<1>3. schema' = (IF schema[t] = Missing THEN [schema EXCEPT ![t] = ColumnsOf(t)] ELSE schema)
  BY <1>2 DEF CreateTable
<1>4. Grows /\ Made(t)'
  <2>1. CASE schema[t] = Missing
    <3>1. schema' = [schema EXCEPT ![t] = ColumnsOf(t)] /\ ColumnsOf(t) \subseteq AllColumns
      BY <1>2, <1>3, <2>1, TheTables
    <3>2. schema' \in [AllTables -> {Missing} \cup SUBSET AllColumns] /\ schema'[t] = ColumnsOf(t)
          /\ \A u \in AllTables : u # t => schema'[u] = schema[u]
      BY <1>2, <3>1 DEF OpeningInv, OpeningTypes
    <3>3. \A u \in AllTables : schema'[u] = Missing \/ Made(u)'
      BY <3>2 DEF OpeningInv, OpeningTypes, Made
    <3>4. \A u \in AllTables : Made(u) => Made(u)' /\ schema[u] \subseteq schema'[u]
      BY <3>2 DEF Made
    <3> QED BY <3>2, <3>3, <3>4 DEF Grows, Made
  <2>2. CASE schema[t] # Missing
    <3>1. UNCHANGED schema /\ Made(t)
      BY <1>2, <1>3, <2>2 DEF OpeningInv, OpeningTypes
    <3> QED BY <3>1, SchemaStays DEF Made
  <2> QED BY <2>1, <2>2
<1>5. on \in Turns /\ on.at = "script" /\ on.n = proc[p].n + 1
  BY <1>1 DEF Turns
<1>6. over \in Turns /\ over.at = "schemas" /\ over.n = 1
  BY <1>1 DEF Turns, Stations
<1>7. UNCHANGED <<own, writeLock, uncommitted>> /\ GoTo(p, IF proc[p].n < 3 THEN on ELSE over)
  BY TheTables DEF CreateTable
<1> HIDE DEF on, over
<1>8. proc' \in [Processes -> Turns] /\ proc'[p] = (IF proc[p].n < 3 THEN on ELSE over)
      /\ \A q \in Processes : q # p => proc'[q] = proc[q]
  BY <1>5, <1>6, <1>7, ATurn DEF OpeningInv
<1>9. \A i \in 1 .. 3 : i <= proc[p].n => Made(Tables[i])'
  <2>1. \A i \in 1 .. 3 : i < proc[p].n => Made(Tables[i])'
    BY <1>1, <1>4, TheTables DEF Reached, Grows
  <2> QED BY <1>1, <1>2, <1>4, <2>1
<1>10. Reached(proc[p])'
  <2>1. CASE proc[p].n < 3
    <3>1. proc'[p].at = "script" /\ proc'[p].n = proc[p].n + 1
      BY <1>5, <1>8, <2>1
    <3>2. \A i \in 1 .. 3 : i < proc'[p].n => Made(Tables[i])'
      BY <1>1, <1>9, <3>1
    <3>3. proc'[p].n \in 1 .. 3
      BY <1>1, <2>1, <3>1
    <3> QED BY <3>1, <3>2, <3>3 DEF Reached
  <2>2. CASE proc[p].n = 3
    <3>1. proc'[p].at = "schemas" /\ proc'[p].n = 1
      BY <1>6, <1>8, <2>2
    <3>2. \A u \in AllTables : Made(u)'
      BY <1>9, <2>2, TheTables
    <3> QED BY <3>1, <3>2 DEF Reached
  <2> QED BY <1>1, <2>1, <2>2
<1>11. OneWriter' /\ PluginsAreContained'
  <2>1. proc'[p].at \notin Guarded
    BY <1>5, <1>6, <1>8 DEF Guarded
  <2> QED BY <1>1, <1>7, <1>8, <2>1, OutsideTheCall DEF Guarded
<1> QED BY <1>4, <1>8, <1>10, <1>11, ATurnKeeps

LEMMA PluggedKeeps == ASSUME SchemaAssumption, OpeningInv, NEW p \in Processes, Plugged(p)
  PROVE OpeningInv'
<1> DEFINE r == [proc[p] EXCEPT !.at = IF @ = "schemas" THEN "check" ELSE "opened"]
<1>1. proc[p] \in Turns /\ proc[p].at \in Plugging /\ Reached(proc[p])
  BY DEF Plugged, OpeningInv, OpeningTypes, TablesAdvance
<1>2. r \in Turns /\ r.at = (IF proc[p].at = "schemas" THEN "check" ELSE "opened")
      /\ r.n = proc[p].n
  BY <1>1 DEF Turns, Stations
<1>3. GoTo(p, r) /\ UNCHANGED <<schema, own, writeLock, uncommitted>>
  BY DEF Plugged, dbFile
<1> HIDE DEF r
<1>4. proc' \in [Processes -> Turns] /\ proc'[p] = r
      /\ \A q \in Processes : q # p => proc'[q] = proc[q]
  BY <1>2, <1>3, ATurn DEF OpeningInv
<1>5. Reached(proc[p])'
  <2>1. CASE proc[p].at = "schemas"
    <3>1. proc'[p].at = "check" /\ proc'[p].n = 1
      BY <1>1, <1>2, <1>4, <2>1 DEF Reached
    <3>2. \A t \in AllTables : Made(t)'
      BY <1>1, <1>3, <2>1 DEF Reached, Made
    <3> QED BY <3>1, <3>2 DEF Reached
  <2>2. CASE proc[p].at # "schemas"
    <3>1. proc'[p].at = "opened" /\ proc[p].at = "migrations"
      BY <1>1, <1>2, <1>4, <2>2 DEF Plugging
    <3>2. \A t \in AllTables : Made(t)' /\ Current(t)'
      BY <1>1, <1>3, <3>1 DEF Reached, Made, Current
    <3> QED BY <3>1, <3>2 DEF Reached
  <2> QED BY <2>1, <2>2
<1>6. OneWriter' /\ PluginsAreContained'
  <2>1. proc'[p].at \notin Guarded /\ proc[p].at \notin Guarded
    BY <1>1, <1>2, <1>4 DEF Guarded, Plugging
  <2> QED BY <1>3, <1>4, <2>1, OutsideTheCall
<1> QED BY <1>3, <1>4, <1>5, <1>6, SchemaStays, ATurnKeeps

\* A process of which r, a later turn, says the same as its own, of the same tables.
LEMMA TheSamePlace ==
  ASSUME OpeningInv, UNCHANGED schema, NEW p \in Processes,
         \/ proc'[p].at = proc[p].at
         \/ proc[p].at = "schemas" /\ proc'[p].at = "guarded schemas"
         \/ proc[p].at = "migrations" /\ proc'[p].at = "guarded migrations"
         \/ proc[p].at = "guarded schemas" /\ proc'[p].at = "schemas" /\ proc'[p].n = 1
         \/ proc[p].at = "guarded migrations" /\ proc'[p].at = "migrations",
         \/ proc'[p].at \in {"guarded schemas", "guarded migrations", "migrations"}
         \/ proc'[p].at = "schemas" /\ proc'[p].n = 1
  PROVE Reached(proc[p])'
<1>1. Reached(proc[p])
  BY DEF OpeningInv, TablesAdvance
<1>2. \A t \in AllTables : (Made(t) => Made(t)') /\ (Current(t) => Current(t)')
  BY DEF Made, Current
<1> HIDE DEF Made, Current
<1> QED BY <1>1, <1>2 DEF Reached

LEMMA BeginGuardedKeeps == ASSUME SchemaAssumption, OpeningInv, NEW p \in Processes, BeginGuarded(p)
  PROVE OpeningInv'
<1>1. proc[p] \in Turns /\ proc[p].at \in Plugging /\ Reached(proc[p]) /\ proc[p].at \notin Guarded
  BY DEF BeginGuarded, OpeningInv, OpeningTypes, TablesAdvance, Plugging, Guarded
<1>2. PICK q \in proc[p].plugins, code \in Contributions :
        IF code = <<>>
        THEN GoTo(p, [proc[p] EXCEPT !.plugins = @ \ {q}]) /\ UNCHANGED writeLock
        ELSE /\ writeLock = "nobody" /\ writeLock' = p
             /\ GoTo(p, [proc[p] EXCEPT !.at = Enter(@), !.plugins = @ \ {q}, !.plugin = q, !.code = code, !.n = 1])
  BY DEF BeginGuarded
<1>3. UNCHANGED <<schema, own, uncommitted>> /\ q \in Contributors
  BY <1>1 DEF BeginGuarded, Turns
<1> DEFINE skip == [proc[p] EXCEPT !.plugins = @ \ {q}]
           in == [proc[p] EXCEPT !.at = Enter(@), !.plugins = @ \ {q}, !.plugin = q, !.code = code, !.n = 1]
<1>4. CASE code = <<>>
  <2>1. skip \in Turns /\ skip.at = proc[p].at /\ skip.n = proc[p].n
    BY <1>1 DEF Turns
  <2>2. GoTo(p, skip) /\ UNCHANGED writeLock
    BY <1>2, <1>4
  <2> HIDE DEF skip
  <2>3. proc' \in [Processes -> Turns] /\ proc'[p] = skip
        /\ \A u \in Processes : u # p => proc'[u] = proc[u]
    BY <2>1, <2>2, ATurn DEF OpeningInv
  <2>4. Reached(proc[p])'
    BY <1>1, <1>3, <2>1, <2>3, TheSamePlace DEF Plugging, Reached
  <2>5. OneWriter' /\ PluginsAreContained'
    BY <1>1, <1>3, <2>1, <2>2, <2>3, OutsideTheCall
  <2> QED BY <1>3, <2>3, <2>4, <2>5, SchemaStays, ATurnKeeps
<1>5. CASE code # <<>>
  <2>1. in \in Turns /\ in.at = Enter(proc[p].at) /\ in.n = 1 /\ in.plugin = q /\ in.code = code
    BY <1>1, <1>3 DEF Turns, Stations, Enter
  <2>2. GoTo(p, in) /\ writeLock = "nobody" /\ writeLock' = p
    BY <1>2, <1>5
  <2> HIDE DEF in
  <2>3. proc' \in [Processes -> Turns] /\ proc'[p] = in
        /\ \A u \in Processes : u # p => proc'[u] = proc[u]
    BY <2>1, <2>2, ATurn DEF OpeningInv
  <2>4. in.at \in Guarded
    BY <1>1, <2>1 DEF Guarded, Enter
  <2>5. Reached(proc[p])'
    BY <1>1, <1>3, <2>1, <2>3, <2>4, TheSamePlace DEF Plugging, Enter
  <2>6. Pending(proc[p])'
    <3>1. Len(code) \in Nat
      BY <1>2 DEF SchemaAssumption
    <3>2. proc'[p].n = 1 /\ proc'[p].code = code
      BY <2>1, <2>3
    <3>3. uncommitted' = {} /\ \A i \in 1 .. proc'[p].n - 1 : FALSE
      BY <1>3, <2>2, <3>2 DEF OpeningInv, OneWriter
    <3>4. proc'[p].n \in 1 .. Len(proc'[p].code) + 1
      BY <3>1, <3>2
    <3> QED BY <3>2, <3>3, <3>4 DEF Pending, InCode, RunOrRefused, IsRun
  <2>7. OneWriter'
    <3>1. \A u \in Processes : u # p => proc[u].at \notin Guarded
      BY <2>2 DEF OpeningInv, OneWriter, SchemaAssumption
    <3>2. \A u \in Processes : proc'[u].at \in Guarded <=> writeLock' = u
      BY <2>2, <2>3, <2>4, <3>1
    <3>3. \A u \in Processes : writeLock' = u => Pending(proc[u])'
      BY <2>2, <2>3, <2>6
    <3> QED BY <2>2, <3>2, <3>3 DEF OneWriter, SchemaAssumption
  <2>8. PluginsAreContained'
    BY <1>3 DEF OpeningInv, PluginsAreContained
  <2> QED BY <1>3, <2>3, <2>5, <2>7, <2>8, SchemaStays, ATurnKeeps
<1> QED BY <1>4, <1>5

\* Nothing of the plug-in's call is left: its statements are committed, or are not there.
LEMMA TheCallIsOver ==
  ASSUME SchemaAssumption, OpeningInv, NEW p \in Processes, writeLock = p, writeLock' = "nobody",
         uncommitted' = {}, UNCHANGED own,
         \A q \in Processes : q # p => proc'[q] = proc[q],
         proc'[p].at \notin Guarded
  PROVE OneWriter' /\ PluginsAreContained'
<1>1. \A q \in Processes : q # p => proc[q].at \notin Guarded
  BY DEF OpeningInv, OneWriter
<1>2. \A q \in Processes : writeLock' # q /\ proc'[q].at \notin Guarded
  BY <1>1 DEF SchemaAssumption
<1>3. OneWriter'
  BY <1>2 DEF OneWriter
<1> QED BY <1>3 DEF OpeningInv, PluginsAreContained

\* A guarded call, and the turn its end gives back.
LEMMA InTheCall ==
  ASSUME OpeningInv, NEW p \in Processes, proc[p].at \in Guarded
  PROVE /\ proc[p] \in Turns /\ Reached(proc[p]) /\ writeLock = p /\ Pending(proc[p])
        /\ \A q \in Processes : q # p => proc[q].at \notin Guarded
        /\ Len(proc[p].code) \in Nat \/ ~SchemaAssumption
  BY DEF OpeningInv, OpeningTypes, TablesAdvance, OneWriter, SchemaAssumption, Pending, InCode

LEMMA ReleasedTurn ==
  ASSUME OpeningInv, NEW p \in Processes, proc[p].at \in Guarded, Released(p), UNCHANGED schema
  PROVE /\ proc' \in [Processes -> Turns] /\ proc'[p].at \notin Guarded /\ writeLock' = "nobody"
        /\ \A q \in Processes : q # p => proc'[q] = proc[q]
        /\ Reached(proc[p])'
<1> DEFINE r == [proc[p] EXCEPT !.at = Leave(@), !.plugin = "none", !.code = <<>>, !.n = 1]
<1>1. proc[p] \in Turns
  BY InTheCall
<1>2. r \in Turns /\ r.at = Leave(proc[p].at) /\ r.n = 1
  BY <1>1 DEF Turns, Stations, Leave
<1>3. GoTo(p, r) /\ writeLock' = "nobody"
  BY DEF Released
<1> HIDE DEF r
<1>4. proc' \in [Processes -> Turns] /\ proc'[p] = r
      /\ \A q \in Processes : q # p => proc'[q] = proc[q]
  BY <1>2, <1>3, ATurn DEF OpeningInv
<1>5. proc'[p].at \notin Guarded
  BY <1>2, <1>4 DEF Leave, Guarded
<1>6. Reached(proc[p])'
  BY <1>2, <1>4, TheSamePlace DEF Leave, Guarded
<1> QED BY <1>3, <1>4, <1>5, <1>6

LEMMA ExecuteKeeps == ASSUME SchemaAssumption, OpeningInv, NEW p \in Processes, Execute(p)
  PROVE OpeningInv'
<1>1. proc[p].at \in Guarded /\ proc[p].n <= Len(proc[p].code) /\ UNCHANGED schema
  BY DEF Execute
<1>2. proc[p] \in Turns /\ Reached(proc[p]) /\ writeLock = p /\ Pending(proc[p])
      /\ (\A q \in Processes : q # p => proc[q].at \notin Guarded) /\ Len(proc[p].code) \in Nat
  BY <1>1, InTheCall
<1>3. PICK s : s = proc[p].code[proc[p].n]
  OBVIOUS
<1>4. ASSUME RollbackPending, Released(p) PROVE OpeningInv'
  <2>2. OneWriter' /\ PluginsAreContained'
    BY <1>1, <1>2, <1>4, ReleasedTurn, TheCallIsOver DEF RollbackPending
  <2> QED BY <1>1, <1>4, <2>2, ReleasedTurn, SchemaStays, ATurnKeeps
<1> DEFINE this == <<proc[p].plugin, proc[p].code, proc[p].n, proc[p].at>>
           r == [proc[p] EXCEPT !.n = @ + 1]
<1>5. ASSUME Refused(s) => proc[p].at = "guarded migrations", Run(p, s), GoTo(p, r), UNCHANGED writeLock
      PROVE  OpeningInv'
  <2>1. s = "own" \/ (s # "own" /\ Refused(s))
    <3>1. proc[p].n \in 1 .. Len(proc[p].code) /\ proc[p].code \in Seq(Statements)
      BY <1>1, <1>2 DEF Pending, InCode, SchemaAssumption
    <3>2. s \in Statements
      BY <1>3, <3>1
    <3> QED BY <3>2 DEF Refused, Denied, Statements
  <2>2. /\ UNCHANGED own
        /\ \/ s = "own" /\ uncommitted' = uncommitted \cup {this}
           \/ s # "own" /\ proc[p].at = "guarded migrations" /\ uncommitted' = uncommitted
    BY <1>5, <2>1 DEF Run, Refused, Denied
  <2>3. r \in Turns /\ r.at = proc[p].at /\ r.n = proc[p].n + 1 /\ r.code = proc[p].code
        /\ r.plugin = proc[p].plugin
    BY <1>2 DEF Turns
  <2> HIDE DEF r
  <2>4. proc' \in [Processes -> Turns] /\ proc'[p] = r
        /\ \A q \in Processes : q # p => proc'[q] = proc[q]
    BY <1>5, <2>3, ATurn DEF OpeningInv
  <2>5. Reached(proc[p])'
    <3>1. proc'[p].at = proc[p].at /\ proc'[p].at \in {"guarded schemas", "guarded migrations"}
      BY <1>1, <2>3, <2>4 DEF Guarded
    <3>2. \A t \in AllTables : (Made(t) => Made(t)') /\ (Current(t) => Current(t)')
      BY <1>1 DEF Made, Current
    <3> HIDE DEF Made, Current
    <3> QED BY <1>2, <3>1, <3>2 DEF Reached
  <2>6. proc[p].n \in Nat /\ proc'[p].n = proc[p].n + 1 /\ proc'[p].code = proc[p].code
        /\ proc'[p].plugin = proc[p].plugin /\ proc'[p].at = proc[p].at
    BY <1>2, <2>3, <2>4 DEF Turns
  <2>7. Pending(proc[p])'
    <3>1. proc'[p].n \in 1 .. Len(proc'[p].code) + 1
      BY <1>1, <1>2, <2>6
    <3>2. \A i \in 1 .. proc'[p].n - 1 : i \in 1 .. proc[p].n - 1 \/ i = proc[p].n
      BY <2>6
    <3>3. 1 .. proc[p].n - 1 \subseteq 1 .. proc'[p].n - 1 /\ proc[p].n \in 1 .. proc'[p].n - 1
      BY <1>2, <2>6 DEF Pending, InCode
    <3>4. \A i \in 1 .. proc'[p].n - 1 :
            \/ proc[p].code[i] = "own" /\ <<proc[p].plugin, proc[p].code, i, proc[p].at>> \in uncommitted'
            \/ proc[p].code[i] # "own" /\ proc[p].at = "guarded migrations"
      <4>1. ASSUME NEW i \in 1 .. proc[p].n - 1
            PROVE  \/ proc[p].code[i] = "own" /\ <<proc[p].plugin, proc[p].code, i, proc[p].at>> \in uncommitted'
                   \/ proc[p].code[i] # "own" /\ proc[p].at = "guarded migrations"
        BY <1>2, <2>2 DEF Pending, RunOrRefused
      <4>2. \/ proc[p].code[proc[p].n] = "own" /\ this \in uncommitted'
            \/ proc[p].code[proc[p].n] # "own" /\ proc[p].at = "guarded migrations"
        BY <1>3, <2>2
      <4> QED BY <3>2, <4>1, <4>2
    <3>5. \A u \in uncommitted' : \E i \in 1 .. proc'[p].n - 1 :
            u = <<proc[p].plugin, proc[p].code, i, proc[p].at>> /\ proc[p].code[i] = "own"
      <4>1. ASSUME NEW u \in uncommitted
            PROVE  \E i \in 1 .. proc'[p].n - 1 :
                     u = <<proc[p].plugin, proc[p].code, i, proc[p].at>> /\ proc[p].code[i] = "own"
        BY <1>2, <3>3 DEF Pending, IsRun
      <4>2. s = "own" => proc[p].code[proc[p].n] = "own"
        BY <1>3
      <4> QED BY <2>2, <3>3, <4>1, <4>2
    <3>6. proc'[p].code \in Contributions
      BY <1>2, <2>6 DEF Pending, InCode
    <3> QED BY <2>6, <3>1, <3>4, <3>5, <3>6 DEF Pending, InCode, RunOrRefused, IsRun
  <2>8. OneWriter'
    <3>1. \A u \in Processes : proc'[u].at \in Guarded <=> writeLock' = u
      BY <1>1, <1>2, <1>5, <2>3, <2>4
    <3>2. \A u \in Processes : writeLock' = u => Pending(proc[u])'
      BY <1>2, <1>5, <2>7
    <3> QED BY <1>2, <1>5, <3>1, <3>2 DEF OneWriter, SchemaAssumption
  <2>9. PluginsAreContained'
    BY <2>2 DEF OpeningInv, PluginsAreContained
  <2> QED BY <1>1, <2>4, <2>5, <2>8, <2>9, SchemaStays, ATurnKeeps
<1> QED BY <1>3, <1>4, <1>5 DEF Execute

LEMMA EndGuardedKeeps == ASSUME SchemaAssumption, OpeningInv, NEW p \in Processes, EndGuarded(p)
  PROVE OpeningInv'
<1>1. proc[p].at \in Guarded /\ proc[p].n > Len(proc[p].code) /\ UNCHANGED schema
      /\ CommitPending /\ Released(p)
  BY DEF EndGuarded
<1>2. proc[p] \in Turns /\ Reached(proc[p]) /\ writeLock = p /\ Pending(proc[p])
      /\ (\A q \in Processes : q # p => proc[q].at \notin Guarded) /\ Len(proc[p].code) \in Nat
  BY <1>1, InTheCall
<1>3. proc' \in [Processes -> Turns] /\ proc'[p].at \notin Guarded /\ writeLock' = "nobody"
      /\ Reached(proc[p])'
        /\ \A q \in Processes : q # p => proc'[q] = proc[q]
  BY <1>1, ReleasedTurn
<1>4. OneWriter'
  <2>1. \A q \in Processes : writeLock' # q /\ proc'[q].at \notin Guarded
    BY <1>2, <1>3 DEF SchemaAssumption
  <2> QED BY <1>1, <1>3, <2>1 DEF OneWriter, CommitPending
<1>5. PluginsAreContained'
  <2>1. ASSUME NEW s \in uncommitted
        PROVE  /\ s[2][s[3]] = "own"
               /\ \A i \in DOMAIN s[2] : \/ s[2][i] = "own" /\ <<s[1], s[2], i, s[4]>> \in uncommitted
                                         \/ s[2][i] # "own" /\ s[4] = "guarded migrations"
    <3>1. PICK k \in 1 .. proc[p].n - 1 :
            s = <<proc[p].plugin, proc[p].code, k, proc[p].at>> /\ proc[p].code[k] = "own"
      BY <1>2 DEF Pending, IsRun
    <3>2. DOMAIN proc[p].code = 1 .. Len(proc[p].code) /\ proc[p].n \in 1 .. Len(proc[p].code) + 1
      BY <1>2 DEF Pending, InCode, SchemaAssumption
    <3>3. \A i \in DOMAIN proc[p].code : i \in 1 .. proc[p].n - 1
      BY <1>1, <1>2, <3>2
    <3>4. \A i \in DOMAIN proc[p].code : RunOrRefused(proc[p], i)
      BY <1>2, <3>3 DEF Pending
    <3> QED BY <3>1, <3>4 DEF RunOrRefused
  <2>2. own' = own \cup uncommitted
    BY <1>1 DEF CommitPending
  <2> QED BY <2>1, <2>2 DEF PluginsAreContained, OpeningInv
<1> QED BY <1>1, <1>3, <1>4, <1>5, SchemaStays, ATurnKeeps

LEMMA InterruptedKeeps == ASSUME SchemaAssumption, OpeningInv, NEW p \in Processes, Interrupted(p)
  PROVE OpeningInv'
<1> DEFINE r == [NotOpen EXCEPT !.at = "failed"]
<1>1. r \in Turns /\ r.at = "failed"
  BY DEF NotOpen, Turns, Stations
<1>2. /\ GoTo(p, r) /\ UNCHANGED <<schema, own>> /\ uncommitted' = {} /\ writeLock' = "nobody"
      /\ writeLock = p
  BY InTheCall DEF Interrupted, RollbackPending
<1> HIDE DEF r
<1>3. proc' \in [Processes -> Turns] /\ proc'[p] = r
      /\ \A q \in Processes : q # p => proc'[q] = proc[q]
  BY <1>1, <1>2, ATurn DEF OpeningInv
<1>4. Reached(proc[p])'
  BY <1>1, <1>3 DEF Reached
<1>5. OneWriter' /\ PluginsAreContained'
  BY <1>1, <1>2, <1>3, TheCallIsOver DEF Guarded
<1> QED BY <1>2, <1>3, <1>4, <1>5, SchemaStays, ATurnKeeps

LEMMA CheckTableKeeps == ASSUME SchemaAssumption, OpeningInv, NEW p \in Processes, CheckTable(p)
  PROVE OpeningInv'
<1> DEFINE r == [proc[p] EXCEPT !.at = "alter", !.seen = schema[Tables[proc[p].n]]]
<1>1. proc[p] \in Turns /\ proc[p].at = "check" /\ Reached(proc[p]) /\ proc[p].n \in 1 .. 3
  BY DEF CheckTable, OpeningInv, OpeningTypes, TablesAdvance, Reached
<1>2. PICK t \in AllTables : t = Tables[proc[p].n]
  BY <1>1, TheTables
<1>3. schema[t] \in SUBSET (AllColumns \cup Missing)
  BY DEF OpeningInv, OpeningTypes
<1>4. r \in Turns /\ r.at = "alter" /\ r.seen = schema[t] /\ r.n = proc[p].n
  BY <1>1, <1>2, <1>3 DEF Turns, Stations
<1>5. GoTo(p, r) /\ UNCHANGED <<schema, own, writeLock, uncommitted>>
  BY DEF CheckTable, dbFile
<1> HIDE DEF r
<1>6. proc' \in [Processes -> Turns] /\ proc'[p] = r
      /\ \A q \in Processes : q # p => proc'[q] = proc[q]
  BY <1>4, <1>5, ATurn DEF OpeningInv
<1>7. Reached(proc[p])'
  <2>1. proc'[p].at = "alter" /\ proc'[p].n = proc[p].n
        /\ proc'[p].seen = schema'[Tables[proc'[p].n]]
    BY <1>2, <1>4, <1>5, <1>6
  <2>2. \A i \in 1 .. 3 : i < proc'[p].n => Current(Tables[i])'
    BY <1>1, <1>5, <2>1 DEF Reached, Current
  <2>3. \A u \in AllTables : Made(u)'
    BY <1>1, <1>5 DEF Reached, Made
  <2> QED BY <1>1, <2>1, <2>2, <2>3 DEF Reached
<1>8. OneWriter' /\ PluginsAreContained'
  BY <1>1, <1>4, <1>5, <1>6, OutsideTheCall DEF Guarded
<1> QED BY <1>5, <1>6, <1>7, <1>8, SchemaStays, ATurnKeeps

LEMMA AlterKeeps == ASSUME SchemaAssumption, OpeningInv, NEW p \in Processes, Alter(p)
  PROVE OpeningInv'
<1>1. proc[p] \in Turns /\ proc[p].at = "alter" /\ Reached(proc[p]) /\ proc[p].n \in 1 .. 3
      /\ Lacking(p) # {}
      /\ UNCHANGED <<own, writeLock, uncommitted>>
  BY DEF Alter, OpeningInv, OpeningTypes, TablesAdvance, Reached
<1>2. PICK t \in AllTables : t = Tables[proc[p].n]
  BY <1>1, TheTables
<1>3. PICK c : c = CHOOSE d \in Lacking(p) : TRUE
  OBVIOUS
<1>4. c \in ColumnsOf(t) /\ c \in AllColumns
  BY <1>1, <1>2, <1>3, TheTables DEF Lacking
<1>5. CASE c \in schema[t]
  <2> DEFINE r == [NotOpen EXCEPT !.at = "failed"]
  <2>1. r \in Turns /\ r.at = "failed"
    BY DEF NotOpen, Turns, Stations
  <2>2. GoTo(p, r) /\ UNCHANGED schema
    BY <1>2, <1>3, <1>5 DEF Alter
  <2> HIDE DEF r
  <2>3. proc' \in [Processes -> Turns] /\ proc'[p] = r
        /\ \A q \in Processes : q # p => proc'[q] = proc[q]
    BY <2>1, <2>2, ATurn DEF OpeningInv
  <2>4. Reached(proc[p])'
    BY <2>1, <2>3 DEF Reached
  <2>5. OneWriter' /\ PluginsAreContained'
    BY <1>1, <2>1, <2>2, <2>3, OutsideTheCall DEF Guarded
  <2> QED BY <2>2, <2>3, <2>4, <2>5, SchemaStays, ATurnKeeps
<1>6. CASE c \notin schema[t]
  <2> DEFINE r == [proc[p] EXCEPT !.seen = @ \cup {c}]
  <2>1. r \in Turns /\ r.at = "alter" /\ r.n = proc[p].n /\ r.seen = proc[p].seen \cup {c}
    BY <1>1, <1>4 DEF Turns
  <2>2. GoTo(p, r) /\ schema' = [schema EXCEPT ![t] = @ \cup {c}]
    BY <1>2, <1>3, <1>6 DEF Alter
  <2> HIDE DEF r
  <2>3. proc' \in [Processes -> Turns] /\ proc'[p] = r
        /\ \A q \in Processes : q # p => proc'[q] = proc[q]
    BY <2>1, <2>2, ATurn DEF OpeningInv
  <2>4. \A u \in AllTables : Made(u)
    BY <1>1 DEF Reached
  <2>5. schema'[t] = schema[t] \cup {c} /\ \A u \in AllTables : u # t => schema'[u] = schema[u]
    BY <2>2 DEF OpeningInv, OpeningTypes
  <2>6. schema[t] \subseteq AllColumns
    BY <2>4, TheTables DEF Made
  <2>7. \A u \in AllTables : Made(u)' /\ schema[u] \subseteq schema'[u]
    BY <1>4, <2>4, <2>5 DEF Made
  <2>8. Grows
    <3>1. schema' \in [AllTables -> {Missing} \cup SUBSET AllColumns]
      BY <1>4, <2>2, <2>6 DEF OpeningInv, OpeningTypes
    <3> QED BY <2>7, <3>1 DEF Grows
  <2>9. Reached(proc[p])'
    <3>1. proc'[p].at = "alter" /\ proc'[p].n = proc[p].n /\ proc'[p].seen = proc[p].seen \cup {c}
      BY <2>1, <2>3
    <3>2. \A i \in 1 .. 3 : i < proc[p].n => Current(Tables[i])
      BY <1>1 DEF Reached
    <3>3. \A i \in 1 .. 3 : i < proc'[p].n => Current(Tables[i])'
      <4>1. \A u \in AllTables : Current(u) => Current(u)'
        BY <2>7 DEF Made, Current
      <4> QED BY <3>1, <3>2, <4>1, TheTables
    <3>4. proc'[p].seen \subseteq schema'[Tables[proc'[p].n]]
      BY <1>1, <1>2, <2>5, <3>1 DEF Reached
    <3> QED BY <1>1, <2>7, <3>1, <3>3, <3>4 DEF Reached
  <2>10. OneWriter' /\ PluginsAreContained'
    BY <1>1, <2>1, <2>3, OutsideTheCall DEF Guarded
  <2> QED BY <2>3, <2>8, <2>9, <2>10, ATurnKeeps
<1> QED BY <1>5, <1>6

LEMMA AlteredKeeps == ASSUME SchemaAssumption, OpeningInv, NEW p \in Processes, Altered(p)
  PROVE OpeningInv'
<1> DEFINE on == [proc[p] EXCEPT !.at = "check", !.n = @ + 1, !.seen = {}]
           over == [proc[p] EXCEPT !.at = "migrations", !.plugins = Contributors, !.seen = {}]
<1>1. proc[p] \in Turns /\ proc[p].at = "alter" /\ Reached(proc[p]) /\ proc[p].n \in 1 .. 3
      /\ Lacking(p) = {}
      /\ UNCHANGED <<schema, own, writeLock, uncommitted>>
  BY DEF Altered, OpeningInv, OpeningTypes, TablesAdvance, Reached, dbFile
<1>2. PICK t \in AllTables : t = Tables[proc[p].n]
  BY <1>1, TheTables
<1>3. Current(t)
  BY <1>1, <1>2 DEF Reached, Lacking, Current, Made
<1>4. \A i \in 1 .. 3 : i <= proc[p].n => Current(Tables[i])
  <2>1. \A i \in 1 .. 3 : i < proc[p].n => Current(Tables[i])
    BY <1>1 DEF Reached
  <2>2. Current(Tables[proc[p].n])
    BY <1>2, <1>3
  <2>3. \A i \in 1 .. 3 : i <= proc[p].n => i < proc[p].n \/ i = proc[p].n
    BY <1>1
  <2> QED BY <2>1, <2>2, <2>3
<1>5. on \in Turns /\ on.at = "check" /\ on.n = proc[p].n + 1
  <2>1. proc[p].n \in Nat /\ proc[p].n + 1 \in Nat /\ {} \in SUBSET (AllColumns \cup Missing)
        /\ "check" \in Stations
    BY <1>1 DEF Stations
  <2> HIDE DEF Stations
  <2> QED BY <1>1, <2>1 DEF Turns
<1>6. over \in Turns /\ over.at = "migrations"
  BY <1>1 DEF Turns, Stations
<1>7. GoTo(p, IF proc[p].n < 3 THEN on ELSE over)
  BY TheTables DEF Altered
<1> HIDE DEF on, over
<1>8. proc' \in [Processes -> Turns] /\ proc'[p] = (IF proc[p].n < 3 THEN on ELSE over)
      /\ \A q \in Processes : q # p => proc'[q] = proc[q]
  BY <1>5, <1>6, <1>7, ATurn DEF OpeningInv
<1>9. \A u \in AllTables : Made(u)'
  BY <1>1 DEF Reached, Made
<1>10. \A i \in 1 .. 3 : i <= proc[p].n => Current(Tables[i])'
  BY <1>1, <1>4 DEF Current
<1>11. Reached(proc[p])'
  <2>1. CASE proc[p].n < 3
    <3>1. proc'[p].at = "check" /\ proc'[p].n = proc[p].n + 1
      BY <1>5, <1>8, <2>1
    <3>2. proc'[p].n \in 1 .. 3
      BY <1>1, <2>1, <3>1
    <3>3. \A i \in 1 .. 3 : i < proc'[p].n => Current(Tables[i])'
      BY <1>1, <1>10, <3>1
    <3> QED BY <1>9, <3>1, <3>2, <3>3 DEF Reached
  <2>2. CASE proc[p].n = 3
    <3>1. proc'[p].at = "migrations"
      BY <1>6, <1>8, <2>2
    <3>2. \A u \in AllTables : Current(u)'
      BY <1>10, <2>2, TheTables
    <3> QED BY <1>9, <3>1, <3>2 DEF Reached
  <2> QED BY <1>1, <2>1, <2>2
<1>12. OneWriter' /\ PluginsAreContained'
  <2>1. proc'[p].at \notin Guarded
    BY <1>5, <1>6, <1>8 DEF Guarded
  <2> QED BY <1>1, <1>8, <2>1, OutsideTheCall DEF Guarded
<1> QED BY <1>1, <1>8, <1>11, <1>12, SchemaStays, ATurnKeeps

LEMMA BusyKeeps == ASSUME SchemaAssumption, OpeningInv, NEW p \in Processes, Busy(p)
  PROVE OpeningInv'
<1>1. proc[p] \in Turns /\ Reached(proc[p]) /\ UNCHANGED <<schema, own, writeLock, uncommitted>>
  BY DEF Busy, OpeningInv, OpeningTypes, TablesAdvance, dbFile
<1>2. CASE proc[p].at \in {"script", "alter"}
  <2> DEFINE r == [NotOpen EXCEPT !.at = "failed"]
  <2>1. r \in Turns /\ r.at = "failed"
    BY DEF NotOpen, Turns, Stations
  <2>2. GoTo(p, r)
    BY <1>2 DEF Busy, Plugging
  <2> HIDE DEF r
  <2>3. proc' \in [Processes -> Turns] /\ proc'[p] = r
        /\ \A q \in Processes : q # p => proc'[q] = proc[q]
    BY <2>1, <2>2, ATurn DEF OpeningInv
  <2>4. Reached(proc[p])'
    BY <2>1, <2>3 DEF Reached
  <2>5. OneWriter' /\ PluginsAreContained'
    BY <1>1, <1>2, <2>1, <2>3, OutsideTheCall DEF Guarded
  <2> QED BY <1>1, <2>3, <2>4, <2>5, SchemaStays, ATurnKeeps
<1>3. CASE proc[p].at \notin {"script", "alter"}
  <2>1. proc[p].at \in Plugging
    BY <1>3 DEF Busy
  <2>2. PICK q \in proc[p].plugins : GoTo(p, [proc[p] EXCEPT !.plugins = @ \ {q}])
    BY <1>3 DEF Busy
  <2> DEFINE r == [proc[p] EXCEPT !.plugins = @ \ {q}]
  <2>3. r \in Turns /\ r.at = proc[p].at /\ r.n = proc[p].n
    BY <1>1 DEF Turns
  <2> HIDE DEF r
  <2>4. proc' \in [Processes -> Turns] /\ proc'[p] = r
        /\ \A u \in Processes : u # p => proc'[u] = proc[u]
    BY <2>2, <2>3, ATurn DEF OpeningInv, r
  <2>5. Reached(proc[p])'
    BY <1>1, <2>1, <2>3, <2>4, TheSamePlace DEF Plugging, Reached
  <2>6. OneWriter' /\ PluginsAreContained'
    BY <1>1, <2>1, <2>3, <2>4, OutsideTheCall DEF Guarded, Plugging
  <2> QED BY <1>1, <2>4, <2>5, <2>6, SchemaStays, ATurnKeeps
<1> QED BY <1>2, <1>3

LEMMA KillKeeps == ASSUME SchemaAssumption, OpeningInv, NEW p \in Processes, Kill(p)
  PROVE OpeningInv'
<1>1. NotOpen \in Turns /\ NotOpen.at = "closed"
  BY DEF NotOpen, Turns, Stations
<1>2. GoTo(p, NotOpen) /\ UNCHANGED <<schema, own>>
  BY DEF Kill
<1>3. proc' \in [Processes -> Turns] /\ proc'[p] = NotOpen
      /\ \A q \in Processes : q # p => proc'[q] = proc[q]
  BY <1>1, <1>2, ATurn DEF OpeningInv
<1>4. Reached(proc[p])'
  BY <1>1, <1>3 DEF Reached
<1>5. OneWriter' /\ PluginsAreContained'
  <2>1. CASE writeLock = p
    <3>1. writeLock' = "nobody" /\ uncommitted' = {}
      BY <2>1 DEF Kill
    <3> QED BY <1>1, <1>2, <1>3, <2>1, <3>1, TheCallIsOver DEF Guarded
  <2>2. CASE writeLock # p
    <3>1. UNCHANGED <<writeLock, uncommitted>> /\ proc[p].at \notin Guarded
      BY <2>2 DEF Kill, OpeningInv, OneWriter
    <3> QED BY <1>1, <1>2, <1>3, <3>1, OutsideTheCall DEF Guarded
  <2> QED BY <2>1, <2>2
<1> QED BY <1>2, <1>3, <1>4, <1>5, SchemaStays, ATurnKeeps

LEMMA NoOpeningStepKeeps == ASSUME OpeningInv, UNCHANGED openingVars PROVE OpeningInv'
<1>1. UNCHANGED <<schema, own, writeLock, uncommitted, proc>>
  BY DEF openingVars
<1>2. OpeningTypes'
  BY <1>1 DEF OpeningInv, OpeningTypes, Made
<1>3. TablesAdvance'
  BY <1>1 DEF OpeningInv, TablesAdvance, Reached, Made, Current
<1>4. OneWriter' /\ PluginsAreContained'
  BY <1>1 DEF OpeningInv, OneWriter, Pending, InCode, RunOrRefused, IsRun, PluginsAreContained
<1> QED BY <1>2, <1>3, <1>4 DEF OpeningInv

LEMMA OpeningInvNext == ASSUME SchemaAssumption
  PROVE OpeningInv /\ [OpeningNext]_openingVars => OpeningInv'
  BY OpenKeeps, CreateTableKeeps, PluggedKeeps, BeginGuardedKeeps, ExecuteKeeps, EndGuardedKeeps,
     InterruptedKeeps,
     CheckTableKeeps, AlterKeeps, AlteredKeeps, BusyKeeps, KillKeeps, NoOpeningStepKeeps DEF OpeningNext, AllOpen

-----------------------------------------------------------------------------
(* OpenedIsCurrent, for `open_db`, `_migrate` and `_run_schema_guarded`:   *)
(* however many processes open the database at once, from whatever earlier *)
(* version, whichever of them is killed between two statements, and        *)
(* whatever the plug-ins contribute, a database that is open has every     *)
(* table with every column; a plug-in's contribution is there whole or not *)
(* at all, and of a migration that caught the error of a refused statement *)
(* at most the rest, which touches no core table.                          *)
THEOREM OpenedDatabasesAreCurrent == ASSUME SchemaAssumption PROVE OpeningSpec => []OpenedIsCurrent
<1>1. OpeningInv => OpenedIsCurrent
  BY DEF OpeningInv, TablesAdvance, Reached, Current, OpenedIsCurrent, TablesAreCurrent
<1>2. OpeningInit => OpeningInv
  BY OpeningInitHolds
<1>3. OpeningInv /\ [OpeningNext]_openingVars => OpeningInv'
  BY OpeningInvNext
<1> QED BY <1>1, <1>2, <1>3, PTL DEF OpeningSpec

-----------------------------------------------------------------------------
(* Scheduler: the slots. *)

LEMMA TimesMonotone ==
  ASSUME NEW a \in Int, NEW b \in Int, a <= b, NEW c \in Nat
  PROVE  a * c \in Int /\ b * c \in Int /\ a * c <= b * c
  <1>1. (b - a) * c >= 0
    OBVIOUS
  <1> QED BY <1>1

LEMMA Quotient ==
  ASSUME NEW n \in Nat, NEW d \in Nat \ {0}
  PROVE  /\ n \div d \in Nat /\ (n \div d) * d \in Nat
         /\ (n \div d) * d <= n /\ n < (n \div d) * d + d
  OBVIOUS

LEMMA QuotientIs ==
  ASSUME NEW n \in Nat, NEW d \in Nat \ {0}, NEW k \in Int, k * d <= n, n < k * d + d
  PROVE  n \div d = k
  <1> DEFINE q == n \div d
  <1>1. q \in Nat /\ q * d \in Nat /\ q * d <= n /\ n < q * d + d
    BY Quotient
  <1> HIDE DEF q
  <1>2. ~(q + 1 <= k)
    <2> SUFFICES ASSUME q + 1 <= k PROVE FALSE  OBVIOUS
    <2>1. (q + 1) * d <= k * d
      BY <1>1, TimesMonotone
    <2>2. (q + 1) * d = q * d + d
      BY <1>1
    <2> QED BY <1>1, <2>1, <2>2
  <1>3. ~(k + 1 <= q)
    <2> SUFFICES ASSUME k + 1 <= q PROVE FALSE  OBVIOUS
    <2>1. (k + 1) * d <= q * d
      BY <1>1, TimesMonotone
    <2>2. (k + 1) * d = k * d + d
      OBVIOUS
    <2> QED BY <1>1, <2>1, <2>2
  <1>4. q = k
    BY <1>1, <1>2, <1>3
  <1> QED BY <1>4 DEF q

LEMMA DayTicksAre ==
  /\ DayTicks \in Nat \ {0} /\ DailyHour * Hour \in Nat /\ WeeklyHour * Hour \in Nat
  /\ DailyHour * Hour < DayTicks /\ WeeklyHour * Hour < DayTicks
  /\ PassesFit => 2 * Longest + Hour + DailyHour * Hour <= DayTicks
  <1>1. /\ Day \in Nat \ {0} /\ Hour \in Nat \ {0} /\ Longest \in Nat
        /\ DailyHour \in 0 .. Day - 1 /\ WeeklyHour \in 0 .. Day - 1
    BY SchedulerAssumption
  <1>2. Day * Hour \in Nat /\ DailyHour * Hour \in Nat /\ WeeklyHour * Hour \in Nat
    BY <1>1
  <1>3. Day * Hour # 0
    BY <1>1
  <1>4. (DailyHour + 1) * Hour <= Day * Hour /\ (WeeklyHour + 1) * Hour <= Day * Hour
    BY <1>1, TimesMonotone
  <1>5. (DailyHour + 1) * Hour = DailyHour * Hour + Hour /\ (WeeklyHour + 1) * Hour = WeeklyHour * Hour + Hour
    BY <1>1
  <1>6. (Day - DailyHour) * Hour = Day * Hour - DailyHour * Hour
    BY <1>1
  <1> QED BY <1>1, <1>2, <1>3, <1>4, <1>5, <1>6 DEF DayTicks, PassesFit

\* A weekly slot is of a whole number of weeks, and the last that has passed.
LEMMA WeeklySlotIs ==
  ASSUME NEW t \in Nat
  PROVE  /\ WeeklySlot(t) \in Int /\ WeeklySlot(t) <= t /\ t < WeeklySlot(t) + Week * DayTicks
         /\ \E m \in Int : WeeklySlot(t) = WeeklyDay * DayTicks + WeeklyHour * Hour + m * (Week * DayTicks)
  <1> DEFINE D == DayTicks
             w == WeeklyHour * Hour
             d == t \div D
             r == (d - WeeklyDay) % Week
             q == (d - WeeklyDay) \div Week
             c == d * D - r * D + w
  <1>1. D \in Nat \ {0} /\ w \in Nat /\ w < D
    BY DayTicksAre
  <1>2. Week \in Nat \ {0} /\ WeeklyDay \in Nat
    BY SchedulerAssumption
  <1> HIDE DEF D, w
  <1>3. d \in Nat /\ d * D \in Nat /\ d * D <= t /\ t < d * D + D
    BY <1>1, Quotient
  <1> HIDE DEF d
  <1>4. r \in 0 .. Week - 1 /\ q \in Int /\ d - WeeklyDay = q * Week + r
    BY <1>2, <1>3
  <1>5. WeeklySlot(t) = IF c > t THEN c - Week * D ELSE c
    BY DEF WeeklySlot, Midnight, D, w, d
  <1> HIDE DEF r, q
  <1>6. r * D \in Nat /\ Week * D \in Nat /\ r * D + D <= Week * D /\ D <= Week * D
    <2>1. (r + 1) * D <= Week * D
      BY <1>1, <1>2, <1>4, TimesMonotone
    <2>2. (r + 1) * D = r * D + D
      BY <1>1, <1>4
    <2>3. r * D \in Nat /\ Week * D \in Nat
      BY <1>1, <1>2, <1>4
    <2> QED BY <1>1, <2>1, <2>2, <2>3
  <1>7. c = WeeklyDay * D + w + q * (Week * D) /\ c - Week * D = WeeklyDay * D + w + (q - 1) * (Week * D)
    <2>1. d * D - r * D = (WeeklyDay + q * Week) * D
      <3>1. d = WeeklyDay + q * Week + r
        BY <1>2, <1>3, <1>4
      <3>2. q * Week \in Int
        BY <1>2, <1>4
      <3> DEFINE z == WeeklyDay + q * Week
      <3>3. z \in Int /\ d = z + r
        BY <3>1, <3>2, <1>2
      <3> HIDE DEF z
      <3>4. d * D = z * D + r * D
        BY <3>3, <1>1, <1>4
      <3> QED BY <3>3, <3>4, <1>1, <1>4 DEF z
    <2>2. (WeeklyDay + q * Week) * D = WeeklyDay * D + q * (Week * D)
      BY <1>1, <1>2, <1>4
    <2>3. (q - 1) * (Week * D) = q * (Week * D) - Week * D
      BY <1>4, <1>6
    <2>4. WeeklyDay * D \in Nat /\ q * (Week * D) \in Int
      BY <1>1, <1>2, <1>4, <1>6
    <2> QED BY <2>1, <2>2, <2>3, <2>4, <1>1, <1>4, <1>6
  <1>8. c \in Int /\ c + Week * D > t /\ c - Week * D <= t
    BY <1>1, <1>3, <1>6
  <1> HIDE DEF c
  <1>9. \E m \in Int : WeeklySlot(t) = WeeklyDay * D + w + m * (Week * D)
    <2>1. CASE c > t
      BY <2>1, <1>4, <1>5, <1>7
    <2>2. CASE ~(c > t)
      BY <2>2, <1>4, <1>5, <1>7
    <2> QED BY <2>1, <2>2
  <1>10. WeeklySlot(t) \in Int /\ WeeklySlot(t) <= t /\ t < WeeklySlot(t) + Week * D
    BY <1>5, <1>6, <1>8
  <1> QED BY <1>9, <1>10 DEF D, w

\* Slots do not go back.
LEMMA SlotsAdvance ==
  ASSUME NEW schedule, NEW t \in Nat, NEW u \in Nat, t <= u
  PROVE  /\ Slot(schedule, t) \in Int /\ Slot(schedule, u) \in Int
         /\ Slot(schedule, t) <= Slot(schedule, u)
  <1>1. CASE schedule = "daily"
    <2> DEFINE D == DayTicks
    <2>1. D \in Nat \ {0} /\ DailyHour * Hour \in Nat
      BY DayTicksAre
    <2> HIDE DEF D
    <2> DEFINE i == t \div D
               j == u \div D
    <2>2. i \in Nat /\ i * D \in Nat /\ i * D <= t /\ j \in Nat /\ j * D \in Nat /\ u < j * D + D
      BY <2>1, Quotient
    <2> HIDE DEF i, j
    <2>3. i <= j
      <3> SUFFICES ASSUME j + 1 <= i PROVE FALSE
        BY <2>2
      <3>1. (j + 1) * D <= i * D
        BY <2>1, <2>2, TimesMonotone
      <3>2. (j + 1) * D = j * D + D
        BY <2>1, <2>2
      <3> QED BY <2>1, <2>2, <3>1, <3>2
    <2>4. i * D <= j * D
      BY <2>1, <2>2, <2>3, TimesMonotone
    <2>5. Slot(schedule, t) = i * D + DailyHour * Hour /\ Slot(schedule, u) = j * D + DailyHour * Hour
      BY <1>1 DEF Slot, DailySlot, Midnight, D, i, j
    <2> QED BY <2>1, <2>2, <2>4, <2>5
  <1>2. CASE schedule # "daily"
    <2> DEFINE a == WeeklyDay * DayTicks + WeeklyHour * Hour
               W == Week * DayTicks
    <2>1. a \in Int /\ W \in Nat
      BY DayTicksAre, SchedulerAssumption
    <2>2. PICK m \in Int : WeeklySlot(t) = a + m * W
      BY WeeklySlotIs
    <2>3. PICK n \in Int : WeeklySlot(u) = a + n * W
      BY WeeklySlotIs
    <2>4. WeeklySlot(t) \in Int /\ WeeklySlot(t) <= t /\ WeeklySlot(u) \in Int /\ u < WeeklySlot(u) + W
      BY WeeklySlotIs
    <2> HIDE DEF a, W
    <2>5. m <= n
      <3> SUFFICES ASSUME n + 1 <= m PROVE FALSE
        OBVIOUS
      <3>1. (n + 1) * W <= m * W
        BY <2>1, TimesMonotone
      <3>2. (n + 1) * W = n * W + W /\ n * W \in Int /\ m * W \in Int
        BY <2>1
      <3> QED BY <2>1, <2>2, <2>3, <2>4, <3>1, <3>2
    <2>6. m * W <= n * W /\ m * W \in Int /\ n * W \in Int
      BY <2>1, <2>5, TimesMonotone
    <2>7. WeeklySlot(t) <= WeeklySlot(u)
      BY <2>1, <2>2, <2>3, <2>6
    <2> QED BY <1>2, <2>4, <2>7 DEF Slot
  <1> QED BY <1>1, <1>2

\* A set put in some order, every element once.
LEMMA Ordered ==
  ASSUME NEW S, IsFiniteSet(S)
  PROVE  /\ SetToSeq(S) \in Seq(S)
         /\ \A x \in S : \E i \in 1 .. Len(SetToSeq(S)) : SetToSeq(S)[i] = x
  <1> DEFINE n == Cardinality(S)
             s == SetToSeq(S)
  <1>1. n \in Nat /\ ExistsBijection(1 .. n, S)
    BY FS_CardinalityType
  <1> HIDE DEF n
  <1>2. \E f \in [1 .. n -> S] : IsInjective(f)
    BY <1>1 DEF ExistsBijection, Bijection, Injection
  <1>3. s \in [1 .. n -> S] /\ IsInjective(s)
    BY <1>2 DEF SetToSeq, n
  <1> HIDE DEF s
  <1>4. s \in Injection(1 .. n, S)
    BY <1>3 DEF Injection
  <1>5. IsFiniteSet(1 .. n) /\ Cardinality(1 .. n) = n
    BY <1>1, FS_Interval
  <1>6. s \in Surjection(1 .. n, S)
    BY <1>4, <1>5, FS_Injection DEF n
  <1>7. s \in Seq(S) /\ Len(s) = n
    BY <1>1, <1>3
  <1>8. \A x \in S : \E i \in 1 .. n : s[i] = x
    BY <1>6 DEF Surjection
  <1> QED BY <1>7, <1>8 DEF s

\* What a pass lists: a row of each project that is registered.
ScheduledRow == [project : Projects, schedule : {"daily", "weekly"}, last : Times]

LEMMA ListedAre ==
  ASSUME SchedulerTypeOK
  PROVE  LET listed == SetToSeq({Row(p) : p \in Registered})
         IN  /\ listed \in Seq(ScheduledRow)
             /\ \A p \in Registered : \E i \in 1 .. Len(listed) : listed[i] = Row(p)
  <1> DEFINE S == {Row(p) : p \in Registered}
             f == [r \in S |-> r.project]
  <1>1. S \subseteq ScheduledRow
    BY DEF SchedulerTypeOK, Row, Registered, ScheduledRow
  <1>2. f \in Injection(S, Projects)
    BY DEF Injection, IsInjective, Row, Registered
  <1>3. IsFiniteSet(S)
    BY <1>2, FS_Injection, SchedulerAssumption
  <1>4. \A p \in Registered : Row(p) \in S
    OBVIOUS
  <1> HIDE DEF S
  <1>5. SetToSeq(S) \in Seq(S) /\ \A x \in S : \E i \in 1 .. Len(SetToSeq(S)) : SetToSeq(S)[i] = x
    BY <1>3, Ordered
  <1>6. SetToSeq(S) \in Seq(ScheduledRow)
    BY <1>1, <1>5
  <1> QED BY <1>4, <1>5, <1>6 DEF S

\* What is kept of a project's records ends as they did.
LEMMA KeptAre ==
  ASSUME NEW h \in Seq(Times), Len(h) > MaxScanHistory
  PROVE  KeptRecords(h) \in Seq(Times) /\ KeptRecords(h) # <<>> /\ Last(KeptRecords(h)) = Last(h)
  <1> DEFINE m == Len(h) - MaxScanHistory + 1
             k == KeptRecords(h)
  <1>1. MaxScanHistory \in Nat \ {0} /\ Len(h) \in Nat /\ m \in 1 .. Len(h)
    BY SchedulerAssumption
  <1>2. k = SubSeq(h, m, Len(h))
    BY DEF KeptRecords
  <1> HIDE DEF k, m
  <1>3. k \in Seq(Times) /\ Len(k) = Len(h) - m + 1 /\ \A i \in 1 .. Len(h) - m + 1 : k[i] = h[m + i - 1]
    BY <1>1, <1>2, SubSeqProperties
  <1> QED BY <1>1, <1>3 DEF Last, k

(* The invariant of the loop and of the commands. *)

\* A row is scanned because no scan of it counts for the slot that has passed.
DueWith(row, t) == row.last = Never \/ row.last < Slot(row.schedule, t)

Clock == began <= now /\ now <= began + Allowance

RowInHand ==
  /\ doing \in {"scanning", "scanned", "saved", "fired", "marked"} => queue # <<>>
  /\ doing = "scanning" => DueWith(Head(queue), now)
  /\ doing \in {"scanned", "saved"} => DueWith(Head(queue), scanned)

\* No scan that counts is later than the one in hand.
TimesScanned ==
  /\ \A p \in Projects : projects[p].last <= now
  /\ doing \in {"scanned", "saved", "fired", "marked"} =>
       scanned \in 0 .. now /\ \A p \in Projects : projects[p].last <= scanned

OnRecord ==
  /\ CountedIsOnRecord
  /\ \A p \in Projects \ Registered : projects[p].last = Never
  /\ doing \in {"saved", "fired"} /\ ~PluginStores => scanned <= Newest(InHand)
  /\ doing = "fired" => scanned <= told[InHand]

\* The daily hours, of every day.
DailyHours == {day * DayTicks + DailyHour * Hour : day \in Nat}

\* A project that was registered, with the daemon up, when the hour passed, and that
\* no error has kept the loop from since.
Owed(p, hour) ==
  /\ doing # "down" /\ hindered[p] < hour /\ projects[p].schedule = "daily"
  /\ since < hour /\ projects[p].set < hour /\ hour <= now

InPass == doing \notin {"down", "asleep"}

\* The ith row of the pass will have the project scanned for that hour.
WillPay(p, hour, i) ==
  /\ queue[i].project = p /\ queue[i].schedule = "daily" /\ queue[i].last < hour
  /\ i = 1 => doing # "marked" /\ (doing \in {"scanned", "saved", "fired"} => scanned >= hour)

\* A pass that began before the hour, the sleep that follows it, and the next pass.
Outstanding(p, hour) ==
  \/ InPass /\ began < hour
  \/ doing = "asleep" /\ began < hour + Longest
  \/ /\ InPass /\ began < hour + Longest + Hour
     /\ \E i \in 1 .. Len(queue) : WillPay(p, hour, i)

PaidOrPending == \A p \in Projects : \A hour \in DailyHours :
  Owed(p, hour) => projects[p].last >= hour \/ Outstanding(p, hour)

SchedulerInv ==
  SchedulerTypeOK /\ Clock /\ RowInHand /\ TimesScanned /\ OnRecord /\ (PassesFit => PaidOrPending)

LEMMA HoursAre ==
  /\ DailyHours \subseteq Nat /\ Longest \in Nat /\ Hour \in Nat \ {0} /\ Outage \in Nat /\ Horizon \in Nat
  /\ MaxScanHistory \in Nat \ {0}
  <1> USE SchedulerAssumption
  <1>1. \A day \in Nat : day * DayTicks \in Nat
    BY DayTicksAre
  <1>2. DailyHours \subseteq Nat
    BY <1>1, DayTicksAre DEF DailyHours
  <1> QED BY <1>2

\* The projects and the counters, field by field.
LEMMA FieldsAre ==
  ASSUME SchedulerTypeOK
  PROVE  /\ now \in Nat /\ began \in Int /\ since \in Int /\ scanned \in Int
         /\ \A p \in Projects : projects[p].last \in Times /\ projects[p].set \in Times
         /\ \A p \in Projects : hindered[p] \in Times
         /\ \A p \in Projects : told[p] \in Times /\ history[p] \in Seq(Times)
         /\ Times \subseteq Int /\ \A t \in Times : t >= -1
         /\ \A w \in {"commands", "cuts", "fails"} : used[w] \in Nat
  BY HoursAre DEF SchedulerTypeOK, Times

\* What is left of the pass when a row has been dealt with.
LEMMA HeadIs ==
  ASSUME SchedulerTypeOK, queue # <<>>
  PROVE  /\ queue \in Seq(ScheduledRow) /\ Len(queue) \in Nat \ {0} /\ queue[1] = Head(queue)
         /\ Head(queue) \in ScheduledRow /\ InHand \in Projects /\ Head(queue).last \in Int
  <1>1. queue \in Seq(ScheduledRow)
    BY DEF SchedulerTypeOK, ScheduledRow
  <1>2. Len(queue) \in Nat \ {0} /\ queue[1] = Head(queue) /\ Head(queue) \in ScheduledRow
    BY <1>1, HeadTailProperties, EmptySeq
  <1> QED BY <1>1, <1>2, FieldsAre DEF ScheduledRow, InHand

LEMMA TailIs ==
  ASSUME SchedulerTypeOK, queue # <<>>, queue' = Tail(queue)
  PROVE  /\ queue' \in Seq(ScheduledRow) /\ Len(queue) \in Nat \ {0} /\ Len(queue') = Len(queue) - 1
         /\ \A i \in 1 .. Len(queue') : queue'[i] = queue[i + 1]
         /\ queue[1] = Head(queue) /\ Head(queue) \in ScheduledRow
  <1>1. queue \in Seq(ScheduledRow)
    BY HeadIs
  <1> QED BY <1>1, HeadIs, HeadTailProperties

LEMMA NewestIs ==
  ASSUME SchedulerTypeOK, NEW p \in Projects
  PROVE  Newest(p) \in Int /\ Newest(p) >= Never
  <1>1. history[p] \in Seq(Times)
    BY FieldsAre
  <1>2. history[p] # <<>> => Last(history[p]) \in Times
    BY <1>1 DEF Last
  <1> QED BY <1>2, FieldsAre DEF Newest, Never

LEMMA UseIs ==
  ASSUME SchedulerTypeOK, NEW w \in {"commands", "cuts", "fails"}, NEW bound, Use(w, bound)
  PROVE  /\ used' \in [{"commands", "cuts", "fails"} -> Nat] /\ used'[w] = used[w] + 1 /\ used'[w] # 0
         /\ \A v \in {"commands", "cuts", "fails"} \ {w} : used'[v] = used[v]
  BY DEF SchedulerTypeOK, Use

\* Until the next midnight the slot is the hour that has passed.
LEMMA SlotOfTheDay ==
  ASSUME PassesFit, NEW hour \in DailyHours, NEW t \in Nat, hour <= t, t < hour + 2 * Longest + Hour
  PROVE  DailySlot(t) = hour
  <1>1. PICK day \in Nat : hour = day * DayTicks + DailyHour * Hour
    BY DEF DailyHours
  <1>2. day * DayTicks <= t /\ t < day * DayTicks + DayTicks
    <2> DEFINE D == DayTicks
               h == DailyHour * Hour
               z == day * D
    <2>1. D \in Nat /\ h \in Nat /\ 2 * Longest + Hour + h <= D
      BY DayTicksAre
    <2>2. z \in Nat /\ hour = z + h
      BY <1>1, <2>1
    <2>3. z <= t /\ t < z + D
      <3> HIDE DEF D, h, z
      <3> QED BY <2>1, <2>2, HoursAre
    <2> QED BY <2>3
  <1>3. t \div DayTicks = day
    BY <1>2, QuotientIs, DayTicksAre
  <1> QED BY <1>1, <1>3 DEF DailySlot, Midnight

LEMMA SchedulerInitHolds == SchedulerInit => SchedulerInv
  <1> SUFFICES ASSUME SchedulerInit PROVE SchedulerInv
    OBVIOUS
  <1> USE HoursAre DEF SchedulerInit
  <1>1. SchedulerTypeOK
    BY DEF SchedulerTypeOK, Absent, Never, Times
  <1>2. Clock
    BY DEF Clock, Allowance
  <1>3. RowInHand /\ TimesScanned
    BY DEF RowInHand, TimesScanned, Absent, Never
  <1>4. OnRecord
    BY DEF OnRecord, CountedIsOnRecord, Registered, Absent, Never
  <1>5. PaidOrPending
    BY DEF PaidOrPending, Owed
  <1> QED BY <1>1, <1>2, <1>3, <1>4, <1>5 DEF SchedulerInv

LEMMA AddKeeps ==
  ASSUME SchedulerInv, NEW q \in Projects, NEW s \in {"daily", "weekly"}, AddProject(q, s)
  PROVE  SchedulerInv'
  <1> USE HoursAre DEF SchedulerInv, AddProject
  <1>a. /\ used' \in [{"commands", "cuts", "fails"} -> Nat] /\ used'["fails"] = used["fails"]
    BY UseIs
  <1>b. now \in Times
    BY DEF SchedulerTypeOK, Times
  <1>c. /\ projects' \in [Projects -> [schedule : {"none", "daily", "weekly"}, last : Times, set : Times]]
        /\ projects'[q].last = projects[q].last /\ projects'[q].set = now /\ projects'[q].schedule = s
        /\ \A p \in Projects \ {q} : projects'[p] = projects[p]
    BY <1>b DEF SchedulerTypeOK
  <1>d. \A p \in Projects : projects'[p].last = projects[p].last
    BY <1>c
  <1>1. SchedulerTypeOK'
    BY <1>a, <1>c DEF SchedulerTypeOK, Times, Never
  <1>2. Clock'
    BY DEF Clock, Allowance, SchedulerTypeOK, Times
  <1>3. RowInHand'
    BY DEF RowInHand
  <1>4. TimesScanned'
    BY <1>d DEF TimesScanned, SchedulerTypeOK, Times, Never
  <1>5. OnRecord'
    <2>1. \A p \in Projects : Newest(p)' = Newest(p)
      BY DEF Newest
    <2>2. \A p \in Projects : p # q => (p \in Registered' <=> p \in Registered)
      BY <1>c DEF Registered
    <2>3. \A p \in Projects : p \notin Registered => projects[p].last <= told[p] /\ projects[p].last <= Newest(p)
      BY NewestIs, FieldsAre DEF OnRecord, Never
    <2>4. CountedIsOnRecord'
      BY <1>d, <2>1, <2>3 DEF OnRecord, CountedIsOnRecord, Registered
    <2>5. \A p \in Projects \ Registered' : projects'[p].last = Never
      BY <1>c, <1>d, <2>2 DEF OnRecord, Registered
    <2>6. InHand' = InHand /\ Newest(InHand)' = Newest(InHand) /\ told' = told /\ scanned' = scanned /\ doing' = doing
      BY DEF Newest, InHand
    <2> QED BY <2>4, <2>5, <2>6 DEF OnRecord
  <1>6. (PassesFit => PaidOrPending)'
    <2> SUFFICES ASSUME PassesFit, NEW p \in Projects, NEW hour \in DailyHours, Owed(p, hour)'
                 PROVE  projects'[p].last >= hour \/ Outstanding(p, hour)'
      BY DEF PaidOrPending, DailyHours, PassesFit
    <2>0. hour \in Nat
      BY HoursAre
    <2>1. CASE p = q
      BY <1>c, <2>0, <2>1, FieldsAre DEF Owed
    <2>2. CASE p # q
      <3>1. Owed(p, hour)
        BY <1>a, <1>c, <2>2 DEF Owed
      <3>2. projects[p].last >= hour \/ Outstanding(p, hour)
        BY <3>1 DEF PaidOrPending
      <3> QED BY <1>c, <2>2, <3>2 DEF Outstanding, InPass, WillPay
    <2> QED BY <2>1, <2>2
  <1> QED BY <1>1, <1>2, <1>3, <1>4, <1>5, <1>6 DEF SchedulerInv

LEMMA RemoveKeeps ==
  ASSUME SchedulerInv, NEW q \in Projects, RemoveProject(q)
  PROVE  SchedulerInv'
  <1> USE HoursAre DEF SchedulerInv, RemoveProject
  <1>a. /\ used' \in [{"commands", "cuts", "fails"} -> Nat] /\ used'["fails"] = used["fails"]
    BY UseIs
  <1>c. /\ projects' \in [Projects -> [schedule : {"none", "daily", "weekly"}, last : Times, set : Times]]
        /\ projects'[q].last = Never /\ projects'[q].schedule = "none"
        /\ \A p \in Projects \ {q} : projects'[p] = projects[p]
    BY DEF SchedulerTypeOK, Absent, Never, Times
  <1>1. SchedulerTypeOK'
    BY <1>a, <1>c DEF SchedulerTypeOK, Times, Never
  <1>2. Clock'
    BY DEF Clock, Allowance, SchedulerTypeOK, Times
  <1>3. RowInHand'
    BY DEF RowInHand
  <1>4. TimesScanned'
    <2>1. now \in Nat /\ now' = now /\ Never < now /\ scanned \in Int
      BY FieldsAre DEF Never
    <2>2. \A p \in Projects : projects'[p].last = Never \/ projects'[p].last = projects[p].last
      BY <1>c
    <2> QED BY <2>1, <2>2 DEF TimesScanned, Never
  <1>5. OnRecord'
    BY <1>c, FieldsAre DEF OnRecord, CountedIsOnRecord, Registered, Newest, Never, InHand
  <1>6. (PassesFit => PaidOrPending)'
    <2> SUFFICES ASSUME PassesFit, NEW p \in Projects, NEW hour \in DailyHours, Owed(p, hour)'
                 PROVE  projects'[p].last >= hour \/ Outstanding(p, hour)'
      BY DEF PaidOrPending, DailyHours, PassesFit
    <2>0. hour \in Nat
      BY HoursAre
    <2>1. CASE p = q
      BY <1>c, <2>1 DEF Owed
    <2>2. CASE p # q
      <3>1. Owed(p, hour)
        BY <1>a, <1>c, <2>2 DEF Owed
      <3>2. projects[p].last >= hour \/ Outstanding(p, hour)
        BY <3>1 DEF PaidOrPending
      <3> QED BY <1>c, <2>2, <3>2 DEF Outstanding, InPass, WillPay
    <2> QED BY <2>1, <2>2
  <1> QED BY <1>1, <1>2, <1>3, <1>4, <1>5, <1>6 DEF SchedulerInv

LEMMA ListKeeps ==
  ASSUME SchedulerInv, NEW first \in BOOLEAN, List(first), first => doing = "down", ~first => doing = "asleep" /\ now = began + Hour
  PROVE  SchedulerInv'
  <1> USE HoursAre DEF SchedulerInv, List
  <1>a. /\ queue' \in Seq(ScheduledRow)
        /\ \A p \in Registered : \E i \in 1 .. Len(queue') : queue'[i] = Row(p)
    BY ListedAre
  <1>1. SchedulerTypeOK'
    BY <1>a DEF ScheduledRow, SchedulerTypeOK, Times, Never
  <1>2. Clock'
    BY DEF Clock, Allowance, SchedulerTypeOK, Times
  <1>3. RowInHand'
    BY DEF RowInHand
  <1>4. TimesScanned'
    BY FieldsAre DEF TimesScanned, Never
  <1>5. OnRecord'
    BY DEF OnRecord, CountedIsOnRecord, Registered, Newest, Never, InHand
  <1>6. (PassesFit => PaidOrPending)'
    <2> SUFFICES ASSUME PassesFit, NEW p \in Projects, NEW hour \in DailyHours, Owed(p, hour)'
                 PROVE  projects'[p].last >= hour \/ Outstanding(p, hour)'
      BY DEF PaidOrPending, DailyHours, PassesFit
    <2>0. hour \in Nat
      BY HoursAre
    <2>1. /\ doing' = "next" /\ began' = now /\ hour <= now /\ projects[p].schedule = "daily"
          /\ projects[p].set < hour /\ since' < hour /\ hindered[p] < hour
      BY DEF Owed
    <2>2. ~first /\ since' = since
      BY <2>1, FieldsAre
    <2>3. projects[p].last >= hour \/ Outstanding(p, hour)
      BY <2>1, <2>2 DEF PaidOrPending, Owed
    <2>4. CASE projects[p].last < hour
      <3>1. began < hour + Longest
        BY <2>2, <2>3, <2>4, FieldsAre DEF Outstanding, InPass
      <3>2. now < hour + Longest + Hour
        <4>1. now = began + Hour /\ began \in Int /\ Longest \in Nat /\ Hour \in Nat
          BY <2>2, FieldsAre
        <4> QED BY ONLY <2>0, <3>1, <4>1
      <3>3. PICK i \in 1 .. Len(queue') : queue'[i] = Row(p)
        BY <1>a, <2>1 DEF Registered
      <3>4. WillPay(p, hour, i)'
        BY <2>1, <2>4, <3>3 DEF WillPay, Row
      <3> QED BY <2>1, <3>2, <3>4 DEF Outstanding, InPass
    <2> QED BY <2>4, FieldsAre
  <1> QED BY <1>1, <1>2, <1>3, <1>4, <1>5, <1>6 DEF SchedulerInv

LEMMA SkipKeeps ==
  ASSUME SchedulerInv, Skip
  PROVE  SchedulerInv'
  <1> USE HoursAre DEF SchedulerInv, Skip, Stay, Use
  <1>t. /\ queue' \in Seq(ScheduledRow) /\ Len(queue) \in Nat \ {0} /\ Len(queue') = Len(queue) - 1
        /\ \A i \in 1 .. Len(queue') : queue'[i] = queue[i + 1]
        /\ queue[1] = Head(queue) /\ Head(queue) \in ScheduledRow
    BY TailIs DEF RowInHand
  <1>1. SchedulerTypeOK'
    BY <1>t DEF ScheduledRow, SchedulerTypeOK, Times, Never
  <1>2. Clock'
    BY DEF Clock, Allowance, SchedulerTypeOK, Times
  <1>3. RowInHand'
    BY DEF RowInHand
  <1>4. TimesScanned'
    BY FieldsAre DEF TimesScanned, Never
  <1>5. OnRecord'
    BY DEF OnRecord, CountedIsOnRecord, Registered, Newest, Never, InHand
  <1>6. (PassesFit => PaidOrPending)'
    <2> SUFFICES ASSUME PassesFit, NEW p \in Projects, NEW hour \in DailyHours, Owed(p, hour)'
                 PROVE  projects'[p].last >= hour \/ Outstanding(p, hour)'
      BY DEF PaidOrPending, DailyHours, PassesFit
    <2>0. hour \in Nat
      BY HoursAre
    <2>1. /\ Owed(p, hour) /\ InPass /\ doing' = "next" /\ began' = began /\ projects'[p].last = projects[p].last
      BY <1>t DEF Owed, InPass
    <2>2. projects[p].last >= hour \/ Outstanding(p, hour)
      BY <2>1 DEF PaidOrPending
    <2>3. CASE Outstanding(p, hour) /\ ~(began < hour)
      <3>1. began < hour + Longest + Hour /\ \E i \in 1 .. Len(queue) : WillPay(p, hour, i)
        BY <2>1, <2>3 DEF Outstanding, InPass
      <3>2. PICK i \in 1 .. Len(queue) : WillPay(p, hour, i)
        BY <3>1
      <3>3. i # 1
        <4> SUFFICES ASSUME i = 1 PROVE FALSE
          OBVIOUS
        <4>1. queue[1].schedule = "daily" /\ queue[1].last < hour /\ ~IsDue(queue[1], now)
          BY <1>t, <3>2 DEF WillPay
        <4>2. now < hour + 2 * Longest + Hour /\ hour <= now
          BY <2>1, <3>1, FieldsAre DEF Clock, Allowance, InPass, Owed
        <4>3. DailySlot(now) = hour
          BY <4>2, SlotOfTheDay, FieldsAre
        <4> QED BY <4>1, <4>2, <4>3 DEF IsDue, Slot
      <3>4. i - 1 \in 1 .. Len(queue') /\ queue'[i - 1] = queue[i]
        BY <1>t, <3>3
      <3>5. WillPay(p, hour, i - 1)'
        BY <2>1, <3>2, <3>4 DEF WillPay
      <3> QED BY <2>1, <3>1, <3>4, <3>5 DEF Outstanding, InPass
    <2> QED BY <2>1, <2>2, <2>3 DEF Outstanding, InPass
  <1> QED BY <1>1, <1>2, <1>3, <1>4, <1>5, <1>6 DEF SchedulerInv

LEMMA BeginScanKeeps ==
  ASSUME SchedulerInv, BeginScan
  PROVE  SchedulerInv'
  <1> USE HoursAre DEF SchedulerInv, BeginScan, Stay, Use
  <1>1. SchedulerTypeOK'
    BY DEF SchedulerTypeOK, Times, Never
  <1>2. Clock'
    BY DEF Clock, Allowance, SchedulerTypeOK, Times
  <1>3. RowInHand'
    BY DEF RowInHand, IsDue, DueWith
  <1>4. TimesScanned'
    BY FieldsAre DEF TimesScanned, Never
  <1>5. OnRecord'
    BY DEF OnRecord, CountedIsOnRecord, Registered, Newest, Never, InHand
  <1>6. (PassesFit => PaidOrPending)'
    <2> SUFFICES ASSUME PassesFit, NEW p \in Projects, NEW hour \in DailyHours, Owed(p, hour)'
                 PROVE  projects'[p].last >= hour \/ Outstanding(p, hour)'
      BY DEF PaidOrPending, DailyHours, PassesFit
    <2> QED BY DEF Outstanding, WillPay, InPass, Owed, PaidOrPending
  <1> QED BY <1>1, <1>2, <1>3, <1>4, <1>5, <1>6 DEF SchedulerInv

LEMMA FailKeeps ==
  ASSUME SchedulerInv, Fail
  PROVE  SchedulerInv'
  <1> USE HoursAre DEF SchedulerInv, Fail, Stay
  <1>q. queue # <<>> /\ InHand \in Projects
    BY HeadIs DEF RowInHand
  <1>t. /\ queue' \in Seq(ScheduledRow) /\ Len(queue) \in Nat \ {0} /\ Len(queue') = Len(queue) - 1
        /\ \A i \in 1 .. Len(queue') : queue'[i] = queue[i + 1]
        /\ queue[1] = Head(queue) /\ Head(queue) \in ScheduledRow
    BY TailIs DEF RowInHand
  <1>u. used' \in [{"commands", "cuts", "fails"} -> Nat]
    BY UseIs
  <1>v. now \in Times /\ now \in Nat
    BY FieldsAre DEF SchedulerTypeOK, Times
  <1>w. /\ hindered' \in [Projects -> Times] /\ hindered'[InHand] = now
        /\ \A p \in Projects \ {InHand} : hindered'[p] = hindered[p]
    BY <1>q, <1>v DEF SchedulerTypeOK
  <1>1. SchedulerTypeOK'
    BY <1>t, <1>u, <1>w DEF ScheduledRow, SchedulerTypeOK, Times, Never
  <1>2. Clock'
    BY DEF Clock, Allowance, SchedulerTypeOK, Times
  <1>3. RowInHand'
    BY DEF RowInHand
  <1>4. TimesScanned'
    BY FieldsAre DEF TimesScanned, Never
  <1>5. OnRecord'
    BY DEF OnRecord, CountedIsOnRecord, Registered, Newest, Never, InHand
  <1>6. (PassesFit => PaidOrPending)'
    <2> SUFFICES ASSUME PassesFit, NEW p \in Projects, NEW hour \in DailyHours, Owed(p, hour)'
                 PROVE  projects'[p].last >= hour \/ Outstanding(p, hour)'
      BY DEF PaidOrPending, DailyHours, PassesFit
    <2>0. hour \in Nat
      BY HoursAre
    <2>a. p # InHand
      <3> SUFFICES ASSUME p = InHand PROVE FALSE
        OBVIOUS
      <3>1. now < hour /\ hour <= now
        BY <1>w DEF Owed
      <3> QED BY <1>v, <2>0, <3>1
    <2>1. /\ Owed(p, hour) /\ InPass /\ doing' = "next" /\ began' = began /\ projects'[p].last = projects[p].last
      BY <1>t, <1>w, <2>a DEF Owed, InPass
    <2>2. projects[p].last >= hour \/ Outstanding(p, hour)
      BY <2>1 DEF PaidOrPending
    <2>3. CASE Outstanding(p, hour) /\ ~(began < hour)
      <3>1. began < hour + Longest + Hour /\ \E i \in 1 .. Len(queue) : WillPay(p, hour, i)
        BY <2>1, <2>3 DEF Outstanding, InPass
      <3>2. PICK i \in 1 .. Len(queue) : WillPay(p, hour, i)
        BY <3>1
      <3>3. i # 1
        BY <1>t, <2>a, <3>2 DEF WillPay, InHand
      <3>4. i - 1 \in 1 .. Len(queue') /\ queue'[i - 1] = queue[i]
        BY <1>t, <3>3
      <3>5. WillPay(p, hour, i - 1)'
        BY <2>1, <3>2, <3>4 DEF WillPay
      <3> QED BY <2>1, <3>1, <3>4, <3>5 DEF Outstanding, InPass
    <2> QED BY <2>1, <2>2, <2>3 DEF Outstanding, InPass
  <1> QED BY <1>1, <1>2, <1>3, <1>4, <1>5, <1>6 DEF SchedulerInv

LEMMA AbandonKeeps ==
  ASSUME SchedulerInv, Abandon
  PROVE  SchedulerInv'
  <1> USE HoursAre DEF SchedulerInv, Abandon
  <1>u. used' \in [{"commands", "cuts", "fails"} -> Nat]
    BY UseIs
  <1>v. now \in Times /\ now \in Nat
    BY FieldsAre DEF SchedulerTypeOK, Times
  <1>w. /\ hindered' \in [Projects -> Times]
        /\ \A p \in Projects : hindered'[p] = IF InQueue(p) THEN now ELSE hindered[p]
    BY <1>v DEF SchedulerTypeOK
  <1>x. queue' \in Seq(ScheduledRow) /\ queue' = <<>> /\ queue \in Seq(ScheduledRow)
    BY DEF SchedulerTypeOK, ScheduledRow
  <1>1. SchedulerTypeOK'
    <2>1. queue' \in Seq([project : Projects, schedule : {"daily", "weekly"}, last : Times])
      BY <1>x DEF ScheduledRow
    <2>2. scanned' \in Times /\ began' \in Times /\ now' = now /\ doing' = "asleep"
      BY <1>v, HoursAre DEF Times, Never
    <2> QED BY <1>u, <1>w, <2>1, <2>2 DEF SchedulerTypeOK
  <1>2. Clock'
    BY DEF Clock, Allowance, SchedulerTypeOK, Times
  <1>3. RowInHand'
    BY DEF RowInHand
  <1>4. TimesScanned'
    BY FieldsAre DEF TimesScanned, Never
  <1>5. OnRecord'
    BY DEF OnRecord, CountedIsOnRecord, Registered, Newest, Never, InHand
  <1>6. (PassesFit => PaidOrPending)'
    <2> SUFFICES ASSUME PassesFit, NEW p \in Projects, NEW hour \in DailyHours, Owed(p, hour)'
                 PROVE  projects'[p].last >= hour \/ Outstanding(p, hour)'
      BY DEF PaidOrPending, DailyHours, PassesFit
    <2>0. hour \in Nat
      BY HoursAre
    <2>a. ~InQueue(p)
      <3> SUFFICES ASSUME InQueue(p) PROVE FALSE
        OBVIOUS
      <3>1. now < hour /\ hour <= now
        BY <1>w DEF Owed
      <3> QED BY <1>v, <2>0, <3>1
    <2>1. Owed(p, hour) /\ InPass /\ doing' = "asleep" /\ began' = now
      BY <1>w, <2>a DEF Owed, InPass
    <2>2. projects[p].last >= hour \/ Outstanding(p, hour)
      BY <2>1 DEF PaidOrPending
    <2>3. \A i \in 1 .. Len(queue) : ~WillPay(p, hour, i)
      BY <1>x, <2>a DEF WillPay, InQueue
    <2>4. CASE began < hour
      <3>1. now <= began + Longest /\ began \in Int /\ Longest \in Nat
        BY <2>1, FieldsAre DEF Clock, Allowance, InPass
      <3>2. now < hour + Longest
        BY ONLY <1>v, <2>0, <2>4, <3>1
      <3> QED BY <2>1, <3>2 DEF Outstanding
    <2> QED BY <2>1, <2>2, <2>3, <2>4 DEF Outstanding, InPass
  <1> QED BY <1>1, <1>2, <1>3, <1>4, <1>5, <1>6 DEF SchedulerInv

LEMMA ScannedKeeps ==
  ASSUME SchedulerInv, Scanned
  PROVE  SchedulerInv'
  <1> USE HoursAre DEF SchedulerInv, Scanned, Stay, Use
  <1>1. SchedulerTypeOK'
    BY DEF SchedulerTypeOK, Times, Never
  <1>2. Clock'
    BY DEF Clock, Allowance, SchedulerTypeOK, Times
  <1>3. RowInHand'
    BY DEF RowInHand
  <1>4. TimesScanned'
    BY FieldsAre DEF TimesScanned, Never
  <1>5. OnRecord'
    BY DEF OnRecord, CountedIsOnRecord, Registered, Newest, Never, InHand
  <1>6. (PassesFit => PaidOrPending)'
    <2> SUFFICES ASSUME PassesFit, NEW p \in Projects, NEW hour \in DailyHours, Owed(p, hour)'
                 PROVE  projects'[p].last >= hour \/ Outstanding(p, hour)'
      BY DEF PaidOrPending, DailyHours, PassesFit
    <2> QED BY DEF Outstanding, WillPay, InPass, Owed, PaidOrPending
  <1> QED BY <1>1, <1>2, <1>3, <1>4, <1>5, <1>6 DEF SchedulerInv

LEMMA SaveKeeps ==
  ASSUME SchedulerInv, Save
  PROVE  SchedulerInv'
  <1> USE HoursAre DEF SchedulerInv, Save
  <1>q. queue # <<>> /\ InHand \in Projects
    BY HeadIs DEF RowInHand
  <1>a. now \in Times
    BY DEF SchedulerTypeOK, Times
  <1>b. /\ history' \in [Projects -> Seq(Times)]
        /\ ~PluginStores => history'[InHand] # <<>> /\ Last(history'[InHand]) = now
        /\ \A p \in Projects \ {InHand} : history'[p] = history[p]
        /\ PluginStores => history' = history
    <2>1. CASE PluginStores
      BY <2>1 DEF SchedulerTypeOK
    <2>2. CASE ~PluginStores
      <3> DEFINE h == Append(history[InHand], now)
      <3>1. h \in Seq(Times) /\ h # <<>> /\ Last(h) = now
        <4>1. history[InHand] \in Seq(Times)
          BY <1>q, FieldsAre
        <4>2. Len(h) = Len(history[InHand]) + 1 /\ h[Len(history[InHand]) + 1] = now /\ h \in Seq(Times) /\ h # <<>>
          BY <1>a, <4>1, AppendProperties
        <4> QED BY <4>2 DEF Last
      <3>2. history' = [history EXCEPT ![InHand] = h]
        BY <2>2
      <3> HIDE DEF h
      <3> QED BY <1>q, <2>2, <3>1, <3>2 DEF SchedulerTypeOK
    <2> QED BY <2>1, <2>2
  <1>c. \A p \in Projects : projects[p].last \in Int /\ projects[p].last <= scanned /\ scanned <= now
    BY FieldsAre DEF TimesScanned
  <1>d. InHand' = InHand
    BY DEF InHand
  <1>1. SchedulerTypeOK'
    BY <1>b DEF SchedulerTypeOK, Times, Never
  <1>2. Clock'
    BY DEF Clock, Allowance, SchedulerTypeOK, Times
  <1>3. RowInHand'
    BY DEF RowInHand
  <1>4. TimesScanned'
    BY FieldsAre DEF TimesScanned, Never
  <1>5. OnRecord'
    <2>1. CountedIsOnRecord'
      <3>1. \A p \in Registered : projects[p].last <= told[p] /\ (~PluginStores => projects[p].last <= Newest(p))
        BY DEF OnRecord, CountedIsOnRecord
      <3>2. \A p \in Registered : ~PluginStores => projects[p].last <= Newest(p)'
        <4> SUFFICES ASSUME NEW p \in Registered, ~PluginStores PROVE projects[p].last <= Newest(p)'
          OBVIOUS
        <4>1. CASE p = InHand
          BY <1>b, <1>c, <1>q, <4>1, FieldsAre DEF Newest
        <4>2. CASE p # InHand
          BY <1>b, <3>1, <4>2 DEF Newest, Registered
        <4> QED BY <4>1, <4>2
      <3> QED BY <3>1, <3>2 DEF CountedIsOnRecord, Registered
    <2>2. (doing' \in {"saved", "fired"} /\ ~PluginStores) => scanned' <= Newest(InHand)'
      BY <1>b, <1>c, <1>d, <1>q DEF Newest
    <2> QED BY <2>1, <2>2 DEF OnRecord, Registered
  <1>6. (PassesFit => PaidOrPending)'
    <2> SUFFICES ASSUME PassesFit, NEW p \in Projects, NEW hour \in DailyHours, Owed(p, hour)'
                 PROVE  projects'[p].last >= hour \/ Outstanding(p, hour)'
      BY DEF PaidOrPending, DailyHours, PassesFit
    <2> QED BY DEF Outstanding, WillPay, InPass, Owed, PaidOrPending
  <1> QED BY <1>1, <1>2, <1>3, <1>4, <1>5, <1>6 DEF SchedulerInv

LEMMA FireKeeps ==
  ASSUME SchedulerInv, Fire
  PROVE  SchedulerInv'
  <1> USE HoursAre DEF SchedulerInv, Fire
  <1>q. queue # <<>> /\ InHand \in Projects
    BY HeadIs DEF RowInHand
  <1>b. told' \in [Projects -> Times] /\ told'[InHand] = scanned /\ \A p \in Projects \ {InHand} : told'[p] = told[p]
    BY <1>q DEF SchedulerTypeOK
  <1>c. \A p \in Projects : projects[p].last \in Int /\ projects[p].last <= scanned /\ scanned <= now
    BY FieldsAre DEF TimesScanned
  <1>d. InHand' = InHand
    BY DEF InHand
  <1>1. SchedulerTypeOK'
    BY <1>b DEF SchedulerTypeOK, Times, Never
  <1>2. Clock'
    BY DEF Clock, Allowance, SchedulerTypeOK, Times
  <1>3. RowInHand'
    BY DEF RowInHand
  <1>4. TimesScanned'
    BY FieldsAre DEF TimesScanned, Never
  <1>5. OnRecord'
    <2>1. CountedIsOnRecord'
      BY <1>b, <1>c DEF OnRecord, CountedIsOnRecord, Registered, Newest
    <2>2. (doing' \in {"saved", "fired"} /\ ~PluginStores) => scanned' <= Newest(InHand)'
      BY <1>d DEF OnRecord, Newest
    <2>3. scanned' <= told'[InHand']
      BY <1>b, <1>d, FieldsAre
    <2> QED BY <2>1, <2>2, <2>3 DEF OnRecord, Registered, InHand
  <1>6. (PassesFit => PaidOrPending)'
    <2> SUFFICES ASSUME PassesFit, NEW p \in Projects, NEW hour \in DailyHours, Owed(p, hour)'
                 PROVE  projects'[p].last >= hour \/ Outstanding(p, hour)'
      BY DEF PaidOrPending, DailyHours, PassesFit
    <2> QED BY DEF Outstanding, WillPay, InPass, Owed, PaidOrPending
  <1> QED BY <1>1, <1>2, <1>3, <1>4, <1>5, <1>6 DEF SchedulerInv

LEMMA MarkKeeps ==
  ASSUME SchedulerInv, Mark
  PROVE  SchedulerInv'
  <1> USE HoursAre DEF SchedulerInv, Mark, Marked
  <1>q. queue # <<>> /\ InHand \in Projects
    BY HeadIs DEF RowInHand
  <1>a. scanned \in Times /\ scanned \in Int /\ scanned <= now /\ \A p \in Projects : projects[p].last \in Int /\ projects[p].last <= scanned
    BY FieldsAre DEF TimesScanned, SchedulerTypeOK
  <1>b. /\ projects' \in [Projects -> [schedule : {"none", "daily", "weekly"}, last : Times, set : Times]]
        /\ \A p \in Projects : projects'[p].schedule = projects[p].schedule /\ projects'[p].set = projects[p].set
        /\ \A p \in Projects : projects'[p].last = IF p = InHand /\ p \in Registered THEN scanned ELSE projects[p].last
    BY <1>a, <1>q DEF SchedulerTypeOK, Registered
  <1>c. Registered' = Registered
    BY <1>b DEF Registered
  <1>d. \A p \in Projects : projects'[p].last \in Int /\ projects[p].last <= projects'[p].last /\ projects'[p].last <= scanned
    BY <1>a, <1>b
  <1>1. SchedulerTypeOK'
    BY <1>b DEF SchedulerTypeOK, Times, Never
  <1>2. Clock'
    BY DEF Clock, Allowance, SchedulerTypeOK, Times
  <1>3. RowInHand'
    BY DEF RowInHand
  <1>4. TimesScanned'
    BY <1>a, <1>d DEF TimesScanned
  <1>5. OnRecord'
    <2>1. CountedIsOnRecord'
      BY <1>b, <1>c DEF OnRecord, CountedIsOnRecord, Newest
    <2> QED BY <1>b, <1>c, <2>1 DEF OnRecord
  <1>6. (PassesFit => PaidOrPending)'
    <2> SUFFICES ASSUME PassesFit, NEW p \in Projects, NEW hour \in DailyHours, Owed(p, hour)'
                 PROVE  projects'[p].last >= hour \/ Outstanding(p, hour)'
      BY DEF PaidOrPending, DailyHours, PassesFit
    <2>0. hour \in Nat
      BY HoursAre
    <2>1. Owed(p, hour) /\ InPass /\ InPass' /\ doing' = "marked"
      BY <1>b DEF Owed, InPass
    <2>2. projects[p].last >= hour \/ Outstanding(p, hour)
      BY <2>1 DEF PaidOrPending
    <2>3. CASE Outstanding(p, hour) /\ ~(began < hour)
      <3>1. began < hour + Longest + Hour /\ \E i \in 1 .. Len(queue) : WillPay(p, hour, i)
        BY <2>1, <2>3 DEF Outstanding, InPass
      <3>2. PICK i \in 1 .. Len(queue) : WillPay(p, hour, i)
        BY <3>1
      <3>3. CASE i = 1
        <4>1. p = InHand /\ scanned >= hour
          BY <1>q, <3>2, <3>3 DEF WillPay, InHand, SchedulerTypeOK
        <4> QED BY <1>b, <2>1, <4>1 DEF Registered, Owed
      <3>4. CASE i # 1
        <4>1. WillPay(p, hour, i)'
          BY <3>2, <3>4 DEF WillPay
        <4> QED BY <2>1, <3>1, <4>1 DEF Outstanding
      <3> QED BY <3>3, <3>4
    <2>4. CASE began < hour
      BY <2>1, <2>4 DEF Outstanding
    <2>5. CASE projects[p].last >= hour
      BY <1>a, <1>d, <2>5
    <2> QED BY <2>1, <2>2, <2>3, <2>4, <2>5
  <1> QED BY <1>1, <1>2, <1>3, <1>4, <1>5, <1>6 DEF SchedulerInv

LEMMA PruneKeeps ==
  ASSUME SchedulerInv, Prune
  PROVE  SchedulerInv'
  <1> USE HoursAre DEF SchedulerInv, Prune
  <1>q. queue # <<>> /\ InHand \in Projects
    BY HeadIs DEF RowInHand
  <1>t. /\ queue' \in Seq(ScheduledRow) /\ Len(queue) \in Nat \ {0} /\ Len(queue') = Len(queue) - 1
        /\ \A i \in 1 .. Len(queue') : queue'[i] = queue[i + 1]
        /\ queue[1] = Head(queue) /\ Head(queue) \in ScheduledRow
    BY TailIs DEF RowInHand
  <1>b. /\ history' \in [Projects -> Seq(Times)]
        /\ \A p \in Projects : history'[p] = <<>> <=> history[p] = <<>>
        /\ \A p \in Projects : history[p] # <<>> => Last(history'[p]) = Last(history[p])
    <2>1. CASE PluginStores \/ Len(history[InHand]) <= MaxScanHistory
      BY <2>1 DEF SchedulerTypeOK
    <2>2. CASE ~(PluginStores \/ Len(history[InHand]) <= MaxScanHistory)
      <3>1. history[InHand] \in Seq(Times) /\ Len(history[InHand]) \in Nat /\ Len(history[InHand]) > MaxScanHistory
        BY <1>q, <2>2, FieldsAre
      <3>2. /\ KeptRecords(history[InHand]) \in Seq(Times) /\ KeptRecords(history[InHand]) # <<>>
            /\ Last(KeptRecords(history[InHand])) = Last(history[InHand])
        BY <3>1, KeptAre
      <3>3. history[InHand] # <<>>
        BY <3>1
      <3>4. history' = [history EXCEPT ![InHand] = KeptRecords(history[InHand])]
        BY <2>2
      <3> QED BY <1>q, <3>2, <3>3, <3>4 DEF SchedulerTypeOK
    <2> QED BY <2>1, <2>2
  <1>c. \A p \in Projects : Newest(p)' = Newest(p)
    BY <1>b DEF Newest
  <1>1. SchedulerTypeOK'
    <2>1. Never \in Times
      BY HoursAre DEF Never, Times
    <2> QED BY <1>b, <1>t, <2>1 DEF ScheduledRow, SchedulerTypeOK
  <1>2. Clock'
    BY DEF Clock, Allowance, SchedulerTypeOK, Times
  <1>3. RowInHand'
    BY DEF RowInHand
  <1>4. TimesScanned'
    BY FieldsAre DEF TimesScanned, Never
  <1>5. OnRecord'
    <2>1. CountedIsOnRecord'
      BY <1>c DEF OnRecord, CountedIsOnRecord, Registered
    <2> QED BY <2>1 DEF OnRecord, Registered
  <1>6. (PassesFit => PaidOrPending)'
    <2> SUFFICES ASSUME PassesFit, NEW p \in Projects, NEW hour \in DailyHours, Owed(p, hour)'
                 PROVE  projects'[p].last >= hour \/ Outstanding(p, hour)'
      BY DEF PaidOrPending, DailyHours, PassesFit
    <2>0. hour \in Nat
      BY HoursAre
    <2>1. /\ Owed(p, hour) /\ InPass /\ doing' = "next" /\ began' = began /\ projects'[p].last = projects[p].last
      BY <1>t DEF Owed, InPass
    <2>2. projects[p].last >= hour \/ Outstanding(p, hour)
      BY <2>1 DEF PaidOrPending
    <2>3. CASE Outstanding(p, hour) /\ ~(began < hour)
      <3>1. began < hour + Longest + Hour /\ \E i \in 1 .. Len(queue) : WillPay(p, hour, i)
        BY <2>1, <2>3 DEF Outstanding, InPass
      <3>2. PICK i \in 1 .. Len(queue) : WillPay(p, hour, i)
        BY <3>1
      <3>3. i # 1
        BY <3>2 DEF WillPay
      <3>4. i - 1 \in 1 .. Len(queue') /\ queue'[i - 1] = queue[i]
        BY <1>t, <3>3
      <3>5. WillPay(p, hour, i - 1)'
        BY <2>1, <3>2, <3>4 DEF WillPay
      <3> QED BY <2>1, <3>1, <3>4, <3>5 DEF Outstanding, InPass
    <2> QED BY <2>1, <2>2, <2>3 DEF Outstanding, InPass
  <1> QED BY <1>1, <1>2, <1>3, <1>4, <1>5, <1>6 DEF SchedulerInv

LEMMA SleepKeeps ==
  ASSUME SchedulerInv, Sleep
  PROVE  SchedulerInv'
  <1> USE HoursAre DEF SchedulerInv, Sleep, Stay, Use
  <1>1. SchedulerTypeOK'
    BY DEF SchedulerTypeOK, Times, Never
  <1>2. Clock'
    BY DEF Clock, Allowance, SchedulerTypeOK, Times
  <1>3. RowInHand'
    BY DEF RowInHand
  <1>4. TimesScanned'
    BY FieldsAre DEF TimesScanned, Never
  <1>5. OnRecord'
    BY DEF OnRecord, CountedIsOnRecord, Registered, Newest, Never, InHand
  <1>6. (PassesFit => PaidOrPending)'
    <2> SUFFICES ASSUME PassesFit, NEW p \in Projects, NEW hour \in DailyHours, Owed(p, hour)'
                 PROVE  projects'[p].last >= hour \/ Outstanding(p, hour)'
      BY DEF PaidOrPending, DailyHours, PassesFit
    <2> QED BY FieldsAre DEF Clock, Allowance, Outstanding, WillPay, InPass, Owed, PaidOrPending
  <1> QED BY <1>1, <1>2, <1>3, <1>4, <1>5, <1>6 DEF SchedulerInv

LEMMA CrashKeeps ==
  ASSUME SchedulerInv, Crash
  PROVE  SchedulerInv'
  <1> USE HoursAre DEF SchedulerInv, Crash
  <1>a. /\ used' \in [{"commands", "cuts", "fails"} -> Nat] /\ used'["fails"] = used["fails"]
    BY UseIs
  <1>1. SchedulerTypeOK'
    BY <1>a DEF SchedulerTypeOK, Times, Never
  <1>2. Clock'
    BY DEF Clock, Allowance, SchedulerTypeOK, Times
  <1>3. RowInHand'
    BY DEF RowInHand
  <1>4. TimesScanned'
    BY FieldsAre DEF TimesScanned, Never
  <1>5. OnRecord'
    BY DEF OnRecord, CountedIsOnRecord, Registered, Newest, Never, InHand
  <1>6. (PassesFit => PaidOrPending)'
    <2> SUFFICES ASSUME PassesFit, NEW p \in Projects, NEW hour \in DailyHours, Owed(p, hour)'
                 PROVE  projects'[p].last >= hour \/ Outstanding(p, hour)'
      BY DEF PaidOrPending, DailyHours, PassesFit
    <2> QED BY DEF Outstanding, WillPay, InPass, Owed, PaidOrPending
  <1> QED BY <1>1, <1>2, <1>3, <1>4, <1>5, <1>6 DEF SchedulerInv

LEMMA TickKeeps ==
  ASSUME SchedulerInv, Tick
  PROVE  SchedulerInv'
  <1> USE HoursAre DEF SchedulerInv, Tick, Stay, Use
  <1>a. now \in Nat /\ now' \in Nat /\ now < now' /\ scanned \in Int
    BY FieldsAre
  <1>1. SchedulerTypeOK'
    BY DEF SchedulerTypeOK, Times, Never
  <1>2. Clock'
    BY DEF Clock, Allowance, SchedulerTypeOK, Times
  <1>3. RowInHand'
    <2> SUFFICES ASSUME doing = "scanning" PROVE DueWith(Head(queue), now')
      BY DEF RowInHand
    <2>1. DueWith(Head(queue), now) /\ queue # <<>>
      BY DEF RowInHand
    <2>2. Head(queue).last \in Int
      BY <2>1, HeadIs
    <2>3. /\ Slot(Head(queue).schedule, now) \in Int /\ Slot(Head(queue).schedule, now') \in Int
          /\ Slot(Head(queue).schedule, now) <= Slot(Head(queue).schedule, now')
      BY <1>a, SlotsAdvance
    <2> QED BY <2>1, <2>2, <2>3 DEF DueWith
  <1>4. TimesScanned'
    <2>1. \A p \in Projects : projects[p].last \in Int
      BY FieldsAre
    <2>2. projects' = projects /\ doing' = doing /\ scanned' = scanned
      OBVIOUS
    <2> QED BY <1>a, <2>1, <2>2 DEF TimesScanned
  <1>5. OnRecord'
    BY DEF OnRecord, CountedIsOnRecord, Registered, Newest, Never, InHand
  <1>6. (PassesFit => PaidOrPending)'
    <2> SUFFICES ASSUME PassesFit, NEW p \in Projects, NEW hour \in DailyHours, Owed(p, hour)'
                 PROVE  projects'[p].last >= hour \/ Outstanding(p, hour)'
      BY DEF PaidOrPending, DailyHours, PassesFit
    <2>0. hour \in Nat
      BY HoursAre
    <2>1. /\ doing # "down" /\ hindered[p] < hour /\ projects[p].schedule = "daily"
          /\ since < hour /\ projects[p].set < hour /\ hour <= now + 1
      BY DEF Owed
    <2>2. CASE hour <= now
      <3>1. projects[p].last >= hour \/ Outstanding(p, hour)
        BY <2>1, <2>2 DEF PaidOrPending, Owed
      <3> QED BY <3>1 DEF Outstanding, InPass, WillPay
    <2>3. CASE now < hour
      <3>1. began \in Int /\ began < hour /\ began < hour + Longest
        BY <2>0, <2>3, FieldsAre DEF Clock
      <3> QED BY <2>1, <3>1 DEF Outstanding, InPass
    <2> QED BY <1>a, <2>0, <2>2, <2>3
  <1> QED BY <1>1, <1>2, <1>3, <1>4, <1>5, <1>6 DEF SchedulerInv

LEMMA ScheduleStutterKeeps ==
  ASSUME SchedulerInv, UNCHANGED schedulerVars
  PROVE  SchedulerInv'
  <1> USE HoursAre DEF SchedulerInv, schedulerVars
  <1>1. SchedulerTypeOK'
    BY DEF SchedulerTypeOK, Times, Never
  <1>2. Clock'
    BY DEF Clock, Allowance, SchedulerTypeOK, Times
  <1>3. RowInHand'
    BY DEF RowInHand
  <1>4. TimesScanned'
    BY FieldsAre DEF TimesScanned, Never
  <1>5. OnRecord'
    BY DEF OnRecord, CountedIsOnRecord, Registered, Newest, Never, InHand
  <1>6. (PassesFit => PaidOrPending)'
    <2> SUFFICES ASSUME PassesFit, NEW p \in Projects, NEW hour \in DailyHours, Owed(p, hour)'
                 PROVE  projects'[p].last >= hour \/ Outstanding(p, hour)'
      BY DEF PaidOrPending, DailyHours, PassesFit
    <2> QED BY DEF Outstanding, WillPay, InPass, Owed, PaidOrPending
  <1> QED BY <1>1, <1>2, <1>3, <1>4, <1>5, <1>6 DEF SchedulerInv

LEMMA SchedulerInvNext == SchedulerInv /\ [SchedulerNext]_schedulerVars => SchedulerInv'
  <1> SUFFICES ASSUME SchedulerInv, [SchedulerNext]_schedulerVars PROVE SchedulerInv'
    OBVIOUS
  <1>1. CASE \E p \in Projects : RemoveProject(p) \/ \E s \in {"daily", "weekly"} : AddProject(p, s)
    BY <1>1, RemoveKeeps, AddKeeps
  <1>2. CASE StartLoop
    BY <1>2, ListKeeps DEF StartLoop
  <1>3. CASE WakeUp
    BY <1>3, ListKeeps DEF WakeUp
  <1>4. CASE Skip \/ BeginScan \/ Fail \/ Scanned
    BY <1>4, SkipKeeps, BeginScanKeeps, FailKeeps, ScannedKeeps
  <1>5. CASE Save \/ Fire \/ Mark \/ Prune
    BY <1>5, SaveKeeps, FireKeeps, MarkKeeps, PruneKeeps
  <1>6. CASE Abandon \/ Sleep \/ Crash \/ Tick
    BY <1>6, AbandonKeeps, SleepKeeps, CrashKeeps, TickKeeps
  <1>7. CASE UNCHANGED schedulerVars
    BY <1>7, ScheduleStutterKeeps
  <1> QED BY <1>1, <1>2, <1>3, <1>4, <1>5, <1>6, <1>7 DEF SchedulerNext

LEMMA SchedulerHolds == SchedulerSpec => []SchedulerInv
  BY SchedulerInitHolds, SchedulerInvNext, PTL DEF SchedulerSpec

\* At midnight the pass that was to pay for the day has ended.
LEMMA EveryDayIsPaid == PassesFit /\ SchedulerInv => NoDayIsSkipped
  <1> SUFFICES ASSUME PassesFit, SchedulerInv, NEW p \in Projects,
                      doing # "down", hindered[p] < DailySlot(now) - DayTicks, projects[p].schedule = "daily",
                      LaterOf(since, projects[p].set) < DailySlot(now) - DayTicks
               PROVE  projects[p].last >= DailySlot(now) - DayTicks
    BY DEF NoDayIsSkipped, Registered
  <1> DEFINE D == DayTicks
             h == DailyHour * Hour
             q == now \div D
             z == (q - 1) * D
  <1>0. SchedulerTypeOK
    BY DEF SchedulerInv
  <1>1. D \in Nat \ {0} /\ h \in Nat /\ 2 * Longest + Hour + h <= D /\ Longest \in Nat /\ Hour \in Nat \ {0}
    BY DayTicksAre, HoursAre
  <1>2. now \in Nat /\ began \in Int /\ since \in Int /\ since >= -1 /\ projects[p].set \in Int /\ projects[p].set >= -1
    BY <1>0, FieldsAre DEF SchedulerTypeOK, Times
  <1>3. DailySlot(now) = q * D + h
    BY DEF DailySlot, Midnight, D, h, q
  <1> HIDE DEF D, h
  <1>4. q \in Nat /\ q * D \in Nat /\ q * D <= now /\ now < q * D + D
    BY <1>1, <1>2, Quotient
  <1> HIDE DEF q
  <1>5. z = q * D - D /\ z \in Int
    BY <1>1, <1>4
  <1> HIDE DEF z
  <1>6. DailySlot(now) - D = z + h
    BY <1>1, <1>3, <1>4, <1>5
  <1>7. since < z + h /\ projects[p].set < z + h /\ hindered[p] < z + h
    BY <1>1, <1>2, <1>5, <1>6 DEF LaterOf, D
  <1>8. q # 0
    <2> SUFFICES ASSUME q = 0 PROVE FALSE
      OBVIOUS
    <2>1. z = -D
      BY <1>1, <1>4, <1>5
    <2> QED BY <1>1, <1>2, <1>7, <2>1
  <1>9. z + h \in DailyHours
    BY <1>4, <1>8 DEF DailyHours, z, h, D
  <1>10. Owed(p, z + h)
    <2>1. z + h <= now
      BY <1>1, <1>2, <1>4, <1>5
    <2> QED BY <1>7, <2>1 DEF Owed
  <1>11. projects[p].last >= z + h \/ Outstanding(p, z + h)
    BY <1>9, <1>10 DEF SchedulerInv, PaidOrPending
  <1>12. ~Outstanding(p, z + h)
    <2> SUFFICES ASSUME Outstanding(p, z + h) PROVE FALSE
      OBVIOUS
    <2>1. \/ doing = "asleep" /\ began < z + h + Longest
          \/ InPass /\ began < z + h + Longest + Hour
      BY <1>1, <1>2, <1>5 DEF Outstanding
    <2>2. doing = "asleep" => now <= began + Hour
      BY DEF SchedulerInv, Clock, Allowance
    <2>3. InPass => now <= began + Longest
      BY DEF SchedulerInv, Clock, Allowance, InPass
    <2> QED BY <1>1, <1>2, <1>4, <1>5, <2>1, <2>2, <2>3
  <1> QED BY <1>6, <1>11, <1>12 DEF D

LEMMA RepeatsAfterCut == SchedulerInv /\ [SchedulerNext]_schedulerVars => [RepeatIsAfterCut]_schedulerVars
  <1> SUFFICES ASSUME SchedulerInv, doing = "saved", told[InHand] # Never
               PROVE  told[InHand] < Slot(Head(queue).schedule, scanned) \/ Head(queue).last < told[InHand]
    BY DEF RepeatIsAfterCut
  <1>1. SchedulerTypeOK /\ queue # <<>> /\ DueWith(Head(queue), scanned)
    BY DEF SchedulerInv, RowInHand
  <1>2. InHand \in Projects /\ Head(queue).last \in Int
    BY <1>1, HeadIs
  <1>3. told[InHand] \in Int /\ told[InHand] >= -1
    BY <1>1, <1>2, FieldsAre
  <1>4. scanned \in Nat
    BY DEF SchedulerInv, TimesScanned
  <1>5. Slot(Head(queue).schedule, scanned) \in Int
    BY <1>4, SlotsAdvance
  <1> QED BY <1>1, <1>2, <1>3, <1>5 DEF DueWith, Never

\* However long a pass lasts, a scan that counts is on record and was handed to the
\* plugins, and they are given a second scan of a project for one slot only when the
\* first was never counted, whichever crash or error ends a pass at whichever step.  (ScheduledScanner.run_due_scans: save, fire, mark; _is_due)
THEOREM CountedScansAreOnRecord ==
  SchedulerSpec => []CountedIsOnRecord /\ [][RepeatIsAfterCut]_schedulerVars
  <1>1. SchedulerInv => CountedIsOnRecord
    BY DEF SchedulerInv, OnRecord
  <1> QED BY <1>1, SchedulerHolds, RepeatsAfterCut, PTL DEF SchedulerSpec

\* When two passes and a sleep fit between the daily hour and midnight, no day goes by
\* without a scan of a daily project either, unless since its hour the project's own
\* scan failed or an error ended a pass before it was reached.  Errors, failed scans
\* and crashes may be as many as they like.  (run_due_scans, _scheduler_loop, _is_due)
THEOREM NoDayPassesUnscanned ==
  PassesFit => (SchedulerSpec => EveryDayIsOnRecord)
  <1> SUFFICES ASSUME PassesFit PROVE SchedulerSpec => EveryDayIsOnRecord
    OBVIOUS
  <1>1. SchedulerInv => CountedIsOnRecord /\ NoDayIsSkipped
    BY EveryDayIsPaid DEF SchedulerInv, OnRecord
  <1> QED BY <1>1, SchedulerHolds, RepeatsAfterCut, PTL DEF SchedulerSpec, EveryDayIsOnRecord
=============================================================================
