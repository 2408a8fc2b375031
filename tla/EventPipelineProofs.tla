------------------------ MODULE EventPipelineProofs ------------------------
(***************************************************************************)
(* Theorems about EventPipeline, for every set of tasks, events and        *)
(* windows, and about DaemonLifecycle, the start and the stop of the       *)
(* process the pipeline runs in.                                           *)
(***************************************************************************)
EXTENDS EventPipeline, DaemonLifecycle, FiniteSetTheorems, TLAPS

\* What a task holds has been observed.
Arrivals ==
  /\ \A i \in Ids : i <= arrived => event[i] \in Events
  /\ \A c \in Consumers : \A i \in queue[c] \cup batch[c] \cup claimed[c] : i <= arrived

Typed == TypeOK /\ Arrivals

LEMMA EventFields ==
  ASSUME NEW e \in Events
  PROVE  /\ e.pkg \in Packages /\ e.dir \in Dirs /\ e.proc \in Procs
         /\ e.src \in {"process", "cache"} /\ e.public \in BOOLEAN
         /\ e.src = "cache" => e.dir = NoDir /\ e.proc = NoProc /\ e.public
  BY EventsAssumption

\* The keys of observations that have been made are keys.
LEMMA KeysAtType ==
  ASSUME Arrivals, NEW S \in SUBSET Ids, \A i \in S : i <= arrived
  PROVE  KeysAt(S) \subseteq Keys
  BY DEF KeysAt, Keys, Arrivals

LEMMA VerdictType ==
  ASSUME NEW p \in Packages
  PROVE  Verdict(p) \in {"clean", "malicious"}
  BY DEF Verdict

LEMMA CachedType ==
  ASSUME TypeOK, NEW T
  PROVE  Cached(T) \in [Packages -> {"none", "clean", "malicious"}]
  BY VerdictType DEF Cached, TypeOK

LEMMA PopStaleType ==
  ASSUME TypeOK, NEW S, PopStale(S)
  PROVE  /\ processed' \in [Keys -> Times \cup {Never}]
         /\ cacheDone' \in [CacheKeys -> Times \cup {Never}]
  BY DEF PopStale, TypeOK

LEMMA RecordType ==
  ASSUME TypeOK, NEW i, Record(i)
  PROVE  /\ processed' \in [Keys -> Times \cup {Never}]
         /\ cacheDone' \in [CacheKeys -> Times \cup {Never}]
  BY DEF Record, TypeOK

LEMMA TypedInit == Init => Typed
  BY BoundsAssumption DEF Init, Typed, TypeOK, Arrivals, Ids, Times, Places, Verdicts, Statuses

LEMMA TypedNext == Typed /\ [Next]_vars => Typed'
<1> SUFFICES ASSUME TypeOK, Arrivals, [Next]_vars
             PROVE  TypeOK' /\ Arrivals'
  BY DEF Typed
<1> USE DEF Places, Statuses, Verdicts
<1>1. ASSUME NEW c \in Consumers, NEW e \in Events, Arrive(c, e)
      PROVE  TypeOK' /\ Arrivals'
  <2>1. arrived + 1 \in Ids
    BY <1>1, BoundsAssumption DEF Arrive, TypeOK, Ids
  <2>2. TypeOK'
    BY <1>1, <2>1, BoundsAssumption DEF Arrive, TypeOK, tables
  <2>3. \A i \in Ids : i <= arrived' => event'[i] \in Events
    BY <1>1, <2>1, BoundsAssumption DEF Arrive, TypeOK, Arrivals, Ids
  <2>4. \A d \in Consumers : /\ \A i \in queue[d] : i <= arrived'
                           /\ \A i \in batch'[d] \cup claimed'[d] : i <= arrived'
    BY <1>1, BoundsAssumption DEF Arrive, TypeOK, Arrivals, Ids
  <2>5. \A d \in Consumers : queue'[d] \subseteq queue[d] \cup {arrived'}
    BY <1>1 DEF Arrive, TypeOK
  <2>6. \A d \in Consumers : \A i \in queue'[d] : i <= arrived'
    BY <1>1, <2>1, <2>4, <2>5 DEF Arrive, Ids
  <2> QED BY <2>2, <2>3, <2>4, <2>6 DEF Arrivals
<1>2. ASSUME NEW c \in Consumers, TakeBatch(c)
      PROVE  TypeOK' /\ Arrivals'
  BY <1>2 DEF TakeBatch, TypeOK, Arrivals, tables
<1>3. ASSUME NEW c \in Consumers, ClaimBatch(c)
      PROVE  TypeOK' /\ Arrivals'
  <2>1. Claimable(c) \subseteq batch[c] /\ Claimable(c) \in SUBSET Ids
    BY DEF Claimable, TypeOK
  <2>2. KeysAt(Claimable(c)) \subseteq Keys
    BY <2>1, KeysAtType DEF Arrivals
  <2>3. PopStale(batch[c])
    BY <1>3 DEF ClaimBatch
  <2>4. TypeOK'
    BY <1>3, <2>1, <2>2, <2>3, PopStaleType DEF ClaimBatch, TypeOK
  <2>5. Arrivals'
    BY <1>3, <2>1 DEF ClaimBatch, TypeOK, Arrivals
  <2> QED BY <2>4, <2>5
<1>4. ASSUME NEW c \in Consumers, BackOff(c)
      PROVE  TypeOK' /\ Arrivals'
  <2> PICK i \in batch[c] :
        /\ PopStale({j \in batch[c] : j <= i})
        /\ \E waits \in BOOLEAN :
             /\ pc' = [pc EXCEPT ![c] = IF waits THEN "wait" ELSE "claim"]
             /\ waitOn' = [waitOn EXCEPT ![c] = IF waits THEN i ELSE NoId]
    BY <1>4 DEF BackOff
  <2>1. TypeOK'
    BY <1>4, PopStaleType DEF BackOff, TypeOK, history
  <2>2. Arrivals'
    BY <1>4 DEF BackOff, Arrivals
  <2> QED BY <2>1, <2>2
<1>5. ASSUME NEW c \in Consumers, PrefetchQuery(c)
      PROVE  TypeOK' /\ Arrivals'
  BY <1>5 DEF PrefetchQuery, Uncached, PlaceWith, TypeOK, Arrivals, tables, history
<1>6. ASSUME NEW c \in Consumers, PrefetchAnswer(c) \/ PrefetchFail(c)
      PROVE  TypeOK' /\ Arrivals'
  <2>1. osvCache' \in [Packages -> {"none", "clean", "malicious"}]
    BY <1>6, CachedType DEF PrefetchAnswer, PrefetchFail
  <2>2. degraded' \in [Consumers -> SUBSET Packages]
    <3>1. CASE PrefetchAnswer(c)
      <4> PICK D \in SUBSET asked[c] : degraded' = [degraded EXCEPT ![c] = D]
        BY <3>1 DEF PrefetchAnswer
      <4> QED BY DEF TypeOK
    <3>2. CASE PrefetchFail(c)
      BY <3>2 DEF PrefetchFail, TypeOK
    <3> QED BY <1>6, <3>1, <3>2
  <2>3. TypeOK'
    BY <1>6, <2>1, <2>2 DEF PrefetchAnswer, PrefetchFail, TypeOK, history
  <2>4. Arrivals'
    BY <1>6 DEF PrefetchAnswer, PrefetchFail, Arrivals
  <2> QED BY <2>3, <2>4
<1>7. ASSUME NEW c \in Consumers, Lookup(c)
      PROVE  TypeOK' /\ Arrivals'
  <2> PICK i \in claimed[c] :
        \/ \E v \in KnownVerdicts(c, event[i]) : Judge(c, v)
        \/ pc' = [pc EXCEPT ![c] = "asking"] /\ UNCHANGED verdict
    BY <1>7 DEF Lookup
  <2>1. event[i].pkg \in Packages /\ event[i].public \in BOOLEAN
    BY EventFields DEF Arrivals, TypeOK
  <2>2. KnownVerdicts(c, event[i]) \subseteq Verdicts
    BY <2>1 DEF KnownVerdicts, DegradedVerdicts, Verdicts, TypeOK
  <2>3. pc' \in [Consumers -> Places] /\ verdict' \in [Consumers -> Verdicts]
    BY <2>2 DEF Judge, PlaceOf, TypeOK
  <2>4. TypeOK'
    BY <1>7, <2>3 DEF Lookup, TypeOK, tables, history
  <2>5. Arrivals'
    BY <1>7 DEF Lookup, Arrivals
  <2> QED BY <2>4, <2>5
<1>8. ASSUME NEW c \in Consumers, Answer(c)
      PROVE  TypeOK' /\ Arrivals'
  <2> PICK i \in claimed[c] :
        \/ Judge(c, Verdict(event[i].pkg)) /\ osvCache' = Cached({event[i].pkg})
        \/ (\E v \in DegradedVerdicts(event[i].pkg) : Judge(c, v)) /\ UNCHANGED osvCache
    BY <1>8 DEF Answer
  <2>1. event[i].pkg \in Packages
    BY EventFields DEF Arrivals, TypeOK
  <2>2. pc' \in [Consumers -> Places] /\ verdict' \in [Consumers -> Verdicts]
    BY <2>1, VerdictType DEF DegradedVerdicts, Judge, PlaceOf, TypeOK
  <2>3. osvCache' \in [Packages -> {"none", "clean", "malicious"}]
    BY CachedType DEF TypeOK
  <2>4. TypeOK'
    BY <1>8, <2>2, <2>3 DEF Answer, TypeOK, history
  <2>5. Arrivals'
    BY <1>8 DEF Answer, Arrivals
  <2> QED BY <2>4, <2>5
<1>9. ASSUME NEW c \in Consumers, StoreAlert(c) \/ ScoreRisk(c) \/ Notify(c) \/ Fail(c)
      PROVE  TypeOK' /\ Arrivals'
  <2>1. alerts' \subseteq [id : Ids, kind : {"advisory", "risk"}]
    <3>1. \A i \in claimed[c] : Row(i, "advisory") \in [id : Ids, kind : {"advisory", "risk"}]
                                /\ Row(i, "risk") \in [id : Ids, kind : {"advisory", "risk"}]
      BY DEF Row, TypeOK
    <3> QED BY <1>9, <3>1 DEF StoreAlert, ScoreRisk, Notify, Fail, TypeOK, tables
  <2>2. pc' \in [Consumers -> Places] /\ verdict' \in [Consumers -> Verdicts]
    BY <1>9 DEF StoreAlert, ScoreRisk, Notify, Fail, TypeOK
  <2>3. TypeOK'
    BY <1>9, <2>1, <2>2 DEF StoreAlert, ScoreRisk, Notify, Fail, TypeOK, tables, history
  <2>4. Arrivals'
    BY <1>9 DEF StoreAlert, ScoreRisk, Notify, Fail, Arrivals
  <2> QED BY <2>3, <2>4
<1>10. ASSUME NEW c \in Consumers, Finish(c)
       PROVE  TypeOK' /\ Arrivals'
  <2> PICK i \in claimed[c] :
        /\ IF Authoritative(verdict[c])
           THEN /\ Record(i)
                /\ status' = [status EXCEPT ![i] = "done"]
                /\ doneAt' = [doneAt EXCEPT ![i] = now]
           ELSE /\ status' = [status EXCEPT ![i] = "unresolved"]
                /\ UNCHANGED <<processed, cacheDone, doneAt>>
        /\ inFlight' = inFlight \ Released(c, i)
        /\ claimed' = [claimed EXCEPT ![c] = @ \ {i}]
        /\ degraded' = [degraded EXCEPT ![c] = IF claimed[c] = {i} THEN {} ELSE @]
        /\ pc' = [d \in Consumers |-> IF d = c THEN PlaceWith(claimed[c] \ {i})
                                      ELSE IF d \in Waiters(i) THEN "claim" ELSE pc[d]]
        /\ waitOn' = [d \in Consumers |-> IF d \in Waiters(i) THEN NoId ELSE waitOn[d]]
    BY <1>10 DEF Finish
  <2>1. /\ processed' \in [Keys -> Times \cup {Never}]
        /\ cacheDone' \in [CacheKeys -> Times \cup {Never}]
    BY RecordType DEF TypeOK
  <2>2. /\ status' \in [Ids -> Statuses] /\ doneAt' \in [Ids -> Times \cup {Never}]
        /\ inFlight' \subseteq Keys /\ waitOn' \in [Consumers -> Ids \cup {NoId}]
        /\ pc' \in [Consumers -> Places]
    BY DEF PlaceWith, TypeOK
  <2>3. claimed' \in [Consumers -> SUBSET Ids] /\ degraded' \in [Consumers -> SUBSET Packages]
    BY DEF TypeOK
  <2>4. TypeOK'
    BY <1>10, <2>1, <2>2, <2>3 DEF Finish, TypeOK
  <2>5. Arrivals'
    BY <1>10 DEF Finish, TypeOK, Arrivals
  <2> QED BY <2>4, <2>5
<1>11. ASSUME NEW p \in Packages, ExpireRow(p)
       PROVE  TypeOK' /\ Arrivals'
  BY <1>11 DEF ExpireRow, TypeOK, Arrivals, tasks, history
<1>12. CASE Tick
  BY <1>12, BoundsAssumption DEF Tick, TypeOK, Arrivals, tasks, tables, history, Times
<1>13. CASE Prune
  BY <1>13 DEF Prune, TypeOK, Arrivals, tasks, history
<1>14. CASE UNCHANGED vars
  BY <1>14 DEF vars, tasks, tables, history, TypeOK, Arrivals
<1> QED
  BY <1>1, <1>2, <1>3, <1>4, <1>5, <1>6, <1>7, <1>8, <1>9, <1>10, <1>11, <1>12, <1>13, <1>14
     DEF Next, Step

\* Type correctness: every variable of the pipeline keeps to its domain.
THEOREM TypeCorrect == Spec => []TypeOK
<1>1. Init => Typed
  BY TypedInit
<1>2. Typed /\ [Next]_vars => Typed'
  BY TypedNext
<1>3. Typed => TypeOK
  BY DEF Typed
<1> QED
  BY <1>1, <1>2, <1>3, PTL DEF Spec

-----------------------------------------------------------------------------
(* Where an observation is: with one task at most, in one place. *)

Held(c) == queue[c] \cup batch[c] \cup claimed[c]

Ownership ==
  /\ \A i \in Ids : i > arrived => status[i] = "none"
  /\ \A c \in Consumers :
       /\ \A i \in queue[c] : status[i] = "queued"
       /\ \A i \in batch[c] \cup claimed[c] : status[i] = "held"
       /\ batch[c] # {} => pc[c] \in {"claim", "wait"}
       /\ claimed[c] # {} => pc[c] \notin {"idle", "claim", "wait"}
  /\ \A c, d \in Consumers : c # d => Held(c) \cap Held(d) = {}

\* A step inside an evaluation moves no observation.
LEMMA OwnershipFrame ==
  ASSUME Ownership, NEW c \in Consumers, pc \in [Consumers -> Places],
         UNCHANGED <<arrived, queue, batch, claimed, status>>,
         \E x \in Places \ {"claim", "wait"} :
           pc' = [pc EXCEPT ![c] = x] /\ (x = "idle" => claimed[c] = {}),
         pc[c] \notin {"claim", "wait"}
  PROVE  Ownership'
  BY DEF Ownership, Held

LEMMA OwnershipInit == Init => Ownership
  BY DEF Init, Ownership, Held

LEMMA OwnershipNext == Typed /\ Ownership /\ [Next]_vars => Ownership'
<1> SUFFICES ASSUME TypeOK, Arrivals, Ownership, [Next]_vars
             PROVE  Ownership'
  BY DEF Typed
<1>1. ASSUME NEW c \in Consumers, NEW e \in Events, Arrive(c, e)
      PROVE  Ownership'
  <2> DEFINE n == arrived + 1
  <2>1. n \in Ids /\ n > arrived
    BY <1>1, BoundsAssumption DEF Arrive, TypeOK, Ids
  <2>2. \A d \in Consumers : n \notin Held(d)
    BY <2>1 DEF Arrivals, Held, Ids, TypeOK
  <2>3. /\ queue' = [queue EXCEPT ![c] = @ \cup {n}]
        /\ status' = [status EXCEPT ![n] = "queued"]
        /\ arrived' = n /\ UNCHANGED <<batch, claimed, pc>>
    BY <1>1 DEF Arrive
  <2>4. \A i \in Ids : i > arrived' => status'[i] = "none"
    BY <2>1, <2>3, BoundsAssumption DEF Ownership, TypeOK, Ids
  <2>5. \A d \in Consumers :
          /\ \A i \in queue'[d] : status'[i] = "queued"
          /\ \A i \in batch'[d] \cup claimed'[d] : status'[i] = "held"
    BY <2>1, <2>2, <2>3 DEF Ownership, Held, TypeOK
  <2>6. \A d \in Consumers : Held(d)' = IF d = c THEN Held(d) \cup {n} ELSE Held(d)
    BY <2>3 DEF Held, TypeOK
  <2>7. \A a, b \in Consumers : a # b => Held(a)' \cap Held(b)' = {}
    BY <2>2, <2>6 DEF Ownership
  <2> QED BY <2>3, <2>4, <2>5, <2>7 DEF Ownership
<1>2. ASSUME NEW c \in Consumers, TakeBatch(c)
      PROVE  Ownership'
  <2>1. \A i \in Ids : status'[i] = IF i \in queue[c] THEN status'[i] ELSE status[i]
    BY <1>2 DEF TakeBatch
  <2>2. /\ queue' = [queue EXCEPT ![c] = {}] /\ pc' = [pc EXCEPT ![c] = "claim"]
        /\ UNCHANGED <<arrived, claimed>>
        /\ pc[c] = "idle"
    BY <1>2 DEF TakeBatch
  <2>3. /\ batch' = [batch EXCEPT ![c] = batch'[c]] /\ batch'[c] \subseteq queue[c]
        /\ \A i \in batch'[c] : status'[i] = "held"
    BY <1>2 DEF TakeBatch, TypeOK
  <2>4. batch[c] = {} /\ claimed[c] = {}
    BY <2>2 DEF Ownership
  <2>5. \A d \in Consumers : Held(d)' \subseteq Held(d)
    BY <2>2, <2>3 DEF Held, TypeOK
  <2>6. \A i \in Ids : i > arrived' => status'[i] = "none"
    BY <2>1, <2>2 DEF Ownership, Arrivals, Ids, TypeOK
  <2>7. \A d \in Consumers \ {c} : \A i \in Held(d) : i \in Ids /\ status'[i] = status[i]
    BY <2>1 DEF Ownership, Held, TypeOK
  <2>8. \A d \in Consumers :
          /\ \A i \in queue'[d] : status'[i] = "queued"
          /\ \A i \in batch'[d] \cup claimed'[d] : status'[i] = "held"
    BY <2>2, <2>3, <2>4, <2>7 DEF Ownership, Held, TypeOK
  <2>9. \A d \in Consumers :
          /\ batch'[d] # {} => pc'[d] \in {"claim", "wait"}
          /\ claimed'[d] # {} => pc'[d] \notin {"idle", "claim", "wait"}
    BY <2>2, <2>3, <2>4 DEF Ownership, TypeOK
  <2> QED BY <2>5, <2>6, <2>8, <2>9 DEF Ownership
<1>3. ASSUME NEW c \in Consumers, ClaimBatch(c)
      PROVE  Ownership'
  <2>1. Claimable(c) \subseteq batch[c]
    BY DEF Claimable
  <2>2. /\ claimed' = [claimed EXCEPT ![c] = Claimable(c)]
        /\ status' = [i \in Ids |-> IF i \in batch[c] \ Claimable(c) THEN "dropped" ELSE status[i]]
        /\ batch' = [batch EXCEPT ![c] = {}] /\ pc' = [pc EXCEPT ![c] = "prefetch"]
        /\ UNCHANGED <<arrived, queue>> /\ pc[c] = "claim"
    BY <1>3 DEF ClaimBatch
  <2>3. \A d \in Consumers : Held(d)' \subseteq Held(d)
    BY <2>1, <2>2 DEF Held, TypeOK
  <2>4. \A i \in Ids : i > arrived' => status'[i] = "none"
    BY <2>2 DEF Ownership, Arrivals, Ids, TypeOK
  <2>5. \A d \in Consumers : \A i \in Held(d)' : i \in Ids /\ status'[i] = status[i]
    <3> SUFFICES ASSUME NEW d \in Consumers, NEW i \in Held(d)'
                 PROVE  i \in Ids /\ i \notin batch[c] \ Claimable(c)
      BY <2>2
    <3>1. i \in Held(d) /\ i \in Ids
      BY <2>3 DEF Held, TypeOK
    <3>2. CASE d # c
      BY <3>1, <3>2 DEF Ownership, Held
    <3>3. CASE d = c
      <4>1. i \in queue[c] \/ i \in Claimable(c)
        BY <2>2, <3>3 DEF Held, TypeOK
      <4>2. \A j \in queue[c] : j \notin batch[c]
        BY DEF Ownership
      <4> QED BY <3>1, <4>1, <4>2
    <3> QED BY <3>2, <3>3
  <2>6. \A d \in Consumers :
          /\ \A i \in queue'[d] : status'[i] = "queued"
          /\ \A i \in batch'[d] \cup claimed'[d] : status'[i] = "held"
    BY <2>1, <2>2, <2>5 DEF Ownership, Held, TypeOK
  <2>7. \A d \in Consumers :
          /\ batch'[d] # {} => pc'[d] \in {"claim", "wait"}
          /\ claimed'[d] # {} => pc'[d] \notin {"idle", "claim", "wait"}
    BY <2>2 DEF Ownership, TypeOK
  <2> QED BY <2>3, <2>4, <2>6, <2>7 DEF Ownership
<1>4. ASSUME NEW c \in Consumers, BackOff(c)
      PROVE  Ownership'
  <2>1. \A d \in Consumers : pc'[d] = pc[d] \/ (pc[d] = "claim" /\ pc'[d] = "wait")
    BY <1>4 DEF BackOff, TypeOK
  <2>2. UNCHANGED <<arrived, queue, batch, claimed, status>> /\ pc[c] = "claim"
    BY <1>4 DEF BackOff, history
  <2> QED BY <2>1, <2>2 DEF Ownership, Held, TypeOK
<1>5. ASSUME NEW c \in Consumers, PrefetchQuery(c)
      PROVE  Ownership'
  <2>1. UNCHANGED <<arrived, queue, batch, claimed, status>> /\ pc[c] = "prefetch"
    BY <1>5 DEF PrefetchQuery, history
  <2>2. pc' = [pc EXCEPT ![c] = pc'[c]] /\ pc'[c] \in {"idle", "lookup", "prefetching"}
        /\ (pc'[c] = "idle" => claimed[c] = {})
    BY <1>5 DEF PrefetchQuery, PlaceWith, TypeOK
  <2> QED BY <2>1, <2>2, OwnershipFrame DEF Places, TypeOK
<1>6. ASSUME NEW c \in Consumers, PrefetchAnswer(c) \/ PrefetchFail(c)
      PROVE  Ownership'
  BY <1>6, OwnershipFrame DEF PrefetchAnswer, PrefetchFail, Places, TypeOK, history
<1>7. ASSUME NEW c \in Consumers, Lookup(c) \/ Answer(c)
      PROVE  Ownership'
  <2>1. UNCHANGED <<arrived, queue, batch, claimed, status>> /\ pc[c] \in {"lookup", "asking"}
    BY <1>7 DEF Lookup, Answer, history
  <2>2. pc' = [pc EXCEPT ![c] = pc'[c]] /\ pc'[c] \in {"asking", "store", "score", "finish"}
    BY <1>7 DEF Lookup, Answer, Judge, PlaceOf, TypeOK
  <2> QED BY <2>1, <2>2, OwnershipFrame DEF Places, TypeOK
<1>8. ASSUME NEW c \in Consumers, StoreAlert(c) \/ ScoreRisk(c) \/ Notify(c) \/ Fail(c)
      PROVE  Ownership'
  BY <1>8, OwnershipFrame DEF StoreAlert, ScoreRisk, Notify, Fail, Places, TypeOK, history
<1>9. ASSUME NEW c \in Consumers, Finish(c)
      PROVE  Ownership'
  <2> PICK i \in claimed[c] :
        /\ status' = [status EXCEPT ![i] = "done"] \/ status' = [status EXCEPT ![i] = "unresolved"]
        /\ claimed' = [claimed EXCEPT ![c] = @ \ {i}]
        /\ pc' = [d \in Consumers |-> IF d = c THEN PlaceWith(claimed[c] \ {i})
                                      ELSE IF d \in Waiters(i) THEN "claim" ELSE pc[d]]
    BY <1>9 DEF Finish
  <2>1. UNCHANGED <<arrived, queue, batch>> /\ pc[c] = "finish"
    BY <1>9 DEF Finish
  <2>2. \A d \in Consumers : Held(d)' \subseteq Held(d)
    BY <2>1 DEF Held, TypeOK
  <2>3. \A j \in Ids : j > arrived' => status'[j] = "none"
    <3>1. i \in Ids /\ i <= arrived /\ arrived' = arrived
      BY <2>1 DEF Arrivals, TypeOK
    <3>2. \A j \in Ids : j > arrived => j # i
      BY <3>1, BoundsAssumption DEF TypeOK, Ids
    <3> QED BY <3>1, <3>2 DEF Ownership, TypeOK
  <2>4. \A d \in Consumers : i \notin Held(d)'
    <3>1. i \in Held(c) /\ status[i] = "held" /\ batch[c] = {}
      BY <2>1 DEF Ownership, Held
    <3>2. i \notin Held(c)'
      BY <2>1, <3>1 DEF Ownership, Held, TypeOK
    <3>3. \A d \in Consumers \ {c} : i \notin Held(d)'
      BY <2>2, <3>1 DEF Ownership
    <3> QED BY <3>2, <3>3
  <2>5. \A d \in Consumers :
          /\ \A j \in queue'[d] : status'[j] = "queued"
          /\ \A j \in batch'[d] \cup claimed'[d] : status'[j] = "held"
    BY <2>1, <2>2, <2>4 DEF Ownership, Held, TypeOK
  <2>6. \A d \in Consumers :
          /\ batch'[d] # {} => pc'[d] \in {"claim", "wait"}
          /\ claimed'[d] # {} => pc'[d] \notin {"idle", "claim", "wait"}
    BY <2>1 DEF Ownership, PlaceWith, Waiters, TypeOK
  <2>7. \A a, b \in Consumers : a # b => Held(a)' \cap Held(b)' = {}
    BY <2>2 DEF Ownership
  <2> QED BY <2>3, <2>5, <2>6, <2>7 DEF Ownership
<1>10. CASE Tick \/ Prune \/ (\E p \in Packages : ExpireRow(p))
  BY <1>10 DEF Tick, Prune, ExpireRow, tasks, history, Ownership, Held
<1>11. CASE UNCHANGED vars
  BY <1>11 DEF vars, tasks, history, Ownership, Held
<1> QED
  BY <1>1, <1>2, <1>3, <1>4, <1>5, <1>6, <1>7, <1>8, <1>9, <1>10, <1>11 DEF Next, Step

-----------------------------------------------------------------------------
(* Claims. *)

\* A claim that is neither taken nor released stays as it is.
LEMMA ClaimsFrame ==
  ASSUME ClaimsExclusive, UNCHANGED <<claimed, inFlight>>,
         \A c \in Consumers : \A i \in claimed[c] : event'[i] = event[i]
  PROVE  ClaimsExclusive'
<1>1. \A c \in Consumers : KeysAt(claimed[c])' = KeysAt(claimed[c])
  BY DEF KeysAt
<1>2. (UNION {KeysAt(claimed[c]) : c \in Consumers})' = UNION {KeysAt(claimed[c]) : c \in Consumers}
  BY <1>1
<1> QED BY <1>2 DEF ClaimsExclusive, SameKey

\* The keys an uncontested pass claims are free, and it claims none twice.
LEMMA UncontestedKeys ==
  ASSUME TypeOK, NEW c \in Consumers, \A i \in batch[c] : ~Contested(c, i)
  PROVE  /\ KeysAt(Claimable(c)) \cap inFlight = {}
         /\ \A i, j \in Claimable(c) :
              ~Undedupable(event[i]) /\ ~Undedupable(event[j]) /\ SameKey(i, j) => i = j
<1>1. KeysAt(Claimable(c)) \cap inFlight = {}
  BY DEF Contested, Claimable, KeysAt
<1>2. \A i, j \in Claimable(c) :
        ~Undedupable(event[i]) /\ ~Undedupable(event[j]) /\ SameKey(i, j) => ~(j < i)
  BY DEF Contested, Claimable
<1>3. \A i, j \in Claimable(c) : i \in Int /\ j \in Int
  BY BoundsAssumption DEF Claimable, TypeOK, Ids
<1>4. \A i, j \in Claimable(c) : SameKey(i, j) => SameKey(j, i)
  BY DEF SameKey
<1> QED BY <1>1, <1>2, <1>3, <1>4

LEMMA ClaimsInit == Init => ClaimsExclusive
  BY DEF Init, ClaimsExclusive, KeysAt

LEMMA ClaimsNext ==
  Typed /\ Ownership /\ ClaimsExclusive /\ [Next]_vars => ClaimsExclusive'
<1> SUFFICES ASSUME TypeOK, Arrivals, Ownership, ClaimsExclusive, [Next]_vars
             PROVE  ClaimsExclusive'
  BY DEF Typed
<1>1. ASSUME NEW c \in Consumers, NEW e \in Events, Arrive(c, e)
      PROVE  ClaimsExclusive'
  <2>1. \A d \in Consumers : \A i \in claimed[d] : i # arrived + 1
    BY BoundsAssumption DEF Arrivals, TypeOK, Ids
  <2>2. \A d \in Consumers : \A i \in claimed[d] : event'[i] = event[i]
    BY <1>1, <2>1 DEF Arrive, TypeOK
  <2> QED BY <1>1, <2>2, ClaimsFrame DEF Arrive, tables
<1>2. ASSUME NEW c \in Consumers, ClaimBatch(c)
      PROVE  ClaimsExclusive'
  <2>1. /\ claimed' = [claimed EXCEPT ![c] = Claimable(c)]
        /\ inFlight' = inFlight \cup KeysAt(Claimable(c))
        /\ event' = event /\ pc[c] = "claim"
        /\ \A i \in batch[c] : ~Contested(c, i)
    BY <1>2 DEF ClaimBatch
  <2>2. claimed[c] = {}
    BY <2>1 DEF Ownership
  <2>3. \A S : KeysAt(S)' = KeysAt(S')
    BY <2>1 DEF KeysAt
  <2>4. \A d \in Consumers :
          KeysAt(claimed[d])' = IF d = c THEN KeysAt(Claimable(c)) ELSE KeysAt(claimed[d])
    BY <2>1 DEF KeysAt, TypeOK
  <2>5. KeysAt(claimed[c]) = {}
    BY <2>2 DEF KeysAt
  <2>6. inFlight' = UNION {KeysAt(claimed[d])' : d \in Consumers}
    BY <2>1, <2>4, <2>5 DEF ClaimsExclusive
  <2>7. \A a \in Consumers \ {c} : \A i \in claimed[a], j \in Claimable(c) :
          ~Undedupable(event[i]) /\ ~Undedupable(event[j]) => ~SameKey(i, j) /\ ~SameKey(j, i)
    <3> SUFFICES ASSUME NEW a \in Consumers \ {c}, NEW i \in claimed[a], NEW j \in Claimable(c),
                        ~Undedupable(event[i]), ~Undedupable(event[j])
                 PROVE  KeyOf(event[i]) # KeyOf(event[j])
      BY DEF SameKey
    <3>1. KeyOf(event[i]) \in inFlight
      BY DEF ClaimsExclusive, KeysAt
    <3>2. KeyOf(event[j]) \in KeysAt(Claimable(c))
      BY DEF KeysAt
    <3> QED BY <2>1, <3>1, <3>2, UncontestedKeys
  <2>8. \A i, j \in Claimable(c) :
          ~Undedupable(event[i]) /\ ~Undedupable(event[j]) /\ SameKey(i, j) => i = j
    BY <2>1, UncontestedKeys
  <2>9. ASSUME NEW a \in Consumers, NEW b \in Consumers, NEW i \in claimed'[a], NEW j \in claimed'[b],
               ~Undedupable(event[i]), ~Undedupable(event[j]), SameKey(i, j)
        PROVE  i = j
    <3>1. CASE a = c /\ b = c
      BY <2>1, <2>8, <2>9, <3>1 DEF TypeOK
    <3>2. CASE a = c /\ b # c
      BY <2>1, <2>7, <2>9, <3>2 DEF TypeOK
    <3>3. CASE a # c /\ b = c
      BY <2>1, <2>7, <2>9, <3>3 DEF TypeOK
    <3>4. CASE a # c /\ b # c
      BY <2>1, <2>9, <3>4 DEF ClaimsExclusive, TypeOK
    <3> QED BY <3>1, <3>2, <3>3, <3>4
  <2> QED BY <2>1, <2>6, <2>9 DEF ClaimsExclusive, SameKey
<1>3. ASSUME NEW c \in Consumers, Finish(c)
      PROVE  ClaimsExclusive'
  <2> PICK i \in claimed[c] :
        /\ inFlight' = inFlight \ Released(c, i)
        /\ claimed' = [claimed EXCEPT ![c] = @ \ {i}]
    BY <1>3 DEF Finish
  <2>1. event' = event
    BY <1>3 DEF Finish
  <2>2. \A d \in Consumers : claimed'[d] \subseteq claimed[d]
    BY DEF TypeOK
  <2>3. \A d \in Consumers : \A j \in claimed[d] : j # i => j \in claimed'[d]
    BY DEF TypeOK
  <2>4. \A d \in Consumers : i \notin claimed'[d]
    BY DEF Ownership, Held, TypeOK
  <2>5. \A k : k \in UNION {KeysAt(claimed[d])' : d \in Consumers} <=>
             \E d \in Consumers : \E j \in claimed'[d] : ~Undedupable(event[j]) /\ k = KeyOf(event[j])
    BY <2>1 DEF KeysAt
  <2>6. \A k : k \in inFlight <=>
             \E d \in Consumers : \E j \in claimed[d] : ~Undedupable(event[j]) /\ k = KeyOf(event[j])
    BY DEF ClaimsExclusive, KeysAt
  <2>7. \A k : k \in inFlight' <=>
             \E d \in Consumers : \E j \in claimed'[d] : ~Undedupable(event[j]) /\ k = KeyOf(event[j])
    <3> TAKE k
    <3>1. k \in Released(c, i) <=> ~Undedupable(event[i]) /\ k = KeyOf(event[i])
      BY DEF Released, KeysAt
    <3>2. ASSUME k \in inFlight'
          PROVE  \E d \in Consumers : \E j \in claimed'[d] :
                   ~Undedupable(event[j]) /\ k = KeyOf(event[j])
      <4> PICK d \in Consumers : \E j \in claimed[d] : ~Undedupable(event[j]) /\ k = KeyOf(event[j])
        BY <2>6, <3>2
      <4> PICK j \in claimed[d] : ~Undedupable(event[j]) /\ k = KeyOf(event[j])
        OBVIOUS
      <4>1. j # i
        BY <3>1, <3>2
      <4> QED BY <2>3, <4>1
    <3>3. ASSUME NEW d \in Consumers, NEW j \in claimed'[d],
                 ~Undedupable(event[j]), k = KeyOf(event[j])
          PROVE  k \in inFlight'
      <4>1. j \in claimed[d] /\ j # i
        BY <2>2, <2>4
      <4>2. k \in inFlight
        BY <2>6, <3>3, <4>1
      <4>3. ~(~Undedupable(event[i]) /\ k = KeyOf(event[i]))
        BY <3>3, <4>1 DEF ClaimsExclusive, SameKey
      <4> QED BY <3>1, <4>2, <4>3
    <3> QED BY <3>2, <3>3
  <2>8. inFlight' = UNION {KeysAt(claimed[d])' : d \in Consumers}
    BY <2>5, <2>7
  <2> QED BY <2>1, <2>2, <2>8 DEF ClaimsExclusive, SameKey
<1>4. ASSUME NEW c \in Consumers,
             \/ TakeBatch(c) \/ BackOff(c) \/ PrefetchQuery(c) \/ PrefetchAnswer(c)
             \/ PrefetchFail(c) \/ Lookup(c) \/ Answer(c) \/ StoreAlert(c) \/ ScoreRisk(c)
             \/ Notify(c) \/ Fail(c)
      PROVE  UNCHANGED <<claimed, inFlight, event>>
  BY <1>4 DEF TakeBatch, BackOff, PrefetchQuery, PrefetchAnswer, PrefetchFail, Lookup, Answer,
              StoreAlert, ScoreRisk, Notify, Fail, tables
<1>5. CASE Tick \/ Prune \/ (\E p \in Packages : ExpireRow(p)) \/ UNCHANGED vars
  BY <1>5, ClaimsFrame DEF Tick, Prune, ExpireRow, vars, tasks, tables
<1> QED
  BY <1>1, <1>2, <1>3, <1>4, <1>5, ClaimsFrame DEF Next, Step

\* One install is evaluated by one task at a time, and every claim is released
\* with its evaluation.
THEOREM ClaimsAreExclusive == Spec => []ClaimsExclusive
<1>1. Init => Typed /\ Ownership /\ ClaimsExclusive
  BY TypedInit, OwnershipInit, ClaimsInit
<1>2. Typed /\ Ownership /\ ClaimsExclusive /\ [Next]_vars => (Typed /\ Ownership /\ ClaimsExclusive)'
  BY TypedNext, OwnershipNext, ClaimsNext
<1> QED
  BY <1>1, <1>2, PTL DEF Spec

-----------------------------------------------------------------------------
(* The completion tables. *)

\* j was evaluated to an authoritative end that dedups later observations.
Completed(j) == status[j] = "done" /\ ~Undedupable(event[j])
KeyAt(j) == KeyOf(event[j])
WindowAt(j) == WindowOf(event[j].src)

\* Every table entry was recorded by a completed evaluation.
Evidence ==
  /\ \A k \in Keys : processed[k] # Never =>
       \E j \in Ids : Completed(j) /\ KeyAt(j) = k /\ doneAt[j] = processed[k]
  /\ \A k \in CacheKeys : cacheDone[k] # Never =>
       \E j \in Ids : /\ Completed(j) /\ event[j].src = "cache"
                      /\ CacheKeyOf(KeyAt(j)) = k /\ doneAt[j] = cacheDone[k]

\* A completed evaluation is in the tables for as long as its window.
Remembers == \A j \in Ids : Completed(j) =>
  /\ doneAt[j] \in Times /\ doneAt[j] <= now
  /\ now - doneAt[j] < WindowAt(j) =>
       /\ processed[KeyAt(j)] >= doneAt[j]
       /\ event[j].src = "cache" => cacheDone[CacheKeyOf(KeyAt(j))] >= doneAt[j]

\* What is claimed was not completed within its window.
ClaimsAreNews == \A c \in Consumers : \A i \in claimed[c] : \A j \in Ids :
  ~Undedupable(event[i]) /\ Completed(j) /\ KeyAt(j) = KeyAt(i)
  => now - doneAt[j] >= WindowAt(i)

Memory == Evidence /\ Remembers /\ ClaimsAreNews

Inv == Typed /\ Ownership /\ ClaimsExclusive /\ Memory

\* The key of a dedupable event tells its source: cache events have no process.
LEMMA SourceOfKey ==
  ASSUME NEW e \in Events, NEW f \in Events, ~Undedupable(e), ~Undedupable(f), KeyOf(e) = KeyOf(f)
  PROVE  e.src = f.src /\ WindowOf(e.src) = WindowOf(f.src)
  BY EventFields DEF Undedupable, KeyOf

LEMMA WindowType ==
  ASSUME NEW e \in Events
  PROVE  WindowOf(e.src) \in Nat /\ WindowOf(e.src) <= CacheWindow /\ WindowOf(e.src) >= ProcWindow
  BY WindowsAssumption DEF WindowOf

LEMMA CompletedIsObserved ==
  ASSUME Typed, Ownership, NEW j \in Ids, status[j] # "none"
  PROVE  j <= arrived /\ event[j] \in Events
  BY BoundsAssumption DEF Typed, TypeOK, Arrivals, Ownership, Ids

LEMMA KeyOfCompleted ==
  ASSUME Typed, Ownership, NEW j \in Ids, Completed(j)
  PROVE  /\ event[j] \in Events /\ KeyAt(j) \in Keys /\ CacheKeyOf(KeyAt(j)) \in CacheKeys
         /\ WindowAt(j) \in Nat
  BY CompletedIsObserved, WindowType DEF Completed, KeyAt, WindowAt, Keys, CacheKeys

\* A completed evaluation is never rewritten.
LEMMA DoneStable ==
  ASSUME Typed, Ownership, [Next]_vars, NEW j \in Ids, status[j] = "done"
  PROVE  status'[j] = "done" /\ event'[j] = event[j] /\ doneAt'[j] = doneAt[j]
<1>1. ASSUME NEW c \in Consumers, NEW e \in Events, Arrive(c, e)
      PROVE  status'[j] = "done" /\ event'[j] = event[j] /\ doneAt'[j] = doneAt[j]
  <2>1. j # arrived + 1
    BY CompletedIsObserved, BoundsAssumption DEF Typed, TypeOK, Ids
  <2> QED BY <1>1, <2>1 DEF Arrive, Typed, TypeOK
<1>2. ASSUME NEW c \in Consumers, TakeBatch(c)
      PROVE  status'[j] = "done" /\ event'[j] = event[j] /\ doneAt'[j] = doneAt[j]
  BY <1>2 DEF TakeBatch, Ownership
<1>3. ASSUME NEW c \in Consumers, ClaimBatch(c)
      PROVE  status'[j] = "done" /\ event'[j] = event[j] /\ doneAt'[j] = doneAt[j]
  BY <1>3 DEF ClaimBatch, Ownership
<1>4. ASSUME NEW c \in Consumers, Finish(c)
      PROVE  status'[j] = "done" /\ event'[j] = event[j] /\ doneAt'[j] = doneAt[j]
  BY <1>4 DEF Finish, Ownership, Typed, TypeOK
<1>5. ASSUME NEW c \in Consumers,
             \/ BackOff(c) \/ PrefetchQuery(c) \/ PrefetchAnswer(c) \/ PrefetchFail(c)
             \/ Lookup(c) \/ Answer(c) \/ StoreAlert(c) \/ ScoreRisk(c) \/ Notify(c) \/ Fail(c)
      PROVE  UNCHANGED <<status, event, doneAt>>
  BY <1>5 DEF BackOff, PrefetchQuery, PrefetchAnswer, PrefetchFail, Lookup, Answer, StoreAlert,
              ScoreRisk, Notify, Fail, history
<1>6. CASE Tick \/ Prune \/ (\E p \in Packages : ExpireRow(p)) \/ UNCHANGED vars
  BY <1>6 DEF Tick, Prune, ExpireRow, vars, history
<1> QED
  BY <1>1, <1>2, <1>3, <1>4, <1>5, <1>6 DEF Next, Step

\* A step that completes nothing and may only forget entries that are stale.
LEMMA MemoryShrinks ==
  ASSUME Inv, now' \in Times, now' >= now,
         \A j \in Ids : Completed(j) => Completed(j)' /\ event'[j] = event[j] /\ doneAt'[j] = doneAt[j],
         \A j \in Ids : Completed(j)' => Completed(j),
         \A k \in Keys : processed'[k] \in {processed[k], Never},
         \A k \in CacheKeys : cacheDone'[k] \in {cacheDone[k], Never},
         \A j \in Ids : Completed(j) /\ now' - doneAt[j] < WindowAt(j) =>
           /\ processed'[KeyAt(j)] = processed[KeyAt(j)]
           /\ event[j].src = "cache" =>
                cacheDone'[CacheKeyOf(KeyAt(j))] = cacheDone[CacheKeyOf(KeyAt(j))],
         ClaimsAreNews'
  PROVE  Memory'
<1>1. Evidence'
  BY DEF Inv, Memory, Evidence, KeyAt
<1>2. ASSUME NEW j \in Ids, Completed(j)'
      PROVE  /\ doneAt'[j] \in Times /\ doneAt'[j] <= now'
             /\ now' - doneAt'[j] < WindowAt(j)' =>
                  /\ processed'[KeyAt(j)'] >= doneAt'[j]
                  /\ event'[j].src = "cache" => cacheDone'[CacheKeyOf(KeyAt(j)')] >= doneAt'[j]
  <2>1. Completed(j) /\ event'[j] = event[j] /\ doneAt'[j] = doneAt[j]
    BY <1>2
  <2>2. KeyAt(j)' = KeyAt(j) /\ WindowAt(j)' = WindowAt(j)
    BY <2>1 DEF KeyAt, WindowAt
  <2>3. doneAt[j] \in Times /\ doneAt[j] <= now /\ now \in Times /\ WindowAt(j) \in Nat
    BY <2>1, KeyOfCompleted DEF Inv, Memory, Remembers, Typed, TypeOK
  <2>4. now' - doneAt[j] < WindowAt(j) => now - doneAt[j] < WindowAt(j)
    BY <2>3, BoundsAssumption DEF Times
  <2>5. doneAt[j] <= now'
    BY <2>3, BoundsAssumption DEF Times
  <2> QED BY <2>1, <2>2, <2>3, <2>4, <2>5 DEF Inv, Memory, Remembers
<1>3. Remembers'
  BY <1>2 DEF Remembers
<1> QED BY <1>1, <1>3 DEF Memory

\* The entries that cover a recent completion are fresh.
LEMMA RecentIsFresh ==
  ASSUME Inv, NEW j \in Ids, Completed(j), now - doneAt[j] < WindowAt(j)
  PROVE  /\ Fresh(processed[KeyAt(j)], WindowAt(j))
         /\ event[j].src = "cache" =>
              /\ WindowAt(j) = CacheWindow
              /\ cacheDone[CacheKeyOf(KeyAt(j))] # Never
              /\ Fresh(cacheDone[CacheKeyOf(KeyAt(j))], CacheWindow)
<1>1. /\ KeyAt(j) \in Keys /\ CacheKeyOf(KeyAt(j)) \in CacheKeys /\ WindowAt(j) \in Nat
      /\ event[j] \in Events
  BY KeyOfCompleted DEF Inv
<1>2. /\ processed[KeyAt(j)] \in Times \cup {Never} /\ now \in Times /\ doneAt[j] \in Times
      /\ cacheDone[CacheKeyOf(KeyAt(j))] \in Times \cup {Never}
  BY <1>1 DEF Inv, Typed, TypeOK, Memory, Remembers
<1>3. /\ processed[KeyAt(j)] >= doneAt[j]
      /\ event[j].src = "cache" => cacheDone[CacheKeyOf(KeyAt(j))] >= doneAt[j]
  BY DEF Inv, Memory, Remembers
<1>4. event[j].src = "cache" => WindowAt(j) = CacheWindow
  BY DEF WindowAt, WindowOf
<1> QED
  BY <1>1, <1>2, <1>3, <1>4, BoundsAssumption DEF Fresh, Times, Never

LEMMA PopStaleKeepsRecent ==
  ASSUME Inv, NEW S \in SUBSET Ids, \A i \in S : i <= arrived, PopStale(S)
  PROVE  /\ \A k \in Keys : processed'[k] \in {processed[k], Never}
         /\ \A k \in CacheKeys : cacheDone'[k] \in {cacheDone[k], Never}
         /\ \A j \in Ids : Completed(j) /\ now - doneAt[j] < WindowAt(j) =>
              /\ processed'[KeyAt(j)] = processed[KeyAt(j)]
              /\ event[j].src = "cache" =>
                   cacheDone'[CacheKeyOf(KeyAt(j))] = cacheDone[CacheKeyOf(KeyAt(j))]
<1>1. /\ \A k \in Keys : processed'[k] \in {processed[k], Never}
      /\ \A k \in CacheKeys : cacheDone'[k] \in {cacheDone[k], Never}
  BY DEF PopStale
<1>2. ASSUME NEW j \in Ids, Completed(j), now - doneAt[j] < WindowAt(j)
      PROVE  /\ processed'[KeyAt(j)] = processed[KeyAt(j)]
             /\ event[j].src = "cache" =>
                  cacheDone'[CacheKeyOf(KeyAt(j))] = cacheDone[CacheKeyOf(KeyAt(j))]
  <2>1. /\ KeyAt(j) \in Keys /\ CacheKeyOf(KeyAt(j)) \in CacheKeys /\ event[j] \in Events
        /\ ~Undedupable(event[j])
    BY <1>2, KeyOfCompleted DEF Inv, Completed
  <2>2. \A i \in S : event[i] \in Events
    BY DEF Inv, Typed, Arrivals
  <2>3. \A i \in S : ~Undedupable(event[i]) /\ KeyOf(event[i]) = KeyAt(j) =>
                       WindowOf(event[i].src) = WindowAt(j)
    BY <2>1, <2>2, SourceOfKey DEF KeyAt, WindowAt
  <2>4. processed'[KeyAt(j)] = processed[KeyAt(j)]
    BY <1>2, <2>1, <2>3, RecentIsFresh DEF PopStale
  <2>5. event[j].src = "cache" =>
          cacheDone'[CacheKeyOf(KeyAt(j))] = cacheDone[CacheKeyOf(KeyAt(j))]
    BY <1>2, <2>1, RecentIsFresh DEF PopStale
  <2> QED BY <2>4, <2>5
<1> QED BY <1>1, <1>2

LEMMA PruneKeepsRecent ==
  ASSUME Inv, Prune
  PROVE  /\ \A k \in Keys : processed'[k] \in {processed[k], Never}
         /\ \A k \in CacheKeys : cacheDone'[k] \in {cacheDone[k], Never}
         /\ \A j \in Ids : Completed(j) /\ now - doneAt[j] < WindowAt(j) =>
              /\ processed'[KeyAt(j)] = processed[KeyAt(j)]
              /\ event[j].src = "cache" =>
                   cacheDone'[CacheKeyOf(KeyAt(j))] = cacheDone[CacheKeyOf(KeyAt(j))]
<1>1. /\ \A k \in Keys : processed'[k] \in {processed[k], Never}
      /\ \A k \in CacheKeys : cacheDone'[k] \in {cacheDone[k], Never}
  BY DEF Prune
<1>2. ASSUME NEW j \in Ids, Completed(j), now - doneAt[j] < WindowAt(j)
      PROVE  /\ processed'[KeyAt(j)] = processed[KeyAt(j)]
             /\ event[j].src = "cache" =>
                  cacheDone'[CacheKeyOf(KeyAt(j))] = cacheDone[CacheKeyOf(KeyAt(j))]
  <2>1. /\ KeyAt(j) \in Keys /\ CacheKeyOf(KeyAt(j)) \in CacheKeys /\ event[j] \in Events
    BY <1>2, KeyOfCompleted DEF Inv
  <2>2. Fresh(processed[KeyAt(j)], WindowAt(j))
    BY <1>2, RecentIsFresh
  <2>3. WindowAt(j) <= PruneWindow(KeyAt(j)) /\ WindowAt(j) \in Nat /\ PruneWindow(KeyAt(j)) \in Nat
    BY <1>2, <2>1, RecentIsFresh, EventFields, WindowsAssumption
       DEF PruneWindow, WindowAt, WindowOf
  <2>4. processed[KeyAt(j)] \in Int /\ now \in Int
    BY <2>1, BoundsAssumption DEF Inv, Typed, TypeOK, Times, Never
  <2>5. Fresh(processed[KeyAt(j)], PruneWindow(KeyAt(j)))
    BY <2>2, <2>3, <2>4 DEF Fresh
  <2>6. processed'[KeyAt(j)] = processed[KeyAt(j)]
    BY <2>1, <2>5 DEF Prune
  <2>7. event[j].src = "cache" =>
          cacheDone'[CacheKeyOf(KeyAt(j))] = cacheDone[CacheKeyOf(KeyAt(j))]
    BY <1>2, <2>1, RecentIsFresh DEF Prune
  <2> QED BY <2>6, <2>7
<1> QED BY <1>1, <1>2

\* What a pass claims was not completed within its window.
LEMMA ClaimableIsNews ==
  ASSUME Inv, NEW c \in Consumers, NEW i \in Claimable(c), ~Undedupable(event[i]),
         NEW j \in Ids, Completed(j), KeyAt(j) = KeyAt(i)
  PROVE  now - doneAt[j] >= WindowAt(i)
<1>1. i \in Ids /\ event[i] \in Events /\ event[j] \in Events /\ WindowAt(i) \in Nat
  BY KeyOfCompleted, WindowType DEF Inv, Claimable, Typed, TypeOK, Arrivals, WindowAt
<1>2. WindowAt(i) = WindowAt(j)
  BY <1>1, SourceOfKey DEF Completed, KeyAt, WindowAt
<1>3. ~Fresh(processed[KeyAt(i)], WindowAt(i))
  BY DEF Claimable, Duplicate, KeyAt, WindowAt
<1>4. ~(now - doneAt[j] < WindowAt(j))
  BY <1>2, <1>3, RecentIsFresh
<1>5. now \in Int /\ doneAt[j] \in Int
  BY BoundsAssumption DEF Inv, Typed, TypeOK, Times, Never
<1> QED BY <1>1, <1>2, <1>4, <1>5

LEMMA MemoryInit == Init => Memory
  BY DEF Init, Memory, Evidence, Remembers, ClaimsAreNews, Completed

\* A step that touches neither tables, claims nor completions.
LEMMA MemoryFrame ==
  ASSUME Inv, UNCHANGED <<processed, cacheDone, claimed, now>>,
         \A j \in Ids : Completed(j) => Completed(j)' /\ event'[j] = event[j] /\ doneAt'[j] = doneAt[j],
         \A j \in Ids : Completed(j)' => Completed(j),
         \A c \in Consumers : \A i \in claimed[c] : event'[i] = event[i]
  PROVE  Memory'
<1>1. ClaimsAreNews'
  BY DEF Inv, Memory, ClaimsAreNews, KeyAt, WindowAt
<1> QED BY <1>1, MemoryShrinks DEF Inv, Typed, TypeOK, Times

\* The completion of i by the task that claimed it.
LEMMA MemoryRecords ==
  ASSUME Inv, NEW c \in Consumers, NEW i \in claimed[c], Record(i),
         status' = [status EXCEPT ![i] = "done"], doneAt' = [doneAt EXCEPT ![i] = now],
         claimed' = [claimed EXCEPT ![c] = @ \ {i}], UNCHANGED <<event, now>>
  PROVE  Memory'
<1>1. i \in Ids /\ event[i] \in Events /\ status[i] = "held" /\ now \in Times
  BY DEF Inv, Typed, TypeOK, Arrivals, Ownership
<1>2. \A j \in Ids : Completed(j)' <=> Completed(j) \/ (j = i /\ ~Undedupable(event[i]))
  BY <1>1 DEF Completed, Inv, Typed, TypeOK
<1>3. \A j \in Ids : Completed(j) => j # i /\ doneAt'[j] = doneAt[j]
  BY <1>1 DEF Completed, Inv, Typed, TypeOK
<1>4. doneAt'[i] = now
  BY <1>1 DEF Inv, Typed, TypeOK
<1>5. ~Undedupable(event[i]) => KeyAt(i) \in Keys
  BY <1>1 DEF KeyAt, Keys
<1>6. Evidence'
  <2>1. ASSUME NEW k \in Keys, processed'[k] # Never
        PROVE  \E j \in Ids : Completed(j)' /\ KeyAt(j)' = k /\ doneAt'[j] = processed'[k]
    <3>1. CASE ~Undedupable(event[i]) /\ k = KeyOf(event[i])
      <4>1. processed'[k] = now
        BY <3>1 DEF Record
      <4> QED BY <1>1, <1>2, <1>4, <3>1, <4>1 DEF KeyAt
    <3>2. CASE ~(~Undedupable(event[i]) /\ k = KeyOf(event[i]))
      <4>1. processed'[k] = processed[k]
        BY <3>2 DEF Record
      <4> PICK j \in Ids : Completed(j) /\ KeyAt(j) = k /\ doneAt[j] = processed[k]
        BY <2>1, <4>1 DEF Inv, Memory, Evidence
      <4> QED BY <1>2, <1>3, <4>1 DEF KeyAt
    <3> QED BY <3>1, <3>2
  <2>2. ASSUME NEW k \in CacheKeys, cacheDone'[k] # Never
        PROVE  \E j \in Ids : /\ Completed(j)' /\ event'[j].src = "cache"
                              /\ CacheKeyOf(KeyAt(j)') = k /\ doneAt'[j] = cacheDone'[k]
    <3>1. CASE /\ ~Undedupable(event[i]) /\ event[i].src = "cache"
               /\ k = CacheKeyOf(KeyOf(event[i]))
      <4>1. cacheDone'[k] = now
        BY <3>1 DEF Record
      <4> QED BY <1>1, <1>2, <1>4, <3>1, <4>1 DEF KeyAt
    <3>2. CASE ~(/\ ~Undedupable(event[i]) /\ event[i].src = "cache"
                 /\ k = CacheKeyOf(KeyOf(event[i])))
      <4>1. cacheDone'[k] = cacheDone[k]
        BY <3>2 DEF Record
      <4> PICK j \in Ids : /\ Completed(j) /\ event[j].src = "cache"
                           /\ CacheKeyOf(KeyAt(j)) = k /\ doneAt[j] = cacheDone[k]
        BY <2>2, <4>1 DEF Inv, Memory, Evidence
      <4> QED BY <1>2, <1>3, <4>1 DEF KeyAt
    <3> QED BY <3>1, <3>2
  <2> QED BY <2>1, <2>2 DEF Evidence
<1>7. Remembers'
  <2> SUFFICES ASSUME NEW j \in Ids, Completed(j)'
               PROVE  /\ doneAt'[j] \in Times /\ doneAt'[j] <= now
                      /\ now - doneAt'[j] < WindowAt(j) =>
                           /\ processed'[KeyAt(j)] >= doneAt'[j]
                           /\ event[j].src = "cache" => cacheDone'[CacheKeyOf(KeyAt(j))] >= doneAt'[j]
    BY DEF Remembers, KeyAt, WindowAt
  <2>1. now <= now /\ now >= now
    BY <1>1, BoundsAssumption DEF Times
  <2>2. CASE j = i /\ ~Undedupable(event[i])
    <3>1. processed'[KeyAt(i)] = now
      BY <1>5, <2>2 DEF Record, KeyAt
    <3>2. event[i].src = "cache" => cacheDone'[CacheKeyOf(KeyAt(i))] = now
      BY <1>5, <2>2 DEF Record, KeyAt, CacheKeys
    <3> QED BY <1>1, <1>4, <2>1, <2>2, <3>1, <3>2
  <2>3. CASE Completed(j)
    <3>1. /\ KeyAt(j) \in Keys /\ CacheKeyOf(KeyAt(j)) \in CacheKeys
          /\ doneAt'[j] = doneAt[j] /\ doneAt[j] \in Times /\ doneAt[j] <= now
      BY <1>3, <2>3, KeyOfCompleted DEF Inv, Memory, Remembers
    <3>2. /\ processed'[KeyAt(j)] \in {now, processed[KeyAt(j)]}
          /\ cacheDone'[CacheKeyOf(KeyAt(j))] \in {now, cacheDone[CacheKeyOf(KeyAt(j))]}
      BY <3>1 DEF Record
    <3>3. now >= doneAt[j]
      BY <1>1, <3>1, BoundsAssumption DEF Times
    <3> QED BY <2>3, <3>1, <3>2, <3>3 DEF Inv, Memory, Remembers
  <2> QED BY <1>2, <2>2, <2>3
<1>8. ClaimsAreNews'
  <2> SUFFICES ASSUME NEW d \in Consumers, NEW h \in claimed'[d], NEW j \in Ids,
                      ~Undedupable(event[h]), Completed(j)', KeyAt(j) = KeyAt(h)
               PROVE  now - doneAt'[j] >= WindowAt(h)
    BY DEF ClaimsAreNews, KeyAt, WindowAt
  <2>1. h \in claimed[d]
    BY DEF Inv, Typed, TypeOK
  <2>2. h # i
    BY DEF Inv, Typed, TypeOK, Ownership, Held
  <2>3. ~(j = i /\ ~Undedupable(event[i]))
    BY <2>1, <2>2 DEF Inv, ClaimsExclusive, SameKey, KeyAt
  <2>4. Completed(j) /\ doneAt'[j] = doneAt[j]
    BY <1>2, <1>3, <2>3
  <2> QED BY <2>1, <2>4 DEF Inv, Memory, ClaimsAreNews
<1> QED BY <1>6, <1>7, <1>8 DEF Memory

LEMMA MemoryNext == Inv /\ [Next]_vars => Memory'
<1> SUFFICES ASSUME Inv, [Next]_vars
             PROVE  Memory'
  OBVIOUS
<1>0. \A j \in Ids : Completed(j) => Completed(j)' /\ event'[j] = event[j] /\ doneAt'[j] = doneAt[j]
  BY DoneStable DEF Inv, Completed
<1>1. ASSUME NEW c \in Consumers, NEW e \in Events, Arrive(c, e)
      PROVE  Memory'
  <2>1. \A j \in Ids : Completed(j)' => Completed(j)
    BY <1>1 DEF Arrive, Completed, Inv, Typed, TypeOK
  <2>2. \A d \in Consumers : \A i \in claimed[d] : i # arrived + 1
    BY BoundsAssumption DEF Inv, Typed, Arrivals, TypeOK, Ids
  <2>3. \A d \in Consumers : \A i \in claimed[d] : event'[i] = event[i]
    BY <1>1, <2>2 DEF Arrive, Inv, Typed, TypeOK
  <2> QED BY <1>0, <1>1, <2>1, <2>3, MemoryFrame DEF Arrive, tables
<1>2. ASSUME NEW c \in Consumers, TakeBatch(c)
      PROVE  Memory'
  <2>1. \A j \in Ids : Completed(j)' => Completed(j)
    BY <1>2 DEF TakeBatch, Completed
  <2> QED BY <1>0, <1>2, <2>1, MemoryFrame DEF TakeBatch, tables
<1>3. ASSUME NEW c \in Consumers, ClaimBatch(c)
      PROVE  Memory'
  <2>1. \A j \in Ids : Completed(j)' => Completed(j)
    BY <1>3 DEF ClaimBatch, Completed
  <2>2. /\ PopStale(batch[c]) /\ batch[c] \in SUBSET Ids /\ \A i \in batch[c] : i <= arrived
        /\ claimed' = [claimed EXCEPT ![c] = Claimable(c)] /\ UNCHANGED <<now, event, doneAt>>
    BY <1>3 DEF ClaimBatch, Inv, Typed, TypeOK, Arrivals
  <2>3. ClaimsAreNews'
    <3> SUFFICES ASSUME NEW d \in Consumers, NEW i \in claimed'[d], NEW j \in Ids,
                        ~Undedupable(event[i]), Completed(j), KeyAt(j) = KeyAt(i)
                 PROVE  now - doneAt[j] >= WindowAt(i)
      BY <2>1, <2>2 DEF ClaimsAreNews, KeyAt, WindowAt
    <3>1. CASE d = c
      BY <2>2, <3>1, ClaimableIsNews DEF Inv, Typed, TypeOK
    <3>2. CASE d # c
      BY <2>2, <3>2 DEF Inv, Typed, TypeOK, Memory, ClaimsAreNews
    <3> QED BY <3>1, <3>2
  <2> QED BY <1>0, <2>1, <2>2, <2>3, PopStaleKeepsRecent, MemoryShrinks
             DEF Inv, Typed, TypeOK, Times
<1>4. ASSUME NEW c \in Consumers, BackOff(c)
      PROVE  Memory'
  <2> PICK i \in batch[c] : PopStale({j \in batch[c] : j <= i})
    BY <1>4 DEF BackOff
  <2>1. UNCHANGED <<now, event, doneAt, status, claimed>>
    BY <1>4 DEF BackOff, history
  <2>2. {j \in batch[c] : j <= i} \in SUBSET Ids
        /\ \A j \in {h \in batch[c] : h <= i} : j <= arrived
    BY DEF Inv, Typed, TypeOK, Arrivals
  <2>3. \A j \in Ids : Completed(j)' => Completed(j)
    BY <2>1 DEF Completed
  <2>4. ClaimsAreNews'
    BY <2>1 DEF ClaimsAreNews, Completed, KeyAt, WindowAt, Inv, Memory
  <2> QED BY <1>0, <2>1, <2>2, <2>3, <2>4, PopStaleKeepsRecent, MemoryShrinks
             DEF Inv, Typed, TypeOK, Times
<1>5. ASSUME NEW c \in Consumers, Finish(c)
      PROVE  Memory'
  <2> PICK i \in claimed[c] :
        /\ IF Authoritative(verdict[c])
           THEN /\ Record(i)
                /\ status' = [status EXCEPT ![i] = "done"]
                /\ doneAt' = [doneAt EXCEPT ![i] = now]
           ELSE /\ status' = [status EXCEPT ![i] = "unresolved"]
                /\ UNCHANGED <<processed, cacheDone, doneAt>>
        /\ claimed' = [claimed EXCEPT ![c] = @ \ {i}]
    BY <1>5 DEF Finish
  <2>1. UNCHANGED <<event, now>>
    BY <1>5 DEF Finish
  <2>2. CASE Authoritative(verdict[c])
    BY <2>1, <2>2, MemoryRecords
  <2>3. CASE ~Authoritative(verdict[c])
    <3>1. \A j \in Ids : Completed(j)' => Completed(j)
      BY <2>1, <2>3 DEF Completed, Inv, Typed, TypeOK
    <3>2. \A d \in Consumers : claimed'[d] \subseteq claimed[d]
      BY DEF Inv, Typed, TypeOK
    <3>3. ClaimsAreNews'
      BY <2>1, <2>3, <3>1, <3>2 DEF ClaimsAreNews, KeyAt, WindowAt, Inv, Memory
    <3> QED BY <1>0, <2>1, <2>3, <3>1, <3>3, MemoryShrinks DEF Inv, Typed, TypeOK, Times
  <2> QED BY <2>2, <2>3
<1>6. ASSUME NEW c \in Consumers,
             \/ PrefetchQuery(c) \/ PrefetchAnswer(c) \/ PrefetchFail(c) \/ Lookup(c)
             \/ Answer(c) \/ StoreAlert(c) \/ ScoreRisk(c) \/ Notify(c) \/ Fail(c)
      PROVE  Memory'
  <2>1. UNCHANGED <<processed, cacheDone, claimed, now, event, status, doneAt>>
    BY <1>6 DEF PrefetchQuery, PrefetchAnswer, PrefetchFail, Lookup, Answer, StoreAlert,
                ScoreRisk, Notify, Fail, tables, history
  <2> QED BY <1>0, <2>1, MemoryFrame DEF Completed
<1>7. CASE Tick
  <2>1. UNCHANGED <<processed, cacheDone, claimed, event, status, doneAt>> /\ now' = now + 1
    BY <1>7 DEF Tick, tables, tasks, history
  <2>2. now \in Nat /\ now' \in Times /\ now' >= now
    BY <1>7, BoundsAssumption DEF Tick, Inv, Typed, TypeOK, Times
  <2>3. \A j \in Ids : Completed(j)' => Completed(j)
    BY <2>1 DEF Completed
  <2>4. ClaimsAreNews'
    <3> SUFFICES ASSUME NEW d \in Consumers, NEW i \in claimed[d], NEW j \in Ids,
                        ~Undedupable(event[i]), Completed(j), KeyAt(j) = KeyAt(i)
                 PROVE  now' - doneAt[j] >= WindowAt(i)
      BY <2>1 DEF ClaimsAreNews, Completed, KeyAt, WindowAt
    <3>1. now - doneAt[j] >= WindowAt(i) /\ doneAt[j] \in Int
      BY BoundsAssumption DEF Inv, Memory, ClaimsAreNews, Remembers, Times
    <3>2. WindowAt(i) \in Nat
      BY WindowType DEF Inv, Typed, TypeOK, Arrivals, WindowAt
    <3> QED BY <2>1, <2>2, <3>1, <3>2
  <2> QED BY <1>0, <2>1, <2>2, <2>3, <2>4, MemoryShrinks
<1>8. CASE Prune
  <2>1. UNCHANGED <<claimed, event, status, doneAt, now>>
    BY <1>8 DEF Prune, tasks, history
  <2>2. \A j \in Ids : Completed(j)' => Completed(j)
    BY <2>1 DEF Completed
  <2>3. ClaimsAreNews'
    BY <2>1 DEF ClaimsAreNews, Completed, KeyAt, WindowAt, Inv, Memory
  <2> QED BY <1>0, <1>8, <2>1, <2>2, <2>3, PruneKeepsRecent, MemoryShrinks
             DEF Inv, Typed, TypeOK, Times
<1>9. CASE (\E p \in Packages : ExpireRow(p)) \/ UNCHANGED vars
  <2>1. UNCHANGED <<processed, cacheDone, claimed, now, event, status, doneAt>>
    BY <1>9 DEF ExpireRow, vars, tasks, tables, history
  <2> QED BY <1>0, <2>1, MemoryFrame DEF Completed
<1> QED
  BY <1>1, <1>2, <1>3, <1>4, <1>5, <1>6, <1>7, <1>8, <1>9 DEF Next, Step

LEMMA InvInit == Init => Inv
  BY TypedInit, OwnershipInit, ClaimsInit, MemoryInit DEF Inv

LEMMA InvNext == Inv /\ [Next]_vars => Inv'
  BY TypedNext, OwnershipNext, ClaimsNext, MemoryNext DEF Inv

\* The inductive invariant behind the theorems below.
THEOREM Invariance == Spec => []Inv
  BY InvInit, InvNext, PTL DEF Spec

-----------------------------------------------------------------------------
(* What follows from the invariant. *)

LEMMA SameInstallSameKey ==
  ASSUME NEW i, NEW j, SameInstall(i, j)
  PROVE  KeyAt(i) = KeyAt(j)
  BY DEF SameInstall, KeyAt, KeyOf

LEMMA DropStep == Inv /\ [Next]_vars => \A i \in Ids : DropJustified(i)
<1> SUFFICES ASSUME Inv, [Next]_vars, NEW i \in Ids, status[i] # "dropped", status'[i] = "dropped"
             PROVE  \E j \in Ids : /\ SameInstall(i, j) /\ status[j] = "done"
                                   /\ now - doneAt[j] < WindowAt(i)
  BY DEF DropJustified, WindowAt
<1>0. status'[i] # status[i]
  OBVIOUS
<1>a. ASSUME NEW c \in Consumers, Finish(c) \/ TakeBatch(c)
      PROVE  FALSE
  BY <1>a, <1>0 DEF Finish, TakeBatch, Inv, Typed, TypeOK
<1>b. ASSUME NEW c \in Consumers, NEW e \in Events, Arrive(c, e)
      PROVE  FALSE
  BY <1>b, <1>0 DEF Arrive, Inv, Typed, TypeOK
<1>c. ASSUME NEW c \in Consumers,
             \/ BackOff(c) \/ PrefetchQuery(c) \/ PrefetchAnswer(c) \/ PrefetchFail(c)
             \/ Lookup(c) \/ Answer(c) \/ StoreAlert(c) \/ ScoreRisk(c) \/ Notify(c) \/ Fail(c)
      PROVE  FALSE
  BY <1>c, <1>0 DEF BackOff, PrefetchQuery, PrefetchAnswer, PrefetchFail, Lookup, Answer,
                    StoreAlert, ScoreRisk, Notify, Fail, history
<1>d. ASSUME Tick \/ Prune \/ (\E p \in Packages : ExpireRow(p)) \/ UNCHANGED vars
      PROVE  FALSE
  BY <1>d, <1>0 DEF Tick, Prune, ExpireRow, vars, history
<1>1. PICK c \in Consumers : ClaimBatch(c)
  BY <1>a, <1>b, <1>c, <1>d DEF Next, Step
<1>2. i \in batch[c] /\ Duplicate(event[i]) /\ event[i] \in Events
  BY <1>1 DEF ClaimBatch, Claimable, Inv, Typed, Arrivals, TypeOK
<1>3. ~Undedupable(event[i]) /\ KeyAt(i) \in Keys /\ CacheKeyOf(KeyAt(i)) \in CacheKeys
  BY <1>2 DEF Duplicate, KeyAt, Keys, CacheKeys
<1>4. CASE Fresh(processed[KeyAt(i)], WindowAt(i))
  <2> PICK j \in Ids : Completed(j) /\ KeyAt(j) = KeyAt(i) /\ doneAt[j] = processed[KeyAt(i)]
    BY <1>3, <1>4 DEF Fresh, Inv, Memory, Evidence
  <2>1. SameInstall(i, j)
    BY DEF SameInstall, KeyAt, KeyOf
  <2> QED BY <1>4, <2>1 DEF Fresh, Completed
<1>5. CASE event[i].src = "cache" /\ Fresh(cacheDone[CacheKeyOf(KeyAt(i))], WindowAt(i))
  <2> PICK j \in Ids : /\ Completed(j) /\ event[j].src = "cache"
                       /\ CacheKeyOf(KeyAt(j)) = CacheKeyOf(KeyAt(i))
                       /\ doneAt[j] = cacheDone[CacheKeyOf(KeyAt(i))]
    BY <1>3, <1>5 DEF Fresh, Inv, Memory, Evidence
  <2>1. event[j] \in Events
    BY KeyOfCompleted DEF Inv
  <2>2. event[i].dir = event[j].dir
    BY <1>2, <1>5, <2>1, EventFields
  <2>3. SameInstall(i, j)
    BY <2>2 DEF SameInstall, KeyAt, KeyOf, CacheKeyOf
  <2> QED BY <1>5, <2>3 DEF Fresh, Completed
<1> QED BY <1>2, <1>4, <1>5 DEF Duplicate, KeyAt, WindowAt

\* An observation is dropped only against a completed evaluation of the same
\* install, recent enough for its source.
THEOREM DropsAreJustified == Spec => DropsOnlyEvaluated
  BY Invariance, DropStep, PTL DEF Spec, DropsOnlyEvaluated

LEMMA RememberStep == Inv /\ [Next]_vars => \A i \in Ids : StaysRemembered(i)
<1> SUFFICES ASSUME Inv, [Next]_vars, NEW j \in Ids, Completed(j),
                    now - doneAt[j] < WindowAt(j)
             PROVE  /\ processed'[KeyAt(j)] # Never
                    /\ event[j].src = "cache" => cacheDone'[CacheKeyOf(KeyAt(j))] # Never
  BY DEF StaysRemembered, Completed, KeyAt, WindowAt
<1>1. CASE UNCHANGED <<processed, cacheDone>>
  BY <1>1, RecentIsFresh DEF Fresh
<1>2. CASE now' = now
  <2>1. Completed(j)' /\ event'[j] = event[j] /\ doneAt'[j] = doneAt[j] /\ Inv'
    BY DoneStable, InvNext DEF Inv, Completed
  <2>2. Remembers' /\ now' - doneAt'[j] < WindowAt(j)' /\ KeyAt(j)' = KeyAt(j)
    BY <1>2, <2>1 DEF Inv, Memory, WindowAt, KeyAt
  <2>3. doneAt[j] \in Nat /\ doneAt'[j] = doneAt[j]
    BY <2>1, BoundsAssumption DEF Inv, Memory, Remembers, Times
  <2> QED BY <2>1, <2>2, <2>3 DEF Remembers, Never
<1>3. CASE Tick
  BY <1>1, <1>3 DEF Tick, tables
<1>4. ASSUME NEW c \in Consumers, Step(c) \/ PrefetchFail(c) \/ Fail(c)
      PROVE  now' = now
  BY <1>4 DEF Step, TakeBatch, ClaimBatch, BackOff, PrefetchQuery, PrefetchAnswer, PrefetchFail,
              Lookup, Answer, StoreAlert, ScoreRisk, Notify, Fail, Finish
<1>5. CASE \/ \E c \in Consumers : \E e \in Events : Arrive(c, e)
           \/ \E p \in Packages : ExpireRow(p)
           \/ Prune \/ UNCHANGED vars
  BY <1>2, <1>5 DEF Arrive, ExpireRow, Prune, vars
<1> QED
  BY <1>2, <1>3, <1>4, <1>5 DEF Next

\* No completion is forgotten within the window of the source that recorded it.
THEOREM CompletionsAreKept == Spec => ForgetsOnlyStale
  BY Invariance, RememberStep, PTL DEF Spec, ForgetsOnlyStale

LEMMA OneEvaluationNext ==
  Inv /\ OneEvaluationPerWindow /\ [Next]_vars => OneEvaluationPerWindow'
<1> SUFFICES ASSUME Inv, OneEvaluationPerWindow, [Next]_vars,
                    NEW i \in Ids, NEW j \in Ids, i < j,
                    status'[i] = "done", status'[j] = "done", ~Undedupable(event'[i]),
                    SameInstall(i, j)', event'[i].src = event'[j].src
             PROVE  \/ doneAt'[j] - doneAt'[i] >= WindowAt(i)'
                    \/ doneAt'[i] - doneAt'[j] >= WindowAt(i)'
  BY DEF OneEvaluationPerWindow, WindowAt
<1>1. CASE status[i] = "done" /\ status[j] = "done"
  <2>1. event'[i] = event[i] /\ event'[j] = event[j]
        /\ doneAt'[i] = doneAt[i] /\ doneAt'[j] = doneAt[j]
    BY <1>1, DoneStable DEF Inv
  <2> QED BY <1>1, <2>1 DEF OneEvaluationPerWindow, SameInstall, WindowAt
<1>2. CASE status[i] # "done" \/ status[j] # "done"
  <2>1. PICK c \in Consumers : Finish(c)
    BY <1>2 DEF Next, Step, Arrive, TakeBatch, ClaimBatch, BackOff, PrefetchQuery,
         PrefetchAnswer, PrefetchFail, Lookup, Answer, StoreAlert, ScoreRisk, Notify, Fail,
         ExpireRow, Tick, Prune, vars, history, Inv, Typed, TypeOK
  <2> PICK h \in claimed[c] :
        IF Authoritative(verdict[c])
        THEN /\ status' = [status EXCEPT ![h] = "done"]
             /\ doneAt' = [doneAt EXCEPT ![h] = now]
        ELSE status' = [status EXCEPT ![h] = "unresolved"]
    BY <2>1 DEF Finish
  <2>2. event' = event /\ h \in Ids
    BY <2>1 DEF Finish, Inv, Typed, TypeOK
  <2>3. /\ status' = [status EXCEPT ![h] = "done"] /\ doneAt' = [doneAt EXCEPT ![h] = now]
        /\ (h = i \/ h = j)
    BY <1>2, <2>2 DEF Inv, Typed, TypeOK
  <2>4. doneAt'[h] = now /\ \A g \in Ids \ {h} : doneAt'[g] = doneAt[g] /\ status'[g] = status[g]
    BY <2>2, <2>3 DEF Inv, Typed, TypeOK
  <2>5. i # j /\ KeyAt(i) = KeyAt(j) /\ ~Undedupable(event[i]) /\ ~Undedupable(event[j])
        /\ WindowAt(i)' = WindowAt(i) /\ WindowAt(i) = WindowAt(j)
    BY <2>2, BoundsAssumption DEF SameInstall, KeyAt, KeyOf, Undedupable, WindowAt, Ids
  <2>6. CASE h = i
    BY <2>4, <2>5, <2>6 DEF Inv, Memory, ClaimsAreNews, Completed
  <2>7. CASE h = j
    BY <2>4, <2>5, <2>7 DEF Inv, Memory, ClaimsAreNews, Completed
  <2> QED BY <2>3, <2>6, <2>7
<1> QED BY <1>1, <1>2

\* One install is evaluated to an authoritative end once per window.
THEOREM EvaluatedOncePerWindow == Spec => []OneEvaluationPerWindow
<1>1. Init => OneEvaluationPerWindow
  BY DEF Init, OneEvaluationPerWindow
<1> QED
  BY <1>1, Invariance, OneEvaluationNext, PTL DEF Spec

-----------------------------------------------------------------------------
(* The pipeline implements the ledger of installs. *)

\* A step that keeps recent completions keeps what the ledger remembers.
LEMMA KeepsRecentKeepsMemory ==
  ASSUME Inv, NEW k \in Keys, Ledger!Remembered(k),
         \A j \in Ids : Completed(j) /\ now - doneAt[j] < WindowAt(j) =>
           processed'[KeyAt(j)] = processed[KeyAt(j)]
  PROVE  processed'[k] = processed[k]
<1> PICK j \in Ids : Completed(j) /\ KeyAt(j) = k /\ doneAt[j] = processed[k]
  BY DEF Ledger!Remembered, Inv, Memory, Evidence
<1>1. event[j] \in Events /\ ~Undedupable(event[j])
  BY KeyOfCompleted DEF Inv, Completed
<1>2. WindowAt(j) = IF k.proc = NoProc THEN CacheWindow ELSE ProcWindow
  BY <1>1, EventFields DEF WindowAt, WindowOf, KeyAt, KeyOf, Undedupable
<1> QED BY <1>2 DEF Ledger!Remembered

LEMMA LedgerForgets ==
  ASSUME Inv, processed' = [k \in Keys |-> processed'[k]],
         \A k \in Keys : processed'[k] \in {processed[k], Never},
         \A j \in Ids : Completed(j) /\ now - doneAt[j] < WindowAt(j) =>
           processed'[KeyAt(j)] = processed[KeyAt(j)]
  PROVE  \E F \in SUBSET {k \in Keys : ~Ledger!Remembered(k)} : Ledger!Forgetting(F)
<1> DEFINE F == {k \in Keys : ~Ledger!Remembered(k) /\ processed'[k] = Never}
<1>1. \A k \in Keys : processed'[k] = IF k \in F THEN Never ELSE processed[k]
  BY KeepsRecentKeepsMemory
<1>2. processed' = [k \in Keys |-> IF k \in F THEN Never ELSE processed[k]]
  BY <1>1
<1>3. F \in SUBSET {k \in Keys : ~Ledger!Remembered(k)}
  OBVIOUS
<1> HIDE DEF F
<1> QED BY <1>2, <1>3 DEF Ledger!Forgetting

LEMMA LedgerStep == Inv /\ [Next]_vars => [Ledger!Next]_(Ledger!ledger)
<1> SUFFICES ASSUME Inv, [Next]_vars
             PROVE  Ledger!Next \/ UNCHANGED <<inFlight, processed, now>>
  BY DEF Ledger!ledger
<1>1. ASSUME NEW c \in Consumers, ClaimBatch(c)
      PROVE  Ledger!Next
  <2> DEFINE S == KeysAt(Claimable(c))
  <2>1. /\ PopStale(batch[c]) /\ batch[c] \in SUBSET Ids /\ \A i \in batch[c] : i <= arrived
        /\ inFlight' = inFlight \cup S /\ now' = now
        /\ \A i \in batch[c] : ~Contested(c, i)
    BY <1>1 DEF ClaimBatch, Inv, Typed, TypeOK, Arrivals
  <2>2. S \subseteq Keys
    <3>1. Claimable(c) \in SUBSET Ids /\ \A i \in Claimable(c) : i <= arrived
      BY <2>1 DEF Claimable
    <3> QED BY <3>1, KeysAtType DEF Inv, Typed
  <2>3. S \cap inFlight = {}
    BY <2>1, UncontestedKeys DEF Inv, Typed
  <2>4. ASSUME NEW k \in S
        PROVE  ~Ledger!Remembered(k)
    <3> PICK i \in Claimable(c) : ~Undedupable(event[i]) /\ KeyOf(event[i]) = k
      BY DEF KeysAt
    <3>1. event[i] \in Events
      BY <2>1 DEF Claimable, Inv, Typed, Arrivals
    <3>2. WindowOf(event[i].src) = IF k.proc = NoProc THEN CacheWindow ELSE ProcWindow
      BY <3>1, EventFields DEF WindowOf, KeyOf, Undedupable
    <3>3. ~Fresh(processed[k], WindowOf(event[i].src))
      BY DEF Claimable, Duplicate
    <3> QED BY <2>2, <3>2, <3>3 DEF Fresh, Ledger!Remembered
  <2>5. \E F \in SUBSET {k \in Keys : ~Ledger!Remembered(k)} : Ledger!Forgetting(F)
    <3>1. processed' = [k \in Keys |-> processed'[k]]
      BY <2>1 DEF PopStale
    <3> QED BY <2>1, <3>1, PopStaleKeepsRecent, LedgerForgets
  <2> HIDE DEF S
  <2>6. Ledger!Begin(S)
    BY <2>1, <2>3, <2>4, <2>5 DEF Ledger!Begin
  <2> QED BY <2>2, <2>6 DEF Ledger!Next
<1>2. ASSUME NEW c \in Consumers, BackOff(c)
      PROVE  Ledger!Next
  <2> PICK i \in batch[c] : PopStale({j \in batch[c] : j <= i})
    BY <1>2 DEF BackOff
  <2>1. {j \in batch[c] : j <= i} \in SUBSET Ids
        /\ \A j \in {h \in batch[c] : h <= i} : j <= arrived
    BY DEF Inv, Typed, TypeOK, Arrivals
  <2>2. processed' = [k \in Keys |-> processed'[k]]
    BY DEF PopStale
  <2>3. \E F \in SUBSET {k \in Keys : ~Ledger!Remembered(k)} : Ledger!Forgetting(F)
    BY <2>1, <2>2, PopStaleKeepsRecent, LedgerForgets
  <2>4. Ledger!Forget
    BY <1>2, <2>3 DEF BackOff, Ledger!Forget
  <2> QED BY <2>4 DEF Ledger!Next
<1>3. ASSUME Prune
      PROVE  Ledger!Next
  <2>1. processed' = [k \in Keys |-> processed'[k]]
    BY <1>3 DEF Prune
  <2>2. \E F \in SUBSET {k \in Keys : ~Ledger!Remembered(k)} : Ledger!Forgetting(F)
    BY <1>3, <2>1, PruneKeepsRecent, LedgerForgets
  <2>3. Ledger!Forget
    BY <1>3, <2>2 DEF Prune, Ledger!Forget
  <2> QED BY <2>3 DEF Ledger!Next
<1>4. ASSUME NEW c \in Consumers, Finish(c)
      PROVE  Ledger!Next \/ UNCHANGED <<inFlight, processed, now>>
  <2> PICK i \in claimed[c] :
        /\ IF Authoritative(verdict[c]) THEN Record(i) ELSE UNCHANGED processed
        /\ inFlight' = inFlight \ Released(c, i)
    BY <1>4 DEF Finish
  <2>1. now' = now /\ i \in Ids /\ event[i] \in Events
    BY <1>4 DEF Finish, Inv, Typed, TypeOK, Arrivals
  <2>2. processed \in [Keys -> Times \cup {Never}]
    BY DEF Inv, Typed, TypeOK
  <2>3. CASE Undedupable(event[i])
    <3>1. inFlight' = inFlight
      BY <2>3 DEF Released, KeysAt
    <3>2. processed' = processed
      BY <2>2, <2>3 DEF Record
    <3> QED BY <2>1, <3>1, <3>2
  <2>4. CASE ~Undedupable(event[i])
    <3> DEFINE k == KeyOf(event[i])
    <3>1. k \in Keys /\ k \in inFlight
      BY <2>1, <2>4 DEF Keys, Inv, ClaimsExclusive, KeysAt
    <3>2. Released(c, i) = {k}
      BY <2>4 DEF Released, KeysAt
    <3>3. UNCHANGED processed \/ processed' = [processed EXCEPT ![k] = now]
      BY <2>2, <2>4 DEF Record
    <3> HIDE DEF k
    <3>4. Ledger!End(k)
      BY <2>1, <3>1, <3>2, <3>3 DEF Ledger!End
    <3> QED BY <3>1, <3>4 DEF Ledger!Next
  <2> QED BY <2>3, <2>4
<1>5. ASSUME Tick
      PROVE  Ledger!Next
  BY <1>5 DEF Tick, tables, Ledger!Next, Ledger!Tick
<1>6. ASSUME NEW c \in Consumers,
             \/ TakeBatch(c) \/ PrefetchQuery(c) \/ PrefetchAnswer(c) \/ PrefetchFail(c)
             \/ Lookup(c) \/ Answer(c) \/ StoreAlert(c) \/ ScoreRisk(c) \/ Notify(c) \/ Fail(c)
      PROVE  UNCHANGED <<inFlight, processed, now>>
  BY <1>6 DEF TakeBatch, PrefetchQuery, PrefetchAnswer, PrefetchFail, Lookup, Answer,
              StoreAlert, ScoreRisk, Notify, Fail, tables
<1>7. ASSUME \/ \E c \in Consumers : \E e \in Events : Arrive(c, e)
             \/ \E p \in Packages : ExpireRow(p)
             \/ UNCHANGED vars
      PROVE  UNCHANGED <<inFlight, processed, now>>
  BY <1>7 DEF Arrive, ExpireRow, vars, tables
<1> QED
  BY <1>1, <1>2, <1>3, <1>4, <1>5, <1>6, <1>7 DEF Next, Step

\* The daemon's tables implement the abstract ledger: every step of every task
\* begins, ends or forgets evaluations, or leaves the ledger alone.
THEOREM ImplementsLedger == Spec => LedgerSpec
<1>1. Init => Ledger!Init
  BY DEF Init, Ledger!Init
<1> QED
  BY <1>1, Invariance, LedgerStep, PTL DEF Spec, LedgerSpec, Ledger!Spec

-----------------------------------------------------------------------------
(* Nothing malicious is laid to rest in silence. *)

\* A public observation of a package OSV lists as malicious.
Accusable(i) == event[i].public /\ event[i].pkg \in Malicious

Alerted(i) == Row(i, "advisory") \in alerts

\* What a task knows of the observation it evaluates.
VerdictsSound ==
  /\ OutageNotCached
  /\ \A c \in Consumers : \A i \in Ids : IsNext(c, i) =>
       /\ pc[c] \in {"store", "score", "notify", "finish"} /\ Accusable(i)
          => verdict[c] \in {"malicious", "degraded", "partial", "error"}
       /\ pc[c] = "score" => verdict[c] # "malicious"
       /\ pc[c] \in {"notify", "finish"} /\ verdict[c] = "malicious" => Alerted(i)

\* What became of the settled observations.
OutcomesSound ==
  /\ \A i \in Ids : status[i] = "done" /\ Accusable(i) => Alerted(i)
  /\ \A i \in Ids : status[i] = "dropped" =>
       \E j \in Ids : SameInstall(i, j) /\ status[j] = "done"

Sound == VerdictsSound /\ OutcomesSound

LEMMA SoundInit == Init => Sound
  BY DEF Init, Sound, VerdictsSound, OutcomesSound, OutageNotCached, IsNext

LEMMA CachedIsTrue ==
  ASSUME OutageNotCached, NEW T, osvCache' = Cached(T)
  PROVE  OutageNotCached'
  BY DEF OutageNotCached, Cached, Verdict

\* The steps of one evaluation: outcomes stay, and only c's verdict moves.
LEMMA VerdictFrame ==
  ASSUME Inv, Sound, NEW c \in Consumers, OutageNotCached',
         UNCHANGED <<event, claimed>>, alerts \subseteq alerts',
         \A d \in Consumers \ {c} : pc'[d] = pc[d] /\ verdict'[d] = verdict[d],
         \A i \in Ids : IsNext(c, i) =>
           /\ pc'[c] \in {"store", "score", "notify", "finish"} /\ Accusable(i)
              => verdict'[c] \in {"malicious", "degraded", "partial", "error"}
           /\ pc'[c] = "score" => verdict'[c] # "malicious"
           /\ pc'[c] \in {"notify", "finish"} /\ verdict'[c] = "malicious" => Alerted(i)'
  PROVE  VerdictsSound'
<1>1. ASSUME NEW d \in Consumers, NEW i \in Ids, IsNext(d, i)'
      PROVE  /\ pc'[d] \in {"store", "score", "notify", "finish"} /\ Accusable(i)'
                => verdict'[d] \in {"malicious", "degraded", "partial", "error"}
             /\ pc'[d] = "score" => verdict'[d] # "malicious"
             /\ pc'[d] \in {"notify", "finish"} /\ verdict'[d] = "malicious" => Alerted(i)'
  <2>1. IsNext(d, i) /\ (Accusable(i)' <=> Accusable(i)) /\ (Alerted(i) => Alerted(i)')
    BY <1>1 DEF IsNext, Accusable, Alerted, Row
  <2>2. CASE d = c
    BY <2>1, <2>2
  <2>3. CASE d # c
    BY <2>1, <2>3 DEF Sound, VerdictsSound
  <2> QED BY <2>2, <2>3
<1> QED BY <1>1 DEF VerdictsSound

LEMMA OutcomesFrame ==
  ASSUME Sound, UNCHANGED <<event, status>>, alerts \subseteq alerts'
  PROVE  OutcomesSound'
  BY DEF Sound, OutcomesSound, Accusable, Alerted, Row, SameInstall

LEMMA OutcomesCarry ==
  ASSUME Sound, UNCHANGED event, alerts \subseteq alerts',
         \A j \in Ids : status'[j] = "done" <=> status[j] = "done",
         \A j \in Ids : status'[j] = "dropped" =>
           \E h \in Ids : SameInstall(j, h) /\ status[h] = "done"
  PROVE  OutcomesSound'
<1>1. \A j \in Ids : status'[j] = "done" /\ Accusable(j)' => Alerted(j)'
  BY DEF Sound, OutcomesSound, Accusable, Alerted, Row
<1>2. \A j \in Ids : status'[j] = "dropped" =>
        \E h \in Ids : SameInstall(j, h)' /\ status'[h] = "done"
  BY DEF SameInstall
<1> QED BY <1>1, <1>2 DEF OutcomesSound

LEMMA KnownVerdictsSound ==
  ASSUME Inv, Sound, NEW c \in Consumers, NEW i \in claimed[c],
         Accusable(i)
  PROVE  KnownVerdicts(c, event[i]) \subseteq {"malicious", "degraded", "partial"}
<1>1. event[i] \in Events
  BY DEF Inv, Typed, TypeOK, Arrivals
<1>2. event[i].pkg \in Packages /\ event[i].public
  BY <1>1, EventFields DEF Accusable
<1>3. osvCache[event[i].pkg] \in {"none", "malicious"}
  BY <1>2 DEF Sound, VerdictsSound, OutageNotCached, Verdict, Accusable
<1> QED BY <1>2, <1>3 DEF KnownVerdicts, DegradedVerdicts

LEMMA UniqueNext ==
  ASSUME Typed, NEW c \in Consumers, NEW i, NEW j, IsNext(c, i), IsNext(c, j)
  PROVE  i = j /\ i \in Ids /\ i \in claimed[c]
<1>1. i \in Ids /\ j \in Ids /\ i <= j /\ j <= i
  BY DEF IsNext, Typed, TypeOK
<1> QED BY <1>1, BoundsAssumption DEF Ids, IsNext

LEMMA SoundNext == Inv /\ Sound /\ [Next]_vars => Sound'
<1> SUFFICES ASSUME Inv, Sound, [Next]_vars
             PROVE  VerdictsSound' /\ OutcomesSound'
  BY DEF Sound
<1>1. ASSUME NEW c \in Consumers, NEW e \in Events, Arrive(c, e)
      PROVE  VerdictsSound' /\ OutcomesSound'
  <2>1. \A j \in Ids : j <= arrived => event'[j] = event[j] /\ status'[j] = status[j]
    BY <1>1, BoundsAssumption DEF Arrive, Inv, Typed, TypeOK, Ids
  <2>2. \A d \in Consumers : \A j \in claimed[d] : event'[j] = event[j]
    BY <2>1 DEF Inv, Typed, TypeOK, Arrivals
  <2>3. UNCHANGED <<claimed, pc, verdict, osvCache, alerts>>
    BY <1>1 DEF Arrive, tables
  <2>4. VerdictsSound'
    BY <2>2, <2>3 DEF Sound, VerdictsSound, OutageNotCached, IsNext, Accusable, Alerted, Row
  <2>5. \A j \in Ids : status'[j] \in {"done", "dropped"} => status[j] = status'[j] /\ j <= arrived
    <3>1. \A j \in Ids : status'[j] = status[j] \/ status'[j] = "queued"
      BY <1>1 DEF Arrive, Inv, Typed, TypeOK
    <3> QED BY <3>1, CompletedIsObserved DEF Inv
  <2>6. \A j \in Ids : status[j] = "done" => j <= arrived
    BY CompletedIsObserved DEF Inv
  <2>7. OutcomesSound'
    BY <2>1, <2>3, <2>5, <2>6 DEF Sound, OutcomesSound, Accusable, Alerted, Row, SameInstall
  <2> QED BY <2>4, <2>7
<1>2. ASSUME NEW c \in Consumers, TakeBatch(c)
      PROVE  VerdictsSound' /\ OutcomesSound'
  <2>1. UNCHANGED <<event, claimed, verdict, osvCache, alerts>> /\ pc' = [pc EXCEPT ![c] = "claim"]
    BY <1>2 DEF TakeBatch, tables
  <2>2. VerdictsSound'
    BY <2>1, VerdictFrame DEF OutageNotCached, Sound, VerdictsSound, Inv, Typed, TypeOK
  <2>a. \A j \in Ids : /\ status'[j] = status[j] \/ j \in queue[c]
                       /\ j \in queue[c] => status[j] = "queued" /\ status'[j] \in {"merged", "held"}
    BY <1>2 DEF TakeBatch, Inv, Ownership
  <2>3. \A j \in Ids : /\ status'[j] = "done" <=> status[j] = "done"
                       /\ status'[j] = "dropped" => status[j] = "dropped"
    BY <2>a
  <2>4. \A j \in Ids : status'[j] = "dropped" => \E h \in Ids : SameInstall(j, h) /\ status[h] = "done"
    BY <2>3 DEF Sound, OutcomesSound
  <2>5. OutcomesSound'
    BY <2>1, <2>3, <2>4, OutcomesCarry
  <2> QED BY <2>2, <2>5
<1>3. ASSUME NEW c \in Consumers, ClaimBatch(c)
      PROVE  VerdictsSound' /\ OutcomesSound'
  <2>1. /\ UNCHANGED <<event, verdict, osvCache, alerts>> /\ pc' = [pc EXCEPT ![c] = "prefetch"]
        /\ claimed' = [claimed EXCEPT ![c] = Claimable(c)]
    BY <1>3 DEF ClaimBatch
  <2>2. \A d \in Consumers \ {c} : pc'[d] = pc[d] /\ claimed'[d] = claimed[d]
    BY <2>1 DEF Inv, Typed, TypeOK
  <2>3. pc'[c] = "prefetch"
    BY <2>1 DEF Inv, Typed, TypeOK
  <2>4. VerdictsSound'
    BY <2>1, <2>2, <2>3 DEF Sound, VerdictsSound, OutageNotCached, IsNext, Accusable, Alerted, Row
  <2>5. \A j \in Ids : status'[j] = "done" <=> status[j] = "done"
    BY <1>3 DEF ClaimBatch, Inv, Ownership
  <2>6. \A j \in Ids : status'[j] = "dropped" => \E h \in Ids : SameInstall(j, h) /\ status[h] = "done"
    BY <1>3, DropStep DEF DropJustified, Sound, OutcomesSound
  <2>7. OutcomesSound'
    BY <2>1, <2>5, <2>6, OutcomesCarry
  <2> QED BY <2>4, <2>7
<1>4. ASSUME NEW c \in Consumers, BackOff(c)
      PROVE  VerdictsSound' /\ OutcomesSound'
  <2>1. UNCHANGED <<event, claimed, verdict, osvCache, alerts, status>>
    BY <1>4 DEF BackOff, history
  <2>2. VerdictsSound'
    <3>1. \A d \in Consumers : pc'[d] = pc[d] \/ pc'[d] = "wait"
      BY <1>4 DEF BackOff, Inv, Typed, TypeOK
    <3> QED BY <2>1, <3>1 DEF Sound, VerdictsSound, OutageNotCached, IsNext, Accusable, Alerted, Row
  <2> QED BY <2>1, <2>2, OutcomesFrame
<1>5. ASSUME NEW c \in Consumers, PrefetchQuery(c) \/ PrefetchAnswer(c) \/ PrefetchFail(c)
      PROVE  VerdictsSound' /\ OutcomesSound'
  <2>1. UNCHANGED <<event, claimed, verdict, alerts, status>>
    BY <1>5 DEF PrefetchQuery, PrefetchAnswer, PrefetchFail, tables, history
  <2>2. OutageNotCached'
    <3>1. CASE PrefetchQuery(c)
      BY <3>1 DEF PrefetchQuery, tables, OutageNotCached, Sound, VerdictsSound
    <3>2. CASE PrefetchAnswer(c) \/ PrefetchFail(c)
      BY <3>2, CachedIsTrue DEF PrefetchAnswer, PrefetchFail, Sound, VerdictsSound
    <3> QED BY <1>5, <3>1, <3>2
  <2>3. /\ \A d \in Consumers \ {c} : pc'[d] = pc[d]
        /\ pc'[c] \in {"idle", "lookup", "prefetching"}
    BY <1>5 DEF PrefetchQuery, PrefetchAnswer, PrefetchFail, PlaceWith, Inv, Typed, TypeOK
  <2>4. VerdictsSound'
    BY <2>1, <2>2, <2>3, VerdictFrame
  <2> QED BY <2>1, <2>4, OutcomesFrame
<1>6. ASSUME NEW c \in Consumers, Lookup(c)
      PROVE  VerdictsSound' /\ OutcomesSound'
  <2> PICK i \in claimed[c] :
        /\ IsNext(c, i)
        /\ \/ \E v \in KnownVerdicts(c, event[i]) : Judge(c, v)
           \/ pc' = [pc EXCEPT ![c] = "asking"] /\ UNCHANGED verdict
    BY <1>6 DEF Lookup
  <2>1. UNCHANGED <<event, claimed, osvCache, alerts, status>>
    BY <1>6 DEF Lookup, tables, history
  <2>2. \A d \in Consumers \ {c} : pc'[d] = pc[d] /\ verdict'[d] = verdict[d]
    BY DEF Judge, Inv, Typed, TypeOK
  <2>3. ASSUME NEW v \in KnownVerdicts(c, event[i]), Judge(c, v)
        PROVE  VerdictsSound' /\ OutcomesSound'
    <3>1. verdict'[c] = v /\ pc'[c] = PlaceOf(v)
      BY <2>3 DEF Judge, Inv, Typed, TypeOK
    <3>2. /\ Accusable(i) => v \in {"malicious", "degraded", "partial"}
          /\ v = "malicious" => PlaceOf(v) = "store"
      BY <2>3, KnownVerdictsSound DEF PlaceOf
    <3>3. VerdictsSound'
      BY <2>1, <2>2, <3>1, <3>2, UniqueNext, VerdictFrame
         DEF Inv, OutageNotCached, Sound, VerdictsSound
    <3> QED BY <2>1, <3>3, OutcomesFrame
  <2>4. ASSUME pc' = [pc EXCEPT ![c] = "asking"], UNCHANGED verdict
        PROVE  VerdictsSound' /\ OutcomesSound'
    <3>1. pc'[c] = "asking"
      BY <2>4 DEF Inv, Typed, TypeOK
    <3>2. VerdictsSound'
      BY <2>1, <2>2, <3>1, VerdictFrame DEF OutageNotCached, Sound, VerdictsSound
    <3> QED BY <2>1, <3>2, OutcomesFrame
  <2> QED BY <2>3, <2>4
<1>7. ASSUME NEW c \in Consumers, Answer(c)
      PROVE  VerdictsSound' /\ OutcomesSound'
  <2> PICK i \in claimed[c] :
        /\ IsNext(c, i)
        /\ \/ Judge(c, Verdict(event[i].pkg)) /\ osvCache' = Cached({event[i].pkg})
           \/ (\E v \in DegradedVerdicts(event[i].pkg) : Judge(c, v)) /\ UNCHANGED osvCache
    BY <1>7 DEF Answer
  <2>1. UNCHANGED <<event, claimed, alerts, status>>
    BY <1>7 DEF Answer, history
  <2>2. \A d \in Consumers \ {c} : pc'[d] = pc[d] /\ verdict'[d] = verdict[d]
    BY DEF Judge, Inv, Typed, TypeOK
  <2>3. OutageNotCached'
    BY CachedIsTrue DEF OutageNotCached, Sound, VerdictsSound
  <2>4. \E v \in {Verdict(event[i].pkg), "degraded", "partial"} : verdict'[c] = v /\ pc'[c] = PlaceOf(v)
    BY DEF DegradedVerdicts, Judge, Inv, Typed, TypeOK
  <2>5. /\ Accusable(i) => Verdict(event[i].pkg) = "malicious"
        /\ PlaceOf("malicious") = "store" /\ PlaceOf("degraded") \in {"score", "finish"}
        /\ PlaceOf("partial") = "store"
        /\ PlaceOf("clean") \in {"score", "finish"}
        /\ Verdict(event[i].pkg) \in {"malicious", "clean"}
    BY DEF Accusable, Verdict, PlaceOf
  <2>6. VerdictsSound'
    BY <2>1, <2>2, <2>3, <2>4, <2>5, UniqueNext, VerdictFrame DEF Inv
  <2> QED BY <2>1, <2>6, OutcomesFrame
<1>8. ASSUME NEW c \in Consumers, StoreAlert(c) \/ ScoreRisk(c) \/ Notify(c) \/ Fail(c)
      PROVE  VerdictsSound' /\ OutcomesSound'
  <2>1. UNCHANGED <<event, claimed, osvCache, status>> /\ alerts \subseteq alerts'
    BY <1>8 DEF StoreAlert, ScoreRisk, Notify, Fail, tables, history
  <2>2. \A d \in Consumers \ {c} : pc'[d] = pc[d] /\ verdict'[d] = verdict[d]
    BY <1>8 DEF StoreAlert, ScoreRisk, Notify, Fail, Inv, Typed, TypeOK
  <2>3. ASSUME NEW i \in Ids, IsNext(c, i)
        PROVE  /\ pc'[c] \in {"store", "score", "notify", "finish"} /\ Accusable(i)
                  => verdict'[c] \in {"malicious", "degraded", "partial", "error"}
               /\ pc'[c] = "score" => verdict'[c] # "malicious"
               /\ pc'[c] \in {"notify", "finish"} /\ verdict'[c] = "malicious" => Alerted(i)'
    <3>1. CASE StoreAlert(c)
      <4> PICK h \in claimed[c] : IsNext(c, h) /\ alerts' = alerts \cup {Row(h, "advisory")}
        BY <3>1 DEF StoreAlert
      <4>1. Alerted(i)'
        BY <2>3, UniqueNext DEF Alerted, Inv, Row
      <4>2. pc[c] = "store" /\ pc'[c] = "notify" /\ verdict' = verdict
        BY <3>1 DEF StoreAlert, Inv, Typed, TypeOK
      <4> QED BY <2>3, <4>1, <4>2 DEF Sound, VerdictsSound
    <3>2. CASE ScoreRisk(c)
      <4>1. pc[c] = "score" /\ pc'[c] \in {"finish", "notify"} /\ verdict' = verdict
        BY <3>2 DEF ScoreRisk, Inv, Typed, TypeOK
      <4> QED BY <2>3, <4>1 DEF Sound, VerdictsSound
    <3>3. CASE Notify(c)
      <4>1. pc[c] = "notify" /\ pc'[c] = "finish" /\ verdict' = verdict
        BY <3>3 DEF Notify, Inv, Typed, TypeOK
      <4>2. Alerted(i) => Alerted(i)'
        BY <2>1 DEF Alerted, Row
      <4> QED BY <2>3, <4>1, <4>2 DEF Sound, VerdictsSound
    <3>4. CASE Fail(c)
      BY <3>4 DEF Fail, Inv, Typed, TypeOK
    <3> QED BY <1>8, <3>1, <3>2, <3>3, <3>4
  <2>4. VerdictsSound'
    BY <2>1, <2>2, <2>3, VerdictFrame DEF OutageNotCached, Sound, VerdictsSound
  <2> QED BY <2>1, <2>4, OutcomesFrame
<1>9. ASSUME NEW c \in Consumers, Finish(c)
      PROVE  VerdictsSound' /\ OutcomesSound'
  <2> PICK i \in claimed[c] :
        /\ IsNext(c, i)
        /\ IF Authoritative(verdict[c]) THEN status' = [status EXCEPT ![i] = "done"]
           ELSE status' = [status EXCEPT ![i] = "unresolved"]
        /\ claimed' = [claimed EXCEPT ![c] = @ \ {i}]
        /\ pc' = [d \in Consumers |-> IF d = c THEN PlaceWith(claimed[c] \ {i})
                                      ELSE IF d \in Waiters(i) THEN "claim" ELSE pc[d]]
    BY <1>9 DEF Finish
  <2>1. UNCHANGED <<event, osvCache, alerts>> /\ verdict' = [verdict EXCEPT ![c] = "none"]
        /\ pc[c] = "finish" /\ i \in Ids
    BY <1>9 DEF Finish, Inv, Typed, TypeOK
  <2>2. /\ pc'[c] \in {"idle", "lookup"}
        /\ \A d \in Consumers \ {c} : /\ pc'[d] = pc[d] \/ pc'[d] = "claim"
                                      /\ verdict'[d] = verdict[d] /\ claimed'[d] = claimed[d]
    BY <2>1 DEF PlaceWith, Inv, Typed, TypeOK
  <2>3. VerdictsSound'
    BY <2>1, <2>2 DEF Sound, VerdictsSound, OutageNotCached, IsNext, Accusable, Alerted, Row
  <2>4. \A j \in Ids : j # i => status'[j] = status[j]
    BY DEF Inv, Typed, TypeOK
  <2>5. status[i] = "held" /\ status'[i] \in {"done", "unresolved"}
    BY <2>1 DEF Inv, Ownership, Typed, TypeOK
  <2>6. status'[i] = "done" /\ Accusable(i) => Alerted(i)
    <3>1. status'[i] = "done" => Authoritative(verdict[c])
      BY <2>1 DEF Inv, Typed, TypeOK
    <3> QED BY <2>1, <3>1 DEF Authoritative, Sound, VerdictsSound
  <2>7. \A j \in Ids : status'[j] = "done" /\ Accusable(j) => Alerted(j)
    BY <2>4, <2>6 DEF Sound, OutcomesSound
  <2>8. \A j \in Ids : status'[j] = "dropped" => \E h \in Ids : SameInstall(j, h) /\ status'[h] = "done"
    BY <2>4, <2>5 DEF Sound, OutcomesSound
  <2>9. OutcomesSound'
    BY <2>1, <2>7, <2>8 DEF OutcomesSound, Accusable, Alerted, Row, SameInstall
  <2> QED BY <2>3, <2>9
<1>10. ASSUME NEW p \in Packages, ExpireRow(p)
       PROVE  VerdictsSound' /\ OutcomesSound'
  <2>1. UNCHANGED <<event, claimed, pc, verdict, alerts, status>> /\ OutageNotCached'
    BY <1>10 DEF ExpireRow, tasks, history, OutageNotCached, Sound, VerdictsSound, Inv, Typed, TypeOK
  <2>2. VerdictsSound'
    BY <2>1 DEF Sound, VerdictsSound, IsNext, Accusable, Alerted, Row
  <2> QED BY <2>1, <2>2, OutcomesFrame
<1>11. CASE Tick \/ Prune \/ UNCHANGED vars
  <2>1. UNCHANGED <<event, claimed, pc, verdict, osvCache, alerts, status>>
    BY <1>11 DEF Tick, Prune, vars, tasks, tables, history
  <2>2. VerdictsSound'
    BY <2>1 DEF Sound, VerdictsSound, OutageNotCached, IsNext, Accusable, Alerted, Row
  <2> QED BY <2>1, <2>2, OutcomesFrame
<1> QED
  BY <1>1, <1>2, <1>3, <1>4, <1>5, <1>6, <1>7, <1>8, <1>9, <1>10, <1>11 DEF Next, Step

\* Every settled public install of a malicious package has an advisory alert.
THEOREM MaliciousIsAlerted == Spec => []NoSilentMalicious
<1>1. Sound => NoSilentMalicious
  BY DEF Sound, OutcomesSound, NoSilentMalicious, AccountsFor, Accusable, Alerted, SameInstall
<1> QED
  BY <1>1, InvInit, InvNext, SoundInit, SoundNext, PTL DEF Spec

\* The OSV cache never holds a verdict OSV did not give.
THEOREM OutagesAreNotCached == Spec => []OutageNotCached
<1>1. Sound => OutageNotCached
  BY DEF Sound, VerdictsSound
<1> QED
  BY <1>1, InvInit, InvNext, SoundInit, SoundNext, PTL DEF Spec

-----------------------------------------------------------------------------
(* DaemonLifecycle: as long as no start begins between the two steps of    *)
(* another, any number of daemons and of foreign processes leave at most   *)
(* one daemon at a time.  (MCDaemonLifecycle_overlap shows that            *)
(* overlapping starts do not.)                                             *)

DaemonStates == {"starting", "running", "stopping", "drained", "stopped", "closed"}

\* A start that has found no daemon is alone until it has written the file.
StartsAlone ==
  \A p, q \in Pids : stage[p] = "checked" /\ stage[q] \in DaemonStates \cup {"checked"} => p = q

\* What a stop has ended stays ended.
StaysEnded ==
  \A p \in Pids :
    /\ stage[p] \in {"drained", "stopped", "closed"} => alertTasks[p] = 0
    /\ stage[p] \in {"stopping", "drained", "stopped", "closed"} => eval[p] \in {"none", "cut"}

LifecycleInv == LifecycleTypeOK /\ FileNamesTheDaemon /\ StartsAlone /\ StaysEnded

LEMMA LifecycleInvInit == ASSUME PidsAssumption PROVE LifecycleInit => LifecycleInv
  BY DEF PidsAssumption, LifecycleInit, LifecycleInv, LifecycleTypeOK, States, FileNamesTheDaemon, Daemons, StartsAlone, StaysEnded,
         DaemonStates

LEMMA Positive == \A n : n > 0 => n # 0
  OBVIOUS

LEMMA LifecycleTypeNext == ASSUME PidsAssumption PROVE LifecycleTypeOK /\ [LifecycleNext]_lifecycleVars => LifecycleTypeOK'
<1> SUFFICES ASSUME LifecycleTypeOK, [LifecycleNext]_lifecycleVars PROVE LifecycleTypeOK'
  OBVIOUS
<1> USE DEF States
<1>0. /\ pidfile \in Pids \cup {NoPid} /\ stage \in [Pids -> States]
      /\ eval \in [Pids -> {"none", "looking up", "stored", "cut"}]
      /\ alertTasks \in [Pids -> 0 .. Spaces] /\ plugin \in [Pids -> BOOLEAN]
  BY DEF LifecycleTypeOK
<1>00. Spaces \in Nat /\ 0 \in 0 .. Spaces
  BY DEF PidsAssumption
<1>1. ASSUME NEW p \in Pids, Begin(p) \/ Claim(p) \/ Up(p)
      PROVE  LifecycleTypeOK'
  BY <1>0, <1>1 DEF LifecycleTypeOK, Begin, Claim, Up
<1>2. ASSUME NEW p \in Pids, LookUp(p) \/ Clean(p) \/ AlertStored(p)
      PROVE  LifecycleTypeOK'
  BY <1>0, <1>2 DEF LifecycleTypeOK, LookUp, Clean, AlertStored
<1>3. ASSUME NEW p \in Pids, ScheduleAlert(p) \/ AlertEnds(p)
      PROVE  LifecycleTypeOK'
  <2>1. CASE ScheduleAlert(p)
    <3>1. alertTasks[p] + 1 \in 0 .. Spaces
      <4>1. alertTasks[p] \in 0 .. Spaces /\ Spaces \in Nat
        BY <1>0, <1>00
      <4>2. alertTasks[p] < Spaces
        BY <2>1 DEF ScheduleAlert
      <4> QED BY <4>1, <4>2
    <3> QED BY <1>0, <2>1, <3>1 DEF LifecycleTypeOK, ScheduleAlert
  <2>2. CASE AlertEnds(p)
    <3>1. alertTasks[p] - 1 \in 0 .. Spaces
      <4>1. alertTasks[p] \in 0 .. Spaces /\ Spaces \in Nat
        BY <1>0, <1>00
      <4>2. alertTasks[p] > 0
        BY <2>2 DEF AlertEnds
      <4> QED BY <4>1, <4>2
    <3> QED BY <1>0, <2>2, <3>1 DEF LifecycleTypeOK, AlertEnds
  <2> QED BY <1>3, <2>1, <2>2
<1>4. ASSUME NEW p \in Pids, Signal(p) \/ Drain(p) \/ StopPlugins(p) \/ CloseDb(p)
      PROVE  LifecycleTypeOK'
  BY <1>0, <1>4 DEF LifecycleTypeOK, Signal, Cancelled, Drain, StopPlugins, CloseDb
<1>5. ASSUME NEW p \in Pids, Unlink(p) \/ Killed(p) \/ Reused(p)
      PROVE  LifecycleTypeOK'
  <2>1. CASE Left(p)
    <3>2. pidfile' \in Pids \cup {NoPid}
      BY <1>0, <1>5 DEF Unlink, Killed, Reused
    <3>3. stage' \in [Pids -> States] /\ eval' \in [Pids -> {"none", "looking up", "stored", "cut"}]
      BY <1>0, <2>1 DEF Left
    <3>4. alertTasks' \in [Pids -> 0 .. Spaces]
      BY <1>0, <1>00, <2>1 DEF Left
    <3>5. plugin' \in [Pids -> BOOLEAN]
      BY <1>0, <2>1 DEF Left
    <3> QED BY <3>2, <3>3, <3>4, <3>5 DEF LifecycleTypeOK
  <2>2. CASE Reused(p)
    BY <1>0, <2>2 DEF LifecycleTypeOK, Reused
  <2> QED BY <1>5, <2>1, <2>2 DEF Unlink, Killed
<1>6. CASE UNCHANGED lifecycleVars
  BY <1>0, <1>6 DEF LifecycleTypeOK, lifecycleVars
<1> QED BY <1>1, <1>2, <1>3, <1>4, <1>5, <1>6 DEF LifecycleNext

LEMMA LifecycleInvNext == ASSUME PidsAssumption, ~Overlap PROVE LifecycleInv /\ [LifecycleNext]_lifecycleVars => LifecycleInv'
<1> SUFFICES ASSUME LifecycleInv, [LifecycleNext]_lifecycleVars
             PROVE  (FileNamesTheDaemon /\ StartsAlone /\ StaysEnded)'
  BY LifecycleTypeNext DEF LifecycleInv
<1> USE PidsAssumption
        DEF PidsAssumption, LifecycleInv, LifecycleTypeOK, FileNamesTheDaemon, StartsAlone, StaysEnded, Daemons, DaemonStates
<1>1. ASSUME NEW p \in Pids, Begin(p)
      PROVE  (FileNamesTheDaemon /\ StartsAlone /\ StaysEnded)'
  <2>1. \A q \in Pids : stage[q] \notin DaemonStates
    BY <1>1 DEF Begin, AlreadyRunning, NoPid
  <2>2. \A q \in Pids : stage[q] # "checked"
    BY <1>1 DEF Begin
  <2> QED BY <1>1, <2>1, <2>2 DEF Begin
<1>2. ASSUME NEW p \in Pids, Claim(p)
      PROVE  (FileNamesTheDaemon /\ StartsAlone /\ StaysEnded)'
  <2>1. \A q \in Pids \ {p} : stage[q] \notin DaemonStates \cup {"checked"}
    BY <1>2 DEF Claim
  <2> QED BY <1>2, <2>1 DEF Claim
<1>3. ASSUME NEW p \in Pids, Up(p) \/ Drain(p) \/ StopPlugins(p) \/ CloseDb(p)
      PROVE  (FileNamesTheDaemon /\ StartsAlone /\ StaysEnded)'
  <2>1. /\ pidfile' = pidfile /\ eval' = eval /\ alertTasks' = alertTasks
        /\ \A q \in Pids \ {p} : stage'[q] = stage[q]
        /\ stage[p] \in DaemonStates /\ stage'[p] \in DaemonStates
    BY <1>3 DEF Up, Drain, StopPlugins, CloseDb
  <2>2. stage'[p] \in {"drained", "stopped", "closed"} => alertTasks[p] = 0
    BY <1>3 DEF Up, Drain, Drained, StopPlugins, CloseDb
  <2>3. stage'[p] \in {"stopping", "drained", "stopped", "closed"} =>
          stage[p] \in {"stopping", "drained", "stopped", "closed"}
    BY <1>3 DEF Up, Drain, StopPlugins, CloseDb
  <2>4. FileNamesTheDaemon'
    BY <2>1
  <2>5. StartsAlone'
    BY <2>1
  <2>6. StaysEnded'
    BY <2>1, <2>2, <2>3
  <2> QED BY <2>4, <2>5, <2>6
<1>4. ASSUME NEW p \in Pids, LookUp(p) \/ Clean(p) \/ AlertStored(p)
      PROVE  (FileNamesTheDaemon /\ StartsAlone /\ StaysEnded)'
  BY <1>4 DEF LookUp, Clean, AlertStored
<1>5. ASSUME NEW p \in Pids, ScheduleAlert(p) \/ AlertEnds(p)
      PROVE  (FileNamesTheDaemon /\ StartsAlone /\ StaysEnded)'
  <2>1. CASE ScheduleAlert(p)
    BY <2>1 DEF ScheduleAlert
  <2>2. CASE AlertEnds(p)
    <3>1. stage[p] \notin {"drained", "stopped", "closed"}
      <4>1. alertTasks[p] > 0
        BY <2>2 DEF AlertEnds
      <4>2. alertTasks[p] # 0
        BY <4>1, Positive
      <4> QED BY <4>2
    <3> QED BY <2>2, <3>1 DEF AlertEnds
  <2> QED BY <1>5, <2>1, <2>2
<1>6. ASSUME NEW p \in Pids, Signal(p)
      PROVE  (FileNamesTheDaemon /\ StartsAlone /\ StaysEnded)'
  BY <1>6 DEF Signal, Cancelled
<1>7. ASSUME NEW p \in Pids, Unlink(p)
      PROVE  (FileNamesTheDaemon /\ StartsAlone /\ StaysEnded)'
  BY <1>7 DEF Unlink, Left
<1>8. ASSUME NEW p \in Pids, Killed(p) \/ Reused(p)
      PROVE  (FileNamesTheDaemon /\ StartsAlone /\ StaysEnded)'
  <2>1. /\ pidfile' = pidfile /\ stage'[p] \in {"free", "other"}
        /\ \A q \in Pids \ {p} : stage'[q] = stage[q] /\ eval'[q] = eval[q] /\ alertTasks'[q] = alertTasks[q]
    BY <1>8 DEF Killed, Left, Reused
  <2> QED BY <2>1
<1>9. CASE UNCHANGED lifecycleVars
  BY <1>9 DEF lifecycleVars
<1> QED BY <1>1, <1>2, <1>3, <1>4, <1>5, <1>6, <1>7, <1>8, <1>9 DEF LifecycleNext

(* OneDaemonAtATime, for `check_already_running`, `Daemon.run` and         *)
(* `drain_alert_tasks`: where starts do not overlap, one daemon runs at a  *)
(* time, the PID file names it until it is gone, and nothing of it calls a *)
(* plug-in that has been stopped.                                          *)
THEOREM DaemonsAreAlone == ASSUME PidsAssumption, ~Overlap PROVE LifecycleSpec => []OneDaemonAtATime
<1>1. LifecycleInv => OneDaemonAtATime
  <2> SUFFICES ASSUME LifecycleInv PROVE OneDaemonAtATime
    OBVIOUS
  <2>1. Daemons \subseteq {pidfile}
    BY DEF LifecycleInv, FileNamesTheDaemon
  <2>2. IsFiniteSet({pidfile}) /\ Cardinality({pidfile}) = 1
    BY FS_Singleton
  <2>3. Cardinality(Daemons) <= Cardinality({pidfile})
    BY <2>1, <2>2, FS_Subset
  <2> QED BY <2>2, <2>3 DEF OneDaemonAtATime, OneDaemon, NoAlertAfterStop, LifecycleInv, StaysEnded
<1> QED BY <1>1, LifecycleInvInit, LifecycleInvNext, PTL DEF LifecycleSpec
=============================================================================
