-------------------------- MODULE OsvLookupProofs --------------------------
(***************************************************************************)
(* Theorems about OsvLookup: for any packages, advisories, lookups,        *)
(* replies and delays.  About RiskScoring: for any packages, groups of     *)
(* directories, corpora and lifetimes of what is cached.  And about        *)
(* ScanCommand: for any languages, directories, lock files, tools, sizes   *)
(* of a batch and commands one after the other.                            *)
(***************************************************************************)
EXTENDS OsvLookup, RiskScoring, ScanCommand, SequenceTheorems, FiniteSetTheorems,
        WellFoundedInduction, TLAPS

\* What is found of p was listed; what is not has been listed for `most` ticks at most.
Listings(pub, p, found) == \A a \in found : pub[p][a] # Unlisted
Missing(pub, p, found, most) == \A a \in Advisories \ found : pub[p][a] <= most

RowSane(pub, p, r) ==
  /\ Listings(pub, p, r.found)
  /\ r.age <= Ttl => Missing(pub, p, r.found, r.age + Longest)

HitSane(pub, res, age) ==
  /\ Listings(pub, res.package, res.found)
  /\ Missing(pub, res.package, res.found, Ttl + Longest + age)

FreshSane(pub, res, age) ==
  /\ Listings(pub, res.package, res.found)
  /\ ~res.degraded => Missing(pub, res.package, res.found, age)

\* A lookup's results are sound, and hold what the reply it used named.
LookupSane(pub, l) ==
  /\ \A i \in 1 .. Len(l.hits) : HitSane(pub, l.hits[i], l.age)
  /\ \A i \in 1 .. Len(l.fresh) : FreshSane(pub, l.fresh[i], l.age)
  /\ l.step \in {"idle", "read", "ask"} => l.named = {} /\ l.stored = 0
  /\ \A x \in l.named : \E i \in 1 .. Len(l.fresh) :
       l.fresh[i].package = x[1] /\ x[2] \in l.fresh[i].found
  /\ l.stored <= Len(l.fresh)

Inv ==
  /\ TypeOK
  /\ \A p \in Packages : RowSane(published, p, row[p])
  /\ \A k \in Lookups : LookupSane(published, lookup[k])

-----------------------------------------------------------------------------
(* A reply that answers as many queries as were asked answers each in its  *)
(* place: an increasing map of 1 .. n into itself is the identity.         *)

\* A set of naturals has a least element: what stands for induction below.
LEMMA LeastNat == \A T \in SUBSET Nat : T # {} => \E x \in T : \A y \in T : x <= y
<1> DEFINE R == OpToRel(<, Nat)
<1>1. IsWellFoundedOn(R, Nat)
  BY NatLessThanWellFounded
<1>2. \A x, y \in Nat : <<x, y>> \in R <=> x < y
  BY DEF OpToRel
<1> HIDE DEF R
<1>3. TAKE T \in SUBSET Nat
<1>4. HAVE T # {}
<1>5. PICK x \in T : \A y \in T : ~(<<y, x>> \in R)
  BY <1>1, <1>4, WFMin
<1>6. ASSUME NEW y \in T PROVE x <= y
  <2>1. x \in Nat /\ y \in Nat
    OBVIOUS
  <2>2. ~(<<y, x>> \in R)
    BY <1>5
  <2>3. ~(y < x)
    BY <1>2, <2>1, <2>2
  <2> QED BY <2>1, <2>3
<1> QED BY <1>6

Increasing(f, n) == \A i, j \in 1 .. n : i < j => f[i] < f[j]

LEMMA IncreasingIsIdentity ==
  ASSUME NEW n \in Nat, NEW f \in [1 .. n -> 1 .. n], Increasing(f, n)
  PROVE  \A i \in 1 .. n : f[i] = i
<1>1. ASSUME NEW i \in 1 .. n
      PROVE  i <= f[i]
  <2> SUFFICES ASSUME f[i] < i PROVE FALSE
    OBVIOUS
  <2> DEFINE T == {j \in 1 .. n : f[j] < j}
  <2>1. T \in SUBSET Nat /\ T # {}
    <3>1. i \in T
      OBVIOUS
    <3>2. \A j \in T : j \in Nat
      OBVIOUS
    <3> HIDE DEF T
    <3> QED BY <3>1, <3>2
  <2>2. PICK m \in T : \A j \in T : m <= j
    BY <2>1, LeastNat
  <2>3. m \in 1 .. n /\ f[m] \in 1 .. n /\ f[m] < m
    OBVIOUS
  <2>4. m - 1 \in 1 .. n /\ m - 1 \notin T
    BY <2>2, <2>3
  <2>5. f[m - 1] \in 1 .. n /\ ~(f[m - 1] < m - 1) /\ f[m - 1] < f[m]
    BY <2>3, <2>4 DEF Increasing
  <2> QED BY <2>3, <2>5
<1>2. ASSUME NEW i \in 1 .. n
      PROVE  f[i] <= i
  <2> SUFFICES ASSUME f[i] > i PROVE FALSE
    OBVIOUS
  <2> DEFINE T == {k \in 0 .. n : n - k \in 1 .. n /\ f[n - k] > n - k}
  <2>1. T \in SUBSET Nat /\ n - i \in T
    <3>1. n - i \in 0 .. n /\ n - (n - i) = i
      OBVIOUS
    <3> QED BY <3>1
  <2>2. PICK k \in T : \A j \in T : k <= j
    BY <2>1, LeastNat
  <2> DEFINE m == n - k
  <2>3. m \in 1 .. n /\ f[m] \in 1 .. n /\ f[m] > m
    OBVIOUS
  <2>4. m + 1 \in 1 .. n
    BY <2>3
  <2>5. k - 1 \in 0 .. n /\ k - 1 \notin T /\ n - (k - 1) = m + 1
    <3>1. k \in 0 .. n /\ n - k = m /\ m + 1 <= n
      BY <2>4
    <3>2. k - 1 \in 0 .. n /\ n - (k - 1) = m + 1
      BY <3>1
    <3>3. \A j \in T : j \in 0 .. n
      OBVIOUS
    <3>4. ~(k <= k - 1)
      BY <3>1
    <3> HIDE DEF T
    <3> QED BY <2>2, <3>2, <3>4
  <2>6. f[m + 1] \in 1 .. n /\ ~(f[m + 1] > m + 1)
    BY <2>4, <2>5
  <2>7. f[m] < f[m + 1]
    BY <2>3, <2>4 DEF Increasing
  <2> QED BY <2>3, <2>6, <2>7
<1>3. ASSUME NEW i \in 1 .. n
      PROVE  f[i] = i
  BY <1>1, <1>2
<1> QED BY <1>3

LEMMA UpTo == ASSUME NEW n \in Nat PROVE IsFiniteSet(1 .. n) /\ Cardinality(1 .. n) = n
<1>1. 1 \in Int /\ n \in Int
  OBVIOUS
<1>2. IsFiniteSet(1 .. n) /\ Cardinality(1 .. n) = IF 1 > n THEN 0 ELSE n - 1 + 1
  BY ONLY <1>1, FS_Interval
<1>3. CASE 1 > n
  BY <1>2, <1>3
<1>4. CASE ~(1 > n)
  BY <1>2, <1>4
<1> QED BY <1>3, <1>4

LEMMA FullReply ==
  ASSUME NEW asked \in Seq(Packages), NEW S \in SUBSET DOMAIN asked,
         NEW reply \in Replies(asked, S), Len(reply) = Len(asked)
  PROVE  /\ DOMAIN reply = 1 .. Len(asked)
         /\ \A i \in 1 .. Len(asked) : reply[i] \in Items(asked[i])
<1> DEFINE n == Cardinality(S)
           nth == CHOOSE f \in [1 .. n -> S] : \A i, j \in 1 .. n : i < j => f[i] < f[j]
<1>1. Len(asked) \in Nat /\ DOMAIN asked = 1 .. Len(asked)
  OBVIOUS
<1>2. IsFiniteSet(1 .. Len(asked)) /\ Cardinality(1 .. Len(asked)) = Len(asked)
  BY <1>1, UpTo
<1>3. n \in Nat
  <2>1. IsFiniteSet(S)
    BY <1>1, <1>2, FS_Subset
  <2> QED BY <2>1, FS_CardinalityType
<1>4. /\ reply \in [1 .. n -> UNION {Items(asked[i]) : i \in S}]
      /\ \A i \in 1 .. n : reply[i] \in Items(asked[nth[i]])
  BY DEF Replies
<1>5. Len(reply) = n /\ DOMAIN reply = 1 .. n
  BY <1>3, <1>4
<1>6. n = Len(asked) /\ S = 1 .. n
  BY <1>1, <1>2, <1>5, FS_Subset
<1>7. \E f \in [1 .. n -> S] : \A i, j \in 1 .. n : i < j => f[i] < f[j]
  <2>1. [i \in 1 .. n |-> i] \in [1 .. n -> S]
    BY <1>6
  <2> QED BY <2>1
<1>8. nth \in [1 .. n -> S] /\ \A i, j \in 1 .. n : i < j => nth[i] < nth[j]
  BY <1>7
<1> HIDE DEF nth
<1>9. \A i \in 1 .. n : nth[i] = i
  BY <1>3, <1>6, <1>8, IncreasingIsIdentity DEF Increasing
<1> QED BY <1>4, <1>5, <1>6, <1>9

-----------------------------------------------------------------------------
(* The steps of one lookup. *)

LEMMA Types ==
  ASSUME Inv, NEW k \in Lookups
  PROVE  /\ lookup[k] \in LookupStates /\ LookupSane(published, lookup[k])
         /\ published \in [Packages -> [Advisories -> Unlisted .. Overdue]]
         /\ row \in [Packages -> [age : 0 .. Ttl + 1, found : SUBSET Advisories,
                                  aliased : SUBSET Advisories]]
         /\ {MaxRetries, Ttl, Longest} \subseteq Nat
  BY OsvAssumption DEF Inv, TypeOK

LEMMA OneLookup ==
  ASSUME Inv, NEW k \in Lookups, NEW new \in LookupStates, LookupSane(published, new),
         Becomes(k, new), UNCHANGED <<published, row>>
  PROVE  Inv'
<1>1. lookup' \in [Lookups -> LookupStates] /\ \A j \in Lookups : lookup'[j] = IF j = k THEN new ELSE lookup[j]
  BY DEF Becomes, Inv, TypeOK
<1>2. new.stored <= Len(new.fresh)
  BY DEF LookupSane
<1>3. TypeOK'
  BY <1>1, <1>2 DEF Inv, TypeOK
<1>4. \A p \in Packages : RowSane(published', p, row'[p])
  BY DEF Inv
<1>5. \A j \in Lookups : LookupSane(published', lookup'[j])
  BY <1>1 DEF Inv
<1> QED BY <1>3, <1>4, <1>5 DEF Inv

LEMMA ResultTypes == \A s \in Seq(Results) : \A i \in 1 .. Len(s) :
                       s[i].package \in Packages /\ s[i].found \in SUBSET Advisories
<1> TAKE s \in Seq(Results)
<1> TAKE i \in 1 .. Len(s)
<1>1. s[i] \in Results
  OBVIOUS
<1> QED BY <1>1 DEF Results

LEMMA EmptyLists == <<>> \in Seq(Packages) /\ <<>> \in Seq(Results) /\ Len(<<>>) = 0
  OBVIOUS

LEMMA IdleSane == Idle \in LookupStates /\ LookupSane(published, Idle)
<1>1. Longest \in Nat /\ MaxRetries \in Nat
  BY OsvAssumption
<1>2. 0 \in 0 .. Longest /\ 0 \in 0 .. MaxRetries
  BY <1>1
<1>3. Idle \in LookupStates
  BY <1>2, EmptyLists DEF Idle, LookupStates
<1>4. LookupSane(published, Idle)
  BY EmptyLists DEF Idle, LookupSane
<1> QED BY <1>3, <1>4

\* A lookup that keeps its results stays sane.
LEMMA SameResults ==
  ASSUME NEW pub, NEW l \in LookupStates, LookupSane(pub, l), NEW new \in LookupStates,
         new.hits = l.hits, new.fresh = l.fresh, new.named = l.named, new.age = l.age,
         new.step \notin {"idle", "read", "ask"}, new.stored <= Len(l.fresh)
  PROVE  LookupSane(pub, new)
  BY DEF LookupSane

LEMMA ToldSane ==
  ASSUME Inv, NEW k \in Lookups PROVE Told(k) \in LookupStates /\ LookupSane(published, Told(k))
<1>1. lookup[k] \in LookupStates /\ LookupSane(published, lookup[k]) /\ MaxRetries \in Nat
  BY Types
<1>2. /\ Told(k) \in LookupStates
      /\ Told(k).hits = lookup[k].hits /\ Told(k).fresh = lookup[k].fresh
      /\ Told(k).named = lookup[k].named /\ Told(k).age = lookup[k].age
      /\ Told(k).step = "told" /\ Told(k).stored = 0
  <2>1. 0 \in 0 .. MaxRetries
    BY <1>1
  <2> QED BY <1>1, <2>1, EmptyLists DEF Told, LookupStates
<1>3. 0 <= Len(lookup[k].fresh)
  BY <1>1 DEF LookupStates
<1> QED BY <1>1, <1>2, <1>3, SameResults

LEMMA BeginKeeps == ASSUME Inv, NEW k \in Lookups, NEW b \in Batches, Begin(k, b) PROVE Inv'
<1> DEFINE reading == [Idle EXCEPT !.step = "read", !.todo = b]
           asking == [Idle EXCEPT !.step = "ask", !.asked = b]
<1>1. b \in Seq(Packages) /\ Idle \in LookupStates
  BY OsvAssumption, IdleSane
<1>2. /\ Idle.hits = <<>> /\ Idle.fresh = <<>> /\ Idle.named = {} /\ Idle.stored = 0
  BY DEF Idle
<1>3. reading \in LookupStates /\ LookupSane(published, reading)
  <2>1. /\ reading \in LookupStates /\ reading.hits = <<>> /\ reading.fresh = <<>>
        /\ reading.named = {} /\ reading.stored = 0
    BY <1>1, <1>2 DEF LookupStates
  <2> QED BY <2>1, EmptyLists DEF LookupSane
<1>4. asking \in LookupStates /\ LookupSane(published, asking)
  <2>1. /\ asking \in LookupStates /\ asking.hits = <<>> /\ asking.fresh = <<>>
        /\ asking.named = {} /\ asking.stored = 0
    BY <1>1, <1>2 DEF LookupStates
  <2> QED BY <2>1, EmptyLists DEF LookupSane
<1>5. (Becomes(k, reading) \/ Becomes(k, asking)) /\ UNCHANGED <<published, row>>
  BY DEF Begin
<1> HIDE DEF reading, asking
<1> QED BY <1>3, <1>4, <1>5, OneLookup

LEMMA ReadKeeps == ASSUME Inv, NEW k \in Lookups, Read(k) PROVE Inv'
<1> DEFINE l == lookup[k]
           p == Head(l.todo)
           rest == [l EXCEPT !.todo = Tail(@)]
<1>1. l \in LookupStates /\ LookupSane(published, l) /\ Ttl \in Nat /\ Longest \in Nat
  BY Types
<1>2. l.step = "read" /\ l.todo # <<>> /\ UNCHANGED <<published, row>>
  BY DEF Read, At
<1>3. l.todo \in Seq(Packages) /\ p \in Packages /\ Tail(l.todo) \in Seq(Packages)
  <2>1. l.todo \in Seq(Packages)
    BY <1>1 DEF LookupStates
  <2> QED BY <1>2, <2>1, HeadTailProperties
<1>4. /\ rest \in LookupStates /\ rest.asked = l.asked
      /\ rest.hits = l.hits /\ rest.fresh = l.fresh /\ rest.named = l.named /\ rest.age = l.age
      /\ rest.step = l.step /\ rest.stored = l.stored
  BY <1>1, <1>3 DEF LookupStates
<1>5. CASE row[p].age <= Ttl
  <2> DEFINE res == Result(p, row[p].found, row[p].aliased, FALSE)
             new == [rest EXCEPT !.hits = Append(@, res)]
  <2>1. Becomes(k, new)
    BY <1>5 DEF Read
  <2>2. row[p].found \in SUBSET Advisories /\ row[p].aliased \in SUBSET Advisories /\ row[p].age \in 0 .. Ttl + 1
    BY <1>3, Types
  <2>3. res \in Results /\ res.package = p /\ res.found = row[p].found
    BY <1>3, <2>2 DEF Result, Results
  <2>4. /\ Append(l.hits, res) \in Seq(Results) /\ Len(Append(l.hits, res)) = Len(l.hits) + 1
        /\ \A i \in 1 .. Len(l.hits) : Append(l.hits, res)[i] = l.hits[i]
        /\ Append(l.hits, res)[Len(l.hits) + 1] = res
        /\ Len(l.hits) \in Nat
    <3>1. l.hits \in Seq(Results)
      BY <1>1 DEF LookupStates
    <3> HIDE DEF res
    <3> QED BY <2>3, <3>1, AppendProperties
  <2>5. HitSane(published, res, l.age)
    <3>1. Listings(published, p, row[p].found) /\ Missing(published, p, row[p].found, row[p].age + Longest)
      BY <1>3, <1>5 DEF Inv, RowSane
    <3>2. l.age \in Nat
      BY <1>1 DEF LookupStates
    <3>3. ASSUME NEW a \in Advisories \ row[p].found
          PROVE  published[p][a] <= Ttl + Longest + l.age
      <4>1. published[p][a] \in Int
        <5>1. published \in [Packages -> [Advisories -> Unlisted .. Overdue]]
          BY Types
        <5>2. published[p][a] \in Unlisted .. Overdue
          BY <1>3, <5>1
        <5> QED BY <5>2
      <4>2. published[p][a] <= row[p].age + Longest
        BY <3>1 DEF Missing
      <4> QED BY <1>1, <1>5, <2>2, <3>2, <4>1, <4>2
    <3> QED BY <2>3, <3>1, <3>3 DEF HitSane, Missing
  <2> HIDE DEF res
  <2>6. /\ new \in LookupStates /\ new.hits = Append(l.hits, res)
        /\ new.fresh = l.fresh /\ new.named = l.named /\ new.age = l.age
        /\ new.step = l.step /\ new.stored = l.stored
    BY <1>4, <2>4 DEF LookupStates
  <2>7. \A i \in 1 .. Len(new.hits) : HitSane(published, new.hits[i], new.age)
    <3>1. \A i \in 1 .. Len(new.hits) : i \in 1 .. Len(l.hits) \/ i = Len(l.hits) + 1
      BY <2>4, <2>6
    <3> QED BY <1>1, <2>4, <2>5, <2>6, <3>1 DEF LookupSane
  <2>8. LookupSane(published, new)
    BY <1>1, <2>6, <2>7 DEF LookupSane
  <2> QED BY <1>2, <2>1, <2>6, <2>8, OneLookup
<1>6. CASE ~(row[p].age <= Ttl)
  <2> DEFINE new == [rest EXCEPT !.asked = Append(@, p)]
  <2>1. Becomes(k, new)
    BY <1>6 DEF Read
  <2>2. l.asked \in Seq(Packages) /\ Append(l.asked, p) \in Seq(Packages)
    BY <1>1, <1>3, AppendProperties DEF LookupStates
  <2>3. /\ new \in LookupStates
        /\ new.hits = l.hits /\ new.fresh = l.fresh /\ new.named = l.named /\ new.age = l.age
        /\ new.step = l.step /\ new.stored = l.stored
    BY <1>4, <2>2 DEF LookupStates
  <2>4. LookupSane(published, new)
    BY <1>1, <2>3 DEF LookupSane
  <2> QED BY <1>2, <2>1, <2>3, <2>4, OneLookup
<1> QED BY <1>5, <1>6

LEMMA AllReadKeeps == ASSUME Inv, NEW k \in Lookups, AllRead(k) PROVE Inv'
<1> DEFINE new == [lookup[k] EXCEPT !.step = "ask"]
<1>1. lookup[k] \in LookupStates /\ LookupSane(published, lookup[k]) /\ lookup[k].step = "read"
  BY Types DEF AllRead, At
<1>2. new \in LookupStates /\ LookupSane(published, new)
  <2>1. /\ new \in LookupStates
        /\ new.hits = lookup[k].hits /\ new.fresh = lookup[k].fresh /\ new.named = lookup[k].named
        /\ new.age = lookup[k].age /\ new.stored = lookup[k].stored
    BY <1>1 DEF LookupStates
  <2> QED BY <1>1, <2>1 DEF LookupSane
<1>3. Becomes(k, new) \/ Becomes(k, Told(k))
  BY DEF AllRead
<1> QED BY <1>2, <1>3, ToldSane, OneLookup DEF AllRead

LEMMA EndKeeps == ASSUME Inv, NEW k \in Lookups, End(k) PROVE Inv'
  BY IdleSane, OneLookup DEF End

LEMMA AllStoredKeeps == ASSUME Inv, NEW k \in Lookups, AllStored(k) PROVE Inv'
  BY ToldSane, OneLookup DEF AllStored

LEMMA RetriedSane ==
  ASSUME Inv, NEW k \in Lookups, Attempting(k)
  PROVE  Retried(k) \in LookupStates /\ LookupSane(published, Retried(k))
<1>1. lookup[k] \in LookupStates /\ LookupSane(published, lookup[k]) /\ MaxRetries \in Nat
  BY Types
<1>2. lookup[k].attempt + 1 \in 0 .. MaxRetries
  <2>1. lookup[k].attempt \in 0 .. MaxRetries
    BY <1>1 DEF LookupStates
  <2>2. lookup[k].attempt < MaxRetries
    BY DEF Attempting
  <2> QED BY <1>1, <2>1, <2>2
<1>3. /\ Retried(k) \in LookupStates
      /\ Retried(k).hits = lookup[k].hits /\ Retried(k).fresh = lookup[k].fresh
      /\ Retried(k).named = lookup[k].named /\ Retried(k).age = lookup[k].age
      /\ Retried(k).step = lookup[k].step /\ Retried(k).stored = lookup[k].stored
  BY <1>1, <1>2 DEF Retried, LookupStates
<1> QED BY <1>1, <1>3 DEF LookupSane

LEMMA FailsKeeps == ASSUME Inv, NEW k \in Lookups, Fails(k) PROVE Inv'
  BY RetriedSane, OneLookup DEF Fails

LEMMA GivesUpKeeps == ASSUME Inv, NEW k \in Lookups, GivesUp(k) PROVE Inv'
<1> DEFINE l == lookup[k]
           blank(p) == Result(p, {}, {}, TRUE)
           fresh == [i \in DOMAIN l.asked |-> blank(l.asked[i])]
           new == [l EXCEPT !.step = "store", !.fresh = fresh]
<1>1. l \in LookupStates /\ LookupSane(published, l) /\ l.step = "ask"
  BY Types DEF GivesUp, At
<1>2. l.asked \in Seq(Packages)
  BY <1>1 DEF LookupStates
<1>3. \A p \in Packages : blank(p) \in Results /\ blank(p).degraded /\ blank(p).found = {}
  BY DEF Result, Results
<1>4. Becomes(k, new) /\ UNCHANGED <<published, row>>
  BY DEF GivesUp
<1> HIDE DEF blank
<1>5. /\ fresh \in Seq(Results) /\ Len(fresh) = Len(l.asked)
      /\ \A i \in 1 .. Len(fresh) : fresh[i].degraded /\ fresh[i].found = {}
  <2>1. DOMAIN l.asked = 1 .. Len(l.asked) /\ \A i \in 1 .. Len(l.asked) : l.asked[i] \in Packages
    BY <1>2
  <2>2. fresh \in Seq(Results) /\ Len(fresh) = Len(l.asked)
    BY <1>2, <1>3, <2>1
  <2>3. \A i \in 1 .. Len(l.asked) : fresh[i].degraded /\ fresh[i].found = {}
    BY <1>3, <2>1
  <2> QED BY <2>2, <2>3
<1> HIDE DEF fresh
<1>6. /\ new \in LookupStates /\ new.hits = l.hits /\ new.fresh = fresh /\ new.named = l.named
      /\ new.age = l.age /\ new.step = "store" /\ new.stored = l.stored
  BY <1>1, <1>5 DEF LookupStates
<1>7. l.named = {} /\ l.stored = 0 /\ 0 <= Len(fresh)
  BY <1>1, <1>5 DEF LookupSane
<1>8. \A i \in 1 .. Len(fresh) : FreshSane(published, fresh[i], l.age)
  BY <1>5 DEF FreshSane, Listings
<1>9. LookupSane(published, new)
  BY <1>1, <1>6, <1>7, <1>8 DEF LookupSane
<1> HIDE DEF new
<1> QED BY <1>6, <1>9, <1>4, OneLookup

LEMMA ParsedSane ==
  ASSUME Inv, NEW p \in Packages, NEW item \in Items(p), NEW age \in Nat
  PROVE  /\ Parsed(p, item) \in Results /\ Parsed(p, item).package = p
         /\ item # NoList => Parsed(p, item).found = Named(item)
         /\ FreshSane(published, Parsed(p, item), age)
<1>1. CASE item = NoList
  BY <1>1 DEF Parsed, Result, Results, FreshSane, Listings
<1>2. CASE item # NoList
  <2>1. item \in [{a \in Advisories : published[p][a] # Unlisted} -> {"whole", "id only", "unreadable"}]
    BY <1>2 DEF Items
  <2>2. Named(item) \subseteq Advisories /\ \A a \in Named(item) : published[p][a] # Unlisted
    BY <2>1 DEF Named
  <2>3. Partial(item) \in BOOLEAN
    BY DEF Partial
  <2>4. ASSUME ~Partial(item), NEW a \in Advisories \ Named(item)
        PROVE  published[p][a] <= age
    <3>1. \A x \in DOMAIN item : item[x] = "whole"
      BY <2>4 DEF Partial
    <3>2. a \notin DOMAIN item
      BY <3>1 DEF Named
    <3>3. published[p][a] = -1
      BY <2>1, <3>2 DEF Unlisted
    <3> QED BY <3>3
  <2> DEFINE res == Parsed(p, item)
  <2>5. res.package = p /\ res.found = Named(item) /\ res.degraded = Partial(item) /\ res \in Results
    BY <1>2, <2>2, <2>3 DEF Parsed, Result, Results
  <2> HIDE DEF res
  <2>6. FreshSane(published, res, age)
    BY <2>2, <2>4, <2>5 DEF FreshSane, Listings, Missing
  <2> QED BY <1>2, <2>5, <2>6 DEF res
<1> QED BY <1>1, <1>2

LEMMA AnsweredKeeps == ASSUME Inv, NEW k \in Lookups, Answered(k) PROVE Inv'
<1> DEFINE l == lookup[k]
           asked == l.asked
<1>1. l \in LookupStates /\ LookupSane(published, l) /\ l.step = "ask" /\ Attempting(k)
  BY Types DEF Answered, Attempting, At
<1>2. asked \in Seq(Packages) /\ l.age \in Nat
  BY <1>1 DEF LookupStates
<1>3. UNCHANGED <<published, row>>
  BY DEF Answered
<1>4. PICK S \in SUBSET DOMAIN asked : \E reply \in Replies(asked, S) :
        Becomes(k, IF ~Aligned(asked, reply) THEN Retried(k)
          ELSE [lookup[k] EXCEPT !.step = IF Heard(asked, reply) = {} THEN "store" ELSE "enrich",
                  !.fresh = [i \in DOMAIN reply |-> Parsed(asked[i], reply[i])],
                  !.named = Heard(asked, reply)])
  BY DEF Answered
<1>5. PICK reply \in Replies(asked, S) :
        Becomes(k, IF ~Aligned(asked, reply) THEN Retried(k)
          ELSE [lookup[k] EXCEPT !.step = IF Heard(asked, reply) = {} THEN "store" ELSE "enrich",
                  !.fresh = [i \in DOMAIN reply |-> Parsed(asked[i], reply[i])],
                  !.named = Heard(asked, reply)])
  BY <1>4
<1>6. CASE ~Aligned(asked, reply)
  <2>1. Becomes(k, Retried(k))
    BY <1>5, <1>6
  <2> QED BY <1>1, <1>3, <2>1, RetriedSane, OneLookup
<1>7. CASE Aligned(asked, reply)
  <2> DEFINE fresh == [i \in DOMAIN reply |-> Parsed(asked[i], reply[i])]
             named == Heard(asked, reply)
             new == [l EXCEPT !.step = IF named = {} THEN "store" ELSE "enrich",
                              !.fresh = fresh, !.named = named]
  <2>1. Becomes(k, new)
    BY <1>5, <1>7
  <2>2. DOMAIN reply = 1 .. Len(asked) /\ \A i \in 1 .. Len(asked) : reply[i] \in Items(asked[i])
    BY <1>2, <1>7, FullReply DEF Aligned
  <2>3. \A i \in 1 .. Len(asked) : asked[i] \in Packages
    BY <1>2
  <2>4. \A i \in 1 .. Len(asked) :
          /\ Parsed(asked[i], reply[i]) \in Results /\ Parsed(asked[i], reply[i]).package = asked[i]
          /\ reply[i] # NoList => Parsed(asked[i], reply[i]).found = Named(reply[i])
          /\ FreshSane(published, Parsed(asked[i], reply[i]), l.age)
    BY <1>2, <2>2, <2>3, ParsedSane
  <2>5. /\ fresh \in Seq(Results) /\ Len(fresh) = Len(asked)
        /\ \A i \in 1 .. Len(asked) : fresh[i] = Parsed(asked[i], reply[i])
    BY <1>2, <2>2, <2>4
  <2>6. named \subseteq Packages \X Advisories
    BY DEF Heard
  <2>7. ASSUME NEW x \in named
        PROVE  \E i \in 1 .. Len(fresh) : fresh[i].package = x[1] /\ x[2] \in fresh[i].found
    <3>1. PICK i \in DOMAIN reply : asked[i] = x[1] /\ reply[i] # NoList /\ x[2] \in Named(reply[i])
      BY DEF Heard
    <3> HIDE DEF fresh, named
    <3>2. i \in 1 .. Len(fresh) /\ fresh[i].package = asked[i] /\ fresh[i].found = Named(reply[i])
      BY <2>2, <2>4, <2>5, <3>1
    <3> QED BY <3>1, <3>2
  <2> HIDE DEF fresh, named
  <2>8. /\ new \in LookupStates /\ new.hits = l.hits /\ new.fresh = fresh /\ new.named = named
        /\ new.age = l.age /\ new.step \in {"store", "enrich"} /\ new.stored = l.stored
    BY <1>1, <2>5, <2>6 DEF LookupStates
  <2>9. l.stored = 0 /\ 0 <= Len(fresh)
    BY <1>1, <2>5 DEF LookupSane
  <2>10. \A i \in 1 .. Len(fresh) : FreshSane(published, fresh[i], l.age)
    BY <2>4, <2>5
  <2> HIDE DEF new
  <2>11. LookupSane(published, new)
    BY <1>1, <2>7, <2>8, <2>9, <2>10 DEF LookupSane
  <2> QED BY <1>3, <2>1, <2>8, <2>11, OneLookup
<1> QED BY <1>6, <1>7

LEMMA EnrichKeeps == ASSUME Inv, NEW k \in Lookups, Enrich(k) PROVE Inv'
<1> DEFINE l == lookup[k]
<1>1. l \in LookupStates /\ LookupSane(published, l) /\ l.step = "enrich" /\ UNCHANGED <<published, row>>
  BY Types DEF Enrich, At
<1>2. PICK got \in SUBSET {x \in l.named : x[2] \in MalByAlias} :
        Becomes(k, [l EXCEPT !.step = "store",
                      !.fresh = [i \in DOMAIN l.fresh |-> WithAliases(l.fresh[i], got)]])
  BY DEF Enrich
<1> DEFINE fresh == [i \in DOMAIN l.fresh |-> WithAliases(l.fresh[i], got)]
           new == [l EXCEPT !.step = "store", !.fresh = fresh]
<1>3. l.fresh \in Seq(Results)
  BY <1>1 DEF LookupStates
<1>4. ASSUME NEW res \in Results
      PROVE  /\ WithAliases(res, got) \in Results
             /\ WithAliases(res, got).package = res.package /\ WithAliases(res, got).found = res.found
             /\ WithAliases(res, got).degraded = res.degraded
  BY OsvAssumption DEF WithAliases, Results
<1>5. \A i \in 1 .. Len(l.fresh) : l.fresh[i] \in Results /\ fresh[i] = WithAliases(l.fresh[i], got)
  BY <1>3
<1>6. fresh \in Seq(Results) /\ Len(fresh) = Len(l.fresh)
  BY <1>3, <1>4, <1>5
<1>7. Becomes(k, new)
  BY <1>2
<1> HIDE DEF fresh
<1>8. /\ new \in LookupStates /\ new.hits = l.hits /\ new.fresh = fresh /\ new.named = l.named
      /\ new.age = l.age /\ new.step = "store" /\ new.stored = l.stored
  BY <1>1, <1>6 DEF LookupStates
<1> HIDE DEF new
<1>9. \A i \in 1 .. Len(fresh) : FreshSane(published, fresh[i], l.age)
  BY <1>1, <1>4, <1>5, <1>6 DEF LookupSane, FreshSane
<1>10. \A x \in l.named : \E i \in 1 .. Len(fresh) : fresh[i].package = x[1] /\ x[2] \in fresh[i].found
  <2>1. ASSUME NEW x \in l.named
        PROVE  \E i \in 1 .. Len(fresh) : fresh[i].package = x[1] /\ x[2] \in fresh[i].found
    <3>1. PICK i \in 1 .. Len(l.fresh) : l.fresh[i].package = x[1] /\ x[2] \in l.fresh[i].found
      BY <1>1 DEF LookupSane
    <3>2. i \in 1 .. Len(fresh) /\ fresh[i].package = x[1] /\ x[2] \in fresh[i].found
      BY <1>4, <1>5, <1>6, <3>1
    <3> QED BY <3>2
  <2> QED BY <2>1
<1>11. LookupSane(published, new)
  BY <1>1, <1>6, <1>8, <1>9, <1>10 DEF LookupSane
<1> QED BY <1>1, <1>7, <1>8, <1>11, OneLookup

LEMMA StoreKeeps == ASSUME Inv, NEW k \in Lookups, Store(k) PROVE Inv'
<1> DEFINE l == lookup[k]
           res == l.fresh[l.stored + 1]
           new == [l EXCEPT !.stored = @ + 1]
<1>1. /\ l \in LookupStates /\ LookupSane(published, l) /\ l.step = "store" /\ l.stored < Len(l.fresh)
      /\ Becomes(k, new) /\ UNCHANGED published
      /\ row' = IF res.degraded THEN row
                ELSE [row EXCEPT ![res.package] = [age |-> 0, found |-> res.found, aliased |-> res.aliased]]
  BY Types DEF Store, At
<1>2. l.fresh \in Seq(Results) /\ l.stored \in Nat /\ l.age \in 0 .. Longest
  BY <1>1 DEF LookupStates
<1>3. /\ new \in LookupStates /\ new.hits = l.hits /\ new.fresh = l.fresh /\ new.named = l.named
      /\ new.age = l.age /\ new.step = "store" /\ new.stored = l.stored + 1
  <2>1. l \in LookupStates /\ l.step = "store" /\ l.stored + 1 \in Nat
    BY <1>1, <1>2
  <2> QED BY <2>1 DEF LookupStates
<1>4. new.stored <= Len(new.fresh)
  BY <1>1, <1>2, <1>3
<1>5. l.stored + 1 \in 1 .. Len(l.fresh) /\ res \in Results /\ FreshSane(published, res, l.age)
  <2>1. l.stored + 1 \in 1 .. Len(l.fresh)
    BY <1>1, <1>2
  <2> QED BY <1>1, <1>2, <2>1 DEF LookupSane
<1> HIDE DEF new, res
<1>6. LookupSane(published, new)
  BY <1>1, <1>3, <1>4, SameResults
<1>7. /\ row' \in [Packages -> [age : 0 .. Ttl + 1, found : SUBSET Advisories, aliased : SUBSET Advisories]]
      /\ \A p \in Packages : RowSane(published, p, row'[p])
  <2>1. /\ row \in [Packages -> [age : 0 .. Ttl + 1, found : SUBSET Advisories, aliased : SUBSET Advisories]]
        /\ \A p \in Packages : RowSane(published, p, row[p])
    BY Types DEF Inv
  <2>2. CASE res.degraded
    BY <1>1, <2>1, <2>2
  <2>3. CASE ~res.degraded
    <3> DEFINE r == [age |-> 0, found |-> res.found, aliased |-> res.aliased]
    <3>1. /\ res.package \in Packages /\ Ttl \in Nat /\ Longest \in Nat
          /\ res.found \in SUBSET Advisories /\ res.aliased \in SUBSET Advisories
      BY <1>5, OsvAssumption DEF Results
    <3>2. r \in [age : 0 .. Ttl + 1, found : SUBSET Advisories, aliased : SUBSET Advisories]
      BY <3>1
    <3>3. RowSane(published, res.package, r)
      <4>1. Listings(published, res.package, res.found) /\ Missing(published, res.package, res.found, l.age)
        BY <1>5, <2>3 DEF FreshSane
      <4>2. ASSUME NEW a \in Advisories \ res.found
            PROVE  published[res.package][a] <= 0 + Longest
        <5>1. published \in [Packages -> [Advisories -> Unlisted .. Overdue]]
          BY Types
        <5>2. published[res.package][a] \in Unlisted .. Overdue
          BY <3>1, <5>1
        <5>3. published[res.package][a] <= l.age
          BY <4>1 DEF Missing
        <5> QED BY <1>2, <3>1, <5>2, <5>3
      <4> QED BY <4>1, <4>2 DEF RowSane, Missing
    <3>4. row' = [row EXCEPT ![res.package] = r]
      BY <1>1, <2>3
    <3> HIDE DEF r
    <3>5. row' \in [Packages -> [age : 0 .. Ttl + 1, found : SUBSET Advisories, aliased : SUBSET Advisories]]
      BY <2>1, <3>1, <3>2, <3>4
    <3>6. \A p \in Packages : row'[p] = IF p = res.package THEN r ELSE row[p]
      BY <2>1, <3>4
    <3> QED BY <2>1, <3>3, <3>5, <3>6
  <2> QED BY <2>2, <2>3
<1>8. lookup' \in [Lookups -> LookupStates] /\ \A j \in Lookups : lookup'[j] = IF j = k THEN new ELSE lookup[j]
  BY <1>1, <1>3 DEF Becomes, Inv, TypeOK
<1>9. TypeOK'
  BY <1>1, <1>4, <1>7, <1>8 DEF Inv, TypeOK
<1>10. \A j \in Lookups : LookupSane(published, lookup'[j])
  BY <1>6, <1>8 DEF Inv
<1> QED BY <1>1, <1>7, <1>9, <1>10 DEF Inv

-----------------------------------------------------------------------------
(* The steps of the clock and of OSV. *)

LEMMA PublishKeeps == ASSUME Inv, NEW p \in Packages, NEW a \in Advisories, Publish(p, a) PROVE Inv'
<1>1. /\ published' = [published EXCEPT ![p][a] = 0] /\ UNCHANGED <<row, lookup>>
      /\ {Ttl, Longest} \subseteq Nat
      /\ published \in [Packages -> [Advisories -> Unlisted .. Overdue]]
      /\ row \in [Packages -> [age : 0 .. Ttl + 1, found : SUBSET Advisories, aliased : SUBSET Advisories]]
      /\ lookup \in [Lookups -> LookupStates]
  BY OsvAssumption DEF Publish, Inv, TypeOK
<1>2. 0 \in Unlisted .. Overdue /\ 0 # Unlisted
  BY <1>1 DEF Unlisted, Overdue
<1>3. published' \in [Packages -> [Advisories -> Unlisted .. Overdue]]
  BY <1>1, <1>2
<1>4. \A q \in Packages, b \in Advisories :
        published'[q][b] = published[q][b] \/ (published'[q][b] = 0)
  BY <1>1
<1>5. ASSUME NEW q \in Packages, NEW found \in SUBSET Advisories
      PROVE  /\ Listings(published, q, found) => Listings(published', q, found)
             /\ \A most \in Nat : Missing(published, q, found, most) => Missing(published', q, found, most)
  BY <1>2, <1>4 DEF Listings, Missing
<1>6. ASSUME NEW q \in Packages PROVE RowSane(published', q, row[q])
  <2>1. row[q].found \in SUBSET Advisories /\ row[q].age \in Nat /\ row[q].age + Longest \in Nat
    BY <1>1
  <2>2. RowSane(published, q, row[q])
    BY DEF Inv
  <2> QED BY <1>5, <2>1, <2>2 DEF RowSane
<1>7. ASSUME NEW k \in Lookups PROVE LookupSane(published', lookup[k])
  <2>1. LookupSane(published, lookup[k]) /\ lookup[k] \in LookupStates
    BY Types
  <2>2. /\ lookup[k].hits \in Seq(Results) /\ lookup[k].fresh \in Seq(Results)
        /\ lookup[k].age \in Nat /\ Ttl + Longest + lookup[k].age \in Nat
    <3>1. lookup[k].hits \in Seq(Results) /\ lookup[k].fresh \in Seq(Results) /\ lookup[k].age \in 0 .. Longest
      BY <2>1 DEF LookupStates
    <3>2. Ttl \in Nat /\ Longest \in Nat
      BY <1>1
    <3> QED BY <3>1, <3>2
  <2>3. \A i \in 1 .. Len(lookup[k].hits) : HitSane(published', lookup[k].hits[i], lookup[k].age)
    <3>1. \A i \in 1 .. Len(lookup[k].hits) :
             lookup[k].hits[i].package \in Packages /\ lookup[k].hits[i].found \in SUBSET Advisories
      BY <2>2, ResultTypes
    <3> QED BY <1>5, <2>1, <2>2, <3>1 DEF LookupSane, HitSane
  <2>4. \A i \in 1 .. Len(lookup[k].fresh) : FreshSane(published', lookup[k].fresh[i], lookup[k].age)
    <3>1. \A i \in 1 .. Len(lookup[k].fresh) :
             lookup[k].fresh[i].package \in Packages /\ lookup[k].fresh[i].found \in SUBSET Advisories
      BY <2>2, ResultTypes
    <3> QED BY <1>5, <2>1, <2>2, <3>1 DEF LookupSane, FreshSane
  <2> QED BY <2>1, <2>3, <2>4 DEF LookupSane
<1>8. TypeOK'
  BY <1>1, <1>3 DEF Inv, TypeOK
<1> QED BY <1>1, <1>6, <1>7, <1>8 DEF Inv

LEMMA TickKeeps == ASSUME Inv, Tick PROVE Inv'
<1>1. /\ \A k \in Lookups : At(k, "idle") \/ (lookup[k].age < Longest /\ ~At(k, "told"))
      /\ published' = [p \in Packages |-> [a \in Advisories |->
           IF published[p][a] = Unlisted THEN Unlisted ELSE Older(published[p][a], Overdue)]]
      /\ row' = [p \in Packages |->
           IF row[p].age < Ttl THEN [row[p] EXCEPT !.age = @ + 1] ELSE NoRow]
      /\ lookup' = [k \in Lookups |->
           IF At(k, "idle") THEN Idle ELSE [lookup[k] EXCEPT !.age = @ + 1]]
  BY DEF Tick
<1>2. /\ Ttl \in Nat /\ Longest \in Nat /\ Overdue \in Nat
      /\ published \in [Packages -> [Advisories -> Unlisted .. Overdue]]
      /\ row \in [Packages -> [age : 0 .. Ttl + 1, found : SUBSET Advisories, aliased : SUBSET Advisories]]
      /\ lookup \in [Lookups -> LookupStates]
  BY OsvAssumption DEF Inv, TypeOK, Overdue
<1>3. ASSUME NEW p \in Packages, NEW a \in Advisories
      PROVE  /\ published'[p][a] \in Unlisted .. Overdue
             /\ published[p][a] # Unlisted => published'[p][a] # Unlisted
             /\ \A most \in Nat : published[p][a] <= most => published'[p][a] <= most + 1
  <2>1. published[p][a] \in Unlisted .. Overdue
    BY <1>2
  <2>2. published'[p][a] = IF published[p][a] = Unlisted THEN Unlisted ELSE Older(published[p][a], Overdue)
    BY <1>1
  <2>3. CASE published[p][a] = Unlisted
    BY <1>2, <2>1, <2>2, <2>3 DEF Unlisted
  <2>4. CASE published[p][a] # Unlisted
    <3>1. published[p][a] \in Nat /\ published'[p][a] = Older(published[p][a], Overdue)
      BY <2>1, <2>2, <2>4 DEF Unlisted
    <3>2. CASE published[p][a] < Overdue
      BY <1>2, <3>1, <3>2 DEF Older, Unlisted
    <3>3. CASE ~(published[p][a] < Overdue)
      <4>1. published'[p][a] = Overdue /\ published[p][a] = Overdue
        <5>1. published[p][a] <= Overdue /\ published[p][a] \in Int /\ Overdue \in Int
          BY <1>2, <2>1
        <5>2. published[p][a] = Overdue
          BY <3>3, <5>1
        <5> QED BY <3>1, <3>3, <5>2 DEF Older
      <4> QED BY <1>2, <4>1 DEF Unlisted
    <3> QED BY <3>2, <3>3
  <2> QED BY <2>3, <2>4
<1>4. published' \in [Packages -> [Advisories -> Unlisted .. Overdue]]
  <2>1. \A p \in Packages : published'[p] = [a \in Advisories |->
           IF published[p][a] = Unlisted THEN Unlisted ELSE Older(published[p][a], Overdue)]
    BY <1>1
  <2>2. \A p \in Packages : published'[p] \in [Advisories -> Unlisted .. Overdue]
    BY <1>3, <2>1
  <2> QED BY <1>1, <2>2
<1>5. ASSUME NEW p \in Packages, NEW found \in SUBSET Advisories
      PROVE  /\ Listings(published, p, found) => Listings(published', p, found)
             /\ \A most \in Nat : Missing(published, p, found, most) => Missing(published', p, found, most + 1)
  <2>1. Listings(published, p, found) => Listings(published', p, found)
    BY <1>3 DEF Listings
  <2>2. ASSUME NEW most \in Nat, Missing(published, p, found, most)
        PROVE  Missing(published', p, found, most + 1)
    BY <1>3, <2>2 DEF Missing
  <2> QED BY <2>1, <2>2
<1>6. ASSUME NEW p \in Packages
      PROVE  /\ row'[p] \in [age : 0 .. Ttl + 1, found : SUBSET Advisories, aliased : SUBSET Advisories]
             /\ RowSane(published', p, row'[p])
  <2>1. /\ row[p] \in [age : 0 .. Ttl + 1, found : SUBSET Advisories, aliased : SUBSET Advisories]
        /\ RowSane(published, p, row[p]) /\ row[p].age \in Nat /\ row[p].age + Longest \in Nat
    BY <1>2 DEF Inv
  <2>2. CASE row[p].age < Ttl
    <3> DEFINE r == [row[p] EXCEPT !.age = @ + 1]
    <3>1. row'[p] = r
      BY <1>1, <2>2
    <3>2. r.age = row[p].age + 1 /\ r.found = row[p].found /\ r.age \in 0 .. Ttl + 1
      BY <1>2, <2>1, <2>2
    <3>3. r \in [age : 0 .. Ttl + 1, found : SUBSET Advisories, aliased : SUBSET Advisories]
      BY <2>1, <3>2
    <3> HIDE DEF r
    <3>4. Listings(published, p, r.found) /\ Missing(published, p, r.found, row[p].age + Longest)
      BY <1>2, <2>1, <2>2, <3>2 DEF RowSane
    <3>5. Listings(published', p, r.found) /\ Missing(published', p, r.found, (row[p].age + Longest) + 1)
      BY <1>5, <2>1, <3>2, <3>4
    <3>6. (row[p].age + Longest) + 1 = r.age + Longest
      BY <1>2, <2>1, <3>2
    <3>7. RowSane(published', p, r)
      BY <3>5, <3>6 DEF RowSane
    <3> QED BY <3>1, <3>3, <3>7
  <2>3. CASE ~(row[p].age < Ttl)
    <3>1. row'[p] = NoRow
      BY <1>1, <2>3
    <3>2. NoRow \in [age : 0 .. Ttl + 1, found : SUBSET Advisories, aliased : SUBSET Advisories]
      BY <1>2 DEF NoRow
    <3>3. NoRow.found = {} /\ ~(NoRow.age <= Ttl)
      BY <1>2 DEF NoRow
    <3> QED BY <3>1, <3>2, <3>3 DEF RowSane, Listings
  <2> QED BY <2>2, <2>3
<1>7. ASSUME NEW k \in Lookups
      PROVE  lookup'[k] \in LookupStates /\ LookupSane(published', lookup'[k])
  <2>1. CASE At(k, "idle")
    <3>1. lookup'[k] = Idle /\ Idle \in LookupStates
      BY <1>1, <2>1, IdleSane
    <3>2. LookupSane(published', Idle)
      BY EmptyLists DEF Idle, LookupSane
    <3> QED BY <3>1, <3>2
  <2>2. CASE ~At(k, "idle")
    <3> DEFINE l == lookup[k]
               new == [l EXCEPT !.age = @ + 1]
    <3>1. lookup'[k] = new
      BY <1>1, <2>2
    <3>2. l \in LookupStates /\ LookupSane(published, l) /\ l.age < Longest
      BY <1>1, <2>2, Types
    <3>3. l.age \in Nat /\ l.age + 1 \in 0 .. Longest
      BY <1>2, <3>2 DEF LookupStates
    <3>4. /\ new \in LookupStates /\ new.hits = l.hits /\ new.fresh = l.fresh /\ new.named = l.named
          /\ new.age = l.age + 1 /\ new.step = l.step /\ new.stored = l.stored
      BY <3>2, <3>3 DEF LookupStates
    <3>5. l.hits \in Seq(Results) /\ l.fresh \in Seq(Results)
      BY <3>2 DEF LookupStates
    <3> HIDE DEF new, l
    <3>6. ASSUME NEW i \in 1 .. Len(l.hits)
          PROVE  HitSane(published', l.hits[i], l.age + 1)
      <4>1. HitSane(published, l.hits[i], l.age)
        BY <3>2 DEF LookupSane
      <4>2. l.hits[i].package \in Packages /\ l.hits[i].found \in SUBSET Advisories
        BY <3>5, ResultTypes
      <4> DEFINE res == l.hits[i]
                 most == Ttl + Longest + l.age
      <4>3. most \in Nat /\ most + 1 = Ttl + Longest + (l.age + 1)
        <5>1. Ttl \in Nat /\ Longest \in Nat /\ l.age \in Nat
          BY <1>2, <3>3
        <5> QED BY ONLY <5>1 DEF most
      <4>4. Listings(published, res.package, res.found) /\ Missing(published, res.package, res.found, most)
        BY <4>1 DEF HitSane
      <4> HIDE DEF res, most
      <4>5. Listings(published', res.package, res.found) /\ Missing(published', res.package, res.found, most + 1)
        BY <1>5, <4>2, <4>3, <4>4 DEF res
      <4> QED BY <4>3, <4>5 DEF HitSane, res
    <3>7. ASSUME NEW i \in 1 .. Len(l.fresh)
          PROVE  FreshSane(published', l.fresh[i], l.age + 1)
      <4>1. FreshSane(published, l.fresh[i], l.age)
        BY <3>2 DEF LookupSane
      <4>2. l.fresh[i].package \in Packages /\ l.fresh[i].found \in SUBSET Advisories
        BY <3>5, ResultTypes
      <4> QED BY <1>5, <3>3, <4>1, <4>2 DEF FreshSane
    <3>8. LookupSane(published', new)
      BY <3>2, <3>4, <3>6, <3>7 DEF LookupSane
    <3> QED BY <3>1, <3>4, <3>8
  <2> QED BY <2>1, <2>2
<1>8. TypeOK'
  <2>1. row' \in [Packages -> [age : 0 .. Ttl + 1, found : SUBSET Advisories, aliased : SUBSET Advisories]]
    <3>1. row' = [p \in Packages |-> row'[p]]
      BY <1>1
    <3> QED BY <1>6, <3>1
  <2>2. lookup' \in [Lookups -> LookupStates]
    <3>1. lookup' = [k \in Lookups |-> lookup'[k]]
      BY <1>1
    <3> QED BY <1>7, <3>1
  <2>3. \A k \in Lookups : lookup'[k].stored <= Len(lookup'[k].fresh)
    BY <1>7 DEF LookupSane
  <2> QED BY <1>4, <2>1, <2>2, <2>3 DEF TypeOK
<1> QED BY <1>6, <1>7, <1>8 DEF Inv

-----------------------------------------------------------------------------
LEMMA InvInit == Init => Inv
<1> SUFFICES ASSUME Init PROVE Inv
  OBVIOUS
<1>1. Ttl \in Nat /\ Longest \in Nat /\ Overdue \in Nat
  BY OsvAssumption DEF Overdue
<1>2. published \in [Packages -> [Advisories -> Unlisted .. Overdue]]
  BY <1>1 DEF Init, Unlisted
<1>3. /\ NoRow \in [age : 0 .. Ttl + 1, found : SUBSET Advisories, aliased : SUBSET Advisories]
      /\ \A p \in Packages : RowSane(published, p, NoRow)
  BY <1>1 DEF NoRow, RowSane, Listings
<1>4. /\ row \in [Packages -> [age : 0 .. Ttl + 1, found : SUBSET Advisories, aliased : SUBSET Advisories]]
      /\ \A p \in Packages : RowSane(published, p, row[p])
  BY <1>3 DEF Init
<1>5. /\ lookup \in [Lookups -> LookupStates]
      /\ \A k \in Lookups : LookupSane(published, lookup[k])
  BY IdleSane DEF Init
<1>6. \A k \in Lookups : lookup[k].stored <= Len(lookup[k].fresh)
  BY <1>5 DEF LookupSane
<1> QED BY <1>2, <1>4, <1>5, <1>6 DEF Inv, TypeOK

LEMMA StutterKeeps == ASSUME Inv, UNCHANGED vars PROVE Inv'
<1>1. UNCHANGED <<published, row, lookup>>
  BY DEF vars
<1>2. TypeOK'
  BY <1>1 DEF Inv, TypeOK
<1> QED BY <1>1, <1>2 DEF Inv

LEMMA InvNext == Inv /\ [Next]_vars => Inv'
  BY TickKeeps, PublishKeeps, BeginKeeps, ReadKeeps, AllReadKeeps, FailsKeeps, GivesUpKeeps, AnsweredKeeps,
     EnrichKeeps, StoreKeeps, AllStoredKeeps, EndKeeps, StutterKeeps DEF Next

\* Every result a lookup has is a hit or fresh.
LEMMA EachResult ==
  ASSUME Inv, NEW k \in Lookups, NEW res \in ResultsOf(k)
  PROVE  /\ res.package \in Packages /\ res.found \in SUBSET Advisories
         /\ HitSane(published, res, lookup[k].age) \/ FreshSane(published, res, lookup[k].age)
<1> DEFINE l == lookup[k]
<1>1. l.hits \in Seq(Results) /\ l.fresh \in Seq(Results) /\ LookupSane(published, l)
  BY Types DEF LookupStates
<1>2. CASE res \in {l.hits[i] : i \in DOMAIN l.hits}
  <2>1. PICK i \in 1 .. Len(l.hits) : res = l.hits[i]
    BY <1>1, <1>2
  <2> QED BY <1>1, <2>1, ResultTypes DEF LookupSane
<1>3. CASE res \in {l.fresh[i] : i \in DOMAIN l.fresh}
  <2>1. PICK i \in 1 .. Len(l.fresh) : res = l.fresh[i]
    BY <1>1, <1>3
  <2> QED BY <1>1, <2>1, ResultTypes DEF LookupSane
<1> QED BY <1>2, <1>3 DEF ResultsOf

(* NothingMisattributed, for `_parse_batch_response` and `OsvCache`: no    *)
(* result and no row of the shared table names an advisory OSV did not     *)
(* list for that package, for any batch of packages, repeated ones too,    *)
(* any reply and any number of lookups at once.                            *)
THEOREM NobodyIsAccusedWrongly == Spec => []NothingMisattributed
<1>1. Inv => NothingMisattributed
  <2> SUFFICES ASSUME Inv PROVE NothingMisattributed
    OBVIOUS
  <2>1. \A p \in Packages : \A a \in row[p].found : published[p][a] # Unlisted
    BY DEF Inv, RowSane, Listings
  <2>2. \A k \in Lookups : \A res \in ResultsOf(k) : \A a \in res.found : published[res.package][a] # Unlisted
    BY EachResult DEF HitSane, FreshSane, Listings
  <2> QED BY <2>1, <2>2 DEF NothingMisattributed
<1> QED BY <1>1, InvInit, InvNext, PTL DEF Spec

(* AdvisoriesAreHeard, for `_parse_vulns`, `OsvResult.degraded` and        *)
(* `OsvCache.get`: what the reply in use named as malicious is in the      *)
(* verdict, and a verdict that claims to be complete misses no advisory    *)
(* older than a row of the table and two lookups.                          *)
THEOREM AdvisoriesAreAlwaysHeard == Spec => []AdvisoriesAreHeard
<1>1. Inv => MaliciousIsHeard
  <2> SUFFICES ASSUME Inv, NEW k \in Lookups, NEW x \in lookup[k].named, x[2] \in MalById
               PROVE  \E res \in ResultsOf(k) : res.package = x[1] /\ Judged(res) = "malicious"
    BY DEF MaliciousIsHeard
  <2> DEFINE l == lookup[k]
  <2>1. l.fresh \in Seq(Results) /\ LookupSane(published, l)
    BY Types DEF LookupStates
  <2>2. PICK i \in 1 .. Len(l.fresh) : l.fresh[i].package = x[1] /\ x[2] \in l.fresh[i].found
    BY <2>1 DEF LookupSane
  <2>3. l.fresh[i] \in ResultsOf(k)
    BY <2>1, <2>2 DEF ResultsOf
  <2>4. Judged(l.fresh[i]) = "malicious"
    BY <2>2 DEF Judged, HasMalicious
  <2> QED BY <2>2, <2>3, <2>4
<1>2. Inv => OldNewsIsTold
  <2> SUFFICES ASSUME Inv, NEW k \in Lookups, NEW res \in ResultsOf(k), Judged(res) \in {"clean", "vulnerable"},
                      NEW a \in Advisories, published[res.package][a] = Overdue, a \notin res.found
               PROVE  FALSE
    BY DEF OldNewsIsTold
  <2>1. ~res.degraded
    BY DEF Judged
  <2>2. Ttl \in Nat /\ Longest \in Nat /\ lookup[k].age \in 0 .. Longest
    BY Types DEF LookupStates
  <2>3. \/ published[res.package][a] <= Ttl + Longest + lookup[k].age
        \/ published[res.package][a] <= lookup[k].age
    BY <2>1, EachResult DEF HitSane, FreshSane, Missing
  <2>4. Overdue > Ttl + Longest + lookup[k].age /\ Overdue > lookup[k].age
    BY <2>2 DEF Overdue
  <2>5. Overdue \in Nat
    BY <2>2 DEF Overdue
  <2> QED BY <2>2, <2>3, <2>4, <2>5
<1> QED BY <1>1, <1>2, InvInit, InvNext, PTL DEF Spec, AdvisoriesAreHeard

-----------------------------------------------------------------------------
(* RiskScoring.  What the packages being scored hold.                      *)
Stages == {"queued", "heuristics", "missed", "waiting", "judge", "raised", "popularity", "lookup",
           "done"}
Answers == {"popular", "unused", "absent", "failed"}
TaskRows ==
  [pc : Stages, group : Nat, best : Int, corpus : Corpora \cup {NoCorpus}, verdict : BOOLEAN]

Typed ==
  /\ task \in [Tasks -> TaskRows]
  /\ top \in [at : Int, corpus : Corpora \cup {NoCorpus}, current : BOOLEAN]
  /\ rows \in [Tasks -> [at : Int, value : Answers \cup {"none"}]]
  /\ scoringNow \in Nat /\ lookupFailedAt \in [Tasks -> Nat]
  /\ reports \in [Tasks -> Int] /\ groupScores \in [Tasks -> SUBSET Nat]

\* Whoever waits for the corpus waits for the one task that resolves it, and it fetches once.
SingleFlight ==
  /\ corpusTask \in {"none", "started", "fetching"}
  /\ corpusFetches = IF corpusTask = "fetching" THEN 1 ELSE 0
  /\ \A t \in Tasks : task[t].pc = "waiting" => corpusTask # "none"

\* A verdict in hand, or remembered, is the one of its corpus.
VerdictsHold ==
  /\ \A t \in Tasks : task[t].pc \in {"judge", "popularity", "lookup"} => task[t].corpus \in Corpora
  /\ \A t \in Tasks : task[t].pc \in {"popularity", "lookup"} =>
                       task[t].verdict = Near(t, task[t].corpus)
  /\ \A t \in Tasks, c \in Corpora : <<t, c>> \in DOMAIN memo => memo[<<t, c>>] = Near(t, c)

Brief == IF FailureTTL <= RowTTL THEN FailureTTL ELSE RowTTL

\* The row of a failure is as old as lets it live for FailureTTL more.
SentinelsHold == \A t \in Tasks :
  rows[t].value = "failed" => rows[t].at = lookupFailedAt[t] - (RowTTL - Brief)

\* A task keeps the worst of its groups' scores, and reports it when it is done.
ReportsHold == \A t \in Tasks :
  /\ task[t].group \in 1 .. Len(Groups[t])
  /\ IF groupScores[t] = {} THEN task[t].best = NoReport
     ELSE task[t].best \in groupScores[t] /\ \A s \in groupScores[t] : s <= task[t].best
  /\ reports[t] = IF task[t].pc = "done" THEN task[t].best ELSE NoReport

Unreported == {t \in Tasks : task[t].pc = "done" /\ groupScores[t] = {}}
Counted == failures = Cardinality(Unreported)

ScoringInv == Typed /\ SingleFlight /\ VerdictsHold /\ SentinelsHold /\ ReportsHold /\ Counted

LEMMA GroupsAreThere == ASSUME RiskScoringAssumption, NEW t \in Tasks
  PROVE 1 \in 1 .. Len(Groups[t])
<1>1. Groups[t] \in Seq(Nat) /\ Groups[t] # <<>>
  BY DEF RiskScoringAssumption
<1> QED BY <1>1

LEMMA GreaterOfTwo ==
  ASSUME NEW a \in Int, NEW b \in Int PROVE Max({a, b}) = IF a >= b THEN a ELSE b
<1> DEFINE Top(x) == x \in {a, b} /\ \A y \in {a, b} : x >= y
<1>1. Top(IF a >= b THEN a ELSE b)
  OBVIOUS
<1>2. \A x, y : Top(x) /\ Top(y) => x = y
  OBVIOUS
<1>3. Max({a, b}) = CHOOSE x : Top(x)
  BY DEF Max
<1> HIDE DEF Top
<1>4. Top(CHOOSE x : Top(x))
  BY <1>1
<1> QED BY <1>1, <1>2, <1>3, <1>4

LEMMA LesserOfTTLs == ASSUME RiskScoringAssumption
  PROVE Brief \in Nat /\ Min({FailureTTL, RowTTL}) = Brief
<1> DEFINE Bottom(x) == x \in {FailureTTL, RowTTL} /\ \A y \in {FailureTTL, RowTTL} : x <= y
<1>1. FailureTTL \in Nat /\ RowTTL \in Nat
  BY DEF RiskScoringAssumption
<1>2. Bottom(Brief)
  BY <1>1 DEF Brief
<1>3. \A x, y : Bottom(x) /\ Bottom(y) => x = y
  BY <1>1
<1>4. Min({FailureTTL, RowTTL}) = CHOOSE x : Bottom(x)
  BY DEF Min
<1> HIDE DEF Bottom
<1>5. Bottom(CHOOSE x : Bottom(x))
  BY <1>2
<1> QED BY <1>1, <1>2, <1>3, <1>4, <1>5 DEF Brief

\* The scores of a package's groups are naturals.
LEMMA ScoresAreNaturals ==
  ASSUME RiskScoringAssumption, ScoringInv, NEW t \in Tasks, NEW value \in Answers
  PROVE  ScoreOf(t, value) \in Nat
<1>1. Groups[t] \in Seq(Nat) /\ task[t].group \in 1 .. Len(Groups[t])
  BY DEF RiskScoringAssumption, ScoringInv, ReportsHold
<1>2. Groups[t][task[t].group] \in Nat
  BY <1>1
<1>3. \A n \in Nat : n \div 2 \in Nat /\ n + 2 \in Nat /\ n + 0 \in Nat /\ n + 2 * 2 \in Nat
      /\ n + 2 * 0 \in Nat
  OBVIOUS
<1> QED BY <1>2, <1>3 DEF ScoreOf

\* Unless a group ends, no package has another report or another score.
LEMMA NoGroupEnds ==
  ASSUME ScoringInv, UNCHANGED <<reports, failures, groupScores>>,
         \A u \in Tasks : /\ task'[u].group = task[u].group /\ task'[u].best = task[u].best
                          /\ task'[u].pc = "done" <=> task[u].pc = "done"
  PROVE  ReportsHold' /\ Counted'
<1>1. Unreported' = Unreported
  BY DEF Unreported
<1>2. Counted'
  BY <1>1 DEF ScoringInv, Counted
<1>3. ReportsHold'
  BY DEF ScoringInv, ReportsHold
<1> QED BY <1>2, <1>3

\* A group ends, with what it adds to the scores of its package.
LEMMA GroupEnds ==
  ASSUME RiskScoringAssumption, ScoringInv, NEW t \in Tasks, NEW r \in TaskRows,
         NEW g \in SUBSET Nat,
         r.group = task[t].group, task[t].pc # "done",
         IF g = {} THEN r.best = NoReport ELSE r.best \in g /\ \A s \in g : s <= r.best,
         groupScores' = [groupScores EXCEPT ![t] = g], Scored(t, r)
  PROVE  /\ task' \in [Tasks -> TaskRows] /\ task'[t].pc \in {"heuristics", "done"}
         /\ \A u \in Tasks : u # t => task'[u] = task[u]
         /\ reports' \in [Tasks -> Int] /\ groupScores' \in [Tasks -> SUBSET Nat]
         /\ ReportsHold' /\ Counted'
<1>1. /\ task \in [Tasks -> TaskRows] /\ reports \in [Tasks -> Int]
      /\ groupScores \in [Tasks -> SUBSET Nat]
  BY DEF ScoringInv, Typed, TaskRows
<1>2. /\ groupScores' \in [Tasks -> SUBSET Nat] /\ groupScores'[t] = g
      /\ \A u \in Tasks : u # t => groupScores'[u] = groupScores[u]
  BY <1>1
<1>3. /\ Groups[t] \in Seq(Nat) /\ task[t].group \in 1 .. Len(Groups[t]) /\ reports[t] = NoReport
      /\ Len(Groups[t]) \in Nat
  BY DEF RiskScoringAssumption, ScoringInv, ReportsHold
<1>4. r.best = NoReport <=> g = {}
  BY DEF NoReport
<1>5. t \notin Unreported
  BY DEF Unreported
<1>6. CASE ~LastGroup(t)
  <2>1. task' = [task EXCEPT ![t] = [r EXCEPT !.pc = "heuristics", !.group = @ + 1]]
        /\ UNCHANGED <<reports, failures>>
    BY <1>6 DEF Scored, To
  <2> DEFINE next == [r EXCEPT !.pc = "heuristics", !.group = @ + 1]
  <2>8. r.group + 1 \in Nat
    BY DEF TaskRows
  <2>9. PICK g1 : g1 = r.group + 1
    OBVIOUS
  <2>10. next = [r EXCEPT !.pc = "heuristics", !.group = g1]
    BY <2>9 DEF TaskRows
  <2>11. [r EXCEPT !.pc = "heuristics", !.group = g1] \in TaskRows
    BY <2>8, <2>9 DEF TaskRows, Stages
  <2>6. /\ next \in TaskRows
        /\ next.pc = "heuristics" /\ next.group = r.group + 1 /\ next.best = r.best
    BY <2>9, <2>10, <2>11 DEF TaskRows
  <2>7. task' = [task EXCEPT ![t] = next]
    BY <2>1
  <2> HIDE DEF next
  <2>2. /\ task' \in [Tasks -> TaskRows] /\ \A u \in Tasks : u # t => task'[u] = task[u]
        /\ task'[t].pc = "heuristics" /\ task'[t].group = r.group + 1 /\ task'[t].best = r.best
    BY <1>1, <2>6, <2>7
  <2>3. task'[t].group \in 1 .. Len(Groups[t])
    BY <1>3, <1>6, <2>2 DEF LastGroup
  <2>4. ReportsHold'
    BY <1>2, <1>3, <2>1, <2>2, <2>3 DEF ScoringInv, ReportsHold
  <2>5. Unreported' = Unreported
    BY <1>2, <1>5, <2>2 DEF Unreported
  <2> QED BY <1>1, <1>2, <2>1, <2>2, <2>4, <2>5 DEF ScoringInv, Counted
<1>7. CASE LastGroup(t)
  <2>1. /\ task' = [task EXCEPT ![t] = [r EXCEPT !.pc = "done"]]
        /\ IF r.best = NoReport THEN failures' = failures + 1 /\ UNCHANGED reports
           ELSE reports' = [reports EXCEPT ![t] = Max({@, r.best})] /\ UNCHANGED failures
    BY <1>7 DEF Scored, To
  <2>2. /\ task' \in [Tasks -> TaskRows] /\ \A u \in Tasks : u # t => task'[u] = task[u]
        /\ task'[t].pc = "done" /\ task'[t].group = r.group /\ task'[t].best = r.best
    BY <1>1, <2>1 DEF TaskRows, Stages
  <2>3. CASE r.best = NoReport
    <3>1. failures' = failures + 1 /\ reports' = reports
      BY <2>1, <2>3
    <3>2. Unreported' = Unreported \cup {t}
      BY <1>2, <1>4, <2>2, <2>3 DEF Unreported
    <3>3. IsFiniteSet(Unreported)
      BY FS_Subset DEF RiskScoringAssumption, Unreported
    <3>4. Cardinality(Unreported') = Cardinality(Unreported) + 1
      BY <1>5, <3>2, <3>3, FS_AddElement
    <3>5. ReportsHold'
      BY <1>2, <1>3, <1>4, <2>2, <2>3, <3>1 DEF ScoringInv, ReportsHold
    <3> QED BY <1>1, <1>2, <2>2, <3>1, <3>4, <3>5 DEF ScoringInv, Counted
  <2>4. CASE r.best # NoReport
    <3>1. r.best \in Nat
      BY <1>4, <2>4
    <3>6. reports[t] \in Int /\ r.best \in Int /\ ~(reports[t] >= r.best)
      BY <1>3, <3>1 DEF NoReport
    <3>2. Max({reports[t], r.best}) = r.best
      BY <3>6, GreaterOfTwo
    <3>7. reports' = [reports EXCEPT ![t] = r.best] /\ failures' = failures
      BY <2>1, <2>4, <3>2
    <3>3. /\ reports' \in [Tasks -> Int] /\ reports'[t] = r.best /\ failures' = failures
          /\ \A u \in Tasks : u # t => reports'[u] = reports[u]
      BY <1>1, <3>1, <3>7
    <3>4. Unreported' = Unreported
      BY <1>2, <1>4, <1>5, <2>2, <2>4 DEF Unreported
    <3>8. /\ task'[t].group \in 1 .. Len(Groups[t])
          /\ groupScores'[t] # {}
          /\ task'[t].best \in groupScores'[t] /\ \A s \in groupScores'[t] : s <= task'[t].best
          /\ task'[t].pc = "done" /\ reports'[t] = task'[t].best
      BY <1>2, <1>3, <1>4, <2>2, <2>4, <3>3
    <3>5. ReportsHold'
      <4> SUFFICES ASSUME NEW u \in Tasks
                   PROVE  /\ task'[u].group \in 1 .. Len(Groups[u])
                          /\ IF groupScores'[u] = {} THEN task'[u].best = NoReport
                             ELSE /\ task'[u].best \in groupScores'[u]
                                  /\ \A s \in groupScores'[u] : s <= task'[u].best
                          /\ reports'[u] = IF task'[u].pc = "done" THEN task'[u].best ELSE NoReport
        BY DEF ReportsHold
      <4>1. CASE u = t
        BY <3>8, <4>1
      <4>2. CASE u # t
        BY <1>2, <2>2, <3>3, <4>2 DEF ScoringInv, ReportsHold
      <4> QED BY <4>1, <4>2
    <3> QED BY <1>2, <2>2, <3>3, <3>4, <3>5 DEF ScoringInv, Counted
  <2> QED BY <2>3, <2>4
<1> QED BY <1>6, <1>7

\* What a read of the corpus' row leaves, and gives.
LEMMA RowIsRead ==
  ASSUME ScoringInv
  PROVE  /\ Evicted \in [at : Int, corpus : Corpora \cup {NoCorpus}, current : BOOLEAN]
         /\ Cached => top.corpus \in Corpora
<1>1. top \in [at : Int, corpus : Corpora \cup {NoCorpus}, current : BOOLEAN]
  BY DEF ScoringInv, Typed
<1> QED BY <1>1 DEF Evicted, Cached

LEMMA AcquireKeeps == ASSUME ScoringInv, NEW t \in Tasks, Acquire(t) PROVE ScoringInv'
<1>1. /\ task' = [task EXCEPT ![t] = [task[t] EXCEPT !.pc = "heuristics"]] /\ task[t].pc = "queued"
      /\ UNCHANGED <<scoringNow, top, corpusTask, memo, rows, reports, failures, groupScores,
                     corpusFetches, lookupFailedAt>>
  BY DEF Acquire, To, caches, results
<1>2. task \in [Tasks -> TaskRows]
  BY DEF ScoringInv, Typed, TaskRows
<1>3. /\ task' \in [Tasks -> TaskRows] /\ \A u \in Tasks : u # t => task'[u] = task[u]
      /\ task'[t].pc = "heuristics" /\ task'[t].group = task[t].group
        /\ task'[t].best = task[t].best
  BY <1>1, <1>2 DEF TaskRows, Stages
<1>4. ReportsHold' /\ Counted'
  BY <1>1, <1>3, NoGroupEnds
<1>5. Typed'
  BY <1>1, <1>3 DEF ScoringInv, Typed, TaskRows
<1>6. SingleFlight'
  BY <1>1, <1>3 DEF ScoringInv, SingleFlight
<1>7. VerdictsHold'
  BY <1>1, <1>3 DEF ScoringInv, VerdictsHold
<1>8. SentinelsHold'
  BY <1>1, <1>3 DEF ScoringInv, SentinelsHold
<1> QED BY <1>4, <1>5, <1>6, <1>7, <1>8 DEF ScoringInv

LEMMA HeuristicsKeeps == ASSUME ScoringInv, NEW t \in Tasks, Heuristics(t) PROVE ScoringInv'
<1>1. /\ task' = [task EXCEPT ![t] =
                     IF Fresh THEN [task[t] EXCEPT !.pc = "judge", !.corpus = top.corpus]
                     ELSE [task[t] EXCEPT !.pc = "missed"]]
      /\ task[t].pc = "heuristics" /\ top' = Evicted
      /\ UNCHANGED <<scoringNow, corpusTask, memo, rows, reports, failures, groupScores,
                     corpusFetches, lookupFailedAt>>
  BY DEF Heuristics, To, results
<1>2. task \in [Tasks -> TaskRows] /\ (Fresh => top.corpus \in Corpora)
  BY RowIsRead DEF ScoringInv, Typed, TaskRows, Fresh
<1>3. /\ task' \in [Tasks -> TaskRows] /\ \A u \in Tasks : u # t => task'[u] = task[u]
      /\ task'[t].pc \in {"judge", "missed"}
        /\ (task'[t].pc = "judge" => task'[t].corpus \in Corpora)
      /\ task'[t].group = task[t].group /\ task'[t].best = task[t].best
  BY <1>1, <1>2 DEF TaskRows, Stages
<1>4. top' \in [at : Int, corpus : Corpora \cup {NoCorpus}, current : BOOLEAN]
  BY <1>1, RowIsRead
<1>5. ReportsHold' /\ Counted'
  BY <1>1, <1>3, <1>4, NoGroupEnds
<1>6. Typed'
  BY <1>1, <1>3, <1>4 DEF ScoringInv, Typed, TaskRows
<1>7. SingleFlight'
  BY <1>1, <1>3, <1>4 DEF ScoringInv, SingleFlight
<1>8. VerdictsHold'
  BY <1>1, <1>3, <1>4 DEF ScoringInv, VerdictsHold
<1>9. SentinelsHold'
  BY <1>1, <1>3, <1>4 DEF ScoringInv, SentinelsHold
<1> QED BY <1>5, <1>6, <1>7, <1>8, <1>9 DEF ScoringInv

LEMMA JoinKeeps == ASSUME ScoringInv, NEW t \in Tasks, Join(t) PROVE ScoringInv'
<1>1. /\ task' = [task EXCEPT ![t] = [task[t] EXCEPT !.pc = "waiting"]] /\ task[t].pc = "missed"
      /\ corpusTask' = IF corpusTask = "none" THEN "started" ELSE corpusTask
      /\ UNCHANGED <<scoringNow, top, memo, rows, reports, failures, groupScores,
                     corpusFetches, lookupFailedAt>>
  BY DEF Join, To, results
<1>2. task \in [Tasks -> TaskRows]
  BY DEF ScoringInv, Typed, TaskRows
<1>3. /\ task' \in [Tasks -> TaskRows] /\ \A u \in Tasks : u # t => task'[u] = task[u]
      /\ task'[t].pc = "waiting" /\ task'[t].group = task[t].group /\ task'[t].best = task[t].best
  BY <1>1, <1>2 DEF TaskRows, Stages
<1>4. ReportsHold' /\ Counted'
  BY <1>1, <1>3, NoGroupEnds
<1>5. Typed'
  BY <1>1, <1>3 DEF ScoringInv, Typed, TaskRows
<1>6. SingleFlight'
  BY <1>1, <1>3 DEF ScoringInv, SingleFlight
<1>7. VerdictsHold'
  BY <1>1, <1>3 DEF ScoringInv, VerdictsHold
<1>8. SentinelsHold'
  BY <1>1, <1>3 DEF ScoringInv, SentinelsHold
<1> QED BY <1>4, <1>5, <1>6, <1>7, <1>8 DEF ScoringInv

\* The shared task ends: whoever waited has the corpus, or an exception.
LEMMA LandKeeps ==
  ASSUME ScoringInv, NEW corpus \in Corpora, Land(corpus) \/ Down, corpusFetches' = 0,
         top' \in [at : Int, corpus : Corpora \cup {NoCorpus}, current : BOOLEAN],
         UNCHANGED <<scoringNow, memo, rows, reports, failures, groupScores, lookupFailedAt>>
  PROVE  ScoringInv'
<1>1. task \in [Tasks -> TaskRows] /\ corpusTask' = "none"
  BY DEF ScoringInv, Typed, TaskRows, Land, Down
<1>5. \/ task' = [t \in Tasks |->
                   IF t \in Waiting THEN [task[t] EXCEPT !.pc = "judge", !.corpus = corpus]
                   ELSE task[t]]
      \/ task' = [t \in Tasks |->
                   IF t \in Waiting THEN [task[t] EXCEPT !.pc = "raised"] ELSE task[t]]
  BY DEF Land, Down
<1>6. /\ DOMAIN task' = Tasks /\ task' = [u \in Tasks |-> task'[u]]
      /\ \A u \in Tasks : u \notin Waiting => task'[u] = task[u]
      /\ \A u \in Tasks : u \in Waiting =>
           \/ task'[u] = [task[u] EXCEPT !.pc = "judge", !.corpus = corpus]
           \/ task'[u] = [task[u] EXCEPT !.pc = "raised"]
  <2>1. CASE task' = [t \in Tasks |->
                      IF t \in Waiting THEN [task[t] EXCEPT !.pc = "judge", !.corpus = corpus]
                      ELSE task[t]]
    BY <2>1
  <2>2. CASE task' = [t \in Tasks |->
                      IF t \in Waiting THEN [task[t] EXCEPT !.pc = "raised"] ELSE task[t]]
    BY <2>2
  <2> QED BY <1>5, <2>1, <2>2
<1>2. ASSUME NEW u \in Tasks
      PROVE  /\ task'[u] \in TaskRows
             /\ task'[u].group = task[u].group /\ task'[u].best = task[u].best
             /\ IF task[u].pc = "waiting"
                THEN \/ task'[u].pc = "judge" /\ task'[u].corpus \in Corpora
                     \/ task'[u].pc = "raised"
                ELSE task'[u] = task[u]
  <2>1. task[u] \in TaskRows
    BY <1>1
  <2>2. CASE u \notin Waiting
    BY <1>6, <2>1, <2>2 DEF Waiting
  <2>3. CASE u \in Waiting
    <3>1. CASE task'[u] = [task[u] EXCEPT !.pc = "judge", !.corpus = corpus]
      BY <2>1, <2>3, <3>1 DEF TaskRows, Stages, Waiting
    <3>2. CASE task'[u] = [task[u] EXCEPT !.pc = "raised"]
      BY <2>1, <2>3, <3>2 DEF TaskRows, Stages, Waiting
    <3> QED BY <1>6, <2>3, <3>1, <3>2
  <2> QED BY <2>2, <2>3
<1>3. task' \in [Tasks -> TaskRows]
  BY <1>2, <1>6
<1>4. \A u \in Tasks :
        /\ task'[u].group = task[u].group /\ task'[u].best = task[u].best
        /\ IF task[u].pc = "waiting"
           THEN \/ task'[u].pc = "judge" /\ task'[u].corpus \in Corpora
                \/ task'[u].pc = "raised"
           ELSE task'[u] = task[u]
  BY <1>2
<1>7. ReportsHold' /\ Counted'
  BY <1>1, <1>3, <1>4, NoGroupEnds
<1>8. Typed'
  BY <1>1, <1>3, <1>4 DEF ScoringInv, Typed, TaskRows
<1>9. SingleFlight'
  BY <1>1, <1>3, <1>4 DEF ScoringInv, SingleFlight
<1>10. VerdictsHold'
  BY <1>1, <1>3, <1>4 DEF ScoringInv, VerdictsHold
<1>11. SentinelsHold'
  BY <1>1, <1>3, <1>4 DEF ScoringInv, SentinelsHold
<1> QED BY <1>7, <1>8, <1>9, <1>10, <1>11 DEF ScoringInv

LEMMA StartKeeps == ASSUME ScoringInv, Start PROVE ScoringInv'
<1>1. /\ corpusTask = "started" /\ top' = Evicted
      /\ UNCHANGED <<scoringNow, memo, rows, reports, failures, groupScores, lookupFailedAt>>
      /\ IF Fresh THEN Land(top.corpus) /\ UNCHANGED corpusFetches
         ELSE Fly /\ corpusFetches' = corpusFetches + 1 /\ UNCHANGED task
  BY DEF Start, results
<1>2. corpusFetches = 0 /\ top' \in [at : Int, corpus : Corpora \cup {NoCorpus}, current : BOOLEAN]
  BY <1>1, RowIsRead DEF ScoringInv, SingleFlight
<1>3. CASE Fresh
  <2>1. top.corpus \in Corpora
    BY <1>3, RowIsRead DEF Fresh
  <2> QED BY <1>1, <1>2, <1>3, <2>1, LandKeeps
<1>4. CASE ~Fresh
  <2>1. corpusTask' = "fetching" /\ corpusFetches' = 1 /\ task' = task
    BY <1>1, <1>2, <1>4 DEF Fly
  <2>2. ReportsHold' /\ Counted'
    BY <1>1, <2>1, NoGroupEnds
  <2> QED BY <1>1, <1>2, <2>1, <2>2 DEF ScoringInv, Typed, SingleFlight, VerdictsHold, SentinelsHold
<1> QED BY <1>3, <1>4

LEMMA StartFailsKeeps == ASSUME RiskScoringAssumption, ScoringInv, StartFails PROVE ScoringInv'
<1>1. /\ corpusTask = "started" /\ Down
      /\ UNCHANGED <<scoringNow, top, memo, rows, reports, failures, groupScores, corpusFetches,
                     lookupFailedAt>>
  BY DEF StartFails, results
<1>2. corpusFetches' = 0 /\ top' \in [at : Int, corpus : Corpora \cup {NoCorpus}, current : BOOLEAN]
  BY <1>1 DEF ScoringInv, SingleFlight, Typed
<1>3. Fallback \in Corpora
  BY DEF RiskScoringAssumption
<1> QED BY <1>1, <1>2, <1>3, LandKeeps

LEMMA FetchedKeeps == ASSUME RiskScoringAssumption, ScoringInv, Fetched PROVE ScoringInv'
<1>1. /\ corpusFetches > 0 /\ corpusFetches' = corpusFetches - 1
      /\ UNCHANGED <<scoringNow, memo, rows, reports, failures, groupScores, lookupFailedAt>>
  BY DEF Fetched, results
<1>2. corpusFetches' = 0
  BY <1>1 DEF ScoringInv, SingleFlight
<1>3. Fallback \in Corpora /\ scoringNow \in Nat
  BY DEF RiskScoringAssumption, ScoringInv, Typed
<1>4. ASSUME NEW c \in Corpora, top' = Stored(c), Land(c) PROVE ScoringInv'
  <2>1. top' \in [at : Int, corpus : Corpora \cup {NoCorpus}, current : BOOLEAN]
    BY <1>3, <1>4 DEF Stored
  <2> QED BY <1>1, <1>2, <1>4, <2>1, LandKeeps
<1>5. CASE top' = Evicted /\ Land(IF Cached THEN top.corpus ELSE Fallback)
  <2>1. (IF Cached THEN top.corpus ELSE Fallback) \in Corpora
    BY <1>3, RowIsRead
  <2> QED BY <1>1, <1>2, <1>5, <2>1, RowIsRead, LandKeeps
<1>6. CASE Down /\ UNCHANGED top
  <2>1. top' \in [at : Int, corpus : Corpora \cup {NoCorpus}, current : BOOLEAN]
    BY <1>6 DEF ScoringInv, Typed
  <2> QED BY <1>1, <1>2, <1>3, <1>6, <2>1, LandKeeps
<1> QED BY <1>4, <1>5, <1>6 DEF Fetched

\* The parts of the invariant that a group's end leaves alone.
LEMMA AGroupsEndKeeps ==
  ASSUME RiskScoringAssumption, ScoringInv, NEW t \in Tasks, task[t].pc # "waiting",
         /\ task' \in [Tasks -> TaskRows] /\ task'[t].pc \in {"heuristics", "done"}
         /\ \A u \in Tasks : u # t => task'[u] = task[u]
         /\ reports' \in [Tasks -> Int] /\ groupScores' \in [Tasks -> SUBSET Nat]
         /\ ReportsHold' /\ Counted',
         rows' \in [Tasks -> [at : Int, value : Answers \cup {"none"}]],
         lookupFailedAt' \in [Tasks -> Nat], SentinelsHold',
         UNCHANGED <<scoringNow, top, corpusTask, memo, corpusFetches>>
  PROVE  ScoringInv'
<1>1. Typed'
  BY DEF ScoringInv, Typed, TaskRows
<1>2. SingleFlight'
  BY DEF ScoringInv, SingleFlight
<1>3. VerdictsHold'
  BY DEF ScoringInv, VerdictsHold
<1> QED BY <1>1, <1>2, <1>3 DEF ScoringInv

LEMMA RaiseKeeps == ASSUME RiskScoringAssumption, ScoringInv, NEW t \in Tasks, Raise(t)
  PROVE ScoringInv'
<1>1. /\ task[t].pc \in {"heuristics", "missed", "judge", "popularity", "lookup", "raised"}
      /\ Scored(t, task[t])
      /\ UNCHANGED <<scoringNow, top, corpusTask, memo, rows, groupScores, corpusFetches,
                     lookupFailedAt>>
  BY DEF Raise, caches
<1>2. task[t] \in TaskRows /\ groupScores \in [Tasks -> SUBSET Nat]
  BY DEF ScoringInv, Typed, TaskRows
<1>3. groupScores' = [groupScores EXCEPT ![t] = groupScores[t]]
  BY <1>1, <1>2
<1>4. IF groupScores[t] = {} THEN task[t].best = NoReport
      ELSE task[t].best \in groupScores[t] /\ \A s \in groupScores[t] : s <= task[t].best
  BY DEF ScoringInv, ReportsHold
<1>5. /\ task' \in [Tasks -> TaskRows] /\ task'[t].pc \in {"heuristics", "done"}
      /\ \A u \in Tasks : u # t => task'[u] = task[u]
      /\ reports' \in [Tasks -> Int] /\ groupScores' \in [Tasks -> SUBSET Nat]
      /\ ReportsHold' /\ Counted'
  BY <1>1, <1>2, <1>3, <1>4, GroupEnds
<1>6. /\ rows' \in [Tasks -> [at : Int, value : Answers \cup {"none"}]]
      /\ lookupFailedAt' \in [Tasks -> Nat]
      /\ SentinelsHold'
  BY <1>1 DEF ScoringInv, Typed, SentinelsHold
<1> QED BY <1>1, <1>5, <1>6, AGroupsEndKeeps

LEMMA JudgeNameKeeps == ASSUME RiskScoringAssumption, ScoringInv, NEW t \in Tasks, JudgeName(t)
  PROVE ScoringInv'
<1> DEFINE kept == Generation(t).memo
           key == <<t, task[t].corpus>>
           verdict == IF key \in DOMAIN kept THEN kept[key] ELSE Near(t, task[t].corpus)
<1>1. /\ task[t].pc = "judge"
      /\ task' = [task EXCEPT ![t] = [task[t] EXCEPT !.pc = "popularity", !.verdict = verdict]]
      /\ memo' = [k \in DOMAIN kept \cup {key} |-> IF k = key THEN verdict ELSE kept[k]]
      /\ UNCHANGED <<scoringNow, top, corpusTask, rows, reports, failures, groupScores,
                     corpusFetches, lookupFailedAt>>
  BY DEF JudgeName, Generation, To, results
<1>2. task \in [Tasks -> TaskRows] /\ task[t].corpus \in Corpora
  BY <1>1 DEF ScoringInv, Typed, TaskRows, VerdictsHold
<1>3. \A u \in Tasks, c \in Corpora : <<u, c>> \in DOMAIN kept => kept[<<u, c>>] = Near(u, c)
  BY DEF Generation, ScoringInv, VerdictsHold
<1>4. verdict = Near(t, task[t].corpus)
  BY <1>2, <1>3
<1> HIDE DEF verdict
<1>5. Near(t, task[t].corpus) \in BOOLEAN
  BY <1>2 DEF RiskScoringAssumption
<1>6. /\ task' \in [Tasks -> TaskRows] /\ \A u \in Tasks : u # t => task'[u] = task[u]
      /\ task'[t].pc = "popularity" /\ task'[t].corpus = task[t].corpus
      /\ task'[t].verdict = Near(t, task[t].corpus)
      /\ task'[t].group = task[t].group /\ task'[t].best = task[t].best
  BY <1>1, <1>2, <1>4, <1>5 DEF TaskRows, Stages
<1>7. \A u \in Tasks, c \in Corpora : <<u, c>> \in DOMAIN memo' => memo'[<<u, c>>] = Near(u, c)
  BY <1>1, <1>3, <1>4
<1>8. ReportsHold' /\ Counted'
  BY <1>1, <1>2, <1>6, <1>7, NoGroupEnds
<1>9. Typed'
  BY <1>1, <1>2, <1>6, <1>7 DEF ScoringInv, Typed, TaskRows
<1>10. SingleFlight'
  BY <1>1, <1>2, <1>6, <1>7 DEF ScoringInv, SingleFlight
<1>11. VerdictsHold'
  BY <1>1, <1>2, <1>6, <1>7 DEF ScoringInv, VerdictsHold
<1>12. SentinelsHold'
  BY <1>1, <1>2, <1>6, <1>7 DEF ScoringInv, SentinelsHold
<1> QED BY <1>8, <1>9, <1>10, <1>11, <1>12 DEF ScoringInv

LEMMA AnalysedKeeps ==
  ASSUME RiskScoringAssumption, ScoringInv, NEW t \in Tasks, NEW value \in Answers,
         Analysed(t, value),
         task[t].pc \in {"popularity", "lookup"},
         rows' \in [Tasks -> [at : Int, value : Answers \cup {"none"}]],
         lookupFailedAt' \in [Tasks -> Nat], SentinelsHold',
         UNCHANGED <<scoringNow, top, corpusTask, memo, corpusFetches>>
  PROVE  ScoringInv'
<1> DEFINE found == ScoreOf(t, value)
           r == [task[t] EXCEPT !.best = Max({@, found})]
<1>1. Scored(t, r) /\ groupScores' = [groupScores EXCEPT ![t] = @ \cup {found}]
  BY DEF Analysed
<1>2. found \in Nat /\ task[t] \in TaskRows /\ groupScores[t] \in SUBSET Nat
  BY ScoresAreNaturals DEF ScoringInv, Typed, TaskRows
<1> HIDE DEF found
<1>3. Max({task[t].best, found}) = IF task[t].best >= found THEN task[t].best ELSE found
  BY <1>2, GreaterOfTwo DEF TaskRows
<1>4. r \in TaskRows /\ r.group = task[t].group
      /\ r.best = IF task[t].best >= found THEN task[t].best ELSE found
  BY <1>2, <1>3 DEF TaskRows
<1> HIDE DEF r
<1>5. IF groupScores[t] = {} THEN task[t].best = NoReport
      ELSE task[t].best \in groupScores[t] /\ \A s \in groupScores[t] : s <= task[t].best
  BY DEF ScoringInv, ReportsHold
<1>6. r.best \in groupScores[t] \cup {found} /\ \A s \in groupScores[t] \cup {found} : s <= r.best
  BY <1>2, <1>4, <1>5 DEF NoReport
<1>7. groupScores[t] \cup {found} \in SUBSET Nat /\ groupScores[t] \cup {found} # {}
  BY <1>2
<1>8. groupScores' = [groupScores EXCEPT ![t] = groupScores[t] \cup {found}]
  BY <1>1
<1>9. /\ task' \in [Tasks -> TaskRows] /\ task'[t].pc \in {"heuristics", "done"}
      /\ \A u \in Tasks : u # t => task'[u] = task[u]
      /\ reports' \in [Tasks -> Int] /\ groupScores' \in [Tasks -> SUBSET Nat]
      /\ ReportsHold' /\ Counted'
  BY <1>1, <1>4, <1>6, <1>7, <1>8, GroupEnds
<1> QED BY <1>9, AGroupsEndKeeps

LEMMA PopularityKeeps ==
  ASSUME RiskScoringAssumption, ScoringInv, NEW t \in Tasks, Popularity(t) PROVE ScoringInv'
<1>1. /\ task[t].pc = "popularity"
      /\ UNCHANGED <<scoringNow, top, corpusTask, memo, rows, corpusFetches, lookupFailedAt>>
  BY DEF Popularity, caches
<1>2. CASE Served(t) = "miss"
  <2>1. /\ task' = [task EXCEPT ![t] = [task[t] EXCEPT !.pc = "lookup"]]
        /\ UNCHANGED <<reports, failures, groupScores>>
    BY <1>2 DEF Popularity, To, results
  <2>2. task \in [Tasks -> TaskRows]
    BY DEF ScoringInv, Typed, TaskRows
  <2>3. /\ task' \in [Tasks -> TaskRows] /\ \A u \in Tasks : u # t => task'[u] = task[u]
        /\ task'[t].pc = "lookup" /\ task'[t].corpus = task[t].corpus
        /\ task'[t].verdict = task[t].verdict
        /\ task'[t].group = task[t].group /\ task'[t].best = task[t].best
    BY <2>1, <2>2 DEF TaskRows, Stages
  <2>4. ReportsHold' /\ Counted'
    BY <1>1, <2>1, <2>3, NoGroupEnds
  <2>5. Typed'
    BY <1>1, <2>1, <2>3 DEF ScoringInv, Typed, TaskRows
  <2>6. SingleFlight'
    BY <1>1, <2>3 DEF ScoringInv, SingleFlight
  <2>7. VerdictsHold'
    BY <1>1, <2>3 DEF ScoringInv, VerdictsHold
  <2> QED BY <1>1, <2>4, <2>5, <2>6, <2>7 DEF ScoringInv, SentinelsHold
<1>3. CASE Served(t) # "miss"
  <2>1. Analysed(t, Served(t))
    BY <1>3 DEF Popularity
  <2>2. Served(t) \in Answers
    BY <1>3 DEF Served, ScoringInv, Typed
  <2>3. /\ rows' \in [Tasks -> [at : Int, value : Answers \cup {"none"}]]
        /\ lookupFailedAt' \in [Tasks -> Nat] /\ SentinelsHold'
    BY <1>1 DEF ScoringInv, Typed, SentinelsHold
  <2> QED BY <1>1, <2>1, <2>2, <2>3, AnalysedKeeps
<1> QED BY <1>2, <1>3

LEMMA LookupKeeps ==
  ASSUME RiskScoringAssumption, ScoringInv, NEW t \in Tasks, Lookup(t) PROVE ScoringInv'
<1>1. PICK value \in Answers :
        /\ rows' = IF value = "absent" THEN rows ELSE [rows EXCEPT ![t] = KeptRow(value)]
        /\ lookupFailedAt' = IF value = "failed" THEN [lookupFailedAt EXCEPT ![t] = scoringNow]
                             ELSE lookupFailedAt
        /\ Analysed(t, value)
  BY DEF Lookup, Answers
<1>2. task[t].pc = "lookup" /\ UNCHANGED <<scoringNow, top, corpusTask, memo, corpusFetches>>
  BY DEF Lookup
<1>3. /\ rows \in [Tasks -> [at : Int, value : Answers \cup {"none"}]]
      /\ lookupFailedAt \in [Tasks -> Nat] /\ scoringNow \in Nat
      /\ RowTTL \in Nat /\ Brief \in Nat /\ Min({FailureTTL, RowTTL}) = Brief
  BY LesserOfTTLs DEF ScoringInv, Typed, RiskScoringAssumption
<1>4. /\ KeptRow(value) =
           [at |-> IF value = "failed" THEN scoringNow - (RowTTL - Brief) ELSE scoringNow,
            value |-> value]
      /\ KeptRow(value) \in [at : Int, value : Answers \cup {"none"}]
  BY <1>3 DEF KeptRow, Sentinel
<1>5. rows' \in [Tasks -> [at : Int, value : Answers \cup {"none"}]]
      /\ lookupFailedAt' \in [Tasks -> Nat]
  BY <1>1, <1>3, <1>4
<1>6. SentinelsHold'
  <2> SUFFICES ASSUME NEW u \in Tasks, rows'[u].value = "failed"
               PROVE  rows'[u].at = lookupFailedAt'[u] - (RowTTL - Brief)
    BY DEF SentinelsHold, Brief
  <2>1. CASE u # t
    BY <1>1, <1>3, <2>1 DEF ScoringInv, SentinelsHold
  <2>2. CASE u = t /\ value = "absent"
    BY <1>1, <1>3, <2>2 DEF ScoringInv, SentinelsHold
  <2>3. CASE u = t /\ value # "absent"
    <3>1. rows'[u] = KeptRow(value)
      BY <1>1, <1>3, <2>3
    <3>2. value = "failed"
      BY <1>4, <3>1
    <3> QED BY <1>1, <1>3, <1>4, <2>3, <3>1, <3>2
  <2> QED BY <2>1, <2>2, <2>3
<1> QED BY <1>1, <1>2, <1>5, <1>6, AnalysedKeeps

LEMMA AgainKeeps == ASSUME RiskScoringAssumption, ScoringInv, Again PROVE ScoringInv'
<1>1. /\ task' = [t \in Tasks |-> Unscored] /\ reports' = [t \in Tasks |-> NoReport]
      /\ failures' = 0
      /\ groupScores' = [t \in Tasks |-> {}] /\ \A t \in Tasks : task[t].pc = "done"
      /\ UNCHANGED <<scoringNow, top, corpusTask, memo, rows, corpusFetches, lookupFailedAt>>
  BY DEF Again, caches
<1>2. \A t \in Tasks : /\ task'[t].pc = "queued" /\ task'[t].group = 1 /\ task'[t].best = NoReport
                       /\ reports'[t] = NoReport /\ groupScores'[t] = {}
  BY <1>1 DEF Unscored
<1>3. Typed'
  <2>1. Unscored \in TaskRows
    BY DEF Unscored, TaskRows, Stages, NoReport
  <2>2. reports' \in [Tasks -> Int] /\ groupScores' \in [Tasks -> SUBSET Nat]
    BY <1>1 DEF NoReport
  <2> QED BY <1>1, <2>1, <2>2 DEF ScoringInv, Typed, TaskRows
<1>4. SingleFlight'
  BY <1>1, <1>2 DEF ScoringInv, SingleFlight
<1>5. VerdictsHold'
  BY <1>1, <1>2 DEF ScoringInv, VerdictsHold
<1>6. ReportsHold'
  BY <1>2, GroupsAreThere DEF ReportsHold
<1>7. Counted'
  BY <1>1, <1>2, FS_EmptySet DEF Counted, Unreported
<1> QED BY <1>1, <1>3, <1>4, <1>5, <1>6, <1>7 DEF ScoringInv, SentinelsHold

LEMMA ScoringInvNext ==
  ASSUME RiskScoringAssumption, ScoringInv, [ScoringNext]_scoringVars PROVE ScoringInv'
<1>1. ASSUME NEW t \in Tasks, Acquire(t) PROVE ScoringInv'
  BY <1>1, AcquireKeeps
<1>2. ASSUME NEW t \in Tasks, Heuristics(t) PROVE ScoringInv'
  BY <1>2, HeuristicsKeeps
<1>3. ASSUME NEW t \in Tasks, Join(t) PROVE ScoringInv'
  BY <1>3, JoinKeeps
<1>4. ASSUME NEW t \in Tasks, Raise(t) PROVE ScoringInv'
  BY <1>4, RaiseKeeps
<1>5. ASSUME NEW t \in Tasks, JudgeName(t) PROVE ScoringInv'
  BY <1>5, JudgeNameKeeps
<1>6. ASSUME NEW t \in Tasks, Popularity(t) PROVE ScoringInv'
  BY <1>6, PopularityKeeps
<1>7. ASSUME NEW t \in Tasks, Lookup(t) PROVE ScoringInv'
  BY <1>7, LookupKeeps
<1>8. CASE Start
  BY <1>8, StartKeeps
<1>9. CASE StartFails
  BY <1>9, StartFailsKeeps
<1>10. CASE Fetched
  BY <1>10, FetchedKeeps
<1>11. CASE ScoringTick
  <2>1. /\ scoringNow' = scoringNow + 1
        /\ UNCHANGED <<top, corpusTask, memo, rows, task, reports, failures, groupScores,
                       corpusFetches, lookupFailedAt>>
    BY <1>11 DEF ScoringTick, caches, results
  <2>2. ReportsHold' /\ Counted'
    BY <2>1, NoGroupEnds
  <2> QED BY <2>1, <2>2 DEF ScoringInv, Typed, SingleFlight, VerdictsHold, SentinelsHold
<1>12. CASE Again
  BY <1>12, AgainKeeps
<1>13. CASE UNCHANGED scoringVars
  <2>1. UNCHANGED <<scoringNow, top, corpusTask, memo, rows, task, reports, failures, groupScores,
                    corpusFetches, lookupFailedAt>>
    BY <1>13 DEF scoringVars, caches, results
  <2>2. ReportsHold' /\ Counted'
    BY <2>1, NoGroupEnds
  <2> QED BY <2>1, <2>2 DEF ScoringInv, Typed, SingleFlight, VerdictsHold, SentinelsHold
<1> QED BY <1>1, <1>2, <1>3, <1>4, <1>5, <1>6, <1>7, <1>8, <1>9, <1>10, <1>11, <1>12, <1>13
DEF ScoringNext

LEMMA ScoringInvStarts == ASSUME RiskScoringAssumption, ScoringInit PROVE ScoringInv
<1>1. /\ scoringNow = 0 /\ corpusTask = "none" /\ corpusFetches = 0 /\ failures = 0
      /\ top \in [at : {0}, corpus : Corpora \cup {NoCorpus}, current : BOOLEAN]
      /\ memo = [k \in {} |-> FALSE] /\ rows = [t \in Tasks |-> [at |-> 0, value |-> "none"]]
      /\ task = [t \in Tasks |-> Unscored] /\ reports = [t \in Tasks |-> NoReport]
      /\ groupScores = [t \in Tasks |-> {}] /\ lookupFailedAt = [t \in Tasks |-> 0]
  BY DEF ScoringInit
<1>2. \A t \in Tasks : /\ task[t].pc = "queued" /\ task[t].group = 1 /\ task[t].best = NoReport
                       /\ reports[t] = NoReport /\ groupScores[t] = {} /\ rows[t].value = "none"
  BY <1>1 DEF Unscored
<1>3. Typed
  <2>1. Unscored \in TaskRows
    BY DEF Unscored, TaskRows, Stages, NoReport
  <2>2. reports \in [Tasks -> Int] /\ groupScores \in [Tasks -> SUBSET Nat]
        /\ lookupFailedAt \in [Tasks -> Nat]
    BY <1>1 DEF NoReport
  <2>3. rows \in [Tasks -> [at : Int, value : Answers \cup {"none"}]]
    BY <1>1
  <2> QED BY <1>1, <2>1, <2>2, <2>3 DEF Typed, TaskRows
<1>4. SingleFlight /\ VerdictsHold /\ SentinelsHold
  BY <1>1, <1>2 DEF SingleFlight, VerdictsHold, SentinelsHold
<1>5. ReportsHold
  BY <1>2, GroupsAreThere DEF ReportsHold
<1>6. Counted
  BY <1>1, <1>2, FS_EmptySet DEF Counted, Unreported
<1> QED BY <1>3, <1>4, <1>5, <1>6 DEF ScoringInv

LEMMA ScoringInvIsEnough == ASSUME RiskScoringAssumption, ScoringInv PROVE ScoresAreCurrent
<1>1. OneFetchForAll
  BY DEF ScoringInv, SingleFlight, OneFetchForAll, Waiting
<1>2. VerdictIsCurrent
  BY DEF ScoringInv, VerdictsHold, VerdictIsCurrent
<1>3. FailureIsBrief
  <2> SUFFICES ASSUME NEW t \in Tasks, Served(t) = "failed"
               PROVE  scoringNow - lookupFailedAt[t] <= FailureTTL
    BY DEF FailureIsBrief
  <2>1. /\ rows[t].value = "failed" /\ ~(scoringNow - rows[t].at > RowTTL)
        /\ rows[t].at = lookupFailedAt[t] - (RowTTL - Brief)
    BY DEF Served, ScoringInv, SentinelsHold
  <2>2. /\ scoringNow \in Nat /\ lookupFailedAt[t] \in Nat /\ Brief \in Nat /\ Brief <= FailureTTL
        /\ RowTTL \in Nat /\ FailureTTL \in Nat
    BY DEF ScoringInv, Typed, RiskScoringAssumption, Brief
  <2> QED BY <2>1, <2>2
<1>4. NoCopyIsConcealed
  <2>1. ASSUME NEW t \in Tasks, task[t].pc = "done"
        PROVE  reports[t] = Max({NoReport} \cup groupScores[t])
    <3> DEFINE S == {NoReport} \cup groupScores[t]
               Top(x) == x \in S /\ \A y \in S : x >= y
    <3>1. groupScores[t] \subseteq Nat /\ reports[t] = task[t].best
      BY <2>1 DEF ScoringInv, Typed, ReportsHold
    <3>2. Top(reports[t])
      BY <3>1 DEF ScoringInv, ReportsHold, NoReport
    <3>3. \A x, y : Top(x) /\ Top(y) => x = y
      BY <3>1 DEF NoReport
    <3>4. Max(S) = CHOOSE x : Top(x)
      BY DEF Max
    <3> HIDE DEF Top
    <3>5. Top(CHOOSE x : Top(x))
      BY <3>2
    <3> QED BY <3>2, <3>3, <3>4, <3>5
  <2>2. {t \in {u \in Tasks : task[u].pc = "done"} : groupScores[t] = {}} = Unreported
    BY DEF Unreported
  <2> QED BY <2>1, <2>2 DEF NoCopyIsConcealed, ScoringInv, Counted
<1> QED BY <1>1, <1>2, <1>3, <1>4 DEF ScoresAreCurrent

(* For any packages, groups of directories, corpora and lifetimes: however *)
(* many of the tasks of score_packages miss the corpus at once, resolve    *)
(* has one fetch for them; a verdict is the one of the corpus resolved for *)
(* it; a failed lookup is served for FailureTTL and no longer; and the     *)
(* report of a package is its worst group's, those without one counted.    *)
THEOREM ScoresHoldTogether ==
  ASSUME RiskScoringAssumption PROVE ScoringSpec => []ScoresAreCurrent
<1>1. ScoringInit => ScoringInv
  BY ScoringInvStarts
<1>2. ScoringInv /\ [ScoringNext]_scoringVars => ScoringInv'
  BY ScoringInvNext
<1>3. ScoringInv => ScoresAreCurrent
  BY ScoringInvIsEnough
<1> QED BY <1>1, <1>2, <1>3, PTL DEF ScoringSpec

-----------------------------------------------------------------------------
(* ScanCommand.  What is remembered of OSV is the truth.                   *)
RowsAreTrue == \A p \in DOMAIN osvCache : osvCache[p] <=> p \in Malicious

InCacheScan == step \in {"languages", "entries", "lookup"}
InScan == step \in {"environments", "osv", "risk", "yanks"}

(* scan-cache: a package that was seen has been judged, and one that was   *)
(* offered has been seen or stands among the entries to come.              *)
CacheScans ==
  [left : Nat, entries : SUBSET Entry, seen : SUBSET SUBSET Keys, current : SUBSET Keys,
   alerts : Seq(Keys), failures : Nat, offered : SUBSET Keys, skipped : SUBSET Keys]

Alerted == Range(scan.alerts)

CacheScanInv == InCacheScan =>
  /\ scan \in CacheScans
  /\ step = "languages" => scan.entries = {}
  /\ IF step = "lookup"
     THEN \E p \in Keys : scan.current = {p} /\ {p} \in scan.seen /\ p \notin Alerted
     ELSE scan.current = {}
  /\ IsInjective(scan.alerts) /\ Alerted \subseteq Malicious /\ scan.skipped \subseteq Unregistered
  /\ \A p \in Alerted : {p} \in scan.seen
  /\ \A p \in Malicious : {p} \in scan.seen =>
        scan.failures > 0 \/ p \in Alerted \cup scan.skipped \cup scan.current
  /\ \A p \in scan.offered : {p} \in scan.seen \/ \E e \in scan.entries : e.names = {p}

(* The scan of environments: what is public of the listing was answered,   *)
(* has failed or is queued, and the totals tell them apart.                *)
Totals ==
  [findings : SUBSET Keys, osvFailures : Nat, scored : SUBSET Keys, riskFailures : Nat,
   yanksTold : SUBSET Keys, yankFailures : Nat, notPublic : Nat]
Jobs ==
  [mode : Modes, environments : Seq(Seq(Requirements)), at : Nat, queue : SUBSET (Nat \X Nat),
   totals : Totals, answered : Nat]

Publics == Public(Listing)
RiskDone == IF step \in {"osv", "risk"} THEN job.at - 1 ELSE job.at
YanksDone == IF step = "environments" THEN job.at ELSE job.at - 1

JobTyped ==
  /\ job \in Jobs /\ job.at <= Len(job.environments)
  /\ step # "environments" => job.at >= 1
  /\ IF step = "osv" THEN job.queue \subseteq Public(Here) ELSE job.queue = {}

Counts ==
  /\ IsFiniteSet(Listing)
  /\ job.answered + job.totals.osvFailures + Cardinality(job.queue) = Cardinality(Publics)
  /\ job.totals.notPublic = Cardinality(Listing \ Publics)

FindingsHold == job.totals.osvFailures = 0 =>
  \A x \in Publics \ job.queue :
     Item(x).package \in Malicious => Item(x).package \in job.totals.findings

ScoresHold == job.mode.risk /\ job.totals.riskFailures = 0 =>
  \A x \in Listing : x[1] <= RiskDone /\ (job.mode.installed \/ Item(x).public) =>
                       Item(x).package \in job.totals.scored

YanksHold == job.mode.yanks /\ ~job.mode.installed /\ job.totals.yankFailures = 0 =>
  \A x \in Publics : x[1] <= YanksDone => Item(x).package \in job.totals.yanksTold

JobInv == InScan =>
  JobTyped /\ Counts /\ FindingsHold /\ ScoresHold /\ YanksHold /\ sent \subseteq PublicKeys

CommandInv == RowsAreTrue /\ cleared \cap Malicious = {} /\ CacheScanInv /\ JobInv

(* An answer never invents an advisory, and a whole one misses none.        *)
LEMMA AnswersAreTrue ==
  ASSUME RowsAreTrue, NEW p, NEW a \in MayAnswer(osvCache, p)
  PROVE  /\ a.malicious => p \in Malicious
         /\ ~a.degraded => (a.malicious <=> p \in Malicious)
<1>1. CASE p \in DOMAIN osvCache
  <2>1. a = [degraded |-> FALSE, malicious |-> osvCache[p]] BY <1>1 DEF MayAnswer, Answer
  <2>2. osvCache[p] <=> p \in Malicious BY <1>1 DEF RowsAreTrue
  <2> QED BY <2>1, <2>2
<1>2. CASE p \notin DOMAIN osvCache
  <2>1. PICK truth : truth = (p \in Malicious) OBVIOUS
  <2>2. a \in {[degraded |-> FALSE, malicious |-> truth], [degraded |-> TRUE, malicious |-> FALSE],
              [degraded |-> TRUE, malicious |-> truth]}
    BY <1>2, <2>1 DEF MayAnswer, Answer, OsvAnswers
  <2>3. a.malicious => truth BY <2>2
  <2>4. ~a.degraded => (a.malicious <=> truth) BY <2>2
  <2> QED BY <2>1, <2>3, <2>4
<1> QED BY <1>1, <1>2

(* OsvCache.set keeps the table true, since it keeps no degraded answer.    *)
LEMMA KeepIsTrue ==
  ASSUME RowsAreTrue, NEW p, NEW a \in MayAnswer(osvCache, p),
         osvCache' = Keep(osvCache, p, a)
  PROVE  RowsAreTrue'
<1>0. ~a.degraded => (a.malicious <=> p \in Malicious) BY AnswersAreTrue
<1>1. CASE a.degraded BY <1>1 DEF Keep, RowsAreTrue
<1>2. CASE ~a.degraded
  <2>1. osvCache' = [q \in DOMAIN osvCache \cup {p} |-> IF q = p THEN a.malicious ELSE osvCache[q]]
    BY <1>2 DEF Keep
  <2>2. SUFFICES ASSUME NEW q \in DOMAIN osvCache' PROVE osvCache'[q] <=> q \in Malicious
    BY DEF RowsAreTrue
  <2>3. CASE q = p
    <3>1. osvCache'[q] = a.malicious BY <2>1, <2>3
    <3> QED BY <3>1, <2>3, <1>0, <1>2
  <2>4. CASE q # p
    <3>1. q \in DOMAIN osvCache /\ osvCache'[q] = osvCache[q] BY <2>1, <2>4
    <3>2. osvCache[q] <=> q \in Malicious BY <3>1 DEF RowsAreTrue
    <3> QED BY <3>1, <3>2
  <2> QED BY <2>3, <2>4
<1> QED BY <1>1, <1>2

(* What holds at the start, and the steps that leave both scans alone.      *)
LEMMA ScanningInitHolds == ScanningInit => CommandInv
BY DEF ScanningInit, CommandInv, RowsAreTrue, CacheScanInv, JobInv, InCacheScan, InScan

LEMMA RowExpiresKeepsIt == CommandInv /\ RowExpires => CommandInv'
<1> SUFFICES ASSUME CommandInv, RowExpires PROVE CommandInv' OBVIOUS
<1>1. PICK p \in DOMAIN osvCache : osvCache' = Restrict(osvCache, DOMAIN osvCache \ {p})
  BY DEF RowExpires
<1>2. RowsAreTrue'
  <2>1. \A q \in DOMAIN osvCache' : q \in DOMAIN osvCache /\ osvCache'[q] = osvCache[q]
    BY <1>1 DEF Restrict
  <2> QED BY <2>1 DEF RowsAreTrue, CommandInv
<1>3. step' = "idle" /\ cleared' = cleared BY DEF RowExpires
<1> QED BY <1>2, <1>3 DEF CommandInv, CacheScanInv, JobInv, InCacheScan, InScan

LEMMA QueryKeepsIt == CommandInv /\ Query => CommandInv'
<1> SUFFICES ASSUME CommandInv, Query PROVE CommandInv' OBVIOUS
<1>0. RowsAreTrue BY DEF CommandInv
<1>1. PICK p \in Keys : \E a \in MayAnswer(osvCache, p) :
        osvCache' = Keep(osvCache, p, a) /\ cleared' = Cleared(p, a)
  BY DEF Query
<1>2. PICK a \in MayAnswer(osvCache, p) :
        osvCache' = Keep(osvCache, p, a) /\ cleared' = Cleared(p, a)
  BY <1>1
<1>3. RowsAreTrue' BY <1>0, <1>2, KeepIsTrue
<1>4. ~a.degraded => (a.malicious <=> p \in Malicious) BY <1>0, AnswersAreTrue
<1>5. cleared' \cap Malicious = {} BY <1>2, <1>4 DEF Cleared
<1>6. step' = "idle" BY DEF Query
<1> QED BY <1>3, <1>5, <1>6 DEF CommandInv, CacheScanInv, JobInv, InCacheScan, InScan
-----------------------------------------------------------------------------
(* scan-cache.                                                              *)
LEMMA StartScanCacheKeepsIt ==
  ASSUME ScanAssumption, CommandInv, StartScanCache PROVE CommandInv'
<1>1. scan' = [left |-> Languages, entries |-> {}, seen |-> {}, current |-> {}, alerts |-> <<>>,
               failures |-> 0, offered |-> {}, skipped |-> {}]
  BY DEF StartScanCache, NoScan
<1>2. step' = "languages" /\ cleared' = {} /\ osvCache' = osvCache BY DEF StartScanCache
<1>3. scan' \in CacheScans BY <1>1 DEF CacheScans, ScanAssumption
<1>4. Alerted' = {} BY <1>1 DEF Alerted, Range
<1>5. IsInjective(scan'.alerts) BY <1>1 DEF IsInjective
<1>6. CacheScanInv' BY <1>1, <1>2, <1>3, <1>4, <1>5 DEF CacheScanInv
<1>7. JobInv' BY <1>2 DEF JobInv, InScan
<1> QED BY <1>2, <1>6, <1>7 DEF CommandInv, RowsAreTrue

LEMMA SkipLanguageKeepsIt ==
  ASSUME CommandInv, SkipLanguage PROVE CommandInv'
<1>0. CacheScanInv /\ step = "languages" /\ scan.left > 0
  BY DEF CommandInv, SkipLanguage
<1>1. scan \in CacheScans /\ scan' = [scan EXCEPT !.left = scan.left - 1]
  BY <1>0 DEF CacheScanInv, InCacheScan, SkipLanguage
<1>2. step' = "languages" /\ cleared' = cleared /\ osvCache' = osvCache BY <1>0 DEF SkipLanguage
<1>3. PICK l \in Nat : l = scan.left - 1 BY <1>0, <1>1 DEF CacheScans
<1>4. scan' \in CacheScans BY <1>1, <1>3 DEF CacheScans
<1>5. /\ scan'.entries = scan.entries /\ scan'.seen = scan.seen /\ scan'.current = scan.current
      /\ scan'.alerts = scan.alerts /\ scan'.failures = scan.failures
      /\ scan'.offered = scan.offered /\ scan'.skipped = scan.skipped
  BY <1>1 DEF CacheScans
<1>6. Alerted' = Alerted BY <1>5 DEF Alerted
<1>7. CacheScanInv' BY <1>0, <1>2, <1>4, <1>5, <1>6 DEF CacheScanInv, InCacheScan
<1>8. JobInv' BY <1>2 DEF JobInv, InScan
<1> QED BY <1>2, <1>7, <1>8 DEF CommandInv, RowsAreTrue

(* Every package a directory offers comes with an entry that names it.      *)
LEMMA TakeLanguageKeepsIt ==
  ASSUME ScanAssumption, CommandInv, NEW required \in Folders, NEW polled \in Folders,
         NEW usable \in BOOLEAN, TakeLanguage(required, polled, usable)
  PROVE  CommandInv'
<1>0. CacheScanInv /\ step = "languages" /\ scan.left > 0
  BY DEF CommandInv, TakeLanguage
<1> DEFINE found == required \cup (IF usable THEN polled ELSE {})
<1>a. required \subseteq Entry /\ polled \subseteq Entry BY DEF ScanAssumption
<1>b. found \subseteq Entry BY <1>a
<1>1. /\ scan \in CacheScans
      /\ scan' = [scan EXCEPT !.left = scan.left - 1, !.entries = found,
                              !.offered = scan.offered \cup Offered(found)]
  BY <1>0 DEF CacheScanInv, InCacheScan, TakeLanguage
<1> HIDE DEF found
<1>2. step' = "entries" /\ cleared' = cleared /\ osvCache' = osvCache BY DEF TakeLanguage
<1>3. PICK l \in Nat : l = scan.left - 1 BY <1>0, <1>1 DEF CacheScans
<1>c. \A e \in found : e.names = {} \/ \E p \in Keys : e.names = {p}
  BY <1>b DEF Entry
<1>d. Offered(found) \subseteq Keys BY <1>c DEF Offered
<1>e. \A p \in Offered(found) : \E e \in found : e.names = {p}
  BY <1>c DEF Offered
<1>5. /\ scan'.entries = found /\ scan'.seen = scan.seen /\ scan'.current = scan.current
      /\ scan'.alerts = scan.alerts /\ scan'.failures = scan.failures
      /\ scan'.offered = scan.offered \cup Offered(found) /\ scan'.skipped = scan.skipped
  BY <1>1 DEF CacheScans
<1>f. scan.offered \cup Offered(found) \in SUBSET Keys BY <1>1, <1>d DEF CacheScans
<1>4. scan' \in CacheScans BY <1>1, <1>3, <1>b, <1>f DEF CacheScans
<1>6. Alerted' = Alerted BY <1>5 DEF Alerted
<1>g. \A p \in scan'.offered : {p} \in scan'.seen \/ \E e \in scan'.entries : e.names = {p}
  <2> TAKE p \in scan'.offered
  <2>1. CASE p \in Offered(found) BY <2>1, <1>e, <1>5
  <2>2. CASE p \in scan.offered
    <3>1. scan.entries = {} BY <1>0 DEF CacheScanInv, InCacheScan
    <3>2. {p} \in scan.seen BY <1>0, <2>2, <3>1 DEF CacheScanInv, InCacheScan
    <3> QED BY <3>2, <1>5
  <2> QED BY <2>1, <2>2, <1>5
<1>7. CacheScanInv' BY <1>0, <1>2, <1>4, <1>5, <1>6, <1>g DEF CacheScanInv, InCacheScan
<1>8. JobInv' BY <1>2 DEF JobInv, InScan
<1> QED BY <1>2, <1>7, <1>8 DEF CommandInv, RowsAreTrue

LEMMA ScanEntryKeepsIt ==
  ASSUME CommandInv, ScanEntry PROVE CommandInv'
<1>0. CacheScanInv /\ step = "entries" BY DEF CommandInv, ScanEntry
<1>1. scan \in CacheScans BY <1>0 DEF CacheScanInv, InCacheScan
<1>2. PICK entry \in scan.entries : SkipEntry(entry) \/ TakeEntry(entry) BY DEF ScanEntry
<1>3. cleared' = cleared /\ osvCache' = osvCache BY DEF ScanEntry
<1>4. entry \in Entry BY <1>1 DEF CacheScans
<1>5. scan.current = {} BY <1>0 DEF CacheScanInv, InCacheScan
<1>6. CASE entry.says \in Unusable \/ entry.names \in scan.seen
  <2>1. scan' = [scan EXCEPT !.entries = scan.entries \ {entry}] /\ step' = step
    BY <1>2, <1>6 DEF SkipEntry, TakeEntry, ScanKey
  <2>2. /\ scan'.entries = scan.entries \ {entry} /\ scan'.seen = scan.seen
        /\ scan'.current = scan.current
        /\ scan'.alerts = scan.alerts /\ scan'.failures = scan.failures
        /\ scan'.offered = scan.offered /\ scan'.skipped = scan.skipped
    BY <1>1, <2>1 DEF CacheScans
  <2>3. scan' \in CacheScans BY <1>1, <2>1 DEF CacheScans
  <2>4. Alerted' = Alerted BY <2>2 DEF Alerted
  <2>5. \A p \in scan'.offered : {p} \in scan'.seen \/ \E e \in scan'.entries : e.names = {p}
    <3> TAKE p \in scan'.offered
    <3>1. {p} \in scan.seen \/ \E e \in scan.entries : e.names = {p}
      BY <1>0, <2>2 DEF CacheScanInv, InCacheScan
    <3>2. entry.names # {p} \/ {p} \in scan.seen BY <1>6, <1>4 DEF Entry, Unusable
    <3> QED BY <3>1, <3>2, <2>2
  <2>6. CacheScanInv' BY <1>0, <2>1, <2>2, <2>3, <2>4, <2>5 DEF CacheScanInv, InCacheScan
  <2>7. JobInv' BY <2>1, <1>0 DEF JobInv, InScan
  <2> QED BY <2>6, <2>7, <1>3 DEF CommandInv, RowsAreTrue
<1>7. CASE entry.says \notin Unusable /\ entry.names \notin scan.seen
  <2>1. /\ scan' = [[scan EXCEPT !.entries = @ \ {entry}]
                        EXCEPT !.seen = @ \cup {entry.names}, !.current = entry.names]
        /\ step' = "lookup"
    BY <1>2, <1>7 DEF SkipEntry, TakeEntry, ScanKey
  <2>2. /\ scan'.entries = scan.entries \ {entry} /\ scan'.seen = scan.seen \cup {entry.names}
        /\ scan'.current = entry.names
        /\ scan'.alerts = scan.alerts /\ scan'.failures = scan.failures
        /\ scan'.offered = scan.offered /\ scan'.skipped = scan.skipped
    BY <1>1, <2>1 DEF CacheScans
  <2>3. PICK p \in Keys : entry.names = {p} BY <1>4, <1>7 DEF Entry
  <2>4. scan' \in CacheScans
    <3>1. {p} \in SUBSET Keys /\ scan.seen \cup {{p}} \in SUBSET SUBSET Keys BY <1>1 DEF CacheScans
    <3> QED BY <1>1, <2>1, <2>3, <3>1 DEF CacheScans
  <2>5. Alerted' = Alerted BY <2>2 DEF Alerted
  <2>6. p \notin Alerted BY <1>0, <1>7, <2>3 DEF CacheScanInv, InCacheScan
  <2>7. scan'.current = {p} /\ {p} \in scan'.seen /\ p \notin Alerted'
    BY <2>2, <2>3, <2>5, <2>6
  <2>8. \A q \in scan'.offered : {q} \in scan'.seen \/ \E e \in scan'.entries : e.names = {q}
    <3> TAKE q \in scan'.offered
    <3>1. {q} \in scan.seen \/ \E e \in scan.entries : e.names = {q}
      BY <1>0, <2>2 DEF CacheScanInv, InCacheScan
    <3> QED BY <3>1, <2>2
  <2>9. \A q \in Malicious : {q} \in scan'.seen =>
          scan'.failures > 0 \/ q \in Alerted' \cup scan'.skipped \cup scan'.current
    <3> SUFFICES ASSUME NEW q \in Malicious, {q} \in scan'.seen
        PROVE scan'.failures > 0 \/ q \in Alerted' \cup scan'.skipped \cup scan'.current
      OBVIOUS
    <3>1. CASE q = p BY <3>1, <2>7
    <3>2. CASE q # p
      <4>1. {q} \in scan.seen BY <3>2, <2>2, <2>3
      <4> QED BY <4>1, <1>0, <1>5, <2>2, <2>5 DEF CacheScanInv, InCacheScan
    <3> QED BY <3>1, <3>2
  <2>10. /\ IsInjective(scan'.alerts) /\ Alerted' \subseteq Malicious
         /\ scan'.skipped \subseteq Unregistered
         /\ \A q \in Alerted' : {q} \in scan'.seen
    BY <1>0, <2>2, <2>5 DEF CacheScanInv, InCacheScan
  <2>11. CacheScanInv' BY <2>1, <2>4, <2>7, <2>8, <2>9, <2>10 DEF CacheScanInv
  <2>12. JobInv' BY <2>1 DEF JobInv, InScan
  <2> QED BY <2>11, <2>12, <1>3 DEF CommandInv, RowsAreTrue
<1> QED BY <1>6, <1>7

LEMMA EndLanguageKeepsIt ==
  ASSUME CommandInv, EndLanguage PROVE CommandInv'
<1>0. CacheScanInv /\ step = "entries" /\ scan.entries = {} BY DEF CommandInv, EndLanguage
<1>1. step' = "languages" /\ scan' = scan /\ cleared' = cleared /\ osvCache' = osvCache
  BY DEF EndLanguage
<1>2. Alerted' = Alerted BY <1>1 DEF Alerted
<1>3. CacheScanInv' BY <1>0, <1>1, <1>2 DEF CacheScanInv, InCacheScan
<1>4. JobInv' BY <1>1 DEF JobInv, InScan
<1> QED BY <1>1, <1>3, <1>4 DEF CommandInv, RowsAreTrue

(* An alert for a package that has none yet.                                *)
LEMMA AlertOnce ==
  ASSUME NEW s \in Seq(Keys), IsInjective(s), NEW p \in Keys, p \notin Range(s)
  PROVE  /\ IsInjective(Append(s, p))
         /\ Range(Append(s, p)) = Range(s) \cup {p}
<1> DEFINE t == Append(s, p)
<1>1. /\ t \in Seq(Keys) /\ Len(t) = Len(s) + 1 /\ t[Len(s) + 1] = p
      /\ \A i \in 1 .. Len(s) : t[i] = s[i]
  BY AppendProperties
<1> HIDE DEF t
<1>2. Len(s) \in Nat /\ DOMAIN s = 1 .. Len(s) BY LenProperties
<1>3. DOMAIN t = 1 .. Len(s) + 1 BY <1>1, LenProperties
<1>4. \A i \in DOMAIN t : i \in DOMAIN s \/ i = Len(s) + 1 BY <1>2, <1>3
<1>5. DOMAIN s \subseteq DOMAIN t /\ Len(s) + 1 \in DOMAIN t BY <1>2, <1>3
<1>6. Range(t) = Range(s) \cup {p} BY <1>1, <1>2, <1>4, <1>5 DEF Range
<1>7. IsInjective(t)
  <2> SUFFICES ASSUME NEW a \in DOMAIN t, NEW b \in DOMAIN t, t[a] = t[b] PROVE a = b
    BY DEF IsInjective
  <2>1. CASE a \in DOMAIN s /\ b \in DOMAIN s BY <2>1, <1>1, <1>2 DEF IsInjective
  <2>2. CASE a \in DOMAIN s /\ b = Len(s) + 1 BY <2>2, <1>1, <1>2 DEF Range
  <2>3. CASE b \in DOMAIN s /\ a = Len(s) + 1 BY <2>3, <1>1, <1>2 DEF Range
  <2> QED BY <2>1, <2>2, <2>3, <1>4
<1> QED BY <1>6, <1>7 DEF t

(* A package is alerted, skipped for its ecosystem, or not malicious; a     *)
(* degraded answer is counted.                                              *)
LEMMA ScanLookupKeepsIt ==
  ASSUME CommandInv, ScanLookup PROVE CommandInv'
<1>0. CacheScanInv /\ step = "lookup" /\ RowsAreTrue BY DEF CommandInv, ScanLookup
<1>1. scan \in CacheScans BY <1>0 DEF CacheScanInv, InCacheScan
<1>2. PICK p \in Keys : scan.current = {p} /\ {p} \in scan.seen /\ p \notin Alerted
  BY <1>0 DEF CacheScanInv, InCacheScan
<1>3. PICK a \in MayAnswer(osvCache, p) :
        /\ osvCache' = Keep(osvCache, p, a)
        /\ scan' = [Counting(scan, p, a) EXCEPT !.current = {}]
  BY <1>2 DEF ScanLookup
<1>4. /\ a.malicious => p \in Malicious
      /\ ~a.degraded => (a.malicious <=> p \in Malicious)
  BY <1>0, AnswersAreTrue
<1>5. RowsAreTrue' BY <1>0, <1>3, KeepIsTrue
<1>6. step' = "entries" /\ cleared' = cleared BY DEF ScanLookup
<1>7. PICK n \in Nat : n = IF a.degraded THEN scan.failures + 1 ELSE scan.failures
  <2>1. scan.failures \in Nat BY <1>1 DEF CacheScans
  <2>2. scan.failures + 1 \in Nat BY <2>1
  <2> QED BY <2>1, <2>2
<1> DEFINE more == a.malicious /\ p \notin Unregistered
           counted == IF a.degraded THEN [scan EXCEPT !.failures = @ + 1] ELSE scan
<1>a. PICK c : c = counted OBVIOUS
<1>b. /\ c \in CacheScans /\ c.failures = n
      /\ c.seen = scan.seen /\ c.entries = scan.entries /\ c.offered = scan.offered
      /\ c.alerts = scan.alerts /\ c.skipped = scan.skipped
  <2>1. CASE a.degraded
    <3>1. c = [scan EXCEPT !.failures = n]
      <4>1. c = [scan EXCEPT !.failures = scan.failures + 1] BY <2>1, <1>a
      <4>2. n = scan.failures + 1 BY <2>1, <1>7
      <4> QED BY <4>1, <4>2
    <3> QED BY <3>1, <1>1 DEF CacheScans
  <2>2. CASE ~a.degraded
    <3>1. c = scan BY <2>2, <1>a
    <3>2. n = scan.failures BY <2>2, <1>7
    <3> QED BY <3>1, <3>2, <1>1 DEF CacheScans
  <2> QED BY <2>1, <2>2
<1>c. scan' = IF ~a.malicious THEN [c EXCEPT !.current = {}]
              ELSE IF p \in Unregistered
              THEN [[c EXCEPT !.skipped = @ \cup {p}] EXCEPT !.current = {}]
              ELSE [[c EXCEPT !.alerts = Append(@, p)] EXCEPT !.current = {}]
  <2>1. CASE ~a.malicious BY <2>1, <1>3, <1>a DEF Counting
  <2>2. CASE a.malicious /\ p \in Unregistered BY <2>2, <1>3, <1>a DEF Counting
  <2>3. CASE a.malicious /\ p \notin Unregistered BY <2>3, <1>3, <1>a DEF Counting
  <2> QED BY <2>1, <2>2, <2>3
<1> HIDE DEF counted
<1>d. /\ scan.alerts \in Seq(Keys) /\ IsInjective(scan.alerts) /\ Alerted = Range(scan.alerts)
      /\ Alerted \subseteq Malicious /\ scan.skipped \subseteq Unregistered
      /\ \A q \in Alerted : {q} \in scan.seen
      /\ \A q \in Malicious : {q} \in scan.seen =>
            scan.failures > 0 \/ q \in Alerted \cup scan.skipped \cup scan.current
      /\ \A q \in scan.offered : {q} \in scan.seen \/ \E e \in scan.entries : e.names = {q}
  BY <1>0, <1>1 DEF CacheScanInv, InCacheScan, Alerted, CacheScans
<1>e. PICK al \in Seq(Keys) : al = Append(scan.alerts, p) BY <1>d, AppendProperties
<1>f. IsInjective(al) /\ Range(al) = Alerted \cup {p} BY <1>d, <1>e, <1>2, AlertOnce
<1>g. PICK sk \in SUBSET Keys : sk = scan.skipped \cup {p} BY <1>1 DEF CacheScans
<1>8. /\ scan' \in CacheScans /\ scan'.current = {} /\ scan'.failures = n
      /\ scan'.seen = scan.seen /\ scan'.entries = scan.entries /\ scan'.offered = scan.offered
      /\ (~a.malicious => scan'.alerts = scan.alerts /\ scan'.skipped = scan.skipped)
      /\ (a.malicious /\ p \in Unregistered => scan'.alerts = scan.alerts /\ scan'.skipped = sk)
      /\ (a.malicious /\ p \notin Unregistered => scan'.alerts = al /\ scan'.skipped = scan.skipped)
  <2>1. CASE ~a.malicious
    <3>1. scan' = [c EXCEPT !.current = {}] BY <2>1, <1>c
    <3> QED BY <3>1, <2>1, <1>b DEF CacheScans
  <2>2. CASE a.malicious /\ p \in Unregistered
    <3>1. scan' = [[c EXCEPT !.skipped = sk] EXCEPT !.current = {}]
      BY <2>2, <1>c, <1>g, <1>b
    <3> QED BY <3>1, <2>2, <1>b DEF CacheScans
  <2>3. CASE a.malicious /\ p \notin Unregistered
    <3>1. scan' = [[c EXCEPT !.alerts = al] EXCEPT !.current = {}]
      BY <2>3, <1>c, <1>e, <1>b
    <3> QED BY <3>1, <2>3, <1>b DEF CacheScans
  <2> QED BY <2>1, <2>2, <2>3
<1>h. /\ IsInjective(scan'.alerts) /\ Range(scan'.alerts) \subseteq Malicious
      /\ Range(scan'.alerts) \subseteq Alerted \cup {p}
      /\ scan'.skipped \subseteq Unregistered
      /\ Alerted \subseteq Range(scan'.alerts) /\ scan.skipped \subseteq scan'.skipped
      /\ (a.malicious => p \in Range(scan'.alerts) \cup scan'.skipped)
  <2>1. CASE ~a.malicious BY <2>1, <1>8, <1>d
  <2>2. CASE a.malicious /\ p \in Unregistered BY <2>2, <1>8, <1>d, <1>g
  <2>3. CASE a.malicious /\ p \notin Unregistered BY <2>3, <1>8, <1>d, <1>f, <1>4
  <2> QED BY <2>1, <2>2, <2>3
<1>9. Alerted' = Range(scan'.alerts) BY DEF Alerted
<1>10. \A q \in Alerted' : {q} \in scan'.seen BY <1>9, <1>h, <1>8, <1>d, <1>2
<1>11. \A q \in Malicious : {q} \in scan'.seen =>
          scan'.failures > 0 \/ q \in Alerted' \cup scan'.skipped \cup scan'.current
  <2> SUFFICES ASSUME NEW q \in Malicious, {q} \in scan'.seen, ~(scan'.failures > 0)
      PROVE q \in Alerted' \cup scan'.skipped
    OBVIOUS
  <2>0. scan.failures \in Nat BY <1>1 DEF CacheScans
  <2>1. n = 0 BY <1>8
  <2>2. ~a.degraded /\ scan.failures = 0
    <3>1. CASE a.degraded
      <4>1. n = scan.failures + 1 BY <3>1, <1>7
      <4> QED BY <4>1, <2>0, <2>1
    <3>2. CASE ~a.degraded BY <3>2, <1>7, <2>1
    <3> QED BY <3>1, <3>2
  <2>3. CASE q = p BY <2>3, <2>2, <1>4, <1>h, <1>9
  <2>4. CASE q # p
    <3>1. q \in Alerted \cup scan.skipped BY <2>4, <2>2, <1>d, <1>8, <1>2
    <3> QED BY <3>1, <1>h, <1>9
  <2> QED BY <2>3, <2>4
<1>12. \A q \in scan'.offered : {q} \in scan'.seen \/ \E e \in scan'.entries : e.names = {q}
  BY <1>d, <1>8
<1>13. CacheScanInv' BY <1>6, <1>8, <1>h, <1>9, <1>10, <1>11, <1>12 DEF CacheScanInv
<1>14. JobInv' BY <1>6 DEF JobInv, InScan
<1> QED BY <1>5, <1>6, <1>13, <1>14 DEF CommandInv

LEMMA EndScanCacheKeepsIt ==
  ASSUME CommandInv, EndScanCache PROVE CommandInv'
<1>0. CacheScanInv /\ step = "languages" BY DEF CommandInv, EndScanCache, CacheScanDone
<1>1. step' = "idle" /\ osvCache' = osvCache BY DEF EndScanCache
<1>2. cleared' = IF scan.failures = 0 THEN scan.offered \ (Alerted \cup scan.skipped) ELSE {}
  BY DEF EndScanCache, Alerted
<1>3. cleared' \cap Malicious = {}
  <2>1. CASE scan.failures # 0 BY <2>1, <1>2
  <2>2. CASE scan.failures = 0
    <3>1. \A p \in scan.offered \cap Malicious : p \in Alerted \cup scan.skipped
      <4>1. scan.entries = {} /\ scan.current = {} /\ ~(scan.failures > 0)
        BY <1>0, <2>2 DEF CacheScanInv, InCacheScan
      <4> QED BY <1>0, <4>1 DEF CacheScanInv, InCacheScan
    <3> QED BY <3>1, <2>2, <1>2
  <2> QED BY <2>1, <2>2
<1> QED BY <1>1, <1>3 DEF CommandInv, RowsAreTrue, CacheScanInv, JobInv, InCacheScan, InScan
-----------------------------------------------------------------------------
(* What an environment lists, by its place.                                 *)
LEMMA PlacesOf ==
  /\ \A k : \A x \in ToQuery(k) : x[1] = k
  /\ \A x : x \in Listing <=> x[1] \in 1 .. job.at /\ x \in ToQuery(x[1])
  /\ Here = ToQuery(job.at)
  /\ \A xs : \A x : x \in Public(xs) <=> x \in xs /\ Item(x).public
  /\ \A xs : \A p : p \in KeysOf(xs) <=> \E x \in xs : p = Item(x).package
<1>1. \A k : \A x \in ToQuery(k) : x[1] = k BY DEF ToQuery
<1>2. \A x : x \in Listing <=> x[1] \in 1 .. job.at /\ x \in ToQuery(x[1])
  BY <1>1 DEF Listing
<1> QED BY <1>1, <1>2 DEF Here, Public, KeysOf

(* A step that opens no environment and keeps those of the command leaves   *)
(* the listing as it was.                                                   *)
LEMMA SamePlaces ==
  ASSUME job'.environments = job.environments, job'.mode = job.mode
  PROVE  /\ \A x : Item(x)' = Item(x)
         /\ \A k : ToQuery(k)' = ToQuery(k)
         /\ \A xs : Public(xs)' = Public(xs)
         /\ \A xs : KeysOf(xs)' = KeysOf(xs)
<1>1. \A x : Item(x)' = Item(x) BY DEF Item
<1>2. \A k : ToQuery(k)' = ToQuery(k)
  <2> TAKE k
  <2>1. \A x : x \in ToQuery(k)' <=> x \in ToQuery(k) BY <1>1 DEF ToQuery
  <2> QED BY <2>1 DEF ToQuery
<1>3. \A xs : Public(xs)' = Public(xs)
  <2> TAKE xs
  <2>1. \A x : x \in Public(xs)' <=> x \in Public(xs) BY <1>1 DEF Public
  <2> QED BY <2>1 DEF Public
<1>4. \A xs : KeysOf(xs)' = KeysOf(xs)
  <2> TAKE xs
  <2>1. \A p : p \in KeysOf(xs)' <=> p \in KeysOf(xs) BY <1>1 DEF KeysOf
  <2> QED BY <2>1 DEF KeysOf
<1> QED BY <1>1, <1>2, <1>3, <1>4

LEMMA SameListing ==
  ASSUME job'.environments = job.environments, job'.mode = job.mode, job'.at = job.at
  PROVE  Listing' = Listing /\ Here' = Here /\ Publics' = Publics /\ PublicKeys' = PublicKeys
<1>1. Listing' = Listing
  <2>1. \A k : ToQuery(k)' = ToQuery(k) BY SamePlaces
  <2>2. \A x : x \in Listing' <=> x \in Listing BY <2>1 DEF Listing
  <2> QED BY <2>2 DEF Listing
<1>2. Here' = Here
  <2>1. \A k : ToQuery(k)' = ToQuery(k) BY SamePlaces
  <2> QED BY <2>1 DEF Here
<1>3. Publics' = Publics
  <2>1. Publics' = Public(Listing)'  BY DEF Publics
  <2>2. \A x : x \in Publics' <=> x \in Listing' /\ Item(x)'.public BY DEF Publics, Public
  <2>3. \A x : x \in Publics <=> x \in Listing /\ Item(x).public BY DEF Publics, Public
  <2>4. \A x : Item(x)' = Item(x) BY SamePlaces
  <2>5. \A x : x \in Publics' <=> x \in Publics BY <2>2, <2>3, <2>4, <1>1
  <2> QED BY <2>5 DEF Publics, Public
<1>4. PublicKeys' = PublicKeys
  <2>1. \A p : p \in PublicKeys' <=> \E x \in Publics' : p = Item(x)'.package
    BY DEF PublicKeys, KeysOf, Publics
  <2>2. \A p : p \in PublicKeys <=> \E x \in Publics : p = Item(x).package
    BY DEF PublicKeys, KeysOf, Publics
  <2>3. \A x : Item(x)' = Item(x) BY SamePlaces
  <2>4. \A p : p \in PublicKeys' <=> p \in PublicKeys BY <2>1, <2>2, <2>3, <1>3
  <2> QED BY <2>4 DEF PublicKeys, KeysOf
<1> QED BY <1>1, <1>2, <1>3, <1>4

(* Finitely many places name finitely many packages.                        *)
LEMMA KeysAreFinite ==
  ASSUME NEW xs, IsFiniteSet(xs) PROVE IsFiniteSet(KeysOf(xs))
<1> DEFINE f == [x \in xs |-> Item(x).package]
<1>1. f \in Surjection(xs, KeysOf(xs)) BY DEF Surjection, KeysOf
<1> QED BY <1>1, FS_Surjection

(* A part and the rest of a finite set.                                     *)
LEMMA PartAndRest ==
  ASSUME NEW S, IsFiniteSet(S), NEW T \in SUBSET S
  PROVE  /\ IsFiniteSet(T) /\ IsFiniteSet(S \ T)
         /\ Cardinality(S) \in Nat /\ Cardinality(T) \in Nat /\ Cardinality(S \ T) \in Nat
         /\ Cardinality(S) = Cardinality(T) + Cardinality(S \ T)
<1>1. IsFiniteSet(T) BY FS_Subset
<1>2. IsFiniteSet(S \ T) /\ Cardinality(S \ T) = Cardinality(S) - Cardinality(S \cap T)
  BY FS_Difference
<1>3. S \cap T = T OBVIOUS
<1>4. Cardinality(S) \in Nat /\ Cardinality(T) \in Nat /\ Cardinality(S \ T) \in Nat
  BY <1>1, <1>2, FS_CardinalityType
<1>5. Cardinality(S \ T) = Cardinality(S) - Cardinality(T) BY <1>2, <1>3
<1>6. Cardinality(S) = Cardinality(T) + Cardinality(S \ T) BY <1>4, <1>5
<1> QED BY <1>1, <1>2, <1>4, <1>6

(* What the invariant says of a scan under way.                             *)
LEMMA UnderWay ==
  ASSUME CommandInv, InScan
  PROVE  /\ job \in Jobs /\ job.at \in Nat /\ job.at <= Len(job.environments)
         /\ job.environments \in Seq(Seq(Requirements)) /\ job.totals \in Totals
         /\ step # "environments" => job.at >= 1
         /\ IF step = "osv" THEN job.queue \subseteq Public(Here) ELSE job.queue = {}
         /\ Counts /\ FindingsHold /\ ScoresHold /\ YanksHold /\ sent \subseteq PublicKeys
         /\ Publics \subseteq Listing
         /\ step # "environments" => Here \subseteq Listing
         /\ RowsAreTrue /\ cleared \cap Malicious = {}
<1>1. JobInv /\ JobTyped BY DEF CommandInv, JobInv
<1>2. /\ job \in Jobs /\ job.at \in Nat /\ job.totals \in Totals
      /\ job.environments \in Seq(Seq(Requirements))
  BY <1>1 DEF JobTyped, Jobs
<1>3. Publics \subseteq Listing BY DEF Publics, Public
<1>4. step # "environments" => Here \subseteq Listing
  <2> SUFFICES ASSUME step # "environments", NEW x \in Here PROVE x \in Listing OBVIOUS
  <2>1. job.at \in 1 .. job.at BY <1>1, <1>2 DEF JobTyped
  <2>2. x \in ToQuery(job.at) BY PlacesOf
  <2>3. x[1] = job.at BY <2>2, PlacesOf
  <2> QED BY <2>1, <2>2, <2>3, PlacesOf
<1> QED BY <1>1, <1>2, <1>3, <1>4 DEF JobTyped, CommandInv, JobInv

LEMMA StartScanKeepsIt ==
  ASSUME ScanAssumption, CommandInv, StartScan PROVE CommandInv'
<1>1. PICK mode \in Modes :
        \E listed \in [1 .. (IF mode.command = "tools" THEN Tools ELSE 1) -> Environments(mode)] :
           job' = [NoJob EXCEPT !.mode = mode, !.environments = listed]
  BY DEF StartScan
<1>2. PICK n \in Nat : n = IF mode.command = "tools" THEN Tools ELSE 1
  BY DEF ScanAssumption
<1>3. PICK listed \in [1 .. n -> Environments(mode)] :
        job' = [NoJob EXCEPT !.mode = mode, !.environments = listed]
  BY <1>1, <1>2
<1>4. Environments(mode) \subseteq Seq(Requirements)
  <2> DEFINE R == {l \in Requirements : mode.command = "tools" => l.pinned}
  <2>1. R \subseteq Requirements OBVIOUS
  <2>2. Environments(mode) = UNION {[1 .. m -> R] : m \in 0 .. MaxListed} BY DEF Environments, SeqOf
  <2> HIDE DEF R
  <2>3. ASSUME NEW s \in Environments(mode) PROVE s \in Seq(Requirements)
    <3>1. PICK m \in 0 .. MaxListed : s \in [1 .. m -> R] BY <2>2
    <3>2. m \in Nat BY DEF ScanAssumption
    <3>3. s \in [1 .. m -> Requirements] BY <3>1, <2>1
    <3> QED BY <3>2, <3>3
  <2> QED BY <2>3
<1>5. listed \in Seq(Seq(Requirements))
  <2>1. listed \in [1 .. n -> Seq(Requirements)] BY <1>4
  <2> QED BY <2>1
<1>6. step' = "environments" /\ sent' = {} /\ cleared' = {} /\ osvCache' = osvCache BY DEF StartScan
<1>7. job' = [mode |-> mode, environments |-> listed, at |-> 0, queue |-> {},
              totals |-> NoTotals, answered |-> 0]
  BY <1>3 DEF NoJob
<1>8. job' \in Jobs /\ job'.at = 0 /\ job'.queue = {} /\ job'.environments = listed
  <2>1. NoTotals \in Totals BY DEF NoTotals, Totals
  <2> QED BY <1>7, <1>5, <2>1 DEF Jobs
<1>9. Listing' = {} /\ Publics' = {}
  <2>1. Listing' = UNION {ToQuery(k)' : k \in 1 .. job'.at} BY DEF Listing
  <2>2. 1 .. job'.at = {} BY <1>8
  <2>3. Listing' = {} BY <2>1, <2>2
  <2> QED BY <2>3 DEF Publics, Public
<1>10. JobTyped' BY <1>6, <1>8, <1>5, LenProperties DEF JobTyped
<1>11. Counts'
  <2>1. job'.answered = 0 /\ job'.totals.osvFailures = 0 /\ job'.totals.notPublic = 0
    BY <1>7 DEF NoTotals
  <2>2. Cardinality({}) = 0 /\ IsFiniteSet({}) BY FS_EmptySet
  <2>3. Listing' \ Publics' = {} BY <1>9
  <2> QED BY <2>1, <2>2, <2>3, <1>8, <1>9 DEF Counts
<1>12. FindingsHold' /\ ScoresHold' /\ YanksHold' BY <1>9 DEF FindingsHold, ScoresHold, YanksHold
<1>13. JobInv' BY <1>10, <1>11, <1>12, <1>6 DEF JobInv
<1>14. CacheScanInv' BY <1>6 DEF CacheScanInv, InCacheScan
<1>15. RowsAreTrue' BY <1>6 DEF CommandInv, RowsAreTrue
<1> QED BY <1>6, <1>13, <1>14, <1>15 DEF CommandInv

(* A new environment is listed after the others, so what it adds is counted *)
(* once: its public places are queued, the rest told as not public.         *)
LEMMA NextEnvironmentKeepsIt ==
  ASSUME CommandInv, NextEnvironment PROVE CommandInv'
<1>0. step = "environments" /\ job.at < Len(job.environments) BY DEF NextEnvironment
<1>u. /\ job \in Jobs /\ job.at \in Nat /\ job.environments \in Seq(Seq(Requirements))
      /\ job.totals \in Totals /\ job.queue = {}
      /\ Counts /\ FindingsHold /\ ScoresHold /\ YanksHold
      /\ sent \subseteq PublicKeys /\ Publics \subseteq Listing
      /\ RowsAreTrue /\ cleared \cap Malicious = {}
  BY <1>0, UnderWay DEF InScan
<1>1. PICK at \in Nat : at = job.at + 1 BY <1>u
<1>2. PICK found : found = ToQuery(at) OBVIOUS
<1>3. job' = [job EXCEPT !.at = at, !.queue = Public(found),
                         !.totals.notPublic = @ + Cardinality(found \ Public(found))]
  BY <1>1, <1>2 DEF NextEnvironment
<1>4. step' = "osv" /\ sent' = sent /\ cleared' = cleared /\ osvCache' = osvCache
  BY DEF NextEnvironment
<1>5. at <= Len(job.environments) /\ at >= 1
  <2>1. Len(job.environments) \in Nat BY <1>u, LenProperties
  <2> QED BY <2>1, <1>0, <1>1, <1>u
<1>6. /\ found \subseteq Nat \X Nat /\ IsFiniteSet(found)
  <2>1. job.environments[at] \in Seq(Requirements) /\ at \in DOMAIN job.environments
    BY <1>5, <1>u, ElementOfSeq, LenProperties
  <2>2. PICK n \in Nat : DOMAIN job.environments[at] = 1 .. n
    BY <2>1, LenProperties
  <2>3. found \subseteq {at} \X (1 .. n) BY <1>2, <2>2 DEF ToQuery
  <2>a. IsFiniteSet({at}) BY FS_Singleton, Zenon
  <2>b. 1 \in Int /\ n \in Int OBVIOUS
  <2>c. IsFiniteSet(1 .. n) BY <2>b, FS_Interval
  <2>4. IsFiniteSet({at}) /\ IsFiniteSet(1 .. n) BY <2>a, <2>c
  <2>5. IsFiniteSet({at} \X (1 .. n)) BY <2>4, FS_Product
  <2>6. IsFiniteSet(found) BY <2>3, <2>5, FS_Subset
  <2>7. {at} \X (1 .. n) \subseteq Nat \X Nat OBVIOUS
  <2> QED BY <2>3, <2>6, <2>7
<1>7. Public(found) \subseteq found BY DEF Public
<1>8. PICK rest \in Nat : rest = Cardinality(found \ Public(found)) BY <1>6, <1>7, PartAndRest
<1>9. /\ job'.at = at /\ job'.queue = Public(found) /\ job'.environments = job.environments
      /\ job'.mode = job.mode /\ job'.answered = job.answered
      /\ job'.totals.notPublic = job.totals.notPublic + rest
      /\ job'.totals.osvFailures = job.totals.osvFailures
      /\ job'.totals.findings = job.totals.findings /\ job'.totals.scored = job.totals.scored
      /\ job'.totals.riskFailures = job.totals.riskFailures
      /\ job'.totals.yanksTold = job.totals.yanksTold
      /\ job'.totals.yankFailures = job.totals.yankFailures
      /\ job' \in Jobs
  <2>1. PICK g \in Nat : g = job.totals.notPublic + rest BY <1>u DEF Totals
  <2>2. PICK t : t = [job.totals EXCEPT !.notPublic = g] OBVIOUS
  <2>3. /\ t \in Totals /\ t.notPublic = g /\ t.osvFailures = job.totals.osvFailures
        /\ t.findings = job.totals.findings /\ t.scored = job.totals.scored
        /\ t.riskFailures = job.totals.riskFailures /\ t.yanksTold = job.totals.yanksTold
        /\ t.yankFailures = job.totals.yankFailures
    BY <2>2, <1>u DEF Totals
  <2>4. job' = [job EXCEPT !.at = at, !.queue = Public(found), !.totals = t]
    BY <1>3, <1>8, <2>1, <2>2, <1>u DEF Jobs, Totals
  <2>5. Public(found) \in SUBSET (Nat \X Nat) BY <1>6, <1>7
  <2>6. job' \in Jobs BY <2>4, <2>3, <2>5, <1>u DEF Jobs
  <2>7. /\ job'.at = at /\ job'.queue = Public(found) /\ job'.environments = job.environments
        /\ job'.mode = job.mode /\ job'.answered = job.answered /\ job'.totals = t
    BY <2>4, <1>u DEF Jobs
  <2> QED BY <2>1, <2>3, <2>6, <2>7
<1>10. /\ \A x : Item(x)' = Item(x)
       /\ \A k : ToQuery(k)' = ToQuery(k)
       /\ \A xs : Public(xs)' = Public(xs)
       /\ \A xs : KeysOf(xs)' = KeysOf(xs)
  BY <1>9, SamePlaces
<1>11. Listing' = Listing \cup found
  <2>1. \A k : k \in 1 .. at <=> k \in 1 .. job.at \/ k = at BY <1>1, <1>u
  <2>2. \A x : x \in Listing' <=> \E k \in 1 .. at : x \in ToQuery(k)
    BY <1>9, <1>10 DEF Listing
  <2>3. \A x : x \in Listing <=> \E k \in 1 .. job.at : x \in ToQuery(k)
    BY DEF Listing
  <2>4. \A x : x \in Listing' <=> x \in Listing \/ x \in ToQuery(at) BY <2>1, <2>2, <2>3
  <2>5. \A x : x \in Listing' <=> x \in Listing \cup found BY <2>4, <1>2
  <2> QED BY <2>5 DEF Listing
<1>12. Listing \cap found = {}
  <2>1. \A x \in Listing : x[1] \in 1 .. job.at BY PlacesOf
  <2>2. \A x \in found : x[1] = at BY PlacesOf, <1>2
  <2>3. at \notin 1 .. job.at BY <1>1, <1>u
  <2> QED BY <2>1, <2>2, <2>3
<1>13. Publics' = Publics \cup Public(found)
  <2>1. \A x : x \in Publics' <=> x \in Listing' /\ Item(x)'.public BY DEF Publics, Public
  <2>2. \A x : x \in Publics <=> x \in Listing /\ Item(x).public BY DEF Publics, Public
  <2>3. \A x : x \in Public(found) <=> x \in found /\ Item(x).public BY DEF Public
  <2>4. \A x : x \in Publics' <=> x \in Publics \cup Public(found)
    BY <2>1, <2>2, <2>3, <1>10, <1>11
  <2> QED BY <2>4 DEF Publics, Public
<1>14. Here' = found
  <2>1. Here' = ToQuery(job.at)' BY DEF Here
  <2>2. Here' = ToQuery(at)' BY <2>1, <1>9 DEF Here, ToQuery, Item
  <2> QED BY <2>2, <1>10, <1>2
<1>15. JobTyped'
  <2>1. Public(Here)' = Public(found)' BY <1>14 DEF Public
  <2>2. Public(Here)' = Public(found) BY <2>1, <1>10
  <2> QED BY <1>4, <1>5, <1>9, <2>2 DEF JobTyped
<1>16. Counts'
  <2>1. IsFiniteSet(Listing) /\ IsFiniteSet(Listing') BY <1>u, <1>6, <1>11, FS_Union DEF Counts
  <2>2. IsFiniteSet(Publics) /\ IsFiniteSet(Listing \ Publics)
        /\ IsFiniteSet(Public(found)) /\ IsFiniteSet(found \ Public(found))
    BY <2>1, <1>u, <1>6, <1>7, PartAndRest
  <2>3. Publics \cap Public(found) = {} /\ (Listing \ Publics) \cap (found \ Public(found)) = {}
    BY <1>12, <1>u, <1>7
  <2>4. Listing' \ Publics' = (Listing \ Publics) \cup (found \ Public(found))
    BY <1>11, <1>12, <1>13, <1>7, <1>u
  <2>5. Cardinality({}) = 0 BY FS_EmptySet
  <2>6. /\ Cardinality(Publics) \in Nat /\ Cardinality(Public(found)) \in Nat
        /\ Cardinality(Listing \ Publics) \in Nat
    BY <2>2, FS_CardinalityType
  <2>7. Cardinality(Publics') = Cardinality(Publics) + Cardinality(Public(found))
    <3>1. Cardinality(Publics \cup Public(found))
             = Cardinality(Publics) + Cardinality(Public(found))
               - Cardinality(Publics \cap Public(found))
      BY <2>2, FS_Union
    <3>2. Cardinality(Publics \cap Public(found)) = 0 BY <2>3, <2>5
    <3>3. PICK u : u = Cardinality(Publics \cup Public(found)) OBVIOUS
    <3>4. u = Cardinality(Publics) + Cardinality(Public(found)) BY <3>1, <3>2, <3>3, <2>6
    <3>5. Cardinality(Publics') = u BY <3>3, <1>13
    <3> QED BY <3>4, <3>5
  <2>8. Cardinality(Listing' \ Publics') = Cardinality(Listing \ Publics) + rest
    <3>1. Cardinality((Listing \ Publics) \cup (found \ Public(found)))
             = Cardinality(Listing \ Publics) + Cardinality(found \ Public(found))
               - Cardinality((Listing \ Publics) \cap (found \ Public(found)))
      BY <2>2, FS_Union
    <3>2. Cardinality((Listing \ Publics) \cap (found \ Public(found))) = 0 BY <2>3, <2>5
    <3>3. PICK u : u = Cardinality((Listing \ Publics) \cup (found \ Public(found))) OBVIOUS
    <3>4. u = Cardinality(Listing \ Publics) + rest BY <3>1, <3>2, <3>3, <2>6, <1>8
    <3>5. Cardinality(Listing' \ Publics') = u BY <3>3, <2>4
    <3> QED BY <3>4, <3>5
  <2>9. job.answered + job.totals.osvFailures = Cardinality(Publics)
    BY <1>u, <2>5 DEF Counts, Jobs, Totals
  <2>10. job'.answered + job'.totals.osvFailures + Cardinality(job'.queue) = Cardinality(Publics')
    BY <2>7, <2>9, <1>9
  <2>11. job'.totals.notPublic = Cardinality(Listing' \ Publics') BY <2>8, <1>9, <1>u DEF Counts
  <2> QED BY <2>1, <2>10, <2>11 DEF Counts
<1>17. FindingsHold'
  <2>1. Publics' \ job'.queue \subseteq Publics \ job.queue BY <1>13, <1>9, <1>u
  <2> QED BY <2>1, <1>u, <1>9, <1>10 DEF FindingsHold
<1>18. ScoresHold'
  <2>1. RiskDone' = job.at /\ RiskDone = job.at BY <1>0, <1>1, <1>4, <1>9, <1>u DEF RiskDone
  <2>2. \A x \in Listing' : x[1] <= job.at => x \in Listing
    <3> TAKE x \in Listing'
    <3>1. x \in found => x[1] = at BY PlacesOf, <1>2
    <3> QED BY <3>1, <1>11, <1>1, <1>u
  <2> QED BY <2>1, <2>2, <1>u, <1>9, <1>10 DEF ScoresHold
<1>19. YanksHold'
  <2>1. YanksDone' = job.at /\ YanksDone = job.at BY <1>0, <1>1, <1>4, <1>9, <1>u DEF YanksDone
  <2>2. \A x \in Publics' : x[1] <= job.at => x \in Publics
    <3> TAKE x \in Publics'
    <3>1. x \in Public(found) => x[1] = at BY PlacesOf, <1>2, <1>7
    <3> QED BY <3>1, <1>13, <1>1, <1>u
  <2> QED BY <2>1, <2>2, <1>u, <1>9, <1>10 DEF YanksHold
<1>20. PublicKeys \subseteq PublicKeys'
  <2>1. \A p : p \in PublicKeys' <=> \E x \in Publics' : p = Item(x)'.package
    BY DEF PublicKeys, KeysOf, Publics
  <2>2. \A p : p \in PublicKeys <=> \E x \in Publics : p = Item(x).package
    BY DEF PublicKeys, KeysOf, Publics
  <2> QED BY <2>1, <2>2, <1>10, <1>13
<1>21. JobInv' BY <1>15, <1>16, <1>17, <1>18, <1>19, <1>20, <1>4, <1>u DEF JobInv
<1>22. CacheScanInv' BY <1>4 DEF CacheScanInv, InCacheScan
<1> QED BY <1>4, <1>21, <1>22, <1>u DEF CommandInv, RowsAreTrue

(* The lookups of a batch are told apart by their answers.                  *)
LEMMA KeepAllIsTrue ==
  ASSUME RowsAreTrue, NEW answers,
         \A x \in DOMAIN answers : answers[x] \in MayAnswer(osvCache, Item(x).package),
         osvCache' = KeepAll(osvCache, answers)
  PROVE  RowsAreTrue'
<1> DEFINE whole ==
             {x \in DOMAIN answers : Item(x).package \notin DOMAIN osvCache /\ ~answers[x].degraded}
<1>1. osvCache' = [q \in DOMAIN osvCache \cup KeysOf(whole) |->
         IF q \in DOMAIN osvCache THEN osvCache[q]
         ELSE answers[CHOOSE x \in whole : Item(x).package = q].malicious]
  BY DEF KeepAll
<1>2. \A x \in whole : x \in DOMAIN answers /\ ~answers[x].degraded OBVIOUS
<1> HIDE DEF whole
<1>3. SUFFICES ASSUME NEW q \in DOMAIN osvCache' PROVE osvCache'[q] <=> q \in Malicious
  BY DEF RowsAreTrue
<1>4. CASE q \in DOMAIN osvCache BY <1>1, <1>4 DEF RowsAreTrue
<1>5. CASE q \notin DOMAIN osvCache
  <2>1. q \in KeysOf(whole) BY <1>1, <1>5
  <2>2. \E x \in whole : Item(x).package = q BY <2>1 DEF KeysOf
  <2>3. PICK y : y = CHOOSE x \in whole : Item(x).package = q OBVIOUS
  <2>4. y \in whole /\ Item(y).package = q BY <2>2, <2>3
  <2>5. osvCache'[q] = answers[y].malicious BY <1>1, <1>5, <2>3
  <2>6. answers[y] \in MayAnswer(osvCache, q) /\ ~answers[y].degraded BY <2>4, <1>2
  <2>7. answers[y].malicious <=> q \in Malicious BY <2>6, AnswersAreTrue
  <2> QED BY <2>5, <2>7
<1> QED BY <1>4, <1>5

LEMMA OsvBatchKeepsIt ==
  ASSUME CommandInv, OsvBatch PROVE CommandInv'
<1>0. step = "osv" BY DEF OsvBatch
<1>u. /\ job \in Jobs /\ job.at \in Nat /\ job.environments \in Seq(Seq(Requirements))
      /\ job.at <= Len(job.environments) /\ job.at >= 1
      /\ job.totals \in Totals /\ job.queue \subseteq Public(Here) /\ Counts /\ FindingsHold
      /\ ScoresHold /\ YanksHold
      /\ sent \subseteq PublicKeys /\ Publics \subseteq Listing /\ Here \subseteq Listing
      /\ RowsAreTrue /\ cleared \cap Malicious = {}
  BY <1>0, UnderWay DEF InScan
<1>1. PICK answers \in [Batch -> [degraded : BOOLEAN, malicious : BOOLEAN]] :
         /\ \A x \in Batch : answers[x] \in MayAnswer(osvCache, Item(x).package)
         /\ osvCache' = KeepAll(osvCache, answers)
         /\ job' = [job EXCEPT
              !.queue = @ \ Batch,
              !.answered = @ + Cardinality({x \in Batch : ~answers[x].degraded}),
              !.totals.osvFailures = @ + Cardinality({x \in Batch : answers[x].degraded}),
              !.totals.findings = @ \cup KeysOf({x \in Batch : answers[x].malicious})]
  BY DEF OsvBatch
<1>2. step' = step /\ sent' = sent \cup KeysOf(Batch) /\ cleared' = cleared BY DEF OsvBatch
<1>3. PICK lost : lost = {x \in Batch : answers[x].degraded} OBVIOUS
<1>4. PICK whole : whole = {x \in Batch : ~answers[x].degraded} OBVIOUS
<1>5. PICK bad : bad = {x \in Batch : answers[x].malicious} OBVIOUS
<1>6. Batch \subseteq job.queue BY DEF Batch
<1>7. whole = Batch \ lost /\ lost \subseteq Batch BY <1>3, <1>4
<1>8. Public(Here) \subseteq Publics
  BY <1>u DEF Public, Publics
<1>9. IsFiniteSet(Listing) /\ IsFiniteSet(Publics) /\ IsFiniteSet(job.queue) /\ IsFiniteSet(Batch)
  <2>1. IsFiniteSet(Listing) BY <1>u DEF Counts
  <2>2. IsFiniteSet(Publics) BY <2>1, <1>u, FS_Subset
  <2>3. IsFiniteSet(job.queue) BY <2>2, <1>u, <1>8, FS_Subset
  <2> QED BY <2>1, <2>2, <2>3, <1>6, FS_Subset
<1>10. PICK nw \in Nat : nw = Cardinality(whole) BY <1>9, <1>7, PartAndRest
<1>11. PICK nl \in Nat : nl = Cardinality(lost) BY <1>9, <1>7, PartAndRest
<1>12. Cardinality(Batch) = nl + nw BY <1>9, <1>7, <1>10, <1>11, PartAndRest
<1>13. /\ Cardinality(job.queue) = nl + nw + Cardinality(job.queue \ Batch)
       /\ Cardinality(job.queue \ Batch) \in Nat
  BY <1>9, <1>6, <1>12, PartAndRest
<1>14. /\ job'.at = job.at /\ job'.queue = job.queue \ Batch /\ job'.environments = job.environments
       /\ job'.mode = job.mode /\ job'.answered = job.answered + nw
       /\ job'.totals.notPublic = job.totals.notPublic
       /\ job'.totals.osvFailures = job.totals.osvFailures + nl
       /\ job'.totals.findings = job.totals.findings \cup KeysOf(bad)
       /\ job'.totals.scored = job.totals.scored
       /\ job'.totals.riskFailures = job.totals.riskFailures
       /\ job'.totals.yanksTold = job.totals.yanksTold
       /\ job'.totals.yankFailures = job.totals.yankFailures
       /\ job' \in Jobs
  <2>0. KeysOf(bad) \subseteq Keys
    <3> SUFFICES ASSUME NEW x \in bad PROVE Item(x).package \in Keys BY DEF KeysOf
    <3>1. x \in ToQuery(job.at) BY <1>5, <1>6, <1>u, PlacesOf
    <3>2. job.environments[job.at] \in Seq(Requirements)
      BY <1>u, ElementOfSeq
    <3>3. x[1] = job.at /\ x[2] \in DOMAIN job.environments[job.at] BY <3>1 DEF ToQuery
    <3>4. Item(x) \in Requirements BY <3>2, <3>3, ElementOfSeq, LenProperties DEF Item
    <3> QED BY <3>4 DEF Requirements
  <2>1. PICK g \in Nat : g = job.totals.osvFailures + nl BY <1>u DEF Totals
  <2>a. PICK h \in Nat : h = job.answered + nw BY <1>u DEF Jobs
  <2>b. PICK ff \in SUBSET Keys : ff = job.totals.findings \cup KeysOf(bad) BY <1>u, <2>0 DEF Totals
  <2>2. PICK t : t = [job.totals EXCEPT !.osvFailures = g, !.findings = ff] OBVIOUS
  <2>3. /\ t \in Totals /\ t.notPublic = job.totals.notPublic /\ t.osvFailures = g
        /\ t.findings = ff /\ t.scored = job.totals.scored
        /\ t.riskFailures = job.totals.riskFailures /\ t.yanksTold = job.totals.yanksTold
        /\ t.yankFailures = job.totals.yankFailures
    BY <2>2, <1>u DEF Totals
  <2>4. job' = [job EXCEPT !.queue = job.queue \ Batch, !.answered = h, !.totals = t]
    <3>1. job' = [job EXCEPT
              !.queue = @ \ Batch,
              !.answered = @ + nw,
              !.totals.osvFailures = @ + nl,
              !.totals.findings = @ \cup KeysOf(bad)]
      BY <1>1, <1>3, <1>4, <1>5, <1>10, <1>11
    <3> QED BY <3>1, <2>1, <2>a, <2>b, <2>2, <1>u DEF Jobs, Totals
  <2>5. job.queue \ Batch \in SUBSET (Nat \X Nat) BY <1>u DEF Jobs
  <2>6. job' \in Jobs BY <2>4, <2>3, <2>5, <1>u DEF Jobs
  <2>7. /\ job'.at = job.at /\ job'.queue = job.queue \ Batch
        /\ job'.environments = job.environments
        /\ job'.mode = job.mode /\ job'.answered = h /\ job'.totals = t
    BY <2>4, <1>u DEF Jobs
  <2> QED BY <2>1, <2>a, <2>b, <2>3, <2>6, <2>7
<1>15. /\ \A x : Item(x)' = Item(x)
       /\ \A xs : Public(xs)' = Public(xs)
       /\ Listing' = Listing /\ Here' = Here /\ Publics' = Publics /\ PublicKeys' = PublicKeys
  BY <1>14, SamePlaces, SameListing
<1>16. JobTyped'
  <2>1. Public(Here)' = Public(Here)
    <3>1. Public(Here)' = {x \in Here' : Item(x)'.public} BY DEF Public
    <3> QED BY <3>1, <1>15 DEF Public
  <2> QED BY <2>1, <1>0, <1>2, <1>14, <1>u DEF JobTyped
<1>17. Counts'
  <2>1. job.answered \in Nat /\ job.totals.osvFailures \in Nat BY <1>u DEF Jobs, Totals
  <2>2. job'.answered + job'.totals.osvFailures + Cardinality(job'.queue) = Cardinality(Publics)
    <3>1. job.answered + job.totals.osvFailures + Cardinality(job.queue) = Cardinality(Publics)
      BY <1>u DEF Counts
    <3> QED BY <3>1, <2>1, <1>13, <1>14
  <2> QED BY <2>2, <1>u, <1>14, <1>15 DEF Counts
<1>18. FindingsHold'
  <2> SUFFICES ASSUME job'.totals.osvFailures = 0, NEW x \in Publics \ job'.queue,
                      Item(x).package \in Malicious
      PROVE Item(x).package \in job'.totals.findings
    BY <1>15 DEF FindingsHold
  <2>1. job.totals.osvFailures = 0 /\ nl = 0
    <3>1. job.totals.osvFailures \in Nat BY <1>u DEF Totals
    <3> QED BY <3>1, <1>14
  <2>2. lost = {}
    <3>1. IsFiniteSet(lost) BY <1>9, <1>7, PartAndRest
    <3> QED BY <3>1, <2>1, <1>11, FS_EmptySet
  <2>3. CASE x \notin job.queue
    BY <2>3, <2>1, <1>u, <1>14 DEF FindingsHold
  <2>4. CASE x \in job.queue
    <3>1. x \in Batch BY <2>4, <1>14
    <3>2. ~answers[x].degraded BY <3>1, <2>2, <1>3
    <3>3. answers[x] \in MayAnswer(osvCache, Item(x).package) BY <3>1, <1>1
    <3>4. answers[x].malicious BY <3>2, <3>3, <1>u, AnswersAreTrue
    <3>5. x \in bad BY <3>1, <3>4, <1>5
    <3>6. Item(x).package \in KeysOf(bad) BY <3>5 DEF KeysOf
    <3> QED BY <3>6, <1>14
  <2> QED BY <2>3, <2>4
<1>19. ScoresHold'
  <2>1. RiskDone' = RiskDone BY <1>2, <1>14 DEF RiskDone
  <2> QED BY <2>1, <1>u, <1>14, <1>15 DEF ScoresHold
<1>20. YanksHold'
  <2>1. YanksDone' = YanksDone BY <1>2, <1>14 DEF YanksDone
  <2> QED BY <2>1, <1>u, <1>14, <1>15 DEF YanksHold
<1>21. sent' \subseteq PublicKeys'
  <2>1. Batch \subseteq Publics BY <1>6, <1>8, <1>u
  <2>2. KeysOf(Batch) \subseteq PublicKeys BY <2>1 DEF KeysOf, PublicKeys, Publics
  <2> QED BY <2>2, <1>2, <1>15, <1>u
<1>22. RowsAreTrue'
  <2>1. DOMAIN answers = Batch BY <1>1
  <2> QED BY <2>1, <1>1, <1>u, KeepAllIsTrue
<1>23. JobInv' BY <1>16, <1>17, <1>18, <1>19, <1>20, <1>21 DEF JobInv
<1>24. CacheScanInv' BY <1>0, <1>2 DEF CacheScanInv, InCacheScan
<1> QED BY <1>2, <1>22, <1>23, <1>24, <1>u DEF CommandInv

(* A step that changes only what is told of risks and yanks keeps the rest. *)
LEMMA CountsStay ==
  ASSUME CommandInv, InScan, step # "osv", step' \in {"risk", "yanks", "environments"},
         job'.environments = job.environments, job'.mode = job.mode, job'.at = job.at,
         job'.queue = job.queue, job'.answered = job.answered,
         job'.totals.osvFailures = job.totals.osvFailures,
         job'.totals.notPublic = job.totals.notPublic,
         job'.totals.findings = job.totals.findings, job' \in Jobs,
         step # "environments"
  PROVE  JobTyped' /\ Counts' /\ FindingsHold'
<1>u. /\ job.at <= Len(job.environments) /\ job.at >= 1
      /\ job.queue = {} /\ Counts /\ FindingsHold
  BY UnderWay
<1>1. /\ \A x : Item(x)' = Item(x)
      /\ Listing' = Listing /\ Publics' = Publics
  BY SamePlaces, SameListing
<1>2. JobTyped' BY <1>u DEF JobTyped
<1>3. Counts' BY <1>u, <1>1 DEF Counts
<1>4. FindingsHold' BY <1>u, <1>1 DEF FindingsHold
<1> QED BY <1>2, <1>3, <1>4

LEMMA EndOsvKeepsIt ==
  ASSUME CommandInv, EndOsv PROVE CommandInv'
<1>0. step = "osv" /\ job.queue = {} BY DEF EndOsv
<1>1. step' = "risk" /\ job' = job /\ sent' = sent /\ cleared' = cleared /\ osvCache' = osvCache
  BY DEF EndOsv
<1>u. /\ job \in Jobs /\ job.at <= Len(job.environments) /\ job.at >= 1
      /\ Counts /\ FindingsHold /\ ScoresHold /\ YanksHold
      /\ sent \subseteq PublicKeys /\ RowsAreTrue /\ cleared \cap Malicious = {}
  BY <1>0, UnderWay DEF InScan
<1>2. /\ \A x : Item(x)' = Item(x)
      /\ Listing' = Listing /\ Publics' = Publics /\ PublicKeys' = PublicKeys
  BY <1>1, SamePlaces, SameListing
<1>3. JobTyped' BY <1>0, <1>1, <1>u DEF JobTyped
<1>4. Counts' BY <1>1, <1>2, <1>u DEF Counts
<1>5. FindingsHold' BY <1>1, <1>2, <1>u DEF FindingsHold
<1>6. ScoresHold' BY <1>0, <1>1, <1>2, <1>u DEF ScoresHold, RiskDone
<1>7. YanksHold' BY <1>0, <1>1, <1>2, <1>u DEF YanksHold, YanksDone
<1>8. JobInv' BY <1>1, <1>2, <1>3, <1>4, <1>5, <1>6, <1>7, <1>u DEF JobInv
<1>9. CacheScanInv' BY <1>1 DEF CacheScanInv, InCacheScan
<1> QED BY <1>1, <1>8, <1>9, <1>u DEF CommandInv, RowsAreTrue

(* What is scored by name has a public place in this environment.           *)
LEMMA ScoredNamesArePublic ==
  ASSUME CommandInv, step = "risk"
  PROVE  /\ KeysOf(ToScore) \ LocalOnly \subseteq PublicKeys
         /\ ToScore \subseteq Here /\ IsFiniteSet(ToScore) /\ IsFiniteSet(KeysOf(ToScore))
<1>u. Here \subseteq Listing /\ Counts BY UnderWay DEF InScan
<1>1. ToScore \subseteq Here BY DEF ToScore, Public
<1>2. IsFiniteSet(ToScore)
  <2>1. ToScore \subseteq Listing /\ IsFiniteSet(Listing) BY <1>u, <1>1 DEF Counts
  <2> QED BY <2>1, FS_Subset
<1>3. IsFiniteSet(KeysOf(ToScore)) BY <1>2, KeysAreFinite
<1>4. ASSUME NEW p \in KeysOf(ToScore) \ LocalOnly PROVE p \in PublicKeys
  <2>1. PICK x \in ToScore : p = Item(x).package BY <1>4, PlacesOf
  <2>2. x \in Public(ToScore) BY <2>1, <1>4 DEF LocalOnly, KeysOf
  <2>3. x \in Public(Listing) BY <2>2, <1>1, <1>u DEF Public
  <2> QED BY <2>1, <2>3 DEF PublicKeys, KeysOf
<1> QED BY <1>1, <1>2, <1>3, <1>4

(* After the pass, what the environment at hand has to score is scored, or  *)
(* some package is counted as not.                                          *)
LEMMA ScoresHoldAfter ==
  ASSUME CommandInv, step = "risk", step' = "yanks",
         job'.environments = job.environments, job'.mode = job.mode, job'.at = job.at,
         job.totals.scored \subseteq job'.totals.scored,
         job.mode.risk /\ job'.totals.riskFailures = 0 =>
            job.totals.riskFailures = 0 /\ KeysOf(ToScore) \subseteq job'.totals.scored
  PROVE  ScoresHold'
<1>u. job.at \in Nat /\ ScoresHold BY UnderWay DEF InScan
<1>1. /\ \A x : Item(x)' = Item(x)
      /\ Listing' = Listing
  BY SamePlaces, SameListing
<1>2. RiskDone' = job.at /\ RiskDone = job.at - 1 BY DEF RiskDone
<1>3. SUFFICES ASSUME job.mode.risk, job'.totals.riskFailures = 0,
                      NEW x \in Listing, x[1] <= job.at, job.mode.installed \/ Item(x).public
               PROVE  Item(x).package \in job'.totals.scored
  BY <1>1, <1>2 DEF ScoresHold
<1>4. x[1] \in 1 .. job.at /\ x \in ToQuery(x[1]) BY PlacesOf
<1>5. CASE x[1] <= job.at - 1 BY <1>3, <1>5, <1>u, <1>2 DEF ScoresHold
<1>6. CASE x[1] = job.at
  <2>1. x \in Here BY <1>4, <1>6, PlacesOf
  <2>2. x \in ToScore BY <2>1, <1>3 DEF ToScore, Public
  <2>3. Item(x).package \in KeysOf(ToScore) BY <2>2 DEF KeysOf
  <2> QED BY <2>3, <1>3
<1>7. x[1] <= job.at - 1 \/ x[1] = job.at BY <1>4, <1>u
<1> QED BY <1>5, <1>6, <1>7

LEMMA RiskPassKeepsIt ==
  ASSUME CommandInv, RiskPass PROVE CommandInv'
<1>0. step = "risk" /\ InScan BY DEF RiskPass, InScan
<1>1. PICK scored \in SUBSET KeysOf(ToScore) :
         job' = [job EXCEPT !.totals.scored = @ \cup scored,
                            !.totals.riskFailures = @ + Cardinality(KeysOf(ToScore) \ scored)]
  BY DEF RiskPass
<1>2. /\ step' = "yanks" /\ sent' = sent \cup (KeysOf(ToScore) \ LocalOnly)
      /\ cleared' = cleared /\ osvCache' = osvCache
  BY DEF RiskPass
<1>u. /\ job \in Jobs /\ job.totals \in Totals /\ YanksHold /\ sent \subseteq PublicKeys
      /\ RowsAreTrue /\ cleared \cap Malicious = {}
      /\ job.environments \in Seq(Seq(Requirements)) /\ Here \subseteq Listing
      /\ job.at <= Len(job.environments) /\ job.at >= 1 /\ job.at \in Nat
  BY <1>0, UnderWay
<1>3. /\ KeysOf(ToScore) \ LocalOnly \subseteq PublicKeys /\ ToScore \subseteq Here
      /\ IsFiniteSet(KeysOf(ToScore))
  BY <1>0, ScoredNamesArePublic
<1>4. IsFiniteSet(KeysOf(ToScore) \ scored) BY <1>3, FS_Difference
<1>5. PICK n \in Nat : n = Cardinality(KeysOf(ToScore) \ scored) BY <1>4, FS_CardinalityType
<1>6. KeysOf(ToScore) \subseteq Keys
  <2> SUFFICES ASSUME NEW x \in ToScore PROVE Item(x).package \in Keys BY DEF KeysOf
  <2>1. x \in ToQuery(job.at) BY <1>3, PlacesOf
  <2>2. job.environments[job.at] \in Seq(Requirements) BY <1>u, ElementOfSeq
  <2>3. x[1] = job.at /\ x[2] \in DOMAIN job.environments[job.at] BY <2>1 DEF ToQuery
  <2>4. Item(x) \in Requirements BY <2>2, <2>3, ElementOfSeq, LenProperties DEF Item
  <2> QED BY <2>4 DEF Requirements
<1>7. PICK sc \in SUBSET Keys : sc = job.totals.scored \cup scored BY <1>6, <1>u DEF Totals
<1>8. PICK g \in Nat : g = job.totals.riskFailures + n BY <1>u DEF Totals
<1>9. PICK t : t = [job.totals EXCEPT !.scored = sc, !.riskFailures = g] OBVIOUS
<1>10. /\ t \in Totals /\ t.notPublic = job.totals.notPublic
       /\ t.osvFailures = job.totals.osvFailures /\ t.findings = job.totals.findings
       /\ t.scored = sc /\ t.riskFailures = g
       /\ t.yanksTold = job.totals.yanksTold /\ t.yankFailures = job.totals.yankFailures
  BY <1>9, <1>u DEF Totals
<1>11. job' = [job EXCEPT !.totals = t]
  BY <1>1, <1>5, <1>7, <1>8, <1>9, <1>u DEF Jobs, Totals
<1>12. /\ job' \in Jobs /\ job'.totals = t /\ job'.at = job.at /\ job'.queue = job.queue
       /\ job'.environments = job.environments /\ job'.mode = job.mode
       /\ job'.answered = job.answered
  BY <1>11, <1>10, <1>u DEF Jobs
<1>13. JobTyped' /\ Counts' /\ FindingsHold' BY <1>0, <1>2, <1>12, <1>10, CountsStay
<1>14. ScoresHold'
  <2>1. job'.totals.riskFailures = 0 =>
          job.totals.riskFailures = 0 /\ KeysOf(ToScore) \subseteq job'.totals.scored
    <3> SUFFICES ASSUME g = 0 PROVE job.totals.riskFailures = 0 /\ KeysOf(ToScore) \subseteq sc
      BY <1>10, <1>12
    <3>1. job.totals.riskFailures = 0 /\ n = 0
      <4>1. job.totals.riskFailures \in Nat BY <1>u DEF Totals
      <4> QED BY <4>1, <1>8
    <3>2. KeysOf(ToScore) \ scored = {} BY <3>1, <1>4, <1>5, FS_EmptySet
    <3> QED BY <3>1, <3>2, <1>7
  <2>2. job.totals.scored \subseteq job'.totals.scored BY <1>7, <1>10, <1>12
  <2> QED BY <1>0, <1>2, <1>12, <2>1, <2>2, ScoresHoldAfter
<1>15. /\ \A x : Item(x)' = Item(x)
       /\ Listing' = Listing /\ Publics' = Publics /\ PublicKeys' = PublicKeys
  BY <1>12, SamePlaces, SameListing
<1>16. YanksHold' BY <1>0, <1>2, <1>10, <1>12, <1>15, <1>u DEF YanksHold, YanksDone
<1>17. JobInv' BY <1>13, <1>14, <1>16, <1>2, <1>3, <1>15, <1>u DEF JobInv
<1>18. CacheScanInv' BY <1>2 DEF CacheScanInv, InCacheScan
<1> QED BY <1>2, <1>17, <1>18, <1>u DEF CommandInv, RowsAreTrue

LEMMA RiskPassFailsKeepsIt ==
  ASSUME CommandInv, RiskPassFails PROVE CommandInv'
<1>0. step = "risk" /\ InScan BY DEF RiskPassFails, InScan
<1>1. job' = [job EXCEPT !.totals.riskFailures = @ + Cardinality(ToScore)]
  BY DEF RiskPassFails
<1>2. /\ step' = "yanks" /\ sent' \subseteq sent \cup (KeysOf(ToScore) \ LocalOnly)
      /\ cleared' = cleared /\ osvCache' = osvCache
  BY DEF RiskPassFails
<1>u. /\ job \in Jobs /\ job.totals \in Totals /\ YanksHold /\ sent \subseteq PublicKeys
      /\ RowsAreTrue /\ cleared \cap Malicious = {}
  BY <1>0, UnderWay
<1>3. KeysOf(ToScore) \ LocalOnly \subseteq PublicKeys /\ IsFiniteSet(ToScore)
  BY <1>0, ScoredNamesArePublic
<1>5. PICK n \in Nat : n = Cardinality(ToScore) BY <1>3, FS_CardinalityType
<1>8. PICK g \in Nat : g = job.totals.riskFailures + n BY <1>u DEF Totals
<1>9. PICK t : t = [job.totals EXCEPT !.riskFailures = g] OBVIOUS
<1>10. /\ t \in Totals /\ t.notPublic = job.totals.notPublic
       /\ t.osvFailures = job.totals.osvFailures /\ t.findings = job.totals.findings
       /\ t.scored = job.totals.scored /\ t.riskFailures = g
       /\ t.yanksTold = job.totals.yanksTold /\ t.yankFailures = job.totals.yankFailures
  BY <1>9, <1>u DEF Totals
<1>11. job' = [job EXCEPT !.totals = t]
  BY <1>1, <1>5, <1>8, <1>9, <1>u DEF Jobs, Totals
<1>12. /\ job' \in Jobs /\ job'.totals = t /\ job'.at = job.at /\ job'.queue = job.queue
       /\ job'.environments = job.environments /\ job'.mode = job.mode
       /\ job'.answered = job.answered
  BY <1>11, <1>10, <1>u DEF Jobs
<1>13. JobTyped' /\ Counts' /\ FindingsHold' BY <1>0, <1>2, <1>12, <1>10, CountsStay
<1>14. ScoresHold'
  <2>1. job'.totals.riskFailures = 0 =>
          job.totals.riskFailures = 0 /\ KeysOf(ToScore) \subseteq job'.totals.scored
    <3> SUFFICES ASSUME g = 0 PROVE job.totals.riskFailures = 0 /\ KeysOf(ToScore) = {}
      BY <1>10, <1>12
    <3>1. job.totals.riskFailures = 0 /\ n = 0
      <4>1. job.totals.riskFailures \in Nat BY <1>u DEF Totals
      <4> QED BY <4>1, <1>8
    <3>2. ToScore = {} BY <3>1, <1>3, <1>5, FS_EmptySet
    <3> QED BY <3>1, <3>2 DEF KeysOf
  <2>2. job.totals.scored \subseteq job'.totals.scored BY <1>10, <1>12
  <2> QED BY <1>0, <1>2, <1>12, <2>1, <2>2, ScoresHoldAfter
<1>15. /\ \A x : Item(x)' = Item(x)
       /\ Listing' = Listing /\ Publics' = Publics /\ PublicKeys' = PublicKeys
  BY <1>12, SamePlaces, SameListing
<1>16. YanksHold' BY <1>0, <1>2, <1>10, <1>12, <1>15, <1>u DEF YanksHold, YanksDone
<1>17. JobInv' BY <1>13, <1>14, <1>16, <1>2, <1>3, <1>15, <1>u DEF JobInv
<1>18. CacheScanInv' BY <1>2 DEF CacheScanInv, InCacheScan
<1> QED BY <1>2, <1>17, <1>18, <1>u DEF CommandInv, RowsAreTrue

LEMMA SkipRiskKeepsIt ==
  ASSUME CommandInv, SkipRisk PROVE CommandInv'
<1>0. step = "risk" /\ InScan /\ ~job.mode.risk BY DEF SkipRisk, InScan
<1>1. step' = "yanks" /\ job' = job /\ sent' = sent /\ cleared' = cleared /\ osvCache' = osvCache
  BY DEF SkipRisk
<1>u. /\ job \in Jobs /\ YanksHold /\ sent \subseteq PublicKeys
      /\ RowsAreTrue /\ cleared \cap Malicious = {}
  BY <1>0, UnderWay
<1>2. JobTyped' /\ Counts' /\ FindingsHold' BY <1>0, <1>1, <1>u, CountsStay
<1>3. ScoresHold' BY <1>0, <1>1 DEF ScoresHold
<1>4. /\ \A x : Item(x)' = Item(x)
      /\ Publics' = Publics /\ PublicKeys' = PublicKeys
  BY <1>1, SamePlaces, SameListing
<1>5. YanksHold' BY <1>0, <1>1, <1>4, <1>u DEF YanksHold, YanksDone
<1>6. JobInv' BY <1>1, <1>2, <1>3, <1>4, <1>5, <1>u DEF JobInv
<1>7. CacheScanInv' BY <1>1 DEF CacheScanInv, InCacheScan
<1> QED BY <1>1, <1>6, <1>7, <1>u DEF CommandInv, RowsAreTrue

(* Likewise for the yank check.                                             *)
LEMMA YanksHoldAfter ==
  ASSUME CommandInv, step = "yanks", step' = "environments",
         job'.environments = job.environments, job'.mode = job.mode, job'.at = job.at,
         job.totals.yanksTold \subseteq job'.totals.yanksTold,
         job'.totals.yankFailures = 0 =>
            job.totals.yankFailures = 0 /\ YankChecked \subseteq job'.totals.yanksTold
  PROVE  YanksHold'
<1>u. job.at \in Nat /\ YanksHold /\ Publics \subseteq Listing BY UnderWay DEF InScan
<1>1. /\ \A x : Item(x)' = Item(x)
      /\ Publics' = Publics
  BY SamePlaces, SameListing
<1>2. YanksDone' = job.at /\ YanksDone = job.at - 1 BY DEF YanksDone
<1>3. SUFFICES ASSUME job.mode.yanks, ~job.mode.installed, job'.totals.yankFailures = 0,
                      NEW x \in Publics, x[1] <= job.at
               PROVE  Item(x).package \in job'.totals.yanksTold
  BY <1>1, <1>2 DEF YanksHold
<1>4. x[1] \in 1 .. job.at /\ x \in ToQuery(x[1]) BY <1>u, PlacesOf
<1>5. CASE x[1] <= job.at - 1 BY <1>3, <1>5, <1>u, <1>2 DEF YanksHold
<1>6. CASE x[1] = job.at
  <2>1. x \in Here BY <1>4, <1>6, PlacesOf
  <2>2. Item(x).public BY DEF Publics, Public
  <2>3. x \in Public(Here) BY <2>1, <2>2 DEF Public
  <2>4. Item(x).package \in YankChecked BY <2>3 DEF YankChecked, KeysOf
  <2> QED BY <2>4, <1>3
<1>7. x[1] <= job.at - 1 \/ x[1] = job.at BY <1>4, <1>u
<1> QED BY <1>5, <1>6, <1>7

LEMMA CheckYanksKeepsIt ==
  ASSUME CommandInv, CheckYanks PROVE CommandInv'
<1>0. step = "yanks" /\ InScan BY DEF CheckYanks, InScan
<1>u. /\ job \in Jobs /\ job.totals \in Totals /\ ScoresHold /\ sent \subseteq PublicKeys
      /\ RowsAreTrue /\ cleared \cap Malicious = {} /\ Counts
      /\ job.environments \in Seq(Seq(Requirements)) /\ Here \subseteq Listing
      /\ job.at <= Len(job.environments) /\ job.at >= 1 /\ job.at \in Nat
  BY <1>0, UnderWay
<1>1. step' = "environments" /\ cleared' = cleared /\ osvCache' = osvCache BY DEF CheckYanks
<1>2. IsFiniteSet(Here) /\ IsFiniteSet(Public(Here)) /\ IsFiniteSet(YankChecked)
  <2>1. IsFiniteSet(Here) BY <1>u, FS_Subset DEF Counts
  <2>2. Public(Here) \subseteq Here BY DEF Public
  <2>3. IsFiniteSet(Public(Here)) BY <2>1, <2>2, FS_Subset
  <2> QED BY <2>1, <2>3, KeysAreFinite DEF YankChecked
<1>3. YankChecked \subseteq PublicKeys
  BY <1>u DEF YankChecked, PublicKeys, KeysOf, Public
<1>4. YankChecked \subseteq Keys
  <2> SUFFICES ASSUME NEW x \in Here PROVE Item(x).package \in Keys
    BY DEF YankChecked, KeysOf, Public
  <2>1. x \in ToQuery(job.at) BY PlacesOf
  <2>2. job.environments[job.at] \in Seq(Requirements) BY <1>u, ElementOfSeq
  <2>3. x[1] = job.at /\ x[2] \in DOMAIN job.environments[job.at] BY <2>1 DEF ToQuery
  <2>4. Item(x) \in Requirements BY <2>2, <2>3, ElementOfSeq, LenProperties DEF Item
  <2> QED BY <2>4 DEF Requirements
<1>5. PICK n \in Nat, told \in SUBSET Keys :
        /\ job' = [job EXCEPT !.totals.yankFailures = job.totals.yankFailures + n,
                              !.totals.yanksTold = job.totals.yanksTold \cup told]
        /\ n = 0 => YankChecked \subseteq told
        /\ sent' \subseteq sent \cup YankChecked
  <2>1. CASE \E failed \in SUBSET YankChecked :
               /\ job' = [job EXCEPT !.totals.yankFailures = @ + Cardinality(failed),
                                     !.totals.yanksTold = @ \cup (YankChecked \ failed)]
               /\ sent' = sent \cup YankChecked
    <3>1. PICK failed \in SUBSET YankChecked :
               /\ job' = [job EXCEPT !.totals.yankFailures = @ + Cardinality(failed),
                                     !.totals.yanksTold = @ \cup (YankChecked \ failed)]
               /\ sent' = sent \cup YankChecked
      BY <2>1
    <3>2. IsFiniteSet(failed) BY <1>2, FS_Subset
    <3>3. PICK n \in Nat : n = Cardinality(failed) BY <3>2, FS_CardinalityType
    <3>4. n = 0 => YankChecked \subseteq YankChecked \ failed
      <4>1. n = 0 => failed = {} BY <3>2, <3>3, FS_EmptySet
      <4> QED BY <4>1
    <3>5. YankChecked \ failed \in SUBSET Keys BY <1>4
    <3>6. job' = [job EXCEPT !.totals.yankFailures = job.totals.yankFailures + n,
                             !.totals.yanksTold = job.totals.yanksTold \cup (YankChecked \ failed)]
      BY <3>1, <3>3
    <3> QED BY <3>1, <3>4, <3>5, <3>6
  <2>2. CASE /\ job' = [job EXCEPT !.totals.yankFailures = @ + Cardinality(Here)]
             /\ UNCHANGED sent
    <3>3. PICK n \in Nat : n = Cardinality(Here) BY <1>2, FS_CardinalityType
    <3>4. n = 0 => YankChecked \subseteq {}
      <4>1. n = 0 => Here = {} BY <1>2, <3>3, FS_EmptySet
      <4> QED BY <4>1 DEF YankChecked, KeysOf, Public
    <3>5. job' = [job EXCEPT !.totals.yankFailures = job.totals.yankFailures + n] BY <2>2, <3>3
    <3>6. job.totals.yanksTold \cup {} = job.totals.yanksTold OBVIOUS
    <3>7. job' = [job EXCEPT !.totals.yankFailures = job.totals.yankFailures + n,
                             !.totals.yanksTold = job.totals.yanksTold \cup {}]
      BY <3>5, <3>6, <1>u DEF Jobs, Totals
    <3>8. sent' \subseteq sent \cup YankChecked BY <2>2
    <3>9. PICK none \in SUBSET Keys : none = {} OBVIOUS
    <3> QED BY <3>4, <3>7, <3>8, <3>9
  <2> QED BY <2>1, <2>2 DEF CheckYanks
<1>7. PICK yt \in SUBSET Keys : yt = job.totals.yanksTold \cup told BY <1>u DEF Totals
<1>8. PICK g \in Nat : g = job.totals.yankFailures + n BY <1>u DEF Totals
<1>9. PICK t : t = [job.totals EXCEPT !.yankFailures = g, !.yanksTold = yt] OBVIOUS
<1>10. /\ t \in Totals /\ t.notPublic = job.totals.notPublic
       /\ t.osvFailures = job.totals.osvFailures /\ t.findings = job.totals.findings
       /\ t.scored = job.totals.scored /\ t.riskFailures = job.totals.riskFailures
       /\ t.yanksTold = yt /\ t.yankFailures = g
  BY <1>9, <1>u DEF Totals
<1>11. job' = [job EXCEPT !.totals = t]
  BY <1>5, <1>7, <1>8, <1>9, <1>u DEF Jobs, Totals
<1>12. /\ job' \in Jobs /\ job'.totals = t /\ job'.at = job.at /\ job'.queue = job.queue
       /\ job'.environments = job.environments /\ job'.mode = job.mode
       /\ job'.answered = job.answered
  BY <1>11, <1>10, <1>u DEF Jobs
<1>13. JobTyped' /\ Counts' /\ FindingsHold' BY <1>0, <1>1, <1>12, <1>10, CountsStay
<1>14. YanksHold'
  <2>1. job'.totals.yankFailures = 0 =>
          job.totals.yankFailures = 0 /\ YankChecked \subseteq job'.totals.yanksTold
    <3>1. job.totals.yankFailures \in Nat BY <1>u DEF Totals
    <3>2. g = 0 => job.totals.yankFailures = 0 /\ n = 0 BY <3>1, <1>8
    <3> QED BY <3>2, <1>5, <1>7, <1>10, <1>12
  <2>2. job.totals.yanksTold \subseteq job'.totals.yanksTold BY <1>7, <1>10, <1>12
  <2> QED BY <1>0, <1>1, <1>12, <2>1, <2>2, YanksHoldAfter
<1>15. /\ \A x : Item(x)' = Item(x)
       /\ Listing' = Listing /\ PublicKeys' = PublicKeys
  BY <1>12, SamePlaces, SameListing
<1>16. ScoresHold' BY <1>0, <1>1, <1>10, <1>12, <1>15, <1>u DEF ScoresHold, RiskDone
<1>17. JobInv' BY <1>13, <1>14, <1>16, <1>5, <1>3, <1>15, <1>u DEF JobInv
<1>18. CacheScanInv' BY <1>1 DEF CacheScanInv, InCacheScan
<1> QED BY <1>1, <1>17, <1>18, <1>u DEF CommandInv, RowsAreTrue

LEMMA SkipYanksKeepsIt ==
  ASSUME CommandInv, SkipYanks PROVE CommandInv'
<1>0. step = "yanks" /\ InScan /\ ~(job.mode.yanks /\ ~job.mode.installed) BY DEF SkipYanks, InScan
<1>1. /\ step' = "environments" /\ job' = job /\ sent' = sent /\ cleared' = cleared
      /\ osvCache' = osvCache
  BY DEF SkipYanks
<1>u. /\ job \in Jobs /\ ScoresHold /\ sent \subseteq PublicKeys
      /\ RowsAreTrue /\ cleared \cap Malicious = {}
  BY <1>0, UnderWay
<1>2. JobTyped' /\ Counts' /\ FindingsHold' BY <1>0, <1>1, <1>u, CountsStay
<1>3. YanksHold' BY <1>0, <1>1 DEF YanksHold
<1>4. /\ \A x : Item(x)' = Item(x)
      /\ Listing' = Listing /\ PublicKeys' = PublicKeys
  BY <1>1, SamePlaces, SameListing
<1>5. ScoresHold' BY <1>0, <1>1, <1>4, <1>u DEF ScoresHold, RiskDone
<1>6. JobInv' BY <1>1, <1>2, <1>3, <1>4, <1>5, <1>u DEF JobInv
<1>7. CacheScanInv' BY <1>1 DEF CacheScanInv, InCacheScan
<1> QED BY <1>1, <1>6, <1>7, <1>u DEF CommandInv, RowsAreTrue

(* With no lookup lost, a public package without a finding is clean.        *)
LEMMA EndScanKeepsIt ==
  ASSUME CommandInv, EndScan PROVE CommandInv'
<1>0. step = "environments" /\ InScan BY DEF EndScan, ScanDone, InScan
<1>u. FindingsHold /\ job.queue = {} /\ RowsAreTrue BY <1>0, UnderWay
<1>1. /\ step' = "idle" /\ osvCache' = osvCache
      /\ cleared' = IF job.totals.osvFailures = 0 THEN PublicKeys \ job.totals.findings ELSE {}
  BY DEF EndScan
<1>2. cleared' \cap Malicious = {}
  <2> SUFFICES ASSUME job.totals.osvFailures = 0, NEW p \in PublicKeys, p \in Malicious
      PROVE p \in job.totals.findings
    BY <1>1
  <2>1. PICK x \in Publics : p = Item(x).package BY DEF PublicKeys, Publics, KeysOf
  <2> QED BY <2>1, <1>u DEF FindingsHold
<1> QED BY <1>1, <1>2, <1>u DEF CommandInv, RowsAreTrue, CacheScanInv, JobInv, InCacheScan, InScan
-----------------------------------------------------------------------------
LEMMA ScanningNextKeepsIt ==
  ASSUME ScanAssumption, CommandInv, [ScanningNext]_scanningVars
  PROVE  CommandInv'
<1>1. CASE UNCHANGED scanningVars
  <2>1. /\ step' = step /\ osvCache' = osvCache /\ scan' = scan /\ job' = job
        /\ sent' = sent /\ cleared' = cleared
    BY <1>1 DEF scanningVars
  <2>2. /\ \A x : Item(x)' = Item(x)
        /\ \A xs : Public(xs)' = Public(xs)
        /\ Listing' = Listing /\ Here' = Here /\ Publics' = Publics /\ PublicKeys' = PublicKeys
    BY <2>1, SamePlaces, SameListing
  <2>3. CacheScanInv' BY <2>1 DEF CommandInv, CacheScanInv, InCacheScan, Alerted
  <2>4. ASSUME InScan PROVE JobInv'
    <3>u. JobTyped /\ Counts /\ FindingsHold /\ ScoresHold /\ YanksHold /\ sent \subseteq PublicKeys
      BY <2>4 DEF CommandInv, JobInv
    <3>1. JobTyped'
      <4>1. Public(Here)' = Public(Here)
        <5>1. Public(Here)' = {x \in Here' : Item(x)'.public} BY DEF Public
        <5> QED BY <5>1, <2>2 DEF Public
      <4> QED BY <4>1, <3>u, <2>1 DEF JobTyped
    <3>2. Counts' BY <3>u, <2>1, <2>2 DEF Counts
    <3>3. FindingsHold' BY <3>u, <2>1, <2>2 DEF FindingsHold
    <3>4. ScoresHold' BY <3>u, <2>1, <2>2 DEF ScoresHold, RiskDone
    <3>5. YanksHold' BY <3>u, <2>1, <2>2 DEF YanksHold, YanksDone
    <3> QED BY <3>1, <3>2, <3>3, <3>4, <3>5, <3>u, <2>1, <2>2 DEF JobInv
  <2>5. ASSUME ~InScan PROVE JobInv' BY <2>5, <2>1 DEF JobInv, InScan
  <2> QED BY <2>1, <2>3, <2>4, <2>5 DEF CommandInv, RowsAreTrue
<1>2. CASE \E required, polled \in Folders, usable \in BOOLEAN :
             TakeLanguage(required, polled, usable)
  BY <1>2, TakeLanguageKeepsIt
<1>3. CASE \/ RowExpires \/ Query \/ StartScanCache \/ SkipLanguage \/ ScanEntry \/ EndLanguage
           \/ ScanLookup \/ EndScanCache
  BY <1>3, RowExpiresKeepsIt, QueryKeepsIt, StartScanCacheKeepsIt, SkipLanguageKeepsIt,
     ScanEntryKeepsIt, EndLanguageKeepsIt, ScanLookupKeepsIt, EndScanCacheKeepsIt
<1>4. CASE \/ StartScan \/ NextEnvironment \/ OsvBatch \/ EndOsv \/ RiskPass \/ RiskPassFails
           \/ SkipRisk \/ CheckYanks \/ SkipYanks \/ EndScan
  BY <1>4, StartScanKeepsIt, NextEnvironmentKeepsIt, OsvBatchKeepsIt, EndOsvKeepsIt,
     RiskPassKeepsIt, RiskPassFailsKeepsIt, SkipRiskKeepsIt, CheckYanksKeepsIt, SkipYanksKeepsIt,
     EndScanKeepsIt
<1> QED BY <1>1, <1>2, <1>3, <1>4 DEF ScanningNext

LEMMA CommandInvSuffices == CommandInv => ScanIsComplete
<1> SUFFICES ASSUME CommandInv PROVE ScanIsComplete OBVIOUS
<1>1. ClearedIsClean BY DEF CommandInv, ClearedIsClean
<1>2. NoneIsPassedOver
  <2> SUFFICES ASSUME step = "languages"
      PROVE /\ IsInjective(scan.alerts)
            /\ Alerted \subseteq Malicious
            /\ scan.failures = 0 => (scan.offered \cap Malicious) \ Unregistered \subseteq Alerted
    BY DEF NoneIsPassedOver, CacheScanDone, Alerted
  <2>1. CacheScanInv /\ InCacheScan BY DEF CommandInv, InCacheScan
  <2>2. scan.entries = {} /\ scan.current = {} /\ scan.skipped \subseteq Unregistered
    BY <2>1 DEF CacheScanInv
  <2>3. \A p \in scan.offered : {p} \in scan.seen BY <2>1, <2>2 DEF CacheScanInv
  <2>4. \A p \in Malicious : {p} \in scan.seen =>
           scan.failures > 0 \/ p \in Alerted \cup scan.skipped
    BY <2>1, <2>2 DEF CacheScanInv
  <2>5. scan.failures = 0 => ~(scan.failures > 0) OBVIOUS
  <2>6. scan.failures = 0 => (scan.offered \cap Malicious) \ Unregistered \subseteq Alerted
    BY <2>2, <2>3, <2>4, <2>5
  <2> QED BY <2>1, <2>6 DEF CacheScanInv
<1>3. ReportAddsUp
  <2> SUFFICES ASSUME step = "environments"
      PROVE /\ Checked = job.answered
            /\ Checked + job.totals.osvFailures + job.totals.notPublic = Cardinality(Listing)
            /\ job.totals.osvFailures = 0 => PublicKeys \cap Malicious \subseteq job.totals.findings
            /\ (job.mode.risk /\ job.totals.riskFailures = 0) =>
                  KeysOf(IF job.mode.installed THEN Listing ELSE Public(Listing))
                     \subseteq job.totals.scored
            /\ (job.mode.yanks /\ ~job.mode.installed /\ job.totals.yankFailures = 0) =>
                  PublicKeys \subseteq job.totals.yanksTold
    BY DEF ReportAddsUp, ScanDone
  <2>u. /\ job \in Jobs /\ job.totals \in Totals
        /\ Counts /\ FindingsHold /\ ScoresHold /\ YanksHold
        /\ job.queue = {} /\ Publics \subseteq Listing /\ job.at \in Nat
    BY UnderWay DEF InScan
  <2>1. Cardinality({}) = 0 BY FS_EmptySet
  <2>2. job.answered \in Nat /\ job.totals.osvFailures \in Nat /\ job.totals.notPublic \in Nat
    BY <2>u DEF Jobs, Totals
  <2>3. Cardinality(Listing) = Cardinality(Publics) + Cardinality(Listing \ Publics)
    BY <2>u, PartAndRest DEF Counts
  <2>4. job.answered + job.totals.osvFailures = Cardinality(Publics)
    BY <2>u, <2>1, <2>2 DEF Counts
  <2>5. Checked = Cardinality(Publics) - job.totals.osvFailures BY DEF Checked, Publics
  <2>6. Checked = job.answered BY <2>2, <2>4, <2>5
  <2>7. Checked + job.totals.osvFailures + job.totals.notPublic = Cardinality(Listing)
    BY <2>6, <2>4, <2>3, <2>u DEF Counts
  <2>8. \A x \in Listing : x[1] <= job.at
    <3>1. \A x \in Listing : x[1] \in 1 .. job.at BY PlacesOf
    <3> QED BY <3>1, <2>u
  <2>9. job.totals.osvFailures = 0 => PublicKeys \cap Malicious \subseteq job.totals.findings
    BY <2>u DEF FindingsHold, PublicKeys, Publics, KeysOf
  <2>10. RiskDone = job.at /\ YanksDone = job.at BY DEF RiskDone, YanksDone
  <2>11. ASSUME job.mode.risk, job.totals.riskFailures = 0
         PROVE KeysOf(IF job.mode.installed THEN Listing ELSE Public(Listing))
                  \subseteq job.totals.scored
    <3>1. CASE job.mode.installed
      <4>1. \A x \in Listing : Item(x).package \in job.totals.scored
        BY <2>11, <3>1, <2>u, <2>8, <2>10 DEF ScoresHold
      <4> QED BY <4>1, <3>1 DEF KeysOf
    <3>2. CASE ~job.mode.installed
      <4>1. \A x \in Public(Listing) : Item(x).package \in job.totals.scored
        BY <2>11, <2>u, <2>8, <2>10 DEF ScoresHold, Public
      <4> QED BY <4>1, <3>2 DEF KeysOf
    <3> QED BY <3>1, <3>2
  <2>12. ASSUME job.mode.yanks, ~job.mode.installed, job.totals.yankFailures = 0
         PROVE PublicKeys \subseteq job.totals.yanksTold
    <3>1. \A x \in Publics : Item(x).package \in job.totals.yanksTold
      BY <2>12, <2>u, <2>8, <2>10 DEF YanksHold
    <3> QED BY <3>1 DEF PublicKeys, Publics, KeysOf
  <2> QED BY <2>6, <2>7, <2>9, <2>11, <2>12
<1>4. PrivateNamesStayHere
  <2> SUFFICES ASSUME InScan PROVE sent \subseteq PublicKeys BY DEF PrivateNamesStayHere, InScan
  <2> QED BY UnderWay
<1> QED BY <1>1, <1>2, <1>3, <1>4 DEF ScanIsComplete

(* ScanIsComplete, for `_run_scan_cache`, `_run_scan_project`,             *)
(* `_assess_packages`, `_run_query` and the scheduler's `_scan_pinned`:    *)
(* whatever lookups, rows and rating passes fail or expire in the commands *)
(* of this machine, one after the other, no package that OSV lists as      *)
(* malicious is told clean, none is passed over without a count of what    *)
(* was not checked, the totals of a report add up, and the name of a       *)
(* private package goes nowhere.                                           *)
THEOREM ScansAreComplete ==
  ASSUME ScanAssumption
  PROVE  ScanningSpec => []ScanIsComplete
<1>1. ScanningInit => CommandInv BY ScanningInitHolds
<1>2. CommandInv /\ [ScanningNext]_scanningVars => CommandInv' BY ScanningNextKeepsIt
<1>3. CommandInv => ScanIsComplete BY CommandInvSuffices
<1> QED BY <1>1, <1>2, <1>3, PTL DEF ScanningSpec
=============================================================================
