----------------------------- MODULE StoreProofs -----------------------------
(***************************************************************************)
(* What TLAPS proves of the stores a request reads and writes: channel     *)
(* sessions (Sessions), the records behind the owner-scoped ports          *)
(* (OwnedData) and the cache (CacheService).  They share filtered and      *)
(* sliced sequences, so the lemmas about those come first.                 *)
(***************************************************************************)
EXTENDS Sessions, OwnedData, CacheService, FiniteSetTheorems, SequenceTheorems,
        WellFoundedInduction, TLAPS

-----------------------------------------------------------------------------
(* Numbers *)

\* Every nonempty set of naturals has a least element.
LEMMA LeastOf ==
  ASSUME NEW S \in SUBSET Nat, S # {}
  PROVE  \E n \in S : \A m \in S : n <= m
<1> DEFINE R == OpToRel(<, Nat)
<1>1. IsWellFoundedOn(R, Nat)
  BY NatLessThanWellFounded
<1>2. \A x, y \in Nat : x < y => <<x, y>> \in R
  BY DEF OpToRel
<1> HIDE DEF R
<1>3. PICK n \in S : \A m \in S : ~ (<<m, n>> \in R)
  BY <1>1, WFMin
<1>4. ASSUME NEW m \in S PROVE n <= m
  <2>1. m \in Nat /\ n \in Nat
    OBVIOUS
  <2>2. ~ (m < n)
    BY <1>2, <1>3, <2>1
  <2> QED BY <2>1, <2>2
<1> QED BY <1>4

-----------------------------------------------------------------------------
(* Filtered sequences (Selection) *)

\* The positions up to i: none up to 0, all up to the last, and one more at i than
\* at i - 1 when i is among them.
LEMMA RankStep ==
  ASSUME NEW L \in Nat, NEW S \in SUBSET (1..L)
  PROVE  /\ IsFiniteSet(S) /\ Cardinality(S) \in 0..L
         /\ Rank(S, 0) = 0 /\ Rank(S, L) = Cardinality(S)
         /\ \A i \in 0..L : Rank(S, i) \in Nat
         /\ \A i \in 1..L : Rank(S, i) = Rank(S, i - 1) + (IF i \in S THEN 1 ELSE 0)
<1>0. \A j \in S : j \in Int /\ 1 <= j /\ j <= L
  OBVIOUS
<1>1. IsFiniteSet(1..L) /\ Cardinality(1..L) = L
  BY FS_Interval
<1>2. IsFiniteSet(S) /\ Cardinality(S) \in Nat /\ Cardinality(S) <= L
  BY <1>1, FS_Subset, FS_CardinalityType
<1>3. Rank(S, 0) = 0
  <2>1. \A j \in S : ~ (j <= 0)
    BY <1>0
  <2>2. {j \in S : j <= 0} = {}
    BY <2>1, Zenon
  <2> QED BY <2>2, FS_EmptySet DEF Rank
<1>4. Rank(S, L) = Cardinality(S)
  <2>1. {j \in S : j <= L} = S
    BY <1>0
  <2> QED BY <2>1 DEF Rank
<1>5. \A i \in Int : IsFiniteSet({j \in S : j <= i})
  BY <1>2, FS_Subset
<1>6. \A i \in 0..L : Rank(S, i) \in Nat
  BY <1>5, FS_CardinalityType DEF Rank
<1>7. ASSUME NEW i \in 1..L
      PROVE  Rank(S, i) = Rank(S, i - 1) + (IF i \in S THEN 1 ELSE 0)
  <2>1. CASE i \in S
    <3>0. \A j \in S : j <= i <=> j <= i - 1 \/ j = i
      BY <1>0
    <3>1. {j \in S : j <= i} = {j \in S : j <= i - 1} \cup {i}
      BY <2>1, <3>0, Zenon
    <3>2. i \notin {j \in S : j <= i - 1}
      OBVIOUS
    <3>3. IsFiniteSet({j \in S : j <= i - 1})
      <4>1. i - 1 \in Int
        OBVIOUS
      <4> QED BY <1>5, <4>1
    <3>4. Cardinality({j \in S : j <= i - 1} \cup {i}) = Cardinality({j \in S : j <= i - 1}) + 1
      BY <3>2, <3>3, FS_AddElement
    <3> QED BY <2>1, <3>1, <3>4 DEF Rank
  <2>2. CASE i \notin S
    <3>0. \A j \in S : j # i
      BY <2>2
    <3>1. \A j \in S : j <= i <=> j <= i - 1
      BY <1>0, <3>0
    <3>2. {j \in S : j <= i} = {j \in S : j <= i - 1}
      BY <3>1, Zenon
    <3>3. Rank(S, i) = Rank(S, i - 1)
      BY <3>2 DEF Rank
    <3>4. Rank(S, i - 1) \in Nat
      BY <1>6
    <3> QED BY <2>2, <3>3, <3>4
  <2> QED BY <2>1, <2>2
<1> QED BY <1>2, <1>3, <1>4, <1>6, <1>7

\* A later position has a higher rank.
LEMMA RankGrows ==
  ASSUME NEW L \in Nat, NEW S \in SUBSET (1..L), NEW i \in S, NEW j \in S, i < j
  PROVE  Rank(S, i) < Rank(S, j)
<1>1. IsFiniteSet(S)
  BY RankStep
<1> DEFINE A == {k \in S : k <= i}
           B == {k \in S : k <= j}
<1>2. IsFiniteSet(A) /\ IsFiniteSet(B)
  BY <1>1, FS_Subset
<1>3. A \subseteq B /\ A # B
  <2>1. j \in B /\ j \notin A
    OBVIOUS
  <2>2. \A k \in S : k <= i => k <= j
    <3>1. \A k \in S : k \in Int
      OBVIOUS
    <3> QED BY <3>1
  <2>3. A \subseteq B
    BY <2>2, Zenon
  <2> QED BY <2>1, <2>3
<1>4. Cardinality(A) < Cardinality(B)
  <2> HIDE DEF A, B
  <2> QED BY <1>2, <1>3, FS_Subset, FS_CardinalityType
<1> QED BY <1>4 DEF Rank

\* The n-th position is a position, and the only one of its rank.
LEMMA NthPosition ==
  ASSUME NEW L \in Nat, NEW S \in SUBSET (1..L), NEW n \in 1..Cardinality(S)
  PROVE  /\ Nth(S, n) \in S /\ Rank(S, Nth(S, n)) = n
         /\ \A i \in S : Rank(S, i) = n => i = Nth(S, n)
<1> DEFINE Above == {i \in 0..L : n <= Rank(S, i)}
<1>1. Cardinality(S) \in Nat
  BY RankStep
<1>2. L \in Above
  BY <1>1, RankStep
<1>3. PICK i \in Above : \A m \in Above : i <= m
  <2>1. Above \in SUBSET Nat /\ Above # {}
    BY <1>2
  <2> HIDE DEF Above
  <2> QED BY <2>1, LeastOf
<1>4. i # 0
  BY RankStep
<1>5. i - 1 \in 0..L /\ i \in 1..L
  BY <1>4
<1>6. Rank(S, i - 1) \in Nat /\ Rank(S, i) \in Nat /\ Rank(S, i - 1) < n
  <2>1. Rank(S, i - 1) \in Nat /\ Rank(S, i) \in Nat
    BY <1>5, RankStep
  <2>2. i - 1 \notin Above
    BY <1>3, <1>5
  <2>3. ~ (n <= Rank(S, i - 1))
    BY <1>5, <2>2
  <2>4. n \in Int
    OBVIOUS
  <2>5. Rank(S, i - 1) < n
    <3> HIDE DEF Above
    <3>1. PICK r \in Nat : r = Rank(S, i - 1)
      BY <2>1
    <3>2. ~ (n <= r)
      BY <2>3, <3>1
    <3>3. r < n
      BY <2>4, <3>1, <3>2
    <3> QED BY <3>1, <3>3
  <2> HIDE DEF Above
  <2> QED BY <2>1, <2>5, Zenon
<1>7. i \in S /\ Rank(S, i) = n
  <2>1. n <= Rank(S, i)
    OBVIOUS
  <2>2. Rank(S, i) = Rank(S, i - 1) + (IF i \in S THEN 1 ELSE 0)
    <3> HIDE DEF Above
    <3>1. \A k \in 1..L : Rank(S, k) = Rank(S, k - 1) + (IF k \in S THEN 1 ELSE 0)
      BY RankStep
    <3> QED BY <1>5, <3>1, Zenon
  <2>3. CASE i \in S
    BY <1>1, <1>6, <2>1, <2>2, <2>3
  <2>4. CASE i \notin S
    BY <1>1, <1>6, <2>1, <2>2, <2>4
  <2> QED BY <2>3, <2>4
<1>8. Nth(S, n) \in S /\ Rank(S, Nth(S, n)) = n
  BY <1>7, Zenon DEF Nth
<1>9. ASSUME NEW k \in S, Rank(S, k) = n PROVE k = Nth(S, n)
  <2> DEFINE t == Nth(S, n)
  <2>1. t \in S /\ Rank(S, t) = n
    BY <1>8
  <2>2. k \in Int /\ t \in Int
    <3>1. \A j \in S : j \in Int
      OBVIOUS
    <3> HIDE DEF t
    <3> QED BY <2>1, <3>1
  <2> HIDE DEF t
  <2>3. ~ (k < t) /\ ~ (t < k)
    <3>1. k \in 0..L /\ t \in 0..L
      BY <2>1
    <3>2. Rank(S, k) \in Nat /\ Rank(S, t) \in Nat
      BY <3>1, RankStep
    <3>3. k < t => Rank(S, k) < Rank(S, t)
      BY <2>1, RankGrows
    <3>4. t < k => Rank(S, t) < Rank(S, k)
      BY <2>1, RankGrows
    <3> QED BY <1>9, <2>1, <3>2, <3>3, <3>4
  <2>4. k = t
    BY <2>2, <2>3
  <2> QED BY <2>4 DEF t
<1> QED BY <1>8, <1>9

\* Filtering keeps, in their order, the elements at the positions kept and no other.
LEMMA FilteredFacts ==
  ASSUME NEW X, NEW s \in Seq(X), NEW S \in SUBSET DOMAIN s
  PROVE  /\ Filtered(s, S) \in Seq(X)
         /\ Len(Filtered(s, S)) = Cardinality(S)
         /\ Cardinality(S) \in Nat /\ Cardinality(S) <= Len(s)
         /\ \A n \in 1..Cardinality(S) : Nth(S, n) \in S /\ Filtered(s, S)[n] = s[Nth(S, n)]
         /\ \A m, n \in 1..Cardinality(S) : m < n => Nth(S, m) < Nth(S, n)
         /\ \A i \in S : \E n \in 1..Cardinality(S) : i = Nth(S, n)
<1>1. Len(s) \in Nat /\ DOMAIN s = 1..Len(s)
  BY LenProperties
<1>2. S \in SUBSET (1..Len(s))
  BY <1>1
<1>3. Cardinality(S) \in Nat /\ Cardinality(S) <= Len(s) /\ IsFiniteSet(S)
  <2>1. IsFiniteSet(S) /\ Cardinality(S) \in 0..Len(s)
    BY <1>1, <1>2, RankStep
  <2> QED BY <1>1, <2>1
<1>4. \A n \in 1..Cardinality(S) :
        /\ Nth(S, n) \in S /\ Rank(S, Nth(S, n)) = n
        /\ \A i \in S : Rank(S, i) = n => i = Nth(S, n)
  BY <1>1, <1>2, NthPosition
<1>5. \A n \in 1..Cardinality(S) : s[Nth(S, n)] \in X
  BY <1>1, <1>4, ElementOfSeq
<1>6. \A n \in 1..Cardinality(S) : Filtered(s, S)[n] = s[Nth(S, n)]
  BY DEF Filtered
<1>7. Filtered(s, S) \in Seq(X) /\ Len(Filtered(s, S)) = Cardinality(S)
  BY <1>3, <1>5 DEF Filtered
<1>8. ASSUME NEW m \in 1..Cardinality(S), NEW n \in 1..Cardinality(S), m < n
      PROVE  Nth(S, m) < Nth(S, n)
  <2>1. PICK i \in S : i = Nth(S, m) /\ Rank(S, i) = m
    BY <1>4
  <2>2. PICK j \in S : j = Nth(S, n) /\ Rank(S, j) = n
    BY <1>4
  <2>3. ~ (j < i) /\ i # j
    <3>1. j < i => n < m
      BY <1>1, <1>2, <2>1, <2>2, RankGrows
    <3> QED BY <1>3, <1>8, <2>1, <2>2, <3>1
  <2>4. i \in Int /\ j \in Int
    BY <1>2
  <2>5. i < j
    BY <2>3, <2>4
  <2> QED BY <2>1, <2>2, <2>5
<1>9. ASSUME NEW i \in S PROVE \E n \in 1..Cardinality(S) : i = Nth(S, n)
  <2>1. i \in 1..Len(s)
    BY <1>2
  <2>2. Rank(S, i) \in Nat /\ Rank(S, i - 1) \in Nat /\ Rank(S, i) = Rank(S, i - 1) + 1
    <3>1. i \in 0..Len(s) /\ i - 1 \in 0..Len(s)
      BY <1>1, <2>1
    <3>2. Rank(S, i) = Rank(S, i - 1) + (IF i \in S THEN 1 ELSE 0)
      BY <1>1, <1>2, <2>1, RankStep
    <3> QED BY <1>1, <1>2, <3>1, <3>2, RankStep
  <2>3. Rank(S, i) <= Cardinality(S)
    <3>1. {j \in S : j <= i} \subseteq S
      OBVIOUS
    <3> QED BY <1>3, <3>1, FS_Subset DEF Rank
  <2>4. Rank(S, i) \in 1..Cardinality(S)
    BY <1>3, <2>2, <2>3
  <2> QED BY <1>4, <2>4
<1> QED BY <1>3, <1>4, <1>6, <1>7, <1>8, <1>9

-----------------------------------------------------------------------------
(* The cache (CacheService) *)

CacheEntry == [key : CacheKeys, value : Nat, expiry : Nat]
Reading == [key : CacheKeys, read : Nat]

CacheTyped ==
  /\ backend \in {"memory", "redis"}
  /\ cache \in Seq(CacheEntry)
  /\ now \in Nat
  /\ incr \in [CacheClients -> Reading \cup {Idle}]
  /\ claimed \in [CacheKeys -> Nat]
  /\ incrs \in [CacheKeys -> Nat]
  /\ excuse \in SUBSET CacheKeys

FitsMemory == backend = "memory" => Len(cache) <= MaxEntries

KeysOnce == \A i, j \in DOMAIN cache : cache[i].key = cache[j].key => i = j

\* An entry holds the count of its key, unless there is an excuse, and an entry under a
\* live claim lasts as long as the claim or for ever.
Counts(e) == e.key \notin excuse => e.expiry = 0 /\ e.value = incrs[e.key]
Lasts(e) == claimed[e.key] # 0 => e.expiry \in {0, claimed[e.key]}
EntriesTell == \A i \in DOMAIN cache : Counts(cache[i]) /\ Lasts(cache[i])
AbsentUncounted == \A k \in CacheKeys : k \notin excuse /\ ~ Has(k) => incrs[k] = 0

\* An incr() between its read and its write has read the count, and is the only one.
ReadsTell ==
  /\ backend = "redis" => \A c \in CacheClients : incr[c] = Idle
  /\ \A c \in CacheClients : incr[c] # Idle /\ incr[c].key \notin excuse =>
       /\ incr[c].read = incrs[incr[c].key]
       /\ \A d \in CacheClients : incr[d].key = incr[c].key => d = c

CacheInv ==
  CacheTyped /\ FitsMemory /\ KeysOnce /\ EntriesTell /\ AbsentUncounted /\ ReadsTell

LEMMA EntriesTyped ==
  ASSUME CacheTyped
  PROVE  \A i \in DOMAIN cache : cache[i] \in CacheEntry /\ cache[i].key \in CacheKeys
<1>1. \A i \in DOMAIN cache : cache[i] \in CacheEntry
  BY ElementOfSeq, LenProperties DEF CacheTyped
<1> QED BY <1>1 DEF CacheEntry

\* The entry found under a key is the entry of that key.
LEMMA EntryFound ==
  ASSUME KeysOnce, NEW k \in CacheKeys, Has(k)
  PROVE  \E i \in DOMAIN cache : cache[i].key = k /\ Entry(k) = cache[i]
<1>1. PICK i \in DOMAIN cache : cache[i].key = k
  BY DEF Has
<1> DEFINE E == {cache[j] : j \in DOMAIN cache}
<1>2. cache[i] \in E
  OBVIOUS
<1>3. Entry(k) \in E /\ Entry(k).key = k
  BY <1>1, <1>2 DEF Entry
<1>4. PICK j \in DOMAIN cache : Entry(k) = cache[j]
  BY <1>3
<1>5. cache[j].key = k
  BY <1>3, <1>4
<1> QED BY <1>4, <1>5

\* The Map has room for an entry.
LEMMA RoomForOne == MaxEntries \in Nat /\ MaxEntries > 0
<1>1. MaxEntries \in Nat \ {0}
  BY CacheAssumption, Zenon DEF CacheAssumption
<1> QED BY <1>1

\* A sequence of entries that came from the cache, by Put or by Without.
Tidy(t) ==
  /\ t \in Seq(CacheEntry)
  /\ backend = "memory" => Len(t) <= MaxEntries
  /\ \A i, j \in DOMAIN t : t[i].key = t[j].key => i = j

\* t is the cache with e put under k.
HasPut(t, k, e) ==
  /\ \A i \in DOMAIN t : t[i] = e \/ (t[i].key # k /\ \E j \in DOMAIN cache : t[i] = cache[j])
  /\ \E i \in DOMAIN t : t[i] = e
  /\ \A j \in DOMAIN cache : cache[j].key \notin Evicted(k) \cup {k} =>
       \E i \in DOMAIN t : t[i].key = cache[j].key

\* Put writes the entry of its key, keeps the others but the one evicted, and adds none.
LEMMA PutFacts ==
  ASSUME CacheTyped, FitsMemory, KeysOnce,
         NEW k \in CacheKeys, NEW v \in Nat, NEW x \in Nat, NEW t, t = Put(k, v, x)
  PROVE  /\ Tidy(t) /\ HasPut(t, k, [key |-> k, value |-> v, expiry |-> x])
         /\ Evicted(k) \in SUBSET CacheKeys
         /\ backend = "redis" => Evicted(k) = {}
<1> DEFINE e == [key |-> k, value |-> v, expiry |-> x]
<1>1. e \in CacheEntry
  BY DEF CacheEntry
<1>2. cache \in Seq(CacheEntry) /\ Len(cache) \in Nat /\ DOMAIN cache = 1..Len(cache)
  BY DEF CacheTyped
<1>3. \A i \in DOMAIN cache : cache[i] \in CacheEntry /\ cache[i].key \in CacheKeys
  BY EntriesTyped
<1>4. CASE Has(k)
  <2>1. t = [i \in DOMAIN cache |-> IF cache[i].key = k THEN e ELSE cache[i]]
    BY <1>4 DEF Put
  <2>2. DOMAIN t = DOMAIN cache
    BY <2>1
  <2>3. \A i \in DOMAIN cache : t[i] = IF cache[i].key = k THEN e ELSE cache[i]
    BY <2>1
  <2>4. \A i \in DOMAIN cache : t[i] \in CacheEntry /\ t[i].key = cache[i].key
    BY <1>1, <1>3, <2>3
  <2>5. t \in Seq(CacheEntry) /\ Len(t) = Len(cache)
    BY <1>2, <2>1, <2>4
  <2>6. Tidy(t)
    BY <2>2, <2>4, <2>5 DEF Tidy, FitsMemory, KeysOnce
  <2>7. PICK i \in DOMAIN cache : cache[i].key = k
    BY <1>4 DEF Has
  <2>8. t[i] = e
    BY <2>3, <2>7
  <2>9. Evicted(k) = {}
    BY <1>4 DEF Evicted
  <2>10. \A j \in DOMAIN t : t[j] = e \/ (t[j].key # k /\ \E m \in DOMAIN cache : t[j] = cache[m])
    BY <2>2, <2>3
  <2> QED BY <2>2, <2>4, <2>6, <2>8, <2>9, <2>10 DEF HasPut
<1>5. CASE ~ Has(k) /\ backend = "memory" /\ Len(cache) >= MaxEntries
  <2>1. t = Append(Tail(cache), e)
    BY <1>5 DEF Put
  <2>2. Len(cache) > 0 /\ cache # <<>>
    BY <1>2, <1>5, RoomForOne
  <2>3. /\ Tail(cache) \in Seq(CacheEntry) /\ Len(Tail(cache)) = Len(cache) - 1
        /\ \A i \in 1..Len(Tail(cache)) : Tail(cache)[i] = cache[i + 1]
    BY <1>2, <2>2, HeadTailProperties
  <2>4. /\ t \in Seq(CacheEntry) /\ Len(t) = Len(cache) /\ DOMAIN t = DOMAIN cache
        /\ t[Len(cache)] = e
        /\ \A i \in 1..Len(cache) - 1 : t[i] = cache[i + 1]
    <3>1. /\ t \in Seq(CacheEntry) /\ Len(t) = Len(Tail(cache)) + 1
          /\ \A i \in 1..Len(Tail(cache)) : t[i] = Tail(cache)[i]
          /\ t[Len(Tail(cache)) + 1] = e
      BY <1>1, <2>1, <2>3, AppendProperties
    <3>2. Len(t) = Len(cache)
      BY <1>2, <2>3, <3>1
    <3>3. DOMAIN t = 1..Len(t)
      BY <3>1, LenProperties
    <3> QED BY <1>2, <2>3, <3>1, <3>2, <3>3
  <2>5. \A i \in DOMAIN cache : cache[i].key # k
    BY <1>5 DEF Has
  <2>6. \A i \in 1..Len(cache) - 1 : i + 1 \in DOMAIN cache
    BY <1>2
  <2>7. \A i \in DOMAIN t : i = Len(cache) \/ i \in 1..Len(cache) - 1
    BY <1>2, <2>4
  <2>8. \A i \in DOMAIN t : t[i] = e \/ (t[i].key # k /\ \E j \in DOMAIN cache : t[i] = cache[j])
    BY <2>4, <2>5, <2>6, <2>7
  <2>9. ASSUME NEW i \in DOMAIN t, NEW j \in DOMAIN t, t[i].key = t[j].key PROVE i = j
    <3>1. CASE i = Len(cache) /\ j = Len(cache)
      BY <3>1
    <3>2. CASE i = Len(cache) /\ j \in 1..Len(cache) - 1
      <4>1. t[i].key = k /\ t[j].key # k
        <5>1. t[i] = e /\ t[j] = cache[j + 1] /\ j + 1 \in DOMAIN cache
          BY <2>4, <2>6, <3>2
        <5> QED BY <2>5, <5>1
      <4> QED BY <2>9, <4>1
    <3>3. CASE j = Len(cache) /\ i \in 1..Len(cache) - 1
      <4>1. t[j].key = k /\ t[i].key # k
        <5>1. t[j] = e /\ t[i] = cache[i + 1] /\ i + 1 \in DOMAIN cache
          BY <2>4, <2>6, <3>3
        <5> QED BY <2>5, <5>1
      <4> QED BY <2>9, <4>1
    <3>4. CASE i \in 1..Len(cache) - 1 /\ j \in 1..Len(cache) - 1
      <4>1. cache[i + 1].key = cache[j + 1].key
        BY <2>4, <2>9, <3>4
      <4>2. i + 1 = j + 1
        BY <2>6, <3>4, <4>1 DEF KeysOnce
      <4> QED BY <3>4, <4>2
    <3> QED BY <2>7, <3>1, <3>2, <3>3, <3>4
  <2>10. Tidy(t)
    BY <2>4, <2>9 DEF Tidy, FitsMemory
  <2>11. Evicted(k) = {cache[1].key} /\ 1 \in DOMAIN cache
    BY <1>2, <1>5, <2>2 DEF Evicted
  <2>12. ASSUME NEW j \in DOMAIN cache, cache[j].key \notin Evicted(k) \cup {k}
         PROVE  \E i \in DOMAIN t : t[i].key = cache[j].key
    <3>1. j # 1
      BY <2>11, <2>12
    <3>2. j - 1 \in 1..Len(cache) - 1 /\ (j - 1) + 1 = j
      BY <1>2, <3>1
    <3>3. t[j - 1] = cache[j] /\ j - 1 \in DOMAIN t
      BY <1>2, <2>4, <3>2
    <3> QED BY <3>3
  <2>13. Len(cache) \in DOMAIN t
    BY <1>2, <2>2, <2>4
  <2>14. Evicted(k) \in SUBSET CacheKeys /\ backend # "redis"
    BY <1>3, <1>5, <2>11
  <2> QED BY <2>4, <2>8, <2>10, <2>12, <2>13, <2>14 DEF HasPut
<1>6. CASE ~ Has(k) /\ ~ (backend = "memory" /\ Len(cache) >= MaxEntries)
  <2>1. t = Append(cache, e)
    BY <1>6 DEF Put
  <2>2. /\ t \in Seq(CacheEntry) /\ Len(t) = Len(cache) + 1
        /\ \A i \in 1..Len(cache) : t[i] = cache[i]
        /\ t[Len(cache) + 1] = e
    BY <1>1, <1>2, <2>1, AppendProperties
  <2>3. DOMAIN t = 1..Len(cache) + 1
    BY <2>2, LenProperties
  <2>4. \A i \in DOMAIN cache : cache[i].key # k
    BY <1>6 DEF Has
  <2>5. \A i \in DOMAIN t : i = Len(cache) + 1 \/ i \in DOMAIN cache
    BY <1>2, <2>3
  <2>6. \A i \in DOMAIN t : t[i] = e \/ (t[i].key # k /\ \E j \in DOMAIN cache : t[i] = cache[j])
    BY <1>2, <2>2, <2>4, <2>5
  <2>7. ASSUME NEW i \in DOMAIN t, NEW j \in DOMAIN t, t[i].key = t[j].key PROVE i = j
    <3>1. e.key = k
      OBVIOUS
    <3>2. CASE i \in DOMAIN cache /\ j \in DOMAIN cache
      BY <1>2, <2>2, <2>7, <3>2 DEF KeysOnce
    <3>3. CASE i \in DOMAIN cache /\ j = Len(cache) + 1
      BY <1>2, <2>2, <2>4, <2>7, <3>1, <3>3
    <3>4. CASE j \in DOMAIN cache /\ i = Len(cache) + 1
      BY <1>2, <2>2, <2>4, <2>7, <3>1, <3>4
    <3> QED BY <2>5, <3>2, <3>3, <3>4
  <2>8. backend = "memory" => Len(t) <= MaxEntries
    BY <1>2, <1>6, <2>2, RoomForOne
  <2>9. Tidy(t)
    BY <2>2, <2>7, <2>8 DEF Tidy
  <2>10. Evicted(k) = {}
    BY <1>6 DEF Evicted
  <2>11. Len(cache) + 1 \in DOMAIN t /\ DOMAIN cache \subseteq DOMAIN t
    BY <1>2, <2>3
  <2>12. \A j \in DOMAIN cache : t[j] = cache[j] /\ j \in DOMAIN t
    BY <1>2, <2>2, <2>11
  <2> QED BY <2>2, <2>6, <2>9, <2>10, <2>11, <2>12 DEF HasPut
<1> QED BY <1>4, <1>5, <1>6

\* Without keeps the entries of the other keys and adds none.
LEMMA WithoutFacts ==
  ASSUME CacheTyped, FitsMemory, KeysOnce, NEW keys, NEW t, t = Without(keys)
  PROVE  /\ Tidy(t)
         /\ \A i \in DOMAIN t : t[i].key \notin keys /\ \E j \in DOMAIN cache : t[i] = cache[j]
         /\ \A j \in DOMAIN cache : cache[j].key \notin keys =>
              \E i \in DOMAIN t : t[i].key = cache[j].key
<1> DEFINE S == {i \in DOMAIN cache : cache[i].key \notin keys}
<1>1. cache \in Seq(CacheEntry) /\ S \in SUBSET DOMAIN cache /\ Len(cache) \in Nat
  BY DEF CacheTyped
<1>2. t = Filtered(cache, S)
  BY DEF Without
<1> DEFINE N == Cardinality(S)
<1>3. /\ t \in Seq(CacheEntry) /\ Len(t) = N /\ N \in Nat /\ N <= Len(cache)
      /\ \A n \in 1..N : Nth(S, n) \in S /\ t[n] = cache[Nth(S, n)]
      /\ \A m, n \in 1..N : m < n => Nth(S, m) < Nth(S, n)
      /\ \A i \in S : \E n \in 1..N : i = Nth(S, n)
  <2> HIDE DEF S
  <2> QED BY <1>1, <1>2, FilteredFacts
<1>4. DOMAIN t = 1..N
  BY <1>3, LenProperties
<1>5. \A n \in DOMAIN t : t[n].key \notin keys /\ \E j \in DOMAIN cache : t[n] = cache[j]
  BY <1>3, <1>4
<1>6. ASSUME NEW m \in DOMAIN t, NEW n \in DOMAIN t, t[m].key = t[n].key PROVE m = n
  <2>1. Nth(S, m) \in DOMAIN cache /\ Nth(S, n) \in DOMAIN cache
    BY <1>3, <1>4
  <2>2. Nth(S, m) = Nth(S, n)
    BY <1>3, <1>4, <1>6, <2>1 DEF KeysOnce
  <2>3. Nth(S, m) \in Int
    BY <1>1, <2>1
  <2>4. m \in Int /\ n \in Int
    BY <1>3, <1>4
  <2> HIDE DEF S
  <2>5. ~ (m < n) /\ ~ (n < m)
    BY <1>3, <1>4, <2>2, <2>3
  <2> QED BY <2>4, <2>5
<1>7. \A j \in DOMAIN cache :
        cache[j].key \notin keys => \E i \in DOMAIN t : t[i].key = cache[j].key
  BY <1>3, <1>4
<1>8. Tidy(t)
  <2>1. backend = "memory" => Len(t) <= MaxEntries
    BY <1>1, <1>3, RoomForOne DEF FitsMemory
  <2> QED BY <1>3, <1>6, <2>1 DEF Tidy
<1> QED BY <1>5, <1>7, <1>8

\* A step that puts one entry keeps what the entries tell, if the entry put does.
LEMMA EntriesAfterPut ==
  ASSUME CacheInv, NEW k \in CacheKeys, NEW v \in Nat, NEW x \in Nat,
         cache' = Put(k, v, x), backend' = backend, now' = now,
         incr' \in [CacheClients -> Reading \cup {Idle}],
         claimed' \in [CacheKeys -> Nat], incrs' \in [CacheKeys -> Nat],
         excuse' \in SUBSET CacheKeys, excuse \cup Evicted(k) \subseteq excuse',
         k \notin excuse' => x = 0 /\ v = incrs'[k],
         claimed'[k] # 0 => x \in {0, claimed'[k]},
         \A j \in CacheKeys : j # k => claimed'[j] = claimed[j] /\ incrs'[j] = incrs[j]
  PROVE  CacheTyped' /\ FitsMemory' /\ KeysOnce' /\ EntriesTell' /\ AbsentUncounted'
<1> USE DEF CacheInv
<1> DEFINE e == [key |-> k, value |-> v, expiry |-> x]
<1>1. PICK t : t = cache'
  OBVIOUS
<1>2. Tidy(t) /\ HasPut(t, k, e)
  <2>1. t = Put(k, v, x)
    BY <1>1
  <2> QED BY <2>1, PutFacts
<1>3. /\ \A i \in DOMAIN t : t[i] = e \/ (t[i].key # k /\ \E j \in DOMAIN cache : t[i] = cache[j])
      /\ \E i \in DOMAIN t : t[i] = e
      /\ \A j \in DOMAIN cache : cache[j].key \notin Evicted(k) \cup {k} =>
           \E i \in DOMAIN t : t[i].key = cache[j].key
  BY <1>2 DEF HasPut
<1>4. CacheTyped'
  BY <1>1, <1>2 DEF CacheTyped, Tidy
<1>5. FitsMemory' /\ KeysOnce'
  BY <1>1, <1>2 DEF FitsMemory, KeysOnce, Tidy
<1>6. \A j \in DOMAIN cache : cache[j].key \in CacheKeys
  BY EntriesTyped
<1>7. ASSUME NEW i \in DOMAIN cache' PROVE Counts(cache[i])' /\ Lasts(cache[i])'
  <2>1. CASE t[i] = e
    BY <1>1, <2>1 DEF Counts, Lasts
  <2>2. CASE t[i].key # k /\ \E j \in DOMAIN cache : t[i] = cache[j]
    <3>1. PICK j \in DOMAIN cache : t[i] = cache[j]
      BY <2>2
    <3>2. Counts(cache[j]) /\ Lasts(cache[j])
      BY DEF EntriesTell
    <3>3. claimed'[t[i].key] = claimed[t[i].key] /\ incrs'[t[i].key] = incrs[t[i].key]
      BY <1>6, <2>2, <3>1
    <3> QED BY <1>1, <3>1, <3>2, <3>3 DEF Counts, Lasts
  <2> QED BY <1>1, <1>3, <2>1, <2>2
<1>8. EntriesTell'
  BY <1>7 DEF EntriesTell
<1>9. ASSUME NEW j \in CacheKeys, j \notin excuse', ~ Has(j)' PROVE incrs'[j] = 0
  <2>1. j # k
    BY <1>1, <1>3, <1>9 DEF Has
  <2>2. ~ Has(j)
    BY <1>1, <1>3, <1>9, <2>1 DEF Has
  <2>3. incrs[j] = 0
    BY <1>9, <2>2 DEF AbsentUncounted
  <2> QED BY <2>1, <2>3
<1>10. AbsentUncounted'
  BY <1>9 DEF AbsentUncounted
<1> QED BY <1>4, <1>5, <1>8, <1>10

\* So does a step that removes keys and excuses them.
LEMMA EntriesAfterWithout ==
  ASSUME CacheInv, NEW keys, cache' = Without(keys), backend' = backend, now' = now,
         incr' \in [CacheClients -> Reading \cup {Idle}],
         claimed' \in [CacheKeys -> Nat], incrs' = incrs,
         excuse' \in SUBSET CacheKeys, excuse \cup keys \subseteq excuse',
         \A j \in CacheKeys : claimed'[j] \in {0, claimed[j]}
  PROVE  CacheTyped' /\ FitsMemory' /\ KeysOnce' /\ EntriesTell' /\ AbsentUncounted'
<1> USE DEF CacheInv
<1>1. PICK t : t = cache'
  OBVIOUS
<1>2. /\ Tidy(t)
      /\ \A i \in DOMAIN t : t[i].key \notin keys /\ \E j \in DOMAIN cache : t[i] = cache[j]
      /\ \A j \in DOMAIN cache : cache[j].key \notin keys =>
           \E i \in DOMAIN t : t[i].key = cache[j].key
  BY <1>1, WithoutFacts
<1>3. CacheTyped'
  BY <1>1, <1>2 DEF CacheTyped, Tidy
<1>4. FitsMemory' /\ KeysOnce'
  BY <1>1, <1>2 DEF FitsMemory, KeysOnce, Tidy
<1>5. \A j \in DOMAIN cache : cache[j].key \in CacheKeys
  BY EntriesTyped
<1>6. ASSUME NEW i \in DOMAIN cache' PROVE Counts(cache[i])' /\ Lasts(cache[i])'
  <2>1. PICK j \in DOMAIN cache : t[i] = cache[j]
    BY <1>1, <1>2
  <2>2. Counts(cache[j]) /\ Lasts(cache[j])
    BY DEF EntriesTell
  <2>3. claimed'[t[i].key] \in {0, claimed[t[i].key]}
    BY <1>5, <2>1
  <2> QED BY <1>1, <2>1, <2>2, <2>3 DEF Counts, Lasts
<1>7. EntriesTell'
  BY <1>6 DEF EntriesTell
<1>8. ASSUME NEW j \in CacheKeys, j \notin excuse', ~ Has(j)' PROVE incrs'[j] = 0
  <2>1. ~ Has(j)
    BY <1>1, <1>2, <1>8 DEF Has
  <2> QED BY <1>8, <2>1 DEF AbsentUncounted
<1>9. AbsentUncounted'
  BY <1>8 DEF AbsentUncounted
<1> QED BY <1>3, <1>4, <1>7, <1>9

\* The value of a key is a number; that of a key without an excuse is its count.
LEMMA ValueFacts ==
  ASSUME CacheInv, NEW k \in CacheKeys
  PROVE  /\ Value(k) \in Nat
         /\ Has(k) => Entry(k).expiry \in Nat /\ Entry(k).key = k /\ Lasts(Entry(k))
         /\ k \notin excuse =>
              /\ Value(k) = incrs[k]
              /\ Has(k) => ~ Expired(Entry(k)) /\ Entry(k).expiry = 0
<1> USE DEF CacheInv
<1>1. CASE ~ Has(k)
  BY <1>1 DEF Value, AbsentUncounted
<1>2. CASE Has(k)
  <2>1. PICK i \in DOMAIN cache : cache[i].key = k /\ Entry(k) = cache[i]
    BY <1>2, EntryFound
  <2>2. cache[i] \in CacheEntry
    BY ElementOfSeq, LenProperties DEF CacheTyped
  <2>3. Counts(Entry(k)) /\ Lasts(Entry(k))
    BY <2>1 DEF EntriesTell
  <2>4. Entry(k).value \in Nat /\ Entry(k).expiry \in Nat /\ Entry(k).key = k
    BY <2>1, <2>2 DEF CacheEntry
  <2>5. Value(k) \in Nat
    BY <2>4 DEF Value
  <2>6. k \notin excuse => Entry(k).expiry = 0 /\ Entry(k).value = incrs[k]
    BY <2>3, <2>4 DEF Counts
  <2>7. k \notin excuse => ~ Expired(Entry(k))
    BY <2>6 DEF Expired
  <2>8. k \notin excuse => Value(k) = incrs[k]
    BY <1>2, <2>6, <2>7 DEF Value
  <2> QED BY <2>3, <2>4, <2>5, <2>6, <2>7, <2>8
<1> QED BY <1>1, <1>2

\* Reads under way stay what they are when their keys are untouched or excused.
LEMMA ReadsStay ==
  ASSUME CacheInv, backend' = backend, incr' = incr, incrs' = incrs, excuse \subseteq excuse'
  PROVE  ReadsTell'
BY DEF CacheInv, ReadsTell

LEMMA CacheInit_Inv == CacheInit => CacheInv
<1> SUFFICES ASSUME CacheInit PROVE CacheInv
  OBVIOUS
<1> USE DEF CacheInit
<1>1. Idle \in Reading \cup {Idle}
  OBVIOUS
<1>2. cache = <<>> /\ DOMAIN cache = {}
  OBVIOUS
<1>3. CacheTyped
  BY <1>1 DEF CacheTyped
<1>4. FitsMemory
  BY <1>2, RoomForOne DEF FitsMemory
<1>5. KeysOnce /\ EntriesTell
  BY <1>2 DEF KeysOnce, EntriesTell
<1>6. AbsentUncounted /\ ReadsTell
  BY DEF AbsentUncounted, ReadsTell
<1> QED BY <1>3, <1>4, <1>5, <1>6 DEF CacheInv

LEMMA CacheStep == CacheInv /\ [CacheNext]_cacheVars => CacheInv'
<1> SUFFICES ASSUME CacheInv, [CacheNext]_cacheVars PROVE CacheInv'
  OBVIOUS
<1>0. /\ CacheTyped /\ excuse \in SUBSET CacheKeys
      /\ claimed \in [CacheKeys -> Nat] /\ incrs \in [CacheKeys -> Nat]
      /\ incr \in [CacheClients -> Reading \cup {Idle}] /\ now \in Nat
  BY DEF CacheInv, CacheTyped
<1>a. ClaimTtl \in Nat
  BY CacheAssumption, Zenon DEF CacheAssumption
<1>b. ASSUME NEW k \in CacheKeys PROVE Evicted(k) \in SUBSET CacheKeys
  <2>1. PICK t : t = Put(k, 1, 0)
    OBVIOUS
  <2> QED BY <2>1, PutFacts DEF CacheInv
<1>1. ASSUME NEW k \in CacheKeys, Get(k) PROVE CacheInv'
  <2>1. /\ cache' = Without({k}) /\ excuse' = excuse \cup {k}
        /\ backend' = backend /\ now' = now /\ incr' = incr /\ claimed' = claimed /\ incrs' = incrs
    BY <1>1 DEF Get
  <2>2. CacheTyped' /\ FitsMemory' /\ KeysOnce' /\ EntriesTell' /\ AbsentUncounted'
    BY <1>0, <2>1, EntriesAfterWithout
  <2>3. ReadsTell'
    BY <2>1, ReadsStay
  <2> QED BY <2>2, <2>3 DEF CacheInv
<1>2. ASSUME NEW k \in CacheKeys, SetIfNotExist(k) PROVE CacheInv'
  <2> DEFINE x == now + ClaimTtl
  <2>1. /\ cache' = Put(k, 1, x) /\ claimed' = [claimed EXCEPT ![k] = x]
        /\ excuse' = excuse \cup Evicted(k) \cup {k}
        /\ backend' = backend /\ now' = now /\ incr' = incr /\ incrs' = incrs
    BY <1>2 DEF SetIfNotExist
  <2>2. x \in Nat
    BY <1>0, <1>a
  <2> HIDE DEF x
  <2>3. /\ claimed' \in [CacheKeys -> Nat] /\ claimed'[k] = x
        /\ \A j \in CacheKeys : j # k => claimed'[j] = claimed[j]
    BY <1>0, <2>1, <2>2
  <2>4. excuse' \in SUBSET CacheKeys /\ excuse \cup Evicted(k) \subseteq excuse' /\ k \in excuse'
    BY <1>0, <1>b, <2>1
  <2>5. CacheTyped' /\ FitsMemory' /\ KeysOnce' /\ EntriesTell' /\ AbsentUncounted'
    BY <1>0, <2>1, <2>2, <2>3, <2>4, EntriesAfterPut
  <2>6. ReadsTell'
    BY <2>1, <2>4, ReadsStay
  <2> QED BY <2>5, <2>6 DEF CacheInv
<1>3. ASSUME NEW k \in CacheKeys, NEW ttl \in {0, ClaimTtl}, Set(k, ttl) PROVE CacheInv'
  <2> DEFINE x == IF ttl = 0 THEN 0 ELSE now + ttl
  <2>1. /\ cache' = Put(k, 1, x) /\ claimed' = [claimed EXCEPT ![k] = 0]
        /\ excuse' = excuse \cup Evicted(k) \cup {k}
        /\ backend' = backend /\ now' = now /\ incr' = incr /\ incrs' = incrs
    BY <1>3 DEF Set
  <2>2. x \in Nat
    BY <1>0, <1>a
  <2> HIDE DEF x
  <2>3. /\ claimed' \in [CacheKeys -> Nat] /\ claimed'[k] = 0
        /\ \A j \in CacheKeys : j # k => claimed'[j] = claimed[j]
    BY <1>0, <2>1, <2>2
  <2>4. excuse' \in SUBSET CacheKeys /\ excuse \cup Evicted(k) \subseteq excuse' /\ k \in excuse'
    BY <1>0, <1>b, <2>1
  <2>5. CacheTyped' /\ FitsMemory' /\ KeysOnce' /\ EntriesTell' /\ AbsentUncounted'
    BY <1>0, <2>1, <2>2, <2>3, <2>4, EntriesAfterPut
  <2>6. ReadsTell'
    BY <2>1, <2>4, ReadsStay
  <2> QED BY <2>5, <2>6 DEF CacheInv
<1>4. ASSUME NEW keys \in SUBSET CacheKeys, Delete(keys) PROVE CacheInv'
  <2>1. /\ cache' = Without(keys) /\ excuse' = excuse \cup keys
        /\ claimed' = [k \in CacheKeys |-> IF k \in keys THEN 0 ELSE claimed[k]]
        /\ backend' = backend /\ now' = now /\ incr' = incr /\ incrs' = incrs
    BY <1>4 DEF Delete
  <2>2. claimed' \in [CacheKeys -> Nat] /\ \A j \in CacheKeys : claimed'[j] \in {0, claimed[j]}
    BY <1>0, <2>1
  <2>3. CacheTyped' /\ FitsMemory' /\ KeysOnce' /\ EntriesTell' /\ AbsentUncounted'
    BY <1>0, <2>1, <2>2, EntriesAfterWithout
  <2>4. ReadsTell'
    BY <2>1, ReadsStay
  <2> QED BY <2>3, <2>4 DEF CacheInv
<1>5. ASSUME NEW c \in CacheClients, NEW k \in CacheKeys, IncrRead(c, k) PROVE CacheInv'
  <2> DEFINE gone == {k} \cap ExpiredKeys
             others == IF \E d \in CacheClients : incr[d].key = k THEN {k} ELSE {}
  <2>1. /\ backend = "memory" /\ incr[c] = Idle
        /\ incr' = [incr EXCEPT ![c] = [key |-> k, read |-> Value(k)]]
        /\ cache' = Without(gone) /\ excuse' = excuse \cup gone \cup others
        /\ backend' = backend /\ now' = now /\ claimed' = claimed /\ incrs' = incrs
    BY <1>5 DEF IncrRead
  <2>2. Value(k) \in Nat /\ (k \notin excuse => Value(k) = incrs[k])
    BY ValueFacts
  <2>3. [key |-> k, read |-> Value(k)] \in Reading
    BY <2>2 DEF Reading
  <2>4. /\ incr' \in [CacheClients -> Reading \cup {Idle}]
        /\ incr'[c] = [key |-> k, read |-> Value(k)]
        /\ \A d \in CacheClients : d # c => incr'[d] = incr[d]
    BY <1>0, <2>1, <2>3
  <2>5. excuse' \in SUBSET CacheKeys /\ excuse \cup gone \subseteq excuse'
    BY <1>0, <2>1
  <2>6. k \notin excuse' => \A d \in CacheClients : incr[d].key # k
    BY <2>1
  <2> HIDE DEF gone, others
  <2>7. CacheTyped' /\ FitsMemory' /\ KeysOnce' /\ EntriesTell' /\ AbsentUncounted'
    BY <1>0, <2>1, <2>4, <2>5, EntriesAfterWithout
  <2>8. ASSUME NEW b \in CacheClients, incr'[b] # Idle, incr'[b].key \notin excuse'
        PROVE  /\ incr'[b].read = incrs'[incr'[b].key]
               /\ \A d \in CacheClients : incr'[d].key = incr'[b].key => d = b
    <3>1. CASE b = c
      <4>1. incr'[b].key = k /\ incr'[b].read = Value(k)
        BY <2>4, <3>1
      <4>2. k \notin excuse
        BY <2>5, <2>8, <4>1
      <4> QED BY <2>1, <2>2, <2>4, <2>6, <2>8, <3>1, <4>1, <4>2
    <3>2. CASE b # c
      <4>1. incr'[b] = incr[b] /\ incr[b].key \notin excuse
        BY <2>4, <2>5, <2>8, <3>2
      <4>2. /\ incr[b].read = incrs[incr[b].key]
            /\ \A d \in CacheClients : incr[d].key = incr[b].key => d = b
        BY <2>8, <4>1 DEF CacheInv, ReadsTell
      <4>3. incr[b].key # k
        BY <2>6, <2>8, <4>1
      <4> QED BY <2>1, <2>4, <4>1, <4>2, <4>3
    <3> QED BY <3>1, <3>2
  <2>9. ReadsTell'
    <3>1. backend' # "redis"
      BY <2>1
    <3> QED BY <2>8, <3>1 DEF ReadsTell
  <2> QED BY <2>7, <2>9 DEF CacheInv
<1>6. ASSUME NEW c \in CacheClients, IncrWrite(c) PROVE CacheInv'
  <2> DEFINE k == incr[c].key
  <2>1. /\ incr[c] # Idle
        /\ cache' = Put(k, NextCount(incr[c].read), 0)
        /\ incr' = [incr EXCEPT ![c] = Idle]
        /\ incrs' = [incrs EXCEPT ![k] = @ + 1]
        /\ excuse' = excuse \cup Evicted(k)
        /\ backend' = backend /\ now' = now /\ claimed' = claimed
    BY <1>6 DEF IncrWrite
  <2>2. incr[c] \in Reading
    BY <1>0, <2>1
  <2>3. k \in CacheKeys /\ incr[c].read \in Nat
    BY <2>2 DEF Reading
  <2>4. NextCount(incr[c].read) = incr[c].read + 1 /\ NextCount(incr[c].read) \in Nat
    BY <2>3 DEF NextCount
  <2>5. /\ incr' \in [CacheClients -> Reading \cup {Idle}]
        /\ incr'[c] = Idle /\ \A d \in CacheClients : d # c => incr'[d] = incr[d]
    BY <1>0, <2>1
  <2>6. /\ incrs' \in [CacheKeys -> Nat] /\ incrs'[k] = incrs[k] + 1
        /\ \A j \in CacheKeys : j # k => incrs'[j] = incrs[j]
    BY <1>0, <2>1, <2>3
  <2>7. excuse' \in SUBSET CacheKeys /\ excuse \cup Evicted(k) \subseteq excuse'
    BY <1>0, <1>b, <2>1, <2>3
  <2>8. k \notin excuse => /\ incr[c].read = incrs[k]
                           /\ \A d \in CacheClients : incr[d].key = k => d = c
    BY <2>1 DEF CacheInv, ReadsTell
  <2>9. claimed' \in [CacheKeys -> Nat]
    BY <1>0, <2>1
  <2> HIDE DEF k
  <2>10. k \notin excuse' => NextCount(incr[c].read) = incrs'[k]
    BY <2>4, <2>6, <2>7, <2>8
  <2>11. CacheTyped' /\ FitsMemory' /\ KeysOnce' /\ EntriesTell' /\ AbsentUncounted'
    BY <2>1, <2>3, <2>4, <2>5, <2>6, <2>7, <2>9, <2>10, EntriesAfterPut
  <2>12. ASSUME NEW b \in CacheClients, incr'[b] # Idle, incr'[b].key \notin excuse'
         PROVE  /\ incr'[b].read = incrs'[incr'[b].key]
                /\ \A d \in CacheClients : incr'[d].key = incr'[b].key => d = b
    <3>1. b # c /\ incr'[b] = incr[b] /\ incr[b].key \notin excuse
      BY <2>5, <2>7, <2>12
    <3>2. /\ incr[b].read = incrs[incr[b].key]
          /\ \A d \in CacheClients : incr[d].key = incr[b].key => d = b
      BY <2>12, <3>1 DEF CacheInv, ReadsTell
    <3>3. incr[b] \in Reading
      BY <1>0, <2>12, <3>1
    <3>4. incr[b].key \in CacheKeys /\ incr[b].key # ""
      <4>1. incr[b].key \in CacheKeys
        BY <3>3 DEF Reading
      <4> QED BY <4>1, CacheAssumption, Zenon DEF CacheAssumption
    <3>5. incr[b].key # k
      BY <3>1, <3>2 DEF k
    <3>6. \A d \in CacheClients : incr'[d].key = incr[b].key => d = b
      <4>1. Idle.key = ""
        BY DEF Idle
      <4> QED BY <2>5, <3>2, <3>4, <4>1
    <3> QED BY <2>6, <3>1, <3>2, <3>4, <3>5, <3>6
  <2>13. ReadsTell'
    <3>1. backend' # "redis"
      BY <2>1 DEF CacheInv, ReadsTell
    <3> QED BY <2>12, <3>1 DEF ReadsTell
  <2> QED BY <2>11, <2>13 DEF CacheInv
<1>7. ASSUME NEW k \in CacheKeys, IncrOnServer(k) PROVE CacheInv'
  <2> DEFINE gone == {k} \cap ExpiredKeys
             x == IF Has(k) /\ ~ Expired(Entry(k)) THEN Entry(k).expiry ELSE 0
  <2>1. /\ backend = "redis"
        /\ cache' = Put(k, NextCount(Value(k)), x)
        /\ incrs' = [incrs EXCEPT ![k] = @ + 1]
        /\ excuse' = excuse \cup gone
        /\ backend' = backend /\ now' = now /\ incr' = incr /\ claimed' = claimed
    BY <1>7 DEF IncrOnServer
  <2>2. /\ Value(k) \in Nat
        /\ Has(k) => Entry(k).expiry \in Nat /\ Entry(k).key = k /\ Lasts(Entry(k))
        /\ k \notin excuse =>
             Value(k) = incrs[k] /\ (Has(k) => ~ Expired(Entry(k)) /\ Entry(k).expiry = 0)
    BY ValueFacts
  <2>3. x \in Nat /\ (k \notin excuse => x = 0) /\ (claimed[k] # 0 => x \in {0, claimed[k]})
    BY <2>2 DEF Lasts
  <2>4. NextCount(Value(k)) = Value(k) + 1 /\ NextCount(Value(k)) \in Nat
    BY <2>2 DEF NextCount
  <2>5. /\ incrs' \in [CacheKeys -> Nat] /\ incrs'[k] = incrs[k] + 1
        /\ \A j \in CacheKeys : j # k => incrs'[j] = incrs[j]
    BY <1>0, <2>1
  <2>6. Evicted(k) = {}
    BY <2>1 DEF Evicted
  <2>7. excuse' \in SUBSET CacheKeys /\ excuse \cup Evicted(k) \subseteq excuse'
    BY <1>0, <2>1, <2>6
  <2> HIDE DEF gone, x
  <2>8. k \notin excuse' => x = 0 /\ NextCount(Value(k)) = incrs'[k]
    BY <2>2, <2>3, <2>4, <2>5, <2>7
  <2>9. claimed' \in [CacheKeys -> Nat] /\ (claimed'[k] # 0 => x \in {0, claimed'[k]})
    BY <1>0, <2>1, <2>3
  <2>10. CacheTyped' /\ FitsMemory' /\ KeysOnce' /\ EntriesTell' /\ AbsentUncounted'
    BY <1>0, <2>1, <2>3, <2>4, <2>5, <2>7, <2>8, <2>9, EntriesAfterPut
  <2>11. ReadsTell'
    BY <2>1 DEF CacheInv, ReadsTell
  <2> QED BY <2>10, <2>11 DEF CacheInv
<1>8. CASE Cleanup
  <2>1. /\ cache' = Without(ExpiredKeys) /\ excuse' = excuse \cup ExpiredKeys
        /\ backend' = backend /\ now' = now /\ incr' = incr /\ claimed' = claimed /\ incrs' = incrs
    BY <1>8 DEF Cleanup
  <2>2. ExpiredKeys \subseteq CacheKeys
    BY DEF ExpiredKeys
  <2>3. CacheTyped' /\ FitsMemory' /\ KeysOnce' /\ EntriesTell' /\ AbsentUncounted'
    <3>1. excuse' \in SUBSET CacheKeys /\ excuse \cup ExpiredKeys \subseteq excuse'
      BY <1>0, <2>1, <2>2
    <3>2. \A j \in CacheKeys : claimed'[j] \in {0, claimed[j]}
      BY <2>1
    <3> QED BY <1>0, <2>1, <3>1, <3>2, EntriesAfterWithout
  <2>4. ReadsTell'
    BY <2>1, ReadsStay
  <2> QED BY <2>3, <2>4 DEF CacheInv
<1>9. CASE CacheTick \/ UNCHANGED cacheVars
  <2>1. /\ now' \in Nat /\ backend' = backend /\ cache' = cache /\ incr' = incr
        /\ claimed' = claimed /\ incrs' = incrs /\ excuse' = excuse
    BY <1>0, <1>9 DEF CacheTick, cacheVars
  <2>2. CacheTyped'
    BY <1>0, <2>1 DEF CacheTyped
  <2>3. FitsMemory' /\ KeysOnce'
    BY <2>1 DEF CacheInv, FitsMemory, KeysOnce
  <2>4. EntriesTell'
    BY <2>1 DEF CacheInv, EntriesTell, Counts, Lasts
  <2>5. AbsentUncounted'
    BY <2>1 DEF CacheInv, AbsentUncounted, Has
  <2>6. ReadsTell'
    BY <2>1, ReadsStay
  <2> QED BY <2>2, <2>3, <2>4, <2>5, <2>6 DEF CacheInv
<1> QED BY <1>1, <1>2, <1>3, <1>4, <1>5, <1>6, <1>7, <1>8, <1>9 DEF CacheNext

\* A step that takes a claim away from its holder finds the key absent.
LEMMA ClaimStep == CacheInv /\ [CacheNext]_cacheVars => ClaimHolds
<1> SUFFICES ASSUME CacheInv, [CacheNext]_cacheVars, NEW k \in CacheKeys,
                    claimed'[k] # claimed[k], claimed'[k] # 0, now < claimed[k]
             PROVE  ~ Has(k)
  BY DEF ClaimHolds
<1>0. claimed \in [CacheKeys -> Nat] /\ now \in Nat
  BY DEF CacheInv, CacheTyped
<1>1. SetIfNotExist(k)
  <2>1. \A j \in CacheKeys : SetIfNotExist(j) => j = k
    BY <1>0 DEF SetIfNotExist
  <2>2. \A j \in CacheKeys, ttl \in {0, ClaimTtl} : ~ Set(j, ttl)
    BY <1>0 DEF Set
  <2>3. \A keys \in SUBSET CacheKeys : ~ Delete(keys)
    BY <1>0 DEF Delete
  <2> QED BY <2>1, <2>2, <2>3
          DEF CacheNext, Get, IncrRead, IncrWrite, IncrOnServer, Cleanup, CacheTick, cacheVars
<1>2. SUFFICES ASSUME Has(k) PROVE FALSE
  OBVIOUS
<1>3. Entry(k).expiry \in Nat /\ Entry(k).key = k /\ Lasts(Entry(k))
  BY <1>2, ValueFacts
<1>4. Entry(k).expiry # 0 /\ Entry(k).expiry <= now
  BY <1>1, <1>2 DEF SetIfNotExist, FreeForClaim
<1>5. Entry(k).expiry = claimed[k]
  BY <1>0, <1>3, <1>4 DEF Lasts
<1> QED BY <1>0, <1>4, <1>5

\* Under concurrent clients, with any number of keys, entries and increments, every
\* step of either backend leaves the cache with its bound, its counts and the claims
\* made on it (MemoryCacheService, RedisCacheService).
THEOREM CacheIsKept == CacheSpec => CacheKeepsWord
<1>1. CacheInv => CacheBounded /\ CounterExact
  <2>1. CacheInv => CacheBounded
    BY DEF CacheInv, FitsMemory, KeysOnce, CacheBounded
  <2>2. CacheInv => CounterExact
    BY ValueFacts DEF CounterExact
  <2> QED BY <2>1, <2>2
<1> QED BY <1>1, CacheInit_Inv, CacheStep, ClaimStep, PTL DEF CacheSpec, CacheKeepsWord

-----------------------------------------------------------------------------
(* The records behind the owner-scoped ports (OwnedData) *)

Methods ==
  {"get-list", "get-by-id", "get-meter-by-customer", "get-meter-history", "get-contracts",
   "get-contract-detail", "get-contract", "sign-contract", "create-report", "get-my-reports",
   "get-report-detail", "get-profile", "update-profile", "none"}

\* A call of a service: of a list, it asks for a page from 1 on.
PortCall == [method : Methods, customer : Customers, id : Nat, page : Nat, limit : Nat]
Paged(call) == call.method = "get-list" => call.page >= 1

\* Data that belongs to customer k.
BelongsTo(d, k) == \A i \in DOMAIN d.records : d.records[i].owner = k

CallerState ==
  [pc : {"idle", "get", "call", "store", "done"}, call : PortCall, refetch : BOOLEAN,
   data : [call : PortCall, records : Seq(Row)], kind : {"none", "data", "degraded", "refused"}]

OwnedTyped ==
  /\ askedPort \in Ports
  /\ records \in Seq(Row) /\ records # << >>
  /\ caller \in [Callers -> CallerState]

\* Every entry of the shared cache belongs to the customer in its key.
EntriesOwned ==
  portCache \subseteq [key : PortCall, data : [call : PortCall, records : Seq(Row)]]
  /\ \A e \in portCache : BelongsTo(e.data, e.key.customer)

\* What a caller has in hand, or was answered, belongs to the customer it asks for; an
\* answer is in hand at the end only.
CallerOwned(d) ==
  /\ Paged(d.call)
  /\ d.pc = "store" => BelongsTo(d.data, d.call.customer)
  /\ d.kind = "data" => d.pc = "done" /\ BelongsTo(d.data, d.call.customer)

CallersOwned == \A c \in Callers : CallerOwned(caller[c])

LastTyped == lastData \in [call : PortCall, records : Seq(Row)]

OwnedInv == OwnedTyped /\ EntriesOwned /\ CallersOwned /\ LastTyped

LEMMA AnyoneIsCustomer == Anyone \in Customers
<1>1. \E k \in Customers : TRUE
  BY OwnedAssumption, Zenon DEF OwnedAssumption
<1> QED BY <1>1, Zenon DEF Anyone

\* The records of a customer are records of his, in order.
LEMMA OwnedByFacts ==
  ASSUME records \in Seq(Row), NEW k, NEW list, list = OwnedBy(k)
  PROVE  list \in Seq(Row) /\ \A i \in DOMAIN list : list[i].owner = k
<1> DEFINE S == {i \in DOMAIN records : records[i].owner = k}
<1>1. S \in SUBSET DOMAIN records /\ list = Filtered(records, S)
  BY DEF OwnedBy
<1>2. /\ list \in Seq(Row) /\ Len(list) = Cardinality(S)
      /\ \A n \in 1..Cardinality(S) : Nth(S, n) \in S /\ list[n] = records[Nth(S, n)]
  <2> HIDE DEF S
  <2> QED BY <1>1, FilteredFacts
<1>3. DOMAIN list = 1..Cardinality(S)
  BY <1>2, LenProperties
<1> QED BY <1>2, <1>3

LEMMA OwnedFacts ==
  ASSUME records \in Seq(Row), NEW k, NEW id, NEW list, list = Owned(k, id)
  PROVE  list \in Seq(Row) /\ \A i \in DOMAIN list : list[i].owner = k
<1>1. PICK own : own = OwnedBy(k)
  OBVIOUS
<1>2. own \in Seq(Row) /\ \A i \in DOMAIN own : own[i].owner = k
  BY <1>1, OwnedByFacts
<1> DEFINE S == {i \in DOMAIN own : own[i].id = id}
<1>3. S \in SUBSET DOMAIN own /\ list = Filtered(own, S)
  BY <1>1 DEF Owned
<1>4. /\ list \in Seq(Row) /\ Len(list) = Cardinality(S)
      /\ \A n \in 1..Cardinality(S) : Nth(S, n) \in S /\ list[n] = own[Nth(S, n)]
  <2> HIDE DEF S
  <2> QED BY <1>2, <1>3, FilteredFacts
<1>5. DOMAIN list = 1..Cardinality(S)
  BY <1>4, LenProperties
<1> QED BY <1>2, <1>4, <1>5

\* s repeats list from place d + 1 on.
PieceOf(s, list, d) == \A i \in DOMAIN s : i + d \in DOMAIN list /\ s[i] = list[i + d]

\* A page from 1 on is a piece of the list.
LEMMA SliceFacts ==
  ASSUME NEW X, NEW list \in Seq(X), NEW page \in Nat, NEW limit \in Nat,
         page >= 1, NEW s, s = Slice(list, page, limit)
  PROVE  /\ s \in Seq(X)
         /\ PieceOf(s, list, (page - 1) * limit)
         /\ Len(s) = IF (page - 1) * limit + 1 <= AtMost(page * limit, Len(list))
                     THEN AtMost(page * limit, Len(list)) - (page - 1) * limit ELSE 0
<1> DEFINE m == (page - 1) * limit + 1
           n == AtMost(page * limit, Len(list))
<1>1. Len(list) \in Nat /\ DOMAIN list = 1..Len(list)
  BY LenProperties
<1>2. page - 1 \in Nat
  OBVIOUS
<1>3. (page - 1) * limit \in Nat /\ page * limit \in Nat
  BY <1>2
<1>4. m \in Int /\ m >= 1 /\ n \in Int /\ n <= Len(list) /\ m - 1 = (page - 1) * limit
  BY <1>1, <1>3 DEF AtMost
<1>5. \A i \in m .. n : i \in 1..Len(list)
  BY <1>1, <1>4
<1>6. \A i \in m .. n : list[i] \in X
  BY <1>5, ElementOfSeq
<1>7. s = SubSeq(list, m, n)
  BY DEF Slice
<1> HIDE DEF m, n
<1>8. /\ s \in Seq(X) /\ Len(s) = IF m <= n THEN n - m + 1 ELSE 0
      /\ \A i \in 1..n - m + 1 : s[i] = list[m + i - 1]
  BY <1>4, <1>6, <1>7, SubSeqProperties
<1>9. DOMAIN s = 1..Len(s)
  BY <1>8, LenProperties
<1>10. ASSUME NEW i \in DOMAIN s
       PROVE  i + (page - 1) * limit \in DOMAIN list /\ s[i] = list[i + (page - 1) * limit]
  <2>1. i \in 1..n - m + 1 /\ m <= n
    BY <1>4, <1>8, <1>9
  <2>2. m + i - 1 = i + (page - 1) * limit
    BY <1>3, <1>4, <2>1
  <2>3. m + i - 1 \in m .. n
    BY <1>4, <2>1
  <2> QED BY <1>1, <1>5, <1>8, <2>1, <2>2, <2>3
<1>11. Len(s) = IF m <= n THEN n - (page - 1) * limit ELSE 0
  BY <1>3, <1>4, <1>8
<1>12. PieceOf(s, list, (page - 1) * limit)
  BY <1>10 DEF PieceOf
<1> QED BY <1>8, <1>11, <1>12 DEF m, n

LEMMA SliceWithin ==
  ASSUME NEW X, NEW list \in Seq(X), NEW page \in Nat, NEW limit \in Nat, page >= 1,
         NEW s, s = Slice(list, page, limit)
  PROVE  s \in Seq(X) /\ \A i \in DOMAIN s : \E j \in DOMAIN list : s[i] = list[j]
<1>1. s \in Seq(X) /\ PieceOf(s, list, (page - 1) * limit)
  BY SliceFacts, Zenon
<1> QED BY <1>1, Zenon DEF PieceOf

\* An adapter answers a call with records of the customer it names.
LEMMA AdapterFacts ==
  ASSUME OwnedTyped, NEW call \in PortCall, Paged(call), NEW found, found = Adapter(call)
  PROVE  found \in Seq(Row) /\ \A i \in DOMAIN found : found[i].owner = call.customer
<1> DEFINE Right(list) == list \in Seq(Row) /\ \A i \in DOMAIN list : list[i].owner = call.customer
<1>1. records \in Seq(Row) /\ askedPort \in Ports /\ records # << >>
  BY DEF OwnedTyped
<1>2. call.customer \in Customers /\ call.page \in Nat /\ call.limit \in Nat
  BY DEF PortCall
<1>3. PICK own : own = OwnedBy(call.customer)
  OBVIOUS
<1>4. Right(own)
  BY <1>1, <1>3, OwnedByFacts
<1>5. PICK one : one = Owned(call.customer, call.id)
  OBVIOUS
<1>6. Right(one)
  BY <1>1, <1>5, OwnedFacts
<1>7. ASSUME NEW page \in Nat, NEW limit \in Nat, page >= 1
      PROVE  Right(Slice(own, page, limit))
  <2>1. own \in Seq(Row)
    BY <1>4
  <2> HIDE DEF Right
  <2>2. PICK s : s = Slice(own, page, limit)
    OBVIOUS
  <2>3. s \in Seq(Row) /\ \A i \in DOMAIN s : \E j \in DOMAIN own : s[i] = own[j]
    BY <1>7, <2>1, <2>2, SliceWithin
  <2>4. Right(s)
    BY <1>4, <2>3 DEF Right
  <2> QED BY <2>2, <2>4
<1>8. CASE askedPort = "invoice"
  <2>1. found = IF call.method = "get-list" THEN Slice(own, call.page, call.limit) ELSE one
    BY <1>3, <1>5, <1>8 DEF Adapter, InvoiceAdapter
  <2>2. CASE call.method = "get-list"
    <3>1. found = Slice(own, call.page, call.limit) /\ call.page >= 1
      BY <2>1, <2>2 DEF Paged
    <3> HIDE DEF Right
    <3>2. Right(found)
      BY <1>2, <1>7, <3>1
    <3> QED BY <3>2 DEF Right
  <2>3. CASE call.method # "get-list"
    BY <1>6, <2>1, <2>3
  <2> QED BY <2>2, <2>3
<1>9. CASE askedPort = "meter"
  <2>1. found \in {own, one}
    BY <1>3, <1>5, <1>9 DEF Adapter, MeterAdapter
  <2> QED BY <1>4, <1>6, <2>1
<1>10. CASE askedPort = "contract"
  <2>1. found \in {own, one}
    BY <1>3, <1>5, <1>10 DEF Adapter, ContractAdapter
  <2> QED BY <1>4, <1>6, <2>1
<1>11. CASE askedPort = "econtract"
  <2>1. found = IF records[1].id = call.id /\ records[1].owner = call.customer
                THEN <<records[1]>> ELSE << >>
    BY <1>11 DEF Adapter, EcontractAdapter
  <2>2. records[1] \in Row
    BY <1>1, ElementOfSeq, EmptySeq, LenProperties
  <2>3. CASE found = << >>
    BY <2>3
  <2>4. CASE found = <<records[1]>> /\ records[1].owner = call.customer
    BY <2>2, <2>4
  <2> QED BY <2>1, <2>3, <2>4
<1>12. CASE askedPort = "incident"
  <2>1. found \in {own, one} \/ found = <<NewReport(call.customer)>>
    BY <1>3, <1>5, <1>12 DEF Adapter, IncidentAdapter
  <2>2. NewReport(call.customer) \in Row /\ NewReport(call.customer).owner = call.customer
    BY <1>1, <1>2, LenProperties DEF NewReport, Row
  <2>3. CASE found \in {own, one}
    BY <1>4, <1>6, <2>3
  <2>4. CASE found = <<NewReport(call.customer)>>
    BY <2>2, <2>4
  <2> QED BY <2>1, <2>3, <2>4
<1>13. CASE askedPort = "customer-profile"
  <2>1. found = Slice(own, 1, 1)
    BY <1>3, <1>13 DEF Adapter, ProfileAdapter
  <2> HIDE DEF Right
  <2>2. Right(found)
    BY <1>7, <2>1
  <2> QED BY <2>2 DEF Right
<1> QED BY <1>1, <1>8, <1>9, <1>10, <1>11, <1>12, <1>13 DEF Ports

\* A service calls with the bound customer's id.
LEMMA ServiceCallsTyped ==
  ASSUME askedPort \in Ports, NEW k \in Customers, NEW call \in ServiceCalls(k)
  PROVE  call \in PortCall /\ Paged(call)
<1>0. AskedIds \subseteq Nat /\ ListSizes \subseteq Nat
  BY OwnedAssumption, Zenon DEF OwnedAssumption
<1>1. ASSUME NEW m \in Methods, NEW id \in Nat, NEW page \in Nat, NEW limit \in Nat,
             m = "get-list" => page >= 1
      PROVE  Call(m, k, id, page, limit) \in PortCall /\ Paged(Call(m, k, id, page, limit))
  BY <1>1 DEF Call, PortCall, Paged
<1>2. \A m \in Methods, id \in Nat : m # "get-list" =>
        Call(m, k, id, 0, 0) \in PortCall /\ Paged(Call(m, k, id, 0, 0))
  BY <1>1
<1> HIDE DEF Call, Paged
<1>3. CASE askedPort = "invoice"
  <2>1. call \in BillingCalls(k)
    BY <1>3 DEF ServiceCalls
  <2>2. CASE \E page \in 1..2, limit \in ListSizes : call = Call("get-list", k, 0, page, limit)
    BY <1>0, <1>1, <2>2 DEF Methods
  <2>3. CASE \E id \in AskedIds : call = Call("get-by-id", k, id, 0, 0)
    BY <1>0, <1>2, <2>3 DEF Methods
  <2> QED BY <2>1, <2>2, <2>3 DEF BillingCalls
<1>4. CASE askedPort = "meter"
  <2>1. call \in UsageCalls(k)
    BY <1>4 DEF ServiceCalls
  <2>2. \E m \in Methods \ {"get-list"}, id \in Nat : call = Call(m, k, id, 0, 0)
    BY <1>0, <2>1 DEF UsageCalls, Methods
  <2> QED BY <1>2, <2>2
<1>5. CASE askedPort = "contract"
  <2>1. call \in ContractCalls(k)
    BY <1>5 DEF ServiceCalls
  <2>2. \E m \in Methods \ {"get-list"}, id \in Nat : call = Call(m, k, id, 0, 0)
    BY <1>0, <2>1 DEF ContractCalls, Methods
  <2> QED BY <1>2, <2>2
<1>6. CASE askedPort = "econtract"
  <2>1. call \in EcontractCalls(k)
    BY <1>6 DEF ServiceCalls
  <2>2. \E m \in Methods \ {"get-list"}, id \in Nat : call = Call(m, k, id, 0, 0)
    BY <1>0, <2>1 DEF EcontractCalls, Methods
  <2> QED BY <1>2, <2>2
<1>7. CASE askedPort = "incident"
  <2>1. call \in ReportCalls(k)
    BY <1>7 DEF ServiceCalls
  <2>2. \E m \in Methods \ {"get-list"}, id \in Nat : call = Call(m, k, id, 0, 0)
    BY <1>0, <2>1 DEF ReportCalls, Methods
  <2> QED BY <1>2, <2>2
<1>8. CASE askedPort = "customer-profile"
  <2>1. call \in ProfileCalls(k)
    BY <1>8 DEF ServiceCalls
  <2>2. \E m \in Methods \ {"get-list"}, id \in Nat : call = Call(m, k, id, 0, 0)
    BY <2>1 DEF ProfileCalls, Methods
  <2> QED BY <1>2, <2>2
<1> QED BY <1>3, <1>4, <1>5, <1>6, <1>7, <1>8 DEF Ports

\* A write leaves a nonempty sequence of records.
LEMMA WriteTyped ==
  ASSUME OwnedTyped, NEW call \in PortCall, NEW after, after = AfterWrite(call)
  PROVE  after \in Seq(Row) /\ after # << >>
<1>1. records \in Seq(Row) /\ records # << >> /\ Len(records) \in Nat
  BY LenProperties DEF OwnedTyped
<1>2. CASE call.method = "create-report"
  <2>1. NewReport(call.customer) \in Row
    BY <1>1 DEF NewReport, Row, PortCall
  <2>2. after = Append(records, NewReport(call.customer))
    BY <1>2 DEF AfterWrite
  <2> QED BY <1>1, <2>1, <2>2, AppendProperties
<1>3. CASE call.method # "create-report"
  <2>1. \A i \in DOMAIN records : records[i] \in Row /\ Bumped(records[i]) \in Row
    <3>1. \A i \in DOMAIN records : records[i] \in Row
      BY <1>1, ElementOfSeq, LenProperties
    <3> QED BY <3>1 DEF Bumped, Row
  <2>2. after = [i \in DOMAIN records |->
                   IF \E j \in DOMAIN Adapter(call) : Adapter(call)[j] = records[i]
                   THEN Bumped(records[i]) ELSE records[i]]
    BY <1>3 DEF AfterWrite
  <2>3. DOMAIN records = 1..Len(records) /\ DOMAIN after = DOMAIN records
    BY <1>1, <2>2, LenProperties
  <2>4. \A i \in DOMAIN records : after[i] \in Row
    BY <2>1, <2>2
  <2>5. after \in Seq(Row) /\ Len(after) = Len(records)
    <3>1. after = [i \in 1..Len(records) |-> after[i]]
      BY <2>2, <2>3
    <3> QED BY <1>1, <2>3, <2>4, <3>1
  <2> QED BY <1>1, <2>3, <2>5, EmptySeq
<1> QED BY <1>2, <1>3

LEMMA OwnedInit_Inv == OwnedInit => OwnedInv
<1> SUFFICES ASSUME OwnedInit PROVE OwnedInv
  OBVIOUS
<1>1. FirstRows \in Seq(Row) /\ FirstRows # << >>
  BY OwnedAssumption, Zenon DEF OwnedAssumption
<1>2. NoPortCall \in PortCall /\ Paged(NoPortCall)
  BY AnyoneIsCustomer DEF NoPortCall, Call, PortCall, Methods, Paged
<1>3. NoData \in [call : PortCall, records : Seq(Row)]
  BY <1>2, EmptySeq DEF NoData, Data
<1>4. Resting \in CallerState
  BY <1>2, <1>3 DEF Resting, CallerState
<1>5. caller \in [Callers -> CallerState] /\ \A c \in Callers : caller[c] = Resting
  BY <1>4 DEF OwnedInit
<1>6. OwnedTyped /\ LastTyped /\ EntriesOwned
  BY <1>1, <1>3, <1>5 DEF OwnedInit, OwnedTyped, LastTyped, EntriesOwned
<1>7. CallerOwned(Resting)
  BY <1>2 DEF CallerOwned, Resting
<1> QED BY <1>5, <1>6, <1>7 DEF OwnedInv, CallersOwned

\* One caller moves to a place of its own.
LEMMA CallerMoves ==
  ASSUME caller \in [Callers -> CallerState], CallersOwned, NEW c \in Callers,
         NEW d \in CallerState, CallerOwned(d), caller' = [caller EXCEPT ![c] = d]
  PROVE  caller' \in [Callers -> CallerState] /\ CallersOwned'
<1>1. \A b \in Callers : caller'[b] = IF b = c THEN d ELSE caller[b]
  OBVIOUS
<1> QED BY <1>1, Zenon DEF CallersOwned

\* An answer in hand is marked as data only if it is the customer's.
LEMMA AnswerFacts ==
  ASSUME caller \in [Callers -> CallerState], CallersOwned, NEW c \in Callers,
         caller[c].pc # "done", NEW d \in [call : PortCall, records : Seq(Row)],
         NEW kind \in {"data", "degraded"},
         kind = "data" => BelongsTo(d, caller[c].call.customer),
         NoData \in [call : PortCall, records : Seq(Row)], Answer(c, d, kind)
  PROVE  caller' \in [Callers -> CallerState] /\ CallersOwned'
<1>1. caller[c] \in CallerState /\ CallerOwned(caller[c]) /\ caller[c].kind # "data"
  BY DEF CallersOwned, CallerOwned
<1>2. CASE caller[c].refetch
  <2>1. PICK e : e = [caller[c] EXCEPT !.pc = "get", !.refetch = FALSE, !.data = NoData,
                           !.call = [caller[c].call EXCEPT !.method = "get-profile"]]
    OBVIOUS
  <2>2. caller' = [caller EXCEPT ![c] = e]
    BY <1>2, <2>1, Zenon DEF Answer
  <2>3. [caller[c].call EXCEPT !.method = "get-profile"] \in PortCall
        /\ Paged([caller[c].call EXCEPT !.method = "get-profile"])
    BY <1>1 DEF CallerState, PortCall, Methods, Paged
  <2>4. e \in CallerState /\ CallerOwned(e)
    BY <1>1, <2>1, <2>3 DEF CallerState, CallerOwned
  <2> QED BY <2>2, <2>4, CallerMoves
<1>3. CASE ~ caller[c].refetch
  <2>1. PICK e : e = [caller[c] EXCEPT !.pc = "done", !.data = d, !.kind = kind]
    OBVIOUS
  <2>2. caller' = [caller EXCEPT ![c] = e]
    BY <1>3, <2>1, Zenon DEF Answer
  <2>3. e \in CallerState /\ CallerOwned(e)
    BY <1>1, <2>1 DEF CallerState, CallerOwned
  <2> QED BY <2>2, <2>3, CallerMoves
<1> QED BY <1>2, <1>3

LEMMA OwnedStep == OwnedInv /\ [OwnedNext]_ownedVars => OwnedInv'
<1> SUFFICES ASSUME OwnedInv, [OwnedNext]_ownedVars PROVE OwnedInv'
  OBVIOUS
<1>0. /\ askedPort \in Ports /\ records \in Seq(Row) /\ records # << >>
      /\ caller \in [Callers -> CallerState]
      /\ portCache \subseteq [key : PortCall, data : [call : PortCall, records : Seq(Row)]]
      /\ \A e \in portCache : BelongsTo(e.data, e.key.customer)
      /\ CallersOwned
      /\ lastData \in [call : PortCall, records : Seq(Row)]
  BY DEF OwnedInv, OwnedTyped, EntriesOwned, LastTyped
<1>a. \A c \in Callers : /\ caller[c] \in CallerState /\ CallerOwned(caller[c])
                         /\ caller[c].call \in PortCall /\ Paged(caller[c].call)
                         /\ caller[c].data \in [call : PortCall, records : Seq(Row)]
  BY <1>0 DEF CallersOwned, CallerOwned, CallerState
<1>b. NoPortCall \in PortCall /\ Paged(NoPortCall)
  BY AnyoneIsCustomer DEF NoPortCall, Call, PortCall, Methods, Paged
<1>c. NoData \in [call : PortCall, records : Seq(Row)]
  BY <1>b, EmptySeq DEF NoData, Data
<1>1. ASSUME NEW c \in Callers, NEW k \in Customers, NEW call \in ServiceCalls(k), Ask(c, call)
      PROVE  OwnedInv'
  <2>1. call \in PortCall /\ Paged(call)
    BY <1>0, ServiceCallsTyped
  <2>2. PICK e : e = [Resting EXCEPT !.pc = "get", !.call = call,
                                     !.refetch = (call.method = "update-profile")]
    OBVIOUS
  <2>3. e \in CallerState /\ CallerOwned(e)
    BY <1>c, <2>1, <2>2 DEF CallerState, CallerOwned, Resting
  <2>4. /\ caller' = [caller EXCEPT ![c] = e]
        /\ askedPort' = askedPort /\ records' = records /\ portCache' = portCache
        /\ lastData' = lastData
    BY <1>1, <2>2 DEF Ask
  <2>5. caller' \in [Callers -> CallerState] /\ CallersOwned'
    BY <1>0, <2>3, <2>4, CallerMoves
  <2> QED BY <1>0, <2>4, <2>5 DEF OwnedInv, OwnedTyped, EntriesOwned, LastTyped
<1>2. ASSUME NEW c \in Callers, CacheHit(c) PROVE OwnedInv'
  <2>1. PICK e \in portCache : e.key = CacheKey(caller[c].call) /\ Answer(c, e.data, "data")
    BY <1>2 DEF CacheHit
  <2>2. e.data \in [call : PortCall, records : Seq(Row)]
        /\ BelongsTo(e.data, caller[c].call.customer)
    BY <1>0, <2>1 DEF CacheKey
  <2>3. /\ askedPort' = askedPort /\ records' = records /\ portCache' = portCache
        /\ lastData' = lastData /\ caller[c].pc = "get"
    BY <1>2 DEF CacheHit, OwnedAt
  <2>4. caller' \in [Callers -> CallerState] /\ CallersOwned'
    BY <1>0, <1>c, <2>1, <2>2, <2>3, AnswerFacts
  <2> QED BY <1>0, <2>3, <2>4 DEF OwnedInv, OwnedTyped, EntriesOwned, LastTyped
<1>3. ASSUME NEW c \in Callers, CacheMiss(c) PROVE OwnedInv'
  <2>1. PICK e : e = [caller[c] EXCEPT !.pc = "call"]
    OBVIOUS
  <2>2. /\ caller' = [caller EXCEPT ![c] = e]
        /\ askedPort' = askedPort /\ records' = records /\ portCache' = portCache
        /\ lastData' = lastData /\ caller[c].pc = "get"
    BY <1>3, <2>1 DEF CacheMiss, OwnedAt
  <2>3. e \in CallerState /\ CallerOwned(e)
    BY <1>a, <2>1, <2>2 DEF CallerState, CallerOwned
  <2>4. caller' \in [Callers -> CallerState] /\ CallersOwned'
    BY <1>0, <2>2, <2>3, CallerMoves
  <2> QED BY <1>0, <2>2, <2>4 DEF OwnedInv, OwnedTyped, EntriesOwned, LastTyped
<1>4. ASSUME NEW c \in Callers, AdapterServes(c) PROVE OwnedInv'
  <2>1. PICK call : call = caller[c].call
    OBVIOUS
  <2>2. PICK found : found = Adapter(call)
    OBVIOUS
  <2>3. PICK after : after = AfterWrite(call)
    OBVIOUS
  <2>4. PICK e : e = [[caller[c] EXCEPT !.pc = "store"] EXCEPT !.data = Data(call, found)]
    OBVIOUS
  <2>5. /\ caller' = [caller EXCEPT ![c].pc = "store", ![c].data = Data(call, found)]
        /\ records' \in {after, records} /\ caller[c].pc = "call"
        /\ askedPort' = askedPort /\ portCache' = portCache /\ lastData' = lastData
    BY <1>4, <2>1, <2>2, <2>3 DEF AdapterServes, OwnedAt
  <2>6. caller' = [caller EXCEPT ![c] = e]
    BY <1>a, <2>4, <2>5 DEF CallerState
  <2>7. call \in PortCall /\ Paged(call) /\ OwnedTyped
    BY <1>a, <2>1 DEF OwnedInv
  <2>8. after \in Seq(Row) /\ after # << >>
    BY <2>3, <2>7, WriteTyped
  <2>9. found \in Seq(Row) /\ \A i \in DOMAIN found : found[i].owner = call.customer
    BY <2>2, <2>7, AdapterFacts
  <2>10. Data(call, found) \in [call : PortCall, records : Seq(Row)]
         /\ BelongsTo(Data(call, found), call.customer)
    BY <2>7, <2>9 DEF Data, BelongsTo
  <2>11. e \in CallerState /\ CallerOwned(e)
    BY <1>a, <2>1, <2>4, <2>5, <2>7, <2>10 DEF CallerState, CallerOwned
  <2>12. caller' \in [Callers -> CallerState] /\ CallersOwned'
    BY <1>0, <2>6, <2>11, CallerMoves
  <2>13. records' \in Seq(Row) /\ records' # << >>
    BY <1>0, <2>5, <2>8
  <2> QED BY <1>0, <2>5, <2>12, <2>13 DEF OwnedInv, OwnedTyped, EntriesOwned, LastTyped
<1>5. ASSUME NEW c \in Callers, Thrown(c) PROVE OwnedInv'
  <2>1. /\ askedPort' = askedPort /\ records' = records /\ portCache' = portCache
        /\ lastData' = lastData /\ caller[c].pc = "call"
    BY <1>5 DEF Thrown, OwnedAt
  <2>2. CASE Answer(c, lastData, "degraded")
    <3>1. caller' \in [Callers -> CallerState] /\ CallersOwned'
      BY <1>0, <1>c, <2>1, <2>2, AnswerFacts
    <3> QED BY <1>0, <2>1, <3>1 DEF OwnedInv, OwnedTyped, EntriesOwned, LastTyped
  <2>3. CASE caller' = [caller EXCEPT ![c].pc = "done", ![c].kind = "refused"]
    <3>1. PICK e : e = [[caller[c] EXCEPT !.pc = "done"] EXCEPT !.kind = "refused"]
      OBVIOUS
    <3>2. caller' = [caller EXCEPT ![c] = e]
      BY <1>a, <2>3, <3>1 DEF CallerState
    <3>3. e \in CallerState /\ CallerOwned(e)
      BY <1>a, <3>1 DEF CallerState, CallerOwned
    <3>4. caller' \in [Callers -> CallerState] /\ CallersOwned'
      BY <1>0, <3>2, <3>3, CallerMoves
    <3> QED BY <1>0, <2>1, <3>4 DEF OwnedInv, OwnedTyped, EntriesOwned, LastTyped
  <2> QED BY <1>5, <2>2, <2>3 DEF Thrown
<1>6. ASSUME NEW c \in Callers, Stored(c) PROVE OwnedInv'
  <2>1. PICK d : d = caller[c].data
    OBVIOUS
  <2>2. PICK call : call = caller[c].call
    OBVIOUS
  <2>3. /\ askedPort' = askedPort /\ records' = records /\ lastData' = d
        /\ portCache' \in {portCache, {e \in portCache : e.key # call}
                                      \cup {[key |-> call, data |-> d]}}
        /\ caller[c].pc = "store" /\ Answer(c, d, "data")
    BY <1>6, <2>1, <2>2 DEF Stored, OwnedAt, CacheKey
  <2>4. /\ d \in [call : PortCall, records : Seq(Row)] /\ call \in PortCall
        /\ BelongsTo(d, call.customer)
    BY <1>a, <2>1, <2>2, <2>3 DEF CallerOwned
  <2>5. caller' \in [Callers -> CallerState] /\ CallersOwned'
    BY <1>0, <1>c, <2>2, <2>3, <2>4, AnswerFacts
  <2>6. [key |-> call, data |-> d] \in [key : PortCall, data : [call : PortCall, records : Seq(Row)]]
    BY <2>4
  <2>7. EntriesOwned'
    BY <1>0, <2>3, <2>4, <2>6 DEF EntriesOwned
  <2> QED BY <1>0, <2>3, <2>4, <2>5, <2>7 DEF OwnedInv, OwnedTyped, LastTyped
<1>7. ASSUME NEW c \in Callers, Leave(c) PROVE OwnedInv'
  <2>1. PICK e : e = Resting
    OBVIOUS
  <2>2. /\ caller' = [caller EXCEPT ![c] = e]
        /\ askedPort' = askedPort /\ records' = records /\ portCache' = portCache
        /\ lastData' = lastData
    BY <1>7, <2>1 DEF Leave
  <2>3. e \in CallerState /\ CallerOwned(e)
    BY <1>b, <1>c, <2>1 DEF CallerState, CallerOwned, Resting
  <2>4. caller' \in [Callers -> CallerState] /\ CallersOwned'
    BY <1>0, <2>2, <2>3, CallerMoves
  <2> QED BY <1>0, <2>2, <2>4 DEF OwnedInv, OwnedTyped, EntriesOwned, LastTyped
<1>8. CASE Sweep \/ UNCHANGED ownedVars
  <2>1. /\ askedPort' = askedPort /\ records' = records /\ caller' = caller
        /\ lastData' = lastData /\ portCache' \in {{}, portCache}
    BY <1>8 DEF Sweep, ownedVars
  <2>2. CallersOwned'
    BY <1>0, <2>1 DEF CallersOwned
  <2> QED BY <1>0, <2>1, <2>2 DEF OwnedInv, OwnedTyped, EntriesOwned, LastTyped
<1> QED BY <1>1, <1>2, <1>3, <1>4, <1>5, <1>6, <1>7, <1>8 DEF OwnedNext

\* The pages of a list of at least one page size, put together, are the list.
LEMMA PagesCover ==
  ASSUME NEW X, NEW list \in Seq(X), NEW n \in Nat, n >= 1, NEW i \in DOMAIN list
  PROVE  \E p \in 1..TotalPages(list, n) : \E j \in DOMAIN Slice(list, p, n) :
           Slice(list, p, n)[j] = list[i] /\ i = (p - 1) * n + j
<1>1. Len(list) \in Nat /\ DOMAIN list = 1..Len(list) /\ i \in 1..Len(list)
  BY LenProperties
<1> DEFINE q == (i - 1) \div n
           p == q + 1
           j == i - q * n
           L == Len(list)
<1>2. q \in Nat /\ q * n <= i - 1 /\ i - 1 < q * n + n
  BY <1>1
<1>3. q * n \in Nat
  BY <1>2
<1>4. j \in 1..n
  <2> HIDE DEF q
  <2> QED BY <1>1, <1>2, <1>3
<1>5. list # << >>
  BY <1>1, EmptySeq
<1>6. TotalPages(list, n) = (L + n - 1) \div n
  BY <1>5 DEF TotalPages
<1>7. p <= (L + n - 1) \div n
  <2>1. PICK r : r = (L + n - 1) \div n
    OBVIOUS
  <2>2. r \in Int /\ L + n - 1 < r * n + n
    BY <1>1, <2>1
  <2>3. q * n < r * n
    <3> HIDE DEF q
    <3>1. r * n \in Int
      BY <2>2
    <3> QED BY <1>1, <1>2, <1>3, <2>2, <3>1
  <2>4. q < r
    <3>1. SUFFICES ASSUME q >= r PROVE FALSE
      BY <1>2, <2>2
    <3>2. PICK d \in Nat : q = r + d
      <4>1. q - r \in Nat /\ q = r + (q - r)
        BY <1>2, <2>2, <3>1
      <4> QED BY <4>1
    <3>3. q * n = r * n + d * n /\ d * n \in Nat
      BY <1>2, <2>2, <3>2
    <3> HIDE DEF q
    <3> QED BY <1>3, <2>2, <2>3, <3>3
  <2> HIDE DEF q
  <2> QED BY <1>2, <2>1, <2>2, <2>4
<1>8. p \in 1..TotalPages(list, n)
  <2>1. (L + n - 1) \div n \in Int
    BY <1>1
  <2> HIDE DEF q
  <2> QED BY <1>2, <1>6, <1>7, <2>1
<1>9. PICK s : s = Slice(list, p, n)
  OBVIOUS
<1>10. (p - 1) * n = q * n /\ p * n = q * n + n /\ p \in Nat /\ p >= 1
  <2> HIDE DEF q
  <2> QED BY <1>2
<1> HIDE DEF p, q
<1>11. /\ s \in Seq(X) /\ PieceOf(s, list, (p - 1) * n)
       /\ Len(s) = IF (p - 1) * n + 1 <= AtMost(p * n, Len(list))
                   THEN AtMost(p * n, Len(list)) - (p - 1) * n ELSE 0
  BY <1>9, <1>10, SliceFacts, Zenon
<1>12. j \in DOMAIN s
  <2>1. j <= L - q * n /\ j <= n /\ j >= 1 /\ j \in Int
    BY <1>1, <1>3, <1>4
  <2> HIDE DEF j
  <2>2. Len(s) >= j
    BY <1>1, <1>3, <1>10, <1>11, <2>1 DEF AtMost
  <2>3. DOMAIN s = 1..Len(s) /\ Len(s) \in Nat
    BY <1>11, LenProperties
  <2> QED BY <2>1, <2>2, <2>3
<1>13. s[j] = list[j + (p - 1) * n]
  BY <1>11, <1>12 DEF PieceOf
<1>14. j + (p - 1) * n = i
  BY <1>1, <1>3, <1>10
<1>15. i = (p - 1) * n + j
  BY <1>1, <1>3, <1>10
<1> HIDE DEF j
<1> QED BY <1>8, <1>9, <1>12, <1>13, <1>14, <1>15

\* No page follows the last.
LEMMA PagesEnd ==
  ASSUME NEW X, NEW list \in Seq(X), NEW n \in Nat, n >= 1
  PROVE  Slice(list, TotalPages(list, n) + 1, n) = << >>
<1>1. Len(list) \in Nat
  BY LenProperties
<1>2. PICK t : t = TotalPages(list, n)
  OBVIOUS
<1>3. t \in Nat /\ t * n \in Nat /\ Len(list) <= t * n
  <2>1. CASE list = << >>
    BY <1>2, <2>1, EmptySeq DEF TotalPages
  <2>2. CASE list # << >>
    <3>1. t = (Len(list) + n - 1) \div n
      BY <1>2, <2>2 DEF TotalPages
    <3>2. t \in Nat /\ Len(list) + n - 1 < t * n + n
      BY <1>1, <3>1
    <3>3. t * n \in Nat
      BY <3>2
    <3> QED BY <1>1, <3>2, <3>3
  <2> QED BY <2>1, <2>2
<1>4. PICK page : page = t + 1
  OBVIOUS
<1>5. page \in Nat /\ page >= 1 /\ (page - 1) * n = t * n /\ page * n = t * n + n
  BY <1>3, <1>4
<1>6. PICK s : s = Slice(list, page, n)
  OBVIOUS
<1>7. /\ s \in Seq(X)
      /\ Len(s) = IF (page - 1) * n + 1 <= AtMost(page * n, Len(list))
                  THEN AtMost(page * n, Len(list)) - (page - 1) * n ELSE 0
  BY <1>5, <1>6, SliceFacts, Zenon
<1>8. Len(s) = 0
  BY <1>1, <1>3, <1>5, <1>7 DEF AtMost
<1>9. s = << >>
  BY <1>7, <1>8, EmptySeq
<1> QED BY <1>2, <1>4, <1>6, <1>9

\* For any customers, rows and page sizes, and any interleaving of the requests
\* through the shared read cache: an answer marked as data is the customer's own, and
\* the pages of a list are the whole of it (ownerCustomerId filters, buildCacheKey,
\* getList).
THEOREM OwnListIsKept == OwnedSpec => []OwnListOnly
<1>1. OwnedInv => OwnRowsOnly
  BY DEF OwnedInv, CallersOwned, CallerOwned, BelongsTo, OwnRowsOnly
<1>2. OwnedInv => PagesAreTheList
  <2> SUFFICES ASSUME OwnedInv, NEW k \in Customers, NEW n \in ListSizes
               PROVE  LET list == OwnedBy(k)
                          pages == [p \in 1..TotalPages(list, n) |-> Slice(list, p, n)]
                      IN  /\ \A i \in DOMAIN list : \E p \in DOMAIN pages : \E j \in DOMAIN pages[p] :
                                pages[p][j] = list[i] /\ i = (p - 1) * n + j
                          /\ Slice(list, TotalPages(list, n) + 1, n) = << >>
    BY DEF PagesAreTheList
  <2>1. n \in Nat /\ n >= 1
    <3>1. n \in Nat \ {0}
      BY OwnedAssumption, Zenon DEF OwnedAssumption
    <3> QED BY <3>1
  <2>2. PICK list : list = OwnedBy(k)
    OBVIOUS
  <2>3. list \in Seq(Row)
    BY <2>2, OwnedByFacts DEF OwnedInv, OwnedTyped
  <2> DEFINE pages == [p \in 1..TotalPages(list, n) |-> Slice(list, p, n)]
  <2>4. \A i \in DOMAIN list : \E p \in 1..TotalPages(list, n) : \E j \in DOMAIN Slice(list, p, n) :
          Slice(list, p, n)[j] = list[i] /\ i = (p - 1) * n + j
    BY <2>1, <2>3, PagesCover
  <2>5. Slice(list, TotalPages(list, n) + 1, n) = << >>
    BY <2>1, <2>3, PagesEnd
  <2>6. DOMAIN pages = 1..TotalPages(list, n)
        /\ \A p \in 1..TotalPages(list, n) : pages[p] = Slice(list, p, n)
    OBVIOUS
  <2>7. ASSUME NEW i \in DOMAIN list
        PROVE  \E p \in DOMAIN pages : \E j \in DOMAIN pages[p] :
                 pages[p][j] = list[i] /\ i = (p - 1) * n + j
    <3>1. PICK p \in 1..TotalPages(list, n) : \E j \in DOMAIN Slice(list, p, n) :
            Slice(list, p, n)[j] = list[i] /\ i = (p - 1) * n + j
      BY <2>4
    <3>2. p \in DOMAIN pages /\ pages[p] = Slice(list, p, n)
      BY <2>6, <3>1
    <3> HIDE DEF pages
    <3> QED BY <3>1, <3>2
  <2> QED BY <2>2, <2>5, <2>7
<1> QED BY <1>1, <1>2, OwnedInit_Inv, OwnedStep, PTL DEF OwnedSpec, OwnListOnly

-----------------------------------------------------------------------------
(* Channel sessions (Sessions) *)

ViewState ==
  [kind : {"idle", "detail", "listing", "shown"}, read : BOOLEAN,
   meta : {NoStoredSession} \cup SessionRecord, page : Nat \ {0}, size : Nat \ {0},
   answer : Seq(SessionEvents), total : Nat, listed : Seq(SessionEvents),
   touched : BOOLEAN, shifted : BOOLEAN]

SessionTyped ==
  /\ store \in {"redis", "memory"}
  /\ session \in {NoStoredSession} \cup SessionRecord
  /\ events \in Seq(SessionEvents)
  /\ pending \in [Appenders -> {NoStoredSession} \cup PendingRecord]
  /\ view \in ViewState
  /\ life \in [id : Nat, appends : Nat]

\* The count of the appends starts over with each session.
CountKept == CountIsAppends /\ (session = NoStoredSession => life.appends = 0)

\* s is how t begins.
Heads(s, t) == Len(s) <= Len(t) /\ \A i \in 1..Len(s) : s[i] = t[i]

\* Between its reads an undisturbed view still sees the session it read, and the pages
\* it has are how the events begin.
ViewKept ==
  /\ view.kind = "idle" => view.listed = << >> /\ view.page = 1 /\ ~ view.read
  /\ view.kind = "detail" =>
       /\ view.listed = << >> /\ view.meta # NoStoredSession
       /\ view.touched \/ view.meta = session
  /\ view.kind = "listing" =>
       /\ view.touched \/ ~ view.read \/ view.meta = session
       /\ view.shifted \/ (/\ Len(view.listed) = (view.page - 1) * view.size
                           /\ Heads(view.listed, events))
  /\ view.kind = "shown" =>
       /\ view.touched \/ (/\ view.meta = NoStoredSession => view.total = 0
                           /\ view.meta # NoStoredSession => view.total <= view.meta.count)
       /\ view.shifted \/ view.listed = << >> \/ view.listed = view.answer

SessionInv == SessionTyped /\ CountKept /\ ListedInOrder /\ ViewKept

LEMMA PrefixHeads ==
  ASSUME NEW X, NEW s \in Seq(X), NEW t \in Seq(X)
  PROVE  IsPrefix(s, t) <=> Heads(s, t)
<1>1. /\ Len(s) \in Nat /\ DOMAIN s = 1..Len(s) /\ \A i \in 1..Len(s) : s[i] \in X
      /\ Len(t) \in Nat /\ DOMAIN t = 1..Len(t) /\ \A i \in 1..Len(t) : t[i] \in X
  BY LenProperties, ElementOfSeq
<1>2. SubSeq(s, 1, Len(s)) = s
  BY SubSeqFull
<1>3. CASE ~ (Len(s) <= Len(t))
  BY <1>3 DEF IsPrefix, Heads
<1>4. CASE Len(s) <= Len(t)
  <2>1. PICK u : u = SubSeq(t, 1, Len(s))
    OBVIOUS
  <2>2. \A i \in 1..Len(s) : t[i] \in X
    BY <1>1, <1>4
  <2>3. u \in Seq(X) /\ Len(u) = Len(s) /\ \A i \in 1..Len(s) : u[i] = t[i]
    <3>1. /\ u \in Seq(X) /\ Len(u) = IF 1 <= Len(s) THEN Len(s) - 1 + 1 ELSE 0
          /\ \A i \in 1..Len(s) - 1 + 1 : u[i] = t[1 + i - 1]
      BY <1>1, <2>1, <2>2, SubSeqProperties
    <3>2. \A i \in 1..Len(s) : 1 + i - 1 = i
      BY <1>1
    <3> QED BY <1>1, <3>1, <3>2
  <2>4. s = u <=> \A i \in 1..Len(s) : s[i] = u[i]
    BY <2>3, SeqEqual
  <2>5. IsPrefix(s, t) <=> s = u
    BY <1>2, <1>4, <2>1 DEF IsPrefix
  <2>6. Heads(s, t) <=> \A i \in 1..Len(s) : s[i] = t[i]
    BY <1>4 DEF Heads
  <2> QED BY <2>3, <2>4, <2>5, <2>6
<1> QED BY <1>3, <1>4

\* Positions that hold with every position before them are the first ones.
LEMMA FirstOnes ==
  ASSUME NEW L \in Nat, NEW D \in SUBSET (1..L),
         \A j \in D : \A i \in 1..L : i < j => i \in D
  PROVE  Cardinality(D) \in 0..L /\ D = 1..Cardinality(D)
<1> DEFINE S == (1..L + 1) \ D
<1>1. S \in SUBSET Nat /\ S # {}
  <2>1. L + 1 \in S
    OBVIOUS
  <2> QED BY <2>1
<1> HIDE DEF S
<1>2. PICK k \in S : \A m \in S : k <= m
  BY <1>1, LeastOf
<1>3. k \in 1..L + 1 /\ k \notin D
  BY DEF S
<1>4. \A i \in 1..L : i \in D <=> i < k
  <2>1. ASSUME NEW i \in 1..L, i < k PROVE i \in D
    <3>1. ~ (k <= i)
      BY <1>3, <2>1
    <3>2. i \notin S
      BY <1>2, <3>1
    <3> QED BY <3>2 DEF S
  <2>2. ASSUME NEW i \in 1..L, i \in D, ~ (i < k) PROVE FALSE
    <3>1. k < i \/ k = i
      BY <1>3, <2>2
    <3>2. k \in 1..L
      BY <1>3, <2>2, <3>1
    <3> QED BY <1>3, <2>2, <3>1, <3>2
  <2> QED BY <2>1, <2>2
<1>5. \A i : i \in D <=> i \in 1..k - 1
  <2>1. \A i \in D : i \in 1..L
    OBVIOUS
  <2>2. \A i : i \in 1..k - 1 <=> i \in 1..L /\ i < k
    BY <1>3
  <2> QED BY <1>4, <2>1, <2>2, Zenon
<1>6. D = 1..k - 1
  BY <1>5, Zenon
<1>7. k - 1 \in 0..L
  BY <1>3
<1>8. Cardinality(D) = k - 1
  <2>1. PICK m : m = k - 1
    OBVIOUS
  <2>2. m \in Nat /\ 1 \in Int /\ m \in Int
    BY <1>7, <2>1
  <2>3. Cardinality(1..m) = IF 1 > m THEN 0 ELSE m - 1 + 1
    BY <2>2, FS_Interval
  <2> QED BY <1>6, <2>1, <2>2, <2>3
<1> QED BY <1>6, <1>7, <1>8

\* t is s with e behind its first n elements.
PutIn(t, s, n, e) ==
  \A i \in 1..Len(s) + 1 :
    t[i] = IF i <= n THEN s[i] ELSE IF i = n + 1 THEN e ELSE s[i - 1]

LEMMA InsertFacts ==
  ASSUME NEW X, NEW s \in Seq(X), NEW e \in X, NEW n \in 0..Len(s),
         NEW t, t = InsertAt(s, n + 1, e)
  PROVE  t \in Seq(X) /\ Len(t) = Len(s) + 1 /\ PutIn(t, s, n, e)
<1>1. /\ Len(s) \in Nat /\ \A i \in 1..Len(s) : s[i] \in X
  BY LenProperties, ElementOfSeq
<1>2. PICK a : a = SubSeq(s, 1, n)
  OBVIOUS
<1>3. PICK b : b = SubSeq(s, n + 1, Len(s))
  OBVIOUS
<1>4. a \in Seq(X) /\ Len(a) = n /\ \A i \in 1..n : a[i] = s[i]
  <2>1. \A i \in 1..n : s[i] \in X
    BY <1>1
  <2>2. /\ a \in Seq(X) /\ Len(a) = IF 1 <= n THEN n - 1 + 1 ELSE 0
        /\ \A i \in 1..n - 1 + 1 : a[i] = s[1 + i - 1]
    BY <1>1, <1>2, <2>1, SubSeqProperties
  <2>3. \A i \in 1..n : 1 + i - 1 = i
    OBVIOUS
  <2> QED BY <1>1, <2>2, <2>3
<1>5. b \in Seq(X) /\ Len(b) = Len(s) - n /\ \A i \in 1..Len(s) - n : b[i] = s[n + i]
  <2>1. \A i \in n + 1..Len(s) : s[i] \in X
    BY <1>1
  <2>2. /\ b \in Seq(X) /\ Len(b) = IF n + 1 <= Len(s) THEN Len(s) - (n + 1) + 1 ELSE 0
        /\ \A i \in 1..Len(s) - (n + 1) + 1 : b[i] = s[(n + 1) + i - 1]
    BY <1>1, <1>3, <2>1, SubSeqProperties
  <2>3. \A i \in 1..Len(s) - n : (n + 1) + i - 1 = n + i
    BY <1>1
  <2>4. Len(s) - (n + 1) + 1 = Len(s) - n /\ n \in Int /\ n <= Len(s)
    BY <1>1
  <2>5. Len(b) = Len(s) - n
    <3>1. Len(b) = IF n + 1 <= Len(s) THEN Len(s) - (n + 1) + 1 ELSE 0
      BY <2>2
    <3>2. CASE n + 1 <= Len(s)
      BY <2>4, <3>1, <3>2
    <3>3. CASE ~ (n + 1 <= Len(s))
      <4>1. Len(b) = 0
        BY <3>1, <3>3
      <4>2. Len(s) - n = 0
        BY <1>1, <3>3
      <4> QED BY <4>1, <4>2
    <3> QED BY <3>2, <3>3
  <2>6. \A i \in 1..Len(s) - n : b[i] = s[(n + 1) + i - 1]
    BY <2>2, <2>4
  <2> QED BY <2>2, <2>3, <2>5, <2>6
<1>6. PICK h : h = a \o <<e>>
  OBVIOUS
<1>7. /\ h \in Seq(X) /\ Len(h) = n + 1
      /\ \A i \in 1..n + 1 : h[i] = IF i <= n THEN s[i] ELSE e
  <2>1. <<e>> \in Seq(X) /\ Len(<<e>>) = 1 /\ <<e>>[1] = e
    OBVIOUS
  <2>2. /\ h \in Seq(X) /\ Len(h) = n + 1
        /\ \A i \in 1..n + 1 : h[i] = IF i <= n THEN a[i] ELSE <<e>>[i - n]
    BY <1>4, <1>6, <2>1, ConcatProperties
  <2>3. \A i \in 1..n + 1 : ~ (i <= n) => i - n = 1
    OBVIOUS
  <2> QED BY <1>4, <2>1, <2>2, <2>3
<1>8. t = h \o b
  <2>1. (n + 1) - 1 = n
    OBVIOUS
  <2> QED BY <1>2, <1>3, <1>6, <2>1 DEF InsertAt
<1>9. /\ t \in Seq(X) /\ Len(t) = n + 1 + (Len(s) - n)
      /\ \A i \in 1..n + 1 + (Len(s) - n) :
           t[i] = IF i <= n + 1 THEN h[i] ELSE b[i - (n + 1)]
  <2>1. /\ t \in Seq(X) /\ Len(t) = Len(h) + Len(b)
        /\ \A i \in 1..Len(h) + Len(b) : t[i] = IF i <= Len(h) THEN h[i] ELSE b[i - Len(h)]
    <3>1. h \in Seq(X) /\ b \in Seq(X)
      BY <1>5, <1>7
    <3>2. /\ h \o b \in Seq(X) /\ Len(h \o b) = Len(h) + Len(b)
          /\ \A i \in 1..Len(h) + Len(b) :
               (h \o b)[i] = IF i <= Len(h) THEN h[i] ELSE b[i - Len(h)]
      BY <3>1, ConcatProperties
    <3> QED BY <1>8, <3>2, Zenon
  <2>2. Len(h) = n + 1 /\ Len(b) = Len(s) - n
    BY <1>5, <1>7
  <2> QED BY <2>1, <2>2, Zenon
<1>10. ASSUME NEW i \in 1..Len(s) + 1
       PROVE  t[i] = IF i <= n THEN s[i] ELSE IF i = n + 1 THEN e ELSE s[i - 1]
  <2>1. n + 1 + (Len(s) - n) = Len(s) + 1
    BY <1>1
  <2>2. t[i] = IF i <= n + 1 THEN h[i] ELSE b[i - (n + 1)]
    BY <1>9, <2>1
  <2>3. CASE i <= n + 1
    BY <1>7, <2>2, <2>3
  <2>4. CASE ~ (i <= n + 1)
    <3>1. i - (n + 1) \in 1..Len(s) - n /\ n + (i - (n + 1)) = i - 1
      BY <1>1, <2>4
    <3> QED BY <1>5, <2>2, <2>4, <3>1
  <2> QED BY <2>3, <2>4
<1>11. n + 1 + (Len(s) - n) = Len(s) + 1
  BY <1>1
<1>12. PutIn(t, s, n, e)
  BY <1>10 DEF PutIn
<1> QED BY <1>9, <1>11, <1>12

\* The order of a sorted set is total on the events.
LEMMA BeforeOrders ==
  ASSUME NEW e \in SessionEvents, NEW f \in SessionEvents, NEW g \in SessionEvents
  PROVE  /\ Before(e, f) /\ Before(f, g) => Before(e, g)
         /\ Before(e, f) \/ Before(f, e) \/ e = f
<1>1. /\ e.id \in Int /\ e.timestamp \in Int /\ f.id \in Int /\ f.timestamp \in Int
      /\ g.id \in Int /\ g.timestamp \in Int /\ (e.id = f.id => e = f)
  BY SessionAssumption, Zenon DEF SessionAssumption
<1> QED BY <1>1 DEF Before

InOrder(s) == \A i, j \in DOMAIN s : i < j => Before(s[i], s[j])

\* ZADD leaves a sorted set sorted.
LEMMA AddedFacts ==
  ASSUME events \in Seq(SessionEvents), NEW e \in SessionEvents, NEW t, t = Added(e),
         InOrder(events)
  PROVE  t \in Seq(SessionEvents) /\ t # << >> /\ Len(t) <= Len(events) + 1 /\ InOrder(t)
<1>1. /\ Len(events) \in Nat /\ DOMAIN events = 1..Len(events)
      /\ \A i \in DOMAIN events : events[i] \in SessionEvents
  BY LenProperties, ElementOfSeq
<1>2. CASE e \in ToSet(events)
  <2>1. t = events
    BY <1>2 DEF Added
  <2>2. \E i \in DOMAIN events : TRUE
    BY <1>2 DEF ToSet
  <2>3. events # << >>
    BY <1>1, <2>2, EmptySeq
  <2> QED BY <1>1, <2>1, <2>3
<1>3. CASE e \notin ToSet(events)
  <2> DEFINE D == {i \in DOMAIN events : Before(events[i], e)}
             n == Cardinality(D)
  <2>1. D \in SUBSET (1..Len(events))
    BY <1>1
  <2>2. \A j \in D : \A i \in 1..Len(events) : i < j => i \in D
    <3> SUFFICES ASSUME NEW j \in D, NEW i \in 1..Len(events), i < j PROVE i \in D
      OBVIOUS
    <3>1. j \in DOMAIN events /\ i \in DOMAIN events /\ Before(events[j], e)
      BY <1>1
    <3>2. Before(events[i], events[j])
      BY <3>1 DEF InOrder
    <3>3. Before(events[i], e)
      BY <1>1, <3>1, <3>2, BeforeOrders
    <3> QED BY <3>1, <3>3
  <2>3. n \in 0..Len(events) /\ D = 1..n
    <3> HIDE DEF D
    <3> QED BY <1>1, <2>1, <2>2, FirstOnes
  <2>4. t = InsertAt(events, n + 1, e)
    BY <1>3 DEF Added
  <2>5. \A i \in 1..Len(events) : i <= n <=> Before(events[i], e)
    <3>1. \A i \in 1..Len(events) : i \in D <=> Before(events[i], e)
      BY <1>1
    <3> HIDE DEF D, n
    <3>2. \A i \in 1..Len(events) : i \in D <=> i <= n
      BY <2>3
    <3> QED BY <3>1, <3>2
  <2> HIDE DEF D, n
  <2>6. /\ t \in Seq(SessionEvents) /\ Len(t) = Len(events) + 1
        /\ \A i \in 1..Len(events) + 1 :
             t[i] = IF i <= n THEN events[i] ELSE IF i = n + 1 THEN e ELSE events[i - 1]
    <3>1. t \in Seq(SessionEvents) /\ Len(t) = Len(events) + 1 /\ PutIn(t, events, n, e)
      BY <2>3, <2>4, InsertFacts
    <3> QED BY <3>1 DEF PutIn
  <2>7. \A i \in 1..Len(events) : ~ (i <= n) => Before(e, events[i])
    <3> SUFFICES ASSUME NEW i \in 1..Len(events), ~ (i <= n) PROVE Before(e, events[i])
      OBVIOUS
    <3>1. events[i] \in SessionEvents /\ events[i] # e /\ ~ Before(events[i], e)
      BY <1>1, <1>3, <2>5 DEF ToSet
    <3> QED BY <3>1, BeforeOrders
  <2>8. DOMAIN t = 1..Len(events) + 1
    BY <2>6, LenProperties
  <2>9. ASSUME NEW i \in DOMAIN t, NEW j \in DOMAIN t, i < j PROVE Before(t[i], t[j])
    <3>0. i \in 1..Len(events) + 1 /\ j \in 1..Len(events) + 1 /\ n \in Nat /\ n <= Len(events)
      BY <1>1, <2>3, <2>8
    <3>1. CASE j <= n
      <4>1. i \in DOMAIN events /\ j \in DOMAIN events /\ t[i] = events[i] /\ t[j] = events[j]
        BY <1>1, <2>6, <2>9, <3>0, <3>1
      <4> QED BY <2>9, <4>1 DEF InOrder
    <3>2. CASE j = n + 1
      <4>1. i <= n /\ i \in 1..Len(events) /\ t[i] = events[i] /\ t[j] = e
        BY <1>1, <2>6, <2>9, <3>0, <3>2
      <4> QED BY <2>5, <4>1
    <3>3. CASE j > n + 1 /\ i = n + 1
      <4>1. j - 1 \in 1..Len(events) /\ ~ (j - 1 <= n) /\ t[i] = e /\ t[j] = events[j - 1]
        BY <1>1, <2>6, <3>0, <3>3
      <4> QED BY <2>7, <4>1
    <3>4. CASE j > n + 1 /\ i <= n
      <4>1. /\ i \in DOMAIN events /\ j - 1 \in DOMAIN events /\ i < j - 1
            /\ t[i] = events[i] /\ t[j] = events[j - 1]
        BY <1>1, <2>6, <3>0, <3>4
      <4> QED BY <4>1 DEF InOrder
    <3>5. CASE j > n + 1 /\ i > n + 1
      <4>1. /\ i - 1 \in DOMAIN events /\ j - 1 \in DOMAIN events /\ i - 1 < j - 1
            /\ t[i] = events[i - 1] /\ t[j] = events[j - 1]
        BY <1>1, <2>6, <2>9, <3>0, <3>5
      <4> QED BY <4>1 DEF InOrder
    <3> QED BY <2>9, <3>0, <3>1, <3>2, <3>3, <3>4, <3>5
  <2>10. InOrder(t)
    BY <2>9 DEF InOrder
  <2>11. t # << >>
    BY <1>1, <2>6, EmptySeq
  <2> QED BY <1>1, <2>6, <2>10, <2>11
<1> QED BY <1>2, <1>3

\* A change of the events is noted by the views it disturbs.
LEMMA ViewDisturbed ==
  ASSUME SessionTyped, ViewKept, NEW after \in Seq(SessionEvents), events' = after, Disturb(after)
  PROVE  view' \in ViewState /\ ViewKept'
<1>1. view \in ViewState /\ events \in Seq(SessionEvents) /\ view.listed \in Seq(SessionEvents)
  BY DEF SessionTyped, ViewState
<1>2. CASE view.kind \in {"idle", "shown"}
  <2>1. view' = view
    BY <1>2 DEF Disturb
  <2> QED BY <1>1, <1>2, <2>1 DEF ViewKept
<1>3. CASE view.kind \notin {"idle", "shown"}
  <2>1. PICK b : b = (view.shifted \/ ~ IsPrefix(events, after))
    OBVIOUS
  <2>2. b \in BOOLEAN
    BY <2>1, Zenon
  <2>3. b \/ (~ view.shifted /\ Heads(events, after))
    <3>1. b \/ (~ view.shifted /\ IsPrefix(events, after))
      BY <2>1, Zenon
    <3> QED BY <1>1, <3>1, PrefixHeads
  <2>4. PICK d : d = [[view EXCEPT !.touched = TRUE] EXCEPT !.shifted = b]
    OBVIOUS
  <2>5. view' = d
    <3>1. view' = [view EXCEPT !.touched = TRUE, !.shifted = b]
      BY <1>3, <2>1, Zenon DEF Disturb
    <3> QED BY <1>1, <2>4, <3>1 DEF ViewState
  <2>6. /\ d \in ViewState /\ d.kind = view.kind /\ d.listed = view.listed /\ d.meta = view.meta
        /\ d.page = view.page /\ d.size = view.size /\ d.touched /\ d.shifted = b
    BY <1>1, <2>2, <2>4 DEF ViewState
  <2>7. CASE view.kind = "detail"
    BY <2>5, <2>6, <2>7 DEF ViewKept
  <2>8. CASE view.kind = "listing"
    <3>1. ~ b => Len(d.listed) = (d.page - 1) * d.size /\ Heads(d.listed, after)
      <4> SUFFICES ASSUME ~ b PROVE Len(d.listed) = (d.page - 1) * d.size /\ Heads(d.listed, after)
        OBVIOUS
      <4>1. Len(view.listed) = (view.page - 1) * view.size /\ Heads(view.listed, events)
        BY <2>3, <2>8 DEF ViewKept
      <4>2. Heads(events, after)
        BY <2>3
      <4>3. Len(view.listed) \in Nat /\ Len(events) \in Nat /\ Len(after) \in Nat
        BY <1>1, LenProperties
      <4>4. Heads(view.listed, after)
        BY <4>1, <4>2, <4>3 DEF Heads
      <4> QED BY <2>6, <4>1, <4>4
    <3> QED BY <2>2, <2>5, <2>6, <2>8, <3>1 DEF ViewKept
  <2> QED BY <1>1, <1>3, <2>5, <2>6, <2>7, <2>8 DEF ViewState
<1> QED BY <1>2, <1>3

\* A write of the store leaves the session counted and its set sorted.
LEMMA StoredFacts ==
  ASSUME SessionInv, NEW e \in SessionEvents, NEW ttl \in SessionTtls, StoreEvent(e, ttl),
         store' = store
  PROVE  /\ session' \in {NoStoredSession} \cup SessionRecord /\ events' \in Seq(SessionEvents)
         /\ view' \in ViewState /\ life' \in [id : Nat, appends : Nat]
         /\ CountKept' /\ ListedInOrder' /\ ViewKept'
<1>0. /\ store \in {"redis", "memory"} /\ session \in {NoStoredSession} \cup SessionRecord
      /\ events \in Seq(SessionEvents) /\ life \in [id : Nat, appends : Nat]
      /\ Len(events) \in Nat /\ ViewKept
  BY LenProperties DEF SessionInv, SessionTyped
<1>1. NoStoredSession \notin SessionRecord
  <2>1. NoStoredSession \notin SessionRecord \cup PendingRecord
    BY SessionAssumption, Zenon DEF SessionAssumption
  <2> QED BY <2>1
<1>2. /\ (session = NoStoredSession) = (events = << >>)
      /\ session = NoStoredSession => life.appends = 0
      /\ session # NoStoredSession =>
           /\ session.count = life.appends /\ Len(events) <= session.count
           /\ store = "memory" => Len(events) = session.count
  BY DEF SessionInv, CountKept, CountIsAppends
<1>3. e.id \in Int /\ e.channel \in {f.channel : f \in SessionEvents}
  BY SessionAssumption DEF SessionAssumption
<1>4. /\ life' = [id |-> IF session = NoStoredSession THEN life.id + 1 ELSE life.id,
                  appends |-> life.appends + 1]
      /\ Disturb(events')
  BY DEF StoreEvent
<1>5. life' \in [id : Nat, appends : Nat] /\ life'.appends = life.appends + 1
  BY <1>0, <1>4
<1>6. /\ events' \in Seq(SessionEvents) /\ events' # << >> /\ ListedInOrder'
      /\ session' \in SessionRecord /\ session'.count = life.appends + 1
      /\ Len(events') <= life.appends + 1
      /\ store = "memory" => Len(events') = life.appends + 1
  <2>1. CASE store = "redis"
    <3>1. /\ events' = Added(e)
          /\ session' = IF session = NoStoredSession
                        THEN [id |-> life.id + 1, channel |-> e.channel, count |-> 1]
                        ELSE [session EXCEPT !.count = @ + 1]
      BY <2>1 DEF StoreEvent, LuaAppend
    <3>2. InOrder(events)
      BY <2>1 DEF SessionInv, ListedInOrder, InOrder
    <3>3. PICK t : t = Added(e)
      OBVIOUS
    <3>4. /\ t \in Seq(SessionEvents) /\ t # << >> /\ Len(t) <= Len(events) + 1 /\ InOrder(t)
          /\ Len(t) \in Nat
      BY <1>0, <3>2, <3>3, AddedFacts, LenProperties
    <3>5. ListedInOrder'
      BY <3>1, <3>3, <3>4 DEF ListedInOrder, InOrder
    <3>6. CASE session = NoStoredSession
      <4>1. events = << >> /\ Len(events) = 0
        BY <1>2, <3>6, EmptySeq
      <4>2. session' = [id |-> life.id + 1, channel |-> e.channel, count |-> 1]
        BY <3>1, <3>6
      <4>3. session' \in SessionRecord /\ session'.count = 1
        BY <1>0, <1>3, <4>2 DEF SessionRecord
      <4> QED BY <1>2, <2>1, <3>1, <3>3, <3>4, <3>5, <3>6, <4>1, <4>3
    <3>7. CASE session # NoStoredSession
      <4>1. session \in SessionRecord
        BY <1>0, <3>7
      <4>2. session' = [session EXCEPT !.count = @ + 1]
        BY <3>1, <3>7
      <4>3. session' \in SessionRecord /\ session'.count = session.count + 1
        BY <4>1, <4>2 DEF SessionRecord
      <4> QED BY <1>0, <1>2, <2>1, <3>1, <3>3, <3>4, <3>5, <3>7, <4>3
    <3> QED BY <3>6, <3>7
  <2>2. CASE store = "memory"
    <3>1. /\ events' = Append(events, e)
          /\ session' = [id |-> IF session = NoStoredSession THEN e.id ELSE session.id,
                         channel |-> e.channel, count |-> Len(events) + 1]
      BY <2>2 DEF StoreEvent, MemoryAppend
    <3>2. events' \in Seq(SessionEvents) /\ Len(events') = Len(events) + 1
      BY <1>0, <3>1, AppendProperties
    <3>3. events' # << >>
      BY <1>0, <3>2, EmptySeq
    <3>4. Len(events) = life.appends
      <4>1. CASE session = NoStoredSession
        BY <1>2, <4>1, EmptySeq
      <4>2. CASE session # NoStoredSession
        BY <1>2, <2>2, <4>2
      <4> QED BY <4>1, <4>2
    <3>5. session' \in SessionRecord /\ session'.count = Len(events) + 1
      <4>1. (IF session = NoStoredSession THEN e.id ELSE session.id) \in Int
        BY <1>0, <1>3 DEF SessionRecord
      <4> QED BY <1>0, <1>3, <3>1, <4>1 DEF SessionRecord
    <3>6. ListedInOrder'
      BY <2>2 DEF ListedInOrder
    <3> QED BY <1>0, <3>2, <3>3, <3>4, <3>5, <3>6
  <2> QED BY <1>0, <2>1, <2>2
<1>7. view' \in ViewState /\ ViewKept'
  <2>1. PICK after : after = events'
    OBVIOUS
  <2> QED BY <1>0, <1>4, <1>6, <2>1, ViewDisturbed DEF SessionInv
<1>8. CountKept'
  BY <1>1, <1>5, <1>6 DEF CountKept, CountIsAppends
<1> QED BY <1>5, <1>6, <1>7, <1>8

LEMMA SessionInit_Inv == SessionInit => SessionInv
<1> SUFFICES ASSUME SessionInit PROVE SessionInv
  OBVIOUS
<1>1. IdleView \in ViewState
  <2>1. << >> \in Seq(SessionEvents)
    BY EmptySeq
  <2> QED BY <2>1 DEF IdleView, ViewState
<1>2. SessionTyped
  BY <1>1, EmptySeq DEF SessionInit, SessionTyped
<1>3. CountKept /\ ListedInOrder
  BY DEF SessionInit, CountKept, CountIsAppends, ListedInOrder
<1>4. ViewKept
  BY DEF SessionInit, ViewKept, IdleView
<1> QED BY <1>2, <1>3, <1>4 DEF SessionInv

\* s is the pages of list before this one.
PagesBefore(s, list, page, size) ==
  page >= 1 /\ Len(s) = (page - 1) * size /\ Heads(s, list)

WithPage(s, list, page, size) == s \o Page(list, page, size)

\* A page joins the pages before it.
LEMMA PageJoins ==
  ASSUME NEW X, NEW s \in Seq(X), NEW list \in Seq(X), NEW page \in Nat, NEW size \in Nat,
         PagesBefore(s, list, page, size)
  PROVE  /\ Heads(WithPage(s, list, page, size), list)
         /\ Len(WithPage(s, list, page, size)) = AtMost(page * size, Len(list))
<1>0. page >= 1 /\ Len(s) = (page - 1) * size /\ Heads(s, list)
  BY DEF PagesBefore
<1>t. PICK t : t = WithPage(s, list, page, size)
  OBVIOUS
<1>1. PICK p : p = Slice(list, page, size)
  OBVIOUS
<1>2. p = Page(list, page, size)
  BY <1>1 DEF Slice, Page, AtMost
<1>3. Len(s) \in Nat /\ Len(list) \in Nat
  BY LenProperties
<1>4. PICK n : n = IF page * size < Len(list) THEN page * size ELSE Len(list)
  OBVIOUS
<1>5. page * size = (page - 1) * size + size /\ page * size \in Nat
  BY <1>0
<1>6. n \in Nat /\ Len(s) <= n /\ n <= Len(list)
  BY <1>0, <1>3, <1>4, <1>5 DEF Heads
<1>7. /\ p \in Seq(X) /\ PieceOf(p, list, (page - 1) * size)
      /\ Len(p) = IF (page - 1) * size + 1 <= AtMost(page * size, Len(list))
                  THEN AtMost(page * size, Len(list)) - (page - 1) * size ELSE 0
  BY <1>0, <1>1, SliceFacts, Zenon
<1>8. Len(p) = n - Len(s)
  <2>1. AtMost(page * size, Len(list)) = n
    BY <1>4 DEF AtMost
  <2>2. Len(p) = IF Len(s) + 1 <= n THEN n - Len(s) ELSE 0
    BY <1>0, <1>7, <2>1
  <2>3. CASE Len(s) + 1 <= n
    BY <2>2, <2>3
  <2>4. CASE ~ (Len(s) + 1 <= n)
    <3>1. n - Len(s) = 0 /\ Len(p) = 0
      BY <1>3, <1>6, <2>2, <2>4
    <3> QED BY <3>1
  <2> QED BY <2>3, <2>4
<1>9. /\ t \in Seq(X) /\ Len(t) = Len(s) + Len(p)
      /\ \A i \in 1..Len(s) + Len(p) : t[i] = IF i <= Len(s) THEN s[i] ELSE p[i - Len(s)]
  <2>1. /\ s \o p \in Seq(X) /\ Len(s \o p) = Len(s) + Len(p)
        /\ \A i \in 1..Len(s) + Len(p) : (s \o p)[i] = IF i <= Len(s) THEN s[i] ELSE p[i - Len(s)]
    BY <1>7, ConcatProperties
  <2>2. t = s \o p
    BY <1>t, <1>2 DEF WithPage
  <2> QED BY <2>1, <2>2, Zenon
<1>10. Len(t) = n
  BY <1>3, <1>6, <1>8, <1>9
<1>11. ASSUME NEW i \in 1..n PROVE t[i] = list[i]
  <2>1. t[i] = IF i <= Len(s) THEN s[i] ELSE p[i - Len(s)]
    <3>1. i \in 1..Len(s) + Len(p)
      BY <1>3, <1>6, <1>8
    <3> QED BY <1>9, <3>1, Zenon
  <2>2. CASE i <= Len(s)
    BY <1>0, <1>3, <2>1, <2>2 DEF Heads
  <2>3. CASE ~ (i <= Len(s))
    <3>1. i - Len(s) \in DOMAIN p
      <4>1. DOMAIN p = 1..n - Len(s)
        BY <1>7, <1>8, LenProperties
      <4> QED BY <1>3, <1>6, <2>3, <4>1
    <3>2. p[i - Len(s)] = list[(i - Len(s)) + (page - 1) * size]
      BY <1>7, <3>1 DEF PieceOf
    <3>3. (i - Len(s)) + (page - 1) * size = i
      BY <1>0, <1>3
    <3> QED BY <2>1, <2>3, <3>2, <3>3
  <2> QED BY <2>2, <2>3
<1>12. Heads(t, list)
  BY <1>6, <1>10, <1>11 DEF Heads
<1> QED BY <1>t, <1>4, <1>10, <1>12 DEF AtMost

\* A page answered continues the listing, or ends it with the whole history.
LEMMA PageFacts ==
  ASSUME SessionInv, PageAnswered PROVE view' \in ViewState /\ ViewKept'
<1>0. /\ view \in ViewState /\ events \in Seq(SessionEvents) /\ Len(events) \in Nat
      /\ view.listed \in Seq(SessionEvents) /\ view.page \in Nat /\ view.size \in Nat
      /\ view.page >= 1 /\ view.size >= 1 /\ view.kind = "listing" /\ view.read
  BY LenProperties DEF SessionInv, SessionTyped, ViewState, PageAnswered
<1>1. PICK p : p = Page(events, view.page, view.size)
  OBVIOUS
<1>2. PICK t : t = view.listed \o p
  OBVIOUS
<1>3. PICK last : last = (view.page * view.size >= Len(events))
  OBVIOUS
<1>s. PICK shown : shown = IF last THEN events ELSE << >>
  OBVIOUS
<1>4. PICK d : d = [view EXCEPT !.kind = IF last THEN "shown" ELSE "listing",
                                !.answer = shown, !.total = Len(events), !.listed = t,
                                !.read = FALSE, !.page = @ + 1]
  OBVIOUS
<1>5. view' = d
  BY <1>1, <1>2, <1>3, <1>s, <1>4, Zenon DEF PageAnswered
<1>6. p \in Seq(SessionEvents)
  <2>1. PICK q : q = Slice(events, view.page, view.size)
    OBVIOUS
  <2>2. p = q
    BY <1>1, <2>1 DEF Slice, Page, AtMost
  <2>3. q \in Seq(SessionEvents)
    BY <1>0, <2>1, SliceWithin, Zenon
  <2> QED BY <2>2, <2>3
<1>7. t \in Seq(SessionEvents)
  BY <1>0, <1>2, <1>6, ConcatProperties
<1>8. /\ d.kind = IF last THEN "shown" ELSE "listing"
      /\ ~ d.read /\ d.page = view.page + 1 /\ d.answer = shown /\ d.total = Len(events)
      /\ d.listed = t /\ d.meta = view.meta /\ d.size = view.size /\ d.touched = view.touched
      /\ d.shifted = view.shifted /\ d.touched \in BOOLEAN /\ d.shifted \in BOOLEAN
  BY <1>0, <1>4 DEF ViewState
<1>9. d \in ViewState
  <2>1. (IF last THEN "shown" ELSE "listing") \in {"idle", "detail", "listing", "shown"}
    OBVIOUS
  <2>2. view.page + 1 \in Nat \ {0}
    BY <1>0
  <2>3. shown \in Seq(SessionEvents)
    BY <1>0, <1>s
  <2> QED BY <1>0, <1>4, <1>7, <2>1, <2>2, <2>3 DEF ViewState
<1>10. ~ view.shifted => Heads(t, events) /\ Len(t) = AtMost(view.page * view.size, Len(events))
  <2> SUFFICES ASSUME ~ view.shifted
               PROVE  Heads(t, events) /\ Len(t) = AtMost(view.page * view.size, Len(events))
    OBVIOUS
  <2>1. Len(view.listed) = (view.page - 1) * view.size /\ Heads(view.listed, events)
    BY <1>0 DEF SessionInv, ViewKept
  <2>2. t = view.listed \o Page(events, view.page, view.size)
    BY <1>1, <1>2
  <2>3. /\ view.listed \in Seq(SessionEvents) /\ events \in Seq(SessionEvents)
        /\ view.page \in Nat /\ view.size \in Nat /\ view.page >= 1
    BY <1>0
  <2>4. PICK s \in Seq(SessionEvents) : s = view.listed
    BY <2>3
  <2>5. PICK page \in Nat : page = view.page /\ page >= 1
    BY <2>3
  <2>6. PICK size \in Nat : size = view.size
    BY <2>3
  <2>7. PagesBefore(s, events, page, size) /\ t = s \o Page(events, page, size)
    BY <2>1, <2>2, <2>4, <2>5, <2>6 DEF PagesBefore
  <2>8. Heads(t, events) /\ Len(t) = AtMost(page * size, Len(events))
    <3>1. /\ s \in Seq(SessionEvents) /\ events \in Seq(SessionEvents)
          /\ page \in Nat /\ size \in Nat /\ PagesBefore(s, events, page, size)
      BY <2>3, <2>4, <2>5, <2>6, <2>7
    <3>2. /\ Heads(WithPage(s, events, page, size), events)
          /\ Len(WithPage(s, events, page, size)) = AtMost(page * size, Len(events))
      BY <3>1, PageJoins
    <3>3. t = WithPage(s, events, page, size)
      BY <2>7 DEF WithPage
    <3> QED BY <3>2, <3>3
  <2> QED BY <2>5, <2>6, <2>8
<1>11. view.page * view.size \in Nat
  BY <1>0
<1>12. CASE last
  <2>1. view.page * view.size >= Len(events)
    BY <1>3, <1>12
  <2>2. ~ view.shifted => t = events
    <3> SUFFICES ASSUME ~ view.shifted PROVE t = events
      OBVIOUS
    <3>1. Len(t) = Len(events) /\ Heads(t, events)
      BY <1>0, <1>10, <1>11, <2>1 DEF AtMost
    <3> QED BY <1>0, <1>7, <3>1, SeqEqual DEF Heads
  <2>3. ~ view.touched => /\ view.meta = NoStoredSession => Len(events) = 0
                          /\ view.meta # NoStoredSession => Len(events) <= view.meta.count
    <3> SUFFICES ASSUME ~ view.touched
                 PROVE  /\ view.meta = NoStoredSession => Len(events) = 0
                        /\ view.meta # NoStoredSession => Len(events) <= view.meta.count
      OBVIOUS
    <3>1. view.meta = session
      BY <1>0 DEF SessionInv, ViewKept
    <3>2. /\ (session = NoStoredSession) = (events = << >>)
          /\ session # NoStoredSession => Len(events) <= session.count
      BY DEF SessionInv, CountKept, CountIsAppends
    <3> QED BY <3>1, <3>2, EmptySeq
  <2>4. d.kind = "shown"
    BY <1>8, <1>12
  <2>5. shown = events
    BY <1>s, <1>12
  <2>6. /\ view.touched \/ (/\ d.meta = NoStoredSession => d.total = 0
                            /\ d.meta # NoStoredSession => d.total <= d.meta.count)
        /\ view.shifted \/ d.listed = d.answer
    BY <1>8, <2>2, <2>3, <2>5
  <2> QED BY <1>5, <1>8, <1>9, <2>4, <2>6 DEF ViewKept
<1>13. CASE ~ last
  <2>1. ~ (view.page * view.size >= Len(events))
    BY <1>3, <1>13
  <2>2. ~ view.shifted => Len(t) = (d.page - 1) * d.size /\ Heads(t, events)
    <3>1. view.page * view.size < Len(events)
      BY <1>0, <1>11, <2>1
    <3>2. (d.page - 1) * d.size = view.page * view.size
      BY <1>0, <1>8
    <3> QED BY <1>10, <3>1, <3>2 DEF AtMost
  <2>3. d.kind = "listing"
    BY <1>8, <1>13
  <2>4. events' = events
    BY DEF PageAnswered
  <2>5. view.shifted \/ (Len(d.listed) = (d.page - 1) * d.size /\ Heads(d.listed, events))
    BY <1>8, <2>2
  <2> QED BY <1>5, <1>8, <1>9, <2>3, <2>4, <2>5 DEF ViewKept
<1> QED BY <1>12, <1>13

LEMMA SessionStep == SessionInv /\ [SessionNext]_sessionVars => SessionInv'
<1> SUFFICES ASSUME SessionInv, [SessionNext]_sessionVars PROVE SessionInv'
  OBVIOUS
<1>0. /\ store \in {"redis", "memory"} /\ session \in {NoStoredSession} \cup SessionRecord
      /\ events \in Seq(SessionEvents)
      /\ pending \in [Appenders -> {NoStoredSession} \cup PendingRecord]
      /\ view \in ViewState /\ life \in [id : Nat, appends : Nat]
      /\ CountKept /\ ListedInOrder /\ ViewKept /\ Len(events) \in Nat
  BY LenProperties DEF SessionInv, SessionTyped
\* A step that leaves the store alone.
<1>a. ASSUME store' = store, session' = session, events' = events, life' = life,
             view' \in ViewState, ViewKept',
             pending' \in [Appenders -> {NoStoredSession} \cup PendingRecord]
      PROVE  SessionInv'
  <2>1. CountKept' /\ ListedInOrder'
    BY <1>0, <1>a DEF CountKept, CountIsAppends, ListedInOrder
  <2> QED BY <1>0, <1>a, <2>1 DEF SessionInv, SessionTyped
<1>b. view' = view /\ events' = events /\ session' = session => view' \in ViewState /\ ViewKept'
  BY <1>0 DEF ViewKept
<1>1. ASSUME NEW a \in Appenders, AppendEvent(a) PROVE SessionInv'
  <2>1. PICK e \in SessionEvents, ttl \in SessionTtls : StoreEvent(e, ttl)
    BY <1>1 DEF AppendEvent
  <2>2. store' = store /\ pending' = pending
    BY <1>1 DEF AppendEvent
  <2>3. /\ session' \in {NoStoredSession} \cup SessionRecord /\ events' \in Seq(SessionEvents)
        /\ view' \in ViewState /\ life' \in [id : Nat, appends : Nat]
        /\ CountKept' /\ ListedInOrder' /\ ViewKept'
    BY <2>1, <2>2, StoredFacts
  <2> QED BY <1>0, <2>2, <2>3 DEF SessionInv, SessionTyped
<1>2. ASSUME NEW a \in Appenders, NoScript(a) PROVE SessionInv'
  <2>1. PICK e \in SessionEvents, ttl \in SessionTtls :
          pending' = [pending EXCEPT ![a] = [event |-> e, ttl |-> ttl]]
    BY <1>2 DEF NoScript
  <2>2. [event |-> e, ttl |-> ttl] \in PendingRecord
    BY DEF PendingRecord
  <2>3. pending' \in [Appenders -> {NoStoredSession} \cup PendingRecord]
    BY <1>0, <2>1, <2>2
  <2>4. store' = store /\ session' = session /\ events' = events /\ life' = life /\ view' = view
    BY <1>2 DEF NoScript
  <2> QED BY <1>a, <1>b, <2>3, <2>4
<1>3. ASSUME NEW a \in Appenders, EvalFallback(a) PROVE SessionInv'
  <2>1. pending[a] \in PendingRecord
    BY <1>0, <1>3 DEF EvalFallback
  <2>2. PICK e \in SessionEvents, ttl \in SessionTtls : StoreEvent(e, ttl)
    BY <1>3, <2>1 DEF EvalFallback, PendingRecord
  <2>3. store' = store /\ pending' \in [Appenders -> {NoStoredSession} \cup PendingRecord]
    BY <1>0, <1>3 DEF EvalFallback
  <2>4. /\ session' \in {NoStoredSession} \cup SessionRecord /\ events' \in Seq(SessionEvents)
        /\ view' \in ViewState /\ life' \in [id : Nat, appends : Nat]
        /\ CountKept' /\ ListedInOrder' /\ ViewKept'
    BY <2>2, <2>3, StoredFacts
  <2> QED BY <1>0, <2>3, <2>4 DEF SessionInv, SessionTyped
<1>4. CASE ScriptFlush \/ UNCHANGED sessionVars
  <2>1. /\ store' = store /\ session' = session /\ events' = events /\ life' = life
        /\ view' = view /\ pending' = pending
    BY <1>4 DEF ScriptFlush, sessionVars
  <2> QED BY <1>0, <1>a, <1>b, <2>1
<1>5. CASE SessionTick
  <2>1. store' = store /\ pending' = pending
    BY <1>5 DEF SessionTick
  <2>2. CASE UNCHANGED <<session, events, life, view>>
    BY <1>0, <1>a, <1>b, <2>1, <2>2
  <2>3. CASE /\ session' = NoStoredSession /\ events' = << >>
             /\ life' = [life EXCEPT !.appends = 0] /\ Disturb(<< >>)
    <3>1. PICK after \in Seq(SessionEvents) : after = << >>
      BY EmptySeq
    <3>2. view' \in ViewState /\ ViewKept'
      BY <2>3, <3>1, ViewDisturbed DEF SessionInv
    <3>3. life' \in [id : Nat, appends : Nat] /\ life'.appends = 0
      BY <1>0, <2>3
    <3>4. CountKept' /\ ListedInOrder'
      BY <2>3, <3>3 DEF CountKept, CountIsAppends, ListedInOrder
    <3>5. events' \in Seq(SessionEvents)
      BY <2>3, <3>1
    <3> QED BY <1>0, <2>1, <2>3, <3>2, <3>3, <3>4, <3>5 DEF SessionInv, SessionTyped
  <2> QED BY <1>5, <2>2, <2>3 DEF SessionTick
<1>6. CASE GetMySession
  <2>1. PICK d : d = [IdleView EXCEPT !.kind = IF session = NoStoredSession THEN "idle" ELSE "detail",
                                      !.meta = session]
    OBVIOUS
  <2>2. /\ view' = d /\ store' = store /\ session' = session /\ events' = events
        /\ life' = life /\ pending' = pending
    BY <1>6, <2>1 DEF GetMySession
  <2>3. d \in ViewState
    <3>1. << >> \in Seq(SessionEvents)
      BY EmptySeq
    <3>2. PICK k \in {"idle", "detail"} : k = IF session = NoStoredSession THEN "idle" ELSE "detail"
      OBVIOUS
    <3>3. d = [IdleView EXCEPT !.kind = k, !.meta = session]
      BY <2>1, <3>2, Zenon
    <3>4. d = [kind |-> k, read |-> FALSE, meta |-> session, page |-> 1, size |-> 1,
               answer |-> << >>, total |-> 0, listed |-> << >>, touched |-> FALSE, shifted |-> FALSE]
      BY <3>3 DEF IdleView
    <3> QED BY <1>0, <3>1, <3>2, <3>4 DEF ViewState
  <2>4. /\ d.kind = IF session = NoStoredSession THEN "idle" ELSE "detail"
        /\ d.meta = session /\ d.listed = << >> /\ d.page = 1 /\ ~ d.read
    BY <2>1 DEF IdleView
  <2>5. ViewKept'
    BY <2>2, <2>4 DEF ViewKept
  <2> QED BY <1>0, <1>a, <2>2, <2>3, <2>5
<1>7. CASE GetMyEvents
  <2>1. PICK size \in PageSizes :
          /\ view.kind = "listing" => size = view.size
          /\ view' = [view EXCEPT !.kind = "listing", !.read = TRUE, !.meta = session,
                                  !.size = size, !.touched = FALSE]
    BY <1>7 DEF GetMyEvents
  <2>2. /\ store' = store /\ session' = session /\ events' = events
        /\ life' = life /\ pending' = pending /\ view.kind \in {"idle", "listing"} /\ ~ view.read
    BY <1>7 DEF GetMyEvents
  <2>3. size \in Nat \ {0}
    BY SessionAssumption, Zenon DEF SessionAssumption
  <2>4. PICK d : d = view'
    OBVIOUS
  <2>5. d \in ViewState
    BY <1>0, <2>1, <2>3, <2>4 DEF ViewState
  <2>6. /\ d.kind = "listing" /\ d.meta = session /\ d.size = size /\ d.listed = view.listed
        /\ d.page = view.page /\ d.shifted = view.shifted
    BY <1>0, <2>1, <2>4 DEF ViewState
  <2>7. view.shifted \/ (Len(view.listed) = (view.page - 1) * size /\ Heads(view.listed, events))
    <3>1. CASE view.kind = "idle"
      <4>1. view.listed = << >> /\ view.page = 1
        BY <1>0, <3>1 DEF ViewKept
      <4>2. Len(view.listed) = 0 /\ (view.page - 1) * size = 0
        BY <2>3, <4>1, EmptySeq
      <4> QED BY <1>0, <4>2 DEF Heads
    <3>2. CASE view.kind = "listing"
      BY <1>0, <2>1, <3>2 DEF ViewKept
    <3> QED BY <2>2, <3>1, <3>2
  <2>8. view' \in ViewState /\ ViewKept'
    BY <2>2, <2>4, <2>5, <2>6, <2>7 DEF ViewKept
  <2> QED BY <1>0, <1>a, <2>2, <2>8
<1>8. CASE DetailAnswered
  <2>1. PICK found : found = GetEvents(clock - RecentWindow)
    OBVIOUS
  <2>2. PICK d : d = [view EXCEPT !.kind = "shown", !.answer = found, !.total = Len(found)]
    OBVIOUS
  <2>3. /\ view' = d /\ view.kind = "detail" /\ store' = store /\ session' = session
        /\ events' = events /\ life' = life /\ pending' = pending
    BY <1>8, <2>1, <2>2 DEF DetailAnswered
  <2>4. found \in Seq(SessionEvents) /\ Len(found) \in Nat /\ Len(found) <= Len(events)
    <3> DEFINE S == {i \in DOMAIN events : events[i].timestamp >= clock - RecentWindow}
    <3>1. S \in SUBSET DOMAIN events /\ found = Filtered(events, S)
      BY <2>1 DEF GetEvents
    <3> HIDE DEF S
    <3> QED BY <1>0, <3>1, FilteredFacts
  <2>5. d \in ViewState
    BY <1>0, <2>2, <2>4 DEF ViewState
  <2>6. /\ d.kind = "shown" /\ d.total = Len(found) /\ d.meta = view.meta
        /\ d.touched = view.touched /\ d.listed = view.listed
    BY <1>0, <2>2 DEF ViewState
  <2>7. view.meta # NoStoredSession /\ view.listed = << >> /\ (view.touched \/ view.meta = session)
    BY <1>0, <2>3 DEF ViewKept
  <2>8. session # NoStoredSession => Len(events) <= session.count /\ session.count \in Nat
    BY <1>0 DEF CountKept, CountIsAppends, SessionRecord
  <2>9. view.touched \/ Len(found) <= view.meta.count
    BY <1>0, <2>4, <2>7, <2>8
  <2>10. view' \in ViewState /\ ViewKept'
    BY <2>3, <2>5, <2>6, <2>7, <2>9 DEF ViewKept
  <2> QED BY <1>0, <1>a, <2>3, <2>10
<1>9. CASE PageAnswered
  <2>1. /\ store' = store /\ session' = session /\ events' = events /\ life' = life
        /\ pending' = pending
    BY <1>9 DEF PageAnswered
  <2> QED BY <1>0, <1>9, <1>a, <2>1, PageFacts
<1>10. CASE ViewClosed
  <2>1. /\ store' = store /\ session' = session /\ events' = events /\ life' = life
        /\ pending' = pending /\ view' = IdleView
    BY <1>10 DEF ViewClosed
  <2>2. view' \in ViewState /\ ViewKept'
    <3>1. << >> \in Seq(SessionEvents)
      BY EmptySeq
    <3> QED BY <2>1, <3>1 DEF IdleView, ViewState, ViewKept
  <2> QED BY <1>0, <1>a, <2>1, <2>2
<1> QED BY <1>1, <1>2, <1>3, <1>4, <1>5, <1>6, <1>7, <1>8, <1>9, <1>10 DEF SessionNext

\* For any events, appenders, times to live and page sizes, on either store: the count
\* counts every append once, a set is listed in order and once each, and a view or a
\* listing shows one session's history (SESSION_APPEND_LUA and its NOSCRIPT fallback,
\* getMySession, getMyEvents).
THEOREM HistoryIsKept == SessionSpec => []HistoryIsWhole
<1>1. SessionInv => CountIsAppends /\ ListedInOrder
  BY DEF SessionInv, CountKept
<1>2. SessionInv => ViewIsOneSession
  BY DEF SessionInv, ViewKept, ViewIsOneSession
<1>3. SessionInv => PagesAreTheHistory
  <2> SUFFICES ASSUME SessionInv, ~ view.shifted
               PROVE  /\ view.kind = "listing" => IsPrefix(view.listed, events)
                      /\ view.kind = "shown" /\ view.listed # << >> => view.listed = view.answer
    BY DEF PagesAreTheHistory
  <2>1. view.listed \in Seq(SessionEvents) /\ events \in Seq(SessionEvents)
    BY DEF SessionInv, SessionTyped, ViewState
  <2>2. view.kind = "listing" => Heads(view.listed, events)
    BY DEF SessionInv, ViewKept
  <2>3. view.kind = "listing" => IsPrefix(view.listed, events)
    BY <2>1, <2>2, PrefixHeads
  <2>4. view.kind = "shown" /\ view.listed # << >> => view.listed = view.answer
    BY DEF SessionInv, ViewKept
  <2> QED BY <2>3, <2>4
<1> QED BY <1>1, <1>2, <1>3, SessionInit_Inv, SessionStep, PTL DEF SessionSpec, HistoryIsWhole
==============================================================================
