-------------------------- MODULE FallbackCacheProofs --------------------------
(***************************************************************************)
(* What each method of the fallback cache keeps, for any size and keys:    *)
(* lemmas for RedisClientProofs.  The order of last use comes down to the  *)
(* least and the greatest of a finite set of numbers, which are found by   *)
(* the least-number principle, a first-order form of induction.            *)
(***************************************************************************)
EXTENDS FallbackCache, FiniteSetTheorems, WellFoundedInduction, TLAPS

USE CacheAssumption

CacheOK(q) == q \subseteq Entry /\ IsFiniteSet(q) /\ SoundCache(q)

(* The least-number principle, from the fact that < is well-founded.       *)
LEMMA LeastNumber ==
    ASSUME NEW S \in SUBSET Nat, S # {}
    PROVE  \E n \in S : \A m \in S : n <= m
    <1> DEFINE R == OpToRel(<, Nat)
    <1>1. IsWellFoundedOn(R, Nat)
        BY NatLessThanWellFounded
    <1>2. \A x, y \in Nat : x < y => <<x, y>> \in R
        BY DEF OpToRel
    <1> HIDE DEF R
    <1>3. PICK n \in S : \A m \in S : ~(<<m, n>> \in R)
        BY <1>1, WFMin
    <1>4. \A m \in S : ~(m < n)
        BY <1>2, <1>3, Zenon
    <1>5. QED BY <1>4

(* A finite set of numbers has a greatest one: a set without one that has  *)
(* the fewest elements would still have none after losing an element.      *)
LEMMA GreatestNumber ==
    ASSUME NEW S \in SUBSET Nat, IsFiniteSet(S), S # {}
    PROVE  Max(S) \in S /\ \A x \in S : x <= Max(S)
    <1> DEFINE HasMax(T) == \E x \in T : \A y \in T : y <= x
               Bad == {T \in SUBSET S : T # {} /\ ~HasMax(T)}
               Sizes == {Cardinality(T) : T \in Bad}
    <1>1. HasMax(S)
        <2> SUFFICES ASSUME ~HasMax(S) PROVE FALSE
            OBVIOUS
        <2>1. \A T \in SUBSET S : IsFiniteSet(T) /\ Cardinality(T) \in Nat
            BY FS_Subset, FS_CardinalityType
        <2>2. Sizes \in SUBSET Nat /\ Sizes # {}
            BY <2>1
        <2>3. PICK n \in Sizes : \A m \in Sizes : n <= m
            BY <2>2, LeastNumber
        <2>4. PICK T \in Bad : Cardinality(T) = n
            BY <2>3
        <2>5. PICK x \in T : TRUE
            BY <2>4
        <2> DEFINE U == T \ {x}
        <2>6. Cardinality(U) = Cardinality(T) - 1 /\ U \in SUBSET S
            BY <2>1, <2>4, <2>5, FS_RemoveElement
        <2>7. U \notin Bad
            <3>1. Cardinality(U) \in Nat /\ Cardinality(T) \in Nat /\ Cardinality(U) < n
                BY <2>1, <2>4, <2>6
            <3>2. Cardinality(U) \notin Sizes
                <4> HIDE DEF Sizes
                <4>1. n \in Nat
                    BY <2>4, <3>1
                <4>2. QED BY <2>3, <3>1, <4>1
            <3>3. QED BY <3>2
        <2>8. CASE U = {}
            <3>1. T = {x} /\ x \in Nat
                BY <2>4, <2>5, <2>8
            <3>2. QED BY <2>4, <3>1
        <2>9. CASE HasMax(U)
            <3>1. PICK m \in U : \A y \in U : y <= m
                BY <2>9
            <3>2. m \in Nat /\ x \in Nat /\ m \in T /\ T \subseteq Nat
                BY <2>4, <2>5, <3>1
            <3>3. \A y \in T : y = x \/ y <= m
                BY <3>1
            <3>4. CASE m <= x
                BY <2>4, <2>5, <3>2, <3>3, <3>4
            <3>5. CASE x <= m
                BY <2>4, <3>2, <3>3, <3>5
            <3>6. QED BY <3>2, <3>4, <3>5
        <2>10. QED BY <2>6, <2>7, <2>8, <2>9
    <1>2. PICK x \in S : \A y \in S : y <= x
        BY <1>1
    <1>3. x \in S /\ \A y \in S : x >= y
        BY <1>2
    <1>4. Max(S) \in S /\ \A y \in S : Max(S) >= y
        BY <1>3, Zenon DEF Max
    <1>5. QED BY <1>4

LEMMA LatestIsNew ==
    ASSUME NEW q, q \subseteq Entry, IsFiniteSet(q)
    PROVE  Latest(q) \in Nat /\ \A e \in q : e.used < Latest(q)
    <1> DEFINE numbers == {e.used : e \in q}
    <1>1. CASE q = {}
        BY <1>1 DEF Latest
    <1>2. CASE q # {}
        <2>1. numbers \in SUBSET Nat /\ numbers # {}
            BY <1>2 DEF Entry
        <2>2. IsFiniteSet(numbers)
            <3> DEFINE f == [e \in q |-> e.used]
            <3>1. numbers = {f[e] : e \in q} /\ f \in Surjection(q, numbers)
                BY DEF Surjection
            <3>2. QED BY <3>1, FS_Surjection
        <2>3. Max(numbers) \in Nat /\ \A x \in numbers : x <= Max(numbers)
            BY <2>1, <2>2, GreatestNumber
        <2>4. \A e \in q : e.used \in Nat /\ e.used <= Max(numbers)
            BY <2>3 DEF Entry
        <2>5. Latest(q) = Max(numbers) + 1
            BY <1>2 DEF Latest
        <2> HIDE DEF numbers
        <2>6. QED BY <2>3, <2>4, <2>5
    <1>3. QED BY <1>1, <1>2

LEMMA FewerEntries ==
    ASSUME NEW q, CacheOK(q), NEW r, r \subseteq q
    PROVE  /\ CacheOK(r)
           /\ Cardinality(r) \in Nat /\ Cardinality(q) \in Nat /\ Cardinality(r) <= Cardinality(q)
           /\ r # q => Cardinality(r) < Cardinality(q)
    <1>1. /\ IsFiniteSet(r) /\ Cardinality(r) <= Cardinality(q)
          /\ Cardinality(r) = Cardinality(q) => r = q
        BY FS_Subset DEF CacheOK
    <1>2. Cardinality(r) \in Nat /\ Cardinality(q) \in Nat
        BY <1>1, FS_CardinalityType DEF CacheOK
    <1>3. Cardinality(q) <= max_size /\ \A e, f \in q : e.key = f.key \/ e.used = f.used => e = f
        BY DEF CacheOK, SoundCache
    <1>4. Cardinality(r) <= max_size
        BY <1>1, <1>2, <1>3
    <1>5. CacheOK(r)
        BY <1>1, <1>3, <1>4 DEF CacheOK, SoundCache
    <1>6. QED BY <1>1, <1>2, <1>5

LEMMA WithEntry ==
    ASSUME NEW q, CacheOK(q), NEW k \in Keys, NEW v \in Value,
           \A e \in q : e.key # k, Cardinality(q) < max_size
    PROVE  CacheOK(With(q, k, v))
    <1> DEFINE new == [key |-> k, value |-> v, expired |-> FALSE, used |-> Latest(q)]
    <1>1. Latest(q) \in Nat /\ \A e \in q : e.used < Latest(q)
        BY LatestIsNew DEF CacheOK
    <1>2. With(q, k, v) = q \cup {new} /\ new \in Entry /\ new \notin q
        BY <1>1 DEF With, Entry
    <1>3. IsFiniteSet(q \cup {new}) /\ Cardinality(q \cup {new}) = Cardinality(q) + 1
        BY <1>2, FS_AddElement DEF CacheOK
    <1>4. Cardinality(q) \in Nat
        BY FewerEntries
    <1>5. \A e \in q : e.key # new.key /\ e.used # new.used
        <2>1. \A e \in q : e.used \in Nat
            BY DEF CacheOK, Entry
        <2>2. QED BY <1>1, <2>1
    <1> HIDE DEF new
    <1>6. Cardinality(q \cup {new}) <= max_size
        BY <1>3, <1>4
    <1>7. \A e, f \in q \cup {new} : e.key = f.key \/ e.used = f.used => e = f
        BY <1>5 DEF CacheOK, SoundCache
    <1>8. QED BY <1>2, <1>3, <1>6, <1>7 DEF CacheOK, SoundCache

(* Exactly one entry is the oldest.                                        *)
LEMMA OldestEntry ==
    ASSUME NEW q, CacheOK(q), q # {}
    PROVE  \E e \in q : {f \in q : ~IsOldest(f, q)} = q \ {e} /\ IsOldest(e, q)
    <1>1. {e.used : e \in q} \in SUBSET Nat /\ {e.used : e \in q} # {}
        BY DEF CacheOK, Entry
    <1>2. PICK n \in {e.used : e \in q} : \A m \in {e.used : e \in q} : n <= m
        BY <1>1, LeastNumber
    <1>3. PICK e \in q : e.used = n
        BY <1>2
    <1>4. IsOldest(e, q)
        BY <1>2, <1>3 DEF IsOldest
    <1>5. ASSUME NEW f \in q, IsOldest(f, q) PROVE f = e
        <2>1. f.used <= e.used /\ e.used <= f.used /\ f.used \in Nat /\ e.used \in Nat
            BY <1>4, <1>5 DEF IsOldest, CacheOK, Entry
        <2>2. QED BY <2>1 DEF CacheOK, SoundCache
    <1>6. QED BY <1>4, <1>5

LEMMA PutKeepsSound ==
    ASSUME NEW q, CacheOK(q), NEW k \in Keys, NEW v \in Value
    PROVE  CacheOK(Put(q, k, v)) /\ \A e \in Put(q, k, v) : e \in q \/ e.value = v
    <1> DEFINE others == Without(q, k)
               fits == IF Cardinality(others) >= max_size
                       THEN {e \in others : ~IsOldest(e, others)} ELSE others
    <1>1. others \subseteq q /\ \A e \in others : e.key # k
        BY DEF Without
    <1>2. CacheOK(others) /\ Cardinality(others) \in Nat
        BY <1>1, FewerEntries
    <1>3. Cardinality(others) <= max_size
        BY <1>2 DEF CacheOK, SoundCache
    <1> HIDE DEF others
    <1>4. fits \subseteq others /\ Cardinality(fits) < max_size
        <2>1. CASE Cardinality(others) >= max_size
            <3>1. others # {}
                <4>1. Cardinality({}) = 0
                    BY FS_EmptySet
                <4>2. Cardinality(others) # 0
                    BY <2>1
                <4>3. QED BY <4>1, <4>2
            <3>2. PICK e \in others : fits = others \ {e}
                BY <1>2, <2>1, <3>1, OldestEntry
            <3>3. fits # others
                BY <3>2
            <3>4. fits \subseteq others
                BY <3>2
            <3> HIDE DEF fits
            <3>5. Cardinality(fits) \in Nat /\ Cardinality(fits) < Cardinality(others)
                BY <1>2, <3>3, <3>4, FewerEntries
            <3>6. QED BY <1>2, <1>3, <3>4, <3>5
        <2>2. CASE ~(Cardinality(others) >= max_size)
            <3>1. fits = others
                BY <2>2
            <3> HIDE DEF fits
            <3>2. QED BY <1>2, <2>2, <3>1
        <2>3. QED BY <2>1, <2>2
    <1>5. Put(q, k, v) = With(fits, k, v)
        BY DEF Put, others
    <1> HIDE DEF fits
    <1>6. CacheOK(fits)
        BY <1>2, <1>4, FewerEntries
    <1>7. CacheOK(With(fits, k, v))
        BY <1>1, <1>4, <1>6, WithEntry
    <1>8. \A e \in With(fits, k, v) : e \in q \/ e.value = v
        BY <1>1, <1>4 DEF With
    <1>9. QED BY <1>5, <1>7, <1>8

LEMMA ValueIsHeld ==
    ASSUME NEW q, CacheOK(q), NEW k
    PROVE  /\ ValueOf(q, k) \in Value
           /\ ValueOf(q, k) = NoValue \/ \E e \in q : e.value = ValueOf(q, k)
           /\ HasKey(q, k) => \E e \in q : e.key = k /\ ~e.expired /\ e.value = ValueOf(q, k)
    <1>1. CASE HasKey(q, k)
        <2> DEFINE found == CHOOSE e \in q : e.key = k
        <2>1. PICK e \in q : e.key = k /\ ~e.expired
            BY <1>1 DEF HasKey
        <2>2. found \in q /\ found.key = k
            BY <2>1
        <2>3. ValueOf(q, k) = found.value
            BY <1>1 DEF ValueOf
        <2>4. found = e
            BY <2>1, <2>2 DEF CacheOK, SoundCache
        <2>5. QED BY <2>1, <2>3, <2>4 DEF CacheOK, Entry
    <1>2. CASE ~HasKey(q, k)
        BY <1>2 DEF ValueOf, Value
    <1>3. QED BY <1>1, <1>2

LEMMA TouchedKeepsSound ==
    ASSUME NEW q, CacheOK(q), NEW k \in Keys
    PROVE  /\ CacheOK(Touched(q, k))
           /\ \A e \in Touched(q, k) : \E f \in q : e.value = f.value
    <1> DEFINE fresh == {e \in q : ~e.expired}
               others == Without(fresh, k)
    <1>1. fresh \subseteq q /\ others \subseteq q /\ \A e \in others : e.key # k
        BY DEF Without
    <1>2. CacheOK(fresh) /\ CacheOK(others)
        BY <1>1, FewerEntries
    <1>3. CASE HasKey(q, k)
        <2>1. PICK f \in q : f.key = k /\ f.value = ValueOf(q, k)
            BY <1>3, ValueIsHeld
        <2>2. Cardinality(others) < max_size
            <3>1. others # q
                BY <1>1, <2>1
            <3>2. /\ Cardinality(others) \in Nat /\ Cardinality(q) \in Nat
                  /\ Cardinality(others) < Cardinality(q)
                BY <1>1, <3>1, FewerEntries
            <3>3. Cardinality(q) <= max_size
                BY DEF CacheOK, SoundCache
            <3>4. QED BY <3>2, <3>3
        <2>3. Touched(q, k) = With(others, k, ValueOf(q, k))
            BY <1>3 DEF Touched
        <2>4. ValueOf(q, k) \in Value
            BY ValueIsHeld
        <2> HIDE DEF others, fresh
        <2>5. \A e \in With(others, k, ValueOf(q, k)) : e \in others \/ e.value = f.value
            BY <2>1 DEF With
        <2>6. QED BY <1>1, <1>2, <2>2, <2>3, <2>4, <2>5, WithEntry
    <1>4. CASE ~HasKey(q, k)
        BY <1>1, <1>2, <1>4 DEF Touched
    <1>5. QED BY <1>3, <1>4

LEMMA CheckedKeepsSound ==
    ASSUME NEW q, CacheOK(q), NEW k
    PROVE  CacheOK(Checked(q, k)) /\ Checked(q, k) \subseteq q
    BY FewerEntries DEF Checked, Without

(* A live entry that put drops was the oldest of a full cache, and makes   *)
(* room for a key that was not there; get and exists drop none.            *)
Dropped(e, q, r) == e \in q /\ ~e.expired /\ \A f \in r : f.key # e.key

LEMMA WithHasKey ==
    ASSUME NEW r, NEW k, NEW v
    PROVE  r \subseteq With(r, k, v) /\ \E f \in With(r, k, v) : f.key = k
    <1> DEFINE new == [key |-> k, value |-> v, expired |-> FALSE, used |-> Latest(r)]
    <1>1. new \in With(r, k, v) /\ new.key = k
        BY DEF With
    <1>2. QED BY <1>1 DEF With

LEMMA PutDropsTheOldest ==
    ASSUME NEW q, CacheOK(q), NEW k \in Keys, NEW v \in Value, NEW e, Dropped(e, q, Put(q, k, v))
    PROVE  /\ Cardinality(q) = max_size /\ IsOldest(e, q)
           /\ \E f \in Put(q, k, v) : \A g \in q : g.key # f.key
    <1> DEFINE others == Without(q, k)
    <1>1. \E f \in Put(q, k, v) : f.key = k
        BY WithHasKey DEF Put
    <1>2. others \subseteq q /\ e \in others /\ \A g \in others : g.key # k
        BY <1>1 DEF Dropped, Without
    <1>3. CASE Cardinality(others) >= max_size
        <2>1. /\ Cardinality(others) \in Nat /\ Cardinality(q) \in Nat
              /\ Cardinality(others) <= Cardinality(q)
              /\ others # q => Cardinality(others) < Cardinality(q)
            BY <1>2, FewerEntries
        <2>2. Cardinality(q) <= max_size
            BY DEF CacheOK, SoundCache
        <2>3. others = q /\ Cardinality(q) = max_size
            BY <1>3, <2>1, <2>2
        <2>4. Put(q, k, v) = With({g \in others : ~IsOldest(g, others)}, k, v)
            BY <1>3 DEF Put
        <2>5. IsOldest(e, q)
            BY <1>2, <2>3, <2>4 DEF Dropped, With
        <2>6. QED BY <1>1, <1>2, <2>3, <2>5
    <1>4. CASE ~(Cardinality(others) >= max_size)
        <2>1. Put(q, k, v) = With(others, k, v)
            BY <1>4 DEF Put
        <2>2. e \in Put(q, k, v)
            BY <1>2, <2>1 DEF With
        <2>3. QED BY <2>2 DEF Dropped
    <1>5. QED BY <1>3, <1>4

LEMMA LooksDropNothing ==
    ASSUME NEW q, NEW k, NEW e
    PROVE  ~Dropped(e, q, Touched(q, k)) /\ ~Dropped(e, q, Checked(q, k))
    <1> SUFFICES ASSUME e \in q, ~e.expired
                 PROVE  /\ \E f \in Touched(q, k) : f.key = e.key
                        /\ \E f \in Checked(q, k) : f.key = e.key
        BY DEF Dropped
    <1>1. e.key = k => HasKey(q, k)
        BY DEF HasKey
    <1>2. \E f \in Checked(q, k) : f.key = e.key
        BY <1>1 DEF Checked, Without
    <1>3. \E f \in Touched(q, k) : f.key = e.key
        <2>1. CASE HasKey(q, k)
            <3> DEFINE kept == Without({f \in q : ~f.expired}, k)
            <3>1. Touched(q, k) = With(kept, k, ValueOf(q, k))
                BY <2>1 DEF Touched
            <3>2. e.key # k => e \in kept
                BY DEF Without
            <3> HIDE DEF kept
            <3>3. QED BY <3>1, <3>2, WithHasKey
        <2>2. CASE ~HasKey(q, k)
            BY <1>1, <2>2 DEF Touched
        <2>3. QED BY <2>1, <2>2
    <1>4. QED BY <1>2, <1>3

=============================================================================
