---------------------------- MODULE FallbackCache ----------------------------
(***************************************************************************)
(* InMemoryFallbackCache of utils/redis_client.py: the OrderedDict _cache  *)
(* with _expiry beside it, as a set of entries numbered in the order of    *)
(* their last use (used), which is the order of the OrderedDict.  Every    *)
(* entry has a time to live (default_ttl), which may run out at any moment *)
(* (expired); it then stays until something removes it.                    *)
(*                                                                         *)
(* Each method runs under the cache's lock and is one operator on the set. *)
(***************************************************************************)
EXTENDS Naturals, FiniteSets, FiniteSetsExt

CONSTANTS
    Keys,
    NoValue,   \* Python's None
    max_size   \* 1000 in the code

ASSUME CacheAssumption == max_size \in Nat \ {0} /\ NoValue \notin Nat

Value == Nat \cup {NoValue}
Entry == [key : Keys, value : Value, expired : BOOLEAN, used : Nat]

Without(q, k) == {e \in q : e.key # k}
HasKey(q, k) == \E e \in q : e.key = k /\ ~e.expired

(* The value of a key, NoValue when there is none.                         *)
ValueOf(q, k) == IF HasKey(q, k) THEN (CHOOSE e \in q : e.key = k).value ELSE NoValue

(* A new entry is the latest.                                              *)
Latest(q) == IF q = {} THEN 0 ELSE Max({e.used : e \in q}) + 1
With(q, k, v) == q \cup {[key |-> k, value |-> v, expired |-> FALSE, used |-> Latest(q)]}
IsOldest(e, q) == e \in q /\ \A f \in q : e.used <= f.used

(* Mutant: room is made one entry too late.                                *)
Put_Late(q, k, v) ==
    LET others == Without(q, k)
        fits == IF Cardinality(others) > max_size
                THEN {e \in others : ~IsOldest(e, others)} ELSE others
    IN  With(fits, k, v)

(* set: the old entry goes, the least recently used one too when there is  *)
(* no room (an expired entry takes up room).                               *)
Put(q, k, v) ==
    LET others == Without(q, k)
        fits == IF Cardinality(others) >= max_size
                THEN {e \in others : ~IsOldest(e, others)} ELSE others
    IN  With(fits, k, v)

(* Mutant: the value found is taken out and not put back.                  *)
Touched_Popped(q, k) == {e \in q : ~e.expired /\ e.key # k}

(* get: the expired entries go, the one found becomes the latest.          *)
Touched(q, k) ==
    LET fresh == {e \in q : ~e.expired}
    IN  IF HasKey(q, k) THEN With(Without(fresh, k), k, ValueOf(q, k)) ELSE fresh

(* exists: an expired entry goes.                                          *)
Checked(q, k) == IF HasKey(q, k) THEN q ELSE Without(q, k)

(* The cache holds at most max_size entries and one per key, so a key      *)
(* never hides an older value of itself, and their order is total.         *)
SoundCache(q) ==
    /\ Cardinality(q) <= max_size
    /\ \A e, f \in q : e.key = f.key \/ e.used = f.used => e = f
=============================================================================
