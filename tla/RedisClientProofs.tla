-------------------------- MODULE RedisClientProofs --------------------------
(***************************************************************************)
(* Theorems about RedisClient, for any finite number of threads, any limit *)
(* and any number of attempts, requests and reconnections, and any size of *)
(* the fallback cache.  Inv is what the requests and their counts keep;    *)
(* CacheInv is about the fallback cache, ConnectInv about who connects, and*)
(* both rest on Inv for where each thread is.                              *)
(***************************************************************************)
EXTENDS RedisClient, FallbackCacheProofs

USE CacheAssumption, ClientAssumption

TypeInv ==
    /\ BreakerTypeOK
    /\ redis \in [Keys -> Value]
    /\ fellBack \in BOOLEAN
    /\ where \in [Callers -> {"idle"} \cup Requesting \cup Connecting]
    /\ op \in [Callers -> Operations] /\ on \in [Callers -> Keys]
    /\ held = [c \in Callers |-> held[c]]
    /\ check \in [Callers -> Checks]
    /\ total_requests \in Nat /\ successful_requests \in Nat /\ failed_requests \in Nat
    /\ fallback_hits \in Nat /\ allowed \in Nat

(* A thread is in the breaker only to try or to ping; only requests of a   *)
(* check are on RateKey, and they are the check's; once one of them has    *)
(* read the cache, fellBack says so.                                       *)
ThreadOK(c) ==
    /\ calling[c] # "out" => where[c] \in {"try", "probe", "confirm"}
    /\ where[c] \in Connecting => check[c] = "none"
    /\ where[c] \in Requesting =>
          IF check[c] = "none" THEN on[c] # RateKey ELSE on[c] = RateKey /\ op[c] = check[c]
    /\ where[c] \in {"second", "third"} /\ check[c] # "none" => fellBack

(* The request of thread c has its answer from Redis.                      *)
Answered(c) == calling[c] = "ok" \/ where[c] \in {"succeeded", "idle"}

(* The threads whose check has raised the count and has not ended.         *)
Raised == {c \in Callers : check[c] = "expire" \/ (check[c] = "incr" /\ Answered(c))}

(* The threads whose check has read a count below the limit and has not    *)
(* ended: they will be let through, whatever the count is by now.          *)
Passed == {c \in Callers : \/ check[c] \in {"incr", "expire"}
                           \/ check[c] = "get" /\ Answered(c) /\ ~OverLimit(held[c])}

RaisedIsCounted == ~fellBack => allowed + Cardinality(Raised) <= Number(redis[RateKey])
PassedIsBounded == ~fellBack => allowed + Cardinality(Passed) <= limit + Cardinality(Callers) - 1

Inv ==
    /\ TypeInv
    /\ \A c \in Callers : ThreadOK(c)
    /\ MetricsBalance
    /\ RaisedIsCounted
    /\ PassedIsBounded

-----------------------------------------------------------------------------
(* Counting threads.                                                       *)

LEMMA ThreadsCount ==
    ASSUME NEW S \in SUBSET Callers
    PROVE  IsFiniteSet(S) /\ Cardinality(S) \in Nat /\ Cardinality(S) <= Cardinality(Callers)
    BY FS_Subset, FS_CardinalityType

LEMMA OneMoreThread ==
    ASSUME NEW S \in SUBSET Callers, NEW c \in Callers, c \notin S
    PROVE  Cardinality(S \cup {c}) = Cardinality(S) + 1
    BY ThreadsCount, FS_AddElement

LEMMA OneThreadLess ==
    ASSUME NEW S \in SUBSET Callers, NEW c \in S
    PROVE  Cardinality(S \ {c}) = Cardinality(S) - 1
    BY ThreadsCount, FS_RemoveElement

LEMMA NumberType == \A v \in Value : Number(v) \in Nat
    BY DEF Value, Number

LEMMA AfterType ==
    ASSUME NEW o \in Operations, NEW v \in Value
    PROVE  After(o, v) \in Value
    BY NumberType DEF After, Value, Number

LEMMA InitInv == Init => Inv
    <1> SUFFICES ASSUME Init PROVE Inv
        OBVIOUS
    <1>1. PICK n \in 0..limit :
              /\ redis = [k \in Keys |-> IF k = RateKey /\ n > 0 THEN n ELSE NoValue]
              /\ allowed = n
        BY DEF Init
    <1>2. TypeInv
        <2>1. redis \in [Keys -> Value] /\ allowed \in Nat
            BY <1>1 DEF Value
        <2>2. QED BY <2>1 DEF Init, TypeInv, BreakerInit, BreakerTypeOK, States, Phases, Value,
                              Operations, Checks
    <1>3. ASSUME NEW c \in Callers PROVE ThreadOK(c)
        BY DEF Init, ThreadOK, BreakerInit, Connecting, Requesting
    <1>4. Raised = {} /\ Passed = {} /\ Uncounted = {}
        BY DEF Init, Raised, Passed, Uncounted
    <1>5. MetricsBalance
        BY <1>4, FS_EmptySet DEF Init, MetricsBalance
    <1>6. RaisedIsCounted
        BY <1>1, <1>4, FS_EmptySet DEF RaisedIsCounted, Number
    <1>7. Cardinality(Callers) \in Nat /\ Cardinality(Callers) >= 1
        BY FS_EmptySet, FS_CardinalityType
    <1>8. PassedIsBounded
        BY <1>1, <1>4, <1>7, FS_EmptySet DEF PassedIsBounded
    <1>9. QED BY <1>2, <1>3, <1>5, <1>6, <1>8 DEF Inv

-----------------------------------------------------------------------------
(* What a step has to show of the counts.                                  *)

LEMMA CountsKept ==
    ASSUME Inv, Raised' = Raised, Passed' = Passed, allowed' = allowed,
           redis'[RateKey] = redis[RateKey], fellBack => fellBack'
    PROVE  RaisedIsCounted' /\ PassedIsBounded'
    BY DEF Inv, RaisedIsCounted, PassedIsBounded

LEMMA MetricsKept ==
    ASSUME Inv, Uncounted' = Uncounted, UNCHANGED metrics
    PROVE  MetricsBalance'
    BY DEF Inv, MetricsBalance, metrics

(* A step of one thread leaves the others as they are.                     *)
LEMMA OthersKept ==
    ASSUME Inv, NEW c \in Callers, ThreadOK(c)', fellBack => fellBack',
           \A d \in Callers \ {c} : /\ calling'[d] = calling[d] /\ where'[d] = where[d]
                                   /\ check'[d] = check[d] /\ on'[d] = on[d] /\ op'[d] = op[d]
    PROVE  \A d \in Callers : ThreadOK(d)'
    <1>1. ASSUME NEW d \in Callers \ {c} PROVE ThreadOK(d)'
        BY <1>1 DEF Inv, ThreadOK
    <1>2. QED BY <1>1

-----------------------------------------------------------------------------
(* _execute_with_fallback and _fallback_operation.                         *)

LEMMA AttemptInv ==
    ASSUME Inv, NEW c \in Callers, Attempt(c)
    PROVE  Inv'
    <1>1. TypeInv'
        BY DEF Inv, TypeInv, Attempt, MayAdmit, Move, BreakerTypeOK, States, Phases, bVars, metrics,
               history
    <1>2. /\ UNCHANGED <<redis, where, op, on, held, check, metrics, history>>
          /\ where[c] = "try" /\ calling[c] = "out" /\ calling'[c] # "ok"
          /\ \A d \in Callers \ {c} : calling'[d] = calling[d]
        BY DEF Inv, TypeInv, BreakerTypeOK, Attempt, MayAdmit, Move, bVars
    <1>3. \A d \in Callers : Answered(d)' = Answered(d)
        BY <1>2 DEF Answered
    <1>4. Raised' = Raised /\ Passed' = Passed /\ Uncounted' = Uncounted
        BY <1>2, <1>3 DEF Raised, Passed, Uncounted, OverLimit
    <1>5. ThreadOK(c)'
        BY <1>2 DEF Inv, ThreadOK, history
    <1>6. \A d \in Callers : ThreadOK(d)'
        BY <1>2, <1>5, OthersKept DEF history
    <1>7. QED BY <1>1, <1>2, <1>4, <1>6, CountsKept, MetricsKept DEF Inv, history

(* Redis raises the count when it does an incr, whether or not the reply   *)
(* arrives; a get that arrives below the limit finds room for the thread   *)
(* beside every other.                                                     *)
LEMMA ExecuteInv ==
    ASSUME Inv, NEW c \in Callers, Execute(c)
    PROVE  Inv'
    <1> DEFINE answer == After(op[c], redis[on[c]])
    <1>1. PICK result \in {"ok", "failed"} : Move(c, "running", result)
        BY DEF Execute, RunFunction
    <1>2. /\ calling[c] = "running" /\ calling' = [calling EXCEPT ![c] = result]
          /\ calling'[c] = result /\ where[c] = "try"
          /\ \A d \in Callers \ {c} : calling'[d] = calling[d]
        BY <1>1 DEF Execute, Inv, TypeInv, BreakerTypeOK, Move
    <1>3. /\ UNCHANGED <<state, cache, clientVars, where, op, on, attempt, check, metrics, history>>
          /\ \/ /\ redis' = [redis EXCEPT ![on[c]] = answer]
                /\ held' = IF result = "ok" THEN [held EXCEPT ![c] = answer] ELSE held
             \/ result = "failed" /\ UNCHANGED <<redis, held>>
        BY <1>2 DEF Execute, RunFunction
    <1>4. answer \in Value /\ on[c] \in Keys /\ op[c] \in Operations /\ redis[RateKey] \in Value
        BY AfterType DEF Inv, TypeInv
    <1> HIDE DEF answer
    <1>5. TypeInv'
        <2>1. redis' \in [Keys -> Value] /\ held' = [d \in Callers |-> held'[d]]
            BY <1>3, <1>4 DEF Inv, TypeInv
        <2>2. BreakerTypeOK'
            BY <1>2, <1>3 DEF Inv, TypeInv, BreakerTypeOK, Phases
        <2>3. QED BY <1>3, <2>1, <2>2 DEF Inv, TypeInv, metrics, history
    <1>6. \A d \in Callers : ThreadOK(d)'
        <2>1. ThreadOK(c)'
            BY <1>2, <1>3 DEF Inv, ThreadOK, history
        <2>2. QED BY <1>2, <1>3, <2>1, OthersKept DEF history
    <1>7. MetricsBalance'
        BY <1>3, MetricsKept DEF Uncounted
    <1>8. ~Answered(c) /\ (Answered(c)' <=> result = "ok")
          /\ \A d \in Callers \ {c} : Answered(d)' = Answered(d)
        BY <1>2, <1>3 DEF Answered
    <1>9. \A d \in Callers \ {c} : held'[d] = held[d]
        BY <1>3 DEF Inv, TypeInv
    <1>10. /\ Raised \subseteq Callers /\ Passed \subseteq Callers
           /\ Raised' = IF result = "ok" /\ check[c] = "incr" THEN Raised \cup {c} ELSE Raised
           /\ Passed' = IF result = "ok" /\ check[c] = "get" /\ ~OverLimit(held'[c])
                        THEN Passed \cup {c} ELSE Passed
        <2>1. Raised' = IF result = "ok" /\ check[c] = "incr" THEN Raised \cup {c} ELSE Raised
            BY <1>3, <1>8 DEF Raised
        <2>2. Passed' = IF result = "ok" /\ check[c] = "get" /\ ~OverLimit(held'[c])
                        THEN Passed \cup {c} ELSE Passed
            BY <1>3, <1>8, <1>9 DEF Passed, OverLimit
        <2>3. QED BY <2>1, <2>2 DEF Raised, Passed
    <1>11. CASE check[c] = "none"
        <2>1. on[c] # RateKey
            BY <1>2, <1>11 DEF Inv, ThreadOK, Requesting
        <2>2. redis'[RateKey] = redis[RateKey]
            BY <1>3, <2>1 DEF Inv, TypeInv
        <2>3. Raised' = Raised /\ Passed' = Passed
            BY <1>10, <1>11
        <2>4. QED BY <1>3, <1>5, <1>6, <1>7, <2>2, <2>3, CountsKept DEF Inv, history
    <1>12. CASE check[c] = "incr"
        <2>1. on[c] = RateKey /\ op[c] = "incr"
            BY <1>2, <1>12 DEF Inv, ThreadOK, Requesting
        <2>2. answer = Number(redis[RateKey]) + 1 /\ Number(answer) = Number(redis[RateKey]) + 1
            BY <1>4, <2>1, NumberType DEF answer, After, Number
        <2>3. /\ Number(redis'[RateKey]) >= Number(redis[RateKey])
              /\ result = "ok" => Number(redis'[RateKey]) = Number(redis[RateKey]) + 1
            <3>1. redis'[RateKey] \in {answer, redis[RateKey]} /\ (result = "ok" => redis'[RateKey] = answer)
                BY <1>3, <2>1 DEF Inv, TypeInv
            <3>2. Number(redis[RateKey]) \in Nat
                BY <1>4, NumberType
            <3>3. QED BY <2>2, <3>1, <3>2
        <2>4. c \notin Raised
            BY <1>8, <1>12 DEF Raised
        <2>5. Passed' = Passed /\ UNCHANGED <<allowed, fellBack>>
            BY <1>3, <1>10, <1>12 DEF history
        <2>6. PassedIsBounded'
            BY <2>5 DEF Inv, PassedIsBounded
        <2>7. RaisedIsCounted'
            <3>1. CASE result = "ok"
                <4>1. Raised' = Raised \cup {c}
                    BY <1>10, <1>12, <3>1
                <4>2. Cardinality(Raised') = Cardinality(Raised) + 1
                    BY <1>10, <2>4, <4>1, OneMoreThread
                <4>3. QED BY <1>4, <1>10, <2>3, <2>5, <3>1, <4>2, ThreadsCount, NumberType
                          DEF Inv, TypeInv, RaisedIsCounted
            <3>2. CASE result # "ok"
                <4>1. Raised' = Raised
                    BY <1>10, <3>2
                <4>2. Number(redis'[RateKey]) \in Nat
                    BY <1>5, NumberType DEF TypeInv
                <4>3. Cardinality(Raised) \in Nat /\ Number(redis[RateKey]) \in Nat /\ allowed \in Nat
                    BY <1>4, <1>10, ThreadsCount, NumberType DEF Inv, TypeInv
                <4>4. QED BY <2>3, <2>5, <4>1, <4>2, <4>3 DEF Inv, RaisedIsCounted
            <3>3. QED BY <3>1, <3>2
        <2>8. QED BY <1>5, <1>6, <1>7, <2>6, <2>7 DEF Inv
    <1>13. CASE check[c] \in {"get", "expire"}
        <2>1. on[c] = RateKey /\ op[c] = check[c]
            BY <1>2, <1>13 DEF Inv, ThreadOK, Requesting
        <2>2. answer = redis[RateKey]
            BY <1>13, <2>1 DEF answer, After
        <2>3. redis'[RateKey] = redis[RateKey] /\ (result = "ok" => held'[c] = redis[RateKey])
            BY <1>3, <2>1, <2>2 DEF Inv, TypeInv
        <2>4. Raised' = Raised /\ UNCHANGED <<allowed, fellBack>>
            BY <1>3, <1>10, <1>13 DEF history
        <2>5. RaisedIsCounted'
            BY <2>3, <2>4 DEF Inv, RaisedIsCounted
        <2>6. CASE Passed' = Passed
            BY <1>5, <1>6, <1>7, <2>4, <2>5, <2>6 DEF Inv, PassedIsBounded
        <2>7. CASE Passed' # Passed
            <3>1. result = "ok" /\ ~OverLimit(held'[c])
                BY <1>10, <2>7
            <3>2. Number(redis[RateKey]) < limit
                BY <1>4, <2>3, <3>1, NumberType DEF OverLimit
            <3>3. ~fellBack => allowed < limit
                BY <1>4, <1>10, <3>2, NumberType, ThreadsCount DEF Inv, TypeInv, RaisedIsCounted
            <3>4. Cardinality(Passed') \in Nat /\ Cardinality(Passed') <= Cardinality(Callers)
                <4>1. Passed' \in SUBSET Callers
                    BY DEF Passed
                <4>2. QED BY <4>1, ThreadsCount
            <3>5. Cardinality(Callers) \in Nat
                BY ThreadsCount
            <3>6. PassedIsBounded'
                BY <2>4, <3>3, <3>4, <3>5 DEF PassedIsBounded, Inv, TypeInv
            <3>7. QED BY <1>5, <1>6, <1>7, <2>5, <3>6 DEF Inv
        <2>8. QED BY <2>6, <2>7
    <1>14. QED BY <1>11, <1>12, <1>13 DEF Inv, TypeInv, Checks

LEMMA NoteInv ==
    ASSUME Inv, NEW c \in Callers, Note(c)
    PROVE  Inv'
    <1>1. /\ UNCHANGED <<redis, op, on, held, check, metrics, history>>
          /\ calling' = [calling EXCEPT ![c] = "out"]
          /\ \/ calling[c] = "ok" /\ where' = [where EXCEPT ![c] = "succeeded"]
             \/ calling[c] = "failed" /\ UNCHANGED where
          /\ where[c] = "try" /\ state' \in States
        BY DEF Note, NoteSuccess, NoteFailure, Move, Go, Inv, TypeInv, BreakerTypeOK, States
    <1>2. calling'[c] = "out" /\ \A d \in Callers \ {c} : calling'[d] = calling[d]
        BY <1>1 DEF Inv, TypeInv, BreakerTypeOK
    <1>3. /\ where'[c] = IF calling[c] = "ok" THEN "succeeded" ELSE "try"
          /\ \A d \in Callers \ {c} : where'[d] = where[d]
        BY <1>1, <1>2 DEF Inv, TypeInv
    <1>4. TypeInv'
        BY <1>1 DEF Inv, TypeInv, BreakerTypeOK, Phases, Requesting, metrics, history
    <1>5. \A d \in Callers : Answered(d)' = Answered(d)
        BY <1>1, <1>2, <1>3 DEF Answered
    <1>6. Raised' = Raised /\ Passed' = Passed
        BY <1>1, <1>5 DEF Raised, Passed, OverLimit
    <1>7. Uncounted' = Uncounted
        BY <1>1, <1>3 DEF Uncounted
    <1>8. \A d \in Callers : ThreadOK(d)'
        <2>1. ThreadOK(c)'
            BY <1>1, <1>2, <1>3 DEF Inv, ThreadOK, history, Requesting, Connecting
        <2>2. QED BY <1>1, <1>2, <1>3, <2>1, OthersKept DEF history
    <1>9. QED BY <1>1, <1>4, <1>6, <1>7, <1>8, CountsKept, MetricsKept DEF Inv, history

(* A request that has been counted leaves Uncounted.                       *)
LEMMA MetricsMoved ==
    ASSUME Inv, NEW c \in Callers, c \in Uncounted, Uncounted' = Uncounted \ {c},
           total_requests' = total_requests,
           \/ /\ successful_requests' = successful_requests + 1
              /\ UNCHANGED <<failed_requests, fallback_hits>>
           \/ /\ failed_requests' = failed_requests + 1 /\ fallback_hits' = fallback_hits + 1
              /\ UNCHANGED successful_requests
    PROVE  MetricsBalance'
    <1>1. Uncounted \in SUBSET Callers
        BY DEF Uncounted
    <1>2. Cardinality(Uncounted) \in Nat /\ Cardinality(Uncounted') = Cardinality(Uncounted) - 1
        BY <1>1, ThreadsCount, OneThreadLess
    <1>3. QED BY <1>2 DEF Inv, TypeInv, MetricsBalance

LEMMA SucceedInv ==
    ASSUME Inv, NEW c \in Callers, Succeed(c)
    PROVE  Inv'
    <1>1. /\ UNCHANGED <<bVars, redis, check, total_requests, failed_requests, fallback_hits, history>>
          /\ where[c] = "succeeded" /\ where' = [where EXCEPT ![c] = "idle"]
          /\ op' = [op EXCEPT ![c] = "get"] /\ on' = [on EXCEPT ![c] = RateKey]
          /\ held' = [held EXCEPT ![c] = IF check[c] = "none" THEN NoValue ELSE held[c]]
          /\ successful_requests' = successful_requests + 1
        BY DEF Succeed, Finish, Go
    <1>2. /\ where'[c] = "idle"
          /\ \A d \in Callers \ {c} : /\ where'[d] = where[d] /\ op'[d] = op[d] /\ on'[d] = on[d]
                                      /\ held'[d] = held[d]
          /\ check[c] # "none" => held'[c] = held[c]
        BY <1>1 DEF Inv, TypeInv
    <1>3. TypeInv'
        <2>1. held' = [d \in Callers |-> held'[d]]
            BY <1>1 DEF Inv, TypeInv
        <2>2. op' \in [Callers -> Operations] /\ on' \in [Callers -> Keys]
            BY <1>1 DEF Inv, TypeInv, Operations
        <2>3. QED BY <1>1, <2>1, <2>2 DEF Inv, TypeInv, BreakerTypeOK, bVars, history
    <1>4. \A d \in Callers : Answered(d)' = Answered(d)
        BY <1>1, <1>2 DEF Answered, bVars
    <1>5. Raised' = Raised /\ Passed' = Passed
        BY <1>1, <1>2, <1>4 DEF Raised, Passed, OverLimit
    <1>6. c \in Uncounted /\ Uncounted' = Uncounted \ {c}
        BY <1>1, <1>2 DEF Uncounted
    <1>7. \A d \in Callers : ThreadOK(d)'
        <2>1. ThreadOK(c)'
            BY <1>1, <1>2 DEF Inv, ThreadOK, bVars, Requesting, Connecting
        <2>2. QED BY <1>1, <1>2, <2>1, OthersKept DEF bVars, history
    <1>8. MetricsBalance'
        BY <1>1, <1>6, MetricsMoved
    <1>9. QED BY <1>1, <1>3, <1>5, <1>7, <1>8, CountsKept DEF Inv, history

LEMMA GiveUpInv ==
    ASSUME Inv, NEW c \in Callers, GiveUp(c)
    PROVE  Inv'
    <1>1. /\ UNCHANGED <<bVars, redis, op, on, held, check, total_requests, successful_requests, history>>
          /\ where[c] = "try" /\ where' = [where EXCEPT ![c] = "fallback"] /\ calling[c] = "out"
          /\ failed_requests' = failed_requests + 1 /\ fallback_hits' = fallback_hits + 1
        BY DEF GiveUp, Go
    <1>2. where'[c] = "fallback" /\ \A d \in Callers \ {c} : where'[d] = where[d]
        BY <1>1 DEF Inv, TypeInv
    <1>3. TypeInv'
        BY <1>1 DEF Inv, TypeInv, BreakerTypeOK, bVars, history, Requesting
    <1>4. \A d \in Callers : Answered(d)' = Answered(d)
        BY <1>1, <1>2 DEF Answered, bVars
    <1>5. Raised' = Raised /\ Passed' = Passed
        BY <1>1, <1>4 DEF Raised, Passed, OverLimit
    <1>6. c \in Uncounted /\ Uncounted' = Uncounted \ {c}
        BY <1>1, <1>2 DEF Uncounted
    <1>7. \A d \in Callers : ThreadOK(d)'
        <2>1. ThreadOK(c)'
            BY <1>1, <1>2 DEF Inv, ThreadOK, bVars, Requesting, Connecting
        <2>2. QED BY <1>1, <1>2, <2>1, OthersKept DEF bVars, history
    <1>8. MetricsBalance'
        BY <1>1, <1>6, MetricsMoved
    <1>9. QED BY <1>1, <1>3, <1>5, <1>7, <1>8, CountsKept DEF Inv, history

(* A step of a request that the cache answers: once it is a check's, no    *)
(* count is claimed any more, and otherwise it is none of the counts'.     *)
LEMMA FallbackStep ==
    ASSUME Inv, NEW c \in Callers, where[c] \in {"fallback", "second", "third"},
           NEW next \in {"idle", "second", "third"}, where' = [where EXCEPT ![c] = next],
           UNCHANGED <<bVars, redis, check, metrics, allowed>>,
           fellBack' = (fellBack \/ check[c] # "none"),
           NEW v, held' = [held EXCEPT ![c] = v],
           \/ UNCHANGED <<op, on>>
           \/ next = "idle" /\ op' = [op EXCEPT ![c] = "get"] /\ on' = [on EXCEPT ![c] = RateKey]
    PROVE  Inv'
    <1>1. /\ where'[c] = next
          /\ \A d \in Callers \ {c} : /\ where'[d] = where[d] /\ op'[d] = op[d] /\ on'[d] = on[d]
                                      /\ held'[d] = held[d]
        BY DEF Inv, TypeInv
    <1>2. TypeInv'
        <2>1. fellBack' \in BOOLEAN
            BY DEF Inv, TypeInv
        <2>2. where' \in [Callers -> {"idle"} \cup Requesting \cup Connecting]
            BY DEF Inv, TypeInv, Requesting
        <2>3. op' \in [Callers -> Operations] /\ on' \in [Callers -> Keys]
            BY DEF Inv, TypeInv, Operations
        <2>4. held' = [d \in Callers |-> held'[d]]
            BY DEF Inv, TypeInv
        <2>5. QED BY <2>1, <2>2, <2>3, <2>4 DEF Inv, TypeInv, BreakerTypeOK, bVars, metrics
    <1>3. Uncounted' = Uncounted
        BY <1>1 DEF Uncounted
    <1>4. MetricsBalance'
        BY <1>3, MetricsKept
    <1>5. \A d \in Callers : ThreadOK(d)'
        <2>1. ThreadOK(c)'
            BY <1>1 DEF Inv, ThreadOK, bVars, Requesting, Connecting
        <2>2. QED BY <1>1, <2>1, OthersKept DEF bVars
    <1>6. CASE check[c] = "none"
        <2>1. \A d \in Callers \ {c} : Answered(d)' = Answered(d)
            BY <1>1 DEF Answered, bVars
        <2>2. Raised' = Raised /\ Passed' = Passed
            BY <1>1, <1>6, <2>1 DEF Raised, Passed, OverLimit
        <2>3. QED BY <1>2, <1>4, <1>5, <1>6, <2>2, CountsKept DEF Inv
    <1>7. CASE check[c] # "none"
        BY <1>2, <1>4, <1>5, <1>7 DEF Inv, RaisedIsCounted, PassedIsBounded
    <1>8. QED BY <1>6, <1>7

LEMMA FallbackInv ==
    ASSUME Inv, NEW c \in Callers, Fallback(c) \/ FallbackSecond(c) \/ FallbackThird(c)
    PROVE  Inv'
    <1>1. where[c] \in {"fallback", "second", "third"}
        BY DEF Fallback, FallbackSecond, FallbackThird, Finish, Go
    <1>2. UNCHANGED <<bVars, redis, check, metrics, allowed>>
        BY DEF Fallback, FallbackSecond, FallbackThird, history
    <1>3. fellBack' = (fellBack \/ check[c] # "none")
        <2>1. on[c] = RateKey <=> check[c] # "none"
            BY <1>1 DEF Inv, ThreadOK, Requesting
        <2>2. CASE Fallback(c)
            BY <2>1, <2>2 DEF Fallback
        <2>3. CASE FallbackSecond(c) \/ FallbackThird(c)
            <3>1. where[c] \in {"second", "third"} /\ fellBack' = fellBack
                BY <2>3 DEF FallbackSecond, FallbackThird, Finish, Go, history
            <3>2. check[c] # "none" => fellBack
                BY <3>1 DEF Inv, ThreadOK
            <3>3. QED BY <3>1, <3>2 DEF Inv, TypeInv
        <2>4. QED BY <2>2, <2>3
    <1>4. \E next \in {"idle", "second", "third"}, v \in {held'[c]} :
              /\ where' = [where EXCEPT ![c] = next]
              /\ held' = [held EXCEPT ![c] = v]
              /\ \/ UNCHANGED <<op, on>>
                 \/ /\ next = "idle" /\ op' = [op EXCEPT ![c] = "get"]
                    /\ on' = [on EXCEPT ![c] = RateKey]
        <2>1. \E next \in {"idle", "second", "third"} :
                 /\ where' = [where EXCEPT ![c] = next]
                 /\ \E v : held' = [held EXCEPT ![c] = v]
                 /\ \/ UNCHANGED <<op, on>>
                    \/ /\ next = "idle" /\ op' = [op EXCEPT ![c] = "get"]
                       /\ on' = [on EXCEPT ![c] = RateKey]
            BY DEF Fallback, FallbackSecond, FallbackThird, Finish, Go
        <2>2. \A v : held' = [held EXCEPT ![c] = v] => held'[c] = v
            BY DEF Inv, TypeInv
        <2>3. QED BY <2>1, <2>2
    <1>5. QED BY <1>1, <1>2, <1>3, <1>4, FallbackStep

-----------------------------------------------------------------------------
(* Requests begin: Enter, for themselves or for a check.                   *)

LEMMA EnterStep ==
    ASSUME Inv, NEW c \in Callers, NEW o \in Operations, NEW k \in Keys, Enter(c, o, k),
           UNCHANGED history, check' \in [Callers -> Checks],
           \A d \in Callers \ {c} : check'[d] = check[d],
           IF check'[c] = "none" THEN k # RateKey ELSE k = RateKey /\ o = check'[c]
    PROVE  /\ TypeInv' /\ MetricsBalance' /\ \A d \in Callers : ThreadOK(d)'
           /\ where[c] = "idle" /\ Answered(c) /\ ~Answered(c)'
           /\ \A d \in Callers \ {c} : Answered(d)' = Answered(d) /\ held'[d] = held[d]
           /\ redis' = redis
    <1>1. /\ UNCHANGED <<bVars, redis, successful_requests, failed_requests>>
          /\ where[c] = "idle" /\ total_requests' = total_requests + 1
          /\ op' = [op EXCEPT ![c] = o] /\ on' = [on EXCEPT ![c] = k]
          /\ held' = [held EXCEPT ![c] = NoValue]
          /\ \/ where' = [where EXCEPT ![c] = "try"] /\ UNCHANGED fallback_hits
             \/ /\ where' = [where EXCEPT ![c] = "fallback"]
                /\ fallback_hits' = fallback_hits + 1
        BY DEF Enter, Go
    <1>2. /\ where'[c] \in {"try", "fallback"} /\ op'[c] = o /\ on'[c] = k /\ calling[c] = "out"
          /\ \A d \in Callers \ {c} : /\ where'[d] = where[d] /\ op'[d] = op[d] /\ on'[d] = on[d]
                                      /\ held'[d] = held[d]
        BY <1>1 DEF Inv, TypeInv, ThreadOK
    <1>3. TypeInv'
        <2>1. where' \in [Callers -> {"idle"} \cup Requesting \cup Connecting]
            BY <1>1 DEF Inv, TypeInv, Requesting
        <2>2. op' \in [Callers -> Operations] /\ on' \in [Callers -> Keys]
            BY <1>1 DEF Inv, TypeInv
        <2>3. held' = [d \in Callers |-> held'[d]]
            BY <1>1 DEF Inv, TypeInv
        <2>4. QED BY <1>1, <2>1, <2>2, <2>3 DEF Inv, TypeInv, BreakerTypeOK, bVars, history
    <1>4. MetricsBalance'
        <2>1. Uncounted \in SUBSET Callers /\ c \notin Uncounted
            BY <1>1 DEF Uncounted
        <2>2. Cardinality(Uncounted) \in Nat
            BY <2>1, ThreadsCount
        <2>3. CASE where'[c] = "try"
            <3>1. Uncounted' = Uncounted \cup {c}
                BY <1>2, <2>3 DEF Uncounted
            <3>2. Cardinality(Uncounted') = Cardinality(Uncounted) + 1
                BY <2>1, <3>1, OneMoreThread
            <3>3. UNCHANGED fallback_hits
                BY <1>1, <2>3 DEF Inv, TypeInv
            <3>4. QED BY <1>1, <2>2, <3>2, <3>3 DEF Inv, TypeInv, MetricsBalance
        <2>4. CASE where'[c] = "fallback"
            <3>1. Uncounted' = Uncounted
                BY <1>1, <1>2, <2>4 DEF Uncounted
            <3>2. fallback_hits' = fallback_hits + 1
                BY <1>1, <2>4 DEF Inv, TypeInv
            <3>3. QED BY <1>1, <2>2, <3>1, <3>2 DEF Inv, TypeInv, MetricsBalance
        <2>5. QED BY <1>2, <2>3, <2>4
    <1>5. \A d \in Callers : ThreadOK(d)'
        <2>1. ThreadOK(c)'
            BY <1>1, <1>2 DEF ThreadOK, bVars, Requesting, Connecting
        <2>2. QED BY <1>1, <1>2, <2>1, OthersKept DEF bVars, history
    <1>6. Answered(c) /\ ~Answered(c)' /\ \A d \in Callers \ {c} : Answered(d)' = Answered(d)
        BY <1>1, <1>2 DEF Answered, bVars
    <1>7. QED BY <1>1, <1>2, <1>3, <1>4, <1>5, <1>6

LEMMA RequestInv ==
    ASSUME Inv, NEW c \in Callers, NEW o \in Operations, NEW k \in Keys, Request(c, o, k)
    PROVE  Inv'
    <1>1. check[c] = "none" /\ k # RateKey /\ Enter(c, o, k) /\ UNCHANGED <<check, history>>
        BY DEF Request
    <1>2. /\ TypeInv' /\ MetricsBalance' /\ \A d \in Callers : ThreadOK(d)'
          /\ \A d \in Callers \ {c} : Answered(d)' = Answered(d) /\ held'[d] = held[d]
          /\ redis' = redis
        BY <1>1, EnterStep DEF Inv, TypeInv
    <1>3. Raised' = Raised /\ Passed' = Passed
        BY <1>1, <1>2 DEF Raised, Passed, OverLimit
    <1>4. QED BY <1>1, <1>2, <1>3, CountsKept DEF Inv, history

LEMMA BeginCheckInv ==
    ASSUME Inv, NEW c \in Callers, BeginCheck(c)
    PROVE  Inv'
    <1>1. /\ check[c] = "none" /\ Enter(c, "get", RateKey) /\ UNCHANGED history
          /\ check' = [check EXCEPT ![c] = "get"]
        BY DEF BeginCheck
    <1>2. /\ check' \in [Callers -> Checks] /\ check'[c] = "get"
          /\ \A d \in Callers \ {c} : check'[d] = check[d]
        BY <1>1 DEF Inv, TypeInv, Checks
    <1>3. "get" \in Operations
        BY DEF Operations
    <1>4. /\ TypeInv' /\ MetricsBalance' /\ \A d \in Callers : ThreadOK(d)' /\ ~Answered(c)'
          /\ \A d \in Callers \ {c} : Answered(d)' = Answered(d) /\ held'[d] = held[d]
          /\ redis' = redis
        BY <1>1, <1>2, <1>3, EnterStep
    <1>5. Raised' = Raised /\ Passed' = Passed
        BY <1>1, <1>2, <1>4 DEF Raised, Passed, OverLimit
    <1>6. QED BY <1>1, <1>4, <1>5, CountsKept DEF Inv, history

(* A check goes on to its next request: who has passed stays so, and who   *)
(* has raised the count stays so.                                          *)
LEMMA SendStep ==
    ASSUME Inv, NEW c \in Callers, NEW o \in {"incr", "expire"}, Enter(c, o, RateKey),
           check' = [check EXCEPT ![c] = o], UNCHANGED history,
           \/ check[c] = "get" /\ ~OverLimit(held[c]) /\ o = "incr"
           \/ check[c] = "incr" /\ o = "expire"
    PROVE  Inv'
    <1>1. /\ check' \in [Callers -> Checks] /\ check'[c] = o /\ o \in Operations /\ o # "none"
          /\ \A d \in Callers \ {c} : check'[d] = check[d]
        BY DEF Inv, TypeInv, Checks, Operations
    <1>2. /\ TypeInv' /\ MetricsBalance' /\ \A d \in Callers : ThreadOK(d)'
          /\ Answered(c) /\ ~Answered(c)'
          /\ \A d \in Callers \ {c} : Answered(d)' = Answered(d) /\ held'[d] = held[d]
          /\ redis' = redis
        BY <1>1, EnterStep
    <1>3. Raised' = Raised
        BY <1>1, <1>2 DEF Raised
    <1>4. Passed' = Passed
        BY <1>1, <1>2 DEF Passed, OverLimit
    <1>5. QED BY <1>2, <1>3, <1>4, CountsKept DEF Inv, history

(* A check ends: refused, or let through and counted in allowed.           *)
LEMMA EndStep ==
    ASSUME Inv, NEW c \in Callers, EndCheck(c), UNCHANGED fellBack,
           \/ check[c] = "get" /\ OverLimit(held[c]) /\ UNCHANGED allowed
           \/ check[c] \in {"incr", "expire"} /\ allowed' = allowed + 1
    PROVE  Inv'
    <1>1. /\ UNCHANGED <<bVars, redis, where, op, on, metrics>> /\ where[c] = "idle"
          /\ check' = [check EXCEPT ![c] = "none"] /\ held' = [held EXCEPT ![c] = NoValue]
        BY DEF EndCheck
    <1>2. check'[c] = "none" /\ \A d \in Callers \ {c} : check'[d] = check[d] /\ held'[d] = held[d]
        BY <1>1 DEF Inv, TypeInv
    <1>3. TypeInv'
        <2>1. check' \in [Callers -> Checks]
            BY <1>1 DEF Inv, TypeInv, Checks
        <2>2. held' = [d \in Callers |-> held'[d]]
            BY <1>1 DEF Inv, TypeInv
        <2>3. allowed' \in Nat
            BY DEF Inv, TypeInv
        <2>4. QED BY <1>1, <2>1, <2>2, <2>3 DEF Inv, TypeInv, BreakerTypeOK, bVars, metrics
    <1>4. MetricsBalance'
        BY <1>1, MetricsKept DEF Uncounted
    <1>5. \A d \in Callers : ThreadOK(d)'
        <2>1. ThreadOK(c)'
            BY <1>1, <1>2 DEF Inv, ThreadOK, bVars, Requesting, Connecting
        <2>2. QED BY <1>1, <1>2, <2>1, OthersKept DEF bVars
    <1>6. \A d \in Callers : Answered(d)' = Answered(d)
        BY <1>1 DEF Answered, bVars
    <1>7. Raised' = Raised \ {c} /\ Passed' = Passed \ {c}
        BY <1>2, <1>6 DEF Raised, Passed, OverLimit
    <1>8. CASE check[c] = "get" /\ OverLimit(held[c]) /\ UNCHANGED allowed
        <2>1. c \notin Raised /\ c \notin Passed
            BY <1>8 DEF Raised, Passed
        <2>2. Raised' = Raised /\ Passed' = Passed
            BY <1>7, <2>1
        <2>3. QED BY <1>1, <1>3, <1>4, <1>5, <1>8, <2>2, CountsKept DEF Inv
    <1>9. CASE check[c] \in {"incr", "expire"} /\ allowed' = allowed + 1
        <2>1. c \in Raised /\ c \in Passed
            BY <1>1, <1>9 DEF Raised, Passed, Answered
        <2>2. Raised \in SUBSET Callers /\ Passed \in SUBSET Callers
            BY DEF Raised, Passed
        <2>3. /\ Cardinality(Raised) \in Nat /\ Cardinality(Raised') = Cardinality(Raised) - 1
              /\ Cardinality(Passed) \in Nat /\ Cardinality(Passed') = Cardinality(Passed) - 1
            BY <1>7, <2>1, <2>2, ThreadsCount, OneThreadLess
        <2>4. allowed \in Nat
            BY DEF Inv, TypeInv
        <2>5. allowed' + Cardinality(Raised') = allowed + Cardinality(Raised)
              /\ allowed' + Cardinality(Passed') = allowed + Cardinality(Passed)
            BY <1>9, <2>3, <2>4
        <2>6. RaisedIsCounted' /\ PassedIsBounded'
            BY <1>1, <2>5 DEF Inv, RaisedIsCounted, PassedIsBounded
        <2>7. QED BY <1>3, <1>4, <1>5, <2>6 DEF Inv
    <1>10. QED BY <1>8, <1>9

LEMMA ContinueCheckInv ==
    ASSUME Inv, NEW c \in Callers, ContinueCheck(c)
    PROVE  Inv'
    <1>1. CASE check[c] = "get" /\ UNCHANGED history
        <2>1. CASE OverLimit(held[c]) /\ EndCheck(c)
            BY <1>1, <2>1, EndStep DEF history
        <2>2. CASE ~OverLimit(held[c]) /\ Enter(c, "incr", RateKey) /\ check' = [check EXCEPT ![c] = "incr"]
            BY <1>1, <2>2, SendStep
        <2>3. QED BY <1>1, <2>1, <2>2 DEF ContinueCheck
    <1>2. CASE check[c] = "incr"
        <2>1. CASE Enter(c, "expire", RateKey) /\ check' = [check EXCEPT ![c] = "expire"] /\ UNCHANGED history
            BY <1>2, <2>1, SendStep
        <2>2. CASE EndCheck(c) /\ allowed' = allowed + 1 /\ UNCHANGED fellBack
            BY <1>2, <2>2, EndStep
        <2>3. QED BY <1>2, <2>1, <2>2 DEF ContinueCheck, history
    <1>3. CASE check[c] = "expire" /\ EndCheck(c) /\ allowed' = allowed + 1 /\ UNCHANGED fellBack
        BY <1>3, EndStep
    <1>4. QED BY <1>1, <1>2, <1>3 DEF ContinueCheck, history

-----------------------------------------------------------------------------
(* ping, close and reconnect, the passing of time, and the whole step.     *)

(* A thread that pings or connects has no request and no check, and is in  *)
(* the breaker only with a ping.                                           *)
Aside(c) ==
    /\ UNCHANGED quiet
    /\ check[c] = "none"
    /\ where[c] \in {"idle"} \cup Connecting /\ where'[c] \in {"idle"} \cup Connecting
    /\ where' = [where EXCEPT ![c] = where'[c]]
    /\ BreakerTypeOK'
    /\ \A d \in Callers \ {c} : calling'[d] = calling[d]
    /\ calling'[c] # "out" => where'[c] \in {"probe", "confirm"}

LEMMA PingsAside ==
    ASSUME Inv, NEW c \in Callers, Pings(c)
    PROVE  Aside(c)
    <1>1. BreakerTypeOK /\ where = [d \in Callers |-> where[d]]
        BY DEF Inv, TypeInv
    <1>2. UNCHANGED quiet
        BY DEF Pings, PingAlone, AskPing, RunPing, NotePing
    <1>3. /\ \/ UNCHANGED where /\ where[c] \in {"probe", "confirm"}
             \/ /\ calling'[c] = "out"
                /\ \E from \in {"idle", "probe", "confirm"}, to \in {"idle", "close", "confirm"} :
                      Go(c, from, to) /\ (from = "idle" => check[c] = "none")
          /\ state' \in States
          /\ \E phase \in Phases : calling' = [calling EXCEPT ![c] = phase]
        <2>1. CASE PingAlone(c)
            <3>1. calling[c] = "out" /\ where[c] = "idle"
                BY <2>1 DEF PingAlone, Go, Inv, ThreadOK
            <3>2. UNCHANGED <<state, calling>> /\ calling' = [calling EXCEPT ![c] = "out"]
                BY <1>1, <2>1, <3>1 DEF PingAlone, bVars, BreakerTypeOK
            <3>3. QED BY <1>1, <2>1, <3>1, <3>2 DEF PingAlone, BreakerTypeOK, Phases
        <2>2. CASE AskPing(c) /\ MayAdmit(c) /\ UNCHANGED where /\ where[c] \in {"probe", "confirm"}
            BY <1>1, <2>2 DEF MayAdmit, Move, BreakerTypeOK, States, Phases
        <2>3. CASE calling[c] = "out" /\ PingFailed(c) /\ UNCHANGED bVars
            <3>1. UNCHANGED <<state, calling>> /\ calling' = [calling EXCEPT ![c] = "out"]
                BY <1>1, <2>3 DEF bVars, BreakerTypeOK
            <3>2. QED BY <1>1, <2>3, <3>1 DEF PingFailed, BreakerTypeOK, Phases
        <2>4. CASE RunPing(c)
            BY <1>1, <2>4 DEF RunPing, RunFunction, Move, BreakerTypeOK, Phases
        <2>5. CASE NotePing(c)
            BY <1>1, <2>5 DEF NotePing, NoteSuccess, NoteFailure, PingAnswered, PingFailed, Move,
                              BreakerTypeOK, States, Phases
        <2>6. QED BY <2>1, <2>2, <2>3, <2>4, <2>5 DEF Pings, AskPing
    <1>4. BreakerTypeOK' /\ \A d \in Callers \ {c} : calling'[d] = calling[d]
        BY <1>1, <1>3 DEF BreakerTypeOK
    <1>5. CASE UNCHANGED where /\ where[c] \in {"probe", "confirm"}
        <2>1. check[c] = "none"
            BY <1>5 DEF Inv, ThreadOK, Connecting
        <2>2. where' = [where EXCEPT ![c] = where'[c]]
            BY <1>1, <1>5
        <2>3. QED BY <1>2, <1>4, <1>5, <2>1, <2>2 DEF Aside, Connecting
    <1>6. CASE /\ calling'[c] = "out"
               /\ \E from \in {"idle", "probe", "confirm"}, to \in {"idle", "close", "confirm"} :
                     Go(c, from, to) /\ (from = "idle" => check[c] = "none")
        <2>1. PICK from \in {"idle", "probe", "confirm"}, to \in {"idle", "close", "confirm"} :
                 Go(c, from, to) /\ (from = "idle" => check[c] = "none")
            BY <1>6
        <2>2. where[c] = from /\ where'[c] = to /\ where' = [where EXCEPT ![c] = to]
            BY <1>1, <2>1 DEF Go
        <2>3. check[c] = "none"
            BY <2>1, <2>2 DEF Inv, ThreadOK, Connecting
        <2>4. QED BY <1>2, <1>4, <1>6, <2>2, <2>3 DEF Aside, Connecting
    <1>7. QED BY <1>3, <1>5, <1>6

LEMMA ConnectsAside ==
    ASSUME Inv, NEW c \in Callers, Connects(c)
    PROVE  Aside(c)
    <1>1. BreakerTypeOK /\ where = [d \in Callers |-> where[d]]
        BY DEF Inv, TypeInv
    <1>2. UNCHANGED <<calling, quiet>>
        BY DEF Connects, Reconnect, Close, CloseAlone, Reset, Initialize, Connect, Ping, Connected,
               ForceClose, bVars
    <1>3. state' \in States
        BY <1>1 DEF Connects, Reconnect, Close, CloseAlone, Reset, Initialize, Connect, Ping,
               Connected, ForceClose, bVars, BreakerTypeOK, States
    <1>4. \/ UNCHANGED where /\ where[c] = "idle" /\ check[c] = "none"
          \/ \E from \in {"idle"} \cup (Connecting \ {"probe", "confirm"}), to \in {"idle"} \cup Connecting :
                Go(c, from, to) /\ (from = "idle" => check[c] = "none")
        BY DEF Connects, Reconnect, Close, CloseAlone, Reset, Initialize, Connect, Ping, Connected,
               Connecting
    <1>5. CASE UNCHANGED where /\ where[c] = "idle" /\ check[c] = "none"
        <2>1. calling[c] = "out"
            BY <1>5 DEF Inv, ThreadOK
        <2>2. where' = [where EXCEPT ![c] = where'[c]]
            BY <1>1, <1>5
        <2>3. QED BY <1>1, <1>2, <1>3, <1>5, <2>1, <2>2 DEF Aside, BreakerTypeOK
    <1>6. ASSUME NEW from \in {"idle"} \cup (Connecting \ {"probe", "confirm"}),
                 NEW to \in {"idle"} \cup Connecting,
                 Go(c, from, to), from = "idle" => check[c] = "none"
          PROVE  Aside(c)
        <2>1. where[c] = from /\ where'[c] = to /\ where' = [where EXCEPT ![c] = to]
            BY <1>1, <1>6 DEF Go
        <2>2. check[c] = "none" /\ calling[c] = "out"
            BY <1>6, <2>1 DEF Inv, ThreadOK, Connecting
        <2>3. QED BY <1>1, <1>2, <1>3, <2>1, <2>2 DEF Aside, BreakerTypeOK
    <1>7. QED BY <1>4, <1>5, <1>6

LEMMA AsideInv ==
    ASSUME Inv, NEW c \in Callers, Aside(c)
    PROVE  Inv'
    <1>1. /\ UNCHANGED <<op, on, held, check, metrics, history, redis>> /\ check[c] = "none"
          /\ where' \in [Callers -> {"idle"} \cup Requesting \cup Connecting]
          /\ \A d \in Callers \ {c} : where'[d] = where[d] /\ calling'[d] = calling[d]
        BY DEF Aside, quiet, Inv, TypeInv
    <1>2. TypeInv'
        BY <1>1 DEF Aside, Inv, TypeInv, metrics, history
    <1>3. Uncounted' = Uncounted
        BY <1>1 DEF Aside, Uncounted, Connecting
    <1>4. \A d \in Callers \ {c} : Answered(d)' = Answered(d)
        BY <1>1 DEF Answered
    <1>5. Raised' = Raised /\ Passed' = Passed
        BY <1>1, <1>4 DEF Raised, Passed, OverLimit
    <1>6. \A d \in Callers : ThreadOK(d)'
        <2>1. ThreadOK(c)'
            BY <1>1 DEF Aside, ThreadOK, Requesting, Connecting
        <2>2. QED BY <1>1, <2>1, OthersKept DEF history
    <1>7. QED BY <1>1, <1>2, <1>3, <1>5, <1>6, CountsKept, MetricsKept DEF Inv, history

LEMMA UnchangedInv ==
    ASSUME Inv, UNCHANGED <<bVars, redis, clientVars, requestVars, metrics, history>>
    PROVE  Inv'
    <1>1. TypeInv'
        BY DEF Inv, TypeInv, BreakerTypeOK, bVars, requestVars, metrics, history
    <1>2. \A d \in Callers : ThreadOK(d)'
        BY DEF Inv, ThreadOK, bVars, requestVars, history
    <1>3. Raised' = Raised /\ Passed' = Passed
        BY DEF Raised, Passed, Answered, OverLimit, bVars, requestVars
    <1>4. Uncounted' = Uncounted
        BY DEF Uncounted, requestVars
    <1>5. QED BY <1>1, <1>2, <1>3, <1>4, CountsKept, MetricsKept DEF Inv, history

LEMMA StepInv == Inv /\ [Next]_cVars => Inv'
    <1> SUFFICES ASSUME Inv, [Next]_cVars PROVE Inv'
        OBVIOUS
    <1>1. ASSUME NEW c \in Callers, NEW o \in Operations, NEW k \in Keys, Request(c, o, k) PROVE Inv'
        BY <1>1, RequestInv
    <1>2. ASSUME NEW c \in Callers, Requests(c) PROVE Inv'
        BY <1>2, AttemptInv, ExecuteInv, NoteInv, SucceedInv, GiveUpInv, FallbackInv DEF Requests
    <1>3. ASSUME NEW c \in Callers, BeginCheck(c) \/ ContinueCheck(c) PROVE Inv'
        BY <1>3, BeginCheckInv, ContinueCheckInv
    <1>4. ASSUME NEW c \in Callers, Pings(c) \/ Connects(c) PROVE Inv'
        BY <1>4, PingsAside, ConnectsAside, AsideInv
    <1>5. CASE Expire
        BY <1>5, UnchangedInv DEF Expire
    <1>6. CASE UNCHANGED cVars
        BY <1>6, UnchangedInv DEF cVars
    <1>7. QED BY <1>1, <1>2, <1>3, <1>4, <1>5, <1>6 DEF Next

LEMMA SpecInv == Spec => []Inv
    BY InitInv, StepInv, PTL DEF Spec

-----------------------------------------------------------------------------

(* Every request has exactly one outcome in _metrics, and a failure is     *)
(* always an answer of the cache too.                                      *)
THEOREM MetricsAddUp == Spec => []MetricsBalance
    <1>1. Inv => MetricsBalance
        BY DEF Inv
    <1>2. QED BY <1>1, SpecInv, PTL

(* check_rate_limit lets nothing through that Redis has not counted.       *)
THEOREM AllowedIsCounted == Spec => []EveryAllowedIsCounted
    <1>1. Inv => EveryAllowedIsCounted
        <2> SUFFICES ASSUME Inv, ~fellBack PROVE allowed <= Number(redis[RateKey])
            BY DEF EveryAllowedIsCounted
        <2>1. Cardinality(Raised) \in Nat
            BY ThreadsCount DEF Raised
        <2>2. Number(redis[RateKey]) \in Nat /\ allowed \in Nat
            BY NumberType DEF Inv, TypeInv
        <2>3. QED BY <2>1, <2>2 DEF Inv, RaisedIsCounted
    <1>2. QED BY <1>1, SpecInv, PTL

(* However the threads' get and incr interleave, check_rate_limit exceeds  *)
(* the limit by one less than there are threads at most.                   *)
THEOREM OvershootIsBounded == Spec => []LimitOvershoot
    <1>1. Inv => LimitOvershoot
        <2> SUFFICES ASSUME Inv, ~fellBack PROVE allowed <= limit + Cardinality(Callers) - 1
            BY DEF LimitOvershoot
        <2>1. Cardinality(Passed) \in Nat /\ Cardinality(Callers) \in Nat
            BY ThreadsCount DEF Passed
        <2>2. allowed \in Nat
            BY DEF Inv, TypeInv
        <2>3. QED BY <2>1, <2>2 DEF Inv, PassedIsBounded
    <1>2. QED BY <1>1, SpecInv, PTL

-----------------------------------------------------------------------------
(* The cache and what the threads have read of it.                         *)

(* The threads whose request the cache has been given and has not answered *)
Asking == {c \in Callers : where[c] \in {"fallback", "second", "third"}}

(* A value that leaves room for the increments under way.                  *)
Room(v) == Number(v) + Cardinality(Asking) <= fallback_hits

CacheInv ==
    /\ held \in [Callers -> Value]
    /\ CacheOK(cache)
    /\ Room(NoValue)
    /\ \A e \in cache : Room(e.value)
    /\ \A c \in Callers : where[c] \in {"second", "third"} => Room(held[c])

LEMMA InitCache == Init => CacheInv
    <1> SUFFICES ASSUME Init PROVE CacheInv
        OBVIOUS
    <1>1. cache = {} /\ Asking = {} /\ fallback_hits = 0
        BY DEF Init, Asking
    <1>2. CacheOK(cache)
        BY <1>1, FS_EmptySet DEF CacheOK, SoundCache
    <1>3. Room(NoValue)
        BY <1>1, FS_EmptySet DEF Room, Number
    <1>4. QED BY <1>1, <1>2, <1>3 DEF Init, CacheInv, Value

(* A step that gives the cache nothing to do, and takes nothing from it.   *)
LEMMA CacheKept ==
    ASSUME Inv, CacheInv, UNCHANGED cache, Asking' = Asking, fallback_hits' = fallback_hits,
           held' \in [Callers -> Value],
           \A c \in Callers : where'[c] \in {"second", "third"}
               => where[c] \in {"second", "third"} /\ held'[c] = held[c]
    PROVE  CacheInv'
    BY DEF CacheInv, Room

(* A request goes to the cache, or a request begins that does not.         *)
LEMMA CacheAsked ==
    ASSUME Inv, CacheInv, UNCHANGED cache, NEW c \in Callers, c \notin Asking,
           Asking' = Asking \cup {c}, fallback_hits' = fallback_hits + 1,
           held' \in [Callers -> Value],
           \A d \in Callers : where'[d] \in {"second", "third"}
               => where[d] \in {"second", "third"} /\ held'[d] = held[d]
    PROVE  CacheInv'
    <1>1. Asking \in SUBSET Callers
        BY DEF Asking
    <1>2. Cardinality(Asking') = Cardinality(Asking) + 1 /\ Cardinality(Asking) \in Nat
        BY <1>1, OneMoreThread, ThreadsCount
    <1>3. ASSUME NEW v \in Value, Room(v) PROVE Room(v)'
        BY <1>2, <1>3, NumberType DEF Room, Inv, TypeInv
    <1>4. \A e \in cache : e.value \in Value
        BY DEF CacheInv, CacheOK, Entry
    <1>5. \A d \in Callers : held[d] \in Value
        BY DEF CacheInv
    <1>6. NoValue \in Value
        BY DEF Value
    <1>7. \A e \in cache' : Room(e.value)'
        BY <1>3, <1>4 DEF CacheInv
    <1>8. \A d \in Callers : where'[d] \in {"second", "third"} => Room(held[d])'
        BY <1>3, <1>5 DEF CacheInv
    <1>9. QED BY <1>3, <1>6, <1>7, <1>8 DEF CacheInv, Room

(* The cache does the first, second or third part of a request.  What it   *)
(* holds then, it held before, or is what the request ends with: at most   *)
(* one more than the request has read.                                     *)
LEMMA CacheUsed ==
    ASSUME Inv, CacheInv, NEW c \in Asking, NEW next \in {"idle", "second", "third"},
           where' = [where EXCEPT ![c] = next], fallback_hits' = fallback_hits,
           NEW v \in Value, held' = [held EXCEPT ![c] = v],
           CacheOK(cache'),
           \A e \in cache' :
              \/ Number(e.value) = 0
              \/ \E f \in cache : e.value = f.value
              \/ where[c] \in {"second", "third"} /\ Number(e.value) <= Number(held[c])
              \/ /\ where[c] = "second" /\ next = "idle"
                 /\ Number(e.value) <= Number(held[c]) + 1,
           next = "idle" \/ v = NoValue \/ \E f \in cache : v = f.value
    PROVE  CacheInv'
    <1>1. Asking \in SUBSET Callers /\ c \in Callers
        BY DEF Asking
    <1>2. Cardinality(Asking) \in Nat /\ Cardinality(Asking \ {c}) = Cardinality(Asking) - 1
        BY <1>1, ThreadsCount, OneThreadLess
    <1>3. /\ where'[c] = next /\ held'[c] = v
          /\ \A d \in Callers \ {c} : where'[d] = where[d] /\ held'[d] = held[d]
        BY <1>1 DEF Inv, TypeInv, CacheInv
    <1>4. Asking' = IF next = "idle" THEN Asking \ {c} ELSE Asking
        BY <1>1, <1>3 DEF Asking
    <1>5. Cardinality(Asking') \in Nat /\ fallback_hits \in Nat
          /\ Cardinality(Asking') = Cardinality(Asking) - (IF next = "idle" THEN 1 ELSE 0)
        <2>1. fallback_hits \in Nat
            BY DEF Inv, TypeInv
        <2>2. Cardinality(Asking \ {c}) \in Nat
            BY <1>1, ThreadsCount
        <2>3. CASE next = "idle"
            BY <1>2, <1>4, <2>1, <2>2, <2>3
        <2>4. CASE next # "idle"
            BY <1>2, <1>4, <2>1, <2>4
        <2>5. QED BY <2>3, <2>4
    <1>6. held' \in [Callers -> Value]
        BY <1>1 DEF CacheInv
    <1>7. Number(NoValue) = 0 /\ \A x \in Value : Number(x) \in Nat
        BY NumberType DEF Number
    <1>8. \A e \in cache : e.value \in Value
        BY DEF CacheInv, CacheOK, Entry
    <1>9. \A e \in cache' : e.value \in Value
        BY DEF CacheOK, Entry
    <1>10. ASSUME NEW x \in Value, Room(x) PROVE Room(x)'
        BY <1>2, <1>5, <1>7, <1>10 DEF Room
    <1>11. Room(NoValue)'
        BY <1>10 DEF CacheInv, Value
    <1>12. ASSUME NEW e \in cache' PROVE Room(e.value)'
        <2>1. CASE Number(e.value) = 0
            BY <1>7, <1>11, <2>1 DEF Room
        <2>2. CASE \E f \in cache : e.value = f.value
            BY <1>8, <1>10, <2>2 DEF CacheInv
        <2>3. CASE where[c] \in {"second", "third"} /\ Number(e.value) <= Number(held[c])
            <3>1. Room(held[c]) /\ held[c] \in Value
                BY <1>1, <2>3 DEF CacheInv
            <3>2. QED BY <1>2, <1>5, <1>7, <1>9, <2>3, <3>1 DEF Room
        <2>4. CASE /\ where[c] = "second" /\ next = "idle"
                   /\ Number(e.value) <= Number(held[c]) + 1
            <3>1. Room(held[c]) /\ held[c] \in Value
                BY <1>1, <2>4 DEF CacheInv
            <3>2. QED BY <1>2, <1>5, <1>7, <1>9, <2>4, <3>1 DEF Room
        <2>5. QED BY <2>1, <2>2, <2>3, <2>4
    <1>13. ASSUME NEW d \in Callers, where'[d] \in {"second", "third"} PROVE Room(held[d])'
        <2>1. CASE d = c
            <3>1. next # "idle"
                BY <1>3, <1>13, <2>1
            <3>2. CASE v = NoValue
                BY <1>3, <1>11, <2>1, <3>2 DEF Room
            <3>3. CASE \E f \in cache : v = f.value
                <4>1. Room(v)
                    BY <3>3 DEF CacheInv
                <4>2. Room(v)'
                    BY <1>10, <4>1
                <4>3. QED BY <1>3, <2>1, <4>2 DEF Room
            <3>4. QED BY <3>1, <3>2, <3>3
        <2>2. CASE d # c
            <3>1. Room(held[d]) /\ held[d] \in Value
                BY <1>3, <1>13, <2>2 DEF CacheInv
            <3>2. Room(held[d])' <=> (Number(held'[d]) + Cardinality(Asking') <= fallback_hits')
                BY DEF Room, Number
            <3>3. held'[d] = held[d]
                BY <1>3, <2>2
            <3>4. QED BY <1>2, <1>5, <1>7, <3>1, <3>2, <3>3 DEF Room
        <2>3. QED BY <2>1, <2>2
    <1>14. QED BY <1>6, <1>11, <1>12, <1>13 DEF CacheInv

(* The steps that leave the cache alone.                                   *)
LEMMA RequestStepsKeepCache ==
    ASSUME Inv, CacheInv, NEW c \in Callers,
           Attempt(c) \/ Execute(c) \/ Note(c) \/ Succeed(c) \/ EndCheck(c)
    PROVE  CacheInv'
    <1>1. UNCHANGED cache /\ fallback_hits' = fallback_hits
        BY DEF Attempt, Execute, Note, Succeed, EndCheck, metrics
    <1>2. \E s \in {"idle", "try", "succeeded"}, t \in {"idle", "succeeded"} :
              UNCHANGED where \/ (where[c] = s /\ where' = [where EXCEPT ![c] = t])
        BY DEF Attempt, Execute, Note, Succeed, EndCheck, Finish, Go
    <1>3. \A d \in Callers : where'[d] = where[d] \/
              (d = c /\ where[c] \in {"idle", "try", "succeeded"} /\ where'[c] \in {"idle", "succeeded"})
        BY <1>2 DEF Inv, TypeInv
    <1>4. Asking' = Asking
        BY <1>3 DEF Asking
    <1>5. held' \in [Callers -> Value] /\ \A d \in Callers \ {c} : held'[d] = held[d]
        <2>1. NoValue \in Value /\ \A d \in Callers : held[d] \in Value
            BY DEF CacheInv, Value
        <2>2. CASE Execute(c)
            <3>1. After(op[c], redis[on[c]]) \in Value
                BY AfterType DEF Inv, TypeInv
            <3>2. held' = held \/ held' = [held EXCEPT ![c] = After(op[c], redis[on[c]])]
                BY <2>2 DEF Execute
            <3>3. QED BY <3>1, <3>2 DEF CacheInv
        <2>3. CASE Attempt(c) \/ Note(c)
            BY <2>3 DEF Attempt, Note, CacheInv
        <2>4. CASE Succeed(c)
            BY <2>1, <2>4 DEF Succeed, Finish, CacheInv
        <2>5. CASE EndCheck(c)
            BY <2>1, <2>5 DEF EndCheck, CacheInv
        <2>6. QED BY <2>2, <2>3, <2>4, <2>5
    <1>6. where[c] \notin {"second", "third"}
        BY DEF Attempt, Execute, Note, Succeed, Finish, Go, EndCheck
    <1>7. \A d \in Callers : where'[d] \in {"second", "third"}
              => where[d] \in {"second", "third"} /\ held'[d] = held[d]
        BY <1>3, <1>5, <1>6
    <1>8. QED BY <1>1, <1>4, <1>5, <1>7, CacheKept

LEMMA EnterKeepsCache ==
    ASSUME Inv, CacheInv, NEW c \in Callers, NEW o, NEW k, Enter(c, o, k)
    PROVE  CacheInv'
    <1>1. /\ UNCHANGED cache /\ where[c] = "idle" /\ held' = [held EXCEPT ![c] = NoValue]
          /\ \/ where' = [where EXCEPT ![c] = "try"] /\ fallback_hits' = fallback_hits
             \/ where' = [where EXCEPT ![c] = "fallback"] /\ fallback_hits' = fallback_hits + 1
        BY DEF Enter, Go
    <1>2. /\ held' \in [Callers -> Value] /\ where'[c] \in {"try", "fallback"}
          /\ \A d \in Callers \ {c} : held'[d] = held[d] /\ where'[d] = where[d]
        BY <1>1 DEF Inv, TypeInv, CacheInv, Value
    <1>3. c \notin Asking
        BY <1>1 DEF Asking
    <1>4. CASE where' = [where EXCEPT ![c] = "try"] /\ fallback_hits' = fallback_hits
        <2>1. where'[c] = "try"
            BY <1>4 DEF Inv, TypeInv
        <2>2. Asking' = Asking
            BY <1>1, <1>2, <2>1 DEF Asking
        <2>3. QED BY <1>1, <1>2, <1>4, <2>1, <2>2, CacheKept
    <1>5. CASE where' = [where EXCEPT ![c] = "fallback"] /\ fallback_hits' = fallback_hits + 1
        <2>1. where'[c] = "fallback"
            BY <1>5 DEF Inv, TypeInv
        <2>2. Asking' = Asking \cup {c}
            BY <1>2, <2>1 DEF Asking
        <2>3. QED BY <1>1, <1>2, <1>3, <1>5, <2>1, <2>2, CacheAsked
    <1>6. QED BY <1>1, <1>4, <1>5

LEMMA GiveUpKeepsCache ==
    ASSUME Inv, CacheInv, NEW c \in Callers, GiveUp(c)
    PROVE  CacheInv'
    <1>1. /\ UNCHANGED <<cache, held>> /\ where[c] = "try" /\ where' = [where EXCEPT ![c] = "fallback"]
          /\ fallback_hits' = fallback_hits + 1
        BY DEF GiveUp, Go
    <1>2. where'[c] = "fallback" /\ \A d \in Callers \ {c} : where'[d] = where[d]
        BY <1>1 DEF Inv, TypeInv
    <1>3. c \notin Asking /\ Asking' = Asking \cup {c}
        BY <1>1, <1>2 DEF Asking
    <1>4. held' \in [Callers -> Value]
        BY <1>1 DEF CacheInv
    <1>5. QED BY <1>1, <1>2, <1>3, <1>4, CacheAsked

(* The steps that use it.                                                  *)
LEMMA FallbackKeepsCache ==
    ASSUME Inv, CacheInv, NEW c \in Callers, Fallback(c)
    PROVE  CacheInv'
    <1> DEFINE k == on[c]
               found == ValueOf(cache, k)
    <1>1. /\ k \in Keys /\ CacheOK(cache) /\ 0 \in Value /\ NoValue \in Value
          /\ Number(0) = 0 /\ Number(NoValue) = 0
        BY DEF Inv, TypeInv, CacheInv, Value, Number
    <1>2. c \in Asking /\ fallback_hits' = fallback_hits
        BY DEF Fallback, Finish, Go, Asking, metrics
    <1>3. found \in Value /\ (found = NoValue \/ \E e \in cache : found = e.value)
        BY <1>1, ValueIsHeld
    <1> HIDE DEF found
    <1>4. CASE op[c] = "get"
        <2>1. /\ where' = [where EXCEPT ![c] = "idle"] /\ cache' = Touched(cache, k)
              /\ \E u \in {NoValue, found} : held' = [held EXCEPT ![c] = u]
            BY <1>4 DEF Fallback, Finish, Go, found
        <2>2. CacheOK(cache') /\ \A e \in cache' : \E f \in cache : e.value = f.value
            BY <1>1, <2>1, TouchedKeepsSound
        <2>3. QED BY <1>1, <1>2, <1>3, <2>1, <2>2, CacheUsed
    <1>5. CASE op[c] = "set"
        <2>1. /\ where' = [where EXCEPT ![c] = "idle"] /\ cache' = Put(cache, k, 0)
              /\ \E u \in {NoValue, 0} : held' = [held EXCEPT ![c] = u]
            BY <1>5 DEF Fallback, Finish, Go
        <2>2. CacheOK(cache') /\ \A e \in cache' : Number(e.value) = 0 \/ e \in cache
            BY <1>1, <2>1, PutKeepsSound
        <2>3. QED BY <1>1, <1>2, <2>1, <2>2, CacheUsed
    <1>6. CASE op[c] = "delete"
        <2>1. /\ where' = [where EXCEPT ![c] = "idle"] /\ cache' = Without(cache, k)
              /\ held' = [held EXCEPT ![c] = NoValue]
            BY <1>6 DEF Fallback, Finish, Go
        <2>2. CacheOK(cache') /\ \A e \in cache' : e \in cache
            BY <1>1, <2>1, FewerEntries DEF Without
        <2>3. QED BY <1>1, <1>2, <2>1, <2>2, CacheUsed
    <1>7. CASE op[c] = "incr"
        <2>1. /\ where' = [where EXCEPT ![c] = "second"] /\ cache' = Touched(cache, k)
              /\ held' = [held EXCEPT ![c] = found]
            BY <1>7 DEF Fallback, Go, found
        <2>2. CacheOK(cache') /\ \A e \in cache' : \E f \in cache : e.value = f.value
            BY <1>1, <2>1, TouchedKeepsSound
        <2>3. QED BY <1>2, <1>3, <2>1, <2>2, CacheUsed
    <1>8. CASE op[c] = "expire"
        <2>1. /\ \E next \in {"idle", "second"} : where' = [where EXCEPT ![c] = next]
              /\ cache' = Checked(cache, k) /\ held' = [held EXCEPT ![c] = NoValue]
            BY <1>8 DEF Fallback, Finish, Go
        <2>2. CacheOK(cache') /\ \A e \in cache' : e \in cache
            BY <1>1, <2>1, CheckedKeepsSound
        <2>3. QED BY <1>1, <1>2, <2>1, <2>2, CacheUsed
    <1>9. QED BY <1>4, <1>5, <1>6, <1>7, <1>8 DEF Fallback

LEMMA FallbackRestKeepsCache ==
    ASSUME Inv, CacheInv, NEW c \in Callers, FallbackSecond(c) \/ FallbackThird(c)
    PROVE  CacheInv'
    <1> DEFINE k == on[c]
               raised == Number(held[c]) + 1
    <1>1. /\ k \in Keys /\ CacheOK(cache) /\ held[c] \in Value /\ NoValue \in Value
          /\ Number(held[c]) \in Nat /\ raised \in Value /\ Number(raised) = raised
        BY NumberType DEF Inv, TypeInv, CacheInv, Value, Number
    <1>2. c \in Asking /\ fallback_hits' = fallback_hits
        BY DEF FallbackSecond, FallbackThird, Finish, Go, Asking, metrics
    <1>3. CASE op[c] = "incr" /\ FallbackSecond(c)
        <2>1. /\ where[c] = "second" /\ where' = [where EXCEPT ![c] = "idle"]
              /\ cache' = Put(cache, k, raised)
              /\ \E u \in {NoValue, raised} : held' = [held EXCEPT ![c] = u]
            BY <1>3 DEF FallbackSecond, Finish, Go
        <2>2. /\ CacheOK(cache')
              /\ \A e \in cache' : e \in cache \/ Number(e.value) <= Number(held[c]) + 1
            BY <1>1, <2>1, PutKeepsSound
        <2>3. QED BY <1>1, <1>2, <2>1, <2>2, CacheUsed
    <1>4. CASE op[c] # "incr" /\ FallbackSecond(c)
        <2>1. /\ where' = [where EXCEPT ![c] = "third"] /\ cache' = Touched(cache, k)
              /\ held' = [held EXCEPT ![c] = ValueOf(cache, k)]
            BY <1>4 DEF FallbackSecond, Go
        <2>2. /\ CacheOK(cache') /\ \A e \in cache' : \E f \in cache : e.value = f.value
            BY <1>1, <2>1, TouchedKeepsSound
        <2>3. /\ ValueOf(cache, k) \in Value
              /\ ValueOf(cache, k) = NoValue \/ \E e \in cache : ValueOf(cache, k) = e.value
            BY <1>1, ValueIsHeld
        <2>4. QED BY <1>2, <2>1, <2>2, <2>3, CacheUsed
    <1>5. CASE FallbackThird(c)
        <2>1. /\ where[c] = "third" /\ where' = [where EXCEPT ![c] = "idle"]
              /\ cache' = Put(cache, k, held[c])
              /\ held' = [held EXCEPT ![c] = NoValue]
            BY <1>5 DEF FallbackThird, Finish, Go
        <2>2. /\ CacheOK(cache') /\ \A e \in cache' : e \in cache \/ e.value = held[c]
            BY <1>1, <2>1, PutKeepsSound
        <2>3. \A e \in cache' : e \in cache \/ Number(e.value) <= Number(held[c])
            BY <1>1, <2>2
        <2>4. QED BY <1>1, <1>2, <2>1, <2>2, <2>3, CacheUsed
    <1>6. QED BY <1>3, <1>4, <1>5

LEMMA AsideKeepsCache ==
    ASSUME Inv, CacheInv, NEW c \in Callers, Aside(c)
    PROVE  CacheInv'
    <1>1. UNCHANGED <<cache, held, fallback_hits>>
        BY DEF Aside, quiet, metrics
    <1>2. /\ where[c] \in {"idle"} \cup Connecting /\ where'[c] \in {"idle"} \cup Connecting
          /\ \A d \in Callers \ {c} : where'[d] = where[d]
        BY DEF Aside, Inv, TypeInv
    <1>3. Asking' = Asking
        BY <1>2 DEF Asking, Connecting
    <1>4. \A d \in Callers : where'[d] \in {"second", "third"} => where[d] = where'[d]
        BY <1>2 DEF Connecting
    <1>5. QED BY <1>1, <1>3, <1>4, CacheKept DEF CacheInv

LEMMA ExpireKeepsCache ==
    ASSUME Inv, CacheInv, Expire
    PROVE  CacheInv'
    <1>1. PICK e \in cache : cache' = (cache \ {e}) \cup {[e EXCEPT !.expired = TRUE]} /\ ~e.expired
        BY DEF Expire
    <1> DEFINE rest == cache \ {e}
               gone == [e EXCEPT !.expired = TRUE]
    <1>2. UNCHANGED <<where, held, fallback_hits>>
        BY DEF Expire, requestVars, metrics
    <1>3. /\ e \in Entry /\ gone \in Entry /\ gone.key = e.key /\ gone.used = e.used
          /\ gone.value = e.value
        BY DEF CacheInv, CacheOK, Entry
    <1>4. \A f \in rest : f.key # e.key /\ f.used # e.used
        BY DEF CacheInv, CacheOK, SoundCache
    <1>5. CacheOK(cache) /\ CacheOK(rest)
        BY FewerEntries DEF CacheInv
    <1>6. IsFiniteSet(rest) /\ Cardinality(rest) = Cardinality(cache) - 1
        BY <1>5, FS_RemoveElement DEF CacheOK
    <1>7. gone \notin rest
        BY <1>3, <1>4
    <1>8. IsFiniteSet(rest \cup {gone}) /\ Cardinality(rest \cup {gone}) = Cardinality(rest) + 1
        BY <1>6, <1>7, FS_AddElement
    <1>9. Cardinality(cache) \in Nat
        BY <1>5, FewerEntries
    <1>10. cache' = rest \cup {gone}
        BY <1>1
    <1> HIDE DEF rest, gone
    <1>11. CacheOK(rest \cup {gone})
        <2>1. Cardinality(rest \cup {gone}) <= max_size
            BY <1>5, <1>6, <1>8, <1>9 DEF CacheOK, SoundCache
        <2>2. \A f, g \in rest \cup {gone} : f.key = g.key \/ f.used = g.used => f = g
            BY <1>3, <1>4, <1>5 DEF CacheOK, SoundCache
        <2>3. QED BY <1>3, <1>5, <1>8, <2>1, <2>2 DEF CacheOK, SoundCache
    <1>12. \A f \in cache' : \E g \in cache : f.value = g.value
        BY <1>3, <1>10 DEF rest
    <1>13. Asking' = Asking
        BY <1>2 DEF Asking
    <1>14. \A f \in cache' : Room(f.value)'
        BY <1>2, <1>12, <1>13 DEF CacheInv, Room
    <1>15. QED BY <1>2, <1>10, <1>11, <1>13, <1>14 DEF CacheInv, Room

LEMMA StepCache == Inv /\ CacheInv /\ [Next]_cVars => CacheInv'
    <1> SUFFICES ASSUME Inv, CacheInv, [Next]_cVars PROVE CacheInv'
        OBVIOUS
    <1>1. ASSUME NEW c \in Callers, NEW o \in Operations, NEW k \in Keys, Request(c, o, k)
          PROVE  CacheInv'
        BY <1>1, EnterKeepsCache DEF Request
    <1>2. ASSUME NEW c \in Callers, Requests(c) PROVE CacheInv'
        BY <1>2, RequestStepsKeepCache, GiveUpKeepsCache, FallbackKeepsCache, FallbackRestKeepsCache
           DEF Requests
    <1>3. ASSUME NEW c \in Callers, BeginCheck(c) \/ ContinueCheck(c) PROVE CacheInv'
        BY <1>3, EnterKeepsCache, RequestStepsKeepCache DEF BeginCheck, ContinueCheck
    <1>4. ASSUME NEW c \in Callers, Pings(c) \/ Connects(c) PROVE CacheInv'
        BY <1>4, PingsAside, ConnectsAside, AsideKeepsCache
    <1>5. CASE Expire
        BY <1>5, ExpireKeepsCache
    <1>6. CASE UNCHANGED cVars
        BY <1>6, CacheKept DEF cVars, requestVars, metrics, CacheInv, Asking
    <1>7. QED BY <1>1, <1>2, <1>3, <1>4, <1>5, <1>6 DEF Next

LEMMA SpecCache == Spec => [](Inv /\ CacheInv)
    BY InitInv, StepInv, InitCache, StepCache, PTL DEF Spec

(* No count in the cache is above the requests it was given, whatever the  *)
(* increments lose to each other.                                          *)
THEOREM CacheUndercounts == Spec => []CacheNeverOvercounts
    <1>1. Inv /\ CacheInv => CacheNeverOvercounts
        <2> SUFFICES ASSUME Inv, CacheInv, NEW e \in cache PROVE Number(e.value) <= fallback_hits
            BY DEF CacheNeverOvercounts
        <2>1. Cardinality(Asking) \in Nat
            BY ThreadsCount DEF Asking
        <2>2. Number(e.value) \in Nat /\ fallback_hits \in Nat
            BY NumberType DEF CacheInv, CacheOK, Entry, Inv, TypeInv
        <2>3. QED BY <2>1, <2>2 DEF CacheInv, Room
    <1>2. QED BY <1>1, SpecCache, PTL

(* The cache keeps its size, one entry per key and a total order, whatever *)
(* expires or is evicted, extended or raised by several threads.           *)
THEOREM CacheStaysSound == Spec => []CacheIsSound
    <1>1. CacheInv => CacheIsSound
        BY DEF CacheInv, CacheOK, CacheIsSound
    <1>2. QED BY <1>1, SpecCache, PTL

-----------------------------------------------------------------------------
(* The client object and the threads that connect it.                      *)

RestType ==
    /\ client \in BOOLEAN /\ initialized \in BOOLEAN /\ initializing \in BOOLEAN /\ torn \in BOOLEAN
    /\ attempt \in [Callers -> 0..max_attempts]
    /\ reconnects \in 0..MaxReconnects

(* At most one thread is between setting _initializing and resetting it,   *)
(* which it does only while _initialized is not set; and once its ping is  *)
(* answered, only a close that torn remembers takes the client away.       *)
ConnectInv ==
    /\ RestType
    /\ \A c, d \in Initializers : c = d
    /\ initializing <=> Initializers # {}
    /\ initializing => ~initialized
    /\ \A c \in Callers : where[c] = "pinged" => client \/ torn
    /\ InitializedHasClient

LEMMA InitConnect == Init => ConnectInv
    <1> SUFFICES ASSUME Init PROVE ConnectInv
        OBVIOUS
    <1>1. RestType
        <2>1. /\ client \in BOOLEAN /\ initialized \in BOOLEAN /\ initializing \in BOOLEAN
              /\ torn \in BOOLEAN
            BY DEF Init
        <2>2. attempt \in [Callers -> 0..max_attempts] /\ reconnects \in 0..MaxReconnects
            BY DEF Init
        <2>3. QED BY <2>1, <2>2 DEF RestType
    <1>2. Initializers = {} /\ \A c \in Callers : where[c] # "pinged"
        BY DEF Init, Initializers
    <1>3. QED BY <1>1, <1>2 DEF Init, ConnectInv, InitializedHasClient

(* A step that is not one of those that initialize.                        *)
LEMMA ConnectKept ==
    ASSUME Inv, ConnectInv, UNCHANGED <<client, initialized, initializing, torn>>,
           attempt' \in [Callers -> 0..max_attempts], reconnects' \in 0..MaxReconnects,
           \A d \in Callers :
              \/ where'[d] = where[d]
              \/ {where[d], where'[d]} \cap {"ping", "pinged", "refused"} = {}
    PROVE  ConnectInv'
    <1>1. Initializers' = Initializers
        BY DEF Initializers
    <1>2. RestType'
        BY DEF ConnectInv, RestType
    <1>3. \A d \in Callers : where'[d] = "pinged" => where[d] = "pinged"
        OBVIOUS
    <1>4. QED BY <1>1, <1>2, <1>3 DEF ConnectInv, InitializedHasClient

LEMMA RequestsKeepConnect ==
    ASSUME Inv, ConnectInv, NEW c \in Callers,
           \/ \E o \in Operations, k \in Keys : Request(c, o, k)
           \/ Requests(c) \/ BeginCheck(c) \/ ContinueCheck(c)
    PROVE  ConnectInv'
    <1>1. UNCHANGED clientVars
        BY DEF Request, Requests, BeginCheck, ContinueCheck, Attempt, Execute, Note, Succeed, GiveUp,
               Fallback, FallbackSecond, FallbackThird, Enter, EndCheck
    <1>2. attempt' \in [Callers -> 0..max_attempts]
        <2>1. attempt \in [Callers -> 0..max_attempts]
            BY DEF ConnectInv, RestType
        <2>2. CASE Attempt(c)
            BY <2>1, <2>2 DEF Attempt
        <2>3. CASE UNCHANGED attempt \/ attempt' = [attempt EXCEPT ![c] = 0]
            BY <2>1, <2>3
        <2>4. QED
            BY <2>2, <2>3 DEF Request, Requests, BeginCheck, ContinueCheck, Execute, Note, Succeed,
               GiveUp, Fallback, FallbackSecond, FallbackThird, Enter, EndCheck, Finish
    <1>3. where' = where \/ \E from, to \in {"idle"} \cup Requesting : Go(c, from, to)
        <2>1. {"idle", "try", "succeeded", "fallback", "second", "third"} = {"idle"} \cup Requesting
            BY DEF Requesting
        <2>2. CASE \/ \E o \in Operations, k \in Keys : Request(c, o, k)
                   \/ BeginCheck(c) \/ ContinueCheck(c)
            BY <2>1, <2>2 DEF Request, BeginCheck, ContinueCheck, Enter, EndCheck
        <2>3. CASE Attempt(c) \/ Execute(c) \/ Note(c) \/ Succeed(c) \/ GiveUp(c)
            BY <2>1, <2>3 DEF Attempt, Execute, Note, Succeed, GiveUp, Finish
        <2>4. CASE Fallback(c) \/ FallbackSecond(c) \/ FallbackThird(c)
            BY <2>1, <2>4 DEF Fallback, FallbackSecond, FallbackThird, Finish
        <2>5. QED BY <2>2, <2>3, <2>4 DEF Requests
    <1>4. \A d \in Callers : \/ where'[d] = where[d]
                             \/ {where[d], where'[d]} \cap {"ping", "pinged", "refused"} = {}
        BY <1>3 DEF Go, Inv, TypeInv, Requesting
    <1>5. QED BY <1>1, <1>2, <1>4, ConnectKept DEF clientVars, ConnectInv, RestType

LEMMA PingsKeepConnect ==
    ASSUME Inv, ConnectInv, NEW c \in Callers, Pings(c)
    PROVE  ConnectInv'
    <1>1. /\ UNCHANGED <<client, initialized, initializing, torn, attempt>>
          /\ reconnects' \in 0..MaxReconnects
        BY DEF Pings, PingAlone, MayReconnect, AskPing, RunPing, NotePing, clientVars, quiet, ConnectInv, RestType
    <1>2. \/ UNCHANGED where
          \/ \E from \in {"idle", "probe", "confirm"}, to \in {"idle", "close", "confirm"} : Go(c, from, to)
        BY DEF Pings, PingAlone, AskPing, RunPing, NotePing, PingAnswered, PingFailed
    <1>3. \A d \in Callers : \/ where'[d] = where[d]
                             \/ {where[d], where'[d]} \cap {"ping", "pinged", "refused"} = {}
        BY <1>2 DEF Go, Inv, TypeInv
    <1>4. QED BY <1>1, <1>3, ConnectKept DEF ConnectInv, RestType

LEMMA ConnectsKeepConnect ==
    ASSUME Inv, ConnectInv, NEW c \in Callers, Connects(c)
    PROVE  ConnectInv'
    <1>1. Aside(c)
        BY ConnectsAside
    <1>2. /\ attempt' \in [Callers -> 0..max_attempts]
          /\ \A d \in Callers \ {c} : where'[d] = where[d]
        BY <1>1 DEF Aside, quiet, ConnectInv, RestType, Inv, TypeInv
    <1>3. reconnects' \in 0..MaxReconnects /\ RestType
        BY DEF Connects, Reconnect, MayReconnect, Close, CloseAlone, Reset, Initialize, Connect, Ping, Connected,
               clientVars, ConnectInv, RestType
    <1>4. ASSUME NEW from, NEW to, Go(c, from, to) PROVE where[c] = from /\ where'[c] = to
        BY <1>4 DEF Go, Inv, TypeInv
    <1>5. {where[c], where'[c]} \cap {"ping", "pinged", "refused"} = {} => Initializers' = Initializers
        BY <1>2 DEF Initializers
    <1>6. CASE (\E force \in BOOLEAN : Reconnect(c, force)) \/ Initialize(c) \/ (Connect(c) /\ initialized)
        <2>1. UNCHANGED <<client, initialized, initializing, torn>>
            BY <1>6 DEF Reconnect, Initialize, Connect, clientVars
        <2>2. {where[c], where'[c]} \cap {"ping", "pinged", "refused"} = {}
            BY <1>4, <1>6 DEF Reconnect, Initialize, Connect
        <2>3. QED BY <1>2, <1>3, <2>1, <2>2, ConnectKept
    <1>7. CASE Close(c) \/ CloseAlone(c)
        <2>1. /\ client' = FALSE /\ initialized' = FALSE /\ UNCHANGED initializing
              /\ torn' = \E d \in Callers : where[d] = "pinged"
            BY <1>7 DEF Close, CloseAlone, Closed
        <2>2. {where[c], where'[c]} \cap {"ping", "pinged", "refused"} = {}
            BY <1>4, <1>7 DEF Close, CloseAlone
        <2>3. \A d \in Callers : where'[d] = "pinged" => where[d] = "pinged"
            BY <1>2, <2>2
        <2>4. RestType'
            BY <1>2, <1>3, <2>1 DEF RestType
        <2>5. QED BY <1>5, <2>1, <2>2, <2>3, <2>4 DEF ConnectInv, InitializedHasClient
    <1>8. CASE Reset(c)
        <2>1. initialized' = FALSE /\ UNCHANGED <<client, initializing, torn>>
            BY <1>8 DEF Reset
        <2>2. {where[c], where'[c]} \cap {"ping", "pinged", "refused"} = {}
            BY <1>4, <1>8 DEF Reset
        <2>3. \A d \in Callers : where'[d] = "pinged" => where[d] = "pinged"
            BY <1>2, <2>2
        <2>4. RestType'
            BY <1>2, <1>3, <2>1 DEF RestType
        <2>5. QED BY <1>5, <2>1, <2>2, <2>3, <2>4 DEF ConnectInv, InitializedHasClient
    <1>9. CASE Connect(c) /\ ~initialized
        <2>1. /\ ~initializing /\ initializing' = TRUE /\ UNCHANGED initialized
              /\ \/ client' = TRUE /\ torn' = FALSE
                 \/ UNCHANGED <<client, torn>>
            BY <1>9 DEF Connect
        <2>2. where[c] = "locked" /\ where'[c] \in {"ping", "refused"}
            BY <1>4, <1>9 DEF Connect
        <2>3. Initializers = {} /\ Initializers' = {c}
            BY <1>2, <2>1, <2>2 DEF ConnectInv, Initializers
        <2>4. \A d \in Callers : where'[d] # "pinged"
            BY <1>2, <2>2, <2>3 DEF Initializers
        <2>5. RestType'
            BY <1>2, <1>3, <2>1 DEF RestType
        <2>6. QED BY <1>9, <2>1, <2>3, <2>4, <2>5 DEF ConnectInv, InitializedHasClient
    <1>10. CASE Ping(c)
        <2>1. UNCHANGED <<client, initialized, initializing, torn>>
            BY <1>10 DEF Ping, clientVars
        <2>2. where[c] = "ping" /\ where'[c] \in {"pinged", "refused"} /\ (where'[c] = "pinged" => client)
            BY <1>4, <1>10 DEF Ping
        <2>3. Initializers' = Initializers
            BY <1>2, <2>2 DEF Initializers
        <2>4. \A d \in Callers : where'[d] = "pinged" => client \/ where[d] = "pinged"
            BY <1>2, <2>2
        <2>5. RestType'
            BY <1>2, <1>3, <2>1 DEF RestType
        <2>6. QED BY <2>1, <2>3, <2>4, <2>5 DEF ConnectInv, InitializedHasClient
    <1>11. CASE Connected(c)
        <2>1. /\ initializing' = FALSE /\ UNCHANGED torn /\ where'[c] = "confirm"
              /\ \/ where[c] = "pinged" /\ initialized' = TRUE /\ UNCHANGED client
                 \/ where[c] = "refused" /\ client' = FALSE /\ UNCHANGED initialized
            BY <1>4, <1>11 DEF Connected
        <2>2. c \in Initializers
            BY <2>1 DEF Initializers
        <2>3. Initializers' = {}
            BY <1>2, <2>1, <2>2 DEF ConnectInv, Initializers
        <2>4. ~initialized
            BY <2>2 DEF ConnectInv
        <2>5. RestType'
            BY <1>2, <1>3, <2>1 DEF RestType
        <2>6. \A d \in Callers : where'[d] # "pinged"
            BY <2>3 DEF Initializers
        <2>7. InitializedHasClient'
            <3>1. CASE where[c] = "pinged" /\ UNCHANGED client
                <4>1. client \/ torn
                    BY <3>1 DEF ConnectInv
                <4>2. client' \/ torn'
                    BY <2>1, <3>1, <4>1
                <4>3. QED BY <4>2 DEF InitializedHasClient
            <3>2. CASE UNCHANGED initialized
                BY <2>4, <3>2 DEF InitializedHasClient
            <3>3. QED BY <2>1, <3>1, <3>2
        <2>8. QED BY <2>1, <2>3, <2>5, <2>6, <2>7 DEF ConnectInv
    <1>12. QED BY <1>6, <1>7, <1>8, <1>9, <1>10, <1>11 DEF Connects

LEMMA StepConnect == Inv /\ ConnectInv /\ [Next]_cVars => ConnectInv'
    <1> SUFFICES ASSUME Inv, ConnectInv, [Next]_cVars PROVE ConnectInv'
        OBVIOUS
    <1>1. ASSUME NEW c \in Callers,
                 \/ \E o \in Operations, k \in Keys : Request(c, o, k)
                 \/ Requests(c) \/ BeginCheck(c) \/ ContinueCheck(c)
          PROVE  ConnectInv'
        BY <1>1, RequestsKeepConnect
    <1>2. ASSUME NEW c \in Callers, Pings(c) \/ Connects(c) PROVE ConnectInv'
        BY <1>2, PingsKeepConnect, ConnectsKeepConnect
    <1>3. CASE Expire \/ UNCHANGED cVars
        <2>1. UNCHANGED <<clientVars, requestVars>>
            BY <1>3 DEF Expire, cVars
        <2>2. attempt' \in [Callers -> 0..max_attempts]
            BY <2>1 DEF requestVars, ConnectInv, RestType
        <2>3. QED BY <2>1, <2>2, ConnectKept DEF requestVars, clientVars, ConnectInv, RestType
    <1>4. QED BY <1>1, <1>2, <1>3 DEF Next

LEMMA SpecConnect == Spec => []ConnectInv
    BY InitInv, StepInv, InitConnect, StepConnect, PTL DEF Spec

(* No way through _initialize_client leaves _initializing set behind it,   *)
(* and no two threads are in it at once.                                   *)
THEOREM InitializesAlone == Spec => []OneInitializer
    <1>1. ConnectInv => OneInitializer
        <2> SUFFICES ASSUME ConnectInv PROVE OneInitializer
            OBVIOUS
        <2>1. CASE Initializers = {}
            BY <2>1, FS_EmptySet DEF ConnectInv, OneInitializer
        <2>2. CASE Initializers # {}
            <3>1. PICK c \in Initializers : TRUE
                BY <2>2
            <3>2. Initializers = {c}
                BY <3>1 DEF ConnectInv
            <3>3. Cardinality({c}) = 1
                BY FS_Singleton
            <3>4. QED BY <2>2, <3>2, <3>3 DEF ConnectInv, OneInitializer
        <2>3. QED BY <2>1, <2>2
    <1>2. QED BY <1>1, SpecConnect, PTL

(* However many threads connect, close and fail to connect, _initialized   *)
(* without a client is left behind only by a close that came between an    *)
(* answered first ping and the assignment that follows it.                 *)
THEOREM OnlyATornCloseMisleads == Spec => []InitializedHasClient
    <1>1. ConnectInv => InitializedHasClient
        BY DEF ConnectInv
    <1>2. QED BY <1>1, SpecConnect, PTL

(* Every variable keeps its type, the attempts of a request its bound.     *)
THEOREM TypesHold == Spec => []TypeOK
    <1>1. Inv /\ CacheInv /\ ConnectInv => TypeOK
        BY DEF Inv, TypeInv, CacheInv, CacheOK, ConnectInv, RestType, TypeOK
    <1>2. QED BY <1>1, SpecCache, SpecConnect, PTL

-----------------------------------------------------------------------------
(* The action properties.                                                  *)

(* What the code asks of the breaker is what a breaker promises.           *)
THEOREM UsesBreakerAsMeant == Spec => KeepsToBreaker
    <1>1. Init => BreakerInit
        BY DEF Init
    <1>2. [Next]_cVars => [BreakerNext]_bVars
        <2> SUFFICES ASSUME [Next]_cVars PROVE BreakerNext \/ UNCHANGED bVars
            BY DEF bVars
        <2>1. ASSUME NEW c \in Callers, Requests(c) PROVE BreakerNext \/ UNCHANGED bVars
            <3>1. CASE Attempt(c) \/ Execute(c) \/ Note(c)
                BY <3>1 DEF Attempt, Execute, Note, BreakerNext
            <3>2. CASE Succeed(c) \/ GiveUp(c) \/ Fallback(c) \/ FallbackSecond(c) \/ FallbackThird(c)
                BY <3>2 DEF Succeed, GiveUp, Fallback, FallbackSecond, FallbackThird
            <3>3. QED BY <2>1, <3>1, <3>2 DEF Requests
        <2>2. ASSUME NEW c \in Callers, NEW o \in Operations, NEW k \in Keys, Request(c, o, k)
              PROVE  UNCHANGED bVars
            BY <2>2 DEF Request, Enter
        <2>3. ASSUME NEW c \in Callers, BeginCheck(c) \/ ContinueCheck(c) PROVE UNCHANGED bVars
            BY <2>3 DEF BeginCheck, ContinueCheck, Enter, EndCheck
        <2>4. ASSUME NEW c \in Callers, Pings(c) \/ Connects(c)
              PROVE  BreakerNext \/ UNCHANGED bVars
            <3>1. CASE Pings(c)
                BY <3>1 DEF Pings, PingAlone, AskPing, RunPing, NotePing, BreakerNext
            <3>2. CASE Connects(c)
                BY <3>2 DEF Connects, Reconnect, Close, CloseAlone, Reset, Initialize, Connect, Ping,
                            Connected, BreakerNext
            <3>3. QED BY <2>4, <3>1, <3>2
        <2>5. CASE Expire \/ UNCHANGED cVars
            BY <2>5 DEF Expire, cVars
        <2>6. QED BY <2>1, <2>2, <2>3, <2>4, <2>5 DEF Next
    <1>3. QED BY <1>1, <1>2, PTL DEF Spec, KeepsToBreaker, BreakerSpec

(* A live entry leaves the cache only deleted, or evicted as the least     *)
(* recently used of a full cache to make room for a new key.               *)
Leaves(e) == e \in cache /\ ~e.expired /\ \A f \in cache' : f.key # e.key
Evicted(e) ==
    /\ Cardinality(cache) = max_size /\ IsOldest(e, cache)
    /\ \E f \in cache' : \A g \in cache : g.key # f.key

LEMMA FallbackLeaves ==
    ASSUME Inv, CacheInv, NEW c \in Callers, Fallback(c) \/ FallbackSecond(c) \/ FallbackThird(c),
           NEW e, Leaves(e)
    PROVE  Deleting(e.key) \/ Evicted(e)
    <1> DEFINE k == on[c]
               raised == Number(held[c]) + 1
    <1>1. /\ k \in Keys /\ CacheOK(cache) /\ 0 \in Value /\ held[c] \in Value
          /\ raised \in Value
        <2>1. held[c] \in Value /\ Number(held[c]) \in Nat
            BY NumberType DEF CacheInv
        <2>2. raised \in Nat
            BY <2>1
        <2>3. QED BY <2>1, <2>2 DEF Inv, TypeInv, CacheInv, Value
    <1>2. ASSUME NEW v \in Value, cache' = Put(cache, k, v) PROVE Evicted(e)
        BY <1>1, <1>2, PutDropsTheOldest DEF Leaves, Dropped, Evicted
    <1>3. cache' \notin {Touched(cache, k), Checked(cache, k)}
        BY LooksDropNothing DEF Leaves, Dropped
    <1>4. CASE Fallback(c) /\ op[c] = "delete"
        <2>1. where[c] = "fallback" /\ cache' = Without(cache, k)
            BY <1>4 DEF Fallback, Finish, Go
        <2>2. e.key = k
            BY <2>1 DEF Leaves, Without
        <2>3. QED BY <1>4, <2>1, <2>2 DEF Deleting
    <1>5. CASE Fallback(c) /\ op[c] # "delete"
        <2>1. cache' \in {Touched(cache, k), Put(cache, k, 0), Checked(cache, k)}
            BY <1>5 DEF Fallback
        <2>2. QED BY <1>1, <1>2, <1>3, <2>1
    <1>6. CASE FallbackSecond(c) \/ FallbackThird(c)
        <2>1. cache' \in {Touched(cache, k), Put(cache, k, raised), Put(cache, k, held[c])}
            BY <1>6 DEF FallbackSecond, FallbackThird
        <2>2. QED BY <1>1, <1>2, <1>3, <2>1
    <1>7. QED BY <1>4, <1>5, <1>6

THEOREM LiveEntriesLeaveInOrder == Spec => LiveEntriesStay
    <1>1. ASSUME Inv, CacheInv, [Next]_cVars, NEW e, Leaves(e) PROVE Deleting(e.key) \/ Evicted(e)
        <2>1. cache' # cache
            BY <1>1 DEF Leaves
        <2>2. ASSUME Expire PROVE FALSE
            <3>1. PICK f \in cache : cache' = (cache \ {f}) \cup {[f EXCEPT !.expired = TRUE]}
                BY <2>2 DEF Expire
            <3>2. [f EXCEPT !.expired = TRUE].key = f.key
                BY <1>1 DEF CacheInv, CacheOK, Entry
            <3>3. QED BY <1>1, <3>1, <3>2 DEF Leaves
        <2>3. ASSUME NEW c \in Callers, Requests(c) PROVE Deleting(e.key) \/ Evicted(e)
            <3>1. Fallback(c) \/ FallbackSecond(c) \/ FallbackThird(c)
                BY <2>1, <2>3 DEF Requests, Attempt, Execute, Note, Succeed, GiveUp
            <3>2. QED BY <1>1, <3>1, FallbackLeaves
        <2>4. ASSUME NEW c \in Callers,
                     \/ \E o \in Operations, k \in Keys : Request(c, o, k)
                     \/ BeginCheck(c) \/ ContinueCheck(c) \/ Pings(c) \/ Connects(c)
              PROVE  FALSE
            BY <1>1, <2>1, <2>4, PingsAside, ConnectsAside
               DEF Request, BeginCheck, ContinueCheck, Enter, EndCheck, Aside, quiet
        <2>5. QED BY <1>1, <2>1, <2>2, <2>3, <2>4 DEF Next, cVars
    <1>2. Inv /\ CacheInv /\ [Next]_cVars =>
             [\A e \in cache :
                 ~e.expired /\ (\A f \in cache' : f.key # e.key)
                 => \/ Deleting(e.key)
                    \/ /\ Cardinality(cache) = max_size /\ IsOldest(e, cache)
                       /\ \E f \in cache' : \A g \in cache : g.key # f.key]_cVars
        BY <1>1 DEF Leaves, Evicted
    <1>3. QED BY <1>2, SpecCache, PTL DEF Spec, LiveEntriesStay

=============================================================================
