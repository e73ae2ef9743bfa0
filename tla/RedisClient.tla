----------------------------- MODULE RedisClient -----------------------------
(***************************************************************************)
(* EnterpriseRedisClient of utils/redis_client.py: requests of several     *)
(* threads that go to Redis through the retries and the circuit breaker    *)
(* (of which only what Breaker promises is used), or to the fallback cache *)
(* of the process; check_rate_limit, which is three requests in a row; and *)
(* close and reconnect, which take the client away while requests are      *)
(* under way, and ping, which reconnect uses: a single call through the    *)
(* breaker, without retries, cache or metrics.                             *)
(*                                                                         *)
(* Values are the counts that incr makes; set writes 0.                    *)
(***************************************************************************)
EXTENDS Breaker, FallbackCache

CONSTANTS
    RateKey,       \* the key of the current rate limit window
    limit,         \* the limit of that window
    max_attempts,  \* RetryStrategy.max_attempts, 3 in the code
    MaxRequests,   \* bound on the requests
    MaxReconnects, \* bound on the uses of reconnect, close and ping
    MaxUses        \* bound on both together

ASSUME ClientAssumption ==
    /\ RateKey \in Keys /\ IsFiniteSet(Callers) /\ Callers # {}
    /\ max_attempts \in Nat \ {0} /\ limit \in Nat
    /\ {MaxRequests, MaxReconnects, MaxUses} \subseteq Nat

VARIABLES
    redis,        \* what Redis holds
    cache,        \* the fallback cache
    client,       \* _client is not None
    initialized,  \* _initialized
    initializing, \* _initializing, set for as long as the lock is held
    where,        \* what each thread is doing
    op, on,       \* the operation and key of its request
    attempt,      \* calls made by RetryStrategy.execute
    held,         \* what the request has read or answered
    check,        \* the request of check_rate_limit under way
    total_requests, successful_requests, failed_requests, fallback_hits, \* _metrics
    allowed,      \* history: the checks of the window that answered 'allowed'
    fellBack,     \* history: some request on RateKey was answered by the cache
    reconnects,   \* how often reconnect, close and ping have been called
    torn          \* history: the client was closed between its ping and _initialized

clientVars == <<client, initialized, initializing, reconnects, torn>>
requestVars == <<where, op, on, attempt, held, check>>
metrics == <<total_requests, successful_requests, failed_requests, fallback_hits>>
history == <<allowed, fellBack>>
cVars == <<bVars, redis, cache, clientVars, requestVars, metrics, history>>

Operations == {"get", "set", "delete", "incr", "expire"}
Requesting == {"try", "succeeded", "fallback", "second", "third"}
Connecting ==
    {"probe", "close", "close_forced", "reset", "reset_forced", "init", "locked",
     "ping", "pinged", "refused", "confirm"}
Checks == {"none", "get", "incr", "expire"}

TypeOK ==
    /\ BreakerTypeOK
    /\ redis \in [Keys -> Value]
    /\ cache \subseteq Entry
    /\ {client, initialized, initializing, torn, fellBack} \subseteq BOOLEAN
    /\ where \in [Callers -> {"idle"} \cup Requesting \cup Connecting]
    /\ op \in [Callers -> Operations] /\ on \in [Callers -> Keys]
    /\ attempt \in [Callers -> 0..max_attempts]
    /\ held \in [Callers -> Value]
    /\ check \in [Callers -> Checks]
    /\ {total_requests, successful_requests, failed_requests, fallback_hits, allowed} \subseteq Nat
    /\ reconnects \in 0..MaxReconnects

(* Other processes may have let n requests of the window through.          *)
Init ==
    /\ BreakerInit
    /\ \E n \in 0..limit :
          /\ redis = [k \in Keys |-> IF k = RateKey /\ n > 0 THEN n ELSE NoValue]
          /\ allowed = n
    /\ cache = {}
    /\ client \in BOOLEAN /\ initialized = client /\ initializing = FALSE
    /\ reconnects = 0 /\ torn = FALSE
    /\ where = [c \in Callers |-> "idle"]
    /\ op = [c \in Callers |-> "get"] /\ on = [c \in Callers |-> RateKey]
    /\ attempt = [c \in Callers |-> 0] /\ held = [c \in Callers |-> NoValue]
    /\ check = [c \in Callers |-> "none"]
    /\ total_requests = 0 /\ successful_requests = 0 /\ failed_requests = 0 /\ fallback_hits = 0
    /\ fellBack = FALSE

(* Mutant: a missing value is taken for one.                               *)
Number_One(v) == IF v = NoValue THEN 1 ELSE v

Go(c, from, to) == where[c] = from /\ where' = [where EXCEPT ![c] = to]
Number(v) == IF v = NoValue THEN 0 ELSE v

(* The request of a thread ends with an answer, which only a check uses.   *)
Finish(c, from, answer) ==
    /\ Go(c, from, "idle")
    /\ op' = [op EXCEPT ![c] = "get"] /\ on' = [on EXCEPT ![c] = RateKey]
    /\ attempt' = [attempt EXCEPT ![c] = 0]
    /\ held' = [held EXCEPT ![c] = IF check[c] = "none" THEN NoValue ELSE answer]

-----------------------------------------------------------------------------
(* _execute_with_fallback.                                                 *)

(* Its first lines: the request is counted, and without a client it goes   *)
(* straight to the cache.                                                  *)
Enter(c, o, k) ==
    /\ IF client /\ initialized
       THEN Go(c, "idle", "try") /\ UNCHANGED fallback_hits
       ELSE Go(c, "idle", "fallback") /\ fallback_hits' = fallback_hits + 1
    /\ total_requests' = total_requests + 1
    /\ op' = [op EXCEPT ![c] = o] /\ on' = [on EXCEPT ![c] = k]
    /\ held' = [held EXCEPT ![c] = NoValue]
    /\ UNCHANGED <<bVars, redis, cache, clientVars, attempt, successful_requests, failed_requests>>

(* Bounds: another request, another use of reconnect, close or ping.       *)
MayRequest == total_requests < MaxRequests /\ total_requests + reconnects < MaxUses
MayReconnect == reconnects < MaxReconnects /\ total_requests + reconnects < MaxUses

(* set, get, delete, incr and expire called for themselves.                *)
Request(c, o, k) ==
    /\ check[c] = "none" /\ k # RateKey /\ MayRequest
    /\ Enter(c, o, k)
    /\ UNCHANGED <<check, history>>

(* Mutant: nothing counts the attempts.                                    *)
Attempt_Unlimited(c) ==
    /\ where[c] = "try" /\ MayAdmit(c)
    /\ attempt' = [attempt EXCEPT ![c] = @ + 1]
    /\ UNCHANGED <<redis, cache, clientVars, where, op, on, held, check, metrics, history>>

(* Mutant: the call goes to Redis without asking the breaker.              *)
Attempt_Unasked(c) ==
    /\ where[c] = "try" /\ attempt[c] < max_attempts
    /\ Move(c, "out", "running") /\ UNCHANGED state
    /\ attempt' = [attempt EXCEPT ![c] = @ + 1]
    /\ UNCHANGED <<redis, cache, clientVars, where, op, on, held, check, metrics, history>>

(* One turn of RetryStrategy.execute: the breaker lets the call in or      *)
(* raises, and either is an attempt.                                       *)
Attempt(c) ==
    /\ where[c] = "try" /\ attempt[c] < max_attempts
    /\ \/ MayAdmit(c)
       \/ state \in {"open", "force_open"} /\ calling[c] = "out" /\ UNCHANGED bVars
    /\ attempt' = [attempt EXCEPT ![c] = @ + 1]
    /\ UNCHANGED <<redis, cache, clientVars, where, op, on, held, check, metrics, history>>

(* Mutant: an increment starts again from nothing.                         *)
After_Restart(o, v) ==
    CASE o \in {"set", "delete"} -> NoValue
      [] o = "incr" -> 1
      [] OTHER -> v

(* What an operation leaves under its key in Redis, and answers.           *)
After(o, v) ==
    CASE o = "set" -> 0
      [] o = "delete" -> NoValue
      [] o = "incr" -> Number(v) + 1
      [] OTHER -> v

(* The operation in Redis.  It raises when Redis is away, when close has   *)
(* set _client to None, and when only the reply is lost: Redis has then    *)
(* done it, and a further attempt does it again.                           *)
Execute(c) ==
    /\ where[c] = "try" /\ RunFunction(c)
    /\ LET v == redis[on[c]]
       IN  \/ /\ client
              /\ redis' = [redis EXCEPT ![on[c]] = After(op[c], v)]
              /\ held' = IF calling'[c] = "ok" THEN [held EXCEPT ![c] = After(op[c], v)] ELSE held
           \/ calling'[c] = "failed" /\ UNCHANGED <<redis, held>>
    /\ UNCHANGED <<cache, clientVars, where, op, on, attempt, check, metrics, history>>

Note(c) ==
    /\ \/ NoteSuccess(c) /\ Go(c, "try", "succeeded")
       \/ NoteFailure(c) /\ where[c] = "try" /\ UNCHANGED where
    /\ UNCHANGED <<redis, cache, clientVars, op, on, attempt, held, check, metrics, history>>

Succeed(c) ==
    /\ Finish(c, "succeeded", held[c])
    /\ successful_requests' = successful_requests + 1
    /\ UNCHANGED <<bVars, redis, cache, clientVars, check, total_requests, failed_requests,
                   fallback_hits, history>>

(* Mutant: the fallback is not counted.                                    *)
GiveUp_Uncounted(c) ==
    /\ Go(c, "try", "fallback")
    /\ attempt[c] = max_attempts /\ calling[c] = "out"
    /\ failed_requests' = failed_requests + 1
    /\ UNCHANGED <<bVars, redis, cache, clientVars, op, on, attempt, held, check, total_requests,
                   successful_requests, fallback_hits, history>>

(* The last attempt has failed: the cache answers.                         *)
GiveUp(c) ==
    /\ Go(c, "try", "fallback")
    /\ attempt[c] = max_attempts /\ calling[c] = "out"
    /\ failed_requests' = failed_requests + 1
    /\ fallback_hits' = fallback_hits + 1
    /\ UNCHANGED <<bVars, redis, cache, clientVars, op, on, attempt, held, check, total_requests,
                   successful_requests, history>>

(* _fallback_operation.  get, set and delete are one access to the cache;  *)
(* incr reads and then writes, expire looks, reads and then writes, and    *)
(* other threads may come in between.                                      *)
Fallback(c) ==
    LET k == on[c]
        Answer(q, v) == Finish(c, "fallback", v) /\ cache' = q
        Read(q, v) == /\ Go(c, "fallback", "second") /\ cache' = q
                      /\ held' = [held EXCEPT ![c] = v]
                      /\ UNCHANGED <<op, on, attempt>>
    IN  /\ \/ op[c] = "get" /\ Answer(Touched(cache, k), ValueOf(cache, k))
           \/ op[c] = "set" /\ Answer(Put(cache, k, 0), 0)
           \/ op[c] = "delete" /\ Answer(Without(cache, k), NoValue)
           \/ op[c] = "incr" /\ Read(Touched(cache, k), ValueOf(cache, k))
           \/ /\ op[c] = "expire"
              /\ IF HasKey(cache, k) THEN Read(Checked(cache, k), NoValue)
                 ELSE Answer(Checked(cache, k), NoValue)
        /\ fellBack' = (fellBack \/ k = RateKey)
        /\ UNCHANGED <<bVars, redis, clientVars, check, metrics, allowed>>

FallbackSecond(c) ==
    LET k == on[c]
        raised == Number(held[c]) + 1
    IN  /\ \/ /\ op[c] = "incr" /\ Finish(c, "second", raised)
              /\ cache' = Put(cache, k, raised)
           \/ /\ op[c] = "expire" /\ Go(c, "second", "third")
              /\ cache' = Touched(cache, k)
              /\ held' = [held EXCEPT ![c] = ValueOf(cache, k)]
              /\ UNCHANGED <<op, on, attempt>>
        /\ UNCHANGED <<bVars, redis, clientVars, check, metrics, history>>

(* expire writes back what it has read, which may be None.                 *)
FallbackThird(c) ==
    /\ Finish(c, "third", NoValue)
    /\ cache' = Put(cache, on[c], held[c])
    /\ UNCHANGED <<bVars, redis, clientVars, check, metrics, history>>

-----------------------------------------------------------------------------
(* check_rate_limit: get, compare, incr, and expire for the first one.     *)

BeginCheck(c) ==
    /\ check[c] = "none" /\ MayRequest
    /\ Enter(c, "get", RateKey)
    /\ check' = [check EXCEPT ![c] = "get"]
    /\ UNCHANGED history

EndCheck(c) ==
    /\ where[c] = "idle"
    /\ check' = [check EXCEPT ![c] = "none"]
    /\ held' = [held EXCEPT ![c] = NoValue]
    /\ UNCHANGED <<bVars, redis, cache, clientVars, where, op, on, attempt, metrics>>

(* Mutant: the count may go one over the limit.                            *)
OverLimit_OneMore(count) == Number(count) > limit

OverLimit(count) == Number(count) >= limit

ContinueCheck(c) ==
    LET Send(o) == Enter(c, o, RateKey) /\ check' = [check EXCEPT ![c] = o]
    IN  /\ \/ /\ check[c] = "get"
              /\ IF OverLimit(held[c]) THEN EndCheck(c) ELSE Send("incr")
              /\ UNCHANGED allowed
           \/ /\ check[c] = "incr"
              /\ IF held[c] = 1 THEN Send("expire") /\ UNCHANGED allowed
                 ELSE EndCheck(c) /\ allowed' = allowed + 1
           \/ /\ check[c] = "expire"
              /\ EndCheck(c) /\ allowed' = allowed + 1
        /\ UNCHANGED fellBack

-----------------------------------------------------------------------------
(* ping, close and reconnect, called by a thread between two requests.     *)

quiet == <<op, on, attempt, held, check, metrics, history, redis, cache>>

(* ping called for itself ends as the last ping of a reconnection does.    *)
PingAlone(c) ==
    /\ check[c] = "none" /\ MayReconnect
    /\ reconnects' = reconnects + 1
    /\ Go(c, "idle", "confirm")
    /\ UNCHANGED <<bVars, client, initialized, initializing, torn, quiet>>

(* A ping that is answered ends reconnect; one that is not makes the first *)
(* of reconnect go on, and ends the last.                                  *)
PingAnswered(c) == Go(c, "probe", "idle") \/ Go(c, "confirm", "idle")
PingFailed(c) == Go(c, "probe", "close") \/ Go(c, "confirm", "idle")

(* ping fails without a client, and when the breaker does not let it in.   *)
AskPing(c) ==
    /\ \/ /\ client /\ initialized
          /\ where[c] \in {"probe", "confirm"} /\ MayAdmit(c) /\ UNCHANGED where
       \/ /\ ~client \/ ~initialized \/ state \in {"open", "force_open"}
          /\ calling[c] = "out" /\ PingFailed(c) /\ UNCHANGED bVars
    /\ UNCHANGED <<clientVars, quiet>>

RunPing(c) ==
    /\ where[c] \in {"probe", "confirm"} /\ RunFunction(c)
    /\ UNCHANGED <<where, clientVars, quiet>>

NotePing(c) ==
    /\ \/ NoteSuccess(c) /\ PingAnswered(c)
       \/ NoteFailure(c) /\ PingFailed(c)
    /\ UNCHANGED <<clientVars, quiet>>

(* reconnect: one that is not forced pings first, if _initialized is set.  *)
Reconnect(c, force) ==
    /\ check[c] = "none" /\ MayReconnect
    /\ reconnects' = reconnects + 1
    /\ Go(c, "idle", IF force THEN "close_forced" ELSE IF initialized THEN "probe" ELSE "close")
    /\ UNCHANGED <<bVars, client, initialized, initializing, torn, quiet>>

(* Mutant: close leaves _initialized set.                                  *)
Closed_Initialized ==
    client' = FALSE /\ torn' = (\E c \in Callers : where[c] = "pinged") /\ UNCHANGED initialized

Closed ==
    /\ client' = FALSE /\ initialized' = FALSE
    /\ torn' = \E c \in Callers : where[c] = "pinged"

(* close as a step of reconnect, and called for itself.                    *)
Close(c) ==
    /\ Closed
    /\ Go(c, "close", "reset") \/ Go(c, "close_forced", "reset_forced")
    /\ UNCHANGED <<bVars, initializing, reconnects, quiet>>

CloseAlone(c) ==
    /\ Closed
    /\ where[c] = "idle" /\ check[c] = "none" /\ MayReconnect
    /\ reconnects' = reconnects + 1
    /\ UNCHANGED <<bVars, where, initializing, quiet>>

(* A forced reconnection also closes the breaker.                          *)
Reset(c) ==
    /\ \/ Go(c, "reset", "init") /\ UNCHANGED bVars
       \/ Go(c, "reset_forced", "init") /\ ForceClose
    /\ initialized' = FALSE
    /\ UNCHANGED <<client, initializing, reconnects, torn, quiet>>

(* _initialize_client looks at _initializing, waits for the lock, looks    *)
(* again, makes the client (which may fail before there is one), pings it  *)
(* and keeps it if Redis answers.  Another thread's close may take _client *)
(* away before that ping or after it.                                      *)
Initialize(c) ==
    /\ Go(c, "init", IF initializing THEN "confirm" ELSE "locked")
    /\ UNCHANGED <<bVars, clientVars, quiet>>

Connect(c) ==
    /\ ~initializing
    /\ \/ initialized /\ Go(c, "locked", "confirm") /\ UNCHANGED <<client, initializing, torn>>
       \/ /\ ~initialized /\ Go(c, "locked", "ping") /\ initializing' = TRUE
          /\ client' = TRUE /\ torn' = FALSE
       \/ /\ ~initialized /\ Go(c, "locked", "refused") /\ initializing' = TRUE
          /\ UNCHANGED <<client, torn>>
    /\ UNCHANGED <<bVars, initialized, reconnects, quiet>>

Ping(c) ==
    /\ \E answer \in {"pinged", "refused"} : Go(c, "ping", answer) /\ (answer = "pinged" => client)
    /\ UNCHANGED <<bVars, clientVars, quiet>>

(* Mutant: _initializing is reset after a ping that was answered only.     *)
Connected_Stuck(c) ==
    /\ \/ Go(c, "pinged", "confirm") /\ initialized' = TRUE /\ initializing' = FALSE /\ UNCHANGED client
       \/ Go(c, "refused", "confirm") /\ client' = FALSE /\ UNCHANGED <<initialized, initializing>>
    /\ UNCHANGED <<bVars, reconnects, torn, quiet>>

Connected(c) ==
    /\ \/ Go(c, "pinged", "confirm") /\ initialized' = TRUE /\ UNCHANGED client
       \/ Go(c, "refused", "confirm") /\ client' = FALSE /\ UNCHANGED initialized
    /\ initializing' = FALSE
    /\ UNCHANGED <<bVars, reconnects, torn, quiet>>

-----------------------------------------------------------------------------
(* An entry's time runs out.                                               *)
Expire ==
    /\ \E e \in cache :
          ~e.expired /\ cache' = (cache \ {e}) \cup {[e EXCEPT !.expired = TRUE]}
    /\ UNCHANGED <<bVars, redis, clientVars, requestVars, metrics, history>>

Requests(c) ==
    \/ Attempt(c) \/ Execute(c) \/ Note(c) \/ Succeed(c) \/ GiveUp(c) \/ Fallback(c)
    \/ FallbackSecond(c) \/ FallbackThird(c)

Pings(c) == PingAlone(c) \/ AskPing(c) \/ RunPing(c) \/ NotePing(c)

Connects(c) ==
    \/ \E force \in BOOLEAN : Reconnect(c, force)
    \/ Close(c) \/ CloseAlone(c) \/ Reset(c) \/ Initialize(c) \/ Connect(c) \/ Ping(c) \/ Connected(c)

Next ==
    \/ \E c \in Callers :
          \/ \E o \in Operations, k \in Keys : Request(c, o, k)
          \/ Requests(c)
          \/ BeginCheck(c) \/ ContinueCheck(c)
          \/ Pings(c) \/ Connects(c)
    \/ Expire

Spec == Init /\ [][Next]_cVars

-----------------------------------------------------------------------------
(* Properties.                                                             *)

(* The requests that are counted but not yet with an outcome.              *)
Uncounted == {c \in Callers : where[c] \in {"try", "succeeded"}}

(* Every request is counted as exactly one of a success in Redis and an    *)
(* answer of the cache, whatever the retries, the breaker and a            *)
(* reconnection do to it meanwhile; a failure is always also a fallback.   *)
MetricsBalance ==
    /\ total_requests = successful_requests + fallback_hits + Cardinality(Uncounted)
    /\ failed_requests <= fallback_hits

(* No request is let through without its count in Redis, whichever         *)
(* attempts fail, are repeated or lose their reply.                        *)
EveryAllowedIsCounted == ~fellBack => allowed <= Number(redis[RateKey])

(* The count is read and raised in two requests, so threads that check at  *)
(* once may all be let through: over the limit by one less than there are  *)
(* threads and no more, as long as Redis answers every check.              *)
LimitOvershoot == ~fellBack => allowed <= limit + Cardinality(Callers) - 1

(* An expired, evicted or replaced entry never leaves a second one of its  *)
(* key behind, and the cache stays within its size.                        *)
CacheIsSound == SoundCache(cache)

(* An entry whose time has not run out leaves the cache only when it is    *)
(* deleted, or when it is the least recently used of a full cache and a    *)
(* key that was not there comes in, whatever the threads' reads,           *)
(* increments and extensions do to the others.                             *)
Deleting(k) == \E c \in Callers : where[c] = "fallback" /\ op[c] = "delete" /\ on[c] = k
LiveEntriesStay ==
    [][\A e \in cache :
          ~e.expired /\ (\A f \in cache' : f.key # e.key)
          => \/ Deleting(e.key)
             \/ /\ Cardinality(cache) = max_size /\ IsOldest(e, cache)
                /\ \E f \in cache' : \A g \in cache : g.key # f.key]_cVars

(* Threads that increment a count of the cache at once may lose each       *)
(* other's increments, but an increment is never made twice nor brought    *)
(* back by a late write: no count is above the requests the cache was      *)
(* given.                                                                  *)
CacheNeverOvercounts == \A e \in cache : Number(e.value) <= fallback_hits

(* _initializing is set exactly as long as one thread initializes, so that *)
(* no way out of it keeps later threads from connecting again.             *)
Initializers == {c \in Callers : where[c] \in {"ping", "pinged", "refused"}}
OneInitializer == Cardinality(Initializers) = IF initializing THEN 1 ELSE 0

(* A client that says it is initialized has a connection, whichever        *)
(* threads connect, close and fail to connect meanwhile, in all cases but  *)
(* one: it was closed after its first ping was answered and before that    *)
(* set _initialized.  The next close, or the next client made, ends that.  *)
InitializedHasClient == initialized /\ ~torn => client

(* Retries, fallback and reconnection use the breaker as it is meant.      *)
KeepsToBreaker == BreakerSpec

=============================================================================
