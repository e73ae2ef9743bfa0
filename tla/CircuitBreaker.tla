--------------------------- MODULE CircuitBreaker ---------------------------
(***************************************************************************)
(* AdvancedCircuitBreaker of utils/redis_client.py with its counters, its  *)
(* recent history and its recovery timeout, called by several threads.     *)
(*                                                                         *)
(* A counter is only ever compared with a threshold, so it stops at the    *)
(* highest value the code tells apart (Capped): failure_count, which can   *)
(* also go down, does so only in closed, where it is below its cap.        *)
(* success_count and trip_count are only reported and are left out.        *)
(***************************************************************************)
EXTENDS Integers, Sequences

CONSTANTS
    Callers,
    failure_threshold,       \* 5 in the code
    success_threshold,       \* 3
    failure_rate_threshold,  \* 50, in percent
    min_requests,            \* 10
    decay_after,             \* successes in a row that forgive a failure, 3
    HistoryBound             \* bound on the calls of one history window

ASSUME ThresholdAssumption ==
    {failure_threshold, success_threshold, min_requests, decay_after, HistoryBound} \subseteq Nat \ {0}
ASSUME RateAssumption == failure_rate_threshold \in 1..100

VARIABLES
    state, calling,          \* see Breaker
    failure_count,
    consecutive_failures,
    consecutive_successes,
    request_history,         \* TRUE for a success, oldest first
    cooled,                  \* recovery_timeout has gone by since last_failure_time
    up,                      \* Redis answers
    streak                   \* history: the successes noted since the last failure

countVars == <<failure_count, consecutive_failures, consecutive_successes>>
cbVars == <<state, calling, countVars, request_history, cooled, up, streak>>

FailureCap == 2 * failure_threshold
SuccessCap == success_threshold + decay_after
Capped(n, cap) == IF n < cap THEN n + 1 ELSE cap

B == INSTANCE Breaker

TypeOK ==
    /\ B!BreakerTypeOK
    /\ failure_count \in 0..FailureCap
    /\ consecutive_failures \in 0..failure_threshold
    /\ consecutive_successes \in 0..SuccessCap
    /\ request_history \in Seq(BOOLEAN)
    /\ cooled \in BOOLEAN /\ up \in BOOLEAN
    /\ streak \in 0..SuccessCap

Init ==
    /\ B!BreakerInit
    /\ failure_count = 0 /\ consecutive_failures = 0 /\ consecutive_successes = 0
    /\ request_history = <<>>
    /\ cooled = TRUE /\ up = TRUE
    /\ streak = 0

-----------------------------------------------------------------------------

(* _clean_request_history: the entries older than the window are dropped.  *)
CleanRequestHistory ==
    \E n \in 0..Len(request_history) :
        request_history' = SubSeq(request_history, n + 1, Len(request_history))

(* The failure rate of a history reaches the threshold.                    *)
RateExceeded(h) ==
    LET Failed(ok) == ~ok
    IN  /\ Len(h) >= min_requests
        /\ Len(SelectSeq(h, Failed)) * 100 >= failure_rate_threshold * Len(h)

(* Mutant: open is never tried again.                                      *)
Refused_Open == state \in {"open", "force_open"}

Refused == state = "force_open" \/ (state = "open" /\ ~cooled)

(* call() up to the function: let in, or refused with ConnectionError.     *)
Admit(c) ==
    /\ ~Refused
    /\ B!MayAdmit(c)
    /\ CleanRequestHistory
    /\ Len(request_history') < HistoryBound
    /\ UNCHANGED <<countVars, cooled, up, streak>>

Refuse(c) ==
    /\ Refused
    /\ calling[c] = "out"
    /\ CleanRequestHistory
    /\ UNCHANGED <<state, calling, countVars, cooled, up, streak>>

(* The function, outside the lock: Redis answers when it is up.            *)
Execute(c) ==
    /\ B!Move(c, "running", IF up THEN "ok" ELSE "failed")
    /\ UNCHANGED <<state, countVars, request_history, cooled, up, streak>>

(* Mutants: one success too few closes; the state is not looked at; the    *)
(* count goes below zero; the state is not looked at when opening; the     *)
(* total of failures is not looked at.                                     *)
Closes_Early(successes) == state = "half_open" /\ successes + 1 >= success_threshold
Closes_Anywhere(successes) == state # "closed" /\ successes >= success_threshold
Forgiven_Below(failures) == failures - 1
Opens_Anywhere(failures, inARow, h) ==
    \/ state = "half_open"
    \/ inARow >= failure_threshold \/ failures >= FailureCap \/ RateExceeded(h)
Opens_NoTotal(failures, inARow, h) ==
    \/ state = "half_open"
    \/ state = "closed" /\ (inARow >= failure_threshold \/ RateExceeded(h))

(* When a success closes, and what it forgives.                            *)
Closes(successes) == state = "half_open" /\ successes >= success_threshold
Forgiven(failures) == IF failures > 0 THEN failures - 1 ELSE 0

(* _on_success: the successes in a row are counted in every state.         *)
OnSuccess(c) ==
    LET successes == Capped(consecutive_successes, SuccessCap)
    IN  /\ B!Move(c, "ok", "out")
        /\ consecutive_failures' = 0
        /\ IF Closes(successes)
           THEN state' = "closed" /\ failure_count' = 0 /\ consecutive_successes' = 0
           ELSE /\ consecutive_successes' = successes
                /\ failure_count' = IF state = "closed" /\ successes >= decay_after
                                    THEN Forgiven(failure_count) ELSE failure_count
                /\ UNCHANGED state
        /\ request_history' = Append(request_history, TRUE)
        /\ streak' = Capped(streak, SuccessCap)
        /\ UNCHANGED <<cooled, up>>

(* When a failure opens.                                                   *)
Opens(failures, inARow, h) ==
    \/ state = "half_open"
    \/ /\ state = "closed"
       /\ inARow >= failure_threshold \/ failures >= FailureCap \/ RateExceeded(h)

(* _on_failure; last_failure_time is set in every state.                   *)
OnFailure(c) ==
    LET failures == Capped(failure_count, FailureCap)
        inARow == Capped(consecutive_failures, failure_threshold)
        h == Append(request_history, FALSE)
    IN  /\ B!Move(c, "failed", "out")
        /\ failure_count' = failures /\ consecutive_failures' = inARow
        /\ consecutive_successes' = 0
        /\ request_history' = h
        /\ state' = IF Opens(failures, inARow, h) THEN "open" ELSE state
        /\ cooled' = FALSE
        /\ streak' = 0
        /\ UNCHANGED up

(* force_open and force_close, for an administrator and for reconnect.     *)
force_open ==
    /\ B!ForceOpen
    /\ UNCHANGED <<countVars, request_history, cooled, up, streak>>

force_close ==
    /\ B!ForceClose
    /\ failure_count' = 0 /\ consecutive_failures' = 0
    /\ UNCHANGED <<consecutive_successes, request_history, cooled, up, streak>>

(* recovery_timeout seconds go by after the last failure.                  *)
CoolDown ==
    /\ ~cooled /\ cooled' = TRUE
    /\ UNCHANGED <<state, calling, countVars, request_history, up, streak>>

(* Redis goes away or comes back.                                          *)
Toggle ==
    /\ up' = ~up
    /\ UNCHANGED <<state, calling, countVars, request_history, cooled, streak>>

CallStep(c) == Admit(c) \/ Execute(c) \/ OnSuccess(c) \/ OnFailure(c)

Next ==
    \/ \E c \in Callers : CallStep(c) \/ Refuse(c)
    \/ force_open \/ force_close
    \/ CoolDown \/ Toggle

Spec == Init /\ [][Next]_cbVars

(* Requests keep coming, a call returns (the socket times out), and time   *)
(* goes by.                                                                *)
Fairness == WF_cbVars(CoolDown) /\ \A c \in Callers : WF_cbVars(CallStep(c))

FairSpec == Spec /\ Fairness

-----------------------------------------------------------------------------
(* Properties.                                                             *)

(* Whatever late results, overrides and recoveries come in between, a      *)
(* breaker that has seen failure_threshold failures in a row, or twice as  *)
(* many that were not forgiven, is not closed.                             *)
ClosedBelowThresholds ==
    state = "closed" =>
        consecutive_failures < failure_threshold /\ failure_count < FailureCap

(* A breaker that closes by itself has noted success_threshold successes   *)
(* since the last failure of any call, whichever state each was noted in.  *)
(* (They need not be successes of calls let in by half_open.)              *)
ClosesOnStreak ==
    [][state = "half_open" /\ state' = "closed" /\ ~force_close => streak' >= success_threshold]_cbVars

(* A call let in before the override, whatever its result, does not undo   *)
(* force_open: only force_close does.                                      *)
OverrideHolds == [][state = "force_open" /\ state' # state => force_close]_cbVars

(* The counters, the history and the timeout only decide what the breaker  *)
(* of Breaker leaves open.                                                 *)
ImplementsBreaker == B!BreakerSpec

(* Once Redis stays up and nobody forces the breaker open, it closes again *)
(* for good, also when calls that failed earlier report late.              *)
BreakerRecovers == <>[](up /\ state # "force_open") => <>[](state = "closed")

=============================================================================
