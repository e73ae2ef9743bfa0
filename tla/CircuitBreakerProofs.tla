----------------------- MODULE CircuitBreakerProofs -----------------------
(***************************************************************************)
(* Theorems about CircuitBreaker, for every number of callers and every    *)
(* choice of the thresholds.                                               *)
(***************************************************************************)
EXTENDS CircuitBreaker, SequenceTheorems, TLAPS

(* What the lock keeps true between two steps: the successes counted in a  *)
(* row are successes since the last failure, and a closed breaker is below *)
(* its thresholds.                                                         *)
Inv ==
    /\ TypeOK
    /\ ClosedBelowThresholds
    /\ consecutive_successes <= streak

USE ThresholdAssumption

(* Saturating counts stay in their range and never go down.                *)
LEMMA CappedRange ==
    ASSUME NEW cap \in Nat, NEW n \in 0..cap
    PROVE  Capped(n, cap) \in 0..cap /\ Capped(n, cap) >= n
    BY DEF Capped

LEMMA CappedMonotone ==
    ASSUME NEW cap \in Nat, NEW m \in 0..cap, NEW n \in 0..cap, m <= n
    PROVE  Capped(m, cap) <= Capped(n, cap)
    BY DEF Capped

LEMMA CleanKeepsType ==
    ASSUME request_history \in Seq(BOOLEAN), CleanRequestHistory
    PROVE  request_history' \in Seq(BOOLEAN)
    <1>1. PICK n \in 0..Len(request_history) :
              request_history' = SubSeq(request_history, n + 1, Len(request_history))
        BY DEF CleanRequestHistory
    <1>2. QED BY <1>1, SubSeqProperties

LEMMA InitInv == Init => Inv
    BY DEF Init, Inv, TypeOK, ClosedBelowThresholds, B!BreakerInit, B!BreakerTypeOK, B!States, B!Phases,
           FailureCap, SuccessCap

LEMMA StepInv == Inv /\ [Next]_cbVars => Inv'
    <1> SUFFICES ASSUME Inv, [Next]_cbVars PROVE Inv'
        OBVIOUS
    <1>t. TypeOK /\ ClosedBelowThresholds /\ consecutive_successes <= streak
        BY DEF Inv
    <1>c. FailureCap \in Nat /\ SuccessCap \in Nat
        BY DEF FailureCap, SuccessCap
    <1> USE DEF TypeOK, ClosedBelowThresholds, B!BreakerTypeOK, B!States, B!Phases
    <1>1. ASSUME NEW c \in Callers, Admit(c) PROVE Inv'
        <2>1. request_history' \in Seq(BOOLEAN)
            BY <1>1, <1>t, CleanKeepsType DEF Admit
        <2>2. QED BY <1>1, <1>t, <2>1 DEF Inv, Admit, B!MayAdmit, B!Move, countVars
    <1>2. ASSUME NEW c \in Callers, Refuse(c) PROVE Inv'
        <2>1. request_history' \in Seq(BOOLEAN)
            BY <1>2, <1>t, CleanKeepsType DEF Refuse
        <2>2. QED BY <1>2, <1>t, <2>1 DEF Inv, Refuse, countVars
    <1>3. ASSUME NEW c \in Callers, Execute(c) PROVE Inv'
        BY <1>3, <1>t DEF Inv, Execute, B!Move, countVars
    <1>4. ASSUME NEW c \in Callers, OnSuccess(c) PROVE Inv'
        <2> DEFINE successes == Capped(consecutive_successes, SuccessCap)
        <2>1. /\ successes \in 0..SuccessCap
              /\ Capped(streak, SuccessCap) \in 0..SuccessCap
              /\ successes <= Capped(streak, SuccessCap)
            BY <1>t, <1>c, CappedRange, CappedMonotone
        <2>2. Forgiven(failure_count) \in 0..FailureCap /\ Forgiven(failure_count) <= failure_count
            BY <1>t, <1>c DEF Forgiven
        <2>3. request_history' \in Seq(BOOLEAN)
            BY <1>4, <1>t, AppendProperties DEF OnSuccess
        <2>4. calling' \in [Callers -> {"out", "running", "ok", "failed"}]
            BY <1>4, <1>t DEF OnSuccess, B!Move
        <2>5. CASE Closes(successes)
            BY <1>4, <1>t, <1>c, <2>1, <2>3, <2>4, <2>5 DEF Inv, OnSuccess, FailureCap
        <2>6. CASE ~Closes(successes)
            BY <1>4, <1>t, <1>c, <2>1, <2>2, <2>3, <2>4, <2>6 DEF Inv, OnSuccess
        <2>7. QED BY <2>5, <2>6
    <1>5. ASSUME NEW c \in Callers, OnFailure(c) PROVE Inv'
        <2> DEFINE failures == Capped(failure_count, FailureCap)
                   inARow == Capped(consecutive_failures, failure_threshold)
                   h == Append(request_history, FALSE)
        <2>1. failures \in 0..FailureCap /\ inARow \in 0..failure_threshold
            BY <1>t, <1>c, CappedRange
        <2>2. h \in Seq(BOOLEAN)
            BY <1>t, AppendProperties
        <2>3. calling' \in [Callers -> {"out", "running", "ok", "failed"}]
            BY <1>5, <1>t DEF OnFailure, B!Move
        <2>4. state' = IF Opens(failures, inARow, h) THEN "open" ELSE state
            BY <1>5 DEF OnFailure
        <2>5. /\ failure_count' = failures /\ consecutive_failures' = inARow
              /\ consecutive_successes' = 0 /\ streak' = 0 /\ cooled' = FALSE /\ up' = up
              /\ request_history' = h
            BY <1>5 DEF OnFailure
        <2>6. ClosedBelowThresholds'
            <3> HIDE DEF failures, inARow, h
            <3>1. SUFFICES ASSUME state' = "closed"
                           PROVE inARow < failure_threshold /\ failures < FailureCap
                BY <2>5 DEF ClosedBelowThresholds
            <3>2. state = "closed" /\ ~Opens(failures, inARow, h)
                BY <3>1, <2>4
            <3>3. QED BY <3>2, <2>1, <1>c DEF Opens
        <2>7. TypeOK'
            <3> HIDE DEF failures, inARow, h
            <3>1. state' \in {"closed", "open", "half_open", "force_open"}
                BY <1>t, <2>4
            <3>2. B!BreakerTypeOK'
                BY <3>1, <2>3
            <3>3. /\ failure_count' \in 0..FailureCap
                  /\ consecutive_failures' \in 0..failure_threshold
                  /\ consecutive_successes' \in 0..SuccessCap
                  /\ streak' \in 0..SuccessCap
                BY <1>c, <2>1, <2>5
            <3>4. request_history' \in Seq(BOOLEAN) /\ cooled' \in BOOLEAN /\ up' \in BOOLEAN
                BY <1>t, <2>2, <2>5
            <3>5. QED BY <3>2, <3>3, <3>4
        <2>8. QED BY <2>5, <2>6, <2>7 DEF Inv
    <1>6. CASE force_open
        BY <1>6, <1>t DEF Inv, force_open, B!ForceOpen, countVars
    <1>7. CASE force_close
        BY <1>7, <1>t, <1>c DEF Inv, force_close, B!ForceClose, FailureCap
    <1>8. CASE CoolDown
        BY <1>8, <1>t DEF Inv, CoolDown, countVars
    <1>9. CASE Toggle
        BY <1>9, <1>t DEF Inv, Toggle, countVars
    <1>10. CASE UNCHANGED cbVars
        BY <1>10, <1>t DEF Inv, cbVars, countVars
    <1>11. QED
        BY <1>1, <1>2, <1>3, <1>4, <1>5, <1>6, <1>7, <1>8, <1>9, <1>10 DEF Next, CallStep

LEMMA SpecInv == Spec => []Inv
    <1>1. QED BY InitInv, StepInv, PTL DEF Spec

(* The breaker's variables keep their types.                               *)
THEOREM TypeCorrect == Spec => []TypeOK
    <1>1. Inv => TypeOK
        BY DEF Inv
    <1>2. QED BY SpecInv, <1>1, PTL

(* A breaker that has reached a threshold is not closed, whatever the      *)
(* order in which calls are let in and report (_on_success, _on_failure,   *)
(* force_close).                                                           *)
THEOREM NotClosedAboveThreshold == Spec => []ClosedBelowThresholds
    <1>1. Inv => ClosedBelowThresholds
        BY DEF Inv
    <1>2. QED BY SpecInv, <1>1, PTL

(* The breaker only closes by itself after success_threshold successes     *)
(* since the last failure (_on_success).                                   *)
THEOREM StreakBeforeClosing == Spec => ClosesOnStreak
    <1>1. Inv /\ [Next]_cbVars =>
            [state = "half_open" /\ state' = "closed" /\ ~force_close => streak' >= success_threshold]_cbVars
        <2> SUFFICES ASSUME Inv, [Next]_cbVars, state = "half_open", state' = "closed", ~force_close
                     PROVE  streak' >= success_threshold
            BY DEF cbVars
        <2>1. PICK c \in Callers : OnSuccess(c)
            BY DEF Next, CallStep, Admit, Refuse, Execute, OnFailure, Opens, force_open, CoolDown, Toggle,
                   cbVars, B!MayAdmit, B!ForceOpen
        <2>2. Closes(Capped(consecutive_successes, SuccessCap))
            BY <2>1 DEF OnSuccess
        <2>3. Capped(consecutive_successes, SuccessCap) <= Capped(streak, SuccessCap)
            BY CappedMonotone DEF Inv, TypeOK, SuccessCap
        <2>4. /\ Capped(consecutive_successes, SuccessCap) \in Nat
              /\ Capped(streak, SuccessCap) \in Nat
            BY DEF Inv, TypeOK, SuccessCap, Capped
        <2>5. QED BY <2>1, <2>2, <2>3, <2>4 DEF OnSuccess, Closes
    <1>2. QED BY SpecInv, <1>1, PTL DEF Spec, ClosesOnStreak

(* A late result does not undo force_open (_on_success, _on_failure).      *)
THEOREM OverrideIsKept == Spec => OverrideHolds
    <1>1. [Next]_cbVars => [state = "force_open" /\ state' # state => force_close]_cbVars
        BY DEF Next, CallStep, Admit, Refuse, Refused, Execute, OnSuccess, Closes, OnFailure, Opens,
               force_open, CoolDown, Toggle, cbVars, B!MayAdmit, B!ForceOpen
    <1>2. QED BY <1>1, PTL DEF Spec, OverrideHolds

(* The breaker with its counters implements the breaker of Breaker, which  *)
(* is all RedisClient relies on.                                           *)
THEOREM CircuitBreakerImplementsBreaker == Spec => ImplementsBreaker
    <1>1. Init => B!BreakerInit
        BY DEF Init
    <1>2. ASSUME Inv, [Next]_cbVars PROVE [B!BreakerNext]_(B!bVars)
        <2> USE DEF B!BreakerNext
        <2>1. ASSUME NEW c \in Callers, Admit(c) PROVE B!BreakerNext
            BY <2>1 DEF Admit
        <2>2. ASSUME NEW c \in Callers, Refuse(c) PROVE UNCHANGED B!bVars
            BY <2>2 DEF Refuse, B!bVars
        <2>3. ASSUME NEW c \in Callers, Execute(c) PROVE B!BreakerNext
            <3>1. B!RunFunction(c)
                BY <2>3 DEF Execute, B!RunFunction
            <3>2. QED BY <3>1
        <2>4. ASSUME NEW c \in Callers, OnSuccess(c) PROVE B!BreakerNext
            <3>1. B!NoteSuccess(c)
                BY <2>4 DEF OnSuccess, Closes, B!NoteSuccess
            <3>2. QED BY <3>1
        <2>5. ASSUME NEW c \in Callers, OnFailure(c) PROVE B!BreakerNext
            <3>1. state \in {"closed", "open", "half_open", "force_open"}
                BY <1>2 DEF Inv, TypeOK, B!BreakerTypeOK, B!States
            <3>2. state' \in {"open", state} /\ (state = "half_open" => state' = "open")
                  /\ (state \in {"open", "force_open"} => state' = state)
                BY <2>5 DEF OnFailure, Opens
            <3>3. B!NoteFailure(c)
                BY <2>5, <3>1, <3>2 DEF OnFailure, B!NoteFailure
            <3>4. QED BY <3>3
        <2>6. CASE force_open
            BY <2>6 DEF force_open
        <2>7. CASE force_close
            BY <2>7 DEF force_close
        <2>8. CASE CoolDown \/ Toggle
            BY <2>8 DEF CoolDown, Toggle, B!bVars
        <2>9. CASE UNCHANGED cbVars
            BY <2>9 DEF cbVars, B!bVars
        <2>10. QED
            BY <1>2, <2>1, <2>2, <2>3, <2>4, <2>5, <2>6, <2>7, <2>8, <2>9 DEF Next, CallStep
    <1>3. QED BY <1>1, <1>2, SpecInv, PTL DEF Spec, ImplementsBreaker, B!BreakerSpec
=============================================================================
