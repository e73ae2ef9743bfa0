------------------------------- MODULE Breaker -------------------------------
(***************************************************************************)
(* What a circuit breaker promises to the threads that call through it,    *)
(* whatever it counts: AdvancedCircuitBreaker of utils/redis_client.py     *)
(* reduced to its state and to where each call is.                         *)
(*                                                                         *)
(* call() holds the lock while it decides whether to let the caller in,    *)
(* and again in _on_success or _on_failure; the function runs between the  *)
(* two, without the lock, while other threads come and go.                 *)
(***************************************************************************)
CONSTANT Callers   \* threads that call Redis

VARIABLES
    state,    \* CircuitBreakerState
    calling   \* where each caller is in call()

bVars == <<state, calling>>

States == {"closed", "open", "half_open", "force_open"}
Phases == {"out", "running", "ok", "failed"}

BreakerTypeOK == state \in States /\ calling \in [Callers -> Phases]

BreakerInit ==
    /\ state = "closed"
    /\ calling = [c \in Callers |-> "out"]

Move(c, from, to) ==
    /\ calling[c] = from
    /\ calling' = [calling EXCEPT ![c] = to]

(* call() up to the function: open tries again, force_open never.          *)
MayAdmit(c) ==
    /\ Move(c, "out", "running")
    /\ state # "force_open"
    /\ state' = IF state = "open" THEN "half_open" ELSE state

(* The function returns or raises.                                         *)
RunFunction(c) ==
    /\ \E result \in {"ok", "failed"} : Move(c, "running", result)
    /\ UNCHANGED state

(* _on_success: only a success can close, and only from half_open.         *)
NoteSuccess(c) ==
    /\ Move(c, "ok", "out")
    /\ state' \in IF state = "half_open" THEN {"half_open", "closed"} ELSE {state}

(* _on_failure: half_open opens at once, closed may.                       *)
NoteFailure(c) ==
    /\ Move(c, "failed", "out")
    /\ state' \in CASE state = "half_open" -> {"open"}
                    [] state = "closed" -> {"closed", "open"}
                    [] OTHER -> {state}

ForceOpen == state' = "force_open" /\ UNCHANGED calling
ForceClose == state' = "closed" /\ UNCHANGED calling

BreakerNext ==
    \/ \E c \in Callers : MayAdmit(c) \/ RunFunction(c) \/ NoteSuccess(c) \/ NoteFailure(c)
    \/ ForceOpen
    \/ ForceClose

BreakerSpec == BreakerInit /\ [][BreakerNext]_bVars

=============================================================================
