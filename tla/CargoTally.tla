----------------------------- MODULE CargoTally -----------------------------
(***************************************************************************)
(* Cargo tallies and the progress of a vessel: the POST route              *)
(* /api/vessels/<id>/cargo-tally of app.py, update_progress of             *)
(* models/vessel.py, and the route update-progress of                      *)
(* routes/offline_dashboard.py, in several gunicorn workers over one       *)
(* database.                                                               *)
(*                                                                         *)
(* A tally is committed on its own.  The handler then adds up the loaded   *)
(* tallies, reads the vessel again (commit has expired it) and writes the  *)
(* columns it has changed: SQLAlchemy leaves a column out of the UPDATE    *)
(* when the value set is the value that was read.  Each of these           *)
(* statements is a step, and the steps of two workers interleave.          *)
(*                                                                         *)
(* Progress is counted in cargo rather than percent: Full(v) is 100 %.     *)
(***************************************************************************)
EXTENDS Integers

CONSTANTS
    Workers,       \* gunicorn worker processes, one request at a time each
    Vessels,       \* ids of vessels
    Capacity,      \* total_cargo_capacity of each vessel
    Counts,        \* loaded cargo of a tally, below 0 too; 0 for a discharge
    Settings,      \* what is posted to update-progress
    MaxTallied,    \* bound on the loaded cargo of each vessel, either way
    MaxOverrides,  \* bound on the uses of update-progress
    MaxFailures    \* bound on the requests that break off

ASSUME CapacityAssumption == Capacity \in [Vessels -> Nat]
ASSUME InputsAssumption == Counts \subseteq Int /\ Settings \subseteq Int
ASSUME TallyBounds ==
    MaxTallied \in [Vessels -> Nat] /\ {MaxOverrides, MaxFailures} \subseteq Nat

VARIABLES
    tallied,    \* the cargo_count of all loaded tallies of a vessel, added up
    vessel,     \* progress_percentage and status of each row of vessels
    req,        \* the request each worker is serving
    past,       \* the totals each vessel has had, the present one too
    alone,      \* the worker whose request no other has overlapped, if any
    overrides,  \* uses of update-progress so far
    failures    \* requests that have broken off so far

tVars == <<tallied, past, vessel, req, alone, overrides, failures>>

-----------------------------------------------------------------------------

Statuses == {"expected", "operations_active", "operations_complete"}

Full(v) == IF Capacity[v] > 0 THEN Capacity[v] ELSE 1

(* The progress that a total calls for, before update_progress cuts it off *)
(* at 0 and 100 %.  A vessel without a capacity makes none.                *)
Target(v, total) == IF Capacity[v] > 0 THEN total ELSE 0

Totals(v) == -MaxTallied[v]..MaxTallied[v]
Row(v) == [progress : 0..Full(v), status : Statuses]

NewRow == [progress |-> 0, status |-> "expected"]

(* A request: its vessel, what it does next, whether it records a tally,   *)
(* the progress it will set and the row it has read.                       *)
NoReq == [step |-> "none"]
Requests ==
    [vessel : Vessels, step : {"sum", "load", "write"}, tally : BOOLEAN,
     target : Int, seen : [progress : Nat, status : Statuses]]

TypeOK ==
    /\ tallied \in [Vessels -> Int] /\ past \in [Vessels -> SUBSET Int]
    /\ DOMAIN vessel = Vessels
    /\ \A v \in Vessels :
          tallied[v] \in Totals(v) /\ past[v] \subseteq Totals(v) /\ vessel[v] \in Row(v)
    /\ req \in [Workers -> Requests \cup {NoReq}]
    /\ alone \subseteq Workers
    /\ overrides \in 0..MaxOverrides /\ failures \in 0..MaxFailures

-----------------------------------------------------------------------------

Idle(w) == req[w] = NoReq

(* A request begins; from now on a request that was alone is not.          *)
Begin(w, r) ==
    /\ Idle(w)
    /\ req' = [req EXCEPT ![w] = r]
    /\ alone' = IF \A u \in Workers \ {w} : Idle(u) THEN {w} ELSE {}

(* POST cargo-tally, as far as its first commit.                           *)
AddTally(w, v, n) ==
    /\ tallied[v] + n \in Totals(v)
    /\ tallied' = [tallied EXCEPT ![v] = @ + n]
    /\ past' = [past EXCEPT ![v] = @ \cup {tallied'[v]}]
    /\ Begin(w, [vessel |-> v, step |-> "sum", tally |-> TRUE,
                 target |-> 0, seen |-> NewRow])
    /\ UNCHANGED <<vessel, overrides, failures>>

(* total_loaded is read from the database.                                 *)
SumTallies(w) ==
    /\ req[w].step = "sum"
    /\ req' = [req EXCEPT ![w].target = Target(req[w].vessel, tallied[req[w].vessel]),
                          ![w].step = "load"]
    /\ UNCHANGED <<tallied, past, vessel, alone, overrides, failures>>

(* The expired vessel is read again for its capacity.                      *)
LoadVessel(w) ==
    /\ req[w].step = "load"
    /\ req' = [req EXCEPT ![w].seen = vessel[req[w].vessel], ![w].step = "write"]
    /\ UNCHANGED <<tallied, past, vessel, alone, overrides, failures>>

(* POST update-progress, as far as the read of the vessel: the caller says *)
(* what the progress is, any number at all.                                *)
SetProgress(w, v, x) ==
    /\ overrides < MaxOverrides
    /\ overrides' = overrides + 1
    /\ Begin(w, [vessel |-> v, step |-> "write", tally |-> FALSE,
                 target |-> x, seen |-> vessel[v]])
    /\ UNCHANGED <<tallied, past, vessel, failures>>

Least(x, y) == IF x <= y THEN x ELSE y
Greatest(x, y) == IF x <= y THEN y ELSE x

(* Mutants: progress is not cut off at 0; a vessel once complete stays so; *)
(* it is complete one unit early.                                          *)
NewProgress_NoFloor(v, x) == Least(Full(v), x)
NewStatus_Sticky(v, x, old) ==
    IF x >= Full(v) \/ old = "operations_complete" THEN "operations_complete"
    ELSE IF x > 0 THEN "operations_active" ELSE old
NewStatus_Early(v, x, old) ==
    IF x + 1 >= Full(v) THEN "operations_complete"
    ELSE IF x > 0 THEN "operations_active" ELSE old

(* What update_progress makes of a progress of x: cut off at both ends,    *)
(* while a status once past "expected" is not taken back by 0 or less.     *)
NewProgress(v, x) == Greatest(0, Least(Full(v), x))
NewStatus(v, x, old) ==
    IF x >= Full(v) THEN "operations_complete"
    ELSE IF x > 0 THEN "operations_active" ELSE old

(* A column is written when its new value is not the one that was read.    *)
Written(new, seen, now) == IF new = seen THEN now ELSE new

(* update_progress, its commit and the answer.                             *)
UpdateProgress(w) ==
    LET v == req[w].vessel
        x == req[w].target
        seen == req[w].seen
    IN  /\ req[w].step = "write"
        /\ vessel' = [vessel EXCEPT ![v] =
              [progress |-> Written(NewProgress(v, x), seen.progress, vessel[v].progress),
               status |-> Written(NewStatus(v, x, seen.status), seen.status, vessel[v].status)]]
        /\ req' = [req EXCEPT ![w] = NoReq]
        /\ alone' = alone \ {w}
        /\ UNCHANGED <<tallied, past, overrides, failures>>

(* The database fails or the worker is killed: what was committed stays.   *)
BreakOff(w) ==
    /\ ~Idle(w)
    /\ failures < MaxFailures
    /\ failures' = failures + 1
    /\ req' = [req EXCEPT ![w] = NoReq]
    /\ alone' = alone \ {w}
    /\ UNCHANGED <<tallied, past, vessel, overrides>>

-----------------------------------------------------------------------------

Init ==
    /\ tallied = [v \in Vessels |-> 0]
    /\ past = [v \in Vessels |-> {0}]
    /\ vessel = [v \in Vessels |-> NewRow]
    /\ req = [w \in Workers |-> NoReq]
    /\ alone = {}
    /\ overrides = 0 /\ failures = 0

Next ==
    \E w \in Workers :
        \/ \E v \in Vessels, n \in Counts : AddTally(w, v, n)
        \/ \E v \in Vessels, x \in Settings : SetProgress(w, v, x)
        \/ SumTallies(w) \/ LoadVessel(w) \/ UpdateProgress(w) \/ BreakOff(w)

Spec == Init /\ [][Next]_tVars

-----------------------------------------------------------------------------
(* Properties.                                                             *)

Called(v) == Target(v, tallied[v])

(* A vessel shows a progress that its tallies have called for at some time *)
(* and is active or complete only if they have called for that, however    *)
(* stale the total a request writes and whatever corrections, negative     *)
(* counts included, have come between; unless it has been set by hand.     *)
WasCalledFor ==
    overrides = 0 =>
        \A v \in Vessels :
            /\ \E t \in past[v] : vessel[v].progress = NewProgress(v, Target(v, t))
            /\ vessel[v].status = "operations_active" =>
                   \E t \in past[v] : Target(v, t) \in 1..(Full(v) - 1)
            /\ vessel[v].status = "operations_complete" =>
                   \E t \in past[v] : Target(v, t) >= Full(v)

(* The row of v shows what the tallies call for.                           *)
Exact(v) ==
    /\ vessel[v].progress = NewProgress(v, Called(v))
    /\ Called(v) >= Full(v) => vessel[v].status = "operations_complete"
    /\ Called(v) \in 1..(Full(v) - 1) => vessel[v].status = "operations_active"

(* A tally whose request no other overlaps repairs the row, whatever       *)
(* races, broken requests and settings by hand left in it before.          *)
SoloPostRepairs ==
    [][\A w \in Workers, v \in Vessels :
          /\ UpdateProgress(w) /\ req[w].vessel = v
          /\ w \in alone /\ req[w].tally
          => Exact(v)']_tVars

(* "Update vessel progress based on cargo tallies": when no request is     *)
(* under way, none has broken off and nobody has set it by hand, the       *)
(* progress of a vessel is what its tallies call for.                      *)
ProgressFollowsTallies ==
    (\A w \in Workers : Idle(w)) /\ failures = 0 /\ overrides = 0
        => \A v \in Vessels : Exact(v)

=============================================================================
