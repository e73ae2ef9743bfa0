-------------------------- MODULE CargoTallyProofs --------------------------
(***************************************************************************)
(* Proofs about CargoTally, for every number of workers, vessels, tallies  *)
(* and broken requests and every capacity.                                 *)
(***************************************************************************)
EXTENDS CargoTally, TLAPS

(* What a request that no other has overlapped may rely on: the total it   *)
(* has read is still the total and the row it has read is still the row.   *)
SoloOK(w) ==
    /\ ~Idle(w)
    /\ \A u \in Workers \ {w} : Idle(u)
    /\ req[w].step \in {"load", "write"} /\ req[w].tally
           => req[w].target = Called(req[w].vessel)
    /\ req[w].step = "write" => req[w].seen = vessel[req[w].vessel]

(* What a request is going to set is what some total of the vessel, the    *)
(* present one or an earlier one, calls for.                               *)
TargetOK(w) ==
    req[w].step \in {"load", "write"} /\ overrides = 0 =>
        \E t \in past[req[w].vessel] : req[w].target = Target(req[w].vessel, t)

Inv ==
    /\ TypeOK
    /\ WasCalledFor
    /\ \A v \in Vessels : tallied[v] \in past[v]
    /\ \A w \in Workers : TargetOK(w)
    /\ \A w \in alone : SoloOK(w)

-----------------------------------------------------------------------------
(* Facts about the arithmetic and about requests.                          *)

LEMMA FullFacts ==
    ASSUME NEW v \in Vessels
    PROVE  Capacity[v] \in Nat /\ Full(v) \in Nat \ {0} /\ MaxTallied[v] \in Nat
  BY CapacityAssumption, TallyBounds DEF Full

LEMMA TargetFacts ==
    ASSUME NEW v \in Vessels, NEW t \in Int PROVE Target(v, t) \in Int
  BY DEF Target

LEMMA CalledFacts ==
    ASSUME TypeOK, NEW v \in Vessels PROVE Called(v) \in Int /\ tallied[v] \in Int
  BY DEF Called, Target, TypeOK

LEMMA NewProgressFacts ==
    ASSUME NEW v \in Vessels, NEW x \in Int
    PROVE  /\ NewProgress(v, x) \in 0..Full(v)
           /\ x >= Full(v) => NewProgress(v, x) = Full(v)
           /\ x \in 0..Full(v) => NewProgress(v, x) = x
           /\ x <= 0 => NewProgress(v, x) = 0
  BY FullFacts DEF NewProgress, Least, Greatest

LEMMA RequestFacts ==
    ASSUME TypeOK, NEW w \in Workers
    PROVE  /\ ~Idle(w) => req[w] \in Requests
           /\ Idle(w) <=> req[w].step = "none"
           /\ req[w] \in Requests =>
                 /\ req[w].vessel \in Vessels
                 /\ req[w].step \in {"sum", "load", "write"}
                 /\ req[w].target \in Int
                 /\ req[w].seen \in [progress : Nat, status : Statuses]
  BY DEF TypeOK, Idle, NoReq, Requests

LEMMA RowIsSeen ==
    ASSUME NEW v \in Vessels, TypeOK
    PROVE  vessel[v] \in [progress : Nat, status : Statuses]
  BY FullFacts DEF TypeOK, Row

LEMMA BeginFacts ==
    ASSUME TypeOK, NEW w \in Workers, NEW r \in Requests, Begin(w, r)
    PROVE  /\ req' \in [Workers -> Requests \cup {NoReq}]
           /\ req'[w] = r /\ \A u \in Workers \ {w} : req'[u] = req[u]
           /\ alone' \subseteq {w}
           /\ w \in alone' => \A u \in Workers \ {w} : Idle(u)
           /\ r.step # "none"
  BY DEF TypeOK, Begin, Requests

-----------------------------------------------------------------------------
(* One lemma per action.                                                   *)

LEMMA AddInv ==
    ASSUME Inv, NEW w \in Workers, NEW v \in Vessels, NEW n \in Counts, AddTally(w, v, n)
    PROVE  Inv'
<1> DEFINE r == [vessel |-> v, step |-> "sum", tally |-> TRUE, target |-> 0, seen |-> NewRow]
<1>1. TypeOK /\ n \in Int
  BY InputsAssumption DEF Inv
<1>2. r \in Requests
  BY DEF Requests, NewRow, Statuses
<1>3. /\ req' \in [Workers -> Requests \cup {NoReq}]
      /\ req'[w] = r /\ \A u \in Workers \ {w} : req'[u] = req[u]
      /\ alone' \subseteq {w}
      /\ w \in alone' => \A u \in Workers \ {w} : Idle(u)
  BY <1>1, <1>2, BeginFacts DEF AddTally
<1>4. /\ tallied' = [tallied EXCEPT ![v] = tallied[v] + n]
      /\ past' = [past EXCEPT ![v] = past[v] \cup {tallied[v] + n}]
      /\ tallied[v] + n \in Totals(v) /\ tallied[v] + n \in Int
      /\ UNCHANGED <<vessel, overrides, failures>>
  BY <1>1 DEF AddTally, TypeOK
<1>5. TypeOK'
  <2>1. tallied' \in [Vessels -> Int] /\ past' \in [Vessels -> SUBSET Int]
    BY <1>1, <1>4 DEF TypeOK
  <2>2. \A z \in Vessels : tallied'[z] \in Totals(z) /\ past'[z] \subseteq Totals(z)
    BY <1>1, <1>4 DEF TypeOK
  <2> QED
    BY <1>1, <1>3, <1>4, <2>1, <2>2 DEF TypeOK, Totals, Row
<1>6. \A z \in Vessels : past[z] \subseteq past'[z] /\ tallied'[z] \in past'[z]
  BY <1>1, <1>4 DEF TypeOK, Inv
<1>7. WasCalledFor'
  <2> SUFFICES ASSUME overrides = 0, NEW z \in Vessels
      PROVE  /\ \E t \in past'[z] : vessel[z].progress = NewProgress(z, Target(z, t))
             /\ vessel[z].status = "operations_active" =>
                    \E t \in past'[z] : Target(z, t) \in 1..(Full(z) - 1)
             /\ vessel[z].status = "operations_complete" =>
                    \E t \in past'[z] : Target(z, t) >= Full(z)
    BY <1>4 DEF WasCalledFor
  <2> QED
    BY <1>6 DEF Inv, WasCalledFor
<1>8. ASSUME NEW u \in Workers PROVE TargetOK(u)'
  <2>1. CASE u = w
    BY <1>3, <2>1 DEF TargetOK
  <2>2. CASE u # w
    <3> SUFFICES ASSUME req[u].step \in {"load", "write"}, overrides = 0
                 PROVE  \E t \in past'[req[u].vessel] : req[u].target = Target(req[u].vessel, t)
      BY <1>3, <1>4, <2>2 DEF TargetOK
    <3>1. req[u].vessel \in Vessels
      BY <1>1, RequestFacts DEF Idle
    <3> QED
      BY <1>6, <3>1 DEF Inv, TargetOK
  <2> QED
    BY <2>1, <2>2
<1>9. \A u \in alone' : SoloOK(u)'
  BY <1>2, <1>3 DEF SoloOK, Idle, NoReq
<1> QED
  BY <1>5, <1>6, <1>7, <1>8, <1>9 DEF Inv

LEMMA SetInv ==
    ASSUME Inv, NEW w \in Workers, NEW v \in Vessels, NEW x \in Settings, SetProgress(w, v, x)
    PROVE  Inv'
<1> DEFINE r == [vessel |-> v, step |-> "write", tally |-> FALSE, target |-> x, seen |-> vessel[v]]
<1>1. TypeOK /\ x \in Int
  BY InputsAssumption DEF Inv
<1>2. r \in Requests
  BY <1>1, RowIsSeen DEF Requests
<1>3. /\ req' \in [Workers -> Requests \cup {NoReq}]
      /\ req'[w] = r /\ \A u \in Workers \ {w} : req'[u] = req[u]
      /\ alone' \subseteq {w}
      /\ w \in alone' => \A u \in Workers \ {w} : Idle(u)
  BY <1>1, <1>2, BeginFacts DEF SetProgress
<1>4. overrides' \in 0..MaxOverrides /\ overrides' # 0
  BY <1>1, TallyBounds DEF SetProgress, TypeOK
<1>5. TypeOK' /\ \A z \in Vessels : tallied'[z] \in past'[z]
  BY <1>1, <1>3, <1>4 DEF SetProgress, TypeOK, Totals, Row, Inv
<1>6. WasCalledFor' /\ \A u \in Workers : TargetOK(u)'
  BY <1>4 DEF WasCalledFor, TargetOK
<1>7. \A u \in alone' : SoloOK(u)'
  BY <1>2, <1>3 DEF SetProgress, SoloOK, Idle, NoReq
<1> QED
  BY <1>5, <1>6, <1>7 DEF Inv

LEMMA SumInv == ASSUME Inv, NEW w \in Workers, SumTallies(w) PROVE Inv'
<1> DEFINE v == req[w].vessel
<1>1. TypeOK /\ req[w] \in Requests /\ v \in Vessels /\ ~Idle(w)
  BY RequestFacts DEF Inv, SumTallies
<1>2. Called(v) \in Int
  BY <1>1, CalledFacts
<1>3. /\ UNCHANGED <<tallied, past, vessel, alone, overrides, failures>>
      /\ req' = [req EXCEPT ![w] = [@ EXCEPT !.target = Called(v), !.step = "load"]]
  BY <1>1 DEF SumTallies, Called, TypeOK, Requests
<1>4. /\ req'[w] \in Requests
      /\ req'[w].vessel = v /\ req'[w].target = Called(v)
      /\ req'[w].step = "load"
      /\ \A u \in Workers \ {w} : req'[u] = req[u]
  BY <1>1, <1>2, <1>3 DEF TypeOK, Requests
<1>5. TypeOK' /\ \A z \in Vessels : tallied'[z] \in past'[z]
  BY <1>1, <1>3, <1>4 DEF TypeOK, Totals, Row, Inv
<1>6. \A z : Called(z)' = Called(z)
  BY <1>3 DEF Called
<1>7. WasCalledFor'
  BY <1>3 DEF Inv, WasCalledFor
<1>8. \A u \in Workers : TargetOK(u)'
  <2>1. TargetOK(w)'
    BY <1>1, <1>3, <1>4 DEF Inv, TargetOK, Called
  <2>2. ASSUME NEW u \in Workers \ {w} PROVE TargetOK(u)'
    BY <1>3, <1>4 DEF Inv, TargetOK
  <2> QED
    BY <2>1, <2>2
<1>9. \A u \in alone' : SoloOK(u)'
  <2> SUFFICES ASSUME NEW u \in alone PROVE SoloOK(u)'
    BY <1>3
  <2>1. u \in Workers /\ SoloOK(u) /\ u = w
    BY <1>1 DEF Inv, SoloOK, TypeOK
  <2>2. req'[w].step # "none"
    BY <1>4
  <2>3. ~Idle(w)' /\ \A z \in Workers \ {w} : Idle(z)'
    BY <1>4, <2>1, <2>2 DEF SoloOK, Idle, NoReq
  <2>4. (req[w].target = Called(req[w].vessel))' \/ ~req'[w].tally
    BY <1>3, <1>4, <2>1, <2>2 DEF SoloOK, Called
  <2>5. req'[w].step = "write" => req'[w].seen = vessel'[req'[w].vessel]
    BY <1>3, <1>4
  <2> QED
    BY <2>1, <2>3, <2>4, <2>5 DEF SoloOK
<1> QED
  BY <1>3, <1>5, <1>7, <1>8, <1>9 DEF Inv

LEMMA LoadInv == ASSUME Inv, NEW w \in Workers, LoadVessel(w) PROVE Inv'
<1> DEFINE v == req[w].vessel
<1>1. TypeOK /\ req[w] \in Requests /\ v \in Vessels /\ ~Idle(w)
  BY RequestFacts DEF Inv, LoadVessel
<1>2. vessel[v] \in [progress : Nat, status : Statuses]
  BY <1>1, RowIsSeen
<1>3. /\ UNCHANGED <<tallied, past, vessel, alone, overrides, failures>>
      /\ req' = [req EXCEPT ![w] = [@ EXCEPT !.seen = vessel[v], !.step = "write"]]
  BY <1>1 DEF LoadVessel, TypeOK, Requests
<1>4. /\ req'[w] \in Requests
      /\ req'[w].vessel = v /\ req'[w].target = req[w].target /\ req'[w].seen = vessel[v]
      /\ req'[w].tally = req[w].tally
      /\ req'[w].step = "write"
      /\ \A u \in Workers \ {w} : req'[u] = req[u]
  BY <1>1, <1>2, <1>3 DEF TypeOK, Requests
<1>5. TypeOK' /\ \A z \in Vessels : tallied'[z] \in past'[z]
  BY <1>1, <1>3, <1>4 DEF TypeOK, Totals, Row, Inv
<1>6. \A z : Called(z)' = Called(z)
  BY <1>3 DEF Called
<1>7. WasCalledFor'
  BY <1>3 DEF Inv, WasCalledFor
<1>8. \A u \in Workers : TargetOK(u)'
  <2>1. TargetOK(w)'
    BY <1>3, <1>4 DEF Inv, TargetOK, LoadVessel
  <2>2. ASSUME NEW u \in Workers \ {w} PROVE TargetOK(u)'
    BY <1>3, <1>4 DEF Inv, TargetOK
  <2> QED
    BY <2>1, <2>2
<1>9. \A u \in alone' : SoloOK(u)'
  <2> SUFFICES ASSUME NEW u \in alone PROVE SoloOK(u)'
    BY <1>3
  <2>1. u \in Workers /\ SoloOK(u) /\ u = w
    BY <1>1 DEF Inv, SoloOK, TypeOK
  <2>2. req'[w].step # "none" /\ req[w].step = "load"
    BY <1>4 DEF LoadVessel
  <2>3. ~Idle(w)' /\ \A z \in Workers \ {w} : Idle(z)'
    BY <1>4, <2>1, <2>2 DEF SoloOK, Idle, NoReq
  <2>4. (req[w].target = Called(req[w].vessel))' \/ ~req'[w].tally
    BY <1>3, <1>4, <2>1, <2>2 DEF SoloOK, Called
  <2>5. req'[w].step = "write" => req'[w].seen = vessel'[req'[w].vessel]
    BY <1>3, <1>4
  <2> QED
    BY <2>1, <2>3, <2>4, <2>5 DEF SoloOK
<1> QED
  BY <1>5, <1>7, <1>8, <1>9 DEF Inv

(* What a request leaves behind when it ends: nothing but what it has      *)
(* written.                                                                *)
LEMMA EndInv ==
    ASSUME Inv, NEW w \in Workers,
           req' = [req EXCEPT ![w] = NoReq], alone' = alone \ {w},
           UNCHANGED <<tallied, past, overrides>>
    PROVE  /\ req' \in [Workers -> Requests \cup {NoReq}]
           /\ alone' = {}  \/ ~(w \in alone)
           /\ \A u \in Workers : TargetOK(u)'
<1>1. TypeOK
  BY DEF Inv
<1>2. req'[w] = NoReq /\ \A u \in Workers \ {w} : req'[u] = req[u]
  BY <1>1 DEF TypeOK
<1>3. \A u \in Workers : TargetOK(u)'
  BY <1>2 DEF Inv, TargetOK, NoReq
<1>4. alone' = {} \/ ~(w \in alone)
  BY <1>1 DEF Inv, SoloOK, TypeOK
<1> QED
  BY <1>1, <1>3, <1>4 DEF TypeOK

(* A request that was overlapped leaves no other alone.                    *)
LEMMA NoneAlone ==
    ASSUME Inv, NEW w \in Workers, ~Idle(w), alone' = alone \ {w} PROVE alone' = {}
  BY DEF Inv, SoloOK, TypeOK

LEMMA UpdateInv == ASSUME Inv, NEW w \in Workers, UpdateProgress(w) PROVE Inv'
<1> DEFINE v == req[w].vessel
           x == req[w].target
           seen == req[w].seen
           p == Written(NewProgress(v, x), seen.progress, vessel[v].progress)
           s == Written(NewStatus(v, x, seen.status), seen.status, vessel[v].status)
<1>1. /\ TypeOK /\ req[w] \in Requests /\ v \in Vessels /\ ~Idle(w) /\ x \in Int
      /\ seen \in [progress : Nat, status : Statuses]
  BY RequestFacts DEF Inv, UpdateProgress
<1>2. /\ vessel' = [vessel EXCEPT ![v] = [progress |-> p, status |-> s]]
      /\ req' = [req EXCEPT ![w] = NoReq] /\ alone' = alone \ {w}
      /\ UNCHANGED <<tallied, past, overrides, failures>>
  BY DEF UpdateProgress
<1>3. vessel[v] \in Row(v) /\ Full(v) \in Nat \ {0}
  BY <1>1, FullFacts DEF TypeOK
<1>4. [progress |-> p, status |-> s] \in Row(v)
  <2>1. p \in 0..Full(v)
    BY <1>1, <1>3, NewProgressFacts DEF Written, Row
  <2>2. s \in Statuses
    BY <1>1, <1>3 DEF Written, Row, NewStatus, Statuses
  <2> QED
    BY <2>1, <2>2 DEF Row
<1>5. /\ vessel'[v] = [progress |-> p, status |-> s] /\ DOMAIN vessel' = Vessels
      /\ \A z \in Vessels \ {v} : vessel'[z] = vessel[z]
  BY <1>1, <1>2 DEF TypeOK
<1>6. /\ req' \in [Workers -> Requests \cup {NoReq}]
      /\ \A u \in Workers : TargetOK(u)'
  BY <1>2, EndInv
<1>7. alone' = {}
  BY <1>1, <1>2, NoneAlone
<1>8. TypeOK' /\ \A z \in Vessels : tallied'[z] \in past'[z]
  BY <1>1, <1>2, <1>4, <1>5, <1>6, <1>7 DEF TypeOK, Totals, Row, Inv
<1>9. WasCalledFor'
  <2> SUFFICES ASSUME overrides = 0, NEW z \in Vessels
      PROVE  /\ \E t \in past[z] : vessel'[z].progress = NewProgress(z, Target(z, t))
             /\ vessel'[z].status = "operations_active" =>
                    \E t \in past[z] : Target(z, t) \in 1..(Full(z) - 1)
             /\ vessel'[z].status = "operations_complete" =>
                    \E t \in past[z] : Target(z, t) >= Full(z)
    BY <1>2 DEF WasCalledFor
  <2>1. /\ \E t \in past[z] : vessel[z].progress = NewProgress(z, Target(z, t))
        /\ vessel[z].status = "operations_active" =>
               \E t \in past[z] : Target(z, t) \in 1..(Full(z) - 1)
        /\ vessel[z].status = "operations_complete" =>
               \E t \in past[z] : Target(z, t) >= Full(z)
    BY DEF Inv, WasCalledFor
  <2>2. CASE z = v
    <3>1. PICK t \in past[v] : x = Target(v, t)
      BY DEF Inv, TargetOK, UpdateProgress
    <3>2. \E u \in past[v] : p = NewProgress(v, Target(v, u))
      BY <2>1, <2>2, <3>1 DEF Written
    <3>3. s = "operations_active" => \E u \in past[v] : Target(v, u) \in 1..(Full(v) - 1)
      <4>1. CASE s = vessel[v].status
        BY <2>1, <2>2, <4>1
      <4>2. CASE s # vessel[v].status
        <5>1. s = NewStatus(v, x, seen.status) /\ s # seen.status
          BY <4>2 DEF Written
        <5>2. s = "operations_active" => x > 0 /\ ~(x >= Full(v))
          BY <5>1 DEF NewStatus
        <5> QED
          BY <1>1, <1>3, <3>1, <5>2
      <4> QED
        BY <4>1, <4>2
    <3>4. s = "operations_complete" => \E u \in past[v] : Target(v, u) >= Full(v)
      <4>1. CASE s = vessel[v].status
        BY <2>1, <2>2, <4>1
      <4>2. CASE s # vessel[v].status
        <5>1. s = NewStatus(v, x, seen.status) /\ s # seen.status
          BY <4>2 DEF Written
        <5>2. s = "operations_complete" => x >= Full(v)
          BY <5>1 DEF NewStatus
        <5> QED
          BY <3>1, <5>2
      <4> QED
        BY <4>1, <4>2
    <3> QED
      BY <1>5, <2>2, <3>2, <3>3, <3>4
  <2>3. CASE z # v
    BY <1>5, <2>1, <2>3
  <2> QED
    BY <2>2, <2>3
<1> QED
  BY <1>2, <1>6, <1>7, <1>8, <1>9 DEF Inv

LEMMA BreakOffInv == ASSUME Inv, NEW w \in Workers, BreakOff(w) PROVE Inv'
<1>1. /\ TypeOK /\ ~Idle(w)
      /\ req' = [req EXCEPT ![w] = NoReq] /\ alone' = alone \ {w}
      /\ UNCHANGED <<tallied, past, vessel, overrides>>
  BY DEF Inv, BreakOff
<1>2. failures' \in 0..MaxFailures
  BY <1>1, TallyBounds DEF BreakOff, TypeOK
<1>3. /\ req' \in [Workers -> Requests \cup {NoReq}]
      /\ \A u \in Workers : TargetOK(u)'
      /\ alone' = {}
  BY <1>1, EndInv, NoneAlone
<1>4. TypeOK' /\ \A z \in Vessels : tallied'[z] \in past'[z]
  BY <1>1, <1>2, <1>3 DEF TypeOK, Totals, Row, Inv
<1>5. WasCalledFor'
  BY <1>1 DEF Inv, WasCalledFor
<1> QED
  BY <1>3, <1>4, <1>5 DEF Inv

-----------------------------------------------------------------------------
(* The invariant and what follows from it.                                 *)

LEMMA InitInv == Init => Inv
<1> SUFFICES ASSUME Init PROVE Inv
  OBVIOUS
<1>1. TypeOK
  BY TallyBounds, FullFacts DEF Init, TypeOK, Row, Statuses, Totals, NewRow
<1>2. WasCalledFor /\ \A v \in Vessels : tallied[v] \in past[v]
  <2> SUFFICES ASSUME NEW v \in Vessels
               PROVE  /\ vessel[v].status = "expected" /\ tallied[v] \in past[v]
                      /\ \E t \in past[v] : vessel[v].progress = NewProgress(v, Target(v, t))
    BY DEF WasCalledFor
  <2>1. vessel[v] = NewRow /\ past[v] = {0} /\ tallied[v] = 0 /\ Target(v, 0) = 0
    BY DEF Init, Target
  <2>2. NewProgress(v, 0) = 0
    BY NewProgressFacts
  <2> QED
    BY <2>1, <2>2 DEF NewRow
<1>3. \A w \in Workers : Idle(w)
  BY DEF Init, Idle
<1> QED
  BY <1>1, <1>2, <1>3 DEF Init, Inv, TargetOK, Idle, NoReq

LEMMA NextInv == Inv /\ [Next]_tVars => Inv'
<1> SUFFICES ASSUME Inv, [Next]_tVars PROVE Inv'
  OBVIOUS
<1>1. ASSUME NEW w \in Workers, NEW v \in Vessels, NEW n \in Counts, AddTally(w, v, n) PROVE Inv'
  BY <1>1, AddInv
<1>2. ASSUME NEW w \in Workers, NEW v \in Vessels, NEW x \in Settings, SetProgress(w, v, x)
      PROVE  Inv'
  BY <1>2, SetInv
<1>3. ASSUME NEW w \in Workers, SumTallies(w) PROVE Inv'
  BY <1>3, SumInv
<1>4. ASSUME NEW w \in Workers, LoadVessel(w) PROVE Inv'
  BY <1>4, LoadInv
<1>5. ASSUME NEW w \in Workers, UpdateProgress(w) PROVE Inv'
  BY <1>5, UpdateInv
<1>6. ASSUME NEW w \in Workers, BreakOff(w) PROVE Inv'
  BY <1>6, BreakOffInv
<1>7. CASE UNCHANGED tVars
  BY <1>7 DEF tVars, Inv, TypeOK, WasCalledFor, TargetOK, SoloOK, Idle, Called
<1> QED
  BY <1>1, <1>2, <1>3, <1>4, <1>5, <1>6, <1>7 DEF Next

LEMMA SpecInv == Spec => []Inv
  BY InitInv, NextInv, PTL DEF Spec

(* Every variable keeps its type: progress stays between 0 and 100 %.      *)
THEOREM TallyTypeOK == Spec => []TypeOK
<1>1. Inv => TypeOK
  BY DEF Inv
<1> QED
  BY SpecInv, <1>1, PTL

(* A vessel shows a progress and a status that its tallies have called for *)
(* at some time, negative counts included, unless it was set by hand.      *)
THEOREM TallyWasCalledFor == Spec => []WasCalledFor
<1>1. Inv => WasCalledFor
  BY DEF Inv
<1> QED
  BY SpecInv, <1>1, PTL

(* The write of a request that was alone makes the row exact.              *)
LEMMA SoloExact ==
    ASSUME Inv, NEW w \in Workers, NEW v \in Vessels,
           UpdateProgress(w), req[w].vessel = v, w \in alone, req[w].tally
    PROVE  Exact(v)'
<1> DEFINE seen == req[w].seen
           c == Called(v)
<1>1. TypeOK /\ seen = vessel[v] /\ req[w].target = c /\ req[w].step = "write"
  BY DEF Inv, SoloOK, UpdateProgress
<1>2. vessel' = [vessel EXCEPT ![v] =
        [progress |-> Written(NewProgress(v, c), seen.progress, vessel[v].progress),
         status |-> Written(NewStatus(v, c, seen.status), seen.status, vessel[v].status)]]
  BY <1>1 DEF UpdateProgress
<1>3. /\ vessel'[v].progress = NewProgress(v, c)
      /\ vessel'[v].status = NewStatus(v, c, vessel[v].status)
  BY <1>1, <1>2 DEF Written, TypeOK
<1>4. c \in Int /\ Full(v) \in Nat \ {0} /\ Called(v)' = c
  BY <1>1, CalledFacts, FullFacts DEF UpdateProgress, Called
<1> QED
  BY <1>3, <1>4 DEF Exact, NewStatus

(* A tally whose request no other overlaps leaves the row as the tallies   *)
(* call for, whatever was in it before.                                    *)
THEOREM TallySoloPostRepairs == Spec => SoloPostRepairs
<1>1. Inv /\ [Next]_tVars =>
        [\A w \in Workers, v \in Vessels :
            /\ UpdateProgress(w) /\ req[w].vessel = v
            /\ w \in alone /\ req[w].tally
            => Exact(v)']_tVars
  BY SoloExact
<1> QED
  BY SpecInv, <1>1, PTL DEF Spec, SoloPostRepairs

-----------------------------------------------------------------------------
(* With one worker process no requests overlap.                            *)

(* Every request is a tally that no other overlaps, and a vessel shows     *)
(* what its tallies call for or its request is still under way.            *)
AllAlone == \A w \in Workers : ~Idle(w) => w \in alone /\ req[w].tally

Following(v) == Exact(v) \/ \E w \in Workers : ~Idle(w) /\ req[w].vessel = v

FollowInv == failures = 0 /\ overrides = 0 => AllAlone /\ \A v \in Vessels : Following(v)

LEMMA InitFollow == Init => FollowInv
<1> SUFFICES ASSUME Init, NEW v \in Vessels PROVE Exact(v)
  BY DEF FollowInv, Following, AllAlone, Init, Idle
<1>1. Called(v) = 0 /\ vessel[v].progress = 0 /\ Full(v) \in Nat \ {0}
  BY FullFacts DEF Init, Called, Target, NewRow
<1> QED
  BY <1>1, NewProgressFacts DEF Exact

LEMMA StepFollow ==
    ASSUME \A u, w \in Workers : u = w, Inv, FollowInv, [Next]_tVars
    PROVE  FollowInv'
<1>1. TypeOK
  BY DEF Inv
<1>2. ASSUME NEW w \in Workers, NEW v \in Vessels, NEW n \in Counts, AddTally(w, v, n)
      PROVE  FollowInv'
  <2> DEFINE r == [vessel |-> v, step |-> "sum", tally |-> TRUE, target |-> 0, seen |-> NewRow]
  <2>1. /\ Idle(w) /\ \A u \in Workers : Idle(u)
        /\ req' = [req EXCEPT ![w] = r] /\ alone' = {w} /\ vessel' = vessel
    BY <1>2 DEF AddTally, Begin
  <2>2. req'[w] = r /\ req'[w].step = "sum"
    BY <1>1, <2>1 DEF TypeOK
  <2>5. AllAlone'
    BY <2>1, <2>2 DEF AllAlone
  <2> SUFFICES ASSUME failures = 0, overrides = 0, NEW z \in Vessels PROVE Following(z)'
    BY <1>2, <2>5 DEF FollowInv, AddTally
  <2>3. CASE z = v
    BY <2>1, <2>2, <2>3 DEF Following, Idle, NoReq
  <2>4. CASE z # v
    <3>1. Exact(z)
      BY <1>1, <2>1 DEF FollowInv, Following, TypeOK
    <3>2. tallied'[z] = tallied[z]
      BY <1>1, <1>2, <2>4 DEF AddTally, TypeOK
    <3>3. Exact(z)'
      BY <2>1, <3>1, <3>2 DEF Exact, Called
    <3> QED
      BY <3>3 DEF Following
  <2> QED
    BY <2>3, <2>4
<1>3. ASSUME NEW w \in Workers, SumTallies(w) \/ LoadVessel(w) PROVE FollowInv'
  <2>1. /\ UNCHANGED <<tallied, past, vessel, alone, overrides, failures>>
        /\ ~Idle(w)' /\ req'[w].tally = req[w].tally /\ req'[w].vessel = req[w].vessel
    <3>1. req[w] \in Requests
      BY <1>1, <1>3, RequestFacts DEF SumTallies, LoadVessel
    <3>2. /\ req'[w].step \in {"load", "write"}
          /\ req'[w].tally = req[w].tally /\ req'[w].vessel = req[w].vessel
      BY <1>1, <1>3, <3>1 DEF SumTallies, LoadVessel, TypeOK, Requests
    <3> QED
      BY <1>3, <3>2 DEF SumTallies, LoadVessel, Idle, NoReq
  <2>2. ~Idle(w)
    BY <1>1, <1>3, RequestFacts DEF SumTallies, LoadVessel
  <2>3. ASSUME NEW z \in Vessels, Following(z) PROVE Following(z)'
    BY <2>1, <2>3 DEF Following, Exact, Called
  <2>4. AllAlone => AllAlone'
    BY <2>1, <2>2 DEF AllAlone
  <2> QED
    BY <2>1, <2>3, <2>4 DEF FollowInv
<1>4. ASSUME NEW w \in Workers, UpdateProgress(w) PROVE FollowInv'
  <2>1. /\ ~Idle(w) /\ req' = [req EXCEPT ![w] = NoReq]
        /\ UNCHANGED <<tallied, past, overrides, failures>>
    BY <1>1, <1>4, RequestFacts DEF UpdateProgress
  <2>2. \A u \in Workers : Idle(u)'
    BY <1>1, <2>1 DEF TypeOK, Idle
  <2> SUFFICES ASSUME failures = 0, overrides = 0, NEW z \in Vessels PROVE Exact(z)'
    BY <2>1, <2>2 DEF FollowInv, Following, AllAlone
  <2>3. Following(z) /\ w \in alone /\ req[w].tally
    BY <2>1 DEF FollowInv, AllAlone
  <2>4. CASE req[w].vessel = z
    BY <1>4, <2>3, <2>4, SoloExact
  <2>5. CASE req[w].vessel # z
    <3>1. Exact(z)
      BY <2>3, <2>5 DEF Following
    <3>2. vessel'[z] = vessel[z] /\ tallied'[z] = tallied[z]
      BY <1>1, <1>4, <2>5 DEF UpdateProgress, TypeOK
    <3> QED
      BY <3>1, <3>2 DEF Exact, Called
  <2> QED
    BY <2>4, <2>5
<1>5. ASSUME NEW w \in Workers,
             BreakOff(w) \/ \E v \in Vessels, x \in Settings : SetProgress(w, v, x)
      PROVE  FollowInv'
  <2>1. failures \in Nat /\ overrides \in Nat
    BY <1>1, TallyBounds DEF TypeOK
  <2>2. failures' = failures + 1 \/ overrides' = overrides + 1
    BY <1>5 DEF BreakOff, SetProgress
  <2>3. failures' # 0 \/ overrides' # 0
    BY <2>1, <2>2
  <2> QED
    BY <2>3 DEF FollowInv
<1>6. CASE UNCHANGED tVars
  BY <1>6 DEF tVars, FollowInv, Following, AllAlone, Exact, Called, Idle
<1> QED
  BY <1>2, <1>3, <1>4, <1>5, <1>6 DEF Next

(* With one worker process (WEB_WORKERS=1, a value gunicorn.conf.py takes) *)
(* progress follows the tallies, for any capacity and any tallies: that    *)
(* requests overlap is the only cause of its falling behind.               *)
THEOREM OneWorkerFollowsTallies ==
    ASSUME \A u, w \in Workers : u = w
    PROVE  Spec => []ProgressFollowsTallies
<1>1. Inv /\ FollowInv => ProgressFollowsTallies
  BY DEF FollowInv, Following, ProgressFollowsTallies, Inv, TypeOK
<1> QED
  BY SpecInv, InitFollow, StepFollow, <1>1, PTL DEF Spec

=============================================================================
