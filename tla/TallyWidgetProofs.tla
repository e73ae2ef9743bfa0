-------------------------- MODULE TallyWidgetProofs --------------------------
(***************************************************************************)
(* Theorems about TallyWidget, for any number of processes, tallies,       *)
(* loads, faults and page changes, and any two limits.                     *)
(***************************************************************************)
EXTENDS TallyWidget, SequenceTheorems, FiniteSetTheorems, TLAPS

USE WidgetAssumption

(* The type invariant in parts; the service worker's copy is empty or one  *)
(* answer.                                                                 *)
FlagTypes == online \in BOOLEAN /\ isLoading \in BOOLEAN

TallyTypes ==
    /\ made \in 0..MaxTallies /\ base \in 0..made
    /\ awaiting \subseteq 1..made /\ queued \subseteq 1..made /\ abandoned \subseteq 1..made
    /\ post \in [Tallies -> {"none", "sent", "ok", "error"}]
    /\ told \in [Tallies -> {"nothing", "added", "offline"}]
    /\ failures \in 0..MaxFailures /\ turns \in 0..MaxTurns

RowTypes ==
    /\ shown \in Rows /\ table \in Rows
    /\ load \in [Slots -> {"idle", "asked", "answered", "failed"}] /\ rows \in [Slots -> Rows]
    /\ cache \in [Servers -> Rows] /\ known \subseteq Servers

CopyTypes ==
    /\ runtimeCache = {} \/ \E q \in Rows : runtimeCache = {q}
    /\ puts \subseteq Rows

Typed == FlagTypes /\ TallyTypes /\ RowTypes /\ CopyTypes

(* A POST is answered with success only once its row is there, and a tally *)
(* not yet entered has neither a POST nor a message.                       *)
PostOK(t) ==
    /\ post[t] = "ok" => t \in Recorded
    /\ told[t] = "added" => t \in Recorded
    /\ told[t] = "offline" => t \in queued
    /\ t \in 1..made => t \in awaiting \cup Recorded \cup queued \cup abandoned
    /\ t > made => post[t] = "none" /\ told[t] = "nothing"

TallyInv == Typed /\ \A t \in Tallies : PostOK(t)

LEMMA TypedIsTyped == Typed => WidgetTypeOK
    <1> SUFFICES ASSUME Typed PROVE WidgetTypeOK OBVIOUS
    <1>1. Cardinality(runtimeCache) < 2 /\ runtimeCache \subseteq Rows
        <2>1. CASE runtimeCache = {} BY <2>1, FS_EmptySet
        <2>2. ASSUME NEW q \in Rows, runtimeCache = {q}
              PROVE  Cardinality(runtimeCache) < 2 /\ runtimeCache \subseteq Rows
            BY <2>2, FS_Singleton
        <2> QED BY <2>1, <2>2 DEF Typed, CopyTypes
    <1>2. runtimeCache \cup puts \subseteq Rows BY <1>1 DEF Typed, CopyTypes
    <1>3. {online, isLoading} \subseteq BOOLEAN BY DEF Typed, FlagTypes
    <1> QED BY <1>1, <1>2, <1>3 DEF Typed, TallyTypes, RowTypes, WidgetTypeOK

-----------------------------------------------------------------------------
(* Rows.                                                                   *)

LEMMA NewestRows ==
    ASSUME Typed, NEW n \in 0..Len(table)
    PROVE  /\ AtMost(n, ServerLimit) \in 0..n
           /\ Newest(n) \in Rows
           /\ Len(Newest(n)) = AtMost(n, ServerLimit)
           /\ \A i \in 1..AtMost(n, ServerLimit) : Newest(n)[i] = table[n + 1 - i]
    <1> DEFINE k == AtMost(n, ServerLimit)
    <1>1. k \in 0..n BY DEF AtMost
    <1>2. table \in Seq(Tallies) /\ Len(table) \in Nat BY DEF Typed, RowTypes, Rows
    <1>3. \A i \in 1..k : n + 1 - i \in 1..Len(table) /\ table[n + 1 - i] \in Tallies
        <2> HIDE DEF k
        <2> QED BY <1>1, <1>2
    <1>4. Newest(n) = [i \in 1..k |-> table[n + 1 - i]] BY DEF Newest
    <1> HIDE DEF k
    <1>5. Newest(n) \in Seq(Tallies) /\ Len(Newest(n)) = k BY <1>1, <1>3, <1>4, IsASeq
    <1> QED BY <1>1, <1>3, <1>4, <1>5 DEF Rows, k

LEMMA QueryRows ==
    ASSUME Typed
    PROVE  Query \in Rows
    <1>1. Len(table) \in 0..Len(table) BY DEF Typed, RowTypes, Rows
    <1> QED BY <1>1, NewestRows DEF Query

LEMMA AppendRecords ==
    ASSUME NEW t \in Tallies, table \in Rows, table' = Append(table, t)
    PROVE  Recorded' = Recorded \cup {t}
    <1>1. /\ Len(table') = Len(table) + 1 /\ Len(table) \in Nat
          /\ \A i \in 1..Len(table) : table'[i] = table[i]
          /\ table'[Len(table) + 1] = t
          /\ DOMAIN table = 1..Len(table) /\ DOMAIN table' = 1..(Len(table) + 1)
        BY AppendProperties DEF Rows
    <1> QED BY <1>1 DEF Recorded

(* What is shown once a tally has been put on top.                         *)
LEMMA ShownOnTop ==
    ASSUME Typed, AddTally
    PROVE  /\ made' \in Tallies /\ shown' \in Rows
           /\ Len(shown') = AtMost(Len(shown) + 1, maxHistoryItems)
           /\ \A i \in 1..Len(shown') : shown'[i] = IF i = 1 THEN made' ELSE shown[i - 1]
    <1> DEFINE all == <<made'>> \o shown
               k == AtMost(Len(shown) + 1, maxHistoryItems)
    <1>1. made' \in Tallies BY DEF AddTally, Typed, TallyTypes, Tallies
    <1>2. <<made'>> \in Seq(Tallies) /\ Len(<<made'>>) = 1 /\ <<made'>>[1] = made' BY <1>1
    <1>3. shown \in Seq(Tallies) /\ Len(shown) \in Nat BY DEF Typed, RowTypes, Rows
    <1>4. /\ all \in Seq(Tallies) /\ Len(all) = Len(shown) + 1
          /\ \A i \in 1..Len(all) : all[i] = IF i <= 1 THEN <<made'>>[i] ELSE shown[i - 1]
        BY <1>2, <1>3, ConcatProperties
    <1>5. k \in 1..Len(all)
        <2>1. Len(shown) + 1 \in Nat \ {0} BY <1>3
        <2>2. k \in 1..(Len(shown) + 1) BY <2>1 DEF AtMost
        <2> QED BY <2>2, <1>4
    <1>6. shown' = SubSeq(all, 1, k) BY DEF AddTally
    <1> HIDE DEF all, k
    <1>7. /\ shown' \in Seq(Tallies) /\ Len(shown') = k
          /\ \A i \in 1..k : shown'[i] = all[i]
        BY <1>4, <1>5, <1>6, SubSeqProperties
    <1>8. \A i \in 1..k : all[i] = IF i = 1 THEN made' ELSE shown[i - 1] BY <1>2, <1>4, <1>5
    <1> QED BY <1>1, <1>7, <1>8 DEF Rows, k

-----------------------------------------------------------------------------
(* Types.                                                                  *)

LEMMA EmptyRows == <<>> \in Rows BY DEF Rows

LEMMA InitTyped == WidgetInit => Typed
    <1> SUFFICES ASSUME WidgetInit PROVE Typed OBVIOUS
    <1>1. TallyTypes BY DEF WidgetInit, TallyTypes
    <1>2. RowTypes BY EmptyRows DEF WidgetInit, RowTypes
    <1>3. CopyTypes BY DEF WidgetInit, CopyTypes
    <1>4. FlagTypes BY DEF WidgetInit, FlagTypes
    <1> QED BY <1>1, <1>2, <1>3, <1>4 DEF Typed

LEMMA StepFlags == FlagTypes /\ [WidgetNext]_widgetVars => FlagTypes'
    <1> SUFFICES ASSUME FlagTypes, [WidgetNext]_widgetVars PROVE FlagTypes' OBVIOUS
    <1>1. online' \in {online, TRUE, FALSE} /\ isLoading' \in {isLoading, TRUE, FALSE}
        BY DEF WidgetNext, AddTally, RecordTally, TakeAnswer, LoseAnswer, AutoRefresh,
               ClickRefresh, StartLoad, AnswerLoad, LoseLoad, StoreAnswer, TakeLoad, FailLoad,
               AfterFailure, LeavePage, Disconnect, Reconnected, DashboardData, RefreshCache,
               ClearVessels, ClearCache, Keep, widgetVars, pageVars
    <1> QED BY <1>1 DEF FlagTypes

LEMMA StepTyped == Typed /\ [WidgetNext]_widgetVars => Typed'
    <1> SUFFICES ASSUME Typed, [WidgetNext]_widgetVars PROVE Typed' OBVIOUS
    <1> USE DEF pageVars, workerVars, tallyVars, serverVars, loads
    <1>0. TallyTypes /\ RowTypes /\ CopyTypes /\ FlagTypes' BY StepFlags DEF Typed
    <1>1. CASE AddTally
        <2>1. made' = made + 1 /\ made' \in 1..MaxTallies /\ made' \in Tallies
            BY <1>0, <1>1 DEF AddTally, TallyTypes, Tallies
        <2>2. TallyTypes'
            <3>1. post' \in [Tallies -> {"none", "sent", "ok", "error"}]
                BY <1>0, <1>1, <2>1 DEF AddTally, TallyTypes
            <3>2. told' \in [Tallies -> {"nothing", "added", "offline"}]
                BY <1>0, <1>1, <2>1 DEF AddTally, TallyTypes
            <3>3. /\ awaiting' \subseteq 1..made' /\ queued' \subseteq 1..made'
                  /\ abandoned' \subseteq 1..made' /\ base' \in 0..made'
                <4>1. \/ awaiting' = awaiting \cup {made'} /\ queued' = queued
                      \/ awaiting' = awaiting /\ queued' = queued \cup {made'}
                    BY <1>1 DEF AddTally
                <4>2. base' = base /\ abandoned' = abandoned BY <1>1 DEF AddTally
                <4>3. 1..made \subseteq 1..made' /\ made' \in 1..made' /\ 0..made \subseteq 0..made'
                    BY <1>0, <2>1 DEF TallyTypes
                <4>4. /\ awaiting \subseteq 1..made /\ queued \subseteq 1..made
                      /\ abandoned \subseteq 1..made /\ base \in 0..made
                    BY <1>0 DEF TallyTypes
                <4>5. awaiting' \subseteq 1..made' /\ queued' \subseteq 1..made'
                    BY <4>1, <4>3, <4>4
                <4> QED BY <4>2, <4>3, <4>4, <4>5
            <3> QED BY <1>0, <1>1, <2>1, <3>1, <3>2, <3>3 DEF AddTally, TallyTypes
        <2>3. RowTypes' BY <1>0, <1>1, ShownOnTop DEF AddTally, RowTypes
        <2>4. CopyTypes' BY <1>0, <1>1 DEF AddTally, CopyTypes
        <2> QED BY <1>0, <2>2, <2>3, <2>4 DEF Typed
    <1>2. ASSUME NEW t \in Tallies, RecordTally(t) PROVE Typed'
        <2>1. table' \in Rows
            <3>1. Append(table, t) \in Rows BY <1>0, AppendProperties DEF RowTypes, Rows
            <3> QED BY <1>0, <1>2, <3>1 DEF RecordTally, RowTypes
        <2>2. TallyTypes' BY <1>0, <1>2 DEF RecordTally, Fault, TallyTypes
        <2>3. RowTypes' BY <1>0, <1>2, <2>1 DEF RecordTally, RowTypes
        <2>4. CopyTypes' BY <1>0, <1>2 DEF RecordTally, CopyTypes
        <2> QED BY <1>0, <2>2, <2>3, <2>4 DEF Typed
    <1>3. ASSUME NEW t \in Tallies, TakeAnswer(t) \/ LoseAnswer(t) PROVE Typed'
        <2>1. TallyTypes'
            <3>1. /\ UNCHANGED <<made, base, abandoned, post, turns>>
                  /\ t \in awaiting /\ awaiting' = awaiting \ {t}
                BY <1>3 DEF TakeAnswer, LoseAnswer
            <3>2. failures' = failures \/ Fault BY <1>3 DEF TakeAnswer, LoseAnswer
            <3>3. /\ \/ told' = [told EXCEPT ![t] = "added"]
                     \/ told' = [told EXCEPT ![t] = "offline"]
                  /\ queued' = queued \/ queued' = queued \cup {t}
                BY <1>3 DEF TakeAnswer, LoseAnswer, Queue
            <3>4. failures' \in 0..MaxFailures BY <1>0, <3>2 DEF Fault, TallyTypes
            <3>5. told' \in [Tallies -> {"nothing", "added", "offline"}] /\ queued' \subseteq 1..made
                BY <1>0, <3>1, <3>3 DEF TallyTypes
            <3> QED BY <1>0, <3>1, <3>4, <3>5 DEF TallyTypes
        <2>2. RowTypes' BY <1>0, <1>3 DEF TakeAnswer, LoseAnswer, RowTypes
        <2>3. CopyTypes' BY <1>0, <1>3 DEF TakeAnswer, LoseAnswer, CopyTypes
        <2> QED BY <1>0, <2>1, <2>2, <2>3 DEF Typed
    <1>4. CASE AutoRefresh \/ ClickRefresh
        <2>1. TallyTypes'
            <3>1. UNCHANGED <<made, base, awaiting, queued, abandoned, post, told, failures>>
                BY <1>4 DEF AutoRefresh, ClickRefresh
            <3>2. turns' = turns \/ Turn BY <1>4 DEF AutoRefresh, ClickRefresh
            <3>3. turns' \in 0..MaxTurns BY <1>0, <3>2 DEF Turn, TallyTypes
            <3> QED BY <1>0, <3>1, <3>3 DEF TallyTypes
        <2>2. RowTypes' BY <1>0, <1>4 DEF AutoRefresh, ClickRefresh, StartLoad, RowTypes
        <2>3. CopyTypes' BY <1>0, <1>4 DEF AutoRefresh, ClickRefresh, CopyTypes
        <2> QED BY <1>0, <2>1, <2>2, <2>3 DEF Typed
    <1>5. ASSUME NEW s \in Slots, NEW w \in Servers, AnswerLoad(w, s) PROVE Typed'
        <2>1. TallyTypes' BY <1>0, <1>5 DEF AnswerLoad, Fault, TallyTypes
        <2>2. RowTypes' BY <1>0, <1>5, QueryRows DEF AnswerLoad, Answer, Fail, RowTypes
        <2>3. CopyTypes' BY <1>0, <1>5, <2>2 DEF AnswerLoad, RowTypes, CopyTypes
        <2> QED BY <1>0, <2>1, <2>2, <2>3 DEF Typed
    <1>6. ASSUME NEW s \in Slots, LoseLoad(s) PROVE Typed'
        <2>1. TallyTypes' BY <1>0, <1>6 DEF LoseLoad, Fault, TallyTypes
        <2>2. load' \in [Slots -> {"idle", "asked", "answered", "failed"}] /\ rows' \in [Slots -> Rows]
            BY <1>0, <1>6 DEF LoseLoad, Answer, Fail, RowTypes, CopyTypes
        <2>3. cache' \in [Servers -> Rows] BY <1>0, <1>6, QueryRows DEF LoseLoad, RowTypes
        <2>4. RowTypes' BY <1>0, <1>6, <2>2, <2>3 DEF LoseLoad, RowTypes
        <2>5. CopyTypes' BY <1>0, <1>6 DEF LoseLoad, CopyTypes
        <2> QED BY <1>0, <2>1, <2>4, <2>5 DEF Typed
    <1>7. ASSUME NEW s \in Slots, TakeLoad(s) \/ FailLoad(s) PROVE Typed'
        <2>1. TallyTypes'
            <3>1. UNCHANGED <<made, awaiting, queued, abandoned, post, told, failures, turns>>
                BY <1>7 DEF TakeLoad, FailLoad
            <3>2. base' \in {base, made} BY <1>7 DEF TakeLoad, FailLoad
            <3> QED BY <1>0, <3>1, <3>2 DEF TallyTypes
        <2>2. RowTypes' BY <1>0, <1>7, EmptyRows DEF TakeLoad, FailLoad, EndLoad, Replaced, RowTypes
        <2>3. CopyTypes' BY <1>0, <1>7 DEF TakeLoad, FailLoad, CopyTypes
        <2> QED BY <1>0, <2>1, <2>2, <2>3 DEF Typed
    <1>8. ASSUME NEW q \in puts, StoreAnswer(q) PROVE Typed'
        <2>1. TallyTypes' BY <1>0, <1>8 DEF StoreAnswer, TallyTypes
        <2>2. RowTypes' BY <1>0, <1>8 DEF StoreAnswer, RowTypes
        <2>3. CopyTypes' BY <1>0, <1>8 DEF StoreAnswer, Stored, CopyTypes
        <2> QED BY <1>0, <2>1, <2>2, <2>3 DEF Typed
    <1>9. CASE LeavePage
        <2>1. TallyTypes' BY <1>0, <1>9 DEF LeavePage, Turn, TallyTypes
        <2>2. RowTypes' BY <1>0, <1>9, EmptyRows DEF LeavePage, RowTypes
        <2>3. CopyTypes' BY <1>0, <1>9 DEF LeavePage, CopyTypes
        <2> QED BY <1>0, <2>1, <2>2, <2>3 DEF Typed
    <1>10. CASE Disconnect \/ Reconnected
        <2>1. TallyTypes'
            <3>1. UNCHANGED <<made, base, awaiting, queued, abandoned, post, told, turns>>
                BY <1>10 DEF Disconnect, Reconnected
            <3>2. failures' = failures \/ Fault BY <1>10 DEF Disconnect, Reconnected
            <3>3. failures' \in 0..MaxFailures BY <1>0, <3>2 DEF Fault, TallyTypes
            <3> QED BY <1>0, <3>1, <3>3 DEF TallyTypes
        <2>2. RowTypes' BY <1>0, <1>10 DEF Disconnect, Reconnected, RowTypes
        <2>3. CopyTypes' BY <1>0, <1>10 DEF Disconnect, Reconnected, CopyTypes
        <2> QED BY <1>0, <2>1, <2>2, <2>3 DEF Typed
    <1>11. ASSUME NEW w \in Servers, NEW vessel \in BOOLEAN, NEW q \in Rows, Keep(w, vessel, q)
           PROVE  Typed'
        <2>1. TallyTypes' BY <1>0, <1>11 DEF Keep, TallyTypes
        <2>2. RowTypes' BY <1>0, <1>11 DEF Keep, RowTypes
        <2>3. CopyTypes' BY <1>0, <1>11 DEF Keep, CopyTypes
        <2> QED BY <1>0, <2>1, <2>2, <2>3 DEF Typed
    <1>12. ASSUME NEW w \in Servers,
                  DashboardData(w) \/ RefreshCache(w) \/ ClearVessels(w) \/ ClearCache(w)
           PROVE  Typed'
        <2>1. cache[w] \in Rows /\ Query \in Rows /\ <<>> \in Rows
            BY <1>0, QueryRows, EmptyRows DEF RowTypes
        <2> QED BY <1>11, <1>12, <2>1 DEF DashboardData, RefreshCache, ClearVessels, ClearCache
    <1>13. CASE UNCHANGED widgetVars
        BY <1>0, <1>13 DEF Typed, TallyTypes, RowTypes, CopyTypes, widgetVars
    <1> QED BY <1>1, <1>2, <1>3, <1>4, <1>5, <1>6, <1>7, <1>8, <1>9, <1>10, <1>12, <1>13
            DEF WidgetNext

(* Every variable keeps its type, whatever the bounds and the limits.      *)
THEOREM WidgetTypeCorrect == WidgetSpec => []WidgetTypeOK
    <1>1. WidgetSpec => []Typed BY InitTyped, StepTyped, PTL DEF WidgetSpec
    <1> QED BY <1>1, TypedIsTyped, PTL

-----------------------------------------------------------------------------
(* What becomes of a tally.                                                *)

LEMMA InitTallies == WidgetInit => TallyInv
    <1> SUFFICES ASSUME WidgetInit PROVE TallyInv OBVIOUS
    <1>1. \A t \in Tallies : PostOK(t) BY DEF WidgetInit, PostOK, Tallies
    <1> QED BY <1>1, InitTyped DEF TallyInv

LEMMA StepTallies == TallyInv /\ [WidgetNext]_widgetVars => TallyInv'
    <1> SUFFICES ASSUME TallyInv, [WidgetNext]_widgetVars PROVE TallyInv' OBVIOUS
    <1>0. Typed /\ Typed' /\ TallyTypes /\ RowTypes /\ \A t \in Tallies : PostOK(t)
        BY StepTyped DEF TallyInv, Typed
    <1> SUFFICES ASSUME NEW t \in Tallies PROVE PostOK(t)' BY <1>0 DEF TallyInv
    <1> USE DEF pageVars, tallyVars, serverVars
    <1>1. PostOK(t) /\ t \in Nat BY <1>0 DEF Tallies
    <1>2. CASE AddTally
        <2>1. made' = made + 1 /\ made \in Nat /\ made' \in Tallies
            BY <1>0, <1>2 DEF AddTally, TallyTypes, Tallies
        <2>2. UNCHANGED <<table, abandoned>> /\ Recorded' = Recorded
            BY <1>2 DEF AddTally, Recorded
        <2>3. CASE online
            <3>1. /\ post' = [post EXCEPT ![made'] = "sent"] /\ UNCHANGED <<told, queued>>
                  /\ awaiting' = awaiting \cup {made'}
                BY <1>2, <2>3 DEF AddTally
            <3>2. CASE t = made' BY <1>0, <1>1, <2>1, <2>2, <3>1, <3>2 DEF PostOK, TallyTypes
            <3>3. CASE t # made' BY <1>0, <1>1, <2>1, <2>2, <3>1, <3>3 DEF PostOK, TallyTypes
            <3> QED BY <3>2, <3>3
        <2>4. CASE ~online
            <3>1. /\ told' = [told EXCEPT ![made'] = "offline"] /\ UNCHANGED <<post, awaiting>>
                  /\ queued' = queued \cup {made'}
                BY <1>2, <2>4 DEF AddTally
            <3>2. CASE t = made' BY <1>0, <1>1, <2>1, <2>2, <3>1, <3>2 DEF PostOK, TallyTypes
            <3>3. CASE t # made' BY <1>0, <1>1, <2>1, <2>2, <3>1, <3>3 DEF PostOK, TallyTypes
            <3> QED BY <3>2, <3>3
        <2> QED BY <2>3, <2>4
    <1>3. ASSUME NEW u \in Tallies, RecordTally(u) PROVE PostOK(t)'
        <2>1. /\ UNCHANGED <<made, told, queued, awaiting, abandoned>>
              /\ post[u] = "sent"
              /\ post' = [post EXCEPT ![u] = "ok"] \/ post' = [post EXCEPT ![u] = "error"]
            BY <1>3 DEF RecordTally
        <2>2. /\ Recorded \subseteq Recorded'
              /\ post' = [post EXCEPT ![u] = "ok"] => u \in Recorded'
            <3>1. CASE table' = Append(table, u)
                BY <1>0, <3>1, AppendRecords DEF RowTypes
            <3>2. CASE table' = table /\ post' = [post EXCEPT ![u] = "error"]
                <4>1. post'[u] = "error" BY <1>0, <3>2 DEF TallyTypes
                <4>2. post' # [post EXCEPT ![u] = "ok"] BY <1>0, <4>1 DEF TallyTypes
                <4> QED BY <3>2, <4>2 DEF Recorded
            <3> QED BY <1>3, <3>1, <3>2 DEF RecordTally
        <2>3. CASE t = u BY <1>0, <1>1, <2>1, <2>2, <2>3 DEF PostOK, TallyTypes
        <2>4. CASE t # u BY <1>0, <1>1, <2>1, <2>2, <2>4 DEF PostOK, TallyTypes
        <2> QED BY <2>3, <2>4
    <1>4. ASSUME NEW u \in Tallies, TakeAnswer(u) \/ LoseAnswer(u) PROVE PostOK(t)'
        <2>1. /\ UNCHANGED <<made, post, table, abandoned>> /\ Recorded' = Recorded
              /\ u \in awaiting /\ awaiting' = awaiting \ {u}
            BY <1>4 DEF TakeAnswer, LoseAnswer, Recorded
        <2>2. u \in 1..made BY <1>0, <2>1 DEF TallyTypes
        <2>3. CASE Queue(u)
            BY <1>0, <1>1, <2>1, <2>2, <2>3 DEF Queue, PostOK, TallyTypes
        <2>4. CASE /\ post[u] = "ok" /\ told' = [told EXCEPT ![u] = "added"]
                   /\ UNCHANGED queued
            <3>1. u \in Recorded BY <1>0, <2>4 DEF PostOK
            <3> QED BY <1>0, <1>1, <2>1, <2>2, <2>4, <3>1 DEF PostOK, TallyTypes
        <2> QED BY <1>4, <2>3, <2>4 DEF TakeAnswer, LoseAnswer, Accepted
    <1>5. CASE LeavePage
        <2>1. /\ UNCHANGED <<made, post, told, queued, table>> /\ Recorded' = Recorded
              /\ abandoned' = abandoned \cup awaiting
            BY <1>5 DEF LeavePage, Recorded
        <2> QED BY <1>1, <2>1 DEF PostOK
    <1>6. CASE UNCHANGED <<made, post, told, queued, awaiting, abandoned, table>>
        BY <1>1, <1>6 DEF PostOK, Recorded
    <1>7. CASE \/ AutoRefresh \/ ClickRefresh \/ Disconnect \/ Reconnected
               \/ \E s \in Slots : LoseLoad(s) \/ TakeLoad(s) \/ FailLoad(s)
               \/ \E s \in Slots, w \in Servers : AnswerLoad(w, s)
               \/ \E q \in puts : StoreAnswer(q)
        BY <1>6, <1>7 DEF AutoRefresh, ClickRefresh, Disconnect, Reconnected, LoseLoad,
                          TakeLoad, FailLoad, AnswerLoad, StoreAnswer
    <1>8. CASE \/ \E w \in Servers : DashboardData(w) \/ RefreshCache(w)
               \/ \E w \in Servers : ClearVessels(w) \/ ClearCache(w)
        BY <1>6, <1>8 DEF DashboardData, RefreshCache, ClearVessels, ClearCache, Keep
    <1>9. CASE UNCHANGED widgetVars BY <1>6, <1>9 DEF widgetVars
    <1> QED BY <1>2, <1>3, <1>4, <1>5, <1>7, <1>8, <1>9 DEF WidgetNext

(* The invariant the two theorems below rest on.                           *)
LEMMA TallyInvariant == WidgetSpec => []TallyInv
    BY InitTallies, StepTallies, PTL DEF WidgetSpec

(* The widget's messages are true, whatever answers are lost or late.      *)
THEOREM MessagesAreTrue == WidgetSpec => []ToldIsTrue
    <1>1. TallyInv => ToldIsTrue
        BY DEF TallyInv, Typed, TallyTypes, PostOK, ToldIsTrue, Tallies
    <1> QED BY <1>1, TallyInvariant, PTL

(* No tally is lost but with a page left while it awaited the POST.        *)
THEOREM NoTallyIsLost == WidgetSpec => []NoSilentLoss
    <1>1. TallyInv => NoSilentLoss
        BY DEF TallyInv, Typed, TallyTypes, PostOK, NoSilentLoss, Tallies
    <1> QED BY <1>1, TallyInvariant, PTL

-----------------------------------------------------------------------------
(* What the widget shows.                                                  *)

(* q is the newest of the first n rows of tab; every copy of an answer is. *)
PastRows(q, tab) ==
    \E n \in 0..Len(tab) : /\ Len(q) = AtMost(n, ServerLimit)
                           /\ \A i \in 1..Len(q) : q[i] = tab[n + 1 - i]

(* q shows the last e of m tallies entered and, below, the newest of the   *)
(* first n rows of tab, cut off no sooner than the history's limit.        *)
Shows(q, e, m, n, tab) ==
    /\ Len(q) <= e + AtMost(n, ServerLimit)
    /\ Len(q) >= AtMost(e + AtMost(n, ServerLimit), maxHistoryItems)
    /\ \A i \in 1..Len(q) : q[i] = IF i <= e THEN m + 1 - i ELSE tab[n + 1 - (i - e)]

PastShown(q, e, m, tab) == \E n \in 0..Len(tab) : Shows(q, e, m, n, tab)

CopiesArePast ==
    /\ \A w \in Servers : PastRows(cache[w], table)
    /\ \A s \in Slots : PastRows(rows[s], table)
    /\ \A q \in runtimeCache \cup puts : PastRows(q, table)

PastInv == Typed /\ CopiesArePast /\ PastShown(shown, made - base, made, table)

LEMMA QueryIsPast ==
    ASSUME Typed
    PROVE  PastRows(Query, table)
    <1>1. Len(table) \in 0..Len(table) BY DEF Typed, RowTypes, Rows
    <1>2. /\ Len(Query) = AtMost(Len(table), ServerLimit)
          /\ \A i \in 1..AtMost(Len(table), ServerLimit) : Query[i] = table[Len(table) + 1 - i]
        BY <1>1, NewestRows DEF Query
    <1> QED BY <1>1, <1>2 DEF PastRows

LEMMA NothingIsPast ==
    ASSUME NEW tab \in Rows
    PROVE  PastRows(<<>>, tab)
    <1>1. 0 \in 0..Len(tab) BY DEF Rows
    <1>2. AtMost(0, ServerLimit) = 0 BY DEF AtMost
    <1>3. Len(<<>>) = 0 OBVIOUS
    <1> QED BY <1>1, <1>2, <1>3 DEF PastRows

(* Rows are only appended, so the past stays.                              *)
LEMMA GrownTable ==
    ASSUME NEW tab \in Rows, NEW t \in Tallies, NEW n \in 0..Len(tab)
    PROVE  /\ n \in 0..Len(Append(tab, t))
           /\ \A j \in 1..n : Append(tab, t)[j] = tab[j]
    BY AppendProperties DEF Rows

LEMMA PastStays ==
    ASSUME NEW tab \in Rows, NEW t \in Tallies, NEW q \in Rows, PastRows(q, tab)
    PROVE  PastRows(q, Append(tab, t))
    <1>1. PICK n \in 0..Len(tab) : /\ Len(q) = AtMost(n, ServerLimit)
                                   /\ \A i \in 1..Len(q) : q[i] = tab[n + 1 - i]
        BY DEF PastRows
    <1>2. Len(q) \in 0..n /\ n \in Nat
        <2>1. n \in Nat BY DEF Rows
        <2> QED BY <1>1, <2>1 DEF AtMost
    <1>3. \A i \in 1..Len(q) : n + 1 - i \in 1..n BY <1>2
    <1>4. \A i \in 1..Len(q) : q[i] = Append(tab, t)[n + 1 - i] BY <1>1, <1>3, GrownTable
    <1> QED BY <1>1, <1>4, GrownTable DEF PastRows

LEMMA ShownStays ==
    ASSUME NEW tab \in Rows, NEW t \in Tallies, NEW q \in Rows, NEW e \in Nat, NEW m \in Nat,
           PastShown(q, e, m, tab)
    PROVE  PastShown(q, e, m, Append(tab, t))
    <1>1. PICK n \in 0..Len(tab) : Shows(q, e, m, n, tab) BY DEF PastShown
    <1>2. Len(q) \in Nat /\ n \in Nat BY DEF Rows
    <1>3. Len(q) <= e + AtMost(n, ServerLimit) /\ AtMost(n, ServerLimit) \in 0..n
        BY <1>1, <1>2 DEF Shows, AtMost
    <1>4. \A i \in 1..Len(q) : i > e => n + 1 - (i - e) \in 1..n BY <1>2, <1>3
    <1>5. \A i \in 1..Len(q) :
              q[i] = IF i <= e THEN m + 1 - i ELSE Append(tab, t)[n + 1 - (i - e)]
        BY <1>1, <1>2, <1>4, GrownTable DEF Shows
    <1>6. Shows(q, e, m, n, Append(tab, t)) BY <1>1, <1>5 DEF Shows
    <1> QED BY <1>6, GrownTable DEF PastShown

LEMMA PastIsShown ==
    ASSUME NEW tab \in Rows, NEW q \in Rows, NEW m \in Nat, PastRows(q, tab)
    PROVE  PastShown(q, 0, m, tab)
    <1>1. PICK n \in 0..Len(tab) : /\ Len(q) = AtMost(n, ServerLimit)
                                   /\ \A i \in 1..Len(q) : q[i] = tab[n + 1 - i]
        BY DEF PastRows
    <1>2. Len(q) \in Nat BY DEF Rows
    <1>3. Len(q) <= 0 + AtMost(n, ServerLimit) BY <1>1, <1>2
    <1>4. Len(q) >= AtMost(0 + AtMost(n, ServerLimit), maxHistoryItems)
        BY <1>1, <1>2 DEF AtMost
    <1>5. \A i \in 1..Len(q) : q[i] = IF i <= 0 THEN m + 1 - i ELSE tab[n + 1 - (i - 0)]
        BY <1>1, <1>2
    <1>6. Shows(q, 0, m, n, tab) BY <1>3, <1>4, <1>5 DEF Shows
    <1> QED BY <1>6 DEF PastShown

LEMMA EnteredIsShown ==
    ASSUME PastInv, AddTally
    PROVE  PastShown(shown', made' - base', made', table')
    <1>1. PICK n \in 0..Len(table) : Shows(shown, made - base, made, n, table)
        BY DEF PastInv, PastShown
    <1> DEFINE e == made - base
               k == AtMost(n, ServerLimit)
    <1>2. /\ made' = made + 1 /\ base' = base /\ table' = table
          /\ made \in Nat /\ e \in Nat /\ made' - base' = e + 1
        BY DEF AddTally, PastInv, Typed, TallyTypes, pageVars, serverVars
    <1>3. Len(shown) \in Nat /\ n \in Nat /\ k \in Nat
        BY DEF PastInv, Typed, RowTypes, Rows, AtMost
    <1>4. /\ Len(shown') = AtMost(Len(shown) + 1, maxHistoryItems)
          /\ \A i \in 1..Len(shown') : shown'[i] = IF i = 1 THEN made' ELSE shown[i - 1]
        BY ShownOnTop DEF PastInv
    <1>5. /\ Len(shown) <= e + k /\ Len(shown) >= AtMost(e + k, maxHistoryItems)
          /\ \A i \in 1..Len(shown) :
                shown[i] = IF i <= e THEN made + 1 - i ELSE table[n + 1 - (i - e)]
        BY <1>1 DEF Shows
    <1> HIDE DEF e, k
    <1>6. /\ Len(shown') <= (e + 1) + k /\ Len(shown') \in 1..(Len(shown) + 1)
          /\ Len(shown') >= AtMost((e + 1) + k, maxHistoryItems)
        BY <1>2, <1>3, <1>4, <1>5 DEF AtMost
    <1>7. ASSUME NEW i \in 1..Len(shown')
          PROVE  shown'[i] = IF i <= e + 1 THEN made' + 1 - i ELSE table'[n + 1 - (i - (e + 1))]
        <2>1. CASE i = 1 BY <1>2, <1>4, <2>1
        <2>2. CASE i # 1
            <3>1. i - 1 \in 1..Len(shown) BY <1>3, <1>6, <2>2
            <3>2. shown'[i] = shown[i - 1] BY <1>4, <2>2
            <3>3. shown[i - 1] = IF i - 1 <= e THEN made + 1 - (i - 1)
                                 ELSE table[n + 1 - ((i - 1) - e)]
                BY <1>5, <3>1
            <3>4. /\ i - 1 <= e <=> i <= e + 1
                  /\ made + 1 - (i - 1) = made' + 1 - i
                  /\ n + 1 - ((i - 1) - e) = n + 1 - (i - (e + 1))
                BY <1>2, <1>3, <1>6
            <3> QED BY <1>2, <3>2, <3>3, <3>4
        <2> QED BY <2>1, <2>2
    <1>8. Shows(shown', made' - base', made', n, table') BY <1>2, <1>6, <1>7 DEF Shows, k
    <1> QED BY <1>2, <1>8 DEF PastShown

LEMMA InitPast == WidgetInit => PastInv
    <1> SUFFICES ASSUME WidgetInit PROVE PastInv OBVIOUS
    <1>1. Typed /\ table = <<>> /\ shown = <<>> /\ made = 0 /\ base = 0
        BY InitTyped DEF WidgetInit
    <1>2. PastRows(<<>>, table) BY <1>1, EmptyRows, NothingIsPast
    <1>3. CopiesArePast BY <1>2 DEF WidgetInit, CopiesArePast
    <1>4. PastShown(shown, made - base, made, table) BY <1>1, <1>2, EmptyRows, PastIsShown
    <1> QED BY <1>1, <1>3, <1>4 DEF PastInv

LEMMA StepPast == PastInv /\ [WidgetNext]_widgetVars => PastInv'
    <1> SUFFICES ASSUME PastInv, [WidgetNext]_widgetVars PROVE PastInv' OBVIOUS
    <1> USE DEF pageVars, workerVars, tallyVars, serverVars, loads
    <1>0. /\ Typed /\ Typed' /\ RowTypes /\ CopyTypes /\ RowTypes'
          /\ table \in Rows /\ shown \in Rows /\ made \in Nat /\ made - base \in Nat
        BY StepTyped DEF PastInv, Typed, TallyTypes, RowTypes
    <1>1. /\ PastRows(Query, table) /\ PastRows(<<>>, table)
          /\ CopiesArePast /\ PastShown(shown, made - base, made, table)
        BY <1>0, QueryIsPast, NothingIsPast DEF PastInv
    <1>2. ASSUME UNCHANGED <<table, shown, made, base>>
          PROVE  PastShown(shown', made' - base', made', table')
        BY <1>1, <1>2
    <1>3. CASE AddTally
        <2>1. CopiesArePast' BY <1>1, <1>3 DEF AddTally, CopiesArePast
        <2> QED BY <1>0, <1>3, <2>1, EnteredIsShown DEF PastInv
    <1>4. ASSUME NEW t \in Tallies, RecordTally(t) PROVE PastInv'
        <2>1. UNCHANGED <<cache, rows, runtimeCache, puts, shown, made, base>> BY <1>4 DEF RecordTally
        <2>2. CASE table' = table
            <3>1. CopiesArePast' BY <1>1, <2>1, <2>2 DEF CopiesArePast
            <3> QED BY <1>0, <1>2, <2>1, <2>2, <3>1 DEF PastInv
        <2>3. CASE table' = Append(table, t)
            <3>1. \A w \in Servers : PastRows(cache[w], Append(table, t))
                BY <1>0, <1>1, PastStays DEF CopiesArePast, RowTypes
            <3>2. \A s \in Slots : PastRows(rows[s], Append(table, t))
                BY <1>0, <1>1, PastStays DEF CopiesArePast, RowTypes
            <3>3. \A q \in runtimeCache \cup puts : PastRows(q, Append(table, t))
                BY <1>0, <1>1, PastStays DEF CopiesArePast, CopyTypes
            <3>4. CopiesArePast' BY <2>1, <2>3, <3>1, <3>2, <3>3 DEF CopiesArePast
            <3>5. PastShown(shown, made - base, made, Append(table, t))
                BY <1>0, <1>1, ShownStays
            <3> QED BY <1>0, <2>1, <2>3, <3>4, <3>5 DEF PastInv
        <2> QED BY <1>4, <2>2, <2>3 DEF RecordTally
    <1>5. CASE \/ AutoRefresh \/ ClickRefresh \/ Disconnect \/ Reconnected
               \/ \E t \in Tallies : TakeAnswer(t) \/ LoseAnswer(t)
        <2>1. UNCHANGED <<table, cache, rows, runtimeCache, puts, shown, made, base>>
            BY <1>5 DEF AutoRefresh, ClickRefresh, StartLoad, Disconnect, Reconnected,
                        TakeAnswer, LoseAnswer
        <2>2. CopiesArePast' BY <1>1, <2>1 DEF CopiesArePast
        <2> QED BY <1>0, <1>2, <2>1, <2>2 DEF PastInv
    <1>6. ASSUME NEW s \in Slots, NEW w \in Servers, AnswerLoad(w, s) PROVE PastInv'
        <2>1. UNCHANGED <<table, runtimeCache, shown, made, base>> BY <1>6 DEF AnswerLoad
        <2>2. /\ \/ Answer(s, Query) /\ cache' = [cache EXCEPT ![w] = Query]
                 \/ Answer(s, cache[w]) /\ UNCHANGED cache
                 \/ Fail(s) /\ UNCHANGED cache
              /\ puts' = puts \cup {q \in {rows'[s]} : load'[s] = "answered"}
            BY <1>6 DEF AnswerLoad
        <2>3. \A v \in Servers : PastRows(cache'[v], table)
            BY <1>0, <1>1, <2>2 DEF CopiesArePast, RowTypes
        <2>4. \A r \in Slots : PastRows(rows'[r], table)
            BY <1>0, <1>1, <2>2 DEF Answer, Fail, CopiesArePast, RowTypes
        <2>5. CopiesArePast' BY <1>1, <2>1, <2>2, <2>3, <2>4 DEF CopiesArePast
        <2> QED BY <1>0, <1>2, <2>1, <2>5 DEF PastInv
    <1>7. ASSUME NEW s \in Slots, LoseLoad(s) PROVE PastInv'
        <2>1. UNCHANGED <<table, runtimeCache, puts, shown, made, base>> BY <1>7 DEF LoseLoad
        <2>2. /\ Fail(s) \/ \E q \in runtimeCache : Answer(s, q)
              /\ cache' = cache \/ \E w \in Servers : cache' = [cache EXCEPT ![w] = Query]
            BY <1>7 DEF LoseLoad
        <2>3. \A v \in Servers : PastRows(cache'[v], table)
            BY <1>0, <1>1, <2>2 DEF CopiesArePast, RowTypes
        <2>4. \A r \in Slots : PastRows(rows'[r], table)
            BY <1>0, <1>1, <2>2 DEF Answer, Fail, CopiesArePast, RowTypes
        <2>5. CopiesArePast' BY <1>1, <2>1, <2>3, <2>4 DEF CopiesArePast
        <2> QED BY <1>0, <1>2, <2>1, <2>5 DEF PastInv
    <1>8. ASSUME NEW s \in Slots, TakeLoad(s) \/ FailLoad(s) PROVE PastInv'
        <2>1. UNCHANGED <<table, cache, runtimeCache, puts, made>> /\ EndLoad(s)
            BY <1>8 DEF TakeLoad, FailLoad
        <2>2. \A r \in Slots : PastRows(rows'[r], table)
            BY <1>0, <1>1, <2>1 DEF EndLoad, CopiesArePast, RowTypes
        <2>3. CopiesArePast' BY <1>1, <2>1, <2>2 DEF CopiesArePast
        <2>4. CASE FailLoad(s)
            <3>1. UNCHANGED <<table, shown, made, base>> BY <2>4 DEF FailLoad
            <3> QED BY <1>0, <1>2, <2>3, <3>1 DEF PastInv
        <2>5. CASE TakeLoad(s)
            <3>1. shown' = rows[s] /\ made' = made /\ base' = made /\ table' = table
                BY <2>5 DEF TakeLoad, Replaced
            <3>2. rows[s] \in Rows /\ PastRows(rows[s], table)
                BY <1>0, <1>1 DEF CopiesArePast, RowTypes
            <3>3. made' - base' = 0 BY <1>0, <3>1
            <3>4. PastShown(rows[s], 0, made, table) BY <1>0, <3>2, PastIsShown
            <3> QED BY <1>0, <2>3, <3>1, <3>3, <3>4 DEF PastInv
        <2> QED BY <1>8, <2>4, <2>5
    <1>9. ASSUME NEW q \in puts, StoreAnswer(q) PROVE PastInv'
        <2>1. /\ UNCHANGED <<table, cache, rows, shown, made, base>>
              /\ runtimeCache' = {q} /\ puts' = puts \ {q}
            BY <1>9 DEF StoreAnswer, Stored
        <2>2. CopiesArePast' BY <1>1, <2>1 DEF CopiesArePast
        <2> QED BY <1>0, <1>2, <2>1, <2>2 DEF PastInv
    <1>10. CASE LeavePage
        <2>1. /\ UNCHANGED <<table, cache, made>> /\ shown' = <<>> /\ base' = made
              /\ rows' = [s \in Slots |-> <<>>]
              /\ runtimeCache' \cup puts' \subseteq runtimeCache \cup puts
            BY <1>10 DEF LeavePage
        <2>2. CopiesArePast' BY <1>1, <2>1 DEF CopiesArePast
        <2>3. made' - base' = 0 BY <1>0, <2>1
        <2>4. PastShown(<<>>, 0, made, table) BY <1>0, <1>1, EmptyRows, PastIsShown
        <2> QED BY <1>0, <2>1, <2>2, <2>3, <2>4 DEF PastInv
    <1>11. ASSUME NEW w \in Servers,
                  DashboardData(w) \/ RefreshCache(w) \/ ClearVessels(w) \/ ClearCache(w)
           PROVE  PastInv'
        <2>1. /\ UNCHANGED <<table, rows, runtimeCache, puts, shown, made, base>>
              /\ \E q \in {cache[w], Query, <<>>} : cache' = [cache EXCEPT ![w] = q]
            BY <1>11 DEF DashboardData, RefreshCache, ClearVessels, ClearCache, Keep
        <2>2. \A v \in Servers : PastRows(cache'[v], table)
            BY <1>0, <1>1, <2>1 DEF CopiesArePast, RowTypes
        <2>3. CopiesArePast' BY <1>1, <2>1, <2>2 DEF CopiesArePast
        <2> QED BY <1>0, <1>2, <2>1, <2>3 DEF PastInv
    <1>12. CASE UNCHANGED widgetVars
        BY <1>0, <1>1, <1>2, <1>12 DEF PastInv, CopiesArePast, widgetVars
    <1> QED BY <1>3, <1>4, <1>5, <1>6, <1>7, <1>8, <1>9, <1>10, <1>11, <1>12 DEF WidgetNext

LEMMA PastIsEnough == PastInv => ShowsAPast
    <1> SUFFICES ASSUME PastInv PROVE ShowsAPast OBVIOUS
    <1> DEFINE e == made - base
               entered == [i \in 1..e |-> made + 1 - i]
    <1>1. PICK n \in 0..Len(table) : Shows(shown, e, made, n, table) BY DEF PastInv, PastShown
    <1> DEFINE k == AtMost(n, ServerLimit)
               all == entered \o Newest(n)
    <1>2. /\ Typed /\ shown \in Seq(Tallies) /\ Len(shown) \in Nat /\ n \in Nat
          /\ made \in 0..MaxTallies /\ base \in 0..made /\ e \in Nat
        BY DEF PastInv, Typed, TallyTypes, RowTypes, Rows
    <1>3. entered \in Seq(Tallies) /\ Len(entered) = e /\ \A i \in 1..e : entered[i] = made + 1 - i
        <2>1. \A i \in 1..e : made + 1 - i \in Tallies BY <1>2 DEF Tallies
        <2>2. e \in Nat BY <1>2
        <2> HIDE DEF e
        <2> QED BY <2>1, <2>2, IsASeq
    <1>4. /\ k \in Nat /\ Newest(n) \in Seq(Tallies) /\ Len(Newest(n)) = k
          /\ \A i \in 1..k : Newest(n)[i] = table[n + 1 - i]
        BY <1>2, NewestRows DEF Rows
    <1> HIDE DEF e, entered, k
    <1>5. /\ all \in Seq(Tallies) /\ Len(all) = e + k
          /\ \A i \in 1..(e + k) : all[i] = IF i <= e THEN made + 1 - i ELSE table[n + 1 - (i - e)]
        <2>1. /\ all \in Seq(Tallies) /\ Len(all) = e + k
              /\ \A i \in 1..(e + k) : all[i] = IF i <= e THEN entered[i] ELSE Newest(n)[i - e]
            BY <1>3, <1>4, ConcatProperties
        <2>2. \A i \in 1..(e + k) : i > e => Newest(n)[i - e] = table[n + 1 - (i - e)]
            BY <1>2, <1>4
        <2>3. \A i \in 1..(e + k) : i <= e => entered[i] = made + 1 - i BY <1>2, <1>3, <1>4
        <2>4. ASSUME NEW i \in 1..(e + k)
              PROVE  all[i] = IF i <= e THEN made + 1 - i ELSE table[n + 1 - (i - e)]
            <3>1. CASE i <= e BY <2>1, <2>3, <3>1
            <3>2. CASE ~(i <= e)
                <4>1. i > e BY <1>2, <1>4, <3>2
                <4> QED BY <2>1, <2>2, <3>2, <4>1
            <3> QED BY <3>1, <3>2
        <2> QED BY <2>1, <2>4
    <1>6. /\ Len(shown) \in AtMost(Len(all), maxHistoryItems)..Len(all)
          /\ \A i \in 1..Len(shown) : shown[i] = all[i]
        <2>1. /\ Len(shown) <= e + k /\ Len(shown) >= AtMost(e + k, maxHistoryItems)
              /\ \A i \in 1..Len(shown) :
                    shown[i] = IF i <= e THEN made + 1 - i ELSE table[n + 1 - (i - e)]
            BY <1>1 DEF Shows, k
        <2>2. AtMost(e + k, maxHistoryItems) \in Nat BY <1>2, <1>4 DEF AtMost
        <2> QED BY <1>2, <1>4, <1>5, <2>1, <2>2
    <1> HIDE DEF all
    <1>7. shown = SubSeq(all, 1, Len(shown))
        <2>1. Len(shown) \in 0..Len(all) BY <1>2, <1>4, <1>5, <1>6
        <2>2. /\ SubSeq(all, 1, Len(shown)) \in Seq(Tallies)
              /\ Len(SubSeq(all, 1, Len(shown))) = Len(shown)
              /\ \A i \in 1..Len(shown) : SubSeq(all, 1, Len(shown))[i] = all[i]
            BY <1>2, <1>5, <2>1, SubSeqProperties
        <2> QED BY <1>2, <1>6, <2>2, SeqEqual
    <1> QED BY <1>6, <1>7 DEF ShowsAPast, all, entered, e

(* Whatever stands in for the database and in whatever order answers come, *)
(* what the widget shows is a past of the table below what was entered.    *)
THEOREM DisplayIsAPast == WidgetSpec => []ShowsAPast
    <1>1. WidgetSpec => []PastInv BY InitPast, StepPast, PTL DEF WidgetSpec
    <1> QED BY <1>1, PastIsEnough, PTL

-----------------------------------------------------------------------------
(* The flag that holds the timer back.                                     *)

LoadInv == Typed /\ LoadingIsUnderWay

LEMMA StepLoading == LoadInv /\ [WidgetNext]_widgetVars => LoadInv'
    <1> SUFFICES ASSUME LoadInv, [WidgetNext]_widgetVars PROVE LoadInv' OBVIOUS
    <1> USE DEF pageVars, loads
    <1>0. /\ Typed' /\ load \in [Slots -> {"idle", "asked", "answered", "failed"}]
          /\ LoadingIsUnderWay
        BY StepTyped DEF LoadInv, Typed, RowTypes
    <1> SUFFICES LoadingIsUnderWay' BY <1>0 DEF LoadInv
    <1>1. CASE AutoRefresh \/ ClickRefresh
        <2>1. \E s \in Slots : load' = [load EXCEPT ![s] = "asked"]
            BY <1>1 DEF AutoRefresh, ClickRefresh, StartLoad
        <2> QED BY <1>0, <2>1 DEF LoadingIsUnderWay
    <1>2. ASSUME NEW s \in Slots,
                 LoseLoad(s) \/ \E w \in Servers : AnswerLoad(w, s)
          PROVE  LoadingIsUnderWay'
        <2>1. /\ load' \in {[load EXCEPT ![s] = "answered"], [load EXCEPT ![s] = "failed"]}
              /\ isLoading' = isLoading
            BY <1>2 DEF LoseLoad, AnswerLoad, Answer, Fail
        <2>2. load'[s] # "idle" BY <1>0, <2>1
        <2> QED BY <2>2 DEF LoadingIsUnderWay
    <1>3. ASSUME NEW s \in Slots, TakeLoad(s) \/ FailLoad(s) PROVE LoadingIsUnderWay'
        BY <1>3 DEF TakeLoad, FailLoad, AfterFailure, LoadingIsUnderWay
    <1>4. CASE LeavePage
        <2>1. 1 \in Slots BY DEF Slots
        <2>2. load'[1] = "asked" BY <1>4, <2>1 DEF LeavePage
        <2> QED BY <2>1, <2>2 DEF LoadingIsUnderWay
    <1>5. CASE \/ AddTally \/ Disconnect \/ Reconnected
               \/ \E t \in Tallies : RecordTally(t) \/ TakeAnswer(t) \/ LoseAnswer(t)
               \/ \E q \in puts : StoreAnswer(q)
               \/ \E w \in Servers : DashboardData(w) \/ RefreshCache(w)
               \/ \E w \in Servers : ClearVessels(w) \/ ClearCache(w)
               \/ UNCHANGED widgetVars
        <2>1. UNCHANGED <<load, isLoading>>
            BY <1>5 DEF AddTally, Disconnect, Reconnected, RecordTally, TakeAnswer, LoseAnswer,
                        StoreAnswer, DashboardData, RefreshCache, ClearVessels, ClearCache, Keep,
                        widgetVars
        <2> QED BY <1>0, <2>1 DEF LoadingIsUnderWay
    <1> QED BY <1>1, <1>2, <1>3, <1>4, <1>5 DEF WidgetNext

(* No way out of loadTallies leaves the timer waiting for nothing.         *)
THEOREM WidgetNeverStuckLoading == WidgetSpec => []LoadingIsUnderWay
    <1>1. WidgetInit => LoadInv
        <2> SUFFICES ASSUME WidgetInit PROVE LoadInv OBVIOUS
        <2>1. 1 \in Slots /\ load[1] = "asked" BY DEF WidgetInit, Slots
        <2> QED BY <2>1, InitTyped DEF LoadInv, LoadingIsUnderWay
    <1>2. LoadInv => LoadingIsUnderWay BY DEF LoadInv
    <1> QED BY <1>1, <1>2, StepLoading, PTL DEF WidgetSpec

=============================================================================
