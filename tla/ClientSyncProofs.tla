-------------------------- MODULE ClientSyncProofs --------------------------
(***************************************************************************)
(* Proofs about ClientSync, for every number of tabs, ids, records,        *)
(* retries and batch size, and whether or not localStorage may refuse a    *)
(* write.                                                                  *)
(*                                                                         *)
(* The inductive invariant IInv joins the properties of interest to        *)
(* RunIsSound, which says what a batch may assume about the objects it     *)
(* picked before its awaits: without it nothing would tell that the        *)
(* object an answer marks 'synced' is one the server has received.         *)
(***************************************************************************)
EXTENDS ClientSync, TLAPS

(* What holds of one object wherever a copy of it is kept.                 *)
ObjectOK(x, o, rcv) ==
    /\ x \in Records
    /\ x.status \in {"pending", "syncing"} => x.retryCount < MaxRetries
    /\ x.status = "error" => x.retryCount = MaxRetries
    /\ x.status = "synced" => o \in rcv

(* What holds of the objects of a tab.                                     *)
ObjectsOK(r, rcv) == r \in [Objs -> Records] /\ \A o \in Objs : ObjectOK(r[o], o, rcv)

(* What holds of the sync a tab runs: it awaits c and has yet to send S.   *)
RunOK(r, c, S) ==
    /\ c # NoObj => r[c].status = "syncing"
    /\ \A o \in S : r[o].status = "pending"
    /\ c = NoObj => S = {}
    /\ c \notin S

Unique(q, s) == \A o, p \in q : s[o] = s[p] => o = p

IInv ==
    /\ TypeOK
    /\ \A t \in Tabs : ObjectsOK(rec[t], received)
    /\ \A t \in Tabs : RunOK(rec[t], cur[t], todo[t])
    /\ \A t \in Tabs : t \in answered => cur[t] # NoObj /\ cur[t] \in received
    /\ \A t \in Tabs : Unique(queue[t], ids)
    /\ \A o \in DOMAIN disk : ObjectOK(disk[o], o, received)
    /\ Unique(DOMAIN disk, ids)

-----------------------------------------------------------------------------
(* Basic facts.                                                            *)

LEMMA IdsFacts ==
    ASSUME TypeOK
    PROVE  /\ Len(ids) \in Nat /\ Len(ids) <= MaxRecords
           /\ DOMAIN ids = 1..Len(ids)
           /\ DOMAIN ids \subseteq Objs
           /\ Objs \subseteq Nat /\ NoObj \notin Objs
  BY MaxRecordsAssumption DEF TypeOK, Objs, NoObj

LEMMA FreshOK == \A o, rcv : ObjectOK(Fresh, o, rcv)
  BY MaxRetriesAssumption DEF ObjectOK, Fresh, Records, Statuses

LEMMA SyncingOK ==
    ASSUME NEW x \in Records, NEW o, NEW rcv, ObjectOK(x, o, rcv), x.status = "pending"
    PROVE  ObjectOK([x EXCEPT !.status = "syncing"], o, rcv)
  BY DEF ObjectOK, Records, Statuses

LEMMA SyncedOK ==
    ASSUME NEW x \in Records, NEW rcv, NEW o \in rcv
    PROVE  ObjectOK([x EXCEPT !.status = "synced"], o, rcv)
  BY DEF ObjectOK, Records, Statuses

LEMMA FailedOK ==
    ASSUME NEW x \in Records, NEW o, NEW rcv, ObjectOK(x, o, rcv), x.status = "syncing"
    PROVE  ObjectOK(Failed(x), o, rcv)
  BY MaxRetriesAssumption DEF ObjectOK, Failed, Records, Statuses

LEMMA MoreReceived ==
    ASSUME NEW x, NEW o, NEW rcv, NEW more, rcv \subseteq more, ObjectOK(x, o, rcv)
    PROVE  ObjectOK(x, o, more)
  BY DEF ObjectOK

-----------------------------------------------------------------------------
(* The two helpers every handler ends in.  D is the set of objects made.   *)

(* What is true before a tab, whose objects are now r, goes on.            *)
Ready(t, r, w, D) ==
    /\ rec \in [Tabs -> [Objs -> Records]]
    /\ cur \in [Tabs -> D \cup {NoObj}]
    /\ todo \in [Tabs -> SUBSET D]
    /\ w \subseteq Tabs \X D
    /\ D \subseteq Objs
    /\ ObjectsOK(r, received)
    /\ \A u \in Tabs \ {t} : ObjectsOK(rec[u], received) /\ RunOK(rec[u], cur[u], todo[u])

(* What is true after.                                                     *)
Done(t, D) ==
    /\ rec' \in [Tabs -> [Objs -> Records]]
    /\ cur' \in [Tabs -> D \cup {NoObj}]
    /\ todo' \in [Tabs -> SUBSET D]
    /\ wire' \subseteq Tabs \X D
    /\ \A u \in Tabs : ObjectsOK(rec'[u], received)
    /\ \A u \in Tabs : RunOK(rec'[u], cur'[u], todo'[u])
    /\ \A u \in Tabs \ {t} : cur'[u] = cur[u]

LEMMA StartFetchDone ==
    ASSUME NEW t \in Tabs, NEW r, NEW w, NEW D, NEW S \in SUBSET D,
           Ready(t, r, w, D), \A o \in S : r[o].status = "pending",
           StartFetch(t, r, S, w)
    PROVE  Done(t, D)
<1>1. PICK o \in S :
        /\ rec' = [rec EXCEPT ![t] = [r EXCEPT ![o].status = "syncing"]]
        /\ cur' = [cur EXCEPT ![t] = o]
        /\ todo' = [todo EXCEPT ![t] = S \ {o}]
        /\ wire' = w \cup {<<t, o>>}
  BY DEF StartFetch
<1>2. o \in D /\ o \in Objs /\ o # NoObj
  BY DEF Ready, Objs, NoObj
<1> DEFINE s == [r EXCEPT ![o].status = "syncing"]
<1>3. r \in [Objs -> Records] /\ s \in [Objs -> Records]
  BY <1>2, SyncingOK DEF Ready, ObjectsOK, Records, Statuses
<1>4. ObjectsOK(s, received)
  <2>1. ObjectOK([r[o] EXCEPT !.status = "syncing"], o, received)
    BY <1>2, <1>3, SyncingOK DEF Ready, ObjectsOK
  <2>2. s[o] = [r[o] EXCEPT !.status = "syncing"] /\ \A p \in Objs \ {o} : s[p] = r[p]
    BY <1>2, <1>3
  <2> QED
    BY <1>3, <2>1, <2>2 DEF Ready, ObjectsOK
<1>5. RunOK(s, o, S \ {o})
  <2>1. s[o].status = "syncing"
    BY <1>2, <1>3 DEF Records
  <2>2. \A p \in S \ {o} : s[p].status = "pending"
    BY <1>2, <1>3 DEF Ready
  <2> QED
    BY <1>2, <2>1, <2>2 DEF RunOK
<1>6. /\ rec' \in [Tabs -> [Objs -> Records]] /\ rec'[t] = s
      /\ cur' \in [Tabs -> D \cup {NoObj}] /\ cur'[t] = o
      /\ todo' \in [Tabs -> SUBSET D] /\ todo'[t] = S \ {o}
      /\ \A u \in Tabs \ {t} : rec'[u] = rec[u] /\ cur'[u] = cur[u] /\ todo'[u] = todo[u]
  BY <1>1, <1>2, <1>3 DEF Ready
<1>7. wire' \subseteq Tabs \X D
  BY <1>1, <1>2 DEF Ready
<1> QED
  BY <1>4, <1>5, <1>6, <1>7 DEF Ready, Done

LEMMA TriggerDone ==
    ASSUME NEW t \in Tabs, NEW q, NEW r, NEW on, NEW D,
           q \subseteq D, Ready(t, r, wire, D), RunOK(r, cur[t], todo[t]),
           triggerSync(t, q, r, on)
    PROVE  Done(t, D) /\ (cur[t] # NoObj => cur'[t] = cur[t])
<1>1. CASE on /\ ~syncInProgress(t) /\ Pending(q, r) # {}
  <2>1. StartFetch(t, r, Pending(q, r), wire)
    BY <1>1 DEF triggerSync
  <2>2. Pending(q, r) \in SUBSET D /\ \A o \in Pending(q, r) : r[o].status = "pending"
    BY DEF Pending
  <2> QED
    BY <1>1, <2>1, <2>2, StartFetchDone DEF syncInProgress
<1>2. CASE ~(on /\ ~syncInProgress(t) /\ Pending(q, r) # {})
  <2>1. rec' = [rec EXCEPT ![t] = r] /\ UNCHANGED <<cur, todo, wire>>
    BY <1>2 DEF triggerSync
  <2> QED
    BY <2>1 DEF Ready, Done, ObjectsOK
<1> QED
  BY <1>1, <1>2

LEMMA ProceedDone ==
    ASSUME NEW t \in Tabs, NEW r, NEW w, NEW D,
           Ready(t, r, w, D), \A o \in todo[t] : r[o].status = "pending",
           Proceed(t, r, w)
    PROVE  Done(t, D)
<1>1. CASE todo[t] = {}
  <2>1. /\ rec' = [rec EXCEPT ![t] = r] /\ cur' = [cur EXCEPT ![t] = NoObj]
        /\ wire' = w /\ todo' = todo
    BY <1>1 DEF Proceed
  <2>2. RunOK(r, NoObj, todo[t])
    BY <1>1 DEF RunOK
  <2> QED
    BY <2>1, <2>2 DEF Ready, Done, ObjectsOK
<1>2. CASE todo[t] # {}
  <2>1. StartFetch(t, r, todo[t], w)
    BY <1>2 DEF Proceed
  <2>2. todo[t] \in SUBSET D
    BY DEF Ready
  <2> QED
    BY <2>1, <2>2, StartFetchDone
<1> QED
  BY <1>1, <1>2

-----------------------------------------------------------------------------
(* localStorage and the batch counter.                                     *)

(* What holds of a saved queue d when D are the objects made and s their   *)
(* ids.                                                                    *)
DiskOK(d, D, s, rcv) ==
    /\ DOMAIN d \subseteq D /\ d \in [DOMAIN d -> Records]
    /\ \A o \in DOMAIN d : ObjectOK(d[o], o, rcv)
    /\ Unique(DOMAIN d, s)

LEMMA SaveDone ==
    ASSUME NEW D \in SUBSET Objs, NEW q \in SUBSET D, NEW r, NEW s,
           ObjectsOK(r, received), Unique(q, s), DiskOK(disk, D, s, received),
           saveSyncQueue(q, r)
    PROVE  DiskOK(disk', D, s, received)
<1>1. CASE disk' = Saved(q, r)
  <2>1. DOMAIN disk' = q /\ \A o \in q : disk'[o] = r[o]
    BY <1>1 DEF Saved
  <2>2. disk' \in [q -> Records]
    BY <1>1 DEF Saved, ObjectsOK
  <2> QED
    BY <2>1, <2>2 DEF DiskOK, ObjectsOK
<1>2. CASE UNCHANGED disk
  BY <1>2 DEF DiskOK
<1> QED
  BY <1>1, <1>2 DEF saveSyncQueue

LEMMA TriggerSent ==
    ASSUME NEW t \in Tabs, NEW q, NEW r, NEW on, sent \in [Tabs -> 0..BatchSize],
           triggerSync(t, q, r, on)
    PROVE  sent' \in [Tabs -> 0..BatchSize]
<1>1. 1 \in 0..BatchSize
  BY BatchSizeAssumption
<1> QED
  BY <1>1 DEF triggerSync

LEMMA ProceedSaved ==
    ASSUME NEW t \in Tabs, NEW r, NEW w, sent \in [Tabs -> 0..BatchSize],
           Proceed(t, r, w)
    PROVE  /\ sent' \in [Tabs -> 0..BatchSize]
           /\ saveSyncQueue(queue[t], r) \/ UNCHANGED disk
<1>1. /\ 0 \in 0..BatchSize /\ 1 \in 0..BatchSize
      /\ sent[t] # BatchSize => sent[t] + 1 \in 0..BatchSize
  BY BatchSizeAssumption
<1> QED
  BY <1>1 DEF Proceed

(* IInv' from the parts a handler of tab t, and only it, may change.       *)
LEMMA Assemble ==
    ASSUME NEW t \in Tabs,
           ids' \in Seq(Ids), Len(ids') <= MaxRecords,
           online' \in [Tabs -> BOOLEAN],
           queue' \in [Tabs -> SUBSET DOMAIN ids'],
           \A u \in Tabs : Unique(queue'[u], ids'),
           Done(t, DOMAIN ids'),
           sent' \in [Tabs -> 0..BatchSize],
           DiskOK(disk', DOMAIN ids', ids', received),
           answered' \subseteq Tabs,
           \A u \in answered' : cur'[u] # NoObj /\ cur'[u] \in received,
           received' = received, received \subseteq DOMAIN ids',
           fails' \in 0..MaxFails, reloads' \in 0..MaxReloads
    PROVE  IInv'
  BY DEF IInv, TypeOK, Done, DiskOK

LEMMA IInvDisk == IInv => DiskOK(disk, DOMAIN ids, ids, received)
  BY DEF IInv, DiskOK, TypeOK

(* A handler of tab t that leaves the objects of t as r may go on.         *)
LEMMA IInvReady ==
    ASSUME IInv, NEW t \in Tabs, NEW r, ObjectsOK(r, received),
           NEW w, w \subseteq wire
    PROVE  Ready(t, r, w, DOMAIN ids)
  BY IdsFacts DEF IInv, TypeOK, Ready

-----------------------------------------------------------------------------
(* One lemma per handler.                                                  *)

LEMMA AddInv == ASSUME IInv, NEW t \in Tabs, NEW i \in Ids, addToSyncQueue(t, i) PROVE IInv'
<1> DEFINE o == Len(ids) + 1
           q == WithoutId(queue[t], i) \cup {o}
           r == [rec[t] EXCEPT ![o] = Fresh]
           D == DOMAIN ids'
<1>1. /\ Len(ids) < MaxRecords /\ ids' = Append(ids, i)
      /\ queue' = [queue EXCEPT ![t] = q]
      /\ saveSyncQueue(q, r) /\ triggerSync(t, q, r, online[t])
      /\ UNCHANGED <<online, answered, received, fails, reloads>>
  BY DEF addToSyncQueue
<1>2. TypeOK
  BY DEF IInv
<1>3. /\ Len(ids) \in Nat /\ DOMAIN ids = 1..Len(ids) /\ DOMAIN ids \subseteq Objs
      /\ o \in Objs /\ o \notin DOMAIN ids /\ o # NoObj
  BY <1>1, <1>2, IdsFacts, MaxRecordsAssumption DEF Objs, NoObj
<1>4. /\ ids' \in Seq(Ids) /\ Len(ids') = o /\ Len(ids') <= MaxRecords
      /\ D = DOMAIN ids \cup {o} /\ D \subseteq Objs
      /\ ids'[o] = i /\ \A p \in DOMAIN ids : ids'[p] = ids[p]
  BY <1>1, <1>2, <1>3, MaxRecordsAssumption DEF TypeOK
<1>5. queue[t] \subseteq DOMAIN ids /\ q \subseteq D
  BY <1>2, <1>4 DEF TypeOK, WithoutId
<1>6. Unique(q, ids')
  <2>1. \A p \in WithoutId(queue[t], i) : p \in queue[t] /\ p \in DOMAIN ids /\ ids'[p] # i
    BY <1>4, <1>5 DEF WithoutId
  <2>2. Unique(queue[t], ids)
    BY DEF IInv
  <2> QED
    BY <1>4, <1>5, <2>1, <2>2 DEF Unique
<1>7. ObjectsOK(r, received)
  <2>1. ObjectsOK(rec[t], received)
    BY DEF IInv
  <2>2. ObjectOK(Fresh, o, received) /\ Fresh \in Records
    BY FreshOK DEF ObjectOK
  <2> QED
    BY <1>3, <2>1, <2>2 DEF ObjectsOK
<1>8. RunOK(r, cur[t], todo[t])
  <2>1. RunOK(rec[t], cur[t], todo[t])
    BY DEF IInv
  <2>2. cur[t] # o /\ o \notin todo[t] /\ (cur[t] # NoObj => cur[t] \in Objs) /\ todo[t] \subseteq Objs
    BY <1>2, <1>3 DEF TypeOK
  <2>3. \A p \in Objs \ {o} : r[p] = rec[t][p]
    BY <1>2 DEF TypeOK
  <2> QED
    BY <2>1, <2>2, <2>3 DEF RunOK
<1>9. Ready(t, r, wire, D)
  BY <1>2, <1>4, <1>7 DEF IInv, TypeOK, Ready
<1>10. Done(t, D) /\ (cur[t] # NoObj => cur'[t] = cur[t])
  BY <1>1, <1>5, <1>8, <1>9, TriggerDone
<1>11. DiskOK(disk, D, ids', received)
  BY <1>4, IInvDisk DEF DiskOK, Unique
<1>12. DiskOK(disk', D, ids', received)
  BY <1>1, <1>4, <1>5, <1>6, <1>7, <1>11, SaveDone
<1>13. /\ queue' \in [Tabs -> SUBSET D]
       /\ \A u \in Tabs : Unique(queue'[u], ids')
  BY <1>1, <1>2, <1>4, <1>5, <1>6 DEF IInv, TypeOK, Unique
<1>14. \A u \in answered' : cur'[u] # NoObj /\ cur'[u] \in received
  BY <1>1, <1>2, <1>10 DEF IInv, TypeOK, Done
<1>15. sent' \in [Tabs -> 0..BatchSize]
  BY <1>1, <1>2, TriggerSent DEF TypeOK
<1>16. /\ online' \in [Tabs -> BOOLEAN] /\ answered' \subseteq Tabs
       /\ received \subseteq D /\ fails' \in 0..MaxFails /\ reloads' \in 0..MaxReloads
  BY <1>1, <1>2, <1>4 DEF TypeOK
<1> QED
  BY <1>1, <1>4, <1>10, <1>12, <1>13, <1>14, <1>15, <1>16, Assemble

(* Trigger and GoOnline: triggerSync over the queue as it is.              *)
LEMMA TriggerStepInv ==
    ASSUME IInv, NEW t \in Tabs, NEW on,
           online' \in [Tabs -> BOOLEAN],
           triggerSync(t, queue[t], rec[t], on),
           UNCHANGED <<ids, queue, disk, answered, received, fails, reloads>>
    PROVE  IInv'
<1>1. TypeOK
  BY DEF IInv
<1>2. Ready(t, rec[t], wire, DOMAIN ids)
  BY IInvReady DEF IInv
<1>3. queue[t] \subseteq DOMAIN ids /\ RunOK(rec[t], cur[t], todo[t])
  BY DEF IInv, TypeOK
<1>4. Done(t, DOMAIN ids) /\ (cur[t] # NoObj => cur'[t] = cur[t])
  BY <1>2, <1>3, TriggerDone
<1>5. sent' \in [Tabs -> 0..BatchSize]
  BY <1>1, TriggerSent DEF TypeOK
<1>6. \A u \in answered' : cur'[u] # NoObj /\ cur'[u] \in received
  BY <1>1, <1>4 DEF IInv, TypeOK, Done
<1> QED
  BY <1>1, <1>4, <1>5, <1>6, IInvDisk, Assemble DEF IInv, TypeOK

LEMMA TriggerInv == ASSUME IInv, NEW t \in Tabs, Trigger(t) PROVE IInv'
<1>1. online' \in [Tabs -> BOOLEAN]
  BY DEF Trigger, IInv, TypeOK
<1> QED
  BY <1>1, TriggerStepInv DEF Trigger

LEMMA GoOnlineInv == ASSUME IInv, NEW t \in Tabs, GoOnline(t) PROVE IInv'
<1>1. online' \in [Tabs -> BOOLEAN]
  BY DEF GoOnline, IInv, TypeOK
<1> QED
  BY <1>1, TriggerStepInv DEF GoOnline

LEMMA GoOfflineInv == ASSUME IInv, NEW t \in Tabs, GoOffline(t) PROVE IInv'
  BY DEF GoOffline, runVars, netVars, IInv, TypeOK

LEMMA ServerAcceptInv ==
    ASSUME IInv, NEW t \in Tabs, NEW o \in Objs, ServerAccept(t, o) PROVE IInv'
<1>1. TypeOK /\ o \in DOMAIN ids /\ o # NoObj
  BY IdsFacts DEF IInv, TypeOK, ServerAccept
<1>2. TypeOK'
  BY <1>1 DEF ServerAccept, TypeOK, pageVars, runVars
<1>3. received \subseteq received'
  BY DEF ServerAccept
<1>4. /\ \A u \in Tabs : ObjectsOK(rec'[u], received')
      /\ \A p \in DOMAIN disk' : ObjectOK(disk'[p], p, received')
  BY <1>3, MoreReceived DEF IInv, ServerAccept, ObjectsOK, pageVars
<1>5. \A u \in Tabs : u \in answered' => cur'[u] # NoObj /\ cur'[u] \in received'
  BY <1>1 DEF IInv, ServerAccept, runVars
<1>6. /\ \A u \in Tabs : RunOK(rec'[u], cur'[u], todo'[u])
      /\ \A u \in Tabs : Unique(queue'[u], ids')
      /\ Unique(DOMAIN disk', ids')
  BY DEF IInv, ServerAccept, pageVars, runVars
<1> QED
  BY <1>2, <1>4, <1>5, <1>6 DEF IInv

(* Succeed and Fail: the awaited object is settled and the batch goes on.  *)
LEMMA SettleInv ==
    ASSUME IInv, NEW t \in Tabs, cur[t] # NoObj,
           NEW x, ObjectOK(x, cur[t], received),
           NEW w, w \subseteq wire,
           Proceed(t, [rec[t] EXCEPT ![cur[t]] = x], w),
           answered' = answered \ {t},
           fails' \in 0..MaxFails,
           UNCHANGED <<ids, online, queue, received, reloads>>
    PROVE  IInv'
<1> DEFINE r == [rec[t] EXCEPT ![cur[t]] = x]
<1>1. TypeOK /\ cur[t] \in Objs /\ rec[t] \in [Objs -> Records]
  BY IdsFacts DEF IInv, TypeOK
<1>2. r[cur[t]] = x /\ \A p \in Objs \ {cur[t]} : r[p] = rec[t][p]
  BY <1>1
<1>3. ObjectsOK(r, received)
  <2>1. x \in Records /\ ObjectsOK(rec[t], received)
    BY DEF ObjectOK, IInv
  <2> QED
    BY <1>1, <1>2, <2>1 DEF ObjectsOK
<1>4. Ready(t, r, w, DOMAIN ids)
  BY <1>3, IInvReady
<1>5. \A p \in todo[t] : r[p].status = "pending"
  <2>1. RunOK(rec[t], cur[t], todo[t]) /\ todo[t] \subseteq Objs
    BY <1>1, IdsFacts DEF IInv, TypeOK
  <2> QED
    BY <1>2, <2>1 DEF RunOK
<1>6. Done(t, DOMAIN ids)
  BY <1>4, <1>5, ProceedDone
<1>7. /\ sent' \in [Tabs -> 0..BatchSize]
      /\ saveSyncQueue(queue[t], r) \/ UNCHANGED disk
  BY <1>1, ProceedSaved DEF TypeOK
<1>8. DiskOK(disk', DOMAIN ids, ids, received)
  <2>1. CASE saveSyncQueue(queue[t], r)
    <3>1. queue[t] \in SUBSET DOMAIN ids /\ Unique(queue[t], ids)
      BY DEF IInv, TypeOK
    <3> QED
      BY <1>1, <1>3, <2>1, <3>1, IdsFacts, IInvDisk, SaveDone
  <2>2. CASE UNCHANGED disk
    BY <2>2, IInvDisk
  <2> QED
    BY <1>7, <2>1, <2>2
<1>9. \A u \in answered' : cur'[u] # NoObj /\ cur'[u] \in received
  BY <1>1, <1>6 DEF IInv, TypeOK, Done
<1> QED
  BY <1>1, <1>6, <1>7, <1>8, <1>9, Assemble DEF IInv, TypeOK

LEMMA SucceedInv == ASSUME IInv, NEW t \in Tabs, Succeed(t) PROVE IInv'
<1> DEFINE x == [rec[t][cur[t]] EXCEPT !.status = "synced"]
<1>1. /\ t \in answered /\ answered' = answered \ {t}
      /\ Proceed(t, [rec[t] EXCEPT ![cur[t]].status = "synced"], wire)
      /\ UNCHANGED <<ids, online, queue, received, fails, reloads>>
  BY DEF Succeed
<1>2. cur[t] # NoObj /\ cur[t] \in received /\ TypeOK
  BY <1>1 DEF IInv
<1>3. cur[t] \in Objs /\ rec[t][cur[t]] \in Records
  BY <1>2, IdsFacts DEF TypeOK
<1>4. ObjectOK(x, cur[t], received)
  BY <1>2, <1>3, SyncedOK
<1>5. Proceed(t, [rec[t] EXCEPT ![cur[t]] = x], wire)
  BY <1>1
<1>6. fails' \in 0..MaxFails
  BY <1>1, <1>2 DEF TypeOK
<1> QED
  BY <1>1, <1>2, <1>4, <1>5, <1>6, SettleInv

LEMMA FailInv == ASSUME IInv, NEW t \in Tabs, Fail(t) PROVE IInv'
<1>1. PICK w \in {wire, wire \ {<<t, cur[t]>>}} :
          Proceed(t, [rec[t] EXCEPT ![cur[t]] = Failed(@)], w)
  BY DEF Fail
<1>2. /\ cur[t] # NoObj /\ answered' = answered \ {t} /\ fails' = fails + 1 /\ fails < MaxFails
      /\ UNCHANGED <<ids, online, queue, received, reloads>>
  BY DEF Fail, syncInProgress
<1>3. TypeOK /\ cur[t] \in Objs /\ rec[t][cur[t]] \in Records
  BY <1>2, IdsFacts DEF IInv, TypeOK
<1>4. ObjectOK(Failed(rec[t][cur[t]]), cur[t], received)
  <2>1. ObjectOK(rec[t][cur[t]], cur[t], received) /\ rec[t][cur[t]].status = "syncing"
    BY <1>2, <1>3 DEF IInv, ObjectsOK, RunOK
  <2> QED
    BY <1>3, <2>1, FailedOK
<1>5. Proceed(t, [rec[t] EXCEPT ![cur[t]] = Failed(rec[t][cur[t]])], w)
  BY <1>1
<1>6. fails' \in 0..MaxFails /\ w \subseteq wire
  BY <1>1, <1>2, <1>3, BoundsAssumption DEF TypeOK
<1> QED
  BY <1>2, <1>4, <1>5, <1>6, SettleInv

LEMMA ClearInv == ASSUME IInv, NEW t \in Tabs, clearSyncedRecords(t) PROVE IInv'
<1> DEFINE q == queue[t] \ Synced(queue[t], rec[t])
<1>1. /\ queue' = [queue EXCEPT ![t] = q] /\ saveSyncQueue(q, rec[t])
      /\ UNCHANGED <<ids, online, rec, cur, todo, sent, wire, answered, received, fails, reloads>>
  BY DEF clearSyncedRecords, runVars, netVars
<1>2. TypeOK /\ ObjectsOK(rec[t], received) /\ Unique(queue[t], ids)
  BY DEF IInv
<1>3. q \in SUBSET DOMAIN ids /\ Unique(q, ids)
  BY <1>2 DEF TypeOK, Unique
<1>4. DiskOK(disk', DOMAIN ids, ids, received)
  BY <1>1, <1>2, <1>3, IdsFacts, IInvDisk, SaveDone
<1>5. /\ queue' \in [Tabs -> SUBSET DOMAIN ids]
      /\ \A u \in Tabs : Unique(queue'[u], ids)
  BY <1>1, <1>2, <1>3 DEF IInv, TypeOK
<1> QED
  BY <1>1, <1>2, <1>4, <1>5 DEF IInv, TypeOK, DiskOK

LEMMA StartPageInv ==
    ASSUME IInv, NEW t \in Tabs, StartPage(t), DiskOK(disk', DOMAIN ids, ids, received)
    PROVE  IInv'
<1> DEFINE r == [o \in Objs |-> IF o \in DOMAIN disk' THEN disk'[o] ELSE Fresh]
<1>1. /\ queue' = [queue EXCEPT ![t] = DOMAIN disk']
      /\ rec' = [rec EXCEPT ![t] = r]
      /\ cur' = [cur EXCEPT ![t] = NoObj]
      /\ todo' = [todo EXCEPT ![t] = {}]
      /\ sent' = [sent EXCEPT ![t] = 0]
      /\ answered' = answered \ {t}
      /\ wire' \subseteq wire
      /\ UNCHANGED <<ids, received, fails>>
  BY DEF StartPage
<1>2. TypeOK /\ 0 \in 0..BatchSize
  BY BatchSizeAssumption DEF IInv
<1>3. ObjectsOK(r, received)
  <2>1. \A o \in Objs : ObjectOK(r[o], o, received)
    BY FreshOK DEF DiskOK
  <2> QED
    BY <2>1 DEF ObjectsOK, ObjectOK
<1>4. RunOK(r, NoObj, {})
  BY DEF RunOK
<1>5. Done(t, DOMAIN ids)
  <2>1. /\ rec' \in [Tabs -> [Objs -> Records]]
        /\ cur' \in [Tabs -> DOMAIN ids \cup {NoObj}]
        /\ todo' \in [Tabs -> SUBSET DOMAIN ids]
        /\ wire' \subseteq Tabs \X DOMAIN ids
    BY <1>1, <1>2, <1>3 DEF TypeOK, ObjectsOK
  <2>2. \A u \in Tabs : ObjectsOK(rec'[u], received) /\ RunOK(rec'[u], cur'[u], todo'[u])
    BY <1>1, <1>2, <1>3, <1>4 DEF IInv, TypeOK
  <2> QED
    BY <1>1, <1>2, <2>1, <2>2 DEF Done, TypeOK
<1>6. online' \in [Tabs -> BOOLEAN] /\ reloads' \in 0..MaxReloads
  BY <1>2, BoundsAssumption DEF StartPage, TypeOK
<1>7. /\ queue' \in [Tabs -> SUBSET DOMAIN ids]
      /\ \A u \in Tabs : Unique(queue'[u], ids)
  BY <1>1, <1>2 DEF IInv, TypeOK, DiskOK
<1>8. \A u \in answered' : cur'[u] # NoObj /\ cur'[u] \in received
  BY <1>1, <1>2, <1>5 DEF IInv, TypeOK, Done
<1>9. sent' \in [Tabs -> 0..BatchSize]
  BY <1>1, <1>2 DEF TypeOK
<1> QED
  BY <1>1, <1>2, <1>5, <1>6, <1>7, <1>8, <1>9, Assemble DEF TypeOK

LEMMA ReloadInv == ASSUME IInv, NEW t \in Tabs, Reload(t) PROVE IInv'
<1>1. saveSyncQueue(queue[t], rec[t]) /\ StartPage(t)
  BY DEF Reload
<1>2. /\ TypeOK /\ ObjectsOK(rec[t], received) /\ Unique(queue[t], ids)
      /\ queue[t] \in SUBSET DOMAIN ids
  BY DEF IInv, TypeOK
<1>3. DiskOK(disk', DOMAIN ids, ids, received)
  BY <1>1, <1>2, IdsFacts, IInvDisk, SaveDone
<1> QED
  BY <1>1, <1>3, StartPageInv

LEMMA CrashInv == ASSUME IInv, NEW t \in Tabs, Crash(t) PROVE IInv'
  BY IInvDisk, StartPageInv DEF Crash

-----------------------------------------------------------------------------
(* The invariant and what follows from it.                                 *)

LEMMA InitIInv == Init => IInv
<1> SUFFICES ASSUME Init PROVE IInv
  OBVIOUS
<1>1. TypeOK
  <2>1. Fresh \in Records /\ 0 \in 0..BatchSize
    BY FreshOK, BatchSizeAssumption DEF ObjectOK
  <2> QED
    BY <2>1, MaxRecordsAssumption, BoundsAssumption DEF Init, TypeOK
<1>2. \A t \in Tabs : ObjectsOK(rec[t], received)
  BY FreshOK DEF Init, ObjectsOK, ObjectOK
<1> QED
  BY <1>1, <1>2 DEF Init, IInv, RunOK, Unique

LEMMA NextIInv == IInv /\ [Next]_cVars => IInv'
<1> SUFFICES ASSUME IInv, [Next]_cVars PROVE IInv'
  OBVIOUS
<1>1. ASSUME NEW t \in Tabs, NEW i \in Ids, addToSyncQueue(t, i) PROVE IInv'
  BY <1>1, AddInv
<1>2. ASSUME NEW t \in Tabs, Trigger(t) PROVE IInv'
  BY <1>2, TriggerInv
<1>3. ASSUME NEW t \in Tabs, GoOnline(t) PROVE IInv'
  BY <1>3, GoOnlineInv
<1>4. ASSUME NEW t \in Tabs, GoOffline(t) PROVE IInv'
  BY <1>4, GoOfflineInv
<1>5. ASSUME NEW t \in Tabs, Succeed(t) PROVE IInv'
  BY <1>5, SucceedInv
<1>6. ASSUME NEW t \in Tabs, Fail(t) PROVE IInv'
  BY <1>6, FailInv
<1>7. ASSUME NEW t \in Tabs, clearSyncedRecords(t) PROVE IInv'
  BY <1>7, ClearInv
<1>8. ASSUME NEW t \in Tabs, Reload(t) PROVE IInv'
  BY <1>8, ReloadInv
<1>9. ASSUME NEW t \in Tabs, Crash(t) PROVE IInv'
  BY <1>9, CrashInv
<1>10. ASSUME NEW t \in Tabs, NEW o \in Objs, ServerAccept(t, o) PROVE IInv'
  BY <1>10, ServerAcceptInv
<1>11. CASE UNCHANGED cVars
  BY <1>11 DEF cVars, pageVars, runVars, netVars, IInv, TypeOK
<1> QED
  BY <1>1, <1>2, <1>3, <1>4, <1>5, <1>6, <1>7, <1>8, <1>9, <1>10, <1>11 DEF Next, TabStep

LEMMA SpecIInv == Spec => []IInv
  BY InitIInv, NextIInv, PTL DEF Spec

(* Every variable keeps its type.                                          *)
THEOREM ClientTypeOK == Spec => []TypeOK
<1>1. IInv => TypeOK
  BY DEF IInv
<1> QED
  BY SpecIInv, <1>1, PTL

(* A record shown as 'synced', in any tab or in localStorage, was received *)
(* by the server.                                                          *)
THEOREM ClientSyncedWasReceived == Spec => []SyncedWasReceived
<1>1. IInv => SyncedWasReceived
  BY DEF IInv, SyncedWasReceived, ObjectsOK, ObjectOK
<1> QED
  BY SpecIInv, <1>1, PTL

(* A tab's queue and localStorage hold one record per id at most.          *)
THEOREM ClientOnePerId == Spec => []OnePerId
<1>1. IInv => OnePerId
  BY DEF IInv, OnePerId, Unique
<1> QED
  BY SpecIInv, <1>1, PTL

(* A record that may still be sent has failed fewer than maxRetries times, *)
(* and only exhausted ones are given up.                                   *)
THEOREM ClientRetryBudget == Spec => []RetryBudget
<1>1. IInv => RetryBudget
  BY DEF IInv, RetryBudget, ObjectsOK, ObjectOK
<1> QED
  BY SpecIInv, <1>1, PTL

(* A running sync stays sound while records come and go under it.          *)
THEOREM ClientRunIsSound == Spec => []RunIsSound
<1>1. IInv => RunIsSound
  BY DEF IInv, RunIsSound, RunOK, syncInProgress
<1> QED
  BY SpecIInv, <1>1, PTL

-----------------------------------------------------------------------------
(* While no page dies, no record is forgotten.                             *)

(* Each failure that a record counts is one of the requests that failed.   *)
FailsCounted == reloads = 0 => \A t \in Tabs, o \in Objs : rec[t][o].retryCount <= fails

DueInv == StillDue /\ FailsCounted

(* What a tab that holds the objects r, and awaits c, will still send.     *)
ToSend(r, c, o) == r[o].status = "pending" \/ c = o

(* A step of tab t that had left its objects as r.                         *)
Sends(t, r) ==
    /\ \A u \in Tabs \ {t} : rec'[u] = rec[u] /\ cur'[u] = cur[u]
    /\ \A o \in Objs : /\ r[o].status = "pending" => ToSend(rec'[t], cur'[t], o)
                       /\ rec'[t][o].retryCount = r[o].retryCount

LEMMA FetchSends ==
    ASSUME IInv, NEW t \in Tabs, NEW r \in [Objs -> Records], NEW S \in SUBSET Objs, NEW w,
           StartFetch(t, r, S, w)
    PROVE  Sends(t, r)
<1>1. PICK o \in S :
        /\ rec' = [rec EXCEPT ![t] = [r EXCEPT ![o].status = "syncing"]]
        /\ cur' = [cur EXCEPT ![t] = o]
  BY DEF StartFetch
<1>2. cur'[t] = o /\ \A u \in Tabs \ {t} : rec'[u] = rec[u] /\ cur'[u] = cur[u]
  BY <1>1 DEF IInv, TypeOK
<1>3. \A p \in Objs : /\ p # o => rec'[t][p] = r[p]
                      /\ rec'[t][p].retryCount = r[p].retryCount
  BY <1>1 DEF IInv, TypeOK, Records
<1> QED
  BY <1>2, <1>3 DEF Sends, ToSend

LEMMA TriggerSends ==
    ASSUME IInv, NEW t \in Tabs, NEW q \in SUBSET Objs, NEW r \in [Objs -> Records], NEW on,
           triggerSync(t, q, r, on)
    PROVE  Sends(t, r) /\ (cur[t] # NoObj => cur'[t] = cur[t])
<1>1. CASE on /\ ~syncInProgress(t) /\ Pending(q, r) # {}
  <2>1. StartFetch(t, r, Pending(q, r), wire) /\ Pending(q, r) \in SUBSET Objs
    BY <1>1 DEF triggerSync, Pending
  <2> QED
    BY <1>1, <2>1, FetchSends DEF syncInProgress
<1>2. CASE ~(on /\ ~syncInProgress(t) /\ Pending(q, r) # {})
  <2>1. rec' = [rec EXCEPT ![t] = r] /\ cur' = cur
    BY <1>2 DEF triggerSync
  <2> QED
    BY <2>1 DEF Sends, ToSend, IInv, TypeOK
<1> QED
  BY <1>1, <1>2

LEMMA ProceedSends ==
    ASSUME IInv, NEW t \in Tabs, NEW r \in [Objs -> Records], NEW w, Proceed(t, r, w)
    PROVE  Sends(t, r)
<1>1. CASE todo[t] = {}
  <2>1. rec' = [rec EXCEPT ![t] = r] /\ cur' = [cur EXCEPT ![t] = NoObj]
    BY <1>1 DEF Proceed
  <2> QED
    BY <2>1 DEF Sends, ToSend, IInv, TypeOK
<1>2. CASE todo[t] # {}
  <2>1. StartFetch(t, r, todo[t], w) /\ todo[t] \in SUBSET Objs
    BY <1>2, IdsFacts DEF Proceed, IInv, TypeOK
  <2> QED
    BY <2>1, FetchSends
<1> QED
  BY <1>1, <1>2

(* What a step of tab t has to show: of the records that were there, what  *)
(* was due stays due in t or is received, and of one that is new, that it  *)
(* is due in t.                                                            *)
LEMMA DueKept ==
    ASSUME IInv, DueInv, NEW t \in Tabs, reloads' = 0 => reloads = 0,
           \A u \in Tabs \ {t} : rec'[u] = rec[u] /\ cur'[u] = cur[u] /\ queue'[u] = queue[u],
           \A o \in DOMAIN ids : o \in DOMAIN ids' /\ ids'[o] = ids[o],
           received \subseteq received', fails' >= fails, fails' \in Nat,
           reloads' = 0 => \A o \in Objs : rec'[t][o].retryCount <= fails',
           reloads' = 0 => \A o \in DOMAIN ids' :
              \/ o \in received' \/ Replaced(o)'
              \/ o \in DOMAIN ids /\ ~(o \in queue[t] /\ (ToSend(rec[t], cur[t], o) \/ fails >= MaxRetries))
              \/ o \in queue'[t] /\ (ToSend(rec'[t], cur'[t], o) \/ fails' >= MaxRetries)
    PROVE  DueInv'
<1> SUFFICES ASSUME reloads' = 0 PROVE DueInv'
  BY DEF DueInv, StillDue, FailsCounted
<1>1. fails \in Nat /\ rec \in [Tabs -> [Objs -> Records]] /\ DOMAIN ids \subseteq Objs
  BY BoundsAssumption, IdsFacts DEF IInv, TypeOK
<1>2. \A o \in DOMAIN ids : Replaced(o) => Replaced(o)'
  BY DEF Replaced
<1>3. fails >= MaxRetries => fails' >= MaxRetries
  BY <1>1, MaxRetriesAssumption
<1>4. StillDue'
  <2> SUFFICES ASSUME NEW o \in DOMAIN ids'
               PROVE  \/ o \in received' \/ Replaced(o)'
                      \/ \E u \in Tabs : /\ o \in queue'[u]
                                         /\ ToSend(rec'[u], cur'[u], o) \/ fails' >= MaxRetries
    BY DEF StillDue, ToSend
  <2>1. CASE o \in DOMAIN ids /\ ~(o \in queue[t] /\ (ToSend(rec[t], cur[t], o) \/ fails >= MaxRetries))
    <3>1. \/ o \in received \/ Replaced(o)
          \/ \E u \in Tabs \ {t} : /\ o \in queue[u]
                                   /\ ToSend(rec[u], cur[u], o) \/ fails >= MaxRetries
      BY <2>1 DEF DueInv, StillDue, ToSend
    <3> QED
      BY <1>2, <1>3, <2>1, <3>1
  <2> QED
    BY <2>1
<1>5. FailsCounted'
  <2> SUFFICES ASSUME NEW u \in Tabs, NEW o \in Objs PROVE rec'[u][o].retryCount <= fails'
    BY DEF FailsCounted
  <2>1. CASE u # t
    <3>1. rec[u][o].retryCount <= fails /\ rec[u][o].retryCount \in Nat /\ rec'[u] = rec[u]
      BY <1>1, <2>1, MaxRetriesAssumption DEF DueInv, FailsCounted, Records
    <3> QED
      BY <1>1, <3>1
  <2> QED
    BY <2>1
<1> QED
  BY <1>4, <1>5 DEF DueInv

LEMMA AddDue == ASSUME IInv, DueInv, NEW t \in Tabs, NEW i \in Ids, addToSyncQueue(t, i) PROVE DueInv'
<1> DEFINE n == Len(ids) + 1
           q == WithoutId(queue[t], i) \cup {n}
           r == [rec[t] EXCEPT ![n] = Fresh]
<1>1. /\ Len(ids) < MaxRecords /\ ids' = Append(ids, i)
      /\ queue' = [queue EXCEPT ![t] = q]
      /\ triggerSync(t, q, r, online[t])
      /\ UNCHANGED <<received, fails, reloads>>
  BY DEF addToSyncQueue
<1>2. /\ ids \in Seq(Ids) /\ Len(ids) \in Nat /\ DOMAIN ids = 1..Len(ids) /\ DOMAIN ids \subseteq Objs
      /\ queue[t] \in SUBSET DOMAIN ids
  BY IdsFacts DEF IInv, TypeOK
<1>3. /\ DOMAIN ids' = 1..n /\ ids'[n] = i /\ \A o \in DOMAIN ids : ids'[o] = ids[o] /\ o < n
      /\ n \in Objs /\ n \notin DOMAIN ids
  BY <1>1, <1>2, MaxRecordsAssumption DEF Objs
<1>4. r \in [Objs -> Records] /\ r[n] = Fresh /\ \A o \in Objs \ {n} : r[o] = rec[t][o]
  BY <1>3, FreshOK DEF IInv, TypeOK, ObjectOK
<1>5. q \in SUBSET Objs /\ queue'[t] = q /\ \A u \in Tabs \ {t} : queue'[u] = queue[u]
  BY <1>1, <1>2, <1>3 DEF WithoutId, IInv, TypeOK
<1> HIDE DEF q, r
<1>6. Sends(t, r) /\ (cur[t] # NoObj => cur'[t] = cur[t])
  BY <1>1, <1>4, <1>5, TriggerSends
<1>7. fails \in Nat
  BY BoundsAssumption DEF IInv, TypeOK
<1>8. ASSUME reloads' = 0, NEW o \in Objs PROVE rec'[t][o].retryCount <= fails'
  <2>1. rec'[t][o].retryCount = r[o].retryCount
    BY <1>6 DEF Sends
  <2>2. Fresh.retryCount = 0
    BY DEF Fresh
  <2> QED
    BY <1>1, <1>4, <1>7, <1>8, <2>1, <2>2 DEF DueInv, FailsCounted
<1>9. ASSUME NEW o \in DOMAIN ids'
      PROVE  \/ o \in received' \/ Replaced(o)'
             \/ o \in DOMAIN ids /\ ~(o \in queue[t] /\ (ToSend(rec[t], cur[t], o) \/ fails >= MaxRetries))
             \/ o \in queue'[t] /\ (ToSend(rec'[t], cur'[t], o) \/ fails' >= MaxRetries)
  <2>1. CASE o = n
    <3>1. r[o].status = "pending" /\ o \in Objs /\ o \in q
      BY <1>3, <1>4, <2>1 DEF Fresh, q
    <3> QED
      BY <1>5, <1>6, <3>1 DEF Sends
  <2>2. CASE o # n /\ ids[o] = i
    <3>1. n \in DOMAIN ids' /\ n > o /\ ids'[n] = ids'[o]
      BY <1>2, <1>3, <2>2
    <3> QED
      BY <3>1 DEF Replaced
  <2>3. CASE o # n /\ ids[o] # i
    <3>1. o \in DOMAIN ids /\ o \in Objs /\ o # NoObj
      BY <1>2, <1>3, <2>3 DEF NoObj
    <3>2. o \in queue[t] => o \in q
      BY <2>3 DEF q, WithoutId
    <3>3. ToSend(rec[t], cur[t], o) => ToSend(rec'[t], cur'[t], o)
      BY <1>4, <1>6, <2>3, <3>1 DEF ToSend, Sends
    <3> QED
      BY <1>1, <1>5, <3>1, <3>2, <3>3
  <2> QED
    BY <2>1, <2>2, <2>3
<1>10. \A u \in Tabs \ {t} : rec'[u] = rec[u] /\ cur'[u] = cur[u]
  BY <1>6 DEF Sends
<1>11. \A o \in DOMAIN ids : o \in DOMAIN ids' /\ ids'[o] = ids[o]
  BY <1>2, <1>3
<1> QED
  BY <1>1, <1>5, <1>7, <1>8, <1>9, <1>10, <1>11, DueKept

(* A step that leaves the queues alone and is not an answer.               *)
LEMMA TriggerDue ==
    ASSUME IInv, DueInv, NEW t \in Tabs, NEW on, triggerSync(t, queue[t], rec[t], on),
           UNCHANGED <<ids, queue, received, fails, reloads>>
    PROVE  DueInv'
<1>1. queue[t] \in SUBSET Objs /\ rec[t] \in [Objs -> Records] /\ fails \in Nat
      /\ DOMAIN ids \subseteq Objs /\ NoObj \notin Objs
  BY BoundsAssumption, IdsFacts DEF IInv, TypeOK
<1>2. Sends(t, rec[t]) /\ (cur[t] # NoObj => cur'[t] = cur[t])
  BY <1>1, TriggerSends
<1>3. \A o \in DOMAIN ids : ToSend(rec[t], cur[t], o) => ToSend(rec'[t], cur'[t], o)
  BY <1>1, <1>2 DEF Sends, ToSend
<1>4. reloads' = 0 => \A o \in Objs : rec'[t][o].retryCount <= fails'
  BY <1>2 DEF Sends, DueInv, FailsCounted
<1>5. \A u \in Tabs \ {t} : rec'[u] = rec[u] /\ cur'[u] = cur[u]
  BY <1>2 DEF Sends
<1> QED
  BY <1>1, <1>3, <1>4, <1>5, DueKept

LEMMA SucceedDue == ASSUME IInv, DueInv, NEW t \in Tabs, Succeed(t) PROVE DueInv'
<1> DEFINE r == [rec[t] EXCEPT ![cur[t]].status = "synced"]
<1>1. /\ t \in answered /\ Proceed(t, r, wire)
      /\ UNCHANGED <<ids, queue, received, fails, reloads>>
  BY DEF Succeed
<1>2. /\ cur[t] \in received /\ cur[t] \in Objs /\ rec[t] \in [Objs -> Records] /\ fails \in Nat
      /\ DOMAIN ids \subseteq Objs
  BY <1>1, BoundsAssumption, IdsFacts DEF IInv, TypeOK
<1>3. /\ r \in [Objs -> Records]
      /\ \A o \in Objs : r[o].retryCount = rec[t][o].retryCount /\ (o # cur[t] => r[o] = rec[t][o])
  BY <1>2 DEF Records, Statuses
<1> HIDE DEF r
<1>4. Sends(t, r)
  BY <1>1, <1>3, ProceedSends
<1>5. \A o \in DOMAIN ids : o # cur[t] /\ ToSend(rec[t], cur[t], o) => ToSend(rec'[t], cur'[t], o)
  BY <1>2, <1>3, <1>4 DEF Sends, ToSend
<1>6. reloads' = 0 => \A o \in Objs : rec'[t][o].retryCount <= fails'
  BY <1>1, <1>3, <1>4 DEF Sends, DueInv, FailsCounted
<1>7. \A u \in Tabs \ {t} : rec'[u] = rec[u] /\ cur'[u] = cur[u]
  BY <1>4 DEF Sends
<1> QED
  BY <1>1, <1>2, <1>5, <1>6, <1>7, DueKept

(* The record that has failed is to be sent again, or has used up as many  *)
(* failures as there have been requests that failed.                       *)
LEMMA FailDue == ASSUME IInv, DueInv, NEW t \in Tabs, Fail(t) PROVE DueInv'
<1> DEFINE r == [rec[t] EXCEPT ![cur[t]] = Failed(rec[t][cur[t]])]
<1>1. PICK w : Proceed(t, r, w)
  BY DEF Fail
<1>2. /\ cur[t] # NoObj /\ fails' = fails + 1
      /\ UNCHANGED <<ids, queue, received, reloads>>
  BY DEF Fail, syncInProgress
<1>3. /\ cur[t] \in Objs /\ rec[t] \in [Objs -> Records] /\ fails \in Nat
      /\ DOMAIN ids \subseteq Objs /\ MaxRetries \in Nat
  BY <1>2, BoundsAssumption, IdsFacts, MaxRetriesAssumption DEF IInv, TypeOK
<1> DEFINE x == rec[t][cur[t]]
<1>4. ObjectOK(Failed(x), cur[t], received) /\ x.retryCount \in Nat
  <2>1. ObjectOK(x, cur[t], received) /\ x.status = "syncing"
    BY <1>2, <1>3 DEF IInv, ObjectsOK, RunOK
  <2> QED
    BY <1>3, <2>1, FailedOK DEF Records
<1>5. /\ r \in [Objs -> Records] /\ r[cur[t]] = Failed(x)
      /\ \A o \in Objs \ {cur[t]} : r[o] = rec[t][o]
  BY <1>3, <1>4 DEF ObjectOK
<1>6. /\ Failed(x).retryCount = x.retryCount + 1
      /\ Failed(x).status = "pending" \/ x.retryCount + 1 >= MaxRetries
  BY DEF Failed
<1> HIDE DEF r, x
<1>7. Sends(t, r)
  BY <1>1, <1>5, ProceedSends
<1>8. reloads' = 0 => x.retryCount <= fails
  BY <1>2, <1>3 DEF DueInv, FailsCounted, x
<1>9. ASSUME reloads' = 0, NEW o \in DOMAIN ids, ToSend(rec[t], cur[t], o)
      PROVE  ToSend(rec'[t], cur'[t], o) \/ fails' >= MaxRetries
  <2>1. CASE o = cur[t]
    <3>1. Failed(x).status = "pending" => ToSend(rec'[t], cur'[t], o)
      BY <1>3, <1>5, <1>7, <2>1 DEF Sends
    <3> QED
      BY <1>2, <1>3, <1>4, <1>6, <1>8, <1>9, <3>1
  <2>2. CASE o # cur[t]
    BY <1>3, <1>5, <1>7, <1>9, <2>2 DEF Sends, ToSend
  <2> QED
    BY <2>1, <2>2
<1>10. ASSUME reloads' = 0, NEW o \in Objs PROVE rec'[t][o].retryCount <= fails'
  <2>1. rec'[t][o].retryCount = r[o].retryCount
    BY <1>7 DEF Sends
  <2>2. CASE o = cur[t]
    BY <1>2, <1>3, <1>4, <1>5, <1>6, <1>8, <1>10, <2>1, <2>2
  <2>3. CASE o # cur[t]
    <3>1. rec[t][o].retryCount <= fails /\ rec[t][o].retryCount \in Nat
      BY <1>2, <1>3, <1>10 DEF DueInv, FailsCounted, Records
    <3> QED
      BY <1>2, <1>3, <1>5, <2>1, <2>3, <3>1
  <2> QED
    BY <2>2, <2>3
<1>11. \A u \in Tabs \ {t} : rec'[u] = rec[u] /\ cur'[u] = cur[u]
  BY <1>7 DEF Sends
<1>12. fails' >= fails /\ fails' \in Nat /\ (fails >= MaxRetries => fails' >= MaxRetries)
  BY <1>2, <1>3
<1> QED
  BY <1>2, <1>9, <1>10, <1>11, <1>12, DueKept

LEMMA ClearDue == ASSUME IInv, DueInv, NEW t \in Tabs, clearSyncedRecords(t) PROVE DueInv'
<1>1. /\ queue' = [queue EXCEPT ![t] = queue[t] \ Synced(queue[t], rec[t])]
      /\ UNCHANGED <<ids, rec, cur, received, fails, reloads>>
  BY DEF clearSyncedRecords, runVars, netVars
<1>2. /\ DOMAIN ids \subseteq Objs /\ fails \in Nat
      /\ queue'[t] = queue[t] \ Synced(queue[t], rec[t])
      /\ \A u \in Tabs \ {t} : queue'[u] = queue[u]
  BY <1>1, BoundsAssumption, IdsFacts DEF IInv, TypeOK
<1>3. \A o \in Objs : rec[t][o].status = "synced" => o \in received
  BY DEF IInv, ObjectsOK, ObjectOK
<1>4. \A o \in DOMAIN ids : o \in queue[t] => o \in queue'[t] \/ o \in received
  BY <1>2, <1>3 DEF Synced
<1>5. reloads' = 0 => \A o \in Objs : rec'[t][o].retryCount <= fails'
  BY <1>1 DEF DueInv, FailsCounted
<1> QED
  BY <1>1, <1>2, <1>4, <1>5, DueKept

LEMMA StillDueInv == IInv /\ DueInv /\ [Next]_cVars => DueInv'
<1> SUFFICES ASSUME IInv, DueInv, [Next]_cVars PROVE DueInv'
  OBVIOUS
<1>1. ASSUME NEW t \in Tabs, TabStep(t) PROVE DueInv'
  <2>1. CASE \E i \in Ids : addToSyncQueue(t, i)
    BY <2>1, AddDue
  <2>2. CASE Trigger(t) \/ GoOnline(t)
    BY <2>2, TriggerDue DEF Trigger, GoOnline
  <2>3. CASE GoOffline(t)
    BY <2>3 DEF GoOffline, runVars, netVars, DueInv, StillDue, FailsCounted, Replaced
  <2>4. CASE Succeed(t)
    BY <2>4, SucceedDue
  <2>5. CASE Fail(t)
    BY <2>5, FailDue
  <2>6. CASE clearSyncedRecords(t)
    BY <2>6, ClearDue
  <2>7. CASE Reload(t) \/ Crash(t)
    <3>1. reloads' = reloads + 1 /\ reloads \in Nat
      BY <2>7, BoundsAssumption DEF Reload, Crash, StartPage, IInv, TypeOK
    <3>2. reloads' # 0
      BY <3>1
    <3> QED
      BY <3>2 DEF DueInv, StillDue, FailsCounted
  <2> QED
    BY <1>1, <2>1, <2>2, <2>3, <2>4, <2>5, <2>6, <2>7 DEF TabStep
<1>2. ASSUME NEW t \in Tabs, NEW o \in Objs, ServerAccept(t, o) PROVE DueInv'
  <2>1. UNCHANGED <<ids, rec, queue, cur, fails, reloads>> /\ received \subseteq received'
    BY <1>2 DEF ServerAccept, pageVars, runVars
  <2> QED
    BY <2>1 DEF DueInv, StillDue, FailsCounted, Replaced
<1>3. CASE UNCHANGED cVars
  BY <1>3 DEF cVars, pageVars, runVars, netVars, DueInv, StillDue, FailsCounted, Replaced
<1> QED
  BY <1>1, <1>2, <1>3 DEF Next

(* Until a page dies, no record is forgotten by every tab.                 *)
THEOREM ClientStillDue == Spec => []StillDue
<1>1. Init => DueInv
  BY DEF Init, DueInv, StillDue, FailsCounted, Fresh
<1>2. DueInv => StillDue
  BY DEF DueInv
<1> QED
  BY InitIInv, NextIInv, StillDueInv, <1>1, <1>2, PTL DEF Spec

-----------------------------------------------------------------------------
(* The refinement.  A browser with one tab, and a localStorage that takes  *)
(* what is written to it, implements the durable outbox.  Both assumptions *)
(* are needed: a second tab overwrites the queue of the first, and a       *)
(* refused write leaves localStorage behind the queue.                     *)

(* localStorage holds the records the queue holds: what a page that was    *)
(* killed leaves behind is its queue.                                      *)
DiskIsQueue == DOMAIN disk = queue[Tab]

RInv == IInv /\ DiskIsQueue

LEMMA SavedDomain == \A q, r : DOMAIN Saved(q, r) = q
  BY DEF Saved

LEMMA SaveKeepsDisk ==
    ASSUME ~StorageMayFail, NEW q, NEW r, saveSyncQueue(q, r)
    PROVE  DOMAIN disk' = q
  BY SavedDomain DEF saveSyncQueue

(* A step of a tab that leaves ids, received and the contents of the queue *)
(* alone is a stutter of the outbox.                                       *)
Quiet == UNCHANGED <<ids, queue[Tab], received>> /\ DOMAIN disk' = queue[Tab]

LEMMA QuietStep ==
    ASSUME RInv, Quiet PROVE DiskIsQueue' /\ [Outbox!Next]_(Outbox!vars)
  BY DEF Quiet, DiskIsQueue, Outbox!vars

-----------------------------------------------------------------------------
(* The steps that are not quiet.                                           *)

LEMMA AddPuts ==
    ASSUME ~StorageMayFail, RInv, Tab \in Tabs, NEW i \in Ids, addToSyncQueue(Tab, i)
    PROVE  DiskIsQueue' /\ Outbox!Put(i)
<1> DEFINE o == Len(ids) + 1
           q == WithoutId(queue[Tab], i) \cup {o}
<1>1. /\ Len(ids) < MaxRecords /\ ids' = Append(ids, i) /\ received' = received
      /\ queue' = [queue EXCEPT ![Tab] = q]
      /\ saveSyncQueue(q, [rec[Tab] EXCEPT ![o] = Fresh])
  BY DEF addToSyncQueue
<1>2. queue'[Tab] = q
  BY <1>1 DEF RInv, IInv, TypeOK
<1>3. DOMAIN disk' = q
  BY <1>1, SaveKeepsDisk
<1> QED
  BY <1>1, <1>2, <1>3 DEF DiskIsQueue, Outbox!Put, WithoutId

LEMMA AcceptReceives ==
    ASSUME RInv, NEW t \in Tabs, NEW o \in Objs, ServerAccept(t, o)
    PROVE  DiskIsQueue' /\ o \in DOMAIN ids /\ Outbox!Receive(o)
<1>1. o \in DOMAIN ids
  BY DEF ServerAccept, RInv, IInv, TypeOK
<1> QED
  BY <1>1 DEF ServerAccept, pageVars, RInv, DiskIsQueue, Outbox!Receive

LEMMA ClearDrops ==
    ASSUME ~StorageMayFail, RInv, Tab \in Tabs, clearSyncedRecords(Tab)
    PROVE  DiskIsQueue' /\ \E S \in SUBSET queue[Tab] : Outbox!Drop(S)
<1> DEFINE S == Synced(queue[Tab], rec[Tab])
<1>1. /\ queue' = [queue EXCEPT ![Tab] = queue[Tab] \ S]
      /\ saveSyncQueue(queue[Tab] \ S, rec[Tab])
      /\ UNCHANGED <<ids, received>>
  BY DEF clearSyncedRecords, netVars
<1>2. queue'[Tab] = queue[Tab] \ S /\ queue[Tab] \subseteq Objs
  BY <1>1, IdsFacts DEF RInv, IInv, TypeOK
<1>3. DOMAIN disk' = queue[Tab] \ S
  BY <1>1, SaveKeepsDisk
<1>4. S \subseteq received
  <2>1. ObjectsOK(rec[Tab], received)
    BY DEF RInv, IInv
  <2> QED
    BY <1>2, <2>1 DEF Synced, ObjectsOK, ObjectOK
<1>5. Outbox!Drop(S)
  BY <1>1, <1>2, <1>4 DEF Outbox!Drop
<1>6. S \in SUBSET queue[Tab]
  BY DEF Synced
<1> QED
  BY <1>2, <1>3, <1>5, <1>6 DEF DiskIsQueue

-----------------------------------------------------------------------------
(* The quiet steps.                                                        *)

LEMMA ProceedKeepsDisk ==
    ASSUME ~StorageMayFail, RInv, NEW r, NEW w, Proceed(Tab, r, w)
    PROVE  DOMAIN disk' = queue[Tab]
<1>1. saveSyncQueue(queue[Tab], r) \/ UNCHANGED disk
  BY DEF Proceed
<1> QED
  BY <1>1, SaveKeepsDisk DEF RInv, DiskIsQueue

LEMMA StartPageQuiet ==
    ASSUME RInv, Tab \in Tabs, StartPage(Tab), DOMAIN disk' = queue[Tab]
    PROVE  Quiet
<1>1. /\ queue' = [queue EXCEPT ![Tab] = DOMAIN disk']
      /\ UNCHANGED <<ids, received>>
  BY DEF StartPage
<1> QED
  BY <1>1 DEF Quiet, RInv, IInv, TypeOK

LEMMA OthersQuiet ==
    ASSUME ~StorageMayFail, RInv, Tab \in Tabs,
           \/ Trigger(Tab) \/ GoOnline(Tab) \/ GoOffline(Tab)
           \/ Succeed(Tab) \/ Fail(Tab) \/ Reload(Tab) \/ Crash(Tab)
    PROVE  Quiet
<1>1. CASE Trigger(Tab)
  BY <1>1 DEF Trigger, Quiet, RInv, DiskIsQueue
<1>2. CASE GoOnline(Tab)
  BY <1>2 DEF GoOnline, Quiet, RInv, DiskIsQueue
<1>3. CASE GoOffline(Tab)
  BY <1>3 DEF GoOffline, netVars, Quiet, RInv, DiskIsQueue
<1>4. CASE Succeed(Tab)
  BY <1>4, ProceedKeepsDisk DEF Succeed, Quiet
<1>5. CASE Fail(Tab)
  <2>1. UNCHANGED <<ids, queue, received>>
    BY <1>5 DEF Fail
  <2>2. PICK w : Proceed(Tab, [rec[Tab] EXCEPT ![cur[Tab]] = Failed(@)], w)
    BY <1>5 DEF Fail
  <2> QED
    BY <2>1, <2>2, ProceedKeepsDisk DEF Quiet
<1>6. CASE Reload(Tab)
  BY <1>6, SaveKeepsDisk, StartPageQuiet DEF Reload
<1>7. CASE Crash(Tab)
  BY <1>7, StartPageQuiet DEF Crash, RInv, DiskIsQueue
<1> QED
  BY <1>1, <1>2, <1>3, <1>4, <1>5, <1>6, <1>7

-----------------------------------------------------------------------------
(* The steps together.                                                     *)

LEMMA OnlyTab == ASSUME NEW u, Tabs = {u} PROVE Tab = u /\ Tab \in Tabs
  BY DEF Tab

LEMMA InitOutbox ==
    ASSUME Tab \in Tabs, Init PROVE DiskIsQueue /\ Outbox!Init
  BY DEF Init, DiskIsQueue, Outbox!Init

LEMMA StepOutbox ==
    ASSUME NEW u, Tabs = {u}, ~StorageMayFail, RInv, [Next]_cVars
    PROVE  DiskIsQueue' /\ [Outbox!Next]_(Outbox!vars)
<1>1. Tab = u /\ Tab \in Tabs
  BY OnlyTab
<1>2. CASE \E i \in Ids : addToSyncQueue(Tab, i)
  BY <1>1, <1>2, AddPuts DEF Outbox!Next
<1>3. CASE clearSyncedRecords(Tab)
  BY <1>1, <1>3, ClearDrops DEF Outbox!Next
<1>4. CASE \E t \in Tabs, o \in Objs : ServerAccept(t, o)
  BY <1>4, AcceptReceives DEF Outbox!Next
<1>5. CASE \/ Trigger(Tab) \/ GoOnline(Tab) \/ GoOffline(Tab)
           \/ Succeed(Tab) \/ Fail(Tab) \/ Reload(Tab) \/ Crash(Tab)
  BY <1>1, <1>5, OthersQuiet, QuietStep
<1>6. CASE UNCHANGED cVars
  <2>1. Quiet
    BY <1>6 DEF cVars, pageVars, netVars, Quiet, RInv, DiskIsQueue
  <2> QED
    BY <2>1, QuietStep
<1> QED
  BY <1>1, <1>2, <1>3, <1>4, <1>5, <1>6 DEF Next, TabStep

(* With one tab and a localStorage that takes every write, the queue is a  *)
(* durable outbox for every number of ids, records and retries: records    *)
(* leave it only when a newer one takes their place or the server has them,*)
(* and a page that is left, reloaded or killed takes none with it.         *)
THEOREM ClientImplementsOutbox ==
    ASSUME NEW u, Tabs = {u}, ~StorageMayFail
    PROVE  Spec => ImplementsOutbox
<1>1. Init => RInv /\ Outbox!Init
  BY OnlyTab, InitIInv, InitOutbox DEF RInv
<1>2. RInv /\ [Next]_cVars => RInv' /\ [Outbox!Next]_(Outbox!vars)
  BY NextIInv, StepOutbox DEF RInv
<1> QED
  BY <1>1, <1>2, PTL DEF Spec, ImplementsOutbox, Outbox!Spec

(* So nothing is lost, however often the page is left, reloaded or killed: *)
(* the newest record of every id is in the page's queue or with the        *)
(* server.  What DurableOutboxProofs proves of an outbox is used of this   *)
(* one.                                                                    *)
Promise == INSTANCE DurableOutboxProofs WITH outbox <- queue[Tab]

THEOREM ClientLosesNothing ==
    ASSUME NEW u, Tabs = {u}, ~StorageMayFail
    PROVE  Spec => []Outbox!NothingLost
<1>1. Promise!Spec => []Promise!NothingLost
  BY Promise!OutboxNothingLost
<1>2. Promise!NothingLost => Outbox!NothingLost
  BY DEF Promise!NothingLost, Outbox!NothingLost, Promise!Newest, Outbox!Newest
<1>3. Outbox!Init => Promise!Init
  BY DEF Outbox!Init, Promise!Init
<1>4. [Outbox!Next]_(Outbox!vars) => [Promise!Next]_(Promise!vars)
  BY DEF Outbox!Next, Promise!Next, Outbox!vars, Promise!vars, Outbox!Put, Promise!Put,
         Outbox!Receive, Promise!Receive, Outbox!Drop, Promise!Drop
<1> QED
  BY <1>1, <1>2, <1>3, <1>4, ClientImplementsOutbox, PTL DEF ImplementsOutbox, Outbox!Spec, Promise!Spec

=============================================================================
