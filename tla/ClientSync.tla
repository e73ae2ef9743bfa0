----------------------------- MODULE ClientSync -----------------------------
(***************************************************************************)
(* The browser half of offline synchronisation: class ClientSyncManager of *)
(* static/js/sync-manager.js, in every tab that has the dashboard open.    *)
(*                                                                         *)
(* A tab keeps its own copy of the queue in memory and writes it, whole,   *)
(* to localStorage, which the tabs share.  A record is a JavaScript        *)
(* object: addToSyncQueue makes a new object and filters the object with   *)
(* the same id out of the queue, but a batch already running goes on with  *)
(* the objects it picked.  Objects are numbered in the order they are      *)
(* made.  A queue is pushed to at its end only, so its order is the order  *)
(* of the numbers and a set of numbers stands for it.                      *)
(*                                                                         *)
(* JavaScript runs each handler up to its next await without interruption, *)
(* so the only await that matters, the fetch of syncRecordToServer, is     *)
(* where a step ends.  What the server does with a request is described in *)
(* ServerSync; here it is only received (ServerAccept).                    *)
(***************************************************************************)
EXTENDS Naturals, Sequences

CONSTANTS
    Tabs,            \* the tabs that have the dashboard open
    Ids,             \* the ids a record can have
    MaxRetries,      \* this.maxRetries, 3 in the code
    BatchSize,       \* batchSize of triggerSync, 5 in the code
    StorageMayFail,  \* whether localStorage.setItem may throw (quota)
    MaxRecords,      \* bound on the records made
    MaxFails,        \* bound on the requests that fail
    MaxReloads       \* bound on the times a page is closed or killed

ASSUME MaxRetriesAssumption == MaxRetries \in Nat \ {0}
ASSUME BatchSizeAssumption == BatchSize \in Nat \ {0}
ASSUME MaxRecordsAssumption == MaxRecords \in Nat
ASSUME StorageAssumption == StorageMayFail \in BOOLEAN
ASSUME BoundsAssumption == MaxFails \in Nat /\ MaxReloads \in Nat

VARIABLES
    ids,       \* ids[o] is the id of object o, the o-th made
    online,    \* this.isOnline of each tab
    queue,     \* this.syncQueue of each tab
    rec,       \* status and retryCount of each object in each tab
    cur,       \* the object whose fetch a tab awaits; NoObj when no sync runs
    todo,      \* the objects a running triggerSync has picked and not begun
    sent,      \* how many records of the current batch were begun
    disk,      \* localStorage['syncQueue']
    wire,      \* requests <<tab, object>> the server has yet to receive
    answered,  \* tabs whose awaited request the server has answered with 200
    received,  \* the objects the server has received at least once
    fails,     \* requests that have failed so far
    reloads    \* pages closed or killed so far

runVars  == <<cur, todo, sent>>
netVars  == <<wire, answered, received>>
pageVars == <<online, queue, rec>>
cVars == <<ids, pageVars, runVars, disk, netVars, fails, reloads>>

-----------------------------------------------------------------------------

Objs == 1..MaxRecords
NoObj == 0
Statuses == {"pending", "syncing", "synced", "error"}
Fresh == [status |-> "pending", retryCount |-> 0]
Records == [status : Statuses, retryCount : 0..MaxRetries]

TypeOK ==
    /\ ids \in Seq(Ids) /\ Len(ids) <= MaxRecords
    /\ online \in [Tabs -> BOOLEAN]
    /\ queue \in [Tabs -> SUBSET DOMAIN ids]
    /\ rec \in [Tabs -> [Objs -> Records]]
    /\ cur \in [Tabs -> DOMAIN ids \cup {NoObj}]
    /\ todo \in [Tabs -> SUBSET DOMAIN ids]
    /\ sent \in [Tabs -> 0..BatchSize]
    /\ DOMAIN disk \subseteq DOMAIN ids /\ disk \in [DOMAIN disk -> Records]
    /\ wire \subseteq Tabs \X DOMAIN ids
    /\ answered \subseteq Tabs
    /\ received \subseteq DOMAIN ids
    /\ fails \in 0..MaxFails
    /\ reloads \in 0..MaxReloads

-----------------------------------------------------------------------------
(* The queue and its copy in localStorage.                                 *)

Saved(q, r) == [o \in q |-> r[o]]

(* saveSyncQueue: the whole queue is written, or setItem throws and the    *)
(* error is swallowed.                                                     *)
saveSyncQueue(q, r) ==
    \/ disk' = Saved(q, r)
    \/ StorageMayFail /\ UNCHANGED disk

(* Mutants: a record that has failed once is passed over; a record given   *)
(* up is sent again; clearing also drops the records given up; the filter  *)
(* is forgotten.                                                           *)
Pending_Untried(q, r) == {o \in q : r[o].status = "pending" /\ r[o].retryCount = 0}
Pending_OrError(q, r) == {o \in q : r[o].status \in {"pending", "error"}}
Synced_OrError(q, r) == {o \in q : r[o].status \in {"synced", "error"}}
WithoutId_All(q, i) == q

(* The objects triggerSync may send, those clearSyncedRecords drops, and   *)
(* those addToSyncQueue's filter keeps.                                    *)
Pending(q, r) == {o \in q : r[o].status = "pending"}
Synced(q, r) == {o \in q : r[o].status = "synced"}
WithoutId(q, i) == {o \in q : ids[o] # i}

(* syncInProgress: triggerSync sets it just before its first fetch and     *)
(* clears it right after the last answer.                                  *)
syncInProgress(t) == cur[t] # NoObj

IsFirst(o, S) == o \in S /\ \A p \in S : o <= p

-----------------------------------------------------------------------------
(* Running a sync.                                                         *)

(* The first object of S is marked 'syncing' and posted to /sync/queue;    *)
(* w are the requests already under way.                                   *)
StartFetch(t, r, S, w) ==
    \E o \in S :
        /\ IsFirst(o, S)
        /\ rec' = [rec EXCEPT ![t] = [r EXCEPT ![o].status = "syncing"]]
        /\ cur' = [cur EXCEPT ![t] = o]
        /\ todo' = [todo EXCEPT ![t] = S \ {o}]
        /\ wire' = w \cup {<<t, o>>}

(* triggerSync, as far as its first await, in a tab whose queue, objects   *)
(* and isOnline are q, r and on.                                           *)
triggerSync(t, q, r, on) ==
    IF on /\ ~syncInProgress(t) /\ Pending(q, r) # {}
    THEN /\ StartFetch(t, r, Pending(q, r), wire)
         /\ sent' = [sent EXCEPT ![t] = 1]
    ELSE /\ rec' = [rec EXCEPT ![t] = r]
         /\ UNCHANGED <<cur, todo, sent, wire>>

(* The rest of processSyncBatch and triggerSync after one record's answer, *)
(* which has left the objects as r: the next record of the batch, or the   *)
(* save that ends the batch and the next batch, or the end.                *)
Proceed(t, r, w) ==
    IF todo[t] = {}
    THEN /\ saveSyncQueue(queue[t], r)
         /\ rec' = [rec EXCEPT ![t] = r]
         /\ cur' = [cur EXCEPT ![t] = NoObj]
         /\ sent' = [sent EXCEPT ![t] = 0]
         /\ wire' = w
         /\ UNCHANGED todo
    ELSE /\ StartFetch(t, r, todo[t], w)
         /\ IF sent[t] = BatchSize
            THEN /\ saveSyncQueue(queue[t], r)
                 /\ sent' = [sent EXCEPT ![t] = 1]
            ELSE /\ sent' = [sent EXCEPT ![t] = @ + 1]
                 /\ UNCHANGED disk

(* Mutants: a record is never given up; the limit is compared with >       *)
(* instead of >=.                                                          *)
Failed_Forever(x) == [status |-> "pending", retryCount |-> x.retryCount + 1]
Failed_OneMore(x) ==
    [status |-> IF x.retryCount + 1 > MaxRetries THEN "error" ELSE "pending",
     retryCount |-> x.retryCount + 1]

(* Mutant: the record is given up one failure too soon.                    *)
Failed_TooSoon(x) ==
    [status |-> IF x.retryCount + 2 >= MaxRetries THEN "error" ELSE "pending",
     retryCount |-> x.retryCount + 1]

(* A failed attempt: back to 'pending', or 'error' for good.               *)
Failed(x) ==
    [status |-> IF x.retryCount + 1 >= MaxRetries THEN "error" ELSE "pending",
     retryCount |-> x.retryCount + 1]

-----------------------------------------------------------------------------
(* The handlers.                                                           *)

(* addToSyncQueue, whatever helper called it (VesselSyncHelper).           *)
addToSyncQueue(t, i) ==
    /\ Len(ids) < MaxRecords
    /\ LET o == Len(ids) + 1
           q == WithoutId(queue[t], i) \cup {o}
           r == [rec[t] EXCEPT ![o] = Fresh]
       IN  /\ ids' = Append(ids, i)
           /\ queue' = [queue EXCEPT ![t] = q]
           /\ saveSyncQueue(q, r)
           /\ triggerSync(t, q, r, online[t])
    /\ UNCHANGED <<online, answered, received, fails, reloads>>

(* The 30-second timer, the timer that follows start-up, a visibility      *)
(* change and forceSync: each calls triggerSync.                           *)
Trigger(t) ==
    /\ online[t] /\ ~syncInProgress(t) /\ Pending(queue[t], rec[t]) # {}
    /\ triggerSync(t, queue[t], rec[t], online[t])
    /\ UNCHANGED <<ids, online, queue, disk, answered, received, fails, reloads>>

GoOnline(t) ==
    /\ ~online[t]
    /\ online' = [online EXCEPT ![t] = TRUE]
    /\ triggerSync(t, queue[t], rec[t], TRUE)
    /\ UNCHANGED <<ids, queue, disk, answered, received, fails, reloads>>

GoOffline(t) ==
    /\ online[t]
    /\ online' = [online EXCEPT ![t] = FALSE]
    /\ UNCHANGED <<ids, queue, rec, runVars, disk, netVars, fails, reloads>>

(* Mutant: any answer is taken for the one the page awaits.                *)
ServerAccept_AnyAnswer(t, o) ==
    /\ <<t, o>> \in wire
    /\ wire' = wire \ {<<t, o>>}
    /\ received' = received \cup {o}
    /\ answered' = IF syncInProgress(t) THEN answered \cup {t} ELSE answered
    /\ UNCHANGED <<ids, pageVars, runVars, disk, fails, reloads>>

(* The server receives a request.  Its answer is of use only to a page     *)
(* that still awaits it.                                                   *)
ServerAccept(t, o) ==
    /\ <<t, o>> \in wire
    /\ wire' = wire \ {<<t, o>>}
    /\ received' = received \cup {o}
    /\ answered' = IF cur[t] = o THEN answered \cup {t} ELSE answered
    /\ UNCHANGED <<ids, pageVars, runVars, disk, fails, reloads>>

(* The awaited fetch resolves with result.success: 'synced'.               *)
Succeed(t) ==
    /\ t \in answered
    /\ Proceed(t, [rec[t] EXCEPT ![cur[t]].status = "synced"], wire)
    /\ answered' = answered \ {t}
    /\ UNCHANGED <<ids, online, queue, received, fails, reloads>>

(* The awaited fetch rejects or the status is not 2xx: the request or its  *)
(* answer was lost, or the request is still on its way when the browser    *)
(* gives up.                                                               *)
Fail(t) ==
    /\ syncInProgress(t)
    /\ fails < MaxFails
    /\ fails' = fails + 1
    /\ \E w \in {wire, wire \ {<<t, cur[t]>>}} :
          Proceed(t, [rec[t] EXCEPT ![cur[t]] = Failed(@)], w)
    /\ answered' = answered \ {t}
    /\ UNCHANGED <<ids, online, queue, received, reloads>>

(* clearSyncedRecords saves the queue also when nothing is cleared, over   *)
(* whatever another tab has saved.                                         *)
clearSyncedRecords(t) ==
    LET q == queue[t] \ Synced(queue[t], rec[t])
    IN  /\ queue' = [queue EXCEPT ![t] = q]
        /\ saveSyncQueue(q, rec[t])
        /\ UNCHANGED <<ids, online, rec, runVars, netVars, fails, reloads>>

(* The constructor of a new page over what localStorage holds (disk').     *)
(* The browser cancels the dead page's request, if it is not too late.     *)
StartPage(t) ==
    /\ queue' = [queue EXCEPT ![t] = DOMAIN disk']
    /\ rec' = [rec EXCEPT ![t] =
                 [o \in Objs |-> IF o \in DOMAIN disk' THEN disk'[o] ELSE Fresh]]
    /\ cur' = [cur EXCEPT ![t] = NoObj]
    /\ todo' = [todo EXCEPT ![t] = {}]
    /\ sent' = [sent EXCEPT ![t] = 0]
    /\ \E on \in BOOLEAN : online' = [online EXCEPT ![t] = on]
    /\ answered' = answered \ {t}
    /\ wire' \in {wire, wire \ {<<t, cur[t]>>}}
    /\ reloads < MaxReloads
    /\ reloads' = reloads + 1
    /\ UNCHANGED <<ids, received, fails>>

(* The page is left or reloaded: beforeunload saves the queue.             *)
Reload(t) == saveSyncQueue(queue[t], rec[t]) /\ StartPage(t)

(* The browser or the tab is killed: nothing is saved.                     *)
Crash(t) == UNCHANGED disk /\ StartPage(t)

-----------------------------------------------------------------------------

Init ==
    /\ ids = <<>>
    /\ online \in [Tabs -> BOOLEAN]
    /\ queue = [t \in Tabs |-> {}]
    /\ rec = [t \in Tabs |-> [o \in Objs |-> Fresh]]
    /\ cur = [t \in Tabs |-> NoObj]
    /\ todo = [t \in Tabs |-> {}]
    /\ sent = [t \in Tabs |-> 0]
    /\ disk = <<>>
    /\ wire = {} /\ answered = {} /\ received = {}
    /\ fails = 0 /\ reloads = 0

TabStep(t) ==
    \/ \E i \in Ids : addToSyncQueue(t, i)
    \/ Trigger(t) \/ GoOnline(t) \/ GoOffline(t)
    \/ Succeed(t) \/ Fail(t) \/ clearSyncedRecords(t)
    \/ Reload(t) \/ Crash(t)

Next ==
    \/ \E t \in Tabs : TabStep(t)
    \/ \E t \in Tabs, o \in Objs : ServerAccept(t, o)

Spec == Init /\ [][Next]_cVars

(* The timer never stops, connectivity returns, and a request that does    *)
(* not fail is received and answered.                                      *)
Fairness ==
    /\ \A t \in Tabs : SF_cVars(Trigger(t)) /\ WF_cVars(GoOnline(t)) /\ WF_cVars(Succeed(t))
    /\ \A t \in Tabs, o \in Objs : WF_cVars(ServerAccept(t, o))

FairSpec == Spec /\ Fairness

-----------------------------------------------------------------------------
(* Properties.                                                             *)

(* A record shown as 'synced', in any tab or in localStorage, was received *)
(* by the server: lost and late answers, replaced objects and reloads      *)
(* never make it so.                                                       *)
SyncedWasReceived ==
    /\ \A t \in Tabs, o \in Objs : rec[t][o].status = "synced" => o \in received
    /\ \A o \in DOMAIN disk : disk[o].status = "synced" => o \in received

(* A tab's queue and localStorage hold one record per id at most, so a     *)
(* reload never brings a replaced record back beside its replacement.      *)
OnePerId ==
    LET Unique(q) == \A o, p \in q : ids[o] = ids[p] => o = p
    IN  Unique(DOMAIN disk) /\ \A t \in Tabs : Unique(queue[t])

(* The retry counter and the status agree: a record that may still be sent *)
(* has failed fewer than maxRetries times, and only exhausted ones are     *)
(* given up, whichever way page lives and batches interleave.              *)
RetryBudget ==
    LET Sound(x) == /\ x.status \in {"pending", "syncing"} => x.retryCount < MaxRetries
                    /\ x.status = "error" => x.retryCount = MaxRetries
    IN  /\ \A t \in Tabs, o \in Objs : Sound(rec[t][o])
        /\ \A o \in DOMAIN disk : Sound(disk[o])

(* A running sync stays sound while records are added, replaced and        *)
(* cleared under it: what it awaits is marked 'syncing', what it has yet   *)
(* to send is still 'pending', and the answer it is about to act on is the *)
(* answer to the record it awaits.                                         *)
RunIsSound ==
    \A t \in Tabs :
        /\ t \in answered => syncInProgress(t) /\ cur[t] \in received
        /\ syncInProgress(t) => rec[t][cur[t]].status = "syncing"
        /\ \A o \in todo[t] : rec[t][o].status = "pending"
        /\ ~syncInProgress(t) => todo[t] = {}
        /\ cur[t] \notin todo[t]

(* With one tab, and a localStorage that takes what is written, the queue  *)
(* is a durable outbox: a new record replaces its namesake, only records   *)
(* the server has received are dropped, and neither leaving nor killing    *)
(* the page changes it.                                                    *)
Tab == CHOOSE t \in Tabs : TRUE
Outbox == INSTANCE DurableOutbox WITH outbox <- queue[Tab]
ImplementsOutbox == Outbox!Spec

(* A newer record took its place.                                          *)
Replaced(o) == \E p \in DOMAIN ids : p > o /\ ids[p] = ids[o]

(* Until a page is closed or killed, no record is forgotten by every tab:  *)
(* unless the server has it or a newer one took its place, it stands in    *)
(* some tab's queue and that tab will send it or awaits its answer, or so  *)
(* many requests have failed that it may have been given up.               *)
StillDue ==
    reloads = 0 => \A o \in DOMAIN ids :
        \/ o \in received \/ Replaced(o)
        \/ \E t \in Tabs :
              /\ o \in queue[t]
              /\ rec[t][o].status = "pending" \/ cur[t] = o \/ fails >= MaxRetries

(* "Will sync when online": a record that was made is in the end received  *)
(* by the server, unless a newer one took its place.                       *)
WillSyncWhenOnline ==
    \A o \in Objs : o \in DOMAIN ids ~> (o \in received \/ Replaced(o))

(* The same, for as long as no page dies and fewer than maxRetries         *)
(* requests have failed.                                                   *)
SyncsWhileOpen ==
    \A o \in Objs :
        o \in DOMAIN ids ~> \/ o \in received \/ Replaced(o)
                           \/ reloads > 0 \/ fails >= MaxRetries

=============================================================================
