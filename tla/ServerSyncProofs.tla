-------------------------- MODULE ServerSyncProofs --------------------------
(***************************************************************************)
(* Theorems about ServerSync, for any number of workers, ids, rows and     *)
(* retries and any batch size.                                             *)
(***************************************************************************)
EXTENDS ServerSync, TLAPS

USE RowsAssumption, PayloadsAssumption, OperationsAssumption, LimitsAssumption, ServerBounds

(* A record's attempts and its two sides agree with its status.            *)
Sound(r) ==
    /\ IF r.status = "error" THEN r.retry_count = MaxRetry ELSE r.retry_count < MaxRetry
    /\ r.status = "conflict" <=> r.conflict_data # NoRow

(* A queue q during a batch that has the ids b left: what the batch is to  *)
(* process is still pending, which is why mark_as_error cannot go past     *)
(* max_retry_count.                                                        *)
QueueOK(q, b) ==
    /\ q \subseteq SyncRecord
    /\ \A r, s \in q : r.id = s.id => r = s
    /\ \A r \in q : Sound(r)
    /\ \A r \in q : r.id \in b => r.status = "pending"

Inv == TypeOK /\ \A w \in Workers : QueueOK(sync_queue[w], batch[w])

-----------------------------------------------------------------------------
(* The operators on a queue.                                               *)

LEMMA AddedOK ==
    ASSUME NEW q, QueueOK(q, {}), NEW r \in SyncRecord, Sound(r)
    PROVE  QueueOK(Added(q, r), {})
    BY DEF QueueOK, Added

LEMMA SubsetOK ==
    ASSUME NEW q, NEW b, QueueOK(q, b), NEW q2 \in SUBSET q
    PROVE  QueueOK(q2, b)
    BY DEF QueueOK

(* One record of a queue is replaced by another of its id.                 *)
LEMMA ReplacedOK ==
    ASSUME NEW q, NEW b, QueueOK(q, b), NEW r \in q, NEW new \in SyncRecord, new.id = r.id,
           Sound(new), NEW b2 \in SUBSET b, r.id \in b2 => new.status = "pending"
    PROVE  QueueOK((q \ {r}) \cup {new}, b2)
    BY DEF QueueOK

LEMMA MarksAreSound ==
    ASSUME NEW r \in SyncRecord, Sound(r), r.status = "pending", NEW server \in Row \cup {NoRow}
    PROVE  /\ mark_as_synced(r) \in SyncRecord /\ Sound(mark_as_synced(r))
           /\ mark_as_synced(r).id = r.id
           /\ mark_as_error(r) \in SyncRecord /\ Sound(mark_as_error(r))
           /\ mark_as_error(r).id = r.id
           /\ mark_as_conflict(r, server) \in SyncRecord /\ mark_as_conflict(r, server).id = r.id
           /\ server # NoRow => Sound(mark_as_conflict(r, server))
    <1>1. mark_as_synced(r) \in SyncRecord /\ Sound(mark_as_synced(r)) /\ mark_as_synced(r).id = r.id
        BY DEF mark_as_synced, Sound, SyncRecord, SyncStatus
    <1>2. mark_as_error(r) \in SyncRecord /\ Sound(mark_as_error(r)) /\ mark_as_error(r).id = r.id
        <2> DEFINE n == r.retry_count + 1
                   st == IF n < MaxRetry THEN "pending" ELSE "error"
        <2>1. r.retry_count \in Nat /\ r.retry_count < MaxRetry /\ r.conflict_data = NoRow
            BY DEF Sound, SyncRecord
        <2>2. n \in 0..MaxRetry /\ (n < MaxRetry \/ n = MaxRetry)
            BY <2>1
        <2>3. mark_as_error(r) = [r EXCEPT !.retry_count = n, !.status = st] /\ st \in SyncStatus
            BY DEF mark_as_error, SyncStatus
        <2> HIDE DEF n, st
        <2>4. /\ mark_as_error(r) \in SyncRecord /\ mark_as_error(r).id = r.id
              /\ mark_as_error(r).retry_count = n /\ mark_as_error(r).status = st
              /\ mark_as_error(r).conflict_data = r.conflict_data
            <3> DEFINE new == [r EXCEPT !.retry_count = n, !.status = st]
            <3>1. /\ new \in SyncRecord /\ new.id = r.id /\ new.retry_count = n /\ new.status = st
                  /\ new.conflict_data = r.conflict_data
                BY <2>2, <2>3 DEF SyncRecord
            <3> HIDE DEF new
            <3>2. mark_as_error(r) = new
                BY <2>3 DEF new
            <3>3. QED BY <3>1, <3>2
        <2>5. Sound(mark_as_error(r))
            BY <2>1, <2>2, <2>4 DEF Sound, st
        <2>6. QED BY <2>4, <2>5
    <1>3. /\ mark_as_conflict(r, server) \in SyncRecord /\ mark_as_conflict(r, server).id = r.id
          /\ server # NoRow => Sound(mark_as_conflict(r, server))
        BY DEF mark_as_conflict, Sound, SyncRecord, SyncStatus
    <1>4. QED BY <1>1, <1>2, <1>3

(* A mark is an outcome or an attempt, and the record keeps its place.     *)
LEMMA MarksAreTries ==
    ASSUME NEW r \in SyncRecord, r.status = "pending", NEW server
    PROVE  /\ Tried(r, mark_as_synced(r)) /\ mark_as_synced(r).at = r.at
           /\ Tried(r, mark_as_conflict(r, server)) /\ mark_as_conflict(r, server).at = r.at
           /\ Tried(r, mark_as_error(r)) /\ mark_as_error(r).at = r.at
    <1>1. Tried(r, mark_as_synced(r)) /\ mark_as_synced(r).at = r.at
        BY DEF mark_as_synced, Tried, SyncRecord
    <1>2. Tried(r, mark_as_conflict(r, server)) /\ mark_as_conflict(r, server).at = r.at
        BY DEF mark_as_conflict, Tried, SyncRecord
    <1>3. Tried(r, mark_as_error(r)) /\ mark_as_error(r).at = r.at
        BY DEF mark_as_error, Tried, SyncRecord
    <1>4. QED BY <1>1, <1>2, <1>3

LEMMA ResolvedIsReopened ==
    ASSUME NEW r \in SyncRecord, r.status = "conflict", NEW how \in Resolutions
    PROVE  Reopened(r, Resolved(r, how)) /\ Resolved(r, how).at = r.at
    BY DEF Resolved, Reopened, SyncRecord

LEMMA ResolvedIsSound ==
    ASSUME NEW r \in SyncRecord, Sound(r), r.status = "conflict", NEW how \in Resolutions
    PROVE  Resolved(r, how) \in SyncRecord /\ Sound(Resolved(r, how)) /\ Resolved(r, how).id = r.id
    <1>1. r.conflict_data \in Row /\ r.data \in Row /\ r.tagged \in BOOLEAN
        BY DEF Sound, SyncRecord
    <1>2. [oper |-> r.data.oper, static |-> r.conflict_data.static] \in Row
        BY <1>1 DEF Row
    <1>3. CASE how = "client_wins"
        BY <1>1, <1>3 DEF Resolved, Sound, SyncRecord, SyncStatus
    <1>4. CASE how = "server_wins"
        BY <1>1, <1>4 DEF Resolved, Sound, SyncRecord, SyncStatus
    <1>5. CASE how = "merge"
        BY <1>1, <1>2, <1>5 DEF Resolved, Sound, SyncRecord, SyncStatus
    <1>6. QED BY <1>3, <1>4, <1>5 DEF Resolutions

(* Only a vessel's row that is there can be in conflict, and a vessel's    *)
(* update succeeds only with the very data of the row.                     *)
LEMMA OutcomeFacts ==
    ASSUME NEW r \in SyncRecord, NEW server, NEW out \in Outcomes(r, server)
    PROVE  /\ out \in {"success", "conflict", "error", "flush"}
           /\ out = "conflict" => server # NoRow
           /\ out = "success" /\ r.key \in VesselRows => r.data = server
    BY DEF Outcomes, SameHash, SyncRecord

-----------------------------------------------------------------------------

LEMMA InitInv == Init => Inv
    <1> SUFFICES ASSUME Init PROVE Inv
        OBVIOUS
    <1>1. TypeOK
        BY DEF Init, TypeOK, Row
    <1>2. \A w \in Workers : QueueOK(sync_queue[w], batch[w])
        BY DEF Init, QueueOK
    <1>3. QED BY <1>1, <1>2 DEF Inv

(* A step that leaves queues and batches alone.                            *)
LEMMA QuietOK ==
    ASSUME Inv, UNCHANGED <<sync_queue, batch>>, TypeOK'
    PROVE  Inv'
    BY DEF Inv, QueueOK

(* A step that changes the queue and the batch of one worker.              *)
LEMMA LocalOK ==
    ASSUME Inv, TypeOK', NEW w \in Workers, NEW q, NEW b,
           sync_queue' = [sync_queue EXCEPT ![w] = q], batch' = [batch EXCEPT ![w] = b],
           QueueOK(q, b)
    PROVE  Inv'
    <1>1. \A v \in Workers : QueueOK(sync_queue'[v], batch'[v])
        BY DEF Inv, TypeOK
    <1>2. QED BY <1>1 DEF Inv, QueueOK

LEMMA AddInv ==
    ASSUME Inv, NEW w \in Workers, NEW id \in SyncIds, NEW op \in Operations, NEW k \in Rows,
           NEW data \in Payloads, AddToSyncQueue(w, id, op, k, data)
    PROVE  Inv'
    <1> DEFINE r == [id |-> id, at |-> posts + 1, operation |-> op, key |-> k, data |-> data,
                     tagged |-> TRUE, status |-> "pending", conflict_data |-> NoRow,
                     retry_count |-> 0]
    <1>1. TypeOK /\ QueueOK(sync_queue[w], {}) /\ batch[w] = {}
        BY DEF Inv, AddToSyncQueue, Idle
    <1>2. r \in SyncRecord /\ Sound(r)
        BY <1>1 DEF AddToSyncQueue, SyncRecord, SyncStatus, Row, Sound, TypeOK
    <1>3. sync_queue' = [sync_queue EXCEPT ![w] = Added(sync_queue[w], r)] /\ batch' = batch
        BY DEF AddToSyncQueue
    <1> HIDE DEF r
    <1>4. QueueOK(Added(sync_queue[w], r), {})
        BY <1>1, <1>2, AddedOK
    <1>5. Added(sync_queue[w], r) \subseteq SyncRecord
        BY <1>4 DEF QueueOK
    <1>6. TypeOK'
        BY <1>1, <1>3, <1>5 DEF TypeOK, AddToSyncQueue
    <1>7. batch' = [batch EXCEPT ![w] = {}]
        BY <1>1, <1>3 DEF TypeOK
    <1>8. QED BY <1>3, <1>4, <1>6, <1>7, LocalOK

(* The ids of a new batch are those of pending records.                    *)
LEMMA BeginOK ==
    ASSUME Inv, NEW w \in Workers, NEW isForced \in BOOLEAN, Begin(w, isForced)
    PROVE  /\ \E b \in SUBSET SyncIds :
                 batch' = [batch EXCEPT ![w] = b] /\ QueueOK(sync_queue[w], b)
           /\ {forced', poisoned'} \subseteq [Workers -> BOOLEAN]
           /\ batch' \in [Workers -> SUBSET SyncIds]
    <1> DEFINE pending == get_pending_sync_records(w)
               Before(r) == {s \in pending : s.at < r.at}
               first == {r \in pending : Cardinality(Before(r)) < BatchLimit}
               b == {r.id : r \in first}
    <1>1. QueueOK(sync_queue[w], batch[w])
        BY DEF Inv
    <1>2. first \subseteq pending /\ pending \subseteq sync_queue[w]
        BY DEF get_pending_sync_records
    <1>3. \A r \in pending : r.status = "pending"
        BY DEF get_pending_sync_records
    <1>4. batch' = [batch EXCEPT ![w] = b]
        BY DEF Begin
    <1> HIDE DEF pending, first
    <1>5. b \subseteq SyncIds
        BY <1>1, <1>2 DEF QueueOK, SyncRecord
    <1>6. QueueOK(sync_queue[w], b)
        BY <1>1, <1>2, <1>3 DEF QueueOK
    <1>7. {forced', poisoned'} \subseteq [Workers -> BOOLEAN]
        BY DEF Inv, TypeOK, Begin
    <1> HIDE DEF b
    <1>8. batch' \in [Workers -> SUBSET SyncIds]
        BY <1>4, <1>5 DEF Inv, TypeOK
    <1>9. QED BY <1>4, <1>5, <1>6, <1>7, <1>8

LEMMA ProcessBatchInv ==
    ASSUME Inv, NEW w \in Workers, ProcessSyncBatch(w)
    PROVE  Inv'
    <1>1. PICK b \in SUBSET SyncIds :
              batch' = [batch EXCEPT ![w] = b] /\ QueueOK(sync_queue[w], b)
        BY BeginOK DEF ProcessSyncBatch
    <1>2. TypeOK'
        BY BeginOK DEF Inv, TypeOK, ProcessSyncBatch, schedVars, countVars
    <1>3. sync_queue' = [sync_queue EXCEPT ![w] = sync_queue[w]]
        BY DEF Inv, TypeOK, ProcessSyncBatch
    <1>4. QED BY <1>1, <1>2, <1>3, LocalOK

LEMMA ForceSyncInv ==
    ASSUME Inv, NEW w \in Workers, ForceSync(w)
    PROVE  Inv'
    <1>1. should_sync(w) \in BOOLEAN
        BY DEF Inv, TypeOK, should_sync
    <1>2. CASE Begin(w, TRUE) /\ in_progress' = [in_progress EXCEPT ![w] = should_sync(w)]
                /\ UNCHANGED is_online
        <2>1. PICK b \in SUBSET SyncIds :
                  batch' = [batch EXCEPT ![w] = b] /\ QueueOK(sync_queue[w], b)
            BY <1>2, BeginOK
        <2>2. TypeOK'
            <3>1. {forced', poisoned'} \subseteq [Workers -> BOOLEAN] /\ batch' \in [Workers -> SUBSET SyncIds]
                BY <1>2, BeginOK
            <3>2. {in_progress', rested', is_online'} \subseteq [Workers -> BOOLEAN]
                BY <1>1, <1>2 DEF Inv, TypeOK, ForceSync
            <3>3. QED BY <3>1, <3>2 DEF Inv, TypeOK, ForceSync, countVars
        <2>3. sync_queue' = [sync_queue EXCEPT ![w] = sync_queue[w]]
            BY DEF Inv, TypeOK, ForceSync
        <2>4. QED BY <2>1, <2>2, <2>3, LocalOK
    <1>3. CASE complete_sync(w) /\ UNCHANGED <<batch, forced, poisoned>>
        <2>1. TypeOK'
            BY <1>1, <1>3 DEF Inv, TypeOK, ForceSync, complete_sync, countVars
        <2>2. QED BY <1>3, <2>1, QuietOK DEF ForceSync
    <1>4. QED BY <1>2, <1>3 DEF ForceSync

LEMMA ProcessRecordInv ==
    ASSUME Inv, NEW w \in Workers, ProcessRecord(w)
    PROVE  /\ Inv'
           /\ \A k \in VesselRows : row'[k] = row[k]
           /\ \E r \in sync_queue[w] : \E new :
                 /\ r.id \in batch[w] /\ batch' = [batch EXCEPT ![w] = @ \ {r.id}]
                 /\ Tried(r, new) /\ new.at = r.at
                 /\ sync_queue' = [sync_queue EXCEPT ![w] = (@ \ {r}) \cup {new}]
    <1>t. TypeOK /\ QueueOK(sync_queue[w], batch[w])
        BY DEF Inv
    <1> DEFINE Tries(r) == IF poisoned[w] THEN {"error"} ELSE Outcomes(r, row[r.key])
               rest(r) == batch[w] \ {r.id}
               Step(r, out) ==
                 /\ r.id \in batch[w]
                 /\ sync_queue' = [sync_queue EXCEPT ![w] =
                        {IF s.id = r.id THEN CASE out = "success" -> mark_as_synced(s)
                                               [] out = "conflict" -> mark_as_conflict(s, row[r.key])
                                               [] OTHER -> mark_as_error(s)
                         ELSE s : s \in sync_queue[w]}]
                 /\ row' = IF out = "success" THEN [row EXCEPT ![r.key] = r.data] ELSE row
                 /\ poisoned' = [poisoned EXCEPT ![w] = (poisoned[w] \/ out = "flush") /\ rest(r) # {}]
                 /\ batch' = [batch EXCEPT ![w] = rest(r)]
                 /\ IF forced[w] /\ rest(r) = {}
                    THEN complete_sync(w) /\ forced' = [forced EXCEPT ![w] = FALSE]
                    ELSE UNCHANGED <<in_progress, is_online, forced>>
                 /\ UNCHANGED <<rested, countVars>>
    <1>a. PICK r \in sync_queue[w] : \E out \in Tries(r) : Step(r, out)
        BY DEF ProcessRecord, Changed
    <1>b. PICK out \in Tries(r) : Step(r, out)
        BY <1>a
    <1>1. Step(r, out)
        BY <1>b
    <1> DEFINE Mark == CASE out = "success" -> mark_as_synced(r)
                         [] out = "conflict" -> mark_as_conflict(r, row[r.key])
                         [] OTHER -> mark_as_error(r)
    <1>2. r \in SyncRecord /\ Sound(r) /\ r.status = "pending" /\ r.key \in Rows
        BY <1>1, <1>t DEF QueueOK, SyncRecord
    <1>3. row[r.key] \in Row \cup {NoRow}
        BY <1>2, <1>t DEF TypeOK
    <1>4. /\ out \in {"success", "conflict", "error", "flush"}
          /\ out = "conflict" => row[r.key] # NoRow
          /\ out = "success" /\ r.key \in VesselRows => r.data = row[r.key]
        BY <1>b, <1>2, OutcomeFacts
    <1>5. Mark \in SyncRecord /\ Mark.id = r.id /\ Sound(Mark)
        BY <1>2, <1>3, <1>4, MarksAreSound
    <1>11. Tried(r, Mark) /\ Mark.at = r.at
        BY <1>2, <1>4, MarksAreTries
    <1>6. sync_queue' = [sync_queue EXCEPT ![w] = (sync_queue[w] \ {r}) \cup {Mark}]
        <2>1. \A s \in sync_queue[w] : s.id = r.id <=> s = r
            BY <1>t, <1>1 DEF QueueOK
        <2>2. {IF s.id = r.id THEN CASE out = "success" -> mark_as_synced(s)
                                     [] out = "conflict" -> mark_as_conflict(s, row[r.key])
                                     [] OTHER -> mark_as_error(s)
               ELSE s : s \in sync_queue[w]}
              = (sync_queue[w] \ {r}) \cup {Mark}
            BY <2>1
        <2>3. QED BY <1>1, <2>2
    <1> HIDE DEF Mark
    <1>7. QueueOK((sync_queue[w] \ {r}) \cup {Mark}, rest(r))
        BY <1>t, <1>2, <1>5, ReplacedOK
    <1>8. row' \in [Rows -> Row \cup {NoRow}] /\ \A k \in VesselRows : row'[k] = row[k]
        <2>1. r.data \in Row
            BY <1>2 DEF SyncRecord
        <2>2. QED BY <1>t, <1>1, <1>2, <1>4, <2>1 DEF TypeOK, Rows
    <1>9. TypeOK'
        <2>1. (sync_queue[w] \ {r}) \cup {Mark} \in SUBSET SyncRecord /\ rest(r) \in SUBSET SyncIds
            BY <1>7, <1>t DEF QueueOK, TypeOK
        <2>2. sync_queue' \in [Workers -> SUBSET SyncRecord] /\ batch' \in [Workers -> SUBSET SyncIds]
            BY <1>t, <1>1, <1>6, <2>1 DEF TypeOK
        <2>3. {forced', in_progress', rested', is_online'} \subseteq [Workers -> BOOLEAN]
            <3>1. \/ complete_sync(w) /\ forced' = [forced EXCEPT ![w] = FALSE]
                  \/ UNCHANGED <<in_progress, is_online, forced>>
                BY <1>1
            <3>2. UNCHANGED rested
                BY <1>1
            <3>3. forced' \in [Workers -> BOOLEAN]
                BY <1>t, <3>1 DEF TypeOK
            <3>4. {in_progress', is_online'} \subseteq [Workers -> BOOLEAN]
                BY <1>t, <3>1 DEF TypeOK, complete_sync
            <3>5. rested' \in [Workers -> BOOLEAN]
                BY <1>t, <3>2 DEF TypeOK
            <3>6. QED BY <3>3, <3>4, <3>5
        <2>5. poisoned' \in [Workers -> BOOLEAN]
            <3>1. ((poisoned[w] \/ out = "flush") /\ rest(r) # {}) \in BOOLEAN
                OBVIOUS
            <3> HIDE DEF rest
            <3>2. QED BY <1>t, <1>1, <3>1 DEF TypeOK
        <2>4. QED BY <1>t, <1>1, <1>8, <2>2, <2>3, <2>5 DEF TypeOK, countVars
    <1>12. batch' = [batch EXCEPT ![w] = batch[w] \ {r.id}]
        BY <1>1
    <1> HIDE DEF rest
    <1>13. Inv'
        BY <1>1, <1>6, <1>7, <1>9, LocalOK
    <1>10. QED BY <1>1, <1>6, <1>8, <1>11, <1>12, <1>13

LEMMA ResolveInv ==
    ASSUME Inv, NEW w \in Workers, NEW id \in SyncIds, NEW how \in Resolutions,
           ResolveConflict(w, id, how)
    PROVE  /\ Inv'
           /\ \E r \in sync_queue[w] : \E new :
                 /\ Reopened(r, new) /\ new.at = r.at
                 /\ sync_queue' = [sync_queue EXCEPT ![w] = (@ \ {r}) \cup {new}]
    <1>1. TypeOK /\ QueueOK(sync_queue[w], {}) /\ batch[w] = {}
        BY DEF Inv, ResolveConflict, Idle
    <1>2. PICK r \in sync_queue[w] : r.id = id /\ r.status = "conflict"
        BY DEF ResolveConflict
    <1>3. r \in SyncRecord /\ Sound(r)
        BY <1>1 DEF QueueOK
    <1> DEFINE new == Resolved(r, how)
    <1>4. new \in SyncRecord /\ Sound(new) /\ new.id = r.id
        BY <1>2, <1>3, ResolvedIsSound
    <1>5. sync_queue' = [sync_queue EXCEPT ![w] = (sync_queue[w] \ {r}) \cup {new}]
        <2>1. \A s \in sync_queue[w] : s.id = id <=> s = r
            BY <1>1, <1>2 DEF QueueOK
        <2>2. {IF s.id = id THEN Resolved(s, how) ELSE s : s \in sync_queue[w]}
              = (sync_queue[w] \ {r}) \cup {new}
            BY <2>1
        <2>3. QED BY <2>2 DEF ResolveConflict, Changed
    <1> HIDE DEF new
    <1>6. QueueOK((sync_queue[w] \ {r}) \cup {new}, {})
        BY <1>1, <1>4, ReplacedOK
    <1>7. (sync_queue[w] \ {r}) \cup {new} \in SUBSET SyncRecord
        BY <1>6 DEF QueueOK
    <1>8. TypeOK'
        <2>1. sync_queue' \in [Workers -> SUBSET SyncRecord]
            BY <1>1, <1>5, <1>7 DEF TypeOK
        <2>2. /\ UNCHANGED <<row, batch, forced, poisoned, schedVars, posts, edits, restarts>>
              /\ resolves < MaxResolves /\ resolves' = resolves + 1
            BY DEF ResolveConflict
        <2>3. QED BY <1>1, <2>1, <2>2 DEF TypeOK, schedVars
    <1>9. batch' = [batch EXCEPT ![w] = {}]
        BY <1>1 DEF TypeOK, ResolveConflict
    <1>10. Inv'
        BY <1>5, <1>6, <1>8, <1>9, LocalOK
    <1>11. Reopened(r, new) /\ new.at = r.at
        BY <1>2, <1>3, ResolvedIsReopened DEF new
    <1>12. QED BY <1>5, <1>10, <1>11

LEMMA CleanupInv ==
    ASSUME Inv, NEW w \in Workers, CleanupSyncRecords(w)
    PROVE  Inv'
    <1>1. PICK last \in sync_queue[w] :
              sync_queue' = [sync_queue EXCEPT ![w] =
                                {r \in sync_queue[w] : r.status # "synced" \/ r.at > last.at}]
        BY DEF CleanupSyncRecords
    <1> DEFINE q == {r \in sync_queue[w] : r.status # "synced" \/ r.at > last.at}
    <1>2. TypeOK /\ QueueOK(sync_queue[w], batch[w]) /\ q \in SUBSET sync_queue[w]
        BY DEF Inv
    <1> HIDE DEF q
    <1>3. QueueOK(q, batch[w])
        BY <1>2, SubsetOK
    <1>4. TypeOK'
        BY <1>1, <1>2 DEF TypeOK, CleanupSyncRecords, schedVars, countVars, q
    <1>5. batch' = [batch EXCEPT ![w] = batch[w]]
        BY <1>2 DEF TypeOK, CleanupSyncRecords
    <1>6. QED BY <1>1, <1>3, <1>4, <1>5, LocalOK DEF q

LEMMA RestartInv ==
    ASSUME Inv, NEW w \in Workers, Restart(w)
    PROVE  Inv'
    <1>1. QueueOK({}, {})
        BY DEF QueueOK
    <1>2. TypeOK'
        BY DEF Inv, TypeOK, Restart
    <1>3. QED BY <1>1, <1>2, LocalOK DEF Restart

LEMMA StepInv == Inv /\ [Next]_sVars => Inv'
    <1> SUFFICES ASSUME Inv, [Next]_sVars PROVE Inv'
        OBVIOUS
    <1>1. ASSUME NEW w \in Workers, NEW id \in SyncIds, NEW op \in Operations, NEW k \in Rows,
                 NEW data \in Payloads, AddToSyncQueue(w, id, op, k, data)
          PROVE Inv'
        BY <1>1, AddInv
    <1>2. ASSUME NEW w \in Workers, Batch(w) PROVE Inv'
        BY <1>2, ProcessBatchInv, ForceSyncInv, ProcessRecordInv DEF Batch
    <1>3. ASSUME NEW w \in Workers, NEW id \in SyncIds, NEW how \in Resolutions,
                 ResolveConflict(w, id, how)
          PROVE Inv'
        BY <1>3, ResolveInv
    <1>4. ASSUME NEW w \in Workers, NEW on \in BOOLEAN, UpdateNetworkStatus(w, on) PROVE Inv'
        <2>1. TypeOK'
            BY <1>4 DEF Inv, TypeOK, UpdateNetworkStatus, queueVars, countVars
        <2>2. QED BY <1>4, <2>1, QuietOK DEF UpdateNetworkStatus, queueVars
    <1>5. ASSUME NEW w \in Workers, CleanupSyncRecords(w) PROVE Inv'
        BY <1>5, CleanupInv
    <1>6. ASSUME NEW w \in Workers, Rest(w) PROVE Inv'
        <2>1. TypeOK'
            BY <1>6 DEF Inv, TypeOK, Rest, queueVars, countVars
        <2>2. QED BY <1>6, <2>1, QuietOK DEF Rest, queueVars
    <1>7. ASSUME NEW w \in Workers, Restart(w) PROVE Inv'
        BY <1>7, RestartInv
    <1>8. ASSUME NEW k \in Rows, NEW data \in Payloads, Edit(k, data) PROVE Inv'
        <2>1. TypeOK'
            BY <1>8 DEF Inv, TypeOK, Edit, queueVars, schedVars, Row
        <2>2. QED BY <1>8, <2>1, QuietOK DEF Edit, queueVars
    <1>9. CASE UNCHANGED sVars
        <2>1. TypeOK'
            BY <1>9 DEF Inv, TypeOK, sVars, queueVars, schedVars, countVars
        <2>2. QED BY <1>9, <2>1, QuietOK DEF sVars, queueVars
    <1>10. QED BY <1>1, <1>2, <1>3, <1>4, <1>5, <1>6, <1>7, <1>8, <1>9 DEF Next

LEMMA SpecInv == Spec => []Inv
    BY InitInv, StepInv, PTL DEF Spec

-----------------------------------------------------------------------------
(* The places of the records in a queue.                                   *)

(* No two records of a queue have the same place, and the records posted   *)
(* so far took the places up to n.                                         *)
Numbered(q, n) ==
    /\ \A r, s \in q : r.at = s.at => r = s
    /\ \A r \in q : r.at \in 1..n

PlaceInv == \A w \in Workers : Numbered(sync_queue[w], posts)

(* How a step changes a worker's queue: it loses records, gets one more    *)
(* at the end, or one record is tried or reopened where it stands.         *)
Lost(w) == sync_queue'[w] \subseteq sync_queue[w] /\ posts' = posts
Joined(w) ==
    /\ posts' = posts + 1
    /\ \E r : r.at = posts + 1 /\ sync_queue'[w] \subseteq sync_queue[w] \cup {r}
TriedOne(w) ==
    /\ posts' = posts
    /\ \E r \in sync_queue[w] : \E new :
          /\ Tried(r, new) /\ new.at = r.at
          /\ r.id \in batch[w] /\ r.id \notin batch'[w]
          /\ sync_queue'[w] = (sync_queue[w] \ {r}) \cup {new}
ReopenedOne(w) ==
    /\ posts' = posts /\ resolves' = resolves + 1
    /\ \E r \in sync_queue[w] : \E new :
          /\ Reopened(r, new) /\ new.at = r.at
          /\ sync_queue'[w] = (sync_queue[w] \ {r}) \cup {new}
Kept(w) == sync_queue'[w] = sync_queue[w] /\ posts' \in {posts, posts + 1}

LEMMA QueueSteps ==
    ASSUME Inv, [Next]_sVars, NEW v \in Workers
    PROVE  Kept(v) \/ Lost(v) \/ Joined(v) \/ TriedOne(v) \/ ReopenedOne(v)
    <1> DEFINE Goal == Kept(v) \/ Lost(v) \/ Joined(v) \/ TriedOne(v) \/ ReopenedOne(v)
    <1>t. sync_queue \in [Workers -> SUBSET SyncRecord] /\ batch \in [Workers -> SUBSET SyncIds]
        BY DEF Inv, TypeOK
    <1>1. ASSUME NEW w \in Workers, NEW id \in SyncIds, NEW op \in Operations, NEW k \in Rows,
                 NEW data \in Payloads, AddToSyncQueue(w, id, op, k, data)
          PROVE  Kept(v) \/ Joined(v)
        <2> DEFINE r == [id |-> id, at |-> posts + 1, operation |-> op, key |-> k, data |-> data,
                         tagged |-> TRUE, status |-> "pending", conflict_data |-> NoRow,
                         retry_count |-> 0]
        <2>1. /\ sync_queue' = [sync_queue EXCEPT ![w] = Added(sync_queue[w], r)]
              /\ posts' = posts + 1
            BY <1>1 DEF AddToSyncQueue
        <2>2. r.at = posts + 1
            OBVIOUS
        <2> HIDE DEF r
        <2>3. Added(sync_queue[w], r) \subseteq sync_queue[w] \cup {r}
            BY DEF Added
        <2>4. QED BY <1>t, <2>1, <2>2, <2>3 DEF Kept, Joined
    <1>2. ASSUME NEW w \in Workers, ProcessSyncBatch(w) \/ ForceSync(w)
          PROVE  Kept(v)
        BY <1>2 DEF ProcessSyncBatch, ForceSync, countVars, Kept
    <1>3. ASSUME NEW w \in Workers, ProcessRecord(w)
          PROVE  Kept(v) \/ TriedOne(v)
        <2>1. \E r \in sync_queue[w] : \E new :
                  /\ r.id \in batch[w] /\ batch' = [batch EXCEPT ![w] = @ \ {r.id}]
                  /\ Tried(r, new) /\ new.at = r.at
                  /\ sync_queue' = [sync_queue EXCEPT ![w] = (@ \ {r}) \cup {new}]
            BY <1>3, ProcessRecordInv
        <2>2. posts' = posts
            BY <1>3 DEF ProcessRecord, countVars
        <2>3. QED BY <1>t, <2>1, <2>2 DEF Kept, TriedOne
    <1>4. ASSUME NEW w \in Workers, NEW id \in SyncIds, NEW how \in Resolutions,
                 ResolveConflict(w, id, how)
          PROVE  Kept(v) \/ ReopenedOne(v)
        <2>1. \E r \in sync_queue[w] : \E new :
                  /\ Reopened(r, new) /\ new.at = r.at
                  /\ sync_queue' = [sync_queue EXCEPT ![w] = (@ \ {r}) \cup {new}]
            BY <1>4, ResolveInv
        <2>2. posts' = posts /\ resolves' = resolves + 1
            BY <1>4 DEF ResolveConflict
        <2>3. QED BY <1>t, <2>1, <2>2 DEF Kept, ReopenedOne
    <1>5. ASSUME NEW w \in Workers, CleanupSyncRecords(w) \/ Restart(w)
          PROVE  Lost(v)
        BY <1>5, <1>t DEF CleanupSyncRecords, Restart, countVars, Lost
    <1>6. ASSUME \/ \E w \in Workers, on \in BOOLEAN : UpdateNetworkStatus(w, on)
                 \/ \E w \in Workers : Rest(w)
                 \/ \E k \in Rows, data \in Payloads : Edit(k, data)
          PROVE  Kept(v)
        BY <1>6 DEF UpdateNetworkStatus, Rest, Edit, queueVars, countVars, Kept
    <1>7. CASE UNCHANGED sVars
        BY <1>7 DEF sVars, queueVars, countVars, Kept
    <1>8. QED BY <1>1, <1>2, <1>3, <1>4, <1>5, <1>6, <1>7 DEF Next, Batch

LEMMA StepPlace == Inv /\ PlaceInv /\ [Next]_sVars => PlaceInv'
    <1> SUFFICES ASSUME Inv, PlaceInv, [Next]_sVars, NEW w \in Workers
                 PROVE  Numbered(sync_queue'[w], posts')
        BY DEF PlaceInv, Numbered
    <1>1. posts \in Nat /\ Numbered(sync_queue[w], posts)
        BY DEF Inv, TypeOK, PlaceInv
    <1>2. CASE Kept(w) \/ Lost(w)
        BY <1>1, <1>2 DEF Kept, Lost, Numbered
    <1>3. CASE Joined(w)
        BY <1>1, <1>3 DEF Joined, Numbered
    <1>4. CASE TriedOne(w) \/ ReopenedOne(w)
        BY <1>1, <1>4 DEF TriedOne, ReopenedOne, Numbered
    <1>5. QED BY <1>2, <1>3, <1>4, QueueSteps

LEMMA SpecPlace == Spec => []PlaceInv
    <1>1. Init => PlaceInv
        BY DEF Init, PlaceInv, Numbered
    <1>2. QED BY <1>1, SpecInv, StepPlace, PTL DEF Spec

-----------------------------------------------------------------------------

(* Every worker's queue, batch and scheduler keep their type.              *)
THEOREM ServerTypeOK == Spec => []TypeOK
    <1>1. Inv => TypeOK
        BY DEF Inv
    <1>2. QED BY <1>1, SpecInv, PTL

(* The marks of SyncManager, which go by id, always reach one record.      *)
THEOREM ServerOneRecordPerId == Spec => []OneRecordPerId
    <1>1. Inv => OneRecordPerId
        BY DEF Inv, QueueOK, OneRecordPerId
    <1>2. QED BY <1>1, SpecInv, PTL

(* mark_as_error gives up at max_retry_count, neither before nor after.    *)
THEOREM ServerKeepsRetryBudget == Spec => []ServerRetryBudget
    <1>1. Inv => ServerRetryBudget
        BY DEF Inv, QueueOK, Sound, ServerRetryBudget
    <1>2. QED BY <1>1, SpecInv, PTL

(* resolve_conflict always finds the server's row of the conflict.         *)
THEOREM ServerConflictHasTwoSides == Spec => []ConflictHasTwoSides
    <1>1. Inv => ConflictHasTwoSides
        BY DEF Inv, QueueOK, Sound, ConflictHasTwoSides
    <1>2. QED BY <1>1, SpecInv, PTL

(* No batch of any worker changes a vessel: only other routes do.          *)
THEOREM ServerQueueWritesNoVessel == Spec => QueueWritesNoVessel
    <1>1. Inv /\ [Next]_sVars => [\A k \in VesselRows : row'[k] # row[k] => edits' # edits]_sVars
        <2> SUFFICES ASSUME Inv, Next, NEW k \in VesselRows, row'[k] # row[k]
                     PROVE  edits' # edits
            BY DEF sVars
        <2>1. ASSUME NEW w \in Workers, NEW id \in SyncIds, NEW op \in Operations, NEW j \in Rows,
                     NEW data \in Payloads, AddToSyncQueue(w, id, op, j, data)
              PROVE  FALSE
            BY <2>1 DEF AddToSyncQueue
        <2>2. ASSUME NEW w \in Workers, Batch(w) PROVE FALSE
            BY <2>2, ProcessRecordInv DEF Batch, ProcessSyncBatch, ForceSync
        <2>3. ASSUME NEW w \in Workers, NEW id \in SyncIds, NEW how \in Resolutions,
                     ResolveConflict(w, id, how)
              PROVE  FALSE
            BY <2>3 DEF ResolveConflict
        <2>4. ASSUME NEW w \in Workers,
                     \/ \E on \in BOOLEAN : UpdateNetworkStatus(w, on)
                     \/ CleanupSyncRecords(w) \/ Rest(w) \/ Restart(w)
              PROVE  FALSE
            BY <2>4 DEF UpdateNetworkStatus, CleanupSyncRecords, Rest, Restart
        <2>5. ASSUME NEW j \in Rows, NEW data \in Payloads, Edit(j, data)
              PROVE  edits' # edits
            BY <2>5 DEF Edit, Inv, TypeOK
        <2>6. QED BY <2>1, <2>2, <2>3, <2>4, <2>5 DEF Next
    <1>2. QED BY SpecInv, <1>1, PTL DEF Spec, QueueWritesNoVessel

(* An outcome stands: no later batch, post or cleanup of any worker        *)
(* touches a record that is synced, in conflict or in error, only the      *)
(* resolution of its conflict does.                                        *)
THEOREM ServerOutcomesStand == Spec => OutcomesStand
    <1>1. Inv /\ PlaceInv /\ [Next]_sVars =>
              \A w \in Workers : \A r \in sync_queue[w], s \in sync_queue'[w] :
                  s.at = r.at /\ s # r =>
                      \/ Tried(r, s) /\ r.id \in batch[w] /\ r.id \notin batch'[w]
                      \/ Reopened(r, s) /\ resolves' = resolves + 1
        <2> SUFFICES ASSUME Inv, PlaceInv, [Next]_sVars, NEW w \in Workers,
                            NEW r \in sync_queue[w], NEW s \in sync_queue'[w],
                            s.at = r.at, s # r
                     PROVE  \/ Tried(r, s) /\ r.id \in batch[w] /\ r.id \notin batch'[w]
                            \/ Reopened(r, s) /\ resolves' = resolves + 1
            OBVIOUS
        <2>1. posts \in Nat /\ Numbered(sync_queue[w], posts)
            BY DEF Inv, TypeOK, PlaceInv
        <2>2. s \notin sync_queue[w] /\ s.at # posts + 1
            BY <2>1 DEF Numbered
        <2>3. TriedOne(w) \/ ReopenedOne(w)
            BY <2>2, QueueSteps DEF Kept, Lost, Joined
        <2>4. CASE TriedOne(w)
            <3>1. PICK o \in sync_queue[w] : o.id \in batch[w] /\ o.id \notin batch'[w]
                      /\ \E new : Tried(o, new) /\ new.at = o.at
                                 /\ sync_queue'[w] = (sync_queue[w] \ {o}) \cup {new}
                BY <2>4 DEF TriedOne
            <3>4. PICK new : Tried(o, new) /\ new.at = o.at
                             /\ sync_queue'[w] = (sync_queue[w] \ {o}) \cup {new}
                BY <3>1
            <3>2. s = new /\ r = o
                BY <2>1, <2>2, <3>1, <3>4 DEF Numbered
            <3>3. QED BY <3>1, <3>2, <3>4
        <2>5. CASE ReopenedOne(w)
            <3>1. PICK o \in sync_queue[w] :
                      \E new : Reopened(o, new) /\ new.at = o.at
                               /\ sync_queue'[w] = (sync_queue[w] \ {o}) \cup {new}
                BY <2>5 DEF ReopenedOne
            <3>4. PICK new : Reopened(o, new) /\ new.at = o.at
                             /\ sync_queue'[w] = (sync_queue[w] \ {o}) \cup {new}
                BY <3>1
            <3>2. s = new /\ r = o
                BY <2>1, <2>2, <3>1, <3>4 DEF Numbered
            <3>3. QED BY <2>5, <3>2, <3>4 DEF ReopenedOne
        <2>6. QED BY <2>3, <2>4, <2>5
    <1>2. QED BY SpecInv, SpecPlace, <1>1, PTL DEF Spec, OutcomesStand

=============================================================================
