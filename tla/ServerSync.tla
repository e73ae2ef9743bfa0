----------------------------- MODULE ServerSync -----------------------------
(***************************************************************************)
(* The server half of offline synchronisation: SyncManager, NetworkStatus  *)
(* and BackgroundSyncScheduler of utils/sync_manager.py behind the routes  *)
(* of routes/sync_routes.py.                                               *)
(*                                                                         *)
(* The queue and the scheduler are globals of a gunicorn worker process:   *)
(* every worker has its own, a worker serves one request at a time         *)
(* (worker_class "sync"), and what it holds dies with it (max_requests     *)
(* recycles it).  The database is shared.  A request is one step, except   *)
(* a batch, whose records commit one by one while the other workers run.   *)
(*                                                                         *)
(* A row is reduced to the two parts the merge tells apart: its            *)
(* operational fields (oper) and the rest (static).  A record's data is a  *)
(* row and whether its keys are not those of to_dict (tagged), which the   *)
(* user_id key the route adds makes true.  The hashes compared in conflict *)
(* detection cover every key that is not a timestamp, so equal hashes are  *)
(* equal rows and equal keys.                                              *)
(*                                                                         *)
(* A new record always goes to the end of the queue, so the list is a set  *)
(* of records numbered in the order of their arrival (at).                 *)
(***************************************************************************)
EXTENDS Naturals, FiniteSets

CONSTANTS
    Workers,      \* gunicorn worker processes
    SyncIds,      \* ids of sync records
    VesselRows,   \* ids of rows of table vessels
    TallyRows,    \* ids of rows of table cargo_tallies
    Vals,         \* values of one part of a row
    Operations,   \* operations clients post
    Payloads,     \* the rows a client or another route writes
    MaxRetry,     \* self.max_retry_count, 3 in the code
    BatchLimit,   \* batch_size of /process, 10 in the code
    MaxPosts,     \* bound on the records posted
    MaxResolves,  \* bound on the conflicts resolved
    MaxEdits,     \* bound on the rows edited through other routes
    MaxRestarts   \* bound on the workers recycled

ASSUME RowsAssumption == VesselRows \cap TallyRows = {}
ASSUME PayloadsAssumption == Payloads \subseteq [oper : Vals, static : Vals]
ASSUME OperationsAssumption == Operations \subseteq {"create", "update", "delete"}
ASSUME LimitsAssumption == MaxRetry \in Nat \ {0} /\ BatchLimit \in Nat \ {0}
ASSUME ServerBounds == {MaxPosts, MaxResolves, MaxEdits, MaxRestarts} \subseteq Nat

VARIABLES
    row,         \* the database: row[k], or NoRow
    sync_queue,  \* SyncManager.sync_queue of each worker: its records
    batch,       \* ids of the records a running batch has yet to process
    forced,      \* whether that batch belongs to /force-sync
    poisoned,    \* whether the batch's database session awaits a rollback
    in_progress, \* BackgroundSyncScheduler.sync_in_progress
    rested,      \* last_sync is None or at least sync_interval seconds ago
    is_online,   \* NetworkStatus.is_online
    posts, resolves, edits, restarts   \* how often each has happened

queueVars == <<sync_queue, batch, forced, poisoned>>
schedVars == <<in_progress, rested, is_online>>
countVars == <<posts, resolves, edits, restarts>>
sVars == <<row, queueVars, schedVars, countVars>>

-----------------------------------------------------------------------------

Rows == VesselRows \cup TallyRows
Row == [oper : Vals, static : Vals]
NoRow == [oper |-> "none", static |-> "none"]
SyncStatus == {"pending", "synced", "conflict", "error"}
SyncRecord ==
    [id : SyncIds, at : 1..MaxPosts, operation : Operations, key : Rows, data : Row,
     tagged : BOOLEAN, status : SyncStatus, conflict_data : Row \cup {NoRow},
     retry_count : 0..MaxRetry]

TypeOK ==
    /\ row \in [Rows -> Row \cup {NoRow}]
    /\ sync_queue \in [Workers -> SUBSET SyncRecord]
    /\ batch \in [Workers -> SUBSET SyncIds]
    /\ {forced, poisoned, in_progress, rested, is_online} \subseteq [Workers -> BOOLEAN]
    /\ posts \in 0..MaxPosts /\ resolves \in 0..MaxResolves
    /\ edits \in 0..MaxEdits /\ restarts \in 0..MaxRestarts

-----------------------------------------------------------------------------
(* SyncManager.                                                            *)

(* Mutant: a record in conflict is tried again without being resolved.     *)
get_pending_sync_records_WithConflicts(w) ==
    {r \in sync_queue[w] : r.status \in {"pending", "conflict"}}

get_pending_sync_records(w) == {r \in sync_queue[w] : r.status = "pending"}

(* Mutant: the record with this id stays.                                  *)
Added_Plain(q, r) == q \cup {r}

(* add_to_sync_queue: the record with this id goes, the new one is last.   *)
Added(q, r) == {s \in q : s.id # r.id} \cup {r}

(* The queue with the record of this id changed as f says.                 *)
Changed(q, id, F(_)) == {IF r.id = id THEN F(r) ELSE r : r \in q}

(* Mutants: the conflict is marked without the server's row; a record gets *)
(* one attempt too many, is never given up, or its attempt is not counted. *)
mark_as_conflict_Bare(r, server) == [r EXCEPT !.status = "conflict"]
mark_as_error_OneMore(r) ==
    [r EXCEPT !.retry_count = @ + 1,
              !.status = IF r.retry_count + 1 <= MaxRetry THEN "pending" ELSE "error"]
mark_as_error_Uncounted(r) ==
    [r EXCEPT !.status = IF r.retry_count + 1 < MaxRetry THEN "pending" ELSE "error"]
mark_as_error_Forever(r) == [r EXCEPT !.retry_count = @ + 1]

(* The outcomes a record is marked with.                                   *)
mark_as_synced(r) == [r EXCEPT !.status = "synced"]
mark_as_conflict(r, server) == [r EXCEPT !.status = "conflict", !.conflict_data = server]
mark_as_error(r) ==
    [r EXCEPT !.retry_count = @ + 1,
              !.status = IF r.retry_count + 1 < MaxRetry THEN "pending" ELSE "error"]

(* _calculate_hash(record.data) = _calculate_hash(row.to_dict())           *)
SameHash(r, server) == ~r.tagged /\ r.data = server

(* _resolve_vessel_conflict: the client's data keep their user_id, what is *)
(* copied from the server has none.  'manual' resolves nothing.            *)
Resolutions == {"client_wins", "server_wins", "merge"}
Resolved(r, how) ==
    LET merged == [oper |-> r.data.oper, static |-> r.conflict_data.static]
        data == CASE how = "client_wins" -> r.data
                  [] how = "server_wins" -> r.conflict_data
                  [] how = "merge" -> merged
    IN  [r EXCEPT !.data = data, !.tagged = r.tagged /\ how = "client_wins",
                  !.status = "pending", !.conflict_data = NoRow]

-----------------------------------------------------------------------------
(* BackgroundSyncScheduler.                                                *)

should_sync(w) ==
    /\ ~in_progress[w]
    /\ is_online[w]
    /\ get_pending_sync_records(w) # {}
    /\ rested[w]

(* A worker that runs a batch serves no other request.                     *)
Idle(w) == batch[w] = {}

-----------------------------------------------------------------------------
(* The routes.                                                             *)

(* POST /queue.  The route adds user_id to the data, and starts a sync     *)
(* that nobody carries out.                                                *)
AddToSyncQueue(w, id, op, k, data) ==
    LET r == [id |-> id, at |-> posts + 1, operation |-> op, key |-> k, data |-> data,
              tagged |-> TRUE, status |-> "pending", conflict_data |-> NoRow, retry_count |-> 0]
        start == ~in_progress[w] /\ is_online[w] /\ rested[w]
    IN  /\ Idle(w)
        /\ posts < MaxPosts
        /\ posts' = posts + 1
        /\ sync_queue' = [sync_queue EXCEPT ![w] = Added(@, r)]
        /\ in_progress' = [in_progress EXCEPT ![w] = @ \/ start]
        /\ rested' = [rested EXCEPT ![w] = @ /\ ~start]
        /\ UNCHANGED <<row, batch, forced, poisoned, is_online, resolves, edits, restarts>>

(* process_sync_batch up to its loop: the first pending records, by id.    *)
Begin(w, isForced) ==
    LET pending == get_pending_sync_records(w)
        Before(r) == {s \in pending : s.at < r.at}
        first == {r \in pending : Cardinality(Before(r)) < BatchLimit}
    IN  /\ batch' = [batch EXCEPT ![w] = {r.id : r \in first}]
        /\ forced' = [forced EXCEPT ![w] = isForced]
        /\ poisoned' = [poisoned EXCEPT ![w] = FALSE]

(* POST /process.                                                          *)
ProcessSyncBatch(w) ==
    /\ Idle(w)
    /\ get_pending_sync_records(w) # {}
    /\ Begin(w, FALSE)
    /\ UNCHANGED <<row, sync_queue, schedVars, countVars>>

(* complete_sync(False): the outcome /force-sync reports whatever happened,*)
(* because response[1] raises when the batch went well.  It also calls     *)
(* mark_poor_connection, which sets is_online.                             *)
complete_sync(w) ==
    /\ in_progress' = [in_progress EXCEPT ![w] = FALSE]
    /\ is_online' = [is_online EXCEPT ![w] = TRUE]

(* POST /force-sync: refused while a sync is said to be in progress;       *)
(* start_sync, then a batch.  With nothing pending or no JSON body the     *)
(* batch is empty and the request ends at once.                            *)
ForceSync(w) ==
    /\ Idle(w)
    /\ ~in_progress[w]
    /\ rested' = [rested EXCEPT ![w] = @ /\ ~should_sync(w)]
    /\ \/ /\ get_pending_sync_records(w) # {}
          /\ Begin(w, TRUE)
          /\ in_progress' = [in_progress EXCEPT ![w] = should_sync(w)]
          /\ UNCHANGED is_online
       \/ /\ complete_sync(w)
          /\ UNCHANGED <<batch, forced, poisoned>>
    /\ UNCHANGED <<row, sync_queue, countVars>>

(* What _process_vessel_sync and _process_cargo_tally_sync may answer for  *)
(* a record: success, conflict, error or flush.  A create always fails:    *)
(* the model classes take neither user_id nor the computed keys of         *)
(* to_dict.  A delete returns None, which the route cannot index.  An      *)
(* update that gets as far as its commit succeeds, or the flush fails: a   *)
(* date copied back as a string, a column of text as a parsed JSON value   *)
(* or a count of null are refused by one database or another.              *)
Outcomes(r, server) ==
    CASE r.operation = "update" /\ server # NoRow /\ (r.key \in VesselRows => SameHash(r, server)) ->
             {"success", "flush"}
      [] r.operation # "delete" /\ r.key \in VesselRows /\ server # NoRow /\ ~SameHash(r, server) ->
             {"conflict"}
      [] OTHER -> {"error"}

(* One turn of the batch loop.  Once a flush has failed the session raises *)
(* on every later query of the request.  The last record ends the request. *)
ProcessRecord(w) ==
    \E r \in sync_queue[w] :
      \E out \in IF poisoned[w] THEN {"error"} ELSE Outcomes(r, row[r.key]) :
        LET rest == batch[w] \ {r.id}
            Mark(s) == CASE out = "success" -> mark_as_synced(s)
                         [] out = "conflict" -> mark_as_conflict(s, row[r.key])
                         [] OTHER -> mark_as_error(s)
        IN  /\ r.id \in batch[w]
            /\ \A s \in sync_queue[w] : s.id \in batch[w] => r.at <= s.at
            /\ sync_queue' = [sync_queue EXCEPT ![w] = Changed(@, r.id, Mark)]
            /\ row' = IF out = "success" THEN [row EXCEPT ![r.key] = r.data] ELSE row
            /\ poisoned' = [poisoned EXCEPT ![w] = (@ \/ out = "flush") /\ rest # {}]
            /\ batch' = [batch EXCEPT ![w] = rest]
            /\ IF forced[w] /\ rest = {}
               THEN complete_sync(w) /\ forced' = [forced EXCEPT ![w] = FALSE]
               ELSE UNCHANGED <<in_progress, is_online, forced>>
            /\ UNCHANGED <<rested, countVars>>

(* POST /resolve-conflict.                                                 *)
ResolveConflict(w, id, how) ==
    LET Resolve(r) == Resolved(r, how)
    IN  /\ Idle(w)
        /\ resolves < MaxResolves
        /\ \E r \in sync_queue[w] : r.id = id /\ r.status = "conflict"
        /\ sync_queue' = [sync_queue EXCEPT ![w] = Changed(@, id, Resolve)]
        /\ resolves' = resolves + 1
        /\ UNCHANGED <<row, batch, forced, poisoned, schedVars, posts, edits, restarts>>

(* POST /network-status; 'poor' counts as online.                          *)
UpdateNetworkStatus(w, on) ==
    /\ Idle(w)
    /\ is_online' = [is_online EXCEPT ![w] = on]
    /\ UNCHANGED <<row, queueVars, in_progress, rested, countVars>>

(* POST /cleanup: the synced records older than the cutoff go.  The later  *)
(* a record has arrived, the later is its timestamp.                       *)
CleanupSyncRecords(w) ==
    /\ Idle(w)
    /\ \E last \in sync_queue[w] :
          sync_queue' = [sync_queue EXCEPT ![w] =
                            {r \in @ : r.status # "synced" \/ r.at > last.at}]
    /\ UNCHANGED <<row, batch, forced, poisoned, schedVars, countVars>>

-----------------------------------------------------------------------------
(* The surroundings.                                                       *)

(* Another route (wizard, cargo tally, dashboard) writes a row.            *)
Edit(k, data) ==
    /\ edits < MaxEdits
    /\ edits' = edits + 1
    /\ row' = [row EXCEPT ![k] = data]
    /\ UNCHANGED <<queueVars, schedVars, posts, resolves, restarts>>

(* sync_interval seconds go by.                                            *)
Rest(w) ==
    /\ ~rested[w]
    /\ rested' = [rested EXCEPT ![w] = TRUE]
    /\ UNCHANGED <<row, queueVars, in_progress, is_online, countVars>>

(* gunicorn recycles or kills a worker: a fresh process takes its place.   *)
Restart(w) ==
    /\ restarts < MaxRestarts
    /\ restarts' = restarts + 1
    /\ sync_queue' = [sync_queue EXCEPT ![w] = {}]
    /\ batch' = [batch EXCEPT ![w] = {}]
    /\ forced' = [forced EXCEPT ![w] = FALSE]
    /\ poisoned' = [poisoned EXCEPT ![w] = FALSE]
    /\ in_progress' = [in_progress EXCEPT ![w] = FALSE]
    /\ rested' = [rested EXCEPT ![w] = TRUE]
    /\ is_online' = [is_online EXCEPT ![w] = TRUE]
    /\ UNCHANGED <<row, posts, resolves, edits>>

-----------------------------------------------------------------------------

Init ==
    /\ row \in [Rows -> Payloads \cup {NoRow}]
    /\ sync_queue = [w \in Workers |-> {}]
    /\ batch = [w \in Workers |-> {}]
    /\ forced = [w \in Workers |-> FALSE]
    /\ poisoned = [w \in Workers |-> FALSE]
    /\ in_progress = [w \in Workers |-> FALSE]
    /\ rested = [w \in Workers |-> TRUE]
    /\ is_online = [w \in Workers |-> TRUE]
    /\ posts = 0 /\ resolves = 0 /\ edits = 0 /\ restarts = 0

Batch(w) == ProcessSyncBatch(w) \/ ForceSync(w) \/ ProcessRecord(w)

Next ==
    \/ \E w \in Workers :
          \/ \E id \in SyncIds, op \in Operations, k \in Rows, data \in Payloads :
                AddToSyncQueue(w, id, op, k, data)
          \/ Batch(w)
          \/ \E id \in SyncIds, how \in Resolutions : ResolveConflict(w, id, how)
          \/ \E on \in BOOLEAN : UpdateNetworkStatus(w, on)
          \/ CleanupSyncRecords(w) \/ Rest(w) \/ Restart(w)
    \/ \E k \in Rows, data \in Payloads : Edit(k, data)

Spec == Init /\ [][Next]_sVars

(* Somebody keeps posting to /process and /force-sync.                     *)
Fairness ==
    \A w \in Workers :
        /\ WF_sVars(ProcessSyncBatch(w)) /\ WF_sVars(ProcessRecord(w))
        /\ SF_sVars(ForceSync(w)) /\ WF_sVars(Rest(w))

FairSpec == Spec /\ Fairness

-----------------------------------------------------------------------------
(* Properties.                                                             *)

(* A worker never holds two records of one id, whatever is posted again,   *)
(* resolved or cleaned up: the marks, which go by id, reach one record.    *)
OneRecordPerId ==
    \A w \in Workers : \A r, s \in sync_queue[w] : r.id = s.id => r = s

(* A record is tried again only while it has failed fewer than             *)
(* max_retry_count times, also after a conflict and its resolution, and a  *)
(* record in error has used them all up.                                   *)
ServerRetryBudget ==
    \A w \in Workers : \A r \in sync_queue[w] :
        IF r.status = "error" THEN r.retry_count = MaxRetry ELSE r.retry_count < MaxRetry

(* A conflict comes with the server's row, so that resolving it has two    *)
(* sides to merge, and no other record keeps one, whatever retries,        *)
(* resolutions and later batches it goes through.                          *)
ConflictHasTwoSides ==
    \A w \in Workers : \A r \in sync_queue[w] : r.status = "conflict" <=> r.conflict_data # NoRow

(* "Client wins for operational fields": an update merged with the row as  *)
(* it still is, when its turn comes and the session is sound, brings the   *)
(* client's operational fields into the row.  (Only records that have been *)
(* through a resolution are not tagged.)                                   *)
Merged(r) == r.operation = "update" /\ ~r.tagged /\ r.data.static = row[r.key].static
MergeIsApplied ==
    [][\A w \in Workers : \A r \in sync_queue[w] :
           /\ r.key \in VesselRows /\ Merged(r)
           /\ r.id \in batch[w] \ batch'[w] /\ ~poisoned[w] /\ restarts' = restarts
           => row'[r.key].oper = r.data.oper]_sVars

(* No step of a worker's queue changes a vessel's row; that it never       *)
(* overwrites an edit and that it never brings one in are the same fact.   *)
QueueWritesNoVessel ==
    [][\A k \in VesselRows : row'[k] # row[k] => edits' # edits]_sVars

(* A record changes in two ways only: in its own turn of a batch, pending  *)
(* until then, it gets an outcome or uses up an attempt; in conflict, it   *)
(* is resolved, and the attempts it has used stay used.  So an outcome     *)
(* stands, and without conflicts a record is tried max_retry_count times   *)
(* at most.                                                                *)
Tried(r, s) ==
    /\ r.status = "pending"
    /\ \/ s.status \in {"synced", "conflict"} /\ s.retry_count = r.retry_count
       \/ s.status \in {"pending", "error"} /\ s.retry_count = r.retry_count + 1
Reopened(r, s) ==
    /\ r.status = "conflict" /\ s.status = "pending"
    /\ s.retry_count = r.retry_count
OutcomesStand ==
    [][\A w \in Workers : \A r \in sync_queue[w], s \in sync_queue'[w] :
           s.at = r.at /\ s # r =>
               \/ Tried(r, s) /\ r.id \in batch[w] /\ r.id \notin batch'[w]
               \/ Reopened(r, s) /\ resolves' = resolves + 1]_sVars

(* Every pending record is in the end processed to an outcome: synced, in  *)
(* conflict or given up (or it is replaced, or its worker recycled).       *)
PendingIsSettled ==
    \A w \in Workers, id \in SyncIds :
        (\E r \in sync_queue[w] : r.id = id /\ r.status = "pending")
            ~> ~(\E r \in sync_queue[w] : r.id = id /\ r.status = "pending")

(* "Vessel saved offline. Will sync when online.": a vessel created        *)
(* offline, once its record is with the server, is in the end in the       *)
(* database.                                                               *)
OfflineVesselIsCreated ==
    \A w \in Workers, k \in VesselRows :
        (\E r \in sync_queue[w] : r.operation = "create" /\ r.key = k) ~> row[k] # NoRow

(* A sync that was started is completed, which /force-sync waits for.      *)
SyncIsCompleted == \A w \in Workers : in_progress[w] ~> ~in_progress[w]

=============================================================================
