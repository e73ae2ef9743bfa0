----------------------------- MODULE TallyWidget -----------------------------
(***************************************************************************)
(* CargoTallyWidget of static/js/cargo-tally-widgets.js in the page of one *)
(* vessel, the service worker its requests pass (templates/                *)
(* service-worker.js), the table of that vessel's tallies, and what each   *)
(* worker's OfflineDataManager keeps of it (routes/offline_dashboard.py).  *)
(* Two copies can stand in for the table: the service worker's when the    *)
(* network fails, the process's when the database does.                    *)
(*                                                                         *)
(* Tallies are numbered in the order they are entered.  The browser's sync *)
(* queue is only seen from outside: queued is what it has been given, and  *)
(* DurableOutbox says what becomes of it.                                  *)
(***************************************************************************)
EXTENDS Naturals, Sequences, FiniteSets

CONSTANTS
    Servers,            \* the worker processes
    MaxLoads,           \* loadTallies calls that may be under way at once
    maxHistoryItems,    \* 10 in the code
    ServerLimit,        \* rows in an answer, 20
    MaxTallies, MaxFailures, MaxTurns   \* bounds: MaxTurns on what the user does besides

ASSUME WidgetAssumption ==
    /\ maxHistoryItems \in Nat \ {0} /\ ServerLimit \in Nat \ {0} /\ MaxLoads \in Nat \ {0}
    /\ {MaxTallies, MaxFailures, MaxTurns} \subseteq Nat

VARIABLES
    online,      \* navigator.onLine
    made,        \* how many tallies have been entered
    awaiting,    \* the tallies whose POST the page awaits
    post,        \* what has become of the POST of each tally
    told,        \* the message shown for each tally
    queued,      \* the tallies given to the sync queue
    shown,       \* this.tallies, newest first
    isLoading,
    load,        \* what has become of each load under way
    rows,        \* the rows in its answer
    table,       \* the rows of cargo_tallies, oldest first
    cache,       \* each process's cargo_tallies_<id>, empty when there is none
    known,       \* the processes whose cached vessels include this one
    runtimeCache,\* the service worker's copy of the answer, a set of at most one
    puts,        \* the answers it has yet to store
    abandoned,   \* history: the tallies whose POST a page left behind
    base,        \* history: the tallies entered when shown was last replaced
    failures, turns

pageVars == <<awaiting, shown, isLoading, abandoned, base, turns>>
workerVars == <<runtimeCache, puts>>
tallyVars == <<made, post, told, queued>>
serverVars == <<table, cache, known>>
loads == <<load, rows>>
widgetVars == <<online, tallyVars, pageVars, loads, workerVars, serverVars, failures>>

Slots == 1..MaxLoads
Tallies == 1..MaxTallies
Rows == Seq(Tallies)

WidgetTypeOK ==
    /\ {online, isLoading} \subseteq BOOLEAN
    /\ made \in 0..MaxTallies /\ base \in 0..made
    /\ awaiting \subseteq 1..made /\ queued \subseteq 1..made /\ abandoned \subseteq 1..made
    /\ post \in [Tallies -> {"none", "sent", "ok", "error"}]
    /\ told \in [Tallies -> {"nothing", "added", "offline"}]
    /\ shown \in Rows /\ table \in Rows
    /\ load \in [Slots -> {"idle", "asked", "answered", "failed"}] /\ rows \in [Slots -> Rows]
    /\ cache \in [Servers -> Rows] /\ known \subseteq Servers
    /\ Cardinality(runtimeCache) < 2 /\ runtimeCache \cup puts \subseteq Rows
    /\ failures \in 0..MaxFailures /\ turns \in 0..MaxTurns

(* A page opens: its constructor loads the tallies.                        *)
WidgetInit ==
    /\ online = TRUE
    /\ made = 0 /\ base = 0 /\ awaiting = {} /\ queued = {} /\ abandoned = {}
    /\ post = [t \in Tallies |-> "none"] /\ told = [t \in Tallies |-> "nothing"]
    /\ shown = <<>> /\ isLoading = TRUE
    /\ load = [s \in Slots |-> IF s = 1 THEN "asked" ELSE "idle"]
    /\ rows = [s \in Slots |-> <<>>] /\ runtimeCache = {} /\ puts = {}
    /\ table = <<>> /\ cache = [w \in Servers |-> <<>>] /\ known = {}
    /\ failures = 0 /\ turns = 0

(* Fault, at most MaxFailures times.                                       *)
Fault == failures < MaxFailures /\ failures' = failures + 1

(* The user clicks or leaves, at most MaxTurns times.                      *)
Turn == turns < MaxTurns /\ turns' = turns + 1

AtMost(n, limit) == IF n < limit THEN n ELSE limit

-----------------------------------------------------------------------------
(* addTally.                                                               *)

(* Up to its fetch, or to the end when the browser is offline.             *)
AddTally ==
    /\ made < MaxTallies
    /\ made' = made + 1
    /\ shown' = SubSeq(<<made'>> \o shown, 1, AtMost(Len(shown) + 1, maxHistoryItems))
    /\ IF online
       THEN /\ post' = [post EXCEPT ![made'] = "sent"]
            /\ awaiting' = awaiting \cup {made'}
            /\ UNCHANGED <<told, queued>>
       ELSE /\ told' = [told EXCEPT ![made'] = "offline"]
            /\ queued' = queued \cup {made'}
            /\ UNCHANGED <<post, awaiting>>
    /\ UNCHANGED <<online, isLoading, abandoned, base, turns, loads,
                   workerVars, serverVars, failures>>

(* The POST's handler.  It may fail before its commit or, in the           *)
(* transaction of the progress, after it.                                  *)
RecordTally(t) ==
    /\ post[t] = "sent"
    /\ \/ post' = [post EXCEPT ![t] = "ok"] /\ table' = Append(table, t) /\ UNCHANGED failures
       \/ post' = [post EXCEPT ![t] = "error"] /\ table' \in {table, Append(table, t)} /\ Fault
    /\ UNCHANGED <<online, made, told, queued, pageVars, loads, workerVars, cache, known>>

(* Mutant: any answer is taken for a success.                              *)
Accepted_Any(t) == post[t] \in {"ok", "error"}

Accepted(t) == post[t] = "ok"

(* Mutant: a failed POST is not queued.                                    *)
Queue_Nothing(t) ==
    /\ told' = [told EXCEPT ![t] = "nothing"]
    /\ UNCHANGED queued

(* The catch block: the tally goes to the sync queue.                      *)
Queue(t) ==
    /\ told' = [told EXCEPT ![t] = "offline"]
    /\ queued' = queued \cup {t}

(* The rest of addTally once the answer is there.                          *)
TakeAnswer(t) ==
    /\ t \in awaiting /\ post[t] # "sent"
    /\ awaiting' = awaiting \ {t}
    /\ IF Accepted(t) THEN told' = [told EXCEPT ![t] = "added"] /\ UNCHANGED queued
       ELSE Queue(t)
    /\ UNCHANGED <<online, made, post, shown, isLoading, abandoned, base, turns, loads,
                   workerVars, serverVars, failures>>

(* fetch or json() throws: the request may have been handled, and may      *)
(* still be.                                                               *)
LoseAnswer(t) ==
    /\ t \in awaiting
    /\ Fault
    /\ awaiting' = awaiting \ {t}
    /\ Queue(t)
    /\ UNCHANGED <<online, made, post, shown, isLoading, abandoned, base, turns, loads,
                   workerVars, serverVars>>

-----------------------------------------------------------------------------
(* loadTallies and get_vessel_data.                                        *)

StartLoad ==
    /\ \E s \in Slots : /\ load[s] = "idle" /\ \A r \in 1..(s - 1) : load[r] # "idle"
                       /\ load' = [load EXCEPT ![s] = "asked"]
    /\ isLoading' = TRUE
    /\ UNCHANGED rows

(* The refresh timer, which waits for the load before it.                  *)
AutoRefresh ==
    /\ online /\ ~isLoading
    /\ StartLoad
    /\ UNCHANGED <<online, tallyVars, awaiting, shown, abandoned, base, turns, workerVars,
                   serverVars, failures>>

(* The refresh button, which does not.                                     *)
ClickRefresh ==
    /\ Turn
    /\ StartLoad
    /\ UNCHANGED <<online, tallyVars, awaiting, shown, abandoned, base, workerVars,
                   serverVars, failures>>

(* What the query answers when there are n rows: the newest ones, newest   *)
(* first.                                                                  *)
Newest(n) == [i \in 1..AtMost(n, ServerLimit) |-> table[n + 1 - i]]

Query == Newest(Len(table))

Answer(s, q) ==
    /\ load' = [load EXCEPT ![s] = "answered"]
    /\ rows' = [rows EXCEPT ![s] = q]

Fail(s) == load' = [load EXCEPT ![s] = "failed"] /\ UNCHANGED rows

(* Mutant: a process that has kept rows does not ask the database.         *)
AnswerLoad_KeptFirst(w, s) ==
    /\ online /\ load[s] = "asked"
    /\ IF cache[w] # <<>> THEN Answer(s, cache[w]) /\ UNCHANGED cache
       ELSE Answer(s, Query) /\ cache' = [cache EXCEPT ![w] = Query]
    /\ puts' = puts \cup {rows'[s]}
    /\ UNCHANGED <<online, tallyVars, pageVars, runtimeCache, table, known, failures>>

(* A process answers with the rows and keeps them; when the database       *)
(* fails, with what it has kept, if it knows the vessel.  The service      *)
(* worker passes the answer on and starts to store it.                     *)
AnswerLoad(w, s) ==
    /\ online /\ load[s] = "asked"
    /\ \/ Answer(s, Query) /\ cache' = [cache EXCEPT ![w] = Query] /\ UNCHANGED failures
       \/ Fault /\ w \in known /\ Answer(s, cache[w]) /\ UNCHANGED cache
       \/ Fault /\ w \notin known /\ Fail(s) /\ UNCHANGED cache
    /\ puts' = puts \cup {q \in {rows'[s]} : load'[s] = "answered"}
    /\ UNCHANGED <<online, tallyVars, pageVars, runtimeCache, table, known>>

(* The network fails, before or after a process has answered: the service  *)
(* worker stands in with its copy, as a success, or with a 503.            *)
LoseLoad(s) ==
    /\ load[s] = "asked"
    /\ (~online /\ UNCHANGED failures) \/ Fault
    /\ IF runtimeCache = {} THEN Fail(s) ELSE \E q \in runtimeCache : Answer(s, q)
    /\ cache' \in {cache} \cup {[cache EXCEPT ![w] = Query] : w \in Servers}
    /\ UNCHANGED <<online, tallyVars, pageVars, workerVars, table, known>>

(* Mutant: a stored answer does not replace the one before.                *)
Stored_Beside(q) == runtimeCache \cup {q}

Stored(q) == {q}

(* cache.put, which the answer did not wait for: in any order, or never.   *)
StoreAnswer(q) ==
    /\ q \in puts
    /\ puts' = puts \ {q} /\ runtimeCache' = Stored(q)
    /\ UNCHANGED <<online, tallyVars, pageVars, loads, serverVars, failures>>

(* Mutants: the rows that are not in the answer stay; a load that fails    *)
(* leaves the widget loading.                                              *)
Replaced_Merged(q) ==
    LET Missing(t) == \A n \in DOMAIN q : q[n] # t IN q \o SelectSeq(shown, Missing)
AfterFailure_Stuck == isLoading

(* What is shown after an answer, and whether the widget still loads after *)
(* a failure.                                                              *)
Replaced(q) == q
AfterFailure == FALSE

EndLoad(s) ==
    /\ load' = [load EXCEPT ![s] = "idle"]
    /\ rows' = [rows EXCEPT ![s] = <<>>]

(* The rows replace what is shown, tallies not yet recorded included.      *)
TakeLoad(s) ==
    /\ load[s] = "answered"
    /\ shown' = Replaced(rows[s]) /\ base' = made
    /\ isLoading' = FALSE
    /\ EndLoad(s)
    /\ UNCHANGED <<online, tallyVars, awaiting, abandoned, turns, workerVars,
                   serverVars, failures>>

(* The answer is no success.  loadFromCache then finds no                  *)
(* getCachedCargoTallies in the page's data manager and shows nothing new. *)
FailLoad(s) ==
    /\ load[s] = "failed"
    /\ isLoading' = AfterFailure
    /\ EndLoad(s)
    /\ UNCHANGED <<online, tallyVars, awaiting, shown, abandoned, base, turns, workerVars,
                   serverVars, failures>>

-----------------------------------------------------------------------------
(* The page is left, with what it awaits, and opened again, by the user or *)
(* because a new service worker, which deletes the old one's copies, has   *)
(* taken control; the network goes and comes.                              *)

LeavePage ==
    /\ Turn
    /\ abandoned' = abandoned \cup awaiting
    /\ awaiting' = {} /\ shown' = <<>> /\ base' = made /\ isLoading' = TRUE
    /\ load' = [s \in Slots |-> IF s = 1 THEN "asked" ELSE "idle"]
    /\ rows' = [s \in Slots |-> <<>>]
    /\ UNCHANGED workerVars \/ (runtimeCache' = {} /\ puts' = {})
    /\ UNCHANGED <<online, tallyVars, serverVars, failures>>

Disconnect ==
    /\ online /\ online' = FALSE
    /\ Fault
    /\ UNCHANGED <<tallyVars, pageVars, loads, workerVars, serverVars>>

Reconnected ==
    /\ ~online /\ online' = TRUE
    /\ UNCHANGED <<tallyVars, pageVars, loads, workerVars, serverVars, failures>>

-----------------------------------------------------------------------------
(* A process's cache: dashboard-data and cache/refresh fill it, cache/clear*)
(* and a restart empty it.  Clearing 'cargo_tallies' clears nothing, the   *)
(* keys are cargo_tallies_<id>.                                            *)

Keep(w, vessel, q) ==
    /\ known' = IF vessel THEN known \cup {w} ELSE known \ {w}
    /\ cache' = [cache EXCEPT ![w] = q]
    /\ UNCHANGED <<online, tallyVars, pageVars, loads, workerVars, table, failures>>

DashboardData(w) == Keep(w, TRUE, cache[w])
RefreshCache(w) == Keep(w, TRUE, Query)
ClearVessels(w) == Keep(w, FALSE, cache[w])
ClearCache(w) == Keep(w, FALSE, <<>>)

WidgetNext ==
    \/ AddTally \/ AutoRefresh \/ ClickRefresh \/ LeavePage \/ Disconnect \/ Reconnected
    \/ \E t \in Tallies : RecordTally(t) \/ TakeAnswer(t) \/ LoseAnswer(t)
    \/ \E s \in Slots : LoseLoad(s) \/ TakeLoad(s) \/ FailLoad(s) \/ \E w \in Servers : AnswerLoad(w, s)
    \/ \E q \in puts : StoreAnswer(q)
    \/ \E w \in Servers : DashboardData(w) \/ RefreshCache(w) \/ ClearVessels(w) \/ ClearCache(w)

WidgetSpec == WidgetInit /\ [][WidgetNext]_widgetVars

(* The timer fires (the page is not hidden), the network comes back, a     *)
(* request is answered and its answer taken.                               *)
WidgetFairness ==
    /\ SF_widgetVars(AutoRefresh) /\ WF_widgetVars(Reconnected)
    /\ \A s \in Slots : /\ WF_widgetVars(LoseLoad(s) \/ \E w \in Servers : AnswerLoad(w, s))
                        /\ WF_widgetVars(TakeLoad(s) \/ FailLoad(s))

FairWidgetSpec == WidgetSpec /\ WidgetFairness

-----------------------------------------------------------------------------
(* Properties.                                                             *)

Recorded == {table[n] : n \in DOMAIN table}

(* The messages are true: a tally called added is in the database, one     *)
(* called saved offline was given to the sync queue.                       *)
ToldIsTrue ==
    \A t \in 1..made : /\ told[t] = "added" => t \in Recorded
                       /\ told[t] = "offline" => t \in queued

(* A tally that was entered is being sent, recorded or queued, whatever    *)
(* answers are lost; only a page left while it awaited the POST can take   *)
(* one with it.                                                            *)
NoSilentLoss == 1..made \subseteq awaiting \cup Recorded \cup queued \cup abandoned

(* Below the tallies entered since the last answer, the widget shows what  *)
(* the database held at one moment: neither a copy that stands in nor      *)
(* answers that overtake each other mix two states or leave one in twice.  *)
ShowsAPast ==
    LET entered == [i \in 1..(made - base) |-> made + 1 - i]
    IN  \E n \in 0..Len(table) :
            LET all == entered \o Newest(n)
            IN  /\ Len(shown) \in AtMost(Len(all), maxHistoryItems)..Len(all)
                /\ shown = SubSeq(all, 1, Len(shown))

(* A widget that says it is loading has a load under way, which will clear *)
(* the flag: it never keeps the timer from loading with nothing to wait    *)
(* for, whichever of several loads ends first or fails.                    *)
LoadingIsUnderWay == isLoading => \E s \in Slots : load[s] # "idle"

(* In the end the widget shows the newest rows of the database, also when  *)
(* loads have failed, overtaken each other or been answered by a fallback. *)
DisplaySettles == <>[](shown = Query)

=============================================================================
