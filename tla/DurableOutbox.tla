---------------------------- MODULE DurableOutbox ----------------------------
(***************************************************************************)
(* What the browser's sync queue promises to the person at the quayside:   *)
(* "Vessel saved offline. Will sync when online." (static/js/wizard.js).   *)
(*                                                                         *)
(* Records are numbered in the order they are made; ids[o] is the id of    *)
(* record o.  A newer record with the same id takes the older one's place. *)
(* Once made, a record leaves the outbox in two ways only: a newer one     *)
(* replaces it, or the server has received it.  Closing or killing the     *)
(* page is not one of them.                                                *)
(***************************************************************************)
EXTENDS Naturals, Sequences

CONSTANTS Ids,         \* the ids records can have
          MaxRecords   \* bound on the number of records made

VARIABLES ids,       \* ids[o] is the id of the o-th record made
          outbox,    \* the records the browser still holds
          received   \* the records the server has received

vars == <<ids, outbox, received>>

-----------------------------------------------------------------------------

TypeOK ==
    /\ ids \in Seq(Ids)
    /\ outbox \subseteq DOMAIN ids
    /\ received \subseteq DOMAIN ids

Init ==
    /\ ids = <<>>
    /\ outbox = {}
    /\ received = {}

(* A record is made and replaces the one that has the same id.             *)
Put(i) ==
    /\ Len(ids) < MaxRecords
    /\ ids' = Append(ids, i)
    /\ outbox' = {o \in outbox : ids[o] # i} \cup {Len(ids) + 1}
    /\ UNCHANGED received

(* The server receives a record, perhaps not for the first time.           *)
Receive(o) ==
    /\ received' = received \cup {o}
    /\ UNCHANGED <<ids, outbox>>

(* Records the server has received are dropped.                            *)
Drop(S) ==
    /\ S \subseteq received
    /\ outbox' = outbox \ S
    /\ UNCHANGED <<ids, received>>

Next ==
    \/ \E i \in Ids : Put(i)
    \/ \E o \in DOMAIN ids : Receive(o)
    \/ \E S \in SUBSET outbox : Drop(S)

Spec == Init /\ [][Next]_vars

-----------------------------------------------------------------------------

(* Record o is the last one made under its id.                             *)
Newest(o) == \A p \in DOMAIN ids : p > o => ids[p] # ids[o]

(* Nothing is lost: the newest record of every id is either still in the   *)
(* outbox or with the server.                                              *)
NothingLost == \A o \in DOMAIN ids : Newest(o) => o \in outbox \cup received

(* The outbox never holds two records under one id.                        *)
OnePerId == \A o, p \in outbox : ids[o] = ids[p] => o = p

=============================================================================
