------------------------ MODULE DurableOutboxProofs ------------------------
(***************************************************************************)
(* The durable outbox keeps its promise, for every set of ids and every    *)
(* number of records.                                                      *)
(***************************************************************************)
EXTENDS DurableOutbox, TLAPS

(* An id is Ids' member and stands in ids at the record's number; every    *)
(* record that is held is the newest of its id, which is why dropping      *)
(* received records cannot lose an older one that was replaced.            *)
Inv == TypeOK /\ NothingLost /\ \A o \in outbox : Newest(o)

LEMMA AppendIds ==
    ASSUME NEW i \in Ids, NEW s \in Seq(Ids)
    PROVE  /\ Append(s, i) \in Seq(Ids)
           /\ Len(s) \in Nat
           /\ DOMAIN s = 1..Len(s)
           /\ DOMAIN Append(s, i) = 1..(Len(s) + 1)
           /\ Len(Append(s, i)) = Len(s) + 1
           /\ \A o \in 1..Len(s) : Append(s, i)[o] = s[o]
           /\ Append(s, i)[Len(s) + 1] = i
  OBVIOUS

LEMMA InitInv == Init => Inv
  BY DEF Init, Inv, TypeOK, NothingLost, Newest

LEMMA PutInv == ASSUME Inv, NEW i \in Ids, Put(i) PROVE Inv'
<1>1. /\ ids' \in Seq(Ids) /\ DOMAIN ids = 1..Len(ids) /\ Len(ids) \in Nat
      /\ DOMAIN ids' = 1..(Len(ids) + 1)
      /\ ids'[Len(ids) + 1] = i
      /\ \A o \in DOMAIN ids : ids'[o] = ids[o]
  BY AppendIds DEF Put, Inv, TypeOK
<1>2. TypeOK'
  BY <1>1 DEF Put, Inv, TypeOK
<1>3. ASSUME NEW o \in outbox' PROVE Newest(o)'
  BY <1>1 DEF Put, Inv, TypeOK, Newest
<1>4. ASSUME NEW o \in DOMAIN ids', Newest(o)' PROVE o \in outbox' \cup received'
  BY <1>1, <1>4 DEF Put, Inv, TypeOK, Newest, NothingLost
<1> QED
  BY <1>2, <1>3, <1>4 DEF Inv, NothingLost

LEMMA ReceiveInv == ASSUME Inv, NEW o \in DOMAIN ids, Receive(o) PROVE Inv'
  BY DEF Receive, Inv, TypeOK, NothingLost, Newest

LEMMA DropInv == ASSUME Inv, NEW S \in SUBSET outbox, Drop(S) PROVE Inv'
  BY DEF Drop, Inv, TypeOK, NothingLost, Newest

LEMMA SpecInv == Spec => []Inv
<1>1. Inv /\ [Next]_vars => Inv'
  <2> SUFFICES ASSUME Inv, [Next]_vars PROVE Inv'
    OBVIOUS
  <2>1. ASSUME NEW i \in Ids, Put(i) PROVE Inv'
    BY <2>1, PutInv
  <2>2. ASSUME NEW o \in DOMAIN ids, Receive(o) PROVE Inv'
    BY <2>2, ReceiveInv
  <2>3. ASSUME NEW S \in SUBSET outbox, Drop(S) PROVE Inv'
    BY <2>3, DropInv
  <2>4. CASE UNCHANGED vars
    BY <2>4 DEF vars, Inv, TypeOK, NothingLost, Newest
  <2> QED
    BY <2>1, <2>2, <2>3, <2>4 DEF Next
<1> QED
  BY InitInv, <1>1, PTL DEF Spec

(* Nothing is lost: the newest record of every id is in the outbox or with *)
(* the server.  (static/js/wizard.js: "Will sync when online.")            *)
THEOREM OutboxNothingLost == Spec => []NothingLost
<1>1. Inv => NothingLost
  BY DEF Inv
<1> QED
  BY SpecInv, <1>1, PTL

(* The outbox never holds two records under one id.                        *)
THEOREM OutboxOnePerId == Spec => []OnePerId
<1>1. Inv => OnePerId
  <2> SUFFICES ASSUME Inv, NEW o \in outbox, NEW p \in outbox, ids[o] = ids[p]
               PROVE  o = p
    BY DEF OnePerId
  <2>1. o \in Nat /\ p \in Nat /\ o \in DOMAIN ids /\ p \in DOMAIN ids
    BY DEF Inv, TypeOK
  <2> QED
    BY <2>1 DEF Inv, Newest
<1> QED
  BY SpecInv, <1>1, PTL

=============================================================================
