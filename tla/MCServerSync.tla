---------------------------- MODULE MCServerSync ----------------------------
(***************************************************************************)
(* Values for model checking ServerSync: two payloads that differ in both  *)
(* parts of a row, so that a merge is a third row.                         *)
(***************************************************************************)
EXTENDS ServerSync

CONSTANTS a, b

MCPayloads == {[oper |-> a, static |-> a], [oper |-> b, static |-> b]}

=============================================================================
