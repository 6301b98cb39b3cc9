--------------------------- MODULE MCRpcValidation ---------------------------
(***************************************************************************)
(* RpcValidation for TLC: topics of two bytes that are right, empty, of an *)
(* odd length, short and not hex; limits that differ, from one to three.   *)
(***************************************************************************)
EXTENDS RpcValidation

MCTopics == {[len |-> 4, hex |-> TRUE], [len |-> 0, hex |-> TRUE],
             [len |-> 5, hex |-> TRUE], [len |-> 2, hex |-> TRUE],
             [len |-> 4, hex |-> FALSE]}
=============================================================================
