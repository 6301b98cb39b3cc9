------------------------ MODULE MCMessageIdGenerator ------------------------
(***************************************************************************)
(* MessageIdGenerator for TLC; threads are interchangeable.                *)
(***************************************************************************)
EXTENDS MessageIdGenerator, TLC

Symmetry == Permutations(Threads)
=============================================================================
