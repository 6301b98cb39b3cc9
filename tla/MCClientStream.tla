--------------------------- MODULE MCClientStream ---------------------------
(***************************************************************************)
(* ClientStream for TLC.  The requests are interchangeable, and so are the *)
(* subscription messages; ids are not, because the generator orders them.  *)
(***************************************************************************)
EXTENDS ClientStream, TLC

Symmetry == Permutations(Requests) \cup Permutations(Messages)
=============================================================================
