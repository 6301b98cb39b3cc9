------------------------ MODULE MCFetchMessageStream ------------------------
(***************************************************************************)
(* FetchMessageStream for TLC: a .cfg cannot write the set of call numbers *)
(* as an interval, so it is defined here.                                  *)
(***************************************************************************)
EXTENDS FetchMessageStream

MCRequests == 1..5
=============================================================================
