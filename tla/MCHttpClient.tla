----------------------------- MODULE MCHttpClient -----------------------------
(***************************************************************************)
(* HttpClient for TLC: three calls go once round a counter of two values,  *)
(* and the ids of two calls in one millisecond can be the same.            *)
(***************************************************************************)
EXTENDS HttpClient
=============================================================================
