-------------------------- MODULE MCWebsocketClient --------------------------
(***************************************************************************)
(* WebsocketClient for TLC.  Requests are interchangeable, and so are the  *)
(* calls of one kind; symmetry is for the runs without liveness only.      *)
(***************************************************************************)
EXTENDS WebsocketClient, TLC

Symmetry == Permutations(Requests) \cup Permutations(Connects)
            \cup Permutations(Messages)
=============================================================================
