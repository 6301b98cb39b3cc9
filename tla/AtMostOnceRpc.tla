---------------------------- MODULE AtMostOnceRpc ----------------------------
(***************************************************************************)
(* What the websocket client promises about a remote call, without handles,*)
(* channels, streams or ids: it is processed by the relay at most once,    *)
(* its caller is told one outcome, an answer only comes from processing it *)
(* and a refusal means that it never is.  "closed" leaves it open whether  *)
(* the relay processed the call.  WebsocketClient implements this.         *)
(***************************************************************************)
EXTENDS FiniteSets

CONSTANTS
    Requests,       \* the calls
    Answers         \* what the relay's answer can amount to

ASSUME OutcomesDiffer == {"idle", "pending", "refused", "closed"} \cap Answers = {}

VARIABLES
    outcome,        \* idle, pending, refused, closed or an answer
    processed       \* the calls the relay has processed

rpcVars == <<outcome, processed>>

Pending == {r \in Requests : outcome[r] = "pending"}

(* The calls of S get outcome o, the others keep theirs.                   *)
Settle(S, o) == outcome' = [r \in Requests |-> IF r \in S THEN o ELSE outcome[r]]

RpcInit ==
    /\ outcome = [r \in Requests |-> "idle"]
    /\ processed = {}

(* A caller makes the call: it is on its way, or refused on the spot.      *)
Make(r) ==
    /\ outcome[r] = "idle"
    /\ \E o \in {"pending", "refused"} : Settle({r}, o)
    /\ UNCHANGED processed

Process(r) ==
    /\ r \in Pending \ processed
    /\ processed' = processed \cup {r}
    /\ UNCHANGED outcome

Answer(r) ==
    /\ r \in Pending \cap processed
    /\ \E a \in Answers : Settle({r}, a)
    /\ UNCHANGED processed

Refuse(r) ==
    /\ r \in Pending \ processed
    /\ Settle({r}, "refused")
    /\ UNCHANGED processed

(* A connection goes away: the calls made on it fail, and which of them    *)
(* the relay still gets to is unknown.  When the whole client goes away,   *)
(* the calls it had not begun are refused and none is left pending.        *)
Close ==
    \E failed, seen, unbegun \in SUBSET Pending :
        /\ seen \subseteq failed
        /\ unbegun \cap (failed \cup processed) = {}
        /\ unbegun # {} => Pending = failed \cup unbegun
        /\ outcome' = [r \in Requests |->
                          CASE r \in failed  -> "closed"
                            [] r \in unbegun -> "refused"
                            [] OTHER         -> outcome[r]]
        /\ processed' = processed \cup seen

RpcNext == Close \/ \E r \in Requests : Make(r) \/ Process(r) \/ Answer(r) \/ Refuse(r)

RpcSpec == RpcInit /\ [][RpcNext]_rpcVars
-----------------------------------------------------------------------------
(* What a caller may conclude: an answer comes from a call that the relay  *)
(* processed, and a call that was refused was not processed, so that it    *)
(* can be made again.                                                      *)
Promised ==
    \A r \in Requests :
        /\ outcome[r] \in Answers => r \in processed
        /\ outcome[r] \in {"idle", "refused"} => r \notin processed

(* What a caller was told is never taken back.                             *)
ToldOnce ==
    [][\A r \in Requests :
          outcome[r] \notin {"idle", "pending"} => outcome'[r] = outcome[r]]_rpcVars
=============================================================================
