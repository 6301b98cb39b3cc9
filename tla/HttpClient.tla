------------------------------ MODULE HttpClient ------------------------------
(***************************************************************************)
(* The HTTP client of relay_client/src/http.rs: tasks that share a Client  *)
(* make one call each.  A call takes an id from the shared generator,      *)
(* posts its request and reads the reply of its own exchange; ids are not  *)
(* compared.  A call may fail on the spot, be cancelled by dropping its    *)
(* future, or lose its request or its reply.                               *)
(***************************************************************************)
EXTENDS MessageIdGenerator

VARIABLES
    outcome,        \* what the caller of each task knows
    exchange,       \* how far the POST of each task is
    executed        \* the tasks whose request the relay has processed

httpVars == <<outcome, exchange, executed, next, clock, holding, taken, made>>
-----------------------------------------------------------------------------
(* A body is the set of the fields of a JSON object, or {} for anything    *)
(* else.  Payload is an untagged enum: its first variant whose fields are  *)
(* all there is taken, and other fields are ignored.                       *)
RequestFields == {"id", "jsonrpc", "method", "params"}
SuccessFields == {"id", "jsonrpc", "result"}
ErrorFields   == {"id", "jsonrpc", "error"}

ResultOptional(body) ==
    IF RequestFields \subseteq body THEN "request"
    ELSE IF SuccessFields \ {"result"} \subseteq body THEN "success" ELSE "invalid"

ParsePayload(body) ==
    IF RequestFields \subseteq body THEN "request"
    ELSE IF SuccessFields \subseteq body THEN "success"
    ELSE IF ErrorFields \subseteq body THEN "error" ELSE "invalid"

NoExchange == [at |-> "none"]

AtRelay(id)   == [at |-> "relay", id |-> id]

(* A reply to the request of task c.  typed says whether its result is one *)
(* of the type the caller expects.                                         *)
AtClient(c, id, status, body, typed) ==
    [at |-> "client", call |-> c, id |-> id, status |-> status, body |-> body, typed |-> typed]

Replies(c) == exchange[c].at = "client"

HttpInit ==
    /\ GenInit
    /\ outcome = [c \in Threads |-> "idle"]
    /\ exchange = [c \in Threads |-> NoExchange]
    /\ executed = {}

Tell(c, o) == outcome' = [outcome EXCEPT ![c] = o]

Exchange(c, e) == exchange' = [exchange EXCEPT ![c] = e]

(* A TTL beyond u32 or i64 seconds, a registration whose end is beyond i64 *)
(* where additions are checked: the call fails before request().           *)
Refuse(c) ==
    /\ outcome[c] = "idle"
    /\ Tell(c, "refused")
    /\ UNCHANGED <<exchange, executed, genVars>>

(* request() up to the counter of its id ...                               *)
Begin(c) ==
    /\ outcome[c] = "idle"
    /\ FetchAdd(c)
    /\ Tell(c, "pending")
    /\ UNCHANGED <<exchange, executed>>

(* ... and on to the first await of the POST.                              *)
Post(c) ==
    /\ ReadClock(c)
    /\ Exchange(c, AtRelay([time |-> clock, counter |-> holding[c].counter]))
    /\ UNCHANGED <<outcome, executed>>

(* The relay processes a request, or refuses it after looking at it, and   *)
(* its reply says which; the result may not be what the client expects.    *)
RelayReplies(c) ==
    /\ exchange[c].at = "relay"
    /\ \E body \in {SuccessFields, ErrorFields}, typed \in BOOLEAN :
            /\ body = ErrorFields => typed
            /\ Exchange(c, AtClient(c, exchange[c].id, 200, body, typed))
    /\ executed' = executed \cup {c}
    /\ UNCHANGED <<outcome, genVars>>

(* Something between relay and client answers, or the relay does so with   *)
(* an error status, whose body does not matter, or with what is no reply;  *)
(* the request may have been processed.                                    *)
OtherReplies(c) ==
    /\ exchange[c].at = "relay"
    /\ \E status \in {200, 502}, body \in {SuccessFields, RequestFields, {}} :
            /\ body = SuccessFields <=> status # 200
            /\ Exchange(c, AtClient(c, exchange[c].id, status, body, TRUE))
    /\ executed' \in {executed, executed \cup {c}}
    /\ UNCHANGED <<outcome, genVars>>

(* An exchange ends without a reply being read.  A request that is on its  *)
(* way may still be processed: whether it will be is settled here.         *)
Abandon(c) ==
    /\ exchange[c].at \in {"relay", "client"}
    /\ Exchange(c, NoExchange)
    /\ executed' \in IF exchange[c].at = "relay" THEN {executed, executed \cup {c}}
                                                ELSE {executed}
    /\ UNCHANGED genVars

TransportIgnored(c) == Abandon(c) /\ UNCHANGED outcome

(* send() or reading the body fails.                                       *)
TransportFails(c) == Abandon(c) /\ Tell(c, "transport")

(* The caller drops the future.                                            *)
Cancel(c) == Abandon(c) /\ Tell(c, "cancelled")

(* A reply with the id of c, whoever it is for.                            *)
ReplyById(c) ==
    CHOOSE e \in {exchange[d] : d \in {d \in Threads : Replies(d)}} : e.id = exchange[c].id

OwnReply(c) == exchange[c]

StatusUnread(c, e) ==
    IF e.call # c THEN "foreign"
    ELSE CASE ParsePayload(e.body) = "success" -> IF e.typed THEN "ok" ELSE "invalidResponse"
           [] ParsePayload(e.body) = "error"   -> "rpcError"
           [] OTHER                            -> "invalidResponse"

(* What request() returns for a reply.                                     *)
Outcome(c, e) ==
    IF e.status # 200 THEN "httpCode"
    ELSE IF e.call # c THEN "foreign"
    ELSE CASE ParsePayload(e.body) = "success" -> IF e.typed THEN "ok" ELSE "invalidResponse"
           [] ParsePayload(e.body) = "error"   -> "rpcError"
           [] OTHER                            -> "invalidResponse"

ReadReply(c) ==
    /\ Replies(c)
    /\ Tell(c, Outcome(c, OwnReply(c)))
    /\ Exchange(c, NoExchange)
    /\ UNCHANGED <<executed, genVars>>

ClockTicks == NextMillisecond /\ UNCHANGED <<outcome, exchange, executed>>

HttpNext ==
    \/ ClockTicks
    \/ \E c \in Threads :
            \/ Refuse(c) \/ Begin(c) \/ Post(c)
            \/ RelayReplies(c) \/ OtherReplies(c)
            \/ TransportFails(c) \/ Cancel(c) \/ ReadReply(c)

HttpSpec == HttpInit /\ [][HttpNext]_httpVars

(* A call that was made goes on, the relay replies, and a reply is read.   *)
HttpFairSpec ==
    /\ HttpSpec
    /\ \A c \in Threads :
            /\ WF_httpVars(Post(c))
            /\ WF_httpVars(RelayReplies(c) \/ OtherReplies(c))
            /\ WF_httpVars(ReadReply(c))
-----------------------------------------------------------------------------
Answers == {"ok", "rpcError"}

Unknown == {"transport", "cancelled", "httpCode", "invalidResponse"}

(* The variables have their types.                                         *)
HttpTypeOK ==
    /\ GenTypeOK
    /\ outcome \in [Threads -> {"idle", "pending", "refused"} \cup Answers \cup Unknown]
    /\ executed \subseteq Threads
    /\ DOMAIN exchange = Threads
    /\ \A c \in Threads : exchange[c].at \in {"none", "relay", "client"}

(* A call is pending as long as it makes its id or has an exchange open,   *)
(* and no longer: none is left behind, none is told twice                  *)
(* (http.rs:270-312).                                                      *)
PendingIsOpen ==
    \A c \in Threads :
        outcome[c] = "pending" <=> holding[c] # NotCalling \/ exchange[c] # NoExchange

(* The reply that the relay made to a request says what its caller is      *)
(* told: an error never looks like a result, nor a result like an error,   *)
(* and ids that repeat mix up no replies (http.rs:298-311).                *)
ToldWhatWasSaid ==
    [][\A c \in Threads : Replies(c) /\ outcome'[c] \in Answers \cup {"foreign"} =>
            \/ outcome'[c] = "ok" /\ exchange[c].body = SuccessFields
            \/ outcome'[c] = "rpcError" /\ exchange[c].body = ErrorFields]_httpVars

(* What a caller can conclude about the relay.                             *)
Known(c) == IF outcome[c] \in Unknown THEN "closed" ELSE outcome[c]

Rpc == INSTANCE AtMostOnceRpc WITH
          Requests  <- Threads,
          outcome   <- [c \in Threads |-> Known(c)],
          processed <- executed

(* The HTTP client implements at-most-once calls: an answer means that the *)
(* relay processed the request, a refusal that it never will, and any      *)
(* other error leaves it open; nothing is sent twice.                      *)
HttpImplementsRpc == Rpc!RpcSpec

(* Every call returns, if the relay or something before it replies.        *)
CallsEnd == \A c \in Threads : outcome[c] = "pending" ~> outcome[c] # "pending"
=============================================================================
