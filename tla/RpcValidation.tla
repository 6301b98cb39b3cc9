---------------------------- MODULE RpcValidation ----------------------------
(***************************************************************************)
(* Requests of relay_rpc/src/rpc.rs: how a server that is written with it  *)
(* validates one, and turns a published message into subscription          *)
(* requests.  Clients send requests without validating them.               *)
(***************************************************************************)
EXTENDS Integers, Sequences, FiniteSetsExt

CONSTANTS
    Topics,             \* the topics and subscription ids met: [len, hex]
    Lengths,            \* batch sizes met
    Ids,                \* message ids met
    MinId,              \* MessageId::MIN
    ByteLength,         \* bytes of a topic or subscription id
    MaxSubscriptionBatchSize,
    MaxFetchBatchSize,
    MaxReceiveBatchSize

ASSUME ValidationAssumption ==
    /\ Topics \subseteq [len : Nat, hex : BOOLEAN]
    /\ [len |-> 2 * ByteLength, hex |-> TRUE] \in Topics
    /\ Lengths \subseteq Nat
    /\ Ids \subseteq Nat /\ MinId \in Nat /\ ByteLength \in Nat \ {0}
    /\ MaxSubscriptionBatchSize \in Nat
    /\ MaxFetchBatchSize \in Nat
    /\ MaxReceiveBatchSize \in Nat

VARIABLES
    request,            \* the request in hand: [id, version, method, items]
    reply               \* "none", "ok" or the error

rpcVars == <<request, reply>>
-----------------------------------------------------------------------------
(* An item of a request: its topic and, where it has one, its subscription *)
(* id.  A request that is no batch has one item, a watch request none.     *)
Items == [topic : Topics, subscription : Topics]

Singles == {"subscribe", "unsubscribe", "fetchMessages", "publish", "subscription"}
Batches == {"batchSubscribe", "batchUnsubscribe", "batchFetchMessages", "batchReceive"}
Watches == {"watchRegister", "watchUnregister"}

Limit(method) ==
    CASE method \in {"batchSubscribe", "batchUnsubscribe"} -> MaxSubscriptionBatchSize
      [] method = "batchFetchMessages"                     -> MaxFetchBatchSize
      [] method = "batchReceive"                           -> MaxReceiveBatchSize

(* Topic::decode(), SubscriptionId::decode(): hex, of the right length.    *)
Decode(t) ==
    IF t.len = 0 \/ t.len % 2 # 0 \/ t.len \div 2 # ByteLength THEN "length"
    ELSE IF t.hex THEN "ok" ELSE "encoding"

DecodedTopic(t) ==
    [ok |-> "ok", length |-> "topic length", encoding |-> "topic encoding"][Decode(t)]

DecodedId(t) ==
    [ok |-> "ok", length |-> "subscription id length",
     encoding |-> "subscription id encoding"][Decode(t)]

(* An unsubscribe request's id is not looked at.                           *)
ValidateItem(method, item) ==
    IF method = "subscription" /\ DecodedId(item.subscription) # "ok"
    THEN DecodedId(item.subscription)
    ELSE DecodedTopic(item.topic)

Faulty(method, items) == {n \in DOMAIN items : ValidateItem(method, items[n]) # "ok"}

SkipsFirst(method, items) ==
    IF Faulty(method, items) \ {1} = {} THEN "ok"
    ELSE ValidateItem(method, items[Min(Faulty(method, items) \ {1})])

ValidateItems(method, items) ==
    IF Faulty(method, items) = {} THEN "ok"
    ELSE ValidateItem(method, items[Min(Faulty(method, items))])

AtLimit(method, items) == Len(items) >= Limit(method)

TooMany(method, items) == Len(items) > Limit(method)

ValidateParams(method, items) ==
    CASE method \in Watches                                  -> "ok"
      [] method \in Batches /\ items = <<>>                  -> "batch empty"
      [] method \in Batches /\ items # <<>> /\ TooMany(method, items) -> "batch limit"
      [] method \in Batches /\ items # <<>> /\ ~TooMany(method, items) ->
            ValidateItems(method, items)
      [] method \in Singles                                  -> ValidateItems(method, items)

Validate(r) ==
    IF r.id < MinId THEN "request id"
    ELSE IF r.version # "2.0" THEN "version"
    ELSE ValidateParams(r.method, r.items)
-----------------------------------------------------------------------------
(* Publish::as_subscription_request(), for a subscriber of the topic.      *)
AsSubscriptionRequest(r, id, subscription) ==
    [id |-> id, version |-> "2.0", method |-> "subscription",
     items |-> <<[topic |-> r.items[1].topic, subscription |-> subscription]>>]

(* SubscriptionId::generate().                                             *)
Generated == {t \in Topics : t.len = 2 * ByteLength /\ t.hex}

ItemCounts(method) ==
    CASE method \in Singles -> {1} [] method \in Watches -> {0} [] OTHER -> Lengths

Requests ==
    UNION {[id : Ids, version : {"2.0", "1.0"}, method : {method},
            items : UNION {[1..n -> Items] : n \in ItemCounts(method)}]
              : method \in Singles \cup Batches \cup Watches}

RpcInit ==
    /\ request \in Requests
    /\ reply = "none"

(* Request::validate(), whose error the reply carries.                     *)
Answer ==
    /\ reply = "none"
    /\ reply' = Validate(request)
    /\ UNCHANGED request

(* A server passes a valid published message on.                           *)
Forward ==
    /\ reply = "ok" /\ request.method = "publish"
    /\ \E id \in {i \in Ids : i >= MinId}, subscription \in Generated :
            request' = AsSubscriptionRequest(request, id, subscription)
    /\ reply' = "none"

RpcNext == Answer \/ Forward

RpcSpec == RpcInit /\ [][RpcNext]_rpcVars
-----------------------------------------------------------------------------
Errors == {"request id", "version", "batch empty", "batch limit", "topic length",
           "topic encoding", "subscription id length", "subscription id encoding"}

(* The request is one of those met, the reply a verdict on it.             *)
RpcTypeOK ==
    /\ request \in Requests
    /\ reply \in {"none", "ok"} \cup Errors

SingleOf(method) ==
    CASE method = "batchSubscribe"     -> "subscribe"
      [] method = "batchUnsubscribe"   -> "unsubscribe"
      [] method = "batchFetchMessages" -> "fetchMessages"
      [] method = "batchReceive"       -> "fetchMessages"

(* The request that item n would make on its own.                          *)
Single(r, n) ==
    [id |-> r.id, version |-> r.version, method |-> SingleOf(r.method),
     items |-> <<r.items[n]>>]

(* A batch of acceptable size is valid if each of its items is on its own, *)
(* and otherwise fails for the first that is not (rpc.rs:412-557).         *)
BatchAgreesWithSingles ==
    LET r == request
        sized == Len(r.items) \in 1..Limit(r.method)
        bad == {n \in DOMAIN r.items : Validate(Single(r, n)) # "ok"}
    IN r.method \in Batches /\ reply \notin {"none", "request id", "version"} =>
            /\ reply = "ok" <=> sized /\ bad = {}
            /\ sized /\ bad # {} => reply = Validate(Single(r, Min(bad)))
=============================================================================
