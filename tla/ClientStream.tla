---------------------------- MODULE ClientStream ----------------------------
(***************************************************************************)
(* The lower-level websocket stream of the relay client, struct            *)
(* ClientStream in relay_client/src/websocket/stream.rs: it owns one       *)
(* socket, the channel of messages waiting to be written, the map of       *)
(* requests waiting for an answer and the generator of their ids.          *)
(*                                                                         *)
(* The socket (tokio-tungstenite), the network and the relay are external: *)
(* they are modelled by what the code above them can observe.  The wire    *)
(* variables hold what is in flight, so a poll that finds the socket empty *)
(* is a poll that happens before the next frame arrives; this is why one   *)
(* iteration of the read loop or of the write loop is one action.          *)
(*                                                                         *)
(* Operators named as variants of another one (AlwaysVacant, PeekNext ...) *)
(* are plausible mistakes; the properties are checked to tell them apart   *)
(* from the code.                                                          *)
(*                                                                         *)
(* The module can be driven by anybody who owns a stream: Next lets the    *)
(* owner send, poll, respond, close and drop in any order.  The event loop *)
(* of module WebsocketClient is one such owner.                            *)
(***************************************************************************)
EXTENDS Naturals, Sequences

CONSTANTS
    Requests,       \* the OutboundRequests: params and a oneshot sender each
    Messages,       \* the irn_subscription requests the relay can send
    Answers,        \* what a response future can make of an answer
    CounterSize,    \* number of values of the generator's AtomicU8
    MaxClock,       \* bound: milliseconds the wall clock can show
    MaxWire,        \* bound: frames in flight to the client
    MaxUnsolicited, \* bound: frames the relay sends that are no answer
    None            \* no request

ASSUME StreamAssumption ==
    /\ CounterSize \in Nat \ {0}
    /\ MaxClock \in Nat \ {0}
    /\ MaxWire \in Nat
    /\ MaxUnsolicited \in Nat
    /\ None \notin Requests
    /\ Answers \subseteq {"ok", "rpcError", "deserialization"}

VARIABLES
    socket,         \* none, open, byUs (our close frame is sent), byPeer (the
                    \* relay's has been read), ended (it yields nothing more)
    closing,        \* ClientStream::close(): no, busy, ok, failed
    requests,       \* ClientStream::requests, None where the map has no entry
    outbound,       \* ClientStream::outbound_tx / outbound_rx
    counter,        \* ClientStream::id_generator
    closeFrame,     \* ClientStream::close_frame: is a frame recorded?
    event,          \* the StreamEvent the last poll returned, not yet handled
    result,         \* what the oneshot of each request was completed with
    clock,          \* the wall clock in milliseconds, as the generator reads it
    net,            \* the TCP connection: up, halfClosed (by the relay), down
    toClient,       \* frames in flight from the relay
    toRelay,        \* messages in flight to the relay, served in any order
    executed,       \* requests the relay has processed
    mailbox,        \* subscription messages the relay still holds
    unsolicited     \* frames sent so far that are no answer

streamVars == <<socket, closing, requests, outbound, counter, closeFrame, event>>
wireVars   == <<net, toClient, toRelay>>
relayVars  == <<executed, mailbox, unsolicited>>
vars       == <<streamVars, result, clock, wireVars, relayVars>>

-----------------------------------------------------------------------------
(* A message id is `timestamp << 8 | counter`: the pair of its two parts.  *)
Ids       == (1..MaxClock) \X (0..CounterSize - 1)
ZeroId    == <<0, 0>>      \* MessageId::is_zero()
UnknownId == <<0, 1>>      \* an id this client never generated

Closed   == {"closed", "closedWithFrame"}
Outcomes == Answers \cup Closed \cup {"duplicateId", "foreign"}

NoEvent       == [type |-> "none"]
InboundError  == [type |-> "inboundError"]
OutboundError == [type |-> "outboundError"]
SubscriptionEvent(m)   == [type |-> "subscription", msg |-> m]
ConnectionClosed(f)    == [type |-> "closed", frame |-> f]
StreamEvents == {NoEvent, InboundError, OutboundError}
                \cup {SubscriptionEvent(m) : m \in Messages}
                \cup {ConnectionClosed(f) : f \in BOOLEAN}

RequestMessage(i, r) == [type |-> "request", id |-> i, call |-> r]
AckMessage(m)        == [type |-> "ack", msg |-> m]
OutboundMessages == {RequestMessage(i, r) : i \in Ids, r \in Requests}
                    \cup {AckMessage(m) : m \in Messages}

(* Frames from the relay.  An "invalid" frame is a text frame that is no   *)
(* JSON-RPC payload or a request other than irn_subscription; "malformed"  *)
(* is a violation of the websocket protocol; "control" a ping or a pong.   *)
Response(i, r, a)   == [type |-> "response", id |-> i, call |-> r, answer |-> a]
SubscriptionFrame(m) == [type |-> "subscription", msg |-> m]
CloseFrame(f)        == [type |-> "close", frame |-> f]
NoiseFrames == {[type |-> "stray", id |-> i] : i \in {ZeroId, UnknownId}}
               \cup {[type |-> t] : t \in {"invalid", "malformed", "control"}}
Frames == {Response(i, r, a) : i \in Ids, r \in Requests, a \in Answers}
          \cup {SubscriptionFrame(m) : m \in Messages}
          \cup {CloseFrame(f) : f \in BOOLEAN} \cup NoiseFrames

NoRequests == [i \in Ids |-> None]
-----------------------------------------------------------------------------
(* No stream: the state before create_stream() and after drop.             *)
Init ==
    /\ socket = "none" /\ closing = "no" /\ requests = NoRequests
    /\ outbound = <<>> /\ counter = 0 /\ closeFrame = FALSE /\ event = NoEvent
    /\ result = [r \in Requests |-> "idle"]
    /\ clock \in 1..MaxClock
    /\ net = "down" /\ toClient = <<>> /\ toRelay = {}
    /\ executed = {} /\ mailbox = Messages /\ unsolicited = 0

(* create_stream() succeeded: ClientStream::new().                         *)
Create ==
    /\ socket = "none"
    /\ socket' = "open"
    /\ net' = "up"
    /\ UNCHANGED <<closing, requests, outbound, counter, closeFrame, event,
                   result, clock, toClient, toRelay, relayVars>>

(* MessageIdGenerator::next(): fetch_add on an AtomicU8 wraps.             *)
UnwrappedCounter == counter + 1
NextCounter == (counter + 1) % CounterSize

(* HashMap::entry(): a pending request is never displaced.                 *)
AlwaysVacant(id) == id \in Ids
Vacant(id) == requests[id] = None

(* The outbound channel is unbounded, sending on it cannot fail.           *)
BoundedEnqueue(m) == outbound' = IF outbound = <<>> THEN <<m>> ELSE outbound
Enqueue(m) == outbound' = Append(outbound, m)

(* ClientStream::send_raw() with MessageIdGenerator::next() inlined: the   *)
(* counter moves on even when the id turns out to be taken.                *)
SendRaw(r) ==
    LET id == <<clock, counter>> IN
    /\ socket # "none" /\ closing # "busy"
    /\ result[r] = "idle"
    /\ counter' = NextCounter
    /\ \/ /\ ~Vacant(id)
          /\ result' = [result EXCEPT ![r] = "duplicateId"]
          /\ UNCHANGED <<requests, outbound>>
       \/ /\ Vacant(id)
          /\ requests' = [requests EXCEPT ![id] = r]
          /\ Enqueue(RequestMessage(id, r))
          /\ result' = [result EXCEPT ![r] = "waiting"]
    /\ UNCHANGED <<socket, closing, closeFrame, event, clock, wireVars, relayVars>>
-----------------------------------------------------------------------------
(* The stream may be polled: it is not terminated, not borrowed by close() *)
(* and its owner has taken the event of the previous poll.                 *)
CanPoll == socket \notin {"none", "ended"} /\ closing # "busy" /\ event = NoEvent

CanRead == CanPoll /\ socket \in {"open", "byUs"}

(* The socket hands out the next frame.                                    *)
Receive(type) ==
    /\ CanRead
    /\ toClient # <<>>
    /\ Head(toClient).type = type
    /\ toClient' = Tail(toClient)

(* The payload of the answer is abstracted to whose request it answers.    *)
Outcome(frame, r) == IF frame.call = r THEN frame.answer ELSE "foreign"

(* HashMap::remove(): an answered request is forgotten.                    *)
Without(id) == [requests EXCEPT ![id] = None]

(* parse_inbound(): a response whose id is in the map completes the        *)
(* request and yields no event; otherwise its id is invalid.               *)
ReadResponse ==
    LET frame == Head(toClient) IN
    /\ Receive("response")
    /\ \/ /\ requests[frame.id] # None
          /\ requests' = Without(frame.id)
          /\ result' = [result EXCEPT ![requests[frame.id]] =
                            Outcome(frame, requests[frame.id])]
          /\ UNCHANGED event
       \/ /\ requests[frame.id] = None
          /\ event' = InboundError
          /\ UNCHANGED <<requests, result>>
    /\ UNCHANGED <<socket, closing, outbound, counter, closeFrame, clock, net,
                   toRelay, relayVars>>

(* A variant that acknowledges a message when it is parsed.                *)
ReadSubscriptionAcks ==
    /\ Receive("subscription")
    /\ event' = SubscriptionEvent(Head(toClient).msg)
    /\ Enqueue(AckMessage(Head(toClient).msg))
    /\ UNCHANGED <<socket, closing, requests, counter, closeFrame, result, clock,
                   net, toRelay, relayVars>>

(* parse_inbound(): irn_subscription, the only request a client serves.    *)
ReadSubscription ==
    /\ Receive("subscription")
    /\ event' = SubscriptionEvent(Head(toClient).msg)
    /\ UNCHANGED <<socket, closing, requests, outbound, counter, closeFrame,
                   result, clock, net, toRelay, relayVars>>

(* parse_inbound(): not a payload, not a request the client serves, or a   *)
(* response with id zero or with an id that is not in the map.             *)
ReadInvalid ==
    /\ Receive("invalid") \/ Receive("stray")
    /\ event' = InboundError
    /\ UNCHANGED <<socket, closing, requests, outbound, counter, closeFrame,
                   result, clock, net, toRelay, relayVars>>

(* parse_inbound(): pings and pongs are skipped.                           *)
ReadControl ==
    /\ Receive("control")
    /\ UNCHANGED <<streamVars, result, clock, net, toRelay, relayVars>>

(* parse_inbound(): the relay closes, or acknowledges our close.           *)
ReadClose ==
    /\ Receive("close")
    /\ closeFrame' = Head(toClient).frame
    /\ event' = ConnectionClosed(Head(toClient).frame)
    /\ socket' = "byPeer"
    /\ UNCHANGED <<closing, requests, outbound, counter, result, clock, net,
                   toRelay, relayVars>>

(* The socket yields an error, once, and is terminated: a protocol         *)
(* violation, or the end of the TCP stream before a closing handshake.     *)
ReadError ==
    /\ \/ Receive("malformed")
       \/ CanRead /\ net = "down" /\ toClient = <<>> /\ UNCHANGED toClient
    /\ event' = InboundError
    /\ socket' = "ended"
    /\ UNCHANGED <<closing, requests, outbound, counter, closeFrame, result,
                   clock, net, toRelay, relayVars>>

(* The socket yields None: TCP closed after the closing handshake.         *)
ReadEnd ==
    /\ CanPoll
    /\ socket = "byPeer"
    /\ net = "down"
    /\ event' = ConnectionClosed(closeFrame)
    /\ socket' = "ended"
    /\ UNCHANGED <<closing, requests, outbound, counter, closeFrame, result,
                   clock, wireVars, relayVars>>
-----------------------------------------------------------------------------
(* The message that is written has left the channel.                       *)
PeekNext == UNCHANGED outbound
TakeNext == outbound' = Tail(outbound)

(* poll_write(): one message moves to the socket; on a connection that is  *)
(* down but not yet seen to be, it goes nowhere.                           *)
WriteNext ==
    /\ CanPoll
    /\ socket = "open"
    /\ outbound # <<>>
    /\ TakeNext
    /\ toRelay' = IF net = "down" THEN toRelay ELSE toRelay \cup {Head(outbound)}
    /\ UNCHANGED <<socket, closing, requests, counter, closeFrame, event, result,
                   clock, net, toClient, relayVars>>

(* poll_write(): start_send() fails and the message it was given is gone.  *)
WriteSendError ==
    /\ CanPoll
    /\ outbound # <<>>
    /\ net = "down" \/ socket # "open"
    /\ outbound' = Tail(outbound)
    /\ event' = OutboundError
    /\ UNCHANGED <<socket, closing, requests, counter, closeFrame, result, clock,
                   wireVars, relayVars>>

(* poll_write(): poll_ready() or poll_flush() fails.                       *)
WriteReadyError ==
    /\ CanPoll
    /\ net = "down"
    /\ event' = OutboundError
    /\ UNCHANGED <<socket, closing, requests, outbound, counter, closeFrame,
                   result, clock, wireVars, relayVars>>
-----------------------------------------------------------------------------
(* InboundRequest::respond(): the response goes to the outbound channel.   *)
Respond ==
    /\ event.type = "subscription"
    /\ Enqueue(AckMessage(event.msg))
    /\ event' = NoEvent
    /\ UNCHANGED <<socket, closing, requests, counter, closeFrame, result, clock,
                   wireVars, relayVars>>

(* The owner is done with an event and does not respond to it; an owner    *)
(* that keeps the request and responds after later polls is not modelled.  *)
TakeEvent ==
    /\ event # NoEvent
    /\ event' = NoEvent
    /\ UNCHANGED <<socket, closing, requests, outbound, counter, closeFrame,
                   result, clock, wireVars, relayVars>>

(* ClientStream::close(frame), up to its await.                            *)
CloseBegin(frame) ==
    /\ socket # "none" /\ closing # "busy"
    /\ closing' = "busy"
    /\ closeFrame' = frame
    /\ UNCHANGED <<socket, requests, outbound, counter, event, result, clock,
                   wireVars, relayVars>>

(* The close frame is written.  A socket that ended on a protocol error    *)
(* still writes; one whose TCP connection is gone does not.                *)
CloseOk ==
    /\ closing = "busy"
    /\ socket = "open" \/ (socket = "ended" /\ net # "down")
    /\ closing' = "ok"
    /\ socket' = IF socket = "open" THEN "byUs" ELSE socket
    /\ UNCHANGED <<requests, outbound, counter, closeFrame, event, result, clock,
                   wireVars, relayVars>>

(* ClosingFailed: the connection is gone or already closing.               *)
CloseFailed ==
    /\ closing = "busy"
    /\ net = "down" \/ socket \in {"byUs", "byPeer"}
    /\ closing' = "failed"
    /\ UNCHANGED <<socket, requests, outbound, counter, closeFrame, event, result,
                   clock, wireVars, relayVars>>

(* What the relay still makes of the messages in flight when the client    *)
(* end of the connection goes away: it may or may not get to each of them. *)
RelayDrains ==
    \E seen \in SUBSET toRelay :
        /\ executed' = executed \cup {r \in Requests :
                            \E i \in Ids : RequestMessage(i, r) \in seen}
        /\ mailbox' = {m \in mailbox : AckMessage(m) \notin seen}

(* What is drained: the senders in the map.                                *)
NoneDrained(r) == FALSE
InMap(r) == \E i \in Ids : requests[i] = r

(* impl Drop for ClientStream: every request still in the map fails with   *)
(* the recorded reason; what was not written yet is never written.         *)
Drop ==
    /\ socket # "none"
    /\ result' = [r \in Requests |->
                    IF InMap(r)
                    THEN IF closeFrame THEN "closedWithFrame" ELSE "closed"
                    ELSE result[r]]
    /\ socket' = "none" /\ closing' = "no" /\ requests' = NoRequests
    /\ outbound' = <<>> /\ counter' = 0 /\ closeFrame' = FALSE /\ event' = NoEvent
    /\ net' = "down" /\ toClient' = <<>> /\ toRelay' = {}
    /\ RelayDrains
    /\ UNCHANGED <<clock, unsolicited>>
-----------------------------------------------------------------------------
(* The relay (external).  It answers a request at most once, redelivers a  *)
(* message until it is acknowledged, and sends nothing after its close.    *)
RelaySends(frame) ==
    /\ net = "up"
    /\ Len(toClient) < MaxWire
    /\ toClient' = Append(toClient, frame)
    /\ UNCHANGED <<streamVars, result, clock>>

Unsolicited(frame) ==
    /\ unsolicited < MaxUnsolicited
    /\ unsolicited' = unsolicited + 1
    /\ RelaySends(frame)
    /\ UNCHANGED <<toRelay, executed, mailbox>>

RelayAnswer ==
    \E m \in toRelay, a \in Answers :
        /\ m.type = "request"
        /\ RelaySends(Response(m.id, m.call, a))
        /\ toRelay' = toRelay \ {m}
        /\ executed' = executed \cup {m.call}
        /\ UNCHANGED <<net, mailbox, unsolicited>>

RelayDeliver ==
    \E m \in mailbox :
        /\ Unsolicited(SubscriptionFrame(m))
        /\ UNCHANGED net

RelayAcked ==
    \E m \in toRelay :
        /\ m.type = "ack"
        /\ net # "down"
        /\ toRelay' = toRelay \ {m}
        /\ mailbox' = mailbox \ {m.msg}
        /\ UNCHANGED <<streamVars, result, clock, net, toClient, executed, unsolicited>>

RelayNoise ==
    \E f \in NoiseFrames :
        /\ Unsolicited(f)
        /\ UNCHANGED net

RelayClose ==
    \E f \in BOOLEAN :
        /\ Unsolicited(CloseFrame(f))
        /\ net' = "halfClosed"

(* The TCP connection ends; frames that had not arrived yet are lost.      *)
NetBreak ==
    /\ socket # "none"
    /\ net # "down"
    /\ net' = "down"
    /\ \E n \in 0..Len(toClient) : toClient' = SubSeq(toClient, 1, n)
    /\ UNCHANGED <<streamVars, result, clock, toRelay, relayVars>>

(* The wall clock is set to any value: it is not monotonic.                *)
Tick ==
    /\ clock' \in (1..MaxClock) \ {clock}
    /\ UNCHANGED <<streamVars, result, wireVars, relayVars>>

Environment == RelayAnswer \/ RelayDeliver \/ RelayAcked \/ RelayNoise
               \/ RelayClose \/ NetBreak \/ Tick

PollRead  == ReadResponse \/ ReadSubscription \/ ReadInvalid \/ ReadControl
             \/ ReadClose \/ ReadError \/ ReadEnd
PollWrite == WriteNext \/ WriteSendError \/ WriteReadyError

Next ==
    \/ Create \/ Drop
    \/ \E r \in Requests : SendRaw(r)
    \/ PollRead \/ PollWrite
    \/ Respond \/ TakeEvent
    \/ \E f \in BOOLEAN : CloseBegin(f)
    \/ CloseOk \/ CloseFailed
    \/ Environment

Spec == Init /\ [][Next]_vars
-----------------------------------------------------------------------------
(* Every variable has its type; the counter wraps (lib.rs:156-163).        *)
TypeOK ==
    /\ socket \in {"none", "open", "byUs", "byPeer", "ended"}
    /\ closing \in {"no", "busy", "ok", "failed"}
    /\ requests \in [Ids -> Requests \cup {None}]
    /\ outbound \in Seq(OutboundMessages)
    /\ counter \in 0..CounterSize - 1
    /\ closeFrame \in BOOLEAN
    /\ event \in StreamEvents
    /\ result \in [Requests -> {"idle", "waiting"} \cup Outcomes]
    /\ clock \in 1..MaxClock
    /\ net \in {"up", "halfClosed", "down"}
    /\ toClient \in Seq(Frames)
    /\ toRelay \subseteq OutboundMessages
    /\ executed \subseteq Requests
    /\ mailbox \subseteq Messages
    /\ unsolicited \in 0..MaxUnsolicited

(* A response future is unresolved exactly while its sender is in the map  *)
(* of a live stream, under one id: no answer, close or id collision drops  *)
(* a sender, leaves one behind or keeps it twice (stream.rs:107-129,       *)
(* 199-216, 310-320).                                                      *)
PendingIsInMap ==
    /\ \A r \in Requests : result[r] = "waiting" <=> InMap(r)
    /\ \A i, j \in Ids : requests[i] = requests[j] /\ requests[i] # None => i = j
    /\ socket = "none" => requests = NoRequests

(* Where request r is on its way, and under which id.                      *)
Queued(i, r)   == \E n \in DOMAIN outbound : outbound[n] = RequestMessage(i, r)
AtRelay(i, r)  == RequestMessage(i, r) \in toRelay
Answered(i, r) == \E n \in DOMAIN toClient :
                    \E a \in Answers : toClient[n] = Response(i, r, a)

(* While the connection is healthy no waiting request has been lost: its   *)
(* message is queued or at the relay or its answer is on the way, under    *)
(* the id the map knows it by.  A caller can therefore only hang on a      *)
(* connection that is about to be found dead (stream.rs:238-267).          *)
WaitingIsOnItsWay ==
    socket = "open" /\ net = "up" =>
        \A i \in Ids : requests[i] # None =>
            LET r == requests[i]
            IN Queued(i, r) \/ AtRelay(i, r) \/ Answered(i, r)

(* The answer to one request never completes another one, although ids     *)
(* repeat when the 8-bit counter wraps or the wall clock steps back        *)
(* (lib.rs:156-163, stream.rs:199).                                        *)
NoForeignAnswer == \A r \in Requests : result[r] # "foreign"

IsRequest(m)  == m.type = "request"
IsResponse(f) == f.type = "response"

(* A message that is queued or at the relay, and an answer on its way,     *)
(* carry the request that the map has under their id, so an id that is     *)
(* free in the map may be used again (stream.rs:114-122, 199).             *)
InFlightIsWaiting ==
    /\ \A n \in DOMAIN outbound :
        IsRequest(outbound[n]) => requests[outbound[n].id] = outbound[n].call
    /\ \A m \in toRelay : IsRequest(m) => requests[m.id] = m.call
    /\ \A n \in DOMAIN toClient :
        IsResponse(toClient[n]) => requests[toClient[n].id] = toClient[n].call

(* No id is in flight twice, in whatever stage.                            *)
InFlightOnce ==
    /\ \A n, k \in DOMAIN outbound :
        IsRequest(outbound[n]) /\ IsRequest(outbound[k]) =>
            (outbound[n].id = outbound[k].id => n = k)
    /\ \A n, k \in DOMAIN toClient :
        IsResponse(toClient[n]) /\ IsResponse(toClient[k]) =>
            (toClient[n].id = toClient[k].id => n = k)
    /\ \A m \in toRelay : IsRequest(m) =>
        /\ \A n \in DOMAIN outbound : IsRequest(outbound[n]) => outbound[n].id # m.id
        /\ \A n \in DOMAIN toClient : IsResponse(toClient[n]) => toClient[n].id # m.id
        /\ \A k \in toRelay : IsRequest(k) /\ k.id = m.id => k = m
    /\ \A n \in DOMAIN outbound, k \in DOMAIN toClient :
        IsRequest(outbound[n]) /\ IsResponse(toClient[k]) => outbound[n].id # toClient[k].id

(* Every id in flight belongs to one waiting request and is there once.    *)
IdsInFlight == InFlightIsWaiting /\ InFlightOnce

(* What the caller is told fits what the relay did: an answered request    *)
(* was processed, one refused for its id never was and never will be, and  *)
(* none is processed twice (stream.rs:114-122).                            *)
OutcomeFitsRelay ==
    \A r \in Requests :
        /\ result[r] \in Answers => r \in executed
        /\ result[r] \in {"idle", "duplicateId"} => r \notin executed
        /\ r \in executed \/ result[r] \in {"idle", "duplicateId"} =>
                \A i \in Ids : ~Queued(i, r) /\ ~AtRelay(i, r)

-----------------------------------------------------------------------------
(* The owner polls the stream in a loop: what a poll can do gets done.     *)
PolledSpec == Spec /\ WF_vars(PollRead) /\ WF_vars(PollWrite)

(* stream.rs:67-70 of ConnectionClosed: "This is the last event that can   *)
(* be produced by the stream."  The event of the relay's close frame has   *)
(* been produced once socket is "byPeer".                                  *)
ClosedIsLastEvent == [][socket = "byPeer" /\ event = NoEvent => event' = NoEvent]_vars
=============================================================================
