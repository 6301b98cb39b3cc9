--------------------------- MODULE WebsocketClient ---------------------------
(***************************************************************************)
(* The websocket RPC client: the handles (struct Client in                 *)
(* relay_client/src/websocket.rs), the control channel they share, and the *)
(* event loop (websocket/connection.rs) that owns the connection and calls *)
(* the application's ConnectionHandler.                                    *)
(*                                                                         *)
(* The loop is one task.  Its select! picks between the control channel    *)
(* and the stream, so between two steps at pc = "select" either can go     *)
(* first; the awaits inside the handling of Connect and Disconnect are     *)
(* states of their own ("closing", "connecting"), during which the loop    *)
(* neither receives nor polls.  The poll of the stream itself is the read  *)
(* and write actions of ClientStream.                                      *)
(***************************************************************************)
EXTENDS ClientStream

CONSTANTS
    Connects,       \* calls of Client::connect()
    Disconnects     \* calls of Client::disconnect()

ASSUME CallsAssumption == Connects \cap Disconnects = {}

VARIABLES
    handles,        \* is a clone of Client alive?
    queue,          \* the control channel, ConnectionControl messages in order
    pc,             \* where the loop is: select, closing, connecting, stopped
    serving,        \* the message whose handling is awaiting something
    issued,         \* requests given to Client::request()
    refused,        \* how requests that never reached a stream were completed
    reply,          \* what each call of connect() or disconnect() returned
    callback,       \* the last of connected() and disconnected() to be called
    delivered       \* messages handed to message_received()

loopVars   == <<pc, serving, callback, delivered>>
callVars   == <<handles, issued, reply>>
clientVars == <<vars, loopVars, callVars, queue, refused>>
-----------------------------------------------------------------------------
Calls == Connects \cup Disconnects

OutboundRequest(r) == [type |-> "request", call |-> r]
Connect(c)         == [type |-> "connect", call |-> c]
Disconnect(c)      == [type |-> "disconnect", call |-> c]
Shutdown           == [type |-> "shutdown"]
Idle               == [type |-> "idle"]

ConnectionControl == {OutboundRequest(r) : r \in Requests}
                     \cup {Connect(c) : c \in Connects}
                     \cup {Disconnect(c) : c \in Disconnects}

Replies == {"ok", "buildFailed", "connectionFailed", "closingFailed", "channelClosed"}

InQueue(control) == \E n \in DOMAIN queue : queue[n] = control

ClientInit ==
    /\ Init
    /\ handles = TRUE /\ queue = <<>> /\ pc = "select" /\ serving = Idle
    /\ issued = {} /\ refused = [r \in Requests |-> "no"]
    /\ reply = [c \in Calls |-> "idle"]
    /\ callback = "none" /\ delivered = {}
-----------------------------------------------------------------------------
(* The handles.  Client::request(), which every RPC method ends in: the    *)
(* channel is closed once the loop has ended.                              *)
Issue(r) ==
    /\ handles /\ r \notin issued
    /\ issued' = issued \cup {r}
    /\ \/ /\ pc # "stopped"
          /\ queue' = Append(queue, OutboundRequest(r))
          /\ UNCHANGED refused
       \/ /\ pc = "stopped"
          /\ refused' = [refused EXCEPT ![r] = "channelClosed"]
          /\ UNCHANGED queue
    /\ UNCHANGED <<vars, loopVars, handles, reply>>

(* A call sends its message and waits for the loop to reply.               *)
Call(c, control) ==
    /\ handles /\ reply[c] = "idle"
    /\ \/ /\ pc # "stopped"
          /\ queue' = Append(queue, control)
          /\ reply' = [reply EXCEPT ![c] = "waiting"]
       \/ /\ pc = "stopped"
          /\ reply' = [reply EXCEPT ![c] = "channelClosed"]
          /\ UNCHANGED queue
    /\ UNCHANGED <<vars, loopVars, handles, issued, refused>>

CallConnect(c) == Call(c, Connect(c))

(* ConnectionOptions::as_ws_request() fails: nothing is sent.              *)
CallConnectInvalid(c) ==
    /\ handles /\ reply[c] = "idle"
    /\ reply' = [reply EXCEPT ![c] = "buildFailed"]
    /\ UNCHANGED <<vars, loopVars, handles, issued, queue, refused>>

CallDisconnect(c) == Call(c, Disconnect(c))

(* The last handle goes away.  A connect() future that was dropped before  *)
(* it completed holds no handle, so calls may still be waiting.            *)
DropClients ==
    /\ handles
    /\ handles' = FALSE
    /\ UNCHANGED <<vars, loopVars, issued, reply, queue, refused>>
-----------------------------------------------------------------------------
(* The control branch of select!.  The loop receives only when the event   *)
(* of its last poll has been handled.                                      *)
Selecting == pc = "select" /\ event = NoEvent

Recv(type) ==
    /\ Selecting
    /\ queue # <<>>
    /\ Head(queue).type = type
    /\ queue' = Tail(queue)

HasStream == socket # "none"

(* Connection::request() without a stream: the caller is told.             *)
ForgetRequest(r) == UNCHANGED refused
NotConnected(r)  == refused' = [refused EXCEPT ![r] = "notConnected"]

(* Connection::request()                                                   *)
RecvRequest ==
    LET r == Head(queue).call IN
    /\ Recv("request")
    /\ \/ HasStream /\ SendRaw(r) /\ UNCHANGED refused
       \/ /\ ~HasStream
          /\ NotConnected(r)
          /\ UNCHANGED vars
    /\ UNCHANGED <<loopVars, callVars>>

(* Connection::connect(), up to its first await.                           *)
RecvConnect ==
    /\ Recv("connect")
    /\ serving' = Head(queue)
    /\ \/ HasStream /\ CloseBegin(FALSE) /\ pc' = "closing"
       \/ ~HasStream /\ pc' = "connecting" /\ UNCHANGED vars
    /\ UNCHANGED <<callback, delivered, callVars, refused>>

(* Connection::disconnect(), up to its await.                              *)
RecvDisconnect ==
    /\ Recv("disconnect")
    /\ \/ /\ HasStream
          /\ CloseBegin(FALSE)
          /\ pc' = "closing"
          /\ serving' = Head(queue)
          /\ UNCHANGED reply
       \/ /\ ~HasStream
          /\ reply' = [reply EXCEPT ![Head(queue).call] = "closingFailed"]
          /\ UNCHANGED <<vars, pc, serving>>
    /\ UNCHANGED <<callback, delivered, handles, issued, refused>>

(* A variant that breaks out of the loop only after closing a stream.      *)
RecvNoneWithStream ==
    /\ Selecting /\ ~handles /\ queue = <<>>
    /\ HasStream /\ CloseBegin(FALSE)
    /\ pc' = "closing" /\ serving' = Shutdown
    /\ UNCHANGED <<callback, delivered, callVars, queue, refused>>

(* Control TX has been dropped, shutting down.                             *)
RecvNone ==
    /\ Selecting /\ ~handles /\ queue = <<>>
    /\ \/ /\ HasStream
          /\ CloseBegin(FALSE)
          /\ pc' = "closing" /\ serving' = Shutdown
          /\ UNCHANGED callback
       \/ /\ ~HasStream
          /\ pc' = "stopped" /\ callback' = "disconnected"
          /\ UNCHANGED <<vars, serving>>
    /\ UNCHANGED <<delivered, callVars, queue, refused>>
-----------------------------------------------------------------------------
(* The await of ClientStream::close() ends.                                *)
Closing == pc = "closing" /\ (CloseOk \/ CloseFailed)
           /\ UNCHANGED <<loopVars, callVars, queue, refused>>

ReplyOnSuccess(value) == reply' = [reply EXCEPT ![serving.call] =
                                      IF value = "ok" THEN value ELSE reply[serving.call]]
ReplyServed(value) == reply' = [reply EXCEPT ![serving.call] = value]

(* connect() goes on to create_stream() when the old stream is closed, and *)
(* gives up when it is not: `stream.close(None).await?`.                   *)
ClosedToConnect ==
    /\ pc = "closing" /\ serving.type = "connect"
    /\ closing # "busy"
    /\ Drop
    /\ \/ /\ closing = "ok"
          /\ pc' = "connecting"
          /\ UNCHANGED <<serving, reply>>
       \/ /\ closing = "failed"
          /\ ReplyServed("closingFailed")
          /\ pc' = "select" /\ serving' = Idle
    /\ UNCHANGED <<callback, delivered, handles, issued, queue, refused>>

ClosedToDisconnect ==
    /\ pc = "closing" /\ serving.type = "disconnect"
    /\ closing # "busy"
    /\ Drop
    /\ ReplyServed(IF closing = "ok" THEN "ok" ELSE "closingFailed")
    /\ pc' = "select" /\ serving' = Idle
    /\ UNCHANGED <<callback, delivered, handles, issued, queue, refused>>

(* The last disconnect ignores its result.                                 *)
ClosedToStop ==
    /\ pc = "closing" /\ serving.type = "shutdown"
    /\ closing # "busy"
    /\ Drop
    /\ callback' = "disconnected"
    /\ pc' = "stopped" /\ serving' = Idle
    /\ UNCHANGED <<delivered, callVars, queue, refused>>

(* create_stream() returns: connected() is called before the reply.        *)
Connected ==
    /\ pc = "connecting"
    /\ Create
    /\ callback' = "connected"
    /\ ReplyServed("ok")
    /\ pc' = "select" /\ serving' = Idle
    /\ UNCHANGED <<delivered, handles, issued, queue, refused>>

ConnectionFailed ==
    /\ pc = "connecting"
    /\ ReplyServed("connectionFailed")
    /\ pc' = "select" /\ serving' = Idle
    /\ UNCHANGED <<vars, callback, delivered, handles, issued, queue, refused>>
-----------------------------------------------------------------------------
(* The stream branch of select!: Connection::poll_next().                  *)
PollStream ==
    /\ pc = "select"
    /\ PollRead \/ PollWrite
    /\ UNCHANGED <<loopVars, callVars, queue, refused>>

(* A terminated stream is dropped; nobody is told.                         *)
Reap ==
    /\ Selecting
    /\ socket = "ended"
    /\ Drop
    /\ UNCHANGED <<loopVars, callVars, queue, refused>>

HandleSubscription ==
    /\ pc = "select"
    /\ Respond
    /\ delivered' = delivered \cup {event.msg}
    /\ UNCHANGED <<pc, serving, callback, callVars, queue, refused>>

(* inbound_error(), outbound_error(): the connection is left as it is.     *)
HandleError ==
    /\ pc = "select"
    /\ event \in {InboundError, OutboundError}
    /\ TakeEvent
    /\ UNCHANGED <<loopVars, callVars, queue, refused>>

(* A variant without conn.reset().                                         *)
HandleClosedKeeps ==
    /\ pc = "select"
    /\ event.type = "closed"
    /\ TakeEvent
    /\ callback' = "disconnected"
    /\ UNCHANGED <<pc, serving, delivered, callVars, queue, refused>>

HandleClosed ==
    /\ pc = "select"
    /\ event.type = "closed"
    /\ Drop
    /\ callback' = "disconnected"
    /\ UNCHANGED <<pc, serving, delivered, callVars, queue, refused>>

(* The senders that are dropped unused: those in the channel, since the    *)
(* stream completes its own before it drops them.                          *)
SenderUnused(r)  == r \in issued /\ result[r] \in {"idle", "waiting"}
SenderDropped(r) == InQueue(OutboundRequest(r))

(* The task of the loop goes away at any point: a callback panics, or the  *)
(* runtime shuts down.  The stream and the channel are dropped, and with   *)
(* the channel every sender that is in it or being served.                 *)
Crash ==
    /\ pc # "stopped"
    /\ pc' = "stopped" /\ serving' = Idle /\ queue' = <<>>
    /\ IF HasStream THEN Drop ELSE UNCHANGED vars
    /\ refused' = [r \in Requests |->
                     IF SenderDropped(r) THEN "channelClosed" ELSE refused[r]]
    /\ reply' = [c \in Calls |->
                   IF reply[c] = "waiting" THEN "channelClosed" ELSE reply[c]]
    /\ UNCHANGED <<callback, delivered, handles, issued>>
-----------------------------------------------------------------------------
Handles ==
    \/ \E r \in Requests : Issue(r)
    \/ \E c \in Connects : CallConnect(c) \/ CallConnectInvalid(c)
    \/ \E c \in Disconnects : CallDisconnect(c)
    \/ DropClients

RecvControl == RecvRequest \/ RecvConnect \/ RecvDisconnect \/ RecvNone

HandleEvent == HandleSubscription \/ HandleError \/ HandleClosed

Resume == Closing \/ ClosedToConnect \/ ClosedToDisconnect \/ ClosedToStop
          \/ Connected \/ ConnectionFailed

World == Environment /\ UNCHANGED <<loopVars, callVars, queue, refused>>

ClientNext == Handles \/ RecvControl \/ Resume \/ PollStream \/ Reap
              \/ HandleEvent \/ Crash \/ World

ClientSpec == ClientInit /\ [][ClientNext]_clientVars
-----------------------------------------------------------------------------
(* The loop's variables have their types, and the states of its awaits     *)
(* agree with what is being served and with the stream.                    *)
ClientTypeOK ==
    /\ TypeOK
    /\ handles \in BOOLEAN
    /\ queue \in Seq(ConnectionControl)
    /\ pc \in {"select", "closing", "connecting", "stopped"}
    /\ serving \in ConnectionControl \cup {Shutdown, Idle}
    /\ issued \subseteq Requests
    /\ refused \in [Requests -> {"no", "notConnected", "channelClosed"}]
    /\ reply \in [Calls -> {"idle", "waiting"} \cup Replies]
    /\ callback \in {"none", "connected", "disconnected"}
    /\ delivered \subseteq Messages
    /\ pc \in {"select", "stopped"} => serving = Idle /\ closing = "no"
    /\ pc = "closing" => serving # Idle /\ closing # "no" /\ HasStream
    /\ pc = "connecting" => serving.type = "connect"
    /\ pc \in {"connecting", "stopped"} => ~HasStream

(* The places a request can be in: the channel, a stream or one it was     *)
(* completed by, and completed without ever reaching a stream.             *)
InChannel(r) == InQueue(OutboundRequest(r))
InStream(r)  == result[r] # "idle"
Refused(r)   == refused[r] # "no"

(* Every request given to a handle is in exactly one place, however        *)
(* connects, disconnects, a shutdown or a crash cut across it, and when    *)
(* the loop is gone every one of them has been completed                   *)
(* (websocket.rs:288-299, connection.rs:130-141, stream.rs:310-320).       *)
RequestsAccounted ==
    /\ \A r \in issued :
        /\ InChannel(r) \/ InStream(r) \/ Refused(r)
        /\ ~(InChannel(r) /\ InStream(r))
        /\ ~(InChannel(r) /\ Refused(r))
        /\ ~(InStream(r) /\ Refused(r))
    /\ \A r \in Requests \ issued : ~(InChannel(r) \/ InStream(r) \/ Refused(r))
    /\ pc = "stopped" =>
        /\ \A r \in issued : Refused(r) \/ result[r] \in Outcomes
        /\ \A c \in Calls : reply[c] # "waiting"

(* A request that was refused was never written: a caller may repeat it    *)
(* without any risk that the relay sees it twice.                          *)
RefusedNeverExecuted == \A r \in Requests : Refused(r) => r \notin executed

(* While a stream is in place the application's last callback said that    *)
(* it is connected: no order of reconnects and failures leaves a live      *)
(* stream behind a disconnected() (connection.rs:48-56, 91-94).            *)
StreamIsAnnounced == HasStream /\ pc = "select" => callback = "connected"

(* The relay is only told that a message was received after the handler    *)
(* had it, so a crash in between cannot lose it (connection.rs:78-81).     *)
AckedWasDelivered ==
    \A m \in Messages :
        \/ m \notin mailbox
        \/ AckMessage(m) \in toRelay
        \/ \E n \in DOMAIN outbound : outbound[n] = AckMessage(m)
        => m \in delivered

(* The reply to connect() or disconnect() is a barrier: no request made on *)
(* an earlier stream is still waiting when it is given, and there is a     *)
(* stream exactly when it is a successful connect (connection.rs:110-128). *)
ReplyIsBarrier ==
    [][\A c \in Calls :
         reply[c] = "waiting" /\ reply'[c] # "waiting" =>
            /\ \A r \in Requests : result'[r] # "waiting"
            /\ socket' # "none" <=> c \in Connects /\ reply'[c] = "ok"]_clientVars
-----------------------------------------------------------------------------
(* Fairness.  The task of the loop is scheduled, its awaits end, the relay *)
(* answers what it is sent.  poll_next() reads until the socket has        *)
(* nothing before it writes, so a frame or an error that is there each     *)
(* time the loop polls is read: strong fairness of reading.                *)
Fairness ==
    /\ WF_clientVars(RecvControl)
    /\ WF_clientVars(Resume)
    /\ SF_clientVars(pc = "select" /\ PollRead
                      /\ UNCHANGED <<loopVars, callVars, queue, refused>>)
    /\ WF_clientVars(pc = "select" /\ WriteNext
                      /\ UNCHANGED <<loopVars, callVars, queue, refused>>)
    /\ WF_clientVars(Reap)
    /\ WF_clientVars(HandleEvent)
    /\ WF_clientVars(RelayAnswer /\ UNCHANGED <<loopVars, callVars, queue, refused>>)

FairSpec == ClientSpec /\ Fairness

(* Every response future resolves: no request hangs on a dead stream, in a *)
(* channel nobody reads or in the map of a stream nobody polls.            *)
RequestsResolve ==
    \A r \in Requests : r \in issued ~> (Refused(r) \/ result[r] \in Outcomes)

(* Every connect() and disconnect() returns.                               *)
CallsReturn ==
    \A c \in Calls : reply[c] = "waiting" ~> reply[c] # "waiting"

(* When the last handle is gone the loop ends and the stream with it.      *)
LoopEnds == ~handles ~> (pc = "stopped" /\ socket = "none")

(* websocket.rs:109 of disconnected(): "Called when the Relay connection   *)
(* is closed."  If so, in a session in which the application never asks to *)
(* disconnect or to reconnect, its last callback cannot be connected()     *)
(* once there is no connection any more.                                   *)
DisconnectedReported == pc = "select" /\ ~HasStream => callback # "connected"
-----------------------------------------------------------------------------
(* What a caller knows of a request: the channel, the map and the wire are *)
(* all "pending", and the three refusals are one.                          *)
Known(r) ==
    CASE Refused(r)                  -> "refused"
      [] result[r] = "duplicateId"   -> "refused"
      [] result[r] \in Closed        -> "closed"
      [] result[r] \in Answers       -> result[r]
      [] result[r] = "foreign"       -> "foreign"
      [] OTHER                       -> IF r \in issued THEN "pending" ELSE "idle"

Rpc == INSTANCE AtMostOnceRpc WITH
          outcome   <- [r \in Requests |-> Known(r)],
          processed <- executed

(* The client implements at-most-once calls: every step of the loop, the   *)
(* stream, the relay or a crash is one of the abstract steps or changes    *)
(* nothing a caller or the relay can see.                                  *)
ImplementsRpc == Rpc!RpcSpec
=============================================================================
