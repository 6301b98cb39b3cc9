------------------------ MODULE WebsocketClientProofs ------------------------
(***************************************************************************)
(* Proofs about WebsocketClient: for every number of requests, calls and   *)
(* messages and every bound.  They rest on those about ClientStream.       *)
(***************************************************************************)
EXTENDS WebsocketClient, ClientStreamProofs

(* What the control messages are.                                          *)
LEMMA Controls ==
    /\ \A r \in Requests : /\ OutboundRequest(r) \in ConnectionControl
                           /\ OutboundRequest(r).type = "request"
                           /\ OutboundRequest(r).call = r
    /\ \A c \in Connects : Connect(c) \in ConnectionControl
    /\ \A c \in Disconnects : Disconnect(c) \in ConnectionControl
    /\ \A c : /\ Connect(c).type = "connect" /\ Connect(c).call = c
              /\ Disconnect(c).type = "disconnect" /\ Disconnect(c).call = c
    /\ \A e \in ConnectionControl :
          \/ e.type = "request" /\ e.call \in Requests /\ e = OutboundRequest(e.call)
          \/ e.type = "connect" /\ e.call \in Connects /\ e = Connect(e.call)
          \/ e.type = "disconnect" /\ e.call \in Disconnects /\ e = Disconnect(e.call)
    /\ Shutdown.type = "shutdown" /\ Idle.type = "idle"
  <1>1. \A c : /\ Connect(c).type = "connect" /\ Connect(c).call = c
              /\ Disconnect(c).type = "disconnect" /\ Disconnect(c).call = c
    BY DEF Connect, Disconnect
  <1>2. \A r : OutboundRequest(r).type = "request" /\ OutboundRequest(r).call = r
    BY DEF OutboundRequest
  <1>3. Shutdown.type = "shutdown" /\ Idle.type = "idle"
    BY DEF Shutdown, Idle
  <1>4. \A e \in ConnectionControl :
          \/ \E r \in Requests : e = OutboundRequest(r)
          \/ \E c \in Connects : e = Connect(c)
          \/ \E c \in Disconnects : e = Disconnect(c)
    BY DEF ConnectionControl
  <1>5. \A e \in ConnectionControl :
          \/ e.type = "request" /\ e.call \in Requests /\ e = OutboundRequest(e.call)
          \/ e.type = "connect" /\ e.call \in Connects /\ e = Connect(e.call)
          \/ e.type = "disconnect" /\ e.call \in Disconnects /\ e = Disconnect(e.call)
    BY <1>1, <1>2, <1>4
  <1>6. /\ \A r \in Requests : OutboundRequest(r) \in ConnectionControl
        /\ \A c \in Connects : Connect(c) \in ConnectionControl
        /\ \A c \in Disconnects : Disconnect(c) \in ConnectionControl
    BY DEF ConnectionControl
  <1> QED
    BY <1>1, <1>2, <1>3, <1>5, <1>6

LEMMA Sent ==
    ASSUME queue \in Seq(ConnectionControl), NEW e \in ConnectionControl,
           queue' = Append(queue, e)
    PROVE  /\ queue' \in Seq(ConnectionControl)
           /\ \A x : InQueue(x)' <=> InQueue(x) \/ x = e
  BY DEF InQueue

LEMMA Received ==
    ASSUME queue \in Seq(ConnectionControl), queue # <<>>, queue' = Tail(queue)
    PROVE  /\ queue' \in Seq(ConnectionControl)
           /\ Head(queue) \in ConnectionControl /\ InQueue(Head(queue))
           /\ \A x : InQueue(x)' => InQueue(x)
           /\ \A x : InQueue(x) => x = Head(queue) \/ InQueue(x)'
  <1>1. /\ Head(queue) \in ConnectionControl /\ queue' \in Seq(ConnectionControl)
        /\ 1 \in DOMAIN queue /\ Head(queue) = queue[1]
        /\ \A n \in DOMAIN queue' : n + 1 \in DOMAIN queue /\ queue'[n] = queue[n + 1]
    BY TailElements
  <1>2. \A n \in DOMAIN queue : n = 1 \/ (n - 1 \in DOMAIN queue' /\ queue'[n - 1] = queue[n])
    OBVIOUS
  <1>3. InQueue(Head(queue)) /\ \A x : InQueue(x)' => InQueue(x)
    BY <1>1 DEF InQueue
  <1>4. ASSUME NEW x, InQueue(x) PROVE x = Head(queue) \/ InQueue(x)'
    BY <1>1, <1>2, <1>4 DEF InQueue
  <1> QED
    BY <1>1, <1>3, <1>4
-----------------------------------------------------------------------------
(* The steps of the stream in which its owner sends nothing.               *)
Quiet ==
    \/ Create \/ Drop \/ PollRead \/ PollWrite \/ Respond \/ TakeEvent
    \/ \E f \in BOOLEAN : CloseBegin(f)
    \/ CloseOk \/ CloseFailed \/ Environment \/ UNCHANGED vars

(* They only complete requests that are waiting, and with an answer only   *)
(* one that the relay has processed.                                       *)
LEMMA QuietResults ==
    ASSUME StreamInv, Quiet
    PROVE  \A r \in Requests : \/ result'[r] = result[r]
                               \/ result[r] = "waiting" /\ result'[r] \in Outcomes
  <1>1. CASE Drop
    <2>1. \A r \in Requests : InMap(r) => result[r] = "waiting"
      BY DEF StreamInv, PendingIsInMap
    <2>2. \A r \in Requests : IF InMap(r) THEN result'[r] \in Closed
                                          ELSE result'[r] = result[r]
      BY <1>1 DEF Drop, Closed
    <2> HIDE DEF InMap
    <2> QED
      BY <2>1, <2>2 DEF Outcomes
  <1>2. CASE ReadResponse
    <2> DEFINE frame == Head(toClient)
    <2>1. /\ requests[frame.id] = frame.call /\ frame.call \in Requests
          /\ frame.answer \in Answers /\ frame.id \in Ids
      BY <1>2, InFlightRead, TailElements, FrameFields
         DEF StreamInv, TypeOK, ReadResponse, Receive
    <2>2. result' = [result EXCEPT ![frame.call] = frame.answer]
      BY <1>2, <2>1, StreamAssumption DEF ReadResponse, Outcome
    <2>3. result[frame.call] = "waiting"
      BY <2>1 DEF StreamInv, PendingIsInMap, InMap
    <2> HIDE DEF frame
    <2> QED
      BY <2>1, <2>2, <2>3 DEF StreamInv, TypeOK, Outcomes
  <1>3. CASE PollRead /\ ~ReadResponse
    BY <1>3 DEF PollRead, ReadSubscription, ReadInvalid, ReadControl, ReadClose,
                ReadError, ReadEnd
  <1>4. CASE PollWrite
    BY <1>4 DEF PollWrite, WriteNext, WriteSendError, WriteReadyError
  <1>5. CASE Environment
    BY <1>5 DEF Environment, RelayAnswer, RelayDeliver, RelayAcked, RelayNoise,
                RelayClose, NetBreak, Tick, Unsolicited, RelaySends
  <1>6. CASE Create \/ Respond \/ TakeEvent \/ CloseOk \/ CloseFailed \/ UNCHANGED vars
             \/ \E f \in BOOLEAN : CloseBegin(f)
    BY <1>6 DEF Create, Respond, TakeEvent, CloseOk, CloseFailed, CloseBegin, vars
  <1> QED
    BY <1>1, <1>2, <1>3, <1>4, <1>5, <1>6 DEF Quiet

(* The steps of the loop that pass no request on.                          *)
Passive ==
    /\ Quiet
    /\ UNCHANGED <<issued, refused>>
    /\ \A r \in Requests : InChannel(r)' <=> InChannel(r)

(* The typing that the kinds of steps rest on.                             *)
QueueTyped == queue \in Seq(ConnectionControl)

LEMMA PassiveSend ==
    ASSUME QueueTyped, NEW e \in ConnectionControl, e.type # "request",
           queue' = Append(queue, e)
    PROVE  \A r \in Requests : InChannel(r)' <=> InChannel(r)
  BY Sent, Controls DEF QueueTyped, InChannel

LEMMA PassiveReceive ==
    ASSUME QueueTyped, queue # <<>>, queue' = Tail(queue), Head(queue).type # "request"
    PROVE  \A r \in Requests : InChannel(r)' <=> InChannel(r)
  BY Received, Controls DEF QueueTyped, InChannel

LEMMA SameQueue ==
    ASSUME queue' = queue
    PROVE  \A x : InQueue(x)' <=> InQueue(x)
  BY DEF InQueue

(* A step issues a request, takes one from the channel, is a crash, or     *)
(* leaves the requests where they are.                                     *)
LEMMA StepKinds ==
    ASSUME QueueTyped, [ClientNext]_clientVars
    PROVE  (\E r \in Requests : Issue(r)) \/ RecvRequest \/ Crash \/ Passive
  <1>1. CASE UNCHANGED clientVars
    BY <1>1, SameQueue DEF clientVars, callVars, Passive, Quiet, InChannel
  <1>2. ASSUME NEW c \in Connects, CallConnect(c) \/ CallConnectInvalid(c) PROVE Passive
    <2>1. UNCHANGED <<vars, issued, refused>>
      BY <1>2 DEF CallConnect, Call, CallConnectInvalid
    <2>2. queue' = queue \/ queue' = Append(queue, Connect(c))
      BY <1>2 DEF CallConnect, Call, CallConnectInvalid
    <2>3. \A r \in Requests : InChannel(r)' <=> InChannel(r)
      BY <2>2, PassiveSend, SameQueue, Controls DEF InChannel
    <2> QED
      BY <2>1, <2>3 DEF Passive, Quiet
  <1>3. ASSUME NEW c \in Disconnects, CallDisconnect(c) PROVE Passive
    <2>1. UNCHANGED <<vars, issued, refused>>
      BY <1>3 DEF CallDisconnect, Call
    <2>2. queue' = queue \/ queue' = Append(queue, Disconnect(c))
      BY <1>3 DEF CallDisconnect, Call
    <2>3. \A r \in Requests : InChannel(r)' <=> InChannel(r)
      BY <2>2, PassiveSend, SameQueue, Controls DEF InChannel
    <2> QED
      BY <2>1, <2>3 DEF Passive, Quiet
  <1>4. CASE RecvConnect \/ RecvDisconnect
    <2>1. \A r \in Requests : InChannel(r)' <=> InChannel(r)
      BY <1>4, PassiveReceive DEF RecvConnect, RecvDisconnect, Recv
    <2> QED
      BY <1>4, <2>1 DEF RecvConnect, RecvDisconnect, Passive, Quiet, callVars
  <1>5. CASE DropClients \/ RecvNone \/ Resume \/ PollStream \/ Reap \/ HandleEvent \/ World
    <2>1. queue' = queue /\ UNCHANGED <<issued, refused>>
      BY <1>5 DEF DropClients, RecvNone, Resume, Closing, ClosedToConnect, ClosedToDisconnect,
                  ClosedToStop, Connected, ConnectionFailed, PollStream, Reap, HandleEvent,
                  HandleSubscription, HandleError, HandleClosed, World, callVars
    <2>2. Quiet
      BY <1>5 DEF DropClients, RecvNone, Resume, Closing, ClosedToConnect, ClosedToDisconnect,
                  ClosedToStop, Connected, ConnectionFailed, PollStream, Reap, HandleEvent,
                  HandleSubscription, HandleError, HandleClosed, World, Quiet
    <2> QED
      BY <2>1, <2>2, SameQueue DEF Passive, InChannel
  <1> QED
    BY <1>1, <1>2, <1>3, <1>4, <1>5 DEF ClientNext, Handles, RecvControl

(* Every step of the client is one of the stream, or leaves it alone.      *)
LEMMA ClientStepsStream ==
    ASSUME QueueTyped, [ClientNext]_clientVars
    PROVE  [Next]_vars
  <1>1. ASSUME Quiet PROVE [Next]_vars
    BY <1>1 DEF Quiet, Next
  <1>2. CASE RecvRequest
    <2>1. Head(queue) \in ConnectionControl /\ Head(queue).type = "request"
      BY <1>2, Received DEF RecvRequest, Recv, QueueTyped
    <2>2. Head(queue).call \in Requests
      BY <2>1, Controls
    <2> QED
      BY <1>2, <2>2 DEF RecvRequest, Next
  <1>3. CASE Crash
    BY <1>3 DEF Crash, Next
  <1>4. ASSUME NEW r \in Requests, Issue(r) PROVE [Next]_vars
    BY <1>4 DEF Issue
  <1> QED
    BY <1>1, <1>2, <1>3, <1>4, StepKinds DEF Passive
-----------------------------------------------------------------------------
(* What ClientTypeOK says of the loop.                                     *)
LoopTypeOK ==
    /\ handles \in BOOLEAN
    /\ queue \in Seq(ConnectionControl)
    /\ pc \in {"select", "closing", "connecting", "stopped"}
    /\ serving \in ConnectionControl \cup {Shutdown, Idle}
    /\ issued \subseteq Requests
    /\ refused \in [Requests -> {"no", "notConnected", "channelClosed"}]
    /\ reply \in [Calls -> {"idle", "waiting"} \cup Replies]
    /\ callback \in {"none", "connected", "disconnected"}
    /\ delivered \subseteq Messages
    /\ pc \in {"select", "stopped"} => serving = Idle /\ closing = "no"
    /\ pc = "closing" => serving # Idle /\ closing # "no" /\ HasStream
    /\ pc = "connecting" => serving.type = "connect" /\ closing = "no"
    /\ pc \in {"connecting", "stopped"} => ~HasStream

Asked(c) == IF c \in Connects THEN Connect(c) ELSE Disconnect(c)

(* A call is waiting as long as its message is in the channel or served;   *)
(* the loop only shuts down when nobody can send any more; and it has said *)
(* connected() for the stream it has.                                      *)
LoopInv ==
    /\ LoopTypeOK
    /\ serving.type # "request"
    /\ serving.type = "shutdown" => ~handles /\ queue = <<>>
    /\ pc = "stopped" => queue = <<>>
    /\ HasStream => callback = "connected"
    /\ \A c \in Calls : reply[c] = "waiting" => InQueue(Asked(c)) \/ serving = Asked(c)

(* The steps of the stream that neither open, close nor drop it.           *)
LEMMA StreamStays ==
    ASSUME \/ PollRead \/ PollWrite \/ Respond \/ TakeEvent \/ Environment
           \/ \E r \in Requests : SendRaw(r)
    PROVE  closing' = closing /\ (HasStream' <=> HasStream)
  <1>1. CASE PollRead
    BY <1>1 DEF PollRead, ReadResponse, ReadSubscription, ReadInvalid, ReadControl, ReadClose,
                ReadError, ReadEnd, Receive, CanRead, CanPoll, streamVars, HasStream
  <1>2. CASE PollWrite
    BY <1>2 DEF PollWrite, WriteNext, WriteSendError, WriteReadyError, HasStream
  <1>3. CASE Environment
    BY <1>3 DEF Environment, RelayAnswer, RelayDeliver, RelayAcked, RelayNoise, RelayClose,
                NetBreak, Tick, Unsolicited, RelaySends, streamVars, HasStream
  <1>4. CASE Respond \/ TakeEvent \/ \E r \in Requests : SendRaw(r)
    BY <1>4 DEF Respond, TakeEvent, SendRaw, HasStream
  <1> QED
    BY <1>1, <1>2, <1>3, <1>4

(* Steps that the loop's own variables do not see.                         *)
LEMMA LoopSame ==
    ASSUME LoopInv, UNCHANGED <<loopVars, callVars, queue>>,
           refused' \in [Requests -> {"no", "notConnected", "channelClosed"}],
           closing' = closing, HasStream' <=> HasStream
    PROVE  LoopInv'
  BY SameQueue DEF LoopInv, LoopTypeOK, loopVars, callVars

LEMMA StreamStepKeepsLoop ==
    ASSUME LoopInv, PollStream \/ HandleError \/ World
    PROVE  LoopInv'
  <1>1. closing' = closing /\ (HasStream' <=> HasStream)
    BY StreamStays DEF PollStream, HandleError, World
  <1> QED
    BY <1>1, LoopSame DEF PollStream, HandleError, World, LoopInv, LoopTypeOK

LEMMA IssueKeepsLoop ==
    ASSUME LoopInv, NEW r \in Requests, Issue(r)
    PROVE  LoopInv'
  <1>1. CASE queue' = queue
    BY <1>1, SameQueue DEF Issue, LoopInv, LoopTypeOK, vars, streamVars, loopVars, HasStream
  <1>2. CASE queue' = Append(queue, OutboundRequest(r)) /\ pc # "stopped"
    <2>1. queue' \in Seq(ConnectionControl) /\ \A x : InQueue(x) => InQueue(x)'
      BY <1>2, Sent, Controls DEF LoopInv, LoopTypeOK
    <2> QED
      BY <1>2, <2>1 DEF Issue, LoopInv, LoopTypeOK, vars, streamVars, loopVars, HasStream
  <1> QED
    BY <1>1, <1>2 DEF Issue

LEMMA CallKeepsLoop ==
    ASSUME LoopInv, NEW c \in Calls, Call(c, Asked(c))
    PROVE  LoopInv'
  <1>1. Asked(c) \in ConnectionControl
    BY Controls DEF Asked, Calls
  <1>2. UNCHANGED <<vars, loopVars, handles, issued, refused>> /\ handles
    BY DEF Call
  <1>3. CASE queue' = queue /\ reply' = [reply EXCEPT ![c] = "channelClosed"]
    <2>1. reply' \in [Calls -> {"idle", "waiting"} \cup Replies]
          /\ \A d \in Calls : reply'[d] = "waiting" => reply[d] = "waiting"
      BY <1>3 DEF LoopInv, LoopTypeOK, Replies
    <2> QED
      BY <1>2, <1>3, <2>1, SameQueue
         DEF LoopInv, LoopTypeOK, vars, streamVars, loopVars, HasStream
  <1>4. CASE /\ queue' = Append(queue, Asked(c)) /\ pc # "stopped"
             /\ reply' = [reply EXCEPT ![c] = "waiting"]
    <2>1. queue' \in Seq(ConnectionControl) /\ InQueue(Asked(c))'
          /\ \A x : InQueue(x) => InQueue(x)'
      BY <1>1, <1>4, Sent DEF LoopInv, LoopTypeOK
    <2>2. reply' \in [Calls -> {"idle", "waiting"} \cup Replies]
          /\ \A d \in Calls : d # c => reply'[d] = reply[d]
      BY <1>4 DEF LoopInv, LoopTypeOK
    <2>3. \A d \in Calls : reply'[d] = "waiting" => InQueue(Asked(d))' \/ serving' = Asked(d)
      BY <1>2, <2>1, <2>2 DEF LoopInv, loopVars
    <2> QED
      BY <1>2, <1>4, <2>1, <2>2, <2>3 DEF LoopInv, LoopTypeOK, vars, streamVars, loopVars, HasStream
  <1> QED
    BY <1>3, <1>4 DEF Call

LEMMA InvalidKeepsLoop ==
    ASSUME LoopInv, NEW c \in Connects, CallConnectInvalid(c)
    PROVE  LoopInv'
  <1>1. reply' \in [Calls -> {"idle", "waiting"} \cup Replies]
        /\ \A d \in Calls : reply'[d] = "waiting" => reply[d] = "waiting"
    BY DEF CallConnectInvalid, LoopInv, LoopTypeOK, Replies, Calls
  <1> QED
    BY <1>1, SameQueue
       DEF CallConnectInvalid, LoopInv, LoopTypeOK, vars, streamVars, loopVars, HasStream

LEMMA DropClientsKeepsLoop ==
    ASSUME LoopInv, DropClients
    PROVE  LoopInv'
  BY SameQueue DEF DropClients, LoopInv, LoopTypeOK, vars, streamVars, loopVars, HasStream

LEMMA RecvRequestKeepsLoop ==
    ASSUME LoopInv, RecvRequest
    PROVE  LoopInv'
  <1> DEFINE r == Head(queue).call
  <1>1. /\ queue' \in Seq(ConnectionControl) /\ r \in Requests
        /\ \A x : InQueue(x) => x = OutboundRequest(r) \/ InQueue(x)'
    BY Received, Controls DEF LoopInv, LoopTypeOK, RecvRequest, Recv
  <1>2. closing' = closing /\ (HasStream' <=> HasStream)
    BY <1>1, StreamStays DEF RecvRequest, vars, streamVars, HasStream
  <1>3. refused' \in [Requests -> {"no", "notConnected", "channelClosed"}]
    BY <1>1 DEF RecvRequest, NotConnected, LoopInv, LoopTypeOK
  <1>4. pc = "select" /\ queue # <<>> /\ UNCHANGED <<loopVars, callVars>>
    BY DEF RecvRequest, Recv, Selecting
  <1>5. \A c \in Calls : Asked(c) # OutboundRequest(r)
    <2>1. OutboundRequest(r).type = "request"
      BY <1>1, Controls
    <2>2. \A c \in Calls : Asked(c).type # "request"
      BY Controls DEF Asked
    <2> QED
      BY <2>1, <2>2
  <1> HIDE DEF r
  <1>6. \A c \in Calls : reply'[c] = "waiting" => InQueue(Asked(c))' \/ serving' = Asked(c)
    BY <1>1, <1>4, <1>5 DEF LoopInv, loopVars, callVars
  <1> QED
    BY <1>1, <1>2, <1>3, <1>4, <1>6, Controls DEF LoopInv, LoopTypeOK, loopVars, callVars

LEMMA RecvConnectKeepsLoop ==
    ASSUME LoopInv, RecvConnect
    PROVE  LoopInv'
  <1> DEFINE e == Head(queue)
  <1>1. /\ queue' \in Seq(ConnectionControl) /\ e \in ConnectionControl /\ e.type = "connect"
        /\ \A x : InQueue(x) => x = e \/ InQueue(x)'
    BY Received DEF LoopInv, LoopTypeOK, RecvConnect, Recv
  <1>2. pc = "select" /\ serving = Idle /\ serving' = e
        /\ UNCHANGED <<callback, delivered, callVars, refused>>
    BY DEF RecvConnect, Recv, Selecting, LoopInv, LoopTypeOK
  <1>3. e # Idle /\ \A c : Asked(c) # Idle
    BY <1>1, Controls DEF Asked
  <1>4. \/ HasStream /\ HasStream' /\ closing' = "busy" /\ pc' = "closing"
        \/ ~HasStream /\ ~HasStream' /\ closing' = closing /\ pc' = "connecting"
    BY DEF RecvConnect, CloseBegin, HasStream, vars, streamVars
  <1> HIDE DEF e
  <1>5. \A c \in Calls : reply'[c] = "waiting" => InQueue(Asked(c))' \/ serving' = Asked(c)
    BY <1>1, <1>2, <1>3 DEF LoopInv, callVars
  <1> QED
    BY <1>1, <1>2, <1>3, <1>4, <1>5 DEF LoopInv, LoopTypeOK, callVars

LEMMA RecvDisconnectKeepsLoop ==
    ASSUME LoopInv, RecvDisconnect
    PROVE  LoopInv'
  <1> DEFINE e == Head(queue)
  <1>1. /\ queue' \in Seq(ConnectionControl) /\ e \in ConnectionControl
        /\ e.type = "disconnect" /\ e.call \in Disconnects /\ e = Disconnect(e.call)
        /\ \A x : InQueue(x) => x = e \/ InQueue(x)'
    BY Received, Controls DEF LoopInv, LoopTypeOK, RecvDisconnect, Recv
  <1>2. /\ pc = "select" /\ serving = Idle /\ closing = "no"
        /\ UNCHANGED <<callback, delivered, handles, issued, refused>>
    BY DEF RecvDisconnect, Recv, Selecting, LoopInv, LoopTypeOK
  <1>3. e # Idle /\ \A c : Asked(c) # Idle
    BY <1>1, Controls DEF Asked
  <1>4. \A c \in Calls : Asked(c) = e => c = e.call
    BY <1>1, Controls DEF Asked
  <1>5. CASE HasStream
    <2>1. HasStream' /\ closing' = "busy" /\ pc' = "closing" /\ serving' = e /\ reply' = reply
      BY <1>5 DEF RecvDisconnect, CloseBegin, HasStream
    <2> HIDE DEF e
    <2>2. \A c \in Calls : reply'[c] = "waiting" => InQueue(Asked(c))' \/ serving' = Asked(c)
      BY <1>1, <1>2, <1>3, <2>1 DEF LoopInv
    <2> QED
      BY <1>1, <1>2, <1>3, <1>5, <2>1, <2>2 DEF LoopInv, LoopTypeOK
  <1>6. CASE ~HasStream
    <2>1. /\ ~HasStream' /\ closing' = closing /\ pc' = pc /\ serving' = serving
          /\ reply' = [reply EXCEPT ![e.call] = "closingFailed"]
      BY <1>6 DEF RecvDisconnect, vars, streamVars, HasStream
    <2> HIDE DEF e
    <2>2. /\ reply' \in [Calls -> {"idle", "waiting"} \cup Replies]
          /\ \A c \in Calls : reply'[c] = "waiting" => reply[c] = "waiting" /\ c # e.call
      BY <1>1, <2>1 DEF LoopInv, LoopTypeOK, Replies, Calls
    <2>3. \A c \in Calls : reply'[c] = "waiting" => InQueue(Asked(c))' \/ serving' = Asked(c)
      BY <1>1, <1>2, <1>3, <1>4, <2>1, <2>2 DEF LoopInv
    <2> QED
      BY <1>1, <1>2, <1>6, <2>1, <2>2, <2>3, Controls DEF LoopInv, LoopTypeOK
  <1> QED
    BY <1>5, <1>6

LEMMA RecvNoneKeepsLoop ==
    ASSUME LoopInv, RecvNone
    PROVE  LoopInv'
  <1>1. /\ pc = "select" /\ serving = Idle /\ closing = "no" /\ ~handles /\ queue = <<>>
        /\ UNCHANGED <<delivered, callVars, queue, refused>>
    BY DEF RecvNone, Selecting, LoopInv, LoopTypeOK
  <1>2. \A x : ~InQueue(x)
    BY <1>1 DEF InQueue
  <1>3. \A c \in Calls : Asked(c) # Idle
    BY Controls DEF Asked
  <1>4. \A c \in Calls : reply[c] # "waiting"
    BY <1>1, <1>2, <1>3 DEF LoopInv
  <1>5. \/ /\ HasStream /\ HasStream' /\ closing' = "busy" /\ pc' = "closing"
           /\ serving' = Shutdown /\ callback' = callback
        \/ /\ ~HasStream /\ ~HasStream' /\ closing' = "no" /\ pc' = "stopped"
           /\ serving' = serving /\ callback' = "disconnected"
    BY <1>1 DEF RecvNone, CloseBegin, HasStream, vars, streamVars
  <1> QED
    BY <1>1, <1>4, <1>5, Controls DEF LoopInv, LoopTypeOK, callVars

LEMMA ClosingKeepsLoop ==
    ASSUME LoopInv, Closing
    PROVE  LoopInv'
  <1>1. pc = "closing" /\ UNCHANGED <<loopVars, callVars, queue, refused>>
        /\ HasStream' /\ closing' \in {"ok", "failed"}
    BY DEF Closing, CloseOk, CloseFailed, HasStream, LoopInv, LoopTypeOK
  <1> QED
    BY <1>1, SameQueue DEF LoopInv, LoopTypeOK, loopVars, callVars

(* The loop replies to the call it serves, and serves nothing any more.    *)
LEMMA ReplyKeepsLoop ==
    ASSUME LoopInv, pc \in {"closing", "connecting"}, serving.type # "shutdown",
           NEW o \in Replies, ReplyServed(o), pc' = "select", serving' = Idle,
           closing' = "no", callback' \in {"none", "connected", "disconnected"},
           HasStream' => callback' = "connected",
           UNCHANGED <<delivered, handles, issued, queue, refused>>
    PROVE  LoopInv'
  <1>1. serving \in ConnectionControl /\ serving.type \in {"connect", "disconnect"}
    BY Controls DEF LoopInv, LoopTypeOK
  <1>2. serving.call \in Calls
    BY <1>1, Controls DEF Calls
  <1>3. \A c \in Calls : serving = Asked(c) => c = serving.call
    BY Controls DEF Asked
  <1>4. /\ reply' \in [Calls -> {"idle", "waiting"} \cup Replies]
        /\ \A c \in Calls : reply'[c] = "waiting" => reply[c] = "waiting" /\ c # serving.call
    <2>1. o # "waiting"
      BY DEF Replies
    <2> QED
      BY <1>2, <2>1 DEF ReplyServed, LoopInv, LoopTypeOK
  <1>5. \A c \in Calls : reply'[c] = "waiting" => InQueue(Asked(c))'
    BY <1>3, <1>4, SameQueue DEF LoopInv
  <1> QED
    BY <1>4, <1>5, Controls DEF LoopInv, LoopTypeOK

LEMMA ResumeKeepsLoop ==
    ASSUME LoopInv, Resume
    PROVE  LoopInv'
  <1>1. CASE Closing
    BY <1>1, ClosingKeepsLoop
  <1>2. CASE ClosedToConnect
    <2>1. ~HasStream' /\ closing' = "no"
      BY <1>2 DEF ClosedToConnect, Drop, HasStream
    <2>2. CASE closing = "ok"
      BY <1>2, <2>1, <2>2, SameQueue DEF ClosedToConnect, LoopInv, LoopTypeOK
    <2>3. CASE closing = "failed"
      <3>1. ReplyServed("closingFailed") /\ "closingFailed" \in Replies
        BY <1>2, <2>3 DEF ClosedToConnect, Replies
      <3> QED
        BY <1>2, <2>1, <2>3, <3>1, ReplyKeepsLoop DEF ClosedToConnect, LoopInv, LoopTypeOK
    <2> QED
      BY <1>2, <2>2, <2>3 DEF ClosedToConnect
  <1>3. CASE ClosedToDisconnect
    <2>1. ~HasStream' /\ closing' = "no"
      BY <1>3 DEF ClosedToDisconnect, Drop, HasStream
    <2> DEFINE o == IF closing = "ok" THEN "ok" ELSE "closingFailed"
    <2>2. ReplyServed(o) /\ o \in Replies
      BY <1>3 DEF ClosedToDisconnect, Replies
    <2> HIDE DEF o
    <2> QED
      BY <1>3, <2>1, <2>2, ReplyKeepsLoop DEF ClosedToDisconnect, LoopInv, LoopTypeOK
  <1>4. CASE ClosedToStop
    <2>1. ~HasStream' /\ closing' = "no"
      BY <1>4 DEF ClosedToStop, Drop, HasStream
    <2>2. queue = <<>> /\ ~handles /\ \A x : ~InQueue(x)
      BY <1>4 DEF ClosedToStop, LoopInv, InQueue
    <2>3. \A c \in Calls : reply[c] # "waiting"
      BY <1>4, <2>2, Controls DEF ClosedToStop, LoopInv, Asked
    <2> QED
      BY <1>4, <2>1, <2>2, <2>3, Controls DEF ClosedToStop, LoopInv, LoopTypeOK, callVars
  <1>5. CASE Connected
    <2>1. closing' = "no" /\ "ok" \in Replies
      BY <1>5 DEF Connected, Create, LoopInv, LoopTypeOK, Replies
    <2> QED
      BY <1>5, <2>1, ReplyKeepsLoop DEF Connected, LoopInv, LoopTypeOK
  <1>6. CASE ConnectionFailed
    <2>1. closing' = "no" /\ ~HasStream' /\ "connectionFailed" \in Replies
      BY <1>6 DEF ConnectionFailed, LoopInv, LoopTypeOK, Replies, vars, streamVars, HasStream
    <2> QED
      BY <1>6, <2>1, ReplyKeepsLoop DEF ConnectionFailed, LoopInv, LoopTypeOK
  <1> QED
    BY <1>1, <1>2, <1>3, <1>4, <1>5, <1>6 DEF Resume

LEMMA ReapKeepsLoop ==
    ASSUME LoopInv, Reap \/ HandleClosed
    PROVE  LoopInv'
  <1>1. ~HasStream' /\ closing' = "no" /\ pc = "select"
    BY DEF Reap, HandleClosed, Selecting, Drop, HasStream
  <1> QED
    BY <1>1, SameQueue DEF Reap, HandleClosed, LoopInv, LoopTypeOK, loopVars, callVars

LEMMA SubscriptionKeepsLoop ==
    ASSUME TypeOK, LoopInv, HandleSubscription
    PROVE  LoopInv'
  <1>1. closing' = closing /\ (HasStream' <=> HasStream)
    BY StreamStays DEF HandleSubscription
  <1>2. event.msg \in Messages
    BY DEF HandleSubscription, Respond, TypeOK, StreamEvents, NoEvent, InboundError,
           OutboundError, SubscriptionEvent, ConnectionClosed
  <1> QED
    BY <1>1, <1>2, SameQueue DEF HandleSubscription, LoopInv, LoopTypeOK, callVars

LEMMA CrashKeepsLoop ==
    ASSUME LoopInv, Crash
    PROVE  LoopInv'
  <1>1. ~HasStream' /\ closing' = "no"
    BY DEF Crash, Drop, HasStream, vars, streamVars, LoopInv, LoopTypeOK
  <1>2. refused' \in [Requests -> {"no", "notConnected", "channelClosed"}]
    BY DEF Crash, LoopInv, LoopTypeOK
  <1>3. /\ reply' \in [Calls -> {"idle", "waiting"} \cup Replies]
        /\ \A c \in Calls : reply'[c] # "waiting"
    BY DEF Crash, LoopInv, LoopTypeOK, Replies
  <1>4. queue' = <<>> /\ queue' \in Seq(ConnectionControl)
    BY DEF Crash
  <1> QED
    BY <1>1, <1>2, <1>3, <1>4, Controls DEF Crash, LoopInv, LoopTypeOK

LEMMA NextLoop == TypeOK /\ LoopInv /\ [ClientNext]_clientVars => LoopInv'
  <1> SUFFICES ASSUME TypeOK, LoopInv, [ClientNext]_clientVars PROVE LoopInv'
    OBVIOUS
  <1>1. CASE UNCHANGED clientVars
    BY <1>1, LoopSame DEF clientVars, vars, streamVars, HasStream, LoopInv, LoopTypeOK
  <1>2. CASE Handles
    <2>1. ASSUME NEW c \in Connects, CallConnect(c) PROVE LoopInv'
      BY <2>1, CallKeepsLoop DEF CallConnect, Asked, Calls
    <2>2. ASSUME NEW c \in Disconnects, CallDisconnect(c) PROVE LoopInv'
      <3>1. c \in Calls /\ Asked(c) = Disconnect(c)
        BY CallsAssumption DEF Asked, Calls
      <3> QED
        BY <2>2, <3>1, CallKeepsLoop DEF CallDisconnect
    <2> QED
      BY <1>2, <2>1, <2>2, IssueKeepsLoop, InvalidKeepsLoop, DropClientsKeepsLoop DEF Handles
  <1> QED
    BY <1>1, <1>2, RecvRequestKeepsLoop, RecvConnectKeepsLoop, RecvDisconnectKeepsLoop,
       RecvNoneKeepsLoop, ResumeKeepsLoop, StreamStepKeepsLoop, ReapKeepsLoop,
       SubscriptionKeepsLoop, CrashKeepsLoop DEF ClientNext, RecvControl, HandleEvent
-----------------------------------------------------------------------------
LEMMA InitLoop == ClientInit => LoopInv
  <1> SUFFICES ASSUME ClientInit PROVE LoopInv
    OBVIOUS
  <1>1. /\ refused \in [Requests -> {"no", "notConnected", "channelClosed"}]
        /\ reply \in [Calls -> {"idle", "waiting"} \cup Replies]
        /\ \A c \in Calls : reply[c] # "waiting"
    BY DEF ClientInit
  <1>2. queue \in Seq(ConnectionControl)
    BY DEF ClientInit
  <1>3. ~HasStream /\ closing = "no"
    BY DEF ClientInit, Init, HasStream
  <1> QED
    BY <1>1, <1>2, <1>3, Controls DEF ClientInit, LoopInv, LoopTypeOK

(* The states of a client: those of the stream and of the loop.            *)
LEMMA ClientStates == ClientSpec => [](StreamInv /\ LoopInv)
  <1>1. ClientInit => StreamInv /\ LoopInv
    <2>1. Init => StreamInv
      <3>1. Init => SentOnce
        BY StreamAssumption DEF Init, SentOnce
      <3> QED
        BY <3>1, InitType, InitPending, InitInFlight DEF StreamInv
    <2> QED
      BY <2>1, InitLoop DEF ClientInit
  <1>2. StreamInv /\ LoopInv /\ [ClientNext]_clientVars => (StreamInv /\ LoopInv)'
    <2> SUFFICES ASSUME StreamInv, LoopInv, [ClientNext]_clientVars
                 PROVE  (StreamInv /\ LoopInv)'
      OBVIOUS
    <2>1. LoopInv'
      BY NextLoop DEF StreamInv
    <2>2. [Next]_vars
      BY ClientStepsStream DEF QueueTyped, LoopInv, LoopTypeOK
    <2>3. StreamInv'
      BY <2>2, NextType, NextPending, NextInFlight, NextSentOnce DEF StreamInv
    <2> QED
      BY <2>1, <2>3
  <1> QED
    BY <1>1, <1>2, PTL DEF ClientSpec

(* Type correctness of the client, with what the awaits of the loop say of *)
(* the message it serves and of the stream.                                *)
THEOREM ClientTypeCorrect == ClientSpec => []ClientTypeOK
  <1>1. StreamInv /\ LoopInv => ClientTypeOK
    BY DEF StreamInv, LoopInv, LoopTypeOK, ClientTypeOK
  <1> QED
    BY <1>1, ClientStates, PTL

(* Whatever the handles, the loop and the runtime do, the stream sees an   *)
(* owner of the kind ClientStream assumes, so everything that is proved of *)
(* the stream is true of the client.                                       *)
THEOREM ClientRunsStream == ClientSpec => Spec
  <1>1. ClientInit => Init
    BY DEF ClientInit
  <1>2. LoopInv /\ [ClientNext]_clientVars => [Next]_vars
    BY ClientStepsStream DEF QueueTyped, LoopInv, LoopTypeOK
  <1> QED
    BY <1>1, <1>2, ClientStates, PTL DEF ClientSpec, Spec

(* No order of reconnects and failures leaves a live stream behind a       *)
(* disconnected().                                                         *)
THEOREM StreamIsAnnouncedCorrect == ClientSpec => []StreamIsAnnounced
  <1>1. LoopInv => StreamIsAnnounced
    BY DEF LoopInv, StreamIsAnnounced
  <1> QED
    BY <1>1, ClientStates, PTL
-----------------------------------------------------------------------------
(* Where a request is: nowhere before it is issued, then in one place, and *)
(* in the channel at most once.                                            *)
Placed(r) ==
    /\ ~(InChannel(r) /\ InStream(r))
    /\ ~(InChannel(r) /\ Refused(r))
    /\ ~(InStream(r) /\ Refused(r))
    /\ r \in issued <=> InChannel(r) \/ InStream(r) \/ Refused(r)

ChannelOnce == \A n, k \in DOMAIN queue :
                  queue[n].type = "request" /\ queue[n] = queue[k] => n = k

PlacesInv == ChannelOnce /\ \A r \in Requests : Placed(r)

LEMMA OnceSent ==
    ASSUME QueueTyped, ChannelOnce, NEW e \in ConnectionControl,
           e.type # "request" \/ ~InQueue(e), queue' = Append(queue, e)
    PROVE  ChannelOnce'
  <1>1. \A n \in DOMAIN queue' : \/ n \in DOMAIN queue /\ queue'[n] = queue[n]
                                 \/ n = Len(queue) + 1 /\ queue'[n] = e
    BY AppendElements DEF QueueTyped
  <1> QED
    BY <1>1 DEF ChannelOnce, InQueue

LEMMA OnceReceived ==
    ASSUME QueueTyped, ChannelOnce, queue # <<>>, queue' = Tail(queue)
    PROVE  ChannelOnce' /\ \A x : x = Head(queue) /\ x.type = "request" => ~InQueue(x)'
  <1>1. /\ 1 \in DOMAIN queue /\ Head(queue) = queue[1]
        /\ \A n \in DOMAIN queue' : n \in Nat \ {0} /\ n + 1 \in DOMAIN queue
                                    /\ queue'[n] = queue[n + 1]
    BY TailElements DEF QueueTyped
  <1>2. ChannelOnce'
    <2> SUFFICES ASSUME NEW n \in DOMAIN queue', NEW k \in DOMAIN queue',
                        queue'[n].type = "request", queue'[n] = queue'[k]
                 PROVE  n = k
      BY DEF ChannelOnce
    <2>1. n + 1 = k + 1
      BY <1>1 DEF ChannelOnce
    <2> QED
      BY <1>1, <2>1
  <1>3. ASSUME NEW x, x = Head(queue), x.type = "request", InQueue(x)' PROVE FALSE
    <2>1. PICK n \in DOMAIN queue' : queue'[n] = x
      BY <1>1, <1>3 DEF InQueue
    <2>2. n + 1 = 1
      BY <1>1, <1>3, <2>1 DEF ChannelOnce
    <2> QED
      BY <1>1, <2>2
  <1> QED
    BY <1>2, <1>3

(* What a step does to the channel.                                        *)
LEMMA QueueSteps ==
    ASSUME QueueTyped, [ClientNext]_clientVars
    PROVE  \/ queue' = queue \/ queue' = <<>>
           \/ queue # <<>> /\ queue' = Tail(queue)
           \/ \E e \in ConnectionControl :
                queue' = Append(queue, e)
                /\ \/ e.type # "request"
                   \/ \E r \in Requests : r \notin issued /\ e = OutboundRequest(r)
  <1>1. ASSUME NEW r \in Requests, Issue(r)
        PROVE  \/ queue' = queue
               \/ queue' = Append(queue, OutboundRequest(r)) /\ r \notin issued
    BY <1>1 DEF Issue
  <1>2. ASSUME NEW c \in Connects, CallConnect(c) \/ CallConnectInvalid(c)
        PROVE  queue' = queue \/ queue' = Append(queue, Connect(c))
    BY <1>2 DEF CallConnect, Call, CallConnectInvalid
  <1>3. ASSUME NEW c \in Disconnects, CallDisconnect(c)
        PROVE  queue' = queue \/ queue' = Append(queue, Disconnect(c))
    BY <1>3 DEF CallDisconnect, Call
  <1>4. CASE RecvRequest \/ RecvConnect \/ RecvDisconnect \/ Crash
    BY <1>4 DEF RecvRequest, RecvConnect, RecvDisconnect, Recv, Crash
  <1>5. CASE DropClients \/ RecvNone \/ Resume \/ PollStream \/ Reap \/ HandleEvent \/ World
             \/ UNCHANGED clientVars
    BY <1>5 DEF DropClients, RecvNone, Resume, Closing, ClosedToConnect, ClosedToDisconnect,
                ClosedToStop, Connected, ConnectionFailed, PollStream, Reap, HandleEvent,
                HandleSubscription, HandleError, HandleClosed, World, callVars, clientVars
  <1> QED
    BY <1>1, <1>2, <1>3, <1>4, <1>5, Controls DEF ClientNext, Handles, RecvControl

LEMMA NextOnce ==
    ASSUME QueueTyped, PlacesInv, [ClientNext]_clientVars
    PROVE  ChannelOnce'
  <1>1. CASE queue' = queue \/ queue' = <<>>
    BY <1>1 DEF PlacesInv, ChannelOnce
  <1>2. CASE queue # <<>> /\ queue' = Tail(queue)
    BY <1>2, OnceReceived DEF PlacesInv
  <1>3. ASSUME NEW e \in ConnectionControl, queue' = Append(queue, e),
               \/ e.type # "request"
               \/ \E r \in Requests : r \notin issued /\ e = OutboundRequest(r)
        PROVE  ChannelOnce'
    <2>1. e.type # "request" \/ ~InQueue(e)
      BY <1>3 DEF PlacesInv, Placed, InChannel
    <2> QED
      BY <1>3, <2>1, OnceSent DEF PlacesInv
  <1> QED
    BY <1>1, <1>2, <1>3, QueueSteps

(* A request that a stream has taken stays with it.                        *)
LEMMA QuietKeepsInStream ==
    ASSUME StreamInv, Quiet
    PROVE  \A r \in Requests : InStream(r)' <=> InStream(r)
  <1>1. "idle" \notin Outcomes
    BY StreamAssumption DEF Outcomes, Closed
  <1> QED
    BY <1>1, QuietResults DEF InStream

LEMMA PassivePlaces ==
    ASSUME StreamInv, PlacesInv, Passive, NEW r \in Requests
    PROVE  Placed(r)'
  BY QuietKeepsInStream DEF PlacesInv, Placed, Passive, Refused

LEMMA IssuePlaces ==
    ASSUME StreamInv, LoopInv, PlacesInv, NEW q \in Requests, Issue(q), NEW r \in Requests
    PROVE  Placed(r)'
  <1>1. q \notin issued /\ issued' = issued \cup {q} /\ UNCHANGED vars
    BY DEF Issue
  <1>2. InStream(r)' <=> InStream(r)
    BY <1>1 DEF InStream, vars
  <1>3. Placed(r) /\ Placed(q)
    BY DEF PlacesInv
  <1>4. CASE queue' = Append(queue, OutboundRequest(q)) /\ refused' = refused
    <2>1. InChannel(r)' <=> InChannel(r) \/ r = q
      BY <1>4, Sent, Controls DEF InChannel, LoopInv, LoopTypeOK
    <2> QED
      BY <1>1, <1>2, <1>3, <1>4, <2>1 DEF Placed, Refused
  <1>5. CASE queue' = queue /\ refused' = [refused EXCEPT ![q] = "channelClosed"]
    <2>1. InChannel(r)' <=> InChannel(r)
      BY <1>5, SameQueue DEF InChannel
    <2>2. Refused(r)' <=> Refused(r) \/ r = q
      BY <1>5 DEF Refused, LoopInv, LoopTypeOK
    <2> QED
      BY <1>1, <1>2, <1>3, <2>1, <2>2 DEF Placed
  <1> QED
    BY <1>4, <1>5 DEF Issue

LEMMA RecvRequestPlaces ==
    ASSUME StreamInv, LoopInv, PlacesInv, RecvRequest, NEW r \in Requests
    PROVE  Placed(r)'
  <1>1. /\ QueueTyped /\ queue # <<>> /\ queue' = Tail(queue)
        /\ Head(queue).type = "request" /\ UNCHANGED issued
    BY DEF RecvRequest, Recv, LoopInv, LoopTypeOK, QueueTyped, callVars
  <1>2. PICK q \in Requests : Head(queue) = OutboundRequest(q) /\ Head(queue).call = q
    BY <1>1, Received, Controls DEF QueueTyped
  <1>3. /\ InChannel(q)
        /\ \A x : InQueue(x)' => InQueue(x)
        /\ \A x : InQueue(x) => x = OutboundRequest(q) \/ InQueue(x)'
    BY <1>1, <1>2, Received DEF QueueTyped, InChannel
  <1>4. ~InChannel(q)' /\ (r # q => (InChannel(r)' <=> InChannel(r)))
    <2>1. ~InQueue(OutboundRequest(q))'
      BY <1>1, <1>2, OnceReceived DEF PlacesInv
    <2>2. r # q => OutboundRequest(r) # OutboundRequest(q)
      BY Controls
    <2> QED
      BY <1>3, <2>1, <2>2 DEF InChannel
  <1>5. \/ HasStream /\ SendRaw(q) /\ UNCHANGED refused
        \/ ~HasStream /\ NotConnected(q) /\ UNCHANGED vars
    BY <1>2 DEF RecvRequest
  <1>6. Placed(r) /\ Placed(q)
    BY DEF PlacesInv
  <1>7. CASE SendRaw(q) /\ UNCHANGED refused
    <2>1. InStream(q)' /\ (r # q => (InStream(r)' <=> InStream(r)))
      BY <1>7 DEF SendRaw, InStream, StreamInv, TypeOK
    <2>2. (Refused(r)' <=> Refused(r)) /\ (Refused(q)' <=> Refused(q))
      BY <1>7 DEF Refused
    <2> QED
      BY <1>1, <1>3, <1>4, <1>6, <2>1, <2>2 DEF Placed
  <1>8. CASE NotConnected(q) /\ UNCHANGED vars
    <2>1. Refused(q)' /\ (r # q => (Refused(r)' <=> Refused(r)))
      BY <1>8 DEF NotConnected, Refused, LoopInv, LoopTypeOK
    <2>2. (InStream(r)' <=> InStream(r)) /\ (InStream(q)' <=> InStream(q))
      BY <1>8 DEF InStream, vars
    <2> QED
      BY <1>1, <1>3, <1>4, <1>6, <2>1, <2>2 DEF Placed
  <1> QED
    BY <1>5, <1>7, <1>8

LEMMA CrashPlaces ==
    ASSUME StreamInv, LoopInv, PlacesInv, Crash, NEW r \in Requests
    PROVE  Placed(r)'
  <1>1. ~InChannel(r)' /\ UNCHANGED issued
    BY DEF Crash, InChannel, InQueue
  <1>2. InStream(r)' <=> InStream(r)
    BY QuietKeepsInStream DEF Crash, Quiet
  <1>3. Refused(r)' <=> Refused(r) \/ InChannel(r)
    BY DEF Crash, Refused, SenderDropped, InChannel
  <1>4. Placed(r)
    BY DEF PlacesInv
  <1> QED
    BY <1>1, <1>2, <1>3, <1>4 DEF Placed

LEMMA ClientPlaces == ClientSpec => [](StreamInv /\ LoopInv /\ PlacesInv)
  <1>1. ClientInit => PlacesInv
    BY DEF ClientInit, Init, PlacesInv, Placed, ChannelOnce, InChannel, InQueue, InStream, Refused
  <1>2. StreamInv /\ LoopInv /\ PlacesInv /\ [ClientNext]_clientVars => PlacesInv'
    <2> SUFFICES ASSUME StreamInv, LoopInv, PlacesInv, [ClientNext]_clientVars
                 PROVE  PlacesInv'
      OBVIOUS
    <2>1. QueueTyped
      BY DEF LoopInv, LoopTypeOK, QueueTyped
    <2>2. ChannelOnce'
      BY <2>1, NextOnce
    <2>3. ASSUME NEW r \in Requests PROVE Placed(r)'
      BY <2>1, StepKinds, PassivePlaces, IssuePlaces, RecvRequestPlaces, CrashPlaces
    <2> QED
      BY <2>2, <2>3 DEF PlacesInv
  <1> QED
    BY <1>1, <1>2, ClientStates, PTL DEF ClientSpec

(* When there is no stream, nobody waits for an answer on one.             *)
LEMMA NoStreamNoWaiting ==
    ASSUME StreamInv, ~HasStream
    PROVE  \A r \in Requests : result[r] # "waiting"
  <1>1. requests = NoRequests /\ \A r \in Requests : result[r] = "waiting" <=> InMap(r)
    BY DEF StreamInv, PendingIsInMap, HasStream
  <1>2. \A i \in Ids : requests[i] = None
    BY <1>1 DEF NoRequests
  <1>3. \A r \in Requests : ~InMap(r)
    BY <1>2, StreamAssumption DEF InMap
  <1> QED
    BY <1>1, <1>3

(* Every request is in exactly one place at any time, and when the loop is *)
(* gone each has been completed and each call has its reply.               *)
THEOREM RequestsAccountedCorrect == ClientSpec => []RequestsAccounted
  <1>1. StreamInv /\ LoopInv /\ PlacesInv => RequestsAccounted
    <2> SUFFICES ASSUME StreamInv, LoopInv, PlacesInv PROVE RequestsAccounted
      OBVIOUS
    <2>1. issued \subseteq Requests /\ \A r \in Requests : Placed(r)
      BY DEF LoopInv, LoopTypeOK, PlacesInv
    <2>2. ASSUME pc = "stopped" PROVE \A r \in issued : Refused(r) \/ result[r] \in Outcomes
      <3>1. \A r \in Requests : ~InChannel(r) /\ result[r] # "waiting"
        <4>1. queue = <<>> /\ ~HasStream
          BY <2>2 DEF LoopInv, LoopTypeOK
        <4>2. \A x : ~InQueue(x)
          BY <4>1 DEF InQueue
        <4> QED
          BY <4>1, <4>2, NoStreamNoWaiting DEF InChannel
      <3> QED
        BY <2>1, <3>1 DEF Placed, InStream, StreamInv, TypeOK
    <2>3. ASSUME pc = "stopped" PROVE \A c \in Calls : reply[c] # "waiting"
      <3>1. \A c \in Calls : ~InQueue(Asked(c)) /\ serving # Asked(c)
        BY <2>3, Controls DEF LoopInv, LoopTypeOK, InQueue, Asked
      <3> QED
        BY <3>1 DEF LoopInv
    <2> QED
      BY <2>1, <2>2, <2>3 DEF RequestsAccounted, Placed
  <1> QED
    BY <1>1, ClientPlaces, PTL

(* A request that was refused was never processed by the relay.            *)
THEOREM RefusedNeverExecutedCorrect == ClientSpec => []RefusedNeverExecuted
  <1>1. StreamInv /\ PlacesInv => RefusedNeverExecuted
    BY DEF StreamInv, SentOnce, PlacesInv, Placed, InStream, RefusedNeverExecuted
  <1> QED
    BY <1>1, ClientPlaces, PTL
-----------------------------------------------------------------------------
(* How a call gets its reply: there is no stream any more, or a new one.   *)
LEMMA RepliesGiven ==
    ASSUME StreamInv, LoopInv, [ClientNext]_clientVars,
           NEW c \in Calls, reply[c] = "waiting", reply'[c] # "waiting"
    PROVE  \/ /\ ~HasStream' /\ (Drop \/ (~HasStream /\ UNCHANGED vars))
              /\ ~(c \in Connects /\ reply'[c] = "ok")
           \/ ~HasStream /\ Create /\ c \in Connects /\ reply'[c] = "ok"
  <1>1. reply' # reply
    OBVIOUS
  <1>2. \A d \in Calls : \A o : reply' = [reply EXCEPT ![d] = o] => d = c /\ reply'[c] = o
    BY DEF LoopInv, LoopTypeOK
  <1>3. CASE Handles
    <2>1. \A d \in Calls : reply[d] = "idle" => d # c
      OBVIOUS
    <2>2. ASSUME NEW d \in Calls, NEW m, Call(d, m) PROVE FALSE
      BY <1>1, <1>2, <2>1, <2>2 DEF Call
    <2>3. ASSUME NEW d \in Connects, CallConnectInvalid(d) PROVE FALSE
      BY <1>1, <1>2, <2>1, <2>3 DEF CallConnectInvalid, Calls
    <2> QED
      BY <1>1, <1>3, <2>2, <2>3 DEF Handles, CallConnect, CallDisconnect, Calls, Issue, DropClients
  <1>4. CASE RecvDisconnect
    <2>1. ~HasStream /\ UNCHANGED vars /\ reply' = [reply EXCEPT ![Head(queue).call] = "closingFailed"]
      BY <1>1, <1>4 DEF RecvDisconnect
    <2>2. Head(queue) \in ConnectionControl /\ Head(queue).type = "disconnect"
      BY <1>4, Received DEF RecvDisconnect, Recv, LoopInv, LoopTypeOK
    <2>3. Head(queue).call \in Calls
      BY <2>2, Controls DEF Calls
    <2>4. reply'[c] = "closingFailed"
      BY <1>2, <2>1, <2>3
    <2> QED
      BY <2>1, <2>4 DEF HasStream, vars, streamVars
  <1>5. \A t : serving.type = t /\ t \in {"connect", "disconnect"} => serving.call \in Calls
                /\ (t = "connect" => serving.call \in Connects)
                /\ (t = "disconnect" => serving.call \notin Connects)
    BY Controls, CallsAssumption DEF Calls, LoopInv, LoopTypeOK
  <1>6. CASE ClosedToConnect
    <2>1. Drop /\ reply' = [reply EXCEPT ![serving.call] = "closingFailed"]
      BY <1>1, <1>6 DEF ClosedToConnect, ReplyServed
    <2>2. reply'[c] = "closingFailed"
      BY <1>2, <1>5, <1>6, <2>1 DEF ClosedToConnect
    <2> QED
      BY <2>1, <2>2 DEF Drop, HasStream
  <1>7. CASE ClosedToDisconnect
    <2>1. Drop /\ reply' = [reply EXCEPT ![serving.call] =
                              IF closing = "ok" THEN "ok" ELSE "closingFailed"]
      BY <1>7 DEF ClosedToDisconnect, ReplyServed
    <2>2. serving.call \in Calls /\ serving.call \notin Connects
      BY <1>5, <1>7 DEF ClosedToDisconnect
    <2>3. c \notin Connects
      BY <1>2, <2>1, <2>2
    <2> QED
      BY <2>1, <2>3 DEF Drop, HasStream
  <1>8. CASE Connected
    <2>1. Create /\ ~HasStream /\ reply' = [reply EXCEPT ![serving.call] = "ok"]
      BY <1>8 DEF Connected, ReplyServed, LoopInv, LoopTypeOK
    <2>2. serving.call \in Calls /\ serving.call \in Connects
      BY <1>5, <1>8 DEF Connected, LoopInv, LoopTypeOK
    <2>3. c \in Connects /\ reply'[c] = "ok"
      BY <1>2, <2>1, <2>2
    <2> QED
      BY <2>1, <2>3
  <1>9. CASE ConnectionFailed
    <2>1. UNCHANGED vars /\ ~HasStream
          /\ reply' = [reply EXCEPT ![serving.call] = "connectionFailed"]
      BY <1>9 DEF ConnectionFailed, ReplyServed, LoopInv, LoopTypeOK
    <2>2. reply'[c] = "connectionFailed"
      BY <1>2, <1>5, <1>9, <2>1 DEF ConnectionFailed, LoopInv, LoopTypeOK
    <2> QED
      BY <2>1, <2>2 DEF HasStream, vars, streamVars
  <1>10. CASE Crash
    <2>1. reply'[c] = "channelClosed"
      BY <1>10 DEF Crash
    <2>2. ~HasStream' /\ (Drop \/ (~HasStream /\ UNCHANGED vars))
      BY <1>10 DEF Crash, Drop, HasStream, vars, streamVars
    <2> QED
      BY <2>1, <2>2
  <1>11. CASE RecvRequest \/ RecvConnect \/ RecvNone \/ Closing \/ ClosedToStop \/ PollStream
              \/ Reap \/ HandleEvent \/ World \/ UNCHANGED clientVars
    BY <1>1, <1>11 DEF RecvRequest, RecvConnect, RecvNone, Closing, ClosedToStop, PollStream, Reap,
       HandleEvent, HandleSubscription, HandleError, HandleClosed, World, callVars, clientVars
  <1> QED
    BY <1>3, <1>4, <1>6, <1>7, <1>8, <1>9, <1>10, <1>11 DEF ClientNext, RecvControl, Resume

LEMMA DropEndsWaiting ==
    ASSUME StreamInv, Drop
    PROVE  \A r \in Requests : result'[r] # "waiting"
  <1>1. \A r \in Requests : IF InMap(r) THEN result'[r] \in Closed ELSE result'[r] = result[r]
    BY DEF Drop, Closed
  <1>2. \A r \in Requests : result[r] = "waiting" => InMap(r)
    BY DEF StreamInv, PendingIsInMap
  <1> HIDE DEF InMap
  <1> QED
    BY <1>1, <1>2 DEF Closed

(* The reply to connect() or disconnect() is a barrier for the requests.   *)
THEOREM ReplyIsBarrierCorrect == ClientSpec => ReplyIsBarrier
  <1>1. ASSUME StreamInv, LoopInv, [ClientNext]_clientVars,
               NEW c \in Calls, reply[c] = "waiting", reply'[c] # "waiting"
        PROVE  /\ \A r \in Requests : result'[r] # "waiting"
               /\ socket' # "none" <=> c \in Connects /\ reply'[c] = "ok"
    <2>1. CASE Drop
      BY <1>1, <2>1, RepliesGiven, DropEndsWaiting DEF HasStream, Create
    <2>2. CASE ~HasStream /\ UNCHANGED vars
      BY <1>1, <2>2, RepliesGiven, NoStreamNoWaiting DEF HasStream, vars, Create
    <2>3. CASE ~HasStream /\ Create /\ c \in Connects /\ reply'[c] = "ok"
      BY <1>1, <2>3, NoStreamNoWaiting DEF HasStream, Create
    <2> QED
      BY <1>1, <2>1, <2>2, <2>3, RepliesGiven
  <1>2. StreamInv /\ LoopInv /\ [ClientNext]_clientVars =>
          \A c \in Calls : reply[c] = "waiting" /\ reply'[c] # "waiting" =>
            /\ \A r \in Requests : result'[r] # "waiting"
            /\ socket' # "none" <=> c \in Connects /\ reply'[c] = "ok"
    BY <1>1
  <1> QED
    BY <1>2, ClientStates, PTL DEF ClientSpec, ReplyIsBarrier
-----------------------------------------------------------------------------
(* What a caller knows, as a function of what became of its request.       *)
KnownOf(ref, res, made) ==
    CASE ref # "no"           -> "refused"
      [] res = "duplicateId"  -> "refused"
      [] res \in Closed       -> "closed"
      [] res \in Answers      -> res
      [] res = "foreign"      -> "foreign"
      [] OTHER                -> IF made THEN "pending" ELSE "idle"

LEMMA KnownOfCases ==
    ASSUME NEW ref, NEW res, NEW made
    PROVE  /\ (ref # "no" /\ res = "idle") \/ res = "duplicateId" => KnownOf(ref, res, made) = "refused"
           /\ ref = "no" /\ res \in Closed => KnownOf(ref, res, made) = "closed"
           /\ ref = "no" /\ res \in Answers => KnownOf(ref, res, made) = res
           /\ ref = "no" /\ res \in {"idle", "waiting"} /\ made => KnownOf(ref, res, made) = "pending"
           /\ ref = "no" /\ res \in {"idle", "waiting"} /\ ~made => KnownOf(ref, res, made) = "idle"
  <1>1. \A x \in Answers : x \notin Closed /\ x \notin {"idle", "waiting", "duplicateId", "foreign"}
    BY StreamAssumption DEF Closed
  <1>2. \A x \in Closed : x \notin {"idle", "waiting", "duplicateId", "foreign"}
    BY DEF Closed
  <1>3. (ref # "no" /\ res = "idle") \/ res = "duplicateId" => KnownOf(ref, res, made) = "refused"
    BY <1>1, <1>2 DEF KnownOf
  <1>4. ref = "no" /\ res \in Closed => KnownOf(ref, res, made) = "closed"
    BY <1>1, <1>2 DEF KnownOf
  <1>5. ref = "no" /\ res \in Answers => KnownOf(ref, res, made) = res
    BY <1>1, <1>2 DEF KnownOf
  <1>6. ref = "no" /\ res \in {"idle", "waiting"} /\ made => KnownOf(ref, res, made) = "pending"
    BY <1>1, <1>2 DEF KnownOf
  <1>7. ref = "no" /\ res \in {"idle", "waiting"} /\ ~made => KnownOf(ref, res, made) = "idle"
    BY <1>1, <1>2 DEF KnownOf
  <1> QED
    BY <1>3, <1>4, <1>5, <1>6, <1>7

LEMMA KnownIs ==
    \A r : /\ Known(r) = KnownOf(refused[r], result[r], r \in issued)
           /\ Known(r)' = KnownOf(refused'[r], result'[r], r \in issued')
  BY DEF Known, KnownOf, Refused

LEMMA KnownCases ==
    ASSUME NEW r
    PROVE  /\ (refused[r] # "no" /\ result[r] = "idle") \/ result[r] = "duplicateId" => Known(r) = "refused"
           /\ refused[r] = "no" /\ result[r] \in Closed => Known(r) = "closed"
           /\ refused[r] = "no" /\ result[r] \in Answers => Known(r) = result[r]
           /\ refused[r] = "no" /\ result[r] \in {"idle", "waiting"} /\ r \in issued
                => Known(r) = "pending"
           /\ refused[r] = "no" /\ result[r] \in {"idle", "waiting"} /\ r \notin issued
                => Known(r) = "idle"
  <1> DEFINE made == r \in issued
  <1>1. Known(r) = KnownOf(refused[r], result[r], made)
    BY KnownIs
  <1> HIDE DEF made
  <1>2. /\ (refused[r] # "no" /\ result[r] = "idle") \/ result[r] = "duplicateId" => Known(r) = "refused"
        /\ refused[r] = "no" /\ result[r] \in Closed => Known(r) = "closed"
        /\ refused[r] = "no" /\ result[r] \in Answers => Known(r) = result[r]
        /\ refused[r] = "no" /\ result[r] \in {"idle", "waiting"} /\ made => Known(r) = "pending"
        /\ refused[r] = "no" /\ result[r] \in {"idle", "waiting"} /\ ~made => Known(r) = "idle"
    BY <1>1, KnownOfCases
  <1> QED
    BY <1>2 DEF made

LEMMA KnownCasesNext ==
    ASSUME NEW r
    PROVE  /\ (refused'[r] # "no" /\ result'[r] = "idle") \/ result'[r] = "duplicateId" => Known(r)' = "refused"
           /\ refused'[r] = "no" /\ result'[r] \in Closed => Known(r)' = "closed"
           /\ refused'[r] = "no" /\ result'[r] \in Answers => Known(r)' = result'[r]
           /\ refused'[r] = "no" /\ result'[r] \in {"idle", "waiting"} /\ r \in issued'
                => Known(r)' = "pending"
  <1> DEFINE made == r \in issued'
  <1>1. Known(r)' = KnownOf(refused'[r], result'[r], made)
    BY KnownIs
  <1> HIDE DEF made
  <1>2. /\ (refused'[r] # "no" /\ result'[r] = "idle") \/ result'[r] = "duplicateId" => Known(r)' = "refused"
        /\ refused'[r] = "no" /\ result'[r] \in Closed => Known(r)' = "closed"
        /\ refused'[r] = "no" /\ result'[r] \in Answers => Known(r)' = result'[r]
        /\ refused'[r] = "no" /\ result'[r] \in {"idle", "waiting"} /\ made => Known(r)' = "pending"
    BY <1>1, KnownOfCases
  <1> QED
    BY <1>2 DEF made

(* Everything that is known of a state of the client.                      *)
ClientInv == StreamInv /\ LoopInv /\ PlacesInv /\ NoForeignAnswer

LEMMA ClientInvariant == ClientSpec => []ClientInv
  BY ClientRunsStream, NoForeignAnswerCorrect, ClientPlaces, PTL DEF ClientInv

(* A pending call is in the channel, or its caller waits on a stream.      *)
LEMMA PendingAre ==
    ASSUME ClientInv, NEW r \in Requests
    PROVE  r \in Rpc!Pending <=> InChannel(r) \/ result[r] = "waiting"
  <1>1. r \in Rpc!Pending <=> Known(r) = "pending"
    BY DEF Rpc!Pending
  <1>2. /\ Placed(r) /\ result[r] \in {"idle", "waiting"} \cup Outcomes /\ result[r] # "foreign"
    BY DEF ClientInv, PlacesInv, StreamInv, TypeOK, NoForeignAnswer
  <1>3. ASSUME InChannel(r) \/ result[r] = "waiting" PROVE Known(r) = "pending"
    <2>1. refused[r] = "no" /\ result[r] \in {"idle", "waiting"} /\ r \in issued
      BY <1>2, <1>3 DEF Placed, Refused, InStream
    <2> QED
      BY <2>1, KnownCases
  <1>4. ASSUME Known(r) = "pending" PROVE InChannel(r) \/ result[r] = "waiting"
    <2>1. refused[r] = "no" /\ result[r] # "duplicateId" /\ result[r] \notin Closed
      BY <1>2, <1>4, KnownCases DEF Placed, Refused, InStream
    <2>2. result[r] \notin Answers
      BY <1>4, <2>1, KnownCases, StreamAssumption
    <2>3. result[r] \in {"idle", "waiting"}
      BY <1>2, <2>1, <2>2 DEF Outcomes
    <2>4. r \in issued
      BY <1>4, <2>1, <2>3, KnownCases
    <2> QED
      BY <1>2, <2>1, <2>3, <2>4 DEF Placed, Refused, InStream
  <1> QED
    BY <1>1, <1>3, <1>4

(* A pending call that no stream has taken was not processed.              *)
LEMMA UnbegunNotExecuted ==
    ASSUME ClientInv, NEW r \in Requests, InChannel(r)
    PROVE  result[r] = "idle" /\ r \notin executed /\ refused[r] = "no" /\ r \in issued
  <1>1. Placed(r)
    BY DEF ClientInv, PlacesInv
  <1>2. result[r] = "idle" /\ refused[r] = "no" /\ r \in issued
    BY <1>1 DEF Placed, InStream, Refused
  <1> QED
    BY <1>2 DEF ClientInv, StreamInv, SentOnce

LEMMA SameKnown ==
    ASSUME NEW r, refused'[r] = refused[r], result'[r] = result[r], r \in issued' <=> r \in issued
    PROVE  Known(r)' = Known(r)
  BY KnownIs

(* The steps in which the fate of one request, or of none, is told.        *)
LEMMA SettlesOne ==
    ASSUME NEW r \in Requests, NEW o, Known(r)' = o,
           \A q \in Requests : q # r => Known(q)' = Known(q)
    PROVE  Rpc!Settle({r}, o)
  BY DEF Rpc!Settle

LEMMA Stutters ==
    ASSUME UNCHANGED executed, \A r \in Requests : Known(r)' = Known(r)
    PROVE  UNCHANGED Rpc!rpcVars
  BY DEF Rpc!rpcVars

LEMMA IssueMapped ==
    ASSUME ClientInv, NEW r \in Requests, Issue(r)
    PROVE  Rpc!Make(r)
  <1>1. /\ r \notin issued /\ issued' = issued \cup {r} /\ UNCHANGED vars
        /\ refused' = refused \/ refused' = [refused EXCEPT ![r] = "channelClosed"]
    BY DEF Issue
  <1>2. UNCHANGED <<result, executed>>
    BY <1>1 DEF vars, relayVars
  <1>3. refused[r] = "no" /\ result[r] = "idle"
    BY <1>1 DEF ClientInv, PlacesInv, Placed, InStream, Refused
  <1>4. Known(r) = "idle"
    BY <1>1, <1>3, KnownCases
  <1>5. \A q \in Requests : q # r => Known(q)' = Known(q)
    BY <1>1, <1>2, SameKnown DEF ClientInv, LoopInv, LoopTypeOK
  <1>6. Known(r)' \in {"pending", "refused"}
    <2>1. CASE refused' = refused
      BY <1>1, <1>2, <1>3, <2>1, KnownCasesNext
    <2>2. CASE refused' = [refused EXCEPT ![r] = "channelClosed"]
      <3>1. refused'[r] # "no"
        BY <2>2 DEF ClientInv, LoopInv, LoopTypeOK
      <3> QED
        BY <1>2, <1>3, <3>1, KnownCasesNext
    <2> QED
      BY <1>1, <2>1, <2>2
  <1>7. \E o \in {"pending", "refused"} : Rpc!Settle({r}, o)
    BY <1>5, <1>6, SettlesOne
  <1> QED
    BY <1>2, <1>4, <1>7 DEF Rpc!Make

LEMMA RecvRequestMapped ==
    ASSUME ClientInv, RecvRequest
    PROVE  UNCHANGED Rpc!rpcVars \/ \E r \in Requests : Rpc!Refuse(r)
  <1>1. PICK r \in Requests : Head(queue) = OutboundRequest(r) /\ Head(queue).call = r
                              /\ InChannel(r)
    BY Received, Controls DEF RecvRequest, Recv, ClientInv, LoopInv, LoopTypeOK, InChannel
  <1>2. /\ result[r] = "idle" /\ r \notin executed /\ refused[r] = "no" /\ r \in issued
        /\ Known(r) = "pending" /\ r \in Rpc!Pending
    BY <1>1, UnbegunNotExecuted, KnownCases, PendingAre
  <1>3. issued' = issued /\ UNCHANGED executed
    BY DEF RecvRequest, SendRaw, callVars, vars, relayVars
  <1>4. \A q \in Requests : q # r => Known(q)' = Known(q)
    <2>1. \A q \in Requests : q # r => refused'[q] = refused[q] /\ result'[q] = result[q]
      BY <1>1 DEF RecvRequest, SendRaw, NotConnected, vars, ClientInv, StreamInv, TypeOK, LoopInv,
                  LoopTypeOK
    <2> QED
      BY <1>3, <2>1, SameKnown
  <1>5. \/ result'[r] = "waiting" /\ refused'[r] = "no"
        \/ result'[r] = "duplicateId" \/ (refused'[r] # "no" /\ result'[r] = "idle")
    <2>1. SendRaw(r) => result'[r] \in {"waiting", "duplicateId"}
      BY DEF SendRaw, ClientInv, StreamInv, TypeOK
    <2>2. NotConnected(r) => refused'[r] # "no"
      BY DEF NotConnected, ClientInv, LoopInv, LoopTypeOK
    <2>3. \/ SendRaw(r) /\ UNCHANGED refused
          \/ NotConnected(r) /\ UNCHANGED vars
      BY <1>1 DEF RecvRequest
    <2> QED
      BY <1>2, <2>1, <2>2, <2>3 DEF vars
  <1>6. CASE result'[r] = "waiting" /\ refused'[r] = "no"
    <2>1. Known(r)' = "pending"
      BY <1>2, <1>3, <1>6, KnownCasesNext
    <2> QED
      BY <1>2, <1>3, <1>4, <2>1, Stutters
  <1>7. CASE result'[r] = "duplicateId" \/ (refused'[r] # "no" /\ result'[r] = "idle")
    <2>1. Known(r)' = "refused"
      BY <1>3, <1>7, KnownCasesNext
    <2>2. Rpc!Settle({r}, "refused")
      BY <1>4, <2>1, SettlesOne
    <2> QED
      BY <1>2, <1>3, <2>2 DEF Rpc!Refuse
  <1> QED
    BY <1>5, <1>6, <1>7

(* A stream goes away, and when the whole loop does, the channel with it.  *)
LEMMA CloseMapped ==
    ASSUME ClientInv, NEW unbegun \in SUBSET Requests,
           unbegun = {} \/ unbegun = {r \in Requests : InChannel(r)},
           Drop \/ (~HasStream /\ UNCHANGED vars),
           UNCHANGED issued,
           \A r \in Requests : refused'[r] = IF r \in unbegun THEN "channelClosed" ELSE refused[r]
    PROVE  Rpc!Close
  <1> DEFINE failed == {r \in Requests : result[r] = "waiting"}
             seen   == executed' \ executed
  <1>1. executed' = executed \cup seen /\ seen \subseteq failed
    <2>1. CASE Drop
      <3>1. PICK s \in SUBSET toRelay :
              executed' = executed \cup {r \in Requests : \E i \in Ids : RequestMessage(i, r) \in s}
        BY <2>1 DEF Drop, RelayDrains
      <3>2. \A r \in Requests, i \in Ids : RequestMessage(i, r) \in toRelay => result[r] = "waiting"
        BY AtRelayIsWaiting DEF RequestMessage, IsRequest, ClientInv
      <3> QED
        BY <3>1, <3>2
    <2>2. CASE UNCHANGED vars
      BY <2>2 DEF vars, relayVars
    <2> QED
      BY <2>1, <2>2
  <1>2. /\ \A r \in failed : result'[r] \in Closed
        /\ \A r \in Requests \ failed : result'[r] = result[r]
    <2>1. CASE Drop
      <3>1. \A r \in Requests : IF InMap(r) THEN result'[r] \in Closed ELSE result'[r] = result[r]
        BY <2>1 DEF Drop, Closed
      <3>2. \A r \in Requests : result[r] = "waiting" <=> InMap(r)
        BY DEF ClientInv, StreamInv, PendingIsInMap
      <3> HIDE DEF InMap
      <3> QED
        BY <3>1, <3>2
    <2>2. CASE ~HasStream /\ UNCHANGED vars
      BY <2>2, NoStreamNoWaiting DEF ClientInv, vars
    <2> QED
      BY <2>1, <2>2
  <1>3. \A r \in failed : refused[r] = "no" /\ r \notin unbegun
    BY UnbegunNotExecuted DEF ClientInv, PlacesInv, Placed, InStream, Refused
  <1>4. \A r \in unbegun : InChannel(r) /\ r \notin executed /\ r \notin failed
    BY UnbegunNotExecuted
  <1>5. failed \in SUBSET Rpc!Pending /\ unbegun \in SUBSET Rpc!Pending
    BY <1>4, PendingAre
  <1>6. unbegun # {} => Rpc!Pending = failed \cup unbegun
    <2>1. Rpc!Pending \subseteq Requests
      BY DEF Rpc!Pending
    <2> QED
      BY <1>5, <2>1, PendingAre
  <1>7. \A r \in Requests : Known(r)' = IF r \in failed THEN "closed"
                                        ELSE IF r \in unbegun THEN "refused" ELSE Known(r)
    <2> TAKE r \in Requests
    <2>1. CASE r \in failed
      <3>1. refused'[r] = "no" /\ result'[r] \in Closed
        BY <1>2, <1>3, <2>1
      <3> QED
        BY <2>1, <3>1, KnownCasesNext
    <2>2. CASE r \in unbegun
      <3>1. refused'[r] # "no" /\ result'[r] = "idle" /\ r \notin failed
        BY <1>2, <1>4, <2>2, UnbegunNotExecuted
      <3> QED
        BY <2>2, <3>1, KnownCasesNext
    <2>3. CASE r \notin failed /\ r \notin unbegun
      BY <1>2, <2>3, SameKnown
    <2> QED
      BY <2>1, <2>2, <2>3
  <1>8. [r \in Requests |-> Known(r)]' =
          [r \in Requests |-> CASE r \in failed  -> "closed"
                                [] r \in unbegun -> "refused"
                                [] OTHER         -> [q \in Requests |-> Known(q)][r]]
    BY <1>4, <1>7
  <1> HIDE DEF failed, seen
  <1>9. unbegun \cap (failed \cup executed) = {} /\ seen \in SUBSET Rpc!Pending
    BY <1>1, <1>4, <1>5
  <1> QED
    BY <1>1, <1>5, <1>6, <1>8, <1>9 DEF Rpc!Close

(* An answer completes a call that the relay has processed.                *)
LEMMA ReadMapped ==
    ASSUME ClientInv, ReadResponse, UNCHANGED <<issued, refused>>
    PROVE  \E r \in Requests : Rpc!Answer(r)
  <1>1. PICK f \in Frames : f = Head(toClient) /\ f.type = "response" /\ toClient # <<>>
    BY TailElements DEF ReadResponse, Receive, ClientInv, StreamInv, TypeOK
  <1>2. PICK r \in Requests : r = f.call /\ requests[f.id] = r /\ f.answer \in Answers
    BY <1>1, InFlightRead DEF ClientInv, StreamInv
  <1>3. result' = [result EXCEPT ![r] = f.answer] /\ UNCHANGED executed
    BY <1>1, <1>2, StreamAssumption DEF ReadResponse, Outcome, relayVars
  <1>4. f.id \in Ids
    BY <1>1, FrameFields
  <1>5. result[r] = "waiting"
    BY <1>2, <1>4 DEF ClientInv, StreamInv, PendingIsInMap, InMap
  <1>6. r \in executed
    BY <1>1, <1>2, TailElements DEF ClientInv, StreamInv, TypeOK, SentOnce, IsResponse
  <1>7. refused[r] = "no" /\ r \in Rpc!Pending
    BY <1>5, PendingAre DEF ClientInv, PlacesInv, Placed, InStream, Refused
  <1>8. result'[r] = f.answer /\ \A q \in Requests : q # r => result'[q] = result[q]
    BY <1>3 DEF ClientInv, StreamInv, TypeOK
  <1>9. Known(r)' = f.answer
    BY <1>2, <1>7, <1>8, KnownCasesNext
  <1>10. Rpc!Settle({r}, f.answer)
    BY <1>8, <1>9, SameKnown, SettlesOne
  <1> QED
    BY <1>2, <1>3, <1>6, <1>7, <1>10 DEF Rpc!Answer

LEMMA AnswerMapped ==
    ASSUME ClientInv, RelayAnswer, UNCHANGED <<issued, refused>>
    PROVE  \E r \in Requests : Rpc!Process(r)
  <1>1. PICK m \in toRelay : /\ IsRequest(m) /\ executed' = executed \cup {m.call}
                             /\ UNCHANGED result
    BY DEF RelayAnswer, RelaySends, IsRequest
  <1>2. m.call \in Requests /\ result[m.call] = "waiting" /\ m.call \notin executed
    BY <1>1, AtRelayIsWaiting DEF ClientInv, StreamInv, SentOnce
  <1>3. m.call \in Rpc!Pending
    BY <1>2, PendingAre
  <1>4. \A q \in Requests : Known(q)' = Known(q)
    BY <1>1, SameKnown
  <1>5. Rpc!Process(m.call)
    BY <1>1, <1>2, <1>3, <1>4 DEF Rpc!Process
  <1> QED
    BY <1>2, <1>5

LEMMA PassiveMapped ==
    ASSUME ClientInv, Passive, [Next]_vars
    PROVE  [Rpc!RpcNext]_(Rpc!rpcVars)
  <1>1. CASE Drop
    <2> DEFINE none == {r \in Requests : FALSE}
    <2>1. none = {} /\ none \in SUBSET Requests
      OBVIOUS
    <2>2. UNCHANGED issued /\ \A r \in Requests :
            refused'[r] = IF r \in none THEN "channelClosed" ELSE refused[r]
      BY DEF Passive
    <2> HIDE DEF none
    <2>3. Rpc!Close
      BY <1>1, <2>1, <2>2, CloseMapped
    <2> QED
      BY <2>3 DEF Rpc!RpcNext
  <1>2. CASE ReadResponse
    BY <1>2, ReadMapped DEF Passive, Rpc!RpcNext
  <1>3. CASE RelayAnswer
    BY <1>3, AnswerMapped DEF Passive, Rpc!RpcNext
  <1>4. CASE ~Drop /\ ~ReadResponse /\ ~RelayAnswer
    <2>1. UNCHANGED executed
      BY <1>4, OthersExecuteNothing
    <2>3. result' = result
      <3>1. CASE Environment
        BY <1>4, <3>1 DEF Environment, RelayDeliver, RelayAcked, RelayNoise, RelayClose, NetBreak,
                          Tick, Unsolicited, RelaySends
      <3>2. CASE PollRead \/ PollWrite
        BY <1>4, <3>2 DEF PollRead, ReadSubscription, ReadInvalid, ReadControl, ReadClose,
                          ReadError, ReadEnd, PollWrite, WriteNext, WriteSendError, WriteReadyError
      <3>3. CASE Create \/ Respond \/ TakeEvent \/ CloseOk \/ CloseFailed \/ UNCHANGED vars
                 \/ \E f \in BOOLEAN : CloseBegin(f)
        BY <3>3 DEF Create, Respond, TakeEvent, CloseOk, CloseFailed, CloseBegin, vars
      <3> QED
        BY <1>4, <3>1, <3>2, <3>3 DEF Passive, Quiet
    <2>4. \A r \in Requests : Known(r)' = Known(r)
      BY <2>3, SameKnown DEF Passive
    <2> QED
      BY <2>1, <2>4, Stutters
  <1> QED
    BY <1>1, <1>2, <1>3, <1>4

(* The websocket client implements at-most-once calls.                     *)
THEOREM ImplementsRpcCorrect == ClientSpec => ImplementsRpc
  <1>1. ClientInit => Rpc!RpcInit
    <2> SUFFICES ASSUME ClientInit PROVE Rpc!RpcInit
      OBVIOUS
    <2>1. executed = {} /\ \A r \in Requests : refused[r] = "no" /\ result[r] = "idle"
                                               /\ r \notin issued
      BY DEF ClientInit, Init
    <2>2. \A r \in Requests : Known(r) = "idle"
      BY <2>1, KnownCases
    <2> QED
      BY <2>1, <2>2 DEF Rpc!RpcInit
  <1>2. ClientInv /\ [ClientNext]_clientVars => [Rpc!RpcNext]_(Rpc!rpcVars)
    <2> SUFFICES ASSUME ClientInv, [ClientNext]_clientVars PROVE [Rpc!RpcNext]_(Rpc!rpcVars)
      OBVIOUS
    <2>1. QueueTyped
      BY DEF ClientInv, LoopInv, LoopTypeOK, QueueTyped
    <2>2. [Next]_vars
      BY <2>1, ClientStepsStream
    <2>3. CASE Crash
      <3> DEFINE unbegun == {r \in Requests : InChannel(r)}
      <3>1. \A r \in Requests : refused'[r] = IF r \in unbegun THEN "channelClosed" ELSE refused[r]
        BY <2>3 DEF Crash, SenderDropped, InChannel
      <3>2. UNCHANGED issued /\ (Drop \/ (~HasStream /\ UNCHANGED vars))
        BY <2>3 DEF Crash
      <3>3. Rpc!Close
        BY <3>1, <3>2, CloseMapped
      <3> QED
        BY <3>3 DEF Rpc!RpcNext
    <2>4. ASSUME NEW r \in Requests, Issue(r) PROVE Rpc!RpcNext
      BY <2>4, IssueMapped DEF Rpc!RpcNext
    <2>5. CASE RecvRequest
      BY <2>5, RecvRequestMapped DEF Rpc!RpcNext
    <2> QED
      BY <2>1, <2>2, <2>3, <2>4, <2>5, StepKinds, PassiveMapped
  <1> QED
    BY <1>1, <1>2, ClientInvariant, PTL DEF ClientSpec, ImplementsRpc, Rpc!RpcSpec
-----------------------------------------------------------------------------
(* The acknowledgement of m has been written, or is about to be, or the    *)
(* relay has seen it.                                                      *)
Acked(m) ==
    \/ m \notin mailbox
    \/ AckMessage(m) \in toRelay
    \/ \E n \in DOMAIN outbound : outbound[n] = AckMessage(m)

(* The steps of the stream other than responding to a message.             *)
Silent ==
    \/ Create \/ Drop \/ PollRead \/ PollWrite \/ TakeEvent
    \/ \E f \in BOOLEAN : CloseBegin(f)
    \/ CloseOk \/ CloseFailed \/ Environment \/ UNCHANGED vars
    \/ \E r \in Requests : SendRaw(r)

LEMMA OnlyHandledResponds ==
    ASSUME QueueTyped, [ClientNext]_clientVars
    PROVE  HandleSubscription \/ (Silent /\ UNCHANGED delivered)
  <1>1. CASE UNCHANGED clientVars
    BY <1>1 DEF clientVars, loopVars, Silent
  <1>2. CASE Handles
    BY <1>2 DEF Handles, Issue, CallConnect, CallDisconnect, Call, CallConnectInvalid, DropClients,
                loopVars, Silent
  <1>3. CASE RecvRequest
    <2>1. Head(queue) \in ConnectionControl /\ Head(queue).type = "request"
      BY <1>3, Received DEF RecvRequest, Recv, QueueTyped
    <2>2. Head(queue).call \in Requests
      BY <2>1, Controls
    <2> QED
      BY <1>3, <2>2 DEF RecvRequest, loopVars, Silent
  <1>4. CASE RecvConnect \/ RecvDisconnect \/ RecvNone \/ Crash
    BY <1>4 DEF RecvConnect, RecvDisconnect, RecvNone, Crash, loopVars, Silent
  <1>5. CASE Resume \/ PollStream \/ Reap \/ HandleError \/ HandleClosed \/ World
    BY <1>5 DEF Resume, Closing, ClosedToConnect, ClosedToDisconnect, ClosedToStop, Connected,
                ConnectionFailed, PollStream, Reap, HandleError, HandleClosed, World, loopVars, Silent
  <1> QED
    BY <1>1, <1>2, <1>3, <1>4, <1>5 DEF ClientNext, RecvControl, HandleEvent

LEMMA NoNewAcks ==
    ASSUME TypeOK, Silent, NEW m \in Messages, Acked(m)'
    PROVE  Acked(m)
  <1>1. CASE Drop
    <2>1. PICK seen \in SUBSET toRelay : mailbox' = {k \in mailbox : AckMessage(k) \notin seen}
      BY <1>1 DEF Drop, RelayDrains
    <2>2. outbound' = <<>> /\ toRelay' = {}
      BY <1>1 DEF Drop
    <2>3. m \notin mailbox'
      BY <2>2 DEF Acked
    <2> QED
      BY <2>1, <2>3 DEF Acked
  <1>2. ASSUME NEW r \in Requests, SendRaw(r) PROVE Acked(m)
    <2> DEFINE new == RequestMessage(<<clock, counter>>, r)
    <2>1. new \in OutboundMessages /\ new # AckMessage(m)
      BY MessagesMade DEF TypeOK, Ids, RequestMessage, AckMessage
    <2>2. UNCHANGED <<toRelay, mailbox>> /\ (outbound' = outbound \/ outbound' = Append(outbound, new))
      BY <1>2 DEF SendRaw, Enqueue, wireVars, relayVars
    <2> HIDE DEF new
    <2>3. CASE outbound' = Append(outbound, new)
      <3>1. \A n \in DOMAIN outbound' : \/ n \in DOMAIN outbound /\ outbound'[n] = outbound[n]
                                        \/ outbound'[n] = new
        BY <2>1, <2>3, AppendElements DEF TypeOK
      <3> QED
        BY <2>1, <2>2, <3>1 DEF Acked
    <2> QED
      BY <2>2, <2>3 DEF Acked
  <1>3. CASE WriteNext \/ WriteSendError
    <2>1. /\ outbound # <<>> /\ outbound' = Tail(outbound) /\ mailbox' = mailbox
          /\ toRelay' \subseteq toRelay \cup {Head(outbound)}
      BY <1>3 DEF WriteNext, WriteSendError, TakeNext, relayVars, wireVars
    <2>2. /\ 1 \in DOMAIN outbound /\ Head(outbound) = outbound[1]
          /\ \A n \in DOMAIN outbound' : n + 1 \in DOMAIN outbound /\ outbound'[n] = outbound[n + 1]
      BY <2>1, TailElements DEF TypeOK
    <2> QED
      BY <2>1, <2>2 DEF Acked
  <1>4. CASE RelayAcked
    <2>1. PICK k \in toRelay : /\ k.type = "ack" /\ toRelay' = toRelay \ {k}
                               /\ mailbox' = mailbox \ {k.msg} /\ outbound' = outbound
      BY <1>4 DEF RelayAcked, streamVars
    <2>2. k = AckMessage(k.msg)
      BY <2>1 DEF TypeOK, OutboundMessages, RequestMessage, AckMessage
    <2> QED
      BY <2>1, <2>2 DEF Acked
  <1>5. CASE RelayAnswer
    BY <1>5 DEF RelayAnswer, RelaySends, streamVars, Acked
  <1>6. CASE PollRead
    BY <1>6 DEF PollRead, ReadResponse, ReadSubscription, ReadInvalid, ReadControl, ReadClose,
                ReadError, ReadEnd, streamVars, wireVars, relayVars, Acked
  <1>7. CASE RelayDeliver \/ RelayNoise \/ RelayClose \/ NetBreak \/ Tick
    BY <1>7 DEF RelayDeliver, RelayNoise, RelayClose, NetBreak, Tick, Unsolicited, RelaySends,
                streamVars, wireVars, relayVars, Acked
  <1>8. CASE WriteReadyError \/ Create \/ TakeEvent \/ CloseOk \/ CloseFailed
             \/ \E f \in BOOLEAN : CloseBegin(f)
    BY <1>8 DEF WriteReadyError, Create, TakeEvent, CloseOk, CloseFailed, CloseBegin,
                wireVars, relayVars, Acked
  <1>9. CASE UNCHANGED vars
    BY <1>9 DEF vars, streamVars, wireVars, relayVars, Acked
  <1> QED
    BY <1>1, <1>2, <1>3, <1>4, <1>5, <1>6, <1>7, <1>8, <1>9
    DEF Silent, PollWrite, Environment

(* Nothing is acknowledged that the handler has not had.                   *)
THEOREM AckedWasDeliveredCorrect == ClientSpec => []AckedWasDelivered
  <1>1. ClientInit => AckedWasDelivered
    BY DEF ClientInit, Init, AckedWasDelivered
  <1>2. StreamInv /\ LoopInv /\ AckedWasDelivered /\ [ClientNext]_clientVars => AckedWasDelivered'
    <2> SUFFICES ASSUME TypeOK, LoopInv, \A m \in Messages : Acked(m) => m \in delivered,
                        [ClientNext]_clientVars, NEW m \in Messages, Acked(m)'
                 PROVE  m \in delivered'
      BY DEF AckedWasDelivered, Acked, StreamInv
    <2>1. CASE Silent /\ UNCHANGED delivered
      BY <2>1, NoNewAcks
    <2>2. CASE HandleSubscription
      <3>1. /\ delivered' = delivered \cup {event.msg} /\ UNCHANGED <<toRelay, mailbox>>
            /\ outbound' = Append(outbound, AckMessage(event.msg))
        BY <2>2 DEF HandleSubscription, Respond, Enqueue, wireVars, relayVars
      <3>2. event.msg \in Messages
        BY <2>2 DEF HandleSubscription, Respond, TypeOK, StreamEvents, NoEvent, InboundError,
               OutboundError, SubscriptionEvent, ConnectionClosed
      <3>3. AckMessage(event.msg) \in OutboundMessages
        BY <3>2, MessagesMade
      <3>4. \A n \in DOMAIN outbound' : \/ n \in DOMAIN outbound /\ outbound'[n] = outbound[n]
                                        \/ outbound'[n] = AckMessage(event.msg)
        BY <3>1, <3>3, AppendElements DEF TypeOK
      <3>5. AckMessage(m) = AckMessage(event.msg) => m = event.msg
        BY DEF AckMessage
      <3> QED
        BY <3>1, <3>4, <3>5 DEF Acked
    <2> QED
      BY <2>1, <2>2, OnlyHandledResponds DEF LoopInv, LoopTypeOK, QueueTyped
  <1> QED
    BY <1>1, <1>2, ClientStates, PTL DEF ClientSpec
-----------------------------------------------------------------------------
(* What callers of an at-most-once call may rely on, from RpcSpec alone.   *)
Mapped == [r \in Requests |-> Known(r)]

LEMMA RpcSteps ==
    ASSUME [Rpc!RpcNext]_(Rpc!rpcVars)
    PROVE  \/ Mapped' = Mapped /\ executed' = executed
           \/ \E r \in Requests, o \in {"pending", "refused"} :
                 /\ Mapped[r] = "idle" /\ executed' = executed
                 /\ Mapped' = [q \in Requests |-> IF q \in {r} THEN o ELSE Mapped[q]]
           \/ \E r \in Requests :
                 /\ Mapped[r] = "pending" /\ Mapped' = Mapped
                 /\ executed' = executed \cup {r}
           \/ \E r \in Requests, o \in Answers \cup {"refused"} :
                 /\ Mapped[r] = "pending" /\ executed' = executed
                 /\ r \in executed <=> o \in Answers
                 /\ Mapped' = [q \in Requests |-> IF q \in {r} THEN o ELSE Mapped[q]]
           \/ \E failed, seen, unbegun \in SUBSET {r \in Requests : Mapped[r] = "pending"} :
                 /\ seen \subseteq failed /\ unbegun \cap (failed \cup executed) = {}
                 /\ Mapped' = [r \in Requests |-> CASE r \in failed  -> "closed"
                                                   [] r \in unbegun -> "refused"
                                                   [] OTHER         -> Mapped[r]]
                 /\ executed' = executed \cup seen
  <1>1. Rpc!Pending = {r \in Requests : Mapped[r] = "pending"}
    BY DEF Rpc!Pending, Mapped
  <1>2. ASSUME NEW S, NEW o, Rpc!Settle(S, o)
        PROVE  Mapped' = [q \in Requests |-> IF q \in S THEN o ELSE Mapped[q]]
    BY <1>2 DEF Rpc!Settle, Mapped
  <1>3. CASE UNCHANGED Rpc!rpcVars
    BY <1>3 DEF Rpc!rpcVars, Mapped
  <1>4. ASSUME NEW r \in Requests, Rpc!Make(r)
        PROVE  \E o \in {"pending", "refused"} :
                 /\ Mapped[r] = "idle" /\ executed' = executed
                 /\ Mapped' = [q \in Requests |-> IF q \in {r} THEN o ELSE Mapped[q]]
    <2>1. Mapped[r] = "idle" /\ executed' = executed
      BY <1>4 DEF Rpc!Make, Mapped
    <2>2. PICK o \in {"pending", "refused"} : Rpc!Settle({r}, o)
      BY <1>4 DEF Rpc!Make
    <2> QED
      BY <1>2, <2>1, <2>2
  <1>5. ASSUME NEW r \in Requests, Rpc!Process(r)
        PROVE  /\ Mapped[r] = "pending" /\ Mapped' = Mapped
               /\ executed' = executed \cup {r}
    BY <1>1, <1>5 DEF Rpc!Process, Mapped
  <1>6. ASSUME NEW r \in Requests, Rpc!Answer(r) \/ Rpc!Refuse(r)
        PROVE  \E o \in Answers \cup {"refused"} :
                 /\ Mapped[r] = "pending" /\ executed' = executed
                 /\ r \in executed <=> o \in Answers
                 /\ Mapped' = [q \in Requests |-> IF q \in {r} THEN o ELSE Mapped[q]]
    <2>1. Mapped[r] = "pending" /\ executed' = executed
      BY <1>1, <1>6 DEF Rpc!Answer, Rpc!Refuse
    <2>2. PICK o \in Answers \cup {"refused"} : Rpc!Settle({r}, o) /\ (r \in executed <=> o \in Answers)
      BY <1>6, StreamAssumption DEF Rpc!Answer, Rpc!Refuse, Rpc!Pending
    <2> QED
      BY <1>2, <2>1, <2>2
  <1>7. CASE Rpc!Close
    BY <1>1, <1>7 DEF Rpc!Close, Mapped
  <1> QED
    BY <1>3, <1>4, <1>5, <1>6, <1>7 DEF Rpc!RpcNext

LEMMA RpcKeepsPromise == Rpc!RpcSpec => []Rpc!Promised
  <1> DEFINE Kept(told, done) ==
        \A r \in Requests : /\ told[r] \in Answers => r \in done
                            /\ told[r] \in {"idle", "refused"} => r \notin done
  <1>1. Rpc!RpcInit => Rpc!Promised
    BY StreamAssumption DEF Rpc!RpcInit, Rpc!Promised
  <1>2. Rpc!Promised <=> Kept(Mapped, executed)
    BY DEF Rpc!Promised, Mapped
  <1>3. Rpc!Promised' <=> Kept(Mapped', executed')
    BY DEF Rpc!Promised, Mapped
  <1>4. ASSUME Kept(Mapped, executed), [Rpc!RpcNext]_(Rpc!rpcVars) PROVE Kept(Mapped', executed')
    BY <1>4, RpcSteps, StreamAssumption
  <1>5. Rpc!Promised /\ [Rpc!RpcNext]_(Rpc!rpcVars) => Rpc!Promised'
    BY <1>2, <1>3, <1>4
  <1> QED
    BY <1>1, <1>5, PTL DEF Rpc!RpcSpec

LEMMA RpcTellsOnce == Rpc!RpcSpec => Rpc!ToldOnce
  <1> DEFINE Told == \A r \in Requests : Mapped[r] \notin {"idle", "pending"} => (Mapped')[r] = Mapped[r]
  <1>1. ASSUME [Rpc!RpcNext]_(Rpc!rpcVars) PROVE Told
    BY <1>1, RpcSteps
  <1>2. [Rpc!RpcNext]_(Rpc!rpcVars) => [Told]_(Rpc!rpcVars)
    BY <1>1
  <1>3. [][Told]_(Rpc!rpcVars) => Rpc!ToldOnce
    BY PTL DEF Rpc!ToldOnce, Mapped
  <1> QED
    BY <1>2, <1>3, PTL DEF Rpc!RpcSpec

(* The client keeps what an at-most-once call promises its callers: a      *)
(* request that was refused (the channel is closed, there is no connection,*)
(* its id is taken) never ran and can be made again, an answer is that of  *)
(* a request the relay processed, and no outcome is taken back             *)
(* (websocket.rs:288-299, connection.rs:130-141, stream.rs:63-244).        *)
THEOREM ClientKeepsPromise == ClientSpec => []Rpc!Promised /\ Rpc!ToldOnce
  BY ImplementsRpcCorrect, RpcKeepsPromise, RpcTellsOnce, PTL DEF ImplementsRpc
-----------------------------------------------------------------------------
(* What is proved of a stream whoever owns it is so of the client: no      *)
(* response future waits that the stream or its owner has forgotten, none  *)
(* is completed with another call's answer, and what it says fits what the *)
(* relay did (stream.rs:63-306).                                           *)
THEOREM ClientKeepsStream ==
    ClientSpec => /\ [](PendingIsInMap /\ WaitingIsOnItsWay /\ IdsInFlight)
                  /\ [](NoForeignAnswer /\ OutcomeFitsRelay)
  BY ClientRunsStream, PendingCorrect, WaitingIsOnItsWayCorrect, InFlightCorrect,
     NoForeignAnswerCorrect, OutcomeFitsRelayCorrect, PTL
=============================================================================
