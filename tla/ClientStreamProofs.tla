-------------------------- MODULE ClientStreamProofs --------------------------
(***************************************************************************)
(* Proofs about ClientStream for every set of requests and messages and    *)
(* every size of the id generator.                                         *)
(***************************************************************************)
EXTENDS ClientStream, TLAPS

(* The one-line operators the actions are written with are always visible. *)
USE DEF NextCounter, Vacant, Enqueue, Without, TakeNext, InMap

(* What the type of a frame or of a message says of its fields.            *)
LEMMA FrameFields ==
    ASSUME NEW f \in Frames
    PROVE  /\ f.type = "response" =>
                /\ f.id \in Ids /\ f.call \in Requests /\ f.answer \in Answers
           /\ f.type = "subscription" => f.msg \in Messages
           /\ f.type = "close" => f.frame \in BOOLEAN
  BY DEF Frames, Response, SubscriptionFrame, CloseFrame, NoiseFrames

LEMMA MessageFields ==
    ASSUME NEW m \in OutboundMessages
    PROVE  /\ m.type = "request" => m.id \in Ids /\ m.call \in Requests
           /\ m.type = "ack" => m.msg \in Messages
           /\ m.type \in {"request", "ack"}
  BY DEF OutboundMessages, RequestMessage, AckMessage

LEMMA FramesMade ==
    /\ \A i \in Ids, r \in Requests, a \in Answers : Response(i, r, a) \in Frames
    /\ \A m \in Messages : SubscriptionFrame(m) \in Frames
    /\ \A f \in BOOLEAN : CloseFrame(f) \in Frames
    /\ NoiseFrames \subseteq Frames
  BY DEF Frames

LEMMA MessagesMade ==
    /\ \A i \in Ids, r \in Requests : RequestMessage(i, r) \in OutboundMessages
    /\ \A m \in Messages : AckMessage(m) \in OutboundMessages
  BY DEF OutboundMessages

LEMMA EventsMade == {NoEvent, InboundError, OutboundError} \subseteq StreamEvents
  BY DEF StreamEvents

LEMMA CounterWraps ==
    ASSUME NEW c \in 0..CounterSize - 1
    PROVE  (c + 1) % CounterSize \in 0..CounterSize - 1
  BY StreamAssumption

(* Sequences: the elements of a tail, of an extension and of a prefix.     *)
LEMMA TailElements ==
    ASSUME NEW S, NEW s \in Seq(S), s # <<>>
    PROVE  /\ Head(s) \in S /\ Tail(s) \in Seq(S)
           /\ 1 \in DOMAIN s /\ Head(s) = s[1]
           /\ \A n \in DOMAIN Tail(s) : n + 1 \in DOMAIN s /\ Tail(s)[n] = s[n + 1]
  OBVIOUS

LEMMA AppendElements ==
    ASSUME NEW S, NEW s \in Seq(S), NEW e \in S
    PROVE  /\ Append(s, e) \in Seq(S)
           /\ \A n \in DOMAIN Append(s, e) :
                \/ n \in DOMAIN s /\ Append(s, e)[n] = s[n]
                \/ n = Len(s) + 1 /\ Append(s, e)[n] = e
  OBVIOUS

LEMMA PrefixElements ==
    ASSUME NEW S, NEW s \in Seq(S), NEW k \in 0..Len(s)
    PROVE  /\ SubSeq(s, 1, k) \in Seq(S)
           /\ \A n \in DOMAIN SubSeq(s, 1, k) :
                n \in DOMAIN s /\ SubSeq(s, 1, k)[n] = s[n]
  OBVIOUS
-----------------------------------------------------------------------------
(* Every state of a run has its types.                                     *)
LEMMA InitType == Init => TypeOK
  <1> SUFFICES ASSUME Init PROVE TypeOK
    OBVIOUS
  <1>1. requests \in [Ids -> Requests \cup {None}]
    BY DEF Init, NoRequests
  <1>2. result \in [Requests -> {"idle", "waiting"} \cup Outcomes]
    BY DEF Init
  <1>3. counter \in 0..CounterSize - 1 /\ unsolicited \in 0..MaxUnsolicited
    BY StreamAssumption DEF Init
  <1>4. outbound \in Seq(OutboundMessages) /\ toClient \in Seq(Frames)
    BY DEF Init
  <1> QED
    BY <1>1, <1>2, <1>3, <1>4, EventsMade DEF Init, TypeOK

LEMMA NextType == TypeOK /\ [Next]_vars => TypeOK'
  <1> SUFFICES ASSUME TypeOK, [Next]_vars PROVE TypeOK'
    OBVIOUS
  <1> USE StreamAssumption DEF TypeOK
  <1>1. CASE Create
    BY <1>1 DEF Create, relayVars
  <1>2. CASE Drop
    <2>1. requests' \in [Ids -> Requests \cup {None}]
      BY <1>2 DEF Drop, NoRequests
    <2>2. result' \in [Requests -> {"idle", "waiting"} \cup Outcomes]
      BY <1>2 DEF Drop, Outcomes, Closed
    <2>3. executed' \subseteq Requests /\ mailbox' \subseteq Messages
      BY <1>2 DEF Drop, RelayDrains
    <2>4. outbound' = <<>> /\ toClient' = <<>> /\ toRelay' = {} /\ counter' = 0
      BY <1>2 DEF Drop
    <2>5. counter' \in 0..CounterSize - 1
      BY <2>4
    <2>6. outbound' \in Seq(OutboundMessages) /\ toClient' \in Seq(Frames)
      BY <2>4
    <2>7. event' \in StreamEvents
      BY <1>2, EventsMade DEF Drop
    <2> QED
      BY <1>2, <2>1, <2>2, <2>3, <2>4, <2>5, <2>6, <2>7 DEF Drop
  <1>3. ASSUME NEW r \in Requests, SendRaw(r) PROVE TypeOK'
    <2>1. <<clock, counter>> \in Ids
      BY DEF Ids
    <2>2. RequestMessage(<<clock, counter>>, r) \in OutboundMessages
      BY <2>1, MessagesMade
    <2>3. (counter + 1) % CounterSize \in 0..CounterSize - 1
      BY CounterWraps
    <2>4. outbound' \in Seq(OutboundMessages)
      <3>1. Append(outbound, RequestMessage(<<clock, counter>>, r)) \in Seq(OutboundMessages)
        BY <2>2, AppendElements
      <3> QED
        BY <1>3, <3>1 DEF SendRaw
    <2>5. requests' \in [Ids -> Requests \cup {None}]
      BY <1>3, <2>1 DEF SendRaw
    <2>6. result' \in [Requests -> {"idle", "waiting"} \cup Outcomes]
      BY <1>3 DEF SendRaw, Outcomes
    <2> QED
      BY <1>3, <2>3, <2>4, <2>5, <2>6 DEF SendRaw, wireVars, relayVars
  <1>4. CASE ReadResponse
    <2> DEFINE frame == Head(toClient)
    <2>1. frame \in Frames /\ toClient' \in Seq(Frames) /\ frame.type = "response"
      BY <1>4, TailElements DEF ReadResponse, Receive
    <2>2. frame.id \in Ids /\ frame.call \in Requests /\ frame.answer \in Answers
      BY <2>1, FrameFields
    <2>3. requests' \in [Ids -> Requests \cup {None}]
      BY <1>4, <2>2 DEF ReadResponse
    <2>4. \A r \in Requests : Outcome(frame, r) \in Outcomes
      BY <2>2 DEF Outcome, Outcomes
    <2>5. result' \in [Requests -> {"idle", "waiting"} \cup Outcomes]
      BY <1>4, <2>2, <2>4 DEF ReadResponse
    <2>6. event' \in StreamEvents
      BY <1>4 DEF ReadResponse, StreamEvents
    <2> QED
      BY <1>4, <2>1, <2>3, <2>5, <2>6 DEF ReadResponse, relayVars
  <1>5. CASE ReadSubscription
    <2>1. Head(toClient) \in Frames /\ toClient' \in Seq(Frames)
          /\ Head(toClient).type = "subscription"
      BY <1>5, TailElements DEF ReadSubscription, Receive
    <2>2. event' \in StreamEvents
      BY <1>5, <2>1, FrameFields DEF ReadSubscription, StreamEvents
    <2> QED
      BY <1>5, <2>1, <2>2 DEF ReadSubscription, relayVars
  <1>6. CASE ReadInvalid
    <2>1. toClient # <<>> /\ toClient' = Tail(toClient)
      BY <1>6 DEF ReadInvalid, Receive
    <2>2. toClient' \in Seq(Frames)
      BY <2>1, TailElements
    <2>3. event' \in StreamEvents
      BY <1>6, EventsMade DEF ReadInvalid
    <2> QED
      BY <1>6, <2>2, <2>3 DEF ReadInvalid, relayVars
  <1>7. CASE ReadControl
    BY <1>7, TailElements DEF ReadControl, Receive, streamVars, relayVars
  <1>8. CASE ReadClose
    <2>1. Head(toClient) \in Frames /\ toClient' \in Seq(Frames)
          /\ Head(toClient).type = "close"
      BY <1>8, TailElements DEF ReadClose, Receive
    <2>2. Head(toClient).frame \in BOOLEAN
      BY <2>1, FrameFields
    <2>3. event' \in StreamEvents
      BY <1>8, <2>2 DEF ReadClose, StreamEvents
    <2> QED
      BY <1>8, <2>1, <2>2, <2>3 DEF ReadClose, relayVars
  <1>9. CASE ReadError
    <2>1. Receive("malformed") => toClient' \in Seq(Frames)
      BY TailElements DEF Receive
    <2>2. toClient' \in Seq(Frames)
      BY <1>9, <2>1 DEF ReadError
    <2>3. event' \in StreamEvents
      BY <1>9, EventsMade DEF ReadError
    <2> QED
      BY <1>9, <2>2, <2>3 DEF ReadError, relayVars
  <1>10. CASE ReadEnd
    BY <1>10 DEF ReadEnd, StreamEvents, wireVars, relayVars
  <1>11. CASE WriteNext
    BY <1>11, TailElements DEF WriteNext, relayVars
  <1>12. CASE WriteSendError
    BY <1>12, TailElements DEF WriteSendError, StreamEvents, wireVars, relayVars
  <1>13. CASE WriteReadyError
    BY <1>13 DEF WriteReadyError, StreamEvents, wireVars, relayVars
  <1>14. CASE Respond
    <2>1. event.msg \in Messages
      BY <1>14 DEF Respond, StreamEvents, NoEvent, InboundError, OutboundError,
                   SubscriptionEvent, ConnectionClosed
    <2>2. outbound' \in Seq(OutboundMessages)
      BY <1>14, <2>1, MessagesMade, AppendElements DEF Respond
    <2> QED
      BY <1>14, <2>2 DEF Respond, StreamEvents, wireVars, relayVars
  <1>15. CASE TakeEvent
    BY <1>15 DEF TakeEvent, StreamEvents, wireVars, relayVars
  <1>16. ASSUME NEW f \in BOOLEAN, CloseBegin(f) PROVE TypeOK'
    BY <1>16 DEF CloseBegin, wireVars, relayVars
  <1>17. CASE CloseOk
    BY <1>17 DEF CloseOk, wireVars, relayVars
  <1>18. CASE CloseFailed
    BY <1>18 DEF CloseFailed, wireVars, relayVars
  <1>19. CASE RelayAnswer
    <2>1. PICK m \in toRelay, a \in Answers :
            /\ m.type = "request"
            /\ RelaySends(Response(m.id, m.call, a))
            /\ toRelay' = toRelay \ {m}
            /\ executed' = executed \cup {m.call}
            /\ UNCHANGED <<net, mailbox, unsolicited>>
      BY <1>19 DEF RelayAnswer
    <2>2. m.id \in Ids /\ m.call \in Requests
      BY <2>1, MessageFields
    <2>3. toClient' \in Seq(Frames)
      BY <2>1, <2>2, FramesMade, AppendElements DEF RelaySends
    <2> QED
      BY <2>1, <2>2, <2>3 DEF RelaySends, streamVars
  <1>20. ASSUME NEW f \in Frames, Unsolicited(f) PROVE
            /\ toClient' \in Seq(Frames)
            /\ unsolicited' \in 0..MaxUnsolicited
    BY <1>20, AppendElements DEF Unsolicited, RelaySends
  <1>21. CASE RelayDeliver
    BY <1>20, <1>21, FramesMade DEF RelayDeliver, Unsolicited, RelaySends, streamVars
  <1>22. CASE RelayAcked
    BY <1>22 DEF RelayAcked, streamVars
  <1>23. CASE RelayNoise
    BY <1>20, <1>23, FramesMade DEF RelayNoise, Unsolicited, RelaySends, streamVars
  <1>24. CASE RelayClose
    BY <1>20, <1>24, FramesMade DEF RelayClose, Unsolicited, RelaySends, streamVars
  <1>25. CASE NetBreak
    BY <1>25, PrefixElements DEF NetBreak, streamVars, relayVars
  <1>26. CASE Tick
    BY <1>26 DEF Tick, streamVars, wireVars, relayVars
  <1>27. CASE UNCHANGED vars
    BY <1>27 DEF vars, streamVars, wireVars, relayVars
  <1> QED
    BY <1>1, <1>2, <1>3, <1>4, <1>5, <1>6, <1>7, <1>8, <1>9, <1>10, <1>11, <1>12,
       <1>13, <1>14, <1>15, <1>16, <1>17, <1>18, <1>19, <1>21, <1>22, <1>23, <1>24,
       <1>25, <1>26, <1>27
    DEF Next, PollRead, PollWrite, Environment

(* Type correctness of the stream, whoever drives it.                      *)
THEOREM TypeCorrect == Spec => []TypeOK
  BY InitType, NextType, PTL DEF Spec
-----------------------------------------------------------------------------
(* The actions that neither complete nor register a request.               *)
Settling == Drop \/ ReadResponse \/ \E r \in Requests : SendRaw(r)

LEMMA OtherSteps ==
    ASSUME [Next]_vars, ~Settling
    PROVE  /\ requests' = requests /\ result' = result
           /\ socket' = "none" => socket = "none"
  <1> USE DEF Settling
  <1>1. CASE PollRead
    BY <1>1 DEF PollRead, ReadSubscription, ReadInvalid, ReadControl, ReadClose,
                ReadError, ReadEnd, streamVars
  <1>2. CASE PollWrite
    BY <1>2 DEF PollWrite, WriteNext, WriteSendError, WriteReadyError
  <1>3. CASE Environment
    BY <1>3 DEF Environment, RelayAnswer, RelayDeliver, RelayAcked, RelayNoise,
                RelayClose, NetBreak, Tick, Unsolicited, RelaySends, streamVars
  <1>4. CASE Create \/ Respond \/ TakeEvent \/ CloseOk \/ CloseFailed
             \/ \E f \in BOOLEAN : CloseBegin(f)
    BY <1>4 DEF Create, Respond, TakeEvent, CloseOk, CloseFailed, CloseBegin
  <1>5. CASE UNCHANGED vars
    BY <1>5 DEF vars, streamVars
  <1> QED
    BY <1>1, <1>2, <1>3, <1>4, <1>5 DEF Next

LEMMA WaitingIsNoOutcome == "waiting" \notin Outcomes /\ Answers \subseteq Outcomes
  BY StreamAssumption DEF Outcomes, Closed

LEMMA InitPending == Init => PendingIsInMap
  BY StreamAssumption DEF Init, PendingIsInMap, NoRequests

LEMMA NextPending == TypeOK /\ PendingIsInMap /\ [Next]_vars => PendingIsInMap'
  <1> SUFFICES ASSUME TypeOK, PendingIsInMap, [Next]_vars PROVE PendingIsInMap'
    OBVIOUS
  <1>1. CASE Drop
    <2>1. requests' = NoRequests /\ \A i \in Ids : requests'[i] = None
      BY <1>1 DEF Drop, NoRequests
    <2>2. \A r \in Requests : result'[r] # "waiting"
      BY <1>1 DEF Drop, PendingIsInMap
    <2> QED
      BY <2>1, <2>2, StreamAssumption DEF PendingIsInMap
  <1>2. ASSUME NEW r \in Requests, SendRaw(r) PROVE PendingIsInMap'
    <2> DEFINE id == <<clock, counter>>
    <2>1. id \in Ids
      BY DEF TypeOK, Ids
    <2>2. socket' # "none"
      BY <1>2 DEF SendRaw
    <2>3. CASE requests[id] # None
      <3>1. requests' = requests /\ result' = [result EXCEPT ![r] = "duplicateId"]
        BY <1>2, <2>3 DEF SendRaw
      <3>2. result[r] = "idle"
        BY <1>2 DEF SendRaw
      <3> QED
        BY <2>2, <3>1, <3>2 DEF PendingIsInMap, TypeOK
    <2>4. CASE requests[id] = None
      <3>1. /\ requests' = [requests EXCEPT ![id] = r]
            /\ result' = [result EXCEPT ![r] = "waiting"]
        BY <1>2, <2>4 DEF SendRaw
      <3>2. \A i \in Ids : requests[i] # r
        BY <1>2 DEF SendRaw, PendingIsInMap
      <3>3. /\ requests'[id] = r /\ \A i \in Ids : i # id => requests'[i] = requests[i]
            /\ result'[r] = "waiting" /\ \A q \in Requests : q # r => result'[q] = result[q]
        BY <2>1, <3>1 DEF TypeOK
      <3> HIDE DEF id
      <3> QED
        BY <2>1, <2>2, <2>4, <3>2, <3>3, StreamAssumption DEF PendingIsInMap
    <2> QED
      BY <2>3, <2>4
  <1>3. CASE ReadResponse
    <2> DEFINE frame == Head(toClient)
               q == requests[frame.id]
    <2>1. toClient # <<>> /\ frame.type = "response"
      BY <1>3 DEF ReadResponse, Receive
    <2>2. frame.id \in Ids /\ frame.answer \in Answers
      BY <2>1, TailElements, FrameFields DEF TypeOK
    <2>3. socket # "none" /\ socket' = socket
      BY <1>3 DEF ReadResponse, Receive, CanRead, CanPoll
    <2>4. CASE q = None
      BY <1>3, <2>3, <2>4 DEF ReadResponse, PendingIsInMap
    <2>5. CASE q # None
      <3>1. /\ requests' = [requests EXCEPT ![frame.id] = None]
            /\ result' = [result EXCEPT ![q] = Outcome(frame, q)]
        BY <1>3, <2>5 DEF ReadResponse
      <3>2. q \in Requests /\ Outcome(frame, q) # "waiting"
        BY <2>2, <2>5, WaitingIsNoOutcome DEF TypeOK, Outcome
      <3>3. /\ requests'[frame.id] = None
            /\ \A i \in Ids : i # frame.id => requests'[i] = requests[i]
            /\ result'[q] # "waiting" /\ \A r \in Requests : r # q => result'[r] = result[r]
        BY <2>2, <3>1, <3>2 DEF TypeOK
      <3>4. \A i \in Ids : i # frame.id => requests[i] # q
        BY <2>2, <2>5 DEF PendingIsInMap
      <3> QED
        BY <2>2, <2>3, <3>2, <3>3, <3>4, StreamAssumption DEF PendingIsInMap
    <2> QED
      BY <2>4, <2>5
  <1>4. CASE ~Settling
    BY <1>4, OtherSteps DEF PendingIsInMap
  <1> QED
    BY <1>1, <1>2, <1>3, <1>4 DEF Settling

(* A response future is unresolved exactly while the map holds its sender. *)
THEOREM PendingCorrect == Spec => []PendingIsInMap
  BY InitType, NextType, InitPending, NextPending, PTL DEF Spec
-----------------------------------------------------------------------------
(* What the steps do to the two queues of the wire.                        *)
Grows(s, t, e) == t = Append(s, e)
Drops(s, t)    == s # <<>> /\ t = Tail(s)
Cut(s, t)      == \E k \in 0..Len(s) : t = SubSeq(s, 1, k)

(* Fewer messages in flight, or more that carry no id.                     *)
WireShrinks ==
    /\ UNCHANGED requests
    /\ toRelay' \subseteq toRelay
    /\ \/ UNCHANGED outbound
       \/ Drops(outbound, outbound')
       \/ \E m \in Messages : Grows(outbound, outbound', AckMessage(m))
    /\ \/ UNCHANGED toClient
       \/ Drops(toClient, toClient')
       \/ Cut(toClient, toClient')
       \/ \E f \in Frames : ~IsResponse(f) /\ Grows(toClient, toClient', f)

(* Then what carries an id was there before, moved up by at most one.      *)
OldMessages(shift) ==
    \A n \in DOMAIN outbound' : IsRequest(outbound'[n]) =>
        n \in Nat /\ n + shift \in DOMAIN outbound /\ outbound'[n] = outbound[n + shift]

OldFrames(move) ==
    \A n \in DOMAIN toClient' : IsResponse(toClient'[n]) =>
        n \in Nat /\ n + move \in DOMAIN toClient /\ toClient'[n] = toClient[n + move]

LEMMA OldElements ==
    ASSUME TypeOK, WireShrinks
    PROVE  \E shift, move \in 0..1 : OldMessages(shift) /\ OldFrames(move)
  <1> DEFINE shift == IF Drops(outbound, outbound') THEN 1 ELSE 0
             move  == IF Drops(toClient, toClient') THEN 1 ELSE 0
  <1> USE DEF WireShrinks, OldMessages, OldFrames
  <1>1. OldMessages(shift)
    <2>1. CASE UNCHANGED outbound /\ ~Drops(outbound, outbound')
      BY <2>1 DEF TypeOK
    <2>2. CASE Drops(outbound, outbound')
      BY <2>2, TailElements DEF Drops, TypeOK
    <2>3. ASSUME NEW m \in Messages, Grows(outbound, outbound', AckMessage(m)),
                 ~Drops(outbound, outbound')
          PROVE  OldMessages(shift)
      BY <2>3, MessagesMade, AppendElements DEF Grows, TypeOK, IsRequest, AckMessage
    <2> QED
      BY <2>1, <2>2, <2>3
  <1>2. OldFrames(move)
    <2>1. CASE UNCHANGED toClient /\ ~Drops(toClient, toClient')
      BY <2>1 DEF TypeOK
    <2>2. CASE Drops(toClient, toClient')
      BY <2>2, TailElements DEF Drops, TypeOK
    <2>3. CASE Cut(toClient, toClient') /\ ~Drops(toClient, toClient')
      BY <2>3, PrefixElements DEF Cut, TypeOK
    <2>4. ASSUME NEW f \in Frames, ~IsResponse(f), Grows(toClient, toClient', f),
                 ~Drops(toClient, toClient')
          PROVE  OldFrames(move)
      BY <2>4, AppendElements DEF Grows, TypeOK
    <2> QED
      BY <2>1, <2>2, <2>3, <2>4
  <1> HIDE DEF OldMessages, OldFrames
  <1> QED
    BY <1>1, <1>2

LEMMA FewerInFlight ==
    ASSUME TypeOK, IdsInFlight, WireShrinks
    PROVE  IdsInFlight'
  <1>1. PICK shift, move \in 0..1 : OldMessages(shift) /\ OldFrames(move)
    BY OldElements
  <1>2. UNCHANGED requests /\ toRelay' \subseteq toRelay
    BY DEF WireShrinks
  <1>3. InFlightIsWaiting'
    BY <1>1, <1>2 DEF IdsInFlight, InFlightIsWaiting, OldMessages, OldFrames
  <1>4. InFlightOnce'
    BY <1>1, <1>2 DEF IdsInFlight, InFlightOnce, OldMessages, OldFrames
  <1> QED
    BY <1>3, <1>4 DEF IdsInFlight

(* The steps by which an id gets on its way, moves on or arrives.          *)
LEMMA InFlightSend ==
    ASSUME TypeOK, IdsInFlight, NEW r \in Requests, SendRaw(r)
    PROVE  IdsInFlight'
  <1> DEFINE id == <<clock, counter>>
             new == RequestMessage(id, r)
  <1>1. id \in Ids
    BY DEF TypeOK, Ids
  <1>2. new \in OutboundMessages /\ new.id = id /\ new.call = r /\ IsRequest(new)
    BY <1>1, MessagesMade DEF RequestMessage, IsRequest
  <1>3. UNCHANGED <<toClient, toRelay>>
    BY DEF SendRaw, wireVars
  <1>4. CASE requests[id] # None
    BY <1>3, <1>4, FewerInFlight DEF SendRaw, WireShrinks
  <1>5. CASE requests[id] = None
    <2>1. requests' = [requests EXCEPT ![id] = r] /\ outbound' = Append(outbound, new)
      BY <1>5 DEF SendRaw
    <2>2. /\ requests'[id] = r
          /\ \A i \in Ids : i # id => requests'[i] = requests[i]
      BY <1>1, <2>1 DEF TypeOK
    <2> HIDE DEF id, new
    <2>3. \A n \in DOMAIN outbound' :
            \/ n \in DOMAIN outbound /\ outbound'[n] = outbound[n]
            \/ n = Len(outbound) + 1 /\ outbound'[n] = new
      BY <1>2, <2>1, AppendElements DEF TypeOK
    <2>4. /\ \A n \in DOMAIN outbound : IsRequest(outbound[n]) =>
                outbound[n].id \in Ids /\ outbound[n].id # id
          /\ \A m \in toRelay : IsRequest(m) => m.id \in Ids /\ m.id # id
          /\ \A n \in DOMAIN toClient : IsResponse(toClient[n]) =>
                toClient[n].id \in Ids /\ toClient[n].id # id
      <3>1. \A n \in DOMAIN outbound : outbound[n] \in OutboundMessages
        BY DEF TypeOK
      <3>2. \A n \in DOMAIN toClient : toClient[n] \in Frames
        BY DEF TypeOK
      <3> QED
        BY <1>5, <3>1, <3>2, MessageFields, FrameFields, StreamAssumption
           DEF TypeOK, IdsInFlight, InFlightIsWaiting, IsRequest, IsResponse
    <2>5. InFlightIsWaiting'
      BY <1>2, <1>3, <2>2, <2>3, <2>4 DEF IdsInFlight, InFlightIsWaiting
    <2>6. InFlightOnce'
      BY <1>2, <1>3, <2>3, <2>4 DEF IdsInFlight, InFlightOnce
    <2> QED
      BY <2>5, <2>6 DEF IdsInFlight
  <1> QED
    BY <1>4, <1>5

LEMMA InFlightRead ==
    ASSUME TypeOK, IdsInFlight, ReadResponse
    PROVE  /\ IdsInFlight'
           /\ requests[Head(toClient).id] = Head(toClient).call
           /\ Head(toClient).answer \in Answers /\ Head(toClient).call \in Requests
  <1> DEFINE frame == Head(toClient)
  <1>1. /\ toClient # <<>> /\ IsResponse(frame) /\ toClient' = Tail(toClient)
        /\ UNCHANGED <<outbound, toRelay>>
    BY DEF ReadResponse, Receive, IsResponse
  <1>2. frame = toClient[1] /\ 1 \in DOMAIN toClient /\ frame \in Frames
    BY <1>1, TailElements DEF TypeOK
  <1>3. frame.id \in Ids /\ frame.call \in Requests /\ frame.answer \in Answers
    BY <1>1, <1>2, FrameFields DEF IsResponse
  <1>4. requests[frame.id] = frame.call
    BY <1>1, <1>2 DEF IdsInFlight, InFlightIsWaiting
  <1>5. requests' = [requests EXCEPT ![frame.id] = None]
    BY <1>3, <1>4, StreamAssumption DEF ReadResponse
  <1>6. \A i \in Ids : i # frame.id => requests'[i] = requests[i]
    BY <1>5 DEF TypeOK
  <1> HIDE DEF frame
  <1>7. \A n \in DOMAIN toClient' :
            n \in Nat /\ n # 0 /\ n + 1 \in DOMAIN toClient /\ toClient'[n] = toClient[n + 1]
    BY <1>1, TailElements DEF TypeOK
  <1>8. /\ \A n \in DOMAIN outbound : IsRequest(outbound[n]) =>
                outbound[n].id \in Ids /\ outbound[n].id # frame.id
        /\ \A m \in toRelay : IsRequest(m) => m.id \in Ids /\ m.id # frame.id
        /\ \A n \in DOMAIN toClient : IsResponse(toClient[n]) /\ n # 1 =>
                toClient[n].id \in Ids /\ toClient[n].id # frame.id
    <2>1. \A n \in DOMAIN outbound : outbound[n] \in OutboundMessages
      BY DEF TypeOK
    <2>2. \A n \in DOMAIN toClient : toClient[n] \in Frames
      BY DEF TypeOK
    <2>3. \A m \in toRelay : m \in OutboundMessages
      BY DEF TypeOK
    <2>4. /\ \A n \in DOMAIN outbound : IsRequest(outbound[n]) => outbound[n].id \in Ids
          /\ \A m \in toRelay : IsRequest(m) => m.id \in Ids
          /\ \A n \in DOMAIN toClient : IsResponse(toClient[n]) => toClient[n].id \in Ids
      BY <2>1, <2>2, <2>3, MessageFields, FrameFields DEF IsRequest, IsResponse
    <2> QED
      BY <1>1, <1>2, <2>4 DEF IdsInFlight, InFlightOnce
  <1>9. InFlightIsWaiting'
    BY <1>1, <1>6, <1>7, <1>8 DEF IdsInFlight, InFlightIsWaiting
  <1>10. InFlightOnce'
    BY <1>1, <1>7 DEF IdsInFlight, InFlightOnce
  <1> QED
    BY <1>3, <1>4, <1>9, <1>10 DEF IdsInFlight, frame

LEMMA InFlightWrite ==
    ASSUME TypeOK, IdsInFlight, WriteNext
    PROVE  IdsInFlight'
  <1>1. /\ Drops(outbound, outbound') /\ UNCHANGED <<requests, toClient>>
        /\ toRelay' \in {toRelay, toRelay \cup {Head(outbound)}}
    BY DEF WriteNext, Drops
  <1>2. CASE toRelay' = toRelay
    BY <1>1, <1>2, FewerInFlight DEF WireShrinks
  <1>3. CASE toRelay' = toRelay \cup {Head(outbound)}
    <2>1. Head(outbound) = outbound[1] /\ 1 \in DOMAIN outbound
      BY <1>1, TailElements DEF Drops, TypeOK
    <2>2. \A n \in DOMAIN outbound' :
            n \in Nat /\ n # 0 /\ n + 1 \in DOMAIN outbound /\ outbound'[n] = outbound[n + 1]
      BY <1>1, TailElements DEF Drops, TypeOK
    <2>3. InFlightIsWaiting'
      BY <1>1, <1>3, <2>1, <2>2 DEF IdsInFlight, InFlightIsWaiting
    <2>4. InFlightOnce'
      BY <1>1, <1>3, <2>1, <2>2 DEF IdsInFlight, InFlightOnce
    <2> QED
      BY <2>3, <2>4 DEF IdsInFlight
  <1> QED
    BY <1>1, <1>2, <1>3

LEMMA InFlightAnswer ==
    ASSUME TypeOK, IdsInFlight, RelayAnswer
    PROVE  IdsInFlight'
  <1>1. PICK m \in toRelay, a \in Answers :
          /\ IsRequest(m)
          /\ toClient' = Append(toClient, Response(m.id, m.call, a))
          /\ toRelay' = toRelay \ {m}
          /\ UNCHANGED <<requests, outbound>>
    BY DEF RelayAnswer, RelaySends, IsRequest, streamVars
  <1> DEFINE new == Response(m.id, m.call, a)
  <1>2. m.id \in Ids /\ m.call \in Requests
    BY <1>1, MessageFields DEF TypeOK, IsRequest
  <1>3. new \in Frames /\ IsResponse(new) /\ new.id = m.id /\ new.call = m.call
    BY <1>2, FramesMade DEF Response, IsResponse
  <1> HIDE DEF new
  <1>4. \A n \in DOMAIN toClient' :
          \/ n \in DOMAIN toClient /\ toClient'[n] = toClient[n]
          \/ n = Len(toClient) + 1 /\ toClient'[n] = new
    BY <1>1, <1>3, AppendElements DEF TypeOK, new
  <1>5. InFlightIsWaiting'
    BY <1>1, <1>3, <1>4 DEF IdsInFlight, InFlightIsWaiting
  <1>6. InFlightOnce'
    BY <1>1, <1>3, <1>4 DEF IdsInFlight, InFlightOnce
  <1> QED
    BY <1>5, <1>6 DEF IdsInFlight

LEMMA OtherWire ==
    ASSUME TypeOK, [Next]_vars, ~Settling, ~WriteNext, ~RelayAnswer
    PROVE  WireShrinks
  <1> USE DEF WireShrinks
  <1>1. CASE ReadSubscription \/ ReadInvalid \/ ReadControl \/ ReadClose \/ ReadError
    <2>1. UNCHANGED <<requests, outbound, toRelay>>
      BY <1>1 DEF ReadSubscription, ReadInvalid, ReadControl, ReadClose, ReadError, streamVars
    <2>2. Drops(toClient, toClient') \/ UNCHANGED toClient
      BY <1>1 DEF ReadSubscription, ReadInvalid, ReadControl, ReadClose, ReadError,
                  Receive, Drops
    <2> QED
      BY <2>1, <2>2
  <1>2. CASE ReadEnd \/ WriteReadyError \/ Create \/ TakeEvent \/ CloseOk \/ CloseFailed
             \/ (\E f \in BOOLEAN : CloseBegin(f)) \/ Tick \/ UNCHANGED vars
    <2>1. UNCHANGED <<requests, outbound, toRelay, toClient>>
      BY <1>2 DEF ReadEnd, WriteReadyError, Create, TakeEvent, CloseOk, CloseFailed,
                  CloseBegin, Tick, vars, streamVars, wireVars
    <2> QED
      BY <2>1
  <1>3. CASE WriteSendError
    BY <1>3 DEF WriteSendError, Drops, wireVars
  <1>4. CASE Respond
    <2>1. event.msg \in Messages
      BY <1>4 DEF Respond, TypeOK, StreamEvents, NoEvent, InboundError, OutboundError,
                  SubscriptionEvent, ConnectionClosed
    <2> QED
      BY <1>4, <2>1 DEF Respond, Grows, wireVars
  <1>5. CASE RelayDeliver \/ RelayNoise \/ RelayClose
    <2>1. UNCHANGED <<requests, outbound, toRelay>>
      BY <1>5 DEF RelayDeliver, RelayNoise, RelayClose, Unsolicited, RelaySends, streamVars
    <2>2. \A m \in Messages : SubscriptionFrame(m) \in Frames /\ ~IsResponse(SubscriptionFrame(m))
      BY FramesMade DEF SubscriptionFrame, IsResponse
    <2>3. \A f \in BOOLEAN : CloseFrame(f) \in Frames /\ ~IsResponse(CloseFrame(f))
      BY FramesMade DEF CloseFrame, IsResponse
    <2>4. \A f \in NoiseFrames : f \in Frames /\ ~IsResponse(f)
      BY FramesMade DEF NoiseFrames, IsResponse
    <2>5. mailbox \subseteq Messages
      BY DEF TypeOK
    <2>6. \E f \in Frames : ~IsResponse(f) /\ Grows(toClient, toClient', f)
      BY <1>5, <2>2, <2>3, <2>4, <2>5 DEF RelayDeliver, RelayNoise, RelayClose,
                                 Unsolicited, RelaySends, Grows
    <2> QED
      BY <2>1, <2>6
  <1>6. CASE RelayAcked
    <2>1. UNCHANGED <<requests, outbound, toClient>> /\ toRelay' \subseteq toRelay
      BY <1>6 DEF RelayAcked, streamVars
    <2> QED
      BY <2>1
  <1>7. CASE NetBreak
    <2>1. UNCHANGED <<requests, outbound, toRelay>> /\ Cut(toClient, toClient')
      BY <1>7 DEF NetBreak, streamVars, Cut
    <2> QED
      BY <2>1
  <1> QED
    BY <1>1, <1>2, <1>3, <1>4, <1>5, <1>6, <1>7
    DEF Next, PollRead, PollWrite, Environment, Settling

LEMMA OthersExecuteNothing ==
    ASSUME [Next]_vars, ~Drop, ~RelayAnswer
    PROVE  UNCHANGED executed
  <1>1. CASE PollRead
    BY <1>1 DEF PollRead, ReadResponse, ReadSubscription, ReadInvalid, ReadControl,
                ReadClose, ReadError, ReadEnd, relayVars
  <1>2. CASE PollWrite
    BY <1>2 DEF PollWrite, WriteNext, WriteSendError, WriteReadyError, relayVars
  <1>3. CASE Environment
    BY <1>3 DEF Environment, RelayDeliver, RelayAcked, RelayNoise, RelayClose, NetBreak,
                Tick, Unsolicited, relayVars
  <1>4. CASE Create \/ Respond \/ TakeEvent \/ CloseOk \/ CloseFailed
             \/ (\E f \in BOOLEAN : CloseBegin(f)) \/ (\E r \in Requests : SendRaw(r))
    BY <1>4 DEF Create, Respond, TakeEvent, CloseOk, CloseFailed, CloseBegin, SendRaw, relayVars
  <1>5. CASE UNCHANGED vars
    BY <1>5 DEF vars, relayVars
  <1> QED
    BY <1>1, <1>2, <1>3, <1>4, <1>5 DEF Next

LEMMA InitInFlight == Init => IdsInFlight
  BY DEF Init, IdsInFlight, InFlightIsWaiting, InFlightOnce

LEMMA NextInFlight == TypeOK /\ IdsInFlight /\ [Next]_vars => IdsInFlight'
  <1> SUFFICES ASSUME TypeOK, IdsInFlight, [Next]_vars PROVE IdsInFlight'
    OBVIOUS
  <1>1. CASE Drop
    <2>1. outbound' = <<>> /\ toClient' = <<>> /\ toRelay' = {}
      BY <1>1 DEF Drop
    <2> QED
      BY <2>1 DEF IdsInFlight, InFlightIsWaiting, InFlightOnce
  <1> QED
    BY <1>1, InFlightSend, InFlightRead, InFlightWrite, InFlightAnswer, OtherWire, FewerInFlight
    DEF Settling

(* Every id in flight belongs to one waiting request and is there once.    *)
THEOREM InFlightCorrect == Spec => []IdsInFlight
  BY InitType, NextType, InitInFlight, NextInFlight, PTL DEF Spec
-----------------------------------------------------------------------------
LEMMA InitNoForeign == Init => NoForeignAnswer
  BY DEF Init, NoForeignAnswer

LEMMA NextNoForeign ==
    TypeOK /\ IdsInFlight /\ NoForeignAnswer /\ [Next]_vars => NoForeignAnswer'
  <1> SUFFICES ASSUME TypeOK, IdsInFlight, NoForeignAnswer, [Next]_vars
               PROVE  NoForeignAnswer'
    OBVIOUS
  <1>1. CASE Drop
    BY <1>1 DEF Drop, NoForeignAnswer
  <1>2. ASSUME NEW r \in Requests, SendRaw(r) PROVE NoForeignAnswer'
    BY <1>2 DEF SendRaw, NoForeignAnswer, TypeOK
  <1>3. CASE ReadResponse
    <2> DEFINE frame == Head(toClient)
    <2>1. requests[frame.id] = frame.call /\ frame.answer \in Answers /\ frame.call \in Requests
      BY <1>3, InFlightRead
    <2>2. result' = [result EXCEPT ![frame.call] = frame.answer]
      BY <1>3, <2>1, StreamAssumption DEF ReadResponse, Outcome
    <2>3. frame.answer # "foreign"
      BY <2>1, StreamAssumption
    <2> QED
      BY <2>1, <2>2, <2>3 DEF NoForeignAnswer, TypeOK
  <1>4. CASE ~Settling
    BY <1>4, OtherSteps DEF NoForeignAnswer
  <1> QED
    BY <1>1, <1>2, <1>3, <1>4 DEF Settling

(* No answer completes another request than the one it answers, however    *)
(* often ids repeat: the id generator is not trusted to be unique.         *)
THEOREM NoForeignAnswerCorrect == Spec => []NoForeignAnswer
  <1>1. Init => TypeOK /\ IdsInFlight /\ NoForeignAnswer
    BY InitType, InitInFlight, InitNoForeign
  <1>2. TypeOK /\ IdsInFlight /\ NoForeignAnswer /\ [Next]_vars
        => (TypeOK /\ IdsInFlight /\ NoForeignAnswer)'
    BY NextType, NextInFlight, NextNoForeign
  <1> QED
    BY <1>1, <1>2, PTL DEF Spec
-----------------------------------------------------------------------------
(* The strengthening of OutcomeFitsRelay: how far a request has got on the *)
(* wire and what its caller was told agree on whether the relay has        *)
(* processed it.                                                           *)
SentOnce ==
    /\ \A n \in DOMAIN outbound : IsRequest(outbound[n]) => outbound[n].call \notin executed
    /\ \A m \in toRelay : IsRequest(m) => m.call \notin executed
    /\ \A n \in DOMAIN toClient : IsResponse(toClient[n]) => toClient[n].call \in executed
    /\ \A r \in Requests : result[r] \in Answers => r \in executed
    /\ \A r \in Requests : result[r] \in {"idle", "duplicateId"} => r \notin executed

StreamInv == TypeOK /\ PendingIsInMap /\ IdsInFlight /\ SentOnce

LEMMA NotRefusals == {"waiting", "idle", "duplicateId"} \cap (Answers \cup Closed) = {}
                     /\ {"duplicateId", "foreign"} \cap Answers = {}
                     /\ Closed \cap Answers = {}
  BY StreamAssumption DEF Closed

(* A request at the relay is one whose caller is waiting.                  *)
LEMMA AtRelayIsWaiting ==
    ASSUME StreamInv, NEW m \in toRelay, IsRequest(m)
    PROVE  /\ m.id \in Ids /\ m.call \in Requests /\ requests[m.id] = m.call
           /\ InMap(m.call) /\ result[m.call] = "waiting"
  BY MessageFields DEF StreamInv, TypeOK, IsRequest, IdsInFlight, InFlightIsWaiting, PendingIsInMap

LEMMA SentOnceSend ==
    ASSUME StreamInv, NEW r \in Requests, SendRaw(r)
    PROVE  SentOnce'
  <1>1. UNCHANGED <<executed, toRelay, toClient>> /\ result[r] = "idle"
    BY DEF SendRaw, wireVars, relayVars
  <1>2. r \notin executed
    BY <1>1 DEF StreamInv, SentOnce
  <1>3. \A q \in Requests : q # r => result'[q] = result[q]
    BY DEF SendRaw, StreamInv, TypeOK
  <1>4. result'[r] \in {"duplicateId", "waiting"}
    BY DEF SendRaw, StreamInv, TypeOK
  <1>5. \A n \in DOMAIN outbound' :
          outbound'[n].call = r \/ (n \in DOMAIN outbound /\ outbound'[n] = outbound[n])
    <2> DEFINE new == RequestMessage(<<clock, counter>>, r)
    <2>1. new \in OutboundMessages /\ new.call = r
      BY MessagesMade DEF StreamInv, TypeOK, Ids, RequestMessage
    <2>2. CASE outbound' = Append(outbound, new)
      <3> HIDE DEF new
      <3> QED
        BY <2>1, <2>2, AppendElements DEF StreamInv, TypeOK
    <2>3. CASE UNCHANGED outbound
      BY <2>3
    <2> QED
      BY <2>2, <2>3 DEF SendRaw
  <1> QED
    BY <1>1, <1>2, <1>3, <1>4, <1>5, NotRefusals DEF StreamInv, SentOnce

LEMMA SentOnceRead ==
    ASSUME StreamInv, ReadResponse
    PROVE  SentOnce'
  <1> DEFINE frame == Head(toClient)
  <1>1. /\ toClient # <<>> /\ IsResponse(frame) /\ toClient' = Tail(toClient)
        /\ UNCHANGED <<outbound, toRelay, executed>>
    BY DEF ReadResponse, Receive, IsResponse, relayVars
  <1>2. requests[frame.id] = frame.call /\ frame.answer \in Answers /\ frame.call \in Requests
    BY InFlightRead DEF StreamInv
  <1>3. result' = [result EXCEPT ![frame.call] = frame.answer]
    BY <1>2, StreamAssumption DEF ReadResponse, Outcome
  <1>4. frame.call \in executed
    BY <1>1, TailElements DEF StreamInv, TypeOK, SentOnce
  <1>5. \A n \in DOMAIN toClient' : n + 1 \in DOMAIN toClient /\ toClient'[n] = toClient[n + 1]
    BY <1>1, TailElements DEF StreamInv, TypeOK
  <1>6. result'[frame.call] = frame.answer
        /\ \A r \in Requests : r # frame.call => result'[r] = result[r]
    BY <1>2, <1>3 DEF StreamInv, TypeOK
  <1> HIDE DEF frame
  <1> QED
    BY <1>1, <1>2, <1>4, <1>5, <1>6, NotRefusals DEF StreamInv, SentOnce

LEMMA SentOnceAnswer ==
    ASSUME StreamInv, RelayAnswer
    PROVE  SentOnce'
  <1>1. PICK m \in toRelay, a \in Answers :
          /\ IsRequest(m)
          /\ toClient' = Append(toClient, Response(m.id, m.call, a))
          /\ toRelay' = toRelay \ {m}
          /\ executed' = executed \cup {m.call}
          /\ UNCHANGED <<requests, outbound, result>>
    BY DEF RelayAnswer, RelaySends, IsRequest, streamVars
  <1>2. /\ m.id \in Ids /\ m.call \in Requests /\ requests[m.id] = m.call
        /\ result[m.call] = "waiting"
    BY <1>1, AtRelayIsWaiting
  <1> DEFINE new == Response(m.id, m.call, a)
  <1>3. new \in Frames /\ new.call = m.call
    BY <1>2, FramesMade DEF Response
  <1> HIDE DEF new
  <1>4. \A n \in DOMAIN toClient' :
          toClient'[n].call = m.call \/ (n \in DOMAIN toClient /\ toClient'[n] = toClient[n])
    BY <1>1, <1>3, AppendElements DEF StreamInv, TypeOK, new
  <1>5. \A k \in toRelay : IsRequest(k) /\ k # m => k.call # m.call
    <2> SUFFICES ASSUME NEW k \in toRelay, IsRequest(k), k.call = m.call
                 PROVE  k = m
      OBVIOUS
    <2>1. k.id \in Ids /\ requests[k.id] = m.call
      BY AtRelayIsWaiting
    <2>2. requests[m.id] # None
      BY <1>2, StreamAssumption
    <2>3. k.id = m.id
      BY <1>2, <2>1, <2>2 DEF StreamInv, PendingIsInMap
    <2> QED
      BY <1>1, <2>3 DEF StreamInv, IdsInFlight, InFlightOnce
  <1>6. \A n \in DOMAIN outbound : IsRequest(outbound[n]) => outbound[n].call # m.call
    <2> SUFFICES ASSUME NEW n \in DOMAIN outbound, IsRequest(outbound[n]),
                        outbound[n].call = m.call
                 PROVE  FALSE
      OBVIOUS
    <2>1. outbound[n].id \in Ids /\ requests[outbound[n].id] = m.call
      BY MessageFields DEF StreamInv, TypeOK, IsRequest, IdsInFlight, InFlightIsWaiting
    <2>2. outbound[n].id = m.id
      BY <1>2, <2>1, StreamAssumption DEF StreamInv, PendingIsInMap
    <2> QED
      BY <1>1, <2>2 DEF StreamInv, IdsInFlight, InFlightOnce
  <1> QED
    BY <1>1, <1>2, <1>4, <1>5, <1>6, NotRefusals DEF StreamInv, SentOnce

LEMMA SentOnceDrop ==
    ASSUME StreamInv, Drop
    PROVE  SentOnce'
  <1>1. outbound' = <<>> /\ toRelay' = {} /\ toClient' = <<>>
    BY DEF Drop
  <1>2. \A r \in executed' : r \in executed \/ InMap(r)
    <2>1. PICK seen \in SUBSET toRelay :
            executed' = executed \cup {r \in Requests :
                            \E i \in Ids : RequestMessage(i, r) \in seen}
      BY DEF Drop, RelayDrains
    <2>2. \A r \in Requests, i \in Ids : RequestMessage(i, r) \in toRelay => InMap(r)
      BY AtRelayIsWaiting DEF RequestMessage, IsRequest
    <2> QED
      BY <2>1, <2>2
  <1>3. executed \subseteq executed'
    BY DEF Drop, RelayDrains
  <1>4. \A r \in Requests : InMap(r) => result'[r] \in Closed
    BY DEF Drop, Closed
  <1>5. \A r \in Requests : ~InMap(r) => result'[r] = result[r]
    BY DEF Drop
  <1> HIDE DEF InMap
  <1> QED
    BY <1>1, <1>2, <1>3, <1>4, <1>5, NotRefusals DEF StreamInv, SentOnce

LEMMA NextSentOnce == StreamInv /\ [Next]_vars => SentOnce'
  <1> SUFFICES ASSUME StreamInv, [Next]_vars PROVE SentOnce'
    OBVIOUS
  <1>1. CASE WriteNext
    <2>1. /\ outbound # <<>> /\ outbound' = Tail(outbound)
          /\ toRelay' \subseteq toRelay \cup {Head(outbound)}
          /\ UNCHANGED <<toClient, result, executed>>
      BY <1>1 DEF WriteNext, relayVars
    <2>2. /\ 1 \in DOMAIN outbound /\ Head(outbound) = outbound[1]
          /\ \A n \in DOMAIN outbound' :
                n + 1 \in DOMAIN outbound /\ outbound'[n] = outbound[n + 1]
      BY <2>1, TailElements DEF StreamInv, TypeOK
    <2> QED
      BY <2>1, <2>2 DEF StreamInv, SentOnce
  <1>2. CASE ~Settling /\ ~WriteNext /\ ~RelayAnswer
    <2>1. UNCHANGED <<result, executed>>
      BY <1>2, OtherSteps, OthersExecuteNothing DEF Settling
    <2>2. PICK shift, move \in 0..1 : OldMessages(shift) /\ OldFrames(move)
      BY <1>2, OtherWire, OldElements DEF StreamInv
    <2>3. toRelay' \subseteq toRelay
      BY <1>2, OtherWire DEF StreamInv, WireShrinks
    <2> QED
      BY <2>1, <2>2, <2>3 DEF StreamInv, SentOnce, OldMessages, OldFrames
  <1> QED
    BY <1>1, <1>2, SentOnceSend, SentOnceRead, SentOnceAnswer, SentOnceDrop DEF Settling

LEMMA StreamInvariant == Spec => []StreamInv
  <1>1. Init => StreamInv
    <2>1. Init => SentOnce
      BY StreamAssumption DEF Init, SentOnce
    <2> QED
      BY <2>1, InitType, InitPending, InitInFlight DEF StreamInv
  <1>2. StreamInv /\ [Next]_vars => StreamInv'
    BY NextType, NextPending, NextInFlight, NextSentOnce DEF StreamInv
  <1> QED
    BY <1>1, <1>2, PTL DEF Spec

LEMMA StreamInvFits == StreamInv => OutcomeFitsRelay
  <1> SUFFICES ASSUME StreamInv, NEW r \in Requests
               PROVE  /\ result[r] \in Answers => r \in executed
                      /\ result[r] \in {"idle", "duplicateId"} => r \notin executed
                      /\ r \in executed \/ result[r] \in {"idle", "duplicateId"} =>
                            \A i \in Ids : ~Queued(i, r) /\ ~AtRelay(i, r)
    BY DEF OutcomeFitsRelay
  <1>1. \A i \in Ids : IsRequest(RequestMessage(i, r)) /\ RequestMessage(i, r).call = r
                       /\ RequestMessage(i, r).id = i
    BY DEF IsRequest, RequestMessage
  <1>2. \A i \in Ids : Queued(i, r) \/ AtRelay(i, r) => r \notin executed /\ requests[i] = r
    BY <1>1 DEF Queued, AtRelay, StreamInv, SentOnce, IdsInFlight, InFlightIsWaiting
  <1>3. \A i \in Ids : requests[i] = r => result[r] = "waiting"
    BY DEF StreamInv, PendingIsInMap
  <1> QED
    BY <1>2, <1>3 DEF StreamInv, SentOnce

(* What a caller is told fits what the relay did, and no request runs      *)
(* twice.                                                                  *)
THEOREM OutcomeFitsRelayCorrect == Spec => []OutcomeFitsRelay
  BY StreamInvariant, StreamInvFits, PTL

-----------------------------------------------------------------------------
(* No element is lost by an extension, and only the first by a tail.       *)
LEMMA TailKeeps ==
    ASSUME NEW S, NEW s \in Seq(S), s # <<>>
    PROVE  \A n \in DOMAIN s : s[n] = Head(s) \/ \E k \in DOMAIN Tail(s) : Tail(s)[k] = s[n]
  <1>1. \A n \in DOMAIN s : n = 1 \/ (n - 1 \in DOMAIN Tail(s) /\ Tail(s)[n - 1] = s[n])
    OBVIOUS
  <1>2. s[1] = Head(s)
    OBVIOUS
  <1> QED
    BY <1>1, <1>2

LEMMA AppendKeeps ==
    ASSUME NEW S, NEW s \in Seq(S), NEW e \in S
    PROVE  /\ \A n \in DOMAIN s : n \in DOMAIN Append(s, e) /\ Append(s, e)[n] = s[n]
           /\ Len(s) + 1 \in DOMAIN Append(s, e) /\ Append(s, e)[Len(s) + 1] = e
  OBVIOUS

(* The connection is as good as anybody can tell, and request r is on its  *)
(* way under id i.                                                         *)
Healthy       == socket = "open" /\ net = "up"
OnItsWay(i, r) == Queued(i, r) \/ AtRelay(i, r) \/ Answered(i, r)

(* What the three stages must not lose.                                    *)
LEMMA StaysOnItsWay ==
    ASSUME NEW i \in Ids, NEW r, OnItsWay(i, r),
           \A n \in DOMAIN outbound : outbound[n] = RequestMessage(i, r) =>
                \/ \E k \in DOMAIN outbound' : outbound'[k] = outbound[n]
                \/ outbound[n] \in toRelay',
           RequestMessage(i, r) \in toRelay =>
                \/ RequestMessage(i, r) \in toRelay'
                \/ \E k \in DOMAIN toClient', a \in Answers : toClient'[k] = Response(i, r, a),
           \A n \in DOMAIN toClient, a \in Answers : toClient[n] = Response(i, r, a) =>
                \E k \in DOMAIN toClient' : toClient'[k] = toClient[n]
    PROVE  OnItsWay(i, r)'
  <1>1. CASE Queued(i, r)
    BY <1>1 DEF OnItsWay, Queued, AtRelay
  <1>2. CASE AtRelay(i, r)
    BY <1>2 DEF OnItsWay, AtRelay, Answered
  <1>3. CASE Answered(i, r)
    BY <1>3 DEF OnItsWay, Answered
  <1> QED
    BY <1>1, <1>2, <1>3 DEF OnItsWay

LEMMA HealthySteps ==
    ASSUME [Next]_vars, Healthy', ~Create
    PROVE  Healthy /\ ~Drop /\ ~ReadClose /\ ~ReadError /\ ~ReadEnd /\ ~CloseOk
           /\ ~RelayClose /\ ~NetBreak /\ ~WriteSendError
  <1> USE DEF Healthy
  <1>1. CASE Drop \/ ReadClose \/ ReadError \/ ReadEnd \/ CloseOk \/ RelayClose \/ NetBreak
    BY <1>1 DEF Drop, ReadClose, ReadError, ReadEnd, CloseOk, RelayClose, NetBreak
  <1>2. CASE PollRead /\ ~ReadClose /\ ~ReadError /\ ~ReadEnd
    BY <1>2 DEF PollRead, ReadResponse, ReadSubscription, ReadInvalid, ReadControl, streamVars,
                Drop, ReadClose, ReadError, ReadEnd, CloseOk, RelayClose, NetBreak, WriteSendError
  <1>3. socket' = socket /\ net' = net => ~WriteSendError /\ Healthy
    BY DEF WriteSendError
  <1>4. CASE PollWrite
    BY <1>1, <1>3, <1>4 DEF PollWrite, WriteNext, WriteSendError, WriteReadyError, wireVars
  <1>5. CASE Environment /\ ~RelayClose /\ ~NetBreak
    BY <1>1, <1>3, <1>5 DEF Environment, RelayAnswer, RelayDeliver, RelayAcked, RelayNoise, Tick,
       Unsolicited, RelaySends, streamVars, wireVars
  <1>6. CASE Respond \/ TakeEvent \/ CloseFailed \/ (\E f \in BOOLEAN : CloseBegin(f))
             \/ (\E r \in Requests : SendRaw(r))
    BY <1>1, <1>3, <1>6 DEF Respond, TakeEvent, CloseFailed, CloseBegin, SendRaw, wireVars
  <1>7. CASE UNCHANGED vars
    BY <1>1, <1>3, <1>7 DEF vars, streamVars, wireVars
  <1> QED
    BY <1>1, <1>2, <1>4, <1>5, <1>6, <1>7 DEF Next, PollRead, Environment

LEMMA NextOnItsWay ==
    ASSUME TypeOK, PendingIsInMap, IdsInFlight, [Next]_vars, Healthy',
           NEW i \in Ids, requests'[i] # None,
           Healthy /\ requests[i] # None => OnItsWay(i, requests[i])
    PROVE  \A r : r = requests'[i] => OnItsWay(i, r)'
  <1> SUFFICES ASSUME NEW r, r = requests'[i] PROVE OnItsWay(i, r)'
    OBVIOUS
  <1>1. CASE Create
    BY <1>1 DEF Create, PendingIsInMap, NoRequests
  <1> SUFFICES ASSUME ~Create PROVE OnItsWay(i, r)'
    BY <1>1
  <1>2. Healthy /\ ~Drop /\ ~ReadClose /\ ~ReadError /\ ~ReadEnd /\ ~CloseOk
        /\ ~RelayClose /\ ~NetBreak /\ ~WriteSendError
    BY HealthySteps
  <1>3. requests[i] = r => OnItsWay(i, r)
    BY <1>2
  <1>4. ASSUME requests' = requests, outbound' = outbound, toRelay' = toRelay, toClient' = toClient
        PROVE  OnItsWay(i, r)'
    BY <1>3, <1>4 DEF OnItsWay, Queued, AtRelay, Answered
  <1>5. ASSUME NEW q \in Requests, SendRaw(q) PROVE OnItsWay(i, r)'
    <2> DEFINE id == <<clock, counter>>
               new == RequestMessage(id, q)
    <2>1. id \in Ids /\ new \in OutboundMessages
      BY MessagesMade DEF TypeOK, Ids
    <2>2. UNCHANGED <<toRelay, toClient>>
      BY <1>5 DEF SendRaw, wireVars
    <2>3. CASE requests' = requests /\ outbound' = outbound
      BY <1>4, <2>2, <2>3
    <2>4. CASE requests' = [requests EXCEPT ![id] = q] /\ outbound' = Append(outbound, new)
      <3>1. requests'[id] = q /\ (i # id => requests'[i] = requests[i])
        BY <2>1, <2>4 DEF TypeOK
      <3>2. /\ \A n \in DOMAIN outbound : n \in DOMAIN outbound' /\ outbound'[n] = outbound[n]
            /\ Len(outbound) + 1 \in DOMAIN outbound' /\ outbound'[Len(outbound) + 1] = new
        <4> HIDE DEF new
        <4> QED
          BY <2>1, <2>4, AppendKeeps DEF TypeOK
      <3>3. CASE i = id
        BY <3>1, <3>2, <3>3 DEF OnItsWay, Queued
      <3>4. CASE i # id
        <4> HIDE DEF id, new
        <4>1. OnItsWay(i, r)
          BY <1>3, <3>1, <3>4
        <4> QED
          BY <2>2, <3>2, <4>1, StaysOnItsWay
      <3> QED
        BY <3>3, <3>4
    <2> QED
      BY <1>5, <2>3, <2>4 DEF SendRaw
  <1>6. CASE ReadResponse
    <2>1. PICK f \in Frames : f = Head(toClient) /\ f.type = "response" /\ toClient # <<>>
      BY <1>6, TailElements DEF ReadResponse, Receive, TypeOK
    <2>2. /\ requests' = [requests EXCEPT ![f.id] = None] /\ toClient' = Tail(toClient)
          /\ UNCHANGED <<outbound, toRelay>>
      BY <1>6, <2>1, InFlightRead, StreamAssumption DEF ReadResponse, Receive
    <2>3. i # f.id /\ requests[i] = r
      BY <2>1, <2>2, FrameFields DEF TypeOK
    <2>4. \A a \in Answers : Response(i, r, a).id = i
      BY DEF Response
    <2>5. \A n \in DOMAIN toClient, a \in Answers : toClient[n] = Response(i, r, a) =>
                \E k \in DOMAIN toClient' : toClient'[k] = toClient[n]
      BY <2>1, <2>2, <2>3, <2>4, TailKeeps DEF TypeOK
    <2> QED
      BY <1>3, <2>2, <2>3, <2>5, StaysOnItsWay
  <1>7. CASE ReadSubscription \/ ReadInvalid \/ ReadControl
    <2>1. /\ toClient # <<>> /\ toClient' = Tail(toClient) /\ Head(toClient).type # "response"
          /\ UNCHANGED <<requests, outbound, toRelay>>
      BY <1>7 DEF ReadSubscription, ReadInvalid, ReadControl, Receive, streamVars
    <2>2. \A a \in Answers : Response(i, r, a).type = "response"
      BY DEF Response
    <2>3. \A n \in DOMAIN toClient, a \in Answers : toClient[n] = Response(i, r, a) =>
                \E k \in DOMAIN toClient' : toClient'[k] = toClient[n]
      BY <2>1, <2>2, TailKeeps DEF TypeOK
    <2> QED
      BY <1>3, <2>1, <2>3, StaysOnItsWay
  <1>8. CASE WriteNext
    <2>1. /\ outbound # <<>> /\ outbound' = Tail(outbound) /\ toRelay' = toRelay \cup {Head(outbound)}
          /\ UNCHANGED <<requests, toClient>>
      BY <1>2, <1>8 DEF WriteNext, Healthy
    <2>2. \A n \in DOMAIN outbound : \/ \E k \in DOMAIN outbound' : outbound'[k] = outbound[n]
                                     \/ outbound[n] \in toRelay'
      BY <2>1, TailKeeps DEF TypeOK
    <2> QED
      BY <1>3, <2>1, <2>2, StaysOnItsWay
  <1>9. CASE Respond
    <2>1. event.msg \in Messages
      BY <1>9 DEF Respond, TypeOK, StreamEvents, NoEvent, InboundError, OutboundError,
                  SubscriptionEvent, ConnectionClosed
    <2>2. \A n \in DOMAIN outbound : n \in DOMAIN outbound' /\ outbound'[n] = outbound[n]
      BY <1>9, <2>1, MessagesMade, AppendKeeps DEF Respond, TypeOK
    <2>3. UNCHANGED <<requests, toRelay, toClient>>
      BY <1>9 DEF Respond, wireVars
    <2> QED
      BY <1>3, <2>2, <2>3, StaysOnItsWay
  <1>10. CASE RelayAnswer
    <2>1. PICK m \in toRelay, a \in Answers :
            /\ IsRequest(m)
            /\ toClient' = Append(toClient, Response(m.id, m.call, a))
            /\ toRelay' = toRelay \ {m}
            /\ UNCHANGED <<requests, outbound>>
      BY <1>10 DEF RelayAnswer, RelaySends, IsRequest, streamVars
    <2>2. m.id \in Ids /\ m.call \in Requests
      BY <2>1, MessageFields DEF TypeOK, IsRequest
    <2>3. /\ \A n \in DOMAIN toClient : n \in DOMAIN toClient' /\ toClient'[n] = toClient[n]
          /\ \E k \in DOMAIN toClient' : toClient'[k] = Response(m.id, m.call, a)
      <3> DEFINE new == Response(m.id, m.call, a)
      <3>1. new \in Frames
        BY <2>2, FramesMade
      <3> HIDE DEF new
      <3>2. /\ \A n \in DOMAIN toClient : n \in DOMAIN toClient' /\ toClient'[n] = toClient[n]
            /\ \E k \in DOMAIN toClient' : toClient'[k] = new
        BY <2>1, <3>1, AppendKeeps DEF TypeOK, new
      <3> QED
        BY <3>2 DEF new
    <2>4. RequestMessage(i, r) = m => m.id = i /\ m.call = r
      BY DEF RequestMessage
    <2>5. RequestMessage(i, r) \in toRelay =>
              \/ RequestMessage(i, r) \in toRelay'
              \/ \E k \in DOMAIN toClient', b \in Answers : toClient'[k] = Response(i, r, b)
      BY <2>1, <2>3, <2>4
    <2> QED
      BY <1>3, <2>1, <2>3, <2>5, StaysOnItsWay
  <1>11. CASE RelayDeliver \/ RelayNoise
    <2>1. PICK f \in Frames : toClient' = Append(toClient, f)
      BY <1>11, FramesMade DEF RelayDeliver, RelayNoise, Unsolicited, RelaySends, TypeOK
    <2>2. UNCHANGED <<requests, outbound, toRelay>>
      BY <1>11 DEF RelayDeliver, RelayNoise, Unsolicited, RelaySends, streamVars
    <2>3. \A n \in DOMAIN toClient : n \in DOMAIN toClient' /\ toClient'[n] = toClient[n]
      BY <2>1, AppendKeeps DEF TypeOK
    <2> QED
      BY <1>3, <2>2, <2>3, StaysOnItsWay
  <1>12. CASE RelayAcked
    <2>1. /\ UNCHANGED <<requests, outbound, toClient>>
          /\ \A m \in toRelay : m.type = "request" => m \in toRelay'
      BY <1>12 DEF RelayAcked, streamVars
    <2>2. RequestMessage(i, r).type = "request"
      BY DEF RequestMessage
    <2> QED
      BY <1>3, <2>1, <2>2, StaysOnItsWay
  <1>13. CASE WriteReadyError \/ TakeEvent \/ CloseFailed \/ (\E f \in BOOLEAN : CloseBegin(f))
              \/ Tick \/ UNCHANGED vars
    BY <1>4, <1>13 DEF WriteReadyError, TakeEvent, CloseFailed, CloseBegin, Tick, vars, streamVars,
                       wireVars
  <1> QED
    BY <1>2, <1>5, <1>6, <1>7, <1>8, <1>9, <1>10, <1>11, <1>12, <1>13
    DEF Next, PollRead, PollWrite, Environment

(* On a healthy connection no waiting request has been lost.               *)
THEOREM WaitingIsOnItsWayCorrect == Spec => []WaitingIsOnItsWay
  <1>1. Init => WaitingIsOnItsWay
    BY DEF Init, WaitingIsOnItsWay
  <1>2. StreamInv /\ WaitingIsOnItsWay /\ [Next]_vars => WaitingIsOnItsWay'
    <2> SUFFICES ASSUME StreamInv, WaitingIsOnItsWay, [Next]_vars, Healthy',
                        NEW i \in Ids, requests'[i] # None
                 PROVE  \A r : r = requests'[i] => OnItsWay(i, r)'
      BY DEF WaitingIsOnItsWay, Healthy, OnItsWay
    <2>1. Healthy /\ requests[i] # None => OnItsWay(i, requests[i])
      BY DEF WaitingIsOnItsWay, Healthy, OnItsWay
    <2> QED
      BY <2>1, NextOnItsWay DEF StreamInv
  <1> QED
    BY <1>1, <1>2, StreamInvariant, PTL DEF Spec
=============================================================================
