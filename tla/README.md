# TLA+ models of the WalletConnect relay client

The repository is a Rust workspace: `relay_client` is the client of the
WalletConnect relay (a websocket RPC client and an HTTP client), `relay_rpc`
holds what client and relay share (JSON-RPC payloads, tokens, DIDs, CACAO).
This directory models the parts whose correctness depends on order, failure
and arithmetic, and the parsers whose results others rely on, checks them with
TLC and proves their safety properties with TLAPS for every value of the
constants.

## The system

| component | state | operations | talks to |
|---|---|---|---|
| `websocket.rs` `Client` | a sender of the control channel | RPC methods, `connect`, `disconnect`, `request` | the event loop, by channel and oneshot replies |
| `websocket/connection.rs` event loop, `Connection` | an optional stream, what it awaits | control branch, stream branch of `select!`, shutdown | owns `ClientStream`, calls the `ConnectionHandler` |
| `websocket/stream.rs` `ClientStream` | socket, outbound channel, map of pending requests, id generator, close frame | `send_raw`, `close`, `poll_next`, `Drop` | the socket; yields `StreamEvent`s |
| `websocket/inbound.rs`, `outbound.rs` | a oneshot, a sender of the outbound channel | `respond`, the response future | the stream and the caller |
| `websocket/fetch.rs` `FetchMessageStream` | batch, future, `has_more` | `poll_next` | `Client` |
| `lib.rs` `MessageIdGenerator` | an `AtomicU8` | `next` | streams; shared by the tasks of the HTTP client |
| `lib.rs` `ConnectionOptions` | none | `as_url`, `as_ws_request` | `connect` |
| `http.rs` `Client` | a generator, a token | `publish`, `watch_register`, `watch_unregister` | the relay over HTTP |
| `rpc.rs` | none | payload types, `Request::validate` | both clients |
| `jwt.rs`, `auth.rs`, `auth/did.rs`, `domain.rs` | none | encode, decode, verify tokens and ids | both clients |
| `auth/cacao*` | none | message, verification, signatures | applications |
| `user_agent.rs` | none | parse, format | `ConnectionOptions` |

What makes it hard: one task multiplexes a channel and a socket in random
order; two of its steps await the network while nothing else is served; the
stream ends in several ways (close frame, end of TCP, protocol error, our
close, a drop, a panic), each of which has to complete the pending requests;
message ids repeat, since the counter has 8 bits and the wall clock is not
monotonic; acknowledgements and requests can be lost with a connection.

What makes it correct: every future resolves, once, with its own answer; a
refused request never ran; an acknowledged message reached the handler; a
reply to `connect` or `disconnect` is a barrier between two streams; the fetch
stream skips nothing; ids repeat only when they can do no harm; an HTTP caller is told
what the relay said to it and nothing else; a token is good for the life it was
issued for and no longer; a batch is valid exactly if its items are; the relay
reads in a request what the application put in its options; a Cacao is accepted
only if the wallet it names signed its message.

## Modules

`ClientStream` models `stream.rs` with `inbound.rs`, `outbound.rs` and the
generator inlined. One turn of the read loop or the write loop of
`poll_next()` is one action (`ReadResponse`, `ReadSubscription`, `ReadInvalid`,
`ReadControl`, `ReadClose`, `ReadError`, `ReadEnd`; `WriteNext`,
`WriteSendError`, `WriteReadyError`), because frames may arrive between two
turns. An event that a poll returned sits in `event` until the owner has
handled it (`Respond`, `TakeEvent`), and no poll happens before. `close()` is
two steps, before and after its await. The payload of an answer is abstracted
to the request it answers, so `Outcome` yields `"foreign"` when the map hands
it to another one. External and modelled by what the code can observe: the
socket of tokio-tungstenite (which ends after its first error, reports the end
of TCP as an error before a closing handshake and as `None` after it, and
refuses writes after a close), TCP (`NetBreak` loses the frames that have not
arrived), and the relay, which serves the messages it has received in any
order, answers a request at most once, redelivers what is not acknowledged,
and may send frames no client expects. `Tick` sets the wall clock to any value.

`WebsocketClient` extends it with `websocket.rs` and `connection.rs`: the
handles, the control channel `queue`, and the loop, whose `pc` is `"select"`
between two polls, `"closing"` and `"connecting"` inside the awaits of
`Connection::connect` and `disconnect`, `"stopped"` at its end. Control
messages and stream events interleave freely at `"select"`. `Reap` is
`Connection::poll_next()` dropping a terminated stream. `Crash` ends the task
at any point (a panicking callback, the runtime shutting down): the stream is
dropped, then the channel with the senders in it. A connect that is not
awaited any more keeps no handle, so `DropClients` is possible at any time.

`AtMostOnceRpc` is the abstract specification of a remote call: processed at
most once, one outcome, an answer only after processing, a refusal only
without it, `"closed"` leaves it open. `WebsocketClient` implements it under
the mapping `Known`, and `FetchMessageStream` is built on it instead of on the
whole client.

`FetchMessageStream` models `fetch.rs`, one turn of its loop per action. The
relay hands every mailbox message out once, in pages of any size; that a call
may fail after its page was made is what `AtMostOnceRpc` allows.

`MessageIdGenerator` models `lib.rs` `next()` in its two steps, the counter and
then the clock, called by threads that share the generator.

`HttpClient` models `http.rs` on top of it: tasks share a client and call
`request()`. An `exchange` is the POST of one call, at the relay or with its
reply at the client; ids are not compared, as in the code. `OtherReplies` is
everything that is no reply of the relay to the request (a proxy, an error
status, another document), `TransportFails` and `Cancel` end a call from either
place. A JSON body is the set of its fields, which decides the variant of the
untagged `Payload`. Which method is called does not matter after its checks;
`Refuse` stands for a check that fails. The module implements `AtMostOnceRpc`
too, with every error but a refusal mapped to `"closed"`.

`Jwt` models `jwt.rs` and `auth.rs`, and the claims that `http.rs` makes. A
token is the sequence of its segments; a segment decodes to a header, claims or
a signature, or is broken in one of the two ways base64 can be. A signature is a
record that only `Sign` makes, of all that is signed. Times are in ticks, of
which a second has several, and what a token holds is rounded as in the code.
Issuer and relay have a clock each. The three ways to issue differ in how they
round and overflow: `encode_auth_token()` adds chrono types, which refuse or
panic, `watch_register()` adds `i64`s, `watch_unregister()` sets no end. What
the relay says of a string now is the operator `Verdict`. `Fields` and `Act` are
the fields of the claims of each kind of token and the value of its action;
`DecodesAs` is `decode()` at a type of claims, which ignores fields that the type
does not have.

`RpcValidation` models `Request::validate()` with the validation of all eleven
methods, the decoding of topics and ids by length and alphabet, and
`Publish::as_subscription_request()`. The server is not part of the repository;
it appears as what validates and forwards.

`Texts` holds what the parsers use of strings. A text is a sequence of atoms:
delimiters, digits, line breaks, labels, and words for the runs of characters that no
parser takes apart.

`UserAgent` models `user_agent.rs`, from text and to text, level by level: the
pieces between slashes, protocol, SDK, operating system with its regular
expression (whose dots match any character), environment and host.
`ConnectionOptions` extends it with the options of `lib.rs`: `as_url()`,
`as_ws_request()` and the constructor of the HTTP client, each with its errors in
its own order, and what the relay reads in the request.

`ClientIds` models `auth/did.rs` and the client ids of `domain.rs`. The text of a
base58 string is one atom, and the constant `Base58` says which bytes it decodes
to, of what length and with which header; some bytes are no point of the curve.

`Cacao` models `auth/cacao.rs` and its modules on top of it, on the way of one
Cacao: a wallet signs the message of a payload (`SignCacao`), something arrives
that may have another payload, signature text, header or type (`Receive`), a
server verifies it (`Verify`) and takes the identity key of it (`TakeIdentity`).
The message is one text, put together as `caip122_message()` does: what the code
writes (labels, line breaks) and what the fields hold stand in it side by side, and
a field may hold line breaks and labels too, since `Payload::validate()` is not
written yet. Two payloads can have one message, then, and the payloads of the run
have many such pairs. `Unbroken` says of a payload that no field has a line break;
it is a condition of properties and never of an action. A signature recovers its
signer from the message it was made for and nobody from another; the bytes of its text, their number and the recovery byte
are modelled, as is the order in which `Eip191::verify()` looks at them.

`...Proofs` modules hold the proofs about the module they are named after and the
modules it extends: `HttpClientProofs` also those about `MessageIdGenerator`,
`ConnectionOptionsProofs` those about `UserAgent` and `Texts`, `CacaoProofs` those
about `ClientIds`, `FetchMessageStreamProofs` those about `AtMostOnceRpc`.
`WebsocketClientProofs` builds on `ClientStreamProofs`. Modules named `MC...` instantiate the others for TLC.

Some operators are marked as variants (`AlwaysVacant`, `PeekNext`,
`HandleClosedKeeps`, ...). They are plausible mistakes, used by no
specification; each property has one in `PROJECT.json` that violates it. A variant that
forgets the sender of an outcome or of a reply shows as a future that waits for ever;
in Rust the sender would be dropped with what held it, and its future would resolve with
`ChannelClosed`, which is as wrong for its caller and harder to see.

## Runs

| run | question | bounds |
|---|---|---|
| `stream` | Does a stream complete every pending request, with its own answer or as closed, and lose none while healthy? | 3 requests, 1 message, ids of 2 clock values and 2 counter values, 2 frames in flight, 1 unsolicited frame per behaviour |
| `stream_last_event` | Is `ConnectionClosed` the last event? (violated) | 1 request |
| `client` | Are requests, calls, callbacks and acknowledgements consistent across reconnects, shutdown and crash; is the client an at-most-once RPC? | 2 requests, 2 connects, 1 disconnect, one id, 2 frames in flight, 2 unsolicited frames |
| `client_live` | Does every future and call resolve, does the loop end? | 2 requests, 1 connect, 1 disconnect, 1 unsolicited frame |
| `client_reported` | Is a lost connection reported? (violated) | 1 request, 1 connect, no disconnect |
| `ids_rate` | Are ids unique at the documented rate? (violated) | counter of 2, 5 calls |
| `fetch` | Is anything skipped, repeated or fetched after the end; is the end reached? | 4 messages, 5 calls |
| `http` | Is every caller told what was said to it; how far apart are equal ids of several tasks; is the client an at-most-once RPC; does every call end? | 3 tasks with one call each, a counter of two values, 2 ms |
| `jwt` | Does exactly what was issued decode; is a token accepted for its life, refused outside it, and in this order? | 1 token of 2 keys and 2 audiences, seconds of 3 ticks, leeway of 2 s, clocks up to 6 ticks apart, TTLs at every tick up to the leeway and around the ends of the types; every cut, replaced or added segment, also from 3 other tokens |
| `jwt_action` | Must the action of a token be that of its use? (violated) | 1 token |
| `rpc_validation` | Does a batch agree with its items? | limits 1 to 3, batches of 0 to 3, 5 kinds of topic |
| `texts` | Does the relay read what the options say; is a Cacao accepted if it was signed, and only if its message was; what does a message bind, and is the key named in it? | user agents with every part present, missing or broken, and their operating systems of every text of up to 5 atoms after the family; 2 wallets, 3 values of 32 bytes of which one is no point, payloads with every optional field, 11 forms of a DID and line breaks and labels in every kind of field, 16 signature texts |

Why the bounds are enough: two requests are what it takes for one to meet the
answer or the failure of another, and a third makes a counter of two values come
round while the clock stands or steps back; the one id of the `client` runs is
taken whenever a request is pending; a stream can be created any number of times, so a behaviour covers
several connections; two connects and a disconnect give every order of opening,
reopening and closing around a shutdown. `MaxUnsolicited` bounds what the relay
sends on its own (a message, a close, an unexpected frame), of which one of
each is interesting; `MaxWire` bounds frames in flight and hides nothing but
longer queues. Requests and messages are symmetric in the safety runs only.
With a counter of two values the first and the third of three HTTP calls in a
millisecond have equal ids; ids and the generator are all that calls share. One token is enough, since the segments of others that
it is mixed with need not have been issued; clocks drift as far apart as the
leeway, in ticks that a second has several of, and the ends of `i64`, of a chrono
duration and of a date are passed by the clock and the TTLs.
The three limits of `RpcValidation` differ so that none can stand for another.
Five atoms are one more than a delimiter, a number, a separator and another number,
so the regular expression of the operating system meets every way to split what
follows the family. `texts` has the two stateless components in one run: a behaviour
belongs to one of them, and one Cacao is enough, since nothing is kept between two.

`CHECK_DEADLOCK FALSE` is set where the system may stop: the loop has ended, the
generator has made its calls, the clock has no further millisecond, all calls
have returned, a request has its reply.

### What the violated runs show

* `stream_last_event`: after the event of a close frame, `poll_next()` can yield
  an `OutboundError` for a message that can no longer be written, or a second
  `ConnectionClosed` when TCP ends. The event loop drops the stream at the first
  one and is not affected; direct users of `ClientStream` are.
* `client_reported`: when the connection ends in a transport error the handler
  hears `inbound_error()`, the stream is terminated and `Connection::poll_next()`
  drops it without `disconnected()`.
* `ids_rate`: with a counter of two values, one thread makes the id of the value 0,
  takes the value 1 and is delayed before it reads the clock; the other thread gets
  the value 0 again, in the same millisecond, and makes the same id. That millisecond
  has made two ids, as many as the counter has values: the delayed call has used up a
  value and made no id of it.
* `jwt_action`: `rpc/watch.rs:63` says of the claims of `watch_unregister()`
  "Action. Must be `irn_watchUnregister`.", but no code compares the action. A
  registration token has all the fields of the claims to unregister, fields beyond
  them are ignored, and so it decodes as one of them.

### What else the models show

These are no disagreements with a doc or a test; they are states the models have
and no property forbids.

* `watch_register()` checks that the seconds of the TTL fit an `i64` and then adds
  the time stamp unchecked (`http.rs:166`): near the end of the type the sum wraps
  or the call panics. `FreshAccepted` speaks of a registration only where it does
  not.
* An `OsInfo` with a user agent family and no version is not read back as it was:
  its family becomes a part of the operating system or its version.
* `set_query()` replaces a query that the relay's address has of its own.
* The validation of a Cacao's payload is a TODO in the code (`payload.rs:28`), so its
  expiry and not-before times are signed and not looked at, and no line break is
  refused in a field. A payload with the date `t\nExpiration Time: e` has the message
  of one with the date `t` and the expiry `e`; one with the request id
  `r\nResources:\n- did:key:...` has that of one with this resource, from which a
  server takes the identity key if the audience names none. `VerifiedWasSigned` and `KeyWasNamed` say what
  still holds: if the payload that was signed has no line break in a field, whatever
  arrives is for the same audience, version, chain and nonce, and the key is one that
  the signed payload names; only if neither has one do both say the same in every field.
* The namespace and the method of the issuer are not part of the message.
* A signature text of fewer than 65 bytes, and a client id whose bytes are no point
  of the curve, panic instead of being an error.

## Fairness

`FairSpec` of `WebsocketClient`: weak fairness of the loop's control branch, of
the end of its awaits, of handling an event, of reaping and of writing, since
the task is scheduled and `select!` is random between its branches; strong
fairness of reading, because `poll_next()` reads until the socket has nothing
before it writes, so a write error that recurs cannot hide a read error for
ever; weak fairness of the relay answering a request it has received. Without
the last one a future may stay pending as long as the connection lives: the
client has no timeouts. The network need not break or recover, the clock need
not move, nobody has to make a call. `FetchSpec`: the consumer polls, calls
complete, the relay processes them. `HttpFairSpec`: a call that has begun is
posted and a reply is read, since the task is polled; a relay or a proxy replies
to what was posted, without which a call may wait for ever, as `reqwest` is built
without a timeout.

## Proofs

Every theorem holds for all values of the constants, from the `ASSUME`s of the
module that declares them. All invariants and action properties of the passing runs
are proved; only their liveness properties are not. No theorem states a property of a
run that TLC violates, but one says when the property of `ids_rate` does hold.

`ClientStreamProofs` (from `StreamAssumption`):

* `TypeCorrect`: `Spec => []TypeOK`.
* `PendingCorrect`: `Spec => []PendingIsInMap`. Inductive together with the types;
  three actions touch the map or an outcome, and `OtherSteps` disposes of the rest.
* `InFlightCorrect`: `Spec => []IdsInFlight`. This is the strengthening the next
  theorem needs: the map alone does not say that an answer on the wire belongs to
  the request its id now stands for. `FewerInFlight` covers every step that only
  takes messages off the wire or adds ones without ids; sending, writing,
  answering and reading have a lemma each.
* `NoForeignAnswerCorrect`: `Spec => []NoForeignAnswer`. An id is only used again
  when it is free in the map, and by `IdsInFlight` it is then nowhere on the wire.
* `OutcomeFitsRelayCorrect`: `Spec => []OutcomeFitsRelay`. Inductive as `StreamInv`:
  the three invariants above and `SentOnce`, which says for every place a request
  can be in (the queue, the relay, the way back, the caller) whether the relay has
  processed it. `RelayAnswer` is the hard step: processing one request must leave
  every other message in flight unprocessed, which holds because two messages in
  flight never carry the same request.
* `WaitingIsOnItsWayCorrect`: `Spec => []WaitingIsOnItsWay`. `StaysOnItsWay` covers the
  steps that keep what is under way; a step that takes a request from one place puts it
  in the next, under the same id, and a step that loses some makes the stream unhealthy.

`WebsocketClientProofs` rests on these: `ClientRunsStream` shows that the client does
nothing to a stream that `Spec` does not allow, so that the theorems above hold of it.
Its invariant is `StreamInv`, `LoopInv` (types; a call that waits has its message in
the channel or is being served; a shutdown only without handles and with an empty
channel; a stream that is polled was announced) and `PlacesInv` (a request is in one
place, and in the channel at most once).

* `ClientTypeCorrect`, `StreamIsAnnouncedCorrect`: from `LoopInv`.
* `RequestsAccountedCorrect`: from `PlacesInv`; `NoStreamNoWaiting` gives its last part.
* `RefusedNeverExecutedCorrect`: a refused request never got to a stream, and
  `StreamInv` says that one that did not was not processed.
* `ReplyIsBarrierCorrect`: the three steps that reply, and `Crash`, each leave a new
  stream, or none that a request waits on.
* `ImplementsRpcCorrect`: `ClientSpec => ImplementsRpc`, the refinement of
  `AtMostOnceRpc`. `KnownIs` and `KnownCases` relate what a caller knows to where its request is;
  then one lemma per kind of step: it begins or settles one request, closes a set of
  them, or stutters.
* `ClientKeepsStream`: the theorems about streams, of the client, by `ClientRunsStream`.
* `ClientKeepsPromise`: `ClientSpec => []Rpc!Promised /\ Rpc!ToldOnce`, what the
  refinement is for: a refused request never ran and can be made again, an answer comes
  from a request that was processed, and no outcome is taken back. `Promised` is
  inductive in `AtMostOnceRpc`; `RpcSteps` says what the steps of the instance are.
* `AckedWasDeliveredCorrect`: only `Respond` makes acknowledgements, and only of what
  the handler has had (`OnlyHandledResponds`, `NoNewAcks`).

`HttpClientProofs` (`GeneratorAssumption`):

* `RepeatsAreATurnApartCorrect`: the invariant numbers the calls and says that the
  counter of each is its number modulo the size; equal counters are then whole turns
  apart, a fact about `%` that is a lemma of its own.
* `UniqueForOneTask`: if only one task makes ids, `GenSpec => []UniqueWithinRate`, the
  property that `ids_rate` violates with two. The invariant (`SequentialInv`) says that
  no number is left out and that later calls have no earlier stamps, so that between two
  equal ids lie all the calls of a turn, with that same stamp: one more than the
  documented rate allows.
* `HttpRunsGenerator`, `HttpRepeatsAreATurnApart`: the HTTP client uses the generator as
  `MessageIdGenerator` has it, so its theorem holds there.
* `HttpTypeCorrect`, `PendingIsOpenCorrect`: from `HttpInv`, which also says that an
  exchange belongs to the task that made it, and that a reply of the relay means that
  the request was processed.
* `ToldWhatWasSaidCorrect`, `HttpImplementsRpcCorrect`: from `HttpInv`; each step settles
  one call or stutters. `HttpKeepsPromise` follows as for the websocket client.

`FetchMessageStreamProofs`: `PromisedCorrect` and `ToldOnceCorrect` are about the
abstract RPC alone, which the two clients implement and the stream is written on.
`FetchTypeCorrect`; `NothingSkippedCorrect` and
`YieldedInOrderCorrect`, from the invariant that what was yielded, what is held, what
the awaited call brings and what the relay has are the messages in order until a call
fails, and what was yielded and is held are a beginning of them afterwards;
`EndIsFinalCorrect`.

`RpcValidationProofs`: `RpcTypeCorrect`; `BatchAgreesWithSinglesCorrect`, which reads the
verdict on a batch as that on its first bad item (`ItemsVerdict`, by well-foundedness
of the naturals).

`JwtProofs` (`JwtAssumption`):

* `JwtTypeCorrect`: `JwtSpec => []JwtTypeOK`.
* `IssuedDecodesCorrect`: `JwtSpec => []IssuedDecodes`.
* `FreshAcceptedCorrect`, `StaleRefusedCorrect`: `JwtSpec => []FreshAccepted` and
  `[]StaleRefused`. Both follow from `JwtInv`, which adds `SaysItsLife` to the types:
  the claims of an issued token are the seconds of what was asked for, signed by the
  key they name. The rest is arithmetic of rounding (`x \div k` against `x`), stated
  as lemmas. The leeway must cover the difference of the clocks and, for a
  registration, another rounding.
* `PhasesInOrderCorrect`: `JwtSpec => PhasesInOrder`, from `JwtInv` and a clock of the
  relay that does not go back.
* `DecodedWasIssuedCorrect`: `JwtSpec => []DecodedWasIssued`. A string that decodes has
  three segments (`WhatDecodes`); each cut, replaced or added segment leaves one that is
  no token, or the token itself (`SegmentsCut`, `SegmentChanged`, `SegmentAdded`).

`CacaoProofs` (`CacaoAssumption`, `PayloadAssumption`, `LabelAssumption`,
`AtomsAssumption`, `ClientIdAssumption`):

* `VerifiedWasSignedCorrect`: `CacaoSpec => []VerifiedWasSigned`, for all payloads; the
  absence of line breaks is a premise of two of its conjuncts, not an assumption. The
  invariant says that what is accepted has the message that was signed, and the rest is
  how a message can be read. A label that comes after a line break in one place only is
  there in every reading (`OneMark`), a fourth break ends the same text in each
  (`FourthMark`), and so do the first and the last line (`FirstLine`, `LastLine`). If one
  of the two payloads has no line break, its labels are in one place each, which fixes
  the lines from the audience to the nonce (`SameLines`). If neither has one, all breaks
  are those that the code writes, so the optional lines and the list of resources follow
  as well (`MessageIsReadOneWay`); the list by induction on how many of its members have
  been joined (`SameItems`, `Induction`), as `FlattenSeq` is defined by recursion.
* `SignedVerifiesCorrect`: `CacaoSpec => []SignedVerifies`.
* `KeyWasNamedCorrect`: `CacaoSpec => []KeyWasNamed`. The payload that arrives may have
  line breaks where the signed one has none: the audience is the same by `SameLines`, and
  the first resource, which a did:key that can be read has on one line, by
  `SameFirstResource`. By `DidIs` and `ClientIdIs` a did:key that is read is the one that
  the key is written as.
* `ClientIdsReadBack`: client ids and did:keys are one text for each key, for all keys
  and all texts: what is written is read back, and nothing else is read.

`ConnectionOptionsProofs` (`OptionsAssumption`, `AtomsAssumption`):

* `ParsedReadsBack`: for every text of any length, if it is parsed as a valid user agent,
  what is shown of that is parsed to the same. No induction over texts is needed: a
  text splits at its first delimiter in one way only (the position is a minimum, which
  is unique), so each level of the parser is undone by one concatenation of `Show`, and
  the regular expression of the operating system is a statement about positions. The
  cases are those of the expression: with and without a family, a version, an
  environment and a host.
* `RelayReadsOptionsCorrect`: `OptionsSpec => []RelayReadsOptions`. The invariant
  (`OptionsInv`) says that a request that was made is `MadeOf` the options; the rest is
  reading back its parts, the user agent by `ParsedReadsBack`.
* `BuiltReadsBackCorrect`: `OptionsSpec => []BuiltReadsBack`, in both directions: a
  user agent family without a version never comes back.

`AtomsAssumption` only says that the delimiters the code writes are strings, which is
true in TLA+ and which TLC evaluates; the provers do not know it of literals.
`LabelAssumption` says the same of the labels of a message, and that the text of a
base58 string has no line break.

Note what the theorems about answers rest on: the relay answers a request at most
once on a connection. Those about Cacaos rest on signatures that recover their signer
from no other message, and those about client ids on base58 being injective. Left to
TLC is liveness (`RequestsResolve`, `CallsReturn`, `LoopEnds`, `StreamEnds`, `CallsEnd`),
which needs fairness and ENABLED and is out of the prover's reach.

## Not modelled

* The formatting of URLs, headers and JSON; percent-encoding is taken to be undone by
  whoever decodes it.
* Serialization failures of requests and responses, which the crate's own
  payload types cannot cause.
* An owner of a `ClientStream` that keeps an `InboundRequest` and responds
  after later polls.
* The internals of tungstenite, tokio and the relay, beyond what is said above.
* The payloads of requests in the websocket client, and with them the conversion of
  TTLs: `publish()` truncates the seconds of a TTL to `u32` (`websocket.rs:158`),
  where the HTTP client refuses one that does not fit.
* The cryptography of signatures and hashes: a signature is a term.
* The error codes of `GenericError`, watch events, the error types, the serde helpers
  and the new types of `domain.rs`: declarations without logic of their own.
* The CAIP-10 forms of an address in a payload, which no code reads.
* The examples.

## Plan

1. (done) `ClientStream`, `WebsocketClient`, `AtMostOnceRpc`,
   `MessageIdGenerator`, `FetchMessageStream`.
2. (done) `RpcValidation`, `HttpClient`, `Jwt`.
3. (done) `ClientIds`, `Cacao`, `UserAgent`, `ConnectionOptions`.
4. (done) Proofs of the safety properties of all of these, and of what the refinements
   promise to callers.
5. What is left: the payloads of requests in the websocket client; an owner of a stream
   that responds after later polls.
