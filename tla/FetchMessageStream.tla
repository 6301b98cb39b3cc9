-------------------------- MODULE FetchMessageStream --------------------------
(***************************************************************************)
(* FetchMessageStream (relay_client/src/websocket/fetch.rs): a Stream that *)
(* pages through the relay's mailbox with irn_batchFetch.  It is one user  *)
(* of the websocket client and sees of it what AtMostOnceRpc promises; its *)
(* calls are numbered in the order it makes them.                          *)
(*                                                                         *)
(* The relay (external) hands a mailbox message out once, in pages of any  *)
(* size, and says whether more are left.                                   *)
(***************************************************************************)
EXTENDS Naturals, Sequences, AtMostOnceRpc

CONSTANTS
    MaxFetches,     \* bound: the calls the stream may make
    MaxArrivals     \* bound: messages that reach the mailbox, numbered from 1

ASSUME FetchAssumption ==
    /\ MaxFetches \in Nat /\ MaxArrivals \in Nat
    /\ Requests = 1..MaxFetches
    /\ "ok" \in Answers

VARIABLES
    batch,          \* FetchMessageStream::batch, NoBatch or the items left in it
    batchFut,       \* FetchMessageStream::batch_fut: the call it awaits, 0 if none
    hasMore,        \* FetchMessageStream::has_more
    calls,          \* calls made so far
    yielded,        \* the messages poll_next() has returned, in order
    polled,         \* what it returned last: nothing, item, error or end
    arrived,        \* messages that have reached the mailbox
    mailbox,        \* the messages still in it
    page            \* the page the relay made for each call

streamVars == <<batch, batchFut, hasMore, calls, yielded, polled>>
fetchVars  == <<rpcVars, streamVars, arrived, mailbox, page>>

NoBatch  == [left |-> <<>>, some |-> FALSE]
Batch(s) == [left |-> s, some |-> TRUE]
NoPage   == [messages |-> <<>>, more |-> FALSE]

FetchInit ==
    /\ RpcInit
    /\ batch = NoBatch /\ batchFut = 0 /\ hasMore = TRUE
    /\ calls = 0 /\ yielded = <<>> /\ polled = "nothing"
    /\ arrived = 0 /\ mailbox = <<>>
    /\ page = [n \in Requests |-> NoPage]
-----------------------------------------------------------------------------
(* poll_next(): one turn of its loop each.                                 *)
YieldItem ==
    /\ batch.some /\ batch.left # <<>>
    /\ yielded' = Append(yielded, Head(batch.left))
    /\ batch' = Batch(Tail(batch.left))
    /\ polled' = "item"
    /\ UNCHANGED <<rpcVars, batchFut, hasMore, calls, arrived, mailbox, page>>

BatchDrained ==
    /\ batch.some /\ batch.left = <<>>
    /\ batch' = NoBatch
    /\ UNCHANGED <<rpcVars, batchFut, hasMore, calls, yielded, polled, arrived,
                   mailbox, page>>

(* A variant that takes has_more = false for an empty answer.              *)
BatchArrivesIfMore ==
    /\ ~batch.some /\ batchFut # 0
    /\ outcome[batchFut] = "ok"
    /\ batch' = IF page[batchFut].more THEN Batch(page[batchFut].messages) ELSE NoBatch
    /\ hasMore' = page[batchFut].more
    /\ batchFut' = 0
    /\ UNCHANGED <<rpcVars, calls, yielded, polled, arrived, mailbox, page>>

BatchArrives ==
    /\ ~batch.some /\ batchFut # 0
    /\ outcome[batchFut] = "ok"
    /\ batch' = Batch(page[batchFut].messages)
    /\ hasMore' = page[batchFut].more
    /\ batchFut' = 0
    /\ UNCHANGED <<rpcVars, calls, yielded, polled, arrived, mailbox, page>>

(* Variants: one that retries after an error, one that keeps the future.   *)
BatchFailsRetries ==
    /\ ~batch.some /\ batchFut # 0
    /\ outcome[batchFut] \notin {"pending", "ok"}
    /\ batchFut' = 0 /\ polled' = "error"
    /\ UNCHANGED <<rpcVars, batch, hasMore, calls, yielded, arrived, mailbox, page>>

BatchFailsForever ==
    /\ ~batch.some /\ batchFut # 0
    /\ outcome[batchFut] \notin {"pending", "ok"}
    /\ polled' = "error"
    /\ UNCHANGED <<rpcVars, batch, batchFut, hasMore, calls, yielded, arrived,
                   mailbox, page>>

(* Unrecoverable: clear() and the error.                                   *)
BatchFails ==
    /\ ~batch.some /\ batchFut # 0
    /\ outcome[batchFut] \notin {"pending", "ok"}
    /\ batch' = NoBatch /\ batchFut' = 0 /\ hasMore' = FALSE
    /\ polled' = "error"
    /\ UNCHANGED <<rpcVars, calls, yielded, arrived, mailbox, page>>

(* A variant that makes a future without sending the request.              *)
RequestBatchUnsent ==
    /\ ~batch.some /\ batchFut = 0 /\ hasMore
    /\ calls < MaxFetches
    /\ calls' = calls + 1
    /\ batchFut' = calls + 1
    /\ UNCHANGED <<rpcVars, batch, hasMore, yielded, polled, arrived, mailbox, page>>

RequestBatch ==
    /\ ~batch.some /\ batchFut = 0 /\ hasMore
    /\ calls < MaxFetches
    /\ Make(calls + 1)
    /\ calls' = calls + 1
    /\ batchFut' = calls + 1
    /\ UNCHANGED <<batch, hasMore, yielded, polled, arrived, mailbox, page>>

YieldEnd ==
    /\ ~batch.some /\ batchFut = 0 /\ ~hasMore
    /\ polled' = "end"
    /\ UNCHANGED <<rpcVars, batch, batchFut, hasMore, calls, yielded, arrived,
                   mailbox, page>>
-----------------------------------------------------------------------------
(* The relay makes the page of a call when it processes it.                *)
MakePage(n) ==
    \E k \in 0..Len(mailbox) :
        /\ mailbox # <<>> => k > 0
        /\ page' = [page EXCEPT ![n] = [messages |-> SubSeq(mailbox, 1, k),
                                        more |-> k < Len(mailbox)]]
        /\ mailbox' = SubSeq(mailbox, k + 1, Len(mailbox))

RelayProcesses(n) ==
    Process(n) /\ MakePage(n) /\ UNCHANGED <<streamVars, arrived>>

(* The client completes the call: with the answer, with a refusal, or      *)
(* because the connection goes away, before or after the relay got to it.  *)
CallCompletes(n) ==
    /\ Answer(n) \/ Refuse(n)
    /\ UNCHANGED <<streamVars, arrived, mailbox, page>>

ConnectionCloses ==
    /\ Close
    /\ Pending # {}
    /\ \/ processed' = processed /\ UNCHANGED <<mailbox, page>>
       \/ \E n \in processed' \ processed : MakePage(n)
    /\ UNCHANGED <<streamVars, arrived>>

Arrive ==
    /\ arrived < MaxArrivals
    /\ arrived' = arrived + 1
    /\ mailbox' = Append(mailbox, arrived + 1)
    /\ UNCHANGED <<rpcVars, streamVars, page>>

PollNext == YieldItem \/ BatchDrained \/ BatchArrives \/ BatchFails \/ RequestBatch \/ YieldEnd

FetchNext ==
    \/ PollNext \/ ConnectionCloses \/ Arrive
    \/ \E n \in Requests : RelayProcesses(n) \/ CallCompletes(n)

FetchSpec ==
    /\ FetchInit /\ [][FetchNext]_fetchVars
    /\ WF_fetchVars(PollNext)
    /\ WF_fetchVars(\E n \in Requests : RelayProcesses(n))
    /\ WF_fetchVars(\E n \in Requests : CallCompletes(n))
-----------------------------------------------------------------------------
Arrivals == 1..MaxArrivals
Pages    == [messages : Seq(Arrivals), more : BOOLEAN]

FetchTypeOK ==
    /\ outcome \in [Requests -> {"idle", "pending", "refused", "closed"} \cup Answers]
    /\ processed \subseteq Requests
    /\ batch \in [left : Seq(Arrivals), some : BOOLEAN]
    /\ batchFut \in 0..MaxFetches
    /\ batchFut # 0 => outcome[batchFut] # "idle"
    /\ hasMore \in BOOLEAN
    /\ calls \in 0..MaxFetches
    /\ yielded \in Seq(Arrivals)
    /\ polled \in {"nothing", "item", "error", "end"}
    /\ arrived \in 0..MaxArrivals
    /\ mailbox \in Seq(Arrivals)
    /\ page \in [Requests -> Pages]

(* The page the awaited call will bring, or has brought.                   *)
Underway == IF batchFut = 0 THEN <<>> ELSE page[batchFut].messages

(* Until a call fails, what the stream has returned, holds, is about to    *)
(* receive and what the relay still has are all the messages there ever    *)
(* were, each once and in order (fetch.rs:53-103).                         *)
NothingSkipped ==
    (\A n \in 1..calls : outcome[n] \in {"pending", "ok"}) =>
        yielded \o batch.left \o Underway \o mailbox = [n \in 1..arrived |-> n]

(* Even when a call fails, with messages the relay may have handed out for *)
(* it, what the stream returned is in order and without gaps: the error is *)
(* not stepped over (fetch.rs:79-83).                                      *)
YieldedInOrder == yielded = [n \in 1..Len(yielded) |-> n]

(* fetch.rs:40-41 and 100-103: after an error the next poll returns None,  *)
(* and after None every poll does, without another call to the relay, even *)
(* if new messages have arrived.                                           *)
EndIsFinal ==
    [][(polled \in {"error", "end"}) =>
            polled' \in {polled, "end"} /\ yielded' = yielded /\ calls' = calls]_fetchVars

(* A consumer that keeps polling gets to the end of the stream: neither an *)
(* empty page nor a failed call leaves it waiting.                         *)
StreamEnds == <>(polled = "end")
=============================================================================
