----------------------- MODULE FetchMessageStreamProofs -----------------------
(***************************************************************************)
(* Proofs about FetchMessageStream: for every number of calls and of       *)
(* messages, pages of any size, and whatever a call may amount to.         *)
(***************************************************************************)
EXTENDS FetchMessageStream, SequenceTheorems, TLAPS

(* The messages 1 to k, in order.                                          *)
LEMMA InOrder ==
    ASSUME NEW s \in Seq(Nat), NEW k \in Nat
    PROVE  s = [n \in 1..k |-> n] <=> Len(s) = k /\ \A n \in 1..k : s[n] = n
  <1>1. s \in [1..Len(s) -> Nat] /\ Len(s) \in Nat /\ DOMAIN s = 1..Len(s)
    BY LenProperties
  <1>2. ASSUME s = [n \in 1..k |-> n] PROVE Len(s) = k /\ \A n \in 1..k : s[n] = n
    <2>1. DOMAIN s = 1..k
      BY <1>2
    <2>2. 1..Len(s) = 1..k
      BY <1>1, <2>1
    <2> QED
      BY <1>1, <1>2, <2>2
  <1>3. ASSUME Len(s) = k, \A n \in 1..k : s[n] = n PROVE s = [n \in 1..k |-> n]
    BY <1>1, <1>3
  <1> QED
    BY <1>2, <1>3

(* The front of a sequence that is in order is in order.                   *)
LEMMA FrontInOrder ==
    ASSUME NEW s \in Seq(Nat), NEW t \in Seq(Nat), NEW k \in Nat,
           s \o t = [n \in 1..k |-> n]
    PROVE  s = [n \in 1..Len(s) |-> n]
  <1>1. /\ s \o t \in Seq(Nat) /\ Len(s) \in Nat /\ Len(t) \in Nat
        /\ Len(s \o t) = Len(s) + Len(t)
        /\ \A i \in 1..Len(s) + Len(t) : (s \o t)[i] = IF i <= Len(s) THEN s[i] ELSE t[i - Len(s)]
    <2>1. Len(s) \in Nat /\ Len(t) \in Nat
      BY LenProperties
    <2> QED
      BY <2>1, ConcatProperties
  <1>2. Len(s \o t) = k /\ \A i \in 1..k : (s \o t)[i] = i
    BY <1>1, InOrder
  <1>3. \A i \in 1..Len(s) : s[i] = i
    BY <1>1, <1>2
  <1> QED
    BY <1>1, <1>3, InOrder

LEMMA AppendInOrder ==
    ASSUME NEW s \in Seq(Nat), NEW k \in Nat, s = [n \in 1..k |-> n]
    PROVE  Append(s, k + 1) = [n \in 1..k + 1 |-> n]
  <1>1. Len(s) = k /\ \A i \in 1..k : s[i] = i
    BY InOrder
  <1> DEFINE t == Append(s, k + 1)
  <1>2. /\ t \in Seq(Nat) /\ Len(t) = k + 1 /\ t[k + 1] = k + 1
        /\ \A i \in 1..k : t[i] = s[i]
    BY <1>1, AppendProperties
  <1> HIDE DEF t
  <1>3. \A i \in 1..k + 1 : t[i] = i
    BY <1>1, <1>2
  <1>4. k + 1 \in Nat
    OBVIOUS
  <1>5. t = [n \in 1..k + 1 |-> n]
    BY <1>2, <1>3, <1>4, InOrder
  <1> QED
    BY <1>5 DEF t

(* What is taken from the front of one sequence and put at the back of     *)
(* another stays where it is in the two together.                          *)
LEMMA MovedItem ==
    ASSUME NEW S, NEW s \in Seq(S), NEW t \in Seq(S), t # <<>>
    PROVE  /\ Append(s, Head(t)) \o Tail(t) = s \o t
           /\ Append(s, Head(t)) \in Seq(S) /\ Tail(t) \in Seq(S)
  <1>1. Head(t) \in S /\ Tail(t) \in Seq(S) /\ Append(s, Head(t)) \in Seq(S)
    BY HeadTailProperties, AppendProperties
  <1>2. Append(s, Head(t)) = s \o <<Head(t)>> /\ <<Head(t)>> \in Seq(S)
    BY <1>1, AppendIsConcat
  <1>3. <<Head(t)>> \o Tail(t) = t
    BY <1>1, HeadTailProperties, ConcatProperties, SeqEqual, LenProperties
  <1>4. (s \o <<Head(t)>>) \o Tail(t) = s \o (<<Head(t)>> \o Tail(t))
    BY <1>1, <1>2, ConcatAssociative
  <1> QED
    BY <1>1, <1>2, <1>3, <1>4

LEMMA AppendedAtTheEnd ==
    ASSUME NEW S, NEW s \in Seq(S), NEW t \in Seq(S), NEW e \in S
    PROVE  s \o Append(t, e) = Append(s \o t, e)
  <1>1. /\ Append(t, e) = t \o <<e>> /\ s \o t \in Seq(S) /\ <<e>> \in Seq(S)
        /\ Append(s \o t, e) = (s \o t) \o <<e>>
    BY ConcatProperties, AppendIsConcat
  <1> QED
    BY <1>1, ConcatAssociative
-----------------------------------------------------------------------------
(* The stream awaits the call it made last, after all others brought their *)
(* page; no call is open that it does not await.                           *)
CallInv ==
    /\ batchFut # 0 => batchFut = calls /\ ~batch.some
    /\ ~batch.some => batch.left = <<>>
    /\ \A n \in Requests : /\ outcome[n] = "idle" <=> n > calls
                           /\ outcome[n] = "pending" => n = batchFut
                           /\ n \in processed => n <= calls
                           /\ n \notin processed => page[n] = NoPage
    /\ batchFut # 0 \/ hasMore => \A n \in 1..calls : n # batchFut => outcome[n] = "ok"
    /\ polled \in {"error", "end"} => ~batch.some /\ batchFut = 0 /\ ~hasMore

NoneFailed == \A n \in 1..calls : outcome[n] \in {"pending", "ok"}

(* All messages there ever were, in order, unless a call failed; and what  *)
(* the stream returned or holds is in order all the same.                  *)
OrderInv ==
    /\ NoneFailed => yielded \o batch.left \o Underway \o mailbox = [n \in 1..arrived |-> n]
    /\ yielded \o batch.left = [n \in 1..Len(yielded \o batch.left) |-> n]

FetchInv == FetchTypeOK /\ CallInv /\ OrderInv

(* What the sequences and calls are, for the steps below.                  *)
LEMMA Typed ==
    ASSUME FetchTypeOK
    PROVE  /\ yielded \in Seq(Arrivals) /\ batch.left \in Seq(Arrivals)
           /\ Underway \in Seq(Arrivals) /\ mailbox \in Seq(Arrivals)
           /\ calls \in Nat /\ arrived \in Nat
           /\ batchFut # 0 => batchFut \in Requests /\ batchFut \in 1..MaxFetches
           /\ \A n \in Requests : page[n].messages \in Seq(Arrivals) /\ page[n].more \in BOOLEAN
           /\ 1..calls \subseteq Requests
  <1>1. MaxFetches \in Nat /\ MaxArrivals \in Nat /\ Requests = 1..MaxFetches
    BY FetchAssumption
  <1>2. batchFut # 0 => batchFut \in Requests /\ batchFut \in 1..MaxFetches
    BY <1>1 DEF FetchTypeOK
  <1>3. \A n \in Requests : page[n] \in Pages
    BY DEF FetchTypeOK
  <1>4. \A n \in Requests : page[n].messages \in Seq(Arrivals) /\ page[n].more \in BOOLEAN
    BY <1>3 DEF Pages
  <1>5. Underway \in Seq(Arrivals)
    BY <1>2, <1>4, EmptySeq DEF Underway
  <1> QED
    BY <1>1, <1>2, <1>4, <1>5 DEF FetchTypeOK

LEMMA SettledTyped ==
    ASSUME FetchTypeOK, NEW r \in Requests, NEW o, Settle({r}, o),
           o \in {"idle", "pending", "refused", "closed"} \cup Answers
    PROVE  /\ outcome' \in [Requests -> {"idle", "pending", "refused", "closed"} \cup Answers]
           /\ outcome'[r] = o
           /\ \A n \in Requests \ {r} : outcome'[n] = outcome[n]
  BY DEF FetchTypeOK, Settle

(* A step that leaves the calls and the relay alone.                       *)
LEMMA YieldItemKeeps ==
    ASSUME FetchInv, YieldItem
    PROVE  FetchInv'
  <1>1. /\ yielded' = Append(yielded, Head(batch.left)) /\ batch' = Batch(Tail(batch.left))
        /\ batch'.left = Tail(batch.left) /\ batch'.some
    BY DEF YieldItem, Batch
  <1>2. /\ yielded' \o batch'.left = yielded \o batch.left
        /\ yielded' \in Seq(Arrivals) /\ batch'.left \in Seq(Arrivals)
    <2>1. yielded \in Seq(Arrivals) /\ batch.left \in Seq(Arrivals) /\ batch.left # <<>>
      BY Typed DEF FetchInv, YieldItem
    <2>2. /\ Append(yielded, Head(batch.left)) \o Tail(batch.left) = yielded \o batch.left
          /\ Append(yielded, Head(batch.left)) \in Seq(Arrivals)
          /\ Tail(batch.left) \in Seq(Arrivals)
      BY <2>1, MovedItem
    <2> QED
      BY <1>1, <2>2
  <1>3. FetchTypeOK'
    BY <1>1, <1>2 DEF FetchInv, FetchTypeOK, YieldItem, Batch, rpcVars
  <1>4. batchFut = 0 /\ polled \notin {"error", "end"} /\ polled' = "item"
    BY DEF FetchInv, CallInv, YieldItem
  <1>5. CallInv'
    BY <1>1, <1>4 DEF FetchInv, CallInv, YieldItem, rpcVars
  <1>6. OrderInv'
    BY <1>2 DEF FetchInv, OrderInv, NoneFailed, Underway, YieldItem, rpcVars
  <1> QED
    BY <1>3, <1>5, <1>6 DEF FetchInv

LEMMA BatchDrainedKeeps ==
    ASSUME FetchInv, BatchDrained
    PROVE  FetchInv'
  <1>1. /\ batch'.left = <<>> /\ ~batch'.some /\ batch' \in [left : Seq(Arrivals), some : BOOLEAN]
        /\ batch'.left = batch.left
    BY EmptySeq DEF BatchDrained, NoBatch
  <1>2. FetchTypeOK'
    BY <1>1 DEF FetchInv, FetchTypeOK, BatchDrained, rpcVars
  <1>3. CallInv'
    BY <1>1 DEF FetchInv, CallInv, BatchDrained, rpcVars
  <1>4. OrderInv'
    BY <1>1 DEF FetchInv, OrderInv, NoneFailed, Underway, BatchDrained, rpcVars
  <1> QED
    BY <1>2, <1>3, <1>4 DEF FetchInv

(* The page that arrives follows on what the stream returned.              *)
LEMMA BatchArrivesKeeps ==
    ASSUME FetchInv, BatchArrives
    PROVE  FetchInv'
  <1>1. /\ batchFut \in Requests /\ batchFut = calls /\ batch.left = <<>>
        /\ Underway = page[batchFut].messages /\ Underway \in Seq(Arrivals)
    BY Typed DEF FetchInv, CallInv, BatchArrives, Underway
  <1>2. batch' = Batch(Underway) /\ batch'.left = Underway /\ batch'.some
    BY <1>1 DEF BatchArrives, Batch
  <1>3. FetchTypeOK'
    <2>1. batch' \in [left : Seq(Arrivals), some : BOOLEAN]
      BY <1>1, <1>2 DEF Batch
    <2>2. hasMore' \in BOOLEAN
      BY <1>1, Typed DEF FetchInv, BatchArrives
    <2>3. batchFut' = 0 /\ 0 \in 0..MaxFetches
      BY FetchAssumption DEF BatchArrives
    <2> QED
      BY <2>1, <2>2, <2>3 DEF FetchInv, FetchTypeOK, BatchArrives, rpcVars
  <1>4. NoneFailed /\ \A n \in 1..calls : outcome[n] = "ok"
    BY Typed DEF FetchInv, CallInv, NoneFailed, BatchArrives
  <1>5. CallInv'
    <2>1. \A n \in Requests : outcome[n] # "pending"
      BY <1>1 DEF FetchInv, CallInv, BatchArrives
    <2>2. polled' \notin {"error", "end"}
      BY DEF FetchInv, CallInv, BatchArrives
    <2> QED
      BY <1>2, <1>4, <2>1, <2>2 DEF FetchInv, CallInv, BatchArrives, rpcVars
  <1>6. Underway' = <<>>
    BY DEF BatchArrives, Underway
  <1>7. /\ yielded \o batch.left = yielded
        /\ (yielded \o Underway) \o <<>> = yielded \o Underway
        /\ yielded \o Underway \in Seq(Arrivals)
    BY <1>1, Typed, ConcatEmptySeq, ConcatProperties DEF FetchInv
  <1>8. (yielded \o Underway) \o mailbox = [n \in 1..arrived |-> n]
    BY <1>4, <1>7 DEF FetchInv, OrderInv
  <1>9. yielded \o Underway = [n \in 1..Len(yielded \o Underway) |-> n]
    <2>1. Arrivals \subseteq Nat
      BY FetchAssumption DEF Arrivals
    <2>2. yielded \o Underway \in Seq(Nat) /\ mailbox \in Seq(Nat) /\ arrived \in Nat
      BY <1>7, <2>1, Typed, SeqMonotonic DEF FetchInv
    <2> QED
      BY <1>8, <2>2, FrontInOrder
  <1>10. OrderInv'
    BY <1>2, <1>6, <1>7, <1>8, <1>9 DEF OrderInv, BatchArrives
  <1> QED
    BY <1>3, <1>5, <1>10 DEF FetchInv

LEMMA BatchFailsKeeps ==
    ASSUME FetchInv, BatchFails
    PROVE  FetchInv'
  <1>1. /\ batchFut \in Requests /\ batchFut = calls /\ batch.left = <<>>
        /\ batchFut \in 1..calls
    BY Typed, FetchAssumption DEF FetchInv, CallInv, BatchFails
  <1>2. batch'.left = <<>> /\ ~batch'.some /\ batch' \in [left : Seq(Arrivals), some : BOOLEAN]
    BY EmptySeq DEF BatchFails, NoBatch
  <1>3. FetchTypeOK'
    <2>1. batchFut' = 0 /\ 0 \in 0..MaxFetches
      BY FetchAssumption DEF BatchFails
    <2> QED
      BY <1>2, <2>1 DEF FetchInv, FetchTypeOK, BatchFails, rpcVars
  <1>4. CallInv'
    BY <1>1, <1>2 DEF FetchInv, CallInv, BatchFails, rpcVars
  <1>5. ~NoneFailed'
    BY <1>1 DEF NoneFailed, BatchFails, rpcVars
  <1>6. OrderInv'
    BY <1>1, <1>2, <1>5 DEF FetchInv, OrderInv, BatchFails
  <1> QED
    BY <1>3, <1>4, <1>6 DEF FetchInv

LEMMA RequestBatchKeeps ==
    ASSUME FetchInv, RequestBatch
    PROVE  FetchInv'
  <1> DEFINE r == calls + 1
  <1>1. r \in Requests /\ r \in 1..MaxFetches /\ calls \in Nat
    BY FetchAssumption DEF FetchInv, FetchTypeOK, RequestBatch
  <1>2. PICK o \in {"pending", "refused"} : Settle({r}, o)
    BY DEF RequestBatch, Make
  <1>3. calls' = r /\ batchFut' = r /\ processed' = processed /\ outcome[r] = "idle"
    BY DEF RequestBatch, Make
  <1> HIDE DEF r
  <1>4. /\ outcome' \in [Requests -> {"idle", "pending", "refused", "closed"} \cup Answers]
        /\ outcome'[r] = o /\ \A n \in Requests \ {r} : outcome'[n] = outcome[n]
    BY <1>1, <1>2, SettledTyped DEF FetchInv
  <1>5. FetchTypeOK'
    BY <1>1, <1>3, <1>4 DEF FetchInv, FetchTypeOK, RequestBatch
  <1>6. /\ ~batch.some /\ batchFut = 0 /\ hasMore /\ batch.left = <<>>
        /\ \A n \in Requests : outcome[n] # "pending"
        /\ \A n \in 1..calls : outcome[n] = "ok" /\ n \in Requests
    BY Typed, FetchAssumption DEF FetchInv, CallInv, RequestBatch
  <1>7. r = calls + 1 /\ r \notin processed /\ page[r] = NoPage
    BY <1>1 DEF r, FetchInv, CallInv
  <1>8. CallInv'
    <2>1. ASSUME NEW n \in Requests
          PROVE  /\ outcome'[n] = "idle" <=> n > r
                 /\ outcome'[n] = "pending" => n = r
                 /\ n \in processed => n <= r
                 /\ n \notin processed => page[n] = NoPage
      BY <1>1, <1>3, <1>4, <1>6, <1>7, FetchAssumption DEF FetchInv, CallInv
    <2>2. ASSUME NEW n \in 1..r, n # r PROVE outcome'[n] = "ok"
      <3>1. n \in 1..calls
        BY <1>1, <1>7, <2>2
      <3> QED
        BY <1>4, <1>6, <2>2, <3>1
    <2>3. polled \notin {"error", "end"}
      BY <1>6 DEF FetchInv, CallInv
    <2> QED
      BY <1>3, <1>6, <2>1, <2>2, <2>3 DEF CallInv, RequestBatch
  <1>9. Underway = <<>> /\ Underway' = <<>>
    BY <1>1, <1>3, <1>6, <1>7, FetchAssumption DEF Underway, RequestBatch, NoPage
  <1>10. NoneFailed
    BY <1>6 DEF NoneFailed
  <1>11. OrderInv'
    BY <1>9, <1>10 DEF FetchInv, OrderInv, RequestBatch
  <1> QED
    BY <1>5, <1>8, <1>11 DEF FetchInv

LEMMA YieldEndKeeps ==
    ASSUME FetchInv, YieldEnd
    PROVE  FetchInv'
  <1>1. FetchTypeOK'
    BY DEF FetchInv, FetchTypeOK, YieldEnd, rpcVars
  <1>2. CallInv'
    BY DEF FetchInv, CallInv, YieldEnd, rpcVars
  <1>3. OrderInv'
    BY DEF FetchInv, OrderInv, NoneFailed, Underway, YieldEnd, rpcVars
  <1> QED
    BY <1>1, <1>2, <1>3 DEF FetchInv

LEMMA ArriveKeeps ==
    ASSUME FetchInv, Arrive
    PROVE  FetchInv'
  <1>1. arrived + 1 \in Arrivals /\ arrived' = arrived + 1 /\ arrived' \in 0..MaxArrivals
        /\ mailbox' = Append(mailbox, arrived + 1) /\ arrived \in Nat
    BY FetchAssumption DEF FetchInv, FetchTypeOK, Arrive, Arrivals
  <1>2. mailbox' \in Seq(Arrivals)
    BY <1>1, AppendProperties DEF FetchInv, FetchTypeOK
  <1>3. FetchTypeOK'
    BY <1>1, <1>2 DEF FetchInv, FetchTypeOK, Arrive, rpcVars, streamVars
  <1>4. CallInv'
    BY DEF FetchInv, CallInv, Arrive, rpcVars, streamVars
  <1>5. Underway' = Underway /\ NoneFailed' = NoneFailed
        /\ yielded' = yielded /\ batch' = batch
    BY DEF Underway, NoneFailed, Arrive, rpcVars, streamVars
  <1> DEFINE before == yielded \o batch.left \o Underway
  <1>6. before \in Seq(Arrivals) /\ before \o mailbox \in Seq(Arrivals)
    BY Typed, ConcatProperties DEF FetchInv
  <1>7. before \o mailbox' = Append(before \o mailbox, arrived + 1)
    <2>1. mailbox \in Seq(Arrivals)
      BY Typed DEF FetchInv
    <2> HIDE DEF before
    <2> QED
      BY <1>1, <1>6, <2>1, AppendedAtTheEnd
  <1>8. ASSUME NoneFailed PROVE before \o mailbox' = [n \in 1..arrived' |-> n]
    <2>1. before \o mailbox = [n \in 1..arrived |-> n]
      BY <1>8 DEF FetchInv, OrderInv
    <2>2. Arrivals \subseteq Nat
      BY FetchAssumption DEF Arrivals
    <2>3. before \o mailbox \in Seq(Nat)
      BY <1>6, <2>2, SeqMonotonic
    <2> HIDE DEF before
    <2> QED
      BY <1>1, <1>7, <2>1, <2>3, AppendInOrder
  <1>9. OrderInv'
    BY <1>5, <1>8 DEF FetchInv, OrderInv
  <1> QED
    BY <1>3, <1>4, <1>9 DEF FetchInv
-----------------------------------------------------------------------------
(* The page of a call is cut from the front of the mailbox.                *)
LEMMA PageMade ==
    ASSUME FetchTypeOK, NEW r \in Requests, MakePage(r)
    PROVE  /\ page' \in [Requests -> Pages] /\ mailbox' \in Seq(Arrivals)
           /\ page'[r].messages \o mailbox' = mailbox
           /\ page'[r].messages \in Seq(Arrivals)
           /\ \A n \in Requests \ {r} : page'[n] = page[n]
  <1>1. PICK k \in 0..Len(mailbox) :
            /\ page' = [page EXCEPT ![r] = [messages |-> SubSeq(mailbox, 1, k),
                                            more |-> k < Len(mailbox)]]
            /\ mailbox' = SubSeq(mailbox, k + 1, Len(mailbox))
    BY DEF MakePage
  <1>2. mailbox \in Seq(Arrivals) /\ Len(mailbox) \in Nat /\ k \in Nat /\ k <= Len(mailbox)
    BY LenProperties DEF FetchTypeOK
  <1>3. \A i \in 1..Len(mailbox) : mailbox[i] \in Arrivals
    BY <1>2, ElementOfSeq
  <1>4. SubSeq(mailbox, 1, k) \in Seq(Arrivals)
    BY <1>2, <1>3, SubSeqProperties
  <1>5. SubSeq(mailbox, k + 1, Len(mailbox)) \in Seq(Arrivals)
    BY <1>2, <1>3, SubSeqProperties
  <1>6. SubSeq(mailbox, 1, k) \o SubSeq(mailbox, k + 1, Len(mailbox)) = mailbox
    <2>1. /\ 1 \in 1..Len(mailbox) + 1 /\ k \in (1 - 1)..Len(mailbox)
          /\ Len(mailbox) \in k..Len(mailbox)
      BY <1>2
    <2>2. SubSeq(mailbox, 1, k) \o SubSeq(mailbox, k + 1, Len(mailbox))
              = SubSeq(mailbox, 1, Len(mailbox))
      BY <1>2, <2>1, ConcatAdjacentSubSeq
    <2> QED
      BY <1>2, <2>2, SubSeqFull
  <1> DEFINE p == [messages |-> SubSeq(mailbox, 1, k), more |-> k < Len(mailbox)]
  <1>7. p \in Pages /\ p.messages = SubSeq(mailbox, 1, k)
    BY <1>4 DEF Pages
  <1>8. page' = [page EXCEPT ![r] = p]
    BY <1>1
  <1> HIDE DEF p
  <1>9. page' \in [Requests -> Pages] /\ page'[r] = p
        /\ \A n \in Requests \ {r} : page'[n] = page[n]
    BY <1>7, <1>8 DEF FetchTypeOK
  <1> QED
    BY <1>1, <1>4, <1>5, <1>6, <1>7, <1>9

LEMMA RelayProcessesKeeps ==
    ASSUME FetchInv, NEW r \in Requests, RelayProcesses(r)
    PROVE  FetchInv'
  <1>1. /\ r = batchFut /\ batchFut # 0 /\ r \notin processed /\ page[r] = NoPage
        /\ outcome' = outcome /\ processed' = processed \cup {r} /\ r <= calls
    BY FetchAssumption
       DEF FetchInv, CallInv, FetchTypeOK, RelayProcesses, Process, Pending
  <1>2. /\ page' \in [Requests -> Pages] /\ mailbox' \in Seq(Arrivals)
        /\ page'[r].messages \o mailbox' = mailbox /\ page'[r].messages \in Seq(Arrivals)
        /\ \A n \in Requests \ {r} : page'[n] = page[n]
    BY PageMade DEF FetchInv, RelayProcesses
  <1>3. FetchTypeOK'
    BY <1>1, <1>2 DEF FetchInv, FetchTypeOK, RelayProcesses, streamVars
  <1>4. CallInv'
    BY <1>1, <1>2 DEF FetchInv, CallInv, RelayProcesses, streamVars
  <1>5. Underway = <<>> /\ Underway' = page'[r].messages
    BY <1>1 DEF Underway, NoPage, RelayProcesses, streamVars
  <1>6. yielded \o batch.left \in Seq(Arrivals)
    BY Typed, ConcatProperties DEF FetchInv
  <1>7. yielded \o batch.left \o Underway' \o mailbox'
            = yielded \o batch.left \o Underway \o mailbox
    <2> DEFINE before == yielded \o batch.left
    <2>1. before \in Seq(Arrivals)
      BY <1>6
    <2> HIDE DEF before
    <2>2. (before \o Underway') \o mailbox' = before \o (Underway' \o mailbox')
      <3>1. Underway' \in Seq(Arrivals) /\ mailbox' \in Seq(Arrivals)
        BY <1>2, <1>5
      <3> QED
        BY <2>1, <3>1, ConcatAssociative
    <2>3. before \o Underway = before
      BY <1>5, <2>1, ConcatEmptySeq
    <2> QED
      BY <1>2, <1>5, <2>2, <2>3 DEF before
  <1>8. NoneFailed' = NoneFailed
    BY <1>1 DEF NoneFailed, RelayProcesses, streamVars
  <1>9. OrderInv'
    BY <1>7, <1>8 DEF FetchInv, OrderInv, RelayProcesses, streamVars
  <1> QED
    BY <1>3, <1>4, <1>9 DEF FetchInv

(* A call completes that the stream still awaits.                          *)
LEMMA CompletedKeeps ==
    ASSUME FetchInv, UNCHANGED streamVars, UNCHANGED <<arrived, mailbox, page, processed>>,
           outcome' \in [Requests -> {"idle", "pending", "refused", "closed"} \cup Answers],
           \A n \in Requests : outcome'[n] = outcome[n]
                               \/ (outcome[n] = "pending" /\ outcome'[n] \notin {"idle", "pending"})
    PROVE  FetchInv'
  <1>1. FetchTypeOK'
    BY Typed DEF FetchInv, FetchTypeOK, streamVars
  <1>2. \A n \in 1..calls : n \in Requests
    BY Typed DEF FetchInv
  <1>3. CallInv'
    BY <1>2 DEF FetchInv, CallInv, streamVars
  <1>4. NoneFailed' => NoneFailed
    BY <1>2 DEF NoneFailed, streamVars
  <1>5. OrderInv'
    BY <1>4 DEF FetchInv, OrderInv, Underway, streamVars
  <1> QED
    BY <1>1, <1>3, <1>5 DEF FetchInv

LEMMA CallCompletesKeeps ==
    ASSUME FetchInv, NEW r \in Requests, CallCompletes(r)
    PROVE  FetchInv'
  <1>1. PICK o \in Answers \cup {"refused"} : Settle({r}, o)
    BY DEF CallCompletes, Answer, Refuse
  <1>2. outcome[r] = "pending" /\ processed' = processed
    BY DEF CallCompletes, Answer, Refuse, Pending
  <1>3. o \notin {"idle", "pending"}
    BY OutcomesDiffer
  <1>4. /\ outcome' \in [Requests -> {"idle", "pending", "refused", "closed"} \cup Answers]
        /\ outcome'[r] = o /\ \A n \in Requests \ {r} : outcome'[n] = outcome[n]
    BY <1>1, SettledTyped DEF FetchInv
  <1>5. UNCHANGED streamVars /\ UNCHANGED <<arrived, mailbox, page, processed>>
    BY <1>2 DEF CallCompletes
  <1>6. \A n \in Requests : outcome'[n] = outcome[n]
            \/ (outcome[n] = "pending" /\ outcome'[n] \notin {"idle", "pending"})
    BY <1>2, <1>3, <1>4
  <1> QED
    BY <1>4, <1>5, <1>6, CompletedKeeps

(* A connection that closes fails or refuses calls, and the relay only     *)
(* gets to calls that fail.                                                *)
LEMMA Closed ==
    ASSUME FetchTypeOK, Close
    PROVE  /\ outcome' \in [Requests -> {"idle", "pending", "refused", "closed"} \cup Answers]
           /\ \A n \in Requests : outcome'[n] = outcome[n]
                  \/ (outcome[n] = "pending" /\ outcome'[n] \in {"closed", "refused"})
           /\ processed \subseteq processed' /\ processed' \subseteq Requests
           /\ \A n \in processed' \ processed :
                  n \in Pending /\ outcome'[n] = "closed"
  <1>1. PICK failed, seen, unbegun \in SUBSET Pending :
        /\ seen \subseteq failed
        /\ outcome' = [r \in Requests |->
                          CASE r \in failed  -> "closed"
                            [] r \in unbegun -> "refused"
                            [] OTHER         -> outcome[r]]
        /\ unbegun \cap (failed \cup processed) = {}
        /\ processed' = processed \cup seen
    BY DEF Close
  <1>2. ASSUME NEW n \in Requests
        PROVE  /\ n \in failed => outcome'[n] = "closed"
               /\ n \in unbegun => outcome'[n] = "refused"
               /\ n \notin failed \cup unbegun => outcome'[n] = outcome[n]
    BY <1>1
  <1>3. \A n \in Requests : outcome'[n] = outcome[n]
                  \/ (outcome[n] = "pending" /\ outcome'[n] \in {"closed", "refused"})
    <2>1. \A n \in failed \cup unbegun : outcome[n] = "pending"
      BY DEF Pending
    <2> QED
      BY <1>2, <2>1
  <1>4. outcome' \in [Requests -> {"idle", "pending", "refused", "closed"} \cup Answers]
    BY <1>1, <1>3 DEF FetchTypeOK
  <1>5. seen \subseteq Requests
    BY DEF Pending
  <1> QED
    BY <1>1, <1>2, <1>3, <1>4, <1>5 DEF FetchTypeOK

LEMMA ConnectionClosesKeeps ==
    ASSUME FetchInv, ConnectionCloses
    PROVE  FetchInv'
  <1>1. /\ outcome' \in [Requests -> {"idle", "pending", "refused", "closed"} \cup Answers]
        /\ \A n \in Requests : outcome'[n] = outcome[n]
                  \/ (outcome[n] = "pending" /\ outcome'[n] \in {"closed", "refused"})
        /\ processed \subseteq processed' /\ processed' \subseteq Requests
        /\ \A n \in processed' \ processed : n \in Pending /\ outcome'[n] = "closed"
    BY Closed DEF FetchInv, ConnectionCloses
  <1>2. CASE processed' = processed /\ UNCHANGED <<mailbox, page>>
    BY <1>1, <1>2, CompletedKeeps DEF ConnectionCloses
  <1>3. ASSUME NEW r \in processed' \ processed, MakePage(r) PROVE FetchInv'
    <2>1. r \in Requests /\ outcome[r] = "pending" /\ r = batchFut /\ outcome'[r] = "closed"
          /\ r \in 1..calls /\ processed' = processed \cup {r}
      <3>1. \A n \in processed' \ processed : n \in Requests /\ outcome[n] = "pending"
        BY <1>1 DEF Pending
      <3>2. \A n \in processed' \ processed : n = batchFut
        BY <3>1 DEF FetchInv, CallInv
      <3>3. r \in 1..calls
        BY <1>3, <3>1, <3>2, FetchAssumption DEF FetchInv, CallInv, FetchTypeOK
      <3> QED
        BY <1>1, <1>3, <3>1, <3>2, <3>3
    <2>2. /\ page' \in [Requests -> Pages] /\ mailbox' \in Seq(Arrivals)
          /\ \A n \in Requests \ {r} : page'[n] = page[n]
      BY <1>3, <2>1, PageMade DEF FetchInv
    <2>3. FetchTypeOK'
      BY <1>1, <2>1, <2>2 DEF FetchInv, FetchTypeOK, ConnectionCloses, streamVars
    <2>4. \A n \in 1..calls : n \in Requests
      BY Typed DEF FetchInv
    <2>5. CallInv'
      BY <1>1, <2>1, <2>2, <2>4, FetchAssumption
         DEF FetchInv, CallInv, ConnectionCloses, streamVars
    <2>6. ~NoneFailed'
      BY <2>1 DEF NoneFailed, ConnectionCloses, streamVars
    <2>7. OrderInv'
      BY <2>6 DEF FetchInv, OrderInv, ConnectionCloses, streamVars
    <2> QED
      BY <2>3, <2>5, <2>7 DEF FetchInv
  <1> QED
    BY <1>2, <1>3 DEF ConnectionCloses

LEMMA FetchStutterKeeps ==
    ASSUME FetchInv, UNCHANGED fetchVars
    PROVE  FetchInv'
  BY DEF FetchInv, FetchTypeOK, CallInv, OrderInv, NoneFailed, Underway, fetchVars, rpcVars,
         streamVars

LEMMA FetchInvariant == FetchSpec => []FetchInv
  <1>1. FetchInit => FetchInv
    <2> SUFFICES ASSUME FetchInit PROVE FetchInv
      OBVIOUS
    <2> USE FetchAssumption DEF FetchInit, RpcInit
    <2>1. <<>> \in Seq(Arrivals) /\ <<>> \o <<>> = <<>> /\ Len(<<>>) = 0
      BY EmptySeq, ConcatEmptySeq
    <2>2. FetchTypeOK
      BY <2>1 DEF FetchTypeOK, NoBatch, NoPage, Pages
    <2>3. CallInv
      BY DEF CallInv, NoBatch
    <2>4. <<>> = [n \in 1..0 |-> n]
      OBVIOUS
    <2>5. OrderInv
      BY <2>1, <2>4 DEF OrderInv, Underway, NoBatch
    <2> QED
      BY <2>2, <2>3, <2>5 DEF FetchInv
  <1>2. ASSUME FetchInv, [FetchNext]_fetchVars PROVE FetchInv'
    BY <1>2, YieldItemKeeps, BatchDrainedKeeps, BatchArrivesKeeps, BatchFailsKeeps,
       RequestBatchKeeps, YieldEndKeeps, ArriveKeeps, RelayProcessesKeeps, CallCompletesKeeps,
       ConnectionClosesKeeps, FetchStutterKeeps DEF FetchNext, PollNext
  <1> QED
    BY <1>1, <1>2, PTL DEF FetchSpec
-----------------------------------------------------------------------------
(* The variables have their types.                                         *)
THEOREM FetchTypeCorrect == FetchSpec => []FetchTypeOK
  <1>1. FetchInv => FetchTypeOK
    BY DEF FetchInv
  <1> QED
    BY <1>1, FetchInvariant, PTL

(* Until a call fails no message is lost, doubled or out of order.         *)
THEOREM NothingSkippedCorrect == FetchSpec => []NothingSkipped
  <1>1. FetchInv => NothingSkipped
    BY DEF FetchInv, OrderInv, NoneFailed, NothingSkipped
  <1> QED
    BY <1>1, FetchInvariant, PTL

(* What the stream returned is in order, even when a call failed.          *)
THEOREM YieldedInOrderCorrect == FetchSpec => []YieldedInOrder
  <1>1. ASSUME FetchInv PROVE YieldedInOrder
    <2> DEFINE held == yielded \o batch.left
    <2>1. Arrivals \subseteq Nat
      BY FetchAssumption DEF Arrivals
    <2>2. yielded \in Seq(Nat) /\ batch.left \in Seq(Nat)
      BY <1>1, <2>1, Typed, SeqMonotonic DEF FetchInv
    <2>3. held \in Seq(Nat) /\ Len(held) \in Nat
      BY <2>2, ConcatProperties, LenProperties
    <2>4. held = [n \in 1..Len(held) |-> n]
      BY <1>1 DEF FetchInv, OrderInv
    <2> QED
      BY <2>2, <2>3, <2>4, FrontInOrder DEF YieldedInOrder
  <1> QED
    BY <1>1, FetchInvariant, PTL

(* After an error or the end the stream does nothing but end.              *)
THEOREM EndIsFinalCorrect == FetchSpec => EndIsFinal
  <1>1. ASSUME FetchInv, [FetchNext]_fetchVars, polled \in {"error", "end"}
        PROVE  polled' \in {polled, "end"} /\ yielded' = yielded /\ calls' = calls
    <2>1. ~batch.some /\ batchFut = 0 /\ ~hasMore
      BY <1>1 DEF FetchInv, CallInv
    <2>2. CASE PollNext
      BY <2>1, <2>2 DEF PollNext, YieldItem, BatchDrained, BatchArrives, BatchFails,
                        RequestBatch, YieldEnd
    <2>3. CASE UNCHANGED streamVars
      BY <2>3 DEF streamVars
    <2> QED
      BY <1>1, <2>2, <2>3 DEF FetchNext, ConnectionCloses, Arrive, RelayProcesses,
                             CallCompletes, fetchVars
  <1>2. FetchInv /\ [FetchNext]_fetchVars =>
            (polled \in {"error", "end"} =>
                polled' \in {polled, "end"} /\ yielded' = yielded /\ calls' = calls)
    BY <1>1
  <1> QED
    BY <1>2, FetchInvariant, PTL DEF FetchSpec, EndIsFinal
-----------------------------------------------------------------------------
(* What every user of at-most-once calls is promised: an answer is that of *)
(* a call the relay processed, and a refused one can be made again.        *)
THEOREM PromisedCorrect == RpcSpec => []Promised
  <1> USE OutcomesDiffer
  <1>1. RpcInit => Promised
    BY DEF RpcInit, Promised
  <1>2. ASSUME Promised, [RpcNext]_rpcVars, NEW q \in Requests
        PROVE  /\ outcome'[q] \in Answers => q \in processed'
               /\ outcome'[q] \in {"idle", "refused"} => q \notin processed'
    <2>1. /\ outcome[q] \in Answers => q \in processed
          /\ outcome[q] \in {"idle", "refused"} => q \notin processed
      BY <1>2 DEF Promised
    <2>2. ASSUME NEW r \in Requests, Make(r) \/ Process(r) \/ Answer(r) \/ Refuse(r)
          PROVE  /\ outcome'[q] \in Answers => q \in processed'
                 /\ outcome'[q] \in {"idle", "refused"} => q \notin processed'
      <3>1. CASE Make(r)
        BY <2>1, <3>1 DEF Make, Settle
      <3>2. CASE Process(r)
        BY <2>1, <3>2 DEF Process, Pending
      <3>3. CASE Answer(r)
        BY <2>1, <3>3 DEF Answer, Settle, Pending
      <3>4. CASE Refuse(r)
        BY <2>1, <3>4 DEF Refuse, Settle, Pending
      <3> QED
        BY <2>2, <3>1, <3>2, <3>3, <3>4
    <2>3. CASE Close
      <3>1. PICK failed, seen, unbegun \in SUBSET Pending :
               /\ seen \subseteq failed /\ unbegun \cap (failed \cup processed) = {}
               /\ outcome' = [r \in Requests |-> CASE r \in failed  -> "closed"
                                                   [] r \in unbegun -> "refused"
                                                   [] OTHER         -> outcome[r]]
               /\ processed' = processed \cup seen
        BY <2>3 DEF Close
      <3> QED
        BY <2>1, <3>1 DEF Pending
    <2>4. CASE UNCHANGED rpcVars
      BY <2>1, <2>4 DEF rpcVars
    <2> QED
      BY <1>2, <2>2, <2>3, <2>4 DEF RpcNext
  <1>3. Promised /\ [RpcNext]_rpcVars => Promised'
    BY <1>2 DEF Promised
  <1> QED
    BY <1>1, <1>3, PTL DEF RpcSpec

(* And what its caller was told stays so.                                  *)
THEOREM ToldOnceCorrect == RpcSpec => ToldOnce
  <1>1. ASSUME [RpcNext]_rpcVars, NEW q \in Requests, outcome[q] \notin {"idle", "pending"}
        PROVE  outcome'[q] = outcome[q]
    <2>1. CASE Close
      <3>1. PICK failed, unbegun \in SUBSET Pending :
               outcome' = [r \in Requests |-> CASE r \in failed  -> "closed"
                                                [] r \in unbegun -> "refused"
                                                [] OTHER         -> outcome[r]]
        BY <2>1 DEF Close
      <3> QED
        BY <1>1, <3>1 DEF Pending
    <2> QED
      BY <1>1, <2>1 DEF RpcNext, Make, Process, Answer, Refuse, Settle, Pending, rpcVars
  <1>2. [RpcNext]_rpcVars =>
           [\A r \in Requests :
               outcome[r] \notin {"idle", "pending"} => outcome'[r] = outcome[r]]_rpcVars
    BY <1>1
  <1> QED
    BY <1>2, PTL DEF RpcSpec, ToldOnce
=============================================================================
