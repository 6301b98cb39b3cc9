------------------------- MODULE RpcValidationProofs -------------------------
(***************************************************************************)
(* Proofs about RpcValidation: for every set of topics and ids, every      *)
(* limit and every batch.                                                  *)
(***************************************************************************)
EXTENDS RpcValidation, WellFoundedInduction, TLAPS

LEMMA MinOfNaturals ==
    ASSUME NEW S, S \subseteq Nat, S # {}
    PROVE  Min(S) \in S
  <1> DEFINE Less == {ss \in Nat \X Nat : ss[1] < ss[2]}
  <1>1. IsWellFoundedOn(Less, Nat)
    BY NatLessThanWellFounded DEF OpToRel
  <1>2. PICK x \in S : \A y \in S : <<y, x>> \notin Less
    BY <1>1, WFMin
  <1>3. ASSUME NEW y \in S PROVE x <= y
    <2>1. x \in Nat /\ y \in Nat /\ <<y, x>> \in Nat \X Nat
      OBVIOUS
    <2>2. ~(y < x)
      BY <1>2, <2>1
    <2> QED
      BY <2>1, <2>2
  <1> QED
    BY <1>3 DEF Min

(* The sizes of the requests of each kind.                                 *)
LEMMA RequestsTold ==
    ASSUME NEW r \in Requests
    PROVE  /\ r.id \in Ids /\ r.version \in {"2.0", "1.0"}
           /\ r.method \in Singles \cup Batches \cup Watches
           /\ \E n \in Nat : r.items \in [1..n -> Items] /\ n \in ItemCounts(r.method)
           /\ r = [id |-> r.id, version |-> r.version, method |-> r.method, items |-> r.items]
  <1>1. PICK method \in Singles \cup Batches \cup Watches :
            r \in [id : Ids, version : {"2.0", "1.0"}, method : {method},
                   items : UNION {[1..n -> Items] : n \in ItemCounts(method)}]
    BY DEF Requests
  <1>2. r.method = method
    BY <1>1
  <1>3. ItemCounts(method) \subseteq Nat
    BY ValidationAssumption DEF ItemCounts
  <1> QED
    BY <1>1, <1>2, <1>3

LEMMA ItemVerdicts ==
    ASSUME NEW method, NEW item \in Items
    PROVE  ValidateItem(method, item) \in {"ok"} \cup Errors
  <1>1. \A t \in Topics : /\ DecodedTopic(t) \in {"ok"} \cup Errors
                          /\ DecodedId(t) \in {"ok"} \cup Errors
    BY DEF DecodedTopic, DecodedId, Decode, Errors
  <1>2. item.topic \in Topics /\ item.subscription \in Topics
    BY DEF Items
  <1> QED
    BY <1>1, <1>2 DEF ValidateItem

LEMMA ItemsVerdict ==
    ASSUME NEW n \in Nat, NEW items \in [1..n -> Items], NEW method
    PROVE  /\ ValidateItems(method, items) \in {"ok"} \cup Errors
           /\ Faulty(method, items) = {} => ValidateItems(method, items) = "ok"
           /\ Faulty(method, items) # {} =>
                /\ Min(Faulty(method, items)) \in Faulty(method, items)
                /\ ValidateItems(method, items) # "ok"
  <1> DEFINE F == Faulty(method, items)
  <1>1. F \subseteq 1..n /\ F \subseteq Nat
    BY DEF Faulty
  <1>2. CASE F = {}
    BY <1>2 DEF ValidateItems
  <1>3. CASE F # {}
    <2>1. Min(F) \in F
      BY <1>1, <1>3, MinOfNaturals
    <2>2. Min(F) \in 1..n /\ ValidateItem(method, items[Min(F)]) # "ok"
      BY <1>1, <2>1 DEF Faulty
    <2>3. ValidateItem(method, items[Min(F)]) \in {"ok"} \cup Errors
      BY <2>2, ItemVerdicts
    <2> QED
      BY <1>3, <2>1, <2>2, <2>3 DEF ValidateItems
  <1> QED
    BY <1>2, <1>3

LEMMA Verdicts ==
    ASSUME NEW r \in Requests
    PROVE  Validate(r) \in {"ok"} \cup Errors
  <1>1. PICK n \in Nat : r.items \in [1..n -> Items]
    BY RequestsTold
  <1>2. ValidateItems(r.method, r.items) \in {"ok"} \cup Errors
    BY <1>1, ItemsVerdict
  <1>3. r.method \in Singles \cup Batches \cup Watches
    BY RequestsTold
  <1>4. ValidateParams(r.method, r.items) \in {"ok"} \cup Errors
    BY <1>2, <1>3 DEF ValidateParams, Errors
  <1> QED
    BY <1>4 DEF Validate, Errors

(* The request that a server makes of a message is one with one item.      *)
LEMMA ForwardedIsRequest ==
    ASSUME NEW r \in Requests, r.method = "publish",
           NEW id \in Ids, NEW subscription \in Topics
    PROVE  /\ AsSubscriptionRequest(r, id, subscription) \in Requests
           /\ r.items[1] \in Items
  <1>1. PICK n \in Nat : r.items \in [1..n -> Items] /\ n \in ItemCounts(r.method)
    BY RequestsTold
  <1>2. n = 1
    BY <1>1 DEF ItemCounts, Singles, Watches
  <1>3. r.items[1] \in Items
    BY <1>1, <1>2
  <1> DEFINE items == <<[topic |-> r.items[1].topic, subscription |-> subscription]>>
  <1>4. items \in [1..1 -> Items]
    BY <1>3 DEF Items
  <1>5. 1 \in ItemCounts("subscription") /\ "subscription" \in Singles
    BY DEF ItemCounts, Singles, Watches
  <1> HIDE DEF items
  <1>6. [id |-> id, version |-> "2.0", method |-> "subscription", items |-> items]
            \in [id : Ids, version : {"2.0", "1.0"}, method : {"subscription"},
                 items : UNION {[1..k -> Items] : k \in ItemCounts("subscription")}]
    BY <1>4, <1>5
  <1> QED
    BY <1>3, <1>5, <1>6 DEF Requests, AsSubscriptionRequest, items

(* The reply is the verdict on the request, as long as it stands.          *)
RpcInv ==
    /\ RpcTypeOK
    /\ reply # "none" => reply = Validate(request)

LEMMA RpcInvariant == RpcSpec => []RpcInv
  <1>1. RpcInit => RpcInv
    BY DEF RpcInit, RpcInv, RpcTypeOK
  <1>2. RpcInv /\ [RpcNext]_rpcVars => RpcInv'
    <2> SUFFICES ASSUME RpcInv, [RpcNext]_rpcVars PROVE RpcInv'
      OBVIOUS
    <2>1. CASE Answer
      BY <2>1, Verdicts DEF Answer, RpcInv, RpcTypeOK
    <2>2. CASE Forward
      BY <2>2, ForwardedIsRequest DEF Forward, Generated, RpcInv, RpcTypeOK
    <2>3. CASE UNCHANGED rpcVars
      BY <2>3 DEF rpcVars, RpcInv, RpcTypeOK
    <2> QED
      BY <2>1, <2>2, <2>3 DEF RpcNext
  <1> QED
    BY <1>1, <1>2, PTL DEF RpcSpec

(* The request is one of those met, the reply a verdict on it.             *)
THEOREM RpcTypeCorrect == RpcSpec => []RpcTypeOK
  <1>1. RpcInv => RpcTypeOK
    BY DEF RpcInv
  <1> QED
    BY <1>1, RpcInvariant, PTL
-----------------------------------------------------------------------------
(* An item is validated in a batch as in the request it makes on its own.  *)
LEMMA SingleVerdict ==
    ASSUME NEW r \in Requests, r.method \in Batches, r.id >= MinId, r.version = "2.0",
           NEW n \in DOMAIN r.items
    PROVE  Validate(Single(r, n)) = ValidateItem(r.method, r.items[n])
  <1> DEFINE s == Single(r, n)
             method == SingleOf(r.method)
             item == r.items[n]
  <1>1. s = [id |-> r.id, version |-> r.version, method |-> method, items |-> <<item>>]
    BY DEF Single
  <1>2. method \in {"subscribe", "unsubscribe", "fetchMessages"}
    BY DEF SingleOf, Batches
  <1>3. ValidateItem(method, item) = ValidateItem(r.method, item)
    BY <1>2 DEF ValidateItem, Batches
  <1>4. item \in Items
    BY RequestsTold
  <1> HIDE DEF s, method, item
  <1>5. <<item>> \in [1..1 -> Items] /\ DOMAIN <<item>> = {1} /\ <<item>>[1] = item
    BY <1>4
  <1>6. ValidateItems(method, <<item>>) = ValidateItem(method, item)
    <2>1. Faulty(method, <<item>>) = IF ValidateItem(method, item) # "ok" THEN {1} ELSE {}
      BY <1>5 DEF Faulty
    <2>2. CASE ValidateItem(method, item) = "ok"
      BY <2>1, <2>2 DEF ValidateItems
    <2>3. CASE ValidateItem(method, item) # "ok"
      <3>1. Min(Faulty(method, <<item>>)) \in Faulty(method, <<item>>)
        BY <1>5, <2>1, <2>3, ItemsVerdict
      <3> QED
        BY <1>5, <2>1, <2>3, <3>1 DEF ValidateItems
    <2> QED
      BY <2>2, <2>3
  <1>7. ValidateParams(method, <<item>>) = ValidateItems(method, <<item>>)
    BY <1>2 DEF ValidateParams, Watches, Batches, Singles
  <1>8. ~(r.id < MinId)
    BY RequestsTold, ValidationAssumption
  <1>9. s.id = r.id /\ s.version = r.version /\ s.method = method /\ s.items = <<item>>
    BY <1>1
  <1>10. Validate(s) = ValidateParams(method, <<item>>)
    BY <1>8, <1>9 DEF Validate
  <1> QED
    BY <1>3, <1>6, <1>7, <1>10 DEF s, item

(* A batch of acceptable size is valid if each of its items is on its own, *)
(* and otherwise fails for the first that is not.                          *)
THEOREM BatchAgreesWithSinglesCorrect == RpcSpec => []BatchAgreesWithSingles
  <1>1. ASSUME RpcInv, request.method \in Batches,
               reply \notin {"none", "request id", "version"}
        PROVE  LET r == request
                   sized == Len(r.items) \in 1..Limit(r.method)
                   bad == {n \in DOMAIN r.items : Validate(Single(r, n)) # "ok"}
               IN /\ reply = "ok" <=> sized /\ bad = {}
                  /\ sized /\ bad # {} => reply = Validate(Single(r, Min(bad)))
    <2> DEFINE r == request
               sized == Len(r.items) \in 1..Limit(r.method)
               bad == {n \in DOMAIN r.items : Validate(Single(r, n)) # "ok"}
    <2>1. r \in Requests /\ reply = Validate(r)
      BY <1>1 DEF RpcInv, RpcTypeOK
    <2>2. r.id >= MinId /\ r.version = "2.0" /\ reply = ValidateParams(r.method, r.items)
      <3>1. r.id \in Nat /\ MinId \in Nat
        BY <2>1, RequestsTold, ValidationAssumption
      <3>2. ~(r.id < MinId) /\ r.version = "2.0"
        BY <1>1, <2>1 DEF Validate
      <3>3. Validate(r) = ValidateParams(r.method, r.items)
        BY <3>2 DEF Validate
      <3> QED
        BY <2>1, <3>1, <3>2, <3>3
    <2>3. bad = Faulty(r.method, r.items)
      BY <1>1, <2>1, <2>2, SingleVerdict DEF Faulty
    <2>4. PICK k \in Nat : r.items \in [1..k -> Items]
      BY <2>1, RequestsTold
    <2>5. Len(r.items) = k /\ (r.items = <<>> <=> k = 0)
      BY <2>4
    <2>51. Limit(r.method) \in Nat
      <3>1. CASE r.method \in {"batchSubscribe", "batchUnsubscribe"}
        BY <3>1, ValidationAssumption DEF Limit
      <3>2. CASE r.method = "batchFetchMessages"
        BY <3>2, ValidationAssumption DEF Limit
      <3>3. CASE r.method = "batchReceive"
        BY <3>3, ValidationAssumption DEF Limit
      <3> QED
        BY <1>1, <3>1, <3>2, <3>3 DEF Batches
    <2>6. r.method \in Batches /\ r.method \notin Watches /\ r.method \notin Singles
      BY <1>1 DEF Batches, Watches, Singles
    <2>7. reply = IF k = 0 THEN "batch empty"
                  ELSE IF k > Limit(r.method) THEN "batch limit"
                  ELSE ValidateItems(r.method, r.items)
      <3>1. CASE k = 0
        BY <2>2, <2>5, <2>6, <3>1 DEF ValidateParams
      <3>2. CASE k # 0 /\ k > Limit(r.method)
        BY <2>2, <2>5, <2>6, <3>2 DEF ValidateParams, TooMany
      <3>3. CASE k # 0 /\ ~(k > Limit(r.method))
        BY <2>2, <2>5, <2>6, <3>3 DEF ValidateParams, TooMany
      <3> QED
        BY <3>1, <3>2, <3>3
    <2>8. sized <=> k # 0 /\ ~(k > Limit(r.method))
      BY <2>4, <2>5, <2>51
    <2>9. /\ bad = {} => ValidateItems(r.method, r.items) = "ok"
          /\ bad # {} => /\ Min(bad) \in bad
                         /\ ValidateItems(r.method, r.items) # "ok"
                         /\ ValidateItems(r.method, r.items)
                                = ValidateItem(r.method, r.items[Min(bad)])
      BY <2>3, <2>4, ItemsVerdict DEF ValidateItems
    <2>10. bad # {} => Validate(Single(r, Min(bad))) = ValidateItem(r.method, r.items[Min(bad)])
      <3>1. bad \subseteq DOMAIN r.items
        OBVIOUS
      <3> QED
        BY <1>1, <2>1, <2>2, <2>9, <3>1, SingleVerdict
    <2> HIDE DEF r, sized, bad
    <2> QED
      BY <2>7, <2>8, <2>9, <2>10 DEF r, sized, bad
  <1>2. RpcInv => BatchAgreesWithSingles
    BY <1>1 DEF BatchAgreesWithSingles
  <1> QED
    BY <1>2, RpcInvariant, PTL
=============================================================================
