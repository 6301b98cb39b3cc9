--------------------------- MODULE HttpClientProofs ---------------------------
(***************************************************************************)
(* Proofs about MessageIdGenerator and about HttpClient, which runs it:    *)
(* for every number of tasks, calls and milliseconds and every size of the *)
(* counter.                                                                *)
(***************************************************************************)
EXTENDS HttpClient, FiniteSetTheorems, TLAPS

(* The counter wraps.                                                      *)
LEMMA Wraps ==
    ASSUME NEW n \in 0..CounterSize - 1
    PROVE  (n + 1) % CounterSize = IF n + 1 = CounterSize THEN 0 ELSE n + 1
  <1> USE GeneratorAssumption
  <1>1. CASE n + 1 = CounterSize
    BY <1>1
  <1>2. CASE n + 1 # CounterSize
    BY <1>2
  <1> QED
    BY <1>1, <1>2

LEMMA FetchAddKeepsType ==
    ASSUME GenTypeOK, NEW t \in Threads, FetchAdd(t)
    PROVE  GenTypeOK'
  <1> USE GeneratorAssumption DEF GenTypeOK, FetchAdd
  <1>1. next' \in 0..CounterSize - 1
    BY Wraps DEF NextValue
  <1>2. taken' \in 0..MaxCalls
    OBVIOUS
  <1>3. [counter |-> next, number |-> taken + 1] \in OpenCall
    BY DEF OpenCall
  <1>4. holding' \in [Threads -> OpenCall]
    BY <1>3
  <1> QED
    BY <1>1, <1>2, <1>4

LEMMA ReadClockKeepsType ==
    ASSUME GenTypeOK, NEW t \in Threads, holding[t].number # 0, ReadClock(t)
    PROVE  GenTypeOK'
  <1> USE GeneratorAssumption DEF GenTypeOK, ReadClock
  <1>1. holding[t] \in OpenCall
    OBVIOUS
  <1>2. NotCalling \in OpenCall
    BY DEF NotCalling, OpenCall
  <1>3. [time |-> clock, counter |-> holding[t].counter, number |-> holding[t].number]
            \in [time : 1..MaxClock, counter : 0..CounterSize - 1, number : 1..MaxCalls]
    BY <1>1 DEF OpenCall
  <1>4. holding' \in [Threads -> OpenCall]
    BY <1>2
  <1> QED
    BY <1>3, <1>4
-----------------------------------------------------------------------------
(* The counter value of call n is n - 1, wrapped.                          *)
Turn(counter, n) == \E turns \in Nat : n = turns * CounterSize + counter + 1

(* Two calls with one counter value are turns apart.                       *)
LEMMA TurnsApart ==
    ASSUME NEW counter \in Nat, NEW m \in Nat, NEW n \in Nat,
           Turn(counter, m), Turn(counter, n), m < n
    PROVE  n - m >= CounterSize
  <1>1. PICK p \in Nat : m = p * CounterSize + counter + 1
    BY DEF Turn
  <1>2. PICK q \in Nat : n = q * CounterSize + counter + 1
    BY DEF Turn
  <1>3. CounterSize \in Nat
    BY GeneratorAssumption
  <1>4. p < q
    <2>1. CASE q <= p
      <3>1. q * CounterSize <= p * CounterSize
        BY <1>3, <2>1
      <3> QED
        BY <1>1, <1>2, <1>3, <3>1
    <2> QED
      BY <2>1
  <1>5. (q - p) * CounterSize >= CounterSize
    BY <1>3, <1>4
  <1>6. n - m = (q - p) * CounterSize
    BY <1>1, <1>2, <1>3
  <1> QED
    BY <1>5, <1>6

GenInv ==
    /\ GenTypeOK
    /\ Turn(next, taken + 1)
    /\ \A t \in Threads : holding[t] # NotCalling =>
            holding[t].number > 0 /\ Turn(holding[t].counter, holding[t].number)
    /\ \A a \in made : Turn(a.counter, a.number)

LEMMA GenInitial == GenInit => GenInv
  <1> SUFFICES ASSUME GenInit PROVE GenInv
    OBVIOUS
  <1> USE GeneratorAssumption DEF GenInit
  <1>1. GenTypeOK
    BY DEF GenTypeOK, OpenCall, NotCalling
  <1>2. Turn(next, taken + 1)
    <2>1. taken + 1 = 0 * CounterSize + next + 1
      OBVIOUS
    <2> QED
      BY <2>1 DEF Turn
  <1> QED
    BY <1>1, <1>2 DEF GenInv

LEMMA FetchAddKeeps ==
    ASSUME GenInv, NEW t \in Threads, FetchAdd(t)
    PROVE  GenInv'
  <1> USE GeneratorAssumption
  <1>1. GenTypeOK /\ next \in 0..CounterSize - 1 /\ taken \in Nat
    BY DEF GenInv, GenTypeOK
  <1>2. GenTypeOK'
    BY <1>1, FetchAddKeepsType
  <1>3. taken' = taken + 1 /\ next' = IF next + 1 = CounterSize THEN 0 ELSE next + 1
    BY <1>1, Wraps DEF FetchAdd, NextValue
  <1>4. Turn(next', taken' + 1)
    <2>1. PICK turns \in Nat : taken + 1 = turns * CounterSize + next + 1
      BY DEF GenInv, Turn
    <2>2. CASE next + 1 = CounterSize
      <3> DEFINE more == turns + 1
      <3>1. more \in Nat /\ taken' + 1 = more * CounterSize + next' + 1
        BY <1>1, <1>3, <2>1, <2>2
      <3> HIDE DEF more
      <3> QED
        BY <3>1 DEF Turn
    <2>3. CASE next + 1 # CounterSize
      <3>1. taken' + 1 = turns * CounterSize + next' + 1
        BY <1>1, <1>3, <2>1, <2>3
      <3> QED
        BY <3>1 DEF Turn
    <2> QED
      BY <2>2, <2>3
  <1>5. ASSUME NEW u \in Threads, holding'[u] # NotCalling
        PROVE  holding'[u].number > 0 /\ Turn(holding'[u].counter, holding'[u].number)
    <2>1. CASE u = t
      <3>1. holding'[u] = [counter |-> next, number |-> taken + 1]
        BY <1>1, <2>1 DEF FetchAdd, GenTypeOK
      <3> QED
        BY <1>1, <3>1 DEF GenInv
    <2>2. CASE u # t
      BY <1>1, <1>5, <2>2 DEF FetchAdd, GenInv, GenTypeOK
    <2> QED
      BY <2>1, <2>2
  <1>6. \A a \in made' : Turn(a.counter, a.number)
    BY DEF FetchAdd, GenInv
  <1> QED
    BY <1>2, <1>4, <1>5, <1>6 DEF GenInv, Turn

LEMMA ReadClockKeeps ==
    ASSUME GenInv, NEW t \in Threads, ReadClock(t)
    PROVE  GenInv'
  <1>1. GenTypeOK /\ holding[t] # NotCalling /\ holding[t].number > 0
    BY DEF GenInv, ReadClock
  <1>2. GenTypeOK'
    BY <1>1, ReadClockKeepsType
  <1>3. Turn(next, taken + 1)'
    BY DEF ReadClock, GenInv, Turn
  <1>4. ASSUME NEW u \in Threads, holding'[u] # NotCalling
        PROVE  holding'[u].number > 0 /\ Turn(holding'[u].counter, holding'[u].number)
    <2>1. holding'[u] = holding[u]
      BY <1>1, <1>4 DEF ReadClock, GenTypeOK
    <2> QED
      BY <1>4, <2>1 DEF GenInv
  <1>5. ASSUME NEW a \in made' PROVE Turn(a.counter, a.number)
    <2>1. CASE a \in made
      BY <2>1 DEF GenInv
    <2>2. CASE a = [time |-> clock, counter |-> holding[t].counter,
                    number |-> holding[t].number]
      BY <1>1, <2>2 DEF GenInv
    <2> QED
      BY <1>5, <2>1, <2>2 DEF ReadClock
  <1> QED
    BY <1>2, <1>3, <1>4, <1>5 DEF GenInv, Turn

LEMMA ClockKeeps ==
    ASSUME GenInv, NextMillisecond
    PROVE  GenInv'
  <1>1. clock' \in 1..MaxClock
    BY GeneratorAssumption DEF NextMillisecond, GenInv, GenTypeOK
  <1> QED
    BY <1>1 DEF NextMillisecond, GenInv, GenTypeOK, Turn

LEMMA StutterKeeps ==
    ASSUME GenInv, UNCHANGED genVars
    PROVE  GenInv'
  BY DEF genVars, GenInv, GenTypeOK, Turn

(* The calls that make one id are turns apart.                             *)
LEMMA TurnsSuffice == GenInv => RepeatsAreATurnApart
  <1> SUFFICES ASSUME GenInv, NEW a \in made, NEW b \in made,
                      SameId(a, b), a.number < b.number
               PROVE  b.number - a.number >= CounterSize
    BY DEF RepeatsAreATurnApart
  <1>1. /\ a.counter \in Nat /\ a.number \in Nat /\ b.number \in Nat
        /\ a.counter = b.counter
    BY GeneratorAssumption DEF GenInv, GenTypeOK, SameId
  <1>2. Turn(a.counter, a.number) /\ Turn(a.counter, b.number)
    BY <1>1 DEF GenInv
  <1> QED
    BY <1>1, <1>2, TurnsApart

LEMMA GenInvariant == GenSpec => []GenInv
  <1>1. ASSUME GenInv, [GenNext]_genVars PROVE GenInv'
    BY <1>1, FetchAddKeeps, ReadClockKeeps, ClockKeeps, StutterKeeps DEF GenNext
  <1> QED
    BY <1>1, GenInitial, PTL DEF GenSpec

(* Two calls that make the same id are a full turn of the counter apart.   *)
THEOREM RepeatsAreATurnApartCorrect == GenSpec => []RepeatsAreATurnApart
  BY GenInvariant, TurnsSuffice, PTL
-----------------------------------------------------------------------------
(* One task alone: the numbers of the ids made so far leave out none but   *)
(* that of its open call, and later numbers have later times.              *)
SequentialInv ==
    /\ GenInv
    /\ IsFiniteSet(made)
    /\ \A t \in Threads : holding[t] # NotCalling => holding[t].number = taken
    /\ \A n \in 1..taken :
          \/ \E a \in made : a.number = n
          \/ n = taken /\ \E t \in Threads : holding[t] # NotCalling
    /\ \A a \in made :
          /\ a.time <= clock /\ a.number <= taken
          /\ \A t \in Threads : holding[t] # NotCalling => a.number < taken
    /\ \A a, b \in made : a.number <= b.number => a.time <= b.time
    /\ \A a, b \in made : a.number = b.number => a = b

LEMMA SequentialTypes ==
    ASSUME SequentialInv
    PROVE  /\ clock \in Nat /\ taken \in Nat
           /\ holding \in [Threads -> OpenCall]
           /\ \A a \in made : a.time \in 1..MaxClock /\ a.number \in Nat \ {0}
  BY GeneratorAssumption DEF SequentialInv, GenInv, GenTypeOK

LEMMA FetchAddSequential ==
    ASSUME \A t, u \in Threads : t = u, SequentialInv, NEW t \in Threads, FetchAdd(t)
    PROVE  SequentialInv'
  <1>1. GenInv'
    BY FetchAddKeeps DEF SequentialInv
  <1>2. /\ clock' = clock /\ made' = made /\ taken' = taken + 1
        /\ holding'[t].number = taken + 1 /\ holding[t] = NotCalling
    BY SequentialTypes DEF FetchAdd
  <1>3. holding'[t] # NotCalling
    BY <1>2, SequentialTypes DEF NotCalling
  <1>4. \A u \in Threads : holding[u] = NotCalling /\ u = t
    BY <1>2
  <1>5. \A n \in 1..taken' :
          \/ \E a \in made' : a.number = n
          \/ n = taken' /\ \E u \in Threads : holding'[u] # NotCalling
    <2> SUFFICES ASSUME NEW n \in 1..taken', n # taken'
                 PROVE  \E a \in made' : a.number = n
      BY <1>3
    <2>1. n \in 1..taken
      BY <1>2, SequentialTypes
    <2> QED
      BY <1>2, <1>4, <2>1 DEF SequentialInv
  <1>6. \A a \in made' :
          /\ a.time <= clock' /\ a.number <= taken'
          /\ \A u \in Threads : holding'[u] # NotCalling => a.number < taken'
    <2> SUFFICES ASSUME NEW a \in made PROVE a.time <= clock /\ a.number < taken + 1
      BY <1>2, SequentialTypes
    <2> QED
      BY SequentialTypes DEF SequentialInv
  <1>7. \A u \in Threads : holding'[u] # NotCalling => holding'[u].number = taken'
    BY <1>2, <1>4
  <1>8. /\ IsFiniteSet(made')
        /\ \A a, b \in made' : a.number <= b.number => a.time <= b.time
        /\ \A a, b \in made' : a.number = b.number => a = b
    BY <1>2 DEF SequentialInv
  <1> QED
    BY <1>1, <1>5, <1>6, <1>7, <1>8 DEF SequentialInv

LEMMA ReadClockSequential ==
    ASSUME \A t, u \in Threads : t = u, SequentialInv, NEW t \in Threads, ReadClock(t)
    PROVE  SequentialInv'
  <1> DEFINE id == [time |-> clock, counter |-> holding[t].counter, number |-> holding[t].number]
  <1>1. GenInv'
    BY ReadClockKeeps DEF SequentialInv
  <1>2. /\ clock' = clock /\ made' = made \cup {id} /\ taken' = taken
        /\ holding[t] # NotCalling /\ holding'[t] = NotCalling
    BY SequentialTypes DEF ReadClock
  <1>3. \A u \in Threads : holding'[u] = NotCalling
    BY <1>2
  <1>4. id.time = clock /\ id.number = taken
    BY <1>2 DEF SequentialInv
  <1> HIDE DEF id
  <1>5. IsFiniteSet(made')
    BY <1>2, FS_AddElement DEF SequentialInv
  <1>6. \A n \in 1..taken' : \E a \in made' : a.number = n
    BY <1>2, <1>4 DEF SequentialInv
  <1>7. \A a \in made : a.time <= clock /\ a.number < taken
    BY <1>2 DEF SequentialInv
  <1>8. clock \in Nat /\ taken \in Nat /\ \A a \in made : a.number \in Nat
    BY SequentialTypes
  <1>9. \A a \in made' : a.time <= clock' /\ a.number <= taken'
    BY <1>2, <1>4, <1>7, <1>8
  <1>10. \A a, b \in made' : a.number <= b.number => a.time <= b.time
    <2> SUFFICES ASSUME NEW a \in made', NEW b \in made', a.number <= b.number
                 PROVE  a.time <= b.time
      OBVIOUS
    <2>1. CASE b = id
      BY <1>2, <1>4, <1>9, <2>1
    <2>2. CASE a \in made /\ b \in made
      BY <2>2 DEF SequentialInv
    <2>3. CASE a = id /\ b \in made
      BY <1>4, <1>7, <1>8, <2>3
    <2> QED
      BY <1>2, <2>1, <2>2, <2>3
  <1>11. \A a, b \in made' : a.number = b.number => a = b
    <2> SUFFICES ASSUME NEW a \in made', NEW b \in made', a.number = b.number
                 PROVE  a = b
      OBVIOUS
    <2>1. CASE a \in made /\ b \in made
      BY <2>1 DEF SequentialInv
    <2>2. CASE a = id /\ b \in made
      BY <1>4, <1>7, <1>8, <2>2
    <2>3. CASE a \in made /\ b = id
      BY <1>4, <1>7, <1>8, <2>3
    <2> QED
      BY <1>2, <2>1, <2>2, <2>3
  <1> QED
    BY <1>1, <1>3, <1>5, <1>6, <1>9, <1>10, <1>11 DEF SequentialInv

LEMMA SequentialInvariant ==
    ASSUME \A t, u \in Threads : t = u
    PROVE  GenSpec => []SequentialInv
  <1>1. GenInit => SequentialInv
    <2> SUFFICES ASSUME GenInit PROVE SequentialInv
      OBVIOUS
    <2>1. GenInv
      BY GenInitial
    <2>2. IsFiniteSet(made)
      BY FS_EmptySet DEF GenInit
    <2> QED
      BY <2>1, <2>2 DEF GenInit, SequentialInv
  <1>2. ASSUME SequentialInv, [GenNext]_genVars PROVE SequentialInv'
    <2>1. CASE NextMillisecond
      <3>1. GenInv'
        BY <1>2, <2>1, ClockKeeps DEF SequentialInv
      <3>2. clock' = clock + 1 /\ holding' = holding /\ taken' = taken /\ made' = made
        BY <2>1 DEF NextMillisecond
      <3>3. \A a \in made : a.time <= clock + 1
        BY <1>2, SequentialTypes DEF SequentialInv
      <3> QED
        BY <1>2, <3>1, <3>2, <3>3 DEF SequentialInv
    <2>2. CASE UNCHANGED genVars
      <3>1. GenInv'
        BY <1>2, <2>2, StutterKeeps DEF SequentialInv
      <3> QED
        BY <1>2, <2>2, <3>1 DEF SequentialInv, genVars
    <2> QED
      BY <1>2, <2>1, <2>2, FetchAddSequential, ReadClockSequential DEF GenNext
  <1> QED
    BY <1>1, <1>2, PTL DEF GenSpec

(* The documentation's claim (lib.rs:142-144) holds of a generator that one*)
(* task calls, as a stream of the websocket client does: as long as no     *)
(* millisecond makes more ids than the counter has values, none repeats.   *)
(* What breaks it for tasks that share one is that a call takes two steps. *)
THEOREM UniqueForOneTask ==
    ASSUME \A t, u \in Threads : t = u
    PROVE  GenSpec => []UniqueWithinRate
  <1>1. ASSUME SequentialInv, WithinRate, NEW a \in made, NEW b \in made, SameId(a, b),
               a.number < b.number
        PROVE  FALSE
    <2> DEFINE X == {c \in made : c.time = a.time}
               I == a.number..b.number
               f == [n \in I |-> CHOOSE c \in X : c.number = n]
    <2>1. a.number \in Nat \ {0} /\ b.number \in Nat /\ taken \in Nat /\ b.number <= taken
      BY <1>1, SequentialTypes DEF SequentialInv
    <2>2. ASSUME NEW n \in I PROVE \E c \in X : c.number = n
      <3>1. n \in 1..taken /\ a.number <= n /\ n <= b.number
        BY <2>1
      <3>2. PICK c \in made : c.number = n
        BY <1>1, <2>1, <3>1 DEF SequentialInv
      <3>3. a.time <= c.time /\ c.time <= b.time /\ a.time = b.time
        BY <1>1, <3>1, <3>2 DEF SequentialInv, SameId
      <3>4. c.time = a.time
        BY <1>1, <3>3, SequentialTypes
      <3> QED
        BY <3>2, <3>4
    <2>3. f \in Injection(I, X)
      <3>1. \A n \in I : f[n] \in X /\ f[n].number = n
        BY <2>2
      <3>2. f \in [I -> X]
        BY <3>1
      <3> HIDE DEF f, X, I
      <3> QED
        BY <3>1, <3>2 DEF Injection, IsInjective
    <2>4. IsFiniteSet(X) /\ Cardinality(X) <= CounterSize
      <3>1. IsFiniteSet(X)
        BY <1>1, FS_Subset DEF SequentialInv
      <3>2. a.time \in 1..MaxClock
        BY <1>1, SequentialTypes
      <3> QED
        BY <1>1, <3>1, <3>2 DEF WithinRate
    <2>5. Cardinality(I) <= Cardinality(X)
      <3> HIDE DEF f, X, I
      <3> QED
        BY <2>3, <2>4, FS_Injection
    <2>6. Cardinality(I) = b.number - a.number + 1
      <3> DEFINE m == a.number
                 n == b.number
      <3>1. m \in Int /\ n \in Int /\ ~(m > n)
        BY <1>1, <2>1
      <3> HIDE DEF m, n
      <3>2. Cardinality(m..n) = n - m + 1
        BY <3>1, FS_Interval
      <3> QED
        BY <3>2 DEF m, n
    <2>7. b.number - a.number >= CounterSize
      BY <1>1, TurnsSuffice DEF RepeatsAreATurnApart, SequentialInv
    <2>8. Cardinality(X) \in Nat /\ CounterSize \in Nat
      BY <2>4, FS_CardinalityType, GeneratorAssumption
    <2> HIDE DEF X, I
    <2> QED
      BY <2>1, <2>4, <2>5, <2>6, <2>7, <2>8
  <1>2. ASSUME SequentialInv, WithinRate, NEW a \in made, NEW b \in made, SameId(a, b)
        PROVE  a = b
    <2>1. a.number \in Nat /\ b.number \in Nat
      BY <1>2, SequentialTypes
    <2>2. SameId(b, a)
      BY <1>2 DEF SameId
    <2>3. ~(a.number < b.number) /\ ~(b.number < a.number)
      BY <1>1, <1>2, <2>2
    <2>4. a.number = b.number
      BY <2>1, <2>3
    <2> QED
      BY <1>2, <2>4 DEF SequentialInv
  <1>3. SequentialInv => UniqueWithinRate
    BY <1>2 DEF UniqueWithinRate
  <1> QED
    BY <1>3, SequentialInvariant, PTL
-----------------------------------------------------------------------------
(* The tasks and their exchanges.                                          *)
Outcomes == {"idle", "pending", "refused"} \cup Answers \cup Unknown

LEMMA PayloadsParsed ==
    /\ ParsePayload(SuccessFields) = "success"
    /\ ParsePayload(ErrorFields) = "error"
    /\ ParsePayload(RequestFields) = "request"
    /\ ParsePayload({}) = "invalid"
  <1> DEFINE S == {"id", "jsonrpc", "result"}
             E == {"id", "jsonrpc", "error"}
             R == {"id", "jsonrpc", "method", "params"}
  <1>1. ~(R \subseteq S) /\ ~(R \subseteq E) /\ ~(S \subseteq E) /\ ~(S \subseteq {})
        /\ ~(R \subseteq {}) /\ ~(E \subseteq {})
    OBVIOUS
  <1> QED
    BY <1>1 DEF ParsePayload, RequestFields, SuccessFields, ErrorFields

(* What can be said of one task.  Its call is pending while it makes its   *)
(* id or has an exchange open; the relay processed what it replied to.     *)
Consistent(c) ==
    /\ outcome[c] \in Outcomes
    /\ exchange[c].at \in {"none", "relay", "client"}
    /\ exchange[c].at = "none" => exchange[c] = NoExchange
    /\ outcome[c] = "pending" <=> holding[c] # NotCalling \/ exchange[c].at # "none"
    /\ exchange[c].at # "none" => holding[c] = NotCalling
    /\ c \in executed => /\ outcome[c] # "idle"
                         /\ holding[c] = NotCalling
                         /\ exchange[c].at # "relay"
    /\ exchange[c].at = "client" =>
            /\ exchange[c].call = c
            /\ exchange[c].status \in {200, 502}
            /\ exchange[c].body \in {SuccessFields, ErrorFields, RequestFields, {}}
            /\ exchange[c].status = 200 /\ exchange[c].body \in {SuccessFields, ErrorFields} =>
                    c \in executed

HttpInv ==
    /\ GenInv
    /\ DOMAIN outcome = Threads /\ DOMAIN exchange = Threads
    /\ outcome \in [Threads -> Outcomes]
    /\ executed \subseteq Threads
    /\ \A c \in Threads : Consistent(c)

(* The others, when task c takes a step.                                   *)
Untouched(c) ==
    \A u \in Threads \ {c} : /\ outcome'[u] = outcome[u]
                             /\ exchange'[u] = exchange[u]
                             /\ holding'[u] = holding[u]
                             /\ u \in executed' <=> u \in executed

LEMMA OneTaskAtATime ==
    ASSUME HttpInv, NEW c \in Threads, Untouched(c), Consistent(c)', GenInv',
           outcome' \in [Threads -> Outcomes], DOMAIN exchange' = Threads,
           executed' \subseteq Threads
    PROVE  HttpInv'
  <1>1. ASSUME NEW u \in Threads, u # c PROVE Consistent(u)'
    <2>1. Consistent(u)
      BY DEF HttpInv
    <2> QED
      BY <1>1, <2>1 DEF Untouched, Consistent
  <1> QED
    BY <1>1 DEF HttpInv

LEMMA Told ==
    ASSUME HttpInv, NEW c \in Threads, NEW o \in Outcomes, Tell(c, o)
    PROVE  /\ outcome' \in [Threads -> Outcomes] /\ outcome'[c] = o
           /\ \A u \in Threads \ {c} : outcome'[u] = outcome[u]
  BY DEF HttpInv, Tell

LEMMA Exchanged ==
    ASSUME HttpInv, NEW c \in Threads, NEW e, Exchange(c, e)
    PROVE  /\ DOMAIN exchange' = Threads /\ exchange'[c] = e
           /\ \A u \in Threads \ {c} : exchange'[u] = exchange[u]
  BY DEF HttpInv, Exchange

LEMMA HeldByType ==
    ASSUME HttpInv
    PROVE  /\ holding \in [Threads -> OpenCall]
           /\ \A c \in Threads : Consistent(c)
           /\ \A c \in Threads : holding[c] # NotCalling => holding[c].number > 0
  BY DEF HttpInv, GenInv, GenTypeOK
-----------------------------------------------------------------------------
LEMMA RefuseKeeps ==
    ASSUME HttpInv, NEW c \in Threads, Refuse(c)
    PROVE  HttpInv'
  <1>1. GenInv'
    BY StutterKeeps DEF Refuse, HttpInv
  <1>2. Consistent(c)
    BY HeldByType
  <1>3. "refused" \in Outcomes
    BY DEF Outcomes
  <1>4. outcome' \in [Threads -> Outcomes] /\ outcome'[c] = "refused"
        /\ \A u \in Threads \ {c} : outcome'[u] = outcome[u]
    BY <1>3, Told DEF Refuse
  <1>5. Consistent(c)'
    BY <1>2, <1>3, <1>4 DEF Consistent, Refuse, genVars
  <1>6. Untouched(c)
    BY <1>4 DEF Untouched, Refuse, genVars
  <1>7. DOMAIN exchange' = Threads /\ executed' \subseteq Threads
    BY DEF Refuse, HttpInv
  <1> QED
    BY <1>1, <1>4, <1>5, <1>6, <1>7, OneTaskAtATime

LEMMA BeginKeeps ==
    ASSUME HttpInv, NEW c \in Threads, Begin(c)
    PROVE  HttpInv'
  <1>1. GenInv'
    BY FetchAddKeeps DEF Begin, HttpInv
  <1>2. Consistent(c) /\ holding[c] = NotCalling
    BY HeldByType DEF Begin, FetchAdd
  <1>3. "pending" \in Outcomes
    BY DEF Outcomes
  <1>4. outcome' \in [Threads -> Outcomes] /\ outcome'[c] = "pending"
        /\ \A u \in Threads \ {c} : outcome'[u] = outcome[u]
    BY <1>3, Told DEF Begin
  <1>5. holding'[c] = [counter |-> next, number |-> taken + 1]
        /\ \A u \in Threads \ {c} : holding'[u] = holding[u]
    BY HeldByType DEF Begin, FetchAdd
  <1>6. holding'[c] # NotCalling
    BY <1>5 DEF NotCalling, HttpInv, GenInv, GenTypeOK
  <1>7. Consistent(c)'
    BY <1>2, <1>3, <1>4, <1>6 DEF Consistent, Begin
  <1>8. Untouched(c)
    BY <1>4, <1>5 DEF Untouched, Begin
  <1>9. DOMAIN exchange' = Threads /\ executed' \subseteq Threads
    BY DEF Begin, HttpInv
  <1> QED
    BY <1>1, <1>4, <1>7, <1>8, <1>9, OneTaskAtATime

LEMMA PostKeeps ==
    ASSUME HttpInv, NEW c \in Threads, Post(c)
    PROVE  HttpInv'
  <1>1. GenInv'
    BY ReadClockKeeps DEF Post, HttpInv
  <1>2. Consistent(c) /\ holding[c] # NotCalling
    BY HeldByType DEF Post, ReadClock
  <1> DEFINE id == [time |-> clock, counter |-> holding[c].counter]
  <1>3. DOMAIN exchange' = Threads /\ exchange'[c] = AtRelay(id)
        /\ \A u \in Threads \ {c} : exchange'[u] = exchange[u]
    BY Exchanged DEF Post
  <1>4. holding'[c] = NotCalling /\ \A u \in Threads \ {c} : holding'[u] = holding[u]
    BY HeldByType DEF Post, ReadClock
  <1>5. exchange'[c].at = "relay"
    BY <1>3 DEF AtRelay
  <1>6. Consistent(c)'
    BY <1>2, <1>4, <1>5 DEF Consistent, Post
  <1>7. Untouched(c)
    BY <1>3, <1>4 DEF Untouched, Post
  <1>8. outcome' \in [Threads -> Outcomes] /\ executed' \subseteq Threads
    BY DEF Post, HttpInv
  <1> QED
    BY <1>1, <1>3, <1>6, <1>7, <1>8, OneTaskAtATime

LEMMA RelayRepliesKeeps ==
    ASSUME HttpInv, NEW c \in Threads, RelayReplies(c)
    PROVE  HttpInv'
  <1>1. GenInv'
    BY StutterKeeps DEF RelayReplies, HttpInv
  <1>2. PICK body \in {SuccessFields, ErrorFields}, typed \in BOOLEAN :
            Exchange(c, AtClient(c, exchange[c].id, 200, body, typed))
    BY DEF RelayReplies
  <1>3. DOMAIN exchange' = Threads
        /\ exchange'[c] = AtClient(c, exchange[c].id, 200, body, typed)
        /\ \A u \in Threads \ {c} : exchange'[u] = exchange[u]
    BY <1>2, Exchanged
  <1>4. /\ exchange'[c].at = "client" /\ exchange'[c].call = c
        /\ exchange'[c].status = 200 /\ exchange'[c].body = body
    BY <1>3 DEF AtClient
  <1>5. Consistent(c) /\ exchange[c].at = "relay"
    BY HeldByType DEF RelayReplies
  <1>6. Consistent(c)'
    BY <1>4, <1>5 DEF Consistent, RelayReplies, genVars
  <1>7. Untouched(c)
    BY <1>3 DEF Untouched, RelayReplies, genVars
  <1>8. outcome' \in [Threads -> Outcomes] /\ executed' \subseteq Threads
    BY DEF RelayReplies, HttpInv
  <1> QED
    BY <1>1, <1>3, <1>6, <1>7, <1>8, OneTaskAtATime

LEMMA OtherRepliesKeeps ==
    ASSUME HttpInv, NEW c \in Threads, OtherReplies(c)
    PROVE  HttpInv'
  <1>1. GenInv'
    BY StutterKeeps DEF OtherReplies, HttpInv
  <1>2. PICK status \in {200, 502}, body \in {SuccessFields, RequestFields, {}} :
            /\ body = SuccessFields <=> status # 200
            /\ Exchange(c, AtClient(c, exchange[c].id, status, body, TRUE))
    BY DEF OtherReplies
  <1>3. DOMAIN exchange' = Threads
        /\ exchange'[c] = AtClient(c, exchange[c].id, status, body, TRUE)
        /\ \A u \in Threads \ {c} : exchange'[u] = exchange[u]
    <2> DEFINE e == AtClient(c, exchange[c].id, status, body, TRUE)
    <2>1. Exchange(c, e)
      BY <1>2
    <2> HIDE DEF e
    <2>2. DOMAIN exchange' = Threads /\ exchange'[c] = e
          /\ \A u \in Threads \ {c} : exchange'[u] = exchange[u]
      BY <2>1, Exchanged
    <2> QED
      BY <2>2 DEF e
  <1>4. /\ exchange'[c].at = "client" /\ exchange'[c].call = c
        /\ exchange'[c].status = status /\ exchange'[c].body = body
    BY <1>3 DEF AtClient
  <1>5. Consistent(c) /\ exchange[c].at = "relay"
    BY HeldByType DEF OtherReplies
  <1>6. status = 200 => body \notin {SuccessFields, ErrorFields}
    BY <1>2, PayloadsParsed
  <1>7. Consistent(c)'
    BY <1>4, <1>5, <1>6 DEF Consistent, OtherReplies, genVars
  <1>8. Untouched(c)
    BY <1>3 DEF Untouched, OtherReplies, genVars
  <1>9. outcome' \in [Threads -> Outcomes] /\ executed' \subseteq Threads
    BY DEF OtherReplies, HttpInv
  <1> QED
    BY <1>1, <1>3, <1>7, <1>8, <1>9, OneTaskAtATime

(* A call that ends with its exchange, whatever its caller is told.        *)
LEMMA EndKeeps ==
    ASSUME HttpInv, NEW c \in Threads, exchange[c].at \in {"relay", "client"},
           NEW o \in Answers \cup Unknown, Tell(c, o), Exchange(c, NoExchange),
           executed' \in {executed, executed \cup {c}}, UNCHANGED genVars
    PROVE  HttpInv'
  <1>1. GenInv'
    BY StutterKeeps DEF HttpInv
  <1>2. o \in Outcomes /\ o \notin {"idle", "pending"}
    BY DEF Outcomes, Answers, Unknown
  <1>3. outcome' \in [Threads -> Outcomes] /\ outcome'[c] = o
        /\ \A u \in Threads \ {c} : outcome'[u] = outcome[u]
    BY <1>2, Told
  <1>4. DOMAIN exchange' = Threads /\ exchange'[c] = NoExchange
        /\ \A u \in Threads \ {c} : exchange'[u] = exchange[u]
    BY Exchanged
  <1>5. exchange'[c].at = "none"
    BY <1>4 DEF NoExchange
  <1>6. holding[c] = NotCalling /\ holding' = holding
    BY HeldByType DEF Consistent, genVars
  <1>7. Consistent(c)'
    BY <1>2, <1>3, <1>4, <1>5, <1>6 DEF Consistent
  <1>8. Untouched(c)
    BY <1>3, <1>4, <1>6 DEF Untouched
  <1>9. executed' \subseteq Threads
    BY DEF HttpInv
  <1> QED
    BY <1>1, <1>3, <1>4, <1>7, <1>8, <1>9, OneTaskAtATime

(* What a reply makes of a call; an answer is what the relay replied.      *)
LEMMA OutcomeOfReply ==
    ASSUME HttpInv, NEW c \in Threads, Replies(c)
    PROVE  LET o == Outcome(c, OwnReply(c)) IN
           /\ o \in Answers \cup Unknown
           /\ o \in Answers => c \in executed
           /\ o = "ok" => exchange[c].body = SuccessFields
           /\ o = "rpcError" => exchange[c].body = ErrorFields
  <1>1. Consistent(c) /\ exchange[c].at = "client"
    BY HeldByType DEF Replies
  <1>2. CASE exchange[c].status # 200
    BY <1>2 DEF Outcome, OwnReply, Answers, Unknown
  <1>3. CASE exchange[c].status = 200 /\ exchange[c].body = SuccessFields
    BY <1>1, <1>3, PayloadsParsed DEF Outcome, OwnReply, Answers, Unknown, Consistent
  <1>4. CASE exchange[c].status = 200 /\ exchange[c].body = ErrorFields
    BY <1>1, <1>4, PayloadsParsed DEF Outcome, OwnReply, Answers, Unknown, Consistent
  <1>5. CASE exchange[c].status = 200 /\ exchange[c].body \in {RequestFields, {}}
    BY <1>1, <1>5, PayloadsParsed DEF Outcome, OwnReply, Answers, Unknown, Consistent
  <1> QED
    BY <1>1, <1>2, <1>3, <1>4, <1>5 DEF Consistent

(* The ways a call ends, and what the caller is told.                      *)
LEMMA Ends ==
    ASSUME HttpInv, NEW c \in Threads, TransportFails(c) \/ Cancel(c) \/ ReadReply(c)
    PROVE  /\ exchange[c].at \in {"relay", "client"}
           /\ Exchange(c, NoExchange) /\ UNCHANGED genVars
           /\ executed' \in {executed, executed \cup {c}}
           /\ \/ Tell(c, "transport") \/ Tell(c, "cancelled")
              \/ ReadReply(c) /\ Tell(c, Outcome(c, OwnReply(c)))
  BY DEF TransportFails, Cancel, ReadReply, Abandon, Replies

LEMMA HttpInvariant == HttpSpec => []HttpInv
  <1>1. HttpInit => HttpInv
    <2> SUFFICES ASSUME HttpInit PROVE HttpInv
      OBVIOUS
    <2>1. GenInv
      BY GenInitial DEF HttpInit
    <2>2. ASSUME NEW c \in Threads PROVE Consistent(c)
      <3>1. /\ outcome[c] = "idle" /\ exchange[c] = NoExchange /\ exchange[c].at = "none"
            /\ holding[c] = NotCalling /\ executed = {}
        BY DEF HttpInit, GenInit, NoExchange
      <3> QED
        BY <3>1 DEF Consistent, Outcomes
    <2> QED
      BY <2>1, <2>2 DEF HttpInit, HttpInv, Outcomes
  <1>2. ASSUME HttpInv, [HttpNext]_httpVars PROVE HttpInv'
    <2>1. CASE ClockTicks
      <3>1. GenInv'
        BY <1>2, <2>1, ClockKeeps DEF ClockTicks, HttpInv
      <3> QED
        BY <1>2, <2>1, <3>1 DEF ClockTicks, NextMillisecond, HttpInv, Consistent
    <2>2. ASSUME NEW c \in Threads, TransportFails(c) \/ Cancel(c) \/ ReadReply(c)
          PROVE  HttpInv'
      <3>1. "transport" \in Unknown /\ "cancelled" \in Unknown
        BY DEF Unknown
      <3>2. ReadReply(c) => Outcome(c, OwnReply(c)) \in Answers \cup Unknown
        BY <1>2, OutcomeOfReply DEF ReadReply
      <3> QED
        BY <1>2, <2>2, <3>1, <3>2, Ends, EndKeeps
    <2>3. CASE UNCHANGED httpVars
      <3>1. GenInv'
        BY <1>2, <2>3, StutterKeeps DEF httpVars, genVars, HttpInv
      <3> QED
        BY <1>2, <2>3, <3>1 DEF httpVars, HttpInv, Consistent
    <2> QED
      BY <1>2, <2>1, <2>2, <2>3, RefuseKeeps, BeginKeeps, PostKeeps, RelayRepliesKeeps,
         OtherRepliesKeeps DEF HttpNext
  <1> QED
    BY <1>1, <1>2, PTL DEF HttpSpec
-----------------------------------------------------------------------------
(* The variables have their types.                                         *)
THEOREM HttpTypeCorrect == HttpSpec => []HttpTypeOK
  <1>1. HttpInv => HttpTypeOK
    BY DEF HttpInv, HttpTypeOK, GenInv, Consistent, Outcomes
  <1> QED
    BY <1>1, HttpInvariant, PTL

(* Calls that make one id are a turn of the counter apart, also when tasks *)
(* are cancelled and fail in between.                                      *)
THEOREM HttpRepeatsAreATurnApart == HttpSpec => []RepeatsAreATurnApart
  <1>1. HttpInv => RepeatsAreATurnApart
    BY TurnsSuffice DEF HttpInv
  <1> QED
    BY <1>1, HttpInvariant, PTL

(* A call is pending as long as it makes its id or has an exchange open.   *)
THEOREM PendingIsOpenCorrect == HttpSpec => []PendingIsOpen
  <1>1. HttpInv => PendingIsOpen
    BY DEF HttpInv, PendingIsOpen, Consistent, NoExchange
  <1> QED
    BY <1>1, HttpInvariant, PTL

(* The relay's reply to a request is what its caller is told.              *)
THEOREM ToldWhatWasSaidCorrect == HttpSpec => ToldWhatWasSaid
  <1>1. ASSUME HttpInv, [HttpNext]_httpVars, NEW c \in Threads, Replies(c),
               outcome'[c] \in Answers \cup {"foreign"}
        PROVE  \/ outcome'[c] = "ok" /\ exchange[c].body = SuccessFields
               \/ outcome'[c] = "rpcError" /\ exchange[c].body = ErrorFields
    <2>1. Consistent(c) /\ exchange[c].at = "client" /\ outcome[c] = "pending"
      BY <1>1, HeldByType DEF Replies, Consistent
    <2>2. outcome'[c] # outcome[c]
      BY <1>1, <2>1 DEF Answers
    <2>3. PICK d \in Threads : \/ Refuse(d) \/ Begin(d)
                               \/ TransportFails(d) \/ Cancel(d) \/ ReadReply(d)
      BY <1>1, <2>2 DEF HttpNext, ClockTicks, Post, RelayReplies, OtherReplies, httpVars
    <2>4. d = c
      <3>1. \E o : Tell(d, o)
        BY <2>3 DEF Refuse, Begin, TransportFails, Cancel, ReadReply
      <3> QED
        BY <1>1, <2>2, <3>1 DEF Tell, HttpInv
    <2>5. TransportFails(c) \/ Cancel(c) \/ ReadReply(c)
      BY <2>1, <2>3, <2>4 DEF Refuse, Begin
    <2>6. ASSUME NEW o, Tell(c, o) PROVE outcome'[c] = o
      BY <1>1, <2>6 DEF Tell, HttpInv
    <2>7. outcome'[c] = Outcome(c, OwnReply(c))
      BY <1>1, <2>5, <2>6 DEF TransportFails, Cancel, ReadReply, Answers
    <2> QED
      BY <1>1, <2>7, OutcomeOfReply DEF Answers, Unknown
  <1>2. HttpInv /\ [HttpNext]_httpVars =>
          \A c \in Threads : Replies(c) /\ outcome'[c] \in Answers \cup {"foreign"} =>
            \/ outcome'[c] = "ok" /\ exchange[c].body = SuccessFields
            \/ outcome'[c] = "rpcError" /\ exchange[c].body = ErrorFields
    BY <1>1
  <1> QED
    BY <1>2, HttpInvariant, PTL DEF HttpSpec, ToldWhatWasSaid
-----------------------------------------------------------------------------
LEMMA MappedPending ==
    ASSUME NEW c \in Threads, outcome[c] = "pending"
    PROVE  c \in Rpc!Pending
  BY DEF Rpc!Pending, Known, Unknown

(* A caller that is told something settles its call.                       *)
LEMMA MappedTell ==
    ASSUME HttpInv, NEW c \in Threads, NEW o \in Outcomes, Tell(c, o)
    PROVE  Rpc!Settle({c}, IF o \in Unknown THEN "closed" ELSE o)
  <1>1. outcome'[c] = o /\ \A u \in Threads \ {c} : outcome'[u] = outcome[u]
    BY Told
  <1> QED
    BY <1>1 DEF Rpc!Settle, Known

(* A call about whose end nothing is known closes.                         *)
LEMMA MappedClose ==
    ASSUME HttpInv, NEW c \in Threads, NEW o \in Unknown, Tell(c, o), outcome[c] = "pending",
           executed' \in {executed, executed \cup {c}}
    PROVE  Rpc!Close
  <1> DEFINE seen == IF executed' = executed THEN {} ELSE {c}
  <1>1. {c} \in SUBSET Rpc!Pending /\ seen \in SUBSET Rpc!Pending /\ {} \in SUBSET Rpc!Pending
    BY MappedPending
  <1>2. Rpc!Settle({c}, "closed")
    BY MappedTell DEF Outcomes
  <1>3. executed' = executed \cup seen
    OBVIOUS
  <1>4. [r \in Threads |-> Known(r)]' =
            [r \in Threads |-> CASE r \in {c} -> "closed"
                                 [] r \in {}  -> "refused"
                                 [] OTHER     -> [d \in Threads |-> Known(d)][r]]
    BY <1>2 DEF Rpc!Settle
  <1>5. seen \subseteq {c} /\ {} \cap ({c} \cup executed) = {}
    OBVIOUS
  <1> HIDE DEF seen
  <1> QED
    BY <1>1, <1>3, <1>4, <1>5 DEF Rpc!Close

(* The HTTP client implements at-most-once calls.                          *)
THEOREM HttpImplementsRpcCorrect == HttpSpec => HttpImplementsRpc
  <1>1. HttpInit => Rpc!RpcInit
    BY DEF HttpInit, Rpc!RpcInit, Known, Unknown
  <1>2. ASSUME HttpInv, [HttpNext]_httpVars PROVE [Rpc!RpcNext]_(Rpc!rpcVars)
    <2> USE <1>2
    <2>1. ASSUME NEW c \in Threads, Refuse(c) \/ Begin(c) PROVE Rpc!RpcNext
      <3>1. PICK o \in {"pending", "refused"} : Tell(c, o)
        BY <2>1 DEF Refuse, Begin
      <3>2. o \in Outcomes /\ o \notin Unknown /\ executed' = executed
        BY <2>1 DEF Outcomes, Unknown, Refuse, Begin
      <3>3. Rpc!Settle({c}, o)
        BY <3>1, <3>2, MappedTell
      <3>4. [d \in Threads |-> Known(d)][c] = "idle"
        BY <2>1 DEF Refuse, Begin, Known, Unknown
      <3>5. Rpc!Make(c)
        BY <3>2, <3>3, <3>4 DEF Rpc!Make
      <3> QED
        BY <3>5 DEF Rpc!RpcNext
    <2>2. ASSUME NEW c \in Threads, RelayReplies(c) \/ OtherReplies(c)
          PROVE  [Rpc!RpcNext]_(Rpc!rpcVars)
      <3>1. /\ executed' \in {executed, executed \cup {c}} /\ outcome' = outcome
            /\ exchange[c].at = "relay"
        BY <2>2 DEF RelayReplies, OtherReplies
      <3>2. c \in Rpc!Pending /\ c \notin executed
        BY <3>1, MappedPending, HeldByType DEF Consistent
      <3>3. [d \in Threads |-> Known(d)]' = [d \in Threads |-> Known(d)]
        BY <3>1 DEF Known
      <3>4. CASE executed' = executed
        BY <3>3, <3>4 DEF Rpc!rpcVars
      <3>5. CASE executed' = executed \cup {c}
        BY <3>2, <3>3, <3>5 DEF Rpc!Process, Rpc!RpcNext
      <3> QED
        BY <3>1, <3>4, <3>5
    <2>3. ASSUME NEW c \in Threads, TransportFails(c) \/ Cancel(c) \/ ReadReply(c)
          PROVE  Rpc!RpcNext
      <3>1. outcome[c] = "pending"
        BY <2>3, Ends, HeldByType DEF Consistent
      <3>2. ASSUME NEW o \in Unknown, Tell(c, o) PROVE Rpc!RpcNext
        <4>1. executed' \in {executed, executed \cup {c}}
          BY <2>3, Ends
        <4> QED
          BY <3>1, <3>2, <4>1, MappedClose DEF Rpc!RpcNext
      <3>3. ASSUME ReadReply(c), Outcome(c, OwnReply(c)) \in Answers PROVE Rpc!RpcNext
        <4> DEFINE o == Outcome(c, OwnReply(c))
        <4>1. o \in Outcomes /\ o \notin Unknown /\ c \in executed /\ executed' = executed
              /\ Tell(c, o)
          BY <3>3, OutcomeOfReply DEF ReadReply, Outcomes, Answers, Unknown
        <4>2. Rpc!Settle({c}, o)
          BY <4>1, MappedTell
        <4>3. Rpc!Answer(c)
          BY <3>1, <3>3, <4>1, <4>2, MappedPending DEF Rpc!Answer
        <4> QED
          BY <4>3 DEF Rpc!RpcNext
      <3>4. "transport" \in Unknown /\ "cancelled" \in Unknown
        BY DEF Unknown
      <3>5. ReadReply(c) => Outcome(c, OwnReply(c)) \in Answers \cup Unknown
        BY OutcomeOfReply DEF ReadReply
      <3> QED
        BY <2>3, <3>2, <3>3, <3>4, <3>5, Ends
    <2>4. ASSUME UNCHANGED <<outcome, executed>> PROVE UNCHANGED Rpc!rpcVars
      BY <2>4 DEF Rpc!rpcVars, Known
    <2>5. CASE ClockTicks \/ UNCHANGED httpVars \/ \E c \in Threads : Post(c)
      BY <2>4, <2>5 DEF ClockTicks, httpVars, Post
    <2> QED
      BY <2>1, <2>2, <2>3, <2>5 DEF HttpNext
  <1> QED
    BY <1>1, <1>2, HttpInvariant, PTL DEF HttpSpec, HttpImplementsRpc, Rpc!RpcSpec
-----------------------------------------------------------------------------
(* Whatever the exchanges do, the ids come from the generator as other     *)
(* tasks see it: begin and post are its two steps, and nothing else of the *)
(* HTTP client touches it (http.rs:276-283).                               *)
THEOREM HttpRunsGenerator == HttpSpec => GenSpec
  <1>1. HttpInit => GenInit
    BY DEF HttpInit
  <1>2. [HttpNext]_httpVars => [GenNext]_genVars
    BY DEF HttpNext, httpVars, genVars, ClockTicks, Refuse, Begin, Post, RelayReplies,
           OtherReplies, TransportFails, Cancel, Abandon, ReadReply, GenNext
  <1> QED
    BY <1>1, <1>2, PTL DEF HttpSpec, GenSpec
-----------------------------------------------------------------------------
(* What callers of an at-most-once call may rely on, from RpcSpec alone.   *)
Mapped == [c \in Threads |-> Known(c)]

LEMMA RpcSteps ==
    ASSUME [Rpc!RpcNext]_(Rpc!rpcVars)
    PROVE  \/ Mapped' = Mapped /\ executed' = executed
           \/ \E r \in Threads, o \in {"pending", "refused"} :
                 /\ Mapped[r] = "idle" /\ executed' = executed
                 /\ Mapped' = [q \in Threads |-> IF q \in {r} THEN o ELSE Mapped[q]]
           \/ \E r \in Threads :
                 /\ Mapped[r] = "pending" /\ Mapped' = Mapped
                 /\ executed' = executed \cup {r}
           \/ \E r \in Threads, o \in Answers \cup {"refused"} :
                 /\ Mapped[r] = "pending" /\ executed' = executed
                 /\ r \in executed <=> o \in Answers
                 /\ Mapped' = [q \in Threads |-> IF q \in {r} THEN o ELSE Mapped[q]]
           \/ \E failed, seen, unbegun \in SUBSET {r \in Threads : Mapped[r] = "pending"} :
                 /\ seen \subseteq failed /\ unbegun \cap (failed \cup executed) = {}
                 /\ Mapped' = [r \in Threads |-> CASE r \in failed  -> "closed"
                                                   [] r \in unbegun -> "refused"
                                                   [] OTHER         -> Mapped[r]]
                 /\ executed' = executed \cup seen
  <1>1. Rpc!Pending = {r \in Threads : Mapped[r] = "pending"}
    BY DEF Rpc!Pending, Mapped
  <1>2. ASSUME NEW S, NEW o, Rpc!Settle(S, o)
        PROVE  Mapped' = [q \in Threads |-> IF q \in S THEN o ELSE Mapped[q]]
    BY <1>2 DEF Rpc!Settle, Mapped
  <1>3. CASE UNCHANGED Rpc!rpcVars
    BY <1>3 DEF Rpc!rpcVars, Mapped
  <1>4. ASSUME NEW r \in Threads, Rpc!Make(r)
        PROVE  \E o \in {"pending", "refused"} :
                 /\ Mapped[r] = "idle" /\ executed' = executed
                 /\ Mapped' = [q \in Threads |-> IF q \in {r} THEN o ELSE Mapped[q]]
    <2>1. Mapped[r] = "idle" /\ executed' = executed
      BY <1>4 DEF Rpc!Make, Mapped
    <2>2. PICK o \in {"pending", "refused"} : Rpc!Settle({r}, o)
      BY <1>4 DEF Rpc!Make
    <2> QED
      BY <1>2, <2>1, <2>2
  <1>5. ASSUME NEW r \in Threads, Rpc!Process(r)
        PROVE  /\ Mapped[r] = "pending" /\ Mapped' = Mapped
               /\ executed' = executed \cup {r}
    BY <1>1, <1>5 DEF Rpc!Process, Mapped
  <1>6. ASSUME NEW r \in Threads, Rpc!Answer(r) \/ Rpc!Refuse(r)
        PROVE  \E o \in Answers \cup {"refused"} :
                 /\ Mapped[r] = "pending" /\ executed' = executed
                 /\ r \in executed <=> o \in Answers
                 /\ Mapped' = [q \in Threads |-> IF q \in {r} THEN o ELSE Mapped[q]]
    <2>1. Mapped[r] = "pending" /\ executed' = executed
      BY <1>1, <1>6 DEF Rpc!Answer, Rpc!Refuse
    <2>2. PICK o \in Answers \cup {"refused"} : Rpc!Settle({r}, o) /\ (r \in executed <=> o \in Answers)
      BY <1>6 DEF Rpc!Answer, Rpc!Refuse, Answers
    <2> QED
      BY <1>2, <2>1, <2>2
  <1>7. CASE Rpc!Close
    BY <1>1, <1>7 DEF Rpc!Close, Mapped
  <1> QED
    BY <1>3, <1>4, <1>5, <1>6, <1>7 DEF Rpc!RpcNext

LEMMA RpcKeepsPromise == Rpc!RpcSpec => []Rpc!Promised
  <1> DEFINE Kept(told, done) ==
        \A r \in Threads : /\ told[r] \in Answers => r \in done
                           /\ told[r] \in {"idle", "refused"} => r \notin done
  <1>1. Rpc!RpcInit => Rpc!Promised
    BY DEF Rpc!RpcInit, Rpc!Promised, Answers
  <1>2. Rpc!Promised <=> Kept(Mapped, executed)
    BY DEF Rpc!Promised, Mapped
  <1>3. Rpc!Promised' <=> Kept(Mapped', executed')
    BY DEF Rpc!Promised, Mapped
  <1>4. ASSUME Kept(Mapped, executed), [Rpc!RpcNext]_(Rpc!rpcVars) PROVE Kept(Mapped', executed')
    BY <1>4, RpcSteps DEF Answers
  <1>5. Rpc!Promised /\ [Rpc!RpcNext]_(Rpc!rpcVars) => Rpc!Promised'
    BY <1>2, <1>3, <1>4
  <1> QED
    BY <1>1, <1>5, PTL DEF Rpc!RpcSpec

LEMMA RpcTellsOnce == Rpc!RpcSpec => Rpc!ToldOnce
  <1>1. ASSUME [Rpc!RpcNext]_(Rpc!rpcVars), NEW r \in Threads, Mapped[r] \notin {"idle", "pending"}
        PROVE  Mapped'[r] = Mapped[r]
    BY <1>1, RpcSteps
  <1>2. [Rpc!RpcNext]_(Rpc!rpcVars) =>
           [\A r \in Threads : Mapped[r] \notin {"idle", "pending"} => Mapped'[r] = Mapped[r]]_(Rpc!rpcVars)
    BY <1>1
  <1> QED
    BY <1>2, PTL DEF Rpc!RpcSpec, Rpc!ToldOnce, Mapped

(* The HTTP client keeps what an at-most-once call promises: an "ok" or an *)
(* error of the relay comes from a request that the relay processed, a     *)
(* refused call was not processed and can be made again, and no outcome is *)
(* taken back, whatever fails, is cancelled or lost (http.rs:270-312).     *)
THEOREM HttpKeepsPromise == HttpSpec => []Rpc!Promised /\ Rpc!ToldOnce
  BY HttpImplementsRpcCorrect, RpcKeepsPromise, RpcTellsOnce, PTL DEF HttpImplementsRpc
=============================================================================
