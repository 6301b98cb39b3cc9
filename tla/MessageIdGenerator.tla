-------------------------- MODULE MessageIdGenerator --------------------------
(***************************************************************************)
(* MessageIdGenerator of relay_client/src/lib.rs, as threads share it: the *)
(* generator is a clone-able handle on one AtomicU8, and the http client   *)
(* calls next() from every task that makes a request.  A call takes two    *)
(* steps, the counter first and the wall clock after it.  The wall clock   *)
(* does not step back here (ClientStream lets it).                         *)
(***************************************************************************)
EXTENDS Integers, Sequences, FiniteSets

CONSTANTS
    Threads,        \* the tasks that share the generator
    CounterSize,    \* number of values of the AtomicU8, 256 in the code
    MaxClock,       \* bound: the last millisecond
    MaxCalls        \* bound: calls of next()

ASSUME GeneratorAssumption ==
    /\ CounterSize \in Nat \ {0}
    /\ MaxClock \in Nat \ {0}
    /\ MaxCalls \in Nat

VARIABLES
    next,           \* MessageIdGenerator::next
    clock,          \* the wall clock in milliseconds
    holding,        \* the counter value and number of each thread's open call
    taken,          \* calls that have taken a counter value
    made            \* the ids made: [time, counter, number]

genVars == <<next, clock, holding, taken, made>>

NotCalling == [counter |-> 0, number |-> 0]

GenInit ==
    /\ next = 0
    /\ clock = 1
    /\ holding = [t \in Threads |-> NotCalling]
    /\ taken = 0
    /\ made = {}

UnwrappedValue == next + 1
ShortTurn      == (next + 1) % (CounterSize - 1)
NextValue      == (next + 1) % CounterSize

(* fetch_add(1) on an AtomicU8: wraps.                                     *)
FetchAdd(t) ==
    /\ holding[t] = NotCalling
    /\ taken < MaxCalls
    /\ next' = NextValue
    /\ taken' = taken + 1
    /\ holding' = [holding EXCEPT ![t] = [counter |-> next, number |-> taken + 1]]
    /\ UNCHANGED <<clock, made>>

(* Utc::now() and the id: `timestamp << 8 | next`.                         *)
ReadClock(t) ==
    /\ holding[t] # NotCalling
    /\ made' = made \cup {[time |-> clock, counter |-> holding[t].counter,
                           number |-> holding[t].number]}
    /\ holding' = [holding EXCEPT ![t] = NotCalling]
    /\ UNCHANGED <<next, clock, taken>>

NextMillisecond ==
    /\ clock < MaxClock
    /\ clock' = clock + 1
    /\ UNCHANGED <<next, holding, taken, made>>

GenNext == NextMillisecond \/ \E t \in Threads : FetchAdd(t) \/ ReadClock(t)

GenSpec == GenInit /\ [][GenNext]_genVars
-----------------------------------------------------------------------------
OpenCall == [counter : 0..CounterSize - 1, number : 0..MaxCalls]

(* The variables have their types; numbers run from 1 and 0 is no call.    *)
GenTypeOK ==
    /\ next \in 0..CounterSize - 1
    /\ clock \in 1..MaxClock
    /\ holding \in [Threads -> OpenCall]
    /\ taken \in 0..MaxCalls
    /\ made \subseteq [time : 1..MaxClock, counter : 0..CounterSize - 1,
                       number : 1..MaxCalls]

SameId(a, b) == a.time = b.time /\ a.counter = b.counter

(* Two calls that make the same id are at least a full turn of the counter *)
(* apart, whatever the threads and the clock do: this is all that the      *)
(* counter guarantees, and what ClientStream and its map of pending        *)
(* requests rest on (lib.rs:156-163).                                      *)
RepeatsAreATurnApart ==
    \A a, b \in made :
        SameId(a, b) /\ a.number < b.number => b.number - a.number >= CounterSize

(* lib.rs:142-144: "Generates unique message IDs [...] Capable of          *)
(* producing up to `256000` unique values per second", which is 256 in     *)
(* each millisecond (lib.rs:192): as long as no millisecond produces more  *)
(* ids than the counter has values, no id repeats.                         *)
WithinRate ==
    \A m \in 1..MaxClock : Cardinality({a \in made : a.time = m}) <= CounterSize

UniqueWithinRate ==
    WithinRate => \A a, b \in made : SameId(a, b) => a = b
=============================================================================
