------------------------- MODULE SnowflakeGenerator -------------------------
(***************************************************************************)
(* ids/snowflake.py: generators that make 64-bit identifiers of a          *)
(* timestamp, a node (datacenter and worker) and a sequence number, the    *)
(* class-wide lock they share, and the process's default generator.        *)
(*                                                                         *)
(* Threads interleave between the registry's lock and the generator's, and *)
(* while one of them spins for the next millisecond.  The wall clock moves *)
(* forward, stands still, or is set back.                                  *)
(*                                                                         *)
(* The shifts are the sizes of the fields: the constructor checks that     *)
(* worker and datacenter fit theirs, so `or'-ing the fields adds them.     *)
(***************************************************************************)
EXTENDS Integers, Sequences

CONSTANTS
    Threads,
    Generators,      \* the SnowflakeGenerator objects the process may create
    NoGenerator,
    NoThread,
    Nodes,           \* bound: the <<datacenter_id, worker_id>> configured
    Epoch,           \* epoch_ms
    Datacenters,     \* 1 << datacenter_bits
    Workers,         \* 1 << worker_bits
    SequenceSize,    \* 1 << sequence_bits
    StartsAt,        \* bound: the clock at the start
    MaxClock,        \* bound: the latest time
    MaxSetBacks,     \* bound: how often the clock is set back
    MaxIds           \* bound: the calls of generate_id

ASSUME SizesPositive ==
    Datacenters \in Nat \ {0} /\ Workers \in Nat \ {0} /\ SequenceSize \in Nat \ {0}
ASSUME NodesInRange ==
    /\ Nodes \subseteq (0..Datacenters-1) \X (0..Workers-1)
    /\ <<0, 0>> \in Nodes
ASSUME EpochIsInt == Epoch \in Int
ASSUME ClockIsNat == StartsAt \in Nat /\ MaxClock \in Nat /\ StartsAt <= MaxClock
ASSUME BoundsAreNat == MaxSetBacks \in Nat /\ MaxIds \in Nat
ASSUME NoneIsNone == NoGenerator \notin Generators /\ NoThread \notin Threads

VARIABLES
    clock,       \* time.time() in milliseconds
    node,        \* generator -> its node, or << >> before it is created
    last,        \* generator -> _last_timestamp
    sequence,    \* generator -> _sequence
    instance,    \* _Registry.instance
    pc,          \* thread -> "idle", "has" (a generator) or "spins"
    gen,         \* thread -> the generator it calls
    holder,      \* the thread in SnowflakeGenerator._LOCK
    issued,      \* history: the identifiers returned, in order, and what they are made of
    calls,       \* calls of generate_id so far
    setBacks     \* how often the clock was set back

vars == <<clock, node, last, sequence, instance, pc, gen, holder, issued, calls, setBacks>>

max_sequence == SequenceSize - 1

(* Mutant: the timestamp's shift leaves no room for the datacenter. *)
IdOverlapping(timestamp, nd, seq) ==
    (((timestamp - Epoch) + nd[1]) * Workers + nd[2]) * SequenceSize + seq
(* What generate() puts together. *)
Id(timestamp, nd, seq) ==
    (((timestamp - Epoch) * Datacenters + nd[1]) * Workers + nd[2]) * SequenceSize + seq

Init ==
    /\ clock = StartsAt
    /\ node = [g \in Generators |-> << >>]
    /\ last = [g \in Generators |-> -1]
    /\ sequence = [g \in Generators |-> 0]
    /\ instance = NoGenerator
    /\ pc = [t \in Threads |-> "idle"]
    /\ gen = [t \in Threads |-> NoGenerator]
    /\ holder = NoThread
    /\ issued = << >>
    /\ calls = 0
    /\ setBacks = 0

-----------------------------------------------------------------------------
(* The default generator *)

Create(g, nd) ==
    /\ node[g] = << >>
    /\ node' = [node EXCEPT ![g] = nd]

ConfigureDefault(g, nd) ==
    /\ Create(g, nd)
    /\ instance' = g
    /\ UNCHANGED <<clock, last, sequence, pc, gen, holder, issued, calls, setBacks>>

ResetDefault ==
    /\ instance # NoGenerator
    /\ instance' = NoGenerator
    /\ UNCHANGED <<clock, node, last, sequence, pc, gen, holder, issued, calls, setBacks>>

(* _get_default: a generator for node 0 when there is none. *)
GetDefault(t, g) ==
    /\ pc[t] = "idle"
    /\ calls < MaxIds
    /\ IF instance = NoGenerator THEN Create(g, <<0, 0>>) ELSE g = instance /\ UNCHANGED node
    /\ instance' = g
    /\ pc' = [pc EXCEPT ![t] = "has"]
    /\ gen' = [gen EXCEPT ![t] = g]
    /\ calls' = calls + 1
    /\ UNCHANGED <<clock, last, sequence, holder, issued, setBacks>>

-----------------------------------------------------------------------------
(* generate *)

(* Mutant: the lock is released only by a call that did not spin. *)
Return(t, timestamp, seq) ==
    LET g == gen[t] IN
    /\ last' = [last EXCEPT ![g] = timestamp]
    /\ sequence' = [sequence EXCEPT ![g] = seq]
    /\ issued' = Append(issued, [gen |-> g, time |-> timestamp, seq |-> seq, id |-> Id(timestamp, node[g], seq)])
    /\ pc' = [pc EXCEPT ![t] = "idle"]
    /\ gen' = [gen EXCEPT ![t] = NoGenerator]
    /\ holder' = NoThread
    /\ UNCHANGED <<clock, node, instance, calls, setBacks>>

(* The lock is taken and nobody spins in it.  A clock that has moved on     *)
(* starts the sequence anew.                                                *)
GenerateAtNewTime(t) ==
    /\ pc[t] = "has"
    /\ holder = NoThread
    /\ clock > last[gen[t]]
    /\ Return(t, clock, 0)

(* The same millisecond with numbers left in it. *)
GenerateAtSameTime(t) ==
    /\ pc[t] = "has"
    /\ holder = NoThread
    /\ clock = last[gen[t]]
    /\ sequence[gen[t]] < max_sequence
    /\ Return(t, clock, sequence[gen[t]] + 1)

(* The millisecond is used up, or the clock was set back: spin, lock held. *)
GenerateWaits(t) ==
    LET g == gen[t] IN
    /\ pc[t] = "has"
    /\ holder = NoThread
    /\ clock < last[g] \/ (clock = last[g] /\ sequence[g] = max_sequence)
    /\ sequence' = [sequence EXCEPT ![g] = IF clock = last[g] THEN 0 ELSE @]
    /\ pc' = [pc EXCEPT ![t] = "spins"]
    /\ holder' = t
    /\ UNCHANGED <<clock, node, last, instance, gen, issued, calls, setBacks>>

(* _wait_next_millis has read a later time: the sequence is 0 both for a    *)
(* clock that had gone back and for a used-up millisecond.                  *)
WaitNextMillis(t) ==
    /\ pc[t] = "spins"
    /\ clock > last[gen[t]]
    /\ Return(t, clock, 0)

-----------------------------------------------------------------------------
(* The wall clock *)

Tick ==
    /\ clock < MaxClock
    /\ clock' = clock + 1
    /\ UNCHANGED <<node, last, sequence, instance, pc, gen, holder, issued, calls, setBacks>>

SetBack(to) ==
    /\ setBacks < MaxSetBacks
    /\ to < clock
    /\ clock' = to
    /\ setBacks' = setBacks + 1
    /\ UNCHANGED <<node, last, sequence, instance, pc, gen, holder, issued, calls>>

Generate(t) ==
    \/ GenerateAtNewTime(t)
    \/ GenerateAtSameTime(t)
    \/ GenerateWaits(t)
    \/ WaitNextMillis(t)

Next ==
    \/ \E g \in Generators, nd \in Nodes : ConfigureDefault(g, nd)
    \/ ResetDefault
    \/ \E t \in Threads, g \in Generators : GetDefault(t, g)
    \/ \E t \in Threads : Generate(t)
    \/ Tick
    \/ \E to \in 0..MaxClock : SetBack(to)

Spec == Init /\ [][Next]_vars

-----------------------------------------------------------------------------
Issues == [gen : Generators, time : 0..MaxClock, seq : 0..max_sequence, id : Int]

(* The types of the clock, the generators and the threads. *)
TypeOK ==
    /\ clock \in 0..MaxClock
    /\ node \in [Generators -> Nodes \cup {<< >>}]
    /\ last \in [Generators -> Int]
    /\ sequence \in [Generators -> 0..max_sequence]
    /\ instance \in Generators \cup {NoGenerator}
    /\ pc \in [Threads -> {"idle", "has", "spins"}]
    /\ gen \in [Threads -> Generators \cup {NoGenerator}]
    /\ holder \in Threads \cup {NoThread}
    /\ issued \in Seq(Issues)
    /\ calls \in 0..MaxIds
    /\ setBacks \in 0..MaxSetBacks

(* The identifiers of a generator increase in the order they are returned,  *)
(* whatever the clock does and whichever threads call.                      *)
IdsIncrease ==
    \A i, j \in 1..Len(issued) :
        i < j /\ issued[i].gen = issued[j].gen => issued[i].id < issued[j].id

(* Two equal identifiers can only come from two generators that were given  *)
(* the same node.                                                           *)
IdsUnique ==
    \A i, j \in 1..Len(issued) :
        i # j /\ issued[i].id = issued[j].id =>
            /\ issued[i].gen # issued[j].gen
            /\ node[issued[i].gen] = node[issued[j].gen]

-----------------------------------------------------------------------------
(* What makes the safety properties inductive. *)

(* Who calls a generator, and who spins in the lock. *)
CallsAreLive ==
    /\ instance # NoGenerator => node[instance] # << >>
    /\ \A t \in Threads : pc[t] # "idle" => gen[t] \in Generators /\ node[gen[t]] # << >>
    /\ \A t \in Threads : pc[t] = "spins" => holder = t

(* An identifier is made of its time, its generator's node and its number. *)
IdsAreMade ==
    \A i \in 1..Len(issued) :
        /\ node[issued[i].gen] # << >>
        /\ issued[i].id = Id(issued[i].time, node[issued[i].gen], issued[i].seq)

Spinning(g) == \E t \in Threads : pc[t] = "spins" /\ gen[t] = g

(* A generator remembers the last time and number it used; while it waits   *)
(* for the next millisecond, only the time.                                 *)
LastIsRemembered ==
    \A i \in 1..Len(issued) :
        \/ issued[i].time < last[issued[i].gen]
        \/ /\ issued[i].time = last[issued[i].gen]
           /\ issued[i].seq <= sequence[issued[i].gen] \/ Spinning(issued[i].gen)

(* Times and numbers of a generator increase. *)
Increases ==
    \A i, j \in 1..Len(issued) :
        i < j /\ issued[i].gen = issued[j].gen =>
            \/ issued[i].time < issued[j].time
            \/ issued[i].time = issued[j].time /\ issued[i].seq < issued[j].seq

IInv == TypeOK /\ CallsAreLive /\ IdsAreMade /\ LastIsRemembered /\ Increases
=============================================================================
