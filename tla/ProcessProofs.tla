--------------------------- MODULE ProcessProofs ----------------------------
(***************************************************************************)
(* What one process shares between its threads and tasks: the identifiers, *)
(* the singleton, the GeoIP reader, the health probes, and the gRPC        *)
(* channels and HTTP clients, each for any number of threads, tasks, loops *)
(* and calls.                                                              *)
(***************************************************************************)
EXTENDS SnowflakeGenerator, AsyncSingleton, GeoDatabase, HealthState, SharedChannels, TLAPS

-----------------------------------------------------------------------------
(***************************************************************************)
(* Identifiers increase and are unique per node, for any number of threads *)
(* and generators, any field sizes and whatever the clock does.            *)
(***************************************************************************)

(* The fields of an identifier *)

(* A digit below the base never makes up for a smaller leading part. *)
LEMMA DigitsLess ==
    ASSUME NEW base \in Nat \ {0}, NEW a \in Int, NEW b \in Int, a < b,
           NEW x \in 0..base-1, NEW y \in 0..base-1
    PROVE  a * base + x < b * base + y
<1>1. PICK d \in Nat : b = a + 1 + d
  <2>1. b - a - 1 \in Nat /\ b = a + 1 + (b - a - 1)
    OBVIOUS
  <2> QED
    BY <2>1, Zenon
<1>2. d * base \in Nat
  OBVIOUS
<1>3. b * base = a * base + base + d * base
  BY <1>1
<1> QED
  BY <1>2, <1>3

(* Equal numbers have equal leading parts and equal digits. *)
LEMMA DigitsEqual ==
    ASSUME NEW base \in Nat \ {0}, NEW a \in Int, NEW b \in Int,
           NEW x \in 0..base-1, NEW y \in 0..base-1,
           a * base + x = b * base + y
    PROVE  a = b /\ x = y
<1>1. ~(a < b)
  <2> SUFFICES ASSUME a < b PROVE FALSE
    BY Zenon
  <2>1. a * base + x < b * base + y
    BY DigitsLess, Zenon
  <2> QED
    BY <2>1
<1>2. ~(b < a)
  <2> SUFFICES ASSUME b < a PROVE FALSE
    BY Zenon
  <2>1. b * base + y < a * base + x
    BY DigitsLess, Zenon
  <2> QED
    BY <2>1
<1>3. a = b
  BY <1>1, <1>2
<1> QED
  BY <1>3

(* Id of a node in range is a number, and later times and later numbers of  *)
(* one node make larger ones.                                               *)
LEMMA IdGrows ==
    ASSUME NEW nd \in Nodes, NEW t1 \in Int, NEW t2 \in Int,
           NEW s1 \in 0..max_sequence, NEW s2 \in 0..max_sequence,
           t1 < t2 \/ (t1 = t2 /\ s1 < s2)
    PROVE  Id(t1, nd, s1) < Id(t2, nd, s2)
<1> DEFINE dc1 == (t1 - Epoch) * Datacenters + nd[1]
           dc2 == (t2 - Epoch) * Datacenters + nd[1]
           w1 == dc1 * Workers + nd[2]
           w2 == dc2 * Workers + nd[2]
<1>1. nd[1] \in 0..Datacenters-1 /\ nd[2] \in 0..Workers-1
  BY NodesInRange, Zenon
<1>2. dc1 \in Int /\ dc2 \in Int /\ t1 - Epoch \in Int /\ t2 - Epoch \in Int
  BY <1>1, EpochIsInt, SizesPositive
<1>3. w1 \in Int /\ w2 \in Int
  BY <1>1, <1>2, SizesPositive
<1>4. Id(t1, nd, s1) = w1 * SequenceSize + s1 /\ Id(t2, nd, s2) = w2 * SequenceSize + s2
  BY Zenon DEF Id
<1>5. s1 \in 0..SequenceSize-1 /\ s2 \in 0..SequenceSize-1
  BY Zenon DEF max_sequence
<1>6. CASE t1 < t2
  <2>1. t1 - Epoch < t2 - Epoch
    BY <1>6, EpochIsInt
  <2>2. dc1 < dc2
    BY <1>1, <1>2, <2>1, DigitsLess, SizesPositive, Zenon
  <2>3. w1 < w2
    <3> HIDE DEF dc1, dc2
    <3> QED
      BY <1>1, <1>2, <2>2, DigitsLess, SizesPositive, Zenon
  <2> HIDE DEF w1, w2
  <2> QED
    BY <1>3, <1>4, <1>5, <2>3, DigitsLess, SizesPositive, Zenon
<1>7. CASE t1 = t2 /\ s1 < s2
  <2>1. w1 = w2
    BY <1>7, Zenon
  <2>2. w1 * SequenceSize \in Int
    <3> HIDE DEF w1
    <3> QED
      BY <1>3, SizesPositive
  <2> HIDE DEF w1, w2
  <2> QED
    BY <1>4, <1>7, <2>1, <2>2
<1> QED
  BY <1>6, <1>7, Zenon

(* Equal identifiers have the same node. *)
LEMMA IdNode ==
    ASSUME NEW nd1 \in Nodes, NEW nd2 \in Nodes, NEW t1 \in Int, NEW t2 \in Int,
           NEW s1 \in 0..max_sequence, NEW s2 \in 0..max_sequence,
           Id(t1, nd1, s1) = Id(t2, nd2, s2)
    PROVE  nd1 = nd2
<1> DEFINE dc1 == (t1 - Epoch) * Datacenters + nd1[1]
           dc2 == (t2 - Epoch) * Datacenters + nd2[1]
           w1 == dc1 * Workers + nd1[2]
           w2 == dc2 * Workers + nd2[2]
<1>1. /\ nd1[1] \in 0..Datacenters-1 /\ nd1[2] \in 0..Workers-1 /\ nd1 = <<nd1[1], nd1[2]>>
      /\ nd2[1] \in 0..Datacenters-1 /\ nd2[2] \in 0..Workers-1 /\ nd2 = <<nd2[1], nd2[2]>>
  BY NodesInRange
<1>2. dc1 \in Int /\ dc2 \in Int /\ t1 - Epoch \in Int /\ t2 - Epoch \in Int
  BY <1>1, EpochIsInt, SizesPositive
<1>3. w1 \in Int /\ w2 \in Int
  BY <1>1, <1>2, SizesPositive
<1>4. w1 * SequenceSize + s1 = w2 * SequenceSize + s2
  BY Zenon DEF Id
<1>5. s1 \in 0..SequenceSize-1 /\ s2 \in 0..SequenceSize-1
  BY Zenon DEF max_sequence
<1>6. w1 = w2
  <2> HIDE DEF w1, w2
  <2> QED
    BY <1>3, <1>4, <1>5, DigitsEqual, SizesPositive, Zenon
<1>7. dc1 = dc2 /\ nd1[2] = nd2[2]
  <2> HIDE DEF dc1, dc2
  <2> QED
    BY <1>1, <1>2, <1>6, DigitsEqual, SizesPositive
<1>8. nd1[1] = nd2[1]
  BY <1>1, <1>2, <1>7, DigitsEqual, SizesPositive
<1> QED
  BY <1>1, <1>7, <1>8, Zenon

-----------------------------------------------------------------------------
(* Returning an identifier *)

(* The fields of what was issued. *)
LEMMA IssueTypes ==
    ASSUME TypeOK, NEW i \in 1..Len(issued)
    PROVE  /\ issued[i].gen \in Generators
           /\ issued[i].time \in 0..MaxClock /\ issued[i].time \in Int
           /\ issued[i].seq \in 0..max_sequence /\ issued[i].seq \in Int
<1>1. issued[i] \in Issues
  BY DEF TypeOK
<1>2. \A m \in Int : \A n \in 0..m : n \in Int
  OBVIOUS
<1>3. MaxClock \in Int /\ max_sequence \in Int
  BY ClockIsNat, SizesPositive DEF max_sequence
<1> QED
  BY <1>1, <1>2, <1>3, Zenon DEF Issues

(* A call that returns a time and a number after the last ones of its       *)
(* generator keeps the invariant.                                           *)
LEMMA ReturnStep ==
    ASSUME IInv, NEW t \in Threads, pc[t] # "idle", holder \in {NoThread, t},
           NEW time \in 0..MaxClock, NEW seq \in 0..max_sequence,
           \/ last[gen[t]] < time
           \/ last[gen[t]] = time /\ sequence[gen[t]] < seq /\ ~Spinning(gen[t]),
           Return(t, time, seq)
    PROVE  IInv'
<1> DEFINE g == gen[t]
           r == [gen |-> g, time |-> time, seq |-> seq, id |-> Id(time, node[g], seq)]
<1>1. TypeOK /\ CallsAreLive /\ IdsAreMade /\ LastIsRemembered /\ Increases
  BY Zenon DEF IInv
<1>2. g \in Generators /\ node[g] \in Nodes /\ node[g] # << >>
  BY <1>1, Zenon DEF TypeOK, CallsAreLive
<1>3. r \in Issues
  <2>1. node[g][1] \in Int /\ node[g][2] \in Int
    BY <1>2, NodesInRange, SizesPositive
  <2>2. ((time - Epoch) * Datacenters + node[g][1]) \in Int
    BY <2>1, EpochIsInt, SizesPositive, ClockIsNat
  <2>3. Id(time, node[g], seq) \in Int
    BY <2>1, <2>2, SizesPositive DEF Id, max_sequence
  <2> QED
    BY <1>2, <2>3, Zenon DEF Issues
<1>4. /\ issued' = Append(issued, r)
      /\ last' = [last EXCEPT ![g] = time]
      /\ sequence' = [sequence EXCEPT ![g] = seq]
      /\ pc' = [pc EXCEPT ![t] = "idle"]
      /\ gen' = [gen EXCEPT ![t] = NoGenerator]
      /\ holder' = NoThread
      /\ UNCHANGED <<clock, node, instance, calls, setBacks>>
  BY Zenon DEF Return
<1>5. TypeOK'
  <2> HIDE DEF r
  <2>1. issued' \in Seq(Issues)
    BY <1>1, <1>3, <1>4 DEF TypeOK
  <2>2. last' \in [Generators -> Int] /\ sequence' \in [Generators -> 0..max_sequence]
    <3>1. time \in Int
      BY ClockIsNat
    <3> QED
      BY <1>1, <1>4, <3>1, Zenon DEF TypeOK
  <2>3. /\ pc' \in [Threads -> {"idle", "has", "spins"}]
        /\ gen' \in [Threads -> Generators \cup {NoGenerator}]
        /\ holder' \in Threads \cup {NoThread}
    BY <1>1, <1>4, Zenon DEF TypeOK
  <2> QED
    BY <1>1, <1>4, <2>1, <2>2, <2>3, Zenon DEF TypeOK
<1>6. /\ Len(issued) \in Nat /\ Len(issued') = Len(issued) + 1
      /\ issued'[Len(issued) + 1] = r
      /\ \A i \in 1..Len(issued) : issued'[i] = issued[i]
  <2> HIDE DEF r
  <2> QED
    BY <1>1, <1>3, <1>4 DEF TypeOK
<1>7. /\ r.gen = g /\ r.time = time /\ r.seq = seq /\ r.id = Id(time, node[g], seq)
      /\ \A i \in 1..Len(issued) : /\ issued[i].gen \in Generators
                                   /\ issued[i].time \in Int
                                   /\ issued[i].seq \in Int
  BY <1>1, IssueTypes, Zenon
<1> HIDE DEF r
<1>8. \A i \in 1..Len(issued') : i \in 1..Len(issued) \/ i = Len(issued) + 1
  BY <1>6
<1>9. CallsAreLive'
  <2>1. \A u \in Threads : u # t => pc'[u] = pc[u] /\ gen'[u] = gen[u]
    BY <1>1, <1>4, Zenon DEF TypeOK
  <2>2. pc'[t] = "idle"
    BY <1>1, <1>4, Zenon DEF TypeOK
  <2>3. \A u \in Threads : u # t => pc[u] # "spins"
    BY <1>1, NoneIsNone, Zenon DEF CallsAreLive
  <2> QED
    BY <1>1, <1>4, <2>1, <2>2, <2>3, Zenon DEF CallsAreLive
<1>10. IdsAreMade'
  BY <1>1, <1>2, <1>4, <1>6, <1>7, <1>8, ZenonT(40) DEF IdsAreMade
<1>11. \A i \in 1..Len(issued) :
          issued[i].gen = g =>
              issued[i].time < time \/ (issued[i].time = time /\ issued[i].seq < seq)
  <2> SUFFICES ASSUME NEW i \in 1..Len(issued), issued[i].gen = g
               PROVE  issued[i].time < time \/ (issued[i].time = time /\ issued[i].seq < seq)
    BY Zenon
  <2>1. \/ issued[i].time < last[g]
        \/ issued[i].time = last[g] /\ (issued[i].seq <= sequence[g] \/ Spinning(g))
    BY <1>1, Zenon DEF LastIsRemembered
  <2>2. last[g] \in Int /\ sequence[g] \in Int /\ time \in Int /\ seq \in Int
    BY <1>1, <1>2, ClockIsNat, SizesPositive DEF TypeOK, max_sequence
  <2> QED
    BY <1>7, <2>1, <2>2
<1>12. LastIsRemembered'
  <2> SUFFICES ASSUME NEW i \in 1..Len(issued')
               PROVE  \/ issued'[i].time < last'[issued'[i].gen]
                      \/ /\ issued'[i].time = last'[issued'[i].gen]
                         /\ issued'[i].seq <= sequence'[issued'[i].gen] \/ Spinning(issued[i].gen)'
    BY Zenon DEF LastIsRemembered
  <2>1. last'[g] = time /\ sequence'[g] = seq /\ time \in Int /\ seq \in Int
    BY <1>1, <1>2, <1>4, ClockIsNat, SizesPositive DEF TypeOK, max_sequence
  <2>2. CASE i = Len(issued) + 1
    BY <1>6, <1>7, <2>1, <2>2
  <2>3. CASE i \in 1..Len(issued) /\ issued[i].gen = g
    BY <1>6, <1>7, <1>11, <2>1, <2>3
  <2>4. CASE i \in 1..Len(issued) /\ issued[i].gen # g
    <3> DEFINE h == issued[i].gen
    <3>1. last'[h] = last[h] /\ sequence'[h] = sequence[h]
      BY <1>1, <1>4, <1>7, <2>4, Zenon DEF TypeOK
    <3>2. Spinning(h) => Spinning(h)'
      BY <1>1, <1>4, <1>6, <2>4, Zenon DEF TypeOK, Spinning
    <3>3. \/ issued[i].time < last[h]
          \/ issued[i].time = last[h] /\ (issued[i].seq <= sequence[h] \/ Spinning(h))
      BY <1>1, <2>4, Zenon DEF LastIsRemembered
    <3> QED
      BY <1>6, <2>4, <3>1, <3>2, <3>3, Zenon
  <2> QED
    BY <1>8, <2>2, <2>3, <2>4, Zenon
<1>13. Increases'
  <2> SUFFICES ASSUME NEW i \in 1..Len(issued'), NEW j \in 1..Len(issued'),
                      i < j, issued'[i].gen = issued'[j].gen
               PROVE  \/ issued'[i].time < issued'[j].time
                      \/ issued'[i].time = issued'[j].time /\ issued'[i].seq < issued'[j].seq
    BY Zenon DEF Increases
  <2>1. i \in 1..Len(issued)
    BY <1>6
  <2>2. CASE j \in 1..Len(issued)
    BY <1>1, <1>6, <2>1, <2>2 DEF Increases
  <2>3. CASE j = Len(issued) + 1
    BY <1>6, <1>7, <1>11, <2>1, <2>3, Zenon
  <2> QED
    BY <1>8, <2>2, <2>3, Zenon
<1> QED
  BY <1>5, <1>9, <1>10, <1>12, <1>13, Zenon DEF IInv

-----------------------------------------------------------------------------
(* The other steps *)

(* A call that starts to spin forgets its number and keeps its time. *)
LEMMA WaitsStep ==
    ASSUME IInv, NEW t \in Threads, GenerateWaits(t)
    PROVE  IInv'
<1> DEFINE g == gen[t]
<1>1. TypeOK /\ CallsAreLive /\ IdsAreMade /\ LastIsRemembered /\ Increases
  BY Zenon DEF IInv
<1>2. /\ pc[t] = "has" /\ holder = NoThread
      /\ sequence' = [sequence EXCEPT ![g] = IF clock = last[g] THEN 0 ELSE @]
      /\ pc' = [pc EXCEPT ![t] = "spins"]
      /\ holder' = t
      /\ UNCHANGED <<clock, node, last, instance, gen, issued, calls, setBacks>>
  BY Zenon DEF GenerateWaits
<1>3. TypeOK'
  <2>1. 0 \in 0..max_sequence
    BY SizesPositive DEF max_sequence
  <2> QED
    BY <1>1, <1>2, <2>1, Zenon DEF TypeOK
<1>4. CallsAreLive'
  BY <1>1, <1>2, NoneIsNone, Zenon DEF TypeOK, CallsAreLive
<1>5. IdsAreMade' /\ Increases'
  BY <1>1, <1>2 DEF IdsAreMade, Increases
<1>6. LastIsRemembered'
  <2>1. Spinning(g)'
    BY <1>1, <1>2, Zenon DEF TypeOK, Spinning
  <2>2. \A h \in Generators : h # g => sequence'[h] = sequence[h] /\ (Spinning(h) => Spinning(h)')
    BY <1>1, <1>2, Zenon DEF TypeOK, Spinning
  <2>3. \A i \in 1..Len(issued) : issued[i].gen \in Generators
    BY <1>1, IssueTypes, Zenon
  <2> QED
    BY <1>1, <1>2, <2>1, <2>2, <2>3, Zenon DEF LastIsRemembered
<1> QED
  BY <1>3, <1>4, <1>5, <1>6, Zenon DEF IInv

(* Generators are created, calls begin, and the clock moves. *)
LEMMA OtherStep ==
    ASSUME IInv, UNCHANGED <<last, sequence, issued>>,
           TypeOK', CallsAreLive',
           \A g \in Generators : node[g] # << >> => node'[g] = node[g],
           \A t \in Threads : pc[t] = "spins" => pc'[t] = "spins" /\ gen'[t] = gen[t]
    PROVE  IInv'
<1>1. TypeOK /\ IdsAreMade /\ LastIsRemembered /\ Increases
  BY Zenon DEF IInv
<1>2. \A i \in 1..Len(issued) : issued[i].gen \in Generators
  BY <1>1, IssueTypes, Zenon
<1>3. IdsAreMade'
  BY <1>1, <1>2, Zenon DEF IdsAreMade
<1>4. \A g : Spinning(g) => Spinning(g)'
  BY Zenon DEF Spinning
<1>5. LastIsRemembered'
  BY <1>1, <1>4, Zenon DEF LastIsRemembered
<1>6. Increases'
  BY <1>1 DEF Increases
<1> QED
  BY <1>3, <1>5, <1>6, Zenon DEF IInv

(* One step of generate(), whichever branch it takes. *)
LEMMA GenerateStep ==
    ASSUME IInv, NEW t \in Threads, Generate(t)
    PROVE  IInv'
<1>1. TypeOK /\ CallsAreLive
  BY Zenon DEF IInv
<1>2. clock \in 0..MaxClock /\ 0 \in 0..max_sequence
  BY <1>1, SizesPositive DEF TypeOK, max_sequence
<1>3. CASE GenerateAtNewTime(t)
  <2>1. pc[t] # "idle" /\ holder = NoThread /\ last[gen[t]] < clock /\ Return(t, clock, 0)
    <3>1. gen[t] \in Generators
      BY <1>1, <1>3, Zenon DEF CallsAreLive, GenerateAtNewTime
    <3>2. last[gen[t]] \in Int /\ clock \in Int
      BY <1>1, <3>1, ClockIsNat DEF TypeOK
    <3> QED
      BY <1>3, <3>2, Zenon DEF GenerateAtNewTime
  <2> QED
    BY <1>2, <2>1, ReturnStep, Zenon
<1>4. CASE GenerateAtSameTime(t)
  <2>1. /\ pc[t] # "idle" /\ holder = NoThread /\ last[gen[t]] = clock
        /\ sequence[gen[t]] < max_sequence
        /\ Return(t, clock, sequence[gen[t]] + 1)
    BY <1>4, Zenon DEF GenerateAtSameTime
  <2>2. ~Spinning(gen[t])
    BY <1>1, <2>1, NoneIsNone, Zenon DEF CallsAreLive, Spinning
  <2>3. gen[t] \in Generators
    BY <1>1, <2>1, Zenon DEF CallsAreLive
  <2>4. sequence[gen[t]] + 1 \in 0..max_sequence /\ sequence[gen[t]] < sequence[gen[t]] + 1
    BY <1>1, <2>1, <2>3, SizesPositive DEF TypeOK, max_sequence
  <2> QED
    BY <1>2, <2>1, <2>2, <2>4, ReturnStep, Zenon
<1>5. CASE GenerateWaits(t)
  BY <1>5, WaitsStep, Zenon
<1>6. CASE WaitNextMillis(t)
  <2>1. pc[t] = "spins" /\ last[gen[t]] < clock /\ Return(t, clock, 0)
    <3>1. gen[t] \in Generators
      BY <1>1, <1>6, Zenon DEF CallsAreLive, WaitNextMillis
    <3>2. last[gen[t]] \in Int /\ clock \in Int
      BY <1>1, <3>1, ClockIsNat DEF TypeOK
    <3> QED
      BY <1>6, <3>2, Zenon DEF WaitNextMillis
  <2>2. holder = t
    BY <1>1, <2>1, Zenon DEF CallsAreLive
  <2> QED
    BY <1>2, <2>1, <2>2, ReturnStep, Zenon
<1> QED
  BY <1>3, <1>4, <1>5, <1>6, Zenon DEF Generate

(* Every step keeps the invariant. *)
LEMMA NextStep == IInv /\ [Next]_vars => IInv'
<1> SUFFICES ASSUME IInv, [Next]_vars PROVE IInv'
  BY Zenon
<1>1. TypeOK /\ CallsAreLive
  BY Zenon DEF IInv
<1>2. ASSUME NEW g \in Generators, NEW nd \in Nodes, ConfigureDefault(g, nd) PROVE IInv'
  <2>1. TypeOK'
    BY <1>1, <1>2, Zenon DEF TypeOK, ConfigureDefault, Create
  <2>2. CallsAreLive'
    <3>1. nd # << >>
      BY NodesInRange
    <3> QED
      BY <1>1, <1>2, <3>1, Zenon DEF TypeOK, CallsAreLive, ConfigureDefault, Create
  <2> QED
    BY <1>1, <1>2, <2>1, <2>2, OtherStep, Zenon DEF TypeOK, ConfigureDefault, Create
<1>3. CASE ResetDefault
  BY <1>1, <1>3, OtherStep, Zenon DEF TypeOK, CallsAreLive, ResetDefault
<1>4. ASSUME NEW t \in Threads, NEW g \in Generators, GetDefault(t, g) PROVE IInv'
  <2>1. <<0, 0>> \in Nodes /\ <<0, 0>> # << >>
    BY NodesInRange, Zenon
  <2>2. TypeOK'
    <3>1. calls' \in 0..MaxIds
      BY <1>1, <1>4, BoundsAreNat DEF TypeOK, GetDefault
    <3>2. node' \in [Generators -> Nodes \cup {<< >>}]
      BY <1>1, <1>4, <2>1, Zenon DEF TypeOK, GetDefault, Create
    <3> QED
      BY <1>1, <1>4, <3>1, <3>2, Zenon DEF TypeOK, GetDefault
  <2>3. /\ \A h \in Generators : node[h] # << >> => node'[h] = node[h]
        /\ node'[g] # << >>
    BY <1>1, <1>4, <2>1, Zenon DEF TypeOK, CallsAreLive, GetDefault, Create
  <2>4. /\ pc' = [pc EXCEPT ![t] = "has"] /\ gen' = [gen EXCEPT ![t] = g]
        /\ pc[t] = "idle" /\ instance' = g
        /\ UNCHANGED <<last, sequence, holder, issued>>
    BY <1>4, Zenon DEF GetDefault
  <2>5. CallsAreLive'
    BY <1>1, <2>3, <2>4, Zenon DEF TypeOK, CallsAreLive
  <2> QED
    BY <1>1, <2>2, <2>3, <2>4, <2>5, OtherStep, Zenon DEF TypeOK
<1>5. ASSUME NEW t \in Threads, Generate(t) PROVE IInv'
  BY <1>5, GenerateStep, Zenon
<1>6. CASE Tick
  <2>1. TypeOK'
    BY <1>1, <1>6, ClockIsNat DEF TypeOK, Tick
  <2> QED
    BY <1>1, <1>6, <2>1, OtherStep, Zenon DEF CallsAreLive, Tick
<1>7. ASSUME NEW to \in 0..MaxClock, SetBack(to) PROVE IInv'
  <2>1. TypeOK'
    BY <1>1, <1>7, BoundsAreNat DEF TypeOK, SetBack
  <2> QED
    BY <1>1, <1>7, <2>1, OtherStep, Zenon DEF CallsAreLive, SetBack
<1>8. CASE UNCHANGED vars
  BY <1>1, <1>8, OtherStep, Zenon DEF TypeOK, CallsAreLive, vars
<1> QED
  BY <1>2, <1>3, <1>4, <1>5, <1>6, <1>7, <1>8, Zenon DEF Next

(* Nothing is issued at first. *)
LEMMA InitIInv == Init => IInv
<1> SUFFICES ASSUME Init PROVE IInv
  BY Zenon
<1>1. issued = << >> /\ Len(issued) = 0 /\ issued \in Seq(Issues)
  BY DEF Init
<1>2. TypeOK
  <2>1. 0 \in 0..max_sequence /\ clock \in 0..MaxClock /\ calls \in 0..MaxIds /\ setBacks \in 0..MaxSetBacks
    BY SizesPositive, ClockIsNat, BoundsAreNat DEF Init, max_sequence
  <2> QED
    BY <1>1, <2>1 DEF Init, TypeOK
<1>3. CallsAreLive
  BY Zenon DEF Init, CallsAreLive
<1>4. IdsAreMade /\ LastIsRemembered /\ Increases
  BY <1>1 DEF IdsAreMade, LastIsRemembered, Increases
<1> QED
  BY <1>2, <1>3, <1>4, Zenon DEF IInv

-----------------------------------------------------------------------------
(* The inductive invariant of the generators and their callers. *)
THEOREM Invariance == Spec => []IInv
BY InitIInv, NextStep, PTL DEF Spec

(* Types, whatever the constants. *)
THEOREM TypesHold == Spec => []TypeOK
<1>1. IInv => TypeOK
  BY Zenon DEF IInv
<1> QED
  BY Invariance, <1>1, PTL

(* The identifiers of a generator increase, whatever the clock does. *)
THEOREM GeneratorsIncrease == Spec => []IdsIncrease
<1>1. IInv => IdsIncrease
  <2> SUFFICES ASSUME IInv, NEW i \in 1..Len(issued), NEW j \in 1..Len(issued),
                      i < j, issued[i].gen = issued[j].gen
               PROVE  issued[i].id < issued[j].id
    BY Zenon DEF IdsIncrease
  <2>1. TypeOK /\ IdsAreMade /\ Increases
    BY Zenon DEF IInv
  <2>2. node[issued[i].gen] \in Nodes
    BY <2>1, IssueTypes, Zenon DEF TypeOK, IdsAreMade
  <2>3. /\ issued[i].id = Id(issued[i].time, node[issued[i].gen], issued[i].seq)
        /\ issued[j].id = Id(issued[j].time, node[issued[i].gen], issued[j].seq)
    BY <2>1, Zenon DEF IdsAreMade
  <2>4. \/ issued[i].time < issued[j].time
        \/ issued[i].time = issued[j].time /\ issued[i].seq < issued[j].seq
    BY <2>1, Zenon DEF Increases
  <2>5. /\ issued[i].time \in Int /\ issued[i].seq \in 0..max_sequence
        /\ issued[j].time \in Int /\ issued[j].seq \in 0..max_sequence
    BY <2>1, IssueTypes, Zenon
  <2> QED
    BY <2>2, <2>3, <2>4, <2>5, IdGrows, Zenon
<1> QED
  BY Invariance, <1>1, PTL

(* Equal identifiers come from two generators of one node. *)
THEOREM NodesNeverCollide == Spec => []IdsUnique
<1>1. IInv /\ IdsIncrease => IdsUnique
  <2> SUFFICES ASSUME IInv, IdsIncrease,
                      NEW i \in 1..Len(issued), NEW j \in 1..Len(issued),
                      i # j, issued[i].id = issued[j].id
               PROVE  /\ issued[i].gen # issued[j].gen
                      /\ node[issued[i].gen] = node[issued[j].gen]
    BY Zenon DEF IdsUnique
  <2>1. TypeOK /\ IdsAreMade
    BY Zenon DEF IInv
  <2>2. issued[i].id \in Int /\ issued[j].id \in Int
    <3>1. issued[i] \in Issues /\ issued[j] \in Issues
      BY <2>1 DEF TypeOK
    <3> QED
      BY <3>1, Zenon DEF Issues
  <2>3. issued[i].gen # issued[j].gen
    BY <2>2 DEF IdsIncrease
  <2>4. node[issued[i].gen] \in Nodes /\ node[issued[j].gen] \in Nodes
    BY <2>1, IssueTypes, Zenon DEF TypeOK, IdsAreMade
  <2>5. Id(issued[i].time, node[issued[i].gen], issued[i].seq)
            = Id(issued[j].time, node[issued[j].gen], issued[j].seq)
    BY <2>1, Zenon DEF IdsAreMade
  <2>6. /\ issued[i].time \in Int /\ issued[i].seq \in 0..max_sequence
        /\ issued[j].time \in Int /\ issued[j].seq \in 0..max_sequence
    BY <2>1, IssueTypes, Zenon
  <2> QED
    BY <2>3, <2>4, <2>5, <2>6, IdNode
<1> QED
  BY Invariance, GeneratorsIncrease, <1>1, PTL

-----------------------------------------------------------------------------
(* OneResource for any number of tasks and of resources made.  The         *)
(* inductive invariant says who may hold the lock: only its owner makes or *)
(* closes a resource, and while it makes one there is no value.            *)

SingletonTypeOK ==
    /\ value \in 0..MaxResources /\ closing \in 0..MaxResources
    /\ resources \in [Resources -> {"unmade", "open", "closed", "dropped"}]
    /\ owner \in SingletonTasks \cup {NoOwner}
    /\ spc \in [SingletonTasks -> {"idle", "wait get", "wait reset", "make", "close"}]

SingletonInv ==
    /\ SingletonTypeOK
    /\ OneResource
    /\ \A t \in SingletonTasks : spc[t] \in {"make", "close"} => owner = t /\ value = 0
    /\ closing # 0 => value = 0 /\ owner # NoOwner /\ spc[owner] = "close"

(* A resource's number is never _UNSET's.                                  *)
LEMMA ResourceNumbers == \A r \in Resources : r \in 0..MaxResources /\ r # 0
  BY SingletonAssumption DEF Resources

(* Every other value of _value and closing numbers a resource.             *)
LEMMA NumberedResources == \A r \in 0..MaxResources : r # 0 => r \in Resources
  BY SingletonAssumption DEF Resources

(* No order of get() and reset() ever leaves a second open resource, or    *)
(* one that neither get() returns nor reset() is closing.                  *)
THEOREM OneResourceForever == SingletonSpec => []OneResource
<1>1. SingletonInit => SingletonInv
  BY SingletonAssumption DEF SingletonInit, SingletonInv, SingletonTypeOK, OneResource, Resources
<1>2. SingletonInv /\ [SingletonNext]_singletonVars => SingletonInv'
  <2> SUFFICES ASSUME SingletonInv, [SingletonNext]_singletonVars PROVE SingletonInv'
    BY Zenon
  <2> USE SingletonAssumption DEF SingletonInv, SingletonTypeOK, OneResource
  <2>1. CASE UNCHANGED singletonVars
    BY <2>1, Zenon DEF singletonVars
  <2>2. ASSUME NEW t \in SingletonTasks, AskGet(t) \/ AskReset(t) PROVE SingletonInv'
    BY <2>2, Zenon DEF AskGet, AskReset
  <2>3. ASSUME NEW t \in SingletonTasks, EnterGet(t) PROVE SingletonInv'
    BY <2>3, Zenon DEF EnterGet
  <2>4. ASSUME NEW t \in SingletonTasks, Made(t) PROVE SingletonInv'
    <3> USE DEF Made, Unlock
    <3>1. owner = t /\ value = 0 /\ closing = 0
      BY <2>4, Zenon
    <3>2. ASSUME NEW r \in Resources, resources[r] = "open" PROVE FALSE
      <4>1. r \in {value, closing}
        BY <3>2, Zenon
      <4> QED
        BY <3>1, <4>1, ResourceNumbers, Zenon
    <3>3. PICK r \in Resources : resources' = [resources EXCEPT ![r] = "open"] /\ value' = r
      BY <2>4, Zenon
    <3>4. closing' = 0 /\ owner' = NoOwner /\ spc' = [spc EXCEPT ![t] = "idle"]
      BY <2>4, <3>1, Zenon
    <3>5. SingletonTypeOK'
      <4>1. value' \in 0..MaxResources
        BY <3>3, ResourceNumbers, Zenon
      <4>2. resources' \in [Resources -> {"unmade", "open", "closed", "dropped"}]
        BY <3>3, Zenon
      <4> QED
        BY <3>4, <4>1, <4>2, Zenon
    <3>6. OneResource'
      BY <3>2, <3>3, <3>4, Zenon
    <3>7. \A u \in SingletonTasks : spc'[u] \notin {"make", "close"}
      BY <3>1, <3>4, Zenon
    <3> QED
      BY <3>4, <3>5, <3>6, <3>7, Zenon
  <2>5. ASSUME NEW t \in SingletonTasks, MakeFails(t) PROVE SingletonInv'
    BY <2>5, Zenon DEF MakeFails, Unlock
  <2>6. ASSUME NEW t \in SingletonTasks, EnterReset(t) PROVE SingletonInv'
    BY <2>6, NumberedResources, Zenon DEF EnterReset
  <2>7. ASSUME NEW t \in SingletonTasks, ResourceClosed(t) PROVE SingletonInv'
    BY <2>7, NumberedResources, Zenon DEF ResourceClosed, Unlock
  <2> QED
    BY <2>1, <2>2, <2>3, <2>4, <2>5, <2>6, <2>7, Zenon DEF SingletonNext, SingletonStep
<1>3. SingletonInv => OneResource
  BY Zenon DEF SingletonInv
<1> QED
  BY <1>1, <1>2, <1>3, PTL DEF SingletonSpec
-----------------------------------------------------------------------------
(* OneWholeReader for any number of containers, threads and resets.  What  *)
(* an open reader maps and what the name stands for is never the file that *)
(* a download writes to: a fetch that has not opened its file yet has left *)
(* no trace, and one that is writing has the name tmp for itself.          *)

GeoTypeOK ==
    /\ target \in Fetches \cup {Nobody} /\ tmp \in Fetches \cup {Nobody}
    /\ inodes \in [Fetches -> [by : Fetches \cup {Nobody}, whole : BOOLEAN]]
    /\ fetch \in [Fetches -> [pc : {"idle", "requested", "writing", "written", "ended"},
                              inode : Fetches \cup {Nobody}]]
    /\ overlapped \in BOOLEAN /\ loaded \in BOOLEAN
    /\ reader \in Lookups \cup {Nobody}
    /\ readers \in [Lookups -> [inode : Fetches \cup {Nobody}, open : BOOLEAN]]

OpenIsCached ==
    \A r \in Lookups : readers[r].open => r = reader /\ loaded /\ readers[r].inode \in Fetches

OneDownload == \A f, g \in Fetches : Downloading(f) /\ Downloading(g) => f = g
WholeTarget == target # Nobody => inodes[target].whole /\ target # tmp
WholeReaders ==
    \A r \in Lookups : readers[r].open => inodes[readers[r].inode].whole /\ readers[r].inode # tmp
HasTmp ==
    \A f \in Fetches : fetch[f].pc \in {"writing", "written"} =>
        /\ tmp = fetch[f].inode /\ tmp # Nobody /\ inodes[tmp].by = f
        /\ fetch[f].pc = "written" => inodes[tmp].whole
NoTrace ==
    \A f \in Fetches : fetch[f].pc \in {"idle", "requested"} =>
        /\ f \notin {target, tmp}
        /\ \A r \in Lookups : readers[r].open => readers[r].inode # f

FilesInv == OneDownload /\ WholeTarget /\ WholeReaders /\ HasTmp /\ NoTrace
GeoInv == GeoTypeOK /\ OpenIsCached /\ (~overlapped => FilesInv)

LEMMA GeoInitially == GeoInit => GeoInv
<1>. SUFFICES ASSUME GeoInit PROVE GeoInv
  BY Zenon
<1>1. GeoTypeOK
  BY Zenon DEF GeoInit, GeoTypeOK
<1>2. \A f \in Fetches : fetch[f].pc = "idle" /\ f # Nobody
  BY GeoAssumption, Zenon DEF GeoInit
<1>3. \A r \in Lookups : ~readers[r].open
  BY Zenon DEF GeoInit
<1>4. target = Nobody /\ tmp = Nobody
  BY Zenon DEF GeoInit
<1>. QED  BY <1>1, <1>2, <1>3, <1>4, Zenon DEF GeoInv, OpenIsCached, FilesInv, OneDownload, Downloading,
             WholeTarget, WholeReaders, HasTmp, NoTrace

(* A second request is the only step that makes downloads overlap.         *)
LEMMA FetchRequestsStep ==
  ASSUME GeoInv, NEW f \in Fetches, FetchRequests(f)
  PROVE  GeoInv'
<1>. USE DEF GeoInv, GeoTypeOK, FetchRequests, FetchBecomes, geoReader
<1>1. GeoTypeOK'
  BY Zenon
<1>2. OpenIsCached'
  BY Zenon DEF OpenIsCached
<1>3. ASSUME ~overlapped' PROVE FilesInv'
  <2>1. ~overlapped /\ FilesInv /\ \A g \in Fetches \ {f} : ~Downloading(g)
    BY <1>3, Zenon
  <2>2. OneDownload'
    BY <2>1, Zenon DEF OneDownload, Downloading
  <2>3. WholeTarget' /\ WholeReaders'
    BY <2>1, Zenon DEF FilesInv, WholeTarget, WholeReaders
  <2>4. HasTmp' /\ NoTrace'
    BY <2>1, Zenon DEF FilesInv, HasTmp, NoTrace
  <2>. QED  BY <2>2, <2>3, <2>4, Zenon DEF FilesInv
<1>. QED  BY <1>1, <1>2, <1>3, Zenon

(* The file that a fetch opens is a new one, or one that a killed fetch    *)
(* has left: no name and no reader leads to it.                            *)
LEMMA OpenTmpStep ==
  ASSUME GeoInv, NEW f \in Fetches, OpenTmp(f)
  PROVE  GeoInv'
<1>. USE DEF GeoInv, GeoTypeOK, geoReader
<1>1. PICK i \in Fetches :
        /\ i = (IF tmp # Nobody THEN tmp ELSE f) /\ tmp' = i
        /\ inodes' = [inodes EXCEPT ![i] = [by |-> f, whole |-> FALSE]]
        /\ fetch' = [fetch EXCEPT ![f] = [pc |-> "writing", inode |-> i]]
        /\ fetch[f].pc = "requested"
  BY Zenon DEF OpenTmp, FetchBecomes
<1>2. UNCHANGED <<target, overlapped, reader, loaded, readers>>
  BY Zenon DEF OpenTmp
<1>3. GeoTypeOK' /\ OpenIsCached'
  BY <1>1, <1>2, Zenon DEF OpenIsCached
<1>4. ASSUME ~overlapped' PROVE FilesInv'
  <2>1. ~overlapped /\ FilesInv
    BY <1>2, <1>4, Zenon
  <2>2. /\ i # target /\ i # Nobody
        /\ \A r \in Lookups : readers[r].open => readers[r].inode # i
    BY <1>1, <2>1, GeoAssumption, Zenon DEF FilesInv, WholeTarget, WholeReaders, NoTrace
  <2>3. OneDownload'
    BY <1>1, <2>1, Zenon DEF FilesInv, OneDownload, Downloading
  <2>4. WholeTarget' /\ WholeReaders'
    BY <1>1, <1>2, <2>1, <2>2, Zenon DEF FilesInv, WholeTarget, WholeReaders, OpenIsCached
  <2>5. \A g \in Fetches \ {f} : fetch[g].pc \notin {"requested", "writing", "written"}
    BY <1>1, <2>1, Zenon DEF FilesInv, OneDownload, Downloading
  <2>6. HasTmp'
    BY <1>1, <2>2, <2>5, Zenon DEF HasTmp
  <2>7. NoTrace'
    BY <1>1, <1>2, <2>1, <2>2, <2>5, Zenon DEF FilesInv, NoTrace
  <2>. QED  BY <2>3, <2>4, <2>6, <2>7, Zenon DEF FilesInv
<1>. QED  BY <1>3, <1>4, Zenon

LEMMA DownloadedStep ==
  ASSUME GeoInv, NEW f \in Fetches, Downloaded(f)
  PROVE  GeoInv'
<1>. USE DEF GeoInv, GeoTypeOK, geoReader
<1>1. /\ fetch[f].pc = "writing"
      /\ fetch' = [fetch EXCEPT ![f] = [pc |-> "written", inode |-> fetch[f].inode]]
      /\ inodes' = [inodes EXCEPT ![fetch[f].inode].whole = @ \/ inodes[fetch[f].inode].by = f]
      /\ UNCHANGED <<target, tmp, overlapped, reader, loaded, readers>>
  BY Zenon DEF Downloaded, FetchBecomes
<1>2. inodes' \in [Fetches -> [by : Fetches \cup {Nobody}, whole : BOOLEAN]]
  <2>1. \A i : \A b \in BOOLEAN :
          [inodes EXCEPT ![i].whole = b] \in [Fetches -> [by : Fetches \cup {Nobody}, whole : BOOLEAN]]
    BY Zenon
  <2>2. PICK b \in BOOLEAN : inodes' = [inodes EXCEPT ![fetch[f].inode].whole = b]
    BY <1>1, Zenon
  <2>. QED  BY <2>1, <2>2, Zenon
<1>3. GeoTypeOK' /\ OpenIsCached'
  BY <1>1, <1>2, Zenon DEF OpenIsCached
<1>4. ASSUME ~overlapped' PROVE FilesInv'
  <2>1. ~overlapped /\ FilesInv
    BY <1>1, <1>4, Zenon
  <2>2. tmp = fetch[f].inode /\ tmp \in Fetches /\ inodes[tmp].by = f
    BY <1>1, <2>1, Zenon DEF FilesInv, HasTmp
  <2>3. /\ inodes'[tmp].by = f /\ inodes'[tmp].whole
        /\ \A i \in Fetches : i # tmp => inodes'[i] = inodes[i]
    <3>1. inodes' = [inodes EXCEPT ![tmp].whole = TRUE]
      BY <1>1, <2>2, Zenon
    <3>. QED  BY <2>2, <3>1
  <2>4. OneDownload'
    BY <1>1, <2>1, Zenon DEF FilesInv, OneDownload, Downloading
  <2>5. WholeTarget' /\ WholeReaders'
    BY <1>1, <2>1, <2>3, Zenon DEF FilesInv, WholeTarget, WholeReaders, OpenIsCached
  <2>6. \A g \in Fetches \ {f} : fetch[g].pc \notin {"requested", "writing", "written"}
    BY <1>1, <2>1, Zenon DEF FilesInv, OneDownload, Downloading
  <2>7. HasTmp'
    BY <1>1, <2>1, <2>2, <2>3, <2>6, GeoAssumption DEF FilesInv, HasTmp
  <2>8. NoTrace'
    BY <1>1, <2>1, Zenon DEF FilesInv, NoTrace
  <2>. QED  BY <2>4, <2>5, <2>7, <2>8, Zenon DEF FilesInv
<1>. QED  BY <1>3, <1>4, Zenon

(* The name moves to the file that the one download has written whole.     *)
LEMMA ReplaceStep ==
  ASSUME GeoInv, NEW f \in Fetches, Replace(f)
  PROVE  GeoInv'
<1>. USE DEF GeoInv, GeoTypeOK, geoReader
<1>1. /\ fetch[f].pc = "written" /\ tmp # Nobody /\ target' = tmp /\ tmp' = Nobody
      /\ fetch' = [fetch EXCEPT ![f] = [pc |-> "ended", inode |-> Nobody]]
      /\ UNCHANGED <<inodes, overlapped, reader, loaded, readers>>
  BY Zenon DEF Replace, FetchBecomes
<1>2. GeoTypeOK' /\ OpenIsCached'
  BY <1>1, Zenon DEF OpenIsCached
<1>3. ASSUME ~overlapped' PROVE FilesInv'
  <2>1. ~overlapped /\ FilesInv
    BY <1>1, <1>3, Zenon
  <2>2. \A g \in Fetches \ {f} : fetch[g].pc \notin {"requested", "writing", "written"}
    BY <1>1, <2>1, Zenon DEF FilesInv, OneDownload, Downloading
  <2>3. OneDownload' /\ HasTmp'
    BY <1>1, <2>2, Zenon DEF OneDownload, HasTmp, Downloading
  <2>4. WholeTarget'
    BY <1>1, <2>1, GeoAssumption, Zenon DEF FilesInv, WholeTarget, HasTmp
  <2>5. WholeReaders'
    BY <1>1, <2>1, GeoAssumption, Zenon DEF FilesInv, WholeReaders, OpenIsCached
  <2>6. NoTrace'
    BY <1>1, <2>1, GeoAssumption, Zenon DEF FilesInv, NoTrace
  <2>. QED  BY <2>3, <2>4, <2>5, <2>6, Zenon DEF FilesInv
<1>. QED  BY <1>2, <1>3, Zenon

(* However a fetch ends without a new copy, tmp stays or goes.             *)
LEMMA FetchEndsStep ==
  ASSUME GeoInv, NEW f \in Fetches, FetchSkips(f) \/ FetchFails(f) \/ FetchKilled(f)
  PROVE  GeoInv'
<1>. USE DEF GeoInv, GeoTypeOK, geoReader
<1>1. /\ tmp' \in {tmp, Nobody} /\ (tmp' # tmp => Downloading(f))
      /\ fetch' = [fetch EXCEPT ![f] = [pc |-> "ended", inode |-> Nobody]]
      /\ UNCHANGED <<target, inodes, overlapped, reader, loaded, readers>>
  BY Zenon DEF FetchSkips, FetchFails, FetchKilled, FetchBecomes
<1>2. GeoTypeOK' /\ OpenIsCached'
  BY <1>1, Zenon DEF OpenIsCached
<1>3. ASSUME ~overlapped' PROVE FilesInv'
  <2>1. ~overlapped /\ FilesInv
    BY <1>1, <1>3, Zenon
  <2>2. OneDownload'
    BY <1>1, <2>1, Zenon DEF FilesInv, OneDownload, Downloading
  <2>3. WholeTarget' /\ WholeReaders'
    BY <1>1, <2>1, GeoAssumption DEF FilesInv, WholeTarget, WholeReaders, OpenIsCached
  <2>4. NoTrace'
    BY <1>1, <2>1, GeoAssumption, Zenon DEF FilesInv, NoTrace
  <2>5. HasTmp'
    <3>1. CASE tmp' = tmp
      BY <1>1, <2>1, <3>1, Zenon DEF FilesInv, HasTmp
    <3>2. CASE Downloading(f)
      <4>1. \A g \in Fetches \ {f} : fetch[g].pc \notin {"requested", "writing", "written"}
        BY <2>1, <3>2, Zenon DEF FilesInv, OneDownload, Downloading
      <4>. QED  BY <1>1, <4>1, Zenon DEF HasTmp
    <3>. QED  BY <1>1, <3>1, <3>2, Zenon
  <2>. QED  BY <2>2, <2>3, <2>4, <2>5, Zenon DEF FilesInv
<1>. QED  BY <1>2, <1>3, Zenon

(* A thread opens a reader only when none is cached, on what the name      *)
(* stands for.                                                             *)
LEMMA OpenReaderStep ==
  ASSUME GeoInv, NEW t \in Lookups \cup Resets, OpenReader(t)
  PROVE  GeoInv'
<1>. USE DEF GeoInv, GeoTypeOK, geoFiles
<1>1. t \in Lookups /\ loaded' /\ loaded' \in BOOLEAN /\ UNCHANGED <<target, tmp, inodes, fetch, overlapped>>
  BY Zenon DEF OpenReader
<1>2. CASE UNCHANGED <<reader, readers>>
  BY <1>1, <1>2, Zenon DEF OpenIsCached, FilesInv, OneDownload, Downloading, WholeTarget, WholeReaders, HasTmp, NoTrace
<1>3. CASE /\ ~loaded /\ target # Nobody /\ reader' = t
           /\ readers' = [readers EXCEPT ![t] = [inode |-> target, open |-> TRUE]]
  <2>1. \A r \in Lookups : readers'[r].open => r = t /\ readers'[r].inode = target
    BY <1>3, Zenon DEF OpenIsCached
  <2>2. GeoTypeOK' /\ OpenIsCached'
    BY <1>1, <1>3, <2>1, Zenon DEF OpenIsCached
  <2>3. ASSUME ~overlapped PROVE FilesInv'
    BY <1>1, <1>3, <2>1, <2>3, Zenon
       DEF FilesInv, OneDownload, Downloading, WholeTarget, WholeReaders, HasTmp, NoTrace
  <2>. QED  BY <1>1, <2>2, <2>3, Zenon
<1>. QED  BY <1>2, <1>3, Zenon DEF OpenReader

LEMMA DropReaderStep ==
  ASSUME GeoInv, NEW t \in Lookups \cup Resets, DropReader(t)
  PROVE  GeoInv'
<1>. USE DEF GeoInv, GeoTypeOK, geoFiles
<1>1. /\ UNCHANGED <<target, tmp, inodes, fetch, overlapped>>
      /\ reader' = Nobody /\ loaded' = FALSE
      /\ readers' = IF reader = Nobody THEN readers ELSE [readers EXCEPT ![reader].open = FALSE]
  BY Zenon DEF DropReader
<1>2. readers' \in [Lookups -> [inode : Fetches \cup {Nobody}, open : BOOLEAN]]
  BY <1>1, Zenon
<1>3. \A r \in Lookups : ~readers'[r].open
  BY <1>1, GeoAssumption, Zenon DEF OpenIsCached
<1>. QED  BY <1>1, <1>2, <1>3, Zenon
             DEF OpenIsCached, FilesInv, OneDownload, Downloading, WholeTarget, WholeReaders, HasTmp, NoTrace

LEMMA GeoStep == GeoInv /\ [GeoNext]_geoVars => GeoInv'
<1>. SUFFICES ASSUME GeoInv, [GeoNext]_geoVars PROVE GeoInv'
  BY Zenon
<1>1. CASE UNCHANGED <<target, tmp, inodes, fetch, overlapped, reader, loaded, readers>>
  BY <1>1, Zenon DEF GeoInv, GeoTypeOK, OpenIsCached, FilesInv, OneDownload, Downloading,
              WholeTarget, WholeReaders, HasTmp, NoTrace
<1>2. ASSUME NEW f \in Fetches,
             \/ FetchRequests(f) \/ FetchSkips(f) \/ OpenTmp(f) \/ Downloaded(f)
             \/ Replace(f) \/ FetchFails(f) \/ FetchKilled(f)
      PROVE  GeoInv'
  BY <1>2, FetchRequestsStep, OpenTmpStep, DownloadedStep, ReplaceStep, FetchEndsStep, Zenon
<1>3. ASSUME NEW t \in Lookups \cup Resets, OpenReader(t) \/ DropReader(t)
      PROVE  GeoInv'
  BY <1>3, OpenReaderStep, DropReaderStep, Zenon
<1>4. ASSUME NEW t \in Lookups \cup Resets,
             Locate(t) \/ Acquire(t) \/ TakeReader(t) \/ City(t) \/ Reset(t)
      PROVE  GeoInv'
  BY <1>1, <1>4, Zenon DEF Locate, Acquire, TakeReader, City, Reset, geoFiles
<1>5. CASE UNCHANGED geoVars
  BY <1>1, <1>5, Zenon DEF geoVars, geoFiles, geoReader
<1>. QED  BY <1>2, <1>3, <1>4, <1>5, Zenon DEF GeoNext

(* Threads that race to the first lookup, or against a reset, never leave  *)
(* an open reader behind, and unless two downloads overlap, what it reads  *)
(* and what the name stands for is a whole download, however many of them  *)
(* fail or are killed on the way.                                          *)
THEOREM AlwaysOneWholeReader == GeoSpec => []OneWholeReader
<1>1. GeoInv => OneWholeReader
  BY Zenon DEF GeoInv, OpenIsCached, FilesInv, WholeTarget, WholeReaders, OneWholeReader
<1>. QED  BY <1>1, GeoInitially, GeoStep, PTL DEF GeoSpec

-----------------------------------------------------------------------------
(* VerdictIsRecent for any dependencies, number of probes and timeouts.    *)
(* A verdict in a running probe or in the cache is no older than the time  *)
(* it is stamped with: that is the time the evaluation began.              *)

Verdicts == [Dependencies -> {Unchecked, "ok", "failed"}]

ProbeRecords == [pc : {"idle", "checking", "answered"}, began : Nat, verdicts : Verdicts,
                 status : {0, 200, 503}]

HealthTypeOK ==
    /\ probeClock \in Nat
    /\ condition \in [Dependencies -> Conditions]
    /\ seen \in [Dependencies -> [up : Int, failing : Int]]
    /\ cache \in [at : Nat, verdicts : Verdicts]
    /\ probes \in [Probes -> ProbeRecords]

SeenSoFar ==
    \A d \in Dependencies :
        /\ seen[d].up <= probeClock /\ seen[d].failing <= probeClock
        /\ IF condition[d] = "up" THEN seen[d].up = probeClock ELSE seen[d].failing = probeClock

SeenSince(verdicts, at) ==
    \A d \in Dependencies :
        /\ verdicts[d] = "ok" => seen[d].up >= at
        /\ verdicts[d] = "failed" => seen[d].failing >= at

CacheIsStamped ==
    /\ SeenSince(cache.verdicts, cache.at)
    /\ cache.verdicts # NoVerdicts => \A d \in Dependencies : cache.verdicts[d] # Unchecked

ChecksAreStamped ==
    \A p \in Probes : /\ probes[p].began <= probeClock
                      /\ probes[p].pc = "checking" => SeenSince(probes[p].verdicts, probes[p].began)

HealthInv == HealthTypeOK /\ SeenSoFar /\ CacheIsStamped /\ ChecksAreStamped /\ VerdictIsRecent

LEMMA HealthInitially == HealthInit => HealthInv
<1>. SUFFICES ASSUME HealthInit PROVE HealthInv
  BY Zenon
<1>1. HealthTypeOK
  BY HealthAssumption DEF HealthInit, HealthTypeOK, ProbeRecords, Verdicts, NoVerdicts, Unchecked, Conditions
<1>2. SeenSoFar
  BY HealthAssumption DEF HealthInit, SeenSoFar
<1>3. CacheIsStamped /\ ChecksAreStamped /\ VerdictIsRecent
  BY DEF HealthInit, CacheIsStamped, ChecksAreStamped, VerdictIsRecent, SeenSince, NoVerdicts, Unchecked
<1>. QED  BY <1>1, <1>2, <1>3, Zenon DEF HealthInv

(* The world moves on: what was seen recently stays so.                    *)
LEMMA SeenGrows ==
  ASSUME HealthInv, UNCHANGED <<cache, probes>>, probeClock' \in Nat, probeClock' >= probeClock,
         seen' \in [Dependencies -> [up : Int, failing : Int]],
         \A d \in Dependencies : seen'[d].up >= seen[d].up /\ seen'[d].failing >= seen[d].failing
  PROVE  CacheIsStamped' /\ ChecksAreStamped' /\ VerdictIsRecent'
<1>. USE DEF HealthInv, HealthTypeOK, ProbeRecords
<1>1. ASSUME NEW v \in Verdicts, NEW at \in Nat, SeenSince(v, at)
      PROVE  SeenSince(v, at)'
  BY <1>1 DEF SeenSince
<1>2. CacheIsStamped'
  <2>1. PICK v \in Verdicts, at \in Nat : v = cache.verdicts /\ at = cache.at
    BY Zenon
  <2>2. SeenSince(v, at)'
    BY <1>1, <2>1, Zenon DEF CacheIsStamped
  <2>. QED  BY <2>1, <2>2, Zenon DEF CacheIsStamped, NoVerdicts
<1>3. ChecksAreStamped'
  <2>1. SUFFICES ASSUME NEW p \in Probes
                 PROVE  /\ probes[p].began <= probeClock'
                        /\ probes[p].pc = "checking" => SeenSince(probes[p].verdicts, probes[p].began)'
    BY Zenon DEF ChecksAreStamped
  <2>2. PICK v \in Verdicts, at \in Nat : v = probes[p].verdicts /\ at = probes[p].began
    OBVIOUS
  <2>3. probes[p].pc = "checking" => SeenSince(v, at)'
    BY <1>1, <2>2, Zenon DEF ChecksAreStamped
  <2>. QED  BY <2>2, <2>3 DEF ChecksAreStamped
<1>4. VerdictIsRecent'
  BY HealthAssumption DEF VerdictIsRecent, Recent
<1>. QED  BY <1>2, <1>3, <1>4, Zenon

LEMMA ChangesStep ==
  ASSUME HealthInv, NEW e \in Dependencies, Changes(e)
  PROVE  HealthInv'
<1>1. PICK c \in Conditions :
        /\ condition' = [condition EXCEPT ![e] = c]
        /\ seen' = [seen EXCEPT ![e] = SeenNow(e, c, probeClock)]
        /\ UNCHANGED <<probeClock, cache, probes>>
  BY Zenon DEF Changes
<1>. USE DEF HealthInv, HealthTypeOK, ProbeRecords
<1>2. SeenNow(e, c, probeClock) =
        IF c = "up" THEN [up |-> probeClock, failing |-> seen[e].failing]
                    ELSE [up |-> seen[e].up, failing |-> probeClock]
  BY DEF SeenNow
<1>3. seen' \in [Dependencies -> [up : Int, failing : Int]]
  BY <1>1, <1>2
<1>4. \A d \in Dependencies : seen'[d].up >= seen[d].up /\ seen'[d].failing >= seen[d].failing
  BY <1>1, <1>2 DEF SeenSoFar
<1>5. SeenSoFar'
  BY <1>1, <1>2 DEF SeenSoFar
<1>6. CacheIsStamped' /\ ChecksAreStamped' /\ VerdictIsRecent'
  BY <1>1, <1>3, <1>4, SeenGrows
<1>. QED  BY <1>1, <1>3, <1>5, <1>6, Zenon

LEMMA ProbeTickStep ==
  ASSUME HealthInv, ProbeTick
  PROVE  HealthInv'
<1>. USE DEF HealthInv, HealthTypeOK, ProbeRecords
<1>1. /\ probeClock' = probeClock + 1 /\ UNCHANGED <<condition, cache, probes>>
      /\ seen' = [d \in Dependencies |-> SeenNow(d, condition[d], probeClock + 1)]
  BY Zenon DEF ProbeTick
<1>2. \A d \in Dependencies :
        /\ seen'[d] \in [up : Int, failing : Int]
        /\ seen'[d].up = IF condition[d] = "up" THEN probeClock + 1 ELSE seen[d].up
        /\ seen'[d].failing = IF condition[d] = "up" THEN seen[d].failing ELSE probeClock + 1
  <2>. TAKE d \in Dependencies
  <2>1. seen[d] \in [up : Int, failing : Int] /\ probeClock + 1 \in Int
    OBVIOUS
  <2>2. seen'[d] = SeenNow(d, condition[d], probeClock + 1)
    BY <1>1, Zenon
  <2>3. CASE condition[d] = "up"
    BY <2>1, <2>2, <2>3 DEF SeenNow
  <2>4. CASE condition[d] # "up"
    BY <2>1, <2>2, <2>4 DEF SeenNow
  <2>. QED  BY <2>3, <2>4, Zenon
<1>3. seen' \in [Dependencies -> [up : Int, failing : Int]]
  BY <1>1, <1>2, Zenon
<1>4. \A d \in Dependencies : seen'[d].up >= seen[d].up /\ seen'[d].failing >= seen[d].failing
  BY <1>2 DEF SeenSoFar
<1>5. SeenSoFar'
  BY <1>1, <1>2 DEF SeenSoFar
<1>6. CacheIsStamped' /\ ChecksAreStamped' /\ VerdictIsRecent'
  BY <1>1, <1>3, <1>4, SeenGrows
<1>. QED  BY <1>1, <1>3, <1>5, <1>6

(* An answer made of verdicts that are no older than the lifetime of the   *)
(* cache is recent.                                                        *)
RecentAnswer(status, began) ==
    IF status = 200 THEN \A d \in Dependencies : seen[d].up > began - CacheTtl
                    ELSE \E d \in Dependencies : seen[d].failing > began - CacheTtl

LEMMA ReadinessIsRecent ==
  ASSUME HealthInv, NEW v \in Verdicts, NEW at \in Nat, NEW began \in Nat,
         SeenSince(v, at), \A d \in Dependencies : v[d] # Unchecked, at > began - CacheTtl
  PROVE  Readiness(v) \in {200, 503} /\ RecentAnswer(Readiness(v), began)
<1>. USE HealthAssumption DEF HealthInv, HealthTypeOK, ProbeRecords
<1>1. CASE \A d \in Dependencies : v[d] = "ok"
  BY <1>1 DEF Readiness, SeenSince, RecentAnswer
<1>2. ASSUME NEW e \in Dependencies, v[e] # "ok"
      PROVE  Readiness(v) = 503 /\ seen[e].failing > began - CacheTtl
  BY <1>2 DEF Readiness, SeenSince, Verdicts
<1>. QED  BY <1>1, <1>2 DEF RecentAnswer

IsProbe(r, at, began, v, code) ==
    /\ r = [pc |-> at, began |-> began, verdicts |-> v, status |-> code]
    /\ r.pc = at /\ r.began = began /\ r.verdicts = v /\ r.status = code

LEMMA ProbeRecord ==
  \A at \in {"idle", "checking", "answered"}, began \in Nat, v \in Verdicts, code \in {0, 200, 503} :
      \E r \in ProbeRecords : IsProbe(r, at, began, v, code)
<1>. TAKE at \in {"idle", "checking", "answered"}, began \in Nat, v \in Verdicts, code \in {0, 200, 503}
<1>1. [pc |-> at, began |-> began, verdicts |-> v, status |-> code] \in ProbeRecords
  BY ZenonT(40) DEF ProbeRecords
<1>. QED  BY <1>1 DEF IsProbe

(* The step of one probe leaves the verdicts of the others alone.          *)
LEMMA OtherProbes ==
  ASSUME HealthInv, UNCHANGED <<probeClock, condition, seen>>, cache' \in [at : Nat, verdicts : Verdicts],
         CacheIsStamped', NEW p \in Probes,
         NEW r \in ProbeRecords,
         probes' = [probes EXCEPT ![p] = r],
         r.began <= probeClock,
         r.pc = "checking" => SeenSince(r.verdicts, r.began),
         r.pc = "answered" => RecentAnswer(r.status, r.began)
  PROVE  HealthInv'
<1>. USE DEF HealthInv, HealthTypeOK
<1>1. probes'[p] = r /\ \A q \in Probes \ {p} : probes'[q] = probes[q]
  BY Zenon
<1>2. HealthTypeOK'
  BY Zenon
<1>3. SeenSoFar'
  BY Zenon DEF SeenSoFar
<1>4. ChecksAreStamped'
  <2>. SUFFICES ASSUME NEW q \in Probes
                PROVE  /\ probes'[q].began <= probeClock
                       /\ probes'[q].pc = "checking" => SeenSince(probes'[q].verdicts, probes'[q].began)
    BY Zenon DEF ChecksAreStamped, SeenSince
  <2>. QED  BY <1>1, Zenon DEF ChecksAreStamped
<1>5. VerdictIsRecent'
  <2>. SUFFICES ASSUME NEW q \in Probes, probes'[q].pc = "answered"
                PROVE  RecentAnswer(probes'[q].status, probes'[q].began)
    BY DEF VerdictIsRecent, Recent, RecentAnswer
  <2>1. CASE q = p
    BY <1>1, <2>1, Zenon
  <2>2. CASE q # p
    BY <1>1, <2>2 DEF VerdictIsRecent, Recent, RecentAnswer
  <2>. QED  BY <2>1, <2>2, Zenon
<1>. QED  BY <1>2, <1>3, <1>4, <1>5, Zenon

LEMMA EvaluateStep ==
  ASSUME HealthInv, NEW p \in Probes, Evaluate(p)
  PROVE  HealthInv'
<1>. USE HealthAssumption DEF HealthInv, HealthTypeOK
<1>1. UNCHANGED <<probeClock, condition, seen, cache>> /\ CacheIsStamped'
  BY Zenon DEF Evaluate, CacheIsStamped, SeenSince, NoVerdicts
<1>2. CASE Cached
  <2>1. cache.at > probeClock - CacheTtl /\ \A d \in Dependencies : cache.verdicts[d] # Unchecked
    BY <1>2 DEF Cached, CacheIsStamped
  <2>2. PICK v \in Verdicts, at \in Nat : v = cache.verdicts /\ at = cache.at
    BY Zenon
  <2>3. Readiness(v) \in {200, 503} /\ RecentAnswer(Readiness(v), probeClock)
    BY <2>1, <2>2, ReadinessIsRecent DEF CacheIsStamped
  <2>4. PICK r \in ProbeRecords : IsProbe(r, "answered", probeClock, v, Readiness(v))
    BY <2>3, ProbeRecord
  <2>5. probes' = [probes EXCEPT ![p] = r]
    BY <1>2, <2>2, <2>4, Zenon DEF Evaluate, IsProbe
  <2>6. r.pc = "answered" /\ r.began = probeClock /\ r.status = Readiness(v) /\ r.began <= probeClock
    BY <2>4 DEF IsProbe
  <2>. QED  BY <1>1, <2>3, <2>5, <2>6, OtherProbes, ZenonT(40)
<1>3. CASE ~Cached
  <2>1. NoVerdicts \in Verdicts /\ SeenSince(NoVerdicts, probeClock)
    BY Zenon DEF NoVerdicts, Verdicts, SeenSince, Unchecked
  <2>2. PICK r \in ProbeRecords : IsProbe(r, "checking", probeClock, NoVerdicts, 0)
    BY <2>1, ProbeRecord
  <2>3. probes' = [probes EXCEPT ![p] = r]
    BY <1>3, <2>2, Zenon DEF Evaluate, IsProbe
  <2>4. r.pc = "checking" /\ r.began = probeClock /\ r.verdicts = NoVerdicts /\ r.began <= probeClock
    BY <2>2 DEF IsProbe
  <2>. QED  BY <1>1, <2>1, <2>3, <2>4, OtherProbes, Zenon
<1>. QED  BY <1>2, <1>3, Zenon

LEMMA RunStep ==
  ASSUME HealthInv, NEW p \in Probes, NEW e \in Dependencies, Run(p, e)
  PROVE  HealthInv'
<1>. USE DEF HealthInv, HealthTypeOK
<1>1. UNCHANGED <<probeClock, condition, seen, cache>> /\ CacheIsStamped'
  BY Zenon DEF Run, CacheIsStamped, SeenSince, NoVerdicts
<1>2. PICK v \in Verdicts : v = [probes[p].verdicts EXCEPT ![e] = CheckVerdict(e)]
  <2>1. probes[p].verdicts \in Verdicts /\ CheckVerdict(e) \in {"ok", "failed"}
    BY DEF ProbeRecords, CheckVerdict
  <2>2. [probes[p].verdicts EXCEPT ![e] = CheckVerdict(e)] \in Verdicts
    BY <2>1, Zenon DEF Verdicts
  <2>. QED  BY <2>2, Zenon
<1>3. PICK r \in ProbeRecords : IsProbe(r, "checking", probes[p].began, v, probes[p].status)
  <2>1. probes[p].began \in Nat /\ probes[p].status \in {0, 200, 503}
    BY DEF ProbeRecords
  <2>. QED  BY <2>1, ProbeRecord
<1>4. probes' = [probes EXCEPT ![p] = r]
  <2>1. probes[p] \in ProbeRecords /\ probes[p].pc = "checking"
    BY Zenon DEF Run
  <2>2. [probes[p] EXCEPT !.verdicts = v] = r
    BY <1>3, <2>1 DEF IsProbe, ProbeRecords
  <2>3. probes' = [probes EXCEPT ![p] = [probes[p] EXCEPT !.verdicts = v]]
    BY <1>2, Zenon DEF Run
  <2>. QED  BY <2>2, <2>3, Zenon
<1>5. SeenSince(v, probes[p].began)
  <2>1. SeenSince(probes[p].verdicts, probes[p].began) /\ probes[p].began <= probeClock
    BY Zenon DEF Run, ChecksAreStamped
  <2>2. /\ v[e] = "ok" => seen[e].up >= probes[p].began
        /\ v[e] = "failed" => seen[e].failing >= probes[p].began
    BY <1>2, <2>1, Zenon DEF CheckVerdict, SeenSoFar, Verdicts
  <2>3. \A d \in Dependencies \ {e} : v[d] = probes[p].verdicts[d]
    BY <1>2, Zenon DEF Verdicts
  <2>. QED  BY <2>1, <2>2, <2>3, Zenon DEF SeenSince
<1>6. r.pc = "checking" /\ r.began = probes[p].began /\ r.verdicts = v /\ r.began <= probeClock
  BY <1>3, Zenon DEF IsProbe, ChecksAreStamped
<1>. QED  BY <1>1, <1>4, <1>5, <1>6, OtherProbes, Zenon

LEMMA GatheredStep ==
  ASSUME HealthInv, NEW p \in Probes, Gathered(p)
  PROVE  HealthInv'
<1>. USE HealthAssumption DEF HealthInv, HealthTypeOK
<1>1. PICK v \in Verdicts, at \in Nat : v = probes[p].verdicts /\ at = probes[p].began
  BY DEF ProbeRecords
<1>2. /\ UNCHANGED <<probeClock, condition, seen>> /\ cache' = [at |-> at, verdicts |-> v]
      /\ probes[p].pc = "checking" /\ \A d \in Dependencies : v[d] # Unchecked
  BY <1>1, Zenon DEF Gathered
<1>3. SeenSince(v, at) /\ at <= probeClock
  BY <1>1, <1>2, Zenon DEF ChecksAreStamped
<1>4. cache' \in [at : Nat, verdicts : Verdicts] /\ CacheIsStamped'
  BY <1>2, <1>3, Zenon DEF CacheIsStamped, SeenSince
<1>5. Readiness(v) \in {200, 503} /\ RecentAnswer(Readiness(v), at)
  BY <1>2, <1>3, ReadinessIsRecent
<1>6. PICK o \in ProbeRecords : o = probes[p]
  BY Zenon
<1>7. PICK r \in ProbeRecords : r = [o EXCEPT !.pc = "answered", !.status = Readiness(v)]
  <2>1. ASSUME NEW q \in ProbeRecords PROVE [q EXCEPT !.pc = "answered"] \in ProbeRecords
    BY DEF ProbeRecords
  <2>2. ASSUME NEW q \in ProbeRecords PROVE [q EXCEPT !.status = Readiness(v)] \in ProbeRecords
    BY <1>5 DEF ProbeRecords
  <2>. QED  BY <2>1, <2>2, Zenon
<1>8. r.pc = "answered" /\ r.began = at /\ r.status = Readiness(v) /\ r.began <= probeClock
  BY <1>1, <1>3, <1>6, <1>7 DEF ProbeRecords
<1>9. probes' = [probes EXCEPT ![p] = r]
  <2>1. probes' = [probes EXCEPT ![p] = [probes[p] EXCEPT !.pc = "answered",
                                                          !.status = Readiness(probes[p].verdicts)]]
    BY Zenon DEF Gathered
  <2>. QED  BY <1>1, <1>6, <1>7, <2>1, Zenon
<1>. QED  BY <1>2, <1>3, <1>4, <1>5, <1>8, <1>9, OtherProbes, ZenonT(40)

(* Probes that overlap, a cache that an older evaluation overwrites, and   *)
(* checks that time out never make an answer older than the cache allows.  *)
THEOREM AlwaysVerdictIsRecent == HealthSpec => []VerdictIsRecent
<1>1. HealthInv /\ [HealthNext]_healthVars => HealthInv'
  <2>1. ASSUME HealthInv, UNCHANGED healthVars PROVE HealthInv'
    BY <2>1 DEF healthVars, HealthInv, HealthTypeOK, SeenSoFar, CacheIsStamped, ChecksAreStamped,
                SeenSince, VerdictIsRecent, Recent, NoVerdicts
  <2>. QED  BY <2>1, ProbeTickStep, ChangesStep, EvaluateStep, RunStep, GatheredStep, Zenon
               DEF HealthNext, ProbeStep
<1>2. HealthInv => VerdictIsRecent
  BY Zenon DEF HealthInv
<1>. QED  BY <1>1, <1>2, HealthInitially, PTL DEF HealthSpec

-----------------------------------------------------------------------------
(* NoOrphanChannel for any number of users, loops, keys and channels.  The *)
(* invariant adds where the registry and the users may point: an entry of  *)
(* the registry is the proxy of its key, a proxy's table has a place for   *)
(* every loop its channels are of, and only a closer has work in hand.     *)

RegistryKeys == ChannelKeys \cup HttpKeys
ProxyRecords == [key : RegistryKeys, spec : Specs, table : [Loops -> Nat] \cup [{Shared} -> Nat]]
ChannelRecords == [proxy : Nat, loop : Loops \cup {Shared}, st : {"open", "closed"}, late : BOOLEAN]
UserRecords == [st : {"free", "ready", "refused", "closing", "closed"}, spec : Specs \cup {"none"},
                proxy : Nat, todo : SUBSET Nat, pending : SUBSET Nat, current : Nat]

ChannelsTypeOK ==
    /\ registry \in [RegistryKeys -> Nat]
    /\ proxies \in Seq(ProxyRecords) /\ channels \in Seq(ChannelRecords)
    /\ running \subseteq Loops
    /\ users \in [Users -> UserRecords]

RegistryLeadsToKey ==
    \A k \in RegistryKeys :
        registry[k] # 0 => registry[k] \in DOMAIN proxies /\ proxies[registry[k]].key = k
TableOfKind ==
    \A p \in DOMAIN proxies : proxies[p].key \in ChannelKeys => DOMAIN proxies[p].table = Loops
ChannelHasPlace ==
    \A c \in DOMAIN channels : /\ channels[c].proxy \in DOMAIN proxies
                               /\ channels[c].loop \in DOMAIN proxies[channels[c].proxy].table
UsersHold ==
    \A u \in Users :
        /\ users[u].st = "ready" => users[u].proxy \in DOMAIN proxies
        /\ users[u].todo \subseteq DOMAIN proxies
        /\ users[u].st # "closing" => users[u].todo = {} /\ users[u].pending = {} /\ users[u].current = 0

ChannelsInv ==
    /\ ChannelsTypeOK /\ RegistryLeadsToKey /\ TableOfKind /\ ChannelHasPlace /\ UsersHold
    /\ NoOrphanChannel

(* A channel is where the registry or a closer finds it.                   *)
Found(c) ==
    Registered(channels[c].proxy) /\ proxies[channels[c].proxy].table[channels[c].loop] = c
Kept(c) == Found(c) \/ \E u \in Users : InHandsOf(u, c)

LEMMA ChannelsInitially == ChannelsInit => ChannelsInv
<1>. SUFFICES ASSUME ChannelsInit PROVE ChannelsInv
  BY Zenon
<1>1. Free \in UserRecords
  BY Zenon DEF Free, UserRecords
<1>2. ChannelsTypeOK
  BY <1>1 DEF ChannelsInit, ChannelsTypeOK, RegistryKeys
<1>3. RegistryLeadsToKey /\ TableOfKind /\ ChannelHasPlace /\ NoOrphanChannel
  BY DEF ChannelsInit, RegistryLeadsToKey, RegistryKeys, TableOfKind, ChannelHasPlace, NoOrphanChannel
<1>4. UsersHold
  BY Zenon DEF ChannelsInit, UsersHold, Free
<1>. QED  BY <1>2, <1>3, <1>4, Zenon DEF ChannelsInv

(* Only users and the registry differ: what an open channel needs.         *)
LEMMA OnlyUserMoves ==
  ASSUME ChannelsInv, NEW u \in Users, NEW r \in UserRecords,
         users' = [users EXCEPT ![u] = r],
         UNCHANGED <<registry, proxies, channels, running>>,
         r.st = "ready" => r.proxy \in DOMAIN proxies, r.todo \subseteq DOMAIN proxies,
         r.st # "closing" => r.todo = {} /\ r.pending = {} /\ r.current = 0,
         \A c \in DOMAIN channels : InHandsOf(u, c) /\ Reachable(c) =>
             \/ c \in r.pending \/ c = r.current
             \/ users[u].todo \subseteq r.todo /\ c \notin users[u].pending /\ c # users[u].current
  PROVE  ChannelsInv'
<1>. USE DEF ChannelsInv, ChannelsTypeOK
<1>1. users'[u] = r /\ \A v \in Users \ {u} : users'[v] = users[v]
  BY Zenon
<1>2. ChannelsTypeOK' /\ RegistryLeadsToKey' /\ TableOfKind' /\ ChannelHasPlace'
  BY Zenon DEF RegistryLeadsToKey, TableOfKind, ChannelHasPlace
<1>3. UsersHold'
  BY <1>1, Zenon DEF UsersHold
<1>4. NoOrphanChannel'
  <2>. SUFFICES ASSUME NEW c \in DOMAIN channels, channels[c].st = "open", Reachable(c), running = Loops,
                       ~channels[c].late, ~Found(c)
                PROVE  \E v \in Users : InHandsOf(v, c)'
    BY Zenon DEF NoOrphanChannel, Found, Registered, Reachable
  <2>1. PICK v \in Users : InHandsOf(v, c)
    BY Zenon DEF NoOrphanChannel, Found
  <2>2. CASE v # u
    BY <1>1, <2>1, <2>2, Zenon DEF InHandsOf
  <2>3. CASE v = u
    <3>1. CASE c \in r.pending \/ c = r.current
      BY <1>1, <3>1, Zenon DEF InHandsOf
    <3>2. CASE users[u].todo \subseteq r.todo /\ c \notin users[u].pending /\ c # users[u].current
      BY <1>1, <2>1, <2>3, <3>2, Zenon DEF InHandsOf
    <3>. QED  BY <2>1, <2>3, <3>1, <3>2, Zenon
  <2>. QED  BY <2>2, <2>3, Zenon
<1>. QED  BY <1>2, <1>3, <1>4, Zenon

(* A user's record when it has no work in hand.                            *)
LEMMA FreeRecords ==
  /\ \A s \in {"refused", "closed"} :
        [Free EXCEPT !.st = s] \in UserRecords /\ [Free EXCEPT !.st = s].st = s
  /\ \A s \in {"refused", "closed"} :
        LET r == [Free EXCEPT !.st = s] IN r.todo = {} /\ r.pending = {} /\ r.current = 0
  /\ \A s \in Specs, p \in Nat :
        /\ Holding(s, p) \in UserRecords
        /\ Holding(s, p).st = "ready" /\ Holding(s, p).proxy = p
        /\ Holding(s, p).todo = {} /\ Holding(s, p).pending = {} /\ Holding(s, p).current = 0
  BY Zenon DEF Free, UserRecords, Holding

(* Taking an entry of the registry, or being refused it.                   *)
LEMMA ReuseStep ==
  ASSUME ChannelsInv, NEW u \in Users, NEW k \in RegistryKeys, NEW s \in Specs,
         users[u].st = "free", ReuseOrRefuse(u, k, s)
  PROVE  ChannelsInv'
<1>. USE DEF ChannelsInv, ChannelsTypeOK
<1>1. registry[k] \in DOMAIN proxies /\ registry[k] \in Nat
  BY Zenon DEF ReuseOrRefuse, RegistryLeadsToKey
<1>2. users[u].todo = {} /\ users[u].pending = {} /\ users[u].current = 0
  BY Zenon DEF UsersHold
<1>3. \A c \in DOMAIN channels : ~InHandsOf(u, c)
  BY <1>2 DEF InHandsOf
<1>4. UNCHANGED <<registry, proxies, channels, running>>
  BY Zenon DEF ReuseOrRefuse
<1>5. CASE users' = [users EXCEPT ![u] = Holding(s, registry[k])]
  <2>1. PICK r \in UserRecords : /\ r = Holding(s, registry[k])
                                 /\ r.st = "ready" /\ r.proxy = registry[k]
                                 /\ r.todo = {} /\ r.pending = {} /\ r.current = 0
    BY <1>1, FreeRecords
  <2>. QED  BY <1>1, <1>3, <1>4, <1>5, <2>1, OnlyUserMoves, Zenon
<1>6. CASE users' = [users EXCEPT ![u] = [Free EXCEPT !.st = "refused"]]
  <2>1. PICK r \in UserRecords : /\ r = [Free EXCEPT !.st = "refused"] /\ r.st = "refused"
                                 /\ r.todo = {} /\ r.pending = {} /\ r.current = 0
    BY FreeRecords, Zenon
  <2>. QED  BY <1>3, <1>4, <1>6, <2>1, OnlyUserMoves, Zenon
<1>. QED  BY <1>5, <1>6, Zenon DEF ReuseOrRefuse, UserBecomes

(* A new proxy, with the connection of its own if it is an httpx client.   *)
LEMMA RegisterStep ==
  ASSUME ChannelsInv, NEW u \in Users, NEW k \in RegistryKeys, NEW s \in Specs,
         NEW table \in [Loops -> Nat] \cup [{Shared} -> Nat],
         k \in ChannelKeys => DOMAIN table = Loops,
         users[u].st = "free", Register(u, k, s, table),
         \/ UNCHANGED channels
         \/ /\ channels' = Append(channels, NewChannel(Len(proxies) + 1, Shared, FALSE))
            /\ table = [l \in {Shared} |-> Len(channels) + 1]
  PROVE  ChannelsInv'
<1>. USE DEF ChannelsInv, ChannelsTypeOK
<1>1. /\ registry[k] = 0
      /\ registry' = [registry EXCEPT ![k] = Len(proxies) + 1]
      /\ proxies' = Append(proxies, [key |-> k, spec |-> s, table |-> table])
      /\ users' = [users EXCEPT ![u] = Holding(s, Len(proxies) + 1)]
      /\ UNCHANGED running
  BY Zenon DEF Register, UserBecomes
<1>2. Len(proxies) \in Nat /\ Len(channels) \in Nat /\ Len(proxies) + 1 \in Nat
  BY SMTT(30)
<1>3. /\ proxies' \in Seq(ProxyRecords) /\ DOMAIN proxies' = 1..(Len(proxies) + 1)
      /\ DOMAIN proxies = 1..Len(proxies)
      /\ \A p \in DOMAIN proxies : p \in DOMAIN proxies' /\ proxies'[p] = proxies[p]
      /\ \A p \in DOMAIN proxies' \ DOMAIN proxies : p = Len(proxies) + 1
      /\ proxies'[Len(proxies) + 1] = [key |-> k, spec |-> s, table |-> table]
  BY <1>1, <1>2 DEF ProxyRecords
<1>4. PICK r \in UserRecords : /\ r = Holding(s, Len(proxies) + 1)
                               /\ r.st = "ready" /\ r.proxy = Len(proxies) + 1
                               /\ r.todo = {} /\ r.pending = {} /\ r.current = 0
  BY <1>2, FreeRecords
<1>5. users'[u] = r /\ users' \in [Users -> UserRecords] /\ \A v \in Users \ {u} : users'[v] = users[v]
  BY <1>1, <1>4, Zenon
<1>6. NewChannel(Len(proxies) + 1, Shared, FALSE) \in ChannelRecords
  BY <1>2, Zenon DEF NewChannel, ChannelRecords
<1>7. /\ channels' \in Seq(ChannelRecords)
      /\ \A c \in DOMAIN channels : c \in DOMAIN channels' /\ channels'[c] = channels[c]
      /\ \A c \in DOMAIN channels' \ DOMAIN channels :
            /\ c = Len(channels) + 1
            /\ channels'[c] = NewChannel(Len(proxies) + 1, Shared, FALSE)
            /\ table = [l \in {Shared} |-> c]
  <2>1. CASE UNCHANGED channels
    BY <2>1, Zenon
  <2>2. CASE /\ channels' = Append(channels, NewChannel(Len(proxies) + 1, Shared, FALSE))
             /\ table = [l \in {Shared} |-> Len(channels) + 1]
    <3>1. PICK new \in ChannelRecords : new = NewChannel(Len(proxies) + 1, Shared, FALSE)
      BY <1>6, Zenon
    <3>. DEFINE n == Len(channels) + 1
    <3>2. channels' = Append(channels, new)
      BY <2>2, <3>1, Zenon
    <3>3. /\ channels' \in Seq(ChannelRecords) /\ DOMAIN channels' = 1..n
          /\ DOMAIN channels = 1..(n - 1)
          /\ channels'[n] = new
          /\ \A c \in DOMAIN channels : channels'[c] = channels[c]
      BY <1>2, <3>2
    <3>4. \A c \in DOMAIN channels' \ DOMAIN channels : c = n
      BY <1>2, <3>3
    <3>5. \A c \in DOMAIN channels : c \in DOMAIN channels'
      BY <1>2, <3>3
    <3>. QED  BY <2>2, <3>1, <3>3, <3>4, <3>5, Zenon
  <2>. QED  BY <2>1, <2>2, Zenon
<1>8. ChannelsTypeOK'
  BY <1>1, <1>2, <1>3, <1>5, <1>7, Zenon
<1>. DEFINE n == Len(proxies) + 1
<1>9. /\ RegistryLeadsToKey /\ TableOfKind /\ ChannelHasPlace /\ UsersHold /\ NoOrphanChannel
      /\ registry \in [RegistryKeys -> Nat] /\ users[u] \in UserRecords
  BY Zenon
<1>10. n # 0 /\ n \in DOMAIN proxies' /\ \A c \in DOMAIN channels : c # 0
  BY <1>2, <1>3
<1>11. proxies'[n].key = k /\ proxies'[n].table = table
  <2>1. \A x : x = [key |-> k, spec |-> s, table |-> table] => x.key = k /\ x.table = table
    OBVIOUS
  <2>. QED  BY <1>3, <2>1, Zenon
<1>12. registry'[k] = n /\ \A j \in RegistryKeys \ {k} : registry'[j] = registry[j]
  BY <1>1, <1>9, Zenon
<1>13. \A c \in DOMAIN channels' \ DOMAIN channels :
         channels'[c].proxy = n /\ channels'[c].loop = Shared /\ Shared \in DOMAIN table /\ table[Shared] = c
  <2>1. NewChannel(n, Shared, FALSE).proxy = n /\ NewChannel(n, Shared, FALSE).loop = Shared
    BY DEF NewChannel
  <2>2. \A c : table = [l \in {Shared} |-> c] => Shared \in DOMAIN table /\ table[Shared] = c
    BY Zenon
  <2>. QED  BY <1>7, <2>1, <2>2, Zenon
<1>20. \A q \in DOMAIN proxies : q # 0 /\ proxies[q].key \in RegistryKeys
  <2>1. \A q \in DOMAIN proxies : q # 0 /\ proxies[q] \in ProxyRecords
    BY <1>2
  <2>2. \A x \in ProxyRecords : x.key \in RegistryKeys
    BY DEF ProxyRecords
  <2>. QED  BY <2>1, <2>2, Zenon
<1>21. users[u].st # "closing"
  OBVIOUS
<1>. HIDE DEF ChannelsInv, ChannelsTypeOK, n
<1>14. RegistryLeadsToKey'
  <2>. SUFFICES ASSUME NEW j \in RegistryKeys, registry'[j] # 0
                PROVE  registry'[j] \in DOMAIN proxies' /\ proxies'[registry'[j]].key = j
    BY Zenon DEF RegistryLeadsToKey
  <2>1. CASE j = k
    BY <1>10, <1>11, <1>12, <2>1, Zenon
  <2>2. CASE j # k
    BY <1>3, <1>9, <1>12, <2>2, ZenonT(40) DEF RegistryLeadsToKey
  <2>. QED  BY <2>1, <2>2, Zenon
<1>15. TableOfKind'
  <2>. SUFFICES ASSUME NEW p \in DOMAIN proxies', proxies'[p].key \in ChannelKeys
                PROVE  DOMAIN proxies'[p].table = Loops
    BY Zenon DEF TableOfKind
  <2>1. CASE p \in DOMAIN proxies
    BY <1>3, <1>9, <2>1, Zenon DEF TableOfKind
  <2>2. CASE p \notin DOMAIN proxies
    <3>1. p = n
      BY <1>3, <2>2, Zenon DEF n
    <3>. QED  BY <1>11, <3>1, Zenon
  <2>. QED  BY <2>1, <2>2, Zenon
<1>16. ChannelHasPlace'
  <2>. SUFFICES ASSUME NEW c \in DOMAIN channels'
                PROVE  /\ channels'[c].proxy \in DOMAIN proxies'
                       /\ channels'[c].loop \in DOMAIN proxies'[channels'[c].proxy].table
    BY Zenon DEF ChannelHasPlace
  <2>1. CASE c \in DOMAIN channels
    <3>1. channels'[c] = channels[c] /\ channels[c].proxy \in DOMAIN proxies
          /\ channels[c].loop \in DOMAIN proxies[channels[c].proxy].table
      BY <1>7, <1>9, <2>1, Zenon DEF ChannelHasPlace
    <3>. QED  BY <1>3, <3>1, Zenon
  <2>2. CASE c \notin DOMAIN channels
    BY <1>10, <1>11, <1>13, <2>2, Zenon
  <2>. QED  BY <2>1, <2>2, Zenon
<1>17. UsersHold'
  <2>. SUFFICES ASSUME NEW v \in Users
                PROVE  /\ users'[v].st = "ready" => users'[v].proxy \in DOMAIN proxies'
                       /\ users'[v].todo \subseteq DOMAIN proxies'
                       /\ users'[v].st # "closing" =>
                            users'[v].todo = {} /\ users'[v].pending = {} /\ users'[v].current = 0
    BY Zenon DEF UsersHold
  <2>1. CASE v = u
    BY <1>4, <1>5, <1>10, <2>1, Zenon DEF n
  <2>2. CASE v # u
    BY <1>3, <1>5, <1>9, <2>2, Zenon DEF UsersHold
  <2>. QED  BY <2>1, <2>2, Zenon
<1>18. NoOrphanChannel'
  <2>. SUFFICES ASSUME NEW c \in DOMAIN channels', channels'[c].st = "open", Reachable(c)', running' = Loops,
                       ~channels'[c].late
                PROVE  Found(c)' \/ \E v \in Users : InHandsOf(v, c)'
    BY Zenon DEF NoOrphanChannel, Found
  <2>1. CASE c \notin DOMAIN channels
    BY <1>11, <1>12, <1>13, <2>1, Zenon DEF Found, Registered
  <2>2. CASE c \in DOMAIN channels
    <3>1. channels'[c] = channels[c] /\ channels[c].proxy \in DOMAIN proxies
      BY <1>7, <1>9, <2>2, Zenon DEF ChannelHasPlace
    <3>2. proxies'[channels[c].proxy] = proxies[channels[c].proxy]
      BY <1>3, <3>1, Zenon
    <3>3. Found(c) \/ \E v \in Users : InHandsOf(v, c)
      <4>1. Reachable(c) /\ running = Loops
        BY <1>1, <3>1, Zenon DEF Reachable
      <4>. QED  BY <1>9, <2>2, <3>1, <4>1, Zenon DEF NoOrphanChannel, Found
    <3>4. ASSUME Found(c) PROVE Found(c)'
      <4>. DEFINE q == channels[c].proxy
      <4>1. registry[proxies[q].key] = q
        BY <3>4, Zenon DEF Found, Registered
      <4>2. q # 0 /\ proxies[q].key \in RegistryKeys
        BY <1>20, <3>1, Zenon
      <4>3. registry'[proxies[q].key] = q
        BY <1>1, <1>12, <4>1, <4>2, Zenon
      <4>. QED  BY <3>1, <3>2, <3>4, <4>3, Zenon DEF Found, Registered
    <3>5. ASSUME NEW v \in Users, InHandsOf(v, c) PROVE InHandsOf(v, c)'
      <4>1. v # u
        <5>1. c # 0
          BY <1>10, <2>2, Zenon
        <5>2. users[u].todo = {} /\ users[u].pending = {} /\ users[u].current = 0
          BY <1>9, <1>21, Zenon DEF UsersHold
        <5>. QED  BY <3>5, <5>1, <5>2, Zenon DEF InHandsOf
      <4>2. users'[v] = users[v]
        BY <1>5, <4>1, Zenon
      <4>3. channels'[c].proxy = channels[c].proxy /\ proxies'[channels'[c].proxy] = proxies[channels[c].proxy]
        BY <3>1, <3>2, Zenon
      <4>4. CASE c \in users[v].pending \/ c = users[v].current
        BY <4>2, <4>4, Zenon DEF InHandsOf
      <4>5. CASE /\ channels[c].proxy \in users[v].todo
                 /\ \E l \in DOMAIN proxies[channels[c].proxy].table : c = proxies[channels[c].proxy].table[l]
        <5>1. /\ channels'[c].proxy \in users'[v].todo
              /\ \E l \in DOMAIN proxies'[channels'[c].proxy].table : c = proxies'[channels'[c].proxy].table[l]
          BY <4>2, <4>3, <4>5, Zenon
        <5>. QED  BY <5>1, Zenon DEF InHandsOf
      <4>. QED  BY <3>5, <4>4, <4>5, Zenon DEF InHandsOf
    <3>. QED  BY <3>3, <3>4, <3>5, Zenon
  <2>. QED  BY <2>1, <2>2, Zenon
<1>. QED  BY <1>8, <1>14, <1>15, <1>16, <1>17, <1>18, Zenon DEF ChannelsInv

(* A stub opens the channel of its loop.                                   *)
LEMMA InvokeStep ==
  ASSUME ChannelsInv, NEW u \in Users, Invoke(u)
  PROVE  ChannelsInv'
<1>. USE DEF ChannelsInv, ChannelsTypeOK
<1>. DEFINE p == users[u].proxy
            l == LoopOf[u]
            n == Len(channels) + 1
            new == NewChannel(p, l, ~Registered(p))
<1>1. /\ p \in DOMAIN proxies /\ p \in Nat /\ proxies[p].key \in ChannelKeys /\ proxies[p].table[l] = 0
      /\ channels' = Append(channels, new)
      /\ proxies' = [proxies EXCEPT ![p].table[l] = n]
      /\ UNCHANGED <<registry, running, users>>
  BY Zenon DEF Invoke, HasStub, GetOrCreate, UsersHold, UserRecords
<1>2. l \in Loops /\ DOMAIN proxies[p].table = Loops /\ n \in Nat
  BY <1>1, ChannelsAssumption DEF TableOfKind
<1>3. new \in ChannelRecords /\ new.proxy = p /\ new.loop = l /\ new.late = ~Registered(p)
  BY <1>1, <1>2, Zenon DEF NewChannel, ChannelRecords, Registered
<1>. HIDE DEF new
<1>4. /\ channels' \in Seq(ChannelRecords) /\ DOMAIN channels' = 1..n
      /\ DOMAIN channels = 1..(n - 1)
      /\ channels'[n] = new
      /\ \A c \in DOMAIN channels : channels'[c] = channels[c]
  BY <1>1, <1>3
<1>5. /\ proxies' \in Seq(ProxyRecords) /\ DOMAIN proxies' = DOMAIN proxies
      /\ \A q \in DOMAIN proxies \ {p} : proxies'[q] = proxies[q]
      /\ proxies'[p].key = proxies[p].key
      /\ proxies'[p].table = [proxies[p].table EXCEPT ![l] = n]
  <2>1. PICK q \in ProxyRecords : q = [proxies[p] EXCEPT !.table[l] = n]
    <3>1. proxies[p] \in ProxyRecords
      BY <1>1
    <3>2. proxies[p].table \in [Loops -> Nat]
      <4>1. CASE proxies[p].table \in [Loops -> Nat]
        BY <4>1, Zenon
      <4>2. CASE proxies[p].table \in [{Shared} -> Nat]
        BY <1>2, <4>2, Zenon
      <4>. QED  BY <3>1, <4>1, <4>2, Zenon DEF ProxyRecords
    <3>3. [proxies[p].table EXCEPT ![l] = n] \in [Loops -> Nat]
      BY <1>2, <3>2, Zenon
    <3>. QED  BY <3>1, <3>3, Zenon DEF ProxyRecords
  <2>2. proxies' = [proxies EXCEPT ![p] = q]
    BY <1>1, <2>1, Zenon
  <2>3. q.key = proxies[p].key /\ q.table = [proxies[p].table EXCEPT ![l] = n]
    BY <1>1, <2>1, Zenon DEF ProxyRecords
  <2>. QED  BY <1>1, <2>2, <2>3
<1>6. /\ proxies'[p].table[l] = n /\ DOMAIN proxies'[p].table = Loops
      /\ \A m \in Loops \ {l} : proxies'[p].table[m] = proxies[p].table[m]
  BY <1>2, <1>5, Zenon
<1>. HIDE DEF p, l, n
<1>7. RegistryLeadsToKey'
  BY <1>1, <1>5, ZenonT(40) DEF RegistryLeadsToKey
<1>8. TableOfKind' /\ UsersHold'
  BY <1>1, <1>2, <1>5, <1>6, Zenon DEF TableOfKind, UsersHold
<1>9. ChannelHasPlace'
  BY <1>1, <1>2, <1>3, <1>4, <1>5, <1>6 DEF ChannelHasPlace
<1>10. \A q \in DOMAIN proxies : Registered(q)' <=> Registered(q)
  BY <1>1, <1>5, Zenon DEF Registered
<1>11. NoOrphanChannel'
  <2>. SUFFICES ASSUME NEW c \in DOMAIN channels', channels'[c].st = "open", Reachable(c)', running' = Loops,
                       ~channels'[c].late
                PROVE  Found(c)' \/ \E v \in Users : InHandsOf(v, c)'
    BY Zenon DEF NoOrphanChannel, Found
  <2>1. CASE c = n
    BY <1>1, <1>3, <1>4, <1>6, <1>10, <2>1, Zenon DEF Found
  <2>2. CASE c # n
    <3>1. c \in DOMAIN channels /\ channels'[c] = channels[c] /\ channels[c].proxy \in DOMAIN proxies /\ c # 0
      <4>1. \A i \in 1..n : i # n => i \in 1..(n - 1) /\ i # 0
        BY <1>2
      <4>2. c \in DOMAIN channels /\ c # 0
        BY <1>4, <2>2, <4>1, Zenon
      <4>. QED  BY <1>4, <4>2, Zenon DEF ChannelHasPlace
    <3>2. Found(c) \/ \E v \in Users : InHandsOf(v, c)
      BY <1>1, <3>1, Zenon DEF NoOrphanChannel, Found, Reachable
    <3>3. \A q \in DOMAIN proxies : \A m \in DOMAIN proxies[q].table :
             proxies[q].table[m] = c => proxies'[q].table[m] = c /\ m \in DOMAIN proxies'[q].table
      BY <1>1, <1>2, <1>5, <1>6, <3>1, ZenonT(40)
    <3>4. ASSUME Found(c) PROVE Found(c)'
      BY <1>10, <3>1, <3>3, <3>4 DEF Found, ChannelHasPlace
    <3>5. ASSUME NEW v \in Users, InHandsOf(v, c) PROVE InHandsOf(v, c)'
      BY <1>1, <3>1, <3>3, <3>5 DEF InHandsOf
    <3>. QED  BY <3>2, <3>4, <3>5, Zenon
  <2>. QED  BY <2>1, <2>2, Zenon
<1>. QED  BY <1>1, <1>4, <1>5, <1>7, <1>8, <1>9, <1>11, Zenon

(* The entries of a set of keys leave the registry for a closer's hands.   *)
LEMMA BeginCloseStep ==
  ASSUME ChannelsInv, NEW u \in Users, NEW ks \in SUBSET RegistryKeys, BeginClose(u, ks)
  PROVE  ChannelsInv'
<1>. USE DEF ChannelsInv, ChannelsTypeOK
<1>. DEFINE todo == {registry[k] : k \in ks} \ {0}
<1>1. PICK r \in UserRecords : /\ r = [Free EXCEPT !.st = "closing", !.todo = todo]
                               /\ r.st = "closing" /\ r.todo = todo
  <2>1. todo \in SUBSET Nat
    BY Zenon
  <2>. HIDE DEF todo
  <2>2. [Free EXCEPT !.st = "closing"] \in UserRecords
    BY Zenon DEF Free, UserRecords
  <2>3. \A a \in UserRecords : [a EXCEPT !.todo = todo] \in UserRecords /\ [a EXCEPT !.todo = todo].st = a.st
    BY <2>1, Zenon DEF UserRecords
  <2>. QED  BY <2>1, <2>2, <2>3, Zenon DEF Free
<1>2. /\ users[u].st = "ready" /\ users' = [users EXCEPT ![u] = r]
      /\ registry' = [k \in RegistryKeys |-> IF k \in ks THEN 0 ELSE registry[k]]
      /\ UNCHANGED <<proxies, channels, running>>
  BY <1>1, Zenon DEF BeginClose, UserBecomes
<1>3. users'[u] = r /\ users' \in [Users -> UserRecords] /\ \A v \in Users \ {u} : users'[v] = users[v]
  BY <1>2, Zenon
<1>4. registry' \in [RegistryKeys -> Nat]
  BY <1>2, Zenon
<1>5. RegistryLeadsToKey' /\ TableOfKind' /\ ChannelHasPlace'
  BY <1>2, Zenon DEF RegistryLeadsToKey, TableOfKind, ChannelHasPlace
<1>6. UsersHold'
  <2>1. r.todo \subseteq DOMAIN proxies
    BY <1>1 DEF RegistryLeadsToKey
  <2>. QED  BY <1>1, <1>2, <1>3, <2>1, Zenon DEF UsersHold
<1>7. NoOrphanChannel'
  <2>. SUFFICES ASSUME NEW c \in DOMAIN channels, channels[c].st = "open", Reachable(c), running = Loops,
                       ~channels[c].late
                PROVE  Found(c)' \/ \E v \in Users : InHandsOf(v, c)'
    BY <1>2, Zenon DEF NoOrphanChannel, Found, Reachable
  <2>1. Found(c) \/ \E v \in Users : InHandsOf(v, c)
    BY Zenon DEF NoOrphanChannel, Found
  <2>2. ASSUME NEW v \in Users, InHandsOf(v, c) PROVE InHandsOf(v, c)'
    <3>1. v # u
      <4>1. c # 0
        OBVIOUS
      <4>2. users[u].st # "closing"
        BY <1>2
      <4>3. users[u].todo = {} /\ users[u].pending = {} /\ users[u].current = 0
        BY <4>2, Zenon DEF UsersHold
      <4>. QED  BY <2>2, <4>1, <4>3, Zenon DEF InHandsOf
    <3>. QED  BY <1>2, <1>3, <2>2, <3>1, Zenon DEF InHandsOf
  <2>3. ASSUME Found(c) PROVE Found(c)' \/ InHandsOf(u, c)'
    <3>. DEFINE q == channels[c].proxy
    <3>1. q \in DOMAIN proxies /\ q # 0 /\ channels[c].loop \in DOMAIN proxies[q].table
      BY DEF ChannelHasPlace
    <3>2. proxies[q].key \in RegistryKeys
      <4>1. proxies[q] \in ProxyRecords
        BY <3>1
      <4>. QED  BY <4>1, Zenon DEF ProxyRecords
    <3>3. registry[proxies[q].key] = q /\ proxies[q].table[channels[c].loop] = c
      BY <2>3, Zenon DEF Found, Registered
    <3>4. CASE proxies[q].key \in ks
      <4>1. q \in r.todo
        BY <1>1, <3>1, <3>3, <3>4, Zenon
      <4>. QED  BY <1>2, <1>3, <3>1, <3>3, <4>1, Zenon DEF InHandsOf
    <3>5. CASE proxies[q].key \notin ks
      BY <1>2, <3>2, <3>3, <3>5, Zenon DEF Found, Registered
    <3>. QED  BY <3>4, <3>5, Zenon
  <2>. QED  BY <2>1, <2>2, <2>3, Zenon
<1>. QED  BY <1>2, <1>3, <1>4, <1>5, <1>6, <1>7, Zenon

(* A closer takes the table of a proxy away.                               *)
LEMMA TakeTableStep ==
  ASSUME ChannelsInv, NEW u \in Users, TakeTable(u)
  PROVE  ChannelsInv'
<1>. USE DEF ChannelsInv, ChannelsTypeOK
<1>1. PICK p \in users[u].todo :
        /\ users' = [users EXCEPT ![u] = [users[u] EXCEPT !.todo = @ \ {p},
              !.pending = {proxies[p].table[l] : l \in DOMAIN proxies[p].table} \ {0}]]
        /\ proxies' = [proxies EXCEPT ![p].table = [l \in DOMAIN @ |-> 0]]
  BY Zenon DEF TakeTable, UserBecomes
<1>2. /\ users[u].st = "closing" /\ users[u].pending = {} /\ users[u].current = 0
      /\ UNCHANGED <<registry, channels, running>>
  BY Zenon DEF TakeTable
<1>3. /\ p \in DOMAIN proxies /\ p \in Nat /\ users[u] \in UserRecords /\ proxies[p] \in ProxyRecords
      /\ DOMAIN proxies = 1..Len(proxies) /\ DOMAIN channels = 1..Len(channels)
  BY DEF UsersHold
<1>. DEFINE table == proxies[p].table
            taken == {table[l] : l \in DOMAIN table} \ {0}
<1>4. taken \in SUBSET Nat /\ [l \in DOMAIN table |-> 0] \in [Loops -> Nat] \cup [{Shared} -> Nat]
  BY <1>3, ZenonT(40) DEF ProxyRecords
<1>. HIDE DEF taken
<1>5. PICK r \in UserRecords : /\ users' = [users EXCEPT ![u] = r] /\ r.st = "closing"
                               /\ r.todo = users[u].todo \ {p} /\ r.pending = taken /\ r.current = 0
  <2>1. \A a \in UserRecords : [a EXCEPT !.todo = @ \ {p}] \in UserRecords
    BY Zenon DEF UserRecords
  <2>2. \A a \in UserRecords : [a EXCEPT !.pending = taken] \in UserRecords
    BY <1>4, Zenon DEF UserRecords
  <2>3. PICK r \in UserRecords : r = [[users[u] EXCEPT !.todo = @ \ {p}] EXCEPT !.pending = taken]
    BY <1>3, <2>1, <2>2, Zenon
  <2>4. r = [users[u] EXCEPT !.todo = @ \ {p}, !.pending = taken]
    BY <1>3, <2>3, Zenon DEF UserRecords
  <2>5. /\ r.st = users[u].st /\ r.current = users[u].current
        /\ r.todo = users[u].todo \ {p} /\ r.pending = taken
    BY <1>3, <2>4, Zenon DEF UserRecords
  <2>. QED  BY <1>1, <1>2, <2>4, <2>5, Zenon DEF taken
<1>6. users'[u] = r /\ users' \in [Users -> UserRecords] /\ \A v \in Users \ {u} : users'[v] = users[v]
  BY <1>5, Zenon
<1>7. /\ proxies' \in Seq(ProxyRecords) /\ DOMAIN proxies' = DOMAIN proxies
      /\ \A q \in DOMAIN proxies \ {p} : proxies'[q] = proxies[q]
      /\ proxies'[p].key = proxies[p].key
      /\ DOMAIN proxies'[p].table = DOMAIN proxies[p].table
  <2>1. PICK q \in ProxyRecords : /\ q = [proxies[p] EXCEPT !.table = [l \in DOMAIN table |-> 0]]
                                  /\ q.key = proxies[p].key /\ q.table = [l \in DOMAIN table |-> 0]
    <3>1. \A t \in [Loops -> Nat] \cup [{Shared} -> Nat] : \A a \in ProxyRecords :
             [a EXCEPT !.table = t] \in ProxyRecords /\ [a EXCEPT !.table = t].key = a.key
                                                    /\ [a EXCEPT !.table = t].table = t
      BY Zenon DEF ProxyRecords
    <3>. QED  BY <1>3, <1>4, <3>1, ZenonT(40)
  <2>2. proxies' = [proxies EXCEPT ![p] = q]
    BY <1>1, <2>1, Zenon
  <2>. QED  BY <1>3, <2>1, <2>2
<1>. HIDE DEF table
<1>8. RegistryLeadsToKey'
  BY <1>2, <1>3, <1>7, Zenon DEF RegistryLeadsToKey
<1>9. TableOfKind' /\ UsersHold'
  <2>1. TableOfKind'
    BY <1>7, Zenon DEF TableOfKind
  <2>2. UsersHold'
    BY <1>5, <1>6, <1>7, Zenon DEF UsersHold
  <2>. QED  BY <2>1, <2>2, Zenon
<1>10. ChannelHasPlace'
  BY <1>2, <1>7, Zenon DEF ChannelHasPlace
<1>11. \A q \in DOMAIN proxies : Registered(q)' <=> Registered(q)
  BY <1>2, <1>7, Zenon DEF Registered
<1>12. NoOrphanChannel'
  <2>. SUFFICES ASSUME NEW c \in DOMAIN channels, channels[c].st = "open", Reachable(c), running = Loops,
                       ~channels[c].late
                PROVE  Found(c)' \/ \E v \in Users : InHandsOf(v, c)'
    BY <1>2, Zenon DEF NoOrphanChannel, Found, Reachable
  <2>1. Found(c) \/ \E v \in Users : InHandsOf(v, c)
    BY Zenon DEF NoOrphanChannel, Found
  <2>2. /\ channels[c].proxy \in DOMAIN proxies /\ c # 0
        /\ channels[c].loop \in DOMAIN proxies[channels[c].proxy].table
    BY <1>3 DEF ChannelHasPlace
  <2>3. CASE channels[c].proxy = p /\ c \in {table[l] : l \in DOMAIN table}
    <3>1. c \in taken
      BY <2>2, <2>3, Zenon DEF taken
    <3>. QED  BY <1>5, <1>6, <3>1, Zenon DEF InHandsOf
  <2>4. CASE channels[c].proxy # p
    <3>1. proxies'[channels[c].proxy] = proxies[channels[c].proxy]
      BY <1>7, <2>2, <2>4, Zenon
    <3>2. Found(c) => Found(c)'
      BY <1>2, <1>11, <2>2, <3>1, Zenon DEF Found
    <3>3. ASSUME NEW v \in Users, InHandsOf(v, c) PROVE InHandsOf(v, c)'
      <4>1. CASE v = u
        <5>. DEFINE q == channels[c].proxy
        <5>1. q \in users[u].todo /\ c \in {proxies[q].table[l] : l \in DOMAIN proxies[q].table}
          BY <1>2, <2>2, <3>3, <4>1, Zenon DEF InHandsOf
        <5>2. q \in users'[u].todo
          BY <1>5, <1>6, <2>4, <5>1, Zenon
        <5>3. channels'[c].proxy = q /\ proxies'[q] = proxies[q]
          BY <1>2, <3>1, Zenon
        <5>. QED  BY <4>1, <5>1, <5>2, <5>3, Zenon DEF InHandsOf
      <4>2. CASE v # u
        <5>1. users'[v] = users[v]
          BY <1>6, <4>2, Zenon
        <5>. QED  BY <1>2, <3>1, <3>3, <5>1, Zenon DEF InHandsOf
      <4>. QED  BY <4>1, <4>2, Zenon
    <3>. QED  BY <2>1, <3>2, <3>3, Zenon
  <2>5. CASE channels[c].proxy = p /\ c \notin {table[l] : l \in DOMAIN table}
    <3>1. ~Found(c)
      BY <2>2, <2>5, Zenon DEF Found, table
    <3>2. PICK v \in Users : InHandsOf(v, c)
      BY <2>1, <3>1, Zenon
    <3>3. c \in users[v].pending \/ c = users[v].current
      BY <2>5, <3>2, Zenon DEF InHandsOf, table
    <3>4. v # u
      BY <1>2, <2>2, <3>3, Zenon
    <3>. QED  BY <1>6, <3>3, <3>4, Zenon DEF InHandsOf
  <2>. QED  BY <2>3, <2>4, <2>5, Zenon
<1>. QED  BY <1>2, <1>6, <1>7, <1>8, <1>9, <1>10, <1>12, Zenon

(* A closer goes on to its next channel.                                   *)
LEMMA CloseNextStep ==
  ASSUME ChannelsInv, NEW u \in Users, CloseNext(u)
  PROVE  ChannelsInv'
<1>. USE DEF ChannelsInv, ChannelsTypeOK
<1>1. PICK c \in users[u].pending :
        users' = [users EXCEPT ![u] = [users[u] EXCEPT !.pending = @ \ {c},
                                                       !.current = IF Reachable(c) THEN c ELSE 0]]
  BY Zenon DEF CloseNext, UserBecomes
<1>2. /\ users[u].st = "closing" /\ users[u].current = 0 /\ users[u] \in UserRecords
      /\ UNCHANGED <<registry, proxies, channels, running>>
  BY Zenon DEF CloseNext
<1>3. PICK n \in Nat : n = IF Reachable(c) THEN c ELSE 0
  BY <1>2, Zenon DEF UserRecords
<1>4. PICK r \in UserRecords : /\ users' = [users EXCEPT ![u] = r] /\ r.st = "closing"
                               /\ r.todo = users[u].todo /\ r.pending = users[u].pending \ {c} /\ r.current = n
  <2>1. \A a \in UserRecords : [a EXCEPT !.pending = @ \ {c}] \in UserRecords
    BY Zenon DEF UserRecords
  <2>2. \A a \in UserRecords : [a EXCEPT !.current = n] \in UserRecords
    BY Zenon DEF UserRecords
  <2>3. PICK r \in UserRecords : r = [[users[u] EXCEPT !.pending = @ \ {c}] EXCEPT !.current = n]
    BY <1>2, <2>1, <2>2, Zenon
  <2>4. r = [users[u] EXCEPT !.pending = @ \ {c}, !.current = n]
    BY <1>2, <2>3, Zenon DEF UserRecords
  <2>5. /\ r.st = users[u].st /\ r.todo = users[u].todo
        /\ r.pending = users[u].pending \ {c} /\ r.current = n
    BY <1>2, <2>4, Zenon DEF UserRecords
  <2>. QED  BY <1>1, <1>2, <1>3, <2>4, <2>5, Zenon
<1>5. \A d \in DOMAIN channels : InHandsOf(u, d) /\ Reachable(d) =>
             \/ d \in r.pending \/ d = r.current
             \/ users[u].todo \subseteq r.todo /\ d \notin users[u].pending /\ d # users[u].current
  BY <1>2, <1>3, <1>4
<1>6. r.todo \subseteq DOMAIN proxies
  BY <1>4, Zenon DEF UsersHold
<1>. QED  BY <1>2, <1>4, <1>5, <1>6, OnlyUserMoves, Zenon

(* A channel has closed: nobody needs to find it any more.                 *)
LEMMA ChannelClosedStep ==
  ASSUME ChannelsInv, NEW u \in Users, ChannelClosed(u)
  PROVE  ChannelsInv'
<1>. USE DEF ChannelsInv, ChannelsTypeOK
<1>. DEFINE d == users[u].current
<1>1. /\ d # 0 /\ users[u] \in UserRecords /\ d \in Nat
      /\ channels' = [channels EXCEPT ![d].st = "closed"]
      /\ users' = [users EXCEPT ![u] = [users[u] EXCEPT !.current = 0]]
      /\ UNCHANGED <<registry, proxies, running>>
  BY Zenon DEF ChannelClosed, UserBecomes, UserRecords
<1>2. PICK r \in UserRecords : /\ users' = [users EXCEPT ![u] = r] /\ r.st = users[u].st
                               /\ r.todo = users[u].todo /\ r.pending = users[u].pending /\ r.current = 0
                               /\ r.proxy = users[u].proxy
  <2>1. PICK r \in UserRecords : r = [users[u] EXCEPT !.current = 0]
    BY <1>1, Zenon DEF UserRecords
  <2>2. /\ r.st = users[u].st /\ r.todo = users[u].todo /\ r.pending = users[u].pending
        /\ r.current = 0 /\ r.proxy = users[u].proxy
    BY <1>1, <2>1, Zenon DEF UserRecords
  <2>. QED  BY <1>1, <2>1, <2>2, Zenon
<1>3. users'[u] = r /\ users' \in [Users -> UserRecords] /\ \A v \in Users \ {u} : users'[v] = users[v]
  BY <1>2, Zenon
<1>. HIDE DEF d
<1>4. /\ channels' \in Seq(ChannelRecords) /\ DOMAIN channels' = DOMAIN channels
      /\ \A c \in DOMAIN channels \ {d} : channels'[c] = channels[c]
      /\ \A c \in DOMAIN channels : /\ channels'[c].proxy = channels[c].proxy
                                    /\ channels'[c].loop = channels[c].loop
      /\ d \in DOMAIN channels => channels'[d].st = "closed"
  <2>1. CASE d \in DOMAIN channels
    <3>1. PICK q \in ChannelRecords : q = [channels[d] EXCEPT !.st = "closed"]
      <4>1. channels[d] \in ChannelRecords
        BY <2>1
      <4>. QED  BY <4>1, Zenon DEF ChannelRecords
    <3>2. channels[d] \in ChannelRecords /\ channels' = [channels EXCEPT ![d] = q]
      BY <1>1, <2>1, <3>1
    <3>3. q.proxy = channels[d].proxy /\ q.loop = channels[d].loop /\ q.st = "closed"
      BY <3>1, <3>2, Zenon DEF ChannelRecords
    <3>. QED  BY <2>1, <3>2, <3>3
  <2>2. CASE d \notin DOMAIN channels
    <3>1. [channels EXCEPT ![d].st = "closed"] = [c \in DOMAIN channels |-> channels[c]]
      BY <2>2, Zenon
    <3>2. channels = [c \in DOMAIN channels |-> channels[c]]
      OBVIOUS
    <3>3. UNCHANGED channels
      BY <1>1, <3>1, <3>2, Zenon
    <3>. QED  BY <2>2, <3>3, Zenon
  <2>. QED  BY <2>1, <2>2, Zenon
<1>5. RegistryLeadsToKey' /\ TableOfKind'
  BY <1>1, Zenon DEF RegistryLeadsToKey, TableOfKind
<1>6. ChannelHasPlace'
  BY <1>1, <1>4, Zenon DEF ChannelHasPlace
<1>7. UsersHold'
  BY <1>1, <1>2, <1>3 DEF UsersHold
<1>8. NoOrphanChannel'
  <2>. SUFFICES ASSUME NEW c \in DOMAIN channels', channels'[c].st = "open", Reachable(c)', running' = Loops,
                       ~channels'[c].late
                PROVE  Found(c)' \/ \E v \in Users : InHandsOf(v, c)'
    BY Zenon DEF NoOrphanChannel, Found
  <2>1. c \in DOMAIN channels /\ c # d /\ channels'[c] = channels[c]
    BY <1>4, Zenon
  <2>2. Found(c) \/ \E v \in Users : InHandsOf(v, c)
    BY <1>1, <2>1, Zenon DEF NoOrphanChannel, Found, Reachable
  <2>3. Found(c) => Found(c)'
    BY <1>1, <2>1, Zenon DEF Found, Registered
  <2>4. ASSUME NEW v \in Users, InHandsOf(v, c) PROVE InHandsOf(v, c)'
    <3>1. CASE v = u
      BY <1>1, <1>2, <1>3, <2>1, <2>4, <3>1, Zenon DEF InHandsOf, d
    <3>2. CASE v # u
      BY <1>1, <1>3, <2>1, <2>4, <3>2, Zenon DEF InHandsOf
    <3>. QED  BY <3>1, <3>2, Zenon
  <2>. QED  BY <2>2, <2>3, <2>4, Zenon
<1>. QED  BY <1>1, <1>3, <1>4, <1>5, <1>6, <1>7, <1>8, Zenon

(* A close() that has closed everything it took returns.                   *)
LEMMA CloseReturnsStep ==
  ASSUME ChannelsInv, NEW u \in Users, CloseReturns(u)
  PROVE  ChannelsInv'
<1>. USE DEF ChannelsInv, ChannelsTypeOK
<1>1. /\ users[u].todo = {} /\ users[u].pending = {} /\ users[u].current = 0
      /\ users' = [users EXCEPT ![u] = [Free EXCEPT !.st = "closed"]]
      /\ UNCHANGED <<registry, proxies, channels, running>>
  BY Zenon DEF CloseReturns, UserBecomes
<1>2. \A c \in DOMAIN channels : ~InHandsOf(u, c)
  BY <1>1 DEF InHandsOf
<1>3. PICK r \in UserRecords : /\ r = [Free EXCEPT !.st = "closed"] /\ r.st = "closed"
                               /\ r.todo = {} /\ r.pending = {} /\ r.current = 0
  BY FreeRecords, Zenon
<1>. QED  BY <1>1, <1>2, <1>3, OnlyUserMoves, Zenon

(* Nothing is promised any more of the channels once a loop has ended.     *)
LEMMA StopLoopStep ==
  ASSUME ChannelsInv, NEW l \in Loops, StopLoop(l)
  PROVE  ChannelsInv'
<1>. USE DEF ChannelsInv, ChannelsTypeOK
<1>1. l \in running /\ running' = running \ {l} /\ UNCHANGED <<registry, proxies, channels, users>>
  BY Zenon DEF StopLoop
<1>. QED  BY <1>1, Zenon DEF RegistryLeadsToKey, TableOfKind, ChannelHasPlace, UsersHold, NoOrphanChannel

(* channels.py, http.py: users of any number of loops build, call and      *)
(* close shared channels in any order, and an open channel stays where the *)
(* registry or a close() in progress finds it.                             *)
THEOREM AlwaysNoOrphanChannel == ChannelsSpec => []NoOrphanChannel
<1>1. ChannelsInv /\ [ChannelsNext]_channelVars => ChannelsInv'
  <2>. SUFFICES ASSUME ChannelsInv, [ChannelsNext]_channelVars PROVE ChannelsInv'
    BY Zenon
  <2>1. CASE UNCHANGED channelVars
    <3>1. UNCHANGED <<registry, proxies, channels, running, users>>
      BY <2>1, Zenon DEF channelVars
    <3>2. ChannelsTypeOK' /\ RegistryLeadsToKey' /\ TableOfKind' /\ ChannelHasPlace' /\ UsersHold'
      BY <3>1, Zenon DEF ChannelsInv, ChannelsTypeOK, RegistryLeadsToKey, TableOfKind, ChannelHasPlace, UsersHold
    <3>3. NoOrphanChannel'
      BY <3>1, ZenonT(40) DEF ChannelsInv, NoOrphanChannel, Registered, Reachable, InHandsOf
    <3>. QED  BY <3>2, <3>3, Zenon DEF ChannelsInv
  <2>2. ASSUME NEW u \in Users, NewGrpcClient(u) PROVE ChannelsInv'
    <3>1. PICK k \in ChannelKeys, s \in Specs : BuildChannel(u, k, s)
      BY <2>2, Zenon DEF NewGrpcClient
    <3>2. k \in RegistryKeys /\ [l \in Loops |-> 0] \in [Loops -> Nat] /\ DOMAIN [l \in Loops |-> 0] = Loops
      BY Zenon DEF RegistryKeys
    <3>. QED  BY <3>1, <3>2, ReuseStep, RegisterStep, Zenon DEF BuildChannel
  <2>3. ASSUME NEW u \in Users, NEW k \in HttpKeys, NEW s \in Specs, BuildClient(u, k, s) PROVE ChannelsInv'
    <3>1. Len(channels) + 1 \in Nat
      BY DEF ChannelsInv, ChannelsTypeOK
    <3>2. PICK table \in [{Shared} -> Nat] : table = [l \in {Shared} |-> Len(channels) + 1]
      BY <3>1, Zenon
    <3>3. k \in RegistryKeys /\ k \notin ChannelKeys
      BY ChannelsAssumption, Zenon DEF RegistryKeys
    <3>. QED  BY <2>3, <3>2, <3>3, ReuseStep, RegisterStep, Zenon DEF BuildClient
  <2>4. ASSUME NEW u \in Users, CloseClient(u) PROVE ChannelsInv'
    <3>1. {proxies[users[u].proxy].key} \in SUBSET RegistryKeys
      BY <2>4, Zenon DEF CloseClient, HasStub, RegistryKeys
    <3>. QED  BY <2>4, <3>1, BeginCloseStep, Zenon DEF CloseClient
  <2>5. ASSUME NEW u \in Users, CloseAllChannels(u) \/ CloseAsyncClients(u) PROVE ChannelsInv'
    <3>1. ChannelKeys \in SUBSET RegistryKeys /\ HttpKeys \in SUBSET RegistryKeys
      BY Zenon DEF RegistryKeys
    <3>. QED  BY <2>5, <3>1, BeginCloseStep, Zenon DEF CloseAllChannels, CloseAsyncClients
  <2>6. ASSUME NEW u \in Users, CloserStep(u) PROVE ChannelsInv'
    BY <2>6, TakeTableStep, CloseNextStep, ChannelClosedStep, CloseReturnsStep, Zenon DEF CloserStep
  <2>. QED  BY <2>1, <2>2, <2>3, <2>4, <2>5, <2>6, InvokeStep, StopLoopStep, Zenon DEF ChannelsNext
<1>2. ChannelsInv => NoOrphanChannel
  BY Zenon DEF ChannelsInv
<1>. QED  BY <1>1, <1>2, ChannelsInitially, PTL DEF ChannelsSpec

=============================================================================
