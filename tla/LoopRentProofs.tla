--------------------------- MODULE LoopRentProofs ---------------------------
(***************************************************************************)
(* Two parts that share nothing but this module.                           *)
(*                                                                         *)
(* The walks over descriptor_list are safe and skip nobody, for any number *)
(* of connections.  The argument is about Before(x), what a walk at x has  *)
(* still before it: the list has no cycle, a turn of a loop takes x out of *)
(* Before, and Unlink takes the closed descriptor out of every Before.     *)
(*                                                                         *)
(* Possessions are a forest, the rent file tells what the forest was, and  *)
(* reading it builds the same forest again.  save_obj and                  *)
(* obj_store_to_char are runs, one turn after the other, and what they do  *)
(* is shown by an invariant of their turns: what is still to be stored and *)
(* what the file has make up the possessions, the latest element of each   *)
(* depth is the container the next ones are in, and what has been made of  *)
(* the file is where the file says.                                        *)
(***************************************************************************)
EXTENDS GameLoop, Rent, FiniteSetTheorems, WellFoundedInduction, TLAPS

Closed(S) == \A k \in S : next[k] \in S \cup {None}

LEMMA InBefore ==
    ASSUME NEW x \in Desc, NEW y
    PROVE  y \in Before(x) <=>
             y \in Desc /\ \A S \in SUBSET Desc : x \in S /\ Closed(S) => y \in S
BY LoopAssumption DEF Before, Closed

LEMMA BeforeNone == Before(None) = {}
BY DEF Before

\* Nothing in the list comes back to where it was.
LEMMA NoCycle ==
    ASSUME TypeOK, Linked, ListIsLive, NEW x \in live
    PROVE  next[x] # x /\ x \notin Before(next[x])
<1> USE LoopAssumption
<1>0. x \in Desc /\ next[x] \in Desc \cup {None}
    BY DEF TypeOK
<1>1. SUFFICES ASSUME next[x] \in Desc,
                      next[x] = x \/ x \in Before(next[x])
               PROVE  FALSE
    BY <1>0, BeforeNone
<1>2. x \in Before(next[x])
    BY <1>0, <1>1, InBefore
<1> DEFINE C == Before(next[x])
<1>3. C \subseteq Desc
    BY DEF Before
<1>l. C \subseteq live
    <2>1. next[x] \in live
        BY <1>1, LoopAssumption DEF Linked, TypeOK
    <2>2. live \in SUBSET Desc /\ Closed(live)
        BY DEF Linked, Closed, TypeOK
    <2> QED
        BY <1>1, <2>1, <2>2, InBefore
<1>4. \A c \in C : \E k \in C : next[k] = c
    <2>1. SUFFICES ASSUME NEW c \in C, \A k \in C : next[k] # c
                   PROVE  FALSE
        OBVIOUS
    <2>2. c # next[x]
        BY <1>2, <2>1
    <2>3. next[x] \in C
        BY <1>1, InBefore
    <2>4. Closed(C \ {c})
        <3>1. SUFFICES ASSUME NEW k \in C \ {c}, next[k] # None
                       PROVE  next[k] \in C
            BY <2>1 DEF Closed
        <3>2. k \in Desc /\ next[k] \in Desc
            BY <1>3, <3>1 DEF TypeOK
        <3>3. ASSUME NEW S \in SUBSET Desc, next[x] \in S, Closed(S)
              PROVE  next[k] \in S
            BY <1>1, <3>1, <3>3, InBefore DEF Closed
        <3> QED
            BY <1>1, <3>2, <3>3, InBefore
    <2>5. c \in C \ {c}
        BY <1>1, <1>3, <2>1, <2>2, <2>3, <2>4, InBefore
    <2> QED
        BY <2>5
<1>5. descriptor_list \in Desc /\ descriptor_list \notin C
    <2>1. descriptor_list # None
        BY BeforeNone DEF ListIsLive
    <2>2. descriptor_list \in Desc
        BY <2>1 DEF TypeOK
    <2>3. \A k \in live : next[k] # descriptor_list
        BY <2>1 DEF Linked
    <2> QED
        BY <1>l, <1>4, <2>2, <2>3
<1>6. Closed(live \ C)
    <2>1. SUFFICES ASSUME NEW k \in live \ C, next[k] \in C
                   PROVE  FALSE
        BY DEF TypeOK, Closed, Linked
    <2>2. PICK j \in C : next[j] = next[k]
        BY <1>4, <2>1
    <2>3. next[k] # None
        BY <1>3, <2>1, LoopAssumption
    <2> QED
        BY <1>l, <2>1, <2>2, <2>3 DEF Linked
<1>7. x \in live \ C
    <2>1. descriptor_list \in live \ C
        BY <1>5, LoopAssumption DEF Linked
    <2>2. live \ C \in SUBSET Desc
        BY DEF TypeOK
    <2> QED
        BY <1>5, <1>6, <2>1, <2>2, InBefore DEF ListIsLive
<1> QED
    BY <1>2, <1>7

\* A turn of a loop.
LEMMA StepOn ==
    ASSUME TypeOK, Linked, ListIsLive, NEW x \in live
    PROVE  Before(next[x]) = Before(x) \ {x}
<1> USE LoopAssumption
<1>0. x \in Desc /\ next[x] \in Desc \cup {None}
    BY DEF TypeOK
<1>1. CASE next[x] = None
    <2>1. Closed({x})
        BY <1>1 DEF Closed
    <2>2. \A y \in Before(x) : y = x
        BY <1>0, <2>1, InBefore
    <2> QED
        BY <1>1, <2>2, BeforeNone
<1>2. CASE next[x] \in Desc
    <2>1. ASSUME NEW y \in Before(next[x])
          PROVE  y \in Before(x) \ {x}
        <3>1. y # x
            BY NoCycle
        <3>2. ASSUME NEW S \in SUBSET Desc, x \in S, Closed(S)
              PROVE  y \in S
            <4>1. next[x] \in S
                BY <1>2, <3>2 DEF Closed
            <4> QED
                BY <1>2, <2>1, <3>2, <4>1, InBefore
        <3> QED
            BY <1>0, <1>2, <2>1, <3>1, <3>2, InBefore
    <2>2. ASSUME NEW y \in Before(x), y # x
          PROVE  y \in Before(next[x])
        <3>1. ASSUME NEW S \in SUBSET Desc, next[x] \in S, Closed(S)
              PROVE  y \in S
            <4>1. Closed(S \cup {x})
                BY <3>1 DEF Closed
            <4>2. S \cup {x} \in SUBSET Desc
                BY <1>0
            <4> QED
                BY <1>0, <2>2, <4>1, <4>2, InBefore
        <3> QED
            BY <1>0, <1>2, <2>2, <3>1, InBefore
    <2> QED
        BY <2>1, <2>2
<1> QED
    BY <1>0, <1>1, <1>2

LEMMA InBeforeNext ==
    ASSUME NEW x \in Desc, NEW y
    PROVE  (y \in Before(x))' <=>
             y \in Desc /\ \A S \in SUBSET Desc : x \in S /\ Closed(S)' => y \in S
BY LoopAssumption DEF Before, Closed

\* Closing d takes it out of what any walk that is not at d has before it.
LEMMA UnlinkBefore ==
    ASSUME TypeOK, Linked, NEW d \in live, next[d] # d, Unlink(d),
           NEW x \in live, x # d
    PROVE  Before(x)' = Before(x) \ {d}
<1> USE LoopAssumption
<1>1. /\ \A k \in live : next'[k] = IF next[k] = d THEN next[d] ELSE next[k]
      /\ live \in SUBSET Desc /\ x \in Desc /\ d \in Desc
      /\ \A k \in live : next[k] \in live \cup {None}
    BY DEF Unlink, TypeOK, Linked
<1>2. ASSUME NEW y \in Before(x)'
      PROVE  y \in Before(x) \ {d}
    <2>1. ASSUME NEW S \in SUBSET Desc, x \in S, Closed(S)
          PROVE  y \in S \ {d}
        <3>1. PICK T \in SUBSET Desc : T = (S \cap live) \ {d}
            BY <1>1
        <3>2. Closed(T)'
            <4>1. SUFFICES ASSUME NEW k \in T
                           PROVE  next'[k] \in T \cup {None}
                BY DEF Closed
            <4>2. next[k] \in (S \cap live) \cup {None}
                BY <1>1, <2>1, <3>1, <4>1 DEF Closed
            <4>3. CASE next[k] = d
                <5>1. d \in S /\ next'[k] = next[d] /\ next[d] \in S \cup {None}
                    BY <1>1, <2>1, <3>1, <4>1, <4>2, <4>3 DEF Closed
                <5> QED
                    BY <1>1, <3>1, <5>1
            <4>4. CASE next[k] # d
                BY <1>1, <3>1, <4>1, <4>2, <4>4
            <4> QED
                BY <4>3, <4>4
        <3>3. x \in T
            BY <2>1, <3>1
        <3> QED
            BY <1>1, <1>2, <3>1, <3>2, <3>3, InBeforeNext
    <2>2. y \in Desc
        BY <1>1, <1>2, InBeforeNext
    <2>3. Closed(Desc)
        BY DEF Closed, TypeOK
    <2>4. y # d
        BY <1>1, <2>1, <2>3
    <2> QED
        BY <1>1, <2>1, <2>2, <2>4, InBefore
<1>3. ASSUME NEW y \in Before(x), y # d
      PROVE  y \in Before(x)'
    <2>1. ASSUME NEW S \in SUBSET Desc, x \in S, Closed(S)'
          PROVE  y \in S
        <3>0. /\ x \in S \cap live /\ S \cap live \in SUBSET Desc
              /\ (S \cap live) \cup {d} \in SUBSET Desc
              /\ (S \cap live) \ {d} \in SUBSET Desc
            BY <1>1, <2>1
        <3>1. CASE \E k \in (S \cap live) \ {d} : next[k] = d
            <4>1. PICK k \in (S \cap live) \ {d} : next[k] = d
                BY <3>1
            <4>2. next[d] \in (S \cap live) \cup {None}
                BY <1>1, <2>1, <4>1 DEF Closed
            <4>3. Closed((S \cap live) \cup {d})
                BY <1>1, <2>1, <4>2 DEF Closed
            <4> QED
                BY <1>1, <1>3, <3>0, <4>3, InBefore
        <3>2. CASE \A k \in (S \cap live) \ {d} : next[k] # d
            <4>1. Closed((S \cap live) \ {d})
                BY <1>1, <2>1, <3>2 DEF Closed
            <4> QED
                BY <1>1, <1>3, <3>0, <4>1, InBefore
        <3> QED
            BY <3>1, <3>2
    <2>2. y \in Desc
        BY <1>1, <1>3, InBefore
    <2> QED
        BY <1>1, <2>1, <2>2, InBeforeNext
<1> QED
    BY <1>2, <1>3

-----------------------------------------------------------------------------
(* The list after close_socket and new_descriptor.                         *)

LEMMA UnlinkLinked ==
    ASSUME TypeOK, Linked, ListIsLive, NEW d \in live, Unlink(d)
    PROVE  Linked' /\ ListIsLive'
<1> USE LoopAssumption
<1>0. d \in Desc /\ next[d] \in live \cup {None} /\ next[d] # d
    BY NoCycle DEF TypeOK, Linked
<1>1. /\ \A k \in live : next'[k] = IF next[k] = d THEN next[d] ELSE next[k]
      /\ live' = live \ {d}
    BY DEF Unlink, TypeOK
<1>2. descriptor_list' \in live' \cup {None}
    BY <1>0 DEF Unlink, Linked
<1>3. ASSUME NEW k \in live', next'[k] # None
      PROVE  next'[k] \in live' /\ next'[k] # descriptor_list'
    <2>1. k # d /\ k \in live /\ next[k] # None
        BY <1>0, <1>1, <1>3 DEF Linked
    <2>2. CASE next[k] = d
        <3>1. next'[k] = next[d] /\ descriptor_list # d
            BY <1>1, <2>1, <2>2 DEF Linked
        <3> QED
            BY <1>0, <1>3, <2>1, <3>1 DEF Unlink, Linked
    <2>3. CASE next[k] # d
        <3>1. next'[k] = next[k]
            BY <1>1, <2>1, <2>3
        <3>2. next[k] # next[d]
            BY <1>0, <2>1 DEF Linked
        <3> QED
            BY <1>0, <2>1, <2>3, <3>1, <3>2 DEF Unlink, Linked
    <2> QED
        BY <2>2, <2>3
<1>4. ASSUME NEW j \in live', NEW k \in live', next'[j] = next'[k], next'[j] # None
      PROVE  j = k
    BY <1>0, <1>1, <1>4 DEF Linked
<1>5. ListIsLive'
    <2>1. CASE descriptor_list = d
        <3>1. descriptor_list' = next[d] /\ Before(next[d]) = live \ {d}
            BY <2>1, StepOn DEF Unlink, ListIsLive
        <3>2. CASE next[d] = None
            <4>1. Before(descriptor_list)' = {}
                BY <3>1, <3>2 DEF Before
            <4> QED
                BY <3>1, <3>2, <4>1, BeforeNone DEF ListIsLive, Unlink
        <3>3. CASE next[d] \in Desc
            <4>1. Before(descriptor_list)' = live \ {d}
                <5>1. PICK y \in live : y = next[d]
                    BY <1>0, <3>3
                <5>2. Before(y)' = Before(y) \ {d}
                    BY <1>0, <5>1, UnlinkBefore
                <5>3. Before(descriptor_list)' = Before(y)'
                    BY <3>1, <5>1 DEF Before
                <5> QED
                    BY <3>1, <5>1, <5>2, <5>3
            <4> QED
                BY <4>1 DEF ListIsLive, Unlink
        <3> QED
            BY <1>0, <3>2, <3>3 DEF TypeOK
    <2>2. CASE descriptor_list # d
        <3>1. descriptor_list \in Desc
            BY <1>0, BeforeNone DEF ListIsLive, TypeOK
        <3>2. PICK y \in live : y = descriptor_list
            BY <3>1 DEF Linked
        <3>3. Before(y)' = live \ {d}
            BY <1>0, <2>2, <3>2, UnlinkBefore DEF ListIsLive
        <3>4. Before(descriptor_list)' = Before(y)'
            BY <2>2, <3>2 DEF Unlink, Before
        <3> QED
            BY <3>3, <3>4 DEF ListIsLive, Unlink
    <2> QED
        BY <2>1, <2>2
<1> QED
    BY <1>2, <1>3, <1>4, <1>5 DEF Linked

LEMMA InsertLinked ==
    ASSUME TypeOK, Linked, ListIsLive, NEW d \in Desc, NewDescriptor(d)
    PROVE  Linked' /\ ListIsLive'
<1> USE LoopAssumption
<1>1. /\ d \notin live /\ live' = live \cup {d}
      /\ descriptor_list' = d
      /\ next' = [next EXCEPT ![d] = descriptor_list]
    BY DEF NewDescriptor
<1>2. \A k \in Desc : next'[k] = IF k = d THEN descriptor_list ELSE next[k]
    BY <1>1 DEF TypeOK
<1>3. \A k \in live : next[k] # d
    BY <1>1 DEF Linked
<1>4. descriptor_list # d
    BY <1>1 DEF Linked
<1>5. Linked'
    BY <1>1, <1>2, <1>3, <1>4 DEF Linked
<1>6. Before(d)' = live \cup {d}
    <2>1. ASSUME NEW y \in Before(d)'
          PROVE  y \in live \cup {d}
        <3>1. PICK S \in SUBSET Desc : S = live \cup {d}
            BY DEF TypeOK
        <3>2. Closed(S)'
            BY <1>1, <1>2, <3>1 DEF Closed, Linked, TypeOK
        <3> QED
            BY <2>1, <3>1, <3>2, InBeforeNext
    <2>2. d \in Before(d)'
        BY InBeforeNext
    <2>3. ASSUME NEW y \in live
          PROVE  y \in Before(d)'
        <3>1. descriptor_list \in Desc
            BY <2>3, BeforeNone DEF ListIsLive, TypeOK
        <3>2. ASSUME NEW S \in SUBSET Desc, d \in S, Closed(S)'
              PROVE  y \in S
            <4>1. descriptor_list \in S
                BY <1>2, <3>1, <3>2 DEF Closed
            <4>2. Closed(S \cap live) /\ descriptor_list \in S \cap live
                  /\ S \cap live \in SUBSET Desc
                BY <1>1, <1>2, <3>1, <3>2, <4>1 DEF Closed, Linked, TypeOK
            <4>3. y \in Before(descriptor_list)
                BY <2>3 DEF ListIsLive
            <4> QED
                BY <1>4, <3>1, <4>1, <4>2, <4>3, InBefore
        <3>3. y \in Desc
            BY <2>3 DEF TypeOK
        <3> QED
            BY <3>2, <3>3, InBeforeNext
    <2> QED
        BY <2>1, <2>2, <2>3
<1>7. Before(descriptor_list)' = Before(d)'
    BY <1>1 DEF Before
<1> QED
    BY <1>1, <1>5, <1>6, <1>7 DEF ListIsLive

-----------------------------------------------------------------------------
(* Every step keeps the invariant.                                         *)

LEMMA InitLoop == Init => LoopInv
<1>1. Init => Before(descriptor_list) = {}
    BY BeforeNone DEF Init
<1> QED
    BY <1>1, LoopAssumption
    DEF Init, LoopInv, TypeOK, Linked, OneWalk, WalkIsSafe, ListIsLive, Walks

\* The list is not touched.
LEMMA SameList ==
    ASSUME Linked, ListIsLive, UNCHANGED <<live, descriptor_list, next>>
    PROVE  Linked' /\ ListIsLive'
<1>1. Before(descriptor_list)' = Before(descriptor_list)
    BY DEF Before
<1> QED
    BY <1>1 DEF Linked, ListIsLive

\* A descriptor is closed, and the loops' pointers are what is left of them.
LEMMA CloseStep ==
    ASSUME LoopInv, NEW d \in live, NEW process \in live \cup {None},
           CloseSocket(d, process),
           queue' \in [Desc -> 0 .. MaxQueue], wait' \in [Desc -> 0 .. MaxWait]
    PROVE  /\ Linked' /\ ListIsLive'
           /\ live' = live \ {d} /\ live' \subseteq Desc
           /\ named' \subseteq live'
           /\ descriptor_list' \in Desc \cup {None}
           /\ next' \in [Desc -> Desc \cup {None}]
           /\ next_to_process' \in live' \cup {None}
           /\ next[d] \in live' \cup {None} /\ next'[d] = next[d]
           /\ d \in Desc
<1> USE LoopAssumption
<1>1. d \in Desc /\ next[d] \in live \cup {None} /\ next[d] # d
    BY NoCycle DEF LoopInv, TypeOK, Linked
<1>2. Linked' /\ ListIsLive'
    BY UnlinkLinked DEF LoopInv, CloseSocket
<1>3. /\ live' = live \ {d} /\ live' \subseteq Desc
      /\ named' \subseteq live'
      /\ descriptor_list' \in Desc \cup {None}
    BY <1>1 DEF LoopInv, TypeOK, CloseSocket, Unlink
<1>4. next' \in [Desc -> Desc \cup {None}]
    BY <1>1 DEF LoopInv, TypeOK, CloseSocket, Unlink
<1>5. next_to_process' \in live' \cup {None}
    BY <1>1, <1>3 DEF CloseSocket
<1>6. next'[d] = next[d]
    BY <1>1 DEF CloseSocket, Unlink
<1> QED
    BY <1>1, <1>2, <1>3, <1>4, <1>5, <1>6

LEMMA Counters ==
    ASSUME TypeOK, NEW d \in Desc
    PROVE  /\ Waited(d) \in 0 .. MaxWait
           /\ queue[d] \in 0 .. MaxQueue
           /\ queue[d] > 0 => queue[d] - 1 \in 0 .. MaxQueue
           /\ 0 \in 0 .. MaxQueue /\ {0, 1} \subseteq 0 .. MaxWait
           /\ \A q \in 0 .. MaxQueue : [queue EXCEPT ![d] = q] \in [Desc -> 0 .. MaxQueue]
           /\ \A w \in 0 .. MaxWait : [wait EXCEPT ![d] = w] \in [Desc -> 0 .. MaxWait]
BY LoopAssumption DEF TypeOK, Waited

LEMMA StepLoop == LoopInv /\ [Loop]_vars => LoopInv'
<1> USE LoopAssumption
<1> SUFFICES ASSUME LoopInv, [Loop]_vars PROVE LoopInv'
    OBVIOUS
<1>0. /\ TypeOK /\ Linked /\ OneWalk /\ WalkIsSafe /\ ListIsLive
      /\ \A d \in live : d \in Desc /\ next[d] \in live \cup {None}
      /\ descriptor_list \in live \cup {None}
    BY DEF LoopInv, TypeOK, Linked
<1> DEFINE Unlinked == UNCHANGED <<live, descriptor_list, next>>
<1>1. ASSUME Unlinked, named' \subseteq live',
             phase' \in Walks \cup {"select", "evict", "purge", "shutdown"},
             WalkIsSafe', walker' \in Desc \cup {None},
             queue' \in [Desc -> 0 .. MaxQueue], wait' \in [Desc -> 0 .. MaxWait],
             OneWalk'
      PROVE  LoopInv'
    BY <1>0, <1>1, SameList DEF LoopInv, TypeOK, WalkIsSafe
<1>2. CASE NoConnection \/ EvictEnds
    BY <1>0, <1>1, <1>2
    DEF NoConnection, EvictEnds, Begin, links, lines, TypeOK, WalkIsSafe, OneWalk, Walks
<1>3. ASSUME NEW d \in Desc, NewDescriptor(d) PROVE LoopInv'
    <2>1. Linked' /\ ListIsLive'
        BY <1>0, <1>3, InsertLinked
    <2>2. wait' \in [Desc -> 0 .. MaxWait]
        BY <1>0, <1>3, Counters DEF NewDescriptor
    <2>3. TypeOK'
        BY <1>0, <1>3, <2>2 DEF NewDescriptor, TypeOK, Walks
    <2>4. OneWalk' /\ WalkIsSafe'
        BY <1>0, <1>3, LoopAssumption DEF NewDescriptor, OneWalk, WalkIsSafe, Walks
    <2> QED
        BY <2>1, <2>3, <2>4 DEF LoopInv
<1>4. CASE GameFull \/ HeartbeatEnds \/ PurgeEnds \/ Shutdown \/ Reboot
    BY <1>0, <1>1, <1>4
    DEF GameFull, HeartbeatEnds, PurgeEnds, Shutdown, Reboot, links, lines, TypeOK,
        WalkIsSafe, OneWalk, Walks
<1>5. ASSUME NEW walk \in Walks, NEW then \in Walks, WalkEnds(walk, then) PROVE LoopInv'
    BY <1>0, <1>1, <1>5 DEF WalkEnds, Begin, links, lines, TypeOK, WalkIsSafe, OneWalk, Walks
<1>6. ASSUME NEW walk \in Walks, Pass(walk) PROVE LoopInv'
    BY <1>0, <1>1, <1>6
    DEF Pass, Visiting, links, lines, TypeOK, WalkIsSafe, OneWalk
<1>7. CASE ProcessInput
    <2>1. point \in Desc /\ next[point] \in live \cup {None}
        BY <1>0, <1>7 DEF ProcessInput, Visiting, WalkIsSafe
    <2>2. queue' \in [Desc -> 0 .. MaxQueue]
        <3>1. PICK n \in (queue[point] + 1) .. MaxQueue : queue' = [queue EXCEPT ![point] = n]
            BY <1>7 DEF ProcessInput
        <3>2. n \in 0 .. MaxQueue
            BY <1>0, <2>1, <3>1, Counters
        <3> QED
            BY <1>0, <2>1, <3>1, <3>2, Counters
    <2> QED
        BY <1>0, <1>1, <1>7, <2>1, <2>2
        DEF ProcessInput, Visiting, links, TypeOK, WalkIsSafe, OneWalk, Walks
<1>8. CASE Stunned
    <2>1. point \in Desc /\ next[point] \in live \cup {None}
        BY <1>0, <1>8 DEF Stunned, Visiting, WalkIsSafe
    <2>2. wait' \in [Desc -> 0 .. MaxWait]
        BY <1>0, <1>8, <2>1, Counters DEF Stunned
    <2> QED
        BY <1>0, <1>1, <1>8, <2>1, <2>2
        DEF Stunned, Visiting, links, TypeOK, WalkIsSafe, OneWalk, Walks
<1>9. CASE NotReady
    <2>1. point \in Desc /\ next[point] \in live \cup {None}
        BY <1>0, <1>9 DEF NotReady, Visiting, WalkIsSafe
    <2>2. wait' \in [Desc -> 0 .. MaxWait]
        BY <1>0, <1>9, <2>1, Counters DEF NotReady
    <2> QED
        BY <1>0, <1>1, <1>9, <2>1, <2>2
        DEF NotReady, Visiting, links, TypeOK, WalkIsSafe, OneWalk, Walks
<1>10. CASE Line
    <2>1. point \in live /\ point \in Desc /\ next[point] \in live \cup {None}
        BY <1>0, <1>10 DEF Line, Ready, Visiting, WalkIsSafe
    <2>2. queue' \in [Desc -> 0 .. MaxQueue]
        BY <1>0, <1>10, <2>1, Counters DEF Line, Ready, Served
    <2>3. wait' \in [Desc -> 0 .. MaxWait]
        BY <1>0, <1>10, <2>1 DEF Line, TypeOK
    <2> QED
        BY <1>0, <1>1, <1>10, <2>1, <2>2, <2>3
        DEF Line, Ready, Visiting, GoOn, links, TypeOK, WalkIsSafe, OneWalk, Walks
<1>11. CASE PurgeLinks
    <2>1. point \in live /\ point \in Desc /\ next[point] \in live \cup {None}
        BY <1>0, <1>11 DEF PurgeLinks, Ready, Visiting, WalkIsSafe
    <2>2. queue' \in [Desc -> 0 .. MaxQueue] /\ wait' \in [Desc -> 0 .. MaxWait]
        BY <1>0, <1>11, <2>1, Counters DEF PurgeLinks, Ready, Served
    <2> QED
        BY <1>0, <1>1, <1>11, <2>1, <2>2
        DEF PurgeLinks, links, TypeOK, WalkIsSafe, OneWalk, Walks
<1>12. ASSUME NEW walk \in Walks, Lose(walk) PROVE LoopInv'
    <2>1. point \in live /\ point \in Desc /\ next_to_process \in live \cup {None}
        BY <1>0, <1>12 DEF Lose, Visiting, WalkIsSafe
    <2>2. queue' \in [Desc -> 0 .. MaxQueue] /\ wait' \in [Desc -> 0 .. MaxWait]
        BY <1>0, <1>12, <2>1, Counters DEF Lose, Flush
    <2>3. CloseSocket(point, next_to_process)
        BY <1>12 DEF Lose
    <2> QED
        BY <1>0, <1>12, <2>1, <2>2, <2>3, CloseStep
        DEF LoopInv, Lose, Visiting, TypeOK, OneWalk, WalkIsSafe, Walks
<1>13. ASSUME walker \in live, phase \in {"evict", "purge"},
              CloseSocket(walker, next_to_process), Flush(walker),
              UNCHANGED <<phase, point, walker>>
       PROVE  LoopInv'
    <2>1. walker \in live /\ walker \in Desc /\ next_to_process \in live \cup {None}
        BY <1>0, <1>13 DEF WalkIsSafe
    <2>2. queue' \in [Desc -> 0 .. MaxQueue] /\ wait' \in [Desc -> 0 .. MaxWait]
        BY <1>0, <1>13, <2>1, Counters DEF Flush
    <2>3. point = None
        BY <1>0, <1>13 DEF OneWalk, Walks
    <2>4. TypeOK' /\ Linked' /\ ListIsLive'
        BY <1>0, <1>13, <2>1, <2>2, <2>3, CloseStep DEF LoopInv, TypeOK
    <2>5. WalkIsSafe'
        BY <1>13, <2>1, <2>2, <2>3, CloseStep DEF WalkIsSafe
    <2>6. OneWalk'
        BY <1>0, <1>13 DEF OneWalk
    <2> QED
        BY <2>4, <2>5, <2>6 DEF LoopInv
<1>14. CASE EvictOn \/ PurgeOn
    <2>1. walker \in Desc /\ next[walker] \in live \cup {None}
        BY <1>0, <1>14 DEF EvictOn, PurgeOn, WalkIsSafe, TypeOK
    <2> QED
        BY <1>0, <1>1, <1>14, <2>1
        DEF EvictOn, PurgeOn, links, lines, TypeOK, WalkIsSafe, OneWalk, Walks
<1>18. CASE FreedLost
    <2>1. TypeOK' /\ Linked' /\ OneWalk' /\ WalkIsSafe'
        BY <1>18 DEF FreedLost, TypeOK, Linked, OneWalk, WalkIsSafe, Walks
    <2>2. ListIsLive'
        BY <1>18 DEF FreedLost, ListIsLive, Before
    <2> QED
        BY <2>1, <2>2 DEF LoopInv
<1>15. CASE CloseSockets
    <2>1. descriptor_list \in live /\ next_to_process \in live \cup {None}
        BY <1>0, <1>15 DEF CloseSockets, WalkIsSafe
    <2>2. queue' \in [Desc -> 0 .. MaxQueue] /\ wait' \in [Desc -> 0 .. MaxWait]
        BY <1>0, <1>15, <2>1, Counters DEF CloseSockets, Flush
    <2>3. CloseSocket(descriptor_list, next_to_process)
        BY <1>15 DEF CloseSockets
    <2> QED
        BY <1>0, <1>15, <2>1, <2>2, <2>3, CloseStep
        DEF LoopInv, CloseSockets, TypeOK, OneWalk, WalkIsSafe, Walks
<1>16. ASSUME NEW d \in Desc, LineCloses(d) PROVE LoopInv'
    <2>1. /\ point \in live /\ point \in Desc /\ next[point] \in live \cup {None}
          /\ d \in live /\ queue[point] > 0
        BY <1>0, <1>16 DEF LineCloses, Ready, Visiting, WalkIsSafe
    <2>2. queue' \in [Desc -> 0 .. MaxQueue] /\ wait' \in [Desc -> 0 .. MaxWait]
        BY <1>0, <1>16, <2>1, Counters DEF LineCloses, TypeOK
    <2>3. CloseSocket(d, next[point])
        BY <1>16 DEF LineCloses
    <2> QED
        BY <1>0, <1>16, <2>1, <2>2, <2>3, CloseStep
        DEF LoopInv, LineCloses, Ready, Visiting, GoOn, TypeOK, OneWalk, WalkIsSafe, Walks
<1>17. CASE UNCHANGED vars
    BY <1>0, <1>1, <1>17 DEF vars, links, lines, TypeOK, WalkIsSafe, OneWalk
<1> QED
    BY <1>2, <1>3, <1>4, <1>5, <1>6, <1>7, <1>8, <1>9, <1>10, <1>11, <1>12, <1>13, <1>14,
       <1>15, <1>16, <1>17, <1>18
    DEF Loop, Walks, Evict, Purge

\* From now on LoopInv is known to hold.
LEMMA LoopInvHolds == Spec => []LoopInv
BY InitLoop, StepLoop, PTL DEF Spec

\* Every variable of the game loop keeps its type, for any number of connections
\* and any bounds.
THEOREM LoopTypeCorrect == Spec => []TypeOK
<1>1. LoopInv => TypeOK
    BY DEF LoopInv
<1> QED
    BY <1>1, LoopInvHolds, PTL

\* Whichever connections break, quit, idle out, are disconnected, evicted or
\* purged, game_loop's own pointers never lead to a freed descriptor, and the
\* loops that evict and purge hold only the one they have just closed, whose
\* memory, as long as it is there, leads back into the list.
THEOREM WalksAreSafe == Spec => []WalkIsSafe
<1>1. LoopInv => WalkIsSafe
    BY DEF LoopInv
<1> QED
    BY <1>1, LoopInvHolds, PTL

\* descriptor_list holds every descriptor in use and no other one.
THEOREM ListIsAlwaysLive == Spec => []ListIsLive
<1>1. LoopInv => ListIsLive
    BY DEF LoopInv
<1> QED
    BY <1>1, LoopInvHolds, PTL

-----------------------------------------------------------------------------
(* Nobody is skipped.                                                      *)

LEMMA BeforeIsLive ==
    ASSUME LoopInv, NEW x \in live
    PROVE  Before(x) \subseteq live
<1>1. x \in Desc /\ live \in SUBSET Desc
    BY DEF LoopInv, TypeOK
<1>2. Closed(live)
    BY <1>1 DEF LoopInv, TypeOK, Linked, Closed
<1> QED
    BY <1>1, <1>2, InBefore

\* The same as UnlinkBefore, at the end of the list too.
LEMMA CloseBefore ==
    ASSUME LoopInv, NEW d \in live, Unlink(d),
           NEW x \in live \cup {None}, x # d
    PROVE  Before(x)' = Before(x) \ {d}
<1>1. CASE x = None
    BY <1>1 DEF Before
<1>2. CASE x \in live
    <2>1. d \in Desc /\ next[d] # d
        BY NoCycle DEF LoopInv, TypeOK
    <2> QED
        BY <1>2, <2>1, UnlinkBefore DEF LoopInv
<1> QED
    BY <1>1, <1>2

LEMMA TurnClosing ==
    ASSUME LoopInv, point \in live, NEW d \in live, Unlink(d),
           point' = IF next[point] = d THEN next[d] ELSE next[point]
    PROVE  Before(point)' = (Before(point) \ {point}) \cap live'
<1> USE LoopAssumption
<1>1. /\ point \in Desc /\ d \in Desc
      /\ next[point] \in live \cup {None} /\ next[d] \in live \cup {None}
      /\ next[d] # d
    BY NoCycle DEF LoopInv, TypeOK, Linked
<1>2. live' = live \ {d}
    BY DEF Unlink
<1>3. Before(next[point]) = Before(point) \ {point} /\ Before(point) \subseteq live
    BY StepOn, BeforeIsLive DEF LoopInv
<1>4. PICK x \in live \cup {None} : x = point'
    BY <1>1
<1>5. Before(point)' = Before(x)'
    BY <1>4 DEF Before
<1>6. x # d
    BY <1>1, <1>4
<1>7. Before(x)' = Before(x) \ {d}
    BY <1>6, CloseBefore
<1>8. Before(x) \ {d} = Before(next[point]) \ {d}
    <2>1. CASE next[point] = d
        BY <1>4, <2>1, StepOn DEF LoopInv
    <2>2. CASE next[point] # d
        BY <1>4, <2>2
    <2> QED
        BY <2>1, <2>2
<1> QED
    BY <1>2, <1>3, <1>5, <1>7, <1>8

LEMMA TurnPassing ==
    ASSUME LoopInv, point \in live, UNCHANGED <<live, next>>, point' = next[point]
    PROVE  Before(point)' = (Before(point) \ {point}) \cap live'
<1>1. Before(next[point]) = Before(point) \ {point} /\ Before(point) \subseteq live
    BY StepOn, BeforeIsLive DEF LoopInv
<1>2. Before(point)' = Before(next[point])
    BY DEF Before
<1> QED
    BY <1>1, <1>2

LEMMA StepSkipsNobody ==
    ASSUME LoopInv, Loop, phase \in Walks, phase' = phase, point # None
    PROVE  Before(point)' = (Before(point) \ {point}) \cap live'
<1> USE LoopAssumption
<1>0. point \in live /\ point \in Desc /\ next[point] # point
    BY NoCycle DEF LoopInv, TypeOK, WalkIsSafe
<1>1. CASE \/ \E walk \in Walks : Pass(walk)
           \/ ProcessInput \/ Stunned \/ NotReady \/ Line
    BY <1>0, <1>1, TurnPassing DEF Pass, ProcessInput, Stunned, NotReady, Line, GoOn, links
<1>2. ASSUME NEW walk \in Walks, Lose(walk)
      PROVE  Before(point)' = (Before(point) \ {point}) \cap live'
    BY <1>0, <1>2, TurnClosing DEF Lose, CloseSocket
<1>3. ASSUME NEW d \in Desc, LineCloses(d)
      PROVE  Before(point)' = (Before(point) \ {point}) \cap live'
    BY <1>0, <1>3, TurnClosing DEF LineCloses, CloseSocket, GoOn
<1> QED
    BY <1>1, <1>2, <1>3
    DEF Loop, Walks, NoConnection, GameFull, Evict, EvictOn, EvictEnds, NewDescriptor,
        WalkEnds, HeartbeatEnds, PurgeLinks, Purge, PurgeOn, PurgeEnds, FreedLost, Shutdown,
        CloseSockets, Reboot

\* In every pass every connection gets its turn, once: a turn of a loop leaves
\* exactly those that come after it and have not been closed meanwhile.
THEOREM NobodyIsSkipped == Spec => NobodySkipped
<1> DEFINE Turn ==
        phase \in Walks /\ phase' = phase /\ point # None
          => Before(point)' = (Before(point) \ {point}) \cap live'
<1>1. LoopInv /\ [Loop]_vars => [Turn]_vars
    <2>1. CASE UNCHANGED vars
        BY <2>1
    <2>2. CASE Loop
        BY <2>2, StepSkipsNobody
    <2> QED
        BY <2>1, <2>2
<1> QED
    BY <1>1, LoopInvHolds, PTL DEF Spec, NobodySkipped

-----------------------------------------------------------------------------
(* Rent: lists.                                                            *)

LEMMA ToSetType ==
    ASSUME NEW X, NEW s \in Seq(X)
    PROVE  ToSet(s) \subseteq X /\ \A x : x \in ToSet(s) <=> \E i \in 1..Len(s) : s[i] = x
BY DEF ToSet

LEMMA EmptyList == ToSet(<<>>) = {} /\ IsInjective(<<>>)
BY DEF ToSet, IsInjective

\* An object is put at the head of a list.
LEMMA ConsList ==
    ASSUME NEW X, NEW s \in Seq(X), NEW x \in X
    PROVE  /\ <<x>> \o s \in Seq(X)
           /\ ToSet(<<x>> \o s) = ToSet(s) \cup {x}
           /\ IsInjective(s) /\ x \notin ToSet(s) => IsInjective(<<x>> \o s)
<1> DEFINE t == <<x>> \o s
<1>1. t \in Seq(X) /\ Len(t) = Len(s) + 1 /\ t[1] = x /\ \A i \in 1..Len(s) : t[i + 1] = s[i]
  OBVIOUS
<1> HIDE DEF t
<1>2. \A i \in 1..Len(t) : i = 1 \/ (i - 1 \in 1..Len(s) /\ t[i] = s[i - 1])
  <2> SUFFICES ASSUME NEW i \in 1..Len(t), i # 1 PROVE i - 1 \in 1..Len(s) /\ t[i] = s[i - 1]
    OBVIOUS
  <2>1. i - 1 \in 1..Len(s)
    BY <1>1
  <2> QED
    BY <1>1, <2>1
<1>3. ToSet(t) = ToSet(s) \cup {x}
  <2>1. ASSUME NEW y \in ToSet(s) PROVE y \in ToSet(t)
    <3>1. PICK i \in 1..Len(s) : s[i] = y
      BY <2>1, ToSetType
    <3>2. i + 1 \in 1..Len(t) /\ t[i + 1] = y
      BY <1>1, <3>1
    <3> QED
      BY <1>1, <3>2, ToSetType
  <2>2. x \in ToSet(t)
    <3>1. 1 \in 1..Len(t)
      BY <1>1
    <3> QED
      BY <1>1, <3>1, ToSetType
  <2>3. ASSUME NEW y \in ToSet(t), y # x PROVE y \in ToSet(s)
    <3>1. PICK i \in 1..Len(t) : t[i] = y
      BY <1>1, <2>3, ToSetType
    <3>2. i - 1 \in 1..Len(s) /\ s[i - 1] = y
      BY <1>1, <1>2, <2>3, <3>1
    <3> QED
      BY <3>2, ToSetType
  <2> QED
    BY <2>1, <2>2, <2>3
<1>4. ASSUME IsInjective(s), x \notin ToSet(s) PROVE IsInjective(t)
  <2> SUFFICES ASSUME NEW i \in 1..Len(t), NEW j \in 1..Len(t), t[i] = t[j] PROVE i = j
    BY <1>1 DEF IsInjective
  <2>0. \A k \in 1..Len(s) : s[k] # x
    BY <1>4, ToSetType
  <2>1. CASE i = 1 \/ j = 1
    BY <1>1, <1>2, <2>0, <2>1
  <2>2. CASE i # 1 /\ j # 1
    <3>1. i - 1 \in 1..Len(s) /\ j - 1 \in 1..Len(s) /\ s[i - 1] = s[j - 1]
      BY <1>2, <2>2
    <3>2. i - 1 = j - 1
      BY <1>4, <3>1 DEF IsInjective
    <3> QED
      BY <3>2
  <2> QED
    BY <2>1, <2>2
<1> QED
  BY <1>1, <1>3, <1>4 DEF t

\* The first occurrence of an object is unlinked.
LEMMA UnlinkList ==
    ASSUME NEW X, NEW s \in Seq(X), NEW x, IsInjective(s)
    PROVE  /\ RemoveFirst(s, x) \in Seq(X)
           /\ ToSet(RemoveFirst(s, x)) = ToSet(s) \ {x}
           /\ IsInjective(RemoveFirst(s, x))
<1>1. CASE x \notin ToSet(s)
  <2>1. RemoveFirst(s, x) = s
    BY <1>1, ToSetType DEF RemoveFirst
  <2> QED
    BY <1>1, <2>1
<1>2. CASE x \in ToSet(s)
  <2>1. PICK k \in 1..Len(s) : s[k] = x
    BY <1>2, ToSetType
  <2>2. {i \in 1..Len(s) : s[i] = x} = {k}
    BY <2>1 DEF IsInjective
  <2>3. SelectInSeq(s, LAMBDA v : v = x) = k
    <3>1. Min({k}) = k
      BY <2>1 DEF Min
    <3> QED
      BY <2>2, <3>1 DEF SelectInSeq
  <2>4. RemoveFirst(s, x) = SubSeq(s, 1, k - 1) \o SubSeq(s, k + 1, Len(s))
    BY <2>1, <2>3 DEF RemoveFirst, RemoveAt
  <2> DEFINE t == SubSeq(s, 1, k - 1) \o SubSeq(s, k + 1, Len(s))
             n == Len(s)
  <2>5. /\ t \in Seq(X) /\ Len(t) = n - 1
        /\ \A i \in 1..(n - 1) : t[i] = IF i < k THEN s[i] ELSE s[i + 1]
    <3>1. SubSeq(s, 1, k - 1) \in Seq(X) /\ Len(SubSeq(s, 1, k - 1)) = k - 1
          /\ \A i \in 1..(k - 1) : SubSeq(s, 1, k - 1)[i] = s[i]
      OBVIOUS
    <3>2. SubSeq(s, k + 1, n) \in Seq(X) /\ Len(SubSeq(s, k + 1, n)) = n - k
          /\ \A i \in 1..(n - k) : SubSeq(s, k + 1, n)[i] = s[i + k]
      OBVIOUS
    <3> QED
      <4> DEFINE a == SubSeq(s, 1, k - 1)
                 b == SubSeq(s, k + 1, n)
      <4>1. a \in Seq(X) /\ b \in Seq(X) /\ Len(a) = k - 1 /\ Len(b) = n - k /\ n \in Nat
            /\ (\A i \in 1..(k - 1) : a[i] = s[i]) /\ \A i \in 1..(n - k) : b[i] = s[i + k]
        BY <3>1, <3>2
      <4> HIDE DEF a, b
      <4>2. a \o b \in Seq(X) /\ Len(a \o b) = n - 1
        <5>0. a \in Seq(X) /\ b \in Seq(X)
          BY <4>1
        <5>1. a \o b \in Seq(X) /\ Len(a \o b) = Len(a) + Len(b)
          BY <5>0
        <5>2. (k - 1) + (n - k) = n - 1
          BY <4>1
        <5> QED
          BY <4>1, <5>1, <5>2
      <4>3. ASSUME NEW i \in 1..(n - 1)
            PROVE  (a \o b)[i] = IF i < k THEN s[i] ELSE s[i + 1]
        <5>1. CASE i < k
          BY <4>1, <5>1
        <5>2. CASE ~ (i < k)
          <6>1. (a \o b)[i] = b[i - (k - 1)] /\ i - (k - 1) \in 1..(n - k)
            BY <4>1, <5>2
          <6>2. (i - (k - 1)) + k = i + 1
            OBVIOUS
          <6> QED
            BY <4>1, <5>2, <6>1, <6>2
        <5> QED
          BY <5>1, <5>2
      <4> QED
        BY <4>2, <4>3 DEF a, b
  <2> HIDE DEF t
  <2>6. \A i \in 1..(n - 1) : \E j \in 1..n : j # k /\ t[i] = s[j] /\ j = IF i < k THEN i ELSE i + 1
    BY <2>5
  <2>7. \A j \in 1..n : j # k => \E i \in 1..(n - 1) : t[i] = s[j]
    <3> SUFFICES ASSUME NEW j \in 1..n, j # k PROVE \E i \in 1..(n - 1) : t[i] = s[j]
      OBVIOUS
    <3>1. CASE j < k
      BY <2>5, <3>1
    <3>2. CASE j > k
      <4>1. j - 1 \in 1..(n - 1) /\ ~(j - 1 < k) /\ (j - 1) + 1 = j
        BY <3>2
      <4> QED
        BY <2>5, <4>1
    <3> QED
      BY <3>1, <3>2
  <2>8. ToSet(t) = ToSet(s) \ {x}
    <3>1. ASSUME NEW y \in ToSet(t) PROVE y \in ToSet(s) /\ y # x
      BY SMTT(30), <2>1, <2>5, <2>6, <3>1, ToSetType DEF IsInjective
    <3>2. ASSUME NEW y \in ToSet(s), y # x PROVE y \in ToSet(t)
      BY SMTT(30), <2>1, <2>5, <2>7, <3>2, ToSetType
    <3> QED
      BY <3>1, <3>2
  <2>9. IsInjective(t)
    <3> SUFFICES ASSUME NEW i \in 1..(n - 1), NEW j \in 1..(n - 1), t[i] = t[j] PROVE i = j
      BY <2>5 DEF IsInjective
    <3> QED
      BY <2>6 DEF IsInjective
  <2> QED
    BY <2>4, <2>5, <2>8, <2>9 DEF t
<1> QED
  BY <1>1, <1>2

\* Two lists one after the other.
LEMMA ConcatList ==
    ASSUME NEW X, NEW s \in Seq(X), NEW t \in Seq(X)
    PROVE  /\ s \o t \in Seq(X)
           /\ ToSet(s \o t) = ToSet(s) \cup ToSet(t)
           /\ IsInjective(s) /\ IsInjective(t) /\ ToSet(s) \cap ToSet(t) = {} => IsInjective(s \o t)
<1> DEFINE u == s \o t
           m == Len(s)
           n == Len(t)
<1>1. /\ u \in Seq(X) /\ Len(u) = m + n /\ m \in Nat /\ n \in Nat
      /\ \A i \in 1..m : u[i] = s[i]
      /\ \A i \in 1..n : u[m + i] = t[i]
  OBVIOUS
<1> HIDE DEF u
<1>2. \A i \in 1..Len(u) : (i \in 1..m /\ u[i] = s[i]) \/ (i - m \in 1..n /\ u[i] = t[i - m])
  <2> SUFFICES ASSUME NEW i \in 1..Len(u), i \notin 1..m PROVE i - m \in 1..n /\ u[i] = t[i - m]
    BY <1>1
  <2>1. i - m \in 1..n /\ m + (i - m) = i
    BY <1>1
  <2> QED
    BY <1>1, <2>1
<1>3. ToSet(u) = ToSet(s) \cup ToSet(t)
  <2>1. ASSUME NEW y \in ToSet(s) PROVE y \in ToSet(u)
    <3>1. PICK i \in 1..m : s[i] = y
      BY <2>1, ToSetType
    <3>2. i \in 1..Len(u) /\ u[i] = y
      BY <1>1, <3>1
    <3> QED
      BY <1>1, <3>2, ToSetType
  <2>2. ASSUME NEW y \in ToSet(t) PROVE y \in ToSet(u)
    <3>1. PICK i \in 1..n : t[i] = y
      BY <2>2, ToSetType
    <3>2. m + i \in 1..Len(u) /\ u[m + i] = y
      BY <1>1, <3>1
    <3> QED
      BY <1>1, <3>2, ToSetType
  <2>3. ASSUME NEW y \in ToSet(u) PROVE y \in ToSet(s) \cup ToSet(t)
    BY <1>1, <1>2, <2>3, ToSetType
  <2> QED
    BY <2>1, <2>2, <2>3
<1>4. ASSUME IsInjective(s), IsInjective(t), ToSet(s) \cap ToSet(t) = {} PROVE IsInjective(u)
  <2> SUFFICES ASSUME NEW i \in 1..Len(u), NEW j \in 1..Len(u), u[i] = u[j] PROVE i = j
    BY <1>1 DEF IsInjective
  <2>0. \A k \in 1..m, l \in 1..n : s[k] # t[l]
    BY <1>4, ToSetType
  <2>1. CASE i \in 1..m /\ j \in 1..m
    BY <1>1, <1>4, <2>1 DEF IsInjective
  <2>2. CASE i \notin 1..m /\ j \notin 1..m
    <3>1. i - m \in 1..n /\ j - m \in 1..n /\ t[i - m] = t[j - m]
      BY <1>2, <2>2
    <3>2. i - m = j - m
      BY <1>4, <3>1 DEF IsInjective
    <3> QED
      BY <1>1, <3>2
  <2> QED
    BY <1>2, <2>0, <2>1, <2>2
<1> QED
  BY <1>1, <1>3, <1>4 DEF u

LEMMA ReverseList ==
    ASSUME NEW X, NEW s \in Seq(X)
    PROVE  /\ Reverse(s) \in Seq(X) /\ ToSet(Reverse(s)) = ToSet(s)
           /\ IsInjective(s) => IsInjective(Reverse(s))
<1> DEFINE t == Reverse(s)
           n == Len(s)
<1>1. /\ t \in Seq(X) /\ Len(t) = n /\ n \in Nat
      /\ \A i \in 1..n : t[i] = s[(n - i) + 1]
  BY DEF Reverse
<1> HIDE DEF t
<1>2. ToSet(t) = ToSet(s)
  <2>1. ASSUME NEW y \in ToSet(s) PROVE y \in ToSet(t)
    <3>1. PICK i \in 1..n : s[i] = y
      BY <2>1, ToSetType
    <3>2. (n - i) + 1 \in 1..n /\ (n - ((n - i) + 1)) + 1 = i
      BY <1>1
    <3>3. t[(n - i) + 1] = y
      BY <1>1, <3>1, <3>2
    <3> QED
      BY <1>1, <3>2, <3>3, ToSetType
  <2>2. ASSUME NEW y \in ToSet(t) PROVE y \in ToSet(s)
    <3>1. PICK i \in 1..n : t[i] = y
      BY <1>1, <2>2, ToSetType
    <3>2. (n - i) + 1 \in 1..n /\ s[(n - i) + 1] = y
      BY <1>1, <3>1
    <3> QED
      BY <3>2, ToSetType
  <2> QED
    BY <2>1, <2>2
<1>3. ASSUME IsInjective(s) PROVE IsInjective(t)
  <2> SUFFICES ASSUME NEW i \in 1..n, NEW j \in 1..n, t[i] = t[j] PROVE i = j
    <3>1. DOMAIN t = 1..n
      BY <1>1
    <3> QED
      BY <3>1 DEF IsInjective
  <2>1. (n - i) + 1 \in 1..n /\ (n - j) + 1 \in 1..n /\ s[(n - i) + 1] = s[(n - j) + 1]
    BY <1>1
  <2>2. (n - i) + 1 = (n - j) + 1
    BY <1>3, <2>1 DEF IsInjective
  <2> QED
    BY <1>1, <2>2
<1> QED
  BY <1>1, <1>2, <1>3 DEF t

-----------------------------------------------------------------------------
(* The forest.                                                             *)

Inside(w, c) == ToSet(w.contains[c])
Top(w) == w.floor \cup Carried(w) \cup Worn(w)

\* Nothing is in two places, or twice in one.
One(w) ==
    /\ w.floor \cap (Carried(w) \cup Worn(w)) = {} /\ Carried(w) \cap Worn(w) = {}
    /\ \A p, q \in WearPos : w.worn[p] = w.worn[q] /\ w.worn[p] # Nothing => p = q
    /\ \A c \in Objs : Inside(w, c) \cap Top(w) = {}
    /\ \A c, d \in Objs : c # d => Inside(w, c) \cap Inside(w, d) = {}
    /\ IsInjective(w.carrying)
    /\ \A c \in Objs : IsInjective(w.contains[c])

\* Nothing is inside itself, however deep: no set of objects has each of its
\* objects inside another one.
Founded(w) ==
    \A S \in SUBSET Objs : (\A o \in S : \E c \in S : o \in Inside(w, c)) => S = {}

Forest(w) == w \in Worlds /\ One(w) /\ Founded(w)

LEMMA WorldSets ==
    ASSUME NEW w \in Worlds
    PROVE  /\ Carried(w) \subseteq Objs /\ Worn(w) \subseteq Objs /\ Top(w) \subseteq Objs
           /\ \A c \in Objs : Inside(w, c) \subseteq Objs
           /\ Nothing \notin Top(w) /\ \A c \in Objs : Nothing \notin Inside(w, c)
<1>1. w.carrying \in Seq(Objs) /\ w.worn \in [WearPos -> Objs \cup {Nothing}]
      /\ w.contains \in [Objs -> Seq(Objs)] /\ w.floor \subseteq Objs
  BY DEF Worlds
<1>2. Carried(w) \subseteq Objs
  BY <1>1, ToSetType DEF Carried
<1>3. Worn(w) \subseteq Objs
  BY <1>1 DEF Worn
<1>4. \A c \in Objs : Inside(w, c) \subseteq Objs
  BY <1>1, ToSetType DEF Inside
<1> QED
  BY <1>1, <1>2, <1>3, <1>4, RentAssumption DEF Top

LEMMA InWorldIs ==
    ASSUME NEW w \in Worlds
    PROVE  \A o : o \in InWorld(w) <=> o \in Objs /\ (o \in Top(w) \/ \E c \in Objs : o \in Inside(w, c))
<1> SUFFICES ASSUME NEW o \in Objs
             PROVE  Places(w, o) # {} <=> (o \in Top(w) \/ \E c \in Objs : o \in Inside(w, c))
  BY DEF InWorld
<1>1. o \in Worn(w) <=> \E p \in WearPos : w.worn[p] = o
  BY RentAssumption DEF Worn
<1>2. Places(w, o) # {} => (o \in Top(w) \/ \E c \in Objs : o \in Inside(w, c))
  BY <1>1 DEF Places, Top, Inside
<1>3. o \in w.floor \/ o \in Carried(w) => Places(w, o) # {}
  BY DEF Places
<1>4. o \in Worn(w) => Places(w, o) # {}
  BY <1>1 DEF Places
<1>5. (\E c \in Objs : o \in Inside(w, c)) => Places(w, o) # {}
  BY DEF Places, Inside
<1> QED
  BY <1>2, <1>3, <1>4, <1>5 DEF Top

\* Where an object is, if it is in one place.
LEMMA PlaceIs ==
    ASSUME NEW w \in Worlds, One(w), NEW o \in Objs
    PROVE  /\ o \in w.floor => Places(w, o) = {<<"floor">>}
           /\ o \in Carried(w) => Places(w, o) = {<<"carried">>}
           /\ \A p \in WearPos : w.worn[p] = o => Places(w, o) = {<<"worn", p>>}
           /\ \A c \in Objs : o \in Inside(w, c) => Places(w, o) = {<<"in", c>>}
<1>0. o # Nothing
  BY RentAssumption
<1>1. o \in Worn(w) <=> \E p \in WearPos : w.worn[p] = o
  BY <1>0 DEF Worn
<1> DEFINE F == {<<"floor">> : x \in w.floor \cap {o}}
           C == {<<"carried">> : x \in Carried(w) \cap {o}}
           W == {<<"worn", p>> : p \in {q \in WearPos : w.worn[q] = o}}
           I == {<<"in", c>> : c \in {d \in Objs : o \in Inside(w, d)}}
<1>2. Places(w, o) = F \cup C \cup W \cup I
  BY DEF Places, Inside
<1>3. (o \notin w.floor => F = {}) /\ (o \in w.floor => F = {<<"floor">>})
  OBVIOUS
<1>4. (o \notin Carried(w) => C = {}) /\ (o \in Carried(w) => C = {<<"carried">>})
  OBVIOUS
<1>5. o \notin Worn(w) => W = {}
  BY <1>1
<1>6. (\A d \in Objs : o \notin Inside(w, d)) => I = {}
  OBVIOUS
<1>7. ASSUME NEW p \in WearPos, w.worn[p] = o PROVE W = {<<"worn", p>>}
  <2>1. {q \in WearPos : w.worn[q] = o} = {p}
    BY <1>0, <1>7 DEF One
  <2> QED
    BY <2>1
<1>8. ASSUME NEW c \in Objs, o \in Inside(w, c) PROVE I = {<<"in", c>>}
  <2>1. {d \in Objs : o \in Inside(w, d)} = {c}
    BY <1>8 DEF One
  <2> QED
    BY <2>1
<1> HIDE DEF F, C, W, I
<1>9. ASSUME o \in w.floor PROVE Places(w, o) = {<<"floor">>}
  BY <1>2, <1>3, <1>4, <1>5, <1>6, <1>9 DEF One, Top
<1>10. ASSUME o \in Carried(w) PROVE Places(w, o) = {<<"carried">>}
  BY <1>2, <1>3, <1>4, <1>5, <1>6, <1>10 DEF One, Top
<1>11. ASSUME NEW p \in WearPos, w.worn[p] = o PROVE Places(w, o) = {<<"worn", p>>}
  BY <1>1, <1>2, <1>3, <1>4, <1>6, <1>7, <1>11 DEF One, Top
<1>12. ASSUME NEW c \in Objs, o \in Inside(w, c) PROVE Places(w, o) = {<<"in", c>>}
  BY <1>2, <1>3, <1>4, <1>5, <1>8, <1>12 DEF One, Top
<1> QED
  BY <1>9, <1>10, <1>11, <1>12

LEMMA WornPlace ==
    ASSUME NEW w \in Worlds, One(w), NEW o \in Objs, NEW p \in WearPos, w.worn[p] = o
    PROVE  Places(w, o) = {<<"worn", p>>}
<1>1. \A q \in WearPos : w.worn[q] = o => Places(w, o) = {<<"worn", q>>}
  BY PlaceIs
<1> QED
  BY <1>1

LEMMA OnePlace ==
    ASSUME NEW w \in Worlds, One(w), NEW o \in Objs
    PROVE  Cardinality(Places(w, o)) <= 1
<1>1. CASE o \notin InWorld(w)
  <2>1. Places(w, o) = {}
    BY <1>1 DEF InWorld
  <2> QED
    BY <2>1, FS_EmptySet
<1>2. CASE o \in InWorld(w)
  <2>1. o \in w.floor \/ o \in Carried(w) \/ o \in Worn(w) \/ \E c \in Objs : o \in Inside(w, c)
    BY <1>2, InWorldIs DEF Top
  <2>2. o \in Worn(w) => \E p \in WearPos : w.worn[p] = o
    BY DEF Worn
  <2>3. PICK x : Places(w, o) = {x}
    BY <2>1, <2>2, PlaceIs
  <2>4. Cardinality({x}) = 1
    BY FS_Singleton
  <2> QED
    BY <2>3, <2>4
<1> QED
  BY <1>1, <1>2

\* A world whose objects hold no more than they did.
LEMMA FoundedLess ==
    ASSUME NEW w, NEW v, Founded(w), \A c \in Objs : Inside(v, c) \subseteq Inside(w, c)
    PROVE  Founded(v)
BY DEF Founded

-----------------------------------------------------------------------------
(* Held.                                                                   *)

LEMMA WithinIs ==
    ASSUME NEW w \in Worlds, NEW S \in SUBSET Objs
    PROVE  /\ S \subseteq Within(w, S) /\ Within(w, S) \subseteq Objs
           /\ \A c \in Within(w, S) : Inside(w, c) \subseteq Within(w, S)
           /\ \A T \in SUBSET Objs : S \subseteq T /\ (\A c \in T : Inside(w, c) \subseteq T)
                => Within(w, S) \subseteq T
<1>1. \A c \in Objs : Inside(w, c) \subseteq Objs
  BY WorldSets
<1> DEFINE closed == {T \in SUBSET Objs : S \subseteq T /\ \A c \in T : Inside(w, c) \subseteq T}
<1>2. Within(w, S) = {o \in Objs : \A T \in closed : o \in T}
  BY DEF Within, Inside
<1> QED
  BY <1>1, <1>2

LEMMA HeldIs ==
    ASSUME NEW w \in Worlds
    PROVE  /\ Carried(w) \cup Worn(w) \subseteq Held(w) /\ Held(w) \subseteq Objs
           /\ \A c \in Held(w) : Inside(w, c) \subseteq Held(w)
           /\ \A T \in SUBSET Objs : Carried(w) \cup Worn(w) \subseteq T /\ (\A c \in T : Inside(w, c) \subseteq T)
                => Held(w) \subseteq T
BY WithinIs, WorldSets DEF Held

\* What is held is carried, worn, or inside something that is held.
LEMMA HeldIn ==
    ASSUME NEW w \in Worlds, NEW o \in Held(w), o \notin Carried(w) \cup Worn(w)
    PROVE  \E c \in Held(w) : o \in Inside(w, c)
<1> SUFFICES ASSUME \A c \in Held(w) : o \notin Inside(w, c) PROVE FALSE
  OBVIOUS
<1> DEFINE T == Held(w) \ {o}
<1>1. T \in SUBSET Objs /\ Carried(w) \cup Worn(w) \subseteq T
  BY HeldIs
<1>2. \A c \in T : Inside(w, c) \subseteq T
  BY HeldIs
<1> HIDE DEF T
<1>3. Held(w) \subseteq T
  BY <1>1, <1>2, HeldIs
<1> QED
  BY <1>3 DEF T

-----------------------------------------------------------------------------
(* What the commands do to the forest.                                     *)

LEMMA WorldFields ==
    ASSUME NEW w \in Worlds
    PROVE  /\ w.carrying \in Seq(Objs) /\ w.worn \in [WearPos -> Objs \cup {Nothing}]
           /\ w.contains \in [Objs -> Seq(Objs)] /\ w.floor \in SUBSET Objs /\ w.rotten \in SUBSET Objs
           /\ \A c \in Objs : w.contains[c] \in Seq(Objs)
BY DEF Worlds

LEMMA ForestFacts ==
    ASSUME NEW w, Forest(w)
    PROVE  /\ w \in Worlds /\ One(w) /\ Founded(w)
           /\ IsInjective(w.carrying) /\ \A c \in Objs : IsInjective(w.contains[c])
BY DEF Forest, One

\* An object lies on the floor that was nowhere before.
Loads(w, o, v) == v = [w EXCEPT !.floor = @ \cup {o}, !.contains[o] = <<>>, !.rotten = @ \ {o}]

LEMMA LoadForest ==
    ASSUME NEW w, Forest(w), NEW o \in Objs, o \notin InWorld(w), NEW v, Loads(w, o, v)
    PROVE  Forest(v) /\ InWorld(v) \subseteq InWorld(w) \cup {o}
<1>1. w \in Worlds /\ One(w) /\ Founded(w)
  BY DEF Forest
<1>2. /\ v.floor = w.floor \cup {o} /\ v.carrying = w.carrying /\ v.worn = w.worn
      /\ v.contains = [w.contains EXCEPT ![o] = <<>>] /\ v.rotten = w.rotten \ {o}
      /\ v \in Worlds
  <2>1. [w.contains EXCEPT ![o] = <<>>] \in [Objs -> Seq(Objs)]
    BY <1>1, WorldFields
  <2> QED
    BY <1>1, <2>1 DEF Loads, Worlds
<1>3. Carried(v) = Carried(w) /\ Worn(v) = Worn(w)
  BY <1>2 DEF Carried, Worn
<1>4. /\ Inside(v, o) = {} /\ \A c \in Objs : c # o => v.contains[c] = w.contains[c] /\ Inside(v, c) = Inside(w, c)
      /\ v.contains[o] = <<>>
  BY <1>1, <1>2, EmptyList, WorldFields DEF Inside
<1>5. o \notin Top(w) /\ \A c \in Objs : o \notin Inside(w, c)
  BY <1>1, InWorldIs
<1>6. One(v)
  BY <1>1, <1>2, <1>3, <1>4, <1>5, EmptyList DEF One, Top
<1>7. Founded(v)
  BY <1>1, <1>4, FoundedLess
<1>8. InWorld(v) \subseteq InWorld(w) \cup {o}
  <2> SUFFICES ASSUME NEW x \in InWorld(v), x # o PROVE x \in InWorld(w)
    OBVIOUS
  <2>1. x \in Objs /\ (x \in Top(v) \/ \E c \in Objs : x \in Inside(v, c))
    BY <1>2, InWorldIs
  <2>2. x \in Objs /\ (x \in Top(w) \/ \E c \in Objs : x \in Inside(w, c))
    BY <1>2, <1>3, <1>4, <2>1 DEF Top
  <2> QED
    BY <1>1, <2>2, InWorldIs
<1> QED
  BY <1>2, <1>6, <1>7, <1>8 DEF Forest

LoadsCorpse(w, c, o, v) ==
    v = [w EXCEPT !.floor = @ \cup {c}, !.contains[c] = <<o>>, !.contains[o] = <<>>, !.rotten = @ \ {c, o}]

LEMMA LoadInCorpseForest ==
    ASSUME NEW w, Forest(w), NEW c \in Objs, NEW o \in Objs, c # o, o \notin InWorld(w), c \notin InWorld(w),
           NEW v, LoadsCorpse(w, c, o, v)
    PROVE  Forest(v) /\ InWorld(v) \subseteq InWorld(w) \cup {c, o}
<1>1. w \in Worlds /\ One(w) /\ Founded(w)
  BY DEF Forest
<1>2. /\ v.floor = w.floor \cup {c} /\ v.carrying = w.carrying /\ v.worn = w.worn
      /\ v.contains = [w.contains EXCEPT ![c] = <<o>>, ![o] = <<>>] /\ v.rotten = w.rotten \ {c, o}
      /\ v \in Worlds
  <2>1. [w.contains EXCEPT ![c] = <<o>>, ![o] = <<>>] \in [Objs -> Seq(Objs)]
    <3>1. <<o>> \in Seq(Objs) /\ <<>> \in Seq(Objs) /\ w.contains \in [Objs -> Seq(Objs)]
      BY <1>1, WorldFields
    <3> QED
      BY <3>1
  <2> QED
    BY <1>1, <2>1 DEF LoadsCorpse, Worlds
<1>3. Carried(v) = Carried(w) /\ Worn(v) = Worn(w)
  BY <1>2 DEF Carried, Worn
<1>4. /\ Inside(v, o) = {} /\ Inside(v, c) = {o}
      /\ \A d \in Objs : d # o /\ d # c => v.contains[d] = w.contains[d] /\ Inside(v, d) = Inside(w, d)
      /\ v.contains[o] = <<>> /\ IsInjective(v.contains[c])
  <2>1. v.contains[o] = <<>> /\ v.contains[c] = <<o>>
    BY <1>1, <1>2, WorldFields
  <2>2. ToSet(<<o>>) = {o} /\ IsInjective(<<o>>)
    BY DEF ToSet, IsInjective
  <2> QED
    <3>1. \A d \in Objs : d # o /\ d # c => v.contains[d] = w.contains[d]
      BY <1>1, <1>2, WorldFields
    <3> QED
      BY <2>1, <2>2, <3>1, EmptyList DEF Inside
<1>5. /\ o \notin Top(w) /\ \A d \in Objs : o \notin Inside(w, d)
      /\ c \notin Top(w) /\ \A d \in Objs : c \notin Inside(w, d)
  BY <1>1, InWorldIs
<1>6. One(v)
  BY <1>1, <1>2, <1>3, <1>4, <1>5, EmptyList DEF One, Top
<1>7. Founded(v)
  <2> SUFFICES ASSUME NEW S \in SUBSET Objs, \A x \in S : \E d \in S : x \in Inside(v, d)
               PROVE  S = {}
    BY DEF Founded
  <2>1. c \notin S
    BY <1>4, <1>5
  <2>2. \A x \in S : \E d \in S : x \in Inside(w, d)
    BY <1>4, <2>1
  <2> QED
    BY <1>1, <2>2 DEF Founded
<1>8. InWorld(v) \subseteq InWorld(w) \cup {c, o}
  <2> SUFFICES ASSUME NEW x \in InWorld(v), x # o, x # c PROVE x \in InWorld(w)
    OBVIOUS
  <2>1. x \in Objs /\ (x \in Top(v) \/ \E d \in Objs : x \in Inside(v, d))
    BY <1>2, InWorldIs
  <2>2. x \in Objs /\ (x \in Top(w) \/ \E d \in Objs : x \in Inside(w, d))
    BY <1>2, <1>3, <1>4, <2>1 DEF Top
  <2> QED
    BY <1>1, <2>2, InWorldIs
<1> QED
  BY <1>2, <1>6, <1>7, <1>8 DEF Forest

LEMMA GetForest ==
    ASSUME NEW w, Forest(w), NEW o \in w.floor,
           NEW v, v = [w EXCEPT !.floor = @ \ {o}, !.carrying = <<o>> \o @]
    PROVE  Forest(v)
<1>1. w \in Worlds /\ One(w) /\ Founded(w) /\ o \in Objs
  BY WorldFields DEF Forest
<1>2. o \notin Carried(w) /\ o \notin Worn(w)
  BY <1>1 DEF One
<1>3. /\ <<o>> \o w.carrying \in Seq(Objs) /\ ToSet(<<o>> \o w.carrying) = Carried(w) \cup {o}
      /\ IsInjective(<<o>> \o w.carrying)
  BY <1>1, <1>2, ConsList, WorldFields DEF One, Carried
<1>4. /\ v.floor = w.floor \ {o} /\ v.carrying = <<o>> \o w.carrying /\ v.worn = w.worn
      /\ v.contains = w.contains /\ v.rotten = w.rotten
      /\ v \in Worlds
  BY <1>1, <1>3 DEF Worlds
<1>5. Carried(v) = Carried(w) \cup {o} /\ Worn(v) = Worn(w) /\ \A c \in Objs : Inside(v, c) = Inside(w, c)
  BY <1>3, <1>4 DEF Carried, Worn, Inside
<1>6. One(v)
  BY <1>1, <1>2, <1>3, <1>4, <1>5 DEF One, Top
<1>7. Founded(v)
  BY <1>1, <1>5, FoundedLess
<1> QED
  BY <1>4, <1>6, <1>7 DEF Forest

LEMMA GetFromForest ==
    ASSUME NEW w, Forest(w), NEW c \in Objs, NEW o \in Inside(w, c),
           NEW v, v = [w EXCEPT !.contains[c] = RemoveFirst(@, o), !.carrying = <<o>> \o @]
    PROVE  Forest(v)
<1>1. w \in Worlds /\ One(w) /\ Founded(w) /\ o \in Objs
  BY WorldSets DEF Forest
<1>2. o \notin Top(w) /\ \A d \in Objs : d # c => o \notin Inside(w, d)
  BY <1>1 DEF One
<1>3. /\ <<o>> \o w.carrying \in Seq(Objs) /\ ToSet(<<o>> \o w.carrying) = Carried(w) \cup {o}
      /\ IsInjective(<<o>> \o w.carrying)
  BY <1>1, <1>2, ConsList, WorldFields DEF One, Carried, Top
<1>4. /\ RemoveFirst(w.contains[c], o) \in Seq(Objs)
      /\ ToSet(RemoveFirst(w.contains[c], o)) = Inside(w, c) \ {o}
      /\ IsInjective(RemoveFirst(w.contains[c], o))
  BY <1>1, UnlinkList, WorldFields DEF One, Inside
<1>5. /\ v.floor = w.floor /\ v.carrying = <<o>> \o w.carrying /\ v.worn = w.worn
      /\ v.contains = [w.contains EXCEPT ![c] = RemoveFirst(w.contains[c], o)] /\ v.rotten = w.rotten
      /\ v \in Worlds
  BY <1>1, <1>3, <1>4 DEF Worlds
<1>6. Carried(v) = Carried(w) \cup {o} /\ Worn(v) = Worn(w)
  BY <1>3, <1>5 DEF Carried, Worn
<1>7. /\ Inside(v, c) = Inside(w, c) \ {o} /\ IsInjective(v.contains[c])
      /\ \A d \in Objs : d # c => v.contains[d] = w.contains[d] /\ Inside(v, d) = Inside(w, d)
  BY <1>1, <1>4, <1>5, WorldFields DEF Inside
<1>8. One(v)
  BY <1>1, <1>2, <1>3, <1>5, <1>6, <1>7 DEF One, Top
<1>9. Founded(v)
  BY <1>1, <1>7, FoundedLess
<1> QED
  BY <1>5, <1>8, <1>9 DEF Forest

LEMMA DropForest ==
    ASSUME NEW w, Forest(w), NEW o \in Carried(w),
           NEW v, v = [w EXCEPT !.floor = @ \cup {o}, !.carrying = RemoveFirst(@, o)]
    PROVE  Forest(v)
<1>1. w \in Worlds /\ One(w) /\ Founded(w) /\ o \in Objs
  BY WorldSets DEF Forest
<1>2. o \notin w.floor /\ o \notin Worn(w) /\ \A d \in Objs : o \notin Inside(w, d)
  BY <1>1 DEF One, Top
<1>3. /\ RemoveFirst(w.carrying, o) \in Seq(Objs)
      /\ ToSet(RemoveFirst(w.carrying, o)) = Carried(w) \ {o}
      /\ IsInjective(RemoveFirst(w.carrying, o))
  BY <1>1, UnlinkList, WorldFields DEF One, Carried
<1>4. /\ v.floor = w.floor \cup {o} /\ v.carrying = RemoveFirst(w.carrying, o) /\ v.worn = w.worn
      /\ v.contains = w.contains /\ v.rotten = w.rotten
      /\ v \in Worlds
  BY <1>1, <1>3 DEF Worlds
<1>5. Carried(v) = Carried(w) \ {o} /\ Worn(v) = Worn(w) /\ \A c \in Objs : Inside(v, c) = Inside(w, c)
  BY <1>3, <1>4 DEF Carried, Worn, Inside
<1>6. One(v)
  BY <1>1, <1>2, <1>3, <1>4, <1>5 DEF One, Top
<1>7. Founded(v)
  BY <1>1, <1>5, FoundedLess
<1> QED
  BY <1>4, <1>6, <1>7 DEF Forest

LEMMA PutForest ==
    ASSUME NEW w, Forest(w), NEW o \in Carried(w), NEW c \in Carried(w) \cup w.floor, o # c,
           NEW v, v = [w EXCEPT !.carrying = RemoveFirst(@, o), !.contains[c] = <<o>> \o @]
    PROVE  Forest(v)
<1>1. w \in Worlds /\ One(w) /\ Founded(w) /\ o \in Objs /\ c \in Objs /\ c \in Top(w)
  BY WorldSets DEF Forest, Top
<1>2. /\ o \notin w.floor /\ o \notin Worn(w)
      /\ \A d \in Objs : o \notin Inside(w, d) /\ c \notin Inside(w, d)
  BY <1>1 DEF One, Top
<1>3. /\ RemoveFirst(w.carrying, o) \in Seq(Objs)
      /\ ToSet(RemoveFirst(w.carrying, o)) = Carried(w) \ {o}
      /\ IsInjective(RemoveFirst(w.carrying, o))
  BY <1>1, UnlinkList, WorldFields DEF One, Carried
<1>4. /\ <<o>> \o w.contains[c] \in Seq(Objs) /\ ToSet(<<o>> \o w.contains[c]) = Inside(w, c) \cup {o}
      /\ IsInjective(<<o>> \o w.contains[c])
  BY <1>1, <1>2, ConsList, WorldFields DEF One, Inside
<1>5. /\ v.floor = w.floor /\ v.carrying = RemoveFirst(w.carrying, o) /\ v.worn = w.worn
      /\ v.contains = [w.contains EXCEPT ![c] = <<o>> \o w.contains[c]] /\ v.rotten = w.rotten
      /\ v \in Worlds
  BY <1>1, <1>3, <1>4 DEF Worlds
<1>6. Carried(v) = Carried(w) \ {o} /\ Worn(v) = Worn(w)
  BY <1>3, <1>5 DEF Carried, Worn
<1>7. /\ Inside(v, c) = Inside(w, c) \cup {o} /\ IsInjective(v.contains[c])
      /\ \A d \in Objs : d # c => v.contains[d] = w.contains[d] /\ Inside(v, d) = Inside(w, d)
  BY <1>1, <1>4, <1>5, WorldFields DEF Inside
<1>8. One(v)
  BY <1>1, <1>2, <1>3, <1>5, <1>6, <1>7 DEF One, Top
<1>9. Founded(v)
  <2> SUFFICES ASSUME NEW S \in SUBSET Objs, \A x \in S : \E d \in S : x \in Inside(v, d)
               PROVE  S = {}
    BY DEF Founded
  <2>1. c \notin S
    BY <1>2, <1>7
  <2>2. \A x \in S : \E d \in S : x \in Inside(w, d)
    BY <1>7, <2>1
  <2> QED
    BY <1>1, <2>2 DEF Founded
<1> QED
  BY <1>5, <1>8, <1>9 DEF Forest

LEMMA WearForest ==
    ASSUME NEW w, Forest(w), NEW o \in Carried(w), NEW p \in WearPos, w.worn[p] = Nothing,
           NEW v, v = [w EXCEPT !.carrying = RemoveFirst(@, o), !.worn[p] = o]
    PROVE  Forest(v)
<1>1. w \in Worlds /\ One(w) /\ Founded(w) /\ o \in Objs
  BY WorldSets DEF Forest
<1>2. o \notin w.floor /\ o \notin Worn(w) /\ \A d \in Objs : o \notin Inside(w, d)
  BY <1>1 DEF One, Top
<1>3. /\ RemoveFirst(w.carrying, o) \in Seq(Objs)
      /\ ToSet(RemoveFirst(w.carrying, o)) = Carried(w) \ {o}
      /\ IsInjective(RemoveFirst(w.carrying, o))
  BY <1>1, UnlinkList, WorldFields DEF One, Carried
<1>4. /\ v.floor = w.floor /\ v.carrying = RemoveFirst(w.carrying, o)
      /\ v.worn = [w.worn EXCEPT ![p] = o]
      /\ v.contains = w.contains /\ v.rotten = w.rotten
      /\ v \in Worlds
  BY <1>1, <1>3 DEF Worlds
<1>5. Carried(v) = Carried(w) \ {o} /\ \A c \in Objs : Inside(v, c) = Inside(w, c)
  BY <1>3, <1>4 DEF Carried, Inside
<1>6. v.worn[p] = o /\ \A q \in WearPos : q # p => v.worn[q] = w.worn[q]
  BY <1>1, <1>4, WorldFields
<1>7. o # Nothing /\ \A q \in WearPos : w.worn[q] # o
  BY <1>1, <1>2, RentAssumption DEF Worn
<1>8. Worn(v) = Worn(w) \cup {o}
  <2>1. ASSUME NEW x \in Worn(w) PROVE x \in Worn(v)
    BY <1>6, <2>1 DEF Worn
  <2>2. o \in Worn(v)
    BY <1>6, <1>7 DEF Worn
  <2>3. ASSUME NEW x \in Worn(v) PROVE x \in Worn(w) \cup {o}
    BY <1>6, <2>3 DEF Worn
  <2> QED
    BY <2>1, <2>2, <2>3
<1>9. One(v)
  <2>1. \A q, r \in WearPos : v.worn[q] = v.worn[r] /\ v.worn[q] # Nothing => q = r
    BY <1>1, <1>6, <1>7 DEF One
  <2> QED
    BY <1>1, <1>2, <1>3, <1>4, <1>5, <1>8, <2>1 DEF One, Top
<1>10. Founded(v)
  BY <1>1, <1>5, FoundedLess
<1> QED
  BY <1>4, <1>9, <1>10 DEF Forest

LEMMA TakeOffForest ==
    ASSUME NEW w, Forest(w), NEW p \in WearPos, w.worn[p] # Nothing,
           NEW v, v = [w EXCEPT !.carrying = <<w.worn[p]>> \o @, !.worn[p] = Nothing]
    PROVE  Forest(v)
<1> DEFINE o == w.worn[p]
<1>1. w \in Worlds /\ One(w) /\ Founded(w) /\ o \in Objs /\ o \in Worn(w)
  BY WorldFields DEF Forest, Worn
<1>2. o \notin w.floor /\ o \notin Carried(w) /\ \A d \in Objs : o \notin Inside(w, d)
  BY <1>1 DEF One, Top
<1>3. /\ <<o>> \o w.carrying \in Seq(Objs) /\ ToSet(<<o>> \o w.carrying) = Carried(w) \cup {o}
      /\ IsInjective(<<o>> \o w.carrying)
  BY <1>1, <1>2, ConsList, WorldFields DEF One, Carried
<1>4. /\ v.floor = w.floor /\ v.carrying = <<o>> \o w.carrying
      /\ v.worn = [w.worn EXCEPT ![p] = Nothing]
      /\ v.contains = w.contains /\ v.rotten = w.rotten
      /\ v \in Worlds
  BY <1>1, <1>3 DEF Worlds
<1>5. Carried(v) = Carried(w) \cup {o} /\ \A c \in Objs : Inside(v, c) = Inside(w, c)
  BY <1>3, <1>4 DEF Carried, Inside
<1>6. v.worn[p] = Nothing /\ \A q \in WearPos : q # p => v.worn[q] = w.worn[q]
  BY <1>1, <1>4, WorldFields
<1>7. \A q \in WearPos : w.worn[q] = o => q = p
  BY <1>1 DEF One
<1>8. Worn(v) = Worn(w) \ {o}
  <2>1. ASSUME NEW x \in Worn(w), x # o PROVE x \in Worn(v)
    BY <1>6, <2>1 DEF Worn
  <2>3. ASSUME NEW x \in Worn(v) PROVE x \in Worn(w) /\ x # o
    BY <1>6, <1>7, <2>3 DEF Worn
  <2> QED
    BY <2>1, <2>3
<1>9. One(v)
  <2>1. \A q, r \in WearPos : v.worn[q] = v.worn[r] /\ v.worn[q] # Nothing => q = r
    BY <1>1, <1>6, <1>7 DEF One
  <2> QED
    BY <1>1, <1>2, <1>3, <1>4, <1>5, <1>8, <2>1 DEF One, Top
<1>10. Founded(v)
  BY <1>1, <1>5, FoundedLess
<1> QED
  BY <1>4, <1>9, <1>10 DEF Forest

\* What was in a corpse falls where the corpse was: on the floor, ...
LEMMA DecayFloor ==
    ASSUME NEW w, Forest(w), NEW c \in Objs, c \in w.floor,
           NEW v, v = [w EXCEPT !.floor = (@ \ {c}) \cup Inside(w, c), !.contains[c] = <<>>]
    PROVE  Forest(v) /\ InWorld(v) \subseteq InWorld(w)
<1>1. w \in Worlds /\ One(w) /\ Founded(w) /\ Inside(w, c) \subseteq Objs
  BY WorldSets DEF Forest
<1>2. /\ v.floor = (w.floor \ {c}) \cup Inside(w, c) /\ v.carrying = w.carrying /\ v.worn = w.worn
      /\ v.contains = [w.contains EXCEPT ![c] = <<>>] /\ v.rotten = w.rotten
      /\ v \in Worlds
  <2>1. [w.contains EXCEPT ![c] = <<>>] \in [Objs -> Seq(Objs)]
    BY <1>1, WorldFields
  <2> QED
    BY <1>1, <2>1 DEF Worlds
<1>3. Carried(v) = Carried(w) /\ Worn(v) = Worn(w)
  BY <1>2 DEF Carried, Worn
<1>4. /\ v.contains[c] = <<>> /\ Inside(v, c) = {}
      /\ \A d \in Objs : d # c => v.contains[d] = w.contains[d] /\ Inside(v, d) = Inside(w, d)
  BY <1>1, <1>2, EmptyList, WorldFields DEF Inside
<1>5. One(v)
  BY <1>1, <1>2, <1>3, <1>4, EmptyList DEF One, Top
<1>6. Founded(v)
  BY <1>1, <1>4, FoundedLess
<1>7. InWorld(v) \subseteq InWorld(w)
  <2> SUFFICES ASSUME NEW x \in InWorld(v) PROVE x \in InWorld(w)
    OBVIOUS
  <2>1. x \in Objs /\ (x \in Top(v) \/ \E d \in Objs : x \in Inside(v, d))
    BY <1>2, InWorldIs
  <2>2. x \in Objs /\ (x \in Top(w) \/ \E d \in Objs : x \in Inside(w, d))
    BY <1>2, <1>3, <1>4, <2>1 DEF Top
  <2> QED
    BY <1>1, <2>2, InWorldIs
<1> QED
  BY <1>2, <1>5, <1>6, <1>7 DEF Forest

\* ... also if the player carries the corpse, ...
LEMMA DecayCarried ==
    ASSUME NEW w, Forest(w), NEW c \in Objs, c \in Carried(w),
           NEW v, v = [w EXCEPT !.floor = @ \cup Inside(w, c), !.contains[c] = <<>>,
                                !.carrying = RemoveFirst(@, c)]
    PROVE  Forest(v) /\ InWorld(v) \subseteq InWorld(w)
<1>1. w \in Worlds /\ One(w) /\ Founded(w) /\ Inside(w, c) \subseteq Objs
  BY WorldSets DEF Forest
<1>2. /\ RemoveFirst(w.carrying, c) \in Seq(Objs)
      /\ ToSet(RemoveFirst(w.carrying, c)) = Carried(w) \ {c}
      /\ IsInjective(RemoveFirst(w.carrying, c))
  BY <1>1, UnlinkList, WorldFields DEF One, Carried
<1>3. /\ v.floor = w.floor \cup Inside(w, c) /\ v.carrying = RemoveFirst(w.carrying, c) /\ v.worn = w.worn
      /\ v.contains = [w.contains EXCEPT ![c] = <<>>] /\ v.rotten = w.rotten
      /\ v \in Worlds
  <2>1. [w.contains EXCEPT ![c] = <<>>] \in [Objs -> Seq(Objs)]
    BY <1>1, WorldFields
  <2> QED
    BY <1>1, <1>2, <2>1 DEF Worlds
<1>4. Carried(v) = Carried(w) \ {c} /\ Worn(v) = Worn(w)
  BY <1>2, <1>3 DEF Carried, Worn
<1>5. /\ v.contains[c] = <<>> /\ Inside(v, c) = {}
      /\ \A d \in Objs : d # c => v.contains[d] = w.contains[d] /\ Inside(v, d) = Inside(w, d)
  BY <1>1, <1>3, EmptyList, WorldFields DEF Inside
<1>6. One(v)
  BY <1>1, <1>2, <1>3, <1>4, <1>5, EmptyList DEF One, Top
<1>7. Founded(v)
  BY <1>1, <1>5, FoundedLess
<1>8. InWorld(v) \subseteq InWorld(w)
  <2> SUFFICES ASSUME NEW x \in InWorld(v) PROVE x \in InWorld(w)
    OBVIOUS
  <2>1. x \in Objs /\ (x \in Top(v) \/ \E d \in Objs : x \in Inside(v, d))
    BY <1>3, InWorldIs
  <2>2. x \in Objs /\ (x \in Top(w) \/ \E d \in Objs : x \in Inside(w, d))
    BY <1>3, <1>4, <1>5, <2>1 DEF Top
  <2> QED
    BY <1>1, <2>2, InWorldIs
<1> QED
  BY <1>3, <1>6, <1>7, <1>8 DEF Forest

\* ... and in the container the corpse was in.
LEMMA DecayInside ==
    ASSUME NEW w, Forest(w), NEW c \in Objs, NEW d \in Objs, c \in Inside(w, d),
           NEW v, v = [w EXCEPT !.contains[c] = <<>>,
                         !.contains[d] = Reverse(w.contains[c]) \o RemoveFirst(@, c)]
    PROVE  Forest(v) /\ InWorld(v) \subseteq InWorld(w)
<1>1. w \in Worlds /\ One(w) /\ Founded(w)
  BY DEF Forest
<1>2. c # d
  <2>1. ~ (\A o \in {c} : \E e \in {c} : o \in Inside(w, e))
    BY <1>1 DEF Founded
  <2> QED
    BY <2>1
<1>3. c \notin Inside(w, c)
  BY <1>1, <1>2 DEF One
<1>4. /\ RemoveFirst(w.contains[d], c) \in Seq(Objs)
      /\ ToSet(RemoveFirst(w.contains[d], c)) = Inside(w, d) \ {c}
      /\ IsInjective(RemoveFirst(w.contains[d], c))
  BY <1>1, UnlinkList, WorldFields DEF One, Inside
<1>5. /\ Reverse(w.contains[c]) \in Seq(Objs)
      /\ ToSet(Reverse(w.contains[c])) = Inside(w, c)
      /\ IsInjective(Reverse(w.contains[c]))
  BY <1>1, ReverseList, WorldFields DEF One, Inside
<1> DEFINE l == Reverse(w.contains[c]) \o RemoveFirst(w.contains[d], c)
<1>6. l \in Seq(Objs) /\ ToSet(l) = Inside(w, c) \cup (Inside(w, d) \ {c}) /\ IsInjective(l)
  <2>1. Inside(w, c) \cap (Inside(w, d) \ {c}) = {}
    BY <1>1, <1>2 DEF One
  <2> QED
    BY <1>4, <1>5, <2>1, ConcatList
<1> HIDE DEF l
<1>7. v = [w EXCEPT !.contains = [w.contains EXCEPT ![c] = <<>>, ![d] = l]]
  <2>1. w.contains \in [Objs -> Seq(Objs)]
    BY <1>1, WorldFields
  <2>2. v = [w EXCEPT !.contains[c] = <<>>, !.contains[d] = l]
    BY <1>1, <1>2, <2>1 DEF l, Worlds
  <2> QED
    BY <1>1, <2>1, <2>2 DEF Worlds
<1>8. /\ v.floor = w.floor /\ v.carrying = w.carrying /\ v.worn = w.worn
      /\ v.contains = [w.contains EXCEPT ![c] = <<>>, ![d] = l] /\ v.rotten = w.rotten
      /\ v \in Worlds
  <2>1. [w.contains EXCEPT ![c] = <<>>, ![d] = l] \in [Objs -> Seq(Objs)]
    <3>1. w.contains \in [Objs -> Seq(Objs)] /\ <<>> \in Seq(Objs)
      BY <1>1, WorldFields
    <3> QED
      BY <1>6, <3>1
  <2> QED
    BY <1>1, <1>7, <2>1 DEF Worlds
<1>9. Carried(v) = Carried(w) /\ Worn(v) = Worn(w)
  BY <1>8 DEF Carried, Worn
<1>10. /\ v.contains[c] = <<>> /\ Inside(v, c) = {}
       /\ v.contains[d] = l /\ Inside(v, d) = Inside(w, c) \cup (Inside(w, d) \ {c})
       /\ \A e \in Objs : e # c /\ e # d => v.contains[e] = w.contains[e] /\ Inside(v, e) = Inside(w, e)
  <2>1. w.contains \in [Objs -> Seq(Objs)]
    BY <1>1, WorldFields
  <2>2. v.contains[c] = <<>> /\ v.contains[d] = l /\ \A e \in Objs : e # c /\ e # d => v.contains[e] = w.contains[e]
    BY <1>2, <1>8, <2>1
  <2> QED
    BY <1>6, <2>2, EmptyList DEF Inside
<1>11. One(v)
  <2>1. \A e \in Objs : IsInjective(v.contains[e])
    BY <1>1, <1>6, <1>10, EmptyList DEF One
  <2>2. \A e \in Objs : Inside(v, e) \cap Top(v) = {}
    BY <1>1, <1>8, <1>9, <1>10 DEF One, Top
  <2>3. \A e, f \in Objs : e # f => Inside(v, e) \cap Inside(v, f) = {}
    BY <1>1, <1>2, <1>10 DEF One
  <2> QED
    BY <1>1, <1>8, <1>9, <2>1, <2>2, <2>3 DEF One
<1>12. Founded(v)
  <2> SUFFICES ASSUME NEW S \in SUBSET Objs, \A o \in S : \E e \in S : o \in Inside(v, e)
               PROVE  S = {}
    BY DEF Founded
  <2>1. CASE d \in S
    <3>1. \A o \in S \cup {c} : \E e \in S \cup {c} : o \in Inside(w, e)
      BY <1>10, <2>1
    <3>2. S \cup {c} \in SUBSET Objs
      OBVIOUS
    <3> QED
      BY <1>1, <3>1, <3>2 DEF Founded
  <2>2. CASE d \notin S
    <3>1. \A o \in S : \E e \in S : o \in Inside(w, e)
      BY <1>10, <2>2
    <3> QED
      BY <1>1, <3>1 DEF Founded
  <2> QED
    BY <2>1, <2>2
<1>13. InWorld(v) \subseteq InWorld(w)
  <2> SUFFICES ASSUME NEW x \in InWorld(v) PROVE x \in InWorld(w)
    OBVIOUS
  <2>1. x \in Objs /\ (x \in Top(v) \/ \E e \in Objs : x \in Inside(v, e))
    BY <1>8, InWorldIs
  <2>2. x \in Objs /\ (x \in Top(w) \/ \E e \in Objs : x \in Inside(w, e))
    BY <1>8, <1>9, <1>10, <2>1 DEF Top
  <2> QED
    BY <1>1, <2>2, InWorldIs
<1> QED
  BY <1>8, <1>11, <1>12, <1>13 DEF Forest

-----------------------------------------------------------------------------
(* What coming and going does to the forest.                               *)

LEMMA BareWorld ==
    ASSUME NEW w \in Worlds
    PROVE  /\ Bare(w) = [w EXCEPT !.carrying = <<>>, !.worn = [p \in WearPos |-> Nothing]]
           /\ Bare(w) \in Worlds
           /\ Bare(w).carrying = <<>> /\ Bare(w).worn = [p \in WearPos |-> Nothing]
           /\ Bare(w).contains = w.contains /\ Bare(w).floor = w.floor /\ Bare(w).rotten = w.rotten
<1>1. <<>> \in Seq(Objs) /\ [p \in WearPos |-> Nothing] \in [WearPos -> Objs \cup {Nothing}]
  OBVIOUS
<1> QED
  BY <1>1 DEF Bare, Worlds

LEMMA BareSets ==
    ASSUME NEW v, v.carrying = <<>>, v.worn = [p \in WearPos |-> Nothing]
    PROVE  Carried(v) = {} /\ Worn(v) = {} /\ IsInjective(v.carrying)
           /\ \A p \in WearPos : v.worn[p] = Nothing
BY EmptyList DEF Carried, Worn

LEMMA StoreAllForest ==
    ASSUME NEW w, Forest(w), 
           NEW v, v = [Bare(w) EXCEPT
                          !.contains = [o \in Objs |-> IF o \in Held(w) THEN <<>> ELSE @[o]],
                          !.rotten = @ \ Held(w)]
    PROVE  Forest(v) /\ InWorld(v) \cap Held(w) = {} /\ Carried(v) = {} /\ Worn(v) = {}
<1>1. w \in Worlds /\ One(w) /\ Founded(w)
  BY DEF Forest
<1>2. /\ v.floor = w.floor /\ v.carrying = <<>> /\ v.worn = [p \in WearPos |-> Nothing]
      /\ v.contains = [o \in Objs |-> IF o \in Held(w) THEN <<>> ELSE w.contains[o]]
      /\ v.rotten = w.rotten \ Held(w)
      /\ v \in Worlds
  <2>1. [o \in Objs |-> IF o \in Held(w) THEN <<>> ELSE w.contains[o]] \in [Objs -> Seq(Objs)]
    <3>1. \A o \in Objs : w.contains[o] \in Seq(Objs) /\ <<>> \in Seq(Objs)
      BY <1>1, WorldFields
    <3> QED
      BY <3>1
  <2> QED
    BY <1>1, <2>1, BareWorld DEF Worlds
<1>3. Carried(v) = {} /\ Worn(v) = {} /\ IsInjective(v.carrying) /\ \A p \in WearPos : v.worn[p] = Nothing
  BY <1>2, BareSets
<1>4. \A c \in Objs : IF c \in Held(w) THEN v.contains[c] = <<>> /\ Inside(v, c) = {}
                      ELSE v.contains[c] = w.contains[c] /\ Inside(v, c) = Inside(w, c)
  BY <1>2, EmptyList DEF Inside
<1>5. One(v)
  BY <1>1, <1>2, <1>3, <1>4, EmptyList DEF One, Top
<1>6. Founded(v)
  <2>1. \A c \in Objs : Inside(v, c) \subseteq Inside(w, c)
    BY <1>4
  <2> QED
    BY <1>1, <2>1, FoundedLess
<1>7. ASSUME NEW x \in InWorld(v), x \in Held(w) PROVE FALSE
  <2>1. x \in Objs /\ (x \in Top(v) \/ \E d \in Objs : x \in Inside(v, d))
    BY <1>2, <1>7, InWorldIs
  <2>2. x \in w.floor \/ \E d \in Objs \ Held(w) : x \in Inside(w, d)
    BY <1>2, <1>3, <1>4, <2>1 DEF Top
  <2>3. x \in Carried(w) \cup Worn(w) \/ \E c \in Held(w) : x \in Inside(w, c)
    BY <1>1, <1>7, HeldIn
  <2>4. Held(w) \subseteq Objs
    BY <1>1, HeldIs
  <2> QED
    BY <1>1, <2>2, <2>3, <2>4 DEF One, Top
<1> QED
  BY <1>2, <1>3, <1>5, <1>6, <1>7 DEF Forest

LEMMA LeaveAllForest ==
    ASSUME NEW w, Forest(w),
           NEW v, v = [Bare(w) EXCEPT !.floor = @ \cup Carried(w) \cup Worn(w)]
    PROVE  Forest(v) /\ Carried(v) = {} /\ Worn(v) = {} /\ InWorld(v) = InWorld(w)
<1>1. w \in Worlds /\ One(w) /\ Founded(w)
  BY DEF Forest
<1>2. /\ v.floor = w.floor \cup Carried(w) \cup Worn(w) /\ v.carrying = <<>>
      /\ v.worn = [p \in WearPos |-> Nothing]
      /\ v.contains = w.contains /\ v.rotten = w.rotten
      /\ v \in Worlds
  BY <1>1, BareWorld, WorldSets DEF Worlds
<1>3. Carried(v) = {} /\ Worn(v) = {} /\ IsInjective(v.carrying) /\ \A p \in WearPos : v.worn[p] = Nothing
  BY <1>2, BareSets
<1>4. Top(v) = Top(w) /\ \A c \in Objs : Inside(v, c) = Inside(w, c)
  BY <1>2, <1>3 DEF Top, Inside
<1>5. One(v)
  BY <1>1, <1>2, <1>3, <1>4 DEF One
<1>6. Founded(v)
  BY <1>1, <1>4, FoundedLess
<1>7. InWorld(v) = InWorld(w)
  <2>1. \A x : x \in InWorld(v) <=> x \in InWorld(w)
    BY <1>1, <1>2, <1>4, InWorldIs
  <2> QED
    BY <2>1 DEF InWorld
<1> QED
  BY <1>2, <1>3, <1>5, <1>6, <1>7 DEF Forest

LEMMA CrashForest ==
    ASSUME NEW w, Forest(w),
           NEW v, v = [Bare(w) EXCEPT !.contains = [o \in Objs |-> <<>>], !.floor = {}, !.rotten = {}]
    PROVE  Forest(v) /\ InWorld(v) = {} /\ Carried(v) = {} /\ Worn(v) = {}
<1>1. w \in Worlds
  BY DEF Forest
<1>2. /\ v.floor = {} /\ v.carrying = <<>> /\ v.worn = [p \in WearPos |-> Nothing]
      /\ v.contains = [o \in Objs |-> <<>>]
      /\ v \in Worlds
  <2>1. [o \in Objs |-> <<>>] \in [Objs -> Seq(Objs)]
    OBVIOUS
  <2> QED
    BY <1>1, <2>1, BareWorld DEF Worlds
<1>3. Carried(v) = {} /\ Worn(v) = {} /\ IsInjective(v.carrying) /\ \A p \in WearPos : v.worn[p] = Nothing
  BY <1>2, BareSets
<1>4. \A c \in Objs : v.contains[c] = <<>> /\ Inside(v, c) = {}
  BY <1>2, EmptyList DEF Inside
<1>5. One(v) /\ Founded(v)
  BY <1>2, <1>3, <1>4, EmptyList DEF One, Top, Founded
<1>6. InWorld(v) = {}
  BY <1>2, <1>3, <1>4, InWorldIs DEF Top
<1> QED
  BY <1>2, <1>3, <1>5, <1>6 DEF Forest

\* What equip_char refuses falls from where it was worn.
LEMMA FallenForest ==
    ASSUME NEW w, Forest(w), NEW R, R \subseteq Worn(w), NEW v, v = Fallen(w, R)
    PROVE  Forest(v) /\ Carried(v) = Carried(w) /\ Worn(v) = Worn(w) \ R
<1>1. w \in Worlds /\ One(w) /\ Founded(w)
  BY DEF Forest
<1>2. R \subseteq Objs /\ Nothing \notin R
  BY <1>1, WorldSets, RentAssumption
<1>3. /\ v.floor = w.floor \cup R /\ v.carrying = w.carrying
      /\ v.worn = [p \in WearPos |-> IF w.worn[p] \in R THEN Nothing ELSE w.worn[p]]
      /\ v.contains = w.contains /\ v.rotten = w.rotten
      /\ v \in Worlds
  <2>1. [p \in WearPos |-> IF w.worn[p] \in R THEN Nothing ELSE w.worn[p]] \in [WearPos -> Objs \cup {Nothing}]
    BY <1>1, WorldFields
  <2> QED
    BY <1>1, <1>2, <2>1 DEF Fallen, Worlds
<1>4. Carried(v) = Carried(w) /\ \A c \in Objs : Inside(v, c) = Inside(w, c)
  BY <1>3 DEF Carried, Inside
<1>5. \A p \in WearPos : v.worn[p] = IF w.worn[p] \in R THEN Nothing ELSE w.worn[p]
  BY <1>3
<1>6. Worn(v) = Worn(w) \ R
  <2>1. ASSUME NEW x \in Worn(v) PROVE x \in Worn(w) \ R
    BY <1>5, <2>1 DEF Worn
  <2>2. ASSUME NEW x \in Worn(w) \ R PROVE x \in Worn(v)
    BY <1>5, <2>2 DEF Worn
  <2> QED
    BY <2>1, <2>2
<1>7. One(v)
  <2>1. \A p, q \in WearPos : v.worn[p] = v.worn[q] /\ v.worn[p] # Nothing => p = q
    BY <1>1, <1>5 DEF One
  <2> QED
    BY <1>1, <1>3, <1>4, <1>6, <2>1 DEF One, Top
<1>8. Founded(v)
  BY <1>1, <1>4, FoundedLess
<1> QED
  BY <1>3, <1>4, <1>6, <1>7, <1>8 DEF Forest

\* A player of whose equipment only the first positions are on.
LEMMA BelowForest ==
    ASSUME NEW w, Forest(w), NEW p, NEW v, v = Below(w, p)
    PROVE  Forest(v) /\ Carried(v) = Carried(w) /\ Worn(v) \subseteq Worn(w)
<1>1. w \in Worlds /\ One(w) /\ Founded(w)
  BY DEF Forest
<1>2. /\ v.floor = w.floor /\ v.carrying = w.carrying
      /\ v.worn = [q \in WearPos |-> IF q < p THEN w.worn[q] ELSE Nothing]
      /\ v.contains = w.contains /\ v.rotten = w.rotten
      /\ v \in Worlds
  BY <1>1 DEF Below, Worlds
<1>3. Carried(v) = Carried(w) /\ \A c \in Objs : Inside(v, c) = Inside(w, c)
  BY <1>2 DEF Carried, Inside
<1>4. \A q \in WearPos : v.worn[q] = w.worn[q] \/ v.worn[q] = Nothing
  BY <1>2
<1>5. Worn(v) \subseteq Worn(w)
  BY <1>4 DEF Worn
<1>6. One(v)
  <2>1. \A q, x \in WearPos : v.worn[q] = v.worn[x] /\ v.worn[q] # Nothing => q = x
    BY <1>1, <1>4 DEF One
  <2> QED
    BY <1>1, <1>2, <1>3, <1>5, <2>1 DEF One, Top
<1>7. Founded(v)
  BY <1>1, <1>3, FoundedLess
<1> QED
  BY <1>2, <1>3, <1>5, <1>6, <1>7 DEF Forest

\* Induction over the subsets of a finite set.
LEMMA SubsetInduction ==
    ASSUME NEW S, IsFiniteSet(S), NEW Q,
           \A T \in SUBSET S : (\A U \in SUBSET T : U # T => U \in Q) => T \in Q
    PROVE  \A T \in SUBSET S : T \in Q
<1> DEFINE B == (SUBSET S) \ Q
<1>1. SUFFICES ASSUME B # {} PROVE FALSE
  OBVIOUS
<1>2. IsWellFoundedOn(StrictSubsetOrdering(S), FiniteSubsetsOf(S))
  BY FS_StrictSubsetOrderingWellFounded
<1>3. FiniteSubsetsOf(S) = SUBSET S
  BY FS_FiniteSubsetsOfFinite
<1>4. PICK T \in B : \A U \in B : ~ (<<U, T>> \in StrictSubsetOrdering(S))
  <2>1. B \subseteq FiniteSubsetsOf(S)
    BY <1>3
  <2> HIDE DEF B
  <2>2. \E T \in B : \A U \in B : ~ (<<U, T>> \in StrictSubsetOrdering(S))
    BY <1>1, <1>2, <2>1, WFMin
  <2> QED
    BY <2>2
<1>5. \A U \in SUBSET T : U # T => U \in Q
  BY <1>4 DEF StrictSubsetOrdering
<1> QED
  BY <1>4, <1>5

-----------------------------------------------------------------------------
(* Lists: recursive functions are defined on an initial segment of the     *)
(* naturals, and what holds of them is proved by induction on it.          *)

\* Induction on an initial segment, with a set for the property.
LEMMA SegmentInduction ==
    ASSUME NEW n \in Nat, NEW Q, 0 \in Q, \A i \in 1..n : i - 1 \in Q => i \in Q
    PROVE  \A i \in 0..n : i \in Q
<1> DEFINE T(i) == 1..i
           R == {s \in SUBSET (1..n) : \A i \in 0..n : s = T(i) => i \in Q}
<1>1. IsFiniteSet(1..n)
  BY FS_Interval
<1>2. ASSUME NEW s \in SUBSET (1..n), \A u \in SUBSET s : u # s => u \in R
      PROVE  s \in R
  <2> SUFFICES ASSUME NEW i \in 0..n, s = T(i) PROVE i \in Q
    OBVIOUS
  <2>1. CASE i = 0
    BY <2>1
  <2>2. CASE i # 0
    <3>1. i - 1 \in 0..n /\ i \in 1..n
      BY <2>2
    <3>2. T(i - 1) \in SUBSET s /\ T(i - 1) # s
      BY <3>1
    <3>3. T(i - 1) \in R
      BY <1>2, <3>2
    <3>4. i - 1 \in Q
      BY <3>1, <3>3
    <3> QED
      BY <3>1, <3>4
  <2> QED
    BY <2>1, <2>2
<1> HIDE DEF R
<1>3. \A s \in SUBSET (1..n) : s \in R
  BY <1>1, <1>2, SubsetInduction
<1>4. \A i \in 0..n : T(i) \in R
  BY <1>3
<1> QED
  BY <1>4 DEF R

\* A function that starts with b and takes the steps F.
Runs(f, n, b, F) == f[0] = b /\ \A i \in 1..n : f[i] = F[i][f[i - 1]]

LEMMA RunExists ==
    ASSUME NEW n \in Nat, NEW W, NEW b \in W, NEW F, \A w \in W, i \in 1..n : F[i][w] \in W
    PROVE  \E f \in [0..n -> W] : Runs(f, n, b, F)
<1> DEFINE Q == {i \in 0..n : \E f \in [0..i -> W] : Runs(f, i, b, F)}
<1>1. 0 \in Q
  <2>1. [j \in 0..0 |-> b] \in [0..0 -> W] /\ Runs([j \in 0..0 |-> b], 0, b, F)
    BY DEF Runs
  <2> QED
    BY <2>1
<1>2. ASSUME NEW i \in 1..n, i - 1 \in Q
      PROVE  i \in Q
  <2>1. PICK f \in [0..(i - 1) -> W] : Runs(f, i - 1, b, F)
    BY <1>2
  <2> DEFINE g == [j \in 0..i |-> IF j = i THEN F[i][f[i - 1]] ELSE f[j]]
  <2>2. g \in [0..i -> W]
    BY <2>1
  <2>3. Runs(g, i, b, F)
    BY <2>1 DEF Runs
  <2> QED
    BY <2>2, <2>3
<1> HIDE DEF Q
<1>3. \A i \in 1..n : i - 1 \in Q => i \in Q
  BY <1>2
<1>4. \A i \in 0..n : i \in Q
  BY <1>1, <1>3, SegmentInduction
<1>5. n \in Q
  BY <1>4
<1> QED
  BY <1>5 DEF Q

\* A function defined by recursion on such a segment exists: it runs.
Recursion(f, n, b, F) == f = [i \in 0..n |-> IF i = 0 THEN b ELSE F[i][f[i - 1]]]

LEMMA RecursionRuns ==
    ASSUME NEW n \in Nat, NEW W, NEW b \in W, NEW F, \A w \in W, i \in 1..n : F[i][w] \in W
    PROVE  (\E f : Recursion(f, n, b, F)) /\ \A f : Recursion(f, n, b, F) => f \in [0..n -> W] /\ Runs(f, n, b, F)
<1>1. PICK f \in [0..n -> W] : Runs(f, n, b, F)
  BY RunExists
<1>2. f = [i \in 0..n |-> IF i = 0 THEN b ELSE F[i][f[i - 1]]]
  <2>1. \A i \in 0..n : f[i] = IF i = 0 THEN b ELSE F[i][f[i - 1]]
    <3> SUFFICES ASSUME NEW i \in 0..n PROVE f[i] = IF i = 0 THEN b ELSE F[i][f[i - 1]]
      OBVIOUS
    <3>1. i = 0 \/ i \in 1..n
      OBVIOUS
    <3> QED
      BY <1>1, <3>1 DEF Runs
  <2> QED
    BY <2>1
<1>3. ASSUME NEW g, Recursion(g, n, b, F) PROVE g \in [0..n -> W] /\ Runs(g, n, b, F)
  <2>1. DOMAIN g = 0..n /\ g[0] = b /\ g = [i \in 0..n |-> g[i]]
    BY <1>3 DEF Recursion
  <2>2. \A i \in 1..n : i \in 0..n /\ i # 0
    OBVIOUS
  <2>3. \A i \in 1..n : g[i] = F[i][g[i - 1]]
    BY <1>3, <2>2 DEF Recursion
  <2> DEFINE Q == {i \in 0..n : g[i] \in W}
  <2>4. 0 \in Q
    BY <2>1
  <2>5. \A i \in 1..n : i - 1 \in Q => i \in Q
    BY <2>3
  <2> HIDE DEF Q
  <2>6. \A i \in 0..n : i \in Q
    BY <2>4, <2>5, SegmentInduction
  <2>7. \A i \in 0..n : g[i] \in W
    BY <2>6 DEF Q
  <2> QED
    BY <2>1, <2>3, <2>7 DEF Runs
<1> QED
  BY <1>2, <1>3 DEF Recursion

-----------------------------------------------------------------------------
(* The equipment is taken off.                                             *)

Undress(w) ==
    [p \in 1..MaxWear |-> [l \in Seq(Objs) |-> IF w.worn[p] = Nothing THEN l ELSE <<w.worn[p]>> \o l]]

UndressRuns(w, l) ==
    l = [p \in 0..MaxWear |-> IF p = 0 THEN w.carrying
                              ELSE IF w.worn[p] = Nothing THEN l[p - 1] ELSE <<w.worn[p]>> \o l[p - 1]]

LEMMA UndressedIs == \A w : Undressed(w) = (CHOOSE l : UndressRuns(w, l))[MaxWear]
BY DEF Undressed, UndressRuns

LEMMA UndressedSet ==
    ASSUME NEW w, Forest(w)
    PROVE  /\ Undressed(w) \in Seq(Objs) /\ ToSet(Undressed(w)) = Carried(w) \cup Worn(w)
           /\ IsInjective(Undressed(w))
<1>1. w \in Worlds /\ One(w)
  BY DEF Forest
<1>2. w.carrying \in Seq(Objs) /\ w.worn \in [WearPos -> Objs \cup {Nothing}]
  BY <1>1, WorldFields
<1>0. \A l \in Seq(Objs), p \in 1..MaxWear :
         Undress(w)[p][l] = IF w.worn[p] = Nothing THEN l ELSE <<w.worn[p]>> \o l
  BY DEF Undress
<1>3. \A l \in Seq(Objs), p \in 1..MaxWear : Undress(w)[p][l] \in Seq(Objs)
  <2> SUFFICES ASSUME NEW l \in Seq(Objs), NEW p \in 1..MaxWear PROVE Undress(w)[p][l] \in Seq(Objs)
    OBVIOUS
  <2>1. w.worn[p] # Nothing => w.worn[p] \in Objs
    BY <1>2 DEF WearPos
  <2> QED
    <3>1. CASE w.worn[p] = Nothing
      BY <1>0, <3>1
    <3>2. CASE w.worn[p] # Nothing
      <4>1. Undress(w)[p][l] = <<w.worn[p]>> \o l
        BY <1>0, <3>2
      <4>2. <<w.worn[p]>> \o l \in Seq(Objs)
        BY <2>1, <3>2, ConsList
      <4> QED
        BY <4>1, <4>2
    <3> QED
      BY <3>1, <3>2
<1>4. PICK f \in [0..MaxWear -> Seq(Objs)] : Runs(f, MaxWear, w.carrying, Undress(w))
  BY <1>2, <1>3, RunExists, RentAssumption
<1>5. /\ f[0] = w.carrying
      /\ \A p \in 1..MaxWear : f[p] = IF w.worn[p] = Nothing THEN f[p - 1] ELSE <<w.worn[p]>> \o f[p - 1]
  <2>1. ASSUME NEW p \in 1..MaxWear
        PROVE  f[p] = IF w.worn[p] = Nothing THEN f[p - 1] ELSE <<w.worn[p]>> \o f[p - 1]
    <3>0. p - 1 \in 0..MaxWear
      BY RentAssumption
    <3>1. f[p] = Undress(w)[p][f[p - 1]] /\ f[p - 1] \in Seq(Objs)
      BY <1>4, <3>0 DEF Runs
    <3> QED
      BY <1>0, <3>1
  <2> QED
    BY <1>4, <2>1 DEF Runs
<1>6. UndressRuns(w, f)
  <2>1. \A p \in 0..MaxWear : f[p] = IF p = 0 THEN w.carrying
                              ELSE IF w.worn[p] = Nothing THEN f[p - 1] ELSE <<w.worn[p]>> \o f[p - 1]
    <3> SUFFICES ASSUME NEW p \in 0..MaxWear
                 PROVE  f[p] = IF p = 0 THEN w.carrying
                              ELSE IF w.worn[p] = Nothing THEN f[p - 1] ELSE <<w.worn[p]>> \o f[p - 1]
      OBVIOUS
    <3>1. p = 0 \/ p \in 1..MaxWear
      OBVIOUS
    <3> QED
      BY <1>5, <3>1
  <2> QED
    BY <2>1 DEF UndressRuns
<1> DEFINE l == CHOOSE l : UndressRuns(w, l)
<1>7. UndressRuns(w, l)
  BY <1>6
<1> HIDE DEF l
<1>8. /\ l[0] = w.carrying
      /\ \A p \in 1..MaxWear : l[p] = IF w.worn[p] = Nothing THEN l[p - 1] ELSE <<w.worn[p]>> \o l[p - 1]
  <2>1. 0 \in 0..MaxWear /\ \A p \in 1..MaxWear : p \in 0..MaxWear /\ p # 0
    BY RentAssumption
  <2> QED
    BY <1>7, <2>1 DEF UndressRuns
<1> DEFINE Off(p) == {w.worn[q] : q \in 1..p} \ {Nothing}
           Q == {p \in 0..MaxWear : /\ l[p] \in Seq(Objs) /\ ToSet(l[p]) = Carried(w) \cup Off(p)
                                    /\ IsInjective(l[p])}
<1>9. 0 \in Q
  BY <1>1, <1>2, <1>8, RentAssumption DEF One, Carried
<1>10. \A p \in 1..MaxWear : p - 1 \in Q => p \in Q
  <2> SUFFICES ASSUME NEW p \in 1..MaxWear, p - 1 \in Q PROVE p \in Q
    OBVIOUS
  <2>1. /\ l[p - 1] \in Seq(Objs) /\ ToSet(l[p - 1]) = Carried(w) \cup Off(p - 1) /\ IsInjective(l[p - 1])
        /\ p \in WearPos /\ p \in 0..MaxWear
    BY DEF WearPos
  <2>2. 1..p = 1..(p - 1) \cup {p} /\ p \notin 1..(p - 1) /\ 1..p \subseteq WearPos
    BY RentAssumption DEF WearPos
  <2>3. Off(p) = Off(p - 1) \cup ({w.worn[p]} \ {Nothing})
    BY <2>2
  <2>4. CASE w.worn[p] = Nothing
    BY <1>8, <2>1, <2>3, <2>4
  <2>5. CASE w.worn[p] # Nothing
    <3>1. w.worn[p] \in Objs /\ w.worn[p] \in Worn(w)
      BY <1>2, <2>1, <2>5 DEF Worn
    <3>2. w.worn[p] \notin Carried(w) \cup Off(p - 1)
      BY <1>1, <2>1, <2>2, <2>5, <3>1 DEF One
    <3> HIDE DEF Off
    <3>3. l[p] = <<w.worn[p]>> \o l[p - 1]
      BY <1>8, <2>5
    <3>4. l[p] \in Seq(Objs) /\ ToSet(l[p]) = ToSet(l[p - 1]) \cup {w.worn[p]} /\ IsInjective(l[p])
      BY <2>1, <3>1, <3>2, <3>3, ConsList
    <3> QED
      BY <2>1, <2>3, <2>5, <3>4
  <2> QED
    BY <2>4, <2>5
<1> HIDE DEF Q
<1>11. \A p \in 0..MaxWear : p \in Q
  BY <1>9, <1>10, SegmentInduction, RentAssumption
<1>12. MaxWear \in Q
  BY <1>11, RentAssumption
<1>13. Off(MaxWear) = Worn(w)
  BY DEF Worn, WearPos
<1> QED
  BY <1>12, <1>13, UndressedIs DEF Q, l

\* make_corpse.
LEMMA IntoCorpseForest ==
    ASSUME NEW w, Forest(w), NEW c \in Objs, c \notin InWorld(w),
           NEW v, v = [Bare(w) EXCEPT !.contains[c] = Undressed(w), !.floor = @ \cup {c},
                                      !.rotten = @ \ {c}]
    PROVE  Forest(v) /\ Carried(v) = {} /\ Worn(v) = {}
<1>1. w \in Worlds /\ One(w) /\ Founded(w)
  BY DEF Forest
<1> DEFINE l == Undressed(w)
<1>2. l \in Seq(Objs) /\ ToSet(l) = Carried(w) \cup Worn(w) /\ IsInjective(l)
  BY UndressedSet
<1> HIDE DEF l
<1>3. v = [Bare(w) EXCEPT !.contains[c] = l, !.floor = @ \cup {c}, !.rotten = @ \ {c}]
  BY DEF l
<1>4. /\ v.floor = w.floor \cup {c} /\ v.carrying = <<>>
      /\ v.worn = [p \in WearPos |-> Nothing]
      /\ v.contains = [w.contains EXCEPT ![c] = l]
      /\ v \in Worlds
  <2>1. [w.contains EXCEPT ![c] = l] \in [Objs -> Seq(Objs)]
    BY <1>1, <1>2, WorldFields
  <2>2. Bare(w) \in Worlds /\ Bare(w).carrying = <<>> /\ Bare(w).worn = [p \in WearPos |-> Nothing]
        /\ Bare(w).contains = w.contains /\ Bare(w).floor = w.floor
    BY <1>1, BareWorld
  <2> QED
    <3> DEFINE b == Bare(w)
    <3>1. b \in Worlds /\ b.contains = w.contains /\ b.floor = w.floor /\ b.carrying = <<>>
          /\ b.worn = [p \in WearPos |-> Nothing]
      BY <2>2
    <3>2. v = [b EXCEPT !.contains[c] = l, !.floor = @ \cup {c}, !.rotten = @ \ {c}]
      BY <1>3
    <3> HIDE DEF b
    <3>3. /\ v.floor = w.floor \cup {c} /\ v.carrying = <<>> /\ v.worn = [p \in WearPos |-> Nothing]
          /\ v.contains = [w.contains EXCEPT ![c] = l]
      BY <3>1, <3>2 DEF Worlds
    <3>4. v \in Worlds
      <4>1. [b.contains EXCEPT ![c] = l] \in [Objs -> Seq(Objs)]
        BY <2>1, <3>1
      <4>2. b.floor \cup {c} \in SUBSET Objs /\ b.rotten \ {c} \in SUBSET Objs
        BY <3>1, WorldFields
      <4> QED
        BY <3>1, <3>2, <4>1, <4>2 DEF Worlds
    <3> QED
      BY <3>3, <3>4
<1>5. Carried(v) = {} /\ Worn(v) = {} /\ IsInjective(v.carrying) /\ \A p \in WearPos : v.worn[p] = Nothing
  BY <1>4, BareSets
<1>6. /\ v.contains[c] = l /\ Inside(v, c) = Carried(w) \cup Worn(w)
      /\ \A d \in Objs : d # c => v.contains[d] = w.contains[d] /\ Inside(v, d) = Inside(w, d)
  BY <1>1, <1>2, <1>4, WorldFields DEF Inside
<1>7. c \notin Top(w) /\ \A d \in Objs : c \notin Inside(w, d)
  BY <1>1, InWorldIs
<1>8. One(v)
  BY <1>1, <1>2, <1>4, <1>5, <1>6, <1>7 DEF One, Top
<1>9. Founded(v)
  <2> SUFFICES ASSUME NEW S \in SUBSET Objs, \A x \in S : \E d \in S : x \in Inside(v, d)
               PROVE  S = {}
    BY DEF Founded
  <2>1. c \notin S
    BY <1>6, <1>7 DEF Top
  <2>2. \A x \in S : \E d \in S : x \in Inside(w, d)
    BY <1>6, <2>1
  <2> QED
    BY <1>1, <2>2 DEF Founded
<1> QED
  BY <1>4, <1>5, <1>8, <1>9 DEF Forest

-----------------------------------------------------------------------------
(* Storing: one turn.                                                      *)

Call == [obj : Objs \cup {Nothing}, depth : Nat, wearpos : WearPos \cup {0}]
Stores == [calls : Seq(Call), objects : Seq(Elements), wearpos : WearPos \cup {0}]

\* What the first call finds in the object it is made for.
First(x) == x.calls[1]
Content(w, x) == IF First(x).obj = Nothing THEN <<>> ELSE w.contains[First(x).obj]
\* The next free element when the first call is made.
Slot(x) == IF First(x).wearpos > 0 THEN First(x).wearpos ELSE x.wearpos

\* The calls after a turn: those for the content, then the others.
CallMoves(w, x, y) ==
    LET l == Content(w, x)
        m == Len(l)
        n == Len(x.calls)
    IN /\ m \in Nat /\ n \in Nat \ {0} /\ Len(y.calls) = (m + n) - 1
       /\ \A i \in 1..m : i \in 1..Len(y.calls) /\ y.calls[i] = [obj |-> l[i], depth |-> First(x).depth + 1, wearpos |-> 0]
       /\ \A i \in 2..n : (m + i) - 1 \in 1..Len(y.calls) /\ y.calls[(m + i) - 1] = x.calls[i]
       /\ \A i \in 1..Len(y.calls) : i \in 1..m \/ ((i - m) + 1 \in 2..n /\ y.calls[i] = x.calls[(i - m) + 1])

Element(x) == [obj |-> First(x).obj, depth |-> First(x).depth, wearpos |-> Slot(x)]

Nobody(x, y) == First(x).obj = Nothing /\ y.objects = x.objects /\ y.wearpos = x.wearpos
Skipped(w, x, y) ==
    /\ First(x).obj \in Objs /\ (Junk(w, First(x).obj) \/ Len(x.objects) >= MaxObjSave)
    /\ y.objects = x.objects /\ y.wearpos = Slot(x)
Taken(w, x, y) ==
    /\ First(x).obj \in Objs /\ ~Junk(w, First(x).obj) /\ Len(x.objects) < MaxObjSave
    /\ y.objects = Append(x.objects, Element(x)) /\ Element(x) \in Elements /\ y.wearpos = 0

LEMMA CallsType ==
    ASSUME NEW l \in Seq(Objs), NEW d \in Nat
    PROVE  /\ Calls(l, d) \in Seq(Call) /\ Len(Calls(l, d)) = Len(l)
           /\ \A i \in 1..Len(l) : Calls(l, d)[i] = [obj |-> l[i], depth |-> d, wearpos |-> 0]
<1>1. DOMAIN l = 1..Len(l) /\ Len(l) \in Nat
  OBVIOUS
<1>2. \A i \in 1..Len(l) : [obj |-> l[i], depth |-> d, wearpos |-> 0] \in Call
  BY DEF Call
<1> DEFINE f == [i \in 1..Len(l) |-> [obj |-> l[i], depth |-> d, wearpos |-> 0]]
<1>3. f \in [1..Len(l) -> Call]
  BY <1>2
<1>4. f \in Seq(Call)
  BY <1>1, <1>3
<1>5. Calls(l, d) = f
  BY <1>1 DEF Calls
<1> QED
  BY <1>1, <1>4, <1>5

LEMMA ConcatIs ==
    ASSUME NEW X, NEW s \in Seq(X), NEW t \in Seq(X), NEW m, m = Len(s), NEW n, n = Len(t), NEW u, u = s \o t
    PROVE  /\ u \in Seq(X) /\ Len(u) = m + n /\ m \in Nat /\ n \in Nat
           /\ \A i \in 1..m : u[i] = s[i] /\ i \in 1..(m + n)
           /\ \A i \in 1..n : u[m + i] = t[i] /\ m + i \in 1..(m + n)
           /\ \A i \in 1..(m + n) : i \in 1..m \/ (i - m \in 1..n /\ u[i] = t[i - m])
<1>1. /\ u \in Seq(X) /\ Len(u) = m + n /\ m \in Nat /\ n \in Nat
      /\ \A i \in 1..m : u[i] = s[i] /\ i \in 1..(m + n)
      /\ \A i \in 1..n : u[m + i] = t[i] /\ m + i \in 1..(m + n)
  OBVIOUS
<1>2. ASSUME NEW i \in 1..(m + n), i \notin 1..m PROVE i - m \in 1..n /\ u[i] = t[i - m]
  <2>1. i - m \in 1..n /\ m + (i - m) = i
    BY <1>1, <1>2
  <2> QED
    BY <1>1, <2>1
<1> QED
  BY <1>1, <1>2

LEMMA ShiftCalls ==
    ASSUME NEW w, NEW x \in Stores, x.calls # <<>>, Content(w, x) \in Seq(Objs), NEW y,
           y.calls = Calls(Content(w, x), First(x).depth + 1) \o Tail(x.calls)
    PROVE  CallMoves(w, x, y) /\ y.calls \in Seq(Call)
<1> DEFINE l == Content(w, x)
           k == Calls(l, First(x).depth + 1)
           r == Tail(x.calls)
           m == Len(l)
           n == Len(x.calls)
<1>0. x.calls \in Seq(Call) /\ First(x) \in Call
  BY DEF Stores, First
<1>1. First(x).depth + 1 \in Nat
  BY <1>0 DEF Call
<1>2. k \in Seq(Call) /\ Len(k) = m
      /\ \A i \in 1..m : k[i] = [obj |-> l[i], depth |-> First(x).depth + 1, wearpos |-> 0]
  BY <1>1, CallsType
<1>3. r \in Seq(Call) /\ n \in Nat \ {0} /\ Len(r) = n - 1 /\ (\A i \in 1..(n - 1) : r[i] = x.calls[i + 1])
  BY <1>0
<1>4. m \in Nat
  OBVIOUS
<1>5. y.calls = k \o r
  OBVIOUS
<1> HIDE DEF l, k, r, m, n
<1> DEFINE q == n - 1
<1>6. q \in Nat /\ n = q + 1 /\ Len(r) = q
  BY <1>3
<1> HIDE DEF q
<1>7. /\ y.calls \in Seq(Call) /\ Len(y.calls) = m + q
      /\ \A i \in 1..m : y.calls[i] = k[i] /\ i \in 1..(m + q)
      /\ \A i \in 1..q : y.calls[m + i] = r[i] /\ m + i \in 1..(m + q)
      /\ \A i \in 1..(m + q) : i \in 1..m \/ (i - m \in 1..q /\ y.calls[i] = r[i - m])
  <2>1. k \in Seq(Call) /\ r \in Seq(Call) /\ m = Len(k) /\ q = Len(r)
    BY <1>2, <1>3, <1>6
  <2> DEFINE u == y.calls
  <2>2. u = k \o r
    BY <1>5
  <2> HIDE DEF u
  <2>3. /\ u \in Seq(Call) /\ Len(u) = m + q
        /\ \A i \in 1..m : u[i] = k[i] /\ i \in 1..(m + q)
        /\ \A i \in 1..q : u[m + i] = r[i] /\ m + i \in 1..(m + q)
        /\ \A i \in 1..(m + q) : i \in 1..m \/ (i - m \in 1..q /\ u[i] = r[i - m])
    BY <2>1, <2>2, ConcatIs
  <2> QED
    BY <2>3 DEF u
<1>8. ASSUME NEW i \in 2..n
      PROVE  (m + i) - 1 \in 1..(m + q) /\ y.calls[(m + i) - 1] = x.calls[i]
  <2>1. i - 1 \in 1..q /\ m + (i - 1) = (m + i) - 1 /\ (i - 1) + 1 = i /\ q = n - 1
    BY <1>3, <1>4, <1>6
  <2>2. r[i - 1] = x.calls[i]
    BY <1>3, <2>1
  <2> QED
    BY <1>7, <2>1, <2>2
<1>9. ASSUME NEW i \in 1..(m + q), i \notin 1..m
      PROVE  (i - m) + 1 \in 2..n /\ y.calls[i] = x.calls[(i - m) + 1]
  <2>1. i - m \in 1..q /\ y.calls[i] = r[i - m] /\ q = n - 1
    BY <1>3, <1>6, <1>7, <1>9
  <2>2. (i - m) + 1 \in 2..n
    BY <1>3, <1>4, <1>6, <2>1
  <2> QED
    BY <1>3, <2>1, <2>2
<1>10. m + q = (m + n) - 1
  BY <1>4, <1>6
<1>11. \A i \in 1..m : i \in 1..(m + q) /\ y.calls[i] = [obj |-> l[i], depth |-> First(x).depth + 1, wearpos |-> 0]
  BY <1>2, <1>7
<1> QED
  BY <1>3, <1>4, <1>7, <1>8, <1>9, <1>10, <1>11 DEF CallMoves, l, m, n

\* The same, field by field.
After(x, y, l, m, n) ==
    /\ m \in Nat /\ n \in Nat \ {0} /\ Len(y.calls) = (m + n) - 1
    /\ \A i \in 1..m : /\ i \in 1..Len(y.calls) /\ y.calls[i].obj = l[i]
                       /\ y.calls[i].depth = First(x).depth + 1 /\ y.calls[i].wearpos = 0
    /\ \A i \in 2..n : (m + i) - 1 \in 1..Len(y.calls) /\ y.calls[(m + i) - 1] = x.calls[i]
    /\ \A i \in 1..Len(y.calls) : i \in 1..m \/ ((i - m) + 1 \in 2..n /\ y.calls[i] = x.calls[(i - m) + 1])

LEMMA CallsAfter ==
    ASSUME NEW w, NEW x, NEW y, CallMoves(w, x, y)
    PROVE  After(x, y, Content(w, x), Len(Content(w, x)), Len(x.calls))
<1> DEFINE l == Content(w, x)
           m == Len(l)
           n == Len(x.calls)
<1>1. /\ m \in Nat /\ n \in Nat \ {0} /\ Len(y.calls) = (m + n) - 1
      /\ \A i \in 1..m : i \in 1..Len(y.calls) /\ y.calls[i] = [obj |-> l[i], depth |-> First(x).depth + 1, wearpos |-> 0]
      /\ \A i \in 2..n : (m + i) - 1 \in 1..Len(y.calls) /\ y.calls[(m + i) - 1] = x.calls[i]
      /\ \A i \in 1..Len(y.calls) : i \in 1..m \/ ((i - m) + 1 \in 2..n /\ y.calls[i] = x.calls[(i - m) + 1])
  BY DEF CallMoves
<1> HIDE DEF l, m, n
<1>2. ASSUME NEW i \in 1..m
      PROVE  /\ y.calls[i].obj = l[i] /\ y.calls[i].depth = First(x).depth + 1 /\ y.calls[i].wearpos = 0
  <2>1. y.calls[i] = [obj |-> l[i], depth |-> First(x).depth + 1, wearpos |-> 0]
    BY <1>1
  <2> QED
    BY <2>1
<1>3. After(x, y, l, m, n)
  BY <1>1, <1>2 DEF After
<1> QED
  BY <1>3 DEF l, m, n

LEMMA ObjToStoreIs ==
    ASSUME NEW w \in Worlds, NEW x \in Stores, x.calls # <<>>, NEW y, y = ObjToStore(w, x)
    PROVE  /\ y \in Stores /\ CallMoves(w, x, y) /\ First(x) \in Call /\ Slot(x) \in WearPos \cup {0}
           /\ Nobody(x, y) \/ Skipped(w, x, y) \/ Taken(w, x, y)
<1>0. /\ x.calls \in Seq(Call) /\ x.objects \in Seq(Elements) /\ x.wearpos \in WearPos \cup {0}
      /\ x = [calls |-> x.calls, objects |-> x.objects, wearpos |-> x.wearpos]
  BY DEF Stores
<1>1. Head(x.calls) = First(x) /\ First(x) \in Call
  BY <1>0 DEF First
<1>2. First(x).obj \in Objs \cup {Nothing} /\ First(x).depth \in Nat /\ First(x).wearpos \in WearPos \cup {0}
  BY <1>1 DEF Call
<1>3. Slot(x) \in WearPos \cup {0}
  BY <1>0, <1>2 DEF Slot
<1>4. Content(w, x) \in Seq(Objs)
  <2>1. <<>> \in Seq(Objs)
    OBVIOUS
  <2> QED
    BY <1>2, <2>1, WorldFields DEF Content
<1> DEFINE k == Calls(Content(w, x), First(x).depth + 1)
           r == Tail(x.calls)
           called == [calls |-> k \o r, objects |-> x.objects, wearpos |-> Slot(x)]
<1>5. CASE First(x).obj = Nothing
  <2>1. y = [x EXCEPT !.calls = r]
    BY <1>1, <1>5 DEF ObjToStore
  <2>2. k = <<>>
    BY <1>5 DEF Content, Calls
  <2>3. <<>> \o r = r /\ r \in Seq(Call)
    BY <1>0
  <2>4. y = [calls |-> r, objects |-> x.objects, wearpos |-> x.wearpos]
    BY <1>0, <2>1
  <2>5. y.calls = k \o r
    <3>1. y.calls = r
      BY <2>4
    <3> HIDE DEF k, r
    <3> QED
      BY <2>2, <2>3, <3>1
  <2>6. CallMoves(w, x, y)
    BY <1>4, <2>5, ShiftCalls
  <2>7. y \in Stores
    BY <1>0, <2>3, <2>4 DEF Stores
  <2> QED
    BY <1>1, <1>3, <1>5, <2>4, <2>6, <2>7 DEF Nobody
<1>6. CASE First(x).obj # Nothing
  <2>0. First(x).obj \in Objs
    BY <1>2, <1>6
  <2>1. y = IF Junk(w, First(x).obj) THEN called ELSE PutObjInStore(First(x).obj, First(x).depth, called)
    BY <1>1, <1>6 DEF ObjToStore, Content, Slot
  <2>2. called.calls = k \o r
    OBVIOUS
  <2>3. CallMoves(w, x, called) /\ k \o r \in Seq(Call)
    BY <1>4, <2>2, ShiftCalls
  <2>4. called \in Stores
    BY <1>0, <1>3, <2>3 DEF Stores
  <2>5. CASE Junk(w, First(x).obj) \/ Len(x.objects) >= MaxObjSave
    <3>1. y = called
      BY <2>1, <2>5 DEF PutObjInStore
    <3>2. Skipped(w, x, y)
      BY <2>0, <2>5, <3>1 DEF Skipped
    <3> QED
      BY <1>1, <1>3, <2>3, <2>4, <3>1, <3>2
  <2>6. CASE ~ (Junk(w, First(x).obj) \/ Len(x.objects) >= MaxObjSave)
    <3>0. Len(x.objects) \in Nat /\ Len(x.objects) < MaxObjSave
      BY <1>0, <2>6, RentAssumption
    <3>1. y = [calls |-> k \o r, objects |-> Append(x.objects, Element(x)), wearpos |-> 0]
      BY <2>1, <2>6 DEF PutObjInStore, Element
    <3>2. Element(x) \in Elements
      BY <1>2, <1>3, <2>0, <2>6 DEF Element, Elements, Junk
    <3>3. Append(x.objects, Element(x)) \in Seq(Elements)
      BY <1>0, <3>2
    <3>4. y \in Stores
      BY <2>3, <3>1, <3>3 DEF Stores
    <3>5. CallMoves(w, x, y)
      BY <1>4, <3>1, ShiftCalls
    <3>6. Taken(w, x, y)
      BY <2>0, <2>6, <3>0, <3>1, <3>2 DEF Taken
    <3> QED
      BY <1>1, <1>3, <3>4, <3>5, <3>6
  <2> QED
    BY <2>5, <2>6
<1> QED
  BY <1>5, <1>6

-----------------------------------------------------------------------------
(* Storing: what the turns keep.  V is what has had its turn, U the        *)
(* positions found empty.                                                  *)

CallObjs(x) == {x.calls[i].obj : i \in 1..Len(x.calls)} \ {Nothing}
Written(x) == {x.objects[i].obj : i \in 1..Len(x.objects)}

\* Every object has one turn, and none of those inside it is forgotten.
Seen(w, x, V) ==
    /\ V \subseteq Objs /\ V \cap CallObjs(x) = {}
    /\ \A i, j \in 1..Len(x.calls) :
         x.calls[i].obj = x.calls[j].obj /\ x.calls[i].obj # Nothing => i = j
    /\ \A c \in V : Inside(w, c) \subseteq V \cup CallObjs(x)
    /\ Carried(w) \cup Worn(w) \subseteq V \cup CallObjs(x)
    /\ \A o \in V \cup CallObjs(x) : o \in Carried(w) \cup Worn(w) \/ \E c \in V : o \in Inside(w, c)
    /\ V \cup CallObjs(x) \subseteq Held(w)

Turned(x, V) == IF First(x).obj = Nothing THEN V ELSE V \cup {First(x).obj}

LEMMA FirstIs ==
    ASSUME NEW x \in Stores, x.calls # <<>>
    PROVE  /\ 1 \in 1..Len(x.calls) /\ First(x) = x.calls[1] /\ First(x) \in Call
           /\ First(x).obj # Nothing => First(x).obj \in CallObjs(x) /\ First(x).obj \in Objs
<1>1. x.calls \in Seq(Call)
  BY DEF Stores
<1>2. 1 \in 1..Len(x.calls) /\ First(x) \in Call
  BY <1>1 DEF First
<1>3. First(x).obj # Nothing => First(x).obj \in Objs
  BY <1>2 DEF Call
<1> QED
  BY <1>2, <1>3 DEF First, CallObjs

LEMMA CallObjsStep ==
    ASSUME NEW w \in Worlds, NEW x \in Stores, x.calls # <<>>, NEW y \in Stores, CallMoves(w, x, y),
           NEW V, Seen(w, x, V)
    PROVE  CallObjs(y) = (CallObjs(x) \ {First(x).obj}) \cup ToSet(Content(w, x))
<1> DEFINE l == Content(w, x)
           m == Len(l)
           n == Len(x.calls)
<1>0. First(x).obj # Nothing => First(x).obj \in Objs
  BY FirstIs
<1>1. l \in Seq(Objs)
  <2>1. <<>> \in Seq(Objs)
    OBVIOUS
  <2> QED
    BY <1>0, <2>1, WorldFields DEF Content
<1>2. \A o : o \in ToSet(l) <=> \E i \in 1..m : l[i] = o
  BY <1>1, ToSetType
<1>3. ToSet(l) \subseteq Objs
  BY <1>1, ToSetType
<1>4. /\ m \in Nat /\ n \in Nat \ {0}
      /\ \A i \in 1..m : i \in 1..Len(y.calls) /\ y.calls[i].obj = l[i]
      /\ \A i \in 2..n : (m + i) - 1 \in 1..Len(y.calls) /\ y.calls[(m + i) - 1] = x.calls[i]
      /\ \A i \in 1..Len(y.calls) : i \in 1..m \/ ((i - m) + 1 \in 2..n /\ y.calls[i] = x.calls[(i - m) + 1])
  <2>1. After(x, y, l, m, n)
    BY CallsAfter
  <2> HIDE DEF l, m, n
  <2> QED
    BY <2>1 DEF After
<1> HIDE DEF l, m, n
<1>5. ASSUME NEW o \in CallObjs(y) PROVE o \in (CallObjs(x) \ {First(x).obj}) \cup ToSet(l)
  <2>1. PICK i \in 1..Len(y.calls) : y.calls[i].obj = o /\ o # Nothing
    BY <1>5 DEF CallObjs
  <2>2. CASE i \in 1..m
    BY <1>2, <1>4, <2>1, <2>2
  <2>3. CASE i \notin 1..m
    <3>1. (i - m) + 1 \in 2..n /\ x.calls[(i - m) + 1].obj = o
      BY <1>4, <2>1, <2>3
    <3>2. (i - m) + 1 \in 1..n /\ (i - m) + 1 # 1 /\ 1 \in 1..n
      BY <1>4, <3>1
    <3>3. o \in CallObjs(x)
      BY <2>1, <3>1, <3>2 DEF CallObjs, n
    <3>4. First(x) = x.calls[1]
      BY DEF First
    <3>5. o # First(x).obj
      BY <2>1, <3>1, <3>2, <3>4 DEF Seen, n
    <3> QED
      BY <3>3, <3>5
  <2> QED
    BY <2>2, <2>3
<1>6. ASSUME NEW o \in ToSet(l) PROVE o \in CallObjs(y)
  <2>1. PICK i \in 1..m : l[i] = o
    BY <1>2, <1>6
  <2>2. i \in 1..Len(y.calls) /\ y.calls[i].obj = o /\ o # Nothing
    BY <1>3, <1>4, <1>6, <2>1, RentAssumption
  <2> QED
    BY <2>2 DEF CallObjs
<1>7. ASSUME NEW o \in CallObjs(x), o # First(x).obj PROVE o \in CallObjs(y)
  <2>1. PICK i \in 1..n : x.calls[i].obj = o /\ o # Nothing
    BY <1>7 DEF CallObjs, n
  <2>2. i # 1
    BY <1>7, <2>1 DEF First
  <2>3. i \in 2..n
    BY <1>4, <2>2
  <2>4. (m + i) - 1 \in 1..Len(y.calls) /\ y.calls[(m + i) - 1].obj = o
    BY <1>4, <2>1, <2>3
  <2> QED
    BY <2>1, <2>4 DEF CallObjs
<1> QED
  BY <1>5, <1>6, <1>7 DEF l

LEMMA ContentIs ==
    ASSUME NEW w \in Worlds, One(w), NEW x \in Stores, x.calls # <<>>
    PROVE  /\ Content(w, x) \in Seq(Objs) /\ IsInjective(Content(w, x))
           /\ ToSet(Content(w, x)) = IF First(x).obj = Nothing THEN {} ELSE Inside(w, First(x).obj)
<1>1. First(x).obj # Nothing => First(x).obj \in Objs
  BY FirstIs
<1>2. <<>> \in Seq(Objs)
  OBVIOUS
<1> QED
  BY <1>1, <1>2, EmptyList, WorldFields DEF Content, Inside, One

LEMMA SeenStep ==
    ASSUME NEW w \in Worlds, One(w), NEW x \in Stores, x.calls # <<>>, NEW y \in Stores, CallMoves(w, x, y),
           NEW V, Seen(w, x, V)
    PROVE  Seen(w, y, Turned(x, V))
<1> DEFINE f == First(x).obj
           I == ToSet(Content(w, x))
           Z == Turned(x, V)
<1>1. CallObjs(y) = (CallObjs(x) \ {f}) \cup I
  BY CallObjsStep
<1>2. /\ V \subseteq Objs /\ V \cap CallObjs(x) = {}
      /\ \A c \in V : Inside(w, c) \subseteq V \cup CallObjs(x)
      /\ Carried(w) \cup Worn(w) \subseteq V \cup CallObjs(x)
      /\ \A o \in V \cup CallObjs(x) : o \in Carried(w) \cup Worn(w) \/ \E c \in V : o \in Inside(w, c)
      /\ V \cup CallObjs(x) \subseteq Held(w)
  BY DEF Seen
<1>3. f # Nothing => f \in Objs /\ f \in CallObjs(x) /\ f \notin V
  BY <1>2, FirstIs
<1>4. I = IF f = Nothing THEN {} ELSE Inside(w, f)
  BY ContentIs
<1>5. Z = IF f = Nothing THEN V ELSE V \cup {f}
  BY DEF Turned
<1>6. Nothing \notin CallObjs(x)
  BY DEF CallObjs
<1>7. Carried(w) \cup Worn(w) \subseteq Top(w)
  BY DEF Top
<1> HIDE DEF f, I, Z
\* What is inside the object has not been called.
<1>8. I \cap (V \cup CallObjs(x)) = {}
  <2> SUFFICES ASSUME NEW o \in I, o \in V \cup CallObjs(x) PROVE FALSE
    OBVIOUS
  <2>1. f \in Objs /\ f \notin V /\ o \in Inside(w, f)
    BY <1>3, <1>4
  <2>2. o \notin Top(w)
    BY <2>1 DEF One
  <2>3. PICK c \in V : o \in Inside(w, c)
    BY <1>2, <1>7, <2>2
  <2>4. c \in Objs /\ c # f
    BY <1>2, <2>1, <2>3
  <2> QED
    BY <2>1, <2>3, <2>4 DEF One
<1>9. Z \cup CallObjs(y) = (V \cup CallObjs(x)) \cup I
  BY <1>1, <1>3, <1>4, <1>5, <1>6
<1>10. Z \subseteq Objs /\ Z \cap CallObjs(y) = {}
  BY <1>1, <1>2, <1>3, <1>5, <1>6, <1>8
<1>11. \A c \in Z : Inside(w, c) \subseteq Z \cup CallObjs(y)
  BY <1>2, <1>4, <1>5, <1>9
<1>12. Carried(w) \cup Worn(w) \subseteq Z \cup CallObjs(y)
  BY <1>2, <1>9
<1>13. \A o \in Z \cup CallObjs(y) : o \in Carried(w) \cup Worn(w) \/ \E c \in Z : o \in Inside(w, c)
  BY <1>2, <1>4, <1>5, <1>9
<1>14. Z \cup CallObjs(y) \subseteq Held(w)
  <2>1. f # Nothing => f \in Held(w)
    BY <1>2, <1>3
  <2>2. I \subseteq Held(w)
    BY <1>4, <2>1, HeldIs
  <2> QED
    BY <1>2, <1>9, <2>2
<1>15. ASSUME NEW i \in 1..Len(y.calls), NEW j \in 1..Len(y.calls),
              y.calls[i].obj = y.calls[j].obj, y.calls[i].obj # Nothing
       PROVE  i = j
  <2> DEFINE l == Content(w, x)
             m == Len(l)
             n == Len(x.calls)
  <2>1. l \in Seq(Objs) /\ IsInjective(l) /\ \A o : o \in I <=> \E k \in 1..m : l[k] = o
    BY ContentIs, ToSetType DEF I
  <2>2. \A a, b \in 1..m : l[a] = l[b] => a = b
    BY <2>1 DEF IsInjective
  <2>3. /\ m \in Nat /\ n \in Nat \ {0}
        /\ \A k \in 1..m : k \in 1..Len(y.calls) /\ y.calls[k].obj = l[k]
        /\ \A k \in 1..Len(y.calls) : k \in 1..m \/ ((k - m) + 1 \in 2..n /\ y.calls[k] = x.calls[(k - m) + 1])
    <3>1. After(x, y, l, m, n)
      BY CallsAfter
    <3> HIDE DEF l, m, n
    <3> QED
      BY <3>1 DEF After
  <2> HIDE DEF l, m, n
  <2>4. \A k \in 1..m : y.calls[k].obj \in I
    BY <2>1, <2>3
  <2>5. ASSUME NEW k \in 1..Len(y.calls), k \notin 1..m, y.calls[k].obj # Nothing
        PROVE  /\ (k - m) + 1 \in 1..n /\ y.calls[k] = x.calls[(k - m) + 1]
               /\ y.calls[k].obj \in CallObjs(x)
    <3>1. (k - m) + 1 \in 2..n /\ y.calls[k] = x.calls[(k - m) + 1]
      BY <2>3, <2>5
    <3>2. (k - m) + 1 \in 1..n
      BY <2>3, <3>1
    <3> QED
      BY <2>5, <3>1, <3>2 DEF CallObjs, n
  <2>6. CASE i \in 1..m /\ j \in 1..m
    BY <1>15, <2>2, <2>3, <2>6
  <2>7. CASE i \notin 1..m /\ j \notin 1..m
    <3>1. (i - m) + 1 \in 1..n /\ (j - m) + 1 \in 1..n
          /\ x.calls[(i - m) + 1].obj = x.calls[(j - m) + 1].obj /\ x.calls[(i - m) + 1].obj # Nothing
      BY <1>15, <2>5, <2>7
    <3>2. (i - m) + 1 = (j - m) + 1
      BY <3>1 DEF Seen, n
    <3> QED
      BY <2>3, <3>2
  <2>8. CASE (i \in 1..m) # (j \in 1..m)
    BY <1>8, <1>15, <2>4, <2>5, <2>8
  <2> QED
    BY <2>6, <2>7, <2>8
<1> QED
  BY <1>10, <1>11, <1>12, <1>13, <1>14, <1>15 DEF Seen, Z


-----------------------------------------------------------------------------
(* Storing: the file.                                                      *)

\* Where the calls after a turn come from: from the content of the object, or
\* from the calls there were, in their order.
Comes(w, x, y, k) ==
    /\ \A i \in 1..Len(y.calls) :
         \/ /\ k[i] = 0 /\ y.calls[i].obj \in ToSet(Content(w, x))
            /\ y.calls[i].depth = First(x).depth + 1 /\ y.calls[i].wearpos = 0
         \/ k[i] \in 1..Len(x.calls) /\ k[i] # 1 /\ y.calls[i] = x.calls[k[i]]
    /\ \A i, j \in 1..Len(y.calls) : k[i] = k[j] /\ k[i] # 0 => i = j
    /\ \A i, j \in 1..Len(y.calls) : i < j /\ k[i] # 0 => k[i] < k[j]

LEMMA CallsCome ==
    ASSUME NEW w \in Worlds, NEW x \in Stores, x.calls # <<>>, NEW y \in Stores, CallMoves(w, x, y)
    PROVE  \E k : Comes(w, x, y, k)
<1> DEFINE l == Content(w, x)
           m == Len(l)
           n == Len(x.calls)
<1>1. l \in Seq(Objs)
  <2>1. First(x).obj # Nothing => First(x).obj \in Objs
    BY FirstIs
  <2>2. <<>> \in Seq(Objs)
    OBVIOUS
  <2> QED
    BY <2>1, <2>2, WorldFields DEF Content
<1>2. After(x, y, l, m, n)
  BY CallsAfter
<1>3. \A i \in 1..m : l[i] \in ToSet(l)
  BY <1>1, ToSetType
<1> HIDE DEF l, m, n
<1> DEFINE k == [i \in 1..Len(y.calls) |-> IF i \in 1..m THEN 0 ELSE (i - m) + 1]
<1>4. m \in Nat /\ n \in Nat \ {0}
  BY <1>2 DEF After
<1>5. ASSUME NEW i \in 1..Len(y.calls)
      PROVE  \/ /\ k[i] = 0 /\ y.calls[i].obj \in ToSet(l)
                /\ y.calls[i].depth = First(x).depth + 1 /\ y.calls[i].wearpos = 0
             \/ k[i] \in 1..n /\ k[i] # 1 /\ y.calls[i] = x.calls[k[i]]
  <2>1. CASE i \in 1..m
    <3>1. k[i] = 0
      BY <2>1
    <3>2. y.calls[i].obj = l[i] /\ y.calls[i].depth = First(x).depth + 1 /\ y.calls[i].wearpos = 0
      BY <1>2, <2>1 DEF After
    <3> HIDE DEF k
    <3> QED
      BY <1>3, <2>1, <3>1, <3>2
  <2>2. CASE i \notin 1..m
    <3>1. k[i] = (i - m) + 1
      BY <2>2
    <3>2. (i - m) + 1 \in 2..n /\ y.calls[i] = x.calls[(i - m) + 1]
      BY <1>2, <2>2 DEF After
    <3> HIDE DEF k
    <3>3. k[i] \in 1..n /\ k[i] # 1
      BY <1>4, <3>1, <3>2
    <3> QED
      BY <3>1, <3>2, <3>3
  <2> QED
    BY <2>1, <2>2
<1>6. \A i, j \in 1..Len(y.calls) : k[i] = k[j] /\ k[i] # 0 => i = j
  <2> SUFFICES ASSUME NEW i \in 1..Len(y.calls), NEW j \in 1..Len(y.calls), k[i] = k[j], k[i] # 0 PROVE i = j
    BY Zenon
  <2>1. k[i] = (i - m) + 1 /\ i \in Int
    OBVIOUS
  <2>2. k[j] = (j - m) + 1 /\ j \in Int
    OBVIOUS
  <2> HIDE DEF k
  <2>3. (i - m) + 1 = (j - m) + 1
    BY <2>1, <2>2
  <2>4. i \in Int /\ j \in Int /\ m \in Int
    BY <1>4
  <2> QED
    BY <2>3, <2>4
<1>7. \A i, j \in 1..Len(y.calls) : i < j /\ k[i] # 0 => k[i] < k[j]
  <2> SUFFICES ASSUME NEW i \in 1..Len(y.calls), NEW j \in 1..Len(y.calls), i < j, k[i] # 0 PROVE k[i] < k[j]
    BY Zenon
  <2>1. k[i] = (i - m) + 1 /\ i \in Int /\ i \notin 1..m
    OBVIOUS
  <2>2. j \in Int /\ j \notin 1..m
    BY <1>4, <2>1
  <2>3. k[j] = (j - m) + 1
    BY <2>2
  <2> HIDE DEF k
  <2> QED
    BY <1>4, <2>1, <2>2, <2>3
<1> HIDE DEF k
<1>8. Comes(w, x, y, k)
  BY <1>5, <1>6, <1>7 DEF Comes, l, n
<1> QED
  BY <1>8

\* The file after an element is written.
LEMMA TakenIs ==
    ASSUME NEW w, NEW x \in Stores, NEW y \in Stores, Taken(w, x, y), NEW n, n = Len(x.objects)
    PROVE  /\ n \in Nat /\ Len(y.objects) = n + 1
           /\ \A i \in 1..n : y.objects[i] = x.objects[i]
           /\ y.objects[n + 1] = Element(x)
           /\ \A i \in 1..(n + 1) : i \in 1..n \/ i = n + 1
           /\ Written(y) = Written(x) \cup {First(x).obj}
<1> DEFINE s == x.objects
           t == y.objects
           e == Element(x)
<1>1. s \in Seq(Elements) /\ t = Append(s, e) /\ e \in Elements
  BY DEF Stores, Taken
<1>2. e.obj = First(x).obj
  BY DEF Element
<1> HIDE DEF s, t, e
<1>3. n = Len(s)
  BY DEF s
<1>4. /\ n \in Nat /\ Len(t) = n + 1
      /\ \A i \in 1..n : t[i] = s[i]
      /\ t[n + 1] = e
      /\ \A i \in 1..(n + 1) : i \in 1..n \/ i = n + 1
      /\ n + 1 \in 1..(n + 1) /\ \A i \in 1..n : i \in 1..(n + 1)
  BY <1>1, <1>3
<1>5. {t[i].obj : i \in 1..(n + 1)} = {s[i].obj : i \in 1..n} \cup {e.obj}
  BY <1>4
<1> QED
  BY <1>2, <1>3, <1>4, <1>5 DEF Written, s, t, e


\* What is in the file has had its turn, and is there once.
Kept(x, V) ==
    /\ Written(x) \subseteq V
    /\ \A i, j \in 1..Len(x.objects) : x.objects[i].obj = x.objects[j].obj => i = j
    /\ IsFiniteSet(Written(x)) /\ Cardinality(Written(x)) = Len(x.objects) /\ Len(x.objects) <= MaxObjSave

LEMMA KeptStep ==
    ASSUME NEW w, NEW x \in Stores, NEW y \in Stores, NEW V, First(x).obj \notin V,
           Nobody(x, y) \/ Skipped(w, x, y) \/ Taken(w, x, y), Kept(x, V)
    PROVE  Kept(y, Turned(x, V))
<1>0. V \subseteq Turned(x, V)
  BY DEF Turned
<1>1. CASE Nobody(x, y) \/ Skipped(w, x, y)
  <2>1. y.objects = x.objects /\ Written(y) = Written(x)
    BY <1>1 DEF Nobody, Skipped, Written
  <2> QED
    BY <1>0, <2>1 DEF Kept
<1>2. CASE Taken(w, x, y)
  <2> DEFINE n == Len(x.objects)
             f == First(x).obj
  <2>0. n < MaxObjSave
    BY <1>2 DEF Taken
  <2>1. /\ n \in Nat /\ Len(y.objects) = n + 1
        /\ \A i \in 1..n : y.objects[i] = x.objects[i]
        /\ y.objects[n + 1] = Element(x)
        /\ \A i \in 1..(n + 1) : i \in 1..n \/ i = n + 1
        /\ Written(y) = Written(x) \cup {f}
    BY <1>2, TakenIs
  <2>2. f \in Objs /\ Element(x).obj = f
    BY <1>2 DEF Taken, Element
  <2>3. Turned(x, V) = V \cup {f}
    BY <2>2, RentAssumption DEF Turned
  <2>4. f \notin Written(x)
    BY DEF Kept
  <2>5. \A i \in 1..n : x.objects[i].obj # f
    BY <2>4 DEF Written
  <2>6. IsFiniteSet(Written(y)) /\ Cardinality(Written(y)) = Cardinality(Written(x)) + 1
    <3>1. IsFiniteSet(Written(x))
      BY DEF Kept
    <3>2. Written(y) = Written(x) \cup {f}
      BY <2>1
    <3> HIDE DEF f
    <3> QED
      BY <2>4, <3>1, <3>2, FS_AddElement
  <2>7. Cardinality(Written(x)) = n
    BY DEF Kept
  <2> HIDE DEF n, f
  <2>8. ASSUME NEW i \in 1..(n + 1), NEW j \in 1..(n + 1), y.objects[i].obj = y.objects[j].obj PROVE i = j
    <3>1. CASE i \in 1..n /\ j \in 1..n
      BY <2>1, <2>8, <3>1 DEF Kept, n
    <3>2. CASE i = n + 1 /\ j = n + 1
      BY <3>2
    <3>3. CASE i \in 1..n /\ j = n + 1
      BY <2>1, <2>2, <2>5, <2>8, <3>3
    <3>4. CASE i = n + 1 /\ j \in 1..n
      BY <2>1, <2>2, <2>5, <2>8, <3>4
    <3> QED
      BY <2>1, <3>1, <3>2, <3>3, <3>4
  <2>9. Len(y.objects) <= MaxObjSave /\ Cardinality(Written(y)) = Len(y.objects)
    BY <2>0, <2>1, <2>6, <2>7, RentAssumption DEF n
  <2>10. Written(y) \subseteq Turned(x, V)
    BY <2>1, <2>3 DEF Kept
  <2> QED
    BY <2>1, <2>6, <2>8, <2>9, <2>10 DEF Kept
<1> QED
  BY <1>1, <1>2

\* A position is in the calls and in the file once.
Wears(x) ==
    /\ \A i, j \in 1..Len(x.calls) :
         x.calls[i].wearpos = x.calls[j].wearpos /\ x.calls[i].wearpos # 0 => i = j
    /\ \A i, j \in 1..Len(x.objects) :
         x.objects[i].wearpos = x.objects[j].wearpos /\ x.objects[i].wearpos # 0 => i = j
    /\ \A i \in 1..Len(x.calls), j \in 1..Len(x.objects) :
         x.calls[i].wearpos = x.objects[j].wearpos => x.calls[i].wearpos = 0
    /\ \A i \in 1..Len(x.calls) : x.calls[i].wearpos = x.wearpos => x.wearpos = 0
    /\ \A i \in 1..Len(x.objects) : x.objects[i].wearpos = x.wearpos => x.wearpos = 0
    /\ \A i \in 1..Len(x.calls) : x.calls[i].obj = Nothing => x.calls[i].wearpos # 0

LEMMA WearsStep ==
    ASSUME NEW w \in Worlds, NEW x \in Stores, x.calls # <<>>, NEW y \in Stores, CallMoves(w, x, y),
           Nobody(x, y) \/ Skipped(w, x, y) \/ Taken(w, x, y), Wears(x)
    PROVE  Wears(y)
<1>1. PICK k : Comes(w, x, y, k)
  BY CallsCome
<1>2. 1 \in 1..Len(x.calls) /\ First(x) = x.calls[1] /\ First(x).wearpos \in WearPos \cup {0}
  BY FirstIs DEF Call
<1>3. Slot(x) = First(x).wearpos \/ Slot(x) = x.wearpos
  BY DEF Slot
<1>4. Nothing \notin ToSet(Content(w, x))
  <2>1. First(x).obj # Nothing => First(x).obj \in Objs
    BY FirstIs
  <2> QED
    BY <2>1, WorldSets, EmptyList DEF Content, Inside
\* A position that a later call has is not in the file, and not the slot.
<1>5. ASSUME NEW i \in 1..Len(y.calls), y.calls[i].wearpos # 0
      PROVE  /\ k[i] # 0 /\ k[i] \in 1..Len(x.calls) /\ y.calls[i] = x.calls[k[i]]
             /\ y.calls[i].wearpos # First(x).wearpos /\ y.calls[i].wearpos # Slot(x)
             /\ y.calls[i].wearpos # x.wearpos
             /\ \A j \in 1..Len(x.objects) : y.calls[i].wearpos # x.objects[j].wearpos
  <2>1. k[i] \in 1..Len(x.calls) /\ k[i] # 1 /\ y.calls[i] = x.calls[k[i]]
    BY <1>1, <1>5 DEF Comes
  <2>2. y.calls[i].wearpos # First(x).wearpos
    BY <1>2, <1>5, <2>1 DEF Wears
  <2>3. y.calls[i].wearpos # x.wearpos
    BY <1>5, <2>1 DEF Wears
  <2>4. \A j \in 1..Len(x.objects) : y.calls[i].wearpos # x.objects[j].wearpos
    BY <1>5, <2>1 DEF Wears
  <2> QED
    BY <1>3, <2>1, <2>2, <2>3, <2>4
<1>6. \A i, j \in 1..Len(y.calls) :
         y.calls[i].wearpos = y.calls[j].wearpos /\ y.calls[i].wearpos # 0 => i = j
  <2> SUFFICES ASSUME NEW i \in 1..Len(y.calls), NEW j \in 1..Len(y.calls),
                      y.calls[i].wearpos = y.calls[j].wearpos, y.calls[i].wearpos # 0
               PROVE  i = j
    BY Zenon
  <2>0. y.calls[j].wearpos # 0
    OBVIOUS
  <2>1. /\ k[i] \in 1..Len(x.calls) /\ y.calls[i] = x.calls[k[i]]
        /\ k[j] \in 1..Len(x.calls) /\ y.calls[j] = x.calls[k[j]] /\ k[i] = k[j]
    <3>1. k[i] \in 1..Len(x.calls) /\ y.calls[i] = x.calls[k[i]]
      BY <1>5
    <3>2. k[j] \in 1..Len(x.calls) /\ y.calls[j] = x.calls[k[j]]
      BY <1>5, <2>0
    <3>3. x.calls[k[i]].wearpos = x.calls[k[j]].wearpos /\ x.calls[k[i]].wearpos # 0
      BY <3>1, <3>2
    <3> QED
      BY <3>1, <3>2, <3>3 DEF Wears
  <2> QED
    BY <1>1, <1>5, <2>1 DEF Comes
<1>7. \A i \in 1..Len(y.calls) : y.calls[i].obj = Nothing => y.calls[i].wearpos # 0
  BY <1>1, <1>4 DEF Comes, Wears
<1>8. \A i \in 1..Len(x.objects) : x.objects[i].wearpos = Slot(x) => Slot(x) = 0
  BY <1>2, <1>3 DEF Wears
<1>9. CASE Nobody(x, y)
  <2>1. y.objects = x.objects /\ y.wearpos = x.wearpos
    BY <1>9 DEF Nobody
  <2> QED
    BY SMTT(30), <1>5, <1>6, <1>7, <2>1 DEF Wears
<1>10. CASE Skipped(w, x, y)
  <2>1. y.objects = x.objects /\ y.wearpos = Slot(x)
    BY <1>10 DEF Skipped
  <2> QED
    BY <1>5, <1>6, <1>7, <1>8, <2>1 DEF Wears
<1>11. CASE Taken(w, x, y)
  <2> DEFINE n == Len(x.objects)
  <2>1. /\ n \in Nat /\ Len(y.objects) = n + 1
        /\ \A i \in 1..n : y.objects[i] = x.objects[i]
        /\ y.objects[n + 1] = Element(x)
        /\ \A i \in 1..(n + 1) : i \in 1..n \/ i = n + 1
    BY <1>11, TakenIs
  <2>2. Element(x).wearpos = Slot(x) /\ y.wearpos = 0
    BY <1>11 DEF Element, Taken
  <2>3. \A i \in 1..n : x.objects[i].wearpos = Slot(x) => Slot(x) = 0
    BY <1>8
  <2>4. \A i, j \in 1..n : x.objects[i].wearpos = x.objects[j].wearpos /\ x.objects[i].wearpos # 0 => i = j
    BY DEF Wears
  <2>5. \A i \in 1..Len(y.calls), j \in 1..n : y.calls[i].wearpos = x.objects[j].wearpos => y.calls[i].wearpos = 0
    BY <1>5
  <2> HIDE DEF n
  <2>6. \A i \in 1..Len(y.calls), j \in 1..(n + 1) : y.calls[i].wearpos = y.objects[j].wearpos => y.calls[i].wearpos = 0
    BY <1>5, <2>1, <2>2, <2>5
  <2>7. \A i, j \in 1..(n + 1) : y.objects[i].wearpos = y.objects[j].wearpos /\ y.objects[i].wearpos # 0 => i = j
    BY <2>1, <2>2, <2>3, <2>4
  <2>8. /\ \A i \in 1..Len(y.calls) : y.calls[i].wearpos = y.wearpos => y.wearpos = 0
        /\ \A i \in 1..Len(y.objects) : y.objects[i].wearpos = y.wearpos => y.wearpos = 0
    BY <2>2
  <2> QED
    BY <1>6, <1>7, <2>1, <2>6, <2>7, <2>8 DEF Wears
<1> QED
  BY <1>9, <1>10, <1>11


\* Every turn is an object's, or that of an empty position: there are no more
\* turns than there are of both.  U is the positions found empty.
Counted(x, n, V, U) ==
    /\ U \subseteq WearPos /\ \A i \in 1..Len(x.calls) : x.calls[i].wearpos \notin U
    /\ x.calls = <<>> \/ n <= Cardinality(V) + Cardinality(U)

Emptied(x, U) == IF First(x).obj = Nothing THEN U \cup {First(x).wearpos} ELSE U

LEMMA CountedStep ==
    ASSUME NEW w \in Worlds, NEW x \in Stores, x.calls # <<>>, NEW y \in Stores, CallMoves(w, x, y), Wears(x),
           NEW V \in SUBSET Objs, First(x).obj \notin V, NEW U, NEW n \in Nat, Counted(x, n, V, U)
    PROVE  Counted(y, n + 1, Turned(x, V), Emptied(x, U))
<1>1. PICK k : Comes(w, x, y, k)
  BY CallsCome
<1>2. 1 \in 1..Len(x.calls) /\ First(x) = x.calls[1] /\ First(x).wearpos \in WearPos \cup {0}
      /\ First(x).obj \in Objs \cup {Nothing}
  BY FirstIs DEF Call
<1>3. IsFiniteSet(V) /\ IsFiniteSet(U) /\ Cardinality(V) \in Nat /\ Cardinality(U) \in Nat
  <2>1. IsFiniteSet(WearPos)
    <3>1. 1 \in Int /\ MaxWear \in Int
      BY RentAssumption
    <3> QED
      BY <3>1, FS_Interval DEF WearPos
  <2>2. U \subseteq WearPos
    BY DEF Counted
  <2> QED
    BY <2>1, <2>2, FS_Subset, FS_CardinalityType, RentAssumption
<1>4. n <= Cardinality(V) + Cardinality(U)
  BY DEF Counted
<1>5. CASE First(x).obj = Nothing
  <2>1. First(x).wearpos \in WearPos /\ First(x).wearpos \notin U
    BY <1>2, <1>5 DEF Wears, Counted
  <2>2. Turned(x, V) = V /\ Emptied(x, U) = U \cup {First(x).wearpos}
    BY <1>5 DEF Turned, Emptied
  <2>3. Cardinality(Emptied(x, U)) = Cardinality(U) + 1
    BY <1>3, <2>1, <2>2, FS_AddElement
  <2>4. Emptied(x, U) \subseteq WearPos
    BY <2>1, <2>2 DEF Counted
  <2>5. ASSUME NEW i \in 1..Len(y.calls) PROVE y.calls[i].wearpos \notin Emptied(x, U)
    <3>1. CASE y.calls[i].wearpos = 0
      BY <2>4, <3>1, RentAssumption DEF WearPos
    <3>2. CASE y.calls[i].wearpos # 0
      <4>1. k[i] \in 1..Len(x.calls) /\ k[i] # 1 /\ y.calls[i] = x.calls[k[i]]
        BY <1>1, <3>2 DEF Comes
      <4>2. y.calls[i].wearpos # First(x).wearpos
        BY <1>2, <3>2, <4>1 DEF Wears
      <4>3. y.calls[i].wearpos \notin U
        BY <4>1 DEF Counted
      <4> QED
        BY <2>2, <4>2, <4>3
    <3> QED
      BY <3>1, <3>2
  <2>6. n + 1 <= Cardinality(Turned(x, V)) + Cardinality(Emptied(x, U))
    BY <1>3, <1>4, <2>2, <2>3
  <2> QED
    BY <2>4, <2>5, <2>6 DEF Counted
<1>6. CASE First(x).obj # Nothing
  <2>2. Turned(x, V) = V \cup {First(x).obj} /\ Emptied(x, U) = U
    BY <1>6 DEF Turned, Emptied
  <2>3. Cardinality(Turned(x, V)) = Cardinality(V) + 1
    BY <1>3, <2>2, FS_AddElement
  <2>4. U \subseteq WearPos
    BY DEF Counted
  <2>5. ASSUME NEW i \in 1..Len(y.calls) PROVE y.calls[i].wearpos \notin U
    <3>1. CASE y.calls[i].wearpos = 0
      BY <2>4, <3>1, RentAssumption DEF WearPos
    <3>2. CASE y.calls[i].wearpos # 0
      BY <1>1, <3>2 DEF Comes, Counted
    <3> QED
      BY <3>1, <3>2
  <2>6. n + 1 <= Cardinality(Turned(x, V)) + Cardinality(Emptied(x, U))
    BY <1>3, <1>4, <2>2, <2>3
  <2> QED
    BY <2>2, <2>4, <2>5, <2>6 DEF Counted
<1> QED
  BY <1>5, <1>6

\* After all turns no call is left.
LEMMA CountedOut ==
    ASSUME NEW w \in Worlds, NEW x \in Stores, NEW V, Seen(w, x, V), Wears(x), NEW U,
           Counted(x, StoreTurns, V, U)
    PROVE  x.calls = <<>>
<1> SUFFICES ASSUME x.calls # <<>> PROVE FALSE
  OBVIOUS
<1>1. StoreTurns <= Cardinality(V) + Cardinality(U)
  BY DEF Counted
<1>2. V \subseteq Objs /\ U \subseteq WearPos
  BY DEF Seen, Counted
<1>3. IsFiniteSet(WearPos) /\ Cardinality(WearPos) = MaxWear
  BY FS_Interval, RentAssumption DEF WearPos
<1>4. /\ Cardinality(V) \in Nat /\ Cardinality(U) \in Nat /\ Cardinality(Objs) \in Nat
      /\ Cardinality(V) <= Cardinality(Objs) /\ Cardinality(U) <= MaxWear
  BY <1>2, <1>3, FS_Subset, FS_CardinalityType, RentAssumption
<1>5. V = Objs \/ Cardinality(V) < Cardinality(Objs)
  BY <1>2, <1>4, FS_Subset, RentAssumption
<1>6. U = WearPos \/ Cardinality(U) < MaxWear
  <2>1. Cardinality(U) = Cardinality(WearPos) => U = WearPos
    BY <1>2, <1>3, FS_Subset
  <2> QED
    BY <1>3, <1>4, <2>1, RentAssumption
<1>7. V = Objs /\ U = WearPos
  BY <1>1, <1>4, <1>5, <1>6, RentAssumption DEF StoreTurns
<1>8. 1 \in 1..Len(x.calls) /\ First(x) = x.calls[1] /\ First(x) \in Call
      /\ (First(x).obj # Nothing => First(x).obj \in CallObjs(x) /\ First(x).obj \in Objs)
  BY FirstIs
<1>9. CASE First(x).obj = Nothing
  <2>1. First(x).wearpos \in WearPos
    BY <1>8, <1>9 DEF Wears, Call
  <2> QED
    BY <1>7, <1>8, <2>1 DEF Counted
<1>10. CASE First(x).obj # Nothing
  BY <1>7, <1>8, <1>10 DEF Seen
<1> QED
  BY <1>9, <1>10

\* If there is room for everything and everything has a number, what is not
\* rotten is written.
Full(w, x, V) ==
    Held(w) \cap Corpses = {} /\ Cardinality(Held(w)) <= MaxObjSave => V \ w.rotten \subseteq Written(x)

LEMMA FullStep ==
    ASSUME NEW w \in Worlds, NEW x \in Stores, x.calls # <<>>, NEW y \in Stores,
           Nobody(x, y) \/ Skipped(w, x, y) \/ Taken(w, x, y), NEW V, Seen(w, x, V), Kept(x, V), Full(w, x, V)
    PROVE  Full(w, y, Turned(x, V))
<1> SUFFICES ASSUME Held(w) \cap Corpses = {}, Cardinality(Held(w)) <= MaxObjSave
             PROVE  Turned(x, V) \ w.rotten \subseteq Written(y)
  BY DEF Full
<1>0. V \ w.rotten \subseteq Written(x)
  BY DEF Full
<1>1. CASE Nobody(x, y)
  <2>1. Turned(x, V) = V /\ Written(y) = Written(x)
    BY <1>1 DEF Nobody, Turned, Written
  <2> QED
    BY <1>0, <2>1
<1>2. CASE Skipped(w, x, y)
  <2> DEFINE f == First(x).obj
  <2>1. f \in Objs /\ (Junk(w, f) \/ Len(x.objects) >= MaxObjSave) /\ Written(y) = Written(x)
    BY <1>2 DEF Skipped, Written
  <2>2. f # Nothing /\ Turned(x, V) = V \cup {f}
    BY <2>1, RentAssumption DEF Turned
  <2>3. f \in Held(w) /\ f \notin V /\ V \subseteq Held(w)
    BY <2>2, FirstIs DEF Seen
  <2>4. f \in w.rotten
    <3> SUFFICES ASSUME f \notin w.rotten PROVE FALSE
      OBVIOUS
    <3>1. Len(x.objects) >= MaxObjSave
      BY <2>1, <2>3 DEF Junk
    <3>2. IsFiniteSet(Held(w)) /\ IsFiniteSet(V)
      BY <2>3, HeldIs, FS_Subset, RentAssumption
    <3>3. Cardinality(V \cup {f}) = Cardinality(V) + 1 /\ Cardinality(V) \in Nat
      BY <2>3, <3>2, FS_AddElement, FS_CardinalityType
    <3>4. Cardinality(V \cup {f}) <= Cardinality(Held(w)) /\ Cardinality(Held(w)) \in Nat
      BY <2>3, <3>2, FS_Subset, FS_CardinalityType
    <3>5. Cardinality(Written(x)) <= Cardinality(V) /\ Cardinality(Written(x)) = Len(x.objects)
      BY <3>2, FS_Subset DEF Kept
    <3>6. Len(x.objects) \in Nat
      BY DEF Stores
    <3> HIDE DEF f
    <3> QED
      BY <3>1, <3>3, <3>4, <3>5, <3>6, RentAssumption
  <2> QED
    BY <1>0, <2>1, <2>2, <2>4
<1>3. CASE Taken(w, x, y)
  <2>1. Written(y) = Written(x) \cup {First(x).obj}
    BY ZenonT(60), <1>3, TakenIs
  <2> QED
    BY <1>0, <2>1 DEF Turned
<1> QED
  BY <1>1, <1>2, <1>3


-----------------------------------------------------------------------------
(* Storing: the shape of the file.                                         *)

\* o is the last object of depth d among the first n elements of s.
Latest(s, n, d, o) ==
    \E j \in 1..n : s[j].depth = d /\ s[j].obj = o /\ \A k \in 1..n : j < k => s[k].depth # d

LEMMA LatestStep ==
    ASSUME NEW s, NEW t, NEW n \in Nat, NEW m, m = n + 1, \A i \in 1..n : t[i] = s[i],
           NEW d, NEW o, t[m].depth # d, Latest(s, n, d, o)
    PROVE  Latest(t, m, d, o)
<1>1. PICK j \in 1..n : s[j].depth = d /\ s[j].obj = o /\ \A k \in 1..n : j < k => s[k].depth # d
  BY DEF Latest
<1>2. j \in 1..m /\ t[j].depth = d /\ t[j].obj = o
  BY <1>1
<1>3. \A k \in 1..m : k \in 1..n \/ k = m
  OBVIOUS
<1>4. \A k \in 1..m : j < k => t[k].depth # d
  BY <1>1, <1>3
<1> QED
  BY <1>2, <1>4 DEF Latest

LEMMA LatestNow ==
    ASSUME NEW t, NEW m \in Nat \ {0}
    PROVE  Latest(t, m, t[m].depth, t[m].obj)
<1>1. m \in 1..m /\ \A k \in 1..m : ~ (m < k)
  OBVIOUS
<1> QED
  BY <1>1 DEF Latest

LEMMA LatestSame ==
    ASSUME NEW s, NEW t, NEW n \in Nat, \A i \in 1..n : t[i] = s[i], NEW d, NEW o, Latest(s, n, d, o)
    PROVE  Latest(t, n, d, o)
BY DEF Latest

\* The calls go from the deeper to the less deep, and at depth 0 they are for
\* what is worn and carried.
CallShape(w, x) ==
    /\ \A i \in 1..Len(x.calls) :
         LET c == x.calls[i] IN
         /\ c.wearpos # 0 => c.depth = 0 /\ w.worn[c.wearpos] = c.obj
         /\ c.obj # Nothing /\ c.depth = 0 /\ c.wearpos = 0 => c.obj \in Carried(w)
    /\ \A i, j \in 1..Len(x.calls) : i < j => x.calls[j].depth <= x.calls[i].depth

LEMMA CallShapeStep ==
    ASSUME NEW w \in Worlds, NEW x \in Stores, x.calls # <<>>, NEW y \in Stores, CallMoves(w, x, y),
           CallShape(w, x)
    PROVE  CallShape(w, y)
<1>1. PICK k : Comes(w, x, y, k)
  BY CallsCome
<1>2. 1 \in 1..Len(x.calls) /\ First(x) = x.calls[1] /\ First(x).depth \in Nat
      /\ \A i \in 1..Len(x.calls) : x.calls[i].depth \in Nat
  <2>1. x.calls \in Seq(Call)
    BY DEF Stores
  <2>2. \A i \in 1..Len(x.calls) : x.calls[i] \in Call
    BY <2>1
  <2> QED
    BY <2>2, FirstIs DEF Call
<1>3. ASSUME NEW i \in 1..Len(y.calls), k[i] # 0
      PROVE  /\ k[i] \in 1..Len(x.calls) /\ y.calls[i] = x.calls[k[i]]
             /\ y.calls[i].depth \in Nat /\ y.calls[i].depth <= First(x).depth
  <2>1. k[i] \in 1..Len(x.calls) /\ k[i] # 1 /\ y.calls[i] = x.calls[k[i]]
    BY <1>1, <1>3 DEF Comes
  <2>2. 1 < k[i]
    BY <2>1
  <2> QED
    BY <1>2, <2>1, <2>2 DEF CallShape
<1>4. ASSUME NEW i \in 1..Len(y.calls), k[i] = 0
      PROVE  y.calls[i].depth = First(x).depth + 1 /\ y.calls[i].wearpos = 0
  BY <1>1, <1>4 DEF Comes
<1>5. ASSUME NEW i \in 1..Len(y.calls)
      PROVE  LET c == y.calls[i] IN
             /\ c.wearpos # 0 => c.depth = 0 /\ w.worn[c.wearpos] = c.obj
             /\ c.obj # Nothing /\ c.depth = 0 /\ c.wearpos = 0 => c.obj \in Carried(w)
  <2>1. CASE k[i] = 0
    BY <1>2, <1>4, <2>1
  <2>2. CASE k[i] # 0
    BY SMTT(30), <1>3, <2>2 DEF CallShape
  <2> QED
    BY <2>1, <2>2
<1>6. ASSUME NEW i \in 1..Len(y.calls), NEW j \in 1..Len(y.calls), i < j
      PROVE  y.calls[j].depth <= y.calls[i].depth
  <2>1. CASE k[i] = 0
    <3>1. y.calls[i].depth = First(x).depth + 1
      BY <1>4, <2>1
    <3>2. y.calls[j].depth = First(x).depth + 1 \/ (y.calls[j].depth \in Nat /\ y.calls[j].depth <= First(x).depth)
      BY <1>3, <1>4
    <3> QED
      BY <1>2, <3>1, <3>2
  <2>2. CASE k[i] # 0
    <3>1. k[i] < k[j]
      BY <1>1, <1>6, <2>2 DEF Comes
    <3>2. k[i] \in 1..Len(x.calls) /\ y.calls[i] = x.calls[k[i]]
      BY <1>3, <2>2
    <3>3. k[j] # 0
      BY <3>1, <3>2
    <3>4. k[j] \in 1..Len(x.calls) /\ y.calls[j] = x.calls[k[j]]
      BY <1>3, <3>3
    <3> QED
      BY <3>1, <3>2, <3>4 DEF CallShape
  <2> QED
    BY <2>1, <2>2
<1> QED
  BY <1>5, <1>6 DEF CallShape


\* If everything that had a turn is in the file, an element of depth above 0 is
\* inside the last one before it that is one less deep.
Shape(w, x) ==
    /\ x.wearpos = 0
    /\ \A i \in 1..Len(x.objects) :
         LET e == x.objects[i] IN
         /\ e.wearpos # 0 => e.depth = 0 /\ w.worn[e.wearpos] = e.obj
         /\ e.depth = 0 /\ e.wearpos = 0 => e.obj \in Carried(w)
         /\ e.depth # 0 => \E c \in Objs : Latest(x.objects, i - 1, e.depth - 1, c) /\ e.obj \in Inside(w, c)
    /\ \A i \in 1..Len(x.calls) :
         LET c == x.calls[i] IN
         c.depth # 0 => \E d \in Objs : Latest(x.objects, Len(x.objects), c.depth - 1, d) /\ c.obj \in Inside(w, d)

LEMMA ShapeNobody ==
    ASSUME NEW w \in Worlds, NEW x \in Stores, x.calls # <<>>, NEW y \in Stores, CallMoves(w, x, y),
           Nobody(x, y), Shape(w, x)
    PROVE  Shape(w, y)
<1>1. PICK k : Comes(w, x, y, k)
  BY CallsCome
<1>2. y.objects = x.objects /\ y.wearpos = x.wearpos /\ Content(w, x) = <<>>
  BY DEF Nobody, Content
<1>3. ASSUME NEW i \in 1..Len(y.calls)
      PROVE  k[i] \in 1..Len(x.calls) /\ y.calls[i] = x.calls[k[i]]
  BY <1>1, <1>2, EmptyList DEF Comes
<1> QED
  BY SMTT(30), <1>2, <1>3 DEF Shape

LEMMA ShapeTaken ==
    ASSUME NEW w \in Worlds, NEW x \in Stores, x.calls # <<>>, NEW y \in Stores, CallMoves(w, x, y),
           Taken(w, x, y), CallShape(w, x), Shape(w, x)
    PROVE  Shape(w, y)
<1> DEFINE n == Len(x.objects)
           d == First(x).depth
           f == First(x).obj
<1>1. PICK k : Comes(w, x, y, k)
  BY CallsCome
<1>2. /\ n \in Nat /\ Len(y.objects) = n + 1
      /\ \A i \in 1..n : y.objects[i] = x.objects[i]
      /\ y.objects[n + 1] = Element(x)
      /\ \A i \in 1..(n + 1) : i \in 1..n \/ i = n + 1
  BY TakenIs
<1>3. 1 \in 1..Len(x.calls) /\ First(x) = x.calls[1] /\ d \in Nat /\ f \in Objs
      /\ First(x).wearpos \in WearPos \cup {0}
  BY FirstIs DEF Call, Taken
<1>4. /\ y.wearpos = 0 /\ Element(x).obj = f /\ Element(x).depth = d
      /\ Element(x).wearpos = First(x).wearpos
  <2>1. x.wearpos = 0
    BY DEF Shape
  <2>2. Slot(x) = First(x).wearpos
    BY <1>3, <2>1 DEF Slot, WearPos
  <2> QED
    BY <2>2 DEF Taken, Element
<1>5. f # Nothing /\ Content(w, x) = w.contains[f]
  BY <1>3, RentAssumption DEF Content
<1>6. /\ First(x).wearpos # 0 => d = 0 /\ w.worn[First(x).wearpos] = f
      /\ d = 0 /\ First(x).wearpos = 0 => f \in Carried(w)
  BY <1>3, <1>5 DEF CallShape
<1>7. d # 0 => \E c \in Objs : Latest(x.objects, n, d - 1, c) /\ f \in Inside(w, c)
  BY <1>3 DEF Shape
<1>8. \A i \in 1..n : x.objects[i].depth \in Nat
  <2>1. x.objects \in Seq(Elements)
    BY DEF Stores
  <2>2. \A i \in 1..n : x.objects[i] \in Elements
    BY <2>1
  <2> QED
    BY <2>2 DEF Elements
\* The elements.
<1>9. ASSUME NEW i \in 1..Len(y.objects)
      PROVE  LET e == y.objects[i] IN
             /\ e.wearpos # 0 => e.depth = 0 /\ w.worn[e.wearpos] = e.obj
             /\ e.depth = 0 /\ e.wearpos = 0 => e.obj \in Carried(w)
             /\ e.depth # 0 => \E c \in Objs : Latest(y.objects, i - 1, e.depth - 1, c) /\ e.obj \in Inside(w, c)
  <2>1. CASE i \in 1..n
    <3>1. y.objects[i] = x.objects[i]
      BY <1>2, <2>1
    <3>2. /\ x.objects[i].wearpos # 0 => x.objects[i].depth = 0 /\ w.worn[x.objects[i].wearpos] = x.objects[i].obj
          /\ x.objects[i].depth = 0 /\ x.objects[i].wearpos = 0 => x.objects[i].obj \in Carried(w)
      BY <2>1 DEF Shape
    <3>3. ASSUME x.objects[i].depth # 0
          PROVE  \E c \in Objs : Latest(y.objects, i - 1, x.objects[i].depth - 1, c) /\ x.objects[i].obj \in Inside(w, c)
      <4>1. PICK c \in Objs : Latest(x.objects, i - 1, x.objects[i].depth - 1, c) /\ x.objects[i].obj \in Inside(w, c)
        BY <2>1, <3>3 DEF Shape
      <4>2. i - 1 \in Nat /\ \A j \in 1..(i - 1) : y.objects[j] = x.objects[j]
        BY <1>2, <2>1
      <4>3. Latest(y.objects, i - 1, x.objects[i].depth - 1, c)
        BY <4>1, <4>2, LatestSame
      <4> QED
        BY <4>1, <4>3
    <3> QED
      BY <3>1, <3>2, <3>3
  <2>2. CASE i = n + 1
    <3>1. y.objects[i] = Element(x)
      BY <1>2, <2>2
    <3>2. ASSUME d # 0
          PROVE  \E c \in Objs : Latest(y.objects, i - 1, d - 1, c) /\ f \in Inside(w, c)
      <4>1. PICK c \in Objs : Latest(x.objects, n, d - 1, c) /\ f \in Inside(w, c)
        BY <1>7, <3>2
      <4>2. Latest(y.objects, n, d - 1, c)
        BY <1>2, <4>1, LatestSame
      <4>3. i - 1 = n
        BY <1>2, <2>2
      <4> QED
        BY <4>1, <4>2, <4>3
    <3> HIDE DEF n, d, f
    <3> QED
      BY <1>4, <1>6, <3>1, <3>2
  <2> QED
    BY <1>2, <2>1, <2>2
\* The calls.
<1>10. ASSUME NEW i \in 1..Len(y.calls), y.calls[i].depth # 0
       PROVE  \E c \in Objs : Latest(y.objects, n + 1, y.calls[i].depth - 1, c) /\ y.calls[i].obj \in Inside(w, c)
  <2>1. CASE k[i] = 0
    <3>1. y.calls[i].obj \in Inside(w, f) /\ y.calls[i].depth = d + 1
      BY <1>1, <1>5, <2>1 DEF Comes, Inside
    <3>2. y.calls[i].depth - 1 = d
      BY <1>3, <3>1
    <3>3. Latest(y.objects, n + 1, d, f)
      <4>1. n + 1 \in Nat \ {0}
        BY <1>2
      <4> DEFINE m == n + 1
                 t == y.objects
      <4> HIDE DEF m, t
      <4>2. Latest(t, m, t[m].depth, t[m].obj)
        BY <4>1, LatestNow DEF m
      <4>3. t[m].depth = d /\ t[m].obj = f
        BY <1>2, <1>4 DEF m, t
      <4> QED
        BY <4>2, <4>3 DEF m, t
    <3> QED
      BY <1>3, <3>1, <3>2, <3>3
  <2>2. CASE k[i] # 0
    <3>1. k[i] \in 1..Len(x.calls) /\ k[i] # 1 /\ y.calls[i] = x.calls[k[i]]
      BY <1>1, <2>2 DEF Comes
    <3>2. PICK c \in Objs : Latest(x.objects, n, y.calls[i].depth - 1, c) /\ y.calls[i].obj \in Inside(w, c)
      BY <1>10, <3>1 DEF Shape
    <3>3. y.calls[i].depth <= d
      BY <1>3, <3>1 DEF CallShape
    <3>4. y.calls[i].depth \in Nat
      <4>1. y.calls \in Seq(Call)
        BY DEF Stores
      <4>2. y.calls[i] \in Call
        BY <4>1
      <4> QED
        BY <4>2 DEF Call
    <3> DEFINE g == y.calls[i].depth - 1
               s == x.objects
               t == y.objects
               m == n + 1
    <3>5. t[m].depth # g
      BY <1>2, <1>3, <1>4, <3>3, <3>4
    <3>6. n \in Nat /\ \A j \in 1..n : t[j] = s[j]
      BY <1>2
    <3>7. Latest(s, n, g, c) /\ m = n + 1
      BY <3>2
    <3> HIDE DEF g, s, t, n, m
    <3>8. Latest(t, m, g, c)
      BY <3>5, <3>6, <3>7, LatestStep
    <3> QED
      BY <3>2, <3>8 DEF g, t, n, m
  <2> QED
    BY <2>1, <2>2
<1> QED
  BY <1>2, <1>4, <1>9, <1>10 DEF Shape


-----------------------------------------------------------------------------
(* Storing: all turns.                                                     *)

Storage(w, n, x, V, U) ==
    /\ Seen(w, x, V) /\ Kept(x, V) /\ Wears(x) /\ Counted(x, n, V, U) /\ Full(w, x, V)
    /\ CallShape(w, x) /\ (V \subseteq Written(x) => Shape(w, x))

LEMMA StorageStep ==
    ASSUME NEW w \in Worlds, One(w), NEW x \in Stores, NEW n \in Nat, NEW V, NEW U, Storage(w, n, x, V, U)
    PROVE  ObjToStore(w, x) \in Stores /\ \E Z, Y : Storage(w, n + 1, ObjToStore(w, x), Z, Y)
<1> DEFINE y == ObjToStore(w, x)
<1>1. CASE x.calls = <<>>
  <2>1. y = x
    BY <1>1 DEF ObjToStore
  <2>2. Counted(x, n + 1, V, U)
    BY <1>1 DEF Storage, Counted
  <2>3. Storage(w, n + 1, y, V, U)
    BY <2>1, <2>2 DEF Storage
  <2> QED
    BY <2>1, <2>3
<1>2. CASE x.calls # <<>>
  <2>1. y \in Stores /\ CallMoves(w, x, y) /\ (Nobody(x, y) \/ Skipped(w, x, y) \/ Taken(w, x, y))
    BY <1>2, ObjToStoreIs
  <2> HIDE DEF y
  <2>2. First(x).obj \notin V /\ V \in SUBSET Objs
    <3>1. First(x).obj # Nothing => First(x).obj \in CallObjs(x)
      BY <1>2, FirstIs
    <3>2. V \subseteq Objs /\ V \cap CallObjs(x) = {}
      BY DEF Storage, Seen
    <3> QED
      BY <3>1, <3>2, RentAssumption
  <2> DEFINE Z == Turned(x, V)
             Y == Emptied(x, U)
  <2>3. Seen(w, y, Z)
    BY <1>2, <2>1, SeenStep DEF Storage
  <2>4. Kept(y, Z)
    BY <2>1, <2>2, KeptStep DEF Storage
  <2>5. Wears(y)
    BY <1>2, <2>1, WearsStep DEF Storage
  <2>6. Counted(y, n + 1, Z, Y)
    BY <1>2, <2>1, <2>2, CountedStep DEF Storage
  <2>7. Full(w, y, Z)
    BY <1>2, <2>1, FullStep DEF Storage
  <2>8. CallShape(w, y)
    BY <1>2, <2>1, CallShapeStep DEF Storage
  <2>9. ASSUME Z \subseteq Written(y) PROVE Shape(w, y)
    <3>0. Written(x) \subseteq V /\ CallShape(w, x)
      BY DEF Storage, Kept
    <3>1. CASE Nobody(x, y)
      <4>1. V = Z /\ Written(y) = Written(x)
        BY <3>1 DEF Nobody, Turned, Written
      <4>2. Shape(w, x)
        BY <2>9, <4>1 DEF Storage
      <4> QED
        BY <1>2, <2>1, <3>1, <4>2, ShapeNobody
    <3>2. CASE Skipped(w, x, y)
      <4>1. First(x).obj \in Z /\ Written(y) = Written(x)
        BY <3>2, RentAssumption DEF Skipped, Turned, Written
      <4> QED
        BY <2>2, <2>9, <3>0, <4>1
    <3>3. CASE Taken(w, x, y)
      <4>0. V \subseteq Z
        BY DEF Turned
      <4>1. Written(y) = Written(x) \cup {First(x).obj}
        BY ZenonT(60), <2>1, <3>3, TakenIs
      <4>2. V \subseteq Written(x)
        BY <2>2, <2>9, <4>0, <4>1
      <4>3. Shape(w, x)
        BY <4>2 DEF Storage
      <4> QED
        BY <1>2, <2>1, <3>0, <3>3, <4>3, ShapeTaken
    <3> QED
      BY <2>1, <3>1, <3>2, <3>3
  <2> HIDE DEF Z, Y
  <2>10. Storage(w, n + 1, y, Z, Y)
    BY <2>3, <2>4, <2>5, <2>6, <2>7, <2>8, <2>9 DEF Storage
  <2> QED
    BY <2>1, <2>10 DEF y
<1> QED
  BY <1>1, <1>2

\* What save_obj starts with.
Start(w) == [calls |-> Equipment(w) \o Calls(w.carrying, 0), objects |-> <<>>, wearpos |-> 0]

LEMMA StartIs ==
    ASSUME NEW w \in Worlds, NEW x, x = Start(w), NEW n, n = Len(w.carrying)
    PROVE  /\ x \in Stores /\ x.objects = <<>> /\ x.wearpos = 0
           /\ n \in Nat /\ Len(x.calls) = MaxWear + n
           /\ \A i \in 1..MaxWear : /\ i \in 1..(MaxWear + n) /\ x.calls[i].obj = w.worn[i]
                                    /\ x.calls[i].depth = 0 /\ x.calls[i].wearpos = i
           /\ \A i \in 1..n : /\ MaxWear + i \in 1..(MaxWear + n) /\ x.calls[MaxWear + i].obj = w.carrying[i]
           /\ \A i \in 1..(MaxWear + n) :
                \/ i \in 1..MaxWear
                \/ /\ i - MaxWear \in 1..n /\ x.calls[i].obj = w.carrying[i - MaxWear]
                   /\ x.calls[i].depth = 0 /\ x.calls[i].wearpos = 0
<1> DEFINE a == Equipment(w)
           b == Calls(w.carrying, 0)
           m == MaxWear
<1>1. w.carrying \in Seq(Objs) /\ w.worn \in [WearPos -> Objs \cup {Nothing}]
  BY WorldFields
<1>2. b \in Seq(Call) /\ Len(b) = n /\ \A i \in 1..n : b[i] = [obj |-> w.carrying[i], depth |-> 0, wearpos |-> 0]
  BY <1>1, CallsType
<1>3. a \in Seq(Call) /\ Len(a) = m /\ \A i \in 1..m : a[i] = [obj |-> w.worn[i], depth |-> 0, wearpos |-> i]
  <2>1. a = [p \in 1..m |-> [obj |-> w.worn[p], depth |-> 0, wearpos |-> p]]
    BY DEF Equipment, WearPos
  <2>2. \A p \in 1..m : [obj |-> w.worn[p], depth |-> 0, wearpos |-> p] \in Call
    BY <1>1 DEF Call, WearPos
  <2> HIDE DEF a
  <2>3. a \in [1..m -> Call]
    BY <2>1, <2>2
  <2> QED
    BY <2>1, <2>3, RentAssumption
<1>4. x = [calls |-> a \o b, objects |-> <<>>, wearpos |-> 0]
  BY DEF Start
<1> DEFINE u == a \o b
<1> HIDE DEF a, b
<1>5. /\ u \in Seq(Call) /\ Len(u) = m + n /\ m \in Nat /\ n \in Nat
      /\ \A i \in 1..m : u[i] = a[i] /\ i \in 1..(m + n)
      /\ \A i \in 1..n : u[m + i] = b[i] /\ m + i \in 1..(m + n)
      /\ \A i \in 1..(m + n) : i \in 1..m \/ (i - m \in 1..n /\ u[i] = b[i - m])
  <2>1. m = Len(a) /\ n = Len(b) /\ a \in Seq(Call) /\ b \in Seq(Call) /\ u = a \o b
    BY <1>2, <1>3
  <2> HIDE DEF u, m
  <2> QED
    BY <2>1, ConcatIs
<1>6. x.calls = u /\ x.objects = <<>> /\ x.wearpos = 0
  BY <1>4
<1>7. x \in Stores
  <2>1. <<>> \in Seq(Elements)
    OBVIOUS
  <2> HIDE DEF u
  <2> QED
    BY <1>4, <1>5, <1>6, <2>1 DEF Stores
<1> HIDE DEF u
<1>8. ASSUME NEW i \in 1..m
      PROVE  i \in 1..(m + n) /\ u[i].obj = w.worn[i] /\ u[i].depth = 0 /\ u[i].wearpos = i
  <2>1. u[i] = [obj |-> w.worn[i], depth |-> 0, wearpos |-> i]
    BY <1>3, <1>5
  <2> QED
    BY <1>5, <2>1
<1>9. ASSUME NEW i \in 1..n
      PROVE  m + i \in 1..(m + n) /\ u[m + i].obj = w.carrying[i]
  <2>1. u[m + i] = [obj |-> w.carrying[i], depth |-> 0, wearpos |-> 0]
    BY <1>2, <1>5
  <2> QED
    BY <1>5, <2>1
<1>10. ASSUME NEW i \in 1..(m + n), i \notin 1..m
       PROVE  i - m \in 1..n /\ u[i].obj = w.carrying[i - m] /\ u[i].depth = 0 /\ u[i].wearpos = 0
  <2>1. i - m \in 1..n /\ u[i] = b[i - m]
    BY <1>5, <1>10
  <2>2. u[i] = [obj |-> w.carrying[i - m], depth |-> 0, wearpos |-> 0]
    BY <1>2, <2>1
  <2> QED
    BY <2>1, <2>2
<1> QED
  BY <1>5, <1>6, <1>7, <1>8, <1>9, <1>10


LEMMA StartStorage ==
    ASSUME NEW w \in Worlds, One(w)
    PROVE  Start(w) \in Stores /\ Storage(w, 0, Start(w), {}, {})
<1> DEFINE x == Start(w)
           n == Len(w.carrying)
           m == MaxWear
           k == Len(x.calls)
<1> HIDE DEF x, n
<1>1. /\ x \in Stores /\ x.objects = <<>> /\ x.wearpos = 0
      /\ n \in Nat /\ k = m + n
      /\ \A i \in 1..m : /\ i \in 1..(m + n) /\ x.calls[i].obj = w.worn[i]
                         /\ x.calls[i].depth = 0 /\ x.calls[i].wearpos = i
      /\ \A i \in 1..n : /\ m + i \in 1..(m + n) /\ x.calls[m + i].obj = w.carrying[i]
      /\ \A i \in 1..(m + n) :
           \/ i \in 1..m
           \/ /\ i - m \in 1..n /\ x.calls[i].obj = w.carrying[i - m]
              /\ x.calls[i].depth = 0 /\ x.calls[i].wearpos = 0
  <2>1. x = Start(w) /\ n = Len(w.carrying)
    BY DEF x, n
  <2> QED
    BY <2>1, StartIs
<1>2. m \in Nat /\ WearPos = 1..m
  BY RentAssumption DEF WearPos
<1>3. w.carrying \in Seq(Objs) /\ w.worn \in [WearPos -> Objs \cup {Nothing}]
      /\ Carried(w) \subseteq Objs
  BY WorldFields, WorldSets
<1>4. (\A o : o \in Carried(w) <=> \E i \in 1..n : w.carrying[i] = o)
      /\ \A i, j \in 1..n : w.carrying[i] = w.carrying[j] => i = j
  <2>1. DOMAIN w.carrying = 1..n
    BY <1>3 DEF n
  <2> QED
    BY <1>3, <2>1, ToSetType DEF Carried, One, IsInjective, n
<1>5. CallObjs(x) = Carried(w) \cup Worn(w)
  <2>1. ASSUME NEW o \in CallObjs(x) PROVE o \in Carried(w) \cup Worn(w)
    <3>1. PICK i \in 1..k : x.calls[i].obj = o /\ o # Nothing
      BY <2>1 DEF CallObjs
    <3>2. CASE i \in 1..m
      BY SMTT(30), <1>1, <1>2, <3>1, <3>2 DEF Worn
    <3>3. CASE i \notin 1..m
      BY <1>1, <1>4, <3>1, <3>3
    <3> QED
      BY <3>2, <3>3
  <2>2. ASSUME NEW o \in Carried(w) PROVE o \in CallObjs(x)
    <3>1. PICK i \in 1..n : w.carrying[i] = o
      BY <1>4, <2>2
    <3>2. m + i \in 1..k /\ x.calls[m + i].obj = o /\ o # Nothing
      BY <1>1, <1>3, <2>2, <3>1, RentAssumption
    <3> QED
      BY <3>2 DEF CallObjs
  <2>3. ASSUME NEW o \in Worn(w) PROVE o \in CallObjs(x)
    <3>1. PICK i \in 1..m : w.worn[i] = o /\ o # Nothing
      BY <1>2, <2>3 DEF Worn
    <3>2. i \in 1..k /\ x.calls[i].obj = o
      BY <1>1, <3>1
    <3> QED
      BY <3>1, <3>2 DEF CallObjs
  <2> QED
    BY <2>1, <2>2, <2>3
<1>6. ASSUME NEW i \in 1..k, NEW j \in 1..k, x.calls[i].obj = x.calls[j].obj, x.calls[i].obj # Nothing
      PROVE  i = j
  <2>1. CASE i \in 1..m /\ j \in 1..m
    <3>1. i \in WearPos /\ j \in WearPos /\ w.worn[i] = w.worn[j] /\ w.worn[i] # Nothing
      BY <1>1, <1>2, <1>6, <2>1
    <3> QED
      BY <3>1 DEF One
  <2>2. CASE i \notin 1..m /\ j \notin 1..m
    <3>1. i - m \in 1..n /\ j - m \in 1..n /\ w.carrying[i - m] = w.carrying[j - m]
      BY <1>1, <1>6, <2>2
    <3>2. i - m = j - m
      BY <1>4, <3>1
    <3> QED
      BY <1>2, <3>2
  <2>3. \A a \in 1..m, b \in 1..k : b \notin 1..m => x.calls[a].obj # x.calls[b].obj \/ x.calls[a].obj = Nothing
    <3> SUFFICES ASSUME NEW a \in 1..m, NEW b \in 1..k, b \notin 1..m, x.calls[a].obj = x.calls[b].obj,
                        x.calls[a].obj # Nothing
                 PROVE  FALSE
      BY Zenon
    <3>1. w.worn[a] \in Worn(w)
      BY <1>1, <1>2 DEF Worn
    <3>2. x.calls[b].obj \in Carried(w)
      BY SMTT(30), <1>1, <1>4
    <3> QED
      BY <1>1, <3>1, <3>2 DEF One
  <2>4. CASE i \in 1..m /\ j \notin 1..m
    BY <1>6, <2>3, <2>4
  <2>5. CASE j \in 1..m /\ i \notin 1..m
    BY <1>6, <2>3, <2>5
  <2> QED
    BY <2>1, <2>2, <2>4, <2>5
<1>7. Seen(w, x, {})
  BY <1>5, <1>6, HeldIs DEF Seen
<1>8. Kept(x, {})
  <2>1. Len(x.objects) = 0
    BY <1>1
  <2>2. Written(x) = {}
    BY <2>1 DEF Written
  <2> QED
    BY <2>1, <2>2, FS_EmptySet, RentAssumption DEF Kept
<1>9. Wears(x)
  <2>1. Len(x.objects) = 0
    BY <1>1
  <2>2. \A i, j \in 1..k : x.calls[i].wearpos = x.calls[j].wearpos /\ x.calls[i].wearpos # 0 => i = j
    BY <1>1
  <2>3. \A i \in 1..k : x.calls[i].obj = Nothing => x.calls[i].wearpos # 0
    <3> SUFFICES ASSUME NEW i \in 1..k, x.calls[i].obj = Nothing PROVE x.calls[i].wearpos # 0
      OBVIOUS
    <3>1. CASE i \in 1..m
      BY <1>1, <3>1
    <3>2. CASE i \notin 1..m
      <4>1. Nothing \in Carried(w)
        BY SMTT(30), <1>1, <1>4, <3>2
      <4> QED
        BY <1>3, <4>1, RentAssumption
    <3> QED
      BY <3>1, <3>2
  <2> QED
    BY <1>1, <2>1, <2>2, <2>3 DEF Wears
<1>10. Counted(x, 0, {}, {})
  <2>1. 0 <= Cardinality({}) + Cardinality({})
    BY FS_EmptySet
  <2> QED
    BY <2>1 DEF Counted
<1>11. Full(w, x, {})
  BY DEF Full
<1>12. CallShape(w, x)
  <2>1. \A i \in 1..k : x.calls[i].depth = 0
    BY <1>1
  <2>2. ASSUME NEW i \in 1..k, x.calls[i].wearpos # 0
        PROVE  w.worn[x.calls[i].wearpos] = x.calls[i].obj
    BY <1>1, <2>2
  <2>3. ASSUME NEW i \in 1..k, x.calls[i].wearpos = 0 PROVE x.calls[i].obj \in Carried(w)
    BY <1>1, <1>4, <2>3
  <2> QED
    BY <2>1, <2>2, <2>3 DEF CallShape
<1>13. Shape(w, x)
  <2>1. Len(x.objects) = 0
    BY <1>1
  <2>2. \A i \in 1..k : x.calls[i].depth = 0
    BY <1>1
  <2> QED
    BY <1>1, <2>1, <2>2 DEF Shape
<1>14. Storage(w, 0, x, {}, {})
  BY <1>7, <1>8, <1>9, <1>10, <1>11, <1>12, <1>13 DEF Storage
<1> QED
  BY <1>1, <1>14 DEF x


\* The turns, as a function for every turn.
Turns(w) == [i \in 1..StoreTurns |-> [x \in Stores |-> ObjToStore(w, x)]]

StoreRuns(w, calls, st) ==
    st = [n \in 0..StoreTurns |-> IF n = 0 THEN [calls |-> calls, objects |-> <<>>, wearpos |-> 0]
                                  ELSE ObjToStore(w, st[n - 1])]

LEMMA StoringIs ==
    \A w, calls : Storing(w, calls) = (CHOOSE st : StoreRuns(w, calls, st))[StoreTurns]
BY DEF Storing, StoreRuns

LEMMA TurnsType ==
    ASSUME NEW w \in Worlds, NEW x \in Stores
    PROVE  ObjToStore(w, x) \in Stores
<1>1. CASE x.calls = <<>>
  BY <1>1 DEF ObjToStore
<1>2. CASE x.calls # <<>>
  BY <1>2, ObjToStoreIs
<1> QED
  BY <1>1, <1>2

\* What save_obj writes, and that all the calls have been made.
LEMMA SaveObjRuns ==
    ASSUME NEW w \in Worlds, One(w)
    PROVE  \E x \in Stores : \E V, U :
              /\ SaveObj(w) = x.objects
              /\ x.calls = <<>> /\ Storage(w, StoreTurns, x, V, U)
<1> DEFINE T == StoreTurns
           c == Equipment(w) \o Calls(w.carrying, 0)
           b == Start(w)
<1>0. T \in Nat
  BY FS_CardinalityType, RentAssumption DEF StoreTurns
<1>1. b = [calls |-> c, objects |-> <<>>, wearpos |-> 0] /\ b \in Stores
  BY StartStorage DEF Start
<1> HIDE DEF T, c, b
<1>2. \A x \in Stores, i \in 1..T : Turns(w)[i][x] = ObjToStore(w, x) /\ Turns(w)[i][x] \in Stores
  BY TurnsType DEF Turns, T
<1>3. PICK f \in [0..T -> Stores] : Runs(f, T, b, Turns(w))
  BY <1>0, <1>1, <1>2, RunExists
<1>4. f[0] = b /\ \A i \in 1..T : f[i] = ObjToStore(w, f[i - 1])
  <2>1. ASSUME NEW i \in 1..T PROVE f[i] = ObjToStore(w, f[i - 1])
    <3>1. i - 1 \in 0..T
      BY <1>0
    <3>2. f[i] = Turns(w)[i][f[i - 1]] /\ f[i - 1] \in Stores
      BY <1>3, <3>1 DEF Runs
    <3> QED
      BY <1>2, <3>2
  <2> QED
    BY <1>3, <2>1 DEF Runs
<1>5. StoreRuns(w, c, f)
  <2>1. ASSUME NEW n \in 0..T
        PROVE  f[n] = IF n = 0 THEN [calls |-> c, objects |-> <<>>, wearpos |-> 0]
                      ELSE ObjToStore(w, f[n - 1])
    <3>1. n = 0 \/ n \in 1..T
      BY <1>0
    <3> QED
      BY <1>1, <1>4, <3>1
  <2>2. f = [n \in 0..T |-> f[n]]
    OBVIOUS
  <2> QED
    BY <2>1, <2>2 DEF StoreRuns, T
<1> DEFINE g == CHOOSE st : StoreRuns(w, c, st)
<1>6. StoreRuns(w, c, g)
  BY <1>5
<1> HIDE DEF g
<1>7. g[0] = b /\ \A i \in 1..T : g[i] = ObjToStore(w, g[i - 1])
  <2>1. 0 \in 0..T /\ \A i \in 1..T : i \in 0..T /\ i # 0
    BY <1>0
  <2> QED
    BY <1>1, <1>6, <2>1 DEF StoreRuns, T
<1> DEFINE Q == {n \in 0..T : g[n] \in Stores /\ \E V, U : Storage(w, n, g[n], V, U)}
<1>8. 0 \in Q
  <2>1. g[0] \in Stores /\ Storage(w, 0, g[0], {}, {})
    BY <1>7, StartStorage DEF b
  <2> QED
    BY <1>0, <2>1
<1>9. \A n \in 1..T : n - 1 \in Q => n \in Q
  <2> SUFFICES ASSUME NEW n \in 1..T, n - 1 \in Q PROVE n \in Q
    OBVIOUS
  <2>1. PICK V, U : Storage(w, n - 1, g[n - 1], V, U)
    OBVIOUS
  <2>2. g[n - 1] \in Stores /\ n - 1 \in Nat /\ (n - 1) + 1 = n /\ n \in 0..T
    BY <1>0
  <2> DEFINE a == g[n - 1]
             k == n - 1
             y == ObjToStore(w, a)
  <2>3. a \in Stores /\ k \in Nat /\ Storage(w, k, a, V, U)
    BY <2>1, <2>2
  <2> HIDE DEF a, k
  <2>4. y \in Stores /\ \E Z, Y : Storage(w, k + 1, y, Z, Y)
    BY <2>3, StorageStep
  <2>5. g[n] = y /\ k + 1 = n
    BY <1>7, <2>2 DEF a, k
  <2> HIDE DEF y
  <2> QED
    BY <2>2, <2>4, <2>5
<1> HIDE DEF Q
<1>10. \A n \in 0..T : n \in Q
  BY <1>0, <1>8, <1>9, SegmentInduction
<1>11. T \in Q
  BY <1>0, <1>10
<1> DEFINE x == g[T]
<1>12. x \in Stores
  BY <1>11 DEF Q
<1>13. PICK V, U : Storage(w, T, x, V, U)
  BY <1>11 DEF Q
<1>14. SaveObj(w) = x.objects
  BY StoringIs DEF SaveObj, g, c, T
<1> HIDE DEF x
<1>15. x.calls = <<>>
  BY <1>12, <1>13, CountedOut DEF Storage, T
<1> QED
  BY <1>12, <1>13, <1>14, <1>15 DEF T

\* The file that save_obj writes.  saved is what do_save remembers of the world.
Described(s, saves) ==
    {s[i].obj : i \in 1..Len(s)} = DOMAIN saves =>
        \A i \in 1..Len(s) :
          LET e == s[i] IN
          /\ e.wearpos # 0 => e.depth = 0 /\ saves[e.obj] = {<<"worn", e.wearpos>>}
          /\ e.depth = 0 /\ e.wearpos = 0 => saves[e.obj] = {<<"carried">>}
          /\ e.depth # 0 => \E c : Latest(s, i - 1, e.depth - 1, c) /\ saves[e.obj] = {<<"in", c>>}

Objects(s, i) == {s[k].obj : k \in 1..i}

Filed(s) ==
    /\ s \in Seq(Elements) /\ Len(s) <= MaxObjSave
    /\ Cardinality({s[i].obj : i \in 1..Len(s)}) = Len(s)
    /\ \A i, j \in 1..Len(s) : s[i].obj = s[j].obj => i = j
    /\ \A i, j \in 1..Len(s) : s[i].wearpos = s[j].wearpos /\ s[i].wearpos # 0 => i = j

LEMMA SaveObjIs ==
    ASSUME NEW w \in Worlds, One(w), NEW s, s = SaveObj(w)
    PROVE  /\ Filed(s) /\ Described(s, Placement(w)) /\ Objects(s, Len(s)) \subseteq Held(w)
           /\ Held(w) \cap Corpses = {} /\ Cardinality(Held(w)) <= MaxObjSave
                => Held(w) \ w.rotten \subseteq Objects(s, Len(s))
<1> DEFINE O == {s[i].obj : i \in 1..Len(s)}
<1>0. PICK x \in Stores : \E V, U : s = x.objects /\ x.calls = <<>> /\ Storage(w, StoreTurns, x, V, U)
  BY SaveObjRuns
<1>1. PICK V, U : s = x.objects /\ x.calls = <<>> /\ Storage(w, StoreTurns, x, V, U)
  BY <1>0
<1>2. /\ Seen(w, x, V) /\ Kept(x, V) /\ Wears(x) /\ Full(w, x, V)
      /\ V \subseteq Written(x) => Shape(w, x)
  BY <1>1 DEF Storage
<1>3. O = Written(x)
  BY <1>1 DEF Written
<1>4. CallObjs(x) = {}
  BY <1>1 DEF CallObjs
<1>5. V = Held(w)
  <2>1. V \subseteq Held(w) /\ V \subseteq Objs
    BY <1>2 DEF Seen
  <2>2. Carried(w) \cup Worn(w) \subseteq V /\ \A c \in V : Inside(w, c) \subseteq V
    BY <1>2, <1>4 DEF Seen
  <2> QED
    BY <2>1, <2>2, HeldIs
<1>6. O \subseteq Held(w)
  BY <1>2, <1>3, <1>5 DEF Kept
<1>7. Held(w) \cap Corpses = {} /\ Cardinality(Held(w)) <= MaxObjSave => Held(w) \ w.rotten \subseteq O
  BY <1>2, <1>3, <1>5 DEF Full
<1>8. s \in Seq(Elements)
  BY <1>1 DEF Stores
<1>9. Filed(s)
  <2>1. Len(s) <= MaxObjSave /\ Cardinality(O) = Len(s)
    BY <1>1, <1>2, <1>3 DEF Kept
  <2>2. \A i, j \in 1..Len(s) : s[i].obj = s[j].obj => i = j
    BY <1>1, <1>2 DEF Kept
  <2>3. \A i, j \in 1..Len(s) : s[i].wearpos = s[j].wearpos /\ s[i].wearpos # 0 => i = j
    BY <1>1, <1>2 DEF Wears
  <2> QED
    BY <1>8, <2>1, <2>2, <2>3 DEF Filed
<1>10. Described(s, Placement(w))
  <2> DEFINE P == Placement(w)
  <2>1. DOMAIN P = Held(w) /\ \A o \in Held(w) : P[o] = Places(w, o)
    BY DEF Placement
  <2> HIDE DEF P
  <2>2. SUFFICES ASSUME O = DOMAIN P, NEW i \in 1..Len(s)
                 PROVE  LET e == s[i] IN
                        /\ e.wearpos # 0 => e.depth = 0 /\ P[e.obj] = {<<"worn", e.wearpos>>}
                        /\ e.depth = 0 /\ e.wearpos = 0 => P[e.obj] = {<<"carried">>}
                        /\ e.depth # 0 => \E c : Latest(s, i - 1, e.depth - 1, c) /\ P[e.obj] = {<<"in", c>>}
    BY DEF Described, P
  <2>3. Shape(w, x)
    BY <1>2, <1>3, <1>5, <2>1, <2>2
  <2> DEFINE e == s[i]
  <2>4. e \in Elements /\ e.obj \in O
    BY <1>8
  <2> HIDE DEF e
  <2>5. e.obj \in Objs /\ e.wearpos \in WearPos \cup {0} /\ P[e.obj] = Places(w, e.obj)
    BY <1>6, <2>1, <2>4 DEF Elements
  <2>6. /\ e.wearpos # 0 => e.depth = 0 /\ w.worn[e.wearpos] = e.obj
        /\ e.depth = 0 /\ e.wearpos = 0 => e.obj \in Carried(w)
        /\ e.depth # 0 => \E c \in Objs : Latest(s, i - 1, e.depth - 1, c) /\ e.obj \in Inside(w, c)
    BY <1>1, <2>3 DEF Shape, e
  <2>7. e.wearpos # 0 => P[e.obj] = {<<"worn", e.wearpos>>}
    BY <2>5, <2>6, PlaceIs
  <2>8. e.depth = 0 /\ e.wearpos = 0 => P[e.obj] = {<<"carried">>}
    BY <2>5, <2>6, PlaceIs
  <2>9. e.depth # 0 => \E c : Latest(s, i - 1, e.depth - 1, c) /\ P[e.obj] = {<<"in", c>>}
    BY <2>5, <2>6, PlaceIs
  <2> QED
    BY <2>6, <2>7, <2>8, <2>9 DEF e
<1> QED
  BY <1>6, <1>7, <1>9, <1>10 DEF Objects


-----------------------------------------------------------------------------
(* Restoring: one element.                                                 *)

Regains == [carrying : Seq(Objs), worn : [WearPos -> Objs \cup {Nothing}], contains : [Objs -> Seq(Objs)],
            floor : SUBSET Objs, into : [0..MaxDepth -> Objs \cup {Nothing}], cur : 0..MaxDepth, last : Objs \cup {Nothing}]

\* What obj_store_to_char makes of the depth and the position in the file.
Flat(e) == IF e.depth > MaxDepth THEN 0 ELSE e.depth
Weird(e) == Flat(e) > 0 /\ e.wearpos > 0
Deep(e) == IF Weird(e) THEN 0 ELSE Flat(e)
At(e) == IF Weird(e) THEN 0 ELSE e.wearpos
Into(r, e) == IF Deep(e) > r.cur THEN [r.into EXCEPT ![r.cur] = r.last] ELSE r.into
Cur(r, e) == IF Deep(e) > r.cur THEN r.cur + 1 ELSE IF Deep(e) < r.cur THEN r.cur - 1 ELSE r.cur

\* Where the object of the element goes.
ToWorn(r, e, y) ==
    /\ At(e) \in WearPos /\ r.worn[At(e)] = Nothing /\ y.worn = [r.worn EXCEPT ![At(e)] = e.obj]
    /\ y.carrying = r.carrying /\ y.contains = r.contains /\ y.floor = r.floor
ToFloor(R, r, e, y) ==
    /\ At(e) \in WearPos /\ r.worn[At(e)] = Nothing /\ e.obj \in R /\ y.floor = r.floor \cup {e.obj}
    /\ y.worn = r.worn /\ y.carrying = r.carrying /\ y.contains = r.contains
ToCarried(r, e, y) ==
    /\ At(e) = 0 /\ Cur(r, e) = 0 /\ y.carrying = <<e.obj>> \o r.carrying
    /\ y.worn = r.worn /\ y.contains = r.contains /\ y.floor = r.floor
ToInside(r, e, y) ==
    /\ At(e) = 0 /\ Cur(r, e) # 0 /\ Into(r, e)[Cur(r, e) - 1] \in Objs
    /\ y.contains = [r.contains EXCEPT ![Into(r, e)[Cur(r, e) - 1]] = <<e.obj>> \o @]
    /\ y.worn = r.worn /\ y.carrying = r.carrying /\ y.floor = r.floor
ToNowhere(r, e, y) ==
    /\ \/ At(e) \in WearPos /\ r.worn[At(e)] # Nothing
       \/ At(e) = 0 /\ Cur(r, e) # 0 /\ Into(r, e)[Cur(r, e) - 1] = Nothing
    /\ y.worn = r.worn /\ y.carrying = r.carrying /\ y.contains = r.contains /\ y.floor = r.floor

LEMMA RestoredIs ==
    ASSUME NEW R, NEW r \in Regains, NEW e \in Elements, NEW y, y = Restored(r, e, R)
    PROVE  /\ y \in Regains /\ y.last = e.obj /\ y.cur = Cur(r, e) /\ y.into = Into(r, e)
           /\ ToWorn(r, e, y) \/ ToFloor(R, r, e, y) \/ ToCarried(r, e, y) \/ ToInside(r, e, y) \/ ToNowhere(r, e, y)
<1>1. /\ r.carrying \in Seq(Objs) /\ r.worn \in [WearPos -> Objs \cup {Nothing}] /\ r.contains \in [Objs -> Seq(Objs)]
      /\ r.into \in [0..MaxDepth -> Objs \cup {Nothing}] /\ r.cur \in 0..MaxDepth /\ r.last \in Objs \cup {Nothing}
      /\ r.floor \in SUBSET Objs
  BY DEF Regains
<1>2. e.obj \in Objs /\ e.depth \in Nat /\ e.wearpos \in WearPos \cup {0}
  BY DEF Elements
<1>3. Flat(e) \in 0..MaxDepth
  BY <1>2, RentAssumption DEF Flat
<1>4. Deep(e) \in 0..MaxDepth /\ At(e) \in WearPos \cup {0} /\ (At(e) > 0 <=> At(e) \in WearPos)
  BY <1>2, <1>3, RentAssumption DEF Deep, At, WearPos
<1> DEFINE o == e.obj
           c == Cur(r, e)
           t == Into(r, e)
           p == At(e)
           moved == [r EXCEPT !.into = t, !.cur = c, !.last = o]
<1>5. c \in 0..MaxDepth /\ (c # 0 => c - 1 \in 0..MaxDepth)
  BY <1>1, <1>4, RentAssumption DEF Cur
<1>6. t \in [0..MaxDepth -> Objs \cup {Nothing}]
  BY <1>1 DEF Into
<1>7. y = IF p > 0
          THEN IF r.worn[p] # Nothing THEN moved
               ELSE IF o \in R THEN [moved EXCEPT !.floor = @ \cup {o}]
               ELSE [moved EXCEPT !.worn[p] = o]
          ELSE IF c = 0 THEN [moved EXCEPT !.carrying = <<o>> \o @]
          ELSE IF t[c - 1] # Nothing THEN [moved EXCEPT !.contains[t[c - 1]] = <<o>> \o @] ELSE moved
  BY DEF Restored, Flat, Weird, Deep, At, Into, Cur
<1> HIDE DEF o, c, t, p
<1>8. moved = [carrying |-> r.carrying, worn |-> r.worn, contains |-> r.contains, floor |-> r.floor,
                into |-> t, cur |-> c, last |-> o]
  <2>1. /\ moved.carrying = r.carrying /\ moved.worn = r.worn /\ moved.contains = r.contains
        /\ moved.into = t /\ moved.cur = c /\ moved.last = o /\ moved.floor = r.floor
    BY DEF Regains
  <2>2. o \in Objs
    BY <1>2 DEF o
  <2>3. moved \in Regains
    BY <1>5, <1>6, <2>2 DEF Regains
  <2> HIDE DEF moved
  <2> QED
    BY <2>1, <2>3 DEF Regains
<1> HIDE DEF moved
<1>9. o \in Objs
  BY <1>2 DEF o
<1>10. CASE p > 0 /\ r.worn[p] = Nothing /\ o \notin R
  <2> DEFINE f == [r.worn EXCEPT ![p] = o]
  <2>1. y = [carrying |-> r.carrying, worn |-> f, contains |-> r.contains, floor |-> r.floor, into |-> t, cur |-> c, last |-> o]
    BY <1>7, <1>8, <1>10
  <2>2. f \in [WearPos -> Objs \cup {Nothing}]
    BY <1>1, <1>9
  <2>3. p \in WearPos
    BY <1>4, <1>10 DEF p
  <2> HIDE DEF f
  <2>4. y \in Regains
    BY <1>1, <1>5, <1>6, <1>9, <2>1, <2>2 DEF Regains
  <2>5. ToWorn(r, e, y)
    BY <1>10, <2>1, <2>3 DEF ToWorn, f, p, o
  <2> QED
    BY <2>1, <2>4, <2>5 DEF o, c, t
<1>15. CASE p > 0 /\ r.worn[p] = Nothing /\ o \in R
  <2> DEFINE f == r.floor \cup {o}
  <2>1. y = [carrying |-> r.carrying, worn |-> r.worn, contains |-> r.contains, floor |-> f,
             into |-> t, cur |-> c, last |-> o]
    BY <1>7, <1>8, <1>15
  <2>2. f \in SUBSET Objs
    BY <1>1, <1>9
  <2>3. p \in WearPos
    BY <1>4, <1>15 DEF p
  <2> HIDE DEF f
  <2>4. y \in Regains
    BY <1>1, <1>5, <1>6, <1>9, <2>1, <2>2 DEF Regains
  <2>5. ToFloor(R, r, e, y)
    BY <1>15, <2>1, <2>3 DEF ToFloor, f, p, o
  <2> QED
    BY <2>1, <2>4, <2>5 DEF o, c, t
<1>11. CASE p > 0 /\ r.worn[p] # Nothing
  <2>1. y = moved
    BY <1>7, <1>11
  <2>3. p \in WearPos
    BY <1>4, <1>11 DEF p
  <2>4. y \in Regains
    BY <1>1, <1>5, <1>6, <1>8, <1>9, <2>1 DEF Regains
  <2>5. ToNowhere(r, e, y)
    BY <1>8, <1>11, <2>1, <2>3 DEF ToNowhere, p
  <2> QED
    BY <1>8, <2>1, <2>4, <2>5 DEF o, c, t
<1>12. CASE ~ (p > 0) /\ c = 0
  <2> DEFINE f == <<o>> \o r.carrying
  <2>1. y = [carrying |-> f, worn |-> r.worn, contains |-> r.contains, floor |-> r.floor, into |-> t, cur |-> c, last |-> o]
    BY <1>7, <1>8, <1>12
  <2>2. f \in Seq(Objs)
    BY <1>1, <1>9, ConsList
  <2>3. p = 0
    BY <1>4, <1>12 DEF p
  <2> HIDE DEF f
  <2>4. y \in Regains
    BY <1>1, <1>5, <1>6, <1>9, <2>1, <2>2 DEF Regains
  <2>5. ToCarried(r, e, y)
    BY <1>12, <2>1, <2>3 DEF ToCarried, f, p, o, c
  <2> QED
    BY <2>1, <2>4, <2>5 DEF o, c, t
<1>13. CASE ~ (p > 0) /\ c # 0 /\ t[c - 1] # Nothing
  <2> DEFINE d == t[c - 1]
             f == [r.contains EXCEPT ![d] = <<o>> \o @]
  <2>0. d \in Objs
    BY <1>5, <1>6, <1>13
  <2> HIDE DEF d
  <2>1. y = [carrying |-> r.carrying, worn |-> r.worn, contains |-> f, floor |-> r.floor, into |-> t, cur |-> c, last |-> o]
    BY <1>7, <1>8, <1>13 DEF d
  <2>2. f \in [Objs -> Seq(Objs)]
    <3>1. <<o>> \o r.contains[d] \in Seq(Objs)
      BY <1>1, <1>9, <2>0, ConsList
    <3> QED
      BY <1>1, <3>1
  <2>3. p = 0
    BY <1>4, <1>13 DEF p
  <2>4. y.contains = f /\ y.worn = r.worn /\ y.carrying = r.carrying /\ y.into = t /\ y.cur = c /\ y.last = o
        /\ y.floor = r.floor
    BY <2>1
  <2>5. ToInside(r, e, y)
    BY <1>13, <2>0, <2>3, <2>4 DEF ToInside, p, o, c, t, d
  <2> HIDE DEF f
  <2>6. y \in Regains
    BY <1>1, <1>5, <1>6, <1>9, <2>1, <2>2 DEF Regains
  <2> QED
    BY <2>4, <2>5, <2>6 DEF o, c, t
<1>14. CASE ~ (p > 0) /\ c # 0 /\ t[c - 1] = Nothing
  <2>1. y = moved
    BY <1>7, <1>14
  <2>3. p = 0
    BY <1>4, <1>14 DEF p
  <2>4. y \in Regains
    BY <1>1, <1>5, <1>6, <1>8, <1>9, <2>1 DEF Regains
  <2>5. ToNowhere(r, e, y)
    BY <1>8, <1>14, <2>1, <2>3 DEF ToNowhere, p, c, t
  <2> QED
    BY <1>8, <2>1, <2>4, <2>5 DEF o, c, t
<1> QED
  BY <1>10, <1>11, <1>12, <1>13, <1>14, <1>15


-----------------------------------------------------------------------------
(* Restoring: an object that was nowhere joins the forest.                 *)

JoinsWorn(w, v, o, p) ==
    /\ p \in WearPos /\ w.worn[p] = Nothing /\ v.worn = [w.worn EXCEPT ![p] = o]
    /\ v.floor = w.floor /\ v.carrying = w.carrying /\ v.contains = w.contains
JoinsInside(w, v, o, c) ==
    /\ c \in Objs /\ c # o /\ v.contains = [w.contains EXCEPT ![c] = <<o>> \o w.contains[c]]
    /\ v.floor = w.floor /\ v.carrying = w.carrying /\ v.worn = w.worn

LEMMA AddWorn ==
    ASSUME NEW w, Forest(w), NEW o \in Objs, o \notin InWorld(w), NEW v \in Worlds, NEW p, JoinsWorn(w, v, o, p)
    PROVE  /\ Forest(v) /\ Carried(v) = Carried(w) /\ Worn(v) = Worn(w) \cup {o}
           /\ v.worn[p] = o /\ \A q \in WearPos : q # p => v.worn[q] = w.worn[q]
           /\ \A d \in Objs : Inside(v, d) = Inside(w, d)
<1>0. /\ p \in WearPos /\ w.worn[p] = Nothing /\ v.worn = [w.worn EXCEPT ![p] = o]
      /\ v.floor = w.floor /\ v.carrying = w.carrying /\ v.contains = w.contains
  BY DEF JoinsWorn
<1>1. w \in Worlds /\ One(w) /\ Founded(w)
  BY DEF Forest
<1>2. o \notin Top(w) /\ \A d \in Objs : o \notin Inside(w, d)
  BY <1>1, InWorldIs
<1>5. Carried(v) = Carried(w) /\ \A d \in Objs : Inside(v, d) = Inside(w, d)
  BY <1>0 DEF Carried, Inside
<1>6. v.worn[p] = o /\ \A q \in WearPos : q # p => v.worn[q] = w.worn[q]
  BY <1>0, <1>1, WorldFields
<1>7. o # Nothing /\ \A q \in WearPos : w.worn[q] # o
  BY <1>1, <1>2, RentAssumption DEF Worn, Top
<1>8. Worn(v) = Worn(w) \cup {o}
  <2>1. ASSUME NEW x \in Worn(w) PROVE x \in Worn(v)
    BY <1>0, <1>6, <2>1 DEF Worn
  <2>2. o \in Worn(v)
    BY <1>0, <1>6, <1>7 DEF Worn
  <2>3. ASSUME NEW x \in Worn(v) PROVE x \in Worn(w) \cup {o}
    BY <1>6, <2>3 DEF Worn
  <2> QED
    BY <2>1, <2>2, <2>3
<1>9. One(v)
  <2>1. \A q, r \in WearPos : v.worn[q] = v.worn[r] /\ v.worn[q] # Nothing => q = r
    BY <1>1, <1>6, <1>7 DEF One
  <2> QED
    BY <1>0, <1>1, <1>2, <1>5, <1>8, <2>1 DEF One, Top
<1>10. Founded(v)
  BY <1>1, <1>5, FoundedLess
<1> QED
  BY <1>5, <1>6, <1>8, <1>9, <1>10 DEF Forest

LEMMA AddCarried ==
    ASSUME NEW w, Forest(w), NEW o \in Objs, o \notin InWorld(w),
           NEW v \in Worlds, v.floor = w.floor, v.carrying = <<o>> \o w.carrying, v.contains = w.contains,
           v.worn = w.worn
    PROVE  /\ Forest(v) /\ Carried(v) = Carried(w) \cup {o} /\ Worn(v) = Worn(w)
           /\ \A d \in Objs : Inside(v, d) = Inside(w, d)
<1>1. w \in Worlds /\ One(w) /\ Founded(w)
  BY DEF Forest
<1>2. o \notin Top(w) /\ \A d \in Objs : o \notin Inside(w, d)
  BY <1>1, InWorldIs
<1>3. Carried(v) = Carried(w) \cup {o} /\ IsInjective(v.carrying)
  BY <1>1, <1>2, ConsList, WorldFields DEF One, Carried, Top
<1>4. Worn(v) = Worn(w) /\ \A d \in Objs : Inside(v, d) = Inside(w, d)
  BY DEF Worn, Inside
<1>5. One(v)
  BY <1>1, <1>2, <1>3, <1>4 DEF One, Top
<1>6. Founded(v)
  BY <1>1, <1>4, FoundedLess
<1> QED
  BY <1>3, <1>4, <1>5, <1>6 DEF Forest

LEMMA AddFloor ==
    ASSUME NEW w, Forest(w), NEW o \in Objs, o \notin InWorld(w),
           NEW v \in Worlds, v.floor = w.floor \cup {o}, v.carrying = w.carrying, v.contains = w.contains,
           v.worn = w.worn
    PROVE  /\ Forest(v) /\ Carried(v) = Carried(w) /\ Worn(v) = Worn(w)
           /\ \A d \in Objs : Inside(v, d) = Inside(w, d)
<1>1. w \in Worlds /\ One(w) /\ Founded(w)
  BY DEF Forest
<1>2. o \notin Top(w) /\ \A d \in Objs : o \notin Inside(w, d)
  BY <1>1, InWorldIs
<1>3. Carried(v) = Carried(w) /\ Worn(v) = Worn(w) /\ \A d \in Objs : Inside(v, d) = Inside(w, d)
  BY DEF Carried, Worn, Inside
<1>4. One(v)
  BY <1>1, <1>2, <1>3 DEF One, Top
<1>5. Founded(v)
  BY <1>1, <1>3, FoundedLess
<1> QED
  BY <1>3, <1>4, <1>5 DEF Forest

LEMMA AddInside ==
    ASSUME NEW w, Forest(w), NEW o \in Objs, o \notin InWorld(w), Inside(w, o) = {},
           NEW v \in Worlds, NEW c, JoinsInside(w, v, o, c)
    PROVE  /\ Forest(v) /\ Carried(v) = Carried(w) /\ Worn(v) = Worn(w)
           /\ Inside(v, c) = Inside(w, c) \cup {o}
           /\ \A d \in Objs : d # c => Inside(v, d) = Inside(w, d)
<1>0. /\ c \in Objs /\ c # o /\ v.contains = [w.contains EXCEPT ![c] = <<o>> \o w.contains[c]]
      /\ v.floor = w.floor /\ v.carrying = w.carrying /\ v.worn = w.worn
  BY DEF JoinsInside
<1>1. w \in Worlds /\ One(w) /\ Founded(w)
  BY DEF Forest
<1>2. o \notin Top(w) /\ \A d \in Objs : o \notin Inside(w, d)
  BY <1>1, InWorldIs
<1>3. Carried(v) = Carried(w) /\ Worn(v) = Worn(w)
  BY <1>0 DEF Carried, Worn
<1>4. v.contains[c] = <<o>> \o w.contains[c] /\ \A d \in Objs : d # c => v.contains[d] = w.contains[d]
  BY <1>0, <1>1, WorldFields
<1>5. /\ ToSet(<<o>> \o w.contains[c]) = Inside(w, c) \cup {o} /\ IsInjective(<<o>> \o w.contains[c])
  BY <1>0, <1>1, <1>2, ConsList, WorldFields DEF One, Inside
<1>6. /\ Inside(v, c) = Inside(w, c) \cup {o} /\ IsInjective(v.contains[c])
      /\ \A d \in Objs : d # c => v.contains[d] = w.contains[d] /\ Inside(v, d) = Inside(w, d)
  BY <1>0, <1>4, <1>5 DEF Inside
<1>7. One(v)
  BY <1>0, <1>1, <1>2, <1>3, <1>6 DEF One, Top
\* In a set whose objects are all inside others of it, o is of no use, for
\* nothing is inside o.
<1>8. Founded(v)
  <2> SUFFICES ASSUME NEW S \in SUBSET Objs, \A x \in S : \E d \in S : x \in Inside(v, d)
               PROVE  S = {}
    BY DEF Founded
  <2>1. Inside(v, o) = {}
    BY <1>0, <1>6
  <2> DEFINE T == S \ {o}
  <2>2. \A x \in T : \E d \in T : x \in Inside(w, d)
    <3> SUFFICES ASSUME NEW x \in T PROVE \E d \in T : x \in Inside(w, d)
      OBVIOUS
    <3>1. PICK d \in S : x \in Inside(v, d)
      OBVIOUS
    <3>2. d # o /\ x # o
      BY <2>1, <3>1
    <3> QED
      BY <1>0, <1>6, <3>1, <3>2
  <2>3. T = {}
    <3>1. T \in SUBSET Objs
      OBVIOUS
    <3> HIDE DEF T
    <3> QED
      BY <1>1, <2>2, <3>1 DEF Founded
  <2> QED
    BY <2>1, <2>3
<1> QED
  BY <1>3, <1>6, <1>7, <1>8 DEF Forest


-----------------------------------------------------------------------------
(* Restoring: what the elements made of the world.                         *)

Regained(w, r) ==
    [w EXCEPT !.carrying = r.carrying, !.worn = r.worn, !.contains = r.contains, !.floor = r.floor]

\* The world in which nothing of the file is yet, or left.
Vacant(w, s) ==
    /\ Forest(w) /\ Carried(w) = {} /\ Worn(w) = {} /\ Filed(s)
    /\ Objects(s, Len(s)) \cap InWorld(w) = {}

Made(w, s, R, i, r) ==
    LET v == Regained(w, r) IN
    /\ r \in Regains /\ Forest(v)
    /\ Carried(v) \cup Worn(v) \subseteq Objects(s, i)
    /\ \A c \in Objs : Inside(v, c) \subseteq InWorld(w) \cup Objects(s, i)
    /\ \A c \in Objects(s, Len(s)) : Inside(v, c) \subseteq Objects(s, i)
    /\ \A c \in Objects(s, Len(s)) \ Objects(s, i) : Inside(v, c) = {}
    /\ \A d \in 0..MaxDepth : r.into[d] \in Objects(s, i) \cup {Nothing}
    /\ r.last \in Objects(s, i) \cup {Nothing}
    /\ \A p \in WearPos : r.worn[p] # Nothing => \E k \in 1..i : s[k].wearpos = p
    /\ w.floor \subseteq r.floor /\ r.floor \subseteq w.floor \cup (R \cap Objects(s, i))

\* What the element e does to the world v, that becomes u.
Grows(R, r, e, v, u) ==
    \/ /\ At(e) \in WearPos /\ r.worn[At(e)] = Nothing /\ e.obj \in R /\ u.floor = v.floor \cup {e.obj}
       /\ u.worn = v.worn /\ Worn(u) = Worn(v) /\ Carried(u) = Carried(v)
       /\ \A d \in Objs : Inside(u, d) = Inside(v, d)
    \/ /\ At(e) \in WearPos /\ r.worn[At(e)] = Nothing /\ u.floor = v.floor /\ Carried(u) = Carried(v)
       /\ Worn(u) = Worn(v) \cup {e.obj} /\ u.worn[At(e)] = e.obj
       /\ \A q \in WearPos : q # At(e) => u.worn[q] = v.worn[q]
       /\ \A d \in Objs : Inside(u, d) = Inside(v, d)
    \/ /\ At(e) = 0 /\ Cur(r, e) = 0 /\ u.floor = v.floor /\ Carried(u) = Carried(v) \cup {e.obj}
       /\ u.worn = v.worn /\ Worn(u) = Worn(v) /\ \A d \in Objs : Inside(u, d) = Inside(v, d)
    \/ \E c \in Objs :
         /\ At(e) = 0 /\ Cur(r, e) # 0 /\ c = Into(r, e)[Cur(r, e) - 1]
         /\ Inside(u, c) = Inside(v, c) \cup {e.obj}
         /\ \A d \in Objs : d # c => Inside(u, d) = Inside(v, d)
         /\ u.floor = v.floor /\ u.worn = v.worn /\ Worn(u) = Worn(v) /\ Carried(u) = Carried(v)
    \/ /\ \/ At(e) \in WearPos /\ r.worn[At(e)] # Nothing
          \/ At(e) = 0 /\ Cur(r, e) # 0 /\ Into(r, e)[Cur(r, e) - 1] = Nothing
       /\ u.floor = v.floor /\ u.worn = v.worn /\ Worn(u) = Worn(v) /\ Carried(u) = Carried(v)
       /\ \A d \in Objs : Inside(u, d) = Inside(v, d)

LEMMA RegainedIs ==
    ASSUME NEW w \in Worlds, NEW r \in Regains, NEW v, v = Regained(w, r)
    PROVE  /\ v \in Worlds /\ v.carrying = r.carrying /\ v.worn = r.worn /\ v.contains = r.contains
           /\ v.floor = r.floor /\ v.rotten = w.rotten
<1>1. r.carrying \in Seq(Objs) /\ r.worn \in [WearPos -> Objs \cup {Nothing}] /\ r.contains \in [Objs -> Seq(Objs)]
      /\ r.floor \in SUBSET Objs
  BY DEF Regains
<1>2. /\ v.carrying = r.carrying /\ v.worn = r.worn /\ v.contains = r.contains
      /\ v.floor = r.floor /\ v.rotten = w.rotten
  BY DEF Regained, Worlds
<1>3. v \in Worlds
  BY <1>1 DEF Regained, Worlds
<1> QED
  BY <1>2, <1>3

LEMMA CursorIs ==
    ASSUME NEW r \in Regains, NEW e \in Elements
    PROVE  /\ Deep(e) \in 0..MaxDepth /\ At(e) \in WearPos \cup {0} /\ Cur(r, e) \in 0..MaxDepth
           /\ Cur(r, e) # 0 => Cur(r, e) - 1 \in 0..MaxDepth
           /\ \A d \in 0..MaxDepth :
                \/ Into(r, e)[d] = r.into[d] /\ (d = r.cur => Deep(e) <= r.cur)
                \/ d = r.cur /\ Deep(e) > r.cur /\ Into(r, e)[d] = r.last
<1>1. /\ r.into \in [0..MaxDepth -> Objs \cup {Nothing}] /\ r.cur \in 0..MaxDepth
      /\ e.depth \in Nat /\ e.wearpos \in WearPos \cup {0}
  BY DEF Regains, Elements
<1>2. Flat(e) \in 0..MaxDepth
  BY <1>1, RentAssumption DEF Flat
<1>3. Deep(e) \in 0..MaxDepth /\ At(e) \in WearPos \cup {0}
  BY <1>1, <1>2, RentAssumption DEF Deep, At
<1>4. Cur(r, e) \in 0..MaxDepth /\ (Cur(r, e) # 0 => Cur(r, e) - 1 \in 0..MaxDepth)
  BY <1>1, <1>3, RentAssumption DEF Cur
<1>5. ASSUME NEW d \in 0..MaxDepth
      PROVE  \/ Into(r, e)[d] = r.into[d] /\ (d = r.cur => Deep(e) <= r.cur)
             \/ d = r.cur /\ Deep(e) > r.cur /\ Into(r, e)[d] = r.last
  <2>1. CASE Deep(e) > r.cur
    BY <1>1, <2>1 DEF Into
  <2>2. CASE ~ (Deep(e) > r.cur)
    BY <1>1, <1>3, <2>2 DEF Into
  <2> QED
    BY <2>1, <2>2
<1> QED
  BY <1>3, <1>4, <1>5

LEMMA ObjectsStep ==
    ASSUME NEW s, Filed(s), NEW i \in 1..Len(s), NEW o, o = s[i].obj
    PROVE  /\ s[i] \in Elements /\ o \in Objects(s, Len(s)) /\ o \in Objs /\ o \notin Objects(s, i - 1)
           /\ Objects(s, i) = Objects(s, i - 1) \cup {o} /\ Objects(s, i) \subseteq Objects(s, Len(s))
<1>1. s \in Seq(Elements) /\ \A a, b \in 1..Len(s) : s[a].obj = s[b].obj => a = b
  BY DEF Filed
<1>2. s[i] \in Elements /\ o \in Objs
  <2>1. s[i] \in Elements
    BY <1>1
  <2> QED
    BY <2>1 DEF Elements
<1>3. o \in Objects(s, Len(s))
  BY DEF Objects
<1>4. 1..i = 1..(i - 1) \cup {i} /\ i \notin 1..(i - 1) /\ 1..i \subseteq 1..Len(s)
  BY <1>1
<1>5. o \notin Objects(s, i - 1)
  BY <1>1, <1>4 DEF Objects
<1>6. Objects(s, i) = Objects(s, i - 1) \cup {o} /\ Objects(s, i) \subseteq Objects(s, Len(s))
  BY <1>4 DEF Objects
<1> QED
  BY <1>2, <1>3, <1>5, <1>6

LEMMA GrowIs ==
    ASSUME NEW w, NEW s, NEW R, Vacant(w, s), NEW i \in 1..Len(s), NEW r, Made(w, s, R, i - 1, r), NEW y, y = Restored(r, s[i], R),
           NEW v, v = Regained(w, r), NEW u, u = Regained(w, y)
    PROVE  Forest(u) /\ Grows(R, r, s[i], v, u)
<1> DEFINE e == s[i]
           o == s[i].obj
<1>1. /\ e \in Elements /\ o \in Objects(s, Len(s)) /\ o \in Objs /\ o \notin Objects(s, i - 1)
  BY ObjectsStep DEF Vacant
<1>2. r \in Regains /\ Forest(v) /\ v \in Worlds /\ w \in Worlds
  BY DEF Made, Vacant, Forest
<1>3. /\ y \in Regains
      /\ ToWorn(r, e, y) \/ ToFloor(R, r, e, y) \/ ToCarried(r, e, y) \/ ToInside(r, e, y) \/ ToNowhere(r, e, y)
  BY <1>1, <1>2, RestoredIs
<1>4. /\ v.carrying = r.carrying /\ v.worn = r.worn /\ v.contains = r.contains /\ v.floor = r.floor
      /\ u.carrying = y.carrying /\ u.worn = y.worn /\ u.contains = y.contains /\ u.floor = y.floor /\ u \in Worlds
  BY <1>2, <1>3, RegainedIs
<1>5. o \notin InWorld(v)
  <2>1. o \notin InWorld(w) /\ Carried(v) \cup Worn(v) \subseteq Objects(s, i - 1)
        /\ \A c \in Objs : Inside(v, c) \subseteq InWorld(w) \cup Objects(s, i - 1)
        /\ r.floor \subseteq w.floor \cup Objects(s, i - 1)
    BY <1>1 DEF Vacant, Made
  <2>2. o \notin r.floor
    BY <1>1, <1>2, <2>1, InWorldIs DEF Top
  <2> QED
    BY <1>1, <1>2, <1>4, <2>1, <2>2, InWorldIs DEF Top
<1>6. Inside(v, o) = {}
  BY <1>1 DEF Made
<1> HIDE DEF e, o
<1>11. Forest(v) /\ o \in Objs /\ o \notin InWorld(v) /\ Inside(v, o) = {} /\ u \in Worlds
  BY <1>1, <1>2, <1>4, <1>5, <1>6 DEF o
<1>7. CASE ToWorn(r, e, y)
  <2>1. /\ At(e) \in WearPos /\ v.worn[At(e)] = Nothing /\ u.worn = [v.worn EXCEPT ![At(e)] = o]
        /\ u.carrying = v.carrying /\ u.contains = v.contains /\ u.floor = v.floor
    BY <1>4, <1>7 DEF ToWorn, e, o
  <2>2. /\ Forest(u) /\ Carried(u) = Carried(v) /\ Worn(u) = Worn(v) \cup {o}
        /\ u.worn[At(e)] = o /\ \A q \in WearPos : q # At(e) => u.worn[q] = v.worn[q]
        /\ \A d \in Objs : Inside(u, d) = Inside(v, d)
    <3> DEFINE p == At(e)
    <3>1. /\ p \in WearPos /\ v.worn[p] = Nothing /\ u.worn = [v.worn EXCEPT ![p] = o]
      BY <2>1
    <3> HIDE DEF p
    <3>2. /\ Forest(u) /\ Carried(u) = Carried(v) /\ Worn(u) = Worn(v) \cup {o}
          /\ u.worn[p] = o /\ \A q \in WearPos : q # p => u.worn[q] = v.worn[q]
          /\ \A d \in Objs : Inside(u, d) = Inside(v, d)
      <4>1. JoinsWorn(v, u, o, p)
        BY <2>1, <3>1 DEF JoinsWorn
      <4> QED
        BY <1>11, <4>1, AddWorn
    <3> QED
      BY <3>2 DEF p
  <2> QED
    BY <1>4, <2>1, <2>2 DEF Grows, e, o
<1>12. CASE ToFloor(R, r, e, y)
  <2>1. /\ u.floor = v.floor \cup {o} /\ u.carrying = v.carrying /\ u.worn = v.worn /\ u.contains = v.contains
        /\ At(e) \in WearPos /\ r.worn[At(e)] = Nothing /\ o \in R
    BY <1>4, <1>12 DEF ToFloor, e, o
  <2>2. /\ Forest(u) /\ Carried(u) = Carried(v) /\ Worn(u) = Worn(v)
        /\ \A d \in Objs : Inside(u, d) = Inside(v, d)
    BY <1>11, <2>1, AddFloor
  <2> QED
    BY <2>1, <2>2 DEF Grows, e, o
<1>8. CASE ToCarried(r, e, y)
  <2>1. /\ u.carrying = <<o>> \o v.carrying /\ u.worn = v.worn /\ u.contains = v.contains /\ u.floor = v.floor
        /\ At(e) = 0 /\ Cur(r, e) = 0
    BY <1>4, <1>8 DEF ToCarried, e, o
  <2>2. /\ Forest(u) /\ Carried(u) = Carried(v) \cup {o} /\ Worn(u) = Worn(v)
        /\ \A d \in Objs : Inside(u, d) = Inside(v, d)
    BY <1>11, <2>1, AddCarried
  <2> QED
    BY <2>1, <2>2 DEF Grows, e, o
<1>9. CASE ToInside(r, e, y)
  <2> DEFINE c == Into(r, e)[Cur(r, e) - 1]
  <2>1. /\ c \in Objs /\ u.carrying = v.carrying /\ u.worn = v.worn /\ u.floor = v.floor
        /\ u.contains = [v.contains EXCEPT ![c] = <<o>> \o @]
        /\ At(e) = 0 /\ Cur(r, e) # 0
    BY <1>4, <1>9 DEF ToInside, e, o
  <2>2. c # o
    <3>1. Cur(r, e) - 1 \in 0..MaxDepth
      BY <1>1, <1>2, <2>1, CursorIs DEF e
    <3>2. c = r.into[Cur(r, e) - 1] \/ c = r.last
      BY <1>1, <1>2, <3>1, CursorIs DEF e
    <3>3. c \in Objects(s, i - 1) \cup {Nothing}
      BY <3>1, <3>2 DEF Made
    <3> QED
      BY <1>1, <3>3, RentAssumption
  <2> HIDE DEF c
  <2>3. /\ Forest(u) /\ Carried(u) = Carried(v) /\ Worn(u) = Worn(v)
        /\ Inside(u, c) = Inside(v, c) \cup {o} /\ \A d \in Objs : d # c => Inside(u, d) = Inside(v, d)
    <3>1. JoinsInside(v, u, o, c)
      BY <2>1, <2>2 DEF JoinsInside
    <3> QED
      BY <1>11, <3>1, AddInside
  <2> QED
    BY <2>1, <2>3 DEF Grows, e, o, c
<1>10. CASE ToNowhere(r, e, y)
  <2>1. /\ u.carrying = v.carrying /\ u.worn = v.worn /\ u.contains = v.contains /\ u.floor = v.floor
        /\ \/ At(e) \in WearPos /\ r.worn[At(e)] # Nothing
           \/ At(e) = 0 /\ Cur(r, e) # 0 /\ Into(r, e)[Cur(r, e) - 1] = Nothing
    BY <1>4, <1>10 DEF ToNowhere
  <2>2. Carried(u) = Carried(v) /\ Worn(u) = Worn(v) /\ \A d \in Objs : Inside(u, d) = Inside(v, d)
    BY <2>1 DEF Carried, Worn, Inside
  <2>3. One(v) /\ Founded(v)
    BY <1>2 DEF Forest
  <2>4. One(u)
    BY <2>1, <2>2, <2>3 DEF One, Top
  <2>5. Founded(u)
    BY <2>2, <2>3 DEF Founded
  <2> QED
    <3>1. Forest(u)
      BY <1>4, <2>4, <2>5 DEF Forest
    <3>2. Grows(R, r, e, v, u)
      BY <2>1, <2>2 DEF Grows
    <3> QED
      BY <3>1, <3>2 DEF e
<1> QED
  BY <1>3, <1>7, <1>8, <1>9, <1>10, <1>12


LEMMA MadeStep ==
    ASSUME NEW w, NEW s, NEW R, Vacant(w, s), NEW i \in 1..Len(s), NEW r, Made(w, s, R, i - 1, r), NEW y, y = Restored(r, s[i], R)
    PROVE  Made(w, s, R, i, y)
<1> DEFINE e == s[i]
           o == s[i].obj
           v == Regained(w, r)
           u == Regained(w, y)
           P == Objects(s, i - 1)
           O == Objects(s, i)
           A == Objects(s, Len(s))
<1>1. e \in Elements /\ o \in A /\ o \in Objs /\ o \notin P /\ O = P \cup {o} /\ O \subseteq A
  BY ObjectsStep DEF Vacant
<1>2. /\ r \in Regains
      /\ Carried(v) \cup Worn(v) \subseteq P
      /\ \A c \in Objs : Inside(v, c) \subseteq InWorld(w) \cup P
      /\ \A c \in A : Inside(v, c) \subseteq P
      /\ \A c \in A \ P : Inside(v, c) = {}
      /\ \A d \in 0..MaxDepth : r.into[d] \in P \cup {Nothing}
      /\ r.last \in P \cup {Nothing}
      /\ \A p \in WearPos : r.worn[p] # Nothing => \E k \in 1..(i - 1) : s[k].wearpos = p
      /\ w.floor \subseteq r.floor /\ r.floor \subseteq w.floor \cup (R \cap P)
  BY DEF Made
<1>3. /\ y \in Regains /\ y.last = o /\ y.into = Into(r, e)
  BY <1>1, <1>2, RestoredIs
<1>4. Forest(u) /\ Grows(R, r, e, v, u)
  BY GrowIs
<1>5. w \in Worlds
  BY DEF Vacant, Forest
<1>6. v.worn = r.worn /\ u.worn = y.worn /\ v.floor = r.floor /\ u.floor = y.floor
  BY <1>2, <1>3, <1>5, RegainedIs
<1>7. \A d \in 0..MaxDepth : Into(r, e)[d] = r.into[d] \/ Into(r, e)[d] = r.last
  BY <1>1, <1>2, CursorIs
<1>8. Cur(r, e) # 0 => Cur(r, e) - 1 \in 0..MaxDepth
  BY <1>1, <1>2, CursorIs
<1>9. e.obj = o
  OBVIOUS
<1>10. A \subseteq Objs
  <2>1. s \in Seq(Elements)
    BY DEF Vacant, Filed
  <2>2. \A k \in 1..Len(s) : s[k] \in Elements
    BY <2>1
  <2> QED
    BY <2>2 DEF Objects, Elements
<1> HIDE DEF e, o, v, u, P, O, A
<1>11. /\ Carried(u) \cup Worn(u) \subseteq O
       /\ \A c \in Objs : Inside(u, c) \subseteq Inside(v, c) \cup {o}
       /\ \A c \in Objs : c \notin P => Inside(u, c) = Inside(v, c)
  <2>1. \A c : Cur(r, e) # 0 /\ c = Into(r, e)[Cur(r, e) - 1] => c \in P \cup {Nothing}
    BY <1>2, <1>7, <1>8
  <2> QED
    BY <1>1, <1>2, <1>4, <1>9, <2>1, RentAssumption DEF Grows
<1>12. /\ \A c \in Objs : Inside(u, c) \subseteq InWorld(w) \cup O
       /\ \A c \in A : Inside(u, c) \subseteq O
       /\ \A c \in A \ O : Inside(u, c) = {}
  BY <1>1, <1>2, <1>10, <1>11
<1>13. \A d \in 0..MaxDepth : y.into[d] \in O \cup {Nothing}
  BY <1>1, <1>2, <1>3, <1>7
<1>14. \A p \in WearPos : y.worn[p] # Nothing => \E k \in 1..i : s[k].wearpos = p
  <2> SUFFICES ASSUME NEW p \in WearPos, y.worn[p] # Nothing PROVE \E k \in 1..i : s[k].wearpos = p
    OBVIOUS
  <2>1. CASE At(e) = p
    <3>1. e.wearpos = p
      BY <2>1, RentAssumption DEF At, WearPos
    <3> QED
      BY <3>1 DEF e
  <2>2. CASE At(e) # p
    <3>1. u.worn[p] = v.worn[p]
      BY <1>4, <2>2 DEF Grows
    <3>2. PICK k \in 1..(i - 1) : s[k].wearpos = p
      BY <1>2, <1>6, <3>1
    <3>3. k \in 1..i
      OBVIOUS
    <3> QED
      BY <3>2, <3>3
  <2> QED
    BY <2>1, <2>2
<1>15. w.floor \subseteq y.floor /\ y.floor \subseteq w.floor \cup (R \cap O)
  BY <1>1, <1>2, <1>4, <1>6, <1>9 DEF Grows
<1> QED
  BY <1>1, <1>3, <1>4, <1>11, <1>12, <1>13, <1>14, <1>15 DEF Made, u, O, A

\* A position that an element has is free, for no other element has it.
LEMMA FreePosition ==
    ASSUME NEW w, NEW s, NEW R, Vacant(w, s), NEW i \in 1..Len(s), NEW r, Made(w, s, R, i - 1, r), At(s[i]) \in WearPos
    PROVE  r.worn[At(s[i])] = Nothing
<1> SUFFICES ASSUME r.worn[At(s[i])] # Nothing PROVE FALSE
  OBVIOUS
<1>1. PICK k \in 1..(i - 1) : s[k].wearpos = At(s[i])
  BY DEF Made
<1>2. At(s[i]) = s[i].wearpos /\ s[i].wearpos # 0
  BY RentAssumption DEF At, WearPos
<1>3. Filed(s) /\ s \in Seq(Elements)
  BY DEF Vacant, Filed
<1>4. k \in 1..Len(s) /\ k # i
  BY <1>3
<1> QED
  BY <1>1, <1>2, <1>3, <1>4 DEF Filed

\* If the first object is not in something, every object is somewhere.
Somewhere(w, s, i, r) ==
    LET v == Regained(w, r) IN
    /\ i = 0 => r.cur = 0
    /\ i # 0 => r.last # Nothing /\ \A d \in 0..MaxDepth : d < r.cur => r.into[d] # Nothing
    /\ \A o \in Objects(s, i) :
         o \in Carried(v) \cup Worn(v) \cup (v.floor \ w.floor) \/ \E c \in Objects(s, i) : o \in Inside(v, c)

LEMMA SomewhereStep ==
    ASSUME NEW w, NEW s, NEW R, Vacant(w, s), NEW i \in 1..Len(s), NEW r, Made(w, s, R, i - 1, r), Somewhere(w, s, i - 1, r),
           s[1].depth = 0 \/ s[1].wearpos > 0, NEW y, y = Restored(r, s[i], R)
    PROVE  Somewhere(w, s, i, y)
<1> DEFINE e == s[i]
           o == s[i].obj
           v == Regained(w, r)
           u == Regained(w, y)
           P == Objects(s, i - 1)
           O == Objects(s, i)
           A == Objects(s, Len(s))
<1>1. e \in Elements /\ o \in A /\ o \in Objs /\ o \notin P /\ O = P \cup {o} /\ O \subseteq A
  BY ObjectsStep DEF Vacant
<1>2. /\ r \in Regains
      /\ \A d \in 0..MaxDepth : r.into[d] \in P \cup {Nothing}
      /\ r.last \in P \cup {Nothing}
      /\ \A p \in WearPos : r.worn[p] # Nothing => \E k \in 1..(i - 1) : s[k].wearpos = p
  BY DEF Made
<1>3. /\ y \in Regains /\ y.last = o /\ y.into = Into(r, e) /\ y.cur = Cur(r, e)
  BY <1>1, <1>2, RestoredIs
<1>4. Grows(R, r, e, v, u)
  BY GrowIs
<1>5. /\ Deep(e) \in 0..MaxDepth /\ At(e) \in WearPos \cup {0} /\ Cur(r, e) \in 0..MaxDepth
      /\ Cur(r, e) # 0 => Cur(r, e) - 1 \in 0..MaxDepth
      /\ \A d \in 0..MaxDepth :
           \/ Into(r, e)[d] = r.into[d] /\ (d = r.cur => Deep(e) <= r.cur)
           \/ d = r.cur /\ Deep(e) > r.cur /\ Into(r, e)[d] = r.last
      /\ r.cur \in 0..MaxDepth
  BY <1>1, <1>2, CursorIs DEF Regains
<1>6. e.obj = o /\ o # Nothing
  BY <1>1, RentAssumption
<1>7. /\ i = 1 => r.cur = 0
      /\ i # 1 => r.last # Nothing /\ \A d \in 0..MaxDepth : d < r.cur => r.into[d] # Nothing
      /\ \A x \in P : x \in Carried(v) \cup Worn(v) \cup (v.floor \ w.floor) \/ \E c \in P : x \in Inside(v, c)
  <2>1. i - 1 = 0 <=> i = 1
    OBVIOUS
  <2> QED
    BY <2>1 DEF Somewhere
<1>8. i = 1 => Deep(e) = 0
  <2> SUFFICES ASSUME i = 1 PROVE Deep(e) = 0
    OBVIOUS
  <2>1. e.depth = 0 \/ e.wearpos > 0
    OBVIOUS
  <2>2. e.depth \in Nat
    BY <1>1 DEF Elements
  <2> QED
    BY <2>1, <2>2, RentAssumption DEF Deep, Weird, Flat
<1>9. Filed(s) /\ s \in Seq(Elements)
  BY DEF Vacant, Filed
<1>10. At(e) \in WearPos => r.worn[At(e)] = Nothing
  BY FreePosition
<1>18. o \notin w.floor
  <2>1. o \notin InWorld(w) /\ w \in Worlds
    BY <1>1 DEF Vacant, Forest
  <2> QED
    BY <1>1, <2>1, InWorldIs DEF Top
<1> HIDE DEF e, o, v, u, P, O, A
\* What the element is put into is there.
<1>11. \A d \in 0..MaxDepth : d < Cur(r, e) => Into(r, e)[d] # Nothing
  <2> SUFFICES ASSUME NEW d \in 0..MaxDepth, d < Cur(r, e) PROVE Into(r, e)[d] # Nothing
    OBVIOUS
  <2>1. CASE i = 1
    BY <1>5, <1>7, <1>8, <2>1 DEF Cur
  <2>2. CASE i # 1
    <3>1. CASE Into(r, e)[d] = r.last
      BY <1>7, <2>2, <3>1
    <3>2. CASE Into(r, e)[d] = r.into[d] /\ (d = r.cur => Deep(e) <= r.cur)
      <4>1. d < r.cur
        BY <1>5, <3>2 DEF Cur
      <4> QED
        BY <1>7, <2>2, <3>2, <4>1
    <3> QED
      BY <1>5, <3>1, <3>2
  <2> QED
    BY <2>1, <2>2
<1>12. Cur(r, e) # 0 => Into(r, e)[Cur(r, e) - 1] # Nothing /\ Into(r, e)[Cur(r, e) - 1] \in P
  <2> SUFFICES ASSUME Cur(r, e) # 0
               PROVE  Into(r, e)[Cur(r, e) - 1] # Nothing /\ Into(r, e)[Cur(r, e) - 1] \in P
    OBVIOUS
  <2> DEFINE d == Cur(r, e) - 1
  <2>1. d \in 0..MaxDepth /\ d < Cur(r, e)
    BY <1>5
  <2> HIDE DEF d
  <2>2. Into(r, e)[d] # Nothing
    BY <1>11, <2>1
  <2>3. Into(r, e)[d] \in P
    BY <1>2, <1>5, <2>1, <2>2
  <2> QED
    BY <2>2, <2>3 DEF d
<1>13. o \in Carried(u) \cup Worn(u) \cup (u.floor \ w.floor) \/ \E c \in P : o \in Inside(u, c)
  BY <1>4, <1>6, <1>10, <1>12, <1>18 DEF Grows
<1>14. /\ Carried(v) \cup Worn(v) \subseteq Carried(u) \cup Worn(u) /\ v.floor \subseteq u.floor
       /\ \A c \in Objs : Inside(v, c) \subseteq Inside(u, c)
  BY <1>4 DEF Grows
<1>15. P \subseteq Objs
  <2>1. A \subseteq Objs
    <3>1. \A k \in 1..Len(s) : s[k] \in Elements
      BY <1>9
    <3> QED
      BY <3>1 DEF Objects, Elements, A
  <2> QED
    BY <1>1, <2>1
<1>16. \A x \in O : x \in Carried(u) \cup Worn(u) \cup (u.floor \ w.floor) \/ \E c \in O : x \in Inside(u, c)
  BY <1>1, <1>7, <1>13, <1>14, <1>15
<1>17. \A d \in 0..MaxDepth : d < y.cur => y.into[d] # Nothing
  BY <1>3, <1>11
<1> QED
  BY <1>3, <1>6, <1>16, <1>17 DEF Somewhere, u, O


\* The depths of a file that can be read.
Mild(s) ==
    /\ \A i \in 1..Len(s) : s[i].depth <= MaxDepth /\ (s[i].depth # 0 => s[i].wearpos = 0)
    /\ 1 \in 1..Len(s) => s[1].depth = 0
    /\ \A i \in 1..Len(s) : i # 1 => s[i].depth <= s[i - 1].depth + 1 /\ s[i - 1].depth <= s[i].depth + 1

\* The element k of such a file is where it was.
There(s, v, k) ==
    LET e == s[k] IN
    /\ e.wearpos # 0 => v.worn[e.wearpos] = e.obj \/ e.obj \in v.floor
    /\ e.depth = 0 /\ e.wearpos = 0 => e.obj \in Carried(v)
    /\ e.depth # 0 => \E c \in Objs : Latest(s, k - 1, e.depth - 1, c) /\ e.obj \in Inside(v, c)

Exact(w, s, i, r) ==
    /\ i = 0 => r.cur = 0
    /\ i # 0 => r.cur = s[i].depth /\ r.last = s[i].obj
    /\ \A d \in 0..MaxDepth : d < r.cur => Latest(s, i, d, r.into[d])
    /\ \A k \in 1..i : There(s, Regained(w, r), k)

LEMMA LatestObj ==
    ASSUME NEW s \in Seq(Elements), NEW n \in Nat, n <= Len(s), NEW d, NEW o, Latest(s, n, d, o)
    PROVE  o \in Objs
<1>1. PICK j \in 1..n : s[j].obj = o
  BY DEF Latest
<1>2. s[j] \in Elements
  OBVIOUS
<1> QED
  BY <1>1, <1>2 DEF Elements

LEMMA ExactStep ==
    ASSUME NEW w, NEW s, NEW R, Vacant(w, s), Mild(s), NEW i \in 1..Len(s), NEW r, Made(w, s, R, i - 1, r),
           Exact(w, s, i - 1, r), NEW y, y = Restored(r, s[i], R)
    PROVE  Exact(w, s, i, y)
<1> DEFINE e == s[i]
           o == s[i].obj
           v == Regained(w, r)
           u == Regained(w, y)
           j == i - 1
<1>0. Filed(s) /\ s \in Seq(Elements) /\ Len(s) \in Nat
  <2>1. Filed(s) /\ s \in Seq(Elements)
    BY DEF Vacant, Filed
  <2> QED
    BY <2>1
<1>1. e \in Elements /\ o \in Objs /\ e.obj = o /\ o # Nothing
  BY <1>0, ObjectsStep, RentAssumption
<1>2. r \in Regains /\ r.cur \in 0..MaxDepth
  BY DEF Made, Regains
<1>3. y \in Regains /\ y.last = o /\ y.into = Into(r, e) /\ y.cur = Cur(r, e)
  BY <1>1, <1>2, RestoredIs
<1>4. Grows(R, r, e, v, u)
  BY GrowIs
<1>5. /\ Deep(e) \in 0..MaxDepth /\ At(e) \in WearPos \cup {0} /\ Cur(r, e) \in 0..MaxDepth
      /\ Cur(r, e) # 0 => Cur(r, e) - 1 \in 0..MaxDepth
      /\ \A d \in 0..MaxDepth :
           \/ Into(r, e)[d] = r.into[d] /\ (d = r.cur => Deep(e) <= r.cur)
           \/ d = r.cur /\ Deep(e) > r.cur /\ Into(r, e)[d] = r.last
  BY <1>1, <1>2, CursorIs
<1>6. /\ j \in Nat /\ i = j + 1 /\ (i = 1 <=> j = 0) /\ (i # 1 => j \in 1..Len(s)) /\ j <= Len(s)
  BY <1>0
<1>7. /\ j = 0 => r.cur = 0
      /\ j # 0 => r.cur = s[j].depth /\ r.last = s[j].obj
      /\ \A d \in 0..MaxDepth : d < r.cur => Latest(s, j, d, r.into[d])
      /\ \A k \in 1..j : There(s, v, k)
  BY DEF Exact
<1>8. /\ e.depth <= MaxDepth /\ (e.depth # 0 => e.wearpos = 0)
      /\ i = 1 => e.depth = 0
      /\ i # 1 => e.depth <= s[j].depth + 1 /\ s[j].depth <= e.depth + 1
  BY DEF Mild
<1>9. e.depth \in Nat /\ e.wearpos \in WearPos \cup {0}
  BY <1>1 DEF Elements
<1>10. At(e) \in WearPos => r.worn[At(e)] = Nothing
  BY FreePosition
<1>11. v.worn = r.worn
  BY <1>2, RegainedIs DEF Vacant, Forest
<1> HIDE DEF e, o, v, u, j
<1>12. Deep(e) = e.depth /\ At(e) = e.wearpos
  BY <1>8, <1>9, RentAssumption DEF Deep, At, Weird, Flat, WearPos
<1>13. Cur(r, e) = e.depth
  <2>1. CASE i = 1
    <3>1. r.cur = 0 /\ e.depth = 0 /\ Deep(e) = 0
      BY <1>6, <1>7, <1>8, <1>12, <2>1
    <3> QED
      BY <3>1 DEF Cur
  <2>2. CASE i # 1
    <3>1. r.cur = s[j].depth
      BY <1>6, <1>7, <2>2
    <3> QED
      BY <1>2, <1>8, <1>9, <1>12, <2>2, <3>1 DEF Cur
  <2> QED
    BY <2>1, <2>2
<1>14. \A d \in 0..MaxDepth : d < Cur(r, e) => Latest(s, j, d, Into(r, e)[d])
  <2> SUFFICES ASSUME NEW d \in 0..MaxDepth, d < Cur(r, e) PROVE Latest(s, j, d, Into(r, e)[d])
    OBVIOUS
  <2>1. CASE d = r.cur /\ Deep(e) > r.cur /\ Into(r, e)[d] = r.last
    <3>1. j # 0
      BY <1>2, <1>6, <1>8, <1>12, <2>1
    <3>2. Latest(s, j, s[j].depth, s[j].obj)
      BY <1>6, <3>1, LatestNow
    <3> QED
      BY <1>7, <2>1, <3>1, <3>2
  <2>2. CASE Into(r, e)[d] = r.into[d] /\ (d = r.cur => Deep(e) <= r.cur)
    <3>1. d < r.cur
      BY <1>2, <1>5, <2>2 DEF Cur
    <3> QED
      BY <1>7, <2>2, <3>1
  <2> QED
    BY <1>5, <2>1, <2>2
<1>15. \A d \in 0..MaxDepth : d < Cur(r, e) => Latest(s, i, d, Into(r, e)[d])
  <2> SUFFICES ASSUME NEW d \in 0..MaxDepth, d < Cur(r, e) PROVE Latest(s, i, d, Into(r, e)[d])
    OBVIOUS
  <2>1. s[i].depth # d
    BY <1>9, <1>13 DEF e
  <2>2. Latest(s, j, d, Into(r, e)[d])
    BY <1>14
  <2> QED
    BY <1>6, <2>1, <2>2, LatestStep
\* What was there stays there.
<1>16. ASSUME NEW k \in 1..j PROVE There(s, u, k)
  <2> DEFINE f == s[k]
  <2>1. /\ f.wearpos # 0 => v.worn[f.wearpos] = f.obj \/ f.obj \in v.floor
        /\ f.depth = 0 /\ f.wearpos = 0 => f.obj \in Carried(v)
        /\ f.depth # 0 => \E c \in Objs : Latest(s, k - 1, f.depth - 1, c) /\ f.obj \in Inside(v, c)
    BY <1>7 DEF There
  <2>2. f \in Elements
    BY <1>0, <1>6
  <2> HIDE DEF f
  <2>3. f.obj # Nothing /\ f.wearpos \in WearPos \cup {0}
    BY <2>2, RentAssumption DEF Elements
  <2>4. ASSUME f.wearpos # 0 PROVE u.worn[f.wearpos] = f.obj \/ f.obj \in u.floor
    <3>1. CASE v.worn[f.wearpos] = f.obj
      <4>1. f.wearpos \in WearPos
        BY <2>3, <2>4
      <4>2. f.wearpos # At(e)
        BY <1>10, <1>11, <2>3, <3>1, <4>1
      <4>3. u.worn[f.wearpos] = v.worn[f.wearpos]
        BY <1>4, <4>1, <4>2 DEF Grows
      <4> QED
        BY <3>1, <4>3
    <3>2. CASE f.obj \in v.floor
      <4>1. v.floor \subseteq u.floor
        BY <1>4 DEF Grows
      <4> QED
        BY <3>2, <4>1
    <3> QED
      BY <2>1, <2>4, <3>1, <3>2
  <2>5. Carried(v) \subseteq Carried(u) /\ \A c \in Objs : Inside(v, c) \subseteq Inside(u, c)
    BY <1>4 DEF Grows
  <2> QED
    BY <2>1, <2>4, <2>5 DEF There, f
<1>17. There(s, u, i)
  <2>1. ASSUME e.wearpos # 0 PROVE u.worn[e.wearpos] = e.obj \/ e.obj \in u.floor
    <3>1. At(e) \in WearPos /\ At(e) # 0 /\ r.worn[At(e)] = Nothing
      BY <1>9, <1>10, <1>12, <2>1
    <3> QED
      BY <1>4, <1>12, <3>1 DEF Grows
  <2>2. 0 \notin WearPos
    BY DEF WearPos
  <2>3. ASSUME e.depth = 0, e.wearpos = 0 PROVE e.obj \in Carried(u)
    BY <1>4, <1>12, <1>13, <2>2, <2>3 DEF Grows
  <2>4. ASSUME e.depth # 0 PROVE \E c \in Objs : Latest(s, i - 1, e.depth - 1, c) /\ e.obj \in Inside(u, c)
    <3> DEFINE d == Cur(r, e) - 1
               c == Into(r, e)[d]
    <3>1. d \in 0..MaxDepth /\ d < Cur(r, e) /\ Cur(r, e) # 0 /\ d = e.depth - 1
      BY <1>5, <1>9, <1>13, <2>4
    <3>2. Latest(s, j, d, c)
      BY <1>14, <3>1
    <3>3. c \in Objs
      BY <1>0, <1>6, <3>2, LatestObj
    <3>4. c # Nothing
      BY <3>3, RentAssumption
    <3>5. At(e) = 0
      BY <1>8, <1>12, <2>4
    <3>6. e.obj \in Inside(u, c)
      BY <1>4, <2>2, <3>1, <3>4, <3>5 DEF Grows
    <3> QED
      BY <3>1, <3>2, <3>3, <3>6 DEF j
  <2> QED
    BY <2>1, <2>3, <2>4 DEF There, e
<1>18. \A k \in 1..i : There(s, u, k)
  <2>1. \A k \in 1..i : k \in 1..j \/ k = i
    BY <1>6
  <2> QED
    BY <1>16, <1>17, <2>1
<1>19. i # 0 /\ y.cur = s[i].depth /\ y.last = s[i].obj
  BY <1>3, <1>13 DEF e, o
<1>20. \A d \in 0..MaxDepth : d < y.cur => Latest(s, i, d, y.into[d])
  BY <1>3, <1>15
<1> QED
  BY <1>18, <1>19, <1>20 DEF Exact, u


-----------------------------------------------------------------------------
(* Restoring: the whole file.                                              *)

Base(w, O) ==
    [carrying |-> <<>>, worn |-> [p \in WearPos |-> Nothing],
     contains |-> [o \in Objs |-> IF o \in O THEN <<>> ELSE w.contains[o]],
     floor |-> w.floor, into |-> [d \in 0..MaxDepth |-> Nothing], cur |-> 0, last |-> Nothing]

RestoreRuns(w, O, s, R, st) ==
    st = [i \in 0..Len(s) |-> IF i = 0 THEN Base(w, O) ELSE Restored(st[i - 1], s[i], R)]

Building(w, s, R) == CHOOSE st : RestoreRuns(w, Objects(s, Len(s)), s, R, st)

LEMMA ObjStoreToCharIs ==
    \A R : ObjStoreToChar(R) = CHOOSE st : RestoreRuns(world, Stored, file, R, st)
BY DEF ObjStoreToChar, RestoreRuns, Base

LEMMA BaseMade ==
    ASSUME NEW w, NEW s, NEW R, Vacant(w, s), NEW O, O = Objects(s, Len(s))
    PROVE  Base(w, O) \in Regains /\ Made(w, s, R, 0, Base(w, O)) /\ Somewhere(w, s, 0, Base(w, O)) /\ Exact(w, s, 0, Base(w, O))
<1> DEFINE r == Base(w, O)
           v == Regained(w, r)
           D == [o \in Objs |-> IF o \in O THEN <<>> ELSE w.contains[o]]
<1>1. w \in Worlds /\ One(w) /\ Founded(w) /\ Carried(w) = {} /\ Worn(w) = {} /\ Filed(s)
  BY DEF Vacant, Forest
<1>2. D \in [Objs -> Seq(Objs)]
  <2>1. <<>> \in Seq(Objs) /\ \A o \in Objs : w.contains[o] \in Seq(Objs)
    BY <1>1, WorldFields
  <2> QED
    BY <2>1
<1>3. /\ r.carrying = <<>> /\ r.worn = [p \in WearPos |-> Nothing] /\ r.contains = D
      /\ r.into = [d \in 0..MaxDepth |-> Nothing] /\ r.cur = 0 /\ r.last = Nothing /\ r.floor = w.floor
  BY DEF Base
<1>4. r \in Regains
  <2>1. <<>> \in Seq(Objs)
    OBVIOUS
  <2>2. 0 \in 0..MaxDepth
    BY RentAssumption
  <2>3. r = [carrying |-> <<>>, worn |-> [p \in WearPos |-> Nothing], contains |-> D,
             floor |-> w.floor, into |-> [d \in 0..MaxDepth |-> Nothing], cur |-> 0, last |-> Nothing]
    BY DEF Base
  <2>4. w.floor \in SUBSET Objs
    BY <1>1, WorldFields
  <2> HIDE DEF D, r
  <2> QED
    BY <1>2, <2>1, <2>2, <2>3, <2>4 DEF Regains
<1>5. /\ v \in Worlds /\ v.carrying = <<>> /\ v.worn = [p \in WearPos |-> Nothing] /\ v.contains = D
      /\ v.floor = w.floor
  BY <1>1, <1>3, <1>4, RegainedIs
<1> HIDE DEF r, v
<1>6. Carried(v) = {} /\ Worn(v) = {} /\ IsInjective(v.carrying) /\ \A p \in WearPos : v.worn[p] = Nothing
  BY <1>5, EmptyList DEF Carried, Worn
<1>7. /\ \A c \in Objs : c \in O => v.contains[c] = <<>> /\ Inside(v, c) = {}
      /\ \A c \in Objs : c \notin O => v.contains[c] = w.contains[c] /\ Inside(v, c) = Inside(w, c)
  BY <1>5, EmptyList DEF Inside
<1> HIDE DEF D
<1>8. \A c \in Objs : Inside(v, c) \subseteq Inside(w, c)
  BY <1>7
<1>9. One(v)
  <2>1. \A c \in Objs : IsInjective(v.contains[c])
    BY <1>1, <1>7, EmptyList DEF One
  <2>2. Top(v) \subseteq Top(w)
    BY <1>5, <1>6 DEF Top
  <2> QED
    BY <1>1, <1>6, <1>8, <2>1, <2>2 DEF One
<1>10. Founded(v)
  BY <1>1, <1>8, FoundedLess
<1>11. Objects(s, 0) = {} /\ O \subseteq Objs
  <2>1. s \in Seq(Elements)
    BY <1>1 DEF Filed
  <2>2. \A k \in 1..Len(s) : s[k] \in Elements
    BY <2>1
  <2> QED
    BY <2>2 DEF Objects, Elements
<1>12. \A c \in Objs : Inside(v, c) \subseteq InWorld(w)
  <2>1. \A c \in Objs : Inside(w, c) \subseteq Objs
    BY <1>1, WorldSets
  <2> QED
    BY <1>1, <1>8, <2>1, InWorldIs
<1>13. Made(w, s, R, 0, r)
  BY <1>3, <1>4, <1>5, <1>6, <1>7, <1>9, <1>10, <1>11, <1>12 DEF Made, Forest, v
<1>14. Somewhere(w, s, 0, r)
  BY <1>3, <1>11 DEF Somewhere
<1>15. Exact(w, s, 0, r)
  <2>1. \A d \in 0..MaxDepth : ~ (d < r.cur)
    BY <1>3
  <2> QED
    BY <1>3, <2>1 DEF Exact
<1> QED
  BY <1>4, <1>13, <1>14, <1>15 DEF r

LEMMA RestoreIs ==
    ASSUME NEW w, NEW s, NEW R, Vacant(w, s), NEW m, m = Len(s), NEW n \in 0..m,
           NEW r, r = Building(w, s, R)[n]
    PROVE  /\ Made(w, s, R, n, r) /\ (Mild(s) => Exact(w, s, n, r))
           /\ s[1].depth = 0 \/ s[1].wearpos > 0 => Somewhere(w, s, n, r)
<1> DEFINE O == Objects(s, Len(s))
           b == Base(w, O)
           F == [i \in 1..m |-> [x \in Regains |-> Restored(x, s[i], R)]]
<1>0. m \in Nat /\ s \in Seq(Elements)
  <2>1. s \in Seq(Elements)
    BY DEF Vacant, Filed
  <2> QED
    BY <2>1
<1>1. b \in Regains
  BY BaseMade
<1>2. \A x \in Regains, i \in 1..m : F[i][x] = Restored(x, s[i], R) /\ F[i][x] \in Regains
  <2> SUFFICES ASSUME NEW x \in Regains, NEW i \in 1..m
               PROVE  F[i][x] = Restored(x, s[i], R) /\ F[i][x] \in Regains
    BY Zenon
  <2>1. F[i][x] = Restored(x, s[i], R)
    OBVIOUS
  <2>2. s[i] \in Elements
    BY <1>0
  <2>3. Restored(x, s[i], R) \in Regains
    BY <2>2, RestoredIs
  <2> QED
    BY <2>1, <2>3
<1> HIDE DEF b, F, O
<1>3. PICK f \in [0..m -> Regains] : Runs(f, m, b, F)
  BY <1>0, <1>1, <1>2, RunExists
<1>4. f[0] = b /\ \A i \in 1..m : f[i] = Restored(f[i - 1], s[i], R)
  <2>1. ASSUME NEW i \in 1..m PROVE f[i] = Restored(f[i - 1], s[i], R)
    <3>1. i - 1 \in 0..m
      BY <1>0
    <3>2. f[i] = F[i][f[i - 1]] /\ f[i - 1] \in Regains
      BY <1>3, <3>1 DEF Runs
    <3> QED
      BY <1>2, <3>2
  <2> QED
    BY <1>3, <2>1 DEF Runs
<1>5. RestoreRuns(w, O, s, R, f)
  <2>1. ASSUME NEW i \in 0..m
        PROVE  f[i] = IF i = 0 THEN Base(w, O) ELSE Restored(f[i - 1], s[i], R)
    <3>1. i = 0 \/ i \in 1..m
      BY <1>0
    <3> QED
      BY <1>4, <3>1 DEF b
  <2>2. f = [i \in 0..m |-> f[i]]
    OBVIOUS
  <2> QED
    BY <2>1, <2>2 DEF RestoreRuns
<1> DEFINE g == CHOOSE st : RestoreRuns(w, O, s, R, st)
<1>6. RestoreRuns(w, O, s, R, g)
  BY <1>5
<1> HIDE DEF g
<1>7. g[0] = b /\ \A i \in 1..m : g[i] = Restored(g[i - 1], s[i], R)
  <2>1. 0 \in 0..m /\ \A i \in 1..m : i \in 0..m /\ i # 0
    BY <1>0
  <2> QED
    BY <1>6, <2>1 DEF RestoreRuns, b
<1> DEFINE Q == {i \in 0..m : /\ Made(w, s, R, i, g[i]) /\ (Mild(s) => Exact(w, s, i, g[i]))
                              /\ s[1].depth = 0 \/ s[1].wearpos > 0 => Somewhere(w, s, i, g[i])}
<1>8. 0 \in Q
  <2>1. Made(w, s, R, 0, g[0]) /\ Somewhere(w, s, 0, g[0]) /\ Exact(w, s, 0, g[0])
    BY <1>7, BaseMade DEF b, O
  <2> QED
    BY <1>0, <2>1
<1>9. \A i \in 1..m : i - 1 \in Q => i \in Q
  <2> SUFFICES ASSUME NEW i \in 1..m, i - 1 \in Q PROVE i \in Q
    OBVIOUS
  <2> DEFINE x == g[i - 1]
             y == g[i]
  <2>1. i \in 1..Len(s) /\ i \in 0..m
    BY <1>0
  <2>2. /\ Made(w, s, R, i - 1, x) /\ (Mild(s) => Exact(w, s, i - 1, x))
        /\ s[1].depth = 0 \/ s[1].wearpos > 0 => Somewhere(w, s, i - 1, x)
    OBVIOUS
  <2>3. y = Restored(x, s[i], R)
    BY <1>7
  <2> HIDE DEF x, y
  <2>4. Made(w, s, R, i, y)
    BY <2>1, <2>2, <2>3, MadeStep
  <2>5. Mild(s) => Exact(w, s, i, y)
    BY <2>1, <2>2, <2>3, ExactStep
  <2>6. s[1].depth = 0 \/ s[1].wearpos > 0 => Somewhere(w, s, i, y)
    BY <2>1, <2>2, <2>3, SomewhereStep
  <2> QED
    BY <2>1, <2>4, <2>5, <2>6 DEF y
<1> HIDE DEF Q
<1>10. \A i \in 0..m : i \in Q
  BY <1>0, <1>8, <1>9, SegmentInduction
<1>11. n \in Q
  BY <1>0, <1>10
<1> QED
  BY <1>11 DEF Q, g, O, Building

\* The world the player comes back to.
Entered(w, s, R) == Regained(w, Building(w, s, R)[Len(s)])

LEMMA EnterForest ==
    ASSUME NEW w, NEW s, NEW R, Vacant(w, s), NEW v, v = Entered(w, s, R), NEW O, O = Objects(s, Len(s))
    PROVE  /\ Forest(v) /\ Held(v) \subseteq O
           /\ w.floor \subseteq v.floor /\ v.floor \subseteq w.floor \cup (R \cap O)
           /\ s[1].depth = 0 \/ s[1].wearpos > 0
                => O \subseteq Within(v, Carried(v) \cup Worn(v) \cup (v.floor \ w.floor))
<1> DEFINE n == Len(s)
           r == Building(w, s, R)[n]
<1>8. v = Regained(w, r)
  BY DEF Entered
<1> HIDE DEF r
<1>0. s \in Seq(Elements) /\ n \in Nat
  <2>1. s \in Seq(Elements)
    BY DEF Vacant, Filed
  <2> QED
    BY <2>1
<1>1. Made(w, s, R, n, r) /\ (s[1].depth = 0 \/ s[1].wearpos > 0 => Somewhere(w, s, n, r))
  BY <1>0, RestoreIs DEF r
<1>2. O \subseteq Objs
  <2>1. \A k \in 1..n : s[k] \in Elements
    BY <1>0
  <2> QED
    BY <2>1 DEF Objects, Elements
<1>3. Forest(v) /\ v \in Worlds /\ Founded(v)
  BY <1>1, <1>8 DEF Made, Forest
<1>4. Carried(v) \cup Worn(v) \subseteq O /\ \A c \in O : Inside(v, c) \subseteq O
  BY <1>1, <1>8 DEF Made
<1>5. Held(v) \subseteq O
  BY <1>2, <1>3, <1>4, HeldIs
<1> DEFINE U == Carried(v) \cup Worn(v) \cup (v.floor \ w.floor)
<1>7. w.floor \subseteq v.floor /\ v.floor \subseteq w.floor \cup (R \cap O)
  <2>1. v.floor = r.floor
    BY <1>1, <1>8, RegainedIs DEF Made, Vacant, Forest
  <2> QED
    BY <1>1, <2>1 DEF Made
<1>6. ASSUME s[1].depth = 0 \/ s[1].wearpos > 0 PROVE O \subseteq Within(v, U)
  <2> DEFINE S == O \ Within(v, U)
  <2>1. \A o \in O : o \in U \/ \E c \in O : o \in Inside(v, c)
    BY <1>1, <1>6, <1>8 DEF Somewhere
  <2>5. U \in SUBSET Objs
    BY <1>3, WorldSets DEF Top
  <2> HIDE DEF U
  <2>6. U \subseteq Within(v, U) /\ \A c \in Within(v, U) : Inside(v, c) \subseteq Within(v, U)
    BY <1>3, <2>5, WithinIs
  <2>2. \A o \in S : \E c \in S : o \in Inside(v, c)
    BY <2>1, <2>6
  <2>3. S \in SUBSET Objs
    BY <1>2
  <2> HIDE DEF S
  <2>4. S = {}
    BY <1>3, <2>2, <2>3 DEF Founded
  <2> QED
    BY <2>4 DEF S
<1> QED
  BY <1>3, <1>5, <1>6, <1>7


\* A file that describes what was saved can be read if its depths are gentle.
LEMMA MildIs ==
    ASSUME NEW s \in Seq(Elements), NEW saves, Described(s, saves), Objects(s, Len(s)) = DOMAIN saves,
           \A i \in 1..Len(s) : s[i].depth <= MaxDepth,
           \A i \in 1..(Len(s) - 1) : s[i + 1].depth <= s[i].depth + 1 /\ s[i].depth <= s[i + 1].depth + 1
    PROVE  Mild(s)
<1>1. Len(s) \in Nat /\ \A i \in 1..Len(s) : s[i] \in Elements
  OBVIOUS
<1>2. ASSUME NEW i \in 1..Len(s)
      PROVE  /\ s[i].wearpos # 0 => s[i].depth = 0
             /\ s[i].depth # 0 => \E c : Latest(s, i - 1, s[i].depth - 1, c)
  BY DEF Described, Objects
<1>3. 1 \in 1..Len(s) => s[1].depth = 0
  <2> SUFFICES ASSUME 1 \in 1..Len(s), s[1].depth # 0 PROVE FALSE
    OBVIOUS
  <2>1. PICK c : Latest(s, 1 - 1, s[1].depth - 1, c)
    BY <1>2
  <2>2. PICK j \in 1..(1 - 1) : TRUE
    BY <2>1 DEF Latest
  <2> QED
    BY <2>2
<1>4. ASSUME NEW i \in 1..Len(s), i # 1
      PROVE  s[i].depth <= s[i - 1].depth + 1 /\ s[i - 1].depth <= s[i].depth + 1
  <2>1. i - 1 \in 1..(Len(s) - 1) /\ (i - 1) + 1 = i
    BY <1>1, <1>4
  <2>2. s[(i - 1) + 1].depth <= s[i - 1].depth + 1 /\ s[i - 1].depth <= s[(i - 1) + 1].depth + 1
    BY <2>1
  <2> QED
    BY <2>1, <2>2
<1>5. \A i \in 1..Len(s) : s[i].depth <= MaxDepth /\ (s[i].depth # 0 => s[i].wearpos = 0)
  BY <1>2
<1> QED
  BY <1>3, <1>4, <1>5 DEF Mild

LEMMA LatestOnce ==
    ASSUME NEW s, NEW n \in Nat, NEW d, NEW a, NEW b, Latest(s, n, d, a), Latest(s, n, d, b)
    PROVE  a = b
<1>1. PICK j \in 1..n : s[j].depth = d /\ s[j].obj = a /\ \A k \in 1..n : j < k => s[k].depth # d
  BY DEF Latest
<1>2. PICK i \in 1..n : s[i].depth = d /\ s[i].obj = b /\ \A k \in 1..n : i < k => s[k].depth # d
  BY DEF Latest
<1>3. ~ (j < i) /\ ~ (i < j)
  BY <1>1, <1>2
<1>4. i = j
  BY <1>3
<1> QED
  BY <1>1, <1>2, <1>4

LEMMA EnterSaved ==
    ASSUME NEW w, NEW s, NEW R, Vacant(w, s), NEW v, v = Entered(w, s, R), NEW O, O = Objects(s, Len(s)),
           NEW saves, Described(s, saves), O = DOMAIN saves,
           \A i \in 1..Len(s) : s[i].depth <= MaxDepth,
           \A i \in 1..(Len(s) - 1) : s[i + 1].depth <= s[i].depth + 1 /\ s[i].depth <= s[i + 1].depth + 1
    PROVE  \A o \in O :
             \/ Places(v, o) = saves[o]
             \/ /\ o \in R /\ Places(v, o) = {<<"floor">>}
                /\ \E p \in WearPos : saves[o] = {<<"worn", p>>}
<1> DEFINE n == Len(s)
           r == Building(w, s, R)[n]
<1>8. v = Regained(w, r)
  BY DEF Entered
<1> HIDE DEF r
<1>0. s \in Seq(Elements) /\ n \in Nat /\ \A i \in 1..n : s[i] \in Elements
  <2>1. s \in Seq(Elements)
    BY DEF Vacant, Filed
  <2> QED
    BY <2>1
<1>1. Mild(s)
  BY <1>0, MildIs
<1>2. Made(w, s, R, n, r) /\ Exact(w, s, n, r)
  BY <1>0, <1>1, RestoreIs DEF r
<1>3. Forest(v) /\ v.floor \subseteq w.floor \cup (R \cap O)
  BY EnterForest
<1>4. O \cap w.floor = {}
  <2>1. w \in Worlds /\ O \cap InWorld(w) = {}
    BY DEF Vacant, Forest
  <2> QED
    BY <2>1, InWorldIs, WorldSets DEF Top
<1>5. v \in Worlds /\ One(v)
  BY <1>3 DEF Forest
<1> DEFINE Well(o) ==
             \/ Places(v, o) = saves[o]
             \/ /\ o \in R /\ Places(v, o) = {<<"floor">>}
                /\ \E p \in WearPos : saves[o] = {<<"worn", p>>}
<1>6. ASSUME NEW i \in 1..n PROVE Well(s[i].obj)
  <2> DEFINE e == s[i]
  <2>1. /\ e.wearpos # 0 => e.depth = 0 /\ saves[e.obj] = {<<"worn", e.wearpos>>}
        /\ e.depth = 0 /\ e.wearpos = 0 => saves[e.obj] = {<<"carried">>}
        /\ e.depth # 0 => \E c : Latest(s, i - 1, e.depth - 1, c) /\ saves[e.obj] = {<<"in", c>>}
    BY DEF Described, Objects
  <2>2. There(s, v, i)
    BY <1>2, <1>8 DEF Exact
  <2>3. /\ e.wearpos # 0 => v.worn[e.wearpos] = e.obj \/ e.obj \in v.floor
        /\ e.depth = 0 /\ e.wearpos = 0 => e.obj \in Carried(v)
        /\ e.depth # 0 => \E c \in Objs : Latest(s, i - 1, e.depth - 1, c) /\ e.obj \in Inside(v, c)
    BY <2>2 DEF There
  <2>4. e.obj \in Objs /\ e.wearpos \in WearPos \cup {0}
    BY <1>0 DEF Elements
  <2>5. i - 1 \in Nat
    OBVIOUS
  <2> HIDE DEF e
  <2>6. CASE e.wearpos # 0 /\ v.worn[e.wearpos] = e.obj
    <3> DEFINE p == e.wearpos
    <3>0. p \in WearPos /\ v.worn[p] = e.obj
      BY <2>4, <2>6
    <3> HIDE DEF p
    <3>2. Places(v, e.obj) = {<<"worn", p>>}
      BY <1>5, <2>4, <3>0, WornPlace
    <3>1. Places(v, e.obj) = {<<"worn", e.wearpos>>}
      BY <3>2 DEF p
    <3> QED
      BY <2>1, <2>6, <3>1 DEF e
  <2>9. CASE e.wearpos # 0 /\ e.obj \in v.floor
    <3>1. Places(v, e.obj) = {<<"floor">>}
      BY <1>5, <2>4, <2>9, PlaceIs
    <3>2. e.obj \in O
      BY DEF e, Objects
    <3>3. e.obj \in R
      BY <1>3, <1>4, <2>9, <3>2
    <3>4. e.wearpos \in WearPos /\ saves[e.obj] = {<<"worn", e.wearpos>>}
      BY <2>1, <2>4, <2>9
    <3> QED
      BY <3>1, <3>3, <3>4 DEF e
  <2>7. CASE e.depth = 0 /\ e.wearpos = 0
    <3>1. Places(v, e.obj) = {<<"carried">>}
      BY <1>5, <2>3, <2>4, <2>7, PlaceIs
    <3> QED
      BY <2>1, <2>7, <3>1 DEF e
  <2>8. CASE e.depth # 0
    <3>1. PICK c \in Objs : Latest(s, i - 1, e.depth - 1, c) /\ e.obj \in Inside(v, c)
      BY <2>3, <2>8
    <3>2. PICK d : Latest(s, i - 1, e.depth - 1, d) /\ saves[e.obj] = {<<"in", d>>}
      BY <2>1, <2>8
    <3>3. c = d
      BY <2>5, <3>1, <3>2, LatestOnce
    <3>4. Places(v, e.obj) = {<<"in", c>>}
      BY <1>5, <2>4, <3>1, PlaceIs
    <3> QED
      BY <3>2, <3>3, <3>4 DEF e
  <2> QED
    BY <2>3, <2>6, <2>7, <2>8, <2>9
<1>7. \A o \in O : Well(o)
  <2>1. \A o \in O : \E i \in 1..n : s[i].obj = o
    BY DEF Objects
  <2> QED
    BY <1>6, <2>1
<1> QED
  BY <1>7

-----------------------------------------------------------------------------
(* The invariant.                                                          *)

OnDisk(s, saves) == Filed(s) /\ Described(s, saves) /\ saves = [o \in DOMAIN saves |-> saves[o]]

\* Nothing is on a player that is out of the game, and what waits in the file
\* is nowhere.
Out(w, s) == Carried(w) = {} /\ Worn(w) = {} /\ Objects(s, Len(s)) \cap InWorld(w) = {}

RentInv ==
    /\ player \in {"out", "link", "linkdead"}
    /\ Forest(world) /\ OnDisk(file, saved)
    /\ player = "out" => Out(world, file)

LEMMA SaveOnDisk ==
    ASSUME NEW w, Forest(w), NEW s, s = SaveObj(w), NEW p, p = Placement(w)
    PROVE  OnDisk(s, p) /\ Objects(s, Len(s)) \subseteq Held(w)
<1>1. w \in Worlds /\ One(w)
  BY DEF Forest
<1>2. Filed(s) /\ Described(s, p) /\ Objects(s, Len(s)) \subseteq Held(w)
  BY <1>1, SaveObjIs
<1>3. p = [o \in DOMAIN p |-> p[o]]
  BY DEF Placement
<1> QED
  BY <1>2, <1>3 DEF OnDisk

LEMMA EmptyOnDisk ==
    ASSUME NEW s, s = <<>>
    PROVE  OnDisk(s, << >>) /\ Objects(s, Len(s)) = {}
<1>1. Len(s) = 0 /\ s \in Seq(Elements)
  OBVIOUS
<1>2. {s[i].obj : i \in 1..Len(s)} = {}
  BY <1>1
<1>3. Filed(s)
  <2>1. Cardinality({s[i].obj : i \in 1..Len(s)}) = Len(s)
    BY <1>1, <1>2, FS_EmptySet
  <2>2. Len(s) <= MaxObjSave
    BY <1>1, RentAssumption
  <2> QED
    BY <1>1, <2>1, <2>2 DEF Filed
<1>4. Described(s, << >>)
  BY <1>1 DEF Described
<1>5. << >> = [o \in DOMAIN << >> |-> << >>[o]]
  OBVIOUS
<1> QED
  BY <1>2, <1>3, <1>4, <1>5 DEF OnDisk, Objects

LEMMA StoredIs ==
    ASSUME NEW s, Filed(s)
    PROVE  {s[i].obj : i \in DOMAIN s} = Objects(s, Len(s))
<1>1. s \in Seq(Elements)
  BY DEF Filed
<1>2. DOMAIN s = 1..Len(s)
  BY <1>1
<1> QED
  BY <1>2 DEF Objects


LEMMA RentStart ==
    ASSUME RentInit
    PROVE  RentInv
<1>1. player = "out" /\ file = <<>> /\ saved = << >>
  BY DEF RentInit
<1>2. /\ world.carrying = <<>> /\ world.worn = [p \in WearPos |-> Nothing]
      /\ world.contains = [o \in Objs |-> <<>>] /\ world.floor = {} /\ world.rotten = {}
  BY DEF RentInit
<1>3. world \in Worlds
  <2>1. <<>> \in Seq(Objs)
    OBVIOUS
  <2> QED
    BY <2>1 DEF RentInit, Worlds
<1>4. Carried(world) = {} /\ Worn(world) = {} /\ IsInjective(world.carrying)
      /\ \A p \in WearPos : world.worn[p] = Nothing
  BY <1>2, BareSets
<1>5. \A c \in Objs : world.contains[c] = <<>> /\ Inside(world, c) = {}
  BY <1>2, EmptyList DEF Inside
<1>6. One(world)
  BY <1>2, <1>4, <1>5, EmptyList DEF One, Top
<1>7. Founded(world)
  BY <1>5 DEF Founded
<1>8. OnDisk(file, saved) /\ Objects(file, Len(file)) = {}
  BY <1>1, EmptyOnDisk
<1> QED
  BY <1>1, <1>3, <1>4, <1>6, <1>7, <1>8 DEF RentInv, Forest, Out

\* What save_obj writes of a forest can be read.
LEMMA WriteIs ==
    ASSUME NEW w, Forest(w), WriteFile(w)
    PROVE  OnDisk(file', saved') /\ Objects(file', Len(file')) \subseteq Held(w)
<1> DEFINE s == file'
           p == saved'
<1>1. s = SaveObj(w) /\ p = Placement(w)
  BY DEF WriteFile
<1> HIDE DEF s, p
<1>2. OnDisk(s, p) /\ Objects(s, Len(s)) \subseteq Held(w)
  BY <1>1, SaveOnDisk
<1> QED
  BY <1>2 DEF s, p

LEMMA MayFallIs ==
    ASSUME NEW w, NEW R \in MayFall(w)
    PROVE  R \subseteq Worn(w)
BY DEF MayFall

\* A step that saves keeps the invariant if what the player has is a forest.
LEMMA SaveStep ==
    ASSUME NEW w, Forest(w), player' \in {"link", "linkdead"}, DoSaveOf(w)
    PROVE  RentInv'
<1>1. PICK R \in MayFall(w) : /\ world' = Fallen(w, R)
                              /\ \E p : WriteFile(Below(world', p))
  BY DEF DoSaveOf
<1>2. PICK p : WriteFile(Below(world', p))
  BY <1>1
<1> DEFINE v == world'
           u == Below(v, p)
<1>3. R \subseteq Worn(w) /\ v = Fallen(w, R)
  BY <1>1, MayFallIs
<1> HIDE DEF v
<1>4. Forest(v)
  BY <1>3, FallenForest
<1>5. Forest(u)
  BY <1>4, BelowForest
<1>6. WriteFile(u)
  BY <1>2 DEF v
<1> HIDE DEF u
<1>7. OnDisk(file', saved')
  BY <1>5, <1>6, WriteIs
<1> QED
  BY <1>4, <1>7 DEF RentInv, v

\* One that leaves the file alone must not put what is in the file anywhere.
LEMMA IdleStep ==
    ASSUME RentInv, UNCHANGED <<player, disk>>, Forest(world'),
           player = "out" => /\ Carried(world') = {} /\ Worn(world') = {}
                             /\ Objects(file, Len(file)) \cap InWorld(world') = {}
    PROVE  RentInv'
<1>1. player' = player /\ file' = file /\ saved' = saved
  BY DEF disk
<1>2. OnDisk(file', saved')
  BY <1>1 DEF RentInv
<1>3. player' = "out" => Out(world, file)'
  BY <1>1 DEF Out
<1> QED
  BY <1>1, <1>2, <1>3 DEF RentInv

LEMMA LoadKeeps ==
    ASSUME RentInv, NEW o \in Objs, Load(o)
    PROVE  RentInv'
<1> DEFINE v == world'
<1>1. Forest(world) /\ world \in Worlds /\ Filed(file)
  BY DEF RentInv, Forest, OnDisk
<1>2. o \notin InWorld(world) /\ o \notin Stored
  BY DEF Load, Unused
<1>3. Loads(world, o, v)
  BY DEF Load, Loads
<1>4. v.carrying = world.carrying /\ v.worn = world.worn
  BY <1>1, <1>3 DEF Loads, Worlds
<1> HIDE DEF v
<1>5. Forest(v) /\ InWorld(v) \subseteq InWorld(world) \cup {o}
  BY <1>1, <1>2, <1>3, LoadForest
<1>6. Carried(v) = Carried(world) /\ Worn(v) = Worn(world)
  BY <1>4 DEF Carried, Worn
<1>7. o \notin Objects(file, Len(file))
  BY <1>1, <1>2, StoredIs DEF Stored
<1>8. UNCHANGED <<player, disk>>
  BY DEF Load
<1>9. player = "out" => Out(world, file)
  BY DEF RentInv
<1>10. player = "out" => Carried(v) = {} /\ Worn(v) = {} /\ Objects(file, Len(file)) \cap InWorld(v) = {}
  BY <1>5, <1>6, <1>7, <1>9 DEF Out
<1> QED
  BY <1>5, <1>8, <1>10, IdleStep DEF v

LEMMA LoadInCorpseKeeps ==
    ASSUME RentInv, NEW o \in Objs, NEW c \in Objs, LoadInCorpse(c, o)
    PROVE  RentInv'
<1> DEFINE v == world'
<1>1. Forest(world) /\ world \in Worlds /\ Filed(file)
  BY DEF RentInv, Forest, OnDisk
<1>2. o \notin InWorld(world) /\ o \notin Stored /\ c \notin InWorld(world) /\ c \notin Stored /\ c # o
  BY DEF LoadInCorpse, Unused
<1>3. LoadsCorpse(world, c, o, v)
  BY DEF LoadInCorpse, LoadsCorpse
<1>4. v.carrying = world.carrying /\ v.worn = world.worn
  BY <1>1, <1>3 DEF LoadsCorpse, Worlds
<1> HIDE DEF v
<1>5. Forest(v) /\ InWorld(v) \subseteq InWorld(world) \cup {c, o}
  BY <1>1, <1>2, <1>3, LoadInCorpseForest
<1>6. Carried(v) = Carried(world) /\ Worn(v) = Worn(world)
  BY <1>4 DEF Carried, Worn
<1>7. o \notin Objects(file, Len(file)) /\ c \notin Objects(file, Len(file))
  BY <1>1, <1>2, StoredIs DEF Stored
<1>8. UNCHANGED <<player, disk>>
  BY DEF LoadInCorpse
<1>9. player = "out" => Out(world, file)
  BY DEF RentInv
<1>10. player = "out" => Carried(v) = {} /\ Worn(v) = {} /\ Objects(file, Len(file)) \cap InWorld(v) = {}
  BY <1>5, <1>6, <1>7, <1>9 DEF Out
<1> QED
  BY <1>5, <1>8, <1>10, IdleStep DEF v

LEMMA HandKeeps ==
    ASSUME RentInv, NEW o \in Objs, NEW c \in Objs, Get(o) \/ Drop(o) \/ GetFrom(o, c) \/ Put(o, c)
    PROVE  RentInv'
<1>1. Forest(world) /\ world \in Worlds
  BY DEF RentInv, Forest
<1>2. player' \in {"link", "linkdead"}
  BY DEF Get, Drop, GetFrom, Put
<1>3. \E w : Forest(w) /\ DoSaveOf(w)
  <2>1. CASE Get(o)
    <3> DEFINE w == [world EXCEPT !.floor = @ \ {o}, !.carrying = <<o>> \o @]
    <3>1. DoSaveOf(w) /\ o \in world.floor
      BY <2>1 DEF Get
    <3>2. Forest(w)
      BY <1>1, <3>1, GetForest
    <3> QED
      BY <3>1, <3>2
  <2>2. CASE Drop(o)
    <3> DEFINE w == [world EXCEPT !.floor = @ \cup {o}, !.carrying = RemoveFirst(@, o)]
    <3>1. DoSaveOf(w) /\ o \in Carried(world)
      BY <2>2 DEF Drop
    <3>2. Forest(w)
      BY <1>1, <3>1, DropForest
    <3> QED
      BY <3>1, <3>2
  <2>3. CASE GetFrom(o, c)
    <3> DEFINE w == [world EXCEPT !.contains[c] = RemoveFirst(@, o), !.carrying = <<o>> \o @]
    <3>1. DoSaveOf(w) /\ o \in Inside(world, c)
      BY <2>3 DEF GetFrom, Inside
    <3>2. Forest(w)
      BY <1>1, <3>1, GetFromForest
    <3> QED
      BY <3>1, <3>2
  <2>4. CASE Put(o, c)
    <3> DEFINE w == [world EXCEPT !.carrying = RemoveFirst(@, o), !.contains[c] = <<o>> \o @]
    <3>1. DoSaveOf(w) /\ o \in Carried(world) /\ c \in Carried(world) \cup world.floor /\ o # c
      BY <2>4 DEF Put
    <3>2. Forest(w)
      BY <1>1, <3>1, PutForest
    <3> QED
      BY <3>1, <3>2
  <2> QED
    BY <2>1, <2>2, <2>3, <2>4
<1>4. PICK w : Forest(w) /\ DoSaveOf(w)
  BY <1>3
<1> QED
  BY <1>2, <1>4, SaveStep

\* save_char alone: the file stays, or is written when something was refused.
LEMMA SaveCharKeeps ==
    ASSUME RentInv, NEW room, SaveChar(room)
    PROVE  RentInv'
<1>1. Forest(world) /\ OnDisk(file, saved) /\ player' = "link"
  BY DEF RentInv, SaveChar
<1>2. PICK R \in MayFall(world) :
        /\ world' = Fallen(world, R)
        /\ UNCHANGED disk \/ \E p : WriteFile(Below(world', p))
  BY DEF SaveChar
<1> DEFINE v == world'
<1>3. R \subseteq Worn(world) /\ v = Fallen(world, R)
  BY <1>2, MayFallIs
<1>4. CASE UNCHANGED disk
  <2>1. file' = file /\ saved' = saved
    BY <1>4 DEF disk
  <2>2. OnDisk(file', saved')
    BY <1>1, <2>1
  <2> HIDE DEF v
  <2>3. Forest(v)
    BY <1>1, <1>3, FallenForest
  <2> QED
    BY <1>1, <2>2, <2>3 DEF RentInv, v
<1>5. ASSUME NEW p, WriteFile(Below(world', p)) PROVE RentInv'
  <2> DEFINE u == Below(v, p)
  <2>1. WriteFile(u)
    BY <1>5
  <2> HIDE DEF v
  <2>2. Forest(v)
    BY <1>1, <1>3, FallenForest
  <2>3. Forest(u)
    BY <2>2, BelowForest
  <2> HIDE DEF u
  <2>4. OnDisk(file', saved')
    BY <2>1, <2>3, WriteIs
  <2> QED
    BY <1>1, <2>2, <2>4 DEF RentInv, v
<1> QED
  BY <1>2, <1>4, <1>5

LEMMA DressKeeps ==
    ASSUME RentInv, NEW o \in Objs, NEW p \in WearPos, Wear(o, p) \/ TakeOff(p)
    PROVE  RentInv'
<1>1. Forest(world)
  BY DEF RentInv
<1>2. player = "link" /\ UNCHANGED player
  BY DEF Wear, TakeOff
<1>3. CASE Wear(o, p)
  <2> DEFINE w == [[world EXCEPT !.carrying = RemoveFirst(@, o)] EXCEPT !.worn[p] = o]
             v == [[world EXCEPT !.carrying = RemoveFirst(@, o)] EXCEPT !.floor = @ \cup {o}]
  <2>1. o \in Carried(world) /\ world.worn[p] = Nothing
    BY <1>3 DEF Wear
  <2>2. CASE world' = w /\ UNCHANGED disk
    <3>1. w = [world EXCEPT !.carrying = RemoveFirst(@, o), !.worn[p] = o]
      BY <1>1 DEF Forest, Worlds
    <3> HIDE DEF w
    <3>2. Forest(w)
      BY <1>1, <2>1, <3>1, WearForest
    <3>3. Forest(world')
      BY <2>2, <3>2
    <3> QED
      BY <1>2, <2>2, <3>3, IdleStep
  <2>3. CASE DoSaveOf(v)
    <3>1. v = [world EXCEPT !.floor = @ \cup {o}, !.carrying = RemoveFirst(@, o)]
      BY <1>1 DEF Forest, Worlds
    <3> HIDE DEF v
    <3>2. Forest(v)
      BY <1>1, <2>1, <3>1, DropForest
    <3> QED
      BY <1>2, <2>3, <3>2, SaveStep
  <2> QED
    BY <1>3, <2>2, <2>3 DEF Wear
<1>4. CASE TakeOff(p)
  <2>1. Forest(world') /\ UNCHANGED disk
    BY <1>1, <1>4, TakeOffForest DEF TakeOff
  <2> QED
    BY <1>2, <2>1, IdleStep
<1> QED
  BY <1>3, <1>4

LEMMA RotKeeps ==
    ASSUME RentInv, NEW o \in Objs, Rot(o)
    PROVE  RentInv'
<1> DEFINE v == world'
<1>1. Forest(world) /\ world \in Worlds /\ One(world) /\ Founded(world)
  BY DEF RentInv, Forest
<1>2. v = [world EXCEPT !.rotten = @ \cup {o}]
  BY DEF Rot
<1>3. /\ v.carrying = world.carrying /\ v.worn = world.worn /\ v.contains = world.contains
      /\ v.floor = world.floor /\ v \in Worlds
  BY <1>1, <1>2 DEF Worlds
<1> HIDE DEF v
<1>4. Carried(v) = Carried(world) /\ Worn(v) = Worn(world) /\ \A c \in Objs : Inside(v, c) = Inside(world, c)
  BY <1>3 DEF Carried, Worn, Inside
<1>5. One(v)
  BY <1>1, <1>3, <1>4 DEF One, Top
<1>6. Founded(v)
  BY <1>1, <1>4 DEF Founded
<1>7. InWorld(v) \subseteq InWorld(world)
  BY <1>1, <1>3, <1>4, InWorldIs DEF Top
<1>8. UNCHANGED <<player, disk>>
  BY DEF Rot
<1>9. player = "out" => Out(world, file)
  BY DEF RentInv
<1>10. player = "out" => Carried(v) = {} /\ Worn(v) = {} /\ Objects(file, Len(file)) \cap InWorld(v) = {}
  BY <1>4, <1>7, <1>9 DEF Out
<1>11. Forest(v)
  BY <1>3, <1>5, <1>6 DEF Forest
<1> QED
  BY <1>8, <1>10, <1>11, IdleStep DEF v

\* ObjFromCorpse, wherever the corpse is.
LEMMA CorpseDecaysKeeps ==
    ASSUME RentInv, NEW c \in Corpses, CorpseDecays(c)
    PROVE  RentInv'
<1> DEFINE v == world'
           l == world.contains[c]
<1>0. c \in Objs /\ Forest(world) /\ world \in Worlds /\ ToSet(l) = Inside(world, c)
  BY RentAssumption DEF RentInv, Forest, Inside
<1>1. UNCHANGED <<player, disk>>
  BY DEF CorpseDecays
<1>2. player = "out" => Out(world, file)
  BY DEF RentInv
<1>3. \/ /\ c \in world.floor
         /\ v = [world EXCEPT !.floor = (@ \ {c}) \cup ToSet(l), !.contains[c] = <<>>]
      \/ /\ c \in Carried(world)
         /\ v = [world EXCEPT !.floor = @ \cup ToSet(l), !.contains[c] = <<>>,
                              !.carrying = RemoveFirst(@, c)]
      \/ \E d \in Objs :
            /\ c \in Inside(world, d)
            /\ v = [world EXCEPT !.contains[c] = <<>>,
                                 !.contains[d] = Reverse(l) \o RemoveFirst(@, c)]
  BY DEF CorpseDecays, Inside
<1> HIDE DEF v
<1>4. /\ Forest(v) /\ InWorld(v) \subseteq InWorld(world)
      /\ c \in Carried(world) \/ (v.carrying = world.carrying /\ v.worn = world.worn)
  <2>1. CASE c \in world.floor /\ v = [world EXCEPT !.floor = (@ \ {c}) \cup ToSet(l), !.contains[c] = <<>>]
    <3>1. v.carrying = world.carrying /\ v.worn = world.worn
      BY <1>0, <2>1 DEF Worlds
    <3> HIDE DEF l
    <3>2. v = [world EXCEPT !.floor = (@ \ {c}) \cup Inside(world, c), !.contains[c] = <<>>]
      BY <1>0, <2>1
    <3>3. Forest(v) /\ InWorld(v) \subseteq InWorld(world)
      BY <1>0, <2>1, <3>2, DecayFloor
    <3> QED
      BY <3>1, <3>3
  <2>2. CASE c \in Carried(world) /\ v = [world EXCEPT !.floor = @ \cup ToSet(l), !.contains[c] = <<>>,
                                                       !.carrying = RemoveFirst(@, c)]
    <3> HIDE DEF l
    <3>1. v = [world EXCEPT !.floor = @ \cup Inside(world, c), !.contains[c] = <<>>,
                            !.carrying = RemoveFirst(@, c)]
      BY <1>0, <2>2
    <3> QED
      BY <1>0, <2>2, <3>1, DecayCarried
  <2>3. ASSUME NEW d \in Objs, c \in Inside(world, d),
               v = [world EXCEPT !.contains[c] = <<>>, !.contains[d] = Reverse(l) \o RemoveFirst(@, c)]
        PROVE  Forest(v) /\ InWorld(v) \subseteq InWorld(world) /\ v.carrying = world.carrying /\ v.worn = world.worn
    <3>1. v.carrying = world.carrying /\ v.worn = world.worn
      BY <1>0, <2>3 DEF Worlds
    <3>2. Forest(v) /\ InWorld(v) \subseteq InWorld(world)
      BY <1>0, <2>3, DecayInside
    <3> QED
      BY <3>1, <3>2
  <2> QED
    BY <1>3, <2>1, <2>2, <2>3
<1>5. player = "out" => Carried(v) = {} /\ Worn(v) = {} /\ Objects(file, Len(file)) \cap InWorld(v) = {}
  <2> SUFFICES ASSUME player = "out"
               PROVE  Carried(v) = {} /\ Worn(v) = {} /\ Objects(file, Len(file)) \cap InWorld(v) = {}
    OBVIOUS
  <2>1. Carried(world) = {} /\ Worn(world) = {} /\ Objects(file, Len(file)) \cap InWorld(world) = {}
    BY <1>2 DEF Out
  <2>2. Carried(v) = Carried(world) /\ Worn(v) = Worn(world)
    BY <1>4, <2>1 DEF Carried, Worn
  <2> QED
    BY <1>4, <2>1, <2>2
<1> QED
  BY <1>1, <1>4, <1>5, IdleStep DEF v

\* A step after which the player is out and the file has what was saved of w.
LEMMA OutStep ==
    ASSUME player' = "out", Forest(world'), Carried(world') = {}, Worn(world') = {},
           NEW w, Forest(w), WriteFile(w), InWorld(world') \cap Held(w) = {}
    PROVE  RentInv'
<1> DEFINE v == world'
           s == file'
<1>1. Forest(v) /\ Carried(v) = {} /\ Worn(v) = {} /\ InWorld(v) \cap Held(w) = {}
  OBVIOUS
<1>2. OnDisk(file', saved') /\ Objects(s, Len(s)) \subseteq Held(w)
  BY WriteIs
<1> HIDE DEF v, s
<1>3. Out(v, s)
  BY <1>1, <1>2 DEF Out
<1> QED
  BY <1>1, <1>2, <1>3 DEF RentInv, v, s

\* A step after which the player has nothing and the file is empty.
LEMMA EmptyStep ==
    ASSUME player' \in {"out", "link"}, Forest(world'), Empty, Carried(world') = {}, Worn(world') = {}
    PROVE  RentInv'
<1> DEFINE v == world'
           s == file'
           p == saved'
<1>1. Forest(v) /\ Carried(v) = {} /\ Worn(v) = {} /\ s = <<>> /\ p = << >>
  BY DEF Empty
<1> HIDE DEF v, s, p
<1>2. OnDisk(s, p) /\ Objects(s, Len(s)) = {}
  BY <1>1, EmptyOnDisk
<1>3. Out(v, s)
  BY <1>1, <1>2 DEF Out
<1> QED
  BY <1>1, <1>2, <1>3 DEF RentInv, v, s, p

LEMMA StoreAllKeeps ==
    ASSUME NEW w, Forest(w), StoreAll(w), player' = "out"
    PROVE  RentInv'
<1> DEFINE v == world'
<1>1. WriteFile(w)
  BY DEF StoreAll
<1>2. v = [Bare(w) EXCEPT !.contains = [o \in Objs |-> IF o \in Held(w) THEN <<>> ELSE @[o]],
                          !.rotten = @ \ Held(w)]
  BY DEF StoreAll
<1> HIDE DEF v
<1>3. Forest(v) /\ InWorld(v) \cap Held(w) = {} /\ Carried(v) = {} /\ Worn(v) = {}
  BY <1>2, StoreAllForest
<1> QED
  BY <1>1, <1>3, OutStep DEF v

\* A player with nothing is nowhere else either.
LEMMA NothingHeld ==
    ASSUME NEW v, Carried(v) = {}, Worn(v) = {}
    PROVE  Held(v) = {}
<1>1. Carried(v) \cup Worn(v) = {}
  OBVIOUS
<1>2. Within(v, {}) = {}
  BY DEF Within
<1> QED
  BY <1>1, <1>2 DEF Held

LEMMA QuitKeeps ==
    ASSUME RentInv, Quit
    PROVE  RentInv'
<1> DEFINE v == world'
<1>1. Forest(world) /\ player' = "out" /\ Empty
  BY DEF RentInv, Quit
<1>2. v = [Bare(world) EXCEPT !.floor = @ \cup Carried(world) \cup Worn(world)]
  BY DEF Quit, LeaveAll
<1> HIDE DEF v
<1>3. Forest(v) /\ Carried(v) = {} /\ Worn(v) = {}
  BY <1>1, <1>2, LeaveAllForest
<1> QED
  BY <1>1, <1>3, EmptyStep DEF v

\* Without refused rents, only a player that has nothing is not offered anything.
LEMMA ForceRentKeeps ==
    ASSUME RentInv, ~RefusedRent, ForceRent
    PROVE  RentInv'
<1>1. Forest(world) /\ player' = "out"
  BY DEF RentInv, ForceRent
<1>2. PICK R \in MayFall(world) :
        \/ StoreAll(Fallen(world, R))
        \/ /\ Held(Fallen(world, R)) = {} /\ LeaveAll(Fallen(world, R))
           /\ \E p : WriteFile(Below(Fallen(world, R), p))
  BY DEF ForceRent
<1> DEFINE w == Fallen(world, R)
<1>3. R \subseteq Worn(world)
  BY <1>2, MayFallIs
<1>4. Forest(w)
  BY <1>1, <1>3, FallenForest
<1>5. \/ StoreAll(w)
      \/ Held(w) = {} /\ LeaveAll(w) /\ \E p : WriteFile(Below(w, p))
  BY <1>2
<1> HIDE DEF w
<1>6. CASE StoreAll(w)
  BY <1>1, <1>4, <1>6, StoreAllKeeps
<1>7. ASSUME Held(w) = {}, LeaveAll(w), NEW p, WriteFile(Below(w, p)) PROVE RentInv'
  <2> DEFINE v == world'
             u == Below(w, p)
  <2>1. v = [Bare(w) EXCEPT !.floor = @ \cup Carried(w) \cup Worn(w)] /\ WriteFile(u)
    BY <1>7 DEF LeaveAll
  <2> HIDE DEF v
  <2>2. Forest(v) /\ Carried(v) = {} /\ Worn(v) = {}
    BY <1>4, <2>1, LeaveAllForest
  <2>3. Forest(u) /\ Carried(u) = Carried(w) /\ Worn(u) \subseteq Worn(w)
    BY <1>4, BelowForest
  <2>4. Carried(w) = {} /\ Worn(w) = {}
    BY <1>4, <1>7, HeldIs DEF Forest
  <2> HIDE DEF u
  <2>5. Held(u) = {}
    BY <2>3, <2>4, NothingHeld
  <2> QED
    BY <1>1, <2>1, <2>2, <2>3, <2>5, OutStep DEF v
<1> QED
  BY <1>5, <1>6, <1>7

LEMMA DieKeeps ==
    ASSUME RentInv, NEW c \in Corpses, Die(c)
    PROVE  RentInv'
<1> DEFINE v == world'
<1>1. Forest(world) /\ player' = "out" /\ Empty /\ c \in Objs /\ c \notin InWorld(world)
  BY RentAssumption DEF RentInv, Die, Unused
<1>2. v = [Bare(world) EXCEPT !.contains[c] = Undressed(world), !.floor = @ \cup {c}, !.rotten = @ \ {c}]
  BY DEF Die, IntoCorpse
<1> HIDE DEF v
<1>3. Forest(v) /\ Carried(v) = {} /\ Worn(v) = {}
  BY <1>1, <1>2, IntoCorpseForest
<1> QED
  BY <1>1, <1>3, EmptyStep DEF v

\* The boot keeps the file or empties it.
LEMMA CrashKeeps ==
    ASSUME RentInv, Crash
    PROVE  RentInv'
<1> DEFINE v == world'
<1>1. Forest(world) /\ player' = "out" /\ OnDisk(file, saved)
  BY DEF RentInv, Crash
<1>2. v = [Bare(world) EXCEPT !.contains = [o \in Objs |-> <<>>], !.floor = {}, !.rotten = {}]
  BY DEF Crash
<1> HIDE DEF v
<1>3. Forest(v) /\ InWorld(v) = {} /\ Carried(v) = {} /\ Worn(v) = {}
  BY <1>1, <1>2, CrashForest
<1>4. CASE UNCHANGED disk
  <2>1. file' = file /\ saved' = saved
    BY <1>4 DEF disk
  <2>2. Out(v, file)
    BY <1>3 DEF Out
  <2> QED
    BY <1>1, <1>3, <2>1, <2>2 DEF RentInv, v
<1>5. CASE Empty
  BY <1>1, <1>3, <1>5, EmptyStep DEF v
<1> QED
  BY <1>4, <1>5 DEF Crash

LEMMA LinkKeeps ==
    ASSUME RentInv, LoseLink \/ Reconnect \/ DoSave
    PROVE  RentInv'
<1>1. Forest(world) /\ OnDisk(file, saved) /\ player \in {"out", "link", "linkdead"}
  BY DEF RentInv
<1>2. CASE Reconnect
  <2>1. player # "out" /\ UNCHANGED <<world, disk>> /\ player' = "link"
    BY <1>2 DEF Reconnect
  <2>2. OnDisk(file', saved') /\ Forest(world')
    BY <1>1, <2>1 DEF disk
  <2> QED
    BY <2>1, <2>2 DEF RentInv
<1>3. CASE LoseLink \/ DoSave
  <2>1. DoSaveOf(world) /\ player' \in {"link", "linkdead"}
    BY <1>1, <1>3 DEF LoseLink, DoSave
  <2> QED
    BY <1>1, <2>1, SaveStep
<1> QED
  BY <1>2, <1>3

\* What load_char_objs makes of the world, and of the file.
LEMMA LoadedIs ==
    ASSUME RentInv, player = "out", NEW R, NEW n
    PROVE  Loaded(R, n) = Regained(world, Building(world, file, R)[n])
<1>1. Filed(file)
  BY DEF RentInv, OnDisk
<1>2. Stored = Objects(file, Len(file))
  BY <1>1, StoredIs DEF Stored
<1>3. ObjStoreToChar(R) = Building(world, file, R)
  BY <1>2, ObjStoreToCharIs DEF Building
<1> QED
  BY <1>3 DEF Loaded, Regained

LEMMA EnterIs ==
    ASSUME RentInv, NEW R, Enter(R)
    PROVE  /\ Vacant(world, file) /\ player = "out" /\ player' = "link" /\ OnDisk(file, saved)
           /\ R # {} => load_room = "room"
           /\ world' = Entered(world, file, R)
           /\ \/ UNCHANGED disk
              \/ \E n \in 0..Len(file) : \E p :
                   WriteFile(Below(Regained(world, Building(world, file, R)[n]), p))
<1>1. player = "out" /\ player' = "link" /\ (R # {} => load_room = "room")
  BY DEF Enter
<1>2. OnDisk(file, saved) /\ Filed(file) /\ Forest(world) /\ Out(world, file)
  BY <1>1 DEF RentInv, OnDisk
<1>3. Vacant(world, file)
  BY <1>2 DEF Vacant, Out
<1>4. world' = Entered(world, file, R)
  BY <1>1, LoadedIs DEF Enter, Entered
<1>5. UNCHANGED disk \/ \E n \in DOMAIN file : \E p : WriteFile(Below(Loaded(R, n), p))
  BY DEF Enter
<1>6. DOMAIN file \subseteq 0..Len(file)
  <2>1. file \in Seq(Elements)
    BY <1>2 DEF Filed
  <2> QED
    BY <2>1
<1>7. \A n : Loaded(R, n) = Regained(world, Building(world, file, R)[n])
  BY <1>1, LoadedIs
<1>8. UNCHANGED disk \/ \E n \in 0..Len(file) : \E p :
                          WriteFile(Below(Regained(world, Building(world, file, R)[n]), p))
  BY <1>5, <1>6, <1>7
<1> QED
  BY <1>1, <1>2, <1>3, <1>4, <1>8

LEMMA EnterKeeps ==
    ASSUME RentInv, (\E R \in SUBSET Fickle : Enter(R)) \/ EnterBroke
    PROVE  RentInv'
<1>1. ASSUME NEW R \in SUBSET Fickle, Enter(R) PROVE RentInv'
  <2> DEFINE v == world'
             m == Len(file)
             b(n) == Regained(world, Building(world, file, R)[n])
  <2>1. /\ Vacant(world, file) /\ player' = "link" /\ OnDisk(file, saved) /\ v = b(m)
        /\ UNCHANGED disk \/ \E n \in 0..m : \E p : WriteFile(Below(b(n), p))
    BY <1>1, EnterIs DEF Entered
  <2>2. m \in Nat
    <3>1. file \in Seq(Elements)
      BY <2>1 DEF Vacant, Filed
    <3> QED
      BY <3>1
  <2>3. \A n \in 0..m : Forest(b(n))
    <3> SUFFICES ASSUME NEW n \in 0..m PROVE Forest(b(n))
      OBVIOUS
    <3>1. Made(world, file, R, n, Building(world, file, R)[n])
      BY <2>1, RestoreIs
    <3> QED
      BY <3>1 DEF Made
  <2> HIDE DEF v, m, b
  <2>4. Forest(v)
    BY <2>1, <2>2, <2>3
  <2>5. CASE UNCHANGED disk
    <3>1. file' = file /\ saved' = saved
      BY <2>5 DEF disk
    <3>2. OnDisk(file', saved')
      BY <2>1, <3>1
    <3> QED
      BY <2>1, <2>4, <3>2 DEF RentInv, v
  <2>6. ASSUME NEW n \in 0..m, NEW p, WriteFile(Below(b(n), p)) PROVE RentInv'
    <3>1. Forest(b(n))
      BY <2>3
    <3>2. Forest(Below(b(n), p))
      BY <3>1, BelowForest
    <3>3. OnDisk(file', saved')
      BY <2>6, <3>2, WriteIs
    <3> QED
      BY <2>1, <2>4, <3>3 DEF RentInv, v
  <2> QED
    BY <2>1, <2>5, <2>6
<1>2. CASE EnterBroke
  <2>1. player = "out" /\ player' = "link" /\ Empty /\ world' = world
    BY <1>2 DEF EnterBroke
  <2>2. Forest(world) /\ Out(world, file)
    BY <2>1 DEF RentInv
  <2>3. Forest(world') /\ Carried(world') = {} /\ Worn(world') = {}
    BY <2>1, <2>2 DEF Out
  <2> QED
    BY <2>1, <2>3, EmptyStep
<1> QED
  BY <1>1, <1>2

LEMMA NextKeeps ==
    ASSUME RentInv, ~RefusedRent, Next
    PROVE  RentInv'
<1>1. ASSUME NEW o \in Objs, Load(o) \/ Get(o) \/ Drop(o) \/ Rot(o)
      PROVE  RentInv'
  BY <1>1, LoadKeeps, HandKeeps, RotKeeps
<1>2. ASSUME NEW o \in Objs, NEW c \in Objs, LoadInCorpse(c, o) \/ GetFrom(o, c) \/ Put(o, c)
      PROVE  RentInv'
  BY <1>2, LoadInCorpseKeeps, HandKeeps
<1>3. ASSUME NEW o \in Objs, NEW p \in WearPos, Wear(o, p)
      PROVE  RentInv'
  BY <1>3, DressKeeps
<1>4. ASSUME NEW p \in WearPos, TakeOff(p)
      PROVE  RentInv'
  <2>1. ASSUME Objs = {} PROVE FALSE
    <3>1. world.worn[p] # Nothing /\ world \in Worlds
      BY <1>4 DEF TakeOff, RentInv, Forest
    <3>2. world.worn[p] \in Objs \cup {Nothing}
      BY <3>1, WorldFields
    <3> QED
      BY <2>1, <3>1, <3>2
  <2> QED
    BY <1>4, <2>1, DressKeeps
<1>5. ASSUME NEW c \in Corpses, CorpseDecays(c) \/ Die(c)
      PROVE  RentInv'
  BY <1>5, CorpseDecaysKeeps, DieKeeps
<1>6. CASE RentRoom
  <2>1. Forest(world) /\ StoreAll(world) /\ player' = "out"
    BY <1>6 DEF RentRoom, RentInv
  <2> QED
    BY <2>1, StoreAllKeeps
<1>7. CASE LoseLink \/ Reconnect \/ ForceRent \/ Quit \/ DoSave \/ Crash
  BY <1>7, LinkKeeps, ForceRentKeeps, QuitKeeps, CrashKeeps
<1>8. CASE (\E R \in SUBSET Fickle : Enter(R)) \/ EnterBroke
  BY <1>8, EnterKeeps
<1>9. ASSUME NEW room \in {"AUTO_RENT", "room"}, SaveChar(room)
      PROVE  RentInv'
  BY <1>9, SaveCharKeeps
<1> QED
  BY <1>1, <1>2, <1>3, <1>4, <1>5, <1>6, <1>7, <1>8, <1>9 DEF Next

\* The forest of possessions, the shape of the rent file and that it tells what
\* is nowhere else hold in every reachable state, if no rent is refused.
THEOREM RentInvariant ==
    ASSUME ~RefusedRent
    PROVE  RentSpec => []RentInv
<1>1. RentInit => RentInv
  BY RentStart
<1>2. RentInv /\ [Next]_rentVars => RentInv'
  <2> SUFFICES ASSUME RentInv, [Next]_rentVars PROVE RentInv'
    OBVIOUS
  <2>1. CASE UNCHANGED rentVars
    <3>1. player' = player /\ world' = world /\ file' = file /\ saved' = saved
      BY <2>1 DEF rentVars, disk
    <3> QED
      BY <3>1 DEF RentInv
  <2> QED
    BY <2>1, NextKeeps
<1> QED
  BY <1>1, <1>2, PTL DEF RentSpec

\* load_room is one of the values a save gives it.
LEMMA RoomStep ==
    ASSUME load_room \in {"NOWHERE", "AUTO_RENT", "room"}, [Next]_rentVars
    PROVE  load_room' \in {"NOWHERE", "AUTO_RENT", "room"}
<1>1. CASE UNCHANGED rentVars
  BY <1>1 DEF rentVars
<1>2. ASSUME NEW o \in Objs, Load(o) \/ Get(o) \/ Drop(o) \/ Rot(o)
      PROVE  load_room' \in {"NOWHERE", "AUTO_RENT", "room"}
  BY <1>2 DEF Load, Get, Drop, Rot, DoSaveOf
<1>3. ASSUME NEW o \in Objs, NEW c \in Objs, LoadInCorpse(c, o) \/ GetFrom(o, c) \/ Put(o, c)
      PROVE  load_room' \in {"NOWHERE", "AUTO_RENT", "room"}
  BY <1>3 DEF LoadInCorpse, GetFrom, Put, DoSaveOf
<1>4. ASSUME NEW o \in Objs, NEW p \in WearPos, Wear(o, p)
      PROVE  load_room' \in {"NOWHERE", "AUTO_RENT", "room"}
  BY <1>4 DEF Wear, DoSaveOf
<1>5. ASSUME NEW p \in WearPos, TakeOff(p)
      PROVE  load_room' \in {"NOWHERE", "AUTO_RENT", "room"}
  BY <1>5 DEF TakeOff
<1>6. ASSUME NEW c \in Corpses, CorpseDecays(c) \/ Die(c)
      PROVE  load_room' \in {"NOWHERE", "AUTO_RENT", "room"}
  BY <1>6 DEF CorpseDecays, Die
<1>7. ASSUME NEW R \in SUBSET Fickle, Enter(R)
      PROVE  load_room' \in {"NOWHERE", "AUTO_RENT", "room"}
  BY <1>7 DEF Enter
<1>8. ASSUME NEW room \in {"AUTO_RENT", "room"}, SaveChar(room)
      PROVE  load_room' \in {"NOWHERE", "AUTO_RENT", "room"}
  BY <1>8 DEF SaveChar
<1>9. CASE LoseLink \/ Reconnect \/ RentRoom \/ ForceRent
  BY <1>9 DEF LoseLink, Reconnect, RentRoom, ForceRent, DoSaveOf
<1>10. CASE Quit \/ EnterBroke \/ DoSave \/ Crash
  BY <1>10 DEF Quit, EnterBroke, DoSave, DoSaveOf, Crash
<1> QED
  BY <1>1, <1>2, <1>3, <1>4, <1>5, <1>6, <1>7, <1>8, <1>9, <1>10 DEF Next

\* RentTypeOK: reception.c's file never has more than MAX_OBJ_SAVE elements, all
\* of them numbered objects at a depth and a position of obj_file_elem.
THEOREM TypeCorrect ==
    ASSUME ~RefusedRent
    PROVE  RentSpec => []RentTypeOK
<1> DEFINE Rooms == load_room \in {"NOWHERE", "AUTO_RENT", "room"}
<1>1. RentInit => Rooms
  BY DEF RentInit
<1>2. Rooms /\ [Next]_rentVars => Rooms'
  BY RoomStep
<1>3. RentInv /\ Rooms => RentTypeOK
  BY DEF RentInv, RentTypeOK, Forest, OnDisk, Filed
<1> QED
  BY <1>1, <1>2, <1>3, RentInvariant, PTL DEF RentSpec

\* OneCopy: no sequence of get, drop, put, wear, rent, quit, death, decay, crash
\* and return leaves an object in two places, or in the rent file of a player
\* that is out and in the world.
THEOREM OneCopyHolds ==
    ASSUME ~RefusedRent
    PROVE  RentSpec => []OneCopy
<1>1. RentInv => OneCopy
  <2> SUFFICES ASSUME RentInv PROVE OneCopy
    OBVIOUS
  <2>1. Forest(world) /\ Filed(file) /\ (player = "out" => Out(world, file))
    BY DEF RentInv, OnDisk
  <2>2. \A o \in Objs : Cardinality(Places(world, o)) <= 1
    BY <2>1, OnePlace DEF Forest
  <2>3. IsInjective(world.carrying) /\ \A c \in Objs : IsInjective(world.contains[c])
    BY <2>1, ForestFacts
  <2>4. Stored = Objects(file, Len(file))
    BY <2>1, StoredIs DEF Stored
  <2>5. Cardinality(Stored) = Len(file)
    BY <2>1, <2>4 DEF Filed, Objects
  <2>6. player = "out" => Stored \cap InWorld(world) = {}
    BY <2>1, <2>4 DEF Out
  <2> QED
    BY <2>2, <2>3, <2>5, <2>6 DEF OneCopy
<1> QED
  BY <1>1, RentInvariant, PTL

LEMMA GentleIs ==
    ASSUME Filed(file), Gentle
    PROVE  /\ \A i \in 1..Len(file) : file[i].depth <= MaxDepth
           /\ \A i \in 1..(Len(file) - 1) :
                file[i + 1].depth <= file[i].depth + 1 /\ file[i].depth <= file[i + 1].depth + 1
<1>0. file \in Seq(Elements)
  BY DEF Filed
<1>1. DOMAIN file = 1..Len(file)
  BY <1>0
<1> QED
  BY <1>1 DEF Gentle

\* What equip_char refused when the player entered, and nothing else, lies on
\* the floor now.
LEMMA RefusedOnFloor ==
    ASSUME RentInv, NEW R \in SUBSET Fickle, Enter(R)
    PROVE  NowOnFloor \subseteq R /\ (R # {} => load_room = "room")
<1> DEFINE v == world'
<1>1. /\ Vacant(world, file) /\ v = Entered(world, file, R)
      /\ R # {} => load_room = "room"
  BY EnterIs
<1>2. NowOnFloor = v.floor \ world.floor
  BY DEF NowOnFloor
<1> HIDE DEF v
<1>3. v.floor \subseteq world.floor \cup R
  <2> DEFINE O == Objects(file, Len(file))
  <2>1. v.floor \subseteq world.floor \cup (R \cap O)
    BY <1>1, EnterForest
  <2> QED
    BY <2>1
<1> QED
  BY <1>1, <1>2, <1>3

LEMMA RestoredStep ==
    ASSUME RentInv, Entering, DOMAIN saved = Stored, Gentle
    PROVE  /\ Held(world') \subseteq Stored
           /\ \A o \in Stored :
                \/ Places(world', o) = saved[o]
                \/ /\ load_room = "room" /\ o \in Fickle
                   /\ Places(world', o) = {<<"floor">>}
                   /\ \E p \in WearPos : saved[o] = {<<"worn", p>>}
<1>0. PICK R \in SUBSET Fickle : Enter(R)
  BY DEF Entering
<1> DEFINE v == world'
<1>1. /\ Vacant(world, file) /\ OnDisk(file, saved) /\ (R # {} => load_room = "room")
      /\ v = Entered(world, file, R)
  BY <1>0, EnterIs
<1>2. Filed(file) /\ Described(file, saved)
  BY <1>1 DEF OnDisk
<1>3. Stored = Objects(file, Len(file))
  BY <1>2, StoredIs DEF Stored
<1>4. /\ \A i \in 1..Len(file) : file[i].depth <= MaxDepth
      /\ \A i \in 1..(Len(file) - 1) :
           file[i + 1].depth <= file[i].depth + 1 /\ file[i].depth <= file[i + 1].depth + 1
  BY <1>2, GentleIs
<1> HIDE DEF v
<1>5. Held(v) \subseteq Stored
  BY <1>1, <1>3, EnterForest
<1>6. \A o \in Stored :
        \/ Places(v, o) = saved[o]
        \/ /\ o \in R /\ Places(v, o) = {<<"floor">>}
           /\ \E p \in WearPos : saved[o] = {<<"worn", p>>}
  BY <1>1, <1>2, <1>3, <1>4, EnterSaved
<1> QED
  BY <1>1, <1>5, <1>6 DEF v

LEMMA NothingLostStep ==
    ASSUME RentInv, Entering, file[1].depth = 0 \/ file[1].wearpos > 0
    PROVE  /\ NowOnFloor \subseteq Fickle /\ (NowOnFloor # {} => load_room = "room")
           /\ Stored \subseteq
                Within(world', Carried(world') \cup Worn(world') \cup NowOnFloor)
<1>0. PICK R \in SUBSET Fickle : Enter(R)
  BY DEF Entering
<1> DEFINE v == world'
<1>1. /\ Vacant(world, file) /\ Filed(file)
      /\ v = Entered(world, file, R)
  BY <1>0, EnterIs DEF OnDisk
<1>2. NowOnFloor \subseteq R /\ (R # {} => load_room = "room")
  BY <1>0, RefusedOnFloor
<1>3. Stored = Objects(file, Len(file))
  BY <1>1, StoredIs DEF Stored
<1>4. NowOnFloor = v.floor \ world.floor
  BY DEF NowOnFloor
<1> HIDE DEF v
<1>5. Stored \subseteq Within(v, Carried(v) \cup Worn(v) \cup (v.floor \ world.floor))
  BY <1>1, <1>3, EnterForest
<1> QED
  BY <1>2, <1>4, <1>5 DEF v

LEMMA RentedStep ==
    ASSUME RentInv, RentRoom
    PROVE  Held(world) \ world.rotten \subseteq Stored'
<1> DEFINE s == file'
<1>1. s = SaveObj(world) /\ world \in Worlds /\ One(world)
  BY DEF RentRoom, StoreAll, WriteFile, RentInv, Forest
<1>2. Held(world) \cap Corpses = {} /\ Cardinality(Held(world)) <= MaxObjSave
  BY DEF RentRoom, RecepOffer
<1>3. Stored' = {s[i].obj : i \in DOMAIN s}
  BY DEF Stored
<1> HIDE DEF s
<1>4. Filed(s) /\ Held(world) \ world.rotten \subseteq Objects(s, Len(s))
  BY <1>1, <1>2, SaveObjIs
<1> QED
  BY <1>3, <1>4, StoredIs

\* RestoredAsSaved: obj_store_to_char undoes save_obj.  A player that returns has
\* every object where it was when the file was written - in the same container,
\* at the same position - if all of it is in the file and the depths in it change
\* by one at a time; only what equip_char refuses, in a room, is at its feet.
THEOREM RestoredAsSavedHolds ==
    ASSUME ~RefusedRent
    PROVE  RentSpec => RestoredAsSaved
<1>1. RentInv /\ [Next]_rentVars
        => [Entering /\ DOMAIN saved = Stored /\ Gentle
            => /\ Held(world') \subseteq Stored
               /\ \A o \in Stored :
                    \/ Places(world', o) = saved[o]
                    \/ /\ load_room = "room" /\ o \in Fickle
                       /\ Places(world', o) = {<<"floor">>}
                       /\ \E p \in WearPos : saved[o] = {<<"worn", p>>}]_rentVars
  BY RestoredStep
<1> QED
  BY <1>1, RentInvariant, PTL DEF RentSpec, RestoredAsSaved

\* NothingLost: whatever the depths, all the file holds is on the player again, or
\* in what equip_char refused and lies on the floor, unless the first of it was in
\* something that was left out.
THEOREM NothingLostHolds ==
    ASSUME ~RefusedRent
    PROVE  RentSpec => NothingLost
<1>1. RentInv /\ [Next]_rentVars
        => [Entering /\ file # <<>> /\ (file[1].depth = 0 \/ file[1].wearpos > 0)
            => /\ NowOnFloor \subseteq Fickle /\ (NowOnFloor # {} => load_room = "room")
               /\ Stored \subseteq
                    Within(world', Carried(world') \cup Worn(world') \cup NowOnFloor)]_rentVars
  BY NothingLostStep
<1> QED
  BY <1>1, RentInvariant, PTL DEF RentSpec, NothingLost

\* RentedIsStored: what recep_offer lets in is what obj_to_store has room for;
\* only old junk is left out.
THEOREM RentedIsStoredHolds ==
    ASSUME ~RefusedRent
    PROVE  RentSpec => RentedIsStored
<1>1. RentInv /\ [Next]_rentVars => [RentRoom => Held(world) \ world.rotten \subseteq Stored']_rentVars
  BY RentedStep
<1> QED
  BY <1>1, RentInvariant, PTL DEF RentSpec, RentedIsStored

=============================================================================
