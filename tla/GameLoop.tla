------------------------------ MODULE GameLoop ------------------------------
(***************************************************************************)
(* The game loop and descriptor_list (comm.c).  Each pass accepts a        *)
(* connection and then walks the list five times: exceptions, input,       *)
(* commands, output, and the heartbeat, which reaches the connections      *)
(* through their characters.  Any of the walks may find a connection       *)
(* broken and close it, and a command may close others, among them the one *)
(* the loop would visit next: next_to_process is global for that reason.   *)
(*                                                                         *)
(* One action is one turn of a loop.  The list is the code's linked list:  *)
(* descriptor_list, d->next.  What a line says is left out, except what it *)
(* does to descriptors.                                                    *)
(***************************************************************************)
EXTENDS Naturals, FiniteSets

CONSTANTS Desc,        \* descriptors: as many as MAX_CONNECTS leaves room for
          None,
          MaxQueue,    \* bound: lines waiting in one input queue
          MaxWait      \* bound: the longest delay a command imposes

ASSUME LoopAssumption ==
    /\ None \notin Desc
    /\ MaxQueue \in Nat /\ MaxWait \in Nat \ {0}

VARIABLES phase,             \* which loop of game_loop is running
          live,              \* descriptors that are allocated
          descriptor_list,   \* the head of the list
          next,              \* d->next
          point,             \* the descriptor the loop looks at now
          next_to_process,
          walker,            \* d in new_descriptor's and do_purge's loops
          named,             \* d->character: exists from the first line on
          queue,             \* the number of lines in d->input
          wait               \* d->wait; below zero it is as good as zero

links == <<live, descriptor_list, next, named>>
lines == <<queue, wait>>
vars  == <<phase, links, point, next_to_process, walker, lines>>

Walks == {"exceptions", "input", "commands", "output", "heartbeat"}

Init ==
    /\ phase = "select"
    /\ live = {}
    /\ descriptor_list = None
    /\ next = [d \in Desc |-> None]
    /\ point = None
    /\ next_to_process = None
    /\ walker = None
    /\ named = {}
    /\ queue = [d \in Desc |-> 0]
    /\ wait = [d \in Desc |-> 0]

-----------------------------------------------------------------------------
(* The list.                                                               *)

\* What a walk that is at x has still before it.
Before(x) ==
    {d \in Desc : x # None /\ \A S \in SUBSET Desc :
                    x \in S /\ (\A k \in S : next[k] \in S \cup {None}) => d \in S}

\* The descriptor is taken out of the list, and freed with its character.  What
\* its memory says of d->next stays as it was.
Unlink(d) ==
    /\ live' = live \ {d}
    /\ named' = named \ {d}
    /\ descriptor_list' = IF descriptor_list = d THEN next[d] ELSE descriptor_list
    /\ next' = [k \in Desc |-> IF k \in live /\ next[k] = d THEN next[d] ELSE next[k]]

\* Mutants: the process loop is not told, and it is told to stop.
CloseSocketUntold(d, process) == Unlink(d) /\ next_to_process' = process
CloseSocketStops(d, process) ==
    Unlink(d) /\ next_to_process' = IF process = d THEN None ELSE process

\* close_socket, when the process loop's next_to_process is `process'.
CloseSocket(d, process) ==
    /\ Unlink(d)
    /\ next_to_process' = IF process = d THEN next[d] ELSE process

\* flush_queues, and the descriptor is freed.
Flush(d) ==
    /\ queue' = [queue EXCEPT ![d] = 0]
    /\ wait' = [wait EXCEPT ![d] = 0]

-----------------------------------------------------------------------------
(* New connections.                                                        *)

Begin(walk) == phase' = walk /\ point' = descriptor_list

\* Nothing on the mother connection, or accept fails.
NoConnection ==
    /\ phase = "select"
    /\ Begin("exceptions")
    /\ UNCHANGED <<links, next_to_process, walker, lines>>

\* new_descriptor: in front of the list.
NewDescriptor(d) ==
    /\ phase = "select"
    /\ d \notin live
    /\ live' = live \cup {d}
    /\ next' = [next EXCEPT ![d] = descriptor_list]
    /\ descriptor_list' = d
    /\ wait' = [wait EXCEPT ![d] = 1]
    /\ phase' = "exceptions"
    /\ point' = d
    /\ UNCHANGED <<next_to_process, walker, named, queue>>

\* No room: connections that have not sent a line yet are thrown out.
GameFull ==
    /\ phase = "select"
    /\ live = Desc
    /\ phase' = "evict"
    /\ walker' = descriptor_list
    /\ UNCHANGED <<links, point, next_to_process, lines>>

Evict ==
    /\ phase = "evict"
    /\ walker \in live \ named
    /\ CloseSocket(walker, next_to_process)
    /\ Flush(walker)
    /\ UNCHANGED <<phase, point, walker>>

\* d = d->next, from freed memory when d has just been closed.
EvictOn ==
    /\ phase = "evict"
    /\ walker # None
    /\ walker \in named \/ walker \notin live
    /\ walker' = next[walker]
    /\ UNCHANGED <<phase, links, point, next_to_process, lines>>

EvictEnds ==
    /\ phase = "evict"
    /\ walker = None
    /\ Begin("exceptions")
    /\ UNCHANGED <<links, next_to_process, walker, lines>>

-----------------------------------------------------------------------------
(* The walks.                                                              *)

Visiting(walk) == phase = walk /\ point # None

\* Nothing happens to the connection, and the loop goes on.
Pass(walk) ==
    /\ Visiting(walk)
    /\ point' = next[point]
    /\ UNCHANGED <<phase, links, next_to_process, walker, lines>>

\* It is closed: the exception set, a failed read or write, check_idling.
Lose(walk) ==
    /\ Visiting(walk)
    /\ CloseSocket(point, next_to_process)
    /\ Flush(point)
    /\ point' = next[point]
    /\ UNCHANGED <<phase, walker>>

\* process_input has read whole lines.
ProcessInput ==
    /\ Visiting("input")
    /\ \E n \in (queue[point] + 1) .. MaxQueue : queue' = [queue EXCEPT ![point] = n]
    /\ point' = next[point]
    /\ UNCHANGED <<phase, links, next_to_process, walker, wait>>

\* A mobile's kick or bash: WAIT_STATE of the victim.
Stunned ==
    /\ Visiting("heartbeat")
    /\ point \in named
    /\ \E n \in 1 .. MaxWait : wait' = [wait EXCEPT ![point] = n]
    /\ point' = next[point]
    /\ UNCHANGED <<phase, links, next_to_process, walker, queue>>

WalkEnds(walk, then) ==
    /\ phase = walk
    /\ point = None
    /\ Begin(then)
    /\ UNCHANGED <<links, next_to_process, walker, lines>>

HeartbeatEnds ==
    /\ phase = "heartbeat"
    /\ point = None
    /\ phase' = "select"
    /\ UNCHANGED <<links, point, next_to_process, walker, lines>>

-----------------------------------------------------------------------------
(* process_commands.                                                       *)

\* Mutant: a delay lasts as long as there are lines.
WaitedIdle(d) == IF wait[d] > 0 /\ queue[d] = 0 THEN wait[d] - 1 ELSE wait[d]

\* --( point->wait )
Waited(d) == IF wait[d] > 0 THEN wait[d] - 1 ELSE 0

Ready == Visiting("commands") /\ Waited(point) = 0 /\ queue[point] > 0

NotReady ==
    /\ Visiting("commands")
    /\ Waited(point) > 0 \/ queue[point] = 0
    /\ wait' = [wait EXCEPT ![point] = Waited(point)]
    /\ next_to_process' = next[point]
    /\ point' = next[point]
    /\ UNCHANGED <<phase, links, walker, queue>>

\* get_from_q: a line less, and the loop goes on with next_to_process.
Served(q) == q = [queue EXCEPT ![point] = @ - 1]
GoOn == point' = next_to_process' /\ UNCHANGED <<phase, walker>>

\* A line that closes nothing.  A command in the game may delay its player, or
\* somebody else, or nobody (1, and 0 for gods).
Line ==
    /\ Ready
    /\ Served(queue')
    /\ named' = named \cup {point}
    /\ \E n \in 0 .. MaxWait :
         /\ n = 1 \/ point \in named
         /\ \/ wait' = [wait EXCEPT ![point] = n]
            \/ \E k \in named \ {point}, m \in 1 .. MaxWait :
                 point \in named /\ wait' = [wait EXCEPT ![point] = n, ![k] = m]
    /\ next_to_process' = next[point]
    /\ GoOn
    /\ UNCHANGED <<live, descriptor_list, next>>

\* The line ends the connection (nanny), or closes another one (purge,
\* disconnect).
LineCloses(d) ==
    /\ Ready
    /\ d \in live
    /\ d # point => point \in named
    /\ queue' = [queue EXCEPT ![point] = @ - 1, ![d] = 0]
    /\ wait' = [wait EXCEPT ![point] = 1, ![d] = 0]
    /\ CloseSocket(d, next[point])
    /\ GoOn

\* "purge links": every descriptor, one after the other.
PurgeLinks ==
    /\ Ready
    /\ point \in named
    /\ Served(queue')
    /\ wait' = [wait EXCEPT ![point] = 1]
    /\ next_to_process' = next[point]
    /\ phase' = "purge"
    /\ walker' = descriptor_list
    /\ point' = None
    /\ UNCHANGED links

Purge ==
    /\ phase = "purge"
    /\ walker \in live
    /\ CloseSocket(walker, next_to_process)
    /\ Flush(walker)
    /\ UNCHANGED <<phase, point, walker>>

\* d = d->next, always from freed memory.
PurgeOn ==
    /\ phase = "purge"
    /\ walker \notin live \cup {None}
    /\ walker' = next[walker]
    /\ UNCHANGED <<phase, links, point, next_to_process, lines>>

PurgeEnds ==
    /\ phase = "purge"
    /\ walker = None
    /\ phase' = "commands"
    /\ point' = next_to_process
    /\ UNCHANGED <<links, next_to_process, walker, lines>>

-----------------------------------------------------------------------------
(* The end: mudshutdown was set, close_sockets, and the next process.      *)

Shutdown ==
    /\ phase = "select"
    /\ phase' = "shutdown"
    /\ UNCHANGED <<links, point, next_to_process, walker, lines>>

CloseSockets ==
    /\ phase = "shutdown"
    /\ descriptor_list # None
    /\ CloseSocket(descriptor_list, next_to_process)
    /\ Flush(descriptor_list)
    /\ UNCHANGED <<phase, point, walker>>

Reboot ==
    /\ phase = "shutdown"
    /\ descriptor_list = None
    /\ phase' = "select"
    /\ UNCHANGED <<links, point, next_to_process, walker, lines>>

\* What reading d->next of a freed descriptor does is not defined.  Nothing is
\* allocated between the free and the read, so that either the memory says what
\* it did (EvictOn, PurgeOn), or free has given it back to the system, and the
\* process dies; the next one starts with nobody.
FreedLost ==
    /\ phase \in {"evict", "purge"}
    /\ walker \notin live \cup {None}
    /\ phase' = "select"
    /\ live' = {} /\ named' = {}
    /\ descriptor_list' = None
    /\ next' = [d \in Desc |-> None]
    /\ point' = None /\ next_to_process' = None /\ walker' = None
    /\ queue' = [d \in Desc |-> 0]
    /\ wait' = [d \in Desc |-> 0]

-----------------------------------------------------------------------------
\* Whatever the connections do, the loop goes on.
Loop ==
    \/ NoConnection \/ GameFull \/ Evict \/ EvictOn \/ EvictEnds
    \/ \E d \in Desc : NewDescriptor(d) \/ LineCloses(d)
    \/ \E walk \in Walks \ {"commands"} : Pass(walk) \/ Lose(walk)
    \/ ProcessInput \/ Stunned
    \/ WalkEnds("exceptions", "input") \/ WalkEnds("input", "commands")
    \/ WalkEnds("commands", "output") \/ WalkEnds("output", "heartbeat")
    \/ HeartbeatEnds
    \/ NotReady \/ Line \/ PurgeLinks \/ Purge \/ PurgeOn \/ PurgeEnds
    \/ FreedLost \/ Shutdown \/ CloseSockets \/ Reboot

Spec == Init /\ [][Loop]_vars

FairSpec == Spec /\ WF_vars(Loop)

-----------------------------------------------------------------------------
(* Properties.                                                             *)

TypeOK ==
    /\ phase \in Walks \cup {"select", "evict", "purge", "shutdown"}
    /\ live \subseteq Desc
    /\ descriptor_list \in Desc \cup {None}
    /\ next \in [Desc -> Desc \cup {None}]
    /\ {point, next_to_process, walker} \subseteq Desc \cup {None}
    /\ named \subseteq live
    /\ queue \in [Desc -> 0 .. MaxQueue]
    /\ wait \in [Desc -> 0 .. MaxWait]

\* "to avoid crashing the process loop": whoever closes whom, game_loop's own
\* pointers never lead to a freed descriptor.  The loops that evict and purge do
\* hold one, the one they have just closed; what its memory still says is where
\* the list goes on, and not at another freed one.
WalkIsSafe ==
    /\ {point, next_to_process} \subseteq live \cup {None}
    /\ walker \notin live \cup {None} =>
         /\ phase \in {"evict", "purge"}
         /\ next[walker] \in live \cup {None}

\* Every descriptor in use can be found in the list, and nothing else:
\* "Descriptor not in desriptor list" is never logged.
ListIsLive == Before(descriptor_list) = live

\* A turn of a loop leaves to the loop exactly those that were before it and are
\* still there: nobody is skipped and nobody served twice in a pass.
NobodySkipped ==
    [][/\ phase \in Walks /\ phase' = phase /\ point # None
       => Before(point)' = (Before(point) \ {point}) \cap live']_vars

\* A line that has been read is handled, or the connection is closed, or others
\* delay the player again and again.
LineHandled ==
    \A d \in Desc :
        \/ []<>(queue[d] = 0)
        \/ []<><<queue'[d] < queue[d]>>_vars
        \/ []<><<wait'[d] > wait[d] /\ (point # d \/ phase = "heartbeat")>>_vars

-----------------------------------------------------------------------------
(* The inductive invariant behind WalkIsSafe, ListIsLive and NobodySkipped. *)

\* From a live descriptor the list leads to a live one, not to the head, and from
\* no two of them to the same one.
Linked ==
    /\ descriptor_list \in live \cup {None}
    /\ \A k \in live : next[k] # None =>
         next[k] \in live /\ next[k] # descriptor_list
    /\ \A j, k \in live : next[j] = next[k] /\ next[j] # None => j = k

\* Which of the walks' pointers are in use.
OneWalk ==
    /\ phase \notin {"evict", "purge"} => walker = None
    /\ phase \notin Walks => point = None

LoopInv == TypeOK /\ Linked /\ OneWalk /\ WalkIsSafe /\ ListIsLive

=============================================================================
