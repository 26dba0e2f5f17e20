-------------------------------- MODULE Mail ---------------------------------
(***************************************************************************)
(* The post office's file (mail.c).  It is an array of blocks of one size: *)
(* a letter is a header block and as many data blocks as its text needs,   *)
(* each holding the address of the next; deleted blocks are used again.    *)
(* In memory there are an index of the headers by addressee and the list   *)
(* of free blocks, both built when the game starts by scanning the file.   *)
(*                                                                         *)
(* A command computes in memory and writes block by block; the writes not  *)
(* yet done wait in todo, and no other command runs before they are done.  *)
(* The game may stop between two commands, and if Torn also between two    *)
(* writes.  Texts are the numbered pieces of a letter, one to a block;     *)
(* addresses are block numbers, from 1.                                    *)
(***************************************************************************)
EXTENDS Naturals, Sequences, SequencesExt, FiniteSets

CONSTANTS Players,
          Letters,
          Size,          \* the blocks a letter needs
          Torn           \* may the game stop between two writes?

ASSUME MailAssumption == Size \in [Letters -> Nat \ {0}]

NONE == "none"
LAST_BLOCK == 0

Piece == [letter: Letters, nr: Nat]

\* What a deleted block still holds is left out: nobody reads it.
DELETED == [type |-> "deleted", next |-> LAST_BLOCK,
            to |-> NONE, text |-> [letter |-> NONE, nr |-> 0]]

Block == [type: {"header", "data"}, next: Nat, to: Players, text: Piece]
             \cup {DELETED}

VARIABLES file,          \* lib/etc/plrmail
          todo,          \* the writes the current command has still to do
          index,         \* mail_index: of each player, newest first
          free_list,
          up,            \* the game runs
          no_mail,       \* the mail system has been disabled
          writing,       \* to whom each player is writing a letter
          handed         \* what has last been handed over, and to whom

vars == <<file, todo, index, free_list, up, no_mail, writing, handed>>

NoIndex == [p \in Players |-> <<>>]
Nobody == [p \in Players |-> NONE]
-----------------------------------------------------------------------------
(* Blocks *)

\* Mutant: the entry stays in the list.
PoppedKept(n) ==
    [k \in 1 .. n |-> IF free_list # <<>> /\ k = 1 THEN free_list[1]
                      ELSE Len(file) + k]

\* pop_free_list, n times: the free list first, then the end of the file.
Popped(n) ==
    [k \in 1 .. n |-> IF k <= Len(free_list) THEN free_list[k]
                      ELSE Len(file) + k - Len(free_list)]

LeftFree(n) == IF n <= Len(free_list) THEN SubSeq(free_list, n + 1, Len(free_list))
               ELSE <<>>

\* write_to_file: in place, or at the end of the file
Written(f, x) == IF x.pos <= Len(f) THEN [f EXCEPT ![x.pos] = x.block]
                 ELSE Append(f, x.block)

\* The block holding piece k of a letter to p, at its place, linked to next.
Put(p, l, at, k, next) ==
    [pos |-> at[k],
     block |-> [type |-> IF k = 1 THEN "header" ELSE "data", next |-> next,
                to |-> p, text |-> [letter |-> l, nr |-> k]]]

\* store_mail: each block is written as the last one, and again with the
\* address of the next when that is known.
Storing(p, l, at) ==
    [j \in 1 .. 2 * Size[l] - 1 |->
        Put(p, l, at, (j + 1) \div 2,
            IF j % 2 = 1 THEN LAST_BLOCK ELSE at[j \div 2 + 1])]

\* read_delete follows the addresses from block to block.
Chain(f, pos) ==
    LET after == [k \in DOMAIN f \cup {LAST_BLOCK} |->
                     IF k \in DOMAIN f /\ f[k].next \in DOMAIN f THEN f[k].next
                     ELSE LAST_BLOCK]
        at[n \in 1 .. Len(f)] == IF n = 1 THEN pos ELSE after[at[n - 1]]
    IN  [k \in {n \in 1 .. Len(f) : at[n] # LAST_BLOCK} |-> at[k]]

Read(f, pos) == LET c == Chain(f, pos) IN [k \in DOMAIN c |-> f[c[k]].text]

\* Mutant: the data blocks are forgotten.
DeletingHeader(c) == <<[pos |-> c[1], block |-> DELETED]>>

Deleting(c) == [k \in DOMAIN c |-> [pos |-> c[k], block |-> DELETED]]

-----------------------------------------------------------------------------
(* Commands *)

Idle == up /\ todo = <<>> /\ ~no_mail

\* postmaster_send_mail: the stamp is paid, and the player begins to write.
StartMail(p, q) ==
    /\ Idle /\ writing[p] = NONE
    /\ writing' = [writing EXCEPT ![p] = q]
    /\ UNCHANGED <<file, todo, index, free_list, up, no_mail, handed>>

\* string_add, at the end of the text: store_mail
StoreMail(p, l) ==
    /\ up /\ todo = <<>> /\ writing[p] # NONE
    /\ \A k \in DOMAIN file : file[k].type # "deleted" => file[k].text.letter # l
    /\ LET at == Popped(Size[l])
       IN  /\ todo' = Storing(writing[p], l, at)
           /\ index' = [index EXCEPT ![writing[p]] = <<at[1]>> \o @]
    /\ free_list' = LeftFree(Size[l])
    /\ writing' = [writing EXCEPT ![p] = NONE]
    /\ UNCHANGED <<file, up, no_mail, handed>>

\* The link is lost while writing, or nothing was written: the stamp is lost.
LetterLost(p) ==
    /\ up /\ todo = <<>> /\ writing[p] # NONE
    /\ writing' = [writing EXCEPT ![p] = NONE]
    /\ UNCHANGED <<file, todo, index, free_list, up, no_mail, handed>>

\* read_delete takes the oldest letter, from the back of the index; what is no
\* header is not read.
Readable(p) == {pos \in Range(index[p]) : file[pos].type = "header"}

\* The blocks that are read when it is called again and again.
Emptied(p) ==
    LET read[n \in 0 .. Len(index[p])] ==
            IF n = 0 THEN <<>>
            ELSE LET pos == index[p][Len(index[p]) + 1 - n]
                 IN  IF pos \in Readable(p) THEN read[n - 1] \o Chain(file, pos)
                     ELSE read[n - 1]
    IN  read[Len(index[p])]

\* postmaster_receive_mail: read_delete as long as there is something.  What is
\* no header costs everybody the mail system.
ReceiveMail(p) ==
    /\ Idle /\ index[p] # <<>>
    /\ handed' = [by |-> {p}, what |-> {Read(file, pos) : pos \in Readable(p)}]
    /\ todo' = Deleting(Emptied(p))
    /\ free_list' = Reverse(Emptied(p)) \o free_list
    /\ no_mail' = (Readable(p) # Range(index[p]))
    /\ index' = [index EXCEPT ![p] = <<>>]
    /\ UNCHANGED <<file, up, writing>>

WriteToFile ==
    /\ up /\ todo # <<>>
    /\ file' = Written(file, Head(todo))
    /\ todo' = Tail(todo)
    /\ UNCHANGED <<index, free_list, up, no_mail, writing, handed>>
-----------------------------------------------------------------------------
(* Stopping and starting *)

Crash ==
    /\ up /\ (todo = <<>> \/ Torn)
    /\ up' = FALSE /\ todo' = <<>> /\ no_mail' = FALSE
    /\ index' = NoIndex /\ free_list' = <<>> /\ writing' = Nobody
    /\ UNCHANGED <<file, handed>>

Addresses(f) == {k \in DOMAIN f : f[k].type = "header"}
Deleted(f) == {k \in DOMAIN f : f[k].type = "deleted"}

\* The numbers of a set, the highest first.
Falling(S) == [k \in 1 .. Cardinality(S) |->
                  CHOOSE x \in S : Cardinality({y \in S : y > x}) = k - 1]

\* Mutant: the first block is not looked at.
ScannedLate(S) == Falling(S \ {1})

\* Both lists of the scan grow at their heads.
Scanned(S) == Falling(S)

ScanMailFile ==
    /\ ~up
    /\ up' = TRUE
    /\ index' = [p \in Players |->
                    Scanned({k \in Addresses(file) : file[k].to = p})]
    /\ free_list' = Scanned(Deleted(file))
    /\ UNCHANGED <<file, todo, no_mail, writing, handed>>

Init ==
    /\ file = <<>> /\ todo = <<>> /\ index = NoIndex /\ free_list = <<>>
    /\ up = TRUE /\ no_mail = FALSE
    /\ writing = Nobody
    /\ handed = [by |-> {}, what |-> {}]

Next ==
    \/ \E p \in Players :
           \/ \E q \in Players : StartMail(p, q)
           \/ \E l \in Letters : StoreMail(p, l)
           \/ LetterLost(p) \/ ReceiveMail(p)
    \/ WriteToFile \/ Crash \/ ScanMailFile

Spec == Init /\ [][Next]_vars
-----------------------------------------------------------------------------
TypeOK ==
    /\ file \in Seq(Block)
    /\ \A k \in DOMAIN todo : todo[k].pos \in Nat \ {0} /\ todo[k].block \in Block
    /\ index \in [Players -> Seq(Nat)] /\ free_list \in Seq(Nat)
    /\ {up, no_mail} \subseteq BOOLEAN
    /\ writing \in [Players -> Players \cup {NONE}]
    /\ handed.by \subseteq Players

\* Between the commands the index holds the header of every letter in the
\* file once, under its addressee, and the free list every deleted block
\* once: what grew with the commands is what a scan of the file would find
\* (mail.c: "indexes all entries currently in the mail file").
IndexAgrees ==
    up /\ todo = <<>> =>
        /\ \A p \in Players : /\ IsInjective(index[p])
                              /\ Range(index[p]) = {k \in Addresses(file) : file[k].to = p}
        /\ IsInjective(free_list)
        /\ Range(free_list) = Deleted(file)

\* Between the commands every block that is not free belongs to one letter:
\* no block is in two letters, and none is lost to the file for ever.
NoBlockLost ==
    todo = <<>> =>
        LET Of(k) == Range(Chain(file, k))
        IN  /\ UNION {Of(k) : k \in Addresses(file)} =
                   DOMAIN file \ Deleted(file)
            /\ \A j, k \in Addresses(file) : j # k => Of(j) \cap Of(k) = {}

\* What the file will hold when the command is done: of two writes of a block
\* the later one counts.  With it the file is the mailboxes, through every
\* interleaving of commands and restarts.
Writes(ws, k) == {j \in DOMAIN ws : ws[j].pos = k}
Settle(f, ws) ==
    [k \in DOMAIN f \cup {ws[j].pos : j \in DOMAIN ws} |->
        IF Writes(ws, k) = {} THEN f[k]
        ELSE ws[CHOOSE j \in Writes(ws, k) : \A i \in Writes(ws, k) : i <= j].block]

Whole(l) == [k \in 1 .. Size[l] |-> [letter |-> l, nr |-> k]]

Boxes == INSTANCE Mailboxes
             WITH Texts <- {Whole(l) : l \in Letters},
                  boxes <- LET f == Settle(file, todo)
                           IN  [p \in Players |->
                                   {Read(f, k) : k \in {j \in Addresses(f) : f[j].to = p}}]

ImplementsMailboxes == Boxes!Spec
==============================================================================
