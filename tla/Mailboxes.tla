------------------------------ MODULE Mailboxes ------------------------------
(***************************************************************************)
(* What the post office promises: a letter given to it lies in the box of  *)
(* its addressee, whole, until the addressee collects all that is there;   *)
(* then it is gone.  Nothing else moves a letter, a restart least of all.  *)
(***************************************************************************)
CONSTANTS Players, Texts

VARIABLES boxes,   \* the letters that wait for each player
          handed   \* who collected last, and what

Init == /\ boxes = [p \in Players |-> {}]
        /\ handed = [by |-> {}, what |-> {}]

Post(p, t) == /\ \A q \in Players : t \notin boxes[q]
              /\ boxes' = [boxes EXCEPT ![p] = @ \cup {t}]
              /\ UNCHANGED handed

Collect(p) == /\ boxes[p] # {}
              /\ handed' = [by |-> {p}, what |-> boxes[p]]
              /\ boxes' = [boxes EXCEPT ![p] = {}]

Next == \E p \in Players : Collect(p) \/ \E t \in Texts : Post(p, t)

Spec == Init /\ [][Next]_<<boxes, handed>>
==============================================================================
