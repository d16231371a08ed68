----------------------------- MODULE LossyQueue ------------------------------
(***************************************************************************)
(* What a subscriber of the event hub is promised                          *)
(* (mac/companiond/session_events.py): events arrive in the order in which *)
(* they were accepted, and where some are missing it is told exactly how   *)
(* many, before it gets the next one.  Events are only given up when the   *)
(* subscriber is more than a whole queue behind.                           *)
(***************************************************************************)
EXTENDS Integers, Sequences

CONSTANTS Items,  \* events
          Depth   \* the queue's length

VARIABLES accepted,  \* events accepted so far, in order
          place,     \* how many of them the subscriber has read or been told of
          answer     \* what it was told last

vars == <<accepted, place, answer>>

Gap(n) == [type |-> "queue_gap", dropped |-> n]
Item(e) == [type |-> "event", event |-> e]
Nothing == [type |-> "none"]

Init == accepted = <<>> /\ place = 0 /\ answer = Nothing

Accept(e) == /\ accepted' = Append(accepted, e)
             /\ UNCHANGED <<place, answer>>

Read == /\ place < Len(accepted)
        /\ place' = place + 1
        /\ answer' = Item(accepted[place + 1])
        /\ UNCHANGED accepted

Skip(n) == /\ Len(accepted) - place > Depth
           /\ place + n <= Len(accepted)
           /\ place' = place + n
           /\ answer' = Gap(n)
           /\ UNCHANGED accepted

GiveUp == answer' = Nothing /\ UNCHANGED <<accepted, place>>

Next == \/ \E e \in Items : Accept(e)
        \/ Read
        \/ \E n \in 1..Len(accepted) : Skip(n)
        \/ GiveUp

Spec == Init /\ [][Next]_vars
=============================================================================
