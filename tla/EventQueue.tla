----------------------------- MODULE EventQueue ------------------------------
(***************************************************************************)
(* One subscription of the event hub (Subscription and EventHub in         *)
(* mac/companiond/session_events.py).  Publishers take the subscribers of  *)
(* a topic under the hub's lock and offer the event to each afterwards,    *)
(* under the subscription's own lock; one thread reads; another may close  *)
(* the subscription at any time.                                           *)
(***************************************************************************)
EXTENDS Integers, Sequences

CONSTANTS Publishers,  \* threads that publish on the topic
          MaxQueue,    \* max_queue
          MaxEvents    \* bound: events of one publisher

ASSUME QueueAssumption == /\ MaxQueue \in Nat \ {0}
                          /\ MaxEvents \in Nat

VARIABLES
    state,      \* of the subscription: "new", "open" or "closed"
    registered, \* whether the hub lists it under the topic
    events,     \* _events
    dropped,    \* _dropped
    count,      \* Publishers -> events published so far
    offering,   \* Publishers -> whether the last one is still to be offered
    reader,     \* the reading thread: "calling" get or "waiting" in it
    notified,   \* the condition it waits for was notified
    accepted,   \* history: the events accepted, in order
    place,      \* history: how many of them were read or announced as dropped
    answer      \* what get returned last

shared == <<state, registered, events, dropped>>
publishing == <<count, offering>>
reading == <<reader, notified, place, answer>>
vars == <<shared, publishing, reading, accepted>>

Items == Publishers \X (1..MaxEvents)

Gap(n) == [type |-> "queue_gap", dropped |-> n]
Item(e) == [type |-> "event", event |-> e]
Nothing == [type |-> "none"]

QueueInit ==
    /\ state = "new" /\ registered = FALSE
    /\ events = <<>> /\ dropped = 0
    /\ count = [p \in Publishers |-> 0]
    /\ offering = [p \in Publishers |-> FALSE]
    /\ reader = "calling" /\ notified = FALSE
    /\ accepted = <<>> /\ place = 0 /\ answer = Nothing

Subscribe ==
    /\ state = "new"
    /\ state' = "open" /\ registered' = TRUE
    /\ UNCHANGED <<events, dropped, publishing, reading, accepted>>

Publish(p) ==
    /\ ~offering[p] /\ count[p] < MaxEvents
    /\ count' = [count EXCEPT ![p] = @ + 1]
    /\ offering' = [offering EXCEPT ![p] = registered]
    /\ UNCHANGED <<shared, reading, accepted>>

(* Mutant: the queue grows one event too long.                            *)
OfferTooLate(p) ==
    LET full == Len(events) > MaxQueue
        e == <<p, count[p]>>
    IN
    /\ offering[p]
    /\ offering' = [offering EXCEPT ![p] = FALSE]
    /\ IF state = "closed"
       THEN UNCHANGED <<events, dropped, notified, accepted>>
       ELSE /\ events' = Append(IF full THEN Tail(events) ELSE events, e)
            /\ dropped' = IF full THEN dropped + 1 ELSE dropped
            /\ notified' = TRUE
            /\ accepted' = Append(accepted, e)
    /\ UNCHANGED <<state, registered, count, reader, place, answer>>

(* Mutant: the queue makes room without counting what it loses.           *)
OfferSilently(p) ==
    LET full == Len(events) >= MaxQueue
        e == <<p, count[p]>>
    IN
    /\ offering[p]
    /\ offering' = [offering EXCEPT ![p] = FALSE]
    /\ IF state = "closed"
       THEN UNCHANGED <<events, dropped, notified, accepted>>
       ELSE /\ events' = Append(IF full THEN Tail(events) ELSE events, e)
            /\ dropped' = dropped
            /\ notified' = TRUE
            /\ accepted' = Append(accepted, e)
    /\ UNCHANGED <<state, registered, count, reader, place, answer>>

(* Mutant: the waiting reader is not notified.                            *)
OfferWithoutNotify(p) ==
    LET full == Len(events) >= MaxQueue
        e == <<p, count[p]>>
    IN
    /\ offering[p]
    /\ offering' = [offering EXCEPT ![p] = FALSE]
    /\ IF state = "closed"
       THEN UNCHANGED <<events, dropped, notified, accepted>>
       ELSE /\ events' = Append(IF full THEN Tail(events) ELSE events, e)
            /\ dropped' = IF full THEN dropped + 1 ELSE dropped
            /\ notified' = notified
            /\ accepted' = Append(accepted, e)
    /\ UNCHANGED <<state, registered, count, reader, place, answer>>

(* _offer: a closed subscription receives nothing, a full one drops its    *)
(* oldest event.                                                           *)
Offer(p) ==
    LET full == Len(events) >= MaxQueue
        e == <<p, count[p]>>
    IN
    /\ offering[p]
    /\ offering' = [offering EXCEPT ![p] = FALSE]
    /\ IF state = "closed"
       THEN UNCHANGED <<events, dropped, notified, accepted>>
       ELSE /\ events' = Append(IF full THEN Tail(events) ELSE events, e)
            /\ dropped' = IF full THEN dropped + 1 ELSE dropped
            /\ notified' = TRUE
            /\ accepted' = Append(accepted, e)
    /\ UNCHANGED <<state, registered, count, reader, place, answer>>

(* The ways a call of get, or the rest of one that has waited, returns.   *)
ReturnGap ==
    /\ dropped > 0
    /\ answer' = Gap(dropped) /\ place' = place + dropped
    /\ dropped' = 0
    /\ UNCHANGED events

(* Mutant: what is left is delivered before the notice of the loss.       *)
ReturnEventFirst ==
    /\ events # <<>>
    /\ answer' = Item(Head(events)) /\ place' = place + 1
    /\ events' = Tail(events)
    /\ UNCHANGED dropped

ReturnEvent ==
    /\ dropped = 0 /\ events # <<>>
    /\ answer' = Item(Head(events)) /\ place' = place + 1
    /\ events' = Tail(events)
    /\ UNCHANGED dropped

Empty == dropped = 0 /\ events = <<>>

Get ==
    /\ state # "new" /\ reader = "calling"
    /\ ReturnGap \/ ReturnEvent
    /\ UNCHANGED <<state, registered, publishing, reader, notified, accepted>>

(* The lock is released as the wait begins.                               *)
Wait ==
    /\ state # "new" /\ reader = "calling" /\ Empty
    /\ reader' = "waiting" /\ notified' = FALSE
    /\ UNCHANGED <<shared, publishing, place, answer, accepted>>

Resume ==
    /\ reader' = "calling"
    /\ \/ ReturnGap
       \/ ReturnEvent
       \/ Empty /\ answer' = Nothing /\ UNCHANGED <<events, dropped, place>>
    /\ UNCHANGED <<state, registered, publishing, notified, accepted>>

Wake == reader = "waiting" /\ notified /\ Resume

(* The timeout of get passes; nothing relies on it.                        *)
TimeOut == reader = "waiting" /\ ~notified /\ Resume

(* close drops what is queued; the hub forgets the subscription later.    *)
Close ==
    /\ state = "open"
    /\ state' = "closed" /\ events' = <<>> /\ notified' = TRUE
    /\ UNCHANGED <<registered, dropped, publishing, reader, place, answer, accepted>>

Remove ==
    /\ state = "closed" /\ registered
    /\ registered' = FALSE
    /\ UNCHANGED <<state, events, dropped, publishing, reading, accepted>>

Reader == Get \/ Wait \/ Wake

QueueNext ==
    \/ Subscribe \/ Close \/ Remove
    \/ \E p \in Publishers : Publish(p) \/ Offer(p)
    \/ Reader \/ TimeOut

QueueSafety == QueueInit /\ [][QueueNext]_vars

(* The reader calls get again and again, and a publisher finishes.         *)
QueueSpec ==
    /\ QueueSafety
    /\ WF_vars(Reader)
    /\ \A p \in Publishers : WF_vars(Offer(p))

-----------------------------------------------------------------------------
QueueTypeOK ==
    /\ state \in {"new", "open", "closed"} /\ registered \in BOOLEAN
    /\ events \in Seq(Items) /\ Len(events) <= MaxQueue
    /\ dropped \in Nat /\ place \in Nat
    /\ count \in [Publishers -> 0..MaxEvents]
    /\ offering \in [Publishers -> BOOLEAN]
    /\ \A p \in Publishers : offering[p] => count[p] > 0
    /\ reader \in {"calling", "waiting"} /\ notified \in BOOLEAN
    /\ accepted \in Seq(Items)

(* Nothing is lost without a trace while the subscription is open: the     *)
(* queue holds the newest events, and those before them are the ones the   *)
(* reader has read, was told of, or will be told of next.                  *)
NothingUncounted ==
    /\ state # "closed" => Len(accepted) = place + dropped + Len(events)
    /\ state # "closed" => \A i \in 1..Len(events) :
                             events[i] = accepted[place + dropped + i]
    /\ state = "closed" => events = <<>> /\ place + dropped <= Len(accepted)

(* Only a full queue drops: the reader is more than a queue behind.        *)
OnlyFullQueuesDrop == dropped > 0 => Len(accepted) - place > MaxQueue

(* A subscription behaves as a lossy queue that owns up to its losses,     *)
(* until it is closed.                                                     *)
Lossy == INSTANCE LossyQueue WITH Depth <- MaxQueue
BehavesAsLossyQueue == Lossy!Spec

(* A reader is never left behind: while the subscription is open, what is  *)
(* accepted is read or announced, without the help of a timeout.           *)
EverythingIsReported ==
    \A n \in 1..MaxEvents :
        Len(accepted) >= n ~> place >= n \/ state = "closed"
=============================================================================
