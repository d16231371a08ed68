-------------------------- MODULE EventQueueProofs ---------------------------
(***************************************************************************)
(* Proofs about EventQueue: its type, that nothing is lost without a       *)
(* trace, and that a subscription implements LossyQueue, for any number of *)
(* publishers and any length of the queue.                                 *)
(***************************************************************************)
EXTENDS EventQueue, SequenceTheorems, TLAPS

QueueInv == QueueTypeOK /\ NothingUncounted /\ OnlyFullQueuesDrop

-----------------------------------------------------------------------------
(* Facts about the sequences of the queue.                                *)

LEMMA TailFacts ==
    ASSUME NEW S, NEW s \in Seq(S), s # <<>>
    PROVE  /\ Head(s) \in S /\ Head(s) = s[1]
           /\ Tail(s) \in Seq(S)
           /\ Len(s) > 0 /\ Len(Tail(s)) = Len(s) - 1
           /\ \A i \in 1..Len(Tail(s)) : Tail(s)[i] = s[i + 1]
BY HeadTailProperties

LEMMA AppendFacts ==
    ASSUME NEW S, NEW s \in Seq(S), NEW e \in S
    PROVE  /\ Append(s, e) \in Seq(S)
           /\ Len(Append(s, e)) = Len(s) + 1
           /\ \A i \in 1..Len(s) : Append(s, e)[i] = s[i]
           /\ Append(s, e)[Len(s) + 1] = e
BY AppendProperties

-----------------------------------------------------------------------------
LEMMA InitEstablishesInv == QueueInit => QueueInv
<1> SUFFICES ASSUME QueueInit PROVE QueueInv
  OBVIOUS
<1> USE QueueAssumption DEF QueueInit
<1>1. QueueTypeOK
  <2>1. events \in Seq(Items) /\ accepted \in Seq(Items) /\ Len(events) <= MaxQueue
    OBVIOUS
  <2>2. /\ count \in [Publishers -> 0..MaxEvents]
        /\ offering \in [Publishers -> BOOLEAN]
        /\ \A p \in Publishers : ~offering[p]
    OBVIOUS
  <2> HIDE DEF Items
  <2> QED
    BY <2>1, <2>2 DEF QueueTypeOK
<1>2. NothingUncounted
  BY DEF NothingUncounted
<1>3. OnlyFullQueuesDrop
  BY DEF OnlyFullQueuesDrop
<1> QED
  BY <1>1, <1>2, <1>3 DEF QueueInv

(* The step that changes most: an event is accepted, and the oldest one    *)
(* goes when the queue is full.                                            *)
LEMMA OfferPreservesInv ==
    ASSUME QueueInv, NEW p \in Publishers, Offer(p)
    PROVE  QueueInv'
<1> DEFINE e == <<p, count[p]>>
           full == Len(events) >= MaxQueue
           kept == IF full THEN Tail(events) ELSE events
<1> USE QueueAssumption
<1>1. offering[p] /\ offering' = [offering EXCEPT ![p] = FALSE]
  BY DEF Offer
<1>2. e \in Items
  BY <1>1 DEF QueueInv, QueueTypeOK, Items
<1>3. UNCHANGED <<state, registered, count, reader, place, answer>>
  BY DEF Offer
<1>4. /\ \A q \in Publishers : offering'[q] => count'[q] > 0
      /\ offering' \in [Publishers -> BOOLEAN]
  BY <1>1, <1>3 DEF QueueInv, QueueTypeOK
<1>5. CASE state = "closed"
  <2>1. UNCHANGED <<events, dropped, notified, accepted>>
    BY <1>5 DEF Offer
  <2>2. QueueTypeOK'
    BY <1>3, <1>4, <2>1 DEF QueueInv, QueueTypeOK
  <2> QED
    BY <1>3, <2>1, <2>2 DEF QueueInv, NothingUncounted, OnlyFullQueuesDrop
<1>6. CASE state # "closed"
  <2>1. /\ events' = Append(kept, e)
        /\ dropped' = IF full THEN dropped + 1 ELSE dropped
        /\ notified' = TRUE
        /\ accepted' = Append(accepted, e)
    BY <1>6 DEF Offer
  <2>2. /\ events \in Seq(Items) /\ accepted \in Seq(Items)
        /\ Len(events) \in Nat /\ Len(accepted) \in Nat
        /\ Len(events) <= MaxQueue /\ dropped \in Nat /\ place \in Nat
        /\ Len(accepted) = place + dropped + Len(events)
        /\ \A i \in 1..Len(events) : events[i] = accepted[place + dropped + i]
    BY <1>6 DEF QueueInv, QueueTypeOK, NothingUncounted
  <2>3. /\ kept \in Seq(Items) /\ Len(kept) \in Nat
        /\ Len(kept) = IF full THEN Len(events) - 1 ELSE Len(events)
        /\ Len(kept) < MaxQueue
        /\ \A i \in 1..Len(kept) : kept[i] = accepted[place + dropped' + i]
    <3>1. CASE full
      <4>1. events # <<>>
        BY <3>1, <2>2
      <4>2. /\ Tail(events) \in Seq(Items)
            /\ Len(Tail(events)) = Len(events) - 1
            /\ \A i \in 1..Len(Tail(events)) : Tail(events)[i] = events[i + 1]
        BY <4>1, <2>2, TailFacts
      <4> QED
        BY <3>1, <4>2, <2>1, <2>2
    <3>2. CASE ~full
      BY <3>2, <2>1, <2>2
    <3> QED
      BY <3>1, <3>2
  <2>4. /\ events' \in Seq(Items) /\ Len(events') = Len(kept) + 1
        /\ \A i \in 1..Len(kept) : events'[i] = kept[i]
        /\ events'[Len(kept) + 1] = e
    BY <2>1, <2>3, <1>2, AppendFacts
  <2>5. /\ accepted' \in Seq(Items) /\ Len(accepted') = Len(accepted) + 1
        /\ \A i \in 1..Len(accepted) : accepted'[i] = accepted[i]
        /\ accepted'[Len(accepted) + 1] = e
    <3> HIDE DEF e
    <3>1. accepted \in Seq(Items) /\ e \in Items /\ accepted' = Append(accepted, e)
      BY <2>1, <2>2, <1>2
    <3> QED
      BY ONLY <3>1, AppendFacts
  <2>a. Len(accepted') = place' + dropped' + Len(events')
    <3>1. place' = place /\ full \in BOOLEAN
      BY <1>3
    <3>2. CASE full
      BY <3>1, <3>2, <2>1, <2>2, <2>3, <2>4, <2>5
    <3>3. CASE ~full
      BY <3>1, <3>3, <2>1, <2>2, <2>3, <2>4, <2>5
    <3> QED
      BY <3>2, <3>3
  <2>6. QueueTypeOK'
    <3>1. Len(events') <= MaxQueue /\ dropped' \in Nat
      BY <2>1, <2>2, <2>3, <2>4
    <3> QED
      BY <3>1, <1>3, <1>4, <2>1, <2>4, <2>5 DEF QueueInv, QueueTypeOK
  <2>7. NothingUncounted'
    <3>1. Len(accepted') = place' + dropped' + Len(events')
      BY <2>a
    <3>2. ASSUME NEW i \in 1..Len(events')
          PROVE  events'[i] = accepted'[place' + dropped' + i]
      <4>1. CASE i = Len(kept) + 1
        BY <4>1, <3>1, <1>3, <2>2, <2>3, <2>4, <2>5
      <4>2. CASE i \in 1..Len(kept)
        <5>1. place + dropped' + i \in 1..Len(accepted)
          BY <4>2, <2>1, <2>2, <2>3
        <5> QED
          BY <5>1, <4>2, <1>3, <2>3, <2>4, <2>5
      <4> QED
        BY <4>1, <4>2, <2>3, <2>4
    <3> QED
      BY <3>1, <3>2, <1>3, <1>6 DEF NothingUncounted
  <2>8. OnlyFullQueuesDrop'
    <3>1. Len(accepted') - place' = dropped' + Len(events')
      <4>1. dropped' \in Nat /\ place' \in Nat /\ Len(events') \in Nat
        BY <1>3, <2>1, <2>2, <2>3, <2>4
      <4> QED
        BY <4>1, <2>a
    <3>2. CASE full
      BY <3>1, <3>2, <2>1, <2>2, <2>3, <2>4 DEF OnlyFullQueuesDrop
    <3>3. CASE ~full
      <4>1. dropped' = dropped /\ place' = place /\ Len(accepted') = Len(accepted) + 1
        BY <3>3, <1>3, <2>1, <2>5
      <4>2. dropped > 0 => Len(accepted) - place > MaxQueue
        BY DEF QueueInv, OnlyFullQueuesDrop
      <4> QED
        BY ONLY <4>1, <4>2, <2>2, QueueAssumption DEF OnlyFullQueuesDrop
    <3> QED
      BY <3>2, <3>3
  <2> QED
    BY <2>6, <2>7, <2>8 DEF QueueInv
<1> QED
  BY <1>5, <1>6

(* What the two ways of returning something keep.                         *)
LEMMA ReturnPreservesInv ==
    ASSUME QueueInv, ReturnGap \/ ReturnEvent,
           UNCHANGED <<state, registered, count, offering, accepted>>,
           reader' \in {"calling", "waiting"}, notified' \in BOOLEAN
    PROVE  QueueInv'
<1> USE QueueAssumption
<1>1. /\ events \in Seq(Items) /\ accepted \in Seq(Items)
      /\ Len(events) \in Nat /\ Len(accepted) \in Nat
      /\ Len(events) <= MaxQueue /\ dropped \in Nat /\ place \in Nat
  BY DEF QueueInv, QueueTypeOK
<1>2. CASE ReturnGap
  <2>1. QueueTypeOK'
    BY <1>1, <1>2 DEF ReturnGap, QueueInv, QueueTypeOK
  <2>2. NothingUncounted'
    BY <1>1, <1>2 DEF ReturnGap, QueueInv, NothingUncounted
  <2>3. OnlyFullQueuesDrop'
    BY <1>1, <1>2 DEF ReturnGap, OnlyFullQueuesDrop
  <2> QED
    BY <2>1, <2>2, <2>3 DEF QueueInv
<1>3. CASE ReturnEvent
  <2>1. /\ Tail(events) \in Seq(Items)
        /\ Len(events) > 0
        /\ Len(Tail(events)) = Len(events) - 1
        /\ \A i \in 1..Len(Tail(events)) : Tail(events)[i] = events[i + 1]
    BY <1>1, <1>3, TailFacts DEF ReturnEvent
  <2>2. QueueTypeOK'
    BY <1>1, <1>3, <2>1 DEF ReturnEvent, QueueInv, QueueTypeOK
  <2>3. state # "closed"
    BY <1>3 DEF ReturnEvent, QueueInv, NothingUncounted
  <2>4. NothingUncounted'
    BY <1>1, <1>3, <2>1, <2>3 DEF ReturnEvent, QueueInv, NothingUncounted
  <2>5. OnlyFullQueuesDrop'
    BY <1>1, <1>3 DEF ReturnEvent, OnlyFullQueuesDrop
  <2> QED
    BY <2>2, <2>4, <2>5 DEF QueueInv
<1> QED
  BY <1>2, <1>3

LEMMA StepPreservesInv == QueueInv /\ [QueueNext]_vars => QueueInv'
<1> SUFFICES ASSUME QueueInv, [QueueNext]_vars PROVE QueueInv'
  OBVIOUS
<1> USE QueueAssumption
<1>1. CASE Subscribe
  BY <1>1 DEF Subscribe, publishing, reading, QueueInv, QueueTypeOK, NothingUncounted,
              OnlyFullQueuesDrop
<1>2. CASE Close
  <2>1. /\ state' = "closed" /\ events' = <<>> /\ notified' = TRUE
        /\ UNCHANGED <<registered, dropped, count, offering, reader, place, accepted>>
        /\ state = "open"
    BY <1>2 DEF Close, publishing
  <2>2. QueueTypeOK'
    BY <2>1 DEF QueueInv, QueueTypeOK
  <2>3. NothingUncounted'
    <3>1. Len(accepted) = place + dropped + Len(events) /\ Len(events) \in Nat
          /\ dropped \in Nat /\ place \in Nat
      BY <2>1 DEF QueueInv, QueueTypeOK, NothingUncounted
    <3> QED
      BY <2>1, <3>1 DEF NothingUncounted
  <2>4. OnlyFullQueuesDrop'
    BY <2>1 DEF QueueInv, OnlyFullQueuesDrop
  <2> QED
    BY <2>2, <2>3, <2>4 DEF QueueInv
<1>3. CASE Remove
  BY <1>3 DEF Remove, publishing, reading, QueueInv, QueueTypeOK, NothingUncounted,
              OnlyFullQueuesDrop
<1>4. ASSUME NEW p \in Publishers, Publish(p) PROVE QueueInv'
  <2>1. /\ UNCHANGED <<state, registered, events, dropped, reader, notified, place, accepted>>
        /\ count[p] < MaxEvents
        /\ count' = [count EXCEPT ![p] = @ + 1]
        /\ offering' = [offering EXCEPT ![p] = registered]
    BY <1>4 DEF Publish, shared, reading
  <2>2. QueueTypeOK'
    BY <2>1 DEF QueueInv, QueueTypeOK
  <2> QED
    BY <2>1, <2>2 DEF QueueInv, NothingUncounted, OnlyFullQueuesDrop
<1>5. ASSUME NEW p \in Publishers, Offer(p) PROVE QueueInv'
  BY <1>5, OfferPreservesInv
<1>6. CASE Get
  BY <1>6, ReturnPreservesInv DEF Get, publishing, QueueInv, QueueTypeOK
<1>7. CASE Wait
  BY <1>7 DEF Wait, shared, publishing, QueueInv, QueueTypeOK, NothingUncounted,
              OnlyFullQueuesDrop
<1>8. CASE Wake \/ TimeOut
  <2>1. CASE ReturnGap \/ ReturnEvent
    BY <1>8, <2>1, ReturnPreservesInv DEF Wake, TimeOut, Resume, publishing, QueueInv, QueueTypeOK
  <2>2. CASE UNCHANGED <<events, dropped, place>>
    BY <1>8, <2>2 DEF Wake, TimeOut, Resume, publishing, QueueInv, QueueTypeOK, NothingUncounted,
                      OnlyFullQueuesDrop
  <2> QED
    BY <1>8, <2>1, <2>2 DEF Wake, TimeOut, Resume
<1>9. CASE UNCHANGED vars
  BY <1>9 DEF vars, shared, publishing, reading, QueueInv, QueueTypeOK, NothingUncounted,
              OnlyFullQueuesDrop
<1> QED
  BY <1>1, <1>2, <1>3, <1>4, <1>5, <1>6, <1>7, <1>8, <1>9 DEF QueueNext, Reader

THEOREM QueueInvariant == QueueSafety => []QueueInv
BY InitEstablishesInv, StepPreservesInv, PTL DEF QueueSafety

(* The queue never holds more than its length, whoever publishes.         *)
THEOREM QueueTypeCorrect == QueueSafety => []QueueTypeOK
BY QueueInvariant, PTL DEF QueueInv

(* Every accepted event is read, announced or still in the queue, and the  *)
(* queue holds exactly the newest ones.                                    *)
THEOREM QueueLosesNothingUncounted == QueueSafety => []NothingUncounted
BY QueueInvariant, PTL DEF QueueInv

-----------------------------------------------------------------------------
(* The mapped steps.                                                      *)

LEMMA ReturnImplements ==
    ASSUME QueueInv, ReturnGap \/ ReturnEvent, accepted' = accepted
    PROVE  Lossy!Next
<1> USE QueueAssumption
<1>1. /\ events \in Seq(Items) /\ Len(events) \in Nat /\ Len(accepted) \in Nat
      /\ dropped \in Nat /\ place \in Nat
      /\ place + dropped + Len(events) <= Len(accepted)
  BY DEF QueueInv, QueueTypeOK, NothingUncounted
<1>2. CASE ReturnGap
  <2>1. dropped \in 1..Len(accepted)
    BY <1>1, <1>2 DEF ReturnGap
  <2>2. Lossy!Skip(dropped)
    BY <1>1, <1>2 DEF ReturnGap, Lossy!Skip, Gap, Lossy!Gap, QueueInv, OnlyFullQueuesDrop
  <2> QED
    BY <2>1, <2>2 DEF Lossy!Next
<1>3. CASE ReturnEvent
  <2>1. Len(events) > 0 /\ Head(events) = events[1]
    BY <1>1, <1>3, TailFacts DEF ReturnEvent
  <2>2. state # "closed"
    BY <1>3 DEF ReturnEvent, QueueInv, NothingUncounted
  <2>3. events[1] = accepted[place + 1]
    BY <1>1, <1>3, <2>1, <2>2 DEF ReturnEvent, QueueInv, NothingUncounted
  <2>4. Lossy!Read
    BY <1>1, <1>3, <2>1, <2>3 DEF ReturnEvent, Lossy!Read, Item, Lossy!Item
  <2> QED
    BY <2>4 DEF Lossy!Next
<1> QED
  BY <1>2, <1>3

LEMMA StepImplements ==
    ASSUME QueueInv, [QueueNext]_vars
    PROVE  [Lossy!Next]_(Lossy!vars)
<1> USE DEF Lossy!vars
<1>1. ASSUME NEW p \in Publishers, Offer(p) PROVE [Lossy!Next]_(Lossy!vars)
  <2>1. CASE state = "closed"
    BY <1>1, <2>1 DEF Offer
  <2>2. CASE state # "closed"
    <3>1. <<p, count[p]>> \in Items
      BY <1>1, QueueAssumption DEF Offer, QueueInv, QueueTypeOK, Items
    <3>2. Lossy!Accept(<<p, count[p]>>)
      BY <1>1, <2>2 DEF Offer, Lossy!Accept
    <3> QED
      BY <3>1, <3>2 DEF Lossy!Next
  <2> QED
    BY <2>1, <2>2
<1>2. CASE Get
  BY <1>2, ReturnImplements DEF Get
<1>3. CASE Wake \/ TimeOut
  <2>1. CASE ReturnGap \/ ReturnEvent
    BY <1>3, <2>1, ReturnImplements DEF Wake, TimeOut, Resume
  <2>2. CASE answer' = Nothing /\ UNCHANGED <<events, dropped, place>>
    BY <1>3, <2>2 DEF Wake, TimeOut, Resume, Lossy!Next, Lossy!GiveUp, Nothing, Lossy!Nothing
  <2> QED
    BY <1>3, <2>1, <2>2 DEF Wake, TimeOut, Resume
<1>4. CASE Subscribe \/ Close \/ Remove \/ Wait
  BY <1>4 DEF Subscribe, Close, Remove, Wait, reading
<1>5. ASSUME NEW p \in Publishers, Publish(p) PROVE [Lossy!Next]_(Lossy!vars)
  BY <1>5 DEF Publish, reading
<1>6. CASE UNCHANGED vars
  BY <1>6 DEF vars, reading
<1> QED
  BY <1>1, <1>2, <1>3, <1>4, <1>5, <1>6 DEF QueueNext, Reader

(* A subscription implements the lossy queue its documentation promises:   *)
(* accepted events arrive in order, and every loss is announced with its   *)
(* exact number before the next event.                                     *)
THEOREM QueueImplementsLossyQueue == QueueSafety => BehavesAsLossyQueue
<1>1. QueueInit => Lossy!Init
  BY DEF QueueInit, Lossy!Init, Nothing, Lossy!Nothing
<1>2. QueueInv /\ [QueueNext]_vars => [Lossy!Next]_(Lossy!vars)
  BY StepImplements
<1> QED
  BY <1>1, <1>2, QueueInvariant, PTL DEF QueueSafety, BehavesAsLossyQueue, Lossy!Spec
=============================================================================
