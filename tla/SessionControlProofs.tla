------------------------ MODULE SessionControlProofs -------------------------
(***************************************************************************)
(* Proofs about SessionControl: for any phones, actions, requests, faults  *)
(* and generations.                                                        *)
(*                                                                         *)
(* Nothing is assumed of how requests interleave.  The invariant under the *)
(* ledger's theorems, LedgerInv, has what stays true when a repeated       *)
(* request works beside the first one: what each row's events say of it,   *)
(* what each request knows of its action, which never becomes false, that  *)
(* a mutation without twins is brought to the provider by one request, and *)
(* that the last mutation that has started keeps the typestate to itself   *)
(* until its verdict - unless a late answer has told a verdict twice.      *)
(***************************************************************************)
EXTENDS SessionControl, SequenceTheorems, FiniteSetTheorems, WellFoundedInduction, TLAPS

------------------------------------------------------------------------------
(* Types.                                                                  *)

Verdicts == Final \cup Ambiguous
ActStates == {"new", "reserved", "dispatch_started"} \cup Verdicts
OwningTypes == {"session.observed", "ownership.acquired", "turn.started"}
EventTypes == OwningTypes \cup VerdictTypes \cup {"mutation.started", "mutation.outcome_unknown"}
Planned == [type : EventTypes \cup {"none"}, after : States, verdict : Verdicts \cup {"none"}]
EventRecords ==
    [gen : 1 .. MaxGen, type : EventTypes, act : Acts \cup {NoAct}, before : States,
     after : States]

OwnPcs == {"ready", "done", "ensure", "lease", "issue", "publish"}
WorkPcs == {"ready", "done", "reserve", "prepare", "own", "mark", "run", "running", "reject",
            "retry", "known", "complete", "persist", "proof", "resolve"}
EventPcs == {"sign", "append"}
Pcs == OwnPcs \cup WorkPcs \cup EventPcs
ThreadRecords ==
    [pc : Pcs, gen : 0 .. MaxGen, prior : States, seen : Nat, ev : Planned, ok : Pcs,
     ko : Pcs, status : Verdicts \cup {"none"}]

(* The events a request may be about to append: to own the session, to     *)
(* start its action, to give its verdict, to say that it has none.         *)
Owning(t) == /\ t.ev.type \in OwningTypes /\ t.ev.after \in Owned \cup {"observed"}
             /\ t.ev.verdict = "none"
             /\ t.ok \in {"ensure", "lease"} /\ t.ko = "done"
Starting(t) == /\ t.ev.type = "mutation.started" /\ t.ev.after = "mutation_pending"
               /\ t.ev.verdict = "none"
               /\ \/ t.ok = "run" /\ t.ko = "reject"
                  \/ t.ok = "known" /\ t.ko = "done" /\ t.status = "outcome_unknown"
Judging(t) == /\ t.ev.type \in VerdictTypes /\ t.ev.after \in Owned \cup {"terminated"}
              /\ t.ev.verdict \in Final
              /\ t.ok \in {"resolve", "done"} /\ t.ko = "done"
Doubting(t) == /\ t.ev.type = "mutation.outcome_unknown" /\ t.ev.after = "outcome_unknown"
               /\ t.ev.verdict = "outcome_unknown"
               /\ t.ok = "persist" /\ t.ko = "done"

Works(r) == Ask(r).kind # "snapshot"
Shape(r, t) ==
    /\ t \in ThreadRecords
    /\ Works(r) => t.pc \in WorkPcs \cup EventPcs
    /\ ~Works(r) => t.pc \in OwnPcs \cup EventPcs
    /\ t.pc \in EventPcs /\ Works(r) => Mutates(r) /\ (Starting(t) \/ Judging(t) \/ Doubting(t))
    /\ t.pc \in EventPcs /\ ~Works(r) => Owning(t)
    /\ t.pc = "complete" => /\ t.ev.verdict \in Verdicts /\ t.ok \in {"persist", "resolve", "done"}
                            /\ Mutates(r) => t.ev.verdict # "applied"
    /\ t.pc = "known" => t.status \in Verdicts
    /\ t.pc = "proof" => t.status \in Ambiguous
ThreadsGood ==
    /\ thread \in [Requests -> ThreadRecords]
    /\ \A r \in Requests : Shape(r, thread[r])

StoreGood ==
    /\ gen \in 1 .. MaxGen /\ closed \in BOOLEAN /\ crashed \in BOOLEAN
    /\ acts \in [Acts -> [state : ActStates, snap : {0} \cup Requests, gen : 0 .. MaxGen]]
    /\ handles \in [Acts -> {"none", "pending", "resolved", "expired"}]
    /\ conf \in {"none", "issued", "revoked"} \cup Acts
    /\ snaps \in [Requests -> 0 .. MaxGen]
    /\ leases \subseteq [phone : Phones, gen : 1 .. MaxGen]
    /\ fate \in [Acts -> {"none", "working"} \cup Final] /\ runs \in [Acts -> 0 .. 2]

(* A driver that knows what became of an action knows its end.             *)
ProviderGood ==
    /\ driver \in [Acts -> {"none", "waits", "knows"}] /\ twins \subseteq Acts
    /\ \A a \in Acts : driver[a] = "knows" => fate[a] \in Final

(* Each event continues the typestate the one before it left.              *)
ChainGood ==
    /\ events \in Seq(EventRecords)
    /\ \A i \in DOMAIN events :
          /\ events[i].type \in VerdictTypes => events[i].after \in Owned \cup {"terminated"}
          /\ events[i].before = StateAt(i - 1)
          /\ Admits(events[i].type, events[i].before)
          /\ events[i].gen <= gen
          /\ i > 1 => events[i].gen >= events[i - 1].gen

(* An event that is signed was admitted where the chain had come to.       *)
SignedGood ==
    \A r \in Requests : At(r) = "append" =>
        /\ thread[r].seen \in 0 .. Len(events)
        /\ Admits(thread[r].ev.type, StateAt(thread[r].seen))

(* One lease, and none when the session has ended.                         *)
LeasesGood == (\A l, m \in leases : l = m) /\ (Terminal => leases = {})

(* The action that consumed the confirmation is the one that goes on.      *)
Passed(r) == \/ At(r) \in {"own", "mark", "run"}
             \/ At(r) \in EventPcs /\ thread[r].ok = "run"
ConfirmationGood ==
    /\ \A a \in world.asks : runs[a] > 0 => conf = a
    /\ \A r \in Requests : Works(r) /\ Act(r) \in world.asks /\ Passed(r) => conf = Act(r)

(* What holds whatever requests come.                                      *)
AlwaysInv ==
    /\ world \in Worlds
    /\ StoreGood /\ ProviderGood /\ ThreadsGood
    /\ ChainGood /\ SignedGood /\ LeasesGood /\ ConfirmationGood

------------------------------------------------------------------------------
(* The ledger and the chain of events.                                     *)

Says(a, ty) == \E i \in DOMAIN events : events[i].act = a /\ events[i].type = ty
HasStart(a) == Says(a, "mutation.started")
HasVerdict(a) == \E ty \in VerdictTypes : Says(a, ty)

(* What the events of an action - h: it has started, v: it has a verdict,  *)
(* p: it was told applied, q: rejected - say of its state s, of how often  *)
(* it ran and of what became of it.                                        *)
RowAt(s, h, v, p, q, n, f) ==
    /\ s \in {"new", "reserved"} => n = 0 /\ ~h
    /\ n > 0 => h
    /\ v => s \in Final
    /\ p => s = "applied"
    /\ q => s = "rejected"
    /\ s = "applied" => h /\ v /\ f = "applied"
    /\ n = 0 <=> f = "none"
RowGood(a) ==
    RowAt(acts[a].state, HasStart(a), HasVerdict(a), Says(a, "mutation.applied"),
          Says(a, "mutation.rejected"), runs[a], fate[a])
RowsGood == \A a \in Mutations : RowGood(a)

(* What a request t at work on a mutation knows of it.  All of it stays    *)
(* true, whatever other requests do.                                       *)
KnowsAt(t, s, h, n, f) ==
    /\ t.pc \in {"prepare", "own", "mark", "reject"} => s # "new"
    /\ t.pc \in {"run", "running", "retry"} \/ (t.pc \in EventPcs /\ Starting(t))
          => s \notin {"new", "reserved"}
    /\ t.pc \in {"run", "running"} => h
    /\ t.pc = "running" => n > 0
    /\ t.pc = "known" /\ t.status \in Final => f = t.status
    /\ t.pc \in EventPcs \cup {"complete"} /\ t.ev.verdict \in Final => f = t.ev.verdict
    /\ t.pc \in EventPcs /\ t.ev.type = "mutation.applied" => t.ev.verdict = "applied"
    /\ t.pc \in EventPcs /\ t.ev.type = "mutation.rejected" => t.ev.verdict = "rejected"
Knows(r) ==
    Works(r) /\ Mutates(r) =>
        KnowsAt(thread[r], acts[Act(r)].state, HasStart(Act(r)), runs[Act(r)], fate[Act(r)])

(* Only who executes gets an action ready, and runs it.                    *)
Nears(t) == t.pc \in {"prepare", "own", "mark", "run"} \/ (t.pc \in EventPcs /\ t.ok = "run")
Executing(r) ==
    At(r) \in {"reserve", "reject", "running"} \/ Nears(thread[r]) => Ask(r).kind = "execute"

(* A mutation that has no twins is brought to the provider by one request, *)
(* which nobody rejects meanwhile; and who rejects it knows that it has not*)
(* run, unless an answer has broken its contract.                          *)
OnIt(q, a) == Works(q) /\ Act(q) = a
AloneWith(a) ==
    \A r \in Requests : OnIt(r, a) =>
       /\ Nears(thread[r]) =>
             /\ runs[a] = 0 /\ acts[a].state \notin Final
             /\ \A q \in Requests \ {r} : OnIt(q, a) => ~Nears(thread[q]) /\ At(q) # "reject"
       /\ At(r) = "reject" => Faulty("contract") \/ runs[a] = 0
NobodyElse == \A a \in Mutations \ twins : AloneWith(a)

(* A mutation that has started has its verdict since, or it is the last    *)
(* one that has and the typestate is its own.                              *)
Undecided == {"mutation_pending", "outcome_unknown"}
IsStart(i) == events[i].type = "mutation.started"
Answered(i) == \E v \in DOMAIN events : i < v /\ JudgesIt(v, events[i].act)
LastStart(i) == \A j \in DOMAIN events : i < j => ~IsStart(j)
StartsGood ==
    \A i \in DOMAIN events : IsStart(i) =>
       /\ Answered(i) \/ (State \in Undecided /\ LastStart(i))
       /\ \A j \in DOMAIN events : i < j /\ IsStart(j) =>
             \E v \in DOMAIN events : i < v /\ v < j /\ JudgesIt(v, events[i].act)

(* Who is about to run a mutation has the typestate to itself.             *)
ToRun(r) == Works(r) /\ Mutates(r) /\ At(r) = "run"
RunsAlone ==
    \A r \in Requests : ToRun(r) =>
       /\ State \in Undecided
       /\ \E i \in DOMAIN events : StartsIt(i, Act(r)) /\ LastStart(i)
       /\ runs[Act(r)] = 0 \/ HasVerdict(Act(r))
       /\ \A q \in Requests : ToRun(q) => q = r

LedgerInv ==
    /\ AlwaysInv /\ RowsGood /\ NobodyElse
    /\ \A r \in Requests : Knows(r) /\ Executing(r)
    /\ JudgedTwice \/ (StartsGood /\ RunsAlone)

------------------------------------------------------------------------------
(* Threads.                                                                *)

(* A plan's requests.                                                      *)
LEMMA RequestsAreGood ==
  ASSUME world \in Worlds, NEW r \in Requests
  PROVE  /\ Ask(r).kind \in {"snapshot", "execute", "recover"} /\ Ask(r).phone \in Phones
         /\ Works(r) => Act(r) \in Acts /\ Ask(r).via \in Requests
         /\ Act(r) \in Acts \cup {NoAct}
<1> DEFINE p == world.plan
           asked == [kind : {"snapshot", "execute", "recover"}, phone : Phones,
                     act : Acts \cup {NoAct}, via : Nat]
<1>1. p \in Plans /\ r \in DOMAIN p
  BY ControlAssumption DEF ControlAssumption, Requests
<1> HIDE DEF p
<1>2. /\ p \in Seq(asked)
      /\ p[r].kind # "snapshot" => p[r].act \in Acts /\ p[r].via \in DOMAIN p
  BY <1>1 DEF Plans
<1>3. p[r] \in asked
  <2> HIDE DEF asked
  <2> QED BY <1>1, <1>2, ElementOfSeq
<1> QED BY <1>2, <1>3 DEF Ask, Act, Works, Requests, p

(* A request that is over, or has not begun.                               *)
LEMMA IdleIsGood ==
  ASSUME NEW r \in Requests
  PROVE  Shape(r, Idle) /\ Shape(r, [Idle EXCEPT !.pc = "done"])
<1>1. NoEvent \in Planned /\ "none" \in States /\ 0 \in 0 .. MaxGen
  BY ControlAssumption DEF NoEvent, Planned, States, ControlAssumption
<1>2. Idle \in ThreadRecords
  BY <1>1 DEF Idle, ThreadRecords, Pcs, OwnPcs
<1>3. [Idle EXCEPT !.pc = "done"] \in ThreadRecords
  BY <1>2 DEF ThreadRecords, Pcs, OwnPcs
<1> QED BY <1>2, <1>3 DEF Idle, Shape, OwnPcs, WorkPcs, EventPcs

(* Where no event is under way and nothing is known, only the place counts.*)
LEMMA PlainIsGood ==
  ASSUME NEW r \in Requests, NEW t \in ThreadRecords,
         t.pc \notin EventPcs \cup {"complete", "known", "proof"},
         IF Works(r) THEN t.pc \in WorkPcs ELSE t.pc \in OwnPcs
  PROVE  Shape(r, t)
  BY DEF Shape

(* One request moves.                                                      *)
LEMMA SetKeeps ==
  ASSUME ThreadsGood, NEW r \in Requests, NEW t, Shape(r, t), Set(r, t), UNCHANGED world
  PROVE  ThreadsGood'
<1>1. t \in ThreadRecords
  BY DEF Shape
<1>2. /\ thread' \in [Requests -> ThreadRecords]
      /\ thread'[r] = t /\ \A q \in Requests \ {r} : thread'[q] = thread[q]
  BY <1>1 DEF ThreadsGood, Set
<1>3. \A q \in Requests : Shape(q, thread'[q])
  BY <1>2 DEF ThreadsGood
<1>4. Requests' = Requests /\ \A q, u : Shape(q, u)' <=> Shape(q, u)
  BY DEF Requests, Shape, Works, Mutates, Act, Ask
<1>5. (\A q \in Requests : Shape(q, thread[q]))'
  BY <1>3, <1>4 DEF Shape, Works, Mutates, Act, Ask, Requests
<1> QED BY <1>2, <1>4, <1>5 DEF ThreadsGood

(* A step that changes only where the request is.                          *)
LEMMA GotoKeeps ==
  ASSUME ThreadsGood, NEW r \in Requests, NEW pc, Goto(r, pc), UNCHANGED world,
         pc \notin EventPcs \cup {"complete", "known", "proof"},
         IF Works(r) THEN pc \in WorkPcs ELSE pc \in OwnPcs
  PROVE  ThreadsGood'
<1> DEFINE t == [thread[r] EXCEPT !.pc = pc]
<1>1. t \in ThreadRecords /\ t.pc = pc
  BY DEF ThreadsGood, ThreadRecords, Pcs
<1>2. Set(r, t)
  BY DEF Goto, Set, ThreadsGood
<1> HIDE DEF t
<1> QED BY <1>1, <1>2, PlainIsGood, SetKeeps

(* It is done.                                                             *)
LEMMA DoneKeeps ==
  ASSUME ThreadsGood, NEW r \in Requests, Done(r), UNCHANGED world
  PROVE  ThreadsGood'
  BY IdleIsGood, SetKeeps DEF Done

(* It goes to a place, or is done.                                         *)
LEMMA ToKeeps ==
  ASSUME ThreadsGood, NEW r \in Requests, NEW t \in ThreadRecords, NEW pc, To(r, t, pc),
         UNCHANGED world,
         pc = "done" \/ (pc \notin EventPcs \cup {"complete", "known", "proof"}
                         /\ IF Works(r) THEN pc \in WorkPcs ELSE pc \in OwnPcs)
  PROVE  ThreadsGood'
<1>1. CASE pc = "done"
  BY <1>1, IdleIsGood, SetKeeps DEF To
<1>2. CASE pc # "done"
  <2> DEFINE u == [t EXCEPT !.pc = pc]
  <2>1. u \in ThreadRecords /\ u.pc = pc
    BY <1>2 DEF ThreadRecords, Pcs
  <2>2. Set(r, u)
    BY <1>2 DEF To
  <2> HIDE DEF u
  <2> QED BY <1>2, <2>1, <2>2, PlainIsGood, SetKeeps
<1> QED BY <1>1, <1>2

(* It is about to have an event signed.                                    *)
LEMMA PublishKeeps ==
  ASSUME ThreadsGood, NEW r \in Requests, NEW e \in Planned, NEW ok \in Pcs, NEW ko \in Pcs,
         Publish(r, e, ok, ko), UNCHANGED world,
         LET t == [thread[r] EXCEPT !.pc = "sign", !.ev = e, !.ok = ok, !.ko = ko] IN
         IF Works(r) THEN Mutates(r) /\ (Starting(t) \/ Judging(t) \/ Doubting(t))
                     ELSE Owning(t)
  PROVE  ThreadsGood'
<1> DEFINE t == [thread[r] EXCEPT !.pc = "sign", !.ev = e, !.ok = ok, !.ko = ko]
<1>1. t \in ThreadRecords /\ t.pc = "sign"
  BY DEF ThreadsGood, ThreadRecords, Pcs, EventPcs
<1>2. Set(r, t)
  BY DEF Publish
<1>3. IF Works(r) THEN Mutates(r) /\ (Starting(t) \/ Judging(t) \/ Doubting(t)) ELSE Owning(t)
  OBVIOUS
<1> HIDE DEF t
<1>4. Shape(r, t)
  BY <1>1, <1>3 DEF Shape, EventPcs
<1> QED BY <1>2, <1>4, SetKeeps

(* The session's typestate is one there is.                                *)
LEMMA StateIsState ==
  ASSUME ChainGood
  PROVE  Len(events) \in Nat /\ State \in States /\ \A n \in 0 .. Len(events) : StateAt(n) \in States
<1>1. Len(events) \in Nat /\ DOMAIN events = 1 .. Len(events)
  BY DEF ChainGood
<1>2. ASSUME NEW n \in 0 .. Len(events) PROVE StateAt(n) \in States
  <2>1. CASE n = 0
    BY <2>1 DEF StateAt, States
  <2>2. CASE n # 0
    <3>1. events[n] \in EventRecords
      BY <1>1, <1>2, <2>2 DEF ChainGood
    <3> QED BY <2>2, <3>1 DEF StateAt, EventRecords
  <2> QED BY <2>1, <2>2
<1>3. Len(events) \in 0 .. Len(events)
  BY <1>1
<1> QED BY <1>1, <1>2, <1>3 DEF State

(* A set of naturals has a least element: Nat is well-founded.             *)
LEMMA LeastOf ==
  ASSUME NEW T, T \subseteq Nat, T # {}
  PROVE  \E x \in T : \A y \in T : x <= y
<1> DEFINE R == OpToRel(<, Nat)
<1>1. IsWellFoundedOn(R, Nat)
  BY NatLessThanWellFounded
<1>2. R = {s \in Nat \X Nat : s[1] < s[2]}
  BY DEF OpToRel
<1>3. \A x, y \in Nat : <<y, x>> \in R <=> y < x
  BY <1>2
<1> HIDE DEF R
<1>4. PICK x \in T : \A y \in T : ~ (<<y, x>> \in R)
  BY <1>1, WFMin
<1>5. ASSUME NEW y \in T PROVE x <= y
  <2>1. x \in Nat /\ y \in Nat /\ ~ (<<y, x>> \in R)
    BY <1>4
  <2>2. ~ (y < x)
    BY <1>3, <2>1
  <2> QED BY <2>1, <2>2
<1> QED BY <1>5

(* And a bounded one a largest.                                            *)
LEMMA LargestOf ==
  ASSUME NEW n \in Nat, NEW T, T \subseteq 1 .. n, T # {}
  PROVE  \E x \in T : \A y \in T : y <= x
<1> DEFINE D == {n - i : i \in T}
<1>1. D \subseteq Nat /\ D # {}
  <2>1. \A i \in T : n - i \in Nat
    OBVIOUS
  <2>2. PICK i \in T : TRUE
    OBVIOUS
  <2>3. n - i \in D
    OBVIOUS
  <2> QED BY <2>1, <2>3
<1>2. PICK d \in D : \A e \in D : d <= e
  <2> HIDE DEF D
  <2> QED BY <1>1, LeastOf
<1>3. PICK x \in T : d = n - x
  BY <1>2
<1>4. ASSUME NEW y \in T PROVE y <= x
  <2>1. n - y \in D
    OBVIOUS
  <2>2. d <= n - y
    <3> HIDE DEF D
    <3> QED BY <1>2, <2>1
  <2>3. x \in 1 .. n /\ y \in 1 .. n
    OBVIOUS
  <2> HIDE DEF D
  <2> QED BY <1>3, <2>2, <2>3
<1> QED BY <1>4

(* So is the one before an action, as the events tell it: the last of its  *)
(* starts, if there is one.                                                *)
LEMMA PriorIsState ==
  ASSUME ChainGood, NEW a, NEW g
  PROVE  PriorOf(a, g) \in States
<1> DEFINE T == Starts(a, g)
<1>1. ASSUME NEW i \in T PROVE i \in 1 .. Len(events) /\ events[i].before \in States
  <2>1. i \in DOMAIN events /\ events \in Seq(EventRecords)
    BY DEF Starts, ChainGood
  <2>2. i \in 1 .. Len(events) /\ events[i] \in EventRecords
    BY <2>1, ElementOfSeq
  <2> QED BY <2>2 DEF EventRecords
<1>2. State \in States /\ Len(events) \in Nat
  BY StateIsState
<1>3. CASE T # {}
  <2>1. \E i \in T : \A j \in T : j <= i
    <3> HIDE DEF T
    <3> QED BY <1>1, <1>2, <1>3, LargestOf
  <2>2. PriorOf(a, g) = events[CHOOSE i \in T : \A j \in T : j <= i].before
    BY <1>3 DEF PriorOf
  <2> QED BY <1>1, <2>1, <2>2
<1>4. CASE T = {}
  BY <1>2, <1>4 DEF PriorOf
<1> QED BY <1>3, <1>4

(* Before its action, after it or with an event: every step of a request.  *)
LEMMA SnapshotStepsKeepThreads ==
  ASSUME AlwaysInv, NEW r \in Requests,
         Snapshot(r) \/ Ensure(r) \/ FindLease(r) \/ IssueLease(r) \/ PublishSnapshot(r)
  PROVE  ThreadsGood'
<1>1. ThreadsGood /\ Shape(r, thread[r]) /\ thread[r] \in ThreadRecords /\ gen \in 0 .. MaxGen
      /\ UNCHANGED world
  BY ControlAssumption
     DEF AlwaysInv, ThreadsGood, StoreGood, ControlAssumption, Snapshot, Ensure, FindLease,
         IssueLease, PublishSnapshot
<1>2. CASE Snapshot(r)
  <2> DEFINE t == [Idle EXCEPT !.pc = "ensure", !.gen = gen]
  <2>1. Idle \in ThreadRecords
    BY IdleIsGood DEF Shape
  <2>2. t \in ThreadRecords /\ t.pc = "ensure"
    BY <1>1, <2>1 DEF ThreadRecords, Pcs, OwnPcs
  <2>3. Set(r, t) /\ ~Works(r)
    BY <1>2 DEF Snapshot, Works
  <2> HIDE DEF t
  <2>4. Shape(r, t)
    BY <2>2, <2>3, PlainIsGood DEF OwnPcs, EventPcs
  <2> QED BY <1>1, <2>3, <2>4, SetKeeps
<1>3. CASE ~Snapshot(r)
  <2>1. ~Works(r)
    <3>1. At(r) \in {"ensure", "lease", "issue", "publish"}
      BY <1>3 DEF Ensure, FindLease, IssueLease, PublishSnapshot
    <3> QED BY <1>1, <3>1 DEF Shape, WorkPcs, EventPcs, At
  <2>2. ASSUME NEW type \in OwningTypes, NEW after \in Owned \cup {"observed"},
               NEW ok \in {"ensure", "lease"},
               Publish(r, [NoEvent EXCEPT !.type = type, !.after = after], ok, "done")
        PROVE  ThreadsGood'
    <3> DEFINE e == [NoEvent EXCEPT !.type = type, !.after = after]
               t == [thread[r] EXCEPT !.pc = "sign", !.ev = e, !.ok = ok, !.ko = "done"]
    <3>1. e \in Planned /\ e.type = type /\ e.after = after /\ e.verdict = "none"
      BY DEF NoEvent, Planned, EventTypes, States
    <3>2. ok \in Pcs /\ "done" \in Pcs
      BY DEF Pcs, OwnPcs
    <3> HIDE DEF e
    <3>3. t.ev = e /\ t.ok = ok /\ t.ko = "done"
      BY <1>1 DEF ThreadRecords
    <3>4. Owning(t)
      BY <3>1, <3>3 DEF Owning
    <3>5. Publish(r, e, ok, "done")
      BY <2>2 DEF e
    <3> QED BY <1>1, <2>1, <3>1, <3>2, <3>4, <3>5, PublishKeeps
  <2>3. CASE Ensure(r)
    <3>1. CASE \E pc \in {"lease", "publish"} : Goto(r, pc)
      BY <1>1, <2>1, <3>1, GotoKeeps DEF OwnPcs, EventPcs
    <3>2. CASE \E type \in OwningTypes, after \in Owned \cup {"observed"}, ok \in {"ensure", "lease"} :
                  Publish(r, [NoEvent EXCEPT !.type = type, !.after = after], ok, "done")
      BY <2>2, <3>2
    <3> QED BY <2>3, <3>1, <3>2 DEF Ensure, OwningTypes, Owned
  <2>4. CASE FindLease(r)
    BY <1>1, <2>1, <2>4, ToKeeps DEF FindLease, OwnPcs, EventPcs
  <2>5. CASE IssueLease(r) \/ PublishSnapshot(r)
    BY <1>1, <2>1, <2>5, GotoKeeps, DoneKeeps DEF IssueLease, PublishSnapshot, OwnPcs, EventPcs
  <2> QED BY <1>3, <2>3, <2>4, <2>5
<1> QED BY <1>2, <1>3

(* The steps of execute.                                                   *)
LEMMA ExecuteStepsKeepThreads ==
  ASSUME AlwaysInv, NEW r \in Requests,
         \/ Verify(r) \/ Reserve(r) \/ Prepare(r) \/ Own(r) \/ Mark(r) \/ RunAct(r)
         \/ Answer(r) \/ Reject(r) \/ Retry(r)
  PROVE  ThreadsGood'
<1> DEFINE x == thread[r]
<1>1. /\ ThreadsGood /\ Shape(r, x) /\ x \in ThreadRecords /\ UNCHANGED world
      /\ State \in States
  BY StateIsState
     DEF AlwaysInv, ThreadsGood, Verify, Reserve, Prepare, Own, Mark, RunAct, Answer, Reject, Retry
<1>2. Works(r)
  <2>1. At(r) \in {"reserve", "prepare", "own", "mark", "run", "running", "reject", "retry"}
        \/ Ask(r).kind = "execute"
    BY DEF Verify, Reserve, Prepare, Own, Mark, RunAct, Answer, Reject, Retry
  <2> QED BY <1>1, <2>1 DEF Shape, OwnPcs, EventPcs, At, Works
<1>3. /\ Act(r) \in Acts /\ Ask(r).via \in Requests
      /\ snaps[Ask(r).via] \in 0 .. MaxGen
  BY <1>2, RequestsAreGood DEF AlwaysInv, StoreGood
<1>4. CASE Verify(r)
  <2> DEFINE t == [Idle EXCEPT !.pc = "reserve", !.gen = snaps[Ask(r).via]]
  <2>1. Set(r, t) \/ Done(r)
    BY <1>4 DEF Verify
  <2>2. t \in ThreadRecords /\ t.pc = "reserve"
    <3>1. Idle \in ThreadRecords
      BY IdleIsGood DEF Shape
    <3> QED BY <1>3, <3>1 DEF ThreadRecords, Pcs, WorkPcs
  <2> HIDE DEF t
  <2>3. Shape(r, t)
    BY <1>2, <2>2, PlainIsGood DEF WorkPcs, EventPcs
  <2> QED BY <1>1, <2>1, <2>3, SetKeeps, DoneKeeps
<1>5. CASE Reserve(r)
  <2>1. Done(r) \/ Goto(r, "prepare") \/ To(r, x, Resume(acts[Act(r)].state))
    BY <1>5 DEF Reserve
  <2>2. Resume(acts[Act(r)].state) \in {"prepare", "retry", "persist", "done"}
    BY DEF Resume
  <2> QED BY <1>1, <1>2, <2>1, <2>2, DoneKeeps, GotoKeeps, ToKeeps DEF WorkPcs, EventPcs
<1>6. CASE Prepare(r) \/ Reject(r)
  BY <1>1, <1>2, <1>6, DoneKeeps, GotoKeeps DEF Prepare, Reject, WorkPcs, EventPcs
<1>7. CASE Own(r)
  <2> DEFINE t == [x EXCEPT !.pc = "mark", !.prior = State]
  <2>1. Set(r, t) \/ Goto(r, "reject") \/ Done(r)
    BY <1>7 DEF Own
  <2>2. t \in ThreadRecords /\ t.pc = "mark"
    BY <1>1 DEF ThreadRecords, Pcs, WorkPcs
  <2> HIDE DEF t
  <2>3. Shape(r, t)
    BY <1>2, <2>2, PlainIsGood DEF WorkPcs, EventPcs
  <2> QED BY <1>1, <2>1, <2>3, <1>2, SetKeeps, GotoKeeps, DoneKeeps DEF WorkPcs, EventPcs
<1> DEFINE e == [NoEvent EXCEPT !.type = "mutation.started", !.after = "mutation_pending"]
<1>8. e \in Planned /\ e.type = "mutation.started" /\ e.after = "mutation_pending"
      /\ e.verdict = "none"
  BY DEF NoEvent, Planned, EventTypes, States
<1> HIDE DEF e
<1>9. CASE Mark(r)
  <2> DEFINE t == [x EXCEPT !.pc = "sign", !.ev = e, !.ok = "run", !.ko = "reject"]
  <2>1. (Publish(r, e, "run", "reject") /\ Mutates(r)) \/ Goto(r, "run") \/ Goto(r, "reject")
    BY <1>9 DEF Mark, e
  <2>2. t.ev = e /\ t.ok = "run" /\ t.ko = "reject"
    BY <1>1 DEF ThreadRecords
  <2>3. Starting(t)
    BY <1>8, <2>2 DEF Starting
  <2>4. "run" \in Pcs /\ "reject" \in Pcs
    BY DEF Pcs, WorkPcs
  <2> QED BY <1>1, <1>2, <1>8, <2>1, <2>3, <2>4, PublishKeeps, GotoKeeps DEF WorkPcs, EventPcs
<1>10. CASE RunAct(r)
  BY <1>1, <1>2, <1>10, GotoKeeps DEF RunAct, WorkPcs, EventPcs
<1>11. CASE Answer(r)
  <2>1. ASSUME NEW s \in Answers(Act(r)), Set(r, [x EXCEPT !.pc = "known", !.status = s])
        PROVE  ThreadsGood'
    <3> DEFINE t == [x EXCEPT !.pc = "known", !.status = s]
    <3>1. s \in Verdicts
      BY <1>3, <2>1 DEF AlwaysInv, ProviderGood, Answers, Verdicts, Ambiguous
    <3>2. t \in ThreadRecords /\ t.pc = "known" /\ t.status = s
      BY <1>1, <3>1 DEF ThreadRecords, Pcs, WorkPcs
    <3>3. Set(r, t)
      BY <2>1
    <3> HIDE DEF t
    <3>4. Shape(r, t)
      BY <1>2, <3>1, <3>2 DEF Shape, WorkPcs, EventPcs
    <3> QED BY <1>1, <3>3, <3>4, SetKeeps
  <2> QED BY <1>1, <1>2, <1>11, <2>1, GotoKeeps DEF Answer, WorkPcs, EventPcs
<1>12. CASE Retry(r)
  <2> DEFINE p == PriorOf(Act(r), x.gen)
             t == [x EXCEPT !.prior = p, !.status = "outcome_unknown", !.pc = "known"]
             u == [t EXCEPT !.pc = "sign", !.ok = "known", !.ko = "done", !.ev = e]
  <2>1. Set(r, t) \/ (Set(r, u) /\ Mutates(r))
    BY <1>12 DEF Retry, e
  <2>2. p \in States
    BY PriorIsState DEF AlwaysInv
  <2>3. t \in ThreadRecords /\ t.pc = "known" /\ t.status = "outcome_unknown"
    BY <1>1, <2>2 DEF ThreadRecords, Pcs, WorkPcs, Verdicts, Ambiguous
  <2> HIDE DEF t
  <2>4. /\ u \in ThreadRecords /\ u.pc = "sign" /\ u.ev = e /\ u.ok = "known" /\ u.ko = "done"
        /\ u.status = "outcome_unknown"
    BY <1>8, <2>3 DEF ThreadRecords, Pcs, WorkPcs, EventPcs
  <2> HIDE DEF u
  <2>5. Shape(r, t)
    BY <1>2, <2>3 DEF Shape, WorkPcs, EventPcs, Verdicts, Ambiguous
  <2>6. Mutates(r) => Shape(r, u)
    BY <1>2, <1>8, <2>4 DEF Shape, EventPcs, Starting
  <2> QED BY <1>1, <2>1, <2>5, <2>6, SetKeeps
<1> QED BY <1>4, <1>5, <1>6, <1>7, <1>9, <1>10, <1>11, <1>12

(* An event is signed and appended, or refused.                            *)
LEMMA EventStepsKeepThreads ==
  ASSUME AlwaysInv, NEW r \in Requests, Sign(r) \/ AppendEvent(r)
  PROVE  ThreadsGood'
<1> DEFINE x == thread[r]
<1>1. ThreadsGood /\ Shape(r, x) /\ x \in ThreadRecords /\ UNCHANGED world
  BY DEF AlwaysInv, ThreadsGood, Sign, AppendEvent
<1>2. x.pc \in EventPcs
  BY DEF Sign, AppendEvent, At, EventPcs
<1>3. IF Works(r) THEN Mutates(r) /\ (Starting(x) \/ Judging(x) \/ Doubting(x)) ELSE Owning(x)
  BY <1>1, <1>2 DEF Shape
<1>4. /\ IF Works(r) THEN x.ok \in {"run", "known", "resolve", "done", "persist"}
                     ELSE x.ok \in {"ensure", "lease"}
      /\ IF Works(r) THEN x.ko \in {"reject", "done"} ELSE x.ko = "done"
      /\ x.ok = "known" => x.status = "outcome_unknown"
  BY <1>3 DEF Starting, Judging, Doubting, Owning
<1>5. Len(events) \in Nat
  BY StateIsState DEF AlwaysInv
<1>6. CASE Sign(r)
  <2> DEFINE t == [x EXCEPT !.pc = "append", !.seen = Len(events)]
  <2>1. Set(r, t) \/ To(r, x, x.ko)
    BY <1>6 DEF Sign
  <2>2. /\ t \in ThreadRecords /\ t.pc = "append" /\ t.ev = x.ev /\ t.ok = x.ok /\ t.ko = x.ko
        /\ t.status = x.status
    BY <1>1, <1>5 DEF ThreadRecords, Pcs, EventPcs
  <2> HIDE DEF t
  <2>3. IF Works(r) THEN Mutates(r) /\ (Starting(t) \/ Judging(t) \/ Doubting(t)) ELSE Owning(t)
    BY <1>3, <2>2 DEF Starting, Judging, Doubting, Owning
  <2>4. Shape(r, t)
    BY <2>2, <2>3 DEF Shape, EventPcs
  <2>5. ASSUME To(r, x, x.ko) PROVE ThreadsGood'
    <3> HIDE DEF x
    <3> QED BY <1>1, <1>4, <2>5, ToKeeps DEF WorkPcs, EventPcs
  <2> QED BY <1>1, <2>1, <2>4, <2>5, SetKeeps
<1>7. CASE AppendEvent(r)
  <2> DEFINE t == [x EXCEPT !.seen = 0, !.ev = NoEvent]
  <2>1. To(r, t, x.ok) \/ To(r, t, x.ko)
    BY <1>7 DEF AppendEvent
  <2>2. t \in ThreadRecords /\ t.status = x.status
    <3>1. NoEvent \in Planned
      BY DEF NoEvent, Planned, States
    <3> QED BY <1>1, <3>1 DEF ThreadRecords
  <2> DEFINE ok == x.ok
             ko == x.ko
  <2> HIDE DEF t, x
  <2>3. ASSUME To(r, t, ko) PROVE ThreadsGood'
    <3>1. ko = "done" \/ (ko = "reject" /\ Works(r))
      BY <1>4
    <3> HIDE DEF ko
    <3> QED BY <1>1, <2>2, <2>3, <3>1, ToKeeps DEF WorkPcs, EventPcs
  <2>4. ASSUME To(r, t, ok), ok # "known" PROVE ThreadsGood'
    <3>1. IF Works(r) THEN ok \in {"run", "resolve", "done", "persist"} ELSE ok \in {"ensure", "lease"}
      BY <1>4, <2>4
    <3> HIDE DEF ok
    <3> QED BY <1>1, <2>2, <2>4, <3>1, ToKeeps DEF WorkPcs, OwnPcs, EventPcs
  <2>5. ASSUME To(r, t, ok), ok = "known" PROVE ThreadsGood'
    <3> DEFINE u == [t EXCEPT !.pc = "known"]
    <3>1. Set(r, u)
      BY <2>5 DEF To
    <3>2. u \in ThreadRecords /\ u.pc = "known" /\ u.status = "outcome_unknown"
      BY <1>4, <2>2, <2>5 DEF ThreadRecords, Pcs, WorkPcs
    <3> HIDE DEF u
    <3>3. Works(r)
      BY <1>4, <2>5
    <3>4. Shape(r, u)
      BY <3>2, <3>3 DEF Shape, WorkPcs, EventPcs, Verdicts, Ambiguous
    <3> QED BY <1>1, <3>1, <3>4, SetKeeps
  <2> QED BY <2>1, <2>3, <2>4, <2>5
<1> QED BY <1>6, <1>7

(* A result is worked into the ledger.                                     *)
LEMMA RecordIsGood ==
  ASSUME ThreadsGood, NEW r \in Requests, Works(r), NEW v \in Verdicts,
         Mutates(r) => v # "applied",
         NEW ok \in {"persist", "resolve", "done"}, NEW status \in Verdicts \cup {"none"},
         Set(r, [thread[r] EXCEPT !.pc = "complete", !.ok = ok, !.status = status,
                                  !.ev = [NoEvent EXCEPT !.verdict = v]]),
         UNCHANGED world
  PROVE  ThreadsGood'
<1> DEFINE e == [NoEvent EXCEPT !.verdict = v]
           t == [thread[r] EXCEPT !.pc = "complete", !.ok = ok, !.status = status, !.ev = e]
<1>1. e \in Planned /\ e.verdict = v
  BY DEF NoEvent, Planned, States
<1> HIDE DEF e
<1>2. t \in ThreadRecords /\ t.pc = "complete" /\ t.ok = ok /\ t.ev = e
  <2>1. thread[r] \in ThreadRecords /\ "complete" \in Pcs /\ ok \in Pcs
    BY DEF ThreadsGood, Pcs, WorkPcs
  <2> QED BY <1>1, <2>1 DEF ThreadRecords
<1>3. Set(r, t)
  BY DEF e
<1> HIDE DEF t
<1>4. Shape(r, t)
  BY <1>1, <1>2 DEF Shape, WorkPcs, EventPcs
<1> QED BY <1>3, <1>4, SetKeeps

LEMMA KnownKeepsThreads ==
  ASSUME AlwaysInv, NEW r \in Requests, Known(r)
  PROVE  ThreadsGood'
<1> DEFINE x == thread[r]
           s == x.status
<1>1. /\ ThreadsGood /\ Shape(r, x) /\ x \in ThreadRecords /\ UNCHANGED world
      /\ x.pc = "known"
  BY DEF AlwaysInv, ThreadsGood, Known, At
<1>2. Works(r) /\ s \in Verdicts
  BY <1>1 DEF Shape, OwnPcs, EventPcs
<1>3. /\ Following(r) \in {"persist", "resolve", "done"}
      /\ s \in Final => Following(r) \in {"resolve", "done"}
  BY DEF Following, Final, Ambiguous
<1>4. CASE ~Mutates(r)
  <2>1. \/ Done(r)
        \/ \E v \in {"applied", "rejected"} :
              Set(r, [x EXCEPT !.pc = "complete", !.ok = "done", !.status = "none",
                               !.ev = [NoEvent EXCEPT !.verdict = v]])
    BY <1>4 DEF Known
  <2> QED BY <1>1, <1>2, <1>4, <2>1, DoneKeeps, RecordIsGood DEF Verdicts, Final
<1>5. CASE Mutates(r)
  <2>1. \/ Done(r)
        \/ s = "applied" /\ Settle(r, "mutation.applied", Applied(r))
        \/ s = "rejected" /\ Settle(r, "mutation.rejected", Restored(r))
        \/ s \in Verdicts \ {"applied"} /\ Record(r, s)
        \/ Publish(r, [type |-> "mutation.outcome_unknown", verdict |-> "outcome_unknown",
                       after |-> "outcome_unknown"], "persist", "done")
    BY <1>2, <1>5 DEF Known, Verdicts, Final, Ambiguous
  <2>2. ASSUME NEW type \in {"mutation.applied", "mutation.rejected"},
               NEW after \in Owned \cup {"terminated"}, s \in Final,
               Settle(r, type, after)
        PROVE  ThreadsGood'
    <3> DEFINE e == [type |-> IF State = "outcome_unknown" THEN "recovery.resolved" ELSE type,
                     after |-> after, verdict |-> s]
               ok == Following(r)
               t == [x EXCEPT !.pc = "sign", !.ev = e, !.ok = ok, !.ko = "done"]
    <3>1. e \in Planned /\ e.type \in VerdictTypes /\ e.after = after /\ e.verdict = s
      BY <2>2 DEF Planned, EventTypes, VerdictTypes, States, Verdicts
    <3>2. Publish(r, e, ok, "done")
      BY <2>2 DEF Settle
    <3> HIDE DEF e
    <3>3. ok \in {"resolve", "done"} /\ ok \in Pcs /\ "done" \in Pcs
      BY <1>3, <2>2 DEF Pcs, WorkPcs
    <3> HIDE DEF ok
    <3>4. t.ev = e /\ t.ok = ok /\ t.ko = "done"
      BY <1>1 DEF ThreadRecords
    <3>5. Judging(t)
      BY <2>2, <3>1, <3>3, <3>4 DEF Judging
    <3> QED BY <1>1, <1>2, <1>5, <3>1, <3>2, <3>3, <3>5, PublishKeeps
  <2>3. Applied(r) \in Owned \cup {"terminated"} /\ Restored(r) \in Owned
    BY DEF Applied, Restored, Owned
  <2>4. ASSUME Record(r, s), s # "applied" PROVE ThreadsGood'
    <3>1. [x EXCEPT !.pc = "complete", !.ok = Following(r), !.ev = [NoEvent EXCEPT !.verdict = s]]
            = [x EXCEPT !.pc = "complete", !.ok = Following(r), !.status = s,
                        !.ev = [NoEvent EXCEPT !.verdict = s]]
      BY <1>1 DEF ThreadRecords
    <3>2. Set(r, [x EXCEPT !.pc = "complete", !.ok = Following(r), !.status = s,
                           !.ev = [NoEvent EXCEPT !.verdict = s]])
      BY <2>4, <3>1 DEF Record
    <3> QED BY <1>1, <1>2, <1>3, <2>4, <3>2, RecordIsGood
  <2>5. ASSUME Publish(r, [type |-> "mutation.outcome_unknown", verdict |-> "outcome_unknown",
                           after |-> "outcome_unknown"], "persist", "done")
        PROVE  ThreadsGood'
    <3> DEFINE e == [type |-> "mutation.outcome_unknown", verdict |-> "outcome_unknown",
                     after |-> "outcome_unknown"]
               t == [x EXCEPT !.pc = "sign", !.ev = e, !.ok = "persist", !.ko = "done"]
    <3>1. e \in Planned /\ e.type = "mutation.outcome_unknown" /\ e.after = "outcome_unknown"
          /\ e.verdict = "outcome_unknown"
      BY DEF Planned, EventTypes, States, Verdicts, Ambiguous
    <3>2. Publish(r, e, "persist", "done")
      BY <2>5
    <3> HIDE DEF e
    <3>3. t.ev = e /\ t.ok = "persist" /\ t.ko = "done"
      BY <1>1 DEF ThreadRecords
    <3>4. Doubting(t)
      BY <3>1, <3>3 DEF Doubting
    <3>5. "persist" \in Pcs /\ "done" \in Pcs
      BY DEF Pcs, WorkPcs
    <3> QED BY <1>1, <1>2, <1>5, <3>1, <3>2, <3>4, <3>5, PublishKeeps
  <2> QED BY <1>1, <2>1, <2>2, <2>3, <2>4, <2>5, DoneKeeps DEF Final
<1> QED BY <1>4, <1>5

LEMMA RecoverStepsKeepThreads ==
  ASSUME AlwaysInv, NEW r \in Requests,
         Complete(r) \/ Persist(r) \/ Recover(r) \/ Proof(r) \/ Resolve(r) \/ AskAgain(r)
  PROVE  ThreadsGood'
<1> DEFINE x == thread[r]
<1>1. ThreadsGood /\ Shape(r, x) /\ x \in ThreadRecords /\ UNCHANGED world
  BY DEF AlwaysInv, ThreadsGood, Complete, Persist, Recover, Proof, Resolve, AskAgain
<1>2. CASE AskAgain(r)
  BY <1>1, <1>2, IdleIsGood, SetKeeps DEF AskAgain
<1>3. CASE ~AskAgain(r)
  <2>1. Works(r)
    <3>1. Ask(r).kind = "recover" \/ x.pc \in {"complete", "persist", "proof", "resolve"}
      BY <1>3 DEF Complete, Persist, Recover, Proof, Resolve, At
    <3> QED BY <1>1, <3>1 DEF Shape, OwnPcs, EventPcs, Works
  <2>2. Act(r) \in Acts /\ Ask(r).via \in Requests
    BY <2>1, RequestsAreGood DEF AlwaysInv
  <2>3. CASE Complete(r)
    <3> DEFINE t == [x EXCEPT !.ev = NoEvent]
               ok == x.ok
    <3>1. To(r, t, ok) \/ Done(r)
      BY <2>3 DEF Complete
    <3>2. t \in ThreadRecords
      <4>1. NoEvent \in Planned
        BY DEF NoEvent, Planned, States
      <4> QED BY <1>1, <4>1 DEF ThreadRecords
    <3>3. ok \in {"persist", "resolve", "done"}
      BY <1>1, <2>3 DEF Complete, At, Shape
    <3> HIDE DEF t, ok
    <3> QED BY <1>1, <2>1, <3>1, <3>2, <3>3, ToKeeps, DoneKeeps DEF WorkPcs, EventPcs
  <2>4. CASE Persist(r) \/ Resolve(r)
    BY <1>1, <2>1, <2>4, ToKeeps, DoneKeeps DEF Persist, Resolve, WorkPcs, EventPcs
  <2>5. CASE Recover(r)
    <3> DEFINE t == [Idle EXCEPT !.pc = "proof", !.gen = snaps[Ask(r).via],
                                 !.status = acts[Act(r)].state]
    <3>1. Set(r, t) /\ acts[Act(r)].state \in Ambiguous /\ snaps[Ask(r).via] \in 0 .. MaxGen
      BY <2>2, <2>5 DEF Recover, AlwaysInv, StoreGood
    <3>2. Idle \in ThreadRecords
      BY IdleIsGood DEF Shape
    <3>3. t \in ThreadRecords /\ t.pc = "proof" /\ t.status \in Ambiguous
      BY <3>1, <3>2 DEF ThreadRecords, Pcs, WorkPcs, Verdicts
    <3> HIDE DEF t
    <3>4. Shape(r, t)
      BY <2>1, <3>3 DEF Shape, WorkPcs, EventPcs
    <3> QED BY <1>1, <3>1, <3>4, SetKeeps
  <2>6. CASE Proof(r)
    <3> DEFINE p == PriorOf(Act(r), x.gen)
    <3>1. PICK v \in Proofs(r) : Set(r, [x EXCEPT !.pc = "known", !.prior = p, !.status = v])
      BY <2>6 DEF Proof
    <3>2. p \in States
      BY PriorIsState DEF AlwaysInv
    <3>3. v \in Verdicts
      <4>1. x.status \in Ambiguous
        BY <1>1, <2>6 DEF Proof, At, Shape
      <4> QED BY <2>2, <4>1, <3>1 DEF AlwaysInv, ProviderGood, Proofs, Proved, Verdicts
    <3> DEFINE t == [x EXCEPT !.pc = "known", !.prior = p, !.status = v]
    <3>4. Set(r, t)
      BY <3>1
    <3> HIDE DEF p
    <3>5. t \in ThreadRecords /\ t.pc = "known" /\ t.status = v
      BY <1>1, <3>2, <3>3 DEF ThreadRecords, Pcs, WorkPcs
    <3> HIDE DEF t
    <3>6. Shape(r, t)
      BY <2>1, <3>3, <3>5 DEF Shape, WorkPcs, EventPcs
    <3> QED BY <1>1, <3>4, <3>6, SetKeeps
  <2> QED BY <1>3, <2>3, <2>4, <2>5, <2>6
<1> QED BY <1>2, <1>3

(* Any step keeps the requests in shape; a crash ends those that have begun.*)
LEMMA ThreadsStep ==
  ASSUME AlwaysInv, [ControlNext]_vars
  PROVE  ThreadsGood'
<1>1. CASE \E r \in Requests : Step(r)
  BY <1>1, SnapshotStepsKeepThreads, ExecuteStepsKeepThreads, EventStepsKeepThreads,
     KnownKeepsThreads, RecoverStepsKeepThreads DEF Step
<1>2. CASE UNCHANGED <<world, thread>>
  BY <1>2 DEF AlwaysInv, ThreadsGood, Shape, Works, Mutates, Act, Ask, Requests
<1>3. CASE Crash
  <2> DEFINE d == [Idle EXCEPT !.pc = "done"]
  <2>1. UNCHANGED world /\ thread' = [r \in Requests |-> IF At(r) = "ready" THEN thread[r] ELSE d]
    BY <1>3 DEF Crash
  <2>2. ThreadsGood
    BY DEF AlwaysInv
  <2> HIDE DEF d
  <2>3. \A r \in Requests : Shape(r, d)
    BY IdleIsGood DEF d
  <2>4. \A r \in Requests : Shape(r, thread'[r])
    BY <2>1, <2>2, <2>3 DEF ThreadsGood
  <2>5. thread' \in [Requests -> ThreadRecords]
    BY <2>1, <2>2, <2>3 DEF ThreadsGood, Shape
  <2>6. (\A r \in Requests : Shape(r, thread[r]))'
    BY <2>1, <2>4 DEF Shape, Works, Mutates, Act, Ask, Requests
  <2> QED BY <2>1, <2>5, <2>6 DEF ThreadsGood, Requests
<1> QED BY <1>1, <1>2, <1>3 DEF ControlNext, vars, Decide, Refresh, Expire

------------------------------------------------------------------------------
(* The store.                                                              *)

(* Who is somewhere in an action works on one.                             *)
LEMMA WorkersWork ==
  ASSUME ThreadsGood, world \in Worlds, NEW r \in Requests, At(r) \in WorkPcs \ OwnPcs
  PROVE  Works(r) /\ Act(r) \in Acts /\ Ask(r).via \in Requests
<1>1. Shape(r, thread[r])
  BY DEF ThreadsGood
<1>2. Works(r)
  BY <1>1 DEF Shape, At, OwnPcs, WorkPcs, EventPcs
<1> QED BY <1>2, RequestsAreGood

(* An event gives its action no other state than its verdict.              *)
LEMMA AppendedIsGood ==
  ASSUME AlwaysInv, NEW r \in Requests, At(r) = "append"
  PROVE  /\ thread[r].ev \in Planned /\ thread[r].ev.type # "none"
         /\ thread[r].ev.verdict # "none" => Act(r) \in Acts /\ Works(r) /\ Mutates(r)
         /\ Act(r) \in Acts \cup {NoAct}
<1>1. Shape(r, thread[r]) /\ thread[r] \in ThreadRecords /\ world \in Worlds
  BY DEF AlwaysInv, ThreadsGood
<1>2. IF Works(r) THEN /\ Mutates(r)
                       /\ Starting(thread[r]) \/ Judging(thread[r]) \/ Doubting(thread[r])
      ELSE Owning(thread[r])
  BY <1>1 DEF Shape, At, EventPcs
<1>3. thread[r].ev \in Planned
  BY <1>1 DEF ThreadRecords
<1> QED BY <1>1, <1>2, <1>3, RequestsAreGood
        DEF Starting, Judging, Doubting, Owning, OwningTypes, VerdictTypes

(* Which actions touch what: the rest of them leave it alone.              *)
LEMMA WhoTouchesWhat ==
  ASSUME [ControlNext]_vars
  PROVE  /\ UNCHANGED world
         /\ UNCHANGED gen \/ Refresh
         /\ UNCHANGED events \/ \E r \in Requests : AppendEvent(r)
         /\ \/ UNCHANGED leases
            \/ Expire
            \/ \E r \in Requests : FindLease(r) \/ IssueLease(r) \/ AppendEvent(r)
         /\ \/ UNCHANGED conf
            \/ \E r \in Requests : Reserve(r) \/ AppendEvent(r) \/ Prepare(r)
         /\ UNCHANGED runs \/ \E r \in Requests : RunAct(r)
<1> DEFINE all == <<world, gen, events, leases, conf, runs>>
<1>1. CASE \E r \in Requests : Step(r)
  <2>1. PICK r \in Requests : Step(r)
    BY <1>1
  <2>2. Snapshot(r) \/ Ensure(r) \/ Sign(r) \/ Verify(r) \/ Recover(r) => UNCHANGED all
    BY DEF Snapshot, Ensure, Sign, Verify, Recover, store, provider
  <2>3. Own(r) \/ Retry(r) \/ AskAgain(r) => UNCHANGED all
    BY DEF Own, Retry, AskAgain, store, provider
  <2>4. Known(r) => UNCHANGED all
    <3>1. Known(r) => UNCHANGED <<world, store, provider>>
      BY DEF Known
    <3> QED BY <3>1 DEF store, provider
  <2>5. PublishSnapshot(r) \/ Mark(r) \/ Reject(r) \/ Complete(r) => UNCHANGED all
    BY DEF PublishSnapshot, Mark, Reject, Complete, provider
  <2>6. Answer(r) \/ Proof(r) \/ Persist(r) \/ Resolve(r) => UNCHANGED all
    BY DEF Answer, Proof, Persist, Resolve, provider
  <2>7. FindLease(r) \/ IssueLease(r) => UNCHANGED <<world, gen, events, conf, runs>>
    BY DEF FindLease, IssueLease, provider
  <2>8. Reserve(r) \/ Prepare(r) => UNCHANGED <<world, gen, events, leases, runs>>
    BY DEF Reserve, Prepare, provider
  <2>9. AppendEvent(r) => UNCHANGED <<world, gen, runs>>
    BY DEF AppendEvent, Extend, store, provider
  <2>10. RunAct(r) => UNCHANGED <<world, gen, events, leases, conf>>
    BY DEF RunAct, store
  <2> HIDE DEF all
  <2>11. \/ UNCHANGED all
         \/ FindLease(r) \/ IssueLease(r) \/ Reserve(r) \/ Prepare(r) \/ AppendEvent(r) \/ RunAct(r)
    BY <2>1, <2>2, <2>3, <2>4, <2>5, <2>6 DEF Step
  <2> QED BY <2>7, <2>8, <2>9, <2>10, <2>11 DEF all
<1>2. (\E a \in Acts : Decide(a)) \/ Crash \/ UNCHANGED vars => UNCHANGED all
  BY DEF Decide, Crash, vars, store, provider
<1>3. Refresh => UNCHANGED <<world, events, leases, conf, runs>>
  BY DEF Refresh, provider
<1>4. Expire => UNCHANGED <<world, gen, events, conf, runs>>
  BY DEF Expire, provider
<1>5. UNCHANGED all \/ Refresh \/ Expire \/ \E r \in Requests : Step(r)
  BY <1>2 DEF ControlNext
<1> QED BY <1>1, <1>3, <1>4, <1>5

(* Nor is the provider touched but by who asks it, and by itself.          *)
LEMMA WhoTouchesTheProvider ==
  ASSUME [ControlNext]_vars
  PROVE  \/ UNCHANGED <<fate, driver, twins>>
         \/ \E r \in Requests : RunAct(r) \/ Reserve(r)
         \/ (\E a \in Acts : Decide(a)) \/ Crash
<1> DEFINE all == <<fate, driver, twins>>
<1>1. ASSUME NEW r \in Requests, Step(r), ~RunAct(r), ~Reserve(r) PROVE UNCHANGED all
  <2>1. \/ Snapshot(r) \/ Ensure(r) \/ FindLease(r) \/ IssueLease(r) \/ PublishSnapshot(r)
        \/ Sign(r) \/ AppendEvent(r)
        => UNCHANGED all
    BY DEF Snapshot, Ensure, FindLease, IssueLease, PublishSnapshot, Sign, AppendEvent, provider
  <2>2. \/ Verify(r) \/ Prepare(r) \/ Own(r) \/ Mark(r) \/ Answer(r) \/ Reject(r) \/ Retry(r)
        => UNCHANGED all
    BY DEF Verify, Prepare, Own, Mark, Answer, Reject, Retry, provider
  <2>3. \/ Complete(r) \/ Persist(r) \/ Recover(r) \/ Proof(r) \/ Resolve(r) \/ AskAgain(r)
        => UNCHANGED all
    BY DEF Complete, Persist, Recover, Proof, Resolve, AskAgain, provider
  <2>4. Known(r) => UNCHANGED all
    <3>1. Known(r) => UNCHANGED <<world, store, provider, twins, crashed>>
      BY DEF Known
    <3> QED BY <3>1 DEF provider
  <2> QED BY <1>1, <2>1, <2>2, <2>3, <2>4 DEF Step
<1>2. Refresh \/ Expire \/ UNCHANGED vars => UNCHANGED all
  BY DEF Refresh, Expire, vars, provider
<1> QED BY <1>1, <1>2 DEF ControlNext

(* A driver learns the end when the provider decides, or from the start    *)
(* has nothing to wait for.                                                *)
LEMMA ProviderStep ==
  ASSUME AlwaysInv, [ControlNext]_vars
  PROVE  ProviderGood'
<1>1. /\ StoreGood /\ ProviderGood /\ ThreadsGood /\ UNCHANGED world /\ world \in Worlds
      /\ fate \in [Acts -> {"none", "working"} \cup Final]
  BY WhoTouchesWhat DEF AlwaysInv, StoreGood
<1>2. CASE \E r \in Requests : RunAct(r)
  <2>1. PICK r \in Requests : RunAct(r)
    BY <1>2
  <2>2. Act(r) \in Acts
    <3>1. At(r) \in WorkPcs \ OwnPcs
      BY <2>1 DEF RunAct, WorkPcs, OwnPcs
    <3> QED BY <1>1, <3>1, WorkersWork
  <2>3. /\ twins' = twins
        /\ fate' = [fate EXCEPT ![Act(r)] = IF @ = "none" THEN "working" ELSE @]
        /\ driver' = [driver EXCEPT ![Act(r)] = IF @ = "none" THEN "waits" ELSE @]
    BY <2>1 DEF RunAct
  <2>4. /\ driver' \in [Acts -> {"none", "waits", "knows"}]
        /\ \A a \in Acts : /\ driver'[a] = "knows" => driver[a] = "knows"
                           /\ fate[a] \in Final => fate'[a] = fate[a]
    BY <1>1, <2>2, <2>3 DEF ProviderGood, Final
  <2> QED BY <1>1, <2>3, <2>4 DEF ProviderGood
<1>3. CASE \E r \in Requests : Reserve(r)
  <2>1. PICK r \in Requests : Reserve(r)
    BY <1>3
  <2>2. Act(r) \in Acts
    <3>1. At(r) \in WorkPcs \ OwnPcs
      BY <2>1 DEF Reserve, WorkPcs, OwnPcs
    <3> QED BY <1>1, <3>1, WorkersWork
  <2>3. UNCHANGED <<fate, driver>> /\ twins' \in {twins, twins \cup {Act(r)}}
    BY <2>1 DEF Reserve, provider
  <2> QED BY <1>1, <2>2, <2>3 DEF ProviderGood
<1>4. CASE \E a \in Acts : Decide(a)
  <2>1. PICK a \in Acts : Decide(a)
    BY <1>4
  <2>2. /\ twins' = twins /\ (driver' = driver \/ driver' = [driver EXCEPT ![a] = "knows"])
        /\ \E v \in Final : fate' = [fate EXCEPT ![a] = v]
    BY <2>1 DEF Decide, Final
  <2> QED BY <1>1, <2>2 DEF ProviderGood
<1>5. CASE Crash
  BY <1>1, <1>5 DEF ProviderGood, Crash
<1>6. CASE ~ \/ \E r \in Requests : RunAct(r) \/ Reserve(r)
             \/ (\E a \in Acts : Decide(a)) \/ Crash
  <2>1. UNCHANGED <<fate, driver, twins>>
    BY <1>6, WhoTouchesTheProvider
  <2> QED BY <1>1, <2>1 DEF ProviderGood
<1> QED BY <1>2, <1>3, <1>4, <1>5, <1>6

(* What the store holds stays of its kind.                                 *)
LEMMA StoreStep ==
  ASSUME AlwaysInv, [ControlNext]_vars
  PROVE  StoreGood' /\ UNCHANGED world
<1>1. StoreGood /\ ThreadsGood /\ world \in Worlds /\ MaxGen \in Nat \ {0}
  BY ControlAssumption DEF AlwaysInv, ControlAssumption
<1>2. UNCHANGED world
  BY WhoTouchesWhat
<1>3. CASE \E r \in Requests : Step(r)
  <2>1. PICK r \in Requests : Step(r)
    BY <1>3
  <2>2. CASE Snapshot(r) \/ Ensure(r) \/ Sign(r) \/ Verify(r) \/ Own(r) \/ Retry(r) \/ Known(r)
             \/ Recover(r) \/ AskAgain(r)
    <3>1. UNCHANGED <<world, store, provider, crashed>>
      BY <2>2 DEF Snapshot, Ensure, Sign, Verify, Own, Retry, Known, Recover, AskAgain
    <3> QED BY <1>1, <3>1 DEF StoreGood, store, provider, Requests
  <2>3. CASE FindLease(r) \/ IssueLease(r) \/ PublishSnapshot(r)
    <3>1. Ask(r).phone \in Phones
      BY <1>1, RequestsAreGood
    <3> QED BY <1>1, <1>2, <2>3, <3>1
            DEF StoreGood, provider, Requests, FindLease, IssueLease, PublishSnapshot
  <2>4. CASE AppendEvent(r)
    <3> DEFINE e == thread[r].ev
    <3>1. At(r) = "append" /\ (Extend(r, Act(r), e) \/ UNCHANGED store)
          /\ UNCHANGED <<gen, closed, handles, snaps, fate, runs, crashed>>
      BY <2>4 DEF AppendEvent, store, provider
    <3>2. e \in Planned /\ (e.verdict # "none" => Act(r) \in Acts)
      BY <3>1, AppendedIsGood
    <3> HIDE DEF e
    <3>3. acts' \in [Acts -> [state : ActStates, snap : {0} \cup Requests, gen : 0 .. MaxGen]]
      <4>1. acts' = acts \/ (e.verdict # "none" /\ acts' = [acts EXCEPT ![Act(r)].state = e.verdict])
        BY <3>1 DEF Extend, store
      <4>2. e.verdict # "none" => e.verdict \in ActStates
        BY <3>2 DEF Planned, ActStates
      <4> DEFINE v == e.verdict
                 a == Act(r)
      <4>3. CASE acts' = acts
        BY <1>1, <4>3 DEF StoreGood
      <4>4. CASE v # "none" /\ acts' = [acts EXCEPT ![a].state = v]
        <5>1. v \in ActStates /\ a \in Acts
          BY <3>2, <4>2, <4>4
        <5> HIDE DEF v, a
        <5> QED BY <1>1, <4>4, <5>1 DEF StoreGood
      <4> QED BY <4>1, <4>3, <4>4
    <3>4. leases' \subseteq leases /\ conf' \in {conf, "revoked"}
      BY <3>1 DEF Extend, store
    <3> QED BY <1>1, <1>2, <3>1, <3>3, <3>4 DEF StoreGood, Requests
  <2>5. CASE \/ Reserve(r) \/ Prepare(r) \/ Mark(r) \/ RunAct(r) \/ Answer(r) \/ Reject(r)
             \/ Complete(r) \/ Persist(r) \/ Proof(r) \/ Resolve(r)
    <3> DEFINE a == Act(r)
    <3>1. At(r) \in WorkPcs \ OwnPcs
      BY <2>5 DEF Reserve, Prepare, Mark, RunAct, Answer, Reject, Complete, Persist, Proof, Resolve,
                  WorkPcs, OwnPcs
    <3>2. a \in Acts /\ Ask(r).via \in Requests
      BY <1>1, <3>1, WorkersWork
    <3>3. CASE Reserve(r)
      <4>1. conf' \in {conf, "issued"}
        BY <3>3 DEF Reserve, Admitted
      <4>2. acts' = acts \/ acts' = [acts EXCEPT ![a] = [state |-> "reserved", snap |-> Ask(r).via,
                                                        gen |-> gen]]
        BY <3>3 DEF Reserve
      <4>3. acts' \in [Acts -> [state : ActStates, snap : {0} \cup Requests, gen : 0 .. MaxGen]]
        BY <1>1, <3>2, <4>2 DEF StoreGood, ActStates
      <4> QED BY <1>1, <1>2, <3>3, <4>1, <4>3 DEF StoreGood, Reserve, Requests, provider
    <3>4. CASE Prepare(r)
      BY <1>1, <1>2, <3>2, <3>4 DEF StoreGood, Prepare, Requests, provider
    <3>5. ASSUME NEW v \in ActStates, acts' = acts \/ acts' = [acts EXCEPT ![a].state = v],
                 UNCHANGED <<gen, closed, handles, conf, snaps, leases, provider, crashed>>
          PROVE  StoreGood'
      <4>1. acts' \in [Acts -> [state : ActStates, snap : {0} \cup Requests, gen : 0 .. MaxGen]]
        BY <1>1, <3>2, <3>5 DEF StoreGood
      <4> QED BY <1>1, <1>2, <3>5, <4>1 DEF StoreGood, Requests, provider
    <3>6. CASE Mark(r)
      BY <3>5, <3>6 DEF Mark, ActStates
    <3>7. CASE Reject(r)
      BY <3>5, <3>7 DEF Reject, ActStates, Verdicts, Final
    <3>8. CASE Complete(r)
      <4>1. thread[r].ev.verdict \in ActStates
        BY <1>1, <3>8 DEF Complete, At, ThreadsGood, Shape, ActStates
      <4> QED BY <3>5, <3>8, <4>1 DEF Complete
    <3>9. CASE Answer(r) \/ Proof(r)
      <4>1. closed' \in BOOLEAN
        BY <1>1, <3>9 DEF StoreGood, Answer, Proof
      <4>2. UNCHANGED <<gen, acts, handles, conf, snaps, leases, fate, runs, crashed>>
        BY <3>9 DEF Answer, Proof, provider
      <4> QED BY <1>1, <1>2, <4>1, <4>2 DEF StoreGood, Requests
    <3>10. CASE Persist(r) \/ Resolve(r)
      BY <1>1, <1>2, <3>2, <3>10 DEF StoreGood, Persist, Resolve, Requests, provider
    <3>11. CASE RunAct(r)
      <4>1. /\ runs' = [runs EXCEPT ![a] = IF @ < 2 THEN @ + 1 ELSE @]
            /\ fate' = [fate EXCEPT ![a] = IF @ = "none" THEN "working" ELSE @]
            /\ UNCHANGED <<store, crashed>>
        BY <3>11 DEF RunAct
      <4>2. runs[a] \in 0 .. 2 /\ fate[a] \in {"none", "working"} \cup Final
        BY <1>1, <3>2 DEF StoreGood
      <4>3. runs' \in [Acts -> 0 .. 2]
        <5> DEFINE n == IF runs[a] < 2 THEN runs[a] + 1 ELSE runs[a]
        <5>1. runs' = [runs EXCEPT ![a] = n]
          BY <4>1
        <5>2. n \in 0 .. 2
          BY <4>2
        <5> HIDE DEF n
        <5> QED BY <1>1, <5>1, <5>2 DEF StoreGood
      <4>4. fate' \in [Acts -> {"none", "working"} \cup Final]
        <5> DEFINE f == IF fate[a] = "none" THEN "working" ELSE fate[a]
        <5>1. fate' = [fate EXCEPT ![a] = f]
          BY <4>1
        <5>2. f \in {"none", "working"} \cup Final
          BY <4>2
        <5> HIDE DEF f
        <5> QED BY <1>1, <5>1, <5>2 DEF StoreGood
      <4> QED BY <1>1, <1>2, <4>1, <4>3, <4>4 DEF StoreGood, Requests, store
    <3> QED BY <2>5, <3>3, <3>4, <3>6, <3>7, <3>8, <3>9, <3>10, <3>11
  <2> QED BY <2>1, <2>2, <2>3, <2>4, <2>5 DEF Step
<1>4. CASE \E a \in Acts : Decide(a)
  <2>1. PICK a \in Acts : Decide(a)
    BY <1>4
  <2> QED BY <1>1, <1>2, <2>1 DEF StoreGood, Decide, store, Requests, Final
<1>5. CASE Refresh
  BY <1>1, <1>2, <1>5 DEF StoreGood, Refresh, provider, Requests
<1>6. CASE Expire
  <2>1. snaps' \in [Requests -> 0 .. MaxGen] /\ leases' \subseteq leases
        /\ handles' \in [Acts -> {"none", "pending", "resolved", "expired"}]
    BY <1>1, <1>6 DEF StoreGood, Expire
  <2> QED BY <1>1, <1>2, <1>6, <2>1 DEF StoreGood, Expire, provider, Requests
<1>7. CASE Crash
  BY <1>1, <1>2, <1>7 DEF StoreGood, Crash, store, provider, Requests
<1>8. CASE UNCHANGED vars
  BY <1>1, <1>2, <1>8 DEF StoreGood, vars, store, provider, Requests
<1> QED BY <1>2, <1>3, <1>4, <1>5, <1>6, <1>7, <1>8 DEF ControlNext

------------------------------------------------------------------------------
(* The chain of events.                                                    *)

(* An event more.                                                          *)
LEMMA Appended ==
  ASSUME ChainGood, NEW f, events' = Append(events, f)
  PROVE  /\ Len(events) \in Nat /\ DOMAIN events = 1 .. Len(events)
         /\ Len(events') = Len(events) + 1 /\ DOMAIN events' = 1 .. Len(events) + 1
         /\ \A i \in 1 .. Len(events) : events'[i] = events[i]
         /\ events'[Len(events) + 1] = f
         /\ State' = f.after
         /\ \A n \in 0 .. Len(events) : StateAt(n)' = StateAt(n)
<1>1. events \in Seq(EventRecords) /\ Len(events) \in Nat /\ DOMAIN events = 1 .. Len(events)
  BY DEF ChainGood
<1>2. /\ Len(events') = Len(events) + 1 /\ DOMAIN events' = 1 .. Len(events) + 1
      /\ \A i \in 1 .. Len(events) : events'[i] = events[i]
      /\ events'[Len(events) + 1] = f
  BY <1>1
<1>3. State' = f.after
  BY <1>1, <1>2 DEF State, StateAt
<1>4. ASSUME NEW n \in 0 .. Len(events) PROVE StateAt(n)' = StateAt(n)
  BY <1>1, <1>2, <1>4 DEF StateAt
<1> QED BY <1>1, <1>2, <1>3, <1>4

(* Only an admitted event lengthens the chain; generations do not go back. *)
Extends(r) ==
    /\ AppendEvent(r) /\ At(r) = "append"
    /\ MayAppend(r, Act(r), thread[r].ev) /\ Extend(r, Act(r), thread[r].ev)
    /\ UNCHANGED <<world, gen, closed, handles, snaps, provider, crashed>>
LEMMA ChainGrows ==
  ASSUME AlwaysInv, [ControlNext]_vars
  PROVE  /\ gen' \in Nat /\ gen' >= gen /\ gen \in Nat
         /\ (\E r \in Requests : Extends(r)) \/ (UNCHANGED events /\ State' = State)
<1>1. gen \in Nat /\ gen' \in {gen, gen + 1}
  <2>1. gen \in Nat
    BY ControlAssumption DEF AlwaysInv, StoreGood, ControlAssumption
  <2>2. UNCHANGED gen \/ Refresh
    BY WhoTouchesWhat
  <2> QED BY <2>1, <2>2 DEF Refresh
<1>2. UNCHANGED events \/ \E r \in Requests : AppendEvent(r)
  BY WhoTouchesWhat
<1>3. ASSUME NEW r \in Requests, AppendEvent(r) PROVE Extends(r) \/ UNCHANGED events
  BY <1>3 DEF AppendEvent, Extends, store
<1>4. ASSUME UNCHANGED events PROVE State' = State
  BY <1>4 DEF State, StateAt
<1> QED BY <1>1, <1>2, <1>3, <1>4

(* What an event that is appended looks like.                              *)
Appending(r) == [gen |-> gen, type |-> thread[r].ev.type, act |-> Act(r), before |-> State,
                 after |-> thread[r].ev.after]
LEMMA AppendingIsGood ==
  ASSUME AlwaysInv, NEW r \in Requests, Extends(r)
  PROVE  /\ events' = Append(events, Appending(r)) /\ Appending(r) \in EventRecords
         /\ Appending(r).type \in VerdictTypes => Appending(r).after \in Owned \cup {"terminated"}
         /\ Admits(Appending(r).type, State)
         /\ thread[r].gen = gen /\ ~Terminal
<1>1. /\ thread[r].seen = Len(events) /\ thread[r].gen = gen /\ ~Terminal
      /\ events' = Append(events, Appending(r))
  BY DEF Extends, MayAppend, Extend, Appending, State
<1>2. /\ thread[r].ev \in Planned /\ thread[r].ev.type # "none"
      /\ Act(r) \in Acts \cup {NoAct}
  BY AppendedIsGood DEF Extends
<1>3. State \in States /\ gen \in 1 .. MaxGen
  BY StateIsState DEF AlwaysInv, StoreGood
<1>4. Appending(r) \in EventRecords
  BY <1>2, <1>3 DEF Appending, EventRecords, Planned
<1>5. Shape(r, thread[r]) /\ thread[r].pc \in EventPcs
  BY DEF AlwaysInv, ThreadsGood, Extends, At, EventPcs
<1>6. thread[r].ev.type \in VerdictTypes => thread[r].ev.after \in Owned \cup {"terminated"}
  BY <1>5 DEF Shape, Owning, Starting, Judging, Doubting, OwningTypes, VerdictTypes
<1>7. Admits(thread[r].ev.type, State)
  BY <1>1 DEF AlwaysInv, SignedGood, Extends, State
<1> QED BY <1>1, <1>4, <1>6, <1>7 DEF Appending

LEMMA ChainStep ==
  ASSUME AlwaysInv, [ControlNext]_vars
  PROVE  ChainGood'
<1>1. ChainGood /\ Len(events) \in Nat /\ DOMAIN events = 1 .. Len(events)
      /\ gen \in Nat /\ gen' \in Nat /\ gen' >= gen
  BY ChainGrows DEF AlwaysInv, ChainGood
<1>2. CASE UNCHANGED events
  <2>1. \A i \in DOMAIN events : events[i] \in EventRecords
    BY ElementOfSeq DEF AlwaysInv, ChainGood
  <2>2. \A i \in DOMAIN events : events[i].gen \in Nat
    BY <2>1, ControlAssumption DEF EventRecords, ControlAssumption
  <2>3. \A i \in DOMAIN events : events[i].gen <= gen'
    BY <1>1, <2>2 DEF ChainGood
  <2> QED BY <1>1, <1>2, <2>3 DEF ChainGood, StateAt
<1>3. ASSUME NEW r \in Requests, Extends(r) PROVE ChainGood'
  <2> DEFINE f == Appending(r)
  <2>0. PICK n \in Nat : n = Len(events) + 1
    BY <1>1
  <2>1. /\ events' = Append(events, f) /\ f \in EventRecords
        /\ f.type \in VerdictTypes => f.after \in Owned \cup {"terminated"}
        /\ f.before = State /\ f.gen = gen /\ gen' = gen /\ Admits(f.type, State)
    BY <1>3, AppendingIsGood DEF Appending, Extends
  <2> HIDE DEF f
  <2>2. /\ DOMAIN events' = 1 .. n
        /\ \A i \in 1 .. Len(events) : events'[i] = events[i]
        /\ events'[n] = f
        /\ \A m \in 0 .. Len(events) : StateAt(m)' = StateAt(m)
    BY <1>1, <2>0, <2>1, Appended
  <2>3. events' \in Seq(EventRecords)
    BY <1>1, <2>1 DEF ChainGood
  <2>4. StateAt(n - 1)' = State
    <3>1. n - 1 \in 0 .. Len(events) /\ n - 1 = Len(events)
      BY <1>1, <2>0
    <3>2. StateAt(n - 1)' = StateAt(n - 1)
      BY <2>2, <3>1
    <3> QED BY <3>1, <3>2 DEF State
  <2>5. ASSUME NEW i \in 1 .. n
        PROVE  /\ events'[i].type \in VerdictTypes => events'[i].after \in Owned \cup {"terminated"}
               /\ events'[i].before = StateAt(i - 1)'
               /\ Admits(events'[i].type, events'[i].before)
               /\ events'[i].gen <= gen
               /\ i > 1 => events'[i].gen >= events'[i - 1].gen
    <3>1. CASE i = n
      <4>1. n > 1 => events'[n - 1] = events[n - 1] /\ events[n - 1].gen <= gen
        BY <1>1, <2>0, <2>2 DEF ChainGood
      <4>2. events'[i] = f /\ StateAt(i - 1)' = State
        BY <2>2, <2>4, <3>1
      <4>3. i > 1 => events'[i - 1] = events[i - 1] /\ events[i - 1].gen <= gen
        BY <3>1, <4>1
      <4> QED BY <1>1, <2>1, <4>2, <4>3
    <3>2. CASE i # n
      <4>1. i \in 1 .. Len(events) /\ i - 1 \in 0 .. Len(events)
        BY <1>1, <2>0, <2>5, <3>2
      <4>2. /\ events'[i] = events[i] /\ StateAt(i - 1)' = StateAt(i - 1)
            /\ i > 1 => events'[i - 1] = events[i - 1]
        BY <2>2, <4>1
      <4>3. /\ events[i].type \in VerdictTypes => events[i].after \in Owned \cup {"terminated"}
            /\ events[i].before = StateAt(i - 1)
            /\ Admits(events[i].type, events[i].before)
            /\ events[i].gen <= gen
            /\ i > 1 => events[i].gen >= events[i - 1].gen
        BY <1>1, <4>1 DEF ChainGood
      <4> QED BY <4>2, <4>3
    <3> QED BY <3>1, <3>2
  <2> QED BY <2>1, <2>2, <2>3, <2>5 DEF ChainGood
<1> QED BY <1>2, <1>3, ChainGrows

(* One phone holds the lease.                                              *)
LEMMA LeasesStep ==
  ASSUME AlwaysInv, [ControlNext]_vars
  PROVE  LeasesGood'
<1>1. LeasesGood
  BY DEF AlwaysInv
<1>2. CASE \E r \in Requests : Extends(r)
  <2>1. PICK r \in Requests : Extends(r)
    BY <1>2
  <2>2. State' = thread[r].ev.after /\ ~Terminal
    <3>1. ChainGood /\ events' = Append(events, Appending(r)) /\ ~Terminal
      BY <2>1, AppendingIsGood DEF AlwaysInv
    <3>2. State' = Appending(r).after
      BY <3>1, Appended
    <3> QED BY <3>1, <3>2 DEF Appending
  <2>3. leases' = IF thread[r].ev.after = "terminated" THEN {} ELSE leases
    BY <2>1 DEF Extends, Extend
  <2> QED BY <1>1, <2>2, <2>3 DEF LeasesGood, Terminal
<1>3. CASE UNCHANGED events /\ State' = State
  <2>1. \/ leases' \subseteq leases
        \/ ~Terminal /\ \E l : leases' = {l}
    <3>1. \A r \in Requests : AppendEvent(r) => leases' \subseteq leases
      BY DEF AppendEvent, store, Extend
    <3>2. CASE \E r \in Requests : FindLease(r)
      BY <3>2 DEF FindLease
    <3>3. CASE \E r \in Requests : IssueLease(r)
      BY <3>3 DEF IssueLease
    <3>4. CASE Expire
      BY <3>4 DEF Expire
    <3>5. CASE /\ ~ \E r \in Requests : FindLease(r) \/ IssueLease(r) \/ AppendEvent(r)
               /\ ~Expire
      BY <3>5, WhoTouchesWhat
    <3> QED BY <3>1, <3>2, <3>3, <3>4, <3>5
  <2> QED BY <1>1, <1>3, <2>1 DEF LeasesGood, Terminal
<1> QED BY <1>2, <1>3, ChainGrows

------------------------------------------------------------------------------
(* The confirmation.                                                       *)

(* A request's step moves nobody else.                                     *)
LEMMA OthersStay ==
  ASSUME ThreadsGood, NEW r \in Requests, Step(r), NEW q \in Requests, q # r
  PROVE  thread'[q] = thread[q]
<1>1. \A t : Set(r, t) => thread'[q] = thread[q]
  BY DEF Set, ThreadsGood
<1>2. \A pc : Goto(r, pc) => thread'[q] = thread[q]
  BY DEF Goto, ThreadsGood
<1>3. Done(r) => thread'[q] = thread[q]
  BY <1>1 DEF Done
<1>4. \A t, pc : To(r, t, pc) => thread'[q] = thread[q]
  BY <1>1 DEF To
<1>5. \A e, ok, ko : Publish(r, e, ok, ko) => thread'[q] = thread[q]
  BY <1>1 DEF Publish
<1>6. \A type, after : Settle(r, type, after) => thread'[q] = thread[q]
  BY <1>5 DEF Settle
<1>7. \A v : Record(r, v) => thread'[q] = thread[q]
  BY <1>1 DEF Record
<1>8. CASE Known(r)
  <2> DEFINE s == thread[r].status
  <2>1. \/ Done(r) \/ \E t : Set(r, t)
        \/ \E type, after : Settle(r, type, after)
        \/ \E v : Record(r, v)
        \/ \E e, ok, ko : Publish(r, e, ok, ko)
    BY <1>8 DEF Known
  <2> QED BY <1>1, <1>3, <1>5, <1>6, <1>7, <2>1
<1>9. CASE ~Known(r)
  BY <1>1, <1>2, <1>3, <1>4, <1>5, <1>9
     DEF Step, Snapshot, Ensure, FindLease, IssueLease, PublishSnapshot, Sign, AppendEvent, Verify,
         Reserve, Prepare, Own, Mark, RunAct, Answer, Reject, Retry, Complete, Persist, Recover,
         Proof, Resolve, AskAgain
<1> QED BY <1>8, <1>9

(* Where a request goes.                                                   *)
LEMMA Moves ==
  ASSUME ThreadsGood, NEW r \in Requests
  PROVE  /\ \A t : Set(r, t) => thread'[r] = t
         /\ \A pc : Goto(r, pc) => thread'[r] = [thread[r] EXCEPT !.pc = pc]
         /\ Done(r) => thread'[r] = [Idle EXCEPT !.pc = "done"]
         /\ \A t, pc : To(r, t, pc) =>
               thread'[r] = IF pc = "done" THEN [Idle EXCEPT !.pc = "done"] ELSE [t EXCEPT !.pc = pc]
<1>1. \A t : Set(r, t) => thread'[r] = t
  BY DEF Set, ThreadsGood
<1>2. \A pc : Goto(r, pc) => thread'[r] = [thread[r] EXCEPT !.pc = pc]
  BY DEF Goto, ThreadsGood
<1> QED BY <1>1, <1>2 DEF Done, To

(* And which place that is.                                                *)
LEMMA Places ==
  ASSUME ThreadsGood, NEW r \in Requests
  PROVE  /\ \A t \in ThreadRecords : \A pc : Set(r, [t EXCEPT !.pc = pc]) => thread'[r].pc = pc
         /\ \A pc : Goto(r, pc) => thread'[r].pc = pc
         /\ Done(r) => thread'[r].pc = "done"
         /\ \A t \in ThreadRecords : \A pc : To(r, t, pc) => thread'[r].pc = pc
<1>1. thread[r] \in ThreadRecords /\ Idle \in ThreadRecords
  BY IdleIsGood DEF ThreadsGood, Shape
<1>2. \A t \in ThreadRecords : \A pc : [t EXCEPT !.pc = pc].pc = pc
  BY DEF ThreadRecords
<1>3. [Idle EXCEPT !.pc = "done"].pc = "done"
  BY <1>1, <1>2
<1>4. ASSUME NEW t \in ThreadRecords, NEW pc, Set(r, [t EXCEPT !.pc = pc])
      PROVE  thread'[r].pc = pc
  <2>1. thread'[r] = [t EXCEPT !.pc = pc]
    BY <1>4, Moves
  <2> QED BY <1>2, <2>1
<1>5. ASSUME NEW pc, Goto(r, pc) PROVE thread'[r].pc = pc
  <2>1. thread'[r] = [thread[r] EXCEPT !.pc = pc]
    BY <1>5, Moves
  <2> QED BY <1>1, <1>2, <2>1
<1>6. Done(r) => thread'[r].pc = "done"
  BY <1>3, Moves
<1>7. ASSUME NEW t \in ThreadRecords, NEW pc, To(r, t, pc) PROVE thread'[r].pc = pc
  <2>1. thread'[r] = IF pc = "done" THEN [Idle EXCEPT !.pc = "done"] ELSE [t EXCEPT !.pc = pc]
    BY <1>7, Moves
  <2> QED BY <1>2, <1>3, <2>1
<1> QED BY <1>4, <1>5, <1>6, <1>7

(* What a thread holds that has an event to sign.                          *)
Signs(r, e, ok, ko) ==
    LET t == thread[r] IN t.pc = "sign" /\ t.ev = e /\ t.ok = ok /\ t.ko = ko
LEMMA PublishLeads ==
  ASSUME ThreadsGood, NEW r \in Requests, NEW e, NEW ok, NEW ko, Publish(r, e, ok, ko)
  PROVE  Signs(r, e, ok, ko)' /\ thread'[r].status = thread[r].status
<1>1. thread[r] \in ThreadRecords
  BY DEF ThreadsGood
<1>2. thread'[r] = [thread[r] EXCEPT !.pc = "sign", !.ev = e, !.ok = ok, !.ko = ko]
  BY Moves DEF Publish
<1> QED BY <1>1, <1>2 DEF ThreadRecords, Signs

(* Where each step of execute leads, ...                                   *)
Started == [NoEvent EXCEPT !.type = "mutation.started", !.after = "mutation_pending"]
LEMMA ExecuteLeads ==
  ASSUME ThreadsGood, NEW r \in Requests
  PROVE  /\ Verify(r) => thread'[r].pc \in {"reserve", "done"}
         /\ Reserve(r) => thread'[r].pc \in {"prepare", "retry", "persist", "done"}
         /\ Prepare(r) => thread'[r].pc \in {"reject", "own", "done"}
         /\ Own(r) => thread'[r].pc \in {"mark", "reject", "done"}
         /\ Mark(r) => \/ thread'[r].pc = "reject" \/ (thread'[r].pc = "run" /\ ~Mutates(r))
                       \/ Signs(r, Started, "run", "reject")'
         /\ RunAct(r) => thread'[r].pc = "running"
         /\ Answer(r) => \/ thread'[r].pc = "reject" /\ Faulty("contract")
                         \/ thread'[r].pc = "known" /\ thread'[r].status \in Answers(Act(r))
         /\ Reject(r) => thread'[r].pc = "done"
         /\ Retry(r) => /\ thread'[r].status = "outcome_unknown"
                        /\ \/ thread'[r].pc = "known"
                           \/ Signs(r, Started, "known", "done")' /\ State \in Owned
<1> DEFINE x == thread[r]
<1>1. x \in ThreadRecords /\ Idle \in ThreadRecords
  BY IdleIsGood DEF ThreadsGood, Shape
<1>2. Verify(r) => thread'[r].pc \in {"reserve", "done"}
  <2>1. ASSUME NEW g, Set(r, [Idle EXCEPT !.pc = "reserve", !.gen = g])
        PROVE  thread'[r].pc = "reserve"
    <3>1. thread'[r] = [Idle EXCEPT !.pc = "reserve", !.gen = g]
      BY <2>1, Moves
    <3> QED BY <1>1, <3>1 DEF ThreadRecords
  <2> QED BY <1>1, <2>1, Places DEF Verify
<1>3. Reserve(r) => thread'[r].pc \in {"prepare", "retry", "persist", "done"}
  <2>1. Reserve(r) => Done(r) \/ Goto(r, "prepare") \/ To(r, x, Resume(acts[Act(r)].state))
    BY DEF Reserve
  <2>2. Resume(acts[Act(r)].state) \in {"prepare", "retry", "persist", "done"}
    BY DEF Resume
  <2> QED BY <1>1, <2>1, <2>2, Places
<1>4. Prepare(r) => thread'[r].pc \in {"reject", "own", "done"}
  BY Places DEF Prepare
<1>5. Own(r) => thread'[r].pc \in {"mark", "reject", "done"}
  <2>1. ASSUME NEW s, Set(r, [x EXCEPT !.pc = "mark", !.prior = s]) PROVE thread'[r].pc = "mark"
    <3>1. thread'[r] = [x EXCEPT !.pc = "mark", !.prior = s]
      BY <2>1, Moves
    <3> QED BY <1>1, <3>1 DEF ThreadRecords
  <2> QED BY <2>1, Places DEF Own
<1>6. Mark(r) => \/ thread'[r].pc = "reject" \/ (thread'[r].pc = "run" /\ ~Mutates(r))
                 \/ Signs(r, Started, "run", "reject")'
  <2>1. Mark(r) => \/ Goto(r, "reject") \/ (Goto(r, "run") /\ ~Mutates(r))
                   \/ Publish(r, Started, "run", "reject")
    <3>1. CASE acts[Act(r)].state \in {"reserved", "dispatch_started"} /\ Mutates(r)
      BY <3>1 DEF Mark, Started
    <3>2. CASE acts[Act(r)].state \in {"reserved", "dispatch_started"} /\ ~Mutates(r)
      BY <3>2 DEF Mark
    <3>3. CASE acts[Act(r)].state \notin {"reserved", "dispatch_started"}
      BY <3>3 DEF Mark
    <3> QED BY <3>1, <3>2, <3>3
  <2> QED BY <2>1, Places, PublishLeads
<1>7. RunAct(r) => thread'[r].pc = "running"
  BY Places DEF RunAct
<1>8. Answer(r) => \/ thread'[r].pc = "reject" /\ Faulty("contract")
                   \/ thread'[r].pc = "known" /\ thread'[r].status \in Answers(Act(r))
  <2>1. ASSUME NEW s, Set(r, [x EXCEPT !.pc = "known", !.status = s])
        PROVE  thread'[r].pc = "known" /\ thread'[r].status = s
    <3>1. thread'[r] = [x EXCEPT !.pc = "known", !.status = s]
      BY <2>1, Moves
    <3> QED BY <1>1, <3>1 DEF ThreadRecords
  <2>2. Answer(r) => \/ Goto(r, "reject") /\ Faulty("contract")
                     \/ \E s \in Answers(Act(r)) : Set(r, [x EXCEPT !.pc = "known", !.status = s])
    BY DEF Answer
  <2> QED BY <2>1, <2>2, Places
<1>9. Reject(r) => thread'[r].pc = "done"
  BY Places DEF Reject
<1>10. ASSUME Retry(r)
       PROVE  /\ thread'[r].status = "outcome_unknown"
              /\ \/ thread'[r].pc = "known"
                 \/ Signs(r, Started, "known", "done")' /\ State \in Owned
  <2> DEFINE p == PriorOf(Act(r), x.gen)
             t == [x EXCEPT !.prior = p, !.status = "outcome_unknown", !.pc = "known"]
             u == [t EXCEPT !.pc = "sign", !.ok = "known", !.ko = "done", !.ev = Started]
  <2>1. Set(r, t) \/ (Set(r, u) /\ State \in Owned)
    BY <1>10 DEF Retry, Started
  <2>2. thread'[r] = t \/ (thread'[r] = u /\ State \in Owned)
    BY <2>1, Moves
  <2> HIDE DEF p
  <2>3. t.status = "outcome_unknown" /\ t.pc = "known"
    BY <1>1 DEF ThreadRecords
  <2>4. /\ u.status = "outcome_unknown" /\ u.pc = "sign" /\ u.ev = Started /\ u.ok = "known"
        /\ u.ko = "done"
    BY <1>1 DEF ThreadRecords
  <2> HIDE DEF t, u
  <2> QED BY <2>2, <2>3, <2>4 DEF Signs
<1> QED BY <1>2, <1>3, <1>4, <1>5, <1>6, <1>7, <1>8, <1>9, <1>10

(* ... of signing and appending an event, ...                              *)
LEMMA EventLeads ==
  ASSUME ThreadsGood, NEW r \in Requests
  PROVE  /\ Sign(r) => \/ thread'[r].pc = thread[r].ko
                       \/ /\ thread'[r] = [thread[r] EXCEPT !.pc = "append", !.seen = Len(events)]
                          /\ Admits(thread[r].ev.type, State)
         /\ AppendEvent(r) => \/ thread'[r].pc = thread[r].ko /\ UNCHANGED store
                              \/ /\ thread'[r].pc = thread[r].ok
                                 /\ thread[r].ok # "done" => thread'[r].status = thread[r].status
                                 /\ MayAppend(r, Act(r), thread[r].ev)
<1> DEFINE x == thread[r]
<1>1. x \in ThreadRecords
  BY DEF ThreadsGood
<1>2. Sign(r) => \/ thread'[r].pc = x.ko
                 \/ /\ thread'[r] = [x EXCEPT !.pc = "append", !.seen = Len(events)]
                    /\ Admits(x.ev.type, State)
  <2>1. Sign(r) => \/ To(r, x, x.ko)
                   \/ Set(r, [x EXCEPT !.pc = "append", !.seen = Len(events)]) /\ Admits(x.ev.type, State)
    BY DEF Sign
  <2>2. To(r, x, x.ko) => thread'[r].pc = x.ko
    BY <1>1, Places
  <2>3. Set(r, [x EXCEPT !.pc = "append", !.seen = Len(events)])
          => thread'[r] = [x EXCEPT !.pc = "append", !.seen = Len(events)]
    BY Moves
  <2> QED BY <2>1, <2>2, <2>3
<1>3. ASSUME AppendEvent(r)
      PROVE  \/ thread'[r].pc = x.ko /\ UNCHANGED store
             \/ /\ thread'[r].pc = x.ok
                /\ x.ok # "done" => thread'[r].status = x.status
                /\ MayAppend(r, Act(r), x.ev)
  <2> DEFINE t == [x EXCEPT !.seen = 0, !.ev = NoEvent]
  <2>1. \/ To(r, t, x.ok) /\ MayAppend(r, Act(r), x.ev)
        \/ To(r, t, x.ko) /\ UNCHANGED store
    BY <1>3 DEF AppendEvent
  <2>2. t \in ThreadRecords /\ t.status = x.status
    <3>1. NoEvent \in Planned
      BY DEF NoEvent, Planned, States
    <3> QED BY <1>1, <3>1 DEF ThreadRecords
  <2>3. ASSUME NEW pc, To(r, t, pc)
        PROVE  thread'[r].pc = pc /\ (pc # "done" => thread'[r].status = t.status)
    <3> HIDE DEF t
    <3>1. thread'[r].pc = pc
      BY <2>2, <2>3, Places
    <3>2. pc # "done" => thread'[r] = [t EXCEPT !.pc = pc]
      BY <2>3, Moves
    <3> QED BY <2>2, <3>1, <3>2 DEF ThreadRecords
  <2> HIDE DEF t
  <2> QED BY <2>1, <2>2, <2>3
<1> QED BY <1>2, <1>3

(* ... and of recording and recovering.                                    *)
LEMMA RecoverLeads ==
  ASSUME ThreadsGood, NEW r \in Requests
  PROVE  /\ Complete(r) => thread'[r].pc \in {"persist", "resolve", "done"}
         /\ Persist(r) => thread'[r].pc \in {"resolve", "done"}
         /\ Recover(r) => thread'[r].pc = "proof"
         /\ Proof(r) => thread'[r].pc = "known" /\ thread'[r].status \in Proofs(r)
         /\ Resolve(r) => thread'[r].pc = "done"
         /\ AskAgain(r) => thread'[r].pc = "ready"
<1> DEFINE x == thread[r]
<1>1. x \in ThreadRecords /\ Shape(r, x) /\ Idle \in ThreadRecords
  BY IdleIsGood DEF ThreadsGood, Shape
<1>2. ASSUME Complete(r) PROVE thread'[r].pc \in {"persist", "resolve", "done"}
  <2> DEFINE t == [x EXCEPT !.ev = NoEvent]
  <2>1. To(r, t, x.ok) \/ Done(r)
    BY <1>2 DEF Complete
  <2>2. t \in ThreadRecords
    <3>1. NoEvent \in Planned
      BY DEF NoEvent, Planned, States
    <3> QED BY <1>1, <3>1 DEF ThreadRecords
  <2>3. x.ok \in {"persist", "resolve", "done"}
    BY <1>1, <1>2 DEF Complete, At, Shape
  <2> HIDE DEF t
  <2> QED BY <2>1, <2>2, <2>3, Places
<1>3. Persist(r) => thread'[r].pc \in {"resolve", "done"}
  BY <1>1, Places DEF Persist
<1>4. ASSUME Recover(r) PROVE thread'[r].pc = "proof"
  <2>1. PICK g, s : Set(r, [Idle EXCEPT !.pc = "proof", !.gen = g, !.status = s])
    BY <1>4 DEF Recover
  <2>2. thread'[r] = [Idle EXCEPT !.pc = "proof", !.gen = g, !.status = s]
    BY <2>1, Moves
  <2> QED BY <1>1, <2>2 DEF ThreadRecords
<1>5. ASSUME Proof(r) PROVE thread'[r].pc = "known" /\ thread'[r].status \in Proofs(r)
  <2>1. PICK s, p : s \in Proofs(r) /\ Set(r, [x EXCEPT !.pc = "known", !.prior = p, !.status = s])
    BY <1>5 DEF Proof
  <2>2. thread'[r] = [x EXCEPT !.pc = "known", !.prior = p, !.status = s]
    BY <2>1, Moves
  <2> QED BY <1>1, <2>1, <2>2 DEF ThreadRecords
<1>6. Resolve(r) => thread'[r].pc = "done"
  BY Places DEF Resolve
<1>7. AskAgain(r) => thread'[r].pc = "ready"
  BY Moves DEF AskAgain, Idle
<1> QED BY <1>2, <1>3, <1>4, <1>5, <1>6, <1>7

(* What a known result leads to.                                           *)
KnownLeads(r) ==
    LET s == thread[r].status
        t == thread'[r] IN
    \/ t.pc = "done"
    \/ /\ t.pc = "complete" /\ t.ev.type = "none"
       /\ Mutates(r) => t.ev.verdict = s /\ s # "applied"
    \/ /\ t.pc = "sign" /\ t.ev.type \in VerdictTypes /\ t.ev.verdict = s /\ s \in Final
       /\ t.ok \in {"resolve", "done"}
       /\ t.ev.type = "mutation.applied" => s = "applied"
       /\ t.ev.type = "mutation.rejected" => s = "rejected"
    \/ /\ t.pc = "sign" /\ t.ev.type = "mutation.outcome_unknown" /\ t.ev.verdict = s
       /\ s = "outcome_unknown" /\ t.ok = "persist"
LEMMA KnownStep ==
  ASSUME ThreadsGood, NEW r \in Requests, Known(r)
  PROVE  KnownLeads(r)
<1> DEFINE x == thread[r]
           s == x.status
<1>1. x \in ThreadRecords /\ s \in Verdicts
  BY DEF ThreadsGood, Known, At, Shape
<1>2. ASSUME NEW ok, NEW st, NEW v,
             Set(r, [x EXCEPT !.pc = "complete", !.ok = ok, !.status = st,
                              !.ev = [NoEvent EXCEPT !.verdict = v]])
      PROVE  thread'[r].pc = "complete" /\ thread'[r].ev.type = "none" /\ thread'[r].ev.verdict = v
  <2>1. thread'[r] = [x EXCEPT !.pc = "complete", !.ok = ok, !.status = st,
                               !.ev = [NoEvent EXCEPT !.verdict = v]]
    BY <1>2, Moves
  <2> QED BY <1>1, <2>1 DEF ThreadRecords, NoEvent
<1>3. ASSUME NEW v, Record(r, v)
      PROVE  thread'[r].pc = "complete" /\ thread'[r].ev.type = "none" /\ thread'[r].ev.verdict = v
  <2>1. thread'[r] = [x EXCEPT !.pc = "complete", !.ok = Following(r),
                               !.ev = [NoEvent EXCEPT !.verdict = v]]
    BY <1>3, Moves DEF Record
  <2> QED BY <1>1, <2>1 DEF ThreadRecords, NoEvent
<1>4. CASE ~Mutates(r)
  <2>1. \/ Done(r)
        \/ \E v : Set(r, [x EXCEPT !.pc = "complete", !.ok = "done", !.status = "none",
                                   !.ev = [NoEvent EXCEPT !.verdict = v]])
    BY <1>4 DEF Known
  <2> QED BY <1>2, <1>4, <2>1, Places DEF KnownLeads
<1>5. CASE Mutates(r)
  <2>1. \/ Done(r)
        \/ \E after : Settle(r, "mutation.applied", after) /\ s = "applied"
        \/ \E after : Settle(r, "mutation.rejected", after) /\ s = "rejected"
        \/ s \in Verdicts \ {"applied"} /\ Record(r, s)
        \/ s = "outcome_unknown" /\ \E e : /\ Publish(r, e, "persist", "done")
                                           /\ e.type = "mutation.outcome_unknown" /\ e.verdict = s
    BY <1>1, <1>5 DEF Known, Verdicts, Final, Ambiguous
  <2>2. ASSUME NEW type, NEW after, Settle(r, type, after),
               \/ type = "mutation.applied" /\ s = "applied"
               \/ type = "mutation.rejected" /\ s = "rejected"
        PROVE  KnownLeads(r)
    <3>1. PICK e, ok : /\ Publish(r, e, ok, "done")
                       /\ e = [type |-> IF State = "outcome_unknown" THEN "recovery.resolved" ELSE type,
                               after |-> after, verdict |-> s]
                       /\ ok = Following(r)
      BY <2>2 DEF Settle
    <3>2. ok \in {"resolve", "done"}
      BY <2>2, <3>1 DEF Following, Ambiguous
    <3>3. /\ e.type \in VerdictTypes /\ e.verdict = s /\ s \in Final
          /\ e.type = "mutation.applied" => s = "applied"
          /\ e.type = "mutation.rejected" => s = "rejected"
      BY <2>2, <3>1 DEF VerdictTypes, Final
    <3>4. Signs(r, e, ok, "done")'
      BY <3>1, PublishLeads
    <3> QED BY <2>2, <3>2, <3>3, <3>4 DEF KnownLeads, Signs
  <2>3. ASSUME NEW e, Publish(r, e, "persist", "done"), e.type = "mutation.outcome_unknown",
               e.verdict = s, s = "outcome_unknown"
        PROVE  KnownLeads(r)
    <3>1. Signs(r, e, "persist", "done")'
      BY <2>3, PublishLeads
    <3> QED BY <2>3, <3>1 DEF KnownLeads, Signs
  <2>4. ASSUME Record(r, s), s # "applied" PROVE KnownLeads(r)
    BY <1>3, <2>4 DEF KnownLeads
  <2>5. Done(r) => KnownLeads(r)
    BY Places DEF KnownLeads
  <2> QED BY <2>1, <2>2, <2>3, <2>4, <2>5
<1> QED BY <1>4, <1>5

(* Only a confirmed request comes to be passed.                            *)
LEMMA PassedStep ==
  ASSUME AlwaysInv, NEW r \in Requests, Step(r), Works(r), Passed(r)'
  PROVE  \/ Passed(r)
         \/ Prepare(r) /\ Confirmed(Act(r)) /\ Goto(r, "own")
            /\ conf' = IF Act(r) \in world.asks THEN Act(r) ELSE conf
<1> DEFINE x == thread[r]
<1>1. ThreadsGood /\ Shape(r, x) /\ x \in ThreadRecords
  BY DEF AlwaysInv, ThreadsGood
<1>2. /\ thread'[r].pc \in {"own", "mark", "run"} \cup EventPcs
      /\ thread'[r].pc \in EventPcs => thread'[r].ok = "run"
  BY DEF Passed, At, EventPcs
<1>3. CASE Own(r) \/ Mark(r) \/ RunAct(r)
  BY <1>3 DEF Own, Mark, RunAct, Passed, At
<1>4. CASE Prepare(r)
  <2>1. Goto(r, "own") \/ Goto(r, "reject") \/ Done(r)
    BY <1>4 DEF Prepare
  <2>2. Goto(r, "own") /\ ~Goto(r, "reject") /\ ~Done(r)
    BY <1>1, <1>2, <2>1, Places DEF EventPcs
  <2> QED BY <1>4, <2>2 DEF Prepare
<1>5. CASE Sign(r) \/ AppendEvent(r)
  <2>1. \/ thread'[r].ok = x.ok /\ thread'[r].pc = "append"
        \/ thread'[r].pc \in {x.ok, x.ko}
    <3>1. CASE Sign(r)
      <4>1. thread'[r] = [x EXCEPT !.pc = "append", !.seen = Len(events)]
              => thread'[r].ok = x.ok /\ thread'[r].pc = "append"
        BY <1>1 DEF ThreadRecords
      <4> QED BY <1>1, <3>1, <4>1, EventLeads DEF Sign, At, EventPcs
    <3>2. CASE AppendEvent(r)
      BY <1>1, <3>2, EventLeads
    <3> QED BY <1>5, <3>1, <3>2
  <2>2. x.pc \in EventPcs
    BY <1>5 DEF Sign, AppendEvent, At, EventPcs
  <2>3. x.ok \in {"run", "known", "resolve", "done", "persist"} /\ x.ko \in {"reject", "done"}
        /\ (x.ko = "reject" => x.ok = "run")
    BY <1>1, <2>2 DEF Shape, Starting, Judging, Doubting
  <2>4. x.ok = "run"
    BY <1>2, <2>1, <2>3 DEF EventPcs
  <2> QED BY <2>2, <2>4 DEF Passed, At
<1>6. CASE \/ Snapshot(r) \/ Ensure(r) \/ FindLease(r) \/ IssueLease(r) \/ PublishSnapshot(r)
  BY <1>1, <1>6 DEF Snapshot, Ensure, FindLease, IssueLease, PublishSnapshot, At, Shape, Works,
                    WorkPcs, EventPcs
<1>7. CASE Verify(r) \/ Reserve(r) \/ Answer(r) \/ Reject(r)
  BY <1>1, <1>2, <1>7, ExecuteLeads DEF EventPcs
<1>8. CASE Retry(r)
  BY <1>1, <1>2, <1>8, ExecuteLeads DEF EventPcs, Signs
<1>9. CASE \/ Complete(r) \/ Persist(r) \/ Recover(r) \/ Proof(r) \/ Resolve(r) \/ AskAgain(r)
  BY <1>1, <1>2, <1>9, RecoverLeads DEF EventPcs
<1>10. CASE Known(r)
  BY <1>1, <1>2, <1>10, KnownStep DEF KnownLeads, EventPcs
<1> QED BY <1>3, <1>4, <1>5, <1>6, <1>7, <1>8, <1>9, <1>10 DEF Step

(* And only a signed event comes to be appended.                           *)
LEMMA SignedStep ==
  ASSUME AlwaysInv, [ControlNext]_vars
  PROVE  SignedGood'
<1>1. /\ ThreadsGood /\ ChainGood /\ SignedGood /\ UNCHANGED world /\ Len(events) \in Nat
      /\ Requests' = Requests
  BY StoreStep DEF AlwaysInv, ChainGood, Requests
<1>2. /\ Len(events') \in Nat /\ Len(events') >= Len(events)
      /\ \A n \in 0 .. Len(events) : StateAt(n)' = StateAt(n)
  <2>1. CASE UNCHANGED events
    BY <1>1, <2>1 DEF StateAt
  <2>2. ASSUME NEW r \in Requests, Extends(r)
        PROVE  /\ Len(events') \in Nat /\ Len(events') >= Len(events)
               /\ \A n \in 0 .. Len(events) : StateAt(n)' = StateAt(n)
    <3>1. events' = Append(events, Appending(r))
      BY <2>2, AppendingIsGood
    <3> QED BY <1>1, <3>1, Appended
  <2> QED BY <2>1, <2>2, ChainGrows
<1>3. ASSUME NEW r \in Requests, thread'[r].pc = "append", NEW n, n = thread'[r].seen
      PROVE  n \in 0 .. Len(events') /\ Admits(thread'[r].ev.type, StateAt(n)')
  <2> DEFINE x == thread[r]
  <2>1. CASE thread'[r] = x
    <3>1. n \in 0 .. Len(events) /\ Admits(x.ev.type, StateAt(n))
      BY <1>1, <1>3, <2>1 DEF SignedGood, At
    <3>2. StateAt(n)' = StateAt(n) /\ n \in 0 .. Len(events')
      BY <1>1, <1>2, <3>1
    <3> QED BY <2>1, <3>1, <3>2
  <2>2. CASE thread'[r] # x
    <3>1. Shape(r, x) /\ x \in ThreadRecords
      BY <1>1 DEF ThreadsGood
    <3>2. Step(r)
      <4>1. \A q \in Requests : Step(q) => q = r
        BY <1>1, <2>2, OthersStay
      <4>2. Crash => thread'[r] = [Idle EXCEPT !.pc = "done"]
        BY <2>2 DEF Crash
      <4>3. [Idle EXCEPT !.pc = "done"].pc = "done"
        BY DEF Idle
      <4> QED BY <1>3, <2>2, <4>1, <4>2, <4>3 DEF ControlNext, vars, Decide, Refresh, Expire
    <3>3. CASE Sign(r)
      <4>1. x.ko # "append"
        BY <3>1, <3>3 DEF Sign, At, Shape, EventPcs, Owning, Starting, Judging, Doubting
      <4>2. thread'[r] = [x EXCEPT !.pc = "append", !.seen = Len(events)] /\ Admits(x.ev.type, State)
        BY <1>1, <1>3, <3>3, <4>1, EventLeads
      <4>3. thread'[r].ev = x.ev /\ thread'[r].seen = Len(events)
        BY <3>1, <4>2 DEF ThreadRecords
      <4>4. UNCHANGED events
        BY <3>3 DEF Sign, store
      <4>5. n = Len(events) /\ n \in 0 .. Len(events) /\ Len(events') = Len(events)
        BY <1>1, <1>3, <4>3, <4>4
      <4>6. StateAt(n)' = StateAt(n) /\ StateAt(n) = State
        BY <1>2, <4>5 DEF State
      <4> QED BY <4>2, <4>3, <4>5, <4>6
    <3>4. CASE AppendEvent(r)
      <4>1. x.ko # "append" /\ x.ok # "append"
        BY <3>1, <3>4 DEF AppendEvent, At, Shape, EventPcs, Owning, Starting, Judging, Doubting
      <4> QED BY <1>1, <1>3, <3>4, <4>1, EventLeads
    <3>5. CASE Snapshot(r) \/ Ensure(r) \/ FindLease(r) \/ IssueLease(r) \/ PublishSnapshot(r)
      <4>1. ASSUME NEW g, Set(r, [Idle EXCEPT !.pc = "ensure", !.gen = g]) PROVE FALSE
        <5>1. thread'[r] = [Idle EXCEPT !.pc = "ensure", !.gen = g]
          BY <1>1, <4>1, Moves
        <5>2. Idle \in ThreadRecords
          BY IdleIsGood DEF Shape
        <5> QED BY <1>3, <5>1, <5>2 DEF ThreadRecords
      <4>2. ASSUME NEW e, NEW ok, Publish(r, e, ok, "done") PROVE FALSE
        BY <1>1, <1>3, <4>2, PublishLeads DEF Signs
      <4>3. \/ \E pc \in {"lease", "publish"} : Goto(r, pc)
            \/ Done(r)
            \/ \E pc \in {"issue", "publish", "done"} : To(r, x, pc)
        BY <3>5, <4>1, <4>2 DEF Snapshot, Ensure, FindLease, IssueLease, PublishSnapshot
      <4> QED BY <1>1, <1>3, <3>1, <4>3, Places
    <3>6. CASE \/ Verify(r) \/ Reserve(r) \/ Prepare(r) \/ Own(r) \/ Mark(r) \/ RunAct(r)
               \/ Answer(r) \/ Reject(r) \/ Retry(r)
      BY <1>1, <1>3, <3>6, ExecuteLeads DEF Signs
    <3>7. CASE \/ Complete(r) \/ Persist(r) \/ Recover(r) \/ Proof(r) \/ Resolve(r) \/ AskAgain(r)
      BY <1>1, <1>3, <3>7, RecoverLeads
    <3>8. CASE Known(r)
      BY <1>1, <1>3, <3>8, KnownStep DEF KnownLeads
    <3> QED BY <3>2, <3>3, <3>4, <3>5, <3>6, <3>7, <3>8 DEF Step
  <2> QED BY <2>1, <2>2
<1>4. ASSUME NEW r \in Requests, thread'[r].pc = "append"
      PROVE  /\ thread'[r].seen \in 0 .. Len(events')
             /\ Admits(thread'[r].ev.type, StateAt(thread[r].seen)')
  <2>1. PICK n : n = thread'[r].seen
    OBVIOUS
  <2>2. n \in 0 .. Len(events') /\ Admits(thread'[r].ev.type, StateAt(n)')
    BY <1>3, <1>4, <2>1
  <2> QED BY <2>1, <2>2 DEF StateAt
<1> QED BY <1>1, <1>4 DEF SignedGood, At

(* How the confirmation changes: it is issued when there is none, revoked  *)
(* before it is used, and used by one action.                              *)
LEMMA ConfirmationMoves ==
  ASSUME AlwaysInv, [ControlNext]_vars
  PROVE  \/ conf' = conf
         \/ conf \in {"none", "issued"} /\ conf' \in {"issued", "revoked"}
         \/ \E r \in Requests :
               /\ Prepare(r) /\ At(r) = "prepare" /\ Act(r) \in world.asks
               /\ conf \in {"issued", Act(r)} /\ conf' = Act(r)
<1>1. \A r \in Requests : Reserve(r) => conf' = conf \/ (conf = "none" /\ conf' = "issued")
  BY DEF Reserve, Admitted
<1>2. \A r \in Requests : AppendEvent(r) => conf' = conf \/ (conf = "issued" /\ conf' = "revoked")
  BY DEF AppendEvent, Extend, store
<1>3. ASSUME NEW r \in Requests, Prepare(r)
      PROVE  \/ conf' = conf
             \/ /\ At(r) = "prepare" /\ Act(r) \in world.asks
                /\ conf \in {"issued", Act(r)} /\ conf' = Act(r)
  BY <1>3 DEF Prepare, Confirmed
<1>4. CASE ~ \E r \in Requests : Reserve(r) \/ AppendEvent(r) \/ Prepare(r)
  BY <1>4, WhoTouchesWhat
<1> QED BY <1>1, <1>2, <1>3, <1>4

(* What the provider is asked is asked by a request that is to.            *)
LEMMA RunsMove ==
  ASSUME AlwaysInv, [ControlNext]_vars
  PROVE  \/ runs' = runs
         \/ \E r \in Requests : RunAct(r) /\ At(r) = "run" /\ Works(r) /\ Act(r) \in Acts
<1>1. \/ runs' = runs \/ \E r \in Requests : RunAct(r)
  BY WhoTouchesWhat
<1>2. ASSUME NEW r \in Requests, RunAct(r) PROVE At(r) = "run" /\ Works(r) /\ Act(r) \in Acts
  <2>1. At(r) = "run"
    BY <1>2 DEF RunAct
  <2>2. At(r) \in WorkPcs \ OwnPcs
    BY <2>1 DEF WorkPcs, OwnPcs
  <2> QED BY <2>1, <2>2, WorkersWork DEF AlwaysInv
<1> QED BY <1>1, <1>2

(* One action consumes the confirmation.                                   *)
LEMMA ConfirmationStep ==
  ASSUME AlwaysInv, [ControlNext]_vars
  PROVE  ConfirmationGood'
<1>1. /\ ThreadsGood /\ ConfirmationGood /\ UNCHANGED world /\ world \in Worlds
      /\ world.asks \subseteq Acts /\ Acts \cap {"none", "issued", "revoked"} = {}
      /\ runs \in [Acts -> 0 .. 2]
  BY StoreStep, ControlAssumption DEF AlwaysInv, ControlAssumption, StoreGood
<1>2. \A r \in Requests : Works(r) => Act(r) \in Acts
  BY <1>1, RequestsAreGood
<1>3. Requests' = Requests /\ \A r : (Works(r)' <=> Works(r)) /\ Act(r)' = Act(r)
  BY <1>1 DEF Requests, Works, Act, Ask
(* Whoever had it has it still.                                            *)
<1>4. ASSUME NEW a \in world.asks, conf = a PROVE conf' = a
  BY <1>1, <1>4, ConfirmationMoves
<1>5. ASSUME NEW a \in world.asks, runs'[a] > 0 PROVE conf' = a
  <2>1. CASE runs' = runs
    BY <1>1, <1>4, <1>5, <2>1 DEF ConfirmationGood
  <2>2. ASSUME NEW r \in Requests, RunAct(r), At(r) = "run", Works(r), Act(r) \in Acts
        PROVE  conf' = a
    <3>1. a # Act(r) => runs'[a] = runs[a]
      BY <1>1, <2>2 DEF RunAct
    <3>2. a = Act(r) => conf = a
      BY <1>1, <2>2 DEF ConfirmationGood, Passed
    <3> QED BY <1>1, <1>4, <1>5, <3>1, <3>2 DEF ConfirmationGood
  <2> QED BY <2>1, <2>2, RunsMove
<1>6. ASSUME NEW r \in Requests, Works(r), Act(r) \in world.asks, Passed(r)' PROVE conf' = Act(r)
  <2>1. CASE Passed(r)
    BY <1>1, <1>4, <1>6, <2>1 DEF ConfirmationGood
  <2>2. CASE Step(r) /\ ~Passed(r)
    BY <1>6, <2>2, PassedStep
  <2>3. CASE ~Step(r) /\ ~Passed(r)
    <3>1. thread'[r] = thread[r] \/ thread'[r] = [Idle EXCEPT !.pc = "done"]
      <4>1. \A q \in Requests : Step(q) => thread'[r] = thread[r]
        BY <1>1, <2>3, OthersStay
      <4>2. Crash => thread'[r] \in {thread[r], [Idle EXCEPT !.pc = "done"]}
        BY DEF Crash
      <4> QED BY <4>1, <4>2 DEF ControlNext, vars, Decide, Refresh, Expire
    <3>2. [Idle EXCEPT !.pc = "done"].pc = "done"
      BY DEF Idle
    <3> QED BY <1>6, <2>3, <3>1, <3>2 DEF Passed, At, EventPcs
  <2> QED BY <2>1, <2>2, <2>3
<1> QED BY <1>1, <1>3, <1>5, <1>6 DEF ConfirmationGood

------------------------------------------------------------------------------
(* What holds whatever requests come.                                      *)

LEMMA AlwaysInit ==
  ASSUME ControlInit
  PROVE  AlwaysInv
<1>1. /\ world \in Worlds /\ gen = 1 /\ events = <<>> /\ leases = {} /\ conf = "none"
      /\ thread = [r \in Requests |-> Idle] /\ runs = [a \in Acts |-> 0]
      /\ MaxGen \in Nat \ {0} /\ world.asks \subseteq Acts
  BY ControlAssumption DEF ControlInit, ControlAssumption, Requests
<1>2. StoreGood
  <2>1. acts = [a \in Acts |-> [state |-> "new", snap |-> 0, gen |-> 0]]
        /\ handles = [a \in Acts |-> "none"] /\ snaps = [r \in Requests |-> 0]
        /\ closed = FALSE /\ crashed = FALSE /\ fate = [a \in Acts |-> "none"]
    BY DEF ControlInit, Requests
  <2>2. 0 \in 0 .. MaxGen /\ 1 \in 1 .. MaxGen /\ "new" \in ActStates
    BY <1>1 DEF ActStates
  <2>3. acts \in [Acts -> [state : ActStates, snap : {0} \cup Requests, gen : 0 .. MaxGen]]
    BY <2>1, <2>2
  <2>4. handles \in [Acts -> {"none", "pending", "resolved", "expired"}]
        /\ snaps \in [Requests -> 0 .. MaxGen] /\ fate \in [Acts -> {"none", "working"} \cup Final]
    BY <1>1, <2>1, <2>2
  <2>5. runs \in [Acts -> 0 .. 2]
    BY <1>1
  <2>6. closed \in BOOLEAN /\ crashed \in BOOLEAN
    BY <2>1
  <2>7. gen \in 1 .. MaxGen /\ leases \subseteq [phone : Phones, gen : 1 .. MaxGen]
    BY <1>1, <2>2
  <2>8. conf \in {"none", "issued", "revoked"} \cup Acts
    BY <1>1
  <2> QED BY <2>3, <2>4, <2>5, <2>6, <2>7, <2>8 DEF StoreGood
<1>7. ProviderGood
  BY DEF ControlInit, ProviderGood
<1>3. ThreadsGood
  BY <1>1, IdleIsGood DEF ThreadsGood, Shape
<1>4. ChainGood /\ LeasesGood
  BY <1>1 DEF ChainGood, LeasesGood
<1>5. ConfirmationGood
  <2>1. Idle.pc = "ready"
    BY DEF Idle
  <2> QED BY <1>1, <2>1 DEF ConfirmationGood, Passed, At, EventPcs
<1>6. SignedGood
  BY <1>1 DEF SignedGood, At, Idle
<1> QED BY <1>1, <1>2, <1>3, <1>4, <1>5, <1>6, <1>7 DEF AlwaysInv

LEMMA AlwaysStep ==
  ASSUME AlwaysInv, [ControlNext]_vars
  PROVE  AlwaysInv'
<1>1. UNCHANGED world /\ world \in Worlds
  BY StoreStep DEF AlwaysInv
<1> QED BY <1>1, StoreStep, ProviderStep, ThreadsStep, ChainStep, SignedStep, LeasesStep, ConfirmationStep
     DEF AlwaysInv

LEMMA AlwaysHolds == ControlSpec => []AlwaysInv
<1>1. ControlInit => AlwaysInv
  BY AlwaysInit
<1>2. AlwaysInv /\ [ControlNext]_vars => AlwaysInv'
  BY AlwaysStep
<1> QED BY <1>1, <1>2, PTL DEF ControlSpec, ControlSafety

(* Whatever requests, faults and crashes come, the rows, the chain and the *)
(* leases of the store stay of their kinds, and a verdict leaves the       *)
(* session owned, or ended (ManagedProviderSessionStore).                  *)
THEOREM ControlKeepsItsTypes == ControlSpec => []ControlTypeOK
<1>1. AlwaysInv => ControlTypeOK
  <2> SUFFICES ASSUME AlwaysInv PROVE ControlTypeOK
    OBVIOUS
  <2>1. State \in States
    BY StateIsState DEF AlwaysInv
  <2>2. \A a \in Acts : acts[a] \in [state : ActStates, snap : {0} \cup Requests, gen : 0 .. MaxGen]
    BY DEF AlwaysInv, StoreGood
  <2> QED BY <2>1, <2>2
          DEF AlwaysInv, StoreGood, ProviderGood, ChainGood, ControlTypeOK, ActStates, Verdicts
<1> QED BY <1>1, AlwaysHolds, PTL

(* At most one element.                                                    *)
LEMMA AtMostOne ==
  ASSUME NEW S, \A x, y \in S : x = y
  PROVE  IsFiniteSet(S) /\ Cardinality(S) <= 1
<1>1. CASE S = {}
  BY <1>1, FS_EmptySet
<1>2. CASE S # {}
  <2>1. PICK x \in S : TRUE
    BY <1>2
  <2>2. S = {x}
    BY <2>1
  <2>3. IsFiniteSet({x}) /\ Cardinality({x}) = 1
    BY FS_Singleton
  <2> QED BY <2>2, <2>3
<1> QED BY <1>1, <1>2

(* One phone at a time holds the lease, and nobody when the session has    *)
(* ended, whoever asks for it and whatever expires (issue_protocol_lease,  *)
(* _lease_for_scope, append_protocol_event).                               *)
THEOREM OnePhoneHoldsTheLease == ControlSpec => []OneHolder
<1>1. AlwaysInv => OneHolder
  BY AtMostOne DEF AlwaysInv, LeasesGood, OneHolder
<1> QED BY <1>1, AlwaysHolds, PTL

(* One confirmation lets one action through to the provider, whoever       *)
(* carries it (consume_protocol_confirmation).                             *)
THEOREM OneActionIsConfirmed == ControlSpec => []OneConfirmed
<1>1. AlwaysInv => OneConfirmed
  <2> SUFFICES ASSUME AlwaysInv PROVE OneConfirmed
    OBVIOUS
  <2> DEFINE S == {a \in world.asks : runs[a] > 0}
  <2>1. \A a \in S : conf = a
    BY DEF AlwaysInv, ConfirmationGood
  <2>2. Cardinality(S) <= 1
    <3> HIDE DEF S
    <3> QED BY <2>1, AtMostOne
  <2> QED BY <2>2 DEF OneConfirmed
<1> QED BY <1>1, AlwaysHolds, PTL

------------------------------------------------------------------------------
(* The ledger and the chain, step by step.                                 *)

(* The plan does not change.                                               *)
LEMMA SamePlan ==
  ASSUME UNCHANGED world
  PROVE  /\ Requests' = Requests /\ Mutations' = Mutations
         /\ \A r : /\ Act(r)' = Act(r) /\ Ask(r)' = Ask(r)
                   /\ (Works(r)' <=> Works(r)) /\ (Mutates(r)' <=> Mutates(r))
         /\ Faulty("contract")' <=> Faulty("contract")
  BY DEF Requests, Mutations, Act, Ask, Works, Mutates, Faulty

(* How an event that is appended changes what the events say.              *)
LEMMA EventsSay ==
  ASSUME ChainGood, NEW f, events' = Append(events, f), NEW a
  PROVE  /\ \A ty : Says(a, ty)' <=> Says(a, ty) \/ (f.act = a /\ f.type = ty)
         /\ HasStart(a)' <=> HasStart(a) \/ (f.act = a /\ f.type = "mutation.started")
         /\ HasVerdict(a)' <=> HasVerdict(a) \/ (f.act = a /\ f.type \in VerdictTypes)
<1>1. PICK n \in Nat : n = Len(events)
  BY DEF ChainGood
<1>2. /\ DOMAIN events = 1 .. n /\ DOMAIN events' = 1 .. n + 1
      /\ \A i \in 1 .. n : events'[i] = events[i]
      /\ events'[n + 1] = f
  BY <1>1, Appended
<1>3. \A i \in 1 .. n + 1 : i \in 1 .. n \/ i = n + 1
  OBVIOUS
<1>4. \A i \in 1 .. n : i \in 1 .. n + 1
  OBVIOUS
<1>5. n + 1 \in 1 .. n + 1
  OBVIOUS
<1>6. ASSUME NEW ty PROVE Says(a, ty)' <=> Says(a, ty) \/ (f.act = a /\ f.type = ty)
  BY <1>2, <1>3, <1>4, <1>5 DEF Says
<1> QED BY <1>6 DEF HasStart, HasVerdict

LEMMA EventsSayNothingNew ==
  ASSUME UNCHANGED events, NEW a
  PROVE  /\ \A ty : Says(a, ty)' <=> Says(a, ty)
         /\ (HasStart(a)' <=> HasStart(a)) /\ (HasVerdict(a)' <=> HasVerdict(a))
         /\ State' = State /\ (JudgedTwice' <=> JudgedTwice) /\ (StartsGood' <=> StartsGood)
  BY DEF Says, HasStart, HasVerdict, State, StateAt, JudgedTwice, JudgesIt, StartsGood, Answered,
         LastStart, IsStart

(* What a row and its events say stays what it was.                        *)
LedgerTypes == VerdictTypes \cup {"mutation.started"}
SameRow(a) ==
    /\ acts'[a].state = acts[a].state /\ (\A ty \in LedgerTypes : Says(a, ty)' <=> Says(a, ty))
    /\ runs'[a] = runs[a] /\ fate'[a] = fate[a]

(* A request's step changes the row of its own action only.                *)
LEMMA OtherRows ==
  ASSUME AlwaysInv, NEW r \in Requests, Step(r), NEW b \in Mutations, ~OnIt(r, b)
  PROVE  SameRow(b)
<1>1. ThreadsGood /\ ChainGood /\ world \in Worlds /\ StoreGood /\ b \in Acts
      /\ (Works(r) => b # Act(r))
  BY DEF AlwaysInv, Mutations, OnIt
<1>2. ASSUME UNCHANGED <<events, runs, fate>>, acts'[b].state = acts[b].state
      PROVE  SameRow(b)
  BY <1>2, EventsSayNothingNew DEF SameRow
<1>3. CASE AppendEvent(r)
  <2>1. UNCHANGED <<runs, fate>>
    BY <1>3 DEF AppendEvent, provider
  <2>2. CASE UNCHANGED store
    BY <1>2, <2>1, <2>2 DEF store
  <2>3. CASE Extends(r)
    <3> DEFINE e == thread[r].ev
               f == Appending(r)
    <3>1. events' = Append(events, f) /\ f.act = Act(r) /\ f.type = e.type
      BY <2>3, AppendingIsGood DEF Appending
    <3>2. Act(r) # b \/ (e.verdict = "none" /\ e.type \in OwningTypes)
      BY <1>1, <2>3 DEF ThreadsGood, Shape, Extends, At, EventPcs, Owning
    <3>3. acts'[b].state = acts[b].state
      BY <2>3, <3>2 DEF Extends, Extend
    <3> HIDE DEF f
    <3>4. \A ty \in LedgerTypes : ~(f.act = b /\ f.type = ty)
      BY <3>1, <3>2 DEF LedgerTypes, OwningTypes, VerdictTypes
    <3>5. \A ty \in LedgerTypes : Says(b, ty)' <=> Says(b, ty)
      BY <1>1, <3>1, <3>4, EventsSay
    <3> QED BY <2>1, <3>3, <3>5 DEF SameRow
  <2> QED BY <1>3, <2>2, <2>3 DEF AppendEvent, Extends, store
<1>4. CASE RunAct(r)
  <2>1. b # Act(r)
    BY <1>1, <1>4, WorkersWork DEF RunAct, WorkPcs, OwnPcs
  <2>2. UNCHANGED <<events, acts>> /\ runs'[b] = runs[b] /\ fate'[b] = fate[b]
    BY <1>1, <1>4, <2>1 DEF RunAct, store, StoreGood
  <2> QED BY <2>2, EventsSayNothingNew DEF SameRow
<1>5. CASE Reserve(r) \/ Mark(r) \/ Reject(r) \/ Complete(r)
  <2>1. b # Act(r)
    BY <1>1, <1>5, WorkersWork DEF Reserve, Mark, Reject, Complete, WorkPcs, OwnPcs
  <2>2. acts'[b] = acts[b]
    <3>1. acts' = acts \/ \E v : acts' = [acts EXCEPT ![Act(r)] = v]
      <4>1. CASE Reserve(r)
        BY <4>1 DEF Reserve
      <4>2. \A v : [acts EXCEPT ![Act(r)].state = v]
                    = [acts EXCEPT ![Act(r)] = [acts[Act(r)] EXCEPT !.state = v]]
        OBVIOUS
      <4>3. acts' = acts \/ \E v : acts' = [acts EXCEPT ![Act(r)].state = v] \/ Reserve(r)
        BY <1>5 DEF Mark, Reject, Complete
      <4> QED BY <4>1, <4>2, <4>3
    <3> QED BY <1>1, <2>1, <3>1 DEF StoreGood
  <2> QED BY <1>2, <1>5, <2>2 DEF Reserve, Mark, Reject, Complete, provider
<1>6. CASE ~(AppendEvent(r) \/ RunAct(r) \/ Reserve(r) \/ Mark(r) \/ Reject(r) \/ Complete(r))
  <2>1. UNCHANGED <<events, acts, runs, fate>>
    BY <1>6 DEF Step, store, provider, Snapshot, Ensure, FindLease, IssueLease, PublishSnapshot, Sign,
                Verify, Prepare, Own, Answer, Retry, Known, Persist, Recover, Proof, Resolve, AskAgain
  <2> QED BY <1>2, <2>1
<1> QED BY <1>3, <1>4, <1>5, <1>6

(* What is known of the mutation a request works on.                       *)
LEMMA AtItsRow ==
  ASSUME LedgerInv, NEW r \in Requests, Works(r), Mutates(r), NEW a, a = Act(r)
  PROVE  /\ ThreadsGood /\ StoreGood /\ ProviderGood /\ ChainGood /\ world \in Worlds
         /\ Shape(r, thread[r]) /\ thread[r] \in ThreadRecords
         /\ a \in Acts /\ a \in Mutations
         /\ acts[a] \in [state : ActStates, snap : {0} \cup Requests, gen : 0 .. MaxGen]
         /\ acts[a].state \in ActStates /\ runs[a] \in 0 .. 2
         /\ fate[a] \in {"none", "working"} \cup Final
         /\ KnowsAt(thread[r], acts[a].state, HasStart(a), runs[a], fate[a])
         /\ RowGood(a) /\ Executing(r)
         /\ \A v : acts' = [acts EXCEPT ![a].state = v] => acts'[a].state = v
<1>1. ThreadsGood /\ StoreGood /\ ProviderGood /\ ChainGood /\ world \in Worlds
      /\ Shape(r, thread[r]) /\ thread[r] \in ThreadRecords
  BY DEF LedgerInv, AlwaysInv, ThreadsGood
<1>2. a \in Acts /\ a \in Mutations
  BY <1>1, RequestsAreGood DEF Mutations, Mutates
<1>3. acts[a] \in [state : ActStates, snap : {0} \cup Requests, gen : 0 .. MaxGen]
      /\ runs[a] \in 0 .. 2 /\ fate[a] \in {"none", "working"} \cup Final
  BY <1>1, <1>2 DEF StoreGood
<1>4. \A v : acts' = [acts EXCEPT ![a].state = v] => acts'[a].state = v
  BY <1>1, <1>2, <1>3 DEF StoreGood
<1>5. Knows(r) /\ RowGood(a) /\ Executing(r)
  BY <1>2 DEF LedgerInv, RowsGood
<1> QED BY <1>1, <1>2, <1>3, <1>4, <1>5 DEF Knows

(* The states of a row, by the step that changes it.                       *)
Reserved(r, s, z) == Reserve(r) /\ s = "new" /\ z = "reserved"
Marked(r, s, z) == /\ Mark(r) /\ s \in {"reserved", "dispatch_started"} /\ z = "dispatch_started"
Refused(r, s, z) == Reject(r) /\ At(r) = "reject" /\ z = "rejected" /\ z \in MayBecome(s)
Given(r, s, z) == /\ (Complete(r) /\ At(r) = "complete") \/ Extends(r)
                  /\ z = thread[r].ev.verdict /\ z \in Verdicts /\ z \in MayBecome(s)
LEMMA StateMoves ==
  ASSUME LedgerInv, NEW r \in Requests, Step(r), Works(r), Mutates(r), NEW a, a = Act(r)
  PROVE  LET s == acts[a].state
             z == acts'[a].state
         IN z = s \/ Reserved(r, s, z) \/ Marked(r, s, z) \/ Refused(r, s, z) \/ Given(r, s, z)
<1> DEFINE s == acts[a].state
           z == acts'[a].state
<1>1. /\ StoreGood /\ Shape(r, thread[r]) /\ thread[r] \in ThreadRecords /\ a \in Acts
      /\ \A v : acts' = [acts EXCEPT ![a].state = v] => acts'[a].state = v
  BY AtItsRow
<1>2. CASE Reserve(r)
  <2>1. \/ UNCHANGED acts
        \/ s = "new"
           /\ acts' = [acts EXCEPT ![a] = [state |-> "reserved", snap |-> Ask(r).via, gen |-> gen]]
    BY <1>2 DEF Reserve
  <2>2. acts' = [acts EXCEPT ![a] = [state |-> "reserved", snap |-> Ask(r).via, gen |-> gen]]
           => z = "reserved"
    BY <1>1 DEF StoreGood
  <2> QED BY <1>2, <2>1, <2>2 DEF Reserved
<1>3. CASE Mark(r)
  BY <1>1, <1>3 DEF Mark, Marked
<1>4. CASE Reject(r)
  BY <1>1, <1>4 DEF Reject, Refused
<1>5. CASE Complete(r)
  <2>1. At(r) = "complete" /\ thread[r].ev.verdict \in Verdicts
    BY <1>1, <1>5 DEF Complete, At, Shape
  <2> QED BY <1>1, <1>5, <2>1 DEF Complete, Given
<1>6. CASE AppendEvent(r)
  <2>1. UNCHANGED acts
        \/ /\ Extends(r) /\ thread[r].ev.verdict # "none"
           /\ acts' = [acts EXCEPT ![a].state = thread[r].ev.verdict]
           /\ thread[r].ev.verdict \in MayBecome(s)
    BY <1>6 DEF AppendEvent, Extends, Extend, MayAppend, store
  <2>2. thread[r].ev.verdict \in Verdicts \cup {"none"}
    BY <1>1 DEF ThreadRecords, Planned
  <2> QED BY <1>1, <2>1, <2>2 DEF Given
<1>7. ~(Reserve(r) \/ Mark(r) \/ Reject(r) \/ Complete(r) \/ AppendEvent(r)) => UNCHANGED acts
  BY DEF Step, store, Snapshot, Ensure, FindLease, IssueLease, PublishSnapshot, Sign, Verify, Prepare,
         Own, RunAct, Answer, Retry, Known, Persist, Recover, Proof, Resolve, AskAgain
<1> QED BY <1>2, <1>3, <1>4, <1>5, <1>6, <1>7

(* Where a mutation has got to, it does not go back.                       *)
Grows(a) ==
    /\ acts[a].state # "new" => acts'[a].state # "new"
    /\ acts[a].state \notin {"new", "reserved"} => acts'[a].state \notin {"new", "reserved"}
    /\ acts[a].state \in Final => acts'[a].state = acts[a].state
    /\ HasStart(a) => HasStart(a)'
    /\ HasVerdict(a) => HasVerdict(a)'
    /\ runs[a] > 0 => runs'[a] > 0
    /\ fate[a] \in Final => fate'[a] = fate[a]
LEMMA SameGrows ==
  ASSUME NEW a, SameRow(a)
  PROVE  /\ Grows(a) /\ (HasStart(a)' <=> HasStart(a)) /\ (HasVerdict(a)' <=> HasVerdict(a))
         /\ a \in Mutations /\ RowGood(a) => RowGood(a)'
<1>1. (HasStart(a)' <=> HasStart(a)) /\ (HasVerdict(a)' <=> HasVerdict(a))
  BY DEF SameRow, LedgerTypes, HasStart, HasVerdict
<1>2. /\ Says(a, "mutation.applied")' <=> Says(a, "mutation.applied")
      /\ Says(a, "mutation.rejected")' <=> Says(a, "mutation.rejected")
  BY DEF SameRow, LedgerTypes, VerdictTypes
<1> QED BY <1>1, <1>2 DEF SameRow, Grows, RowGood, RowAt

LEMMA ItsRowGrows ==
  ASSUME LedgerInv, NEW r \in Requests, Step(r), Works(r), Mutates(r), NEW a, a = Act(r)
  PROVE  Grows(a)
<1>1. /\ StoreGood /\ ChainGood /\ a \in Acts /\ AlwaysInv /\ runs[a] \in 0 .. 2
  BY AtItsRow DEF LedgerInv
<1>2. /\ acts[a].state # "new" => acts'[a].state # "new"
      /\ acts[a].state \notin {"new", "reserved"} => acts'[a].state \notin {"new", "reserved"}
      /\ acts[a].state \in Final => acts'[a].state = acts[a].state
  <2> DEFINE s == acts[a].state
             z == acts'[a].state
  <2>1. z = s \/ Reserved(r, s, z) \/ Marked(r, s, z) \/ Refused(r, s, z) \/ Given(r, s, z)
    BY StateMoves
  <2> HIDE DEF s, z
  <2>2. z \in Verdicts => z \notin {"new", "reserved"}
    BY DEF Verdicts, Final, Ambiguous
  <2>3. s \in Final /\ z \in MayBecome(s) => z = s
    BY DEF MayBecome, Final, Ambiguous
  <2>4. /\ s # "new" => z # "new"
        /\ s \notin {"new", "reserved"} => z \notin {"new", "reserved"}
        /\ s \in Final => z = s
    BY <2>1, <2>2, <2>3 DEF Reserved, Marked, Refused, Given, Final
  <2> QED BY <2>4 DEF s, z
<1>3. (HasStart(a) => HasStart(a)') /\ (HasVerdict(a) => HasVerdict(a)')
  <2>1. CASE UNCHANGED events
    BY <2>1, EventsSayNothingNew
  <2>2. CASE Extends(r)
    BY <1>1, <2>2, AppendingIsGood, EventsSay
  <2> QED BY <2>1, <2>2
       DEF Step, store, provider, Extends, Snapshot, Ensure, FindLease, IssueLease, PublishSnapshot,
           Sign, AppendEvent, Verify, Reserve, Prepare, Own, Mark, RunAct, Answer, Reject, Retry,
           Known, Complete, Persist, Recover, Proof, Resolve, AskAgain
<1>4. (runs[a] > 0 => runs'[a] > 0) /\ (fate[a] \in Final => fate'[a] = fate[a])
  <2>1. CASE RunAct(r)
    <3>1. /\ runs'[a] = IF runs[a] < 2 THEN runs[a] + 1 ELSE runs[a]
          /\ fate'[a] = IF fate[a] = "none" THEN "working" ELSE fate[a]
      BY <1>1, <2>1 DEF RunAct, StoreGood
    <3> QED BY <1>1, <3>1 DEF Final
  <2>2. CASE ~RunAct(r)
    <3>1. UNCHANGED <<runs, fate>>
      BY <2>2 DEF Step, store, provider, Snapshot, Ensure, FindLease, IssueLease, PublishSnapshot,
           Sign, AppendEvent, Verify, Reserve, Prepare, Own, Mark, RunAct, Answer, Reject, Retry,
           Known, Complete, Persist, Recover, Proof, Resolve, AskAgain
    <3> QED BY <3>1
  <2> QED BY <2>1, <2>2
<1> QED BY <1>2, <1>3, <1>4 DEF Grows

(* What a request knows stays true, and it learns nothing false.           *)
Quiet == {"ready", "done", "reserve", "persist", "resolve", "proof"}
KnowsNext(r, a) == KnowsAt(thread'[r], acts'[a].state, HasStart(a)', runs'[a], fate'[a])
LEMMA QuietKnows ==
  ASSUME NEW t, t.pc \in Quiet, NEW s, NEW h, NEW n, NEW f
  PROVE  KnowsAt(t, s, h, n, f)
  BY DEF KnowsAt, Quiet, EventPcs

LEMMA ExecuteKnows ==
  ASSUME LedgerInv, NEW r \in Requests, Works(r), Mutates(r), NEW a, a = Act(r), Step(r),
         \/ Verify(r) \/ Reserve(r) \/ Prepare(r) \/ Own(r) \/ Mark(r) \/ RunAct(r)
         \/ Answer(r) \/ Reject(r) \/ Retry(r)
  PROVE  KnowsNext(r, a)
<1> DEFINE x == thread[r]
           y == thread'[r]
           s == acts[a].state
           z == acts'[a].state
<1>1. /\ ThreadsGood /\ StoreGood /\ ProviderGood /\ a \in Acts /\ x \in ThreadRecords
      /\ KnowsAt(x, s, HasStart(a), runs[a], fate[a]) /\ runs[a] \in 0 .. 2
      /\ \A v : acts' = [acts EXCEPT ![a].state = v] => z = v
  BY AtItsRow
<1>2. /\ s # "new" => z # "new"
      /\ s \notin {"new", "reserved"} => z \notin {"new", "reserved"}
      /\ HasStart(a) => HasStart(a)'
      /\ fate[a] \in Final => fate'[a] = fate[a]
  BY ItsRowGrows DEF Grows
<1>3. y.pc \in {"own", "mark", "reject", "prepare"} /\ z # "new" => KnowsNext(r, a)
  BY DEF KnowsNext, KnowsAt, EventPcs
<1>4. y.pc \in Quiet => KnowsNext(r, a)
  BY QuietKnows DEF KnowsNext
<1>5. y.pc = "retry" /\ z \notin {"new", "reserved"} => KnowsNext(r, a)
  BY DEF KnowsNext, KnowsAt, EventPcs
<1>6. ASSUME NEW ok, NEW ko, Signs(r, Started, ok, ko)', z \notin {"new", "reserved"}
      PROVE  KnowsNext(r, a)
  <2>1. y.pc = "sign" /\ y.ev.type = "mutation.started" /\ y.ev.verdict = "none"
    BY <1>6 DEF Signs, Started, NoEvent
  <2> QED BY <1>6, <2>1 DEF KnowsNext, KnowsAt, EventPcs, Final
<1>7. CASE Verify(r) \/ Reject(r)
  BY <1>1, <1>4, <1>7, ExecuteLeads DEF Quiet
<1>8. CASE Reserve(r)
  <2>1. \/ Done(r)
        \/ Goto(r, "prepare") /\ acts' = [acts EXCEPT ![a] = [state |-> "reserved",
                                                             snap |-> Ask(r).via, gen |-> gen]]
        \/ To(r, x, Resume(s)) /\ s # "new" /\ UNCHANGED acts
    BY <1>8 DEF Reserve
  <2>2. CASE Done(r)
    BY <1>1, <1>4, <2>2, Places DEF Quiet
  <2>3. CASE Goto(r, "prepare") /\ acts' = [acts EXCEPT ![a] = [state |-> "reserved",
                                                               snap |-> Ask(r).via, gen |-> gen]]
    <3>1. z = "reserved"
      BY <1>1, <2>3 DEF StoreGood
    <3> QED BY <1>1, <1>3, <2>3, <3>1, Places
  <2>4. CASE To(r, x, Resume(s)) /\ s # "new" /\ UNCHANGED acts
    <3>1. y.pc = Resume(s) /\ z = s
      BY <1>1, <2>4, Places
    <3>2. \/ Resume(s) = "prepare"
          \/ Resume(s) = "retry" /\ s = "dispatch_started"
          \/ Resume(s) \in {"persist", "done"}
      BY DEF Resume
    <3> QED BY <1>3, <1>4, <1>5, <2>4, <3>1, <3>2 DEF Quiet
  <2> QED BY <2>1, <2>2, <2>3, <2>4
<1>9. CASE Prepare(r) \/ Own(r)
  <2>1. s # "new"
    BY <1>1, <1>9 DEF Prepare, Own, At, KnowsAt
  <2> QED BY <1>1, <1>2, <1>3, <1>4, <1>9, <2>1, ExecuteLeads DEF Quiet
<1>10. CASE Mark(r)
  <2>1. s # "new" /\ z # "new"
    BY <1>1, <1>2, <1>10 DEF Mark, At, KnowsAt
  <2>2. y.pc = "reject" \/ (Signs(r, Started, "run", "reject")' /\ z = "dispatch_started")
    <3>1. CASE s \in {"reserved", "dispatch_started"}
      <4>1. Publish(r, Started, "run", "reject") /\ z = "dispatch_started"
        BY <1>1, <1>10, <3>1 DEF Mark, Started
      <4> QED BY <1>1, <4>1, PublishLeads
    <3>2. CASE s \notin {"reserved", "dispatch_started"}
      <4>1. Goto(r, "reject")
        BY <1>10, <3>2 DEF Mark
      <4> QED BY <1>1, <4>1, Places
    <3> QED BY <3>1, <3>2
  <2> QED BY <1>3, <1>6, <2>1, <2>2
<1>11. CASE RunAct(r)
  <2>1. x.pc = "run" /\ y.pc = "running"
    BY <1>1, <1>11, ExecuteLeads DEF RunAct, At
  <2>2. runs'[a] > 0
    <3>1. runs' = [runs EXCEPT ![a] = IF runs[a] < 2 THEN runs[a] + 1 ELSE runs[a]]
      BY <1>11 DEF RunAct
    <3>2. runs'[a] = IF runs[a] < 2 THEN runs[a] + 1 ELSE runs[a]
      BY <1>1, <3>1 DEF StoreGood
    <3> QED BY <1>1, <3>2
  <2>3. HasStart(a)' /\ z \notin {"new", "reserved"}
    BY <1>1, <1>2, <2>1 DEF KnowsAt
  <2> QED BY <2>1, <2>2, <2>3 DEF KnowsNext, KnowsAt, EventPcs
<1>12. CASE Answer(r)
  <2>1. x.pc = "running"
    BY <1>12 DEF Answer, At
  <2>2. z # "new"
    BY <1>1, <1>2, <2>1 DEF KnowsAt
  <2>3. CASE y.pc = "reject"
    BY <1>3, <2>2, <2>3
  <2>4. CASE y.pc = "known" /\ y.status \in Answers(a)
    <3>1. y.status \in Final => driver[a] = "knows" /\ y.status = fate[a]
      BY <2>4 DEF Answers, Final
    <3>2. y.status \in Final => fate'[a] = y.status
      BY <1>2, <3>1
    <3> QED BY <2>4, <3>2 DEF KnowsNext, KnowsAt, EventPcs
  <2> QED BY <1>1, <1>12, <2>3, <2>4, ExecuteLeads
<1>13. CASE Retry(r)
  <2>1. z \notin {"new", "reserved"}
    BY <1>1, <1>2, <1>13 DEF Retry, At, KnowsAt
  <2>2. y.status = "outcome_unknown" /\ (y.pc = "known" \/ Signs(r, Started, "known", "done")')
    BY <1>1, <1>13, ExecuteLeads
  <2>3. y.pc = "known" => KnowsNext(r, a)
    BY <2>2 DEF KnowsNext, KnowsAt, EventPcs, Final
  <2> QED BY <1>6, <2>1, <2>2, <2>3
<1> QED BY <1>7, <1>8, <1>9, <1>10, <1>11, <1>12, <1>13

LEMMA SettlingKnows ==
  ASSUME LedgerInv, NEW r \in Requests, Works(r), Mutates(r), NEW a, a = Act(r), Step(r),
         \/ Sign(r) \/ AppendEvent(r) \/ Known(r) \/ Complete(r) \/ Persist(r)
         \/ Recover(r) \/ Proof(r) \/ Resolve(r) \/ AskAgain(r)
  PROVE  KnowsNext(r, a)
<1> DEFINE x == thread[r]
           y == thread'[r]
           s == acts[a].state
           z == acts'[a].state
<1>1. /\ ThreadsGood /\ ChainGood /\ AlwaysInv /\ a \in Acts /\ x \in ThreadRecords /\ Shape(r, x)
      /\ KnowsAt(x, s, HasStart(a), runs[a], fate[a])
  BY AtItsRow DEF LedgerInv
<1>2. /\ s # "new" => z # "new"
      /\ s \notin {"new", "reserved"} => z \notin {"new", "reserved"}
      /\ HasStart(a) => HasStart(a)'
      /\ fate[a] \in Final => fate'[a] = fate[a]
  BY ItsRowGrows DEF Grows
<1>3. y.pc \in Quiet => KnowsNext(r, a)
  BY QuietKnows DEF KnowsNext
<1>4. y.pc = "reject" /\ z # "new" => KnowsNext(r, a)
  BY DEF KnowsNext, KnowsAt, EventPcs
<1>5. CASE Sign(r) \/ AppendEvent(r)
  <2>1. x.pc \in EventPcs /\ (Starting(x) \/ Judging(x) \/ Doubting(x))
    BY <1>1, <1>5 DEF Sign, AppendEvent, At, EventPcs, Shape
  <2>2. y.pc = x.ko => KnowsNext(r, a)
    <3>1. x.ko = "done" \/ (x.ko = "reject" /\ Starting(x))
      BY <2>1 DEF Starting, Judging, Doubting
    <3>2. Starting(x) => z # "new"
      BY <1>1, <1>2, <2>1 DEF KnowsAt
    <3> QED BY <1>3, <1>4, <3>1, <3>2 DEF Quiet
  <2>3. CASE y = [x EXCEPT !.pc = "append", !.seen = Len(events)]
    <3>1. y.pc = "append" /\ y.ev = x.ev /\ y.ok = x.ok /\ y.ko = x.ko /\ y.status = x.status
      BY <1>1, <2>3 DEF ThreadRecords
    <3>2. Starting(y) => Starting(x)
      BY <3>1 DEF Starting
    <3> QED BY <1>1, <1>2, <2>1, <3>1, <3>2 DEF KnowsNext, KnowsAt, EventPcs
  <2>4. CASE AppendEvent(r) /\ y.pc = x.ok /\ (x.ok # "done" => y.status = x.status)
             /\ MayAppend(r, a, x.ev)
    <3>1. \/ x.ok \in {"resolve", "done", "persist"}
          \/ Starting(x) /\ x.ok = "run"
          \/ Starting(x) /\ x.ok = "known" /\ x.status = "outcome_unknown"
      BY <2>1 DEF Starting, Judging, Doubting
    <3>2. CASE Starting(x) /\ x.ok = "run"
      <4>1. Extends(r)
        BY <2>4 DEF AppendEvent, Extends
      <4>2. HasStart(a)'
        <5>1. /\ events' = Append(events, Appending(r))
              /\ Appending(r).act = a /\ Appending(r).type = "mutation.started"
          BY <1>1, <3>2, <4>1, AppendingIsGood DEF Appending, Starting
        <5> QED BY <1>1, <5>1, EventsSay
      <4>3. z \notin {"new", "reserved"}
        BY <1>1, <1>2, <2>1, <3>2 DEF KnowsAt
      <4> QED BY <2>4, <3>2, <4>2, <4>3 DEF KnowsNext, KnowsAt, EventPcs
    <3>3. CASE x.ok = "known" /\ x.status = "outcome_unknown"
      BY <2>4, <3>3 DEF KnowsNext, KnowsAt, EventPcs, Final
    <3> QED BY <1>3, <2>4, <3>1, <3>2, <3>3 DEF Quiet
  <2> QED BY <1>1, <1>5, <2>2, <2>3, <2>4, EventLeads
<1>6. CASE Known(r)
  <2>1. x.pc = "known" /\ (x.status \in Final => fate'[a] = x.status)
    BY <1>1, <1>2, <1>6 DEF Known, At, KnowsAt
  <2>2. KnownLeads(r)
    BY <1>1, <1>6, KnownStep
  <2>3. CASE y.pc = "complete"
    <3>1. y.ev.verdict = x.status
      BY <2>2, <2>3 DEF KnownLeads
    <3> QED BY <2>1, <2>3, <3>1 DEF KnowsNext, KnowsAt, EventPcs
  <2>4. CASE y.pc = "sign"
    <3>1. /\ y.ev.verdict = x.status /\ y.ev.type # "mutation.started"
          /\ y.ev.type = "mutation.applied" => x.status = "applied"
          /\ y.ev.type = "mutation.rejected" => x.status = "rejected"
      BY <2>2, <2>4 DEF KnownLeads, VerdictTypes
    <3>2. ~Starting(y)
      BY <3>1 DEF Starting
    <3> QED BY <2>1, <2>4, <3>1, <3>2 DEF KnowsNext, KnowsAt, EventPcs
  <2> QED BY <1>3, <2>2, <2>3, <2>4 DEF KnownLeads, Quiet
<1>7. CASE Proof(r)
  <2>1. y.pc = "known" /\ y.status \in Proofs(r) /\ x.status \in Ambiguous
    BY <1>1, <1>7, RecoverLeads DEF Proof, At, Shape
  <2>2. y.status \in Final => y.status = fate[a]
    BY <2>1 DEF Proofs, Final, Ambiguous
  <2> QED BY <1>2, <2>1, <2>2 DEF KnowsNext, KnowsAt, EventPcs
<1>8. CASE Complete(r) \/ Persist(r) \/ Recover(r) \/ Resolve(r) \/ AskAgain(r)
  <2>1. y.pc \in Quiet
    BY <1>1, <1>8, RecoverLeads DEF Quiet
  <2> QED BY <1>3, <2>1
<1> QED BY <1>5, <1>6, <1>7, <1>8

LEMMA KnowsStep ==
  ASSUME LedgerInv, NEW r \in Requests, Works(r), Mutates(r), NEW a, a = Act(r), Step(r)
  PROVE  KnowsNext(r, a)
<1>1. ~(Snapshot(r) \/ Ensure(r) \/ FindLease(r) \/ IssueLease(r) \/ PublishSnapshot(r))
  BY AtItsRow DEF Snapshot, Ensure, FindLease, IssueLease, PublishSnapshot, At, Shape, Works,
                  WorkPcs, EventPcs
<1> QED BY <1>1, ExecuteKnows, SettlingKnows DEF Step

(* Only who executes comes near its action.                                *)
LEMMA ExecutingStep ==
  ASSUME LedgerInv, NEW r \in Requests, Step(r)
  PROVE  thread'[r].pc \in {"reserve", "reject", "running"} \/ Nears(thread'[r])
            => Ask(r).kind = "execute"
<1> DEFINE x == thread[r]
           y == thread'[r]
<1>1. /\ ThreadsGood /\ x \in ThreadRecords /\ Shape(r, x) /\ Executing(r)
  BY DEF LedgerInv, AlwaysInv, ThreadsGood
<1>2. CASE Verify(r) \/ Reserve(r) \/ Prepare(r) \/ Own(r) \/ Mark(r) \/ RunAct(r) \/ Answer(r)
           \/ Reject(r)
  BY <1>1, <1>2 DEF Verify, Reserve, Prepare, Own, Mark, RunAct, Answer, Reject, Executing, Nears, At
<1>3. CASE Retry(r)
  BY <1>1, <1>3, ExecuteLeads DEF Nears, Signs, EventPcs
<1>4. CASE \/ Complete(r) \/ Persist(r) \/ Recover(r) \/ Proof(r) \/ Resolve(r) \/ AskAgain(r)
  BY <1>1, <1>4, RecoverLeads DEF Nears, EventPcs
<1>5. CASE Known(r)
  BY <1>1, <1>5, KnownStep DEF KnownLeads, Nears, EventPcs
<1>6. CASE Sign(r) \/ AppendEvent(r)
  <2>1. x.pc \in EventPcs
    BY <1>6 DEF Sign, AppendEvent, At, EventPcs
  <2>2. x.ok = "run" => Ask(r).kind = "execute"
    BY <1>1, <2>1 DEF Executing, Nears
  <2>3. /\ x.ok \in {"run", "known", "resolve", "done", "persist", "ensure", "lease"}
        /\ x.ko = "done" \/ (x.ko = "reject" /\ x.ok = "run")
    BY <1>1, <2>1 DEF Shape, Owning, Starting, Judging, Doubting
  <2>4. \/ y.pc \in {x.ko, x.ok}
        \/ y.pc = "append" /\ y.ok = x.ok
    <3>1. y = [x EXCEPT !.pc = "append", !.seen = Len(events)] => y.pc = "append" /\ y.ok = x.ok
      BY <1>1 DEF ThreadRecords
    <3> QED BY <1>1, <1>6, <3>1, EventLeads
  <2> QED BY <2>2, <2>3, <2>4 DEF Nears, EventPcs
<1>7. CASE Snapshot(r) \/ Ensure(r) \/ FindLease(r) \/ IssueLease(r) \/ PublishSnapshot(r)
  <2>1. \/ \E g : y = [Idle EXCEPT !.pc = "ensure", !.gen = g]
        \/ \E e, ok : Publish(r, e, ok, "done") /\ ok \in {"ensure", "lease"}
        \/ \E pc \in {"lease", "publish", "issue", "done"} : y.pc = pc
    <3>1. \/ \E g : Set(r, [Idle EXCEPT !.pc = "ensure", !.gen = g])
          \/ \E e, ok : Publish(r, e, ok, "done") /\ ok \in {"ensure", "lease"}
          \/ \E pc \in {"lease", "publish"} : Goto(r, pc)
          \/ Done(r)
          \/ \E pc \in {"issue", "publish", "done"} : To(r, x, pc)
      BY <1>7 DEF Snapshot, Ensure, FindLease, IssueLease, PublishSnapshot
    <3>2. \A g : Set(r, [Idle EXCEPT !.pc = "ensure", !.gen = g])
                  => y = [Idle EXCEPT !.pc = "ensure", !.gen = g]
      BY <1>1, Moves
    <3>3. /\ \A pc : Goto(r, pc) \/ To(r, x, pc) => y.pc = pc
          /\ Done(r) => y.pc = "done"
      BY <1>1, Places
    <3> QED BY <3>1, <3>2, <3>3
  <2>2. \A g : [Idle EXCEPT !.pc = "ensure", !.gen = g].pc = "ensure"
    BY DEF Idle
  <2>3. ASSUME NEW e, NEW ok, Publish(r, e, ok, "done"), ok \in {"ensure", "lease"}
        PROVE  y.pc = "sign" /\ y.ok \in {"ensure", "lease"}
    BY <1>1, <2>3, PublishLeads DEF Signs
  <2> QED BY <2>1, <2>2, <2>3 DEF Nears, EventPcs
<1> QED BY <1>2, <1>3, <1>4, <1>5, <1>6, <1>7 DEF Step

(* The row of an action keeps to its events.                               *)
LEMMA RowStep ==
  ASSUME LedgerInv, NEW r \in Requests, Works(r), Mutates(r), NEW a, a = Act(r), Step(r)
  PROVE  RowGood(a)'
<1> DEFINE x == thread[r]
           s == acts[a].state
           z == acts'[a].state
           h == HasStart(a)
           v == HasVerdict(a)
           p == Says(a, "mutation.applied")
           q == Says(a, "mutation.rejected")
<1>1. /\ AlwaysInv /\ StoreGood /\ ChainGood /\ a \in Acts /\ x \in ThreadRecords /\ Shape(r, x)
      /\ KnowsAt(x, s, h, runs[a], fate[a]) /\ s \in ActStates
      /\ runs[a] \in 0 .. 2 /\ fate[a] \in {"none", "working"} \cup Final
  BY AtItsRow DEF LedgerInv
<1>2. RowAt(s, h, v, p, q, runs[a], fate[a])
  BY AtItsRow DEF RowGood
<1>3. z = s \/ Reserved(r, s, z) \/ Marked(r, s, z) \/ Refused(r, s, z) \/ Given(r, s, z)
  BY StateMoves
<1>4. CASE RunAct(r)
  <2>1. UNCHANGED <<events, acts>> /\ x.pc = "run"
    BY <1>4 DEF RunAct, store, At
  <2>2. /\ runs'[a] = IF runs[a] < 2 THEN runs[a] + 1 ELSE runs[a]
        /\ fate'[a] = IF fate[a] = "none" THEN "working" ELSE fate[a]
    BY <1>1, <1>4 DEF RunAct, StoreGood
  <2>3. runs'[a] > 0 /\ fate'[a] # "none" /\ (fate[a] = "applied" => fate'[a] = "applied")
    BY <1>1, <2>2
  <2>4. /\ (h' <=> h) /\ (v' <=> v) /\ (p' <=> p) /\ (q' <=> q) /\ z = s
    BY <2>1, EventsSayNothingNew
  <2>5. h /\ s \notin {"new", "reserved"}
    BY <1>1, <2>1 DEF KnowsAt
  <2>6. RowAt(z, h', v', p', q', runs'[a], fate'[a])
    <3> HIDE DEF s, z, h, v, p, q
    <3> QED BY <1>1, <1>2, <2>3, <2>4, <2>5 DEF RowAt
  <2> QED BY <2>6 DEF RowGood
<1>5. CASE Extends(r)
  <2> DEFINE e == x.ev
  <2>1. UNCHANGED <<runs, fate>>
    BY <1>5 DEF Extends, Step, AppendEvent, provider, At, Snapshot, Ensure, FindLease, IssueLease,
       PublishSnapshot, Sign, Verify, Reserve, Prepare, Own, Mark, RunAct, Answer, Reject, Retry,
       Known, Complete, Persist, Recover, Proof, Resolve, AskAgain
  <2>2. /\ events' = Append(events, Appending(r))
        /\ Appending(r).act = a /\ Appending(r).type = e.type
    BY <1>1, <1>5, AppendingIsGood DEF Appending
  <2>3. /\ h' <=> h \/ e.type = "mutation.started"
        /\ v' <=> v \/ e.type \in VerdictTypes
        /\ p' <=> p \/ e.type = "mutation.applied"
        /\ q' <=> q \/ e.type = "mutation.rejected"
    BY <1>1, <2>2, EventsSay
  <2>4. x.pc \in EventPcs /\ (Starting(x) \/ Judging(x) \/ Doubting(x))
    BY <1>1, <1>5 DEF Extends, At, EventPcs, Shape
  <2>5. z = IF e.verdict = "none" THEN s ELSE e.verdict
    BY <1>1, <1>5 DEF Extends, Extend, StoreGood
  <2>6. e.verdict # "none" => e.verdict \in MayBecome(s)
    BY <1>5 DEF Extends, MayAppend
  <2>7. CASE Starting(x)
    <3>1. e.type = "mutation.started" /\ z = s /\ s \notin {"new", "reserved"}
      BY <1>1, <2>4, <2>5, <2>7 DEF Starting, KnowsAt
    <3>2. RowAt(z, h', v', p', q', runs[a], fate[a])
      <4> HIDE DEF s, z, h, v, p, q
      <4> QED BY <1>2, <2>3, <3>1 DEF RowAt, VerdictTypes
    <3> QED BY <2>1, <3>2 DEF RowGood
  <2>8. CASE Judging(x)
    <3>1. /\ e.type \in VerdictTypes /\ z = e.verdict /\ z \in Final /\ z \in MayBecome(s)
          /\ fate[a] = z
          /\ e.type = "mutation.applied" => z = "applied"
          /\ e.type = "mutation.rejected" => z = "rejected"
      BY <1>1, <2>4, <2>5, <2>6, <2>8 DEF Judging, KnowsAt, Final
    <3>2. s \in Final => z = s
      BY <3>1 DEF MayBecome, Final
    <3>3. RowAt(z, h', v', p', q', runs[a], fate[a])
      <4> HIDE DEF s, z, h, v, p, q, e
      <4> QED BY <1>1, <1>2, <2>3, <3>1, <3>2 DEF RowAt, VerdictTypes, Final
    <3> QED BY <2>1, <3>3 DEF RowGood
  <2>9. CASE Doubting(x)
    <3>1. /\ e.type = "mutation.outcome_unknown" /\ z = "outcome_unknown" /\ z \in MayBecome(s)
      BY <2>5, <2>6, <2>9 DEF Doubting
    <3>2. s \notin Final
      BY <3>1 DEF MayBecome, Final
    <3>3. RowAt(z, h', v', p', q', runs[a], fate[a])
      <4> HIDE DEF s, z, h, v, p, q, e
      <4> QED BY <1>2, <2>3, <3>1, <3>2 DEF RowAt, VerdictTypes, Final
    <3> QED BY <2>1, <3>3 DEF RowGood
  <2> QED BY <2>4, <2>7, <2>8, <2>9
<1>6. CASE ~RunAct(r) /\ ~Extends(r)
  <2>1. UNCHANGED <<events, runs, fate>>
    BY <1>6 DEF Extends, Step, AppendEvent, store, provider, At, Snapshot, Ensure, FindLease,
       IssueLease, PublishSnapshot, Sign, Verify, Reserve, Prepare, Own, Mark, RunAct, Answer, Reject,
       Retry, Known, Complete, Persist, Recover, Proof, Resolve, AskAgain
  <2>2. (h' <=> h) /\ (v' <=> v) /\ (p' <=> p) /\ (q' <=> q)
    BY <2>1, EventsSayNothingNew
  <2>3. \/ z = s
        \/ s = "new" /\ z = "reserved"
        \/ s \in {"reserved", "dispatch_started"} /\ z = "dispatch_started"
        \/ z \in Verdicts \ {"applied"} /\ z \in MayBecome(s)
    <3>1. Given(r, s, z) => z # "applied"
      BY <1>1, <1>6 DEF Given, Shape, At
    <3> HIDE DEF s, z
    <3> QED BY <1>3, <3>1 DEF Reserved, Marked, Refused, Given, Verdicts, Final
  <2>4. RowAt(z, h', v', p', q', runs[a], fate[a])
    <3> HIDE DEF s, z, h, v, p, q
    <3>1. z \in Verdicts \ {"applied"} /\ z \in MayBecome(s) => z \notin {"new", "reserved", "applied"}
          /\ (s \in Final => z = s) /\ s \notin {"new", "applied"}
      BY DEF Verdicts, Final, Ambiguous, MayBecome
    <3> QED BY <1>2, <2>2, <2>3, <3>1 DEF RowAt, Final
  <2> QED BY <2>1, <2>4 DEF RowGood
<1> QED BY <1>4, <1>5, <1>6

(* What another step than a request's does to the rows: the provider       *)
(* decides what it was given.                                              *)
LEMMA NoStepGrows ==
  ASSUME LedgerInv, NEW b \in Mutations,
         UNCHANGED vars \/ Refresh \/ Expire \/ Crash \/ \E a \in Acts : Decide(a)
  PROVE  /\ Grows(b) /\ RowGood(b)' /\ UNCHANGED <<events, acts, runs, twins>>
         /\ fate'[b] = fate[b] \/ (fate[b] = "working" /\ fate'[b] \in Final)
<1>1. UNCHANGED <<events, acts, runs, twins>>
  BY DEF vars, store, provider, Refresh, Expire, Crash, Decide
<1>2. fate'[b] = fate[b] \/ (fate[b] = "working" /\ fate'[b] \in Final)
  <2>1. CASE UNCHANGED fate
    BY <2>1
  <2>2. ASSUME NEW a \in Acts, Decide(a) PROVE fate'[b] = fate[b] \/ (fate[b] = "working" /\ fate'[b] \in Final)
    <3>1. PICK w \in Final : fate' = [fate EXCEPT ![a] = w]
      BY <2>2 DEF Decide, Final
    <3>2. fate \in [Acts -> {"none", "working"} \cup Final] /\ b \in Acts
      BY DEF LedgerInv, AlwaysInv, StoreGood, Mutations
    <3> QED BY <2>2, <3>1, <3>2 DEF Decide
  <2> QED BY <2>1, <2>2 DEF vars, provider, Refresh, Expire, Crash
<1>3. RowGood(b)
  BY DEF LedgerInv, RowsGood
<1>4. /\ \A ty : Says(b, ty)' <=> Says(b, ty)
      /\ (HasStart(b)' <=> HasStart(b)) /\ (HasVerdict(b)' <=> HasVerdict(b))
  BY <1>1, EventsSayNothingNew
<1>5. Grows(b)
  BY <1>1, <1>2, <1>4 DEF Grows, Final
<1>6. RowGood(b)'
  BY <1>1, <1>2, <1>3, <1>4 DEF RowGood, RowAt, Final
<1> QED BY <1>1, <1>2, <1>5, <1>6

LEMMA RowsStep ==
  ASSUME LedgerInv, [ControlNext]_vars
  PROVE  RowsGood' /\ \A b \in Mutations : Grows(b)
<1>1. Mutations' = Mutations
  BY StoreStep, SamePlan DEF LedgerInv
<1>2. ASSUME NEW r \in Requests, Step(r), NEW b \in Mutations PROVE Grows(b) /\ RowGood(b)'
  <2>1. CASE OnIt(r, b)
    <3>1. Works(r) /\ Mutates(r) /\ b = Act(r)
      BY <2>1 DEF OnIt, Mutations, Mutates
    <3> QED BY <1>2, <3>1, RowStep, ItsRowGrows
  <2>2. CASE ~OnIt(r, b)
    BY <1>2, <2>2, OtherRows, SameGrows DEF LedgerInv, RowsGood
  <2> QED BY <2>1, <2>2
<1> QED BY <1>1, <1>2, NoStepGrows DEF ControlNext, RowsGood

(* What each request knows, after any step.                                *)
LEMMA KnowledgeStep ==
  ASSUME LedgerInv, [ControlNext]_vars
  PROVE  (\A r \in Requests : Knows(r) /\ Executing(r))'
<1>1. /\ UNCHANGED world /\ Requests' = Requests /\ world \in Worlds
      /\ \A r : /\ Act(r)' = Act(r) /\ Ask(r)' = Ask(r)
                /\ (Works(r)' <=> Works(r)) /\ (Mutates(r)' <=> Mutates(r))
  BY StoreStep, SamePlan DEF LedgerInv, AlwaysInv
<1>2. ASSUME NEW r \in Requests
      PROVE  /\ Works(r) /\ Mutates(r) => KnowsNext(r, Act(r))
             /\ thread'[r].pc \in {"reserve", "reject", "running"} \/ Nears(thread'[r])
                   => Ask(r).kind = "execute"
  <2>1. CASE Step(r)
    BY <2>1, KnowsStep, ExecutingStep
  <2>2. CASE thread'[r] = thread[r]
    <3>1. ASSUME Works(r), Mutates(r), NEW a, a = Act(r) PROVE KnowsNext(r, a)
      <4>1. /\ a \in Mutations /\ ProviderGood
            /\ KnowsAt(thread[r], acts[a].state, HasStart(a), runs[a], fate[a])
        BY <3>1, AtItsRow
      <4>2. Grows(a)
        BY <4>1, RowsStep
      <4>3. thread[r].pc \in EventPcs \cup {"complete"} /\ thread[r].ev.verdict \in Final
               => fate'[a] = thread[r].ev.verdict
        BY <4>1, <4>2 DEF Grows, KnowsAt
      <4>4. thread[r].pc = "known" /\ thread[r].status \in Final => fate'[a] = thread[r].status
        BY <4>1, <4>2 DEF Grows, KnowsAt
      <4> QED BY <2>2, <4>1, <4>2, <4>3, <4>4 DEF Grows, KnowsAt, KnowsNext
    <3> QED BY <2>2, <3>1 DEF LedgerInv, Executing, At
  <2>3. CASE thread'[r] = [Idle EXCEPT !.pc = "done"]
    <3>1. thread'[r].pc = "done"
      BY <2>3 DEF Idle
    <3> QED BY <3>1, QuietKnows DEF KnowsNext, Quiet, Nears, EventPcs
  <2>4. Step(r) \/ thread'[r] = thread[r] \/ thread'[r] = [Idle EXCEPT !.pc = "done"]
    <3>1. \A q \in Requests : Step(q) => Step(r) \/ thread'[r] = thread[r]
      BY OthersStay DEF LedgerInv, AlwaysInv
    <3>2. Crash => thread'[r] \in {thread[r], [Idle EXCEPT !.pc = "done"]}
      BY DEF Crash
    <3> QED BY <3>1, <3>2 DEF ControlNext, vars, Decide, Refresh, Expire
  <2> QED BY <2>1, <2>2, <2>3, <2>4
<1> QED BY <1>1, <1>2 DEF Knows, KnowsNext, Executing, At

(* How a request comes to get its action ready, and to reject it.          *)
LEMMA Arrivals ==
  ASSUME AlwaysInv, NEW r \in Requests, Step(r), Works(r)
  PROVE  /\ thread'[r].pc = "prepare" => Reserve(r)
         /\ thread'[r].pc = "reject" =>
               Nears(thread[r]) \/ (At(r) = "running" /\ Faulty("contract"))
         /\ Nears(thread'[r]) => ~RunAct(r) /\ (Nears(thread[r]) \/ thread'[r].pc = "prepare")
<1> DEFINE x == thread[r]
           y == thread'[r]
<1>1. ThreadsGood /\ Shape(r, x) /\ x \in ThreadRecords
  BY DEF AlwaysInv, ThreadsGood
<1> DEFINE Claim == /\ y.pc = "prepare" => Reserve(r)
                    /\ y.pc = "reject" => Nears(x) \/ (At(r) = "running" /\ Faulty("contract"))
<1>2. ASSUME \/ Snapshot(r) \/ Ensure(r) \/ FindLease(r) \/ IssueLease(r) \/ PublishSnapshot(r)
      PROVE  Claim
  BY <1>1, <1>2 DEF Snapshot, Ensure, FindLease, IssueLease, PublishSnapshot, At, Shape, Works,
                    WorkPcs, EventPcs
<1>3. ASSUME Verify(r) \/ Reserve(r) \/ RunAct(r) \/ Answer(r) \/ Reject(r)
      PROVE  Claim
  <2>1. Answer(r) => At(r) = "running"
    BY DEF Answer
  <2> QED BY <1>1, <1>3, <2>1, ExecuteLeads
<1>4. ASSUME Prepare(r) \/ Own(r) \/ Mark(r)
      PROVE  Claim
  <2>1. Nears(x)
    BY <1>4 DEF Prepare, Own, Mark, At, Nears
  <2> QED BY <1>1, <1>4, <2>1, ExecuteLeads DEF Signs
<1>5. ASSUME Retry(r)
      PROVE  Claim
  BY <1>1, <1>5, ExecuteLeads DEF Signs
<1>6. ASSUME \/ Complete(r) \/ Persist(r) \/ Recover(r) \/ Proof(r) \/ Resolve(r) \/ AskAgain(r)
      PROVE  Claim
  BY <1>1, <1>6, RecoverLeads
<1>7. ASSUME Known(r)
      PROVE  Claim
  BY <1>1, <1>7, KnownStep DEF KnownLeads
<1>8. ASSUME Sign(r) \/ AppendEvent(r)
      PROVE  Claim
  <2>1. x.pc \in EventPcs
    BY <1>8 DEF Sign, AppendEvent, At, EventPcs
  <2>2. /\ x.ok \in {"run", "known", "resolve", "done", "persist"}
        /\ x.ko = "done" \/ (x.ko = "reject" /\ x.ok = "run")
    BY <1>1, <2>1 DEF Shape, Starting, Judging, Doubting
  <2>3. y.pc \in {x.ko, x.ok, "append"}
    <3>1. y = [x EXCEPT !.pc = "append", !.seen = Len(events)] => y.pc = "append"
      BY <1>1 DEF ThreadRecords
    <3> QED BY <1>1, <1>8, <3>1, EventLeads
  <2> QED BY <2>1, <2>2, <2>3 DEF Nears
<1>9. Claim
  BY <1>2, <1>3, <1>4, <1>5, <1>6, <1>7, <1>8 DEF Step
<1>10. ASSUME Nears(y) PROVE ~RunAct(r) /\ (Nears(x) \/ y.pc = "prepare")
  <2>1. ~RunAct(r)
    BY <1>1, <1>10, ExecuteLeads DEF Nears, EventPcs
  <2>2. y.pc # "prepare" => Passed(r)'
    BY <1>10 DEF Nears, Passed, At
  <2>3. Passed(r) => Nears(x)
    BY DEF Nears, Passed, At
  <2>4. Prepare(r) => Nears(x)
    BY DEF Prepare, At, Nears
  <2> QED BY <2>1, <2>2, <2>3, <2>4, PassedStep
<1> QED BY <1>9, <1>10

(* A reservation that nobody joined is worked on by who made it.           *)
LEMMA ReserveIsAlone ==
  ASSUME LedgerInv, NEW r \in Requests, Reserve(r), Works(r), Mutates(r), NEW a, a = Act(r),
         thread'[r].pc = "prepare", a \notin twins'
  PROVE  /\ acts'[a].state = "reserved" /\ acts[a].state \in {"new", "reserved"}
         /\ \A q \in Requests \ {r} : OnIt(q, a) => ~Nears(thread[q]) /\ At(q) # "reject"
<1> DEFINE x == thread[r]
           s == acts[a].state
<1>1. ThreadsGood /\ StoreGood /\ a \in Acts /\ x \in ThreadRecords /\ a \in Mutations
      /\ world \in Worlds
  BY AtItsRow
<1>2. \/ s = "new" /\ acts'[a].state = "reserved"
      \/ s = "reserved" /\ acts'[a].state = "reserved" /\ ~Twin(r)
  <2>1. \/ Done(r)
        \/ s = "new" /\ acts' = [acts EXCEPT ![a] = [state |-> "reserved",
                                                     snap |-> Ask(r).via, gen |-> gen]]
        \/ /\ To(r, x, Resume(s)) /\ s # "new" /\ UNCHANGED acts
           /\ Resume(s) = "prepare" /\ Twin(r) => a \in twins'
    BY DEF Reserve
  <2>2. ~Done(r)
    BY <1>1, Places
  <2>3. To(r, x, Resume(s)) => Resume(s) = "prepare"
    BY <1>1, Places
  <2>4. Resume(s) = "prepare" => s = "reserved"
    BY DEF Resume
  <2> QED BY <1>1, <2>1, <2>2, <2>3, <2>4 DEF StoreGood
<1>3. ASSUME NEW q \in Requests \ {r}, OnIt(q, a), Nears(thread[q]) \/ At(q) = "reject"
      PROVE  FALSE
  <2>1. Works(q) /\ Mutates(q) /\ Act(q) = a
    BY <1>1, <1>3 DEF OnIt, Mutations, Mutates
  <2>2. /\ KnowsAt(thread[q], s, HasStart(a), runs[a], fate[a]) /\ Shape(q, thread[q])
        /\ Executing(q)
    BY <1>3, <2>1, AtItsRow
  <2>3. Ask(q).kind = "execute"
    BY <1>3, <2>2 DEF Executing
  <2>4. thread[q].pc \in EventPcs /\ thread[q].ok = "run" => Starting(thread[q])
    BY <2>1, <2>2 DEF Shape, Judging, Doubting
  <2>5. At(q) \in {"prepare", "own", "mark", "reject"} => s # "new" /\ Twin(r)
    BY <1>3, <2>1, <2>2, <2>3 DEF KnowsAt, Twin, At
  <2>6. At(q) \notin {"prepare", "own", "mark", "reject"} => s \notin {"new", "reserved"}
    BY <1>3, <2>2, <2>4 DEF KnowsAt, At, Nears
  <2> QED BY <1>2, <2>5, <2>6
<1> QED BY <1>2, <1>3

(* Without twins one request brings a mutation to the provider.            *)
LEMMA AloneItself ==
  ASSUME LedgerInv, NEW r \in Requests, Step(r), NEW a \in Mutations, OnIt(r, a), a \notin twins',
         AloneWith(a)
  PROVE  \A q \in Requests : OnIt(q, a) =>
            /\ Nears(thread'[q]) =>
                  /\ runs'[a] = 0 /\ acts'[a].state \notin Final
                  /\ \A u \in Requests \ {q} : OnIt(u, a) =>
                        ~Nears(thread'[u]) /\ thread'[u].pc # "reject"
            /\ thread'[q].pc = "reject" => Faulty("contract") \/ runs'[a] = 0
<1> DEFINE x == thread[r]
           y == thread'[r]
           s == acts[a].state
           z == acts'[a].state
<1>1. Works(r) /\ Mutates(r) /\ a = Act(r)
  BY DEF OnIt, Mutations, Mutates
<1>2. /\ AlwaysInv /\ ThreadsGood /\ StoreGood /\ a \in Acts /\ Shape(r, x) /\ RowGood(a)
      /\ KnowsAt(x, s, HasStart(a), runs[a], fate[a]) /\ runs[a] \in 0 .. 2
  BY <1>1, AtItsRow DEF LedgerInv
<1>3. \A q \in Requests \ {r} : thread'[q] = thread[q]
  BY <1>2, OthersStay
<1>4. /\ y.pc = "prepare" => Reserve(r)
      /\ y.pc = "reject" => Nears(x) \/ (x.pc = "running" /\ Faulty("contract"))
      /\ Nears(y) => ~RunAct(r) /\ (Nears(x) \/ y.pc = "prepare")
  BY <1>1, <1>2, Arrivals DEF At
<1>5. runs'[a] = runs[a] \/ (RunAct(r) /\ Nears(x) /\ y.pc = "running")
  <2>1. CASE RunAct(r)
    BY <1>2, <2>1, ExecuteLeads DEF RunAct, Nears, At
  <2>2. CASE ~RunAct(r)
    <3>1. UNCHANGED runs
      BY <2>2 DEF Step, store, provider, Snapshot, Ensure, FindLease, IssueLease, PublishSnapshot,
           Sign, AppendEvent, Verify, Reserve, Prepare, Own, Mark, RunAct, Answer, Reject, Retry,
           Known, Complete, Persist, Recover, Proof, Resolve, AskAgain
    <3> QED BY <3>1
  <2> QED BY <2>1, <2>2
<1>6. z \in Final => s \in Final \/ x.pc = "reject" \/ runs[a] > 0
  <2>1. z = s \/ Reserved(r, s, z) \/ Marked(r, s, z) \/ Refused(r, s, z) \/ Given(r, s, z)
    BY <1>1, StateMoves
  <2>2. ASSUME Given(r, s, z), z \in Final PROVE runs[a] > 0
    <3>1. x.pc \in EventPcs \cup {"complete"} /\ x.ev.verdict = z
      BY <2>2 DEF Given, Extends, At, EventPcs
    <3>2. fate[a] = z
      BY <1>2, <2>2, <3>1 DEF KnowsAt
    <3>3. fate[a] # "none"
      BY <2>2, <3>2 DEF Final
    <3> QED BY <1>2, <3>3 DEF RowGood, RowAt
  <2> QED BY <2>1, <2>2 DEF Reserved, Marked, Refused, At, Final
<1>7. Nears(x) => /\ runs[a] = 0 /\ s \notin Final /\ x.pc # "reject"
                  /\ \A q \in Requests \ {r} : OnIt(q, a) => ~Nears(thread[q]) /\ At(q) # "reject"
  BY DEF AloneWith, Nears, EventPcs
<1>8. CASE Nears(x)
  BY <1>3, <1>4, <1>5, <1>6, <1>7, <1>8 DEF At, Nears, EventPcs
<1>9. CASE ~Nears(x) /\ Nears(y)
  <2>1. Reserve(r) /\ y.pc = "prepare" /\ runs'[a] = runs[a]
    BY <1>4, <1>5, <1>9
  <2>2. /\ z = "reserved" /\ s \in {"new", "reserved"}
        /\ \A q \in Requests \ {r} : OnIt(q, a) => ~Nears(thread[q]) /\ At(q) # "reject"
    BY <1>1, <2>1, ReserveIsAlone
  <2>3. runs[a] = 0 /\ z \notin Final
    BY <1>2, <2>2 DEF RowGood, RowAt, Final
  <2> QED BY <1>3, <2>1, <2>2, <2>3 DEF At
<1>10. CASE ~Nears(x) /\ ~Nears(y)
  <2>1. runs'[a] = runs[a] /\ (y.pc = "reject" => x.pc = "running" /\ Faulty("contract"))
    BY <1>4, <1>5, <1>10
  <2>2. x.pc = "running" => runs[a] # 0
    BY <1>2 DEF KnowsAt
  <2>3. ASSUME NEW q \in Requests, OnIt(q, a), Nears(thread'[q])
        PROVE  /\ runs'[a] = 0 /\ z \notin Final
               /\ \A u \in Requests \ {q} : OnIt(u, a) =>
                     ~Nears(thread'[u]) /\ thread'[u].pc # "reject"
    <3>1. q # r /\ thread'[q] = thread[q]
      BY <1>3, <1>10, <2>3
    <3>2. /\ runs[a] = 0 /\ s \notin Final
          /\ \A u \in Requests \ {q} : OnIt(u, a) => ~Nears(thread[u]) /\ At(u) # "reject"
      BY <2>3, <3>1 DEF AloneWith
    <3>3. x.pc # "reject"
      BY <3>1, <3>2 DEF At
    <3>4. z \notin Final /\ y.pc # "reject"
      BY <1>6, <2>1, <2>2, <3>2, <3>3
    <3>5. \A u \in Requests \ {q} : OnIt(u, a) => ~Nears(thread'[u]) /\ thread'[u].pc # "reject"
      BY <1>3, <1>10, <3>2, <3>4 DEF At
    <3> QED BY <2>1, <3>2, <3>4, <3>5
  <2>4. ASSUME NEW q \in Requests, OnIt(q, a), thread'[q].pc = "reject"
        PROVE  Faulty("contract") \/ runs'[a] = 0
    <3>1. CASE q = r
      BY <2>1, <2>4, <3>1
    <3>2. CASE q # r
      BY <1>3, <2>1, <2>4, <3>2 DEF AloneWith, At
    <3> QED BY <3>1, <3>2
  <2> QED BY <2>3, <2>4
<1> QED BY <1>8, <1>9, <1>10

LEMMA AloneStep ==
  ASSUME LedgerInv, [ControlNext]_vars
  PROVE  NobodyElse'
<1>1. /\ UNCHANGED world /\ Requests' = Requests /\ Mutations' = Mutations
      /\ \A r : /\ Act(r)' = Act(r) /\ (Works(r)' <=> Works(r))
      /\ (Faulty("contract")' <=> Faulty("contract"))
  BY StoreStep, SamePlan DEF LedgerInv
<1>2. twins \subseteq twins'
  BY WhoTouchesTheProvider DEF RunAct, Reserve, Decide, Crash
<1>3. ASSUME NEW a \in Mutations, a \notin twins'
      PROVE  \A q \in Requests : OnIt(q, a) =>
                /\ Nears(thread'[q]) =>
                      /\ runs'[a] = 0 /\ acts'[a].state \notin Final
                      /\ \A u \in Requests \ {q} : OnIt(u, a) =>
                            ~Nears(thread'[u]) /\ thread'[u].pc # "reject"
                /\ thread'[q].pc = "reject" => Faulty("contract") \/ runs'[a] = 0
  <2>1. AloneWith(a)
    BY <1>2, <1>3 DEF LedgerInv, NobodyElse
  <2>2. ASSUME NEW r \in Requests, Step(r), OnIt(r, a)
        PROVE  \A q \in Requests : OnIt(q, a) =>
                  /\ Nears(thread'[q]) =>
                        /\ runs'[a] = 0 /\ acts'[a].state \notin Final
                        /\ \A u \in Requests \ {q} : OnIt(u, a) =>
                              ~Nears(thread'[u]) /\ thread'[u].pc # "reject"
                  /\ thread'[q].pc = "reject" => Faulty("contract") \/ runs'[a] = 0
    BY <1>3, <2>1, <2>2, AloneItself
  <2>3. CASE ~ \E r \in Requests : Step(r) /\ OnIt(r, a)
    <3>1. acts'[a].state = acts[a].state /\ runs'[a] = runs[a]
      <4>1. ASSUME NEW r \in Requests, Step(r) PROVE SameRow(a)
        BY <2>3, <4>1, OtherRows DEF LedgerInv
      <4> QED BY <4>1, NoStepGrows DEF SameRow, ControlNext
    <3>2. ASSUME NEW q \in Requests, OnIt(q, a)
          PROVE  thread'[q] = thread[q] \/ (~Nears(thread'[q]) /\ thread'[q].pc # "reject")
      <4>1. ASSUME NEW r \in Requests, Step(r) PROVE thread'[q] = thread[q]
        BY <2>3, <3>2, <4>1, OthersStay DEF LedgerInv, AlwaysInv
      <4>2. Crash => thread'[q] \in {thread[q], [Idle EXCEPT !.pc = "done"]}
        BY DEF Crash
      <4>3. [Idle EXCEPT !.pc = "done"].pc = "done"
        BY DEF Idle
      <4> QED BY <4>1, <4>2, <4>3 DEF ControlNext, vars, Decide, Refresh, Expire, Nears, EventPcs
    <3> QED BY <2>1, <3>1, <3>2 DEF AloneWith, At
  <2> QED BY <2>2, <2>3
<1> QED BY <1>1, <1>3 DEF NobodyElse, AloneWith, OnIt, At

(* The starts and the verdicts in the chain.                               *)
LEMMA ChainAfter ==
  ASSUME ChainGood, NEW f, events' = Append(events, f), NEW n, n = Len(events)
  PROVE  /\ n \in Nat /\ DOMAIN events = 1 .. n /\ DOMAIN events' = 1 .. n + 1
         /\ \A i \in 1 .. n : /\ i \in 1 .. n + 1 /\ i < n + 1 /\ events'[i] = events[i]
                              /\ (IsStart(i)' <=> IsStart(i))
                              /\ \A a : JudgesIt(i, a)' <=> JudgesIt(i, a)
         /\ n + 1 \in 1 .. n + 1 /\ events'[n + 1] = f
         /\ IsStart(n + 1)' <=> f.type = "mutation.started"
         /\ \A a : JudgesIt(n + 1, a)' <=> f.act = a /\ f.type \in VerdictTypes
         /\ \A i \in 1 .. n + 1 : i = n + 1 \/ i \in 1 .. n
         /\ State' = f.after
<1>1. /\ n \in Nat /\ DOMAIN events = 1 .. n /\ DOMAIN events' = 1 .. n + 1
      /\ \A i \in 1 .. n : events'[i] = events[i]
      /\ events'[n + 1] = f /\ State' = f.after
  BY Appended
<1>2. \A i \in 1 .. n : i \in 1 .. n + 1 /\ i < n + 1
  BY <1>1
<1>3. n + 1 \in 1 .. n + 1 /\ \A i \in 1 .. n + 1 : i = n + 1 \/ i \in 1 .. n
  BY <1>1
<1>4. \A i \in 1 .. n : (IsStart(i)' <=> IsStart(i)) /\ \A a : JudgesIt(i, a)' <=> JudgesIt(i, a)
  BY <1>1 DEF IsStart, JudgesIt
<1>5. /\ IsStart(n + 1)' <=> f.type = "mutation.started"
      /\ \A a : JudgesIt(n + 1, a)' <=> f.act = a /\ f.type \in VerdictTypes
  BY <1>1 DEF IsStart, JudgesIt
<1> QED BY <1>1, <1>2, <1>3, <1>4, <1>5


(* A verdict is told twice when one is told of an action that has one.     *)
LEMMA TwiceAfter ==
  ASSUME ChainGood, NEW f, events' = Append(events, f)
  PROVE  JudgedTwice' <=> JudgedTwice \/ (f.type \in VerdictTypes /\ HasVerdict(f.act))
<1>1. PICK n \in Nat : n = Len(events)
  BY DEF ChainGood
<1>2. /\ DOMAIN events = 1 .. n /\ DOMAIN events' = 1 .. n + 1
      /\ \A i \in 1 .. n : i \in 1 .. n + 1 /\ events'[i] = events[i]
      /\ n + 1 \in 1 .. n + 1 /\ events'[n + 1] = f
      /\ \A i \in 1 .. n + 1 : i = n + 1 \/ i \in 1 .. n
  BY <1>1, ChainAfter
<1>3. ASSUME JudgedTwice PROVE JudgedTwice'
  <2>1. PICK j \in 1 .. n : /\ events[j].type \in VerdictTypes
                            /\ \E i \in 1 .. (j - 1) : JudgesIt(i, events[j].act)
    BY <1>2, <1>3 DEF JudgedTwice
  <2>2. PICK i \in 1 .. (j - 1) : JudgesIt(i, events[j].act)
    BY <2>1
  <2>3. i \in 1 .. n
    BY <1>1, <2>1, <2>2
  <2>4. JudgesIt(i, events[j].act)'
    BY <1>2, <2>1, <2>2, <2>3 DEF JudgesIt
  <2> QED BY <1>2, <2>1, <2>4 DEF JudgedTwice
<1>4. ASSUME f.type \in VerdictTypes, HasVerdict(f.act) PROVE JudgedTwice'
  <2>1. PICK i \in 1 .. n : events[i].act = f.act /\ events[i].type \in VerdictTypes
    BY <1>2, <1>4 DEF HasVerdict, Says
  <2>2. events'[i].act = f.act /\ events'[i].type \in VerdictTypes /\ i \in 1 .. ((n + 1) - 1)
    BY <1>1, <1>2, <2>1
  <2>3. n + 1 \in DOMAIN events' /\ events'[n + 1].type \in VerdictTypes
        /\ \E k \in 1 .. ((n + 1) - 1) : events'[k].act = events'[n + 1].act
                                         /\ events'[k].type \in VerdictTypes
    BY <1>2, <1>4, <2>2
  <2> QED BY <2>3 DEF JudgedTwice, JudgesIt
<1>5. ASSUME JudgedTwice', ~JudgedTwice PROVE f.type \in VerdictTypes /\ HasVerdict(f.act)
  <2>1. PICK j \in 1 .. n + 1 :
           /\ events'[j].type \in VerdictTypes
           /\ \E i \in 1 .. (j - 1) : events'[i].act = events'[j].act
                                      /\ events'[i].type \in VerdictTypes
    BY <1>2, <1>5 DEF JudgedTwice, JudgesIt
  <2>2. PICK i \in 1 .. (j - 1) : events'[i].act = events'[j].act /\ events'[i].type \in VerdictTypes
    BY <2>1
  <2>3. i \in 1 .. n
    BY <1>1, <2>1, <2>2
  <2>4. CASE j \in 1 .. n
    BY <1>2, <1>5, <2>1, <2>2, <2>3, <2>4 DEF JudgedTwice, JudgesIt
  <2>5. CASE j = n + 1
    BY <1>2, <2>1, <2>2, <2>3, <2>5 DEF HasVerdict, Says
  <2> QED BY <1>2, <2>4, <2>5
<1> QED BY <1>3, <1>4, <1>5

(* An event that neither starts nor ends a mutation.                       *)
LEMMA OtherEventKeeps ==
  ASSUME ChainGood, StartsGood, NEW f, events' = Append(events, f),
         f.type # "mutation.started", f.type \notin VerdictTypes,
         State \in Undecided => State' \in Undecided
  PROVE  /\ StartsGood'
         /\ \A i, a : StartsIt(i, a) /\ i \in DOMAIN events /\ LastStart(i)
                         => i \in DOMAIN events' /\ StartsIt(i, a)' /\ LastStart(i)'
<1>1. PICK n \in Nat : n = Len(events)
  BY DEF ChainGood
<1>2. /\ DOMAIN events = 1 .. n /\ DOMAIN events' = 1 .. n + 1
      /\ \A i \in 1 .. n : /\ i \in 1 .. n + 1 /\ events'[i] = events[i]
                           /\ (IsStart(i)' <=> IsStart(i))
                           /\ \A a : JudgesIt(i, a)' <=> JudgesIt(i, a)
      /\ \A i \in 1 .. n + 1 : IsStart(i)' => i \in 1 .. n
  BY <1>1, ChainAfter
<1>3. ASSUME NEW i \in 1 .. n, LastStart(i) PROVE LastStart(i)'
  BY <1>2, <1>3 DEF LastStart
<1>4. ASSUME NEW i \in 1 .. n, Answered(i) PROVE Answered(i)'
  BY <1>2, <1>4 DEF Answered
<1>5. ASSUME NEW i \in 1 .. n, IsStart(i)
      PROVE  /\ Answered(i)' \/ (State' \in Undecided /\ LastStart(i)')
             /\ \A j \in 1 .. n + 1 : i < j /\ IsStart(j)' =>
                   \E v \in 1 .. n + 1 : i < v /\ v < j /\ JudgesIt(v, events[i].act)'
  BY <1>2, <1>3, <1>4, <1>5 DEF StartsGood, JudgesIt
<1>6. StartsGood'
  BY <1>2, <1>5 DEF StartsGood, Undecided
<1>7. ASSUME NEW i \in 1 .. n, NEW a, StartsIt(i, a) PROVE StartsIt(i, a)'
  BY <1>2, <1>7 DEF StartsIt
<1> QED BY <1>2, <1>3, <1>6, <1>7

(* A mutation that starts when none is undecided: all before it have their *)
(* verdict, its own earlier start too.                                     *)
LEMMA StartKeeps ==
  ASSUME ChainGood, StartsGood, NEW f, events' = Append(events, f), NEW a, f.act = a,
         f.type = "mutation.started", State \notin Undecided, State' \in Undecided
  PROVE  /\ StartsGood'
         /\ \E i \in DOMAIN events' : StartsIt(i, a)' /\ LastStart(i)'
         /\ HasStart(a) => HasVerdict(a)
<1>1. PICK n \in Nat : n = Len(events)
  BY DEF ChainGood
<1>2. /\ DOMAIN events = 1 .. n /\ DOMAIN events' = 1 .. n + 1
      /\ \A i \in 1 .. n : /\ i \in 1 .. n + 1 /\ i < n + 1 /\ events'[i] = events[i]
                           /\ (IsStart(i)' <=> IsStart(i))
                           /\ \A b : JudgesIt(i, b)' <=> JudgesIt(i, b)
      /\ n + 1 \in 1 .. n + 1 /\ events'[n + 1] = f
      /\ \A i \in 1 .. n + 1 : i = n + 1 \/ i \in 1 .. n
  BY <1>1, ChainAfter
<1>3. ASSUME NEW i \in 1 .. n, IsStart(i)
      PROVE  \E v \in 1 .. n : i < v /\ JudgesIt(v, events[i].act)
  BY <1>2, <1>3 DEF StartsGood, Answered
<1>4. LastStart(n + 1)'
  <2>1. \A j \in 1 .. n + 1 : ~(n + 1 < j)
    BY <1>1
  <2> QED BY <1>2, <2>1 DEF LastStart
<1>5. ASSUME NEW i \in 1 .. n, IsStart(i)
      PROVE  /\ Answered(i)'
             /\ \A j \in 1 .. n + 1 : i < j /\ IsStart(j)' =>
                   \E v \in 1 .. n + 1 : i < v /\ v < j /\ JudgesIt(v, events[i].act)'
  <2>1. PICK v \in 1 .. n : i < v /\ JudgesIt(v, events[i].act)
    BY <1>3, <1>5
  <2>2. v \in 1 .. n + 1 /\ JudgesIt(v, events[i].act)' /\ v < n + 1
    BY <1>2, <2>1 DEF JudgesIt
  <2>3. Answered(i)'
    BY <1>2, <2>1, <2>2 DEF Answered
  <2>4. ASSUME NEW j \in 1 .. n, i < j, IsStart(j)'
        PROVE  \E w \in 1 .. n + 1 : i < w /\ w < j /\ JudgesIt(w, events[i].act)'
    <3>1. IsStart(j)
      BY <1>2, <2>4
    <3>2. \E w \in 1 .. n : i < w /\ w < j /\ JudgesIt(w, events[i].act)
      BY <1>2, <1>5, <2>4, <3>1 DEF StartsGood
    <3> QED BY <1>2, <3>2 DEF JudgesIt
  <2> QED BY <1>2, <2>1, <2>2, <2>3, <2>4
<1>6. \A j \in 1 .. n + 1 : ~(n + 1 < j)
  BY <1>1
<1>7. ASSUME NEW i \in 1 .. n + 1, IsStart(i)'
      PROVE  /\ Answered(i)' \/ (State' \in Undecided /\ LastStart(i)')
             /\ \A j \in 1 .. n + 1 : i < j /\ IsStart(j)' =>
                   \E v \in 1 .. n + 1 : i < v /\ v < j /\ JudgesIt(v, events[i].act)'
  <2>1. CASE i = n + 1
    BY <1>4, <1>6, <2>1
  <2>2. CASE i \in 1 .. n
    BY <1>2, <1>5, <1>7, <2>2
  <2> QED BY <1>2, <2>1, <2>2
<1>8. StartsGood'
  BY <1>2, <1>7 DEF StartsGood, Undecided
<1>9. StartsIt(n + 1, a)'
  BY <1>2 DEF StartsIt
<1>10. ASSUME HasStart(a) PROVE HasVerdict(a)
  <2>1. PICK i \in 1 .. n : events[i].act = a /\ events[i].type = "mutation.started"
    BY <1>2, <1>10 DEF HasStart, Says
  <2>2. PICK v \in 1 .. n : i < v /\ JudgesIt(v, a)
    BY <1>3, <2>1 DEF IsStart
  <2> QED BY <1>2, <2>2 DEF HasVerdict, Says, JudgesIt
<1> QED BY <1>2, <1>4, <1>8, <1>9, <1>10

(* The first verdict of a mutation that has started is of the last one     *)
(* that has.                                                               *)
LEMMA VerdictKeeps ==
  ASSUME ChainGood, StartsGood, NEW f, events' = Append(events, f), NEW a, f.act = a,
         f.type \in VerdictTypes, HasStart(a), ~HasVerdict(a)
  PROVE  /\ StartsGood'
         /\ \A i \in DOMAIN events : IsStart(i) /\ LastStart(i) => events[i].act = a
<1>1. PICK n \in Nat : n = Len(events)
  BY DEF ChainGood
<1>2. /\ DOMAIN events = 1 .. n /\ DOMAIN events' = 1 .. n + 1
      /\ \A i \in 1 .. n : /\ i \in 1 .. n + 1 /\ i < n + 1 /\ events'[i] = events[i]
                           /\ (IsStart(i)' <=> IsStart(i))
                           /\ \A b : JudgesIt(i, b)' <=> JudgesIt(i, b)
      /\ n + 1 \in 1 .. n + 1
      /\ \A b : JudgesIt(n + 1, b)' <=> f.act = b /\ f.type \in VerdictTypes
  BY <1>1, ChainAfter
<1>3. \A i \in 1 .. n + 1 : IsStart(i)' => i \in 1 .. n
  <2>1. /\ IsStart(n + 1)' <=> f.type = "mutation.started"
        /\ \A i \in 1 .. n + 1 : i = n + 1 \/ i \in 1 .. n
    BY <1>1, ChainAfter
  <2> QED BY <2>1 DEF VerdictTypes
<1>4. PICK k \in 1 .. n : events[k].act = a /\ IsStart(k)
  BY <1>2 DEF HasStart, Says, IsStart
<1>5. ~Answered(k)
  BY <1>2, <1>4 DEF Answered, HasVerdict, Says, JudgesIt
<1>6. State \in Undecided /\ LastStart(k)
  BY <1>2, <1>4, <1>5 DEF StartsGood
<1>7. \A i \in 1 .. n : IsStart(i) /\ LastStart(i) => i = k
  BY <1>2, <1>4, <1>6 DEF LastStart
<1>8. ASSUME NEW i \in 1 .. n, IsStart(i) PROVE Answered(i)'
  <2>1. CASE Answered(i)
    BY <1>2, <2>1 DEF Answered
  <2>2. CASE ~Answered(i)
    <3>1. i = k
      BY <1>2, <1>7, <1>8, <2>2 DEF StartsGood
    <3>2. JudgesIt(n + 1, events[i].act)'
      BY <1>2, <1>4, <3>1 DEF JudgesIt
    <3> QED BY <1>2, <3>2 DEF Answered
  <2> QED BY <2>1, <2>2
<1>9. ASSUME NEW i \in 1 .. n, IsStart(i)
      PROVE  \A j \in 1 .. n + 1 : i < j /\ IsStart(j)' =>
                \E v \in 1 .. n + 1 : i < v /\ v < j /\ JudgesIt(v, events[i].act)'
  BY <1>2, <1>3, <1>9 DEF StartsGood, JudgesIt
<1>10. StartsGood'
  BY <1>2, <1>3, <1>8, <1>9 DEF StartsGood
<1> QED BY <1>2, <1>4, <1>7, <1>10

(* A mutation that has started is on its way to the provider.              *)
LEMMA ToRunStep ==
  ASSUME LedgerInv, [ControlNext]_vars, NEW r \in Requests, Works(r), Mutates(r),
         thread'[r].pc = "run"
  PROVE  \/ At(r) = "run" /\ ~RunAct(r)
         \/ AppendEvent(r) /\ Extends(r) /\ Starting(thread[r]) /\ thread[r].ok = "run"
<1> DEFINE x == thread[r]
           y == thread'[r]
<1>1. /\ AlwaysInv /\ ThreadsGood /\ Shape(r, x) /\ x \in ThreadRecords
  BY DEF LedgerInv, AlwaysInv, ThreadsGood
<1>2. RunAct(r) => y.pc = "running"
  BY <1>1, ExecuteLeads
<1>3. CASE Step(r)
  <2>1. CASE Verify(r) \/ Reserve(r) \/ Prepare(r) \/ Own(r) \/ Mark(r) \/ RunAct(r) \/ Answer(r)
             \/ Reject(r) \/ Retry(r)
    BY <1>1, <2>1, ExecuteLeads DEF Signs
  <2>2. CASE \/ Complete(r) \/ Persist(r) \/ Recover(r) \/ Proof(r) \/ Resolve(r) \/ AskAgain(r)
    BY <1>1, <2>2, RecoverLeads
  <2>3. CASE Known(r)
    BY <1>1, <2>3, KnownStep DEF KnownLeads
  <2>4. CASE Sign(r) \/ AppendEvent(r)
    <3>1. x.pc \in EventPcs /\ (Starting(x) \/ Judging(x) \/ Doubting(x))
      BY <1>1, <2>4 DEF Sign, AppendEvent, At, EventPcs, Shape
    <3>2. x.ko # "run" /\ (x.ok = "run" => Starting(x))
      BY <3>1 DEF Starting, Judging, Doubting
    <3>3. y = [x EXCEPT !.pc = "append", !.seen = Len(events)] => y.pc = "append"
      BY <1>1 DEF ThreadRecords
    <3>4. AppendEvent(r) /\ MayAppend(r, Act(r), x.ev) => Extends(r)
      BY DEF AppendEvent, Extends
    <3> QED BY <1>1, <2>4, <3>2, <3>3, <3>4, EventLeads
  <2>5. CASE Snapshot(r) \/ Ensure(r) \/ FindLease(r) \/ IssueLease(r) \/ PublishSnapshot(r)
    BY <1>1, <2>5 DEF Snapshot, Ensure, FindLease, IssueLease, PublishSnapshot, At, Shape, Works,
                      WorkPcs, EventPcs
  <2> QED BY <1>3, <2>1, <2>2, <2>3, <2>4, <2>5 DEF Step
<1>4. CASE ~Step(r)
  <2>1. \A q \in Requests : Step(q) => y = x
    BY <1>1, <1>4, OthersStay
  <2>2. Crash => y \in {x, [Idle EXCEPT !.pc = "done"]}
    BY DEF Crash
  <2>3. [Idle EXCEPT !.pc = "done"].pc = "done"
    BY DEF Idle
  <2>4. y = x
    BY <2>1, <2>2, <2>3 DEF ControlNext, vars, Decide, Refresh, Expire
  <2> QED BY <1>2, <2>4 DEF At
<1> QED BY <1>3, <1>4

(* What an event that is appended does to the starts and to who is to run. *)
LEMMA AppendKeepsStarts ==
  ASSUME LedgerInv, [ControlNext]_vars, NEW r \in Requests, AppendEvent(r), Extends(r), ~JudgedTwice'
  PROVE  /\ StartsGood'
         /\ \A q \in Requests : ToRun(q)' =>
               /\ State' \in Undecided
               /\ \E i \in DOMAIN events' : StartsIt(i, Act(q))' /\ LastStart(i)'
               /\ runs[Act(q)] = 0 \/ HasVerdict(Act(q))'
               /\ \A u \in Requests : ToRun(u)' => u = q
<1> DEFINE x == thread[r]
           f == Appending(r)
           a == Act(r)
<1>1. /\ AlwaysInv /\ ThreadsGood /\ ChainGood /\ Shape(r, x) /\ UNCHANGED world
      /\ \A q : Act(q)' = Act(q) /\ (Works(q)' <=> Works(q)) /\ (Mutates(q)' <=> Mutates(q))
  BY StoreStep, SamePlan DEF LedgerInv, AlwaysInv, ThreadsGood
<1>2. /\ events' = Append(events, f) /\ f.act = a /\ f.type = x.ev.type /\ f.after = x.ev.after
      /\ Admits(f.type, State)
  BY <1>1, AppendingIsGood DEF Appending
<1>3. State' = f.after
  <2> HIDE DEF f
  <2> QED BY <1>1, <1>2, Appended
<1>4. ~JudgedTwice /\ (f.type \in VerdictTypes => ~HasVerdict(a))
  <2> HIDE DEF f
  <2> QED BY <1>1, <1>2, TwiceAfter
<1>5. StartsGood /\ RunsAlone
  BY <1>4 DEF LedgerInv
<1>6. ASSUME NEW q \in Requests, ToRun(q)'
      PROVE  ToRun(q) \/ (q = r /\ Starting(x) /\ x.ok = "run")
  <2>1. Works(q) /\ Mutates(q) /\ thread'[q].pc = "run"
    BY <1>1, <1>6 DEF ToRun, At
  <2>2. CASE At(q) = "run"
    BY <2>1, <2>2 DEF ToRun
  <2>3. CASE AppendEvent(q) /\ Starting(thread[q]) /\ thread[q].ok = "run"
    <3>1. q # r => thread'[q] = thread[q]
      BY <1>1, OthersStay DEF Step
    <3>2. At(q) = "append"
      BY <2>3 DEF AppendEvent
    <3> QED BY <2>1, <2>3, <3>1, <3>2 DEF At
  <2> QED BY <2>1, <2>2, <2>3, ToRunStep
<1>7. x.pc \in EventPcs
  BY DEF AppendEvent, At, EventPcs
<1>8. CASE ~Works(r)
  <2>1. Owning(x)
    BY <1>1, <1>7, <1>8 DEF Shape
  <2>2. /\ f.type \in OwningTypes /\ State \notin Undecided /\ x.ok # "run"
    BY <1>2, <2>1 DEF Owning, OwningTypes, Admits, Undecided
  <2>3. StartsGood'
    <3> HIDE DEF f
    <3> QED BY <1>1, <1>2, <1>5, <2>2, OtherEventKeeps DEF OwningTypes, VerdictTypes
  <2> QED BY <1>5, <1>6, <2>2, <2>3 DEF RunsAlone
<1>9. ASSUME Works(r)
      PROVE  /\ Mutates(r) /\ (Starting(x) \/ Judging(x) \/ Doubting(x))
             /\ KnowsAt(x, acts[a].state, HasStart(a), runs[a], fate[a]) /\ RowGood(a)
  <2>1. Mutates(r) /\ (Starting(x) \/ Judging(x) \/ Doubting(x))
    BY <1>1, <1>7, <1>9 DEF Shape
  <2> QED BY <1>9, <2>1, AtItsRow
<1>10. CASE Works(r) /\ Starting(x)
  <2>1. /\ f.type = "mutation.started" /\ State \notin Undecided /\ State' \in Undecided
    BY <1>2, <1>3, <1>10 DEF Starting, Admits, Undecided, Owned
  <2>2. /\ StartsGood' /\ (HasStart(a) => HasVerdict(a))
        /\ \E i \in DOMAIN events' : StartsIt(i, a)' /\ LastStart(i)'
    <3> HIDE DEF f
    <3>1. PICK b : b = a
      OBVIOUS
    <3>2. /\ StartsGood' /\ (HasStart(b) => HasVerdict(b))
          /\ \E i \in DOMAIN events' : StartsIt(i, b)' /\ LastStart(i)'
      BY <1>1, <1>2, <1>5, <2>1, <3>1, StartKeeps
    <3> QED BY <1>1, <3>1, <3>2 DEF StartsIt
  <2>3. runs[a] = 0 \/ HasVerdict(a)'
    <3>1. runs[a] = 0 \/ HasStart(a)
      <4>1. a \in Acts /\ runs[a] \in 0 .. 2
        BY <1>9, <1>10, AtItsRow
      <4> QED BY <1>9, <1>10, <4>1 DEF RowGood, RowAt
    <3>2. HasVerdict(a) => HasVerdict(a)'
      <4> HIDE DEF f
      <4>1. PICK b : b = a
        OBVIOUS
      <4>2. HasVerdict(b) => HasVerdict(b)'
        BY <1>1, <1>2, <4>1, EventsSay
      <4> QED BY <1>1, <4>1, <4>2 DEF HasVerdict, Says
    <3> QED BY <2>2, <3>1, <3>2
  <2>4. \A q \in Requests : ToRun(q)' => q = r
    BY <1>5, <1>6, <2>1 DEF RunsAlone
  <2> QED BY <1>1, <2>1, <2>2, <2>3, <2>4
<1>11. CASE Works(r) /\ Judging(x)
  <2>1. f.type \in VerdictTypes /\ x.ok # "run" /\ x.ev.verdict \in Final
    BY <1>2, <1>11 DEF Judging
  <2>2. fate[a] \in Final
    BY <1>7, <1>9, <1>11, <2>1 DEF KnowsAt
  <2>3. runs[a] # 0 /\ HasStart(a) /\ ~HasVerdict(a)
    <3>1. a \in Acts /\ runs[a] \in 0 .. 2
      BY <1>9, <1>11, AtItsRow
    <3> QED BY <1>4, <1>9, <1>11, <2>1, <2>2, <3>1 DEF RowGood, RowAt, Final
  <2>4. /\ StartsGood'
        /\ \A i \in DOMAIN events : IsStart(i) /\ LastStart(i) => events[i].act = a
    <3> HIDE DEF f
    <3> QED BY <1>1, <1>2, <1>5, <2>1, <2>3, VerdictKeeps
  <2>5. ASSUME NEW q \in Requests, ToRun(q) PROVE FALSE
    <3>1. PICK i \in DOMAIN events : StartsIt(i, Act(q)) /\ LastStart(i)
      BY <1>5, <2>5 DEF RunsAlone
    <3>2. Act(q) = a
      BY <2>4, <3>1 DEF StartsIt, IsStart
    <3> QED BY <1>5, <2>3, <2>5, <3>2 DEF RunsAlone
  <2> QED BY <1>6, <2>1, <2>4, <2>5
<1>12. CASE Works(r) /\ Doubting(x)
  <2>1. /\ f.type \notin VerdictTypes \cup {"mutation.started"} /\ State' \in Undecided /\ x.ok # "run"
    BY <1>2, <1>3, <1>12 DEF Doubting, VerdictTypes, Undecided
  <2>2. /\ StartsGood'
        /\ \A i, b : StartsIt(i, b) /\ i \in DOMAIN events /\ LastStart(i)
                        => i \in DOMAIN events' /\ StartsIt(i, b)' /\ LastStart(i)'
    <3> HIDE DEF f
    <3> QED BY <1>1, <1>2, <1>5, <2>1, OtherEventKeeps
  <2>3. \A b : HasVerdict(b) => HasVerdict(b)'
    <3> HIDE DEF f
    <3> QED BY <1>1, <1>2, EventsSay
  <2>4. ASSUME NEW q \in Requests, ToRun(q)'
        PROVE  /\ \E i \in DOMAIN events' : StartsIt(i, Act(q))' /\ LastStart(i)'
               /\ runs[Act(q)] = 0 \/ HasVerdict(Act(q))'
    <3>1. ToRun(q)
      BY <1>6, <2>1, <2>4
    <3>2. PICK b : b = Act(q)
      OBVIOUS
    <3>3. \E i \in DOMAIN events : StartsIt(i, b) /\ LastStart(i)
      BY <1>5, <3>1, <3>2 DEF RunsAlone
    <3>4. \E i \in DOMAIN events' : StartsIt(i, b)' /\ LastStart(i)'
      BY <2>2, <3>3
    <3>5. runs[b] = 0 \/ HasVerdict(b)'
      BY <1>5, <2>3, <3>1, <3>2 DEF RunsAlone
    <3> QED BY <1>1, <3>2, <3>4, <3>5 DEF StartsIt, HasVerdict, Says
  <2>5. \A q, u \in Requests : ToRun(q)' /\ ToRun(u)' => u = q
    BY <1>5, <1>6, <2>1 DEF RunsAlone
  <2> QED BY <2>1, <2>2, <2>4, <2>5
<1> QED BY <1>8, <1>9, <1>10, <1>11, <1>12

LEMMA StartsStep ==
  ASSUME LedgerInv, [ControlNext]_vars
  PROVE  JudgedTwice' \/ (StartsGood' /\ RunsAlone')
<1>1. /\ AlwaysInv /\ ChainGood /\ UNCHANGED world /\ Requests' = Requests
      /\ \A q : Act(q)' = Act(q) /\ (Works(q)' <=> Works(q)) /\ (Mutates(q)' <=> Mutates(q))
  BY StoreStep, SamePlan DEF LedgerInv, AlwaysInv
<1>2. UNCHANGED events \/ \E r \in Requests : AppendEvent(r) /\ Extends(r)
  <2>1. \A r \in Requests : AppendEvent(r) => Extends(r) \/ UNCHANGED events
    BY DEF AppendEvent, Extends, store
  <2> QED BY <2>1, WhoTouchesWhat
<1>3. CASE UNCHANGED events
  <2>1. /\ State' = State /\ (JudgedTwice' <=> JudgedTwice) /\ (StartsGood' <=> StartsGood)
        /\ \A b : HasVerdict(b)' <=> HasVerdict(b)
        /\ \A i, b : (StartsIt(i, b)' <=> StartsIt(i, b)) /\ (LastStart(i)' <=> LastStart(i))
    BY <1>3, EventsSayNothingNew DEF StartsIt, LastStart, IsStart
  <2>2. CASE JudgedTwice
    BY <2>1, <2>2
  <2>3. CASE ~JudgedTwice
    <3>1. StartsGood /\ RunsAlone
      BY <2>3 DEF LedgerInv
    <3>2. ASSUME NEW q \in Requests, ToRun(q)'
          PROVE  ToRun(q) /\ ~RunAct(q)
      <4>1. Works(q) /\ Mutates(q) /\ thread'[q].pc = "run"
        BY <1>1, <3>2 DEF ToRun, At
      <4>2. ~Extends(q)
        <5>1. Extends(q) => Len(events') = Len(events) + 1 /\ Len(events) \in Nat
          BY <1>1, AppendingIsGood, Appended
        <5> QED BY <1>3, <5>1
      <4> QED BY <4>1, <4>2, ToRunStep DEF ToRun
    <3>3. ASSUME NEW q \in Requests, ToRun(q)' PROVE runs'[Act(q)] = runs[Act(q)]
      <4>1. CASE runs' = runs
        BY <4>1
      <4>2. ASSUME NEW r \in Requests, RunAct(r), At(r) = "run", Works(r), Act(r) \in Acts
            PROVE  runs'[Act(q)] = runs[Act(q)]
        <5>1. CASE Act(r) = Act(q)
          <6>1. ToRun(r) /\ ToRun(q) /\ ~RunAct(q)
            BY <3>2, <3>3, <4>2, <5>1 DEF ToRun, Mutates
          <6> QED BY <3>1, <4>2, <6>1 DEF RunsAlone
        <5>2. CASE Act(r) # Act(q)
          <6>1. Act(q) \in Acts /\ runs \in [Acts -> 0 .. 2]
            <7>1. Works(q)
              BY <3>2, <3>3 DEF ToRun
            <7> QED BY <1>1, <7>1, RequestsAreGood DEF AlwaysInv, StoreGood
          <6> QED BY <4>2, <5>2, <6>1 DEF RunAct
        <5> QED BY <5>1, <5>2
      <4> QED BY <1>1, <4>1, <4>2, RunsMove
    <3>4. ASSUME NEW q \in Requests, ToRun(q)', NEW b, b = Act(q)
          PROVE  /\ State' \in Undecided
                 /\ \E i \in DOMAIN events' : StartsIt(i, b)' /\ LastStart(i)'
                 /\ runs'[b] = 0 \/ HasVerdict(b)'
                 /\ \A u \in Requests : ToRun(u)' => u = q
      BY <1>3, <2>1, <3>1, <3>2, <3>3, <3>4 DEF RunsAlone
    <3>5. RunsAlone'
      <4>1. ASSUME NEW q \in Requests, ToRun(q)'
            PROVE  /\ State' \in Undecided
                   /\ \E i \in DOMAIN events' : StartsIt(i, Act(q))' /\ LastStart(i)'
                   /\ runs'[Act(q)] = 0 \/ HasVerdict(Act(q))'
                   /\ \A u \in Requests : ToRun(u)' => u = q
        <5>1. PICK b : b = Act(q)
          OBVIOUS
        <5> QED BY <1>1, <3>4, <4>1, <5>1 DEF StartsIt, HasVerdict, Says
      <4> QED BY <1>1, <4>1 DEF RunsAlone, Undecided
    <3> QED BY <2>1, <3>1, <3>5
  <2> QED BY <2>2, <2>3
<1>4. ASSUME NEW r \in Requests, AppendEvent(r), Extends(r), ~JudgedTwice'
      PROVE  StartsGood' /\ RunsAlone'
  <2>1. UNCHANGED runs
    BY <1>4 DEF AppendEvent, provider
  <2>2. /\ StartsGood'
        /\ \A q \in Requests : ToRun(q)' =>
              /\ State' \in Undecided
              /\ \E i \in DOMAIN events' : StartsIt(i, Act(q))' /\ LastStart(i)'
              /\ runs[Act(q)] = 0 \/ HasVerdict(Act(q))'
              /\ \A u \in Requests : ToRun(u)' => u = q
    BY <1>4, AppendKeepsStarts
  <2> QED BY <1>1, <2>1, <2>2 DEF RunsAlone, Undecided
<1> QED BY <1>2, <1>3, <1>4

(* The invariant.                                                          *)
LEMMA LedgerInit ==
  ASSUME ControlInit
  PROVE  LedgerInv
<1>1. /\ AlwaysInv /\ events = <<>> /\ thread = [r \in Requests |-> Idle]
      /\ acts = [a \in Acts |-> [state |-> "new", snap |-> 0, gen |-> 0]]
      /\ runs = [a \in Acts |-> 0] /\ fate = [a \in Acts |-> "none"]
  BY AlwaysInit DEF ControlInit, Requests
<1>2. \A a, ty : ~Says(a, ty)
  BY <1>1 DEF Says
<1>3. RowsGood
  BY <1>1, <1>2 DEF RowsGood, RowGood, RowAt, HasStart, HasVerdict, Mutations
<1>4. \A r \in Requests : thread[r].pc = "ready" /\ At(r) = "ready" /\ ~Nears(thread[r])
  BY <1>1 DEF Idle, At, Nears, EventPcs
<1>5. NobodyElse
  BY <1>4 DEF NobodyElse, AloneWith
<1>6. \A r \in Requests : Knows(r) /\ Executing(r)
  BY <1>4, QuietKnows DEF Knows, Executing, Quiet
<1>7. StartsGood /\ RunsAlone
  BY <1>1, <1>4 DEF StartsGood, RunsAlone, ToRun
<1> QED BY <1>1, <1>3, <1>5, <1>6, <1>7 DEF LedgerInv

LEMMA LedgerStep ==
  ASSUME LedgerInv, [ControlNext]_vars
  PROVE  LedgerInv'
<1>1. AlwaysInv'
  BY AlwaysStep DEF LedgerInv
<1> QED BY <1>1, RowsStep, AloneStep, KnowledgeStep, StartsStep DEF LedgerInv

LEMMA LedgerHolds == ControlSpec => []LedgerInv
<1>1. ControlInit => LedgerInv
  BY LedgerInit
<1>2. LedgerInv /\ [ControlNext]_vars => LedgerInv'
  BY LedgerStep
<1> QED BY <1>1, <1>2, PTL DEF ControlSpec, ControlSafety

------------------------------------------------------------------------------
(* The theorems about the ledger.                                          *)

(* Each event continues the typestate the one before it left, is one the   *)
(* schema admits there, and is of no older generation                      *)
(* (append_protocol_event), whatever requests, crashes and generations     *)
(* come.                                                                   *)
THEOREM TheChainContinues == ControlSpec => []ChainContinues
<1>1. AlwaysInv => ChainContinues
  BY DEF AlwaysInv, ChainGood, ChainContinues
<1> QED BY <1>1, AlwaysHolds, PTL

(* What the events tell of each mutation is what the ledger holds, and what*)
(* the ledger holds final the provider did; the next one starts after the  *)
(* last has its verdict, unless one was told twice; whatever requests,     *)
(* twins, late answers, crashes and generations come                       *)
(* (append_protocol_event, complete_protocol_action).                      *)
THEOREM TheLedgerIsTold == ControlSpec => []EventsTellTheLedger
<1>1. ASSUME LedgerInv PROVE EventsTellTheLedger
  <2>1. ChainContinues
    BY <1>1 DEF LedgerInv, AlwaysInv, ChainGood, ChainContinues
  <2>2. ASSUME NEW a \in Mutations,
               NEW h, h = \E i \in DOMAIN events : StartsIt(i, a),
               NEW w, w = {events[i].type : i \in {j \in DOMAIN events : JudgesIt(j, a)}}
        PROVE  /\ acts[a].state \in {"new", "reserved"} => runs[a] = 0 /\ ~h
               /\ runs[a] > 0 => h
               /\ w # {} => acts[a].state \in Final
               /\ "mutation.applied" \in w => acts[a].state = "applied"
               /\ "mutation.rejected" \in w => acts[a].state = "rejected"
               /\ acts[a].state = "applied" => h /\ w # {} /\ fate[a] = "applied"
    <3>1. RowGood(a)
      BY <1>1 DEF LedgerInv, RowsGood
    <3>2. h <=> HasStart(a)
      BY <2>2 DEF HasStart, Says, StartsIt
    <3>3. /\ w # {} <=> HasVerdict(a)
          /\ "mutation.applied" \in w <=> Says(a, "mutation.applied")
          /\ "mutation.rejected" \in w <=> Says(a, "mutation.rejected")
      BY <2>2 DEF HasVerdict, Says, JudgesIt, VerdictTypes
    <3> QED BY <3>1, <3>2, <3>3 DEF RowGood, RowAt
  <2>3. VerdictsAreTold
    BY <2>2 DEF VerdictsAreTold
  <2>4. StartsAreAnswered
    <3>1. CASE JudgedTwice
      BY <3>1 DEF StartsAreAnswered
    <3>2. ASSUME NEW a, NEW b, NEW i \in DOMAIN events, NEW j \in DOMAIN events, StartsGood,
                 i < j, StartsIt(i, a), StartsIt(j, b)
          PROVE  \E v \in DOMAIN events : i < v /\ v < j /\ JudgesIt(v, a)
      BY <3>2 DEF StartsGood, IsStart, StartsIt
    <3> QED BY <1>1, <3>1, <3>2 DEF LedgerInv, StartsAreAnswered
  <2> QED BY <2>1, <2>3, <2>4 DEF EventsTellTheLedger
<1> QED BY <1>1, LedgerHolds, PTL

(* One phone holds the lease, one confirmation lets one action through, and*)
(* where no verdict was told twice nobody hands a mutation to the provider *)
(* when the session has ended (issue_protocol_lease,                       *)
(* consume_protocol_confirmation, execute).                                *)
THEOREM AuthorityStaysExclusive == ControlSpec => []AuthorityIsExclusive
<1>1. LedgerInv => JudgedTwice \/ NothingAfterTheEnd
  BY DEF LedgerInv, RunsAlone, ToRun, Works, NothingAfterTheEnd, Terminal, Undecided
<1> QED BY <1>1, LedgerHolds, OnePhoneHoldsTheLease, OneActionIsConfirmed, PTL DEF AuthorityIsExclusive

------------------------------------------------------------------------------
(* The promise: each step is one of ControlPromise's, or none.             *)

Masked(a) == a \in world.reads
Told == [a \in Acts |-> IF Masked(a) THEN "open"
                        ELSE IF acts[a].state \in Final THEN acts[a].state
                        ELSE IF acts[a].state \in Ambiguous THEN "unknown" ELSE "open"]
Ran == [a \in Acts |-> IF Masked(a) THEN 0 ELSE runs[a]]
Became == [a \in Acts |-> IF Masked(a) THEN "none" ELSE fate[a]]
Joined == twins \ world.reads
Blind == Faulty("contract")

(* The steps of the promise, of these.                                     *)
PromisedJoin(a) ==
    /\ Told[a] = "open" /\ Ran[a] = 0 /\ Joined' = Joined \cup {a}
    /\ Told' = Told /\ Ran' = Ran /\ Became' = Became /\ Blind' = Blind /\ JudgedTwice' = JudgedTwice
PromisedRun(a) ==
    /\ a \in Joined \/ (Ran[a] = 0 /\ Told[a] \notin Final)
    /\ JudgedTwice \/ \A b \in Acts \ {a} : Ran[b] > 0 => Told[b] \in Final
    /\ Ran' = [Ran EXCEPT ![a] = Ran[a] + 1]
    /\ Became' = [Became EXCEPT ![a] = IF Became[a] = "none" THEN "working" ELSE Became[a]]
    /\ Told' = Told /\ Joined' = Joined /\ Blind' = Blind /\ JudgedTwice' = JudgedTwice
PromisedDecide(a) ==
    /\ Became[a] = "working" /\ \E v \in Final : Became' = [Became EXCEPT ![a] = v]
    /\ Told' = Told /\ Ran' = Ran /\ Joined' = Joined /\ Blind' = Blind /\ JudgedTwice' = JudgedTwice
PromisedJudge(a) ==
    /\ Told[a] \notin Final
    /\ \E v \in Final \cup {"unknown"} :
          /\ v = "applied" => Became[a] = "applied"
          /\ v = "rejected" => Blind \/ a \in Joined \/ Became[a] \in {"none", "rejected"}
          /\ Told' = [Told EXCEPT ![a] = v]
    /\ Ran' = Ran /\ Became' = Became /\ Joined' = Joined /\ Blind' = Blind
    /\ JudgedTwice' = JudgedTwice
PromisedTellAgain(a) ==
    /\ Told[a] \in Final /\ JudgedTwice' = TRUE
    /\ Told' = Told /\ Ran' = Ran /\ Became' = Became /\ Joined' = Joined /\ Blind' = Blind
Promised ==
    \/ \E a \in Acts : \/ PromisedJoin(a) \/ PromisedRun(a) \/ PromisedDecide(a)
                       \/ PromisedJudge(a) \/ PromisedTellAgain(a)
    \/ /\ Told' = Told /\ Ran' = Ran /\ Became' = Became /\ Joined' = Joined /\ Blind' = Blind
       /\ JudgedTwice' = JudgedTwice

LEMMA PromisedIsPromise ==
  /\ Promised => [Promise!PromiseNext]_(Promise!PromiseVars)
  /\ ControlInit => Promise!PromiseInit
<1>1. \A a : PromisedJoin(a) => Promise!Join(a)
  BY DEF PromisedJoin, Told, Ran, Became, Joined, Blind, Masked, Promise!Join
<1>2. \A a : PromisedRun(a) => Promise!Run(a)
  BY DEF PromisedRun, Told, Ran, Became, Joined, Blind, Masked, Promise!Run, Promise!Final, Final
<1>3. \A a : PromisedDecide(a) => Promise!Decide(a)
  BY DEF PromisedDecide, Told, Ran, Became, Joined, Blind, Masked, Promise!Decide, Promise!Final, Final
<1>4. \A a : PromisedJudge(a) => Promise!Judge(a)
  BY DEF PromisedJudge, Told, Ran, Became, Joined, Blind, Masked, Promise!Judge, Promise!Final, Final
<1>5. \A a : PromisedTellAgain(a) => Promise!TellAgain(a)
  BY DEF PromisedTellAgain, Told, Ran, Became, Joined, Blind, Masked, Promise!TellAgain,
         Promise!Final, Final
<1>6. /\ Told' = Told /\ Ran' = Ran /\ Became' = Became /\ Joined' = Joined /\ Blind' = Blind
      /\ JudgedTwice' = JudgedTwice
      => UNCHANGED Promise!PromiseVars
  BY DEF Told, Ran, Became, Joined, Blind, Masked, Promise!PromiseVars, Final
<1>7. ControlInit => Promise!PromiseInit
  BY DEF ControlInit, Promise!PromiseInit, Faulty, Final, Ambiguous, JudgedTwice
<1> QED BY <1>1, <1>2, <1>3, <1>4, <1>5, <1>6, <1>7 DEF Promised, Promise!PromiseNext

(* How the state of a row may change: to a verdict that is what became of  *)
(* the action f, or to a rejection nobody was asked for.                   *)
Judged(s, z, f, c) ==
    \/ z = s
    \/ s \notin Verdicts /\ z \notin Verdicts
    \/ /\ s \notin Final /\ z \in Verdicts
       /\ z = "applied" => f = "applied"
       /\ z = "rejected" => c \/ f \in {"none", "rejected"}

(* Such a change of one row is the promise's Judge, or nothing to it.      *)
LEMMA JudgedIsPromised ==
  ASSUME UNCHANGED <<world, twins>>, JudgedTwice' <=> JudgedTwice, NEW a \in Mutations,
         Judged(acts[a].state, acts'[a].state, fate[a], Faulty("contract") \/ a \in twins),
         \A b \in Mutations : /\ b # a => acts'[b].state = acts[b].state
                              /\ runs'[b] = runs[b] /\ fate'[b] = fate[b]
  PROVE  Promised
<1>1. /\ a \in Acts /\ ~Masked(a) /\ \A b \in Acts : Masked(b) <=> b \notin Mutations
      /\ \A b : Masked(b)' <=> Masked(b)
  BY DEF Mutations, Masked
<1>2. /\ Ran' = Ran /\ Became' = Became /\ (Blind' <=> Blind) /\ Joined' = Joined
      /\ JudgedTwice' = JudgedTwice
  <2>1. Ran' = Ran /\ Became' = Became /\ (Blind' <=> Blind) /\ Joined' = Joined
    BY <1>1 DEF Ran, Became, Blind, Joined, Faulty
  <2>2. JudgedTwice' = JudgedTwice
    BY DEF JudgedTwice
  <2> QED BY <2>1, <2>2
<1>3. \A b \in Acts : b # a => Told'[b] = Told[b]
  BY <1>1 DEF Told
<1>4. Told = [b \in Acts |-> Told[b]] /\ Told' = [b \in Acts |-> Told'[b]]
  BY DEF Told
<1>5. Became[a] = fate[a] /\ (Blind <=> Faulty("contract")) /\ (a \in Joined <=> a \in twins)
  BY <1>1 DEF Became, Blind, Joined, Masked
<1>6. CASE \/ acts'[a].state = acts[a].state
           \/ acts[a].state \notin Verdicts /\ acts'[a].state \notin Verdicts
  <2>1. Told'[a] = Told[a]
    BY <1>1, <1>6 DEF Told, Verdicts
  <2>2. Told' = Told
    BY <1>3, <1>4, <2>1
  <2> QED BY <1>2, <2>2 DEF Promised
<1>7. CASE /\ acts[a].state \notin Final /\ acts'[a].state \in Verdicts
           /\ acts'[a].state = "applied" => fate[a] = "applied"
           /\ acts'[a].state = "rejected" => Faulty("contract") \/ a \in twins \/ fate[a] \in {"none", "rejected"}
  <2>1. Told[a] \notin Final /\ Told'[a] \in Final \cup {"unknown"}
        /\ (Told'[a] \in Final => Told'[a] = acts'[a].state)
    BY <1>1, <1>7 DEF Told, Verdicts, Final, Ambiguous
  <2>2. PICK v : v = Told'[a]
    OBVIOUS
  <2>3. Told' = [Told EXCEPT ![a] = v]
    BY <1>3, <1>4, <2>2
  <2>4. v = "applied" => Became[a] = "applied"
    BY <1>5, <1>7, <2>1, <2>2 DEF Final
  <2>5. v = "rejected" => Blind \/ a \in Joined \/ Became[a] \in {"none", "rejected"}
    BY <1>5, <1>7, <2>1, <2>2 DEF Final
  <2> HIDE DEF Told, Ran, Became, Joined, Blind
  <2>6. PromisedJudge(a)
    BY <1>2, <2>1, <2>2, <2>3, <2>4, <2>5 DEF PromisedJudge
  <2> QED BY <1>1, <2>6 DEF Promised
<1> QED BY <1>6, <1>7 DEF Judged

(* Where no mutation's row changes, nothing does to the promise.           *)
LEMMA SameToThePromise ==
  ASSUME UNCHANGED world,
         \A b \in Mutations : /\ acts'[b].state = acts[b].state
                              /\ runs'[b] = runs[b] /\ fate'[b] = fate[b]
  PROVE  Told' = Told /\ Ran' = Ran /\ Became' = Became /\ Blind' = Blind
<1>1. \A b \in Acts : (Masked(b)' <=> Masked(b)) /\ (Masked(b) <=> b \notin Mutations)
  BY DEF Mutations, Masked
<1> QED BY <1>1 DEF Told, Ran, Became, Blind, Faulty

(* A verdict is told again only of a mutation that has one.                *)
LEMMA TwiceStep ==
  ASSUME LedgerInv, [ControlNext]_vars
  PROVE  \/ JudgedTwice' <=> JudgedTwice
         \/ /\ JudgedTwice'
            /\ \E r \in Requests : /\ AppendEvent(r) /\ Works(r) /\ Mutates(r)
                                   /\ acts[Act(r)].state \in Final
<1>1. AlwaysInv /\ ChainGood /\ ThreadsGood
  BY DEF LedgerInv, AlwaysInv
<1>2. CASE UNCHANGED events
  BY <1>2, EventsSayNothingNew
<1>3. ASSUME NEW r \in Requests, AppendEvent(r), Extends(r)
      PROVE  \/ JudgedTwice' <=> JudgedTwice
             \/ JudgedTwice' /\ Works(r) /\ Mutates(r) /\ acts[Act(r)].state \in Final
  <2> DEFINE f == Appending(r)
             x == thread[r]
  <2>1. events' = Append(events, f) /\ f.act = Act(r) /\ f.type = x.ev.type
    BY <1>1, <1>3, AppendingIsGood DEF Appending
  <2>2. JudgedTwice' <=> JudgedTwice \/ (f.type \in VerdictTypes /\ HasVerdict(f.act))
    <3> HIDE DEF f
    <3> QED BY <1>1, <2>1, TwiceAfter
  <2>3. ASSUME f.type \in VerdictTypes, HasVerdict(f.act)
        PROVE  JudgedTwice' /\ Works(r) /\ Mutates(r) /\ acts[Act(r)].state \in Final
    <3>1. x.pc \in EventPcs /\ Shape(r, x)
      BY <1>1, <1>3 DEF AppendEvent, At, EventPcs, ThreadsGood
    <3>2. Works(r) /\ Mutates(r)
      BY <2>1, <2>3, <3>1 DEF Shape, Owning, OwningTypes, VerdictTypes
    <3>3. RowGood(Act(r))
      BY <3>2, AtItsRow
    <3> QED BY <2>1, <2>2, <2>3, <3>2, <3>3 DEF RowGood, RowAt
  <2> QED BY <2>2, <2>3
<1>4. UNCHANGED events \/ \E r \in Requests : AppendEvent(r) /\ Extends(r)
  <2>1. \A r \in Requests : AppendEvent(r) => Extends(r) \/ UNCHANGED events
    BY DEF AppendEvent, Extends, store
  <2> QED BY <2>1, WhoTouchesWhat
<1> QED BY <1>2, <1>3, <1>4

(* A request's steps change the state of its mutation's row as promised.   *)
LEMMA RequestsJudge ==
  ASSUME LedgerInv, NEW r \in Requests, Step(r), Works(r), Mutates(r), NEW a, a = Act(r)
  PROVE  Judged(acts[a].state, acts'[a].state, fate[a], Faulty("contract") \/ a \in twins)
<1> DEFINE x == thread[r]
           s == acts[a].state
           z == acts'[a].state
           f == fate[a]
           c == Faulty("contract") \/ a \in twins
<1>1. /\ a \in Mutations /\ RowGood(a) /\ KnowsAt(x, s, HasStart(a), runs[a], f)
      /\ runs[a] \in 0 .. 2
  BY AtItsRow
<1>2. z = s \/ Reserved(r, s, z) \/ Marked(r, s, z) \/ Refused(r, s, z) \/ Given(r, s, z)
  BY StateMoves
<1>3. Reserved(r, s, z) \/ Marked(r, s, z) => s \notin Verdicts /\ z \notin Verdicts
  <2> HIDE DEF s, z
  <2> QED BY DEF Reserved, Marked, Verdicts, Final, Ambiguous
<1>4. \A v \in Verdicts : v \in MayBecome(s) => v = s \/ s \notin Final
  BY DEF MayBecome, Final
<1>5. ASSUME Refused(r, s, z) PROVE Judged(s, z, f, c)
  <2>1. c \/ f = "none"
    <3>1. CASE a \notin twins
      <4>1. AloneWith(a)
        BY <1>1, <3>1 DEF LedgerInv, NobodyElse
      <4>2. OnIt(r, a) /\ At(r) = "reject"
        BY <1>5 DEF OnIt, Refused
      <4>3. Faulty("contract") \/ runs[a] = 0
        BY <4>1, <4>2 DEF AloneWith
      <4> QED BY <1>1, <4>3 DEF RowGood, RowAt
    <3> QED BY <3>1
  <2>2. z = "rejected" /\ z \in Verdicts /\ z \in MayBecome(s)
    BY <1>5 DEF Refused, Verdicts, Final
  <2> HIDE DEF s, z, f, c
  <2> QED BY <1>4, <2>1, <2>2 DEF Judged
<1>6. ASSUME Given(r, s, z) PROVE Judged(s, z, f, c)
  <2>1. z \in Verdicts /\ z \in MayBecome(s)
    BY <1>6 DEF Given
  <2>2. x.pc \in EventPcs \cup {"complete"} /\ z = x.ev.verdict
    BY <1>6 DEF Given, Extends, At, EventPcs
  <2>3. z \in Final => f = z
    BY <1>1, <2>2 DEF KnowsAt
  <2> HIDE DEF s, z, f, c
  <2> QED BY <1>4, <2>1, <2>3 DEF Judged, Final
<1> QED BY <1>2, <1>3, <1>5, <1>6 DEF Judged

(* It is handed over once, or by twins, while nothing else is open.        *)
LEMMA RunIsPromised ==
  ASSUME LedgerInv, [ControlNext]_vars, NEW r \in Requests, Works(r), Mutates(r), RunAct(r)
  PROVE  Promised
<1>1. PICK a : a = Act(r)
  OBVIOUS
<1>2. /\ StoreGood /\ a \in Acts /\ a \in Mutations /\ thread[r].pc = "run" /\ At(r) = "run"
      /\ RowGood(a) /\ runs[a] \in 0 .. 2 /\ fate[a] \in {"none", "working"} \cup Final
      /\ UNCHANGED world /\ \A b \in Mutations : b \in Acts
  BY <1>1, AtItsRow, StoreStep DEF RunAct, At, LedgerInv, Mutations
<1>3. UNCHANGED <<acts, events, twins>>
  BY DEF RunAct, store
<1>4. \A b \in Acts : (Masked(b) <=> b \notin Mutations) /\ (Masked(b)' <=> Masked(b))
  BY <1>2 DEF Masked, Mutations
<1>5. Told' = Told /\ (Blind' <=> Blind) /\ Joined' = Joined /\ JudgedTwice' = JudgedTwice
  BY <1>2, <1>3, <1>4 DEF Told, Blind, Joined, Faulty, JudgedTwice, JudgesIt
<1>6. a \in Joined \/ (Ran[a] = 0 /\ Told[a] \notin Final)
  <2>1. CASE a \in twins
    BY <1>2, <2>1 DEF Joined, Mutations
  <2>2. CASE a \notin twins
    <3>1. AloneWith(a) /\ OnIt(r, a) /\ Nears(thread[r])
      BY <1>1, <1>2, <2>2 DEF LedgerInv, NobodyElse, OnIt, Nears
    <3>2. runs[a] = 0 /\ acts[a].state \notin Final
      BY <3>1 DEF AloneWith
    <3> QED BY <1>2, <1>4, <3>2 DEF Ran, Told, Final
  <2> QED BY <2>1, <2>2
<1>7. JudgedTwice \/ \A b \in Acts \ {a} : Ran[b] > 0 => Told[b] \in Final
  <2>1. ASSUME ~JudgedTwice, NEW b \in Mutations, b # a, runs[b] > 0
        PROVE  acts[b].state \in Final
    <3>1. StartsGood /\ RunsAlone /\ ToRun(r) /\ RowGood(b)
      BY <1>2, <2>1 DEF LedgerInv, ToRun, RowsGood
    <3>2. PICK i \in DOMAIN events : StartsIt(i, a) /\ LastStart(i)
      BY <1>1, <3>1 DEF RunsAlone
    <3>3. PICK j \in DOMAIN events : StartsIt(j, b)
      BY <2>1, <3>1 DEF RowGood, RowAt, HasStart, Says, StartsIt
    <3>4. j < i
      <4>1. DOMAIN events = 1 .. Len(events) /\ Len(events) \in Nat
        BY DEF LedgerInv, AlwaysInv, ChainGood
      <4>2. ~(i < j) /\ i # j
        BY <2>1, <3>2, <3>3 DEF LastStart, IsStart, StartsIt
      <4> QED BY <4>1, <4>2
    <3>5. \E v \in DOMAIN events : JudgesIt(v, b)
      BY <3>1, <3>2, <3>3, <3>4 DEF StartsGood, IsStart, StartsIt
    <3> QED BY <3>1, <3>5 DEF RowGood, RowAt, HasVerdict, Says, JudgesIt
  <2> QED BY <1>4, <2>1 DEF Ran, Told
<1>8. /\ runs'[a] = IF runs[a] < 2 THEN runs[a] + 1 ELSE runs[a]
      /\ fate'[a] = IF fate[a] = "none" THEN "working" ELSE fate[a]
      /\ \A b \in Acts : b # a => runs'[b] = runs[b] /\ fate'[b] = fate[b]
  BY <1>1, <1>2 DEF RunAct, StoreGood
<1>9. Ran = [b \in Acts |-> Ran[b]] /\ Ran' = [b \in Acts |-> Ran'[b]]
      /\ Became = [b \in Acts |-> Became[b]] /\ Became' = [b \in Acts |-> Became'[b]]
  BY DEF Ran, Became
<1>10. /\ Ran[a] = runs[a] /\ Ran'[a] = runs'[a] /\ Became[a] = fate[a] /\ Became'[a] = fate'[a]
       /\ \A b \in Acts : b # a => Ran'[b] = Ran[b] /\ Became'[b] = Became[b]
  BY <1>2, <1>4, <1>8 DEF Ran, Became
<1>11. CASE runs[a] < 2
  <2>1. /\ Ran' = [Ran EXCEPT ![a] = Ran[a] + 1]
        /\ Became' = [Became EXCEPT ![a] = IF Became[a] = "none" THEN "working" ELSE Became[a]]
    <3> HIDE DEF Ran, Became
    <3> QED BY <1>2, <1>8, <1>9, <1>10, <1>11
  <2>2. PromisedRun(a)
    BY <1>5, <1>6, <1>7, <2>1 DEF PromisedRun
  <2> QED BY <1>2, <2>2 DEF Promised
<1>12. CASE runs[a] = 2
  <2>1. fate[a] # "none"
    BY <1>2, <1>12 DEF RowGood, RowAt
  <2>2. Ran' = Ran /\ Became' = Became
    <3> HIDE DEF Ran, Became
    <3> QED BY <1>8, <1>9, <1>10, <1>12, <2>1
  <2> QED BY <1>5, <2>2 DEF Promised
<1> QED BY <1>2, <1>11, <1>12

(* A repeated request joins a mutation that was not dispatched.            *)
LEMMA JoinIsPromised ==
  ASSUME LedgerInv, [ControlNext]_vars, NEW r \in Requests, Reserve(r), ~(UNCHANGED twins)
  PROVE  Promised
<1>1. PICK a : a = Act(r)
  OBVIOUS
<1>2. /\ twins' = twins \cup {a} /\ UNCHANGED acts /\ Resume(acts[a].state) = "prepare"
  BY <1>1 DEF Reserve
<1>3. UNCHANGED <<events, runs, fate, world>>
  BY DEF Reserve, provider
<1>4. acts[a].state = "reserved" /\ Works(r) /\ a \in Acts
  <2>1. acts[a].state = "reserved"
    BY <1>2 DEF Resume
  <2>2. At(r) \in WorkPcs \ OwnPcs
    BY DEF Reserve, WorkPcs, OwnPcs
  <2> QED BY <1>1, <2>1, <2>2, WorkersWork DEF LedgerInv, AlwaysInv
<1>5. Told' = Told /\ Ran' = Ran /\ Became' = Became /\ Blind' = Blind /\ JudgedTwice' = JudgedTwice
  BY <1>2, <1>3 DEF Told, Ran, Became, Blind, Masked, Faulty, JudgedTwice, JudgesIt
<1>6. CASE Masked(a)
  <2>1. Joined' = Joined
    BY <1>2, <1>3, <1>6 DEF Joined, Masked
  <2> QED BY <1>5, <2>1 DEF Promised
<1>7. CASE ~Masked(a)
  <2>1. Joined' = Joined \cup {a}
    BY <1>2, <1>3, <1>7 DEF Joined, Masked
  <2>2. RowGood(a)
    BY <1>1, <1>4, <1>7, AtItsRow DEF Masked, Mutates
  <2>3. Told[a] = "open" /\ Ran[a] = 0
    BY <1>4, <1>7, <2>2 DEF Told, Ran, RowGood, RowAt, Final, Ambiguous
  <2>4. PromisedJoin(a)
    BY <1>5, <2>1, <2>3 DEF PromisedJoin
  <2> QED BY <1>4, <2>4 DEF Promised
<1> QED BY <1>6, <1>7

LEMMA StepIsPromised ==
  ASSUME LedgerInv, [ControlNext]_vars
  PROVE  Promised
<1>1. /\ AlwaysInv /\ UNCHANGED world /\ StoreGood /\ ThreadsGood /\ world \in Worlds
      /\ \A b \in Mutations : b \in Acts
  BY StoreStep DEF LedgerInv, AlwaysInv, Mutations
<1>2. CASE \E r \in Requests : RunAct(r)
  <2>1. PICK r \in Requests : RunAct(r)
    BY <1>2
  <2>2. Works(r)
    <3>1. At(r) \in WorkPcs \ OwnPcs
      BY <2>1 DEF RunAct, WorkPcs, OwnPcs
    <3> QED BY <1>1, <3>1, WorkersWork
  <2>3. CASE Mutates(r)
    BY <2>1, <2>2, <2>3, RunIsPromised
  <2>4. CASE ~Mutates(r)
    <3>1. UNCHANGED <<acts, events, twins>>
      BY <2>1 DEF RunAct, store
    <3>2. \A b \in Mutations : runs'[b] = runs[b] /\ fate'[b] = fate[b]
      BY <1>1, <2>1, <2>4 DEF RunAct, Mutates, Mutations, StoreGood
    <3>3. Told' = Told /\ Ran' = Ran /\ Became' = Became /\ Blind' = Blind
      BY <1>1, <3>1, <3>2, SameToThePromise
    <3>4. Joined' = Joined /\ JudgedTwice' = JudgedTwice
      BY <1>1, <3>1 DEF Joined, JudgedTwice, JudgesIt
    <3> QED BY <3>3, <3>4 DEF Promised
  <2> QED BY <2>3, <2>4
<1>3. CASE \E r \in Requests : Reserve(r) /\ ~(UNCHANGED twins)
  BY <1>3, JoinIsPromised
<1>4. CASE /\ UNCHANGED twins /\ ~(JudgedTwice' <=> JudgedTwice)
  <2>1. PICK r \in Requests : /\ AppendEvent(r) /\ Works(r) /\ Mutates(r) /\ JudgedTwice'
                              /\ acts[Act(r)].state \in Final
    BY <1>4, TwiceStep
  <2>2. PICK a : a = Act(r)
    OBVIOUS
  <2>3. a \in Mutations /\ Step(r) /\ UNCHANGED <<runs, fate>>
    BY <2>1, <2>2, AtItsRow DEF Step, AppendEvent, provider
  <2>4. \A b \in Mutations : acts'[b].state = acts[b].state
    <3>1. ASSUME NEW b \in Mutations, b # a PROVE acts'[b].state = acts[b].state
      BY <1>1, <2>2, <2>3, <3>1, OtherRows DEF SameRow, OnIt
    <3>2. acts'[a].state = acts[a].state
      BY <2>1, <2>2, <2>3, ItsRowGrows DEF Grows
    <3> QED BY <3>1, <3>2
  <2>5. Told' = Told /\ Ran' = Ran /\ Became' = Became /\ Blind' = Blind
    BY <1>1, <2>3, <2>4, SameToThePromise
  <2>6. Joined' = Joined /\ JudgedTwice' = TRUE /\ Told[a] \in Final /\ a \in Acts
    <3>1. Joined' = Joined
      BY <1>1, <1>4 DEF Joined
    <3>2. Told[a] \in Final /\ a \in Acts
      BY <1>1, <2>1, <2>2, <2>3 DEF Told, Masked, Mutations
    <3>3. JudgedTwice' = TRUE
      BY <2>1 DEF JudgedTwice
    <3> QED BY <3>1, <3>2, <3>3
  <2>7. PromisedTellAgain(a)
    BY <2>5, <2>6 DEF PromisedTellAgain
  <2> QED BY <2>6, <2>7 DEF Promised
<1>5. CASE /\ UNCHANGED twins /\ (JudgedTwice' <=> JudgedTwice)
           /\ \E r \in Requests : Step(r) /\ ~RunAct(r)
  <2>1. PICK r \in Requests : Step(r) /\ ~RunAct(r)
    BY <1>5
  <2>2. Joined' = Joined /\ JudgedTwice' = JudgedTwice
    BY <1>1, <1>5 DEF Joined, JudgedTwice
  <2>3. CASE Works(r) /\ Mutates(r)
    <3>1. PICK a : a = Act(r)
      OBVIOUS
    <3>2. a \in Mutations
      BY <2>3, <3>1, AtItsRow
    <3>3. Judged(acts[a].state, acts'[a].state, fate[a], Faulty("contract") \/ a \in twins)
      BY <2>1, <2>3, <3>1, RequestsJudge
    <3>4. UNCHANGED <<runs, fate>>
      BY <2>1 DEF Step, store, provider, Snapshot, Ensure, FindLease, IssueLease, PublishSnapshot, Sign,
         AppendEvent, Verify, Reserve, Prepare, Own, Mark, RunAct, Answer, Reject, Retry, Known,
         Complete, Persist, Recover, Proof, Resolve, AskAgain
    <3>5. \A b \in Mutations : b # a => acts'[b].state = acts[b].state
      BY <1>1, <2>1, <3>1, OtherRows DEF SameRow, OnIt
    <3> QED BY <1>1, <1>5, <3>2, <3>3, <3>4, <3>5, JudgedIsPromised
  <2>4. CASE ~(Works(r) /\ Mutates(r))
    <3>1. \A b \in Mutations : ~OnIt(r, b)
      BY <2>4 DEF OnIt, Mutations, Mutates
    <3>2. \A b \in Mutations : /\ acts'[b].state = acts[b].state
                               /\ runs'[b] = runs[b] /\ fate'[b] = fate[b]
      BY <1>1, <2>1, <3>1, OtherRows DEF SameRow
    <3> QED BY <1>1, <2>2, <3>2, SameToThePromise DEF Promised
  <2> QED BY <2>3, <2>4
<1>6. CASE ~ \E r \in Requests : Step(r)
  <2>1. UNCHANGED <<acts, runs, twins, events>>
    BY <1>6 DEF ControlNext, vars, store, provider, Decide, Refresh, Expire, Crash
  <2>2. Joined' = Joined /\ JudgedTwice' = JudgedTwice
    BY <1>1, <2>1 DEF Joined, JudgedTwice, JudgesIt
  <2>3. CASE UNCHANGED fate
    BY <1>1, <2>1, <2>2, <2>3, SameToThePromise DEF Promised
  <2>4. ASSUME NEW a \in Acts, Decide(a) PROVE Promised
    <3>1. PICK v \in Final : fate' = [fate EXCEPT ![a] = v]
      BY <2>4 DEF Decide, Final
    <3>2. CASE Masked(a)
      <4>1. \A b \in Mutations : fate'[b] = fate[b]
        BY <1>1, <3>1, <3>2 DEF Masked, Mutations, StoreGood
      <4> QED BY <1>1, <2>1, <2>2, <4>1, SameToThePromise DEF Promised
    <3>3. CASE ~Masked(a)
      <4>1. \A b \in Acts : Masked(b)' <=> Masked(b)
        BY <1>1 DEF Masked
      <4>2. Told' = Told /\ Ran' = Ran /\ Blind' = Blind
        BY <1>1, <2>1, <4>1 DEF Told, Ran, Blind, Faulty
      <4>3. Became' = [Became EXCEPT ![a] = v] /\ Became[a] = "working"
        BY <1>1, <2>4, <3>1, <3>3, <4>1 DEF Decide, Became, StoreGood
      <4>4. PromisedDecide(a)
        BY <2>2, <4>2, <4>3 DEF PromisedDecide
      <4> QED BY <4>4 DEF Promised
    <3> QED BY <3>2, <3>3
  <2>5. UNCHANGED fate \/ \E a \in Acts : Decide(a)
    BY <1>6 DEF ControlNext, vars, provider, Refresh, Expire, Crash
  <2> QED BY <2>3, <2>4, <2>5
<1>7. UNCHANGED twins \/ \E r \in Requests : Reserve(r)
  BY WhoTouchesTheProvider DEF RunAct, Decide, Crash
<1> QED BY <1>2, <1>3, <1>4, <1>5, <1>6, <1>7

(* Session control implements ControlPromise: but for twins a mutation     *)
(* reaches the provider at most once, but for a verdict told twice none    *)
(* does while the outcome of another is open, and a verdict is what the    *)
(* provider did and stays, through retries, late answers, crashes, expiries*)
(* and changes of generation (SessionControlGateway over the action        *)
(* ledger).                                                                *)
THEOREM ThePromiseIsKept == ControlSpec => KeepsPromise
<1>1. LedgerInv /\ [ControlNext]_vars => [Promise!PromiseNext]_(Promise!PromiseVars)
  BY StepIsPromised, PromisedIsPromise
<1>2. ControlInit => Promise!PromiseInit
  BY PromisedIsPromise
<1> QED BY <1>1, <1>2, LedgerHolds, PTL DEF ControlSpec, ControlSafety, KeepsPromise, Promise!PromiseSpec
==============================================================================
