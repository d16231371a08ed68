--------------------------- MODULE SessionControl ----------------------------
(***************************************************************************)
(* Proof-carrying control of one managed provider session                  *)
(* (SessionControlGateway in mac/companiond/session_control_gateway.py     *)
(* over ManagedProviderSessionStore in managed_provider_sessions.py).      *)
(*                                                                         *)
(* A phone asks for a snapshot, which takes ownership of the session and a *)
(* lease for the phone; it executes actions under that snapshot, and       *)
(* recovers those whose outcome nobody knows.  Every request is a thread   *)
(* of its own and no lock is held between two transactions on the store:   *)
(* the ledger of actions, the typestate with its chain of events, leases,  *)
(* confirmations and recovery handles are each read and written alone, but *)
(* for the event that settles an action, which settles it in its own       *)
(* transaction.  The daemon may crash, generations change, snapshots end.  *)
(***************************************************************************)
EXTENDS Naturals, Sequences, FiniteSets

CONSTANTS Phones,
          Acts,        \* action ids
          MaxGen,      \* bound: capability generations
          MaxRequests, \* bound: requests in a plan
          Worlds,      \* what is asked and what may go wrong: see world
          NoAct

(* Whoever executes or recovers names its action and an earlier request.   *)
Plans ==
    {p \in Seq([kind : {"snapshot", "execute", "recover"}, phone : Phones,
                act : Acts \cup {NoAct}, via : Nat]) :
        /\ Len(p) <= MaxRequests
        /\ \A r \in DOMAIN p : p[r].kind # "snapshot" => p[r].act \in Acts /\ p[r].via \in DOMAIN p}

ASSUME ControlAssumption ==
    /\ NoAct \notin Acts /\ Acts \cap {"none", "issued", "revoked"} = {}
    /\ MaxGen \in Nat \ {0} /\ MaxRequests \in Nat \ {0}
    /\ \A w \in Worlds : w.plan \in Plans /\ w.asks \subseteq Acts

VARIABLES
    world,    \* plan: the requests; reads, ends, asks, forks: kinds of actions; faults; again;
              \* after: pairs of requests, the second is sent when the first is answered
    gen,      \* capability_generation of the owner row
    closed,   \* closed_at
    events,   \* session_control_events; the last one is the typestate
    acts,     \* session_control_actions: Acts -> [state, snap]
    handles,  \* session_control_recovery: Acts -> "none", "pending", "resolved", "expired"
    conf,     \* the confirmation: "none", "issued", "revoked", or the action that used it
    snaps,    \* session_control_snapshots: request -> its generation, 0 is none
    leases,   \* active session_control_leases: [phone, gen]
    fate,     \* what the provider did of an action
    driver,   \* what its driver has in memory: "none", "waits", or it "knows" the fate
    runs,     \* history: how often the provider was asked to
    twins,    \* history: actions that two requests were dispatching at once
    thread,   \* the requests
    crashed   \* bound: one crash

store == <<gen, closed, events, acts, handles, conf, snaps, leases>>
provider == <<fate, driver, runs>>
vars == <<world, store, provider, twins, thread, crashed>>

Requests == DOMAIN world.plan
Ask(r) == world.plan[r]                         \* [kind, phone, act, via]
Act(r) == Ask(r).act
Mutates(r) == Act(r) \notin world.reads
At(r) == thread[r].pc
Faulty(f) == f \in world.faults
Sent(r) == \A q \in Requests : <<q, r>> \in world.after => At(q) = "done"

Owned == {"owned_idle", "owned_running", "owned_waiting"}
Final == {"applied", "rejected"}
Ambiguous == {"in_progress", "outcome_unknown"}

NoEvent == [type |-> "none", after |-> "none", verdict |-> "none"]
Idle == [pc |-> "ready", gen |-> 0, prior |-> "none", seen |-> 0, ev |-> NoEvent,
         ok |-> "done", ko |-> "done", status |-> "none"]
Set(r, t) == thread' = [thread EXCEPT ![r] = t]
Goto(r, pc) == thread' = [thread EXCEPT ![r].pc = pc]
Done(r) == Set(r, [Idle EXCEPT !.pc = "done"])
(* A thread that is done keeps nothing.                                    *)
To(r, t, pc) == Set(r, IF pc = "done" THEN [Idle EXCEPT !.pc = "done"] ELSE [t EXCEPT !.pc = pc])

ControlInit ==
    /\ world \in Worlds
    /\ gen = 1 /\ closed = FALSE /\ events = <<>>
    /\ acts = [a \in Acts |-> [state |-> "new", snap |-> 0, gen |-> 0]]
    /\ handles = [a \in Acts |-> "none"] /\ conf = "none"
    /\ snaps = [r \in DOMAIN world.plan |-> 0] /\ leases = {}
    /\ fate = [a \in Acts |-> "none"] /\ driver = [a \in Acts |-> "none"]
    /\ runs = [a \in Acts |-> 0] /\ twins = {}
    /\ thread = [r \in DOMAIN world.plan |-> Idle] /\ crashed = FALSE
------------------------------------------------------------------------------
(* The store.                                                              *)

StateAt(n) == IF n = 0 THEN "none" ELSE events[n].after
State == StateAt(Len(events))
Terminal == State = "terminated"

(* _PROTOCOL_ACTION_TRANSITIONS                                            *)
MayBecome(s) ==
    CASE s = "reserved" -> {"rejected", "dispatch_started"}
      [] s = "dispatch_started" -> Final \cup Ambiguous
      [] s = "in_progress" -> Final \cup Ambiguous
      [] s = "outcome_unknown" -> Final \cup {"outcome_unknown"}
      [] s \in Final -> {s}
      [] OTHER -> {}

(* The typestates from which the protocol's schema admits an event.        *)
Admits(type, before) ==
    CASE type = "session.observed" -> before = "none"
      [] type = "ownership.acquired" -> before = "observed"
      [] type = "turn.started" -> before = "owned_idle"
      [] type = "mutation.started" -> before \in Owned
      [] type = "recovery.resolved" -> before = "outcome_unknown"
      [] type \in {"mutation.applied", "mutation.rejected", "mutation.outcome_unknown"} ->
            before = "mutation_pending"

(* Mutant: the event's predecessor is not compared.                        *)
MayAppendAnywhere(r, a, e) ==
    /\ thread[r].gen = gen /\ ~Terminal
    /\ e.verdict # "none" => e.verdict \in MayBecome(acts[a].state)

(* append_protocol_event, for an event made from the first "seen" events:  *)
(* another one in between, another generation, or the end of the session   *)
(* refuses it, and so does an action that may not become its verdict.      *)
MayAppend(r, a, e) ==
    /\ thread[r].seen = Len(events) /\ thread[r].gen = gen /\ ~Terminal
    /\ e.verdict # "none" => e.verdict \in MayBecome(acts[a].state)
Extend(r, a, e) ==
    /\ events' = Append(events, [gen |-> gen, type |-> e.type, act |-> a,
                                 before |-> StateAt(thread[r].seen), after |-> e.after])
    /\ acts' = IF e.verdict = "none" THEN acts ELSE [acts EXCEPT ![a].state = e.verdict]
    /\ leases' = IF e.after = "terminated" THEN {} ELSE leases
    /\ conf' = IF e.after = "terminated" /\ conf = "issued" THEN "revoked" ELSE conf

(* _append_event reads the typestate again, has the event checked against  *)
(* the schema and signed, and only then appends it.                        *)
Publish(r, e, ok, ko) ==
    Set(r, [thread[r] EXCEPT !.pc = "sign", !.ev = e, !.ok = ok, !.ko = ko])
Sign(r) ==
    /\ At(r) = "sign"
    /\ IF Admits(thread[r].ev.type, State)
       THEN Set(r, [thread[r] EXCEPT !.pc = "append", !.seen = Len(events)])
       ELSE To(r, thread[r], thread[r].ko)
    /\ UNCHANGED <<world, store, provider, twins, crashed>>
AppendEvent(r) ==
    /\ At(r) = "append"
    /\ LET t == thread[r] IN
       IF MayAppend(r, Act(r), t.ev)
       THEN /\ Extend(r, Act(r), t.ev)
            /\ To(r, [t EXCEPT !.seen = 0, !.ev = NoEvent], t.ok)
            /\ UNCHANGED <<gen, closed, handles, snaps>>
       ELSE /\ To(r, [t EXCEPT !.seen = 0, !.ev = NoEvent], t.ko)
            /\ UNCHANGED store
    /\ UNCHANGED <<world, provider, twins, crashed>>
------------------------------------------------------------------------------
(* snapshot(): own the session, hold its lease, publish.                   *)

Snapshot(r) ==
    /\ At(r) = "ready" /\ Ask(r).kind = "snapshot" /\ Sent(r) /\ ~closed
    /\ Set(r, [Idle EXCEPT !.pc = "ensure", !.gen = gen])
    /\ UNCHANGED <<world, store, provider, twins, crashed>>

(* _ensure_owned_state: one event after the other, as the typestate needs. *)
Ensure(r) ==
    /\ At(r) = "ensure"
    /\ \/ /\ State = "none"
          /\ Publish(r, [NoEvent EXCEPT !.type = "session.observed", !.after = "observed"],
                     "ensure", "done")
       \/ /\ State = "observed"
          /\ Publish(r, [NoEvent EXCEPT !.type = "ownership.acquired", !.after = "owned_idle"],
                     "ensure", "done")
       \/ /\ State = "owned_idle" /\ Faulty("turns")    \* the provider is in a turn
          /\ Publish(r, [NoEvent EXCEPT !.type = "turn.started", !.after = "owned_running"],
                     "lease", "done")
       \/ /\ State \notin {"none", "observed", "terminated"}
          /\ Goto(r, "lease")
       \/ /\ Terminal                  \* only reads are left, which need no lease
          /\ Goto(r, "publish")
    /\ UNCHANGED <<world, store, provider, twins, crashed>>

(* _lease_for_scope revokes what is not of its generation.                 *)
FindLease(r) ==
    /\ At(r) = "lease"
    /\ LET kept == {l \in leases : l.gen = thread[r].gen}
       IN /\ leases' = kept
          /\ To(r, thread[r], IF kept = {} THEN "issue"
                              ELSE IF \E l \in kept : l.phone = Ask(r).phone THEN "publish"
                              ELSE "done")
    /\ UNCHANGED <<world, gen, closed, events, acts, handles, conf, snaps, provider, twins, crashed>>

(* issue_protocol_lease                                                    *)
IssueLease(r) ==
    /\ At(r) = "issue"
    /\ IF thread[r].gen = gen /\ ~Terminal /\ leases = {}
       THEN /\ leases' = {[phone |-> Ask(r).phone, gen |-> gen]}
            /\ Goto(r, "publish")
       ELSE /\ Done(r)
            /\ UNCHANGED leases
    /\ UNCHANGED <<world, gen, closed, events, acts, handles, conf, snaps, provider, twins, crashed>>

(* publish_protocol_snapshot                                               *)
PublishSnapshot(r) ==
    /\ At(r) = "publish"
    /\ snaps' = IF thread[r].gen = gen THEN [snaps EXCEPT ![r] = gen] ELSE snaps
    /\ Done(r)
    /\ UNCHANGED <<world, gen, closed, events, acts, handles, conf, leases, provider, twins, crashed>>
------------------------------------------------------------------------------
(* execute()                                                               *)

(* The snapshot is current, and the phone holds the lease it names.        *)
Usable(r) == snaps[Ask(r).via] # 0
Holds(r) == [phone |-> Ask(r).phone, gen |-> snaps[Ask(r).via]] \in leases
Verify(r) ==
    /\ At(r) = "ready" /\ Ask(r).kind = "execute" /\ Sent(r) /\ Usable(r)
    /\ IF Mutates(r) => Holds(r)
       THEN Set(r, [Idle EXCEPT !.pc = "reserve", !.gen = snaps[Ask(r).via]])
       ELSE Done(r)
    /\ UNCHANGED <<world, store, provider, twins, crashed>>

(* What a repeated request does with an action the ledger knows: an answer *)
(* that is there is given again and its handle persisted; one that was     *)
(* only reserved is gone on with.                                          *)
(* Mutants: a dispatched action is gone on with; the handle is not         *)
(* persisted again.                                                        *)
ResumeDispatched(s) ==
    CASE s \in {"reserved", "dispatch_started"} -> "prepare"
      [] s \in Ambiguous -> "persist"
      [] OTHER -> "done"
ResumeWithoutHandle(s) ==
    CASE s = "reserved" -> "prepare"
      [] s = "dispatch_started" -> "retry"
      [] OTHER -> "done"

Resume(s) ==
    CASE s = "reserved" -> "prepare"
      [] s = "dispatch_started" -> "retry"
      [] s \in Ambiguous -> "persist"
      [] OTHER -> "done"

(* Another request for the action has reserved it, or goes on with it, and *)
(* has not dispatched it yet.                                              *)
Twin(r) == \E q \in Requests \ {r} : /\ Ask(q).kind = "execute" /\ Act(q) = Act(r)
                                     /\ At(q) \in {"prepare", "own", "mark", "reject"}

(* reserve_protocol_action.  A confirmation the request carries has been   *)
(* admitted by then.                                                       *)
Admitted(r) == IF Act(r) \in world.asks /\ conf = "none" THEN "issued" ELSE conf
Stale(r) == snaps[Ask(r).via] # thread[r].gen \/ gen # thread[r].gen \/ closed
Reserve(r) ==
    /\ At(r) = "reserve"
    /\ conf' = Admitted(r)
    /\ LET a == Act(r)
           s == acts[a].state
       IN \/ /\ Stale(r) \/ (s # "new" /\ acts[a].snap # Ask(r).via)
             /\ Done(r) /\ UNCHANGED <<acts, twins>>
          \/ /\ ~Stale(r) /\ s = "new"
             /\ acts' = [acts EXCEPT ![a] = [state |-> "reserved", snap |-> Ask(r).via, gen |-> gen]]
             /\ Goto(r, "prepare") /\ UNCHANGED twins
          \/ /\ ~Stale(r) /\ s # "new" /\ acts[a].snap = Ask(r).via
             /\ To(r, thread[r], Resume(s))
             /\ twins' = IF Resume(s) = "prepare" /\ Twin(r) THEN twins \cup {a} ELSE twins
             /\ UNCHANGED acts
    /\ UNCHANGED <<world, gen, closed, events, handles, snaps, leases, provider, crashed>>

(* The provider's catalogue accepts the request or not; then the           *)
(* confirmation is consumed, for this action only.                         *)
(* Mutant: another action's confirmation will do.                          *)
ConfirmedByAny(a) == a \in world.asks => conf # "revoked" /\ acts[a].state = "reserved"

Confirmed(a) == a \in world.asks => conf \in {"issued", a} /\ acts[a].state = "reserved"
Prepare(r) ==
    /\ At(r) = "prepare"
    /\ \/ Faulty("refuse") /\ Goto(r, "reject") /\ UNCHANGED conf
       \/ /\ Confirmed(Act(r))
          /\ conf' = IF Act(r) \in world.asks THEN Act(r) ELSE conf
          /\ Goto(r, "own")
       \/ /\ ~Confirmed(Act(r)) /\ Done(r) /\ UNCHANGED conf
    /\ UNCHANGED <<world, gen, closed, events, acts, handles, snaps, leases, provider, twins, crashed>>

(* A mutation needs a known owned typestate; then the service reserves the *)
(* operation, or refuses to.                                               *)
Own(r) ==
    /\ At(r) = "own"
    /\ \/ /\ Mutates(r) => State \in Owned
          /\ \/ Set(r, [thread[r] EXCEPT !.pc = "mark", !.prior = State])
             \/ Faulty("refuse") /\ Goto(r, "reject")
       \/ /\ Mutates(r) /\ State \notin Owned
          /\ Done(r)
    /\ UNCHANGED <<world, store, provider, twins, crashed>>

(* mark_protocol_action_dispatch_started accepts a mark that is there.     *)
Mark(r) ==
    /\ At(r) = "mark"
    /\ IF acts[Act(r)].state \in {"reserved", "dispatch_started"}
       THEN /\ acts' = [acts EXCEPT ![Act(r)].state = "dispatch_started"]
            /\ IF Mutates(r)
               THEN Publish(r, [NoEvent EXCEPT !.type = "mutation.started",
                                               !.after = "mutation_pending"], "run", "reject")
               ELSE Goto(r, "run")
       ELSE /\ Goto(r, "reject")
            /\ UNCHANGED acts
    /\ UNCHANGED <<world, gen, closed, events, handles, conf, snaps, leases, provider, twins, crashed>>

(* driver.execute begins; what becomes of it the driver has in memory.     *)
RunAct(r) ==
    /\ At(r) = "run"
    /\ runs' = [runs EXCEPT ![Act(r)] = IF @ < 2 THEN @ + 1 ELSE @]
    /\ fate' = [fate EXCEPT ![Act(r)] = IF @ = "none" THEN "working" ELSE @]
    /\ driver' = [driver EXCEPT ![Act(r)] = IF @ = "none" THEN "waits" ELSE @]
    /\ Goto(r, "running")
    /\ UNCHANGED <<world, store, twins, crashed>>

(* The driver answers what it knows, or something on the way raises: then  *)
(* the outcome is unknown, unless it is the contract of the answer that is *)
(* broken.                                                                 *)
Answers(a) == {IF driver[a] = "knows" THEN fate[a] ELSE "in_progress"}
              \cup (IF Faulty("raise") THEN {"outcome_unknown"} ELSE {})
Answer(r) ==
    /\ At(r) = "running"
    /\ \/ \E s \in Answers(Act(r)) :
             /\ Set(r, [thread[r] EXCEPT !.pc = "known", !.status = s])
             /\ closed' = (closed \/ (s = "applied" /\ Act(r) \in world.ends))
       \/ Faulty("contract") /\ Goto(r, "reject") /\ UNCHANGED closed
    /\ UNCHANGED <<world, gen, events, acts, handles, conf, snaps, leases, provider, twins, crashed>>

(* "rejected", in the ledger alone.                                        *)
Reject(r) ==
    /\ At(r) = "reject"
    /\ acts' = IF "rejected" \in MayBecome(acts[Act(r)].state)
               THEN [acts EXCEPT ![Act(r)].state = "rejected"] ELSE acts
    /\ Done(r)
    /\ UNCHANGED <<world, gen, closed, events, handles, conf, snaps, leases, provider, twins, crashed>>

(* The typestate before the action started, as the events of its           *)
(* generation tell it.                                                     *)
Starts(a, g) == {i \in DOMAIN events : events[i].act = a /\ events[i].gen = g
                                        /\ events[i].type = "mutation.started"}
PriorOf(a, g) ==
    IF Starts(a, g) = {} THEN State
    ELSE events[CHOOSE i \in Starts(a, g) : \A j \in Starts(a, g) : j <= i].before

(* An action somebody started and did not finish: its outcome is unknown.  *)
Retry(r) ==
    /\ At(r) = "retry"
    /\ LET t == [thread[r] EXCEPT !.prior = PriorOf(Act(r), thread[r].gen),
                                  !.status = "outcome_unknown", !.pc = "known"]
       IN Set(r, IF Mutates(r) /\ State \in Owned
                 THEN [t EXCEPT !.pc = "sign", !.ok = "known", !.ko = "done",
                                !.ev = [NoEvent EXCEPT !.type = "mutation.started",
                                                       !.after = "mutation_pending"]]
                 ELSE t)
    /\ UNCHANGED <<world, store, provider, twins, crashed>>
------------------------------------------------------------------------------
(* _complete_known_result                                                  *)

Applied(r) == IF Act(r) \in world.ends THEN "terminated"
              ELSE IF thread[r].prior = "owned_running" THEN "owned_running" ELSE "owned_idle"
(* Mutant: the typestate stays what it was.                                *)
RestoredNot(r) == State

Restored(r) == IF thread[r].prior \in Owned THEN thread[r].prior ELSE "owned_idle"
(* What follows on a result: nothing, or for an open one its handle.       *)
Following(r) == IF thread[r].status \in Ambiguous THEN "persist"
            ELSE IF Ask(r).kind = "recover" THEN "resolve" ELSE "done"
Settle(r, type, after) ==
    Publish(r, [type |-> IF State = "outcome_unknown" THEN "recovery.resolved" ELSE type,
                after |-> after, verdict |-> thread[r].status], Following(r), "done")
(* complete_protocol_action, a transaction of its own.                     *)
Record(r, v) == Set(r, [thread[r] EXCEPT !.pc = "complete", !.ok = Following(r),
                                         !.ev = [NoEvent EXCEPT !.verdict = v]])

Known(r) ==
    /\ At(r) = "known"
    /\ LET s == thread[r].status
           open == State \in {"mutation_pending", "outcome_unknown"}
       IN IF ~Mutates(r)
          THEN IF s = "in_progress" THEN Done(r)
               ELSE Set(r, [thread[r] EXCEPT
                        !.pc = "complete", !.ok = "done", !.status = "none",
                        !.ev = [NoEvent EXCEPT
                                  !.verdict = IF s = "applied" THEN s ELSE "rejected"]])
          ELSE CASE s = "applied" -> Settle(r, "mutation.applied", Applied(r))
                 [] s = "rejected" /\ open -> Settle(r, "mutation.rejected", Restored(r))
                 [] s = "rejected" /\ ~open -> Record(r, s)
                 [] s = "in_progress" /\ State = "mutation_pending" -> Record(r, s)
                 [] s = "outcome_unknown" /\ State = "mutation_pending" ->
                       Publish(r, [type |-> "mutation.outcome_unknown", verdict |-> s,
                                   after |-> "outcome_unknown"], "persist", "done")
                 [] s = "outcome_unknown" /\ State = "outcome_unknown" -> Record(r, s)
                 [] OTHER -> Done(r)
    /\ UNCHANGED <<world, store, provider, twins, crashed>>

Complete(r) ==
    /\ At(r) = "complete"
    /\ LET t == thread[r]
           v == t.ev.verdict
       IN IF v \in MayBecome(acts[Act(r)].state)
          THEN /\ acts' = [acts EXCEPT ![Act(r)].state = v]
               /\ To(r, [t EXCEPT !.ev = NoEvent], t.ok)
          ELSE UNCHANGED acts /\ Done(r)
    /\ UNCHANGED <<world, gen, closed, events, handles, conf, snaps, leases, provider, twins, crashed>>

(* issue_protocol_recovery                                                 *)
Persist(r) ==
    /\ At(r) = "persist"
    /\ handles' = IF handles[Act(r)] = "none" /\ acts[Act(r)].state \in Ambiguous
                  THEN [handles EXCEPT ![Act(r)] = "pending"] ELSE handles
    /\ To(r, thread[r], IF Ask(r).kind = "recover" THEN "resolve" ELSE "done")
    /\ UNCHANGED <<world, gen, closed, events, acts, conf, snaps, leases, provider, twins, crashed>>
------------------------------------------------------------------------------
(* recover()                                                               *)

(* The action and its handle are read, and an attempt begins.              *)
Recover(r) ==
    /\ At(r) = "ready" /\ Ask(r).kind = "recover" /\ Sent(r) /\ Usable(r)
    /\ snaps[Ask(r).via] = acts[Act(r)].gen
    /\ handles[Act(r)] = "pending" /\ acts[Act(r)].state \in Ambiguous
    /\ Set(r, [Idle EXCEPT !.pc = "proof", !.gen = snaps[Ask(r).via],
                           !.status = acts[Act(r)].state])
    /\ UNCHANGED <<world, store, provider, twins, crashed>>

(* The driver proves what became of the action, if it knows; it is not     *)
(* asked to execute, and where it cannot tell, the action stays what it    *)
(* was.  A fork cannot be recovered: its reservation token is not passed   *)
(* on, and its child is not registered without one.                        *)
Proved(r) == /\ driver[Act(r)] = "knows" /\ gen = thread[r].gen /\ ~closed
             /\ ~(Act(r) \in world.forks /\ fate[Act(r)] = "applied")
Proofs(r) == {IF Proved(r) THEN fate[Act(r)] ELSE thread[r].status}
Proof(r) ==
    /\ At(r) = "proof"
    /\ \E s \in Proofs(r) :
          /\ Set(r, [thread[r] EXCEPT !.pc = "known", !.prior = PriorOf(Act(r), thread[r].gen),
                                      !.status = s])
          /\ closed' = (closed \/ (s = "applied" /\ Act(r) \in world.ends))
    /\ UNCHANGED <<world, gen, events, acts, handles, conf, snaps, leases, provider, twins, crashed>>

(* complete_protocol_recovery_attempt                                      *)
Resolve(r) ==
    /\ At(r) = "resolve"
    /\ handles' = IF thread[r].status \in Final /\ handles[Act(r)] = "pending"
                  THEN [handles EXCEPT ![Act(r)] = "resolved"] ELSE handles
    /\ Done(r)
    /\ UNCHANGED <<world, gen, closed, events, acts, conf, snaps, leases, provider, twins, crashed>>
------------------------------------------------------------------------------
(* Around the gateway.                                                     *)

(* The phone asks again what it has asked.                                 *)
AskAgain(r) ==
    /\ At(r) = "done" /\ r \in world.again
    /\ Set(r, Idle)
    /\ UNCHANGED <<world, store, provider, twins, crashed>>

(* The provider finishes what it works on.  A driver that waits for it     *)
(* keeps a receipt, unless it missed the end.                              *)
Decide(a) ==
    /\ fate[a] = "working"
    /\ \E v \in IF Faulty("deny") THEN Final ELSE {"applied"} : fate' = [fate EXCEPT ![a] = v]
    /\ \/ driver[a] = "waits" /\ driver' = [driver EXCEPT ![a] = "knows"]
       \/ UNCHANGED driver
    /\ UNCHANGED <<world, store, runs, twins, thread, crashed>>

(* A poll sees another capability generation: refresh_generation.          *)
Refresh ==
    /\ Faulty("refresh") /\ gen < MaxGen
    /\ gen' = gen + 1
    /\ UNCHANGED <<world, closed, events, acts, handles, conf, snaps, leases, provider,
                   twins, thread, crashed>>

(* Time: a snapshot ends, a lease after the snapshots made under it, or a  *)
(* recovery handle.                                                        *)
Expire ==
    /\ Faulty("expire")
    /\ \/ \E r \in Requests :
             /\ snaps[r] # 0 /\ snaps' = [snaps EXCEPT ![r] = 0]
             /\ UNCHANGED <<leases, handles>>
       \/ \E l \in leases :
             /\ \A r \in Requests : Ask(r).phone = l.phone => snaps[r] # l.gen
             /\ leases' = leases \ {l}
             /\ UNCHANGED <<snaps, handles>>
       \/ \E a \in Acts :
             /\ handles[a] = "pending" /\ handles' = [handles EXCEPT ![a] = "expired"]
             /\ UNCHANGED <<snaps, leases>>
    /\ UNCHANGED <<world, gen, closed, events, acts, conf, provider, twins, thread, crashed>>

(* The daemon dies and is started again: the store is all that is left,    *)
(* what the provider began goes on, and no driver knows of it.             *)
Crash ==
    /\ Faulty("crash") /\ ~crashed
    /\ \E r \in Requests : At(r) \notin {"ready", "done"}
    /\ crashed' = TRUE
    /\ thread' = [r \in Requests |-> IF At(r) = "ready" THEN thread[r]
                                     ELSE [Idle EXCEPT !.pc = "done"]]
    /\ driver' = [a \in Acts |-> "none"]
    /\ UNCHANGED <<world, store, fate, runs, twins>>

Step(r) ==
    \/ Snapshot(r) \/ Ensure(r) \/ FindLease(r) \/ IssueLease(r) \/ PublishSnapshot(r)
    \/ Sign(r) \/ AppendEvent(r)
    \/ Verify(r) \/ Reserve(r) \/ Prepare(r) \/ Own(r) \/ Mark(r) \/ RunAct(r)
    \/ Answer(r) \/ Reject(r) \/ Retry(r)
    \/ Known(r) \/ Complete(r) \/ Persist(r)
    \/ Recover(r) \/ Proof(r) \/ Resolve(r) \/ AskAgain(r)

ControlNext ==
    \/ \E r \in Requests : Step(r)
    \/ \E a \in Acts : Decide(a)
    \/ Refresh \/ Expire \/ Crash

(* A request that was received is worked off, a provider decides, and a    *)
(* phone that is to ask again does so.                                     *)
ControlFairness ==
    /\ \A r \in 1 .. MaxRequests : WF_vars(r \in Requests /\ Step(r))
    /\ \A a \in Acts : WF_vars(Decide(a))

ControlSafety == ControlInit /\ [][ControlNext]_vars
ControlSpec == ControlSafety /\ ControlFairness
------------------------------------------------------------------------------
(* Properties.                                                             *)

VerdictTypes == {"mutation.applied", "mutation.rejected", "recovery.resolved"}
States == Owned \cup {"none", "observed", "mutation_pending", "outcome_unknown", "terminated"}

(* Types; and a verdict leaves the session owned, or ended.                *)
ControlTypeOK ==
    /\ gen \in 1 .. MaxGen /\ closed \in BOOLEAN /\ crashed \in BOOLEAN
    /\ State \in States
    /\ \A i \in DOMAIN events : events[i].type \in VerdictTypes =>
                                 events[i].after \in Owned \cup {"terminated"}
    /\ \A a \in Acts :
          /\ acts[a].state \in {"new", "reserved", "dispatch_started"} \cup Ambiguous \cup Final
          /\ acts[a].snap \in {0} \cup Requests /\ acts[a].gen \in 0 .. MaxGen
          /\ handles[a] \in {"none", "pending", "resolved", "expired"}
          /\ fate[a] \in {"none", "working"} \cup Final /\ runs[a] \in 0 .. 2
          /\ driver[a] \in {"none", "waits", "knows"}
    /\ conf \in {"none", "issued", "revoked"} \cup Acts /\ twins \subseteq Acts
    /\ \A r \in Requests : snaps[r] \in 0 .. MaxGen
    /\ leases \subseteq [phone : Phones, gen : 1 .. MaxGen]

(* The events of a mutation, in the chain.                                 *)
StartsIt(i, a) == events[i].act = a /\ events[i].type = "mutation.started"
JudgesIt(i, a) == events[i].act = a /\ events[i].type \in VerdictTypes
Mutations == Acts \ world.reads

(* What happens where an answer comes so late that its action was judged   *)
(* meanwhile, after a retry and a recovery: the verdict is told again, and *)
(* that ends whatever mutation has started since.                          *)
JudgedTwice ==
    \E j \in DOMAIN events : /\ events[j].type \in VerdictTypes
                             /\ \E i \in 1 .. (j - 1) : JudgesIt(i, events[j].act)

(* What session control promises of mutations, however requests, retries,  *)
(* crashes, expiries and generations interleave: see ControlPromise.  A    *)
(* rejection is recorded blindly where an answer may break its contract.   *)
Promise == INSTANCE ControlPromise WITH
    verdict <- [a \in Acts |-> IF a \in world.reads THEN "open"
                               ELSE IF acts[a].state \in Final THEN acts[a].state
                               ELSE IF acts[a].state \in Ambiguous THEN "unknown" ELSE "open"],
    runs <- [a \in Acts |-> IF a \in world.reads THEN 0 ELSE runs[a]],
    fate <- [a \in Acts |-> IF a \in world.reads THEN "none" ELSE fate[a]],
    twins <- twins \ world.reads,
    blind <- Faulty("contract"),
    confused <- JudgedTwice
KeepsPromise == Promise!PromiseSpec

(* The chain of events tells what the ledger holds.  An event continues    *)
(* the typestate the previous one left, as the schema admits it, and       *)
(* generations do not go back.                                             *)
ChainContinues ==
    \A i \in DOMAIN events :
       /\ events[i].before = StateAt(i - 1) /\ Admits(events[i].type, events[i].before)
       /\ i > 1 => events[i].gen >= events[i - 1].gen
(* An action that a repeated request may still dispatch has not been given *)
(* to the provider; one the provider was given has started in the events;  *)
(* an action with a verdict in them has it in the ledger; and an applied   *)
(* one has both events and was applied.                                    *)
VerdictsAreTold ==
    \A a \in Mutations :
       LET started == \E i \in DOMAIN events : StartsIt(i, a)
           verdicts == {events[i].type : i \in {j \in DOMAIN events : JudgesIt(j, a)}}
       IN /\ acts[a].state \in {"new", "reserved"} => runs[a] = 0 /\ ~started
          /\ runs[a] > 0 => started
          /\ verdicts # {} => acts[a].state \in Final
          /\ "mutation.applied" \in verdicts => acts[a].state = "applied"
          /\ "mutation.rejected" \in verdicts => acts[a].state = "rejected"
          /\ acts[a].state = "applied" => started /\ verdicts # {} /\ fate[a] = "applied"
(* A mutation starts only after the one that started before it has its own *)
(* verdict, unless a late answer told one twice.                           *)
StartsAreAnswered ==
    JudgedTwice \/ \A a, b \in Mutations : \A i, j \in DOMAIN events :
        i < j /\ StartsIt(i, a) /\ StartsIt(j, b) =>
            \E v \in DOMAIN events : i < v /\ v < j /\ JudgesIt(v, a)
EventsTellTheLedger == ChainContinues /\ VerdictsAreTold /\ StartsAreAnswered

(* One phone at a time holds the lease, nobody when the session has ended; *)
(* one confirmation lets one action through; and after the end no mutation *)
(* is handed to the provider, unless a late answer told a verdict twice.   *)
OneHolder == Cardinality(leases) <= 1 /\ (Terminal => leases = {})
OneConfirmed == Cardinality({a \in world.asks : runs[a] > 0}) <= 1
NothingAfterTheEnd ==
    Terminal => \A r \in Requests : Ask(r).kind = "execute" /\ Mutates(r) => At(r) # "run"
AuthorityIsExclusive == OneHolder /\ OneConfirmed /\ (JudgedTwice \/ NothingAfterTheEnd)

(* Where nothing but a crash goes wrong, a mutation the provider was given *)
(* gets its verdict, if its phone asks for it again and recovers it, as    *)
(* long as a driver knows it; receipts live in the driver's memory, and    *)
(* where they are lost the action stays open with its recovery handle.     *)
Calm == /\ {"refresh", "expire", "contract"} \cap world.faults = {}
        /\ world.forks = {} /\ world.ends = {}
Pursued(a) == \A k \in {"execute", "recover"} :
                 \E r \in world.again : Ask(r).kind = k /\ Act(r) = a
Forgotten(a) == driver[a] # "knows" /\ fate[a] \in Final
RunIsSettled ==
    \A a \in Acts : (Calm /\ Pursued(a) /\ runs[a] > 0) ~>
        \/ acts[a].state \in Final
        \/ Forgotten(a) /\ acts[a].state \in Ambiguous /\ handles[a] = "pending"

(* A mutation that is recorded as rejected was not applied: where that is  *)
(* not known, it is "outcome_unknown"                                      *)
(* (coding-agent-remote-control-capability-map.json:20717).                *)
RejectedWasNotApplied ==
    \A a \in Acts \ world.reads : acts[a].state = "rejected" => fate[a] # "applied"
==============================================================================
