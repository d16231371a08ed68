----------------------------- MODULE PushOutbox ------------------------------
(***************************************************************************)
(* Durable push delivery (PairlingPushDispatcher in                        *)
(* mac/companiond/push_dispatcher.py and its retry worker in pairlingd.py).*)
(*                                                                         *)
(* An event to deliver lives in two stores with a lock each: its replay    *)
(* input in the secret store, and a public row with its state, its lock    *)
(* and the times it is due in the registry.  A sender writes the input,    *)
(* takes the row, binds the input to the provider it is about to use,      *)
(* talks to that provider without a lock, records the answer, and deletes  *)
(* the input of what is finished.  The worker dispatches inputs that have  *)
(* no row and rows that are due or whose lease ended.  Phones register     *)
(* other credentials and are dropped while all this goes on.               *)
(*                                                                         *)
(* A transaction on the registry is one action, with the one mutation of   *)
(* the secret store that may be nested in it.  Every one ends with         *)
(* Commit, which prunes finished rows.                                     *)
(***************************************************************************)
EXTENDS Naturals, FiniteSets

CONSTANTS Events,       \* (device, event_id, push_type) triples
          Live,         \* those of push_type "liveactivity"
          Devices,
          DeviceOf,     \* Events -> Devices
          Senders,      \* threads that call record_event
          Worker,       \* the retry worker
          Credentials,  \* tokens a phone may register, in order: 1 .. n
          Activity,     \* Credentials -> the Live Activity a token belongs to
          ActiveLimit,  \* OUTBOX_ACTIVE_GLOBAL_LIMIT
          TerminalLimit,\* OUTBOX_TERMINAL_LIMIT
          Budgets,      \* bounds: see budget
          Nobody, NoInput, NoRow, NoEvent

Threads == Senders \cup {Worker}
Modes == {"local", "relay"}
ActiveStates == {"pending", "sending", "credential_blocked"}
FinalStates == {"sent", "invalidated", "suppressed", "dead_letter"}
Tokens == Credentials \cup {0}
Inputs == [tok : Tokens, mode : Modes \cup {"none"}, pair : Tokens]
RowType == [state : ActiveStates \cup FinalStates, att : 0 .. 3,
            lock : Threads \cup {Nobody}, stale : BOOLEAN,
            due : {"now", "later", "never"}, present : BOOLEAN,
            tok : Tokens, tried : BOOLEAN, missing : BOOLEAN, old : BOOLEAN]

ASSUME OutboxAssumption ==
    /\ Live \subseteq Events /\ NoEvent \notin Events
    /\ DeviceOf \in [Events -> Devices]
    /\ Worker \notin Senders /\ Nobody \notin Threads /\ NoRow \notin RowType
    /\ Credentials \subseteq Nat \ {0}
    /\ Activity \in [Credentials -> Nat]
    /\ ActiveLimit \in Nat \ {0} /\ TerminalLimit \in Nat
    /\ \A b \in Budgets : b.known \in Tokens /\ b.modes \subseteq Modes

VARIABLES
    input,     \* delivery_payloads: Events -> replay input, or NoInput
    row,       \* delivery_outbox: Events -> row, or NoRow
    older,     \* Events -> the rows of delivery_outbox created before its own
    token,     \* Devices -> the APNs tokens registered, 0 is none
    pair,      \* Devices -> the relay pair secret registered, 0 is none
    tombs,     \* revoked_device_ids
    provider,  \* the mode the configuration names
    thread,    \* Threads -> program counter and locals
    budget,    \* bound: what may still happen
    again      \* history: events submitted after their device was dropped

stores == <<input, row, older>>
credentials == <<token, pair, tombs, provider>>
vars == <<stores, credentials, thread, budget, again>>

Spend(what) == /\ budget[what] > 0
               /\ budget' = [budget EXCEPT ![what] = @ - 1]

Idle == [pc |-> "idle", e |-> NoEvent, held |-> FALSE, tok |-> 0, pair |-> 0, mode |-> "local",
         first |-> FALSE, out |-> "none", todo |-> {}, cur |-> NoEvent, then |-> "idle",
         jobs |-> {}, phase |-> "idle"]
At(t) == thread[t].pc
Ev(t) == thread[t].e
Dev(t) == DeviceOf[Ev(t)]
Set(t, r) == thread' = [thread EXCEPT ![t] = r]
Goto(t, pc) == thread' = [thread EXCEPT ![t].pc = pc]
(* A sender returns to its caller; the worker takes its next job.          *)
Home(t) == IF t = Worker THEN "next" ELSE "idle"
Return(t) == Set(t, IF t = Worker THEN [thread[t] EXCEPT !.pc = "next", !.e = NoEvent,
                                        !.held = FALSE, !.tok = 0, !.pair = 0,
                                        !.mode = "local", !.first = FALSE, !.out = "none"]
                                  ELSE Idle)
(* A delivery that raised: the worker records that on a row it claimed.    *)
Raise(t) == IF t = Worker /\ thread[t].held THEN Goto(t, "except") ELSE Return(t)

OutboxInit ==
    /\ input = [e \in Events |-> NoInput]
    /\ row = [e \in Events |-> NoRow] /\ older = [e \in Events |-> {}]
    /\ budget \in Budgets
    /\ token = [d \in Devices |-> [alert |-> budget.known, live |-> budget.known]]
    /\ pair = [d \in Devices |-> budget.known]
    /\ tombs = {} /\ provider \in budget.modes
    /\ thread = [t \in Threads |-> Idle]
    /\ again = {}
------------------------------------------------------------------------------
(* Rows.                                                                   *)

HasRow(R, e) == R[e] # NoRow
Active(R, e) == HasRow(R, e) /\ R[e].state \in ActiveStates
Final(R, e) == HasRow(R, e) /\ R[e].state \in FinalStates

(* Mutant: a row without a next attempt does not expire.                   *)
ExpiringScheduled(R, e) == Active(R, e) /\ R[e].old /\ R[e].due # "never"

(* An active row is given up a day after it was created.                   *)
Expiring(R, e) == Active(R, e) /\ R[e].old
Expired(R) ==
    [e \in Events |->
        IF Expiring(R, e)
        THEN [R[e] EXCEPT !.state = "dead_letter", !.due = "never", !.lock = Nobody,
                          !.stale = FALSE, !.tried = TRUE, !.missing = FALSE]
        ELSE R[e]]

(* Beyond the limit the oldest finished rows go whose input is deleted.    *)
Removable(R, e) == Final(R, e) /\ ~R[e].present
Pruned(R, o) ==
    LET rows == {e \in Events : HasRow(R, e)}
        before(e) == {x \in rows : Removable(R, x) /\ x \in o[e]}
    IN {e \in rows : /\ Removable(R, e)
                     /\ Cardinality(before(e)) + TerminalLimit < Cardinality(rows)}
Commit(R) ==
    LET rows == {e \in Events : HasRow(row, e)}
        o == [e \in Events |-> IF e \in rows THEN older[e] ELSE rows]
        gone == Pruned(R, o)
    IN /\ row' = [e \in Events |-> IF e \in gone THEN NoRow ELSE R[e]]
       /\ older' = [e \in Events |-> IF HasRow(row', e) THEN o[e] \ gone ELSE {}]

(* Finished rows whose input is still there: candidates for Look.          *)
Leftovers(R) == {e \in Events : Final(R, e) /\ R[e].present}
(* The thread cleans up "todo", then goes to "then".                       *)
CleanThen(t, r, todo, then) ==
    Set(t, IF todo # {}
           THEN [r EXCEPT !.pc = "look", !.cur = NoEvent, !.todo = todo, !.then = then]
           ELSE IF then = "idle" THEN Idle
           ELSE [r EXCEPT !.pc = then, !.cur = NoEvent, !.todo = {}, !.then = "idle"])

NewRow == [state |-> "pending", att |-> 0, lock |-> Nobody, stale |-> FALSE,
           due |-> "now", present |-> TRUE, tok |-> 0, tried |-> FALSE,
           missing |-> FALSE, old |-> FALSE]
HasRoom(R) == Cardinality({e \in Events : Active(R, e)}) < ActiveLimit

(* What an answer makes of a row.  Attempts are counted up to the third.   *)
StateFor(r, out) ==
    CASE out = "sent" -> "sent"
      [] out = "invalid" -> "invalidated"
      [] out \in {"missing", "unset"} -> "credential_blocked"
      [] out = "waiting" -> IF r.old THEN "dead_letter" ELSE "credential_blocked"
      [] out = "queued" -> IF r.old THEN "dead_letter" ELSE "pending"
      [] out = "retry" -> IF r.att >= 3 THEN "dead_letter" ELSE "pending"
      [] out = "muted" -> "suppressed"
      [] OTHER -> "dead_letter"
(* Mutant: a completed row keeps its lock.                                 *)
CompletedLocked(r, out) == [r EXCEPT !.state = StateFor(r, out), !.due = "never"]

Completed(r, out) ==
    LET s == StateFor(r, out) IN
    [r EXCEPT !.state = s, !.lock = Nobody, !.stale = FALSE, !.tried = TRUE,
              !.missing = out = "missing",
              !.due = IF /\ out \in {"waiting", "queued", "retry"}
                         /\ s \in {"pending", "credential_blocked"}
                      THEN "later" ELSE "never"]

(* Whoever else submits an event is given its row's state unless it is due *)
(* or its lease ended.                                                     *)
Due(R, e) == \/ /\ R[e].state \in {"pending", "credential_blocked"}
                /\ R[e].due = "now"
             \/ /\ R[e].state = "sending"
                /\ R[e].stale
Settled(R, e) == HasRow(R, e) /\ ~Due(R, e)
------------------------------------------------------------------------------
(* record_event.                                                           *)

(* What is too old expires first.                                          *)
Submit(t, e) ==
    /\ At(t) = "idle" /\ t \in Senders
    /\ budget.submits[e] > 0
    /\ budget' = [budget EXCEPT !.submits[e] = @ - 1]
    /\ LET R == Expired(row) IN
       /\ Commit(R)
       /\ CleanThen(t, [Idle EXCEPT !.e = e],
                    IF R = row THEN {} ELSE Leftovers(row'), "persist")
    /\ UNCHANGED <<input, credentials, again>>

(* The replay input is stored before there is a row to claim.              *)
Persist(t) ==
    /\ At(t) = "persist"
    /\ input' = [input EXCEPT ![Ev(t)] =
         IF @ = NoInput THEN [tok |-> 0, mode |-> "none", pair |-> 0] ELSE @]
    /\ again' = IF Dev(t) \in tombs THEN again \cup {Ev(t)} ELSE again
    /\ Goto(t, "prepare")
    /\ UNCHANGED <<row, older, credentials, budget>>

(* The claim this delivery was dispatched for is still its own, or there   *)
(* was no claim and the event is not settled.                              *)
MayProceed(t) ==
    LET e == Ev(t) IN
    IF thread[t].held
    THEN HasRow(row, e) /\ row[e].state = "sending" /\ row[e].lock = t
    ELSE ~Settled(Expired(row), e)

(* The token a replay is bound to stays; a Live Activity may renew its own.*)
Target(e) ==
    LET offered == token[DeviceOf[e]][IF e \in Live THEN "live" ELSE "alert"]
        bound == input[e].tok
    IN IF \/ bound = 0
          \/ /\ e \in Live /\ offered \notin {0, bound}
             /\ Activity[offered] = Activity[bound]
       THEN offered ELSE bound
(* A row may have been bound to another target than its replay.            *)
Aligned(r, e, tok) ==
    \/ r.tok \in {0, tok}
    \/ e \in Live /\ tok # 0 /\ Activity[r.tok] = Activity[tok]

Turned(t) == ~HasRow(Expired(row), Ev(t)) /\ ~HasRoom(Expired(row))

(* The device was revoked, the input is gone, the outbox is full, or the   *)
(* registry cannot be written although the input has been bound.           *)
PrepareFails(t) ==
    /\ At(t) = "prepare"
    /\ \/ /\ \/ Dev(t) \in tombs
             \/ MayProceed(t) /\ input[Ev(t)] = NoInput
          /\ UNCHANGED <<input, budget>>
       \/ /\ Dev(t) \notin tombs
          /\ MayProceed(t) /\ input[Ev(t)] # NoInput
          /\ \/ /\ Turned(t)
                /\ UNCHANGED budget
             \/ Spend("faults")
          /\ input' = [input EXCEPT ![Ev(t)].tok = Target(Ev(t))]
    /\ Goto(t, "orphan")
    /\ UNCHANGED <<row, older, credentials, again>>

(* Somebody else sends it, or it is settled: the caller is told the state. *)
PrepareAnswers(t) ==
    /\ At(t) = "prepare" /\ Dev(t) \notin tombs
    /\ ~MayProceed(t)
    /\ Commit(Expired(row))
    /\ CleanThen(t, thread[t], Leftovers(row') \cup {Ev(t)}, Home(t))
    /\ UNCHANGED <<input, credentials, budget, again>>

Ready(t) ==
    /\ At(t) = "prepare" /\ Dev(t) \notin tombs
    /\ MayProceed(t) /\ input[Ev(t)] # NoInput
    /\ ~Turned(t)
(* What keeps a delivery from being dispatched: another target, alerts off *)
(* or snoozed, no provider, a certificate of another environment, no token.*)
Conflicts(t, tok) == thread[t].held /\ ~Aligned(row[Ev(t)], Ev(t), tok)
Obstacles(t, tok) ==
    IF Conflicts(t, tok) THEN {"conflict"}
    ELSE budget.quiet \cup
         (IF provider # "local" \/ tok # 0 THEN {}
          ELSE IF Ev(t) \in Live THEN {"unset"} ELSE {"missing"})
(* The row a delivery is recorded on, bound to its target.                 *)
Bound(t, R, tok) ==
    LET e == Ev(t) IN
    IF ~HasRow(R, e) THEN [NewRow EXCEPT !.tok = tok]
    ELSE IF tok = 0 \/ Conflicts(t, tok) THEN R[e]
    ELSE [R[e] EXCEPT !.tok = tok]
Rows(t) == IF thread[t].held THEN row ELSE Expired(row)

PrepareSettles(t) ==
    /\ Ready(t)
    /\ LET e == Ev(t)
           tok == Target(e)
       IN /\ input' = [input EXCEPT ![e].tok = tok]
          /\ \E out \in Obstacles(t, tok) :
                Commit([Rows(t) EXCEPT ![e] = Completed(Bound(t, Rows(t), tok), out)])
    /\ CleanThen(t, thread[t], Leftovers(row') \cup {Ev(t)}, Home(t))
    /\ UNCHANGED <<credentials, budget, again>>

(* The row is locked for this delivery, or already is by the claim.        *)
PrepareSends(t) ==
    /\ Ready(t)
    /\ LET e == Ev(t)
           tok == Target(e)
           r == Bound(t, Rows(t), tok)
           att == IF r.att < 3 THEN r.att + 1 ELSE 3
           locked == IF thread[t].held THEN r
                     ELSE [r EXCEPT !.state = "sending", !.att = att, !.lock = t,
                                    !.stale = FALSE]
       IN /\ ~Conflicts(t, tok)
          /\ provider = "local" => tok # 0
          /\ input' = [input EXCEPT ![e].tok = tok]
          /\ Commit([Rows(t) EXCEPT ![e] = locked])
          /\ CleanThen(t, [thread[t] EXCEPT !.tok = tok, !.mode = provider,
                             !.first = locked.att <= 1 \/ ~locked.tried],
                       Leftovers(row'), "bind")
    /\ UNCHANGED <<credentials, budget, again>>

(* Binding the provider, then in relay mode the relay identity, needs the  *)
(* input; only the first attempt may choose.                               *)
Answer(t, out) ==
    Set(t, [thread[t] EXCEPT !.pc = "finish", !.out = out])
BindProvider(t) ==
    /\ At(t) = "bind"
    /\ LET i == input[Ev(t)]
           mode == IF i.mode # "none" THEN i.mode ELSE thread[t].mode
       IN IF i = NoInput THEN Answer(t, "retry") /\ UNCHANGED input
          ELSE IF i.mode = "none" /\ ~thread[t].first
          THEN Answer(t, "unbound") /\ UNCHANGED input
          ELSE /\ input' = [input EXCEPT ![Ev(t)].mode = mode]
               /\ IF mode # thread[t].mode THEN Answer(t, "changed")
                  ELSE Goto(t, IF mode = "local" THEN "send" ELSE "identify")
    /\ UNCHANGED <<row, older, credentials, budget, again>>
BindRelay(t) ==
    /\ At(t) = "identify"
    /\ LET i == input[Ev(t)]
           known == pair[Dev(t)]
       IN IF i = NoInput THEN Answer(t, "retry") /\ UNCHANGED input
          ELSE IF i.pair # 0
          THEN Set(t, [thread[t] EXCEPT !.pc = "send", !.pair = i.pair]) /\ UNCHANGED input
          ELSE IF ~thread[t].first THEN Answer(t, "unbound") /\ UNCHANGED input
          ELSE IF known = 0 THEN Answer(t, "unset") /\ UNCHANGED input
          ELSE /\ input' = [input EXCEPT ![Ev(t)].pair = known]
               /\ Set(t, [thread[t] EXCEPT !.pc = "send", !.pair = known])
    /\ UNCHANGED <<row, older, credentials, budget, again>>

(* The provider, without a lock.  A relay secret registered in between is  *)
(* noticed; another token is not.                                          *)
Answers(t) ==
    IF thread[t].mode = "local" THEN {"sent", "retry", "reject", "invalid"}
    ELSE IF pair[Dev(t)] = 0 THEN {"unset"}
    ELSE IF pair[Dev(t)] # thread[t].pair THEN {"changed"}
    ELSE {"sent", "retry", "reject", "invalid", "queued", "waiting"}
Send(t) ==
    /\ At(t) = "send"
    /\ \E out \in Answers(t) \ budget.never : Answer(t, out)
    /\ UNCHANGED <<stores, credentials, budget, again>>

(* The answer counts only for whoever still holds the row's lock.  A token *)
(* the provider refuses is forgotten if it is still the registered one, and*)
(* so is the token of an activity that has ended.                          *)
Retired(t) ==
    LET kind == IF Ev(t) \in Live THEN "live" ELSE "alert" IN
    /\ thread[t].tok # 0 /\ token[Dev(t)][kind] = thread[t].tok
    /\ \/ thread[t].out = "invalid"
       \/ kind = "live" /\ thread[t].out = "sent" /\ budget.ends
Forgets(t) == [token EXCEPT ![Dev(t)][IF Ev(t) \in Live THEN "live" ELSE "alert"] = 0]
(* Mutant: an answer counts whoever holds the lock by now.                 *)
OwnsAnyway(t) == HasRow(row, Ev(t))

Owns(t) == HasRow(row, Ev(t)) /\ row[Ev(t)].lock = t

Finish(t) ==
    /\ At(t) = "finish"
    /\ IF Owns(t)
       THEN /\ Commit([row EXCEPT ![Ev(t)] = Completed(@, thread[t].out)])
            /\ token' = IF Retired(t) THEN Forgets(t) ELSE token
       ELSE /\ Commit(Expired(row))
            /\ UNCHANGED token
    /\ CleanThen(t, thread[t], {Ev(t)}, Home(t))
    /\ UNCHANGED <<input, pair, tombs, provider, budget, again>>
(* The registry cannot be written.                                         *)
FinishFails(t) ==
    /\ At(t) = "finish" /\ Spend("faults")
    /\ Raise(t)
    /\ UNCHANGED <<stores, credentials, again>>
(* _complete_claim_exception.                                              *)
Excuse(t) ==
    /\ At(t) = "except"
    /\ IF Owns(t) THEN Commit([row EXCEPT ![Ev(t)] = Completed(@, "retry")])
                  ELSE UNCHANGED <<row, older>>
    /\ Return(t)
    /\ UNCHANGED <<input, credentials, budget, again>>

(* The input of a delivery that could not be prepared is deleted if there  *)
(* was no row when it was looked for.                                      *)
LookForRow(t) ==
    /\ At(t) = "orphan"
    /\ IF HasRow(row, Ev(t)) THEN Raise(t) ELSE Goto(t, "unsave")
    /\ UNCHANGED <<stores, credentials, budget, again>>
DeleteOrphan(t) ==
    /\ At(t) = "unsave"
    /\ input' = [input EXCEPT ![Ev(t)] = NoInput]
    /\ Raise(t)
    /\ UNCHANGED <<row, older, credentials, budget, again>>
------------------------------------------------------------------------------
(* _cleanup_retry_payload_if_terminal, for what is to do: look whether the *)
(* event is finished, delete its input, note that it is gone.              *)

CleanNext(t, e) == CleanThen(t, thread[t], thread[t].todo \ {e}, thread[t].then)
Look(t, e) ==
    /\ At(t) = "look" /\ e \in thread[t].todo
    /\ IF Final(row, e) THEN Set(t, [thread[t] EXCEPT !.pc = "delete", !.cur = e])
                        ELSE CleanNext(t, e)
    /\ UNCHANGED <<stores, credentials, budget, again>>
Delete(t) ==
    /\ At(t) = "delete"
    /\ input' = [input EXCEPT ![thread[t].cur] = NoInput]
    /\ Goto(t, "mark")
    /\ UNCHANGED <<row, older, credentials, budget, again>>
MarkClean(t) ==
    /\ At(t) = "mark"
    /\ LET e == thread[t].cur IN
       /\ Commit(IF Final(row, e) THEN [row EXCEPT ![e].present = FALSE] ELSE row)
       /\ CleanNext(t, e)
    /\ UNCHANGED <<input, credentials, budget, again>>
------------------------------------------------------------------------------
(* drain_due_deliveries: expire, clean up, dispatch the inputs without a   *)
(* row, claim the rows that are due, dispatch those.                       *)

Drain ==
    /\ At(Worker) = "idle"
    /\ Commit(Expired(row))
    /\ CleanThen(Worker, Idle, Leftovers(row'), "inputs")
    /\ UNCHANGED <<input, credentials, budget, again>>
(* _valid_retry_payloads, read before the rows are.                        *)
ReadInputs ==
    /\ At(Worker) = "inputs"
    /\ Set(Worker, [thread[Worker] EXCEPT
         !.jobs = {e \in Events : input[e] # NoInput},
         !.pc = IF thread[Worker].phase = "idle" THEN "rows" ELSE "claim"])
    /\ UNCHANGED <<stores, credentials, budget, again>>
ReadRows ==
    /\ At(Worker) = "rows"
    /\ Set(Worker, [thread[Worker] EXCEPT
         !.jobs = {e \in @ : ~HasRow(row, e)}, !.phase = "orphans", !.pc = "next"])
    /\ UNCHANGED <<stores, credentials, budget, again>>

(* A claim locks a row that is due; one whose input is gone is given up.   *)
Claimed(r) ==
    [r EXCEPT !.state = "sending", !.att = IF @ < 3 THEN @ + 1 ELSE 3, !.lock = Worker,
              !.stale = FALSE, !.due = "never", !.present = TRUE]
Lost(r) ==
    [r EXCEPT !.state = "dead_letter", !.due = "never", !.lock = Nobody, !.stale = FALSE,
              !.tried = TRUE, !.missing = FALSE, !.present = FALSE]
Claim ==
    /\ At(Worker) = "claim"
    /\ LET R == Expired(row)
           due == {e \in Events : Active(R, e) /\ Due(R, e)}
           mine == due \cap thread[Worker].jobs
       IN /\ Commit([e \in Events |-> IF e \in mine THEN Claimed(R[e])
                                      ELSE IF e \in due THEN Lost(R[e]) ELSE R[e]])
          /\ CleanThen(Worker, [thread[Worker] EXCEPT !.jobs = mine, !.phase = "claims"],
                       Leftovers(row'), "next")
    /\ UNCHANGED <<input, credentials, budget, again>>
(* The next job; after the last input without a row come the claims.       *)
NextJob ==
    /\ At(Worker) = "next"
    /\ LET w == thread[Worker] IN
       \/ \E e \in w.jobs :
             Set(Worker, [w EXCEPT !.pc = "prepare", !.e = e, !.jobs = @ \ {e},
                                   !.held = w.phase = "claims"])
       \/ /\ w.jobs = {} /\ w.phase = "orphans"
          /\ Set(Worker, [Idle EXCEPT !.pc = "inputs", !.phase = "orphans"])
       \/ /\ w.jobs = {} /\ w.phase = "claims"
          /\ Set(Worker, Idle)
    /\ UNCHANGED <<stores, credentials, budget, again>>
------------------------------------------------------------------------------
(* Phones, the configuration, the clock and the process.                   *)

(* update_preferences: another token makes the alerts due that lacked one. *)
RegisterToken(d, n) ==
    /\ d \notin tombs /\ token[d].alert < n /\ "alert" \in budget.kinds /\ Spend("tokens")
    /\ token' = [token EXCEPT ![d].alert = n]
    /\ row' = [e \in Events |->
         IF /\ HasRow(row, e) /\ DeviceOf[e] = d /\ e \notin Live
            /\ row[e].state = "credential_blocked" /\ row[e].missing
         THEN [row[e] EXCEPT !.state = "pending", !.due = "now"] ELSE row[e]]
    /\ UNCHANGED <<input, older, pair, tombs, provider, thread, again>>
RegisterActivity(d, n) ==
    /\ d \notin tombs /\ token[d].live < n /\ "live" \in budget.kinds /\ Spend("tokens")
    /\ token' = [token EXCEPT ![d].live = n]
    /\ UNCHANGED <<stores, pair, tombs, provider, thread, again>>
RegisterPair(d, n) ==
    /\ d \notin tombs /\ pair[d] < n /\ "pair" \in budget.kinds /\ Spend("tokens")
    /\ pair' = [pair EXCEPT ![d] = n]
    /\ UNCHANGED <<stores, token, tombs, provider, thread, again>>

(* Mutant: a drop forgets the inputs of the phone.                         *)
DropTokens(d) ==
    /\ tombs' = tombs \cup {d}
    /\ token' = [token EXCEPT ![d] = [alert |-> 0, live |-> 0]]
    /\ pair' = [pair EXCEPT ![d] = 0]
    /\ UNCHANGED <<input, provider>>

(* drop_device: the secrets first, then the rows; a crash may come between.*)
DropSecrets(d) ==
    /\ tombs' = tombs \cup {d}
    /\ token' = [token EXCEPT ![d] = [alert |-> 0, live |-> 0]]
    /\ pair' = [pair EXCEPT ![d] = 0]
    /\ input' = [e \in Events |-> IF DeviceOf[e] = d THEN NoInput ELSE input[e]]
    /\ UNCHANGED provider
DropRow(r, e) ==
    LET gone == [r EXCEPT !.present = @ /\ input[e] = NoInput] IN
    IF r.state \notin ActiveStates THEN gone
    ELSE [gone EXCEPT !.state = "invalidated", !.due = "never", !.lock = Nobody,
                      !.stale = FALSE, !.tried = TRUE, !.missing = FALSE]
DropDevice(d) ==
    /\ Spend("drops")
    /\ DropSecrets(d)
    /\ Commit([e \in Events |-> IF HasRow(row, e) /\ DeviceOf[e] = d
                                THEN DropRow(row[e], e) ELSE row[e]])
    /\ UNCHANGED <<thread, again>>
DropHalf(d) ==
    /\ budget.drops > 0 /\ budget.crashes > 0
    /\ budget' = [budget EXCEPT !.drops = @ - 1, !.crashes = @ - 1]
    /\ DropSecrets(d)
    /\ thread' = [t \in Threads |-> Idle]
    /\ UNCHANGED <<row, older, again>>
Crash ==
    /\ Spend("crashes")
    /\ thread' = [t \in Threads |-> Idle]
    /\ UNCHANGED <<stores, credentials, again>>
SwitchProvider ==
    /\ Spend("switches")
    /\ \E m \in Modes \ {provider} : provider' = m
    /\ UNCHANGED <<stores, token, pair, tombs, thread, again>>

(* The delay before another attempt, the lease of a sender, the day after  *)
(* which an event is given up.                                             *)
DelayEnds(e) ==
    /\ HasRow(row, e) /\ row[e].due = "later"
    /\ row' = [row EXCEPT ![e].due = "now"]
    /\ UNCHANGED <<input, older, credentials, thread, budget, again>>
LeaseEnds(e) ==
    /\ HasRow(row, e) /\ row[e].state = "sending" /\ ~row[e].stale
    /\ row' = [row EXCEPT ![e].stale = TRUE]
    /\ UNCHANGED <<input, older, credentials, thread, budget, again>>
DayPasses(e) ==
    /\ Active(row, e) /\ ~row[e].old
    /\ row' = [row EXCEPT ![e].old = TRUE]
    /\ UNCHANGED <<input, older, credentials, thread, budget, again>>

Deliver(t) ==
    \/ Persist(t) \/ PrepareAnswers(t) \/ PrepareSettles(t) \/ PrepareSends(t)
    \/ BindProvider(t) \/ BindRelay(t) \/ Send(t) \/ Finish(t) \/ Excuse(t)
    \/ LookForRow(t) \/ DeleteOrphan(t)
    \/ \E e \in Events : Look(t, e)
    \/ Delete(t) \/ MarkClean(t)
WorkerStep == Drain \/ ReadInputs \/ ReadRows \/ Claim \/ NextJob
Clock(e) == DelayEnds(e) \/ LeaseEnds(e) \/ DayPasses(e)

OutboxNext ==
    \/ \E t \in Threads : Deliver(t) \/ PrepareFails(t) \/ FinishFails(t)
    \/ WorkerStep
    \/ \E t \in Senders, e \in Events : Submit(t, e)
    \/ \E e \in Events : Clock(e)
    \/ \E d \in Devices : DropDevice(d) \/ DropHalf(d)
    \/ \E d \in Devices, n \in Credentials :
          RegisterToken(d, n) \/ RegisterActivity(d, n) \/ RegisterPair(d, n)
    \/ SwitchProvider \/ Crash

OutboxSafety == OutboxInit /\ [][OutboxNext]_vars
(* The worker is a daemon thread whose requests time out; nothing is asked *)
(* of the senders.                                                         *)
OutboxSpec ==
    /\ OutboxSafety
    /\ WF_vars(WorkerStep \/ Deliver(Worker) \/ PrepareFails(Worker))
    /\ WF_vars(\E e \in Events : DelayEnds(e))
    /\ WF_vars(\E e \in Events : LeaseEnds(e))
    /\ WF_vars(\E e \in Events : DayPasses(e))
------------------------------------------------------------------------------
(* Types; only a row that is being sent is locked, and the rows are in an  *)
(* order, which is what pruning goes by.                                   *)
RowsTypeOK ==
    /\ \A e \in Events : input[e] \in Inputs \cup {NoInput} /\ row[e] \in RowType \cup {NoRow}
    /\ \A e \in Events : HasRow(row, e) /\ row[e].lock # Nobody => row[e].state = "sending"
OrderTypeOK ==
    LET rows == {e \in Events : HasRow(row, e)} IN
    /\ \A e \in rows : older[e] \subseteq rows \ {e}
    /\ \A e, f \in rows : e # f => (e \in older[f] <=> f \notin older[e])
    /\ \A e, f \in rows : e \in older[f] => older[e] \subseteq older[f]
OutboxTypeOK == RowsTypeOK /\ OrderTypeOK

(* A finished event stays as it finished, whichever sender's answer comes  *)
(* late, whatever claim, expiry or registration runs beside it, until its  *)
(* row is pruned.                                                          *)
FinishedStaysFinished ==
    [][\A e \in Events : Final(row, e) /\ HasRow(row', e) => row'[e].state = row[e].state]_vars

(* An event that can still be sent has the input to send it with, unless   *)
(* its phone is gone.                                                      *)
InputBacksRow ==
    \A e \in Events : Active(row, e) => input[e] # NoInput \/ DeviceOf[e] \in tombs

(* No delivery gets as far as the provider once its phone has been dropped,*)
(* unless somebody submitted the event again after that.                   *)
NoSendAfterDrop ==
    [][\A t \in Threads :
         At(t) # "send" /\ thread'[t].pc = "send" => Dev(t) \notin tombs \/ Ev(t) \in again]_vars

(* What has been accepted for delivery does not stay undecided.            *)
Owed(e) == Active(row, e) \/ (input[e] # NoInput /\ ~HasRow(row, e))
EveryEventSettles == \A e \in Events : Owed(e) ~> ~Owed(e)
==============================================================================
