-------------------------- MODULE PushOutboxProofs ---------------------------
(***************************************************************************)
(* Proofs about PushOutbox: for any events, phones, senders, limits and    *)
(* failures a finished delivery stays as it finished, and no delivery gets *)
(* to the provider once its phone was dropped.                             *)
(*                                                                         *)
(* The first rests on locks: only a row that is "sending" is locked, so an *)
(* answer that counts, because its sender holds the lock, finds no finished*)
(* row.  The second rests on the inputs: dropping a phone deletes them, and*)
(* none comes back but for an event that is submitted again, so whoever    *)
(* finds the input to bind may still send.                                 *)
(***************************************************************************)
EXTENDS PushOutbox, TLAPS

(* A table of rows as every transaction leaves it.                         *)
RowsGood(R) ==
    /\ R \in [Events -> RowType \cup {NoRow}]
    /\ \A e \in Events : HasRow(R, e) /\ R[e].lock # Nobody => R[e].state = "sending"

(* One in which what is finished is as it was.                             *)
Frozen(R) == \A e \in Events : Final(row, e) /\ HasRow(R, e) => R[e].state = row[e].state

(* What threads keep: between the steps of a delivery its event, between   *)
(* those of a clean-up the event it is at and where to go on.              *)
Delivering == {"persist", "prepare", "bind", "identify", "send", "finish", "except",
               "orphan", "unsave"}
Cleaning == {"look", "delete", "mark"}
Elsewhere == {"idle", "inputs", "rows", "claim", "next"}
GoesOn == {"persist", "bind", "inputs", "next", "idle"}
ThreadType ==
    [pc : Delivering \cup Cleaning \cup Elsewhere, e : Events \cup {NoEvent}, held : BOOLEAN,
     tok : Tokens, pair : Tokens, mode : Modes, first : BOOLEAN,
     out : {"none", "sent", "retry", "reject", "invalid", "queued", "waiting", "unset",
            "changed", "unbound"},
     todo : SUBSET Events, cur : Events \cup {NoEvent}, then : GoesOn, jobs : SUBSET Events,
     phase : {"idle", "orphans", "claims"}]
ThreadGood(r) ==
    /\ r \in ThreadType
    /\ r.pc \in Delivering => r.e \in Events
    /\ r.pc \in {"delete", "mark"} => r.cur \in Events
    /\ r.pc \in Cleaning /\ r.then \in {"persist", "bind"} => r.e \in Events

(* An input is there only for a phone that is, or that was submitted to    *)
(* again.                                                                  *)
Allowed(e) == DeviceOf[e] \notin tombs \/ e \in again
InputsAreAllowed == \A e \in Events : input[e] # NoInput => Allowed(e)

StoresGood ==
    /\ input \in [Events -> Inputs \cup {NoInput}]
    /\ token \in [Devices -> [alert : Tokens, live : Tokens]]
    /\ pair \in [Devices -> Tokens] /\ provider \in Modes

ThreadsGood ==
    /\ thread \in [Threads -> ThreadType]
    /\ \A t \in Threads : ThreadGood(thread[t])

(* The inductive invariant.                                                *)
OutboxInv == RowsGood(row) /\ OrderTypeOK /\ StoresGood /\ InputsAreAllowed /\ ThreadsGood

(* Whoever gets to the provider may.                                       *)
Sending == \A t \in Threads : At(t) # "send" /\ thread'[t].pc = "send" => Allowed(Ev(t))

------------------------------------------------------------------------------
(* Rows.                                                                   *)

(* The table before a transaction is a good one.                           *)
LEMMA RowsAreFrozen == ASSUME RowsGood(row) PROVE Frozen(row)
  BY DEF Frozen

(* Expiry finishes active rows, and touches no other.                      *)
LEMMA ExpiredIsGood ==
  ASSUME RowsGood(row)
  PROVE  /\ RowsGood(Expired(row)) /\ Frozen(Expired(row))
         /\ \A e \in Events : Final(row, e) => Expired(row)[e] = row[e]
<1> DEFINE R == Expired(row)
<1>1. ASSUME NEW e \in Events
      PROVE  /\ R[e] \in RowType \cup {NoRow}
             /\ HasRow(R, e) /\ R[e].lock # Nobody => R[e].state = "sending"
             /\ Final(row, e) => R[e] = row[e]
  <2>1. row[e] \in RowType \cup {NoRow}
    BY DEF RowsGood
  <2>2. CASE Expiring(row, e)
    <3>1. R[e] = [row[e] EXCEPT !.state = "dead_letter", !.due = "never", !.lock = Nobody,
                      !.stale = FALSE, !.tried = TRUE, !.missing = FALSE]
      BY <2>2 DEF Expired
    <3>2. row[e] \in RowType /\ row[e].state \in ActiveStates
      BY <2>1, <2>2 DEF Expiring, Active, HasRow
    <3> QED BY <3>1, <3>2 DEF RowType, FinalStates, ActiveStates, Final
  <2>3. CASE ~Expiring(row, e)
    <3>1. R[e] = row[e]
      BY <2>3 DEF Expired
    <3> QED BY <2>1, <3>1 DEF RowsGood, HasRow
  <2> QED BY <2>2, <2>3
<1>2. R = [e \in Events |-> R[e]]
  BY DEF Expired
<1> HIDE DEF R
<1>3. R \in [Events -> RowType \cup {NoRow}]
  BY <1>1, <1>2
<1>4. RowsGood(R)
  BY <1>1, <1>3 DEF RowsGood
<1>5. Frozen(R)
  BY <1>1 DEF Frozen, Final
<1> QED BY <1>1, <1>4, <1>5 DEF R

(* A table with the rows there are, or one more.                           *)
Added(R) ==
    /\ \A e \in Events : HasRow(row, e) => HasRow(R, e)
    /\ \A e, f \in {x \in Events : HasRow(R, x) /\ ~HasRow(row, x)} : e = f
Ordered ==
    \/ \E R : Commit(R) /\ Added(R)
    \/ older' = older /\ \A e \in Events : HasRow(row', e) <=> HasRow(row, e)

(* A commit of such a table keeps the order, also of what it prunes.       *)
LEMMA CommitKeepsOrder ==
  ASSUME OrderTypeOK, NEW R, Commit(R), Added(R)
  PROVE  OrderTypeOK'
<1> DEFINE rows == {e \in Events : HasRow(row, e)}
           o == [e \in Events |-> IF e \in rows THEN older[e] ELSE rows]
           gone == Pruned(R, o)
           left == {e \in Events : HasRow(row', e)}
<1>1. /\ \A e \in Events : HasRow(row, e) => HasRow(R, e)
      /\ \A e, f \in {x \in Events : HasRow(R, x) /\ ~HasRow(row, x)} : e = f
  BY DEF Added
<1>2. /\ row' = [e \in Events |-> IF e \in gone THEN NoRow ELSE R[e]]
      /\ older' = [e \in Events |-> IF HasRow(row', e) THEN o[e] \ gone ELSE {}]
  BY DEF Commit
<1> HIDE DEF gone
<1>3. left = {e \in Events : HasRow(R, e)} \ gone
  BY <1>2 DEF HasRow
<1>4. /\ rows \subseteq Events /\ left \subseteq Events \ gone /\ rows \ gone \subseteq left
      /\ \A e, f \in left \ rows : e = f
  BY <1>1, <1>3
<1>5. /\ \A e \in rows : older[e] \subseteq rows \ {e}
      /\ \A e, f \in rows : e # f => (e \in older[f] <=> f \notin older[e])
      /\ \A e, f \in rows : e \in older[f] => older[e] \subseteq older[f]
  BY DEF OrderTypeOK
<1>6. \A e \in left : older'[e] = (IF e \in rows THEN older[e] ELSE rows) \ gone
  BY <1>2
<1> HIDE DEF rows, left
<1>7. \A e \in left : older'[e] \subseteq left \ {e}
  BY <1>4, <1>5, <1>6
<1>8. \A e, f \in left : e # f => (e \in older'[f] <=> f \notin older'[e])
  BY <1>4, <1>5, <1>6
<1>9. \A e, f \in left : e \in older'[f] => older'[e] \subseteq older'[f]
  BY <1>4, <1>5, <1>6
<1> QED BY <1>7, <1>8, <1>9 DEF OrderTypeOK, left

(* Expired rows are rows.                                                  *)
LEMMA ExpiredRows ==
  ASSUME RowsGood(row)
  PROVE  \A e \in Events : HasRow(Expired(row), e) <=> HasRow(row, e)
<1>1. ASSUME NEW e \in Events PROVE HasRow(Expired(row), e) <=> HasRow(row, e)
  <2>1. CASE Expiring(row, e)
    <3>1. Expired(row)[e] = [row[e] EXCEPT !.state = "dead_letter", !.due = "never",
                                 !.lock = Nobody, !.stale = FALSE, !.tried = TRUE,
                                 !.missing = FALSE]
      BY <2>1 DEF Expired
    <3>2. HasRow(row, e) /\ row[e] \in RowType
      BY <2>1 DEF RowsGood, Expiring, Active, HasRow
    <3>3. Expired(row)[e] \in RowType
      BY <3>1, <3>2 DEF RowType, FinalStates
    <3> QED BY <3>2, <3>3, OutboxAssumption DEF OutboxAssumption, HasRow
  <2>2. CASE ~Expiring(row, e)
    BY <2>2 DEF Expired, HasRow
  <2> QED BY <2>1, <2>2
<1> QED BY <1>1

(* The rows there are, however changed, and no more.                       *)
LEMMA ChangedAdds ==
  ASSUME NEW R, \A e \in Events : HasRow(R, e) <=> HasRow(row, e)
  PROVE  Added(R)
  BY DEF Added

(* Another row for one event is an addition, if at all.                    *)
LEMMA ReplacedAdds ==
  ASSUME NEW R, R = row \/ R = Expired(row), RowsGood(row), NEW e \in Events, NEW r \in RowType
  PROVE  Added([R EXCEPT ![e] = r])
<1>1. \A x \in Events : HasRow(R, x) <=> HasRow(row, x)
  BY ExpiredRows
<1>2. R \in [Events -> RowType \cup {NoRow}]
  BY ExpiredIsGood DEF RowsGood
<1>3. r # NoRow
  BY OutboxAssumption DEF OutboxAssumption
<1> DEFINE N == [R EXCEPT ![e] = r]
<1>4. N[e] = r /\ \A x \in Events \ {e} : N[x] = R[x]
  BY <1>2
<1> HIDE DEF N
<1>5. \A x \in Events : HasRow(row, x) => HasRow(N, x)
  BY <1>1, <1>3, <1>4 DEF HasRow
<1>6. \A x \in Events : HasRow(N, x) /\ ~HasRow(row, x) => x = e
  BY <1>1, <1>4 DEF HasRow
<1>7. Added(N)
  BY <1>5, <1>6 DEF Added
<1> QED BY <1>7 DEF N

(* A commit keeps rows as they are or prunes them.                         *)
LEMMA CommitKeeps ==
  ASSUME NEW R, RowsGood(R), Frozen(R), Commit(R), Added(R)
  PROVE  RowsGood(row') /\ Frozen(row') /\ Ordered
<1>1. PICK gone : row' = [e \in Events |-> IF e \in gone THEN NoRow ELSE R[e]]
  BY DEF Commit
<1>2. \A e \in Events : row'[e] \in {NoRow, R[e]}
  BY <1>1
<1>3. row' \in [Events -> RowType \cup {NoRow}]
  BY <1>1 DEF RowsGood
<1>4. RowsGood(row')
  BY <1>2, <1>3 DEF RowsGood, HasRow
<1>5. Frozen(row')
  BY <1>2 DEF Frozen, HasRow
<1> QED BY <1>4, <1>5 DEF Ordered

(* One row is replaced by one that is locked only while it is sending, and *)
(* that is finished as it was.                                             *)
LEMMA ReplaceKeeps ==
  ASSUME NEW R, RowsGood(R), Frozen(R), NEW e \in Events, NEW r \in RowType,
         r.lock # Nobody => r.state = "sending",
         Final(row, e) => r.state = row[e].state
  PROVE  RowsGood([R EXCEPT ![e] = r]) /\ Frozen([R EXCEPT ![e] = r])
<1> DEFINE N == [R EXCEPT ![e] = r]
<1>1. /\ N \in [Events -> RowType \cup {NoRow}]
      /\ N[e] = r /\ \A x \in Events \ {e} : N[x] = R[x]
  BY DEF RowsGood
<1> HIDE DEF N
<1>2. RowsGood(N)
  BY <1>1 DEF RowsGood, HasRow
<1>3. Frozen(N)
  BY <1>1 DEF Frozen, HasRow
<1> QED BY <1>2, <1>3 DEF N

(* What an answer makes of a row is a row that nobody locks.               *)
LEMMA CompletedIsRow ==
  ASSUME NEW r \in RowType, NEW out
  PROVE  Completed(r, out) \in RowType /\ Completed(r, out).lock = Nobody
<1>1. StateFor(r, out) \in ActiveStates \cup FinalStates
  BY DEF StateFor, ActiveStates, FinalStates
<1> DEFINE s == StateFor(r, out)
           due == IF out \in {"waiting", "queued", "retry"}
                     /\ s \in {"pending", "credential_blocked"} THEN "later" ELSE "never"
           missing == out = "missing"
<1>2. Completed(r, out) = [r EXCEPT !.state = s, !.lock = Nobody, !.stale = FALSE,
                                    !.tried = TRUE, !.missing = missing, !.due = due]
  BY DEF Completed
<1>3. due \in {"now", "later", "never"} /\ missing \in BOOLEAN
  OBVIOUS
<1> HIDE DEF s, due, missing
<1> QED BY <1>1, <1>2, <1>3 DEF RowType, s

(* Binding a target changes no more than the target.                       *)
LEMMA BoundIsRow ==
  ASSUME NEW t \in Threads, NEW R, RowsGood(R), NEW tok \in Tokens, Ev(t) \in Events
  PROVE  /\ Bound(t, R, tok) \in RowType
         /\ HasRow(R, Ev(t)) => /\ Bound(t, R, tok).state = R[Ev(t)].state
                                /\ Bound(t, R, tok).lock = R[Ev(t)].lock
         /\ ~HasRow(R, Ev(t)) => Bound(t, R, tok).lock = Nobody
<1>1. NewRow \in RowType /\ NewRow.lock = Nobody
  BY DEF NewRow, RowType, ActiveStates, Tokens
<1>2. CASE ~HasRow(R, Ev(t))
  <2>1. Bound(t, R, tok) = [NewRow EXCEPT !.tok = tok]
    BY <1>2 DEF Bound
  <2> QED BY <1>1, <1>2, <2>1 DEF RowType
<1>3. CASE HasRow(R, Ev(t))
  <2>1. Bound(t, R, tok) \in {R[Ev(t)], [R[Ev(t)] EXCEPT !.tok = tok]}
    BY <1>3 DEF Bound
  <2>2. R[Ev(t)] \in RowType
    BY <1>3 DEF RowsGood, HasRow
  <2> QED BY <1>3, <2>1, <2>2 DEF RowType
<1> QED BY <1>2, <1>3

(* Whoever may proceed has no finished row.                                *)
LEMMA ProceedsUnfinished ==
  ASSUME RowsGood(row), NEW t \in Threads, Ev(t) \in Events, MayProceed(t)
  PROVE  /\ RowsGood(Rows(t)) /\ Frozen(Rows(t)) /\ ~Final(row, Ev(t))
         /\ thread[t].held => HasRow(Rows(t), Ev(t)) /\ Rows(t)[Ev(t)].state = "sending"
<1>1. CASE thread[t].held
  BY <1>1, RowsAreFrozen DEF Rows, MayProceed, Final, FinalStates
<1>2. CASE ~thread[t].held
  <2>1. ~Settled(Expired(row), Ev(t))
    BY <1>2 DEF MayProceed
  <2>2. ~Final(row, Ev(t))
    <3> SUFFICES ASSUME Final(row, Ev(t)) PROVE FALSE
      OBVIOUS
    <3>1. Expired(row)[Ev(t)] = row[Ev(t)]
      BY ExpiredIsGood
    <3> QED BY <2>1, <3>1 DEF Settled, Due, HasRow, Final, FinalStates
  <2> QED BY <1>2, <2>2, ExpiredIsGood DEF Rows
<1> QED BY <1>1, <1>2

(* Persist, a finished step of the worker, a step of one's own: none of    *)
(* these touches a row.                                                    *)
LEMMA RowsSame ==
  ASSUME RowsGood(row), row' = row, older' = older
  PROVE  RowsGood(row') /\ Frozen(row') /\ Ordered
  BY DEF RowsGood, Frozen, HasRow, Ordered

(* Settling or taking a row keeps what is finished.                        *)
LEMMA PrepareKeepsRows ==
  ASSUME OutboxInv, NEW t \in Threads, PrepareSettles(t) \/ PrepareSends(t)
  PROVE  RowsGood(row') /\ Frozen(row') /\ Ordered
<1> DEFINE e == Ev(t)
           tok == Target(e)
           R == Rows(t)
           b == Bound(t, R, tok)
<1>1. At(t) = "prepare" /\ MayProceed(t)
  BY DEF PrepareSettles, PrepareSends, Ready
<1>2. e \in Events /\ DeviceOf[e] \in Devices
  BY <1>1, OutboxAssumption
     DEF OutboxInv, ThreadsGood, ThreadGood, Delivering, At, Ev, OutboxAssumption
<1>3. tok \in Tokens
  <2>1. token[DeviceOf[e]].live \in Tokens /\ token[DeviceOf[e]].alert \in Tokens
    BY <1>2 DEF OutboxInv, StoresGood
  <2>2. input[e] # NoInput
    BY DEF PrepareSettles, PrepareSends, Ready
  <2>3. input[e].tok \in Tokens
    BY <1>2, <2>2 DEF OutboxInv, StoresGood, Inputs
  <2> QED BY <2>1, <2>3 DEF Target
<1>4. RowsGood(row)
  BY DEF OutboxInv
<1>5. /\ RowsGood(R) /\ Frozen(R) /\ ~Final(row, e)
      /\ thread[t].held => HasRow(R, e) /\ R[e].state = "sending"
  BY <1>1, <1>2, <1>4, ProceedsUnfinished
<1>5a. R = row \/ R = Expired(row)
  BY DEF Rows
<1> HIDE DEF tok, R
<1>6. /\ b \in RowType
      /\ HasRow(R, e) => b.state = R[e].state /\ b.lock = R[e].lock
      /\ ~HasRow(R, e) => b.lock = Nobody
  BY <1>2, <1>3, <1>5, BoundIsRow
<1>7. ASSUME NEW r \in RowType, r.lock # Nobody => r.state = "sending",
             Commit([R EXCEPT ![e] = r])
      PROVE  RowsGood(row') /\ Frozen(row') /\ Ordered
  <2> HIDE DEF e
  <2>1. RowsGood([R EXCEPT ![e] = r]) /\ Frozen([R EXCEPT ![e] = r])
    BY <1>2, <1>5, <1>7, ReplaceKeeps
  <2> DEFINE N == [R EXCEPT ![e] = r]
  <2> HIDE DEF N
  <2>2. Added([R EXCEPT ![e] = r])
    BY <1>2, <1>4, <1>5a, <1>7, ReplacedAdds
  <2>3. RowsGood(N) /\ Frozen(N) /\ Commit(N) /\ Added(N)
    BY <1>7, <2>1, <2>2 DEF N
  <2> QED BY <2>3, CommitKeeps
<1>8. CASE PrepareSettles(t)
  <2>1. PICK out : Commit([R EXCEPT ![e] = Completed(b, out)])
    BY <1>8 DEF PrepareSettles, R, tok
  <2>2. Completed(b, out) \in RowType /\ Completed(b, out).lock = Nobody
    BY <1>6, CompletedIsRow
  <2> QED BY <1>7, <2>1, <2>2
<1>9. CASE PrepareSends(t)
  <2> DEFINE att == IF b.att < 3 THEN b.att + 1 ELSE 3
             l == IF thread[t].held THEN b
                  ELSE [b EXCEPT !.state = "sending", !.att = att, !.lock = t, !.stale = FALSE]
  <2>1. Commit([R EXCEPT ![e] = l])
    BY <1>9 DEF PrepareSends, R, tok
  <2>2. l \in RowType /\ (l.lock # Nobody => l.state = "sending")
    <3> HIDE DEF b
    <3>1. CASE thread[t].held
      BY <1>5, <1>6, <3>1
    <3>2. CASE ~thread[t].held
      <4>1. b.att \in 0 .. 3 /\ att \in 0 .. 3
        BY <1>6 DEF RowType
      <4> HIDE DEF att
      <4>2. l = [b EXCEPT !.state = "sending", !.att = att, !.lock = t, !.stale = FALSE]
        BY <3>2
      <4> QED BY <1>6, <4>1, <4>2 DEF RowType, ActiveStates
    <3> QED BY <3>1, <3>2
  <2> HIDE DEF l
  <2> QED BY <1>7, <2>1, <2>2
<1> QED BY <1>8, <1>9

(* An answer counts for the holder of the lock, whose row is not finished. *)
LEMMA AnswerKeepsRows ==
  ASSUME OutboxInv, NEW t \in Threads, Finish(t) \/ Excuse(t)
  PROVE  RowsGood(row') /\ Frozen(row') /\ Ordered
<1>1. RowsGood(row) /\ Frozen(row) /\ RowsGood(Expired(row)) /\ Frozen(Expired(row))
  BY RowsAreFrozen, ExpiredIsGood DEF OutboxInv
<1>1a. Added(row) /\ Added(Expired(row))
  BY <1>1, ExpiredRows, ChangedAdds
<1>2. Ev(t) \in Events
  BY DEF OutboxInv, ThreadsGood, ThreadGood, Finish, Excuse, Delivering, At, Ev
<1>3. ASSUME Owns(t), NEW out, Commit([row EXCEPT ![Ev(t)] = Completed(@, out)])
      PROVE  RowsGood(row') /\ Frozen(row') /\ Ordered
  <2> DEFINE e == Ev(t)
             r == Completed(row[e], out)
  <2>1. row[e] \in RowType /\ row[e].lock = t /\ HasRow(row, e)
    BY <1>1, <1>2, <1>3 DEF Owns, HasRow, RowsGood
  <2>2. t # Nobody
    BY OutboxAssumption DEF OutboxAssumption, Threads
  <2>3. row[e].state = "sending"
    BY <1>1, <1>2, <2>1, <2>2 DEF RowsGood
  <2>4. ~Final(row, e)
    BY <2>3 DEF Final, FinalStates
  <2>5. r \in RowType /\ r.lock = Nobody
    BY <2>1, CompletedIsRow
  <2> DEFINE N == [row EXCEPT ![e] = r]
  <2>6. Commit(N)
    BY <1>3
  <2> HIDE DEF r, e
  <2>7. RowsGood(N) /\ Frozen(N)
    BY <1>1, <1>2, <2>4, <2>5, ReplaceKeeps DEF e
  <2>8. Added(N)
    BY <1>1, <1>2, <2>5, ReplacedAdds DEF e
  <2> HIDE DEF N
  <2> QED BY <2>6, <2>7, <2>8, CommitKeeps
<1>4. CASE Finish(t)
  BY <1>1, <1>1a, <1>3, <1>4, CommitKeeps DEF Finish
<1>5. CASE Excuse(t)
  BY <1>1, <1>3, <1>5, RowsSame DEF Excuse
<1> QED BY <1>4, <1>5

(* Noting that the input of a finished row is gone leaves it finished.     *)
LEMMA MarkKeepsRows ==
  ASSUME OutboxInv, NEW t \in Threads, MarkClean(t)
  PROVE  RowsGood(row') /\ Frozen(row') /\ Ordered
<1> DEFINE e == thread[t].cur
           r == [row[e] EXCEPT !.present = FALSE]
           N == IF Final(row, e) THEN [row EXCEPT ![e] = r] ELSE row
<1>1. RowsGood(row) /\ Frozen(row)
  BY RowsAreFrozen DEF OutboxInv
<1>2. e \in Events
  BY DEF OutboxInv, ThreadsGood, ThreadGood, MarkClean, At
<1>3. Commit(N)
  BY DEF MarkClean
<1>4. CASE Final(row, e)
  <2>1. row[e] \in RowType /\ (row[e].lock # Nobody => row[e].state = "sending")
    BY <1>1, <1>2, <1>4 DEF RowsGood, Final, HasRow
  <2>2. r \in RowType /\ r.state = row[e].state /\ r.lock = row[e].lock
    BY <2>1 DEF RowType
  <2> HIDE DEF r, e
  <2>3. RowsGood([row EXCEPT ![e] = r]) /\ Frozen([row EXCEPT ![e] = r])
    BY <1>1, <1>2, <2>1, <2>2, ReplaceKeeps
  <2>4. Added([row EXCEPT ![e] = r])
    BY <1>1, <1>2, <2>2, ReplacedAdds
  <2>5. RowsGood(N) /\ Frozen(N) /\ Added(N)
    BY <1>4, <2>3, <2>4
  <2> HIDE DEF N
  <2> QED BY <1>3, <2>5, CommitKeeps
<1>5. CASE ~Final(row, e)
  <2>1. Commit(row)
    BY <1>3, <1>5
  <2> QED BY <1>1, <2>1, CommitKeeps, ChangedAdds
<1> QED BY <1>4, <1>5

(* What a claim makes of a row.                                            *)
LEMMA ClaimedIsRow ==
  ASSUME NEW r \in RowType
  PROVE  /\ Claimed(r) \in RowType /\ Claimed(r).state = "sending"
         /\ Lost(r) \in RowType /\ Lost(r).lock = Nobody
<1> DEFINE att == IF r.att < 3 THEN r.att + 1 ELSE 3
<1>1. att \in 0 .. 3 /\ Worker \in Threads \cup {Nobody}
  BY DEF RowType, Threads
<1>2. Claimed(r) = [r EXCEPT !.state = "sending", !.att = att, !.lock = Worker,
                             !.stale = FALSE, !.due = "never", !.present = TRUE]
  BY DEF Claimed
<1> HIDE DEF att
<1>3. Claimed(r) \in RowType
  BY <1>1, <1>2 DEF RowType, ActiveStates
<1>4. Claimed(r).state = "sending"
  BY <1>2 DEF RowType
<1>5. Lost(r) \in RowType /\ Lost(r).lock = Nobody
  BY DEF RowType, Lost, FinalStates
<1> QED BY <1>3, <1>4, <1>5

(* A claim locks or gives up what is due, which is active.                 *)
LEMMA ClaimKeepsRows == ASSUME OutboxInv, Claim PROVE RowsGood(row') /\ Frozen(row') /\ Ordered
<1> DEFINE R == Expired(row)
           due == {e \in Events : Active(R, e) /\ Due(R, e)}
           mine == due \cap thread[Worker].jobs
           N == [e \in Events |-> IF e \in mine THEN Claimed(R[e])
                                  ELSE IF e \in due THEN Lost(R[e]) ELSE R[e]]
<1>1. Commit(N)
  BY DEF Claim
<1>2. RowsGood(R) /\ Frozen(R) /\ \A e \in Events : Final(row, e) => R[e] = row[e]
  BY ExpiredIsGood DEF OutboxInv
<1>3. Worker \in Threads
  BY DEF Threads
<1>4. ASSUME NEW e \in Events
      PROVE  /\ N[e] \in RowType \cup {NoRow}
             /\ HasRow(N, e) /\ N[e].lock # Nobody => N[e].state = "sending"
             /\ Final(row, e) => N[e] = row[e]
             /\ HasRow(N, e) <=> HasRow(R, e)
  <2>1. CASE e \notin due
    <3>1. N[e] = R[e]
      BY <2>1
    <3> HIDE DEF R, due, N
    <3> QED BY <1>2, <3>1 DEF RowsGood, HasRow
  <2>2. CASE e \in due
    <3>1. R[e] \in RowType /\ R[e].state \in ActiveStates
      BY <1>2, <2>2 DEF RowsGood, Active, HasRow
    <3>2. ~Final(row, e)
      BY <1>2, <3>1 DEF Final, ActiveStates, FinalStates
    <3>3. N[e] \in {Claimed(R[e]), Lost(R[e])}
      BY <2>2
    <3> HIDE DEF N, R, due
    <3>4. /\ Claimed(R[e]) \in RowType /\ Claimed(R[e]).state = "sending"
          /\ Lost(R[e]) \in RowType /\ Lost(R[e]).lock = Nobody
      BY <3>1, ClaimedIsRow
    <3> QED BY <3>1, <3>2, <3>3, <3>4, OutboxAssumption DEF OutboxAssumption, HasRow
  <2> QED BY <2>1, <2>2
<1>5. N = [e \in Events |-> N[e]]
  OBVIOUS
<1> HIDE DEF N
<1>6. N \in [Events -> RowType \cup {NoRow}]
  BY <1>4, <1>5
<1>7. RowsGood(N)
  BY <1>4, <1>6 DEF RowsGood
<1>8. Frozen(N)
  BY <1>4 DEF Frozen
<1>9. Added(N)
  <2>1. \A e \in Events : HasRow(R, e) <=> HasRow(row, e)
    BY ExpiredRows DEF OutboxInv
  <2> HIDE DEF R
  <2> QED BY <1>4, <2>1, ChangedAdds
<1> QED BY <1>1, <1>7, <1>8, <1>9, CommitKeeps

(* A dropped phone's rows are given up unless they are finished; another   *)
(* token makes due only what lacked one.                                   *)
LEMMA PhonesKeepRows ==
  ASSUME OutboxInv,
         \/ \E d \in Devices : DropDevice(d)
         \/ \E d \in Devices, n \in Credentials : RegisterToken(d, n)
  PROVE  RowsGood(row') /\ Frozen(row') /\ Ordered
<1>1. RowsGood(row)
  BY DEF OutboxInv
<1>2. CASE \E d \in Devices : DropDevice(d)
  <2>1. PICK d \in Devices : DropDevice(d)
    BY <1>2
  <2> DEFINE N == [e \in Events |-> IF HasRow(row, e) /\ DeviceOf[e] = d
                                    THEN DropRow(row[e], e) ELSE row[e]]
  <2>2. Commit(N)
    BY <2>1 DEF DropDevice
  <2>3. ASSUME NEW e \in Events
        PROVE  /\ N[e] \in RowType \cup {NoRow}
               /\ HasRow(N, e) /\ N[e].lock # Nobody => N[e].state = "sending"
               /\ Final(row, e) /\ HasRow(N, e) => N[e].state = row[e].state
               /\ HasRow(N, e) <=> HasRow(row, e)
    <3>1. CASE HasRow(row, e) /\ DeviceOf[e] = d
      <4>1. N[e] = DropRow(row[e], e)
        BY <3>1
      <4>2. row[e] \in RowType /\ (row[e].lock # Nobody => row[e].state = "sending")
        BY <1>1, <3>1 DEF RowsGood, HasRow
      <4> DEFINE g == [row[e] EXCEPT !.present = row[e].present /\ input[e] = NoInput]
      <4>3. g \in RowType /\ g.lock = row[e].lock /\ g.state = row[e].state
        BY <4>2 DEF RowType
      <4>4. CASE row[e].state \notin ActiveStates
        <5>1. N[e] = g
          BY <4>1, <4>4 DEF DropRow
        <5> HIDE DEF g, N
        <5> QED BY <3>1, <4>2, <4>3, <5>1, OutboxAssumption DEF OutboxAssumption, HasRow
      <4>5. CASE row[e].state \in ActiveStates
        <5>1. N[e] = [g EXCEPT !.state = "invalidated", !.due = "never", !.lock = Nobody,
                               !.stale = FALSE, !.tried = TRUE, !.missing = FALSE]
          BY <4>1, <4>5 DEF DropRow
        <5>2. ~Final(row, e)
          BY <4>5 DEF Final, ActiveStates, FinalStates
        <5> HIDE DEF g, N
        <5>3. N[e] \in RowType /\ N[e].lock = Nobody
          BY <4>3, <5>1 DEF RowType, FinalStates
        <5> QED BY <3>1, <5>2, <5>3, OutboxAssumption DEF OutboxAssumption, HasRow
      <4> QED BY <4>4, <4>5
    <3>2. CASE ~(HasRow(row, e) /\ DeviceOf[e] = d)
      <4>1. N[e] = row[e]
        BY <3>2
      <4> HIDE DEF N
      <4> QED BY <1>1, <4>1 DEF RowsGood, HasRow
    <3> QED BY <3>1, <3>2
  <2>4. N = [e \in Events |-> N[e]]
    OBVIOUS
  <2> HIDE DEF N
  <2>5. N \in [Events -> RowType \cup {NoRow}]
    BY <2>3, <2>4
  <2>6. RowsGood(N) /\ Frozen(N)
    BY <2>3, <2>5 DEF RowsGood, Frozen
  <2> QED BY <2>2, <2>3, <2>6, CommitKeeps, ChangedAdds
<1>3. CASE \E d \in Devices, n \in Credentials : RegisterToken(d, n)
  <2>1. PICK d \in Devices, n \in Credentials : RegisterToken(d, n)
    BY <1>3
  <2> DEFINE renewed(e) == /\ HasRow(row, e) /\ DeviceOf[e] = d /\ e \notin Live
                           /\ row[e].state = "credential_blocked" /\ row[e].missing
  <2>2. row' = [e \in Events |-> IF renewed(e)
                  THEN [row[e] EXCEPT !.state = "pending", !.due = "now"] ELSE row[e]]
    BY <2>1 DEF RegisterToken
  <2>3. ASSUME NEW e \in Events
        PROVE  /\ row'[e] \in RowType \cup {NoRow}
               /\ HasRow(row', e) /\ row'[e].lock # Nobody => row'[e].state = "sending"
               /\ Final(row, e) => row'[e] = row[e]
               /\ HasRow(row', e) <=> HasRow(row, e)
    <3>1. CASE renewed(e)
      <4>1. row'[e] = [row[e] EXCEPT !.state = "pending", !.due = "now"]
        BY <2>2, <3>1
      <4>2. row[e] \in RowType /\ row[e].lock = Nobody /\ ~Final(row, e)
        BY <1>1, <3>1 DEF RowsGood, HasRow, Final, FinalStates
      <4>3. row'[e] \in RowType /\ row'[e].lock = Nobody
        BY <4>1, <4>2 DEF RowType, ActiveStates
      <4> QED BY <3>1, <4>2, <4>3, OutboxAssumption DEF OutboxAssumption, HasRow
    <3>2. CASE ~renewed(e)
      <4>1. row'[e] = row[e]
        BY <2>2, <3>2
      <4> QED BY <1>1, <4>1 DEF RowsGood, HasRow
    <3> QED BY <3>1, <3>2
  <2>4. row' = [e \in Events |-> row'[e]]
    BY <2>2
  <2>5. row' \in [Events -> RowType \cup {NoRow}]
    BY <2>3, <2>4
  <2>6. RowsGood(row') /\ Frozen(row')
    BY <2>3, <2>5 DEF RowsGood, Frozen
  <2>7. Ordered
    BY <2>1, <2>3 DEF RegisterToken, Ordered
  <2> QED BY <2>6, <2>7
<1> QED BY <1>2, <1>3

(* So does the clock.                                                      *)
LEMMA ClockKeepsRows ==
  ASSUME OutboxInv, NEW e \in Events, Clock(e)
  PROVE  RowsGood(row') /\ Frozen(row') /\ Ordered
<1>1. RowsGood(row) /\ Frozen(row)
  BY RowsAreFrozen DEF OutboxInv
<1>2. HasRow(row, e)
  BY DEF Clock, DelayEnds, LeaseEnds, DayPasses, Active
<1>3. row[e] \in RowType /\ (row[e].lock # Nobody => row[e].state = "sending")
  BY <1>1, <1>2 DEF RowsGood, HasRow
<1>4. PICK r \in RowType : /\ r.state = row[e].state /\ r.lock = row[e].lock
                           /\ row' = [row EXCEPT ![e] = r]
  <2>1. /\ [row[e] EXCEPT !.due = "now"] \in RowType
        /\ [row[e] EXCEPT !.due = "now"].state = row[e].state
        /\ [row[e] EXCEPT !.due = "now"].lock = row[e].lock
    BY <1>3 DEF RowType
  <2>2. /\ [row[e] EXCEPT !.stale = TRUE] \in RowType
        /\ [row[e] EXCEPT !.stale = TRUE].state = row[e].state
        /\ [row[e] EXCEPT !.stale = TRUE].lock = row[e].lock
    BY <1>3 DEF RowType
  <2>3. /\ [row[e] EXCEPT !.old = TRUE] \in RowType
        /\ [row[e] EXCEPT !.old = TRUE].state = row[e].state
        /\ [row[e] EXCEPT !.old = TRUE].lock = row[e].lock
    BY <1>3 DEF RowType
  <2>4. \/ row' = [row EXCEPT ![e] = [row[e] EXCEPT !.due = "now"]]
        \/ row' = [row EXCEPT ![e] = [row[e] EXCEPT !.stale = TRUE]]
        \/ row' = [row EXCEPT ![e] = [row[e] EXCEPT !.old = TRUE]]
    BY DEF Clock, DelayEnds, LeaseEnds, DayPasses
  <2> QED BY <2>1, <2>2, <2>3, <2>4
<1>5. RowsGood(row') /\ Frozen(row')
  BY <1>1, <1>3, <1>4, ReplaceKeeps
<1>6. \A x \in Events : HasRow(row', x) <=> HasRow(row, x)
  BY <1>1, <1>2, <1>4, OutboxAssumption DEF OutboxAssumption, HasRow, RowsGood
<1>7. Ordered
  BY <1>6 DEF Ordered, Clock, DelayEnds, LeaseEnds, DayPasses
<1> QED BY <1>5, <1>7

(* Every step of the outbox keeps the table good and the finished finished.*)
LEMMA RowsStep ==
  ASSUME OutboxInv, [OutboxNext]_vars
  PROVE  RowsGood(row') /\ Frozen(row') /\ Ordered
<1>1. RowsGood(row) /\ RowsGood(Expired(row)) /\ Frozen(Expired(row))
  BY ExpiredIsGood DEF OutboxInv
<1>1a. Added(Expired(row))
  BY <1>1, ExpiredRows, ChangedAdds
<1>2. CASE UNCHANGED <<row, older>>
  BY <1>1, <1>2, RowsSame
<1>3. ASSUME NEW t \in Threads, Deliver(t) \/ PrepareFails(t) \/ FinishFails(t)
      PROVE  RowsGood(row') /\ Frozen(row') /\ Ordered
  <2>1. CASE UNCHANGED <<row, older>>
    BY <1>2, <2>1
  <2>2. CASE PrepareAnswers(t)
    BY <1>1, <1>1a, <2>2, CommitKeeps DEF PrepareAnswers
  <2>3. CASE PrepareSettles(t) \/ PrepareSends(t)
    BY <2>3, PrepareKeepsRows
  <2>4. CASE Finish(t) \/ Excuse(t)
    BY <2>4, AnswerKeepsRows
  <2>5. CASE MarkClean(t)
    BY <2>5, MarkKeepsRows
  <2>6. \/ UNCHANGED <<row, older>> \/ PrepareAnswers(t) \/ PrepareSettles(t) \/ PrepareSends(t)
        \/ Finish(t) \/ Excuse(t) \/ MarkClean(t)
    BY <1>3 DEF Deliver, PrepareFails, FinishFails, Persist, BindProvider, BindRelay, Send,
                LookForRow, DeleteOrphan, Look, Delete, stores
  <2> QED BY <2>1, <2>2, <2>3, <2>4, <2>5, <2>6
<1>4. CASE WorkerStep
  <2>1. CASE Drain
    BY <1>1, <1>1a, <2>1, CommitKeeps DEF Drain
  <2>2. CASE Claim
    BY <2>2, ClaimKeepsRows
  <2> QED BY <1>2, <1>4, <2>1, <2>2 DEF WorkerStep, ReadInputs, ReadRows, NextJob, stores
<1>5. ASSUME NEW t \in Senders, NEW e \in Events, Submit(t, e)
      PROVE  RowsGood(row') /\ Frozen(row') /\ Ordered
  BY <1>1, <1>1a, <1>5, CommitKeeps DEF Submit
<1>6. CASE \E d \in Devices : DropDevice(d) \/ DropHalf(d)
  BY <1>2, <1>6, PhonesKeepRows DEF DropHalf
<1>7. CASE \E d \in Devices, n \in Credentials :
              RegisterToken(d, n) \/ RegisterActivity(d, n) \/ RegisterPair(d, n)
  BY <1>2, <1>7, PhonesKeepRows DEF RegisterActivity, RegisterPair, stores
<1>8. CASE SwitchProvider \/ Crash \/ UNCHANGED vars
  BY <1>2, <1>8 DEF SwitchProvider, Crash, vars, stores
<1> QED BY <1>3, <1>4, <1>5, <1>6, <1>7, <1>8, ClockKeepsRows DEF OutboxNext

(* A commit that adds at most one row, or rows that stay: the order stays. *)
LEMMA OrderStep == ASSUME OrderTypeOK, Ordered PROVE OrderTypeOK'
<1>1. CASE \E R : Commit(R) /\ Added(R)
  BY <1>1, CommitKeepsOrder
<1>2. CASE older' = older /\ \A e \in Events : HasRow(row', e) <=> HasRow(row, e)
  <2>1. {e \in Events : HasRow(row', e)} = {e \in Events : HasRow(row, e)}
    BY <1>2
  <2> QED BY <1>2, <2>1 DEF OrderTypeOK
<1> QED BY <1>1, <1>2 DEF Ordered

------------------------------------------------------------------------------
(* Inputs and credentials.                                                 *)

(* A change of one input, on behalf of a delivery that found it.           *)
LEMMA InputsKeep ==
  ASSUME StoresGood, InputsAreAllowed, NEW e \in Events, NEW i \in Inputs \cup {NoInput},
         input[e] # NoInput \/ i = NoInput,
         input' = [input EXCEPT ![e] = i], UNCHANGED <<token, pair, provider, tombs, again>>
  PROVE  StoresGood' /\ InputsAreAllowed'
<1>1. StoresGood'
  BY DEF StoresGood
<1>2. InputsAreAllowed'
  BY DEF StoresGood, InputsAreAllowed, Allowed
<1> QED BY <1>1, <1>2

(* The token a delivery is bound to.                                       *)
LEMMA TargetIsToken ==
  ASSUME StoresGood, NEW e \in Events, input[e] # NoInput
  PROVE  Target(e) \in Tokens /\ [input[e] EXCEPT !.tok = Target(e)] \in Inputs
<1>1. DeviceOf[e] \in Devices
  BY OutboxAssumption DEF OutboxAssumption
<1>2. token[DeviceOf[e]].live \in Tokens /\ token[DeviceOf[e]].alert \in Tokens
  BY <1>1 DEF StoresGood
<1>3. input[e] \in Inputs
  BY DEF StoresGood
<1>4. input[e].tok \in Tokens
  BY <1>3 DEF Inputs
<1>5. Target(e) \in Tokens
  BY <1>2, <1>4 DEF Target
<1> QED BY <1>3, <1>5 DEF Inputs

(* A delivery's step on the stores beside the rows.                        *)
LEMMA DeliverKeepsStores ==
  ASSUME OutboxInv, NEW t \in Threads, Deliver(t) \/ PrepareFails(t) \/ FinishFails(t)
  PROVE  StoresGood' /\ InputsAreAllowed'
<1> DEFINE e == Ev(t)
<1>1. StoresGood /\ InputsAreAllowed /\ ThreadGood(thread[t])
  BY DEF OutboxInv, ThreadsGood
<1>2. CASE UNCHANGED <<input, token, pair, provider, tombs, again>>
  BY <1>1, <1>2 DEF StoresGood, InputsAreAllowed, Allowed
<1>3. CASE Persist(t)
  <2>1. e \in Events
    BY <1>1, <1>3 DEF Persist, ThreadGood, Delivering, At, Ev
  <2> DEFINE new == [tok |-> 0, mode |-> "none", pair |-> 0]
             i == IF input[e] = NoInput THEN new ELSE input[e]
  <2>2. /\ input' = [input EXCEPT ![e] = i]
        /\ UNCHANGED <<token, pair, provider, tombs>>
        /\ again' = IF DeviceOf[e] \in tombs THEN again \cup {e} ELSE again
    BY <1>3 DEF Persist, credentials, Dev
  <2>3. i \in Inputs \cup {NoInput}
    <3>1. new \in Inputs
      BY DEF Inputs, Tokens
    <3> QED BY <1>1, <2>1, <3>1 DEF StoresGood
  <2> HIDE DEF e, i
  <2>4. StoresGood'
    BY <1>1, <2>1, <2>2, <2>3 DEF StoresGood
  <2>5. InputsAreAllowed'
    <3> SUFFICES ASSUME NEW x \in Events, input'[x] # NoInput PROVE Allowed(x)'
      BY DEF InputsAreAllowed
    <3>1. CASE x = e
      BY <2>2, <3>1 DEF Allowed
    <3>2. CASE x # e
      <4>1. input'[x] = input[x]
        BY <1>1, <2>2, <3>2 DEF StoresGood
      <4> QED BY <1>1, <2>2, <4>1 DEF Allowed, InputsAreAllowed
    <3> QED BY <3>1, <3>2
  <2> QED BY <2>4, <2>5
<1>4. ASSUME input[e] # NoInput, At(t) = "prepare",
             input' = [input EXCEPT ![e].tok = Target(e)],
             UNCHANGED <<token, pair, provider, tombs, again>>
      PROVE  StoresGood' /\ InputsAreAllowed'
  <2>1. e \in Events
    BY <1>1, <1>4 DEF ThreadGood, Delivering, At, Ev
  <2>2. [input[e] EXCEPT !.tok = Target(e)] \in Inputs
    BY <1>1, <1>4, <2>1, TargetIsToken
  <2>3. input' = [input EXCEPT ![e] = [input[e] EXCEPT !.tok = Target(e)]]
    BY <1>4
  <2> DEFINE i == [input[e] EXCEPT !.tok = Target(e)]
  <2>4. i \in Inputs \cup {NoInput} /\ input' = [input EXCEPT ![e] = i]
    BY <2>2, <2>3
  <2> HIDE DEF i, e
  <2> QED BY <1>1, <1>4, <2>1, <2>4, InputsKeep
<1>5. CASE PrepareFails(t) \/ PrepareSettles(t) \/ PrepareSends(t)
  BY <1>2, <1>4, <1>5 DEF PrepareFails, PrepareSettles, PrepareSends, Ready, credentials
<1>6. CASE BindProvider(t) \/ BindRelay(t)
  <2>1. /\ e \in Events /\ DeviceOf[e] \in Devices
        /\ thread[t].mode \in Modes /\ pair[DeviceOf[e]] \in Tokens
    BY <1>1, <1>6, OutboxAssumption
       DEF BindProvider, BindRelay, ThreadGood, ThreadType, Delivering, At, Ev, StoresGood,
           OutboxAssumption
  <2>2. UNCHANGED <<token, pair, provider, tombs, again>>
    BY <1>6 DEF BindProvider, BindRelay, credentials
  <2>3. ASSUME NEW i \in Inputs, input[e] # NoInput, input' = [input EXCEPT ![e] = i]
        PROVE  StoresGood' /\ InputsAreAllowed'
    <3> HIDE DEF e
    <3> QED BY <1>1, <2>1, <2>2, <2>3, InputsKeep
  <2>4. CASE BindProvider(t)
    <3> DEFINE mode == IF input[e].mode # "none" THEN input[e].mode ELSE thread[t].mode
               i == [input[e] EXCEPT !.mode = mode]
    <3>1. UNCHANGED input \/ (input[e] # NoInput /\ input' = [input EXCEPT ![e] = i])
      BY <2>4 DEF BindProvider
    <3>2. input[e] # NoInput => i \in Inputs
      BY <1>1, <2>1 DEF StoresGood, Inputs
    <3> HIDE DEF i
    <3> QED BY <1>2, <2>2, <2>3, <3>1, <3>2
  <2>5. CASE BindRelay(t)
    <3> DEFINE i == [input[e] EXCEPT !.pair = pair[DeviceOf[e]]]
    <3>1. UNCHANGED input \/ (input[e] # NoInput /\ input' = [input EXCEPT ![e] = i])
      BY <2>5 DEF BindRelay, Dev
    <3>2. input[e] # NoInput => i \in Inputs
      BY <1>1, <2>1 DEF StoresGood, Inputs
    <3> HIDE DEF i
    <3> QED BY <1>2, <2>2, <2>3, <3>1, <3>2
  <2> QED BY <1>6, <2>4, <2>5
<1>7. CASE DeleteOrphan(t) \/ Delete(t)
  <2>1. PICK x \in Events : input' = [input EXCEPT ![x] = NoInput]
    BY <1>1, <1>7 DEF DeleteOrphan, Delete, ThreadGood, Delivering, At, Ev
  <2>2. UNCHANGED <<token, pair, provider, tombs, again>>
    BY <1>7 DEF DeleteOrphan, Delete, credentials
  <2> QED BY <1>1, <2>1, <2>2, InputsKeep
<1>8. CASE Finish(t)
  <2>1. UNCHANGED <<input, pair, tombs, provider, again>> /\ token' \in {token, Forgets(t)}
    BY <1>8 DEF Finish
  <2>2. token' \in [Devices -> [alert : Tokens, live : Tokens]]
    <3>1. 0 \in Tokens /\ token \in [Devices -> [alert : Tokens, live : Tokens]]
      BY <1>1 DEF Tokens, StoresGood
    <3>2. Forgets(t) \in [Devices -> [alert : Tokens, live : Tokens]]
      BY <3>1 DEF Forgets
    <3> QED BY <2>1, <3>1, <3>2
  <2> QED BY <1>1, <2>1, <2>2 DEF StoresGood, InputsAreAllowed, Allowed
<1>9. \/ UNCHANGED <<input, token, pair, provider, tombs, again>>
      \/ Persist(t) \/ PrepareFails(t) \/ PrepareSettles(t) \/ PrepareSends(t)
      \/ BindProvider(t) \/ BindRelay(t) \/ DeleteOrphan(t) \/ Delete(t) \/ Finish(t)
  BY DEF Deliver, FinishFails, PrepareAnswers, Send, Excuse, LookForRow, Look, MarkClean,
         stores, credentials
<1> QED BY <1>2, <1>3, <1>5, <1>6, <1>7, <1>8, <1>9

(* Whoever drops a phone deletes the inputs for it.                        *)
LEMMA DropKeepsStores ==
  ASSUME OutboxInv, NEW d \in Devices, DropSecrets(d), UNCHANGED again
  PROVE  StoresGood' /\ InputsAreAllowed'
<1>1. StoresGood /\ InputsAreAllowed
  BY DEF OutboxInv
<1>2. StoresGood'
  <2>1. [alert |-> 0, live |-> 0] \in [alert : Tokens, live : Tokens] /\ 0 \in Tokens
    BY DEF Tokens
  <2>2. token' \in [Devices -> [alert : Tokens, live : Tokens]]
    BY <1>1, <2>1 DEF StoresGood, DropSecrets
  <2>3. pair' \in [Devices -> Tokens]
    BY <1>1, <2>1 DEF StoresGood, DropSecrets
  <2>4. input' \in [Events -> Inputs \cup {NoInput}] /\ provider' \in Modes
    BY <1>1 DEF StoresGood, DropSecrets
  <2> QED BY <2>2, <2>3, <2>4 DEF StoresGood
<1>3. InputsAreAllowed'
  <2> SUFFICES ASSUME NEW e \in Events, input'[e] # NoInput PROVE Allowed(e)'
    BY DEF InputsAreAllowed
  <2>1. DeviceOf[e] # d /\ input[e] # NoInput
    BY DEF DropSecrets
  <2> QED BY <1>1, <2>1 DEF DropSecrets, Allowed, InputsAreAllowed
<1> QED BY <1>2, <1>3

(* Every step keeps the inputs and the credentials.                        *)
LEMMA StoresStep ==
  ASSUME OutboxInv, [OutboxNext]_vars
  PROVE  StoresGood' /\ InputsAreAllowed'
<1>1. StoresGood /\ InputsAreAllowed
  BY DEF OutboxInv
<1>2. CASE UNCHANGED <<input, token, pair, provider, tombs, again>>
  BY <1>1, <1>2 DEF StoresGood, InputsAreAllowed, Allowed
<1>3. CASE \E t \in Threads : Deliver(t) \/ PrepareFails(t) \/ FinishFails(t)
  BY <1>3, DeliverKeepsStores
<1>4. CASE WorkerStep \/ (\E t \in Senders, e \in Events : Submit(t, e))
           \/ (\E e \in Events : Clock(e)) \/ Crash \/ UNCHANGED vars
  BY <1>2, <1>4 DEF WorkerStep, Drain, ReadInputs, ReadRows, Claim, NextJob, Submit, Clock,
                    DelayEnds, LeaseEnds, DayPasses, Crash, vars, stores, credentials
<1>5. CASE \E d \in Devices : DropDevice(d) \/ DropHalf(d)
  BY <1>5, DropKeepsStores DEF DropDevice, DropHalf
<1>6. CASE SwitchProvider
  BY <1>1, <1>6 DEF SwitchProvider, stores, StoresGood, InputsAreAllowed, Allowed
<1>7. CASE \E d \in Devices, n \in Credentials :
              RegisterToken(d, n) \/ RegisterActivity(d, n) \/ RegisterPair(d, n)
  <2>1. PICK d \in Devices, n \in Credentials :
               RegisterToken(d, n) \/ RegisterActivity(d, n) \/ RegisterPair(d, n)
    BY <1>7
  <2>2. UNCHANGED <<input, provider, tombs, again>> /\ n \in Tokens
    BY <2>1 DEF RegisterToken, RegisterActivity, RegisterPair, stores, Tokens
  <2>3. token' \in [Devices -> [alert : Tokens, live : Tokens]]
    <3>1. \/ UNCHANGED token
          \/ token' = [token EXCEPT ![d].alert = n]
          \/ token' = [token EXCEPT ![d].live = n]
      BY <2>1 DEF RegisterToken, RegisterActivity, RegisterPair
    <3> QED BY <1>1, <2>2, <3>1 DEF StoresGood
  <2>4. pair' \in [Devices -> Tokens]
    BY <1>1, <2>1, <2>2 DEF RegisterToken, RegisterActivity, RegisterPair, StoresGood
  <2> QED BY <1>1, <2>2, <2>3, <2>4 DEF StoresGood, InputsAreAllowed, Allowed
<1> QED BY <1>3, <1>4, <1>5, <1>6, <1>7 DEF OutboxNext

------------------------------------------------------------------------------
(* Threads.                                                                *)

(* A thread that forgets everything.                                       *)
LEMMA IdleIsGood == ThreadGood(Idle)
<1>1. Idle \in ThreadType
  BY DEF Idle, ThreadType, Elsewhere, GoesOn, Modes, Tokens
<1> QED BY <1>1 DEF Idle, ThreadGood, Delivering, Cleaning

(* One thread moves, and not to the provider unless it may.                *)
LEMMA SetKeeps ==
  ASSUME ThreadsGood, NEW t \in Threads, NEW r, ThreadGood(r), Set(t, r),
         r.pc = "send" /\ At(t) # "send" => Allowed(Ev(t))
  PROVE  ThreadsGood' /\ Sending
<1>1. /\ thread' \in [Threads -> ThreadType]
      /\ thread'[t] = r /\ \A x \in Threads \ {t} : thread'[x] = thread[x]
  BY DEF ThreadsGood, ThreadGood, Set
<1>2. ThreadsGood'
  BY <1>1 DEF ThreadsGood
<1>3. Sending
  BY <1>1 DEF Sending, At
<1> QED BY <1>2, <1>3

(* All threads stay where they are, or forget everything.                  *)
LEMMA AllKeep ==
  ASSUME ThreadsGood, UNCHANGED thread \/ thread' = [t \in Threads |-> Idle]
  PROVE  ThreadsGood' /\ Sending
<1>1. CASE UNCHANGED thread
  BY <1>1 DEF ThreadsGood, Sending, At
<1>2. CASE thread' = [t \in Threads |-> Idle]
  <2>1. Idle \in ThreadType /\ Idle.pc = "idle"
    BY IdleIsGood DEF ThreadGood, Idle
  <2> QED BY <1>2, <2>1, IdleIsGood DEF ThreadsGood, Sending
<1> QED BY <1>1, <1>2

(* A thread that goes to clean up knows where to go on.                    *)
LEMMA CleanKeeps ==
  ASSUME ThreadsGood, NEW t \in Threads, NEW r \in ThreadType, NEW todo \in SUBSET Events,
         NEW then \in GoesOn, then \in {"persist", "bind"} => r.e \in Events,
         CleanThen(t, r, todo, then)
  PROVE  ThreadsGood' /\ Sending
<1>1. PICK n : /\ Set(t, n)
               /\ \/ n = [r EXCEPT !.pc = "look", !.cur = NoEvent, !.todo = todo,
                                   !.then = then]
                  \/ n = Idle
                  \/ n = [r EXCEPT !.pc = then, !.cur = NoEvent, !.todo = {},
                                   !.then = "idle"]
  BY DEF CleanThen
<1>2. ThreadGood(n) /\ n.pc # "send"
  <2>1. CASE n = Idle
    BY <2>1, IdleIsGood DEF Idle
  <2>2. CASE n = [r EXCEPT !.pc = "look", !.cur = NoEvent, !.todo = todo, !.then = then]
    <3>1. n \in ThreadType
      BY <2>2 DEF ThreadType, Cleaning
    <3>2. n.pc = "look" /\ n.then = then /\ n.e = r.e
      BY <2>2 DEF ThreadType
    <3> QED BY <3>1, <3>2 DEF ThreadGood, Delivering
  <2>3. CASE n = [r EXCEPT !.pc = then, !.cur = NoEvent, !.todo = {}, !.then = "idle"]
    <3>1. n \in ThreadType
      BY <2>3 DEF ThreadType, GoesOn, Delivering, Elsewhere
    <3>2. n.pc = then /\ n.then = "idle" /\ n.e = r.e
      BY <2>3 DEF ThreadType
    <3> QED BY <3>1, <3>2 DEF ThreadGood, Delivering, Cleaning, GoesOn
  <2> QED BY <1>1, <2>1, <2>2, <2>3
<1> QED BY <1>1, <1>2, SetKeeps

(* A delivery's steps.                                                     *)
LEMMA DeliverKeepsThreads ==
  ASSUME OutboxInv, NEW t \in Threads, Deliver(t) \/ PrepareFails(t) \/ FinishFails(t)
  PROVE  ThreadsGood' /\ Sending
<1> DEFINE e == Ev(t)
<1>1. /\ ThreadsGood /\ StoresGood /\ InputsAreAllowed
      /\ ThreadGood(thread[t]) /\ thread[t] \in ThreadType
  BY DEF OutboxInv, ThreadsGood
<1>2. At(t) \in Delivering => e \in Events
  BY <1>1 DEF ThreadGood, At, Ev
<1>3. /\ Home(t) \in GoesOn /\ Home(t) \notin {"persist", "bind"}
      /\ \A R : Leftovers(R) \in SUBSET Events
  BY DEF Home, GoesOn, Leftovers
<1>4. ASSUME NEW pc \in Delivering \cup {"mark"}, pc # "send", Goto(t, pc),
             IF pc = "mark" THEN At(t) = "delete" ELSE At(t) \in Delivering
      PROVE  ThreadsGood' /\ Sending
  <2> DEFINE n == [thread[t] EXCEPT !.pc = pc]
  <2>1. n \in ThreadType /\ n.pc = pc /\ n.e = thread[t].e /\ n.cur = thread[t].cur
        /\ n.then = thread[t].then
    BY <1>1, <1>4 DEF ThreadType, Delivering, Cleaning
  <2>2. Set(t, n)
    BY <1>1, <1>4 DEF Goto, Set
  <2> HIDE DEF n
  <2>3. ThreadGood(n)
    <3>1. CASE pc = "mark"
      BY <1>1, <1>4, <2>1, <3>1 DEF ThreadGood, Delivering, Cleaning, At
    <3>2. CASE pc # "mark"
      BY <1>2, <1>4, <2>1, <3>2 DEF ThreadGood, Delivering, Cleaning, Ev
    <3> QED BY <3>1, <3>2
  <2> QED BY <1>1, <1>4, <2>1, <2>2, <2>3, SetKeeps
<1>5. ASSUME NEW out \in {"retry", "unbound", "changed", "unset", "sent", "reject", "invalid",
                          "queued", "waiting"},
             Answer(t, out), At(t) \in Delivering
      PROVE  ThreadsGood' /\ Sending
  <2> DEFINE n == [thread[t] EXCEPT !.pc = "finish", !.out = out]
  <2>1. n \in ThreadType /\ n.pc = "finish" /\ n.e = thread[t].e
    BY <1>1 DEF ThreadType, Delivering
  <2>2. Set(t, n)
    BY <1>5 DEF Answer
  <2> HIDE DEF n
  <2>3. ThreadGood(n)
    BY <1>2, <1>5, <2>1 DEF ThreadGood, Cleaning, Ev
  <2> QED BY <1>1, <2>1, <2>2, <2>3, SetKeeps
<1>6. ASSUME Return(t) PROVE ThreadsGood' /\ Sending
  <2> DEFINE n == [thread[t] EXCEPT !.pc = "next", !.e = NoEvent, !.held = FALSE, !.tok = 0,
                                    !.pair = 0, !.mode = "local", !.first = FALSE,
                                    !.out = "none"]
  <2>1. n \in ThreadType /\ n.pc = "next"
    <3>1. /\ thread[t] \in ThreadType /\ "next" \in Elsewhere /\ 0 \in Tokens
          /\ "local" \in Modes
      BY <1>1 DEF Elsewhere, Tokens, Modes
    <3> QED BY <3>1 DEF ThreadType
  <2>2. Set(t, n) \/ Set(t, Idle)
    BY <1>6 DEF Return
  <2> HIDE DEF n
  <2>3. ThreadGood(n)
    BY <2>1 DEF ThreadGood, Delivering, Cleaning
  <2>4. Idle.pc # "send"
    BY DEF Idle
  <2> QED BY <1>1, <2>1, <2>2, <2>3, <2>4, SetKeeps, IdleIsGood
<1>7. ASSUME Raise(t), At(t) \in Delivering PROVE ThreadsGood' /\ Sending
  BY <1>4, <1>6, <1>7 DEF Raise, Delivering
<1>8. CASE Persist(t)
  BY <1>4, <1>8 DEF Persist, Delivering
<1>9. CASE PrepareFails(t)
  BY <1>4, <1>9 DEF PrepareFails, Delivering
<1>10. CASE PrepareAnswers(t) \/ PrepareSettles(t)
  <2>1. At(t) = "prepare" /\ CleanThen(t, thread[t], Leftovers(row') \cup {e}, Home(t))
    BY <1>10 DEF PrepareAnswers, PrepareSettles, Ready
  <2>2. Leftovers(row') \cup {e} \in SUBSET Events
    BY <1>2, <1>3, <2>1 DEF Delivering
  <2> QED BY <1>1, <1>3, <2>1, <2>2, CleanKeeps
<1>11. CASE PrepareSends(t)
  <2>1. /\ At(t) = "prepare" /\ input[e] # NoInput
        /\ \E first \in BOOLEAN :
              CleanThen(t, [thread[t] EXCEPT !.tok = Target(e), !.mode = provider,
                                             !.first = first], Leftovers(row'), "bind")
    BY <1>11 DEF PrepareSends, Ready
  <2>2. PICK first \in BOOLEAN :
              CleanThen(t, [thread[t] EXCEPT !.tok = Target(e), !.mode = provider,
                                             !.first = first], Leftovers(row'), "bind")
    BY <2>1
  <2>3. e \in Events /\ Target(e) \in Tokens /\ provider \in Modes
    BY <1>1, <1>2, <2>1, TargetIsToken DEF Delivering, StoresGood
  <2> DEFINE n == [thread[t] EXCEPT !.tok = Target(e), !.mode = provider, !.first = first]
  <2>4. n \in ThreadType /\ n.e = e
    BY <1>1, <2>3 DEF ThreadType, Ev
  <2>5. CleanThen(t, n, Leftovers(row'), "bind")
    BY <2>2
  <2> HIDE DEF n, e
  <2> QED BY <1>1, <1>3, <2>3, <2>4, <2>5, CleanKeeps DEF GoesOn
<1>12. ASSUME NEW n \in ThreadType, n.pc = "send", n.e = thread[t].e, Set(t, n),
              At(t) \in Delivering, input[e] # NoInput
       PROVE  ThreadsGood' /\ Sending
  <2>1. Allowed(e) /\ e \in Events
    BY <1>1, <1>2, <1>12 DEF InputsAreAllowed
  <2>2. ThreadGood(n)
    BY <1>12, <2>1 DEF ThreadGood, Delivering, Cleaning, Ev
  <2> QED BY <1>1, <1>12, <2>1, <2>2, SetKeeps
<1>13. CASE BindProvider(t)
  <2>1. At(t) \in Delivering
    BY <1>13 DEF BindProvider, Delivering
  <2> DEFINE n == [thread[t] EXCEPT !.pc = "send"]
  <2>2. \/ Answer(t, "retry") \/ Answer(t, "unbound") \/ Answer(t, "changed")
        \/ Goto(t, "identify") \/ (Set(t, n) /\ input[e] # NoInput)
    BY <1>13 DEF BindProvider, Goto, Set
  <2>3. n \in ThreadType /\ n.pc = "send" /\ n.e = thread[t].e
    BY <1>1 DEF ThreadType, Delivering
  <2> HIDE DEF n
  <2> QED BY <1>4, <1>5, <1>12, <2>1, <2>2, <2>3 DEF Delivering
<1>14. CASE BindRelay(t)
  <2>1. At(t) \in Delivering /\ DeviceOf[e] \in Devices
    BY <1>2, <1>14, OutboxAssumption DEF BindRelay, Delivering, OutboxAssumption
  <2>2. \/ Answer(t, "retry") \/ Answer(t, "unbound") \/ Answer(t, "unset")
        \/ /\ input[e] # NoInput
           /\ \E p \in {input[e].pair, pair[DeviceOf[e]]} :
                 Set(t, [thread[t] EXCEPT !.pc = "send", !.pair = p])
    BY <1>14 DEF BindRelay, Dev
  <2>3. ASSUME input[e] # NoInput, NEW p \in {input[e].pair, pair[DeviceOf[e]]},
               Set(t, [thread[t] EXCEPT !.pc = "send", !.pair = p])
        PROVE  ThreadsGood' /\ Sending
    <3>1. p \in Tokens
      BY <1>1, <1>2, <2>1, <2>3 DEF StoresGood, Inputs
    <3> DEFINE n == [thread[t] EXCEPT !.pc = "send", !.pair = p]
    <3>2. n \in ThreadType /\ n.pc = "send" /\ n.e = thread[t].e
      BY <1>1, <3>1 DEF ThreadType, Delivering
    <3> HIDE DEF n
    <3> QED BY <1>12, <2>1, <2>3, <3>2 DEF n
  <2> QED BY <1>5, <2>1, <2>2, <2>3
<1>15. CASE Send(t)
  BY <1>5, <1>15 DEF Send, Answers, Delivering
<1>16. CASE Finish(t)
  <2>1. At(t) = "finish" /\ CleanThen(t, thread[t], {e}, Home(t))
    BY <1>16 DEF Finish
  <2>2. {e} \in SUBSET Events
    BY <1>2, <2>1 DEF Delivering
  <2> QED BY <1>1, <1>3, <2>1, <2>2, CleanKeeps
<1>17. CASE FinishFails(t) \/ Excuse(t)
  BY <1>6, <1>7, <1>17 DEF FinishFails, Excuse, Delivering
<1>18. CASE LookForRow(t) \/ DeleteOrphan(t)
  BY <1>4, <1>7, <1>18 DEF LookForRow, DeleteOrphan, Delivering
<1>19. ASSUME NEW x \in Events, CleanNext(t, x), At(t) \in Cleaning
       PROVE  ThreadsGood' /\ Sending
  <2>1. /\ thread[t].todo \ {x} \in SUBSET Events /\ thread[t].then \in GoesOn
        /\ thread[t].then \in {"persist", "bind"} => thread[t].e \in Events
    BY <1>1, <1>19 DEF ThreadGood, ThreadType, At
  <2> QED BY <1>1, <1>19, <2>1, CleanKeeps DEF CleanNext
<1>20. CASE \E x \in Events : Look(t, x)
  <2>1. PICK x \in Events : Look(t, x)
    BY <1>20
  <2> DEFINE n == [thread[t] EXCEPT !.pc = "delete", !.cur = x]
  <2>2. At(t) = "look" /\ (Set(t, n) \/ CleanNext(t, x))
    BY <2>1 DEF Look
  <2>3. /\ n \in ThreadType /\ n.pc = "delete" /\ n.cur = x /\ n.then = thread[t].then
        /\ n.e = thread[t].e
    BY <1>1 DEF ThreadType, Cleaning
  <2> HIDE DEF n
  <2>4. ThreadGood(n)
    BY <1>1, <2>2, <2>3 DEF ThreadGood, Delivering, Cleaning, At
  <2> QED BY <1>1, <1>19, <2>2, <2>3, <2>4, SetKeeps DEF Cleaning
<1>21. CASE Delete(t)
  BY <1>4, <1>21 DEF Delete
<1>22. CASE MarkClean(t)
  <2>1. thread[t].cur \in Events
    BY <1>1, <1>22 DEF MarkClean, ThreadGood, At
  <2> QED BY <1>19, <1>22, <2>1 DEF MarkClean, Cleaning
<1> QED BY <1>8, <1>9, <1>10, <1>11, <1>13, <1>14, <1>15, <1>16, <1>17, <1>18, <1>20, <1>21,
           <1>22 DEF Deliver

(* The worker's steps between deliveries.                                  *)
LEMMA WorkerKeepsThreads == ASSUME OutboxInv, WorkerStep PROVE ThreadsGood' /\ Sending
<1> DEFINE w == thread[Worker]
<1>1. /\ Worker \in Threads /\ ThreadsGood /\ ThreadGood(w) /\ w \in ThreadType
      /\ \A R : Leftovers(R) \in SUBSET Events
  BY DEF OutboxInv, ThreadsGood, Threads, Leftovers
<1>2. Idle \in ThreadType
  BY IdleIsGood DEF ThreadGood
<1>3. ASSUME NEW n \in ThreadType, n.pc \in {"rows", "claim", "next", "inputs"}, Set(Worker, n)
      PROVE  ThreadsGood' /\ Sending
  <2>1. ThreadGood(n)
    BY <1>3 DEF ThreadGood, Delivering, Cleaning
  <2> QED BY <1>1, <1>3, <2>1, SetKeeps
<1>4. CASE Drain
  BY <1>1, <1>2, <1>4, CleanKeeps DEF Drain, GoesOn
<1>5. CASE ReadInputs
  <2> DEFINE jobs == {e \in Events : input[e] # NoInput}
             pc == IF w.phase = "idle" THEN "rows" ELSE "claim"
             n == [w EXCEPT !.jobs = jobs, !.pc = pc]
  <2>1. Set(Worker, n)
    BY <1>5 DEF ReadInputs
  <2>2. n \in ThreadType /\ n.pc \in {"rows", "claim"}
    <3>1. w \in ThreadType /\ {"rows", "claim"} \subseteq Elsewhere /\ jobs \subseteq Events
      BY <1>1 DEF Elsewhere
    <3> HIDE DEF w, jobs
    <3> QED BY <3>1 DEF ThreadType
  <2> HIDE DEF n
  <2> QED BY <1>3, <2>1, <2>2
<1>6. CASE ReadRows
  <2> DEFINE jobs == {e \in w.jobs : ~HasRow(row, e)}
             n == [w EXCEPT !.jobs = jobs, !.phase = "orphans", !.pc = "next"]
  <2>1. Set(Worker, n)
    BY <1>1, <1>6 DEF ReadRows, ThreadType
  <2>2. n \in ThreadType /\ n.pc = "next"
    BY <1>1 DEF ThreadType, Elsewhere
  <2> HIDE DEF n
  <2> QED BY <1>3, <2>1, <2>2
<1>7. CASE Claim
  <2>1. PICK mine \in SUBSET Events :
           CleanThen(Worker, [w EXCEPT !.jobs = mine, !.phase = "claims"],
                     Leftovers(row'), "next")
    BY <1>7 DEF Claim
  <2> DEFINE n == [w EXCEPT !.jobs = mine, !.phase = "claims"]
  <2>2. n \in ThreadType
    BY <1>1 DEF ThreadType
  <2>3. CleanThen(Worker, n, Leftovers(row'), "next")
    BY <2>1
  <2> HIDE DEF n
  <2> QED BY <1>1, <2>2, <2>3, CleanKeeps DEF GoesOn
<1>8. CASE NextJob
  <2>1. CASE \E e \in w.jobs :
                Set(Worker, [w EXCEPT !.pc = "prepare", !.e = e, !.jobs = w.jobs \ {e},
                                      !.held = w.phase = "claims"])
    <3>1. PICK e \in w.jobs :
                Set(Worker, [w EXCEPT !.pc = "prepare", !.e = e, !.jobs = w.jobs \ {e},
                                      !.held = w.phase = "claims"])
      BY <2>1
    <3> DEFINE held == w.phase = "claims"
               n == [w EXCEPT !.pc = "prepare", !.e = e, !.jobs = w.jobs \ {e}, !.held = held]
    <3>2. e \in Events /\ held \in BOOLEAN
      BY <1>1 DEF ThreadType
    <3>3. Set(Worker, n)
      BY <3>1
    <3>4. n \in ThreadType /\ n.pc = "prepare" /\ n.e = e
      <4> HIDE DEF held
      <4> QED BY <1>1, <3>2 DEF ThreadType, Delivering
    <3> HIDE DEF n
    <3>5. ThreadGood(n)
      BY <3>2, <3>4 DEF ThreadGood, Cleaning
    <3> QED BY <1>1, <3>3, <3>4, <3>5, SetKeeps
  <2>2. CASE Set(Worker, [Idle EXCEPT !.pc = "inputs", !.phase = "orphans"])
    <3> DEFINE n == [Idle EXCEPT !.pc = "inputs", !.phase = "orphans"]
    <3>1. n \in ThreadType /\ n.pc = "inputs"
      BY <1>2 DEF ThreadType, Elsewhere
    <3>2. Set(Worker, n)
      BY <2>2
    <3> HIDE DEF n
    <3> QED BY <1>3, <3>1, <3>2
  <2>3. CASE Set(Worker, Idle)
    BY <1>1, <2>3, IdleIsGood, SetKeeps DEF Idle
  <2> QED BY <1>8, <2>1, <2>2, <2>3 DEF NextJob
<1> QED BY <1>4, <1>5, <1>6, <1>7, <1>8 DEF WorkerStep

(* Every step keeps the threads good, and only with an input of a phone    *)
(* that is there does one get to the provider.                             *)
LEMMA ThreadsStep ==
  ASSUME OutboxInv, [OutboxNext]_vars
  PROVE  ThreadsGood' /\ Sending
<1>1. ThreadsGood
  BY DEF OutboxInv
<1>2. ASSUME NEW t \in Senders, NEW e \in Events, Submit(t, e)
      PROVE  ThreadsGood' /\ Sending
  <2> DEFINE n == [Idle EXCEPT !.e = e]
  <2>1. n \in ThreadType /\ n.e = e /\ t \in Threads
    BY IdleIsGood DEF ThreadGood, ThreadType, Threads
  <2>2. \E todo \in SUBSET Events : CleanThen(t, n, todo, "persist")
    <3>1. Leftovers(row') \in SUBSET Events /\ {} \in SUBSET Events
      BY DEF Leftovers
    <3> QED BY <1>2, <3>1 DEF Submit
  <2> HIDE DEF n
  <2> QED BY <1>1, <2>1, <2>2, CleanKeeps DEF GoesOn
<1>3. CASE UNCHANGED thread \/ thread' = [t \in Threads |-> Idle]
  BY <1>1, <1>3, AllKeep
<1>4. CASE \E d \in Devices : DropDevice(d) \/ DropHalf(d)
  BY <1>3, <1>4 DEF DropDevice, DropHalf
<1>5. CASE \E d \in Devices, n \in Credentials :
              RegisterToken(d, n) \/ RegisterActivity(d, n) \/ RegisterPair(d, n)
  BY <1>3, <1>5 DEF RegisterToken, RegisterActivity, RegisterPair
<1>6. CASE (\E e \in Events : Clock(e)) \/ SwitchProvider \/ Crash \/ UNCHANGED vars
  BY <1>3, <1>6 DEF Clock, DelayEnds, LeaseEnds, DayPasses, SwitchProvider, Crash, vars
<1> QED BY <1>2, <1>4, <1>5, <1>6, DeliverKeepsThreads, WorkerKeepsThreads DEF OutboxNext

------------------------------------------------------------------------------
(* The theorems.                                                           *)

(* The invariant holds at first.                                           *)
LEMMA OutboxStarts == OutboxInit => OutboxInv
<1> SUFFICES ASSUME OutboxInit PROVE OutboxInv
  OBVIOUS
<1>1. budget.known \in Tokens /\ provider \in Modes
  BY OutboxAssumption DEF OutboxInit, OutboxAssumption, Tokens, Modes
<1>2. RowsGood(row)
  BY DEF OutboxInit, RowsGood, HasRow
<1>3. token \in [Devices -> [alert : Tokens, live : Tokens]] /\ pair \in [Devices -> Tokens]
  BY <1>1 DEF OutboxInit
<1>4. StoresGood /\ InputsAreAllowed
  BY <1>1, <1>3 DEF OutboxInit, StoresGood, InputsAreAllowed
<1>5. ThreadsGood
  BY IdleIsGood DEF OutboxInit, ThreadsGood, ThreadGood
<1>6. OrderTypeOK
  BY DEF OutboxInit, OrderTypeOK, HasRow
<1> QED BY <1>2, <1>4, <1>5, <1>6 DEF OutboxInv

(* Every step keeps the invariant.                                         *)
LEMMA OutboxStep == OutboxInv /\ [OutboxNext]_vars => OutboxInv'
  BY RowsStep, OrderStep, StoresStep, ThreadsStep DEF OutboxInv, RowsGood, HasRow

(* In every state of every behaviour.                                      *)
LEMMA OutboxAlways == OutboxSpec => []OutboxInv
  BY OutboxStarts, OutboxStep, PTL DEF OutboxSpec, OutboxSafety

(* Inputs and rows keep their types; only a row that is being sent is      *)
(* locked: what expires, is claimed, answered or given up with its phone   *)
(* gives its lock back; and the rows are in an order, in which pruning     *)
(* finds the oldest, whatever was pruned before.                           *)
THEOREM RowsKeepTheirTypes == OutboxSpec => []OutboxTypeOK
<1>1. OutboxInv => RowsTypeOK
  BY DEF OutboxInv, RowsGood, StoresGood, RowsTypeOK
<1>2. OutboxInv => OutboxTypeOK
  BY <1>1 DEF OutboxInv, OutboxTypeOK
<1> QED BY <1>2, OutboxAlways, PTL

(* No late answer, claim, expiry, registration or drop changes how an event*)
(* finished, for any number of senders beside the worker.                  *)
THEOREM FinishedForGood == OutboxSpec => FinishedStaysFinished
<1> DEFINE Step == \A e \in Events : Final(row, e) /\ HasRow(row', e)
                                        => row'[e].state = row[e].state
<1>1. OutboxInv /\ [OutboxNext]_vars => Step
  BY RowsStep DEF Frozen
<1>2. (\A e \in Events : Final(row, e) /\ HasRow(row', e) => row'[e].state = row[e].state)
        <=> Step
  OBVIOUS
<1> HIDE DEF Step
<1> QED BY <1>1, <1>2, OutboxAlways, PTL DEF OutboxSpec, OutboxSafety, FinishedStaysFinished

(* An input is there only for a phone that is, or for an event that was    *)
(* submitted after its phone was dropped.                                  *)
THEOREM InputsFollowPhones == OutboxSpec => []InputsAreAllowed
<1>1. OutboxInv => InputsAreAllowed
  BY DEF OutboxInv
<1> QED BY <1>1, OutboxAlways, PTL

(* Nothing is sent to a phone that was dropped before its delivery got to  *)
(* the provider, unless it was submitted again since.                      *)
THEOREM NothingForDropped == OutboxSpec => NoSendAfterDrop
<1>1. OutboxInv /\ [OutboxNext]_vars =>
        \A t \in Threads : At(t) # "send" /\ thread'[t].pc = "send"
                              => Dev(t) \notin tombs \/ Ev(t) \in again
  BY ThreadsStep DEF Sending, Allowed, Dev
<1> QED BY <1>1, OutboxAlways, PTL DEF OutboxSpec, OutboxSafety, NoSendAfterDrop
==============================================================================
