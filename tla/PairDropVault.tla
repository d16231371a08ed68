---------------------------- MODULE PairDropVault ----------------------------
(***************************************************************************)
(* The managed vault of PairDrop (PairDropStore in                         *)
(* mac/companiond/pairdrop_store.py), used by the daemon for phones and by *)
(* the command line (pairdrop_cli.py) in processes of their own.           *)
(*                                                                         *)
(* A file arrives in pieces: they are appended to a partial beside a row   *)
(* of upload_sessions with the offset verified so far.  To complete, the   *)
(* row is claimed for a new file id, the partial renamed to an object, and *)
(* the row of the file inserted.  Each of these is a step of its own; a    *)
(* lock file per upload keeps two of its writers apart, and a write        *)
(* transaction on the database keeps all others out of it.  Cleaning up,   *)
(* which every new upload begins with, goes on with completions that have  *)
(* stood still and removes what no live upload needs.                      *)
(***************************************************************************)
EXTENDS Naturals, Sequences, FiniteSets

CONSTANTS Uploads,   \* upload ids, in the order they are drawn: 1 .. n
          Files,     \* file ids
          Keys,      \* create_idempotency_key: a thing to add
          Total,     \* bound: its length in pieces
          Adders,    \* who adds a thing, piece by piece
          Wants,     \* Adders -> Keys
          Cleaner,   \* a request that only cleans up
          Putter,    \* a request that adds a small file
          Remover,   \* who deletes files
          Purger,    \* a maintenance tool that purges deleted files
          Processes, \* sets of threads that die together
          Worlds,    \* bounds: how often things happen, see budget
          Gone, Nobody, NoKey, NoFile

Threads == Adders \cup {Cleaner, Putter, Remover, Purger}
NoUpload == 0

(* What a partial or an object holds: pieces as they were announced, or    *)
(* others.                                                                 *)
Pieces == UNION {[1..n -> {"good", "bad"}] : n \in 0..Total}

ASSUME VaultAssumption ==
    /\ Uploads \subseteq Nat \ {0} /\ Total \in Nat \ {0}
    /\ Wants \in [Adders -> Keys] /\ NoKey \notin Keys
    /\ NoFile \notin Files /\ Nobody \notin Threads /\ Gone \notin Pieces
    /\ Processes \subseteq SUBSET Threads

VARIABLES
    row,       \* upload_sessions
    partial,   \* Uploads -> pieces in its partial, or Gone
    life,      \* files: Files -> "none", "live", "deleted", "purged"
    object,    \* Files -> pieces in its object, or Gone
    hidden,    \* Files -> pieces in .purge-recovery, or Gone
    unsynced,  \* objects whose rename a loss of power may undo
    lockfile,  \* Uploads -> number of the inode of its lock file
    writer,    \* who is in a write transaction across a file operation
    thread,    \* Threads -> program counter and locals
    budget,    \* bound: what may still happen
    damaged    \* history: uploads whose partial somebody else removed

disk == <<partial, object, hidden, unsynced, lockfile>>
vars == <<row, life, disk, writer, thread, budget, damaged>>

Spend(what) == /\ budget[what] > 0
               /\ budget' = [budget EXCEPT ![what] = @ - 1]
Unspent == UNCHANGED <<budget, damaged>>

Receivable == {"created", "receiving", "failed_retryable"}
Terminal == {"committed", "cancelled", "expired", "failed_terminal"}
Absent == {"unused", "purged"}
States == Receivable \cup Terminal \cup Absent \cup {"completing"}
Rows == [state : States, key : Keys \cup {NoKey}, file : Files \cup {NoFile},
         verified : 0..Total, lapsed : BOOLEAN, aged : BOOLEAN]

Whole == [i \in 1..Total |-> "good"]
Size(x) == IF x = Gone THEN 0 ELSE Len(x)

Unused == [state |-> "unused", key |-> NoKey, file |-> NoFile, verified |-> 0,
           lapsed |-> FALSE, aged |-> FALSE]
Idle == [pc |-> "idle", u |-> NoUpload, f |-> NoFile, fd |-> 0, holds |-> FALSE,
         task |-> "none", off |-> 0, was |-> "none", err |-> "none", todo |-> {}]

At(t) == thread[t].pc
Up(t) == thread[t].u
Set(t, r) == thread' = [thread EXCEPT ![t] = r]
Goto(t, pc) == thread' = [thread EXCEPT ![t].pc = pc]
Return(t) == Set(t, Idle)

VaultInit ==
    /\ row = [u \in Uploads |-> Unused] /\ partial = [u \in Uploads |-> Gone]
    /\ life = [f \in Files |-> "none"]
    /\ object = [f \in Files |-> Gone] /\ hidden = [f \in Files |-> Gone]
    /\ unsynced = {} /\ lockfile = [u \in Uploads |-> 1]
    /\ writer = Nobody
    /\ thread = [t \in Threads |-> Idle]
    /\ budget \in Worlds /\ damaged = {}
------------------------------------------------------------------------------
(* Transactions.                                                           *)

(* BEGIN IMMEDIATE waits for the writer.                                   *)
Begin == writer = Nobody

(* Every transaction that writes ends the uploads whose time is over.      *)
Expired(R) == [u \in Uploads |-> IF R[u].state \in Receivable /\ R[u].lapsed
                                 THEN [R[u] EXCEPT !.state = "expired"] ELSE R[u]]

(* A new file id is one nobody has drawn.                                  *)
FreshFiles == {f \in Files : /\ life[f] = "none" /\ object[f] = Gone
                             /\ \A u \in Uploads : row[u].file # f
                             /\ \A t \in Threads : thread[t].f # f}
------------------------------------------------------------------------------
(* The lock of an upload: an flock on a lock file, which is removed when   *)
(* the upload is over.  Who opened the old file waits on the old inode.    *)

OpenLock(t, u, task) ==
    Set(t, [thread[t] EXCEPT !.pc = "wait", !.u = u, !.fd = lockfile[u], !.task = task,
                             !.err = "none"])

Excluded(t) == \E s \in Threads : /\ thread[s].holds
                                  /\ thread[s].u = Up(t) /\ thread[s].fd = thread[t].fd
Acquire(t) ==
    /\ At(t) = "wait" /\ ~Excluded(t)
    /\ Set(t, [thread[t] EXCEPT !.holds = TRUE,
                                !.pc = IF thread[t].task = "chunk" THEN "write" ELSE "read"])
    /\ UNCHANGED <<row, life, disk, writer>> /\ Unspent

(* A number is only needed when somebody has the old file open.            *)
Opened(u, except) == \E s \in Threads \ {except} : thread[s].u = u /\ thread[s].fd = lockfile[u]
Unlinked(t, u) ==
    lockfile' = IF Opened(u, t) THEN [lockfile EXCEPT ![u] = @ + 1] ELSE lockfile

(* The end of a critical section; complete_upload_session and the recovery *)
(* remove the lock file of an upload that can no longer change.            *)
Over(u) == row[u].state \in Terminal \cup Absent
Released(t) ==
    CASE thread[t].task = "recover" /\ thread[t].err # "abort" ->
            [thread[t] EXCEPT !.pc = "recover", !.u = NoUpload, !.todo = @ \ {Up(t)},
                              !.fd = 0, !.holds = FALSE, !.task = "none", !.f = NoFile,
                              !.off = 0, !.was = "none", !.err = "none"]
      [] thread[t].task = "complete" /\ thread[t].err = "none" -> [Idle EXCEPT !.pc = "added"]
      [] thread[t].task = "chunk" /\ thread[t].err = "none" ->
            [thread[t] EXCEPT !.pc = "send", !.fd = 0, !.holds = FALSE, !.task = "none"]
      [] OTHER -> Idle
Release(t) ==
    /\ At(t) = "release"
    /\ IF /\ thread[t].task # "chunk" /\ Over(Up(t)) /\ lockfile[Up(t)] = thread[t].fd
       THEN Unlinked(t, Up(t)) ELSE UNCHANGED lockfile
    /\ Set(t, Released(t))
    /\ UNCHANGED <<row, life, partial, object, hidden, unsynced, writer>> /\ Unspent

(* An error: the recovery starts an upload over whose bytes are not there. *)
Failing(t, e) == [thread[t] EXCEPT !.err = e,
                                   !.pc = IF thread[t].task = "recover" /\ e = "restart"
                                          THEN "drop" ELSE "release"]
Fail(t, e) == Set(t, Failing(t, e))
------------------------------------------------------------------------------
(* complete_upload_session, for a caller or for the recovery.              *)

(* A committed upload answers with its file if that is still there whole.  *)
Served(u) == LET f == row[u].file IN life[f] = "live" /\ Size(object[f]) = Total

ReadRow(t) ==
    /\ At(t) = "read" /\ Begin
    /\ row' = IF row[Up(t)].state \in Absent THEN row ELSE Expired(row)
    /\ LET r == row'[Up(t)] IN
       CASE r.state = "committed" /\ Served(Up(t)) -> Goto(t, "release")
         [] r.state = "completing" ->
               Set(t, [thread[t] EXCEPT !.pc = "resume", !.was = r.state, !.f = r.file])
         [] r.state \in Receivable ->
               Set(t, [thread[t] EXCEPT !.pc = "check", !.was = r.state, !.off = r.verified])
         [] OTHER -> Fail(t, "other")
    /\ UNCHANGED <<life, disk, writer>> /\ Unspent

(* The partial is measured and hashed; no transaction is open.             *)
Check(t) ==
    /\ At(t) = "check"
    /\ LET p == partial[Up(t)] IN
       Set(t, IF p = Gone \/ Size(p) # Total \/ thread[t].off # Total
              THEN [thread[t] EXCEPT !.pc = "mark", !.err = "failed_retryable"]
              ELSE IF p # Whole THEN [thread[t] EXCEPT !.pc = "mark", !.err = "failed_terminal"]
              ELSE [thread[t] EXCEPT !.pc = "claim"])
    /\ UNCHANGED <<row, life, disk, writer>> /\ Unspent

Mark(t) ==
    /\ At(t) = "mark" /\ Begin
    /\ row' = [row EXCEPT ![Up(t)].state = IF @ \in Receivable THEN thread[t].err ELSE @]
    /\ Fail(t, "restart")
    /\ UNCHANGED <<life, disk, writer>> /\ Unspent

(* Mutant: the claim does not ask whether the upload is as it was.         *)
ClaimAnyway(t) ==
    /\ At(t) = "claim" /\ Begin
    /\ \E f \in FreshFiles :
          /\ row' = [row EXCEPT ![Up(t)].state = "completing", ![Up(t)].file = f,
                                ![Up(t)].aged = FALSE]
          /\ Set(t, [thread[t] EXCEPT !.pc = "move", !.f = f])
    /\ UNCHANGED <<life, disk, writer>> /\ Unspent

(* The row is claimed for a new file id if it is as it was read.           *)
Claim(t) ==
    /\ At(t) = "claim" /\ Begin
    /\ \/ /\ row[Up(t)].state = thread[t].was
          /\ \E f \in FreshFiles :
                /\ row' = [row EXCEPT ![Up(t)].state = "completing", ![Up(t)].file = f,
                                      ![Up(t)].aged = FALSE]
                /\ Set(t, [thread[t] EXCEPT !.pc = "move", !.f = f])
       \/ /\ row[Up(t)].state # thread[t].was
          /\ Fail(t, "other") /\ UNCHANGED row
    /\ UNCHANGED <<life, disk, writer>> /\ Unspent

(* A completion that was interrupted goes on where it stopped.             *)
Resume(t) ==
    /\ At(t) = "resume"
    /\ LET p == partial[Up(t)]
           o == object[thread[t].f]
       IN IF o # Gone THEN Goto(t, "commit")
          ELSE IF p = Whole THEN Goto(t, "move")
          ELSE Fail(t, "restart")
    /\ UNCHANGED <<row, life, disk, writer>> /\ Unspent

(* The partial becomes the object, unless it changed since it was hashed;  *)
(* one lost after a resumption looked at it ends the whole request.        *)
Move(t) ==
    /\ At(t) = "move"
    /\ LET u == Up(t)
           f == thread[t].f
       IN \/ /\ partial[u] # Whole
             /\ Fail(t, IF thread[t].was = "completing" THEN "abort" ELSE "restart")
             /\ UNCHANGED <<partial, object, unsynced>>
          \/ /\ partial[u] = Whole
             /\ object' = [object EXCEPT ![f] = partial[u]]
             /\ partial' = [partial EXCEPT ![u] = Gone]
             /\ unsynced' = unsynced \cup {f}
             /\ Goto(t, "commit")
    /\ UNCHANGED <<row, life, hidden, lockfile, writer>> /\ Unspent

(* Mutant: the rename is not made durable before the row.                  *)
SyncedLater(f) == UNCHANGED unsynced

(* The object and its directory are synced.                                *)
Synced(f) == unsynced' = unsynced \ {f}

(* The file's row and the end of the upload are one transaction.           *)
Commit(t) ==
    /\ At(t) = "commit" /\ Begin
    /\ LET u == Up(t)
           f == thread[t].f
       IN /\ Synced(f)
          /\ IF row[u].state = "completing" /\ row[u].file = f
             THEN /\ row' = [row EXCEPT ![u].state = "committed", ![u].verified = Total,
                                        ![u].aged = FALSE]
                  /\ life' = [life EXCEPT ![f] = "live"]
                  /\ Goto(t, "release")
             ELSE Fail(t, "other") /\ UNCHANGED <<row, life>>
    /\ UNCHANGED <<partial, object, hidden, lockfile, writer>> /\ Unspent
------------------------------------------------------------------------------
(* cleanup_partials.                                                       *)

(* recover_stale_completions lists completions that have stood still, and  *)
(* takes them up one after the other.                                      *)
ReadStale(t) ==
    /\ At(t) = "stale"
    /\ Set(t, [thread[t] EXCEPT !.pc = "recover",
                                !.todo = {u \in Uploads : row[u].state = "completing" /\ row[u].aged}])
    /\ UNCHANGED <<row, life, disk, writer>> /\ Unspent

Recover(t) ==
    /\ At(t) = "recover"
    /\ \/ \E u \in thread[t].todo : OpenLock(t, u, "recover")
       \/ thread[t].todo = {} /\ Goto(t, "sweep")
    /\ UNCHANGED <<row, life, disk, writer>> /\ Unspent

Drop(t) ==
    /\ At(t) = "drop"
    /\ partial' = [partial EXCEPT ![Up(t)] = Gone]
    /\ Goto(t, "restart")
    /\ UNCHANGED <<row, life, object, hidden, unsynced, lockfile, writer>> /\ Unspent

(* Mutant: the file id stays.                                              *)
RestartedKeepingFile(r) ==
    [r EXCEPT !.state = "failed_retryable", !.verified = 0, !.lapsed = FALSE, !.aged = FALSE]

Restarted(r) == [r EXCEPT !.state = "failed_retryable", !.verified = 0, !.file = NoFile,
                          !.lapsed = FALSE, !.aged = FALSE]
Restart(t) ==
    /\ At(t) = "restart" /\ Begin
    /\ row' = [row EXCEPT ![Up(t)] = IF @.state = "completing" THEN Restarted(@) ELSE @]
    /\ Goto(t, "release")
    /\ UNCHANGED <<life, disk, writer>> /\ Unspent

(* What no live upload needs: the names are listed after the transaction,  *)
(* and those that are younger than it are kept.                            *)
Active(R, u) == R[u].state \in Receivable \cup {"completing"}
Sweep(t) ==
    /\ At(t) = "sweep" /\ Begin
    /\ row' = Expired(row)
    /\ Set(t, [thread[t] EXCEPT
               !.pc = "unlink",
               !.todo = {u \in Uploads : /\ ~Active(row', u)
                                         /\ partial[u] # Gone \/ Opened(u, t)}])
    /\ UNCHANGED <<life, disk, writer>> /\ Unspent

Unlink(t) ==
    /\ At(t) = "unlink"
    /\ \/ \E u \in thread[t].todo :
             /\ partial' = [partial EXCEPT ![u] = Gone]
             /\ IF \E s \in Threads : /\ thread[s].holds /\ thread[s].u = u
                                      /\ thread[s].fd = lockfile[u]
                THEN UNCHANGED lockfile ELSE Unlinked(t, u)
             /\ Set(t, [thread[t] EXCEPT !.todo = @ \ {u}])
       \/ /\ thread[t].todo = {}
          /\ IF t \in Adders THEN Goto(t, "create") ELSE Return(t)
          /\ UNCHANGED <<partial, lockfile>>
    /\ UNCHANGED <<row, life, object, hidden, unsynced, writer>> /\ Unspent

CleanUp(t) ==
    /\ t = Cleaner /\ At(t) = "idle" /\ Spend("cleanups")
    /\ Goto(t, "stale")
    /\ UNCHANGED <<row, life, disk, writer, damaged>>
------------------------------------------------------------------------------
(* Adding a thing: create_upload_session, write_upload_chunk for every     *)
(* piece, complete_upload_session.  After an error, or when its process    *)
(* died, whoever adds begins again with the same key.                      *)

Add(c) ==
    /\ c \in budget.who /\ At(c) = "idle"
    /\ Goto(c, "stale")
    /\ UNCHANGED <<row, life, disk, writer>> /\ Unspent

Standing(R, c) == {u \in Uploads : R[u].key = Wants[c]}
Unneeded(R, u) == R[u].state \in {"cancelled", "expired", "failed_terminal"}

(* Mutant: an upload keeps its key though nothing can come of it.          *)
ReleasedNever(R, c) == R

(* A key is released by an upload that has failed, and then taken again.   *)
ReleasedKey(R, c) ==
    [u \in Uploads |-> IF u \in Standing(R, c) /\ Unneeded(R, u)
                       THEN [R[u] EXCEPT !.key = NoKey] ELSE R[u]]
Create(c) ==
    /\ At(c) = "create" /\ Begin
    /\ LET R == ReleasedKey(Expired(row), c)
           unused == {v \in Uploads : R[v].state = "unused"}
       IN \/ \E u \in Standing(R, c) :
                /\ row' = R
                /\ Set(c, [thread[c] EXCEPT !.pc = "get", !.u = u])
          \/ /\ Standing(R, c) = {}
             /\ \E u \in unused :
                  /\ \A v \in unused : u <= v
                  /\ row' = [R EXCEPT ![u] = [Unused EXCEPT !.state = "created",
                                                           !.key = Wants[c]]]
                  /\ Set(c, [thread[c] EXCEPT !.pc = "get", !.u = u])
    /\ UNCHANGED <<life, disk, writer>> /\ Unspent

(* The answer of create_upload_session is read after its transaction.      *)
GetSession(c) ==
    /\ At(c) = "get"
    /\ LET r == row[Up(c)] IN
       IF r.state \in Absent \/ (r.state = "committed" /\ ~Served(Up(c))) THEN Return(c)
       ELSE Set(c, [thread[c] EXCEPT !.pc = "send", !.off = r.verified])
    /\ UNCHANGED <<row, life, disk, writer>> /\ Unspent

Send(c) ==
    /\ At(c) = "send"
    /\ LET r == row[Up(c)] IN
       IF r.state \in Absent \/ (r.state = "committed" /\ ~Served(Up(c))) THEN Return(c)
       ELSE OpenLock(c, Up(c), IF thread[c].off < Total THEN "chunk" ELSE "complete")
    /\ UNCHANGED <<row, life, disk, writer>> /\ Unspent

(* Whatever is beyond the verified offset is cut off.                      *)
Appended(p, n, x) == Append(IF p = Gone THEN <<>> ELSE SubSeq(p, 1, n), x)

(* A piece is written within the transaction that will count it.           *)
Write(c) ==
    /\ At(c) = "write" /\ Begin
    /\ LET u == Up(c)
           R == Expired(row)
           r == R[u]
           p == partial[u]
           off == thread[c].off
           kept == IF p = Gone THEN p ELSE SubSeq(p, 1, r.verified)
       IN \/ /\ r.state \notin Receivable
             /\ row' = IF r.state \in Absent THEN row ELSE R
             /\ Fail(c, "other")
             /\ UNCHANGED <<partial, writer, budget>>
          \/ /\ r.state \in Receivable /\ Size(p) < r.verified
             /\ row' = [R EXCEPT ![u].state = "failed_retryable", ![u].verified = 0]
             /\ partial' = [partial EXCEPT ![u] = Gone]
             /\ Fail(c, "other") /\ UNCHANGED <<writer, budget>>
          \/ /\ r.state \in Receivable /\ Size(p) >= r.verified /\ off # r.verified
             /\ partial' = [partial EXCEPT ![u] = kept]
             /\ IF off < r.verified /\ p[off + 1] = "good"
                THEN /\ row' = R
                     /\ Set(c, [thread[c] EXCEPT !.pc = "release", !.off = r.verified])
                ELSE Fail(c, "other") /\ UNCHANGED row
             /\ UNCHANGED <<writer, budget>>
          \/ /\ r.state \in Receivable /\ Size(p) >= r.verified /\ off = r.verified
             /\ \E x \in {"good", "bad"} :
                   /\ IF x = "bad" THEN Spend("bad") ELSE UNCHANGED budget
                   /\ partial' = [partial EXCEPT ![u] = Appended(p, off, x)]
             /\ writer' = c /\ Goto(c, "count")
             /\ UNCHANGED row
    /\ UNCHANGED <<life, object, hidden, unsynced, lockfile, damaged>>

(* The transaction commits: the piece counts, and the lease is renewed.    *)
Count(c) ==
    /\ At(c) = "count"
    /\ row' = [Expired(row) EXCEPT ![Up(c)].state = "receiving",
                                   ![Up(c)].verified = thread[c].off + 1,
                                   ![Up(c)].lapsed = FALSE]
    /\ writer' = Nobody
    /\ Set(c, [thread[c] EXCEPT !.pc = "release", !.off = @ + 1])
    /\ UNCHANGED <<life, disk>> /\ Unspent

(* Or it fails: the disk is full, or the file could not be written.        *)
CountFails(c) ==
    /\ At(c) = "count" /\ Spend("faults")
    /\ writer' = Nobody /\ Fail(c, "other")
    /\ UNCHANGED <<row, life, disk, damaged>>

(* cancel_upload_session, by a phone or by an adder whose source changed.  *)
Cancel(u) ==
    /\ Begin /\ row[u].state \in Receivable \cup {"expired", "failed_terminal"}
    /\ Spend("cancels")
    /\ row' = [row EXCEPT ![u].state = "cancelled"]
    /\ UNCHANGED <<life, disk, writer, thread, damaged>>
------------------------------------------------------------------------------
(* Files.                                                                  *)

(* upload_bytes: the object is written within the transaction.             *)
Put(t) ==
    /\ t = Putter /\ At(t) = "idle" /\ Begin /\ Spend("puts")
    /\ \E f \in FreshFiles :
          /\ object' = [object EXCEPT ![f] = Whole]
          /\ Set(t, [Idle EXCEPT !.pc = "insert", !.f = f])
    /\ writer' = t
    /\ UNCHANGED <<row, life, partial, hidden, unsynced, lockfile, damaged>>

Insert(t) ==
    /\ At(t) = "insert"
    /\ row' = Expired(row) /\ life' = [life EXCEPT ![thread[t].f] = "live"]
    /\ writer' = Nobody /\ Return(t)
    /\ UNCHANGED disk /\ Unspent

InsertFails(t) ==
    /\ At(t) = "insert" /\ Spend("faults")
    /\ writer' = Nobody /\ Goto(t, "undo")
    /\ UNCHANGED <<row, life, disk, damaged>>

Undo(t) ==
    /\ At(t) = "undo"
    /\ object' = [object EXCEPT ![thread[t].f] = Gone] /\ Return(t)
    /\ UNCHANGED <<row, life, partial, hidden, unsynced, lockfile, writer>> /\ Unspent

(* delete_file: the row first, then the object; it may be asked again.     *)
Delete(t, f) ==
    /\ t = Remover /\ At(t) = "idle" /\ Begin
    /\ life[f] \in {"live", "deleted"} /\ Spend("deletes")
    /\ life' = [life EXCEPT ![f] = "deleted"]
    /\ row' = [u \in Uploads |-> IF row[u].file = f /\ life[f] = "live"
                                 THEN [row[u] EXCEPT !.key = NoKey] ELSE row[u]]
    /\ Set(t, [Idle EXCEPT !.pc = "discard", !.f = f])
    /\ UNCHANGED <<disk, writer, damaged>>

Discard(t) ==
    /\ At(t) = "discard"
    /\ object' = [object EXCEPT ![thread[t].f] = Gone] /\ Return(t)
    /\ UNCHANGED <<row, life, partial, hidden, unsynced, lockfile, writer>> /\ Unspent

(* purge_deleted_file: within its transaction the object is set aside; it  *)
(* is put back if the rows stay, and removed when they are gone.           *)
Purge(t, f) ==
    /\ t = Purger /\ At(t) = "idle" /\ Begin /\ Spend("purges")
    /\ \/ /\ life[f] = "deleted" /\ (object[f] = Gone \/ hidden[f] = Gone)
          /\ hidden' = [hidden EXCEPT ![f] = IF object[f] # Gone THEN object[f] ELSE @]
          /\ object' = [object EXCEPT ![f] = Gone]
          /\ writer' = t
          /\ Set(t, [Idle EXCEPT !.pc = "forget", !.f = f,
                                 !.was = IF object[f] # Gone THEN "moved" ELSE "none"])
       \/ /\ life[f] = "purged" /\ hidden[f] # Gone
          /\ hidden' = [hidden EXCEPT ![f] = Gone]
          /\ UNCHANGED <<object, writer, thread>>
    /\ UNCHANGED <<row, life, partial, unsynced, lockfile, damaged>>

Forget(t) ==
    /\ At(t) = "forget"
    /\ life' = [life EXCEPT ![thread[t].f] = "purged"]
    /\ row' = [u \in Uploads |-> IF row[u].file = thread[t].f
                                 THEN [row[u] EXCEPT !.state = "purged"] ELSE row[u]]
    /\ writer' = Nobody /\ Goto(t, "shred")
    /\ UNCHANGED disk /\ Unspent

ForgetFails(t) ==
    /\ At(t) = "forget" /\ Spend("faults")
    /\ LET f == thread[t].f IN
       /\ object' = [object EXCEPT ![f] = IF thread[t].was = "moved" THEN hidden[f] ELSE @]
       /\ hidden' = [hidden EXCEPT ![f] = IF thread[t].was = "moved" THEN Gone ELSE @]
    /\ writer' = Nobody /\ Return(t)
    /\ UNCHANGED <<row, life, partial, unsynced, lockfile, damaged>>

Shred(t) ==
    /\ At(t) = "shred"
    /\ hidden' = [hidden EXCEPT ![thread[t].f] = Gone] /\ Return(t)
    /\ UNCHANGED <<row, life, partial, object, unsynced, lockfile, writer>> /\ Unspent
------------------------------------------------------------------------------
(* The world.                                                              *)

(* The lease of an upload ends: sometimes while it goes on, but in the end *)
(* whenever nothing renews it, as after a failure.                         *)
LeaseEnds(u) ==
    /\ row[u].state \in Receivable /\ ~row[u].lapsed
    /\ row' = [row EXCEPT ![u].lapsed = TRUE]
    /\ UNCHANGED <<life, disk, writer, thread, damaged>>
Lapse(u) == Spend("lapses") /\ LeaseEnds(u)
FailedLapse(u) == row[u].state = "failed_retryable" /\ UNCHANGED budget /\ LeaseEnds(u)

(* A completion has stood still for 300 s.                                 *)
Age(u) ==
    /\ row[u].state = "completing" /\ ~row[u].aged
    /\ row' = [row EXCEPT ![u].aged = TRUE]
    /\ UNCHANGED <<life, disk, writer, thread>> /\ Unspent

(* Somebody removes a partial from outside.                                *)
Lose(u) ==
    /\ partial[u] # Gone /\ Active(row, u) /\ Spend("losses")
    /\ partial' = [partial EXCEPT ![u] = Gone]
    /\ damaged' = damaged \cup {u}
    /\ UNCHANGED <<row, life, object, hidden, unsynced, lockfile, writer, thread>>

(* A process dies: its locks are released and its transaction is undone.   *)
Dead(P) == [t \in Threads |-> IF t \in P /\ At(t) # "added" THEN Idle ELSE thread[t]]
Die(P) ==
    /\ Spend("crashes") /\ \E t \in P : At(t) \notin {"idle", "added"}
    /\ thread' = Dead(P) /\ writer' = IF writer \in P THEN Nobody ELSE writer
    /\ UNCHANGED <<row, life, disk, damaged>>

(* The Mac loses its power: all die, and a rename that was not synced may  *)
(* not have happened.                                                      *)
PowerLoss ==
    /\ Spend("crashes") /\ unsynced # {}
    /\ \E lost \in SUBSET unsynced :
          /\ partial' = [u \in Uploads |-> IF row[u].file \in lost THEN object[row[u].file]
                                           ELSE partial[u]]
          /\ object' = [f \in Files |-> IF f \in lost THEN Gone ELSE object[f]]
    /\ unsynced' = {}
    /\ thread' = Dead(Threads) /\ writer' = Nobody
    /\ UNCHANGED <<row, life, hidden, lockfile, damaged>>

Step(t) ==
    \/ Acquire(t) \/ Release(t) \/ ReadRow(t) \/ Check(t) \/ Mark(t) \/ Claim(t)
    \/ Resume(t) \/ Move(t) \/ Commit(t)
    \/ ReadStale(t) \/ Recover(t) \/ Drop(t) \/ Restart(t) \/ Sweep(t) \/ Unlink(t)
    \/ Create(t) \/ GetSession(t) \/ Send(t) \/ Write(t) \/ Count(t)
    \/ Insert(t) \/ Undo(t) \/ Discard(t) \/ Forget(t) \/ Shred(t)

Chance ==
    \/ CleanUp(Cleaner) \/ Put(Putter) \/ InsertFails(Putter) \/ ForgetFails(Purger)
    \/ \E f \in Files : Delete(Remover, f) \/ Purge(Purger, f)
    \/ \E c \in Adders : CountFails(c)
    \/ \E u \in Uploads : Cancel(u) \/ Lapse(u) \/ Lose(u)
    \/ \E P \in Processes : Die(P)
    \/ PowerLoss

VaultNext ==
    \/ \E t \in Threads : Step(t)
    \/ \E c \in Adders : Add(c)
    \/ \E u \in Uploads : Age(u) \/ FailedLapse(u)
    \/ Chance

(* What has begun goes on, time passes, and whoever adds a thing tries     *)
(* again until it is told that the file is there.                          *)
Fairness ==
    /\ \A t \in Threads : WF_vars(Step(t))
    /\ \A c \in Adders : WF_vars(Add(c))
    /\ \A u \in Uploads : WF_vars(Age(u)) /\ WF_vars(FailedLapse(u))

VaultSpec == VaultInit /\ [][VaultNext]_vars /\ Fairness
------------------------------------------------------------------------------
(* Properties.                                                             *)

(* Types, and: an upload has a file id exactly from its claim on, no two   *)
(* uploads share a file or a key, and a write transaction has its thread.  *)
VaultTypeOK ==
    /\ row \in [Uploads -> Rows]
    /\ partial \in [Uploads -> Pieces \cup {Gone}]
    /\ object \in [Files -> Pieces \cup {Gone}] /\ hidden \in [Files -> Pieces \cup {Gone}]
    /\ life \in [Files -> {"none", "live", "deleted", "purged"}]
    /\ unsynced \subseteq Files /\ lockfile \in [Uploads -> Nat]
    /\ \A u \in Uploads :
          /\ row[u].file # NoFile <=> row[u].state \in {"completing", "committed", "purged"}
          /\ \A v \in Uploads \ {u} : /\ row[u].file # row[v].file \/ row[u].file = NoFile
                                      /\ row[u].key # row[v].key \/ row[u].key = NoKey
    /\ \A t \in Threads : At(t) \in {"count", "insert", "forget"} <=> writer = t

(* Every file in the vault is whole, through crashes between the rename    *)
(* and its row, losses of power, races of completions, recoveries, clean-  *)
(* ups and cancellations.  And the bytes a phone was told are verified are *)
(* there until the file is: unless somebody else removed them.             *)
FilesAreWhole ==
    /\ \A f \in Files : life[f] = "live" => object[f] = Whole
    /\ \A u \in Uploads \ damaged :
          /\ row[u].state \in Receivable => row[u].verified <= Size(partial[u])
          /\ row[u].state = "completing" => Whole \in {partial[u], object[row[u].file]}

(* The vault keeps its promise: a file arrives once, what was cancelled or *)
(* has failed never arrives, a key stands for one upload at a time, and    *)
(* what is deleted stays away.                                             *)
StageOf(s) == CASE s \in Receivable \cup {"completing"} -> "open"
                [] s = "committed" -> "arrived"
                [] s \in {"cancelled", "expired", "failed_terminal"} -> "failed"
                [] OTHER -> s
Promise == INSTANCE VaultPromise WITH
    stage <- [u \in Uploads |-> StageOf(row[u].state)],
    claim <- [u \in Uploads |-> row[u].key],
    result <- [u \in Uploads |-> IF row[u].state \in {"committed", "purged"}
                                THEN {row[u].file} ELSE {}]
KeepsPromise == Promise!PromiseSpec

(* Adding a thing again until it succeeds ends, whatever went wrong: a     *)
(* stale completion, a lost partial or a failed upload is never in the way *)
(* for ever.                                                               *)
EveryAddEnds == <>(\A c \in budget.who : At(c) = "added")
==============================================================================
