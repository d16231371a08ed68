-------------------------- MODULE PairDropVaultProofs --------------------------
(***************************************************************************)
(* Proofs about PairDropVault: what the vault promises, for any numbers of *)
(* uploads, files, pieces and adders, and any processes.                   *)
(***************************************************************************)
EXTENDS PairDropVault, TLAPS, FiniteSetTheorems, SequenceTheorems

(* Where a thread may be, and what it then has at hand.                    *)
Completing == {"resume", "move", "commit"}
Looking == {"read", "check", "mark", "claim"}
Restarting == {"drop", "restart"}
Writing == {"write", "count"}
Critical == Completing \cup Looking \cup Restarting \cup Writing \cup {"release"}
OnFile == {"insert", "undo", "discard", "forget", "shred"}
Pcs == Critical \cup OnFile \cup {"idle", "wait", "stale", "recover", "sweep", "unlink", "create",
                                  "get", "send", "added"}
Tasks == {"none", "chunk", "complete", "recover"}
ThreadRecords ==
    [pc : Pcs, u : Uploads \cup {NoUpload}, f : Files \cup {NoFile}, fd : Nat, holds : BOOLEAN,
     task : Tasks, off : 0..Total, was : States \cup {"none", "moved"},
     err : {"none", "other", "failed_retryable", "failed_terminal", "abort", "restart"},
     todo : SUBSET Uploads]
Shape(r) ==
    /\ r \in ThreadRecords
    /\ r.holds <=> r.pc \in Critical
    /\ r.pc \in Critical \cup {"wait", "get", "send"} => r.u \in Uploads
    /\ r.pc \in Critical \cup {"wait"} <=> r.task # "none"
    /\ r.pc \in Writing => r.task = "chunk"
    /\ r.pc \in Completing \cup Looking => r.task # "chunk"
    /\ r.pc \in Restarting => r.task = "recover"
    /\ r.task = "chunk" /\ r.pc \in Writing \cup {"wait"} => r.off < Total
    /\ r.pc \in Completing \cup OnFile => r.f \in Files
    /\ r.pc = "mark" => r.err \in {"failed_retryable", "failed_terminal"}
    /\ r.pc \in {"check", "mark", "claim"} => r.was \in Receivable
ThreadsGood ==
    /\ thread \in [Threads -> ThreadRecords]
    /\ \A t \in Threads : Shape(thread[t])
    /\ writer \in Threads \cup {Nobody}
    /\ \A t \in Threads : At(t) \in {"count", "insert", "forget"} <=> writer = t
    /\ \A t \in Threads : At(t) \in {"insert", "undo"} => t = Putter

(* Uploads.                                                                *)
Finished(u) == row[u].state \in Terminal \cup {"purged"}
RowsGood ==
    /\ row \in [Uploads -> Rows]
    /\ \A u \in Uploads :
          /\ row[u].file # NoFile <=> row[u].state \in {"completing", "committed", "purged"}
          /\ row[u].state = "unused" => row[u].key = NoKey /\ partial[u] = Gone
          /\ \A v \in Uploads \ {u} : /\ row[u].file # row[v].file \/ row[u].file = NoFile
                                      /\ row[u].key # row[v].key \/ row[u].key = NoKey

(* Locks: an upload that can still change has its first lock file.         *)
LocksGood ==
    /\ lockfile \in [Uploads -> Nat \ {0}]
    /\ \A u \in Uploads : ~Finished(u) => lockfile[u] = 1
    /\ \A t \in Threads : Up(t) \in Uploads =>
          /\ row[Up(t)].state # "unused"
          /\ At(t) \in Critical \cup {"wait"} => 0 < thread[t].fd /\ thread[t].fd <= lockfile[Up(t)]
    /\ \A s, t \in Threads :
          thread[s].holds /\ thread[t].holds /\ Up(s) = Up(t) /\ thread[s].fd = thread[t].fd => s = t
    /\ \A t \in Threads : At(t) = "unlink" => \A u \in thread[t].todo : Finished(u)

(* What the holder of a lock knows.                                        *)
Stale(t) == IF thread[t].task = "recover" THEN {Up(t)} \cup thread[t].todo
            ELSE IF At(t) = "recover" THEN thread[t].todo ELSE {}
WorkOf(t) ==
    LET u == Up(t)
        f == thread[t].f
    IN /\ At(t) = "create" => t \in Adders
       /\ At(t) \in {"check", "mark", "claim"} => row[u].state # "completing"
       /\ At(t) = "claim" /\ row[u].state \in Receivable => u \in damaged \/ partial[u] = Whole
       /\ At(t) \in Completing => row[u].state = "completing" /\ row[u].file = f
       /\ At(t) = "move" => object[f] = Gone
       /\ At(t) = "commit" => object[f] = Whole
       /\ At(t) \in Restarting /\ row[u].state = "completing" => u \in damaged
       /\ \A v \in Stale(t) : /\ row[v].state # "unused"
                              /\ row[v].state \in Receivable => v \in damaged
       /\ At(t) = "count" => /\ row[u].state \in Receivable /\ row[u].verified = thread[t].off
                             /\ u \in damaged \/ Size(partial[u]) = thread[t].off + 1
WorkGood == \A t \in Threads : WorkOf(t)

(* Files.                                                                  *)
Named(f) == \E u \in Uploads : row[u].file = f
FileOf(t) ==
    LET f == thread[t].f IN
    /\ At(t) = "insert" => object[f] = Whole
    /\ At(t) \in {"insert", "undo"} => life[f] = "none" /\ ~Named(f) /\ f \notin unsynced
    /\ At(t) \in {"discard", "shred"} => life[f] \in {"deleted", "purged"}
    /\ At(t) = "forget" => life[f] = "deleted"
FilesGood ==
    /\ life \in [Files -> {"none", "live", "deleted", "purged"}]
    /\ object \in [Files -> {Whole, Gone}] /\ hidden \in [Files -> {Whole, Gone}]
    /\ unsynced \subseteq Files
    /\ \A f \in unsynced : life[f] = "none" /\ object[f] = Whole
    /\ \A u \in Uploads : /\ row[u].state = "completing" => life[row[u].file] = "none"
                          /\ row[u].state = "committed" => life[row[u].file] # "none"
    /\ \A t \in Threads : FileOf(t)

BytesGood ==
    /\ partial \in [Uploads -> Pieces \cup {Gone}]
    /\ damaged \subseteq Uploads
    /\ FilesAreWhole

VaultInv == ThreadsGood /\ RowsGood /\ LocksGood /\ WorkGood /\ FilesGood /\ BytesGood
------------------------------------------------------------------------------
(* Threads.                                                                *)
InTransaction == {"count", "insert", "forget"}
Moves(t, n) == thread' = [thread EXCEPT ![t] = n]

(* A thread takes a record of the right shape, and the writer with it.     *)
LEMMA ThreadMoves ==
  ASSUME ThreadsGood, NEW t \in Threads, NEW n, Moves(t, n), Shape(n),
         n.pc \in {"insert", "undo"} => t = Putter,
         \/ n.pc \in InTransaction /\ writer' = t /\ writer \in {Nobody, t}
         \/ n.pc \notin InTransaction /\ At(t) \in InTransaction /\ writer' = Nobody
         \/ n.pc \notin InTransaction /\ At(t) \notin InTransaction /\ writer' = writer
  PROVE  ThreadsGood' /\ thread'[t] = n /\ \A s \in Threads \ {t} : thread'[s] = thread[s]
<1>1. thread'[t] = n /\ \A s \in Threads \ {t} : thread'[s] = thread[s]
  BY DEF Moves, ThreadsGood
<1>2. thread' \in [Threads -> ThreadRecords]
  BY DEF Moves, ThreadsGood, Shape
<1>3. \A s \in Threads : Shape(thread'[s])
  BY <1>1 DEF ThreadsGood
<1>4. Nobody \notin Threads
  BY VaultAssumption DEF VaultAssumption
<1>5. \A s \in Threads : At(s) \in InTransaction <=> writer = s
  BY DEF ThreadsGood, InTransaction
<1>6. \A s \in Threads : At(s)' = IF s = t THEN n.pc ELSE At(s)
  BY <1>1 DEF At
<1>7. writer' \in Threads \cup {Nobody} /\ \A s \in Threads : At(s)' \in InTransaction <=> writer' = s
  BY <1>4, <1>5, <1>6 DEF ThreadsGood
<1>8. \A s \in Threads : At(s)' \in {"insert", "undo"} => s = Putter
  BY <1>6 DEF ThreadsGood
<1> QED BY <1>1, <1>2, <1>3, <1>7, <1>8 DEF ThreadsGood, InTransaction, At

(* An idle thread has the shape of one.                                    *)
LEMMA IdleShape == Shape(Idle) /\ Idle.pc = "idle" /\ ~Idle.holds /\ Idle.u = NoUpload
<1>1. Idle \in ThreadRecords
  BY VaultAssumption DEF Idle, ThreadRecords, Pcs, Tasks, VaultAssumption
<1> QED BY <1>1 DEF Idle, Shape, Critical, Completing, Looking, Restarting, Writing, OnFile

(* What the shape of a thread's record says of it.                         *)
LEMMA ItsShape ==
  ASSUME ThreadsGood, NEW t \in Threads
  PROVE  /\ Shape(thread[t]) /\ thread[t] \in ThreadRecords
         /\ thread[t].holds <=> At(t) \in Critical
         /\ At(t) \in Critical \cup {"wait", "get", "send"} => Up(t) \in Uploads
BY DEF ThreadsGood, Shape, At, Up

(* Going on is taking the record with another program counter.             *)
LEMMA GotoMoves ==
  ASSUME ThreadsGood, NEW t \in Threads, NEW p, Goto(t, p)
  PROVE  Moves(t, [thread[t] EXCEPT !.pc = p])
BY DEF ThreadsGood, Goto, Moves

(* A thread goes on to where its record fits as it is.                     *)
LEMMA GotoShape ==
  ASSUME NEW r, Shape(r), NEW p \in Pcs,
         p \in Critical <=> r.pc \in Critical,
         p \in Critical \cup {"wait", "get", "send"} => r.pc \in Critical \cup {"wait", "get", "send"},
         p \in Critical => p # "write" /\ (p \in Writing => r.pc \in Writing)
              /\ (p \in Looking => r.pc \in Looking) /\ (p \in Completing => r.pc \in Completing)
              /\ (p \in Restarting => r.pc \in Restarting),
         p = "wait" <=> r.pc = "wait",
         p \in OnFile => r.pc \in OnFile,
         p = "mark" => r.err \in {"failed_retryable", "failed_terminal"},
         p \in {"check", "mark", "claim"} => r.was \in Receivable,
         NEW n, n = [r EXCEPT !.pc = p]
  PROVE  /\ Shape(n) /\ n.pc = p /\ n.u = r.u /\ n.f = r.f /\ n.fd = r.fd /\ n.holds = r.holds
         /\ n.task = r.task /\ n.off = r.off /\ n.was = r.was /\ n.err = r.err /\ n.todo = r.todo
<1>1. n \in ThreadRecords
  BY DEF Shape, ThreadRecords
<1>2. /\ n.pc = p /\ n.u = r.u /\ n.f = r.f /\ n.fd = r.fd /\ n.holds = r.holds
      /\ n.task = r.task /\ n.off = r.off /\ n.was = r.was /\ n.err = r.err /\ n.todo = r.todo
  BY DEF Shape, ThreadRecords
<1>3. "wait" \notin Critical /\ "mark" \in Looking
  BY DEF Critical, Looking, Completing, Restarting, Writing
<1> QED BY <1>1, <1>2, <1>3 DEF Shape, Critical

(* A thread that fails goes to the end of its critical section.            *)
LEMMA FailingShape ==
  ASSUME ThreadsGood, NEW t \in Threads, At(t) \in Critical,
         NEW e \in {"other", "abort", "restart"}, NEW n, n = Failing(t, e)
  PROVE  /\ Shape(n) /\ n.pc \in {"release", "drop"} /\ n.u = Up(t) /\ n.fd = thread[t].fd
         /\ n.holds /\ n.f = thread[t].f /\ n.task = thread[t].task /\ n.todo = thread[t].todo
         /\ n.pc = "drop" => e = "restart" /\ thread[t].task = "recover"
<1> DEFINE p == IF thread[t].task = "recover" /\ e = "restart" THEN "drop" ELSE "release"
<1>1. /\ p \in {"release", "drop"} /\ n = [thread[t] EXCEPT !.err = e, !.pc = p]
      /\ p = "drop" => e = "restart" /\ thread[t].task = "recover"
  BY DEF Failing
<1> HIDE DEF p
<1>2. thread[t] \in ThreadRecords /\ Shape(thread[t]) /\ thread[t].pc \in Critical
  BY ItsShape DEF At
<1>3. n \in ThreadRecords
  <2>1. p \in Pcs
    BY <1>1 DEF Pcs, Critical, Restarting
  <2> QED BY <1>1, <1>2, <2>1 DEF ThreadRecords
<1>4. /\ n.pc = p /\ n.u = Up(t) /\ n.f = thread[t].f /\ n.fd = thread[t].fd
      /\ n.holds = thread[t].holds /\ n.task = thread[t].task /\ n.off = thread[t].off
      /\ n.was = thread[t].was /\ n.err = e /\ n.todo = thread[t].todo
  BY <1>1, <1>2 DEF ThreadRecords, Up
<1>5. n.holds /\ n.u \in Uploads /\ n.task # "none"
  BY <1>2, <1>4 DEF Shape, Up
<1> QED BY <1>1, <1>3, <1>4, <1>5 DEF Shape, Critical, Completing, Looking, Restarting, Writing, OnFile

(* Rows whose time is over.                                                *)
LEMMA ExpiredRows ==
  ASSUME RowsGood, NEW u \in Uploads
  PROVE  /\ Expired(row)[u] \in Rows /\ row[u] \in Rows
         /\ Expired(row)[u].key = row[u].key /\ Expired(row)[u].file = row[u].file
         /\ Expired(row)[u].verified = row[u].verified /\ Expired(row)[u].aged = row[u].aged
         /\ \/ Expired(row)[u] = row[u]
            \/ row[u].state \in Receivable /\ Expired(row)[u].state = "expired"
         /\ Expired(row)[u].state \notin Receivable \cup {"expired"} => Expired(row)[u] = row[u]
<1>1. row[u] \in Rows
  BY DEF RowsGood
<1>2. Expired(row)[u] = IF row[u].state \in Receivable /\ row[u].lapsed
                        THEN [row[u] EXCEPT !.state = "expired"] ELSE row[u]
  BY DEF Expired
<1>3. "expired" \in States
  BY DEF States, Terminal
<1>4. [row[u] EXCEPT !.state = "expired"] \in Rows
  BY <1>1, <1>3 DEF Rows
<1>5. LET r == [row[u] EXCEPT !.state = "expired"] IN
      /\ r.state = "expired" /\ r.key = row[u].key /\ r.file = row[u].file
      /\ r.verified = row[u].verified /\ r.aged = row[u].aged
  BY <1>1 DEF Rows
<1> QED BY <1>1, <1>2, <1>4, <1>5

(* The groups of states have nothing in common.                            *)
LEMMA StatesAre ==
  /\ Receivable \cap (Terminal \cup Absent \cup {"completing"}) = {}
  /\ Terminal \cap (Absent \cup {"completing"}) = {} /\ "completing" \notin Absent
BY DEF Receivable, Terminal, Absent

(* How a thread moves while it stays on its upload.                        *)
Others(t) == \A s \in Threads \ {t} : thread'[s] = thread[s]
Stays(t, P) ==
    /\ Others(t) /\ At(t)' \in P
    /\ Up(t)' = Up(t) /\ thread'[t].fd = thread[t].fd /\ thread'[t].holds = thread[t].holds
    /\ thread'[t].task = thread[t].task /\ thread'[t].todo = thread[t].todo

(* A thread that stays on its upload keeps the threads as they should be.  *)
LEMMA StaysGood ==
  ASSUME ThreadsGood, NEW t \in Threads, NEW n, Moves(t, n), Shape(n), NEW P, n.pc \in P,
         P \cap (InTransaction \cup {"undo"}) = {}, At(t) \notin InTransaction, writer' = writer,
         n.u = Up(t), n.fd = thread[t].fd, n.holds = thread[t].holds, n.task = thread[t].task,
         n.todo = thread[t].todo
  PROVE  ThreadsGood' /\ Stays(t, P)
<1>1. n.pc \notin InTransaction /\ n.pc \notin {"insert", "undo"}
  BY DEF InTransaction
<1>2. ThreadsGood' /\ thread'[t] = n /\ Others(t)
  BY <1>1, ThreadMoves DEF Others
<1> QED BY <1>2 DEF Stays, At, Up

(* So does one that goes on within its critical section.                   *)
LEMMA GotoStays ==
  ASSUME ThreadsGood, NEW t \in Threads, NEW p, Goto(t, p), NEW P, p \in P, p \in Pcs,
         P \cap (InTransaction \cup {"undo"}) = {}, At(t) \notin InTransaction, writer' = writer,
         p \in Critical <=> At(t) \in Critical, At(t) \in Critical,
         p # "write" /\ (p \in Writing => At(t) \in Writing)
              /\ (p \in Looking => At(t) \in Looking) /\ (p \in Completing => At(t) \in Completing)
              /\ (p \in Restarting => At(t) \in Restarting),
         p = "mark" => thread[t].err \in {"failed_retryable", "failed_terminal"},
         p \in {"check", "mark", "claim"} => thread[t].was \in Receivable
  PROVE  /\ ThreadsGood' /\ Stays(t, P) /\ At(t)' = p
         /\ thread'[t].f = thread[t].f /\ thread'[t].off = thread[t].off
         /\ thread'[t].was = thread[t].was
<1> DEFINE n == [thread[t] EXCEPT !.pc = p]
<1>1. Moves(t, n)
  BY GotoMoves
<1>2. Shape(thread[t]) /\ thread[t].pc = At(t)
  BY ItsShape DEF At
<1>3. p \notin OnFile \cup {"wait"} /\ At(t) # "wait"
  BY DEF OnFile, Critical, Completing, Looking, Restarting, Writing
<1>4. /\ Shape(n) /\ n.pc = p /\ n.u = Up(t) /\ n.f = thread[t].f /\ n.fd = thread[t].fd
      /\ n.holds = thread[t].holds /\ n.task = thread[t].task /\ n.off = thread[t].off
      /\ n.was = thread[t].was /\ n.todo = thread[t].todo
  BY <1>2, <1>3, GotoShape DEF Up
<1> HIDE DEF n
<1>5. ThreadsGood' /\ Stays(t, P)
  BY <1>1, <1>4, StaysGood
<1>6. thread'[t] = n
  BY <1>1 DEF Moves, ThreadsGood
<1> QED BY <1>4, <1>5, <1>6 DEF At

(* So does one that fails.                                                 *)
LEMMA FailStays ==
  ASSUME ThreadsGood, NEW t \in Threads, At(t) \in Critical, At(t) # "count",
         NEW e \in {"other", "abort", "restart"}, Fail(t, e), writer' = writer
  PROVE  /\ ThreadsGood' /\ Stays(t, {"release", "drop"}) /\ thread'[t].f = thread[t].f
         /\ At(t)' = "drop" => e = "restart" /\ thread[t].task = "recover"
<1> DEFINE n == Failing(t, e)
<1>1. Moves(t, n)
  BY DEF Fail, Set, Moves
<1>2. At(t) \notin InTransaction
  BY DEF InTransaction, Critical, Completing, Looking, Restarting, Writing
<1>3. /\ Shape(n) /\ n.pc \in {"release", "drop"} /\ n.u = Up(t) /\ n.fd = thread[t].fd
      /\ n.holds = thread[t].holds /\ n.f = thread[t].f /\ n.task = thread[t].task
      /\ n.todo = thread[t].todo
      /\ n.pc = "drop" => e = "restart" /\ thread[t].task = "recover"
  <2>1. /\ Shape(n) /\ n.pc \in {"release", "drop"} /\ n.u = Up(t) /\ n.fd = thread[t].fd
        /\ n.holds /\ n.f = thread[t].f /\ n.task = thread[t].task
        /\ n.todo = thread[t].todo
        /\ n.pc = "drop" => e = "restart" /\ thread[t].task = "recover"
    BY FailingShape
  <2>2. thread[t].holds \in BOOLEAN /\ n.holds \in BOOLEAN
    BY <2>1, ItsShape DEF Shape, ThreadRecords
  <2>3. thread[t].holds
    BY ItsShape
  <2> QED BY <2>1, <2>2, <2>3
<1> HIDE DEF n
<1>4. ThreadsGood' /\ Stays(t, {"release", "drop"})
  BY <1>1, <1>2, <1>3, StaysGood DEF InTransaction
<1>5. thread'[t] = n
  BY <1>1 DEF Moves, ThreadsGood
<1> QED BY <1>3, <1>4, <1>5 DEF At

(* What each step of a critical section does to its thread.                *)
LEMMA AcquireDoes ==
  ASSUME ThreadsGood, NEW t \in Threads, Acquire(t)
  PROVE  /\ ThreadsGood' /\ Others(t) /\ At(t) = "wait" /\ At(t)' \in {"write", "read"}
         /\ Up(t)' = Up(t) /\ thread'[t].fd = thread[t].fd /\ thread'[t].holds
         /\ thread'[t].task = thread[t].task /\ thread'[t].todo = thread[t].todo
<1> DEFINE p == IF thread[t].task = "chunk" THEN "write" ELSE "read"
           n == [thread[t] EXCEPT !.holds = TRUE, !.pc = p]
<1>1. Moves(t, n) /\ writer' = writer /\ At(t) = "wait"
  BY DEF Acquire, Set, Moves
<1>2. p \in {"write", "read"} /\ (p = "write" <=> thread[t].task = "chunk")
  OBVIOUS
<1> HIDE DEF p
<1>3. thread[t] \in ThreadRecords /\ Shape(thread[t]) /\ thread[t].pc = "wait"
  BY <1>1, ItsShape DEF At
<1>4. n \in ThreadRecords
  BY <1>2, <1>3 DEF ThreadRecords, Pcs, Critical, Looking, Writing
<1>5. /\ n.pc = p /\ n.u = thread[t].u /\ n.f = thread[t].f /\ n.fd = thread[t].fd /\ n.holds
      /\ n.task = thread[t].task /\ n.off = thread[t].off /\ n.todo = thread[t].todo
  BY <1>3 DEF ThreadRecords
<1>6. thread[t].u \in Uploads /\ thread[t].task # "none" /\ (thread[t].task = "chunk" => thread[t].off < Total)
  BY <1>3 DEF Shape
<1>7. Shape(n)
  BY <1>2, <1>4, <1>5, <1>6 DEF Shape, Critical, Completing, Looking, Restarting, Writing, OnFile
<1> HIDE DEF n
<1>8. ThreadsGood' /\ thread'[t] = n /\ Others(t)
  BY <1>1, <1>2, <1>5, <1>7, ThreadMoves DEF InTransaction, Others
<1> QED BY <1>1, <1>2, <1>5, <1>8 DEF At, Up

(* Reading the row: what was seen decides where the thread goes.           *)
LEMMA ReadRowDoes ==
  ASSUME ThreadsGood, RowsGood, NEW t \in Threads, ReadRow(t)
  PROVE  /\ ThreadsGood' /\ Stays(t, {"release", "resume", "check"}) /\ At(t) = "read"
         /\ row' = row \/ row' = Expired(row)
         /\ At(t)' = "resume" => row'[Up(t)].state = "completing" /\ thread'[t].f = row'[Up(t)].file
         /\ At(t)' = "check" => row'[Up(t)].state \in Receivable
<1>1. At(t) = "read" /\ writer' = writer /\ (row' = row \/ row' = Expired(row))
  BY DEF ReadRow
<1>2. At(t) \in Critical /\ At(t) \notin InTransaction /\ At(t) # "count"
  BY <1>1 DEF Critical, Looking, InTransaction
<1>3. Up(t) \in Uploads /\ thread[t].task \notin {"none", "chunk"} /\ thread[t].holds
  BY <1>1, <1>2, ItsShape DEF Shape, Looking, At
<1> DEFINE r == row'[Up(t)]
<1>4. r \in Rows /\ r.file = row[Up(t)].file /\ (r.state = row[Up(t)].state \/ r.state = "expired")
  BY <1>1, <1>3, ExpiredRows
<1>5. CASE Goto(t, "release")
  <2>1. ThreadsGood' /\ Stays(t, {"release"}) /\ At(t)' = "release"
    BY <1>1, <1>2, <1>5, GotoStays DEF Pcs, Critical, Completing, Looking, Restarting, Writing, InTransaction
  <2> QED BY <1>1, <2>1 DEF Stays
<1>6. CASE Fail(t, "other")
  <2>1. ThreadsGood' /\ Stays(t, {"release", "drop"}) /\ At(t)' # "drop"
    BY <1>1, <1>2, <1>6, FailStays
  <2> QED BY <1>1, <2>1 DEF Stays
<1>7. CASE r.state = "completing" /\ Set(t, [thread[t] EXCEPT !.pc = "resume", !.was = r.state, !.f = r.file])
  <2> DEFINE s == r.state
             f == r.file
             n == [thread[t] EXCEPT !.pc = "resume", !.was = s, !.f = f]
  <2>1. Moves(t, n) /\ s = "completing"
    BY <1>7 DEF Set, Moves
  <2>2. f \in Files
    BY <1>3, <1>4, <1>7 DEF RowsGood, Rows, Terminal, Receivable
  <2> HIDE DEF s, f
  <2>3. thread[t] \in ThreadRecords
    BY ItsShape
  <2>4. n \in ThreadRecords
    <3>1. "resume" \in Pcs /\ s \in States
      BY <2>1 DEF Pcs, Critical, Completing, States
    <3> QED BY <2>2, <2>3, <3>1 DEF ThreadRecords
  <2>5. /\ n.pc = "resume" /\ n.u = thread[t].u /\ n.f = f /\ n.fd = thread[t].fd
        /\ n.holds = thread[t].holds /\ n.task = thread[t].task /\ n.todo = thread[t].todo
    BY <2>3 DEF ThreadRecords
  <2>6. Shape(n)
    BY <1>3, <2>2, <2>4, <2>5 DEF Shape, Critical, Completing, Looking, Restarting, Writing, OnFile, Up
  <2> HIDE DEF n
  <2>7. ThreadsGood' /\ Stays(t, {"resume"})
    BY <1>1, <1>2, <2>1, <2>5, <2>6, StaysGood DEF InTransaction, Up
  <2>8. thread'[t].f = f
    BY <2>1, <2>5 DEF Moves, ThreadsGood
  <2> QED BY <1>1, <1>7, <2>7, <2>8 DEF Stays, f
<1>8. CASE r.state \in Receivable /\ Set(t, [thread[t] EXCEPT !.pc = "check", !.was = r.state, !.off = r.verified])
  <2> DEFINE s == r.state
             v == r.verified
             n == [thread[t] EXCEPT !.pc = "check", !.was = s, !.off = v]
  <2>1. Moves(t, n) /\ s \in Receivable /\ v \in 0..Total
    BY <1>4, <1>8 DEF Set, Moves, Rows
  <2> HIDE DEF s, v
  <2>3. thread[t] \in ThreadRecords
    BY ItsShape
  <2>4. n \in ThreadRecords
    <3>1. "check" \in Pcs /\ s \in States
      BY <2>1 DEF Pcs, Critical, Looking, States
    <3> QED BY <2>1, <2>3, <3>1 DEF ThreadRecords
  <2>5. /\ n.pc = "check" /\ n.u = thread[t].u /\ n.f = thread[t].f /\ n.fd = thread[t].fd
        /\ n.holds = thread[t].holds /\ n.task = thread[t].task /\ n.todo = thread[t].todo
        /\ n.was = s
    BY <2>3 DEF ThreadRecords
  <2>6. Shape(n)
    BY <1>3, <2>1, <2>4, <2>5 DEF Shape, Critical, Completing, Looking, Restarting, Writing, OnFile, Up
  <2> HIDE DEF n
  <2>7. ThreadsGood' /\ Stays(t, {"check"})
    BY <1>1, <1>2, <2>1, <2>5, <2>6, StaysGood DEF InTransaction, Up
  <2> QED BY <1>1, <1>8, <2>7 DEF Stays
<1> QED BY <1>5, <1>6, <1>7, <1>8 DEF ReadRow

(* A partial that passes the check was whole.                              *)
LEMMA CheckDoes ==
  ASSUME ThreadsGood, NEW t \in Threads, Check(t)
  PROVE  /\ ThreadsGood' /\ Stays(t, {"mark", "claim"}) /\ At(t) = "check"
         /\ At(t)' = "claim" => partial[Up(t)] = Whole
<1> DEFINE e == IF partial[Up(t)] = Gone \/ Size(partial[Up(t)]) # Total \/ thread[t].off # Total
                THEN "failed_retryable" ELSE "failed_terminal"
<1>1. At(t) = "check" /\ writer' = writer
  BY DEF Check
<1>2. At(t) \notin InTransaction /\ e \in {"failed_retryable", "failed_terminal"}
  BY <1>1 DEF InTransaction
<1>3. \/ Moves(t, [thread[t] EXCEPT !.pc = "mark", !.err = e])
      \/ Moves(t, [thread[t] EXCEPT !.pc = "claim"]) /\ partial[Up(t)] = Whole
  BY DEF Check, Set, Moves
<1> HIDE DEF e
<1>4. Shape(thread[t]) /\ thread[t] \in ThreadRecords /\ thread[t].pc = "check"
  BY <1>1, ItsShape DEF At
<1>5. CASE Moves(t, [thread[t] EXCEPT !.pc = "mark", !.err = e])
  <2> DEFINE n == [thread[t] EXCEPT !.pc = "mark", !.err = e]
  <2>1. n \in ThreadRecords
    BY <1>2, <1>4 DEF ThreadRecords, Pcs, Critical, Looking
  <2>2. /\ n.pc = "mark" /\ n.u = thread[t].u /\ n.f = thread[t].f /\ n.fd = thread[t].fd
        /\ n.holds = thread[t].holds /\ n.task = thread[t].task /\ n.todo = thread[t].todo
        /\ n.was = thread[t].was /\ n.err = e
    BY <1>4 DEF ThreadRecords
  <2>3. Shape(n)
    BY <1>2, <1>4, <2>1, <2>2 DEF Shape, Critical, Completing, Looking, Restarting, Writing, OnFile
  <2> HIDE DEF n
  <2>4. ThreadsGood' /\ Stays(t, {"mark"})
    BY <1>1, <1>2, <1>5, <2>2, <2>3, StaysGood DEF InTransaction, Up, n
  <2> QED BY <1>1, <2>4 DEF Stays
<1>6. CASE Moves(t, [thread[t] EXCEPT !.pc = "claim"]) /\ partial[Up(t)] = Whole
  <2> DEFINE n == [thread[t] EXCEPT !.pc = "claim"]
  <2>1. n \in ThreadRecords
    BY <1>4 DEF ThreadRecords, Pcs, Critical, Looking
  <2>2. /\ n.pc = "claim" /\ n.u = thread[t].u /\ n.f = thread[t].f /\ n.fd = thread[t].fd
        /\ n.holds = thread[t].holds /\ n.task = thread[t].task /\ n.todo = thread[t].todo
        /\ n.was = thread[t].was
    BY <1>4 DEF ThreadRecords
  <2>3. Shape(n)
    BY <1>4, <2>1, <2>2 DEF Shape, Critical, Completing, Looking, Restarting, Writing, OnFile
  <2> HIDE DEF n
  <2>4. ThreadsGood' /\ Stays(t, {"claim"})
    BY <1>1, <1>2, <1>6, <2>2, <2>3, StaysGood DEF InTransaction, Up, n
  <2> QED BY <1>1, <1>6, <2>4 DEF Stays
<1> QED BY <1>3, <1>5, <1>6

(* What Mark makes of its thread.                                          *)
LEMMA MarkDoes ==
  ASSUME ThreadsGood, NEW t \in Threads, Mark(t)
  PROVE  ThreadsGood' /\ Stays(t, {"release", "drop"}) /\ At(t) = "mark"
BY FailStays DEF Mark, Critical, Looking

(* A claim takes a fresh file, or gives up.                                *)
LEMMA ClaimDoes ==
  ASSUME ThreadsGood, NEW t \in Threads, Claim(t)
  PROVE  /\ ThreadsGood' /\ At(t) = "claim"
         /\ \/ Stays(t, {"release"}) /\ UNCHANGED row
            \/ /\ Stays(t, {"move"}) /\ row[Up(t)].state = thread[t].was /\ thread[t].was \in Receivable
               /\ \E f \in FreshFiles :
                    /\ thread'[t].f = f
                    /\ row' = [row EXCEPT ![Up(t)].state = "completing", ![Up(t)].file = f,
                                          ![Up(t)].aged = FALSE]
<1>1. At(t) = "claim" /\ writer' = writer
  BY DEF Claim
<1>2. At(t) \notin InTransaction /\ At(t) \in Critical /\ At(t) # "count"
  BY <1>1 DEF InTransaction, Critical, Looking
<1>3. Shape(thread[t]) /\ thread[t] \in ThreadRecords /\ thread[t].pc = "claim"
  BY <1>1, ItsShape DEF At
<1>4. CASE Fail(t, "other") /\ UNCHANGED row
  <2>1. ThreadsGood' /\ Stays(t, {"release", "drop"}) /\ At(t)' # "drop"
    BY <1>1, <1>2, <1>4, FailStays
  <2> QED BY <1>1, <1>4, <2>1 DEF Stays
<1>5. ASSUME row[Up(t)].state = thread[t].was, NEW f \in FreshFiles,
             row' = [row EXCEPT ![Up(t)].state = "completing", ![Up(t)].file = f, ![Up(t)].aged = FALSE],
             Set(t, [thread[t] EXCEPT !.pc = "move", !.f = f])
      PROVE  ThreadsGood' /\ Stays(t, {"move"}) /\ thread'[t].f = f /\ thread[t].was \in Receivable
  <2> DEFINE n == [thread[t] EXCEPT !.pc = "move", !.f = f]
  <2>1. Moves(t, n) /\ f \in Files
    BY <1>5 DEF Set, Moves, FreshFiles
  <2>2. n \in ThreadRecords
    BY <1>3, <2>1 DEF ThreadRecords, Pcs, Critical, Completing
  <2>3. /\ n.pc = "move" /\ n.u = thread[t].u /\ n.f = f /\ n.fd = thread[t].fd
        /\ n.holds = thread[t].holds /\ n.task = thread[t].task /\ n.todo = thread[t].todo
    BY <1>3 DEF ThreadRecords
  <2>4. Shape(n) /\ thread[t].was \in Receivable
    BY <1>3, <2>1, <2>2, <2>3 DEF Shape, Critical, Completing, Looking, Restarting, Writing, OnFile
  <2> HIDE DEF n
  <2>5. ThreadsGood' /\ Stays(t, {"move"})
    BY <1>1, <1>2, <2>1, <2>3, <2>4, StaysGood DEF InTransaction, Up
  <2>6. thread'[t].f = f
    BY <2>1, <2>3 DEF Moves, ThreadsGood
  <2> QED BY <2>4, <2>5, <2>6
<1> QED BY <1>1, <1>4, <1>5 DEF Claim

(* A resumption goes where the bytes are.                                  *)
LEMMA ResumeDoes ==
  ASSUME ThreadsGood, NEW t \in Threads, Resume(t)
  PROVE  /\ ThreadsGood' /\ Stays(t, {"commit", "move", "release", "drop"}) /\ At(t) = "resume"
         /\ thread'[t].f = thread[t].f
         /\ At(t)' = "commit" => object[thread[t].f] # Gone
         /\ At(t)' = "move" => object[thread[t].f] = Gone
         /\ At(t)' = "drop" => object[thread[t].f] = Gone /\ partial[Up(t)] # Whole
<1>1. At(t) = "resume" /\ writer' = writer
  BY DEF Resume
<1>2. At(t) \notin InTransaction /\ At(t) \in Critical /\ At(t) # "count" /\ At(t) \in Completing
  BY <1>1 DEF InTransaction, Critical, Completing
<1>3. CASE object[thread[t].f] # Gone
  <2>1. ThreadsGood' /\ Stays(t, {"commit"}) /\ At(t)' = "commit" /\ thread'[t].f = thread[t].f
    <3>1. Goto(t, "commit")
      BY <1>3 DEF Resume
    <3> QED BY <1>1, <1>2, <3>1, GotoStays
             DEF Pcs, Critical, Completing, Looking, Restarting, Writing, InTransaction
  <2> QED BY <1>1, <1>3, <2>1 DEF Stays
<1>4. CASE object[thread[t].f] = Gone /\ partial[Up(t)] = Whole
  <2>1. ThreadsGood' /\ Stays(t, {"move"}) /\ At(t)' = "move" /\ thread'[t].f = thread[t].f
    <3>1. Goto(t, "move")
      BY <1>4 DEF Resume
    <3> QED BY <1>1, <1>2, <3>1, GotoStays
             DEF Pcs, Critical, Completing, Looking, Restarting, Writing, InTransaction
  <2> QED BY <1>1, <1>4, <2>1 DEF Stays
<1>5. CASE object[thread[t].f] = Gone /\ partial[Up(t)] # Whole
  <2>1. Fail(t, "restart")
    BY <1>5 DEF Resume
  <2>2. ThreadsGood' /\ Stays(t, {"release", "drop"}) /\ thread'[t].f = thread[t].f
    BY <1>1, <1>2, <2>1, FailStays
  <2> QED BY <1>1, <1>5, <2>2 DEF Stays
<1> QED BY <1>3, <1>4, <1>5

(* The partial becomes the object, or it was not whole.                    *)
LEMMA MoveDoes ==
  ASSUME ThreadsGood, NEW t \in Threads, Move(t)
  PROVE  /\ ThreadsGood' /\ At(t) = "move" /\ thread'[t].f = thread[t].f
         /\ \/ /\ Stays(t, {"release", "drop"}) /\ partial[Up(t)] # Whole
               /\ UNCHANGED <<partial, object, unsynced>>
            \/ /\ Stays(t, {"commit"}) /\ partial[Up(t)] = Whole
               /\ object' = [object EXCEPT ![thread[t].f] = Whole]
               /\ partial' = [partial EXCEPT ![Up(t)] = Gone]
               /\ unsynced' = unsynced \cup {thread[t].f}
<1>1. At(t) = "move" /\ writer' = writer
  BY DEF Move
<1>2. At(t) \notin InTransaction /\ At(t) \in Critical /\ At(t) # "count" /\ At(t) \in Completing
  BY <1>1 DEF InTransaction, Critical, Completing
<1>3. CASE partial[Up(t)] # Whole
  <2>1. PICK e \in {"abort", "restart"} : Fail(t, e)
    BY <1>3 DEF Move
  <2>2. ThreadsGood' /\ Stays(t, {"release", "drop"}) /\ thread'[t].f = thread[t].f
    BY <1>1, <1>2, <2>1, FailStays
  <2> QED BY <1>1, <1>3, <2>2 DEF Move
<1>4. CASE partial[Up(t)] = Whole
  <2>1. ThreadsGood' /\ Stays(t, {"commit"}) /\ At(t)' = "commit" /\ thread'[t].f = thread[t].f
    <3>1. Goto(t, "commit")
      BY <1>4 DEF Move
    <3> QED BY <1>1, <1>2, <3>1, GotoStays
             DEF Pcs, Critical, Completing, Looking, Restarting, Writing, InTransaction
  <2> QED BY <1>1, <1>4, <2>1 DEF Move
<1> QED BY <1>3, <1>4

(* A commit makes the file live, or finds another state.                   *)
LEMMA CommitDoes ==
  ASSUME ThreadsGood, NEW t \in Threads, Commit(t)
  PROVE  /\ ThreadsGood' /\ Stays(t, {"release"}) /\ At(t) = "commit" /\ writer = Nobody
         /\ unsynced' = unsynced \ {thread[t].f}
         /\ \/ /\ row[Up(t)].state = "completing" /\ row[Up(t)].file = thread[t].f
               /\ row' = [row EXCEPT ![Up(t)].state = "committed", ![Up(t)].verified = Total,
                                     ![Up(t)].aged = FALSE]
               /\ life' = [life EXCEPT ![thread[t].f] = "live"]
            \/ /\ ~(row[Up(t)].state = "completing" /\ row[Up(t)].file = thread[t].f)
               /\ UNCHANGED <<row, life>>
<1>1. At(t) = "commit" /\ writer' = writer /\ writer = Nobody /\ unsynced' = unsynced \ {thread[t].f}
  BY DEF Commit, Begin, Synced
<1>2. At(t) \notin InTransaction /\ At(t) \in Critical /\ At(t) # "count"
  BY <1>1 DEF InTransaction, Critical, Completing
<1>3. CASE row[Up(t)].state = "completing" /\ row[Up(t)].file = thread[t].f
  <2>1. Goto(t, "release")
    BY <1>3 DEF Commit
  <2>2. ThreadsGood' /\ Stays(t, {"release"})
    BY <1>1, <1>2, <2>1, GotoStays
       DEF Pcs, Critical, Completing, Looking, Restarting, Writing, InTransaction
  <2> QED BY <1>1, <1>3, <2>2 DEF Commit
<1>4. CASE ~(row[Up(t)].state = "completing" /\ row[Up(t)].file = thread[t].f)
  <2>1. Fail(t, "other")
    BY <1>4 DEF Commit
  <2>2. ThreadsGood' /\ Stays(t, {"release", "drop"}) /\ At(t)' # "drop"
    BY <1>1, <1>2, <2>1, FailStays
  <2>3. Stays(t, {"release"})
    BY <2>2 DEF Stays
  <2> QED BY <1>1, <1>4, <2>2, <2>3 DEF Commit
<1> QED BY <1>3, <1>4

(* What Drop makes of its thread.                                          *)
LEMMA DropDoes ==
  ASSUME ThreadsGood, NEW t \in Threads, Drop(t)
  PROVE  ThreadsGood' /\ Stays(t, {"restart"}) /\ At(t) = "drop"
<1>1. At(t) = "drop" /\ writer' = writer /\ Goto(t, "restart")
  BY DEF Drop
<1>2. At(t) \notin InTransaction /\ At(t) \in Critical /\ At(t) \in Restarting
  BY <1>1 DEF InTransaction, Critical, Restarting
<1> QED BY <1>1, <1>2, GotoStays
        DEF Pcs, Critical, Completing, Looking, Restarting, Writing, InTransaction

(* What Restart makes of its thread.                                       *)
LEMMA RestartDoes ==
  ASSUME ThreadsGood, NEW t \in Threads, Restart(t)
  PROVE  ThreadsGood' /\ Stays(t, {"release"}) /\ At(t) = "restart"
<1>1. At(t) = "restart" /\ writer' = writer /\ Goto(t, "release")
  BY DEF Restart
<1>2. At(t) \notin InTransaction /\ At(t) \in Critical
  BY <1>1 DEF InTransaction, Critical, Restarting
<1> QED BY <1>1, <1>2, GotoStays
        DEF Pcs, Critical, Completing, Looking, Restarting, Writing, InTransaction

(* The end of a critical section leaves no hold, and a recovery its list.  *)
LEMMA ReleaseDoes ==
  ASSUME ThreadsGood, NEW t \in Threads, Release(t)
  PROVE  /\ ThreadsGood' /\ Others(t) /\ At(t) = "release"
         /\ At(t)' \in {"idle", "recover", "added", "send"} /\ ~thread'[t].holds
         /\ Up(t)' \in {NoUpload, Up(t)}
         /\ At(t)' = "send" => Up(t)' = Up(t)
         /\ thread'[t].task = "none"
         /\ At(t)' = "recover" => thread[t].task = "recover" /\ thread'[t].todo \subseteq thread[t].todo
         /\ \/ UNCHANGED lockfile
            \/ Over(Up(t)) /\ lockfile[Up(t)] = thread[t].fd /\ Unlinked(t, Up(t))
<1> DEFINE n == Released(t)
<1>1. At(t) = "release" /\ writer' = writer /\ Moves(t, n)
  BY DEF Release, Set, Moves
<1>2. At(t) \notin InTransaction
  BY <1>1 DEF InTransaction
<1>3. Shape(thread[t]) /\ thread[t] \in ThreadRecords /\ thread[t].pc = "release" /\ thread[t].u \in Uploads
  BY <1>1, ItsShape DEF At, Up, Critical
<1>4. /\ Shape(n) /\ n.pc \in {"idle", "recover", "added", "send"} /\ ~n.holds
      /\ n.u \in {NoUpload, thread[t].u} /\ (n.pc = "send" => n.u = thread[t].u)
      /\ n.task = "none"
      /\ n.pc = "recover" => thread[t].task = "recover" /\ n.todo \subseteq thread[t].todo
  <2>1. CASE n = [thread[t] EXCEPT !.pc = "recover", !.u = NoUpload, !.todo = @ \ {Up(t)},
                                   !.fd = 0, !.holds = FALSE, !.task = "none", !.f = NoFile,
                                   !.off = 0, !.was = "none", !.err = "none"]
             /\ thread[t].task = "recover"
    <3> DEFINE td == thread[t].todo \ {Up(t)}
               m == [pc |-> "recover", u |-> NoUpload, f |-> NoFile, fd |-> 0, holds |-> FALSE,
                     task |-> "none", off |-> 0, was |-> "none", err |-> "none", todo |-> td]
    <3>1. n = m
      BY <1>3, <2>1 DEF ThreadRecords
    <3>2. td \subseteq thread[t].todo /\ td \in SUBSET Uploads
      BY <1>3 DEF ThreadRecords
    <3> HIDE DEF td
    <3>3. m \in ThreadRecords
      BY <3>2, VaultAssumption DEF ThreadRecords, Pcs, Tasks, VaultAssumption
    <3>4. Shape(m)
      BY <3>3 DEF Shape, Critical, Completing, Looking, Restarting, Writing, OnFile
    <3>5. thread[t].task = "recover"
      BY <2>1
    <3> HIDE DEF n
    <3>6. /\ n.pc = "recover" /\ ~n.holds /\ n.u = NoUpload /\ n.task = "none" /\ n.todo = td
          /\ Shape(n)
      BY <3>1, <3>4
    <3> QED BY <3>2, <3>5, <3>6
  <2>2. CASE n = [Idle EXCEPT !.pc = "added"]
    <3>1. n \in ThreadRecords
      BY <2>2, IdleShape DEF Shape, ThreadRecords, Pcs
    <3>2. n.pc = "added" /\ ~n.holds /\ n.u = NoUpload /\ n.task = "none"
      BY <2>2 DEF Idle
    <3> HIDE DEF n
    <3> QED BY <3>1, <3>2 DEF Shape, Critical, Completing, Looking, Restarting, Writing, OnFile
  <2>3. CASE n = [thread[t] EXCEPT !.pc = "send", !.fd = 0, !.holds = FALSE, !.task = "none"]
    <3>1. n \in ThreadRecords
      <4>1. "send" \in Pcs /\ "none" \in Tasks
        BY DEF Pcs, Tasks
      <4> HIDE DEF n
      <4> QED BY <1>3, <2>3, <4>1 DEF ThreadRecords
    <3>2. n.pc = "send" /\ ~n.holds /\ n.u = thread[t].u /\ n.task = "none"
      BY <1>3, <2>3 DEF ThreadRecords
    <3> HIDE DEF n
    <3> QED BY <1>3, <3>1, <3>2 DEF Shape, Critical, Completing, Looking, Restarting, Writing, OnFile
  <2>4. CASE n = Idle
    <3> HIDE DEF n
    <3> QED BY <2>4, IdleShape DEF Idle
  <2> QED BY <2>1, <2>2, <2>3, <2>4 DEF Released
<1>5. \/ UNCHANGED lockfile
      \/ Over(Up(t)) /\ lockfile[Up(t)] = thread[t].fd /\ Unlinked(t, Up(t))
  BY DEF Release
<1> HIDE DEF n
<1>6. ThreadsGood' /\ thread'[t] = n /\ Others(t)
  BY <1>1, <1>2, <1>4, ThreadMoves DEF InTransaction, Others
<1> QED BY <1>1, <1>3, <1>4, <1>5, <1>6 DEF At, Up

(* How a thread moves outside its critical sections.                       *)
Quiet(t, P) == /\ Others(t) /\ At(t)' \in P /\ ~thread'[t].holds
               /\ Up(t)' \in {NoUpload, Up(t)}

(* A thread without a lock that goes on without one.                       *)
LEMMA QuietGood ==
  ASSUME ThreadsGood, NEW t \in Threads, NEW n, Moves(t, n), Shape(n), NEW P, n.pc \in P,
         P \cap Critical = {}, n.u \in {NoUpload, Up(t)},
         n.pc \in {"insert", "undo"} => t = Putter,
         \/ n.pc \in InTransaction /\ writer' = t /\ writer \in {Nobody, t}
         \/ n.pc \notin InTransaction /\ At(t) \in InTransaction /\ writer' = Nobody
         \/ n.pc \notin InTransaction /\ At(t) \notin InTransaction /\ writer' = writer
  PROVE  ThreadsGood' /\ Quiet(t, P) /\ thread'[t] = n
<1>1. ThreadsGood' /\ thread'[t] = n /\ Others(t)
  BY ThreadMoves DEF Others
<1>2. ~n.holds
  BY DEF Shape
<1> QED BY <1>1, <1>2 DEF Quiet, At, Up

(* So does one that returns.                                               *)
LEMMA ReturnQuiet ==
  ASSUME ThreadsGood, NEW t \in Threads, Return(t),
         \/ At(t) \in InTransaction /\ writer' = Nobody
         \/ At(t) \notin InTransaction /\ writer' = writer
  PROVE  ThreadsGood' /\ Quiet(t, {"idle"}) /\ thread'[t] = Idle
<1>1. Moves(t, Idle)
  BY DEF Return, Set, Moves
<1>2. {"idle"} \cap Critical = {} /\ "idle" \notin InTransaction
  BY DEF Critical, Completing, Looking, Restarting, Writing, InTransaction
<1> QED BY <1>1, <1>2, IdleShape, QuietGood

(* A thread goes on, and its record fits as it is.                         *)
LEMMA GotoQuiet ==
  ASSUME ThreadsGood, NEW t \in Threads, NEW p, Goto(t, p),
         p \in {"stale", "sweep", "create", "undo", "shred", "unlink"},
         At(t) \notin Critical \cup {"wait"}, p \in OnFile => At(t) \in OnFile,
         p = "undo" => t = Putter,
         \/ At(t) \in InTransaction /\ writer' = Nobody
         \/ At(t) \notin InTransaction /\ writer' = writer
  PROVE  /\ ThreadsGood' /\ Quiet(t, {p}) /\ Up(t)' = Up(t)
         /\ thread'[t].f = thread[t].f /\ thread'[t].todo = thread[t].todo
<1> DEFINE n == [thread[t] EXCEPT !.pc = p]
<1>1. Moves(t, n)
  BY GotoMoves
<1>2. Shape(thread[t]) /\ thread[t].pc = At(t)
  BY ItsShape DEF At
<1>3. p \notin Critical \cup {"wait", "get", "send"} /\ p \in Pcs /\ p \notin InTransaction /\ p # "insert"
  BY DEF Pcs, OnFile, Critical, Completing, Looking, Restarting, Writing, InTransaction
<1>4. p # "mark" /\ p \notin {"check", "mark", "claim"}
  OBVIOUS
<1>5. /\ Shape(n) /\ n.pc = p /\ n.u = Up(t) /\ n.f = thread[t].f /\ n.todo = thread[t].todo
  BY <1>2, <1>3, <1>4, GotoShape DEF Up
<1> HIDE DEF n
<1>6. ThreadsGood' /\ Quiet(t, {p}) /\ thread'[t] = n
  BY <1>1, <1>3, <1>5, QuietGood
<1> QED BY <1>5, <1>6 DEF Up

(* A thread that opens a lock file waits on the present inode.             *)
LEMMA OpenLockDoes ==
  ASSUME ThreadsGood, LocksGood, NEW t \in Threads, NEW u \in Uploads, NEW task \in Tasks \ {"none"},
         OpenLock(t, u, task), At(t) \notin InTransaction, writer' = writer,
         task = "chunk" => thread[t].off < Total, At(t) \notin Critical \cup {"wait"}
  PROVE  /\ ThreadsGood' /\ Others(t) /\ At(t)' = "wait" /\ Up(t)' = u /\ ~thread'[t].holds
         /\ thread'[t].fd = lockfile[u] /\ thread'[t].task = task
         /\ thread'[t].todo = thread[t].todo
<1> DEFINE l == lockfile[u]
           n == [thread[t] EXCEPT !.pc = "wait", !.u = u, !.fd = l, !.task = task, !.err = "none"]
<1>1. Moves(t, n) /\ l \in Nat
  BY DEF OpenLock, Set, Moves, LocksGood
<1> HIDE DEF l
<1>2. Shape(thread[t]) /\ thread[t] \in ThreadRecords /\ thread[t].pc = At(t)
  BY ItsShape DEF At
<1>3. n \in ThreadRecords
  <2>1. "wait" \in Pcs
    BY DEF Pcs
  <2> QED BY <1>1, <1>2, <2>1 DEF ThreadRecords
<1>4. /\ n.pc = "wait" /\ n.u = u /\ n.f = thread[t].f /\ n.fd = l /\ n.task = task
      /\ n.holds = thread[t].holds /\ n.off = thread[t].off /\ n.todo = thread[t].todo
  BY <1>2 DEF ThreadRecords
<1>5. ~n.holds
  BY <1>2, <1>4 DEF Shape
<1>6. Shape(n)
  BY <1>3, <1>4, <1>5 DEF Shape, Critical, Completing, Looking, Restarting, Writing, OnFile
<1> HIDE DEF n
<1>7. ThreadsGood' /\ thread'[t] = n /\ Others(t)
  BY <1>1, <1>4, <1>6, ThreadMoves DEF InTransaction, Others
<1> QED BY <1>4, <1>5, <1>7 DEF At, Up, l

(* A recovery takes up an upload of its list, or goes on to sweep.         *)
LEMMA RecoverDoes ==
  ASSUME ThreadsGood, LocksGood, NEW t \in Threads, Recover(t)
  PROVE  /\ ThreadsGood' /\ Others(t) /\ At(t) = "recover"
         /\ \/ \E u \in thread[t].todo :
                 /\ At(t)' = "wait" /\ Up(t)' = u /\ ~thread'[t].holds /\ u \in Uploads
                 /\ thread'[t].fd = lockfile[u] /\ thread'[t].task = "recover"
                 /\ thread'[t].todo = thread[t].todo
            \/ Quiet(t, {"sweep"})
<1>1. At(t) = "recover" /\ writer' = writer
  BY DEF Recover
<1>2. At(t) \notin InTransaction /\ At(t) \notin Critical \cup {"wait"}
  BY <1>1 DEF InTransaction, Critical, Completing, Looking, Restarting, Writing
<1>3. thread[t].todo \subseteq Uploads
  BY ItsShape DEF ThreadRecords
<1>4. ASSUME NEW u \in thread[t].todo, OpenLock(t, u, "recover")
      PROVE  /\ ThreadsGood' /\ Others(t) /\ At(t)' = "wait" /\ Up(t)' = u /\ ~thread'[t].holds
             /\ u \in Uploads /\ thread'[t].fd = lockfile[u] /\ thread'[t].task = "recover"
             /\ thread'[t].todo = thread[t].todo
  <2>1. u \in Uploads /\ "recover" \in Tasks \ {"none"}
    BY <1>3 DEF Tasks
  <2> QED BY <1>1, <1>2, <1>4, <2>1, OpenLockDoes
<1>5. CASE Goto(t, "sweep")
  <2>1. ThreadsGood' /\ Quiet(t, {"sweep"})
    BY <1>1, <1>2, <1>5, GotoQuiet DEF OnFile
  <2> QED BY <1>1, <2>1 DEF Quiet
<1> QED BY <1>1, <1>4, <1>5 DEF Recover

(* An adder opens the lock of its upload, or gives up.                     *)
LEMMA SendDoes ==
  ASSUME ThreadsGood, LocksGood, NEW c \in Threads, Send(c)
  PROVE  /\ ThreadsGood' /\ Others(c) /\ At(c) = "send" /\ ~thread'[c].holds
         /\ \/ Quiet(c, {"idle"}) /\ thread'[c] = Idle
            \/ /\ At(c)' = "wait" /\ Up(c)' = Up(c) /\ thread'[c].fd = lockfile[Up(c)]
               /\ thread'[c].task \in {"chunk", "complete"}
<1>1. At(c) = "send" /\ writer' = writer
  BY DEF Send
<1>2. At(c) \notin InTransaction /\ At(c) \notin Critical \cup {"wait"} /\ Up(c) \in Uploads
  BY <1>1, ItsShape DEF InTransaction, Critical, Completing, Looking, Restarting, Writing
<1>3. CASE Return(c)
  <2>1. ThreadsGood' /\ Quiet(c, {"idle"}) /\ thread'[c] = Idle
    BY <1>1, <1>2, <1>3, ReturnQuiet
  <2> QED BY <1>1, <2>1 DEF Quiet
<1>4. CASE OpenLock(c, Up(c), IF thread[c].off < Total THEN "chunk" ELSE "complete")
  <2> DEFINE task == IF thread[c].off < Total THEN "chunk" ELSE "complete"
  <2>1. /\ task \in {"chunk", "complete"} /\ task \in Tasks \ {"none"}
        /\ task = "chunk" => thread[c].off < Total
    BY DEF Tasks
  <2>2. OpenLock(c, Up(c), task)
    BY <1>4
  <2> HIDE DEF task
  <2> QED BY <1>1, <1>2, <2>1, <2>2, OpenLockDoes
<1> QED BY <1>3, <1>4 DEF Send

(* A list is read and worked off.                                          *)
Listing(r, p, S) == [r EXCEPT !.pc = p, !.todo = S]
(* A thread that keeps a list has the shape of one.                        *)
LEMMA ListShape ==
  ASSUME NEW r, Shape(r), r.pc \notin Critical \cup {"wait"}, NEW p \in {"recover", "unlink"},
         NEW S \in SUBSET Uploads, NEW n, n = Listing(r, p, S)
  PROVE  Shape(n) /\ n.pc = p /\ n.todo = S /\ n.u = r.u
<1>1. r \in ThreadRecords /\ p \in Pcs
  BY DEF Shape, Pcs
<1>2. n \in ThreadRecords
  BY <1>1 DEF ThreadRecords, Listing
<1>3. n.pc = p /\ n.todo = S /\ n.u = r.u /\ n.task = r.task /\ n.holds = r.holds
  BY <1>1 DEF ThreadRecords, Listing
<1>4. ~n.holds /\ n.task = "none"
  BY <1>3 DEF Shape
<1> QED BY <1>2, <1>3, <1>4 DEF Shape, Critical, Completing, Looking, Restarting, Writing, OnFile

(* What a thread does that reads a list.                                   *)
LEMMA ListsDo ==
  ASSUME ThreadsGood, NEW t \in Threads, NEW p \in {"recover", "unlink"}, NEW S \in SUBSET Uploads,
         Set(t, [thread[t] EXCEPT !.pc = p, !.todo = S]), writer' = writer,
         At(t) \in {"stale", "sweep", "unlink"}
  PROVE  ThreadsGood' /\ Quiet(t, {p}) /\ thread'[t].todo = S
<1> DEFINE n == Listing(thread[t], p, S)
<1>1. Moves(t, n) /\ At(t) \notin InTransaction /\ At(t) \notin Critical \cup {"wait"}
  BY DEF Listing, Set, Moves, InTransaction, Critical, Completing, Looking, Restarting, Writing
<1>2. Shape(thread[t]) /\ thread[t].pc = At(t) /\ thread[t].u = Up(t)
  BY ItsShape DEF At, Up
<1>3. Shape(n) /\ n.pc = p /\ n.todo = S /\ n.u = Up(t)
  BY <1>1, <1>2, ListShape
<1> HIDE DEF n
<1>4. {p} \cap Critical = {} /\ p \notin InTransaction /\ p \notin {"insert", "undo"}
  BY DEF Critical, Completing, Looking, Restarting, Writing, InTransaction
<1>5. n.pc \in {p}
  BY <1>3
<1>6. ThreadsGood' /\ Quiet(t, {p}) /\ thread'[t] = n
  BY <1>1, <1>3, <1>4, <1>5, QuietGood
<1> QED BY <1>3, <1>6

(* The list of a recovery holds completions only.                          *)
LEMMA ReadStaleDoes ==
  ASSUME ThreadsGood, NEW t \in Threads, ReadStale(t)
  PROVE  /\ ThreadsGood' /\ Quiet(t, {"recover"}) /\ At(t) = "stale"
         /\ \A u \in thread'[t].todo : row[u].state = "completing"
<1> DEFINE S == {u \in Uploads : row[u].state = "completing" /\ row[u].aged}
<1>1. /\ Set(t, [thread[t] EXCEPT !.pc = "recover", !.todo = S])
      /\ At(t) = "stale" /\ writer' = writer /\ S \in SUBSET Uploads
  BY DEF ReadStale
<1>2. \A u \in S : row[u].state = "completing"
  OBVIOUS
<1> HIDE DEF S
<1> QED BY <1>1, <1>2, ListsDo

(* The list of a sweep holds uploads that can no longer change.            *)
LEMMA SweepDoes ==
  ASSUME ThreadsGood, NEW t \in Threads, Sweep(t)
  PROVE  /\ ThreadsGood' /\ Quiet(t, {"unlink"}) /\ At(t) = "sweep" /\ row' = Expired(row)
         /\ \A u \in thread'[t].todo :
               u \in Uploads /\ ~Active(row', u) /\ (partial[u] # Gone \/ Opened(u, t))
<1> DEFINE S == {u \in Uploads : ~Active(row', u) /\ (partial[u] # Gone \/ Opened(u, t))}
<1>1. /\ Set(t, [thread[t] EXCEPT !.pc = "unlink", !.todo = S])
      /\ At(t) = "sweep" /\ writer' = writer /\ S \in SUBSET Uploads /\ row' = Expired(row)
  BY DEF Sweep
<1>2. \A u \in S : u \in Uploads /\ ~Active(row', u) /\ (partial[u] # Gone \/ Opened(u, t))
  OBVIOUS
<1> HIDE DEF S
<1> QED BY <1>1, <1>2, ListsDo

(* An unlinking thread removes the partial of one upload of its list.      *)
LEMMA UnlinkDoes ==
  ASSUME ThreadsGood, NEW t \in Threads, Unlink(t)
  PROVE  /\ ThreadsGood' /\ Quiet(t, {"unlink", "create", "idle"}) /\ At(t) = "unlink"
         /\ At(t)' = "unlink" => thread'[t].todo \subseteq thread[t].todo
         /\ At(t)' = "create" => t \in Adders
         /\ \/ UNCHANGED <<partial, lockfile>>
            \/ \E u \in thread[t].todo :
                 /\ u \in Uploads /\ partial' = [partial EXCEPT ![u] = Gone]
                 /\ UNCHANGED lockfile \/ Unlinked(t, u)
<1>1. At(t) = "unlink" /\ writer' = writer
  BY DEF Unlink
<1>2. At(t) \notin InTransaction /\ At(t) \notin Critical \cup {"wait"}
  BY <1>1 DEF InTransaction, Critical, Completing, Looking, Restarting, Writing
<1>3. thread[t].todo \in SUBSET Uploads
  BY ItsShape DEF ThreadRecords
<1>4. ASSUME NEW u \in thread[t].todo, Set(t, [thread[t] EXCEPT !.todo = @ \ {u}])
      PROVE  ThreadsGood' /\ Quiet(t, {"unlink"}) /\ thread'[t].todo = thread[t].todo \ {u}
  <2> DEFINE S == thread[t].todo \ {u}
  <2>1. S \in SUBSET Uploads
    BY <1>3
  <2>2. [thread[t] EXCEPT !.todo = @ \ {u}] = [thread[t] EXCEPT !.pc = "unlink", !.todo = S]
    BY <1>1, ItsShape DEF ThreadRecords, At
  <2>3. Set(t, [thread[t] EXCEPT !.pc = "unlink", !.todo = S])
    BY <1>4, <2>2
  <2> HIDE DEF S
  <2>4. ThreadsGood' /\ Quiet(t, {"unlink"}) /\ thread'[t].todo = S
    BY <1>1, <2>1, <2>3, ListsDo
  <2> QED BY <2>4 DEF S
<1>5. CASE Goto(t, "create") /\ t \in Adders /\ UNCHANGED <<partial, lockfile>>
  <2>1. ThreadsGood' /\ Quiet(t, {"create"})
    BY <1>1, <1>2, <1>5, GotoQuiet DEF OnFile
  <2> QED BY <1>1, <1>5, <2>1 DEF Quiet
<1>6. CASE Return(t) /\ UNCHANGED <<partial, lockfile>>
  <2>1. ThreadsGood' /\ Quiet(t, {"idle"})
    BY <1>1, <1>2, <1>6, ReturnQuiet
  <2> QED BY <1>1, <1>6, <2>1 DEF Quiet
<1>7. CASE \E u \in thread[t].todo :
             /\ partial' = [partial EXCEPT ![u] = Gone]
             /\ UNCHANGED lockfile \/ Unlinked(t, u)
             /\ Set(t, [thread[t] EXCEPT !.todo = @ \ {u}])
  <2>1. PICK u \in thread[t].todo :
             /\ partial' = [partial EXCEPT ![u] = Gone]
             /\ UNCHANGED lockfile \/ Unlinked(t, u)
             /\ Set(t, [thread[t] EXCEPT !.todo = @ \ {u}])
    BY <1>7
  <2>2. ThreadsGood' /\ Quiet(t, {"unlink"}) /\ thread'[t].todo = thread[t].todo \ {u} /\ u \in Uploads
    BY <1>3, <1>4, <2>1
  <2> QED BY <1>1, <2>1, <2>2 DEF Quiet
<1> QED BY <1>5, <1>6, <1>7 DEF Unlink

(* Adding.                                                                 *)
LEMMA BeginsDo ==
  ASSUME ThreadsGood, NEW t \in Threads, Add(t) \/ CleanUp(t)
  PROVE  ThreadsGood' /\ Quiet(t, {"stale"}) /\ UNCHANGED <<row, life, disk, damaged>>
<1>1. At(t) = "idle" /\ writer' = writer /\ Goto(t, "stale") /\ UNCHANGED <<row, life, disk, damaged>>
  BY DEF Add, CleanUp, Unspent
<1> QED BY <1>1, GotoQuiet
        DEF InTransaction, Critical, Completing, Looking, Restarting, Writing, OnFile

Getting(r, u) == [r EXCEPT !.pc = "get", !.u = u]
Sending(r, v) == [r EXCEPT !.pc = "send", !.off = v]
(* A thread on its way to an upload has the shape of one.                  *)
LEMMA GetShape ==
  ASSUME NEW r, Shape(r), r.pc \notin Critical \cup {"wait"}, NEW u \in Uploads, NEW v \in 0..Total
  PROVE  /\ LET n == Getting(r, u) IN Shape(n) /\ n.pc = "get" /\ n.u = u
         /\ r.u \in Uploads => LET n == Sending(r, v) IN Shape(n) /\ n.pc = "send" /\ n.u = r.u
<1>1. r \in ThreadRecords /\ "get" \in Pcs /\ "send" \in Pcs /\ ~r.holds /\ r.task = "none"
  BY DEF Shape, Pcs
<1>2. ASSUME NEW n, n = Getting(r, u)
      PROVE  Shape(n) /\ n.pc = "get" /\ n.u = u
  <2>1. n \in ThreadRecords
    BY <1>1, <1>2 DEF ThreadRecords, Getting
  <2>2. n.pc = "get" /\ n.u = u /\ ~n.holds /\ n.task = "none"
    BY <1>1, <1>2 DEF ThreadRecords, Getting
  <2> QED BY <2>1, <2>2 DEF Shape, Critical, Completing, Looking, Restarting, Writing, OnFile
<1>3. ASSUME r.u \in Uploads, NEW n, n = Sending(r, v)
      PROVE  Shape(n) /\ n.pc = "send" /\ n.u = r.u
  <2>1. n \in ThreadRecords
    BY <1>1, <1>3 DEF ThreadRecords, Sending
  <2>2. n.pc = "send" /\ n.u = r.u /\ ~n.holds /\ n.task = "none"
    BY <1>1, <1>3 DEF ThreadRecords, Sending
  <2> QED BY <1>3, <2>1, <2>2 DEF Shape, Critical, Completing, Looking, Restarting, Writing, OnFile
<1> QED BY <1>2, <1>3

(* An upload is found by its key, or opened with it.                       *)
LEMMA CreateDoes ==
  ASSUME ThreadsGood, NEW c \in Threads, Create(c)
  PROVE  /\ ThreadsGood' /\ Others(c) /\ At(c) = "create" /\ At(c)' = "get" /\ ~thread'[c].holds
         /\ LET R == ReleasedKey(Expired(row), c) IN
            \/ Up(c)' \in Standing(R, c) /\ row' = R
            \/ /\ Standing(R, c) = {} /\ Up(c)' \in Uploads /\ R[Up(c)'].state = "unused"
               /\ row' = [R EXCEPT ![Up(c)'] = [Unused EXCEPT !.state = "created", !.key = Wants[c]]]
<1> DEFINE R == ReleasedKey(Expired(row), c)
<1>1. At(c) = "create" /\ writer' = writer
  BY DEF Create
<1>2. At(c) \notin InTransaction /\ At(c) \notin Critical \cup {"wait"}
  BY <1>1 DEF InTransaction, Critical, Completing, Looking, Restarting, Writing
<1>3. PICK u \in Uploads :
        /\ Set(c, [thread[c] EXCEPT !.pc = "get", !.u = u])
        /\ \/ u \in Standing(R, c) /\ row' = R
           \/ /\ Standing(R, c) = {} /\ R[u].state = "unused"
              /\ row' = [R EXCEPT ![u] = [Unused EXCEPT !.state = "created", !.key = Wants[c]]]
  <2>1. ASSUME NEW u \in Standing(R, c) PROVE u \in Uploads
    BY DEF Standing
  <2> QED BY <2>1 DEF Create
<1> HIDE DEF R
<1> DEFINE n == Getting(thread[c], u)
<1>4. Moves(c, n) /\ Shape(n) /\ n.pc = "get" /\ n.u = u
  <2>1. Shape(thread[c]) /\ thread[c].pc = At(c) /\ 0 \in 0..Total
    BY ItsShape, VaultAssumption DEF At, VaultAssumption
  <2>2. Shape(n) /\ n.pc = "get" /\ n.u = u
    BY <1>2, <2>1, GetShape
  <2> QED BY <1>3, <2>2 DEF Set, Moves, Getting
<1> HIDE DEF n
<1>5. ThreadsGood' /\ thread'[c] = n /\ Others(c)
  BY <1>1, <1>2, <1>4, ThreadMoves DEF InTransaction, Others
<1>6. ~n.holds
  BY <1>4 DEF Shape, Critical, Completing, Looking, Restarting, Writing
<1> QED BY <1>1, <1>3, <1>4, <1>5, <1>6 DEF At, Up, R

(* What GetSession makes of its thread.                                    *)
LEMMA GetSessionDoes ==
  ASSUME ThreadsGood, RowsGood, NEW c \in Threads, GetSession(c)
  PROVE  ThreadsGood' /\ Quiet(c, {"idle", "send"}) /\ At(c) = "get"
<1>1. At(c) = "get" /\ writer' = writer
  BY DEF GetSession
<1>2. At(c) \notin InTransaction /\ At(c) \notin Critical \cup {"wait"} /\ Up(c) \in Uploads
  BY <1>1, ItsShape DEF InTransaction, Critical, Completing, Looking, Restarting, Writing
<1>3. CASE Return(c)
  <2>1. ThreadsGood' /\ Quiet(c, {"idle"})
    BY <1>1, <1>2, <1>3, ReturnQuiet
  <2> QED BY <1>1, <2>1 DEF Quiet
<1>4. CASE Set(c, [thread[c] EXCEPT !.pc = "send", !.off = row[Up(c)].verified])
  <2> DEFINE v == row[Up(c)].verified
             n == Sending(thread[c], v)
  <2>1. v \in 0..Total
    BY <1>2 DEF RowsGood, Rows
  <2>2. Moves(c, n)
    BY <1>4 DEF Set, Moves, Sending
  <2> HIDE DEF v
  <2>3. Shape(n) /\ n.pc = "send" /\ n.u = Up(c)
    <3>1. Shape(thread[c]) /\ thread[c].pc = At(c) /\ thread[c].u = Up(c)
      BY ItsShape DEF At, Up
    <3> QED BY <1>2, <2>1, <3>1, GetShape
  <2> HIDE DEF n
  <2>4. ThreadsGood' /\ Quiet(c, {"send"})
    <3>1. {"send"} \cap Critical = {} /\ "send" \notin InTransaction /\ n.pc \in {"send"}
      BY <2>3 DEF Critical, Completing, Looking, Restarting, Writing, InTransaction
    <3> QED BY <1>1, <1>2, <2>2, <2>3, <3>1, QuietGood
  <2> QED BY <1>1, <2>4 DEF Quiet
<1> QED BY <1>3, <1>4 DEF GetSession

(* A writer keeps the transaction only if it is to count its piece.        *)
LEMMA WriteDoes ==
  ASSUME ThreadsGood, RowsGood, NEW c \in Threads, Write(c)
  PROVE  /\ ThreadsGood' /\ Stays(c, {"release", "count"}) /\ At(c) = "write" /\ writer = Nobody
         /\ At(c)' = "count" => thread'[c].off = thread[c].off /\ writer' = c
         /\ At(c)' = "release" => writer' = writer
<1>1. At(c) = "write" /\ writer = Nobody
  BY DEF Write, Begin
<1>2. At(c) \in Critical /\ At(c) \notin InTransaction /\ At(c) # "count" /\ At(c) \in Writing
  BY <1>1 DEF Critical, Writing, InTransaction
<1>3. Up(c) \in Uploads /\ Shape(thread[c]) /\ thread[c] \in ThreadRecords /\ thread[c].pc = "write"
  BY <1>1, <1>2, ItsShape DEF At
<1> DEFINE v == Expired(row)[Up(c)].verified
<1>4. v \in 0..Total
  BY <1>3, ExpiredRows DEF Rows
<1>5. CASE Fail(c, "other") /\ UNCHANGED writer
  <2>1. ThreadsGood' /\ Stays(c, {"release", "drop"}) /\ At(c)' # "drop"
    BY <1>2, <1>5, FailStays
  <2> QED BY <1>1, <1>5, <2>1 DEF Stays
<1>6. CASE Set(c, [thread[c] EXCEPT !.pc = "release", !.off = v]) /\ UNCHANGED writer
  <2> DEFINE n == [thread[c] EXCEPT !.pc = "release", !.off = v]
  <2>1. Moves(c, n)
    BY <1>6 DEF Set, Moves
  <2> HIDE DEF v
  <2>2. n \in ThreadRecords
    BY <1>3, <1>4 DEF ThreadRecords, Pcs, Critical
  <2>3. /\ n.pc = "release" /\ n.u = thread[c].u /\ n.f = thread[c].f /\ n.fd = thread[c].fd
        /\ n.holds = thread[c].holds /\ n.task = thread[c].task /\ n.todo = thread[c].todo
    BY <1>3 DEF ThreadRecords
  <2>4. Shape(n)
    BY <1>3, <2>2, <2>3 DEF Shape, Critical, Completing, Looking, Restarting, Writing, OnFile
  <2> HIDE DEF n
  <2>5. ThreadsGood' /\ Stays(c, {"release"})
    BY <1>2, <1>6, <2>1, <2>3, <2>4, StaysGood DEF InTransaction, Up
  <2> QED BY <1>1, <1>6, <2>5 DEF Stays
<1>7. CASE Goto(c, "count") /\ writer' = c
  <2> DEFINE n == [thread[c] EXCEPT !.pc = "count"]
  <2>1. Moves(c, n)
    BY <1>7, GotoMoves
  <2>2. n \in ThreadRecords
    BY <1>3 DEF ThreadRecords, Pcs, Critical, Writing
  <2>3. /\ n.pc = "count" /\ n.u = thread[c].u /\ n.f = thread[c].f /\ n.fd = thread[c].fd
        /\ n.holds = thread[c].holds /\ n.task = thread[c].task /\ n.todo = thread[c].todo
        /\ n.off = thread[c].off
    BY <1>3 DEF ThreadRecords
  <2>4. Shape(n)
    BY <1>3, <2>2, <2>3 DEF Shape, Critical, Completing, Looking, Restarting, Writing, OnFile
  <2> HIDE DEF n
  <2>5. ThreadsGood' /\ thread'[c] = n /\ Others(c)
    BY <1>1, <1>7, <2>1, <2>3, <2>4, ThreadMoves DEF InTransaction, Others
  <2> QED BY <1>1, <1>7, <2>3, <2>5 DEF Stays, At, Up
<1> QED BY <1>5, <1>6, <1>7 DEF Write

(* What Count makes of its thread.                                         *)
LEMMA CountDoes ==
  ASSUME ThreadsGood, NEW c \in Threads, Count(c)
  PROVE  /\ ThreadsGood' /\ Stays(c, {"release"}) /\ At(c) = "count" /\ writer = c
         /\ thread[c].off \in Nat /\ thread[c].off < Total
<1> DEFINE v == thread[c].off + 1
           n == [thread[c] EXCEPT !.pc = "release", !.off = v]
<1>1. At(c) = "count" /\ writer' = Nobody /\ Moves(c, n)
  <2>1. [thread[c] EXCEPT !.pc = "release", !.off = @ + 1] = n
    OBVIOUS
  <2> QED BY <2>1 DEF Count, Set, Moves
<1>2. Shape(thread[c]) /\ thread[c] \in ThreadRecords /\ thread[c].pc = "count"
  BY <1>1, ItsShape DEF At
<1>3. thread[c].off \in Nat /\ thread[c].off < Total /\ v \in 0..Total
  <2>1. thread[c].off \in 0..Total /\ thread[c].off < Total
    BY <1>2 DEF Shape, ThreadRecords, Writing
  <2> QED BY <2>1, VaultAssumption DEF VaultAssumption
<1> HIDE DEF v
<1>4. n \in ThreadRecords
  BY <1>2, <1>3 DEF ThreadRecords, Pcs, Critical
<1>5. /\ n.pc = "release" /\ n.u = thread[c].u /\ n.f = thread[c].f /\ n.fd = thread[c].fd
      /\ n.holds = thread[c].holds /\ n.task = thread[c].task /\ n.todo = thread[c].todo
  BY <1>2 DEF ThreadRecords
<1>6. Shape(n)
  BY <1>2, <1>4, <1>5 DEF Shape, Critical, Completing, Looking, Restarting, Writing, OnFile
<1> HIDE DEF n
<1>7. ThreadsGood' /\ thread'[c] = n /\ Others(c)
  BY <1>1, <1>5, <1>6, ThreadMoves DEF InTransaction, Others
<1>8. writer = c
  BY <1>1 DEF ThreadsGood
<1> QED BY <1>1, <1>3, <1>5, <1>7, <1>8 DEF Stays, At, Up

(* What CountFails makes of its thread.                                    *)
LEMMA CountFailsDoes ==
  ASSUME ThreadsGood, NEW c \in Threads, CountFails(c)
  PROVE  ThreadsGood' /\ Stays(c, {"release"}) /\ At(c) = "count" /\ writer = c
<1> DEFINE n == Failing(c, "other")
<1>1. At(c) = "count" /\ writer' = Nobody /\ Moves(c, n) /\ At(c) \in Critical
  BY DEF CountFails, Fail, Set, Moves, Critical, Writing
<1>2. /\ Shape(n) /\ n.pc = "release" /\ n.u = Up(c) /\ n.fd = thread[c].fd
      /\ n.holds /\ n.task = thread[c].task /\ n.todo = thread[c].todo
  BY <1>1, FailingShape
<1>3. thread[c].holds /\ thread[c].holds \in BOOLEAN /\ n.holds \in BOOLEAN
  BY <1>1, <1>2, ItsShape DEF Shape, ThreadRecords
<1> HIDE DEF n
<1>4. ThreadsGood' /\ thread'[c] = n /\ Others(c)
  BY <1>1, <1>2, ThreadMoves DEF InTransaction, Others
<1>5. writer = c
  BY <1>1 DEF ThreadsGood
<1>6. thread'[c].holds = thread[c].holds
  BY <1>2, <1>3, <1>4
<1> QED BY <1>1, <1>2, <1>4, <1>5, <1>6 DEF Stays, At, Up

(* Files: a new record for a new file.                                     *)
FileRecord(p, f) == [Idle EXCEPT !.pc = p, !.f = f]
PurgeRecord(p, f, w) == [Idle EXCEPT !.pc = p, !.f = f, !.was = w]
(* A thread that works on a file has the shape of one.                     *)
LEMMA FileShape ==
  ASSUME NEW p \in OnFile, NEW f \in Files, NEW w \in {"none", "moved"},
         NEW n, n = FileRecord(p, f) \/ n = PurgeRecord(p, f, w)
  PROVE  Shape(n) /\ n.pc = p /\ n.f = f /\ n.u = NoUpload /\ n.task = "none"
<1>1. Idle \in ThreadRecords /\ Idle.pc = "idle" /\ ~Idle.holds /\ Idle.u = NoUpload /\ Idle.task = "none"
  BY IdleShape DEF Shape, Idle
<1>2. p \in Pcs /\ p \notin Critical \cup {"wait", "get", "send"}
  BY DEF Pcs, Critical, Completing, Looking, Restarting, Writing, OnFile
<1>3. n \in ThreadRecords
  <2>1. FileRecord(p, f) \in ThreadRecords
    BY <1>1, <1>2 DEF FileRecord, ThreadRecords
  <2>2. PurgeRecord(p, f, w) \in ThreadRecords
    BY <1>1, <1>2 DEF PurgeRecord, ThreadRecords
  <2> QED BY <2>1, <2>2
<1>4. n.pc = p /\ n.f = f /\ n.u = NoUpload /\ n.task = "none" /\ ~n.holds
  BY <1>1 DEF FileRecord, PurgeRecord, ThreadRecords
<1>5. p \notin Completing \cup Looking \cup Restarting \cup Writing
  BY <1>2 DEF Critical
<1> QED BY <1>2, <1>3, <1>4, <1>5 DEF Shape, Looking

(* What a thread does that begins work on a file.                          *)
LEMMA FileBegins ==
  ASSUME ThreadsGood, NEW t \in Threads, NEW p \in OnFile, NEW f \in Files, NEW w \in {"none", "moved"},
         NEW n, n = FileRecord(p, f) \/ n = PurgeRecord(p, f, w), Moves(t, n), At(t) = "idle",
         p \in {"insert", "undo"} => t = Putter,
         IF p \in InTransaction THEN writer' = t /\ writer = Nobody ELSE writer' = writer
  PROVE  ThreadsGood' /\ Quiet(t, {p}) /\ thread'[t].f = f /\ Up(t)' = NoUpload
<1>1. Shape(n) /\ n.pc = p /\ n.f = f /\ n.u = NoUpload
  BY FileShape
<1>2. {p} \cap Critical = {} /\ n.pc \in {p} /\ At(t) \notin InTransaction
  BY <1>1 DEF OnFile, Critical, Completing, Looking, Restarting, Writing, InTransaction
<1>4. ThreadsGood' /\ Quiet(t, {p}) /\ thread'[t] = n
  BY <1>1, <1>2, QuietGood
<1> QED BY <1>1, <1>4 DEF Up

(* A small file is written to a fresh object.                              *)
LEMMA PutDoes ==
  ASSUME ThreadsGood, NEW t \in Threads, Put(t)
  PROVE  /\ ThreadsGood' /\ Quiet(t, {"insert"}) /\ At(t) = "idle" /\ writer = Nobody /\ writer' = t
         /\ \E f \in FreshFiles : thread'[t].f = f /\ object' = [object EXCEPT ![f] = Whole]
<1>1. PICK f \in FreshFiles : /\ object' = [object EXCEPT ![f] = Whole]
                              /\ Set(t, [Idle EXCEPT !.pc = "insert", !.f = f])
  BY DEF Put
<1>2. t = Putter /\ At(t) = "idle" /\ writer = Nobody /\ writer' = t /\ f \in Files
  BY DEF Put, Begin, FreshFiles
<1>3. Moves(t, FileRecord("insert", f))
  BY <1>1 DEF Set, Moves, FileRecord
<1>4. "insert" \in OnFile /\ "insert" \in InTransaction
  BY DEF OnFile, InTransaction
<1>5. ThreadsGood' /\ Quiet(t, {"insert"}) /\ thread'[t].f = f
  BY <1>2, <1>3, <1>4, FileBegins
<1> QED BY <1>1, <1>2, <1>5

(* What Delete makes of its thread.                                        *)
LEMMA DeleteDoes ==
  ASSUME ThreadsGood, NEW t \in Threads, NEW f \in Files, Delete(t, f)
  PROVE  /\ ThreadsGood' /\ Quiet(t, {"discard"}) /\ At(t) = "idle" /\ writer = Nobody
         /\ thread'[t].f = f
<1>1. At(t) = "idle" /\ writer = Nobody /\ writer' = writer
  BY DEF Delete, Begin
<1>2. Moves(t, FileRecord("discard", f))
  BY DEF Set, Moves, Delete, FileRecord
<1>3. "discard" \in OnFile /\ "discard" \notin InTransaction
  BY DEF OnFile, InTransaction
<1>4. ThreadsGood' /\ Quiet(t, {"discard"}) /\ thread'[t].f = f
  BY <1>1, <1>2, <1>3, FileBegins
<1> QED BY <1>1, <1>4

(* A purge sets the object aside, or finishes an earlier one.              *)
LEMMA PurgeDoes ==
  ASSUME ThreadsGood, NEW t \in Threads, NEW f \in Files, Purge(t, f)
  PROVE  /\ ThreadsGood' /\ writer = Nobody
         /\ \/ /\ Quiet(t, {"forget"}) /\ At(t) = "idle" /\ thread'[t].f = f /\ writer' = t
               /\ life[f] = "deleted"
               /\ object' = [object EXCEPT ![f] = Gone]
               /\ hidden' = [hidden EXCEPT ![f] = IF object[f] # Gone THEN object[f] ELSE @]
            \/ /\ UNCHANGED <<object, thread, writer>> /\ life[f] = "purged"
               /\ hidden' = [hidden EXCEPT ![f] = Gone]
<1>1. writer = Nobody /\ At(t) = "idle"
  BY DEF Purge, Begin
<1>2. CASE UNCHANGED <<object, thread, writer>> /\ hidden' = [hidden EXCEPT ![f] = Gone] /\ life[f] = "purged"
  BY <1>1, <1>2 DEF ThreadsGood, At
<1>3. CASE /\ object' = [object EXCEPT ![f] = Gone] /\ writer' = t /\ life[f] = "deleted"
           /\ hidden' = [hidden EXCEPT ![f] = IF object[f] # Gone THEN object[f] ELSE @]
           /\ Set(t, [Idle EXCEPT !.pc = "forget", !.f = f,
                                  !.was = IF object[f] # Gone THEN "moved" ELSE "none"])
  <2> DEFINE w == IF object[f] # Gone THEN "moved" ELSE "none"
  <2>1. w \in {"none", "moved"} /\ Moves(t, PurgeRecord("forget", f, w))
    BY <1>3 DEF PurgeRecord, Set, Moves
  <2> HIDE DEF w
  <2>2. "forget" \in OnFile /\ "forget" \in InTransaction
    BY DEF OnFile, InTransaction
  <2>3. ThreadsGood' /\ Quiet(t, {"forget"}) /\ thread'[t].f = f
    BY <1>1, <1>3, <2>1, <2>2, FileBegins
  <2> QED BY <1>1, <1>3, <2>3
<1> QED BY <1>2, <1>3 DEF Purge

(* What the later steps on a file make of their threads.                   *)
LEMMA FileStepsDo ==
  ASSUME ThreadsGood, NEW t \in Threads
  PROVE  /\ Insert(t) => /\ ThreadsGood' /\ Quiet(t, {"idle"}) /\ At(t) = "insert" /\ writer = t
         /\ InsertFails(t) => /\ ThreadsGood' /\ Quiet(t, {"undo"}) /\ At(t) = "insert" /\ writer = t
                              /\ thread'[t].f = thread[t].f
         /\ Undo(t) => ThreadsGood' /\ Quiet(t, {"idle"}) /\ At(t) = "undo"
         /\ Discard(t) => ThreadsGood' /\ Quiet(t, {"idle"}) /\ At(t) = "discard"
         /\ Forget(t) => /\ ThreadsGood' /\ Quiet(t, {"shred"}) /\ At(t) = "forget" /\ writer = t
                         /\ thread'[t].f = thread[t].f
         /\ ForgetFails(t) => ThreadsGood' /\ Quiet(t, {"idle"}) /\ At(t) = "forget" /\ writer = t
         /\ Shred(t) => ThreadsGood' /\ Quiet(t, {"idle"}) /\ At(t) = "shred"
<1>1. \A p \in {"insert", "undo", "discard", "forget", "shred"} :
         /\ p \notin Critical \cup {"wait"} /\ p \in OnFile
         /\ p \in InTransaction <=> p \in {"insert", "forget"}
  BY DEF OnFile, Critical, Completing, Looking, Restarting, Writing, InTransaction
<1>2. At(t) \in {"insert", "forget"} => writer = t
  BY DEF ThreadsGood
<1>3. ASSUME Insert(t) PROVE ThreadsGood' /\ Quiet(t, {"idle"}) /\ At(t) = "insert"
  BY <1>1, <1>3, ReturnQuiet DEF Insert
<1>4. ASSUME InsertFails(t)
      PROVE  ThreadsGood' /\ Quiet(t, {"undo"}) /\ At(t) = "insert" /\ thread'[t].f = thread[t].f
  <2>1. At(t) = "insert" /\ writer' = Nobody /\ Goto(t, "undo") /\ t = Putter
    BY <1>4 DEF InsertFails, ThreadsGood
  <2> QED BY <1>1, <2>1, GotoQuiet
<1>5. ASSUME Undo(t) PROVE ThreadsGood' /\ Quiet(t, {"idle"}) /\ At(t) = "undo"
  BY <1>1, <1>5, ReturnQuiet DEF Undo
<1>6. ASSUME Discard(t) PROVE ThreadsGood' /\ Quiet(t, {"idle"}) /\ At(t) = "discard"
  BY <1>1, <1>6, ReturnQuiet DEF Discard
<1>7. ASSUME Forget(t)
      PROVE  ThreadsGood' /\ Quiet(t, {"shred"}) /\ At(t) = "forget" /\ thread'[t].f = thread[t].f
  <2>1. At(t) = "forget" /\ writer' = Nobody /\ Goto(t, "shred")
    BY <1>7 DEF Forget
  <2> QED BY <1>1, <2>1, GotoQuiet
<1>8. ASSUME ForgetFails(t) PROVE ThreadsGood' /\ Quiet(t, {"idle"}) /\ At(t) = "forget"
  BY <1>1, <1>8, ReturnQuiet DEF ForgetFails
<1>9. ASSUME Shred(t) PROVE ThreadsGood' /\ Quiet(t, {"idle"}) /\ At(t) = "shred"
  BY <1>1, <1>9, ReturnQuiet DEF Shred
<1> QED BY <1>2, <1>3, <1>4, <1>5, <1>6, <1>7, <1>8, <1>9

(* A step is a thread's, one that happens to a row or to a partial, or a   *)
(* death.                                                                  *)
ThreadStep(t) ==
    \/ Step(t) \/ Add(t) \/ CleanUp(t) \/ Put(t) \/ InsertFails(t) \/ ForgetFails(t) \/ CountFails(t)
    \/ \E f \in Files : Delete(t, f) \/ Purge(t, f)
RowChance(u) == Cancel(u) \/ Lapse(u) \/ FailedLapse(u) \/ Age(u)
Death == (\E P \in Processes : Die(P)) \/ PowerLoss

(* Every step is of one of these kinds.                                    *)
LEMMA NextIs ==
  ASSUME [VaultNext]_vars
  PROVE  \/ \E t \in Threads : ThreadStep(t)
         \/ \E u \in Uploads : RowChance(u) \/ Lose(u)
         \/ Death \/ UNCHANGED vars
<1>1. Cleaner \in Threads /\ Putter \in Threads /\ Remover \in Threads /\ Purger \in Threads
      /\ Adders \subseteq Threads
  BY DEF Threads
<1>2. CASE Chance
  BY <1>1, <1>2 DEF Chance, ThreadStep, RowChance, Death
<1>3. CASE ~Chance
  BY <1>1, <1>3 DEF VaultNext, ThreadStep, RowChance
<1> QED BY <1>2, <1>3

(* A thread's step moves that thread only.                                 *)
LEMMA ThreadStepMoves ==
  ASSUME ThreadsGood, RowsGood, LocksGood, NEW t \in Threads, ThreadStep(t)
  PROVE  ThreadsGood' /\ Others(t)
<1>1. ASSUME NEW P, Stays(t, P) \/ Quiet(t, P) PROVE Others(t)
  BY <1>1 DEF Stays, Quiet
<1>2. CASE \/ Acquire(t) \/ Release(t) \/ ReadRow(t) \/ Check(t) \/ Mark(t) \/ Claim(t)
           \/ Resume(t) \/ Move(t) \/ Commit(t) \/ Drop(t) \/ Restart(t)
  BY <1>1, <1>2, AcquireDoes, ReleaseDoes, ReadRowDoes, CheckDoes, MarkDoes, ClaimDoes, ResumeDoes,
     MoveDoes, CommitDoes, DropDoes, RestartDoes
<1>3. CASE \/ ReadStale(t) \/ Recover(t) \/ Sweep(t) \/ Unlink(t) \/ Create(t) \/ GetSession(t)
           \/ Send(t) \/ Write(t) \/ Count(t) \/ CountFails(t) \/ Add(t) \/ CleanUp(t)
  BY <1>1, <1>3, ReadStaleDoes, RecoverDoes, SweepDoes, UnlinkDoes, CreateDoes, GetSessionDoes,
     SendDoes, WriteDoes, CountDoes, CountFailsDoes, BeginsDo
<1>4. CASE \/ Insert(t) \/ Undo(t) \/ Discard(t) \/ Forget(t) \/ Shred(t) \/ InsertFails(t)
           \/ ForgetFails(t) \/ Put(t)
  BY <1>1, <1>4, FileStepsDo, PutDoes
<1>5. ASSUME NEW f \in Files, Delete(t, f) \/ Purge(t, f) PROVE ThreadsGood' /\ Others(t)
  <2>1. CASE Delete(t, f)
    BY <1>1, <2>1, DeleteDoes
  <2>2. CASE Purge(t, f)
    BY <1>1, <2>2, PurgeDoes DEF Others
  <2> QED BY <1>5, <2>1, <2>2
<1> QED BY <1>2, <1>3, <1>4, <1>5 DEF ThreadStep, Step

(* Those that die are where they began, and leave no transaction.          *)
LEMMA DeathMoves ==
  ASSUME ThreadsGood, Death
  PROVE  /\ ThreadsGood'
         /\ \A t \in Threads : thread'[t] = thread[t] \/ thread'[t] = Idle
         /\ PowerLoss => \A t \in Threads : thread'[t] = Idle \/ At(t)' = "added"
<1>1. PICK P \in SUBSET Threads :
        /\ thread' = Dead(P)
        /\ \/ writer' = Nobody /\ P = Threads
           \/ writer' = (IF writer \in P THEN Nobody ELSE writer) /\ ~PowerLoss
  <2>1. CASE PowerLoss
    BY <2>1 DEF PowerLoss
  <2>2. ASSUME NEW P \in Processes, Die(P), ~PowerLoss
        PROVE  P \in SUBSET Threads /\ thread' = Dead(P)
               /\ writer' = (IF writer \in P THEN Nobody ELSE writer)
    BY <2>2, VaultAssumption DEF Die, VaultAssumption
  <2> QED BY <2>1, <2>2 DEF Death
<1>2. \A t \in Threads : thread'[t] = IF t \in P /\ At(t) # "added" THEN Idle ELSE thread[t]
  BY <1>1 DEF Dead
<1>3. thread' \in [Threads -> ThreadRecords] /\ \A t \in Threads : Shape(thread'[t])
  <2>1. Idle \in ThreadRecords /\ Shape(Idle)
    BY IdleShape DEF Shape
  <2>2. DOMAIN thread' = Threads /\ thread' = [t \in Threads |-> thread'[t]]
    BY <1>1 DEF Dead
  <2>3. \A t \in Threads : thread'[t] \in ThreadRecords /\ Shape(thread'[t])
    BY <1>2, <2>1 DEF ThreadsGood
  <2> QED BY <2>2, <2>3
<1>4. \A t \in Threads : At(t)' = IF t \in P /\ At(t) # "added" THEN "idle" ELSE At(t)
  BY <1>2, IdleShape DEF At
<1>5. writer' \in Threads \cup {Nobody} /\ \A t \in Threads : At(t)' \in InTransaction <=> writer' = t
  <2>1. \A t \in Threads : At(t) \in InTransaction <=> writer = t
    BY DEF ThreadsGood, InTransaction
  <2>2. Nobody \notin Threads /\ writer \in Threads \cup {Nobody}
    BY VaultAssumption DEF VaultAssumption, ThreadsGood
  <2>3. "idle" \notin InTransaction /\ "added" \notin InTransaction
    BY DEF InTransaction
  <2> QED BY <1>1, <1>4, <2>1, <2>2, <2>3
<1>6. \A t \in Threads : At(t)' \in {"insert", "undo"} => t = Putter
  BY <1>4 DEF ThreadsGood
<1>7. PowerLoss => \A t \in Threads : thread'[t] = Idle \/ At(t)' = "added"
  BY <1>1, <1>2, <1>4
<1> QED BY <1>2, <1>3, <1>5, <1>6, <1>7 DEF ThreadsGood, InTransaction, At

(* Whatever happens, the threads stay as they should be.                   *)
LEMMA ThreadsStayGood ==
  ASSUME ThreadsGood, RowsGood, LocksGood, [VaultNext]_vars
  PROVE  ThreadsGood'
<1>1. CASE UNCHANGED <<thread, writer>>
  BY <1>1 DEF ThreadsGood, At
<1>2. ASSUME NEW u \in Uploads, RowChance(u) \/ Lose(u) PROVE UNCHANGED <<thread, writer>>
  BY <1>2 DEF RowChance, Lose, Cancel, Lapse, FailedLapse, LeaseEnds, Age
<1>3. UNCHANGED vars => UNCHANGED <<thread, writer>>
  BY DEF vars
<1> QED BY <1>1, <1>2, <1>3, NextIs, ThreadStepMoves, DeathMoves

(* What a step makes of an upload: it stays, ends, is opened or purged, or *)
(* the holder of its lock works on it.                                     *)
Keeps(u) == /\ row'[u].state = row[u].state /\ row'[u].file = row[u].file
            /\ row'[u].verified = row[u].verified
Ends(u) == /\ row[u].state \in Receivable \cup {"expired", "failed_terminal"}
           /\ row'[u].state \in {"cancelled", "expired", "failed_terminal"}
           /\ row'[u].file = row[u].file /\ row'[u].verified = row[u].verified
Opens(u) == /\ row[u].state = "unused" /\ row'[u].state = "created"
            /\ row'[u].file = NoFile /\ row'[u].verified = 0
            /\ row'[u].key \in Keys /\ \A v \in Uploads \ {u} : row'[v].key # row'[u].key
Purges(u) == /\ row[u].state = "committed" /\ row'[u].state = "purged"
             /\ row'[u].file = row[u].file
MarkWorks(u) == /\ row[u].state \in Receivable /\ row'[u].state = "failed_retryable"
                /\ row'[u].file = row[u].file /\ row'[u].verified = row[u].verified
ClaimWorks(u, f) == /\ row[u].state \in Receivable /\ row'[u].state = "completing"
                    /\ row'[u].file = f /\ f \in FreshFiles
CommitWorks(u) == /\ row[u].state = "completing" /\ row'[u].state = "committed"
                  /\ row'[u].file = row[u].file
RestartWorks(u) == /\ row[u].state = "completing" /\ row'[u].state = "failed_retryable"
                   /\ row'[u].file = NoFile /\ row'[u].verified = 0
WriteWorks(u) == /\ row[u].state \in Receivable /\ row'[u].state = "failed_retryable"
                 /\ row'[u].file = row[u].file /\ row'[u].verified = 0
CountWorks(u, n) == /\ row[u].state \in Receivable /\ row'[u].state = "receiving"
                    /\ row'[u].file = row[u].file /\ row'[u].verified = n
Works(t) == \/ At(t) = "mark" /\ MarkWorks(Up(t))
            \/ At(t) = "claim" /\ At(t)' = "move" /\ ClaimWorks(Up(t), thread'[t].f)
            \/ At(t) = "commit" /\ CommitWorks(Up(t)) /\ row[Up(t)].file = thread[t].f
            \/ At(t) = "restart" /\ RestartWorks(Up(t))
            \/ At(t) = "write" /\ WriteWorks(Up(t))
            \/ At(t) = "count" /\ CountWorks(Up(t), thread[t].off + 1)
RowsRest == /\ row' \in [Uploads -> Rows]
            /\ \A u \in Uploads : /\ row'[u].key \in {row[u].key, NoKey}
                                  /\ Keeps(u) \/ Ends(u)
RowsMove(t) ==
    /\ row' \in [Uploads -> Rows]
    /\ \A u \in Uploads : row'[u].key \in {row[u].key, NoKey} \/ (Opens(u) /\ At(t) = "create")
    /\ \A u \in Uploads :
          \/ Keeps(u) \/ Ends(u)
          \/ Opens(u) /\ At(t) = "create"
          \/ Purges(u) /\ At(t) = "forget"
          \/ u = Up(t) /\ Works(t)

(* Rows that rest may be the work of any thread.                           *)
LEMMA RestMoves == ASSUME NEW t, RowsRest PROVE RowsMove(t)
BY DEF RowsRest, RowsMove

(* Rows that stay rest.                                                    *)
LEMMA StillRests == ASSUME RowsGood, row' = row PROVE RowsRest
BY DEF RowsGood, RowsRest, Keeps

(* Rows whose time is over rest.                                           *)
LEMMA ExpiredRests == ASSUME RowsGood, row' = Expired(row) PROVE RowsRest
<1>1. row' \in [Uploads -> Rows]
  BY ExpiredRows DEF Expired
<1>2. \A u \in Uploads : Keeps(u) \/ Ends(u)
  BY ExpiredRows DEF Keeps, Ends
<1> QED BY <1>1, <1>2, ExpiredRows DEF RowsRest

(* A row changes, and all others at most end.                              *)
LEMMA OneMoves ==
  ASSUME RowsGood, NEW R \in {row, Expired(row)}, NEW u \in Uploads, NEW r \in Rows,
         row' = [R EXCEPT ![u] = r]
  PROVE  /\ row' \in [Uploads -> Rows] /\ row'[u] = r
         /\ \A v \in Uploads \ {u} : /\ row'[v].key = row[v].key
                                     /\ Keeps(v) \/ Ends(v)
<1>1. R \in [Uploads -> Rows] /\ row \in [Uploads -> Rows]
  BY ExpiredRows DEF RowsGood, Expired
<1>2. \A v \in Uploads \ {u} : row'[v] = R[v]
  BY <1>1
<1>3. \A v \in Uploads : /\ R[v].key = row[v].key /\ R[v].file = row[v].file
                         /\ R[v].verified = row[v].verified
                         /\ \/ R[v] = row[v]
                            \/ row[v].state \in Receivable /\ R[v].state = "expired"
  BY ExpiredRows
<1> QED BY <1>1, <1>2, <1>3 DEF Keeps, Ends

(* What Mark makes of the rows.                                            *)
LEMMA MarkRows ==
  ASSUME ThreadsGood, RowsGood, NEW t \in Threads, Mark(t)
  PROVE  RowsMove(t)
<1>1. /\ row' = [row EXCEPT ![Up(t)].state = IF @ \in Receivable THEN thread[t].err ELSE @]
      /\ At(t) = "mark"
  BY DEF Mark
<1>2. Up(t) \in Uploads /\ thread[t].err \in {"failed_retryable", "failed_terminal"}
  BY <1>1, ItsShape DEF Critical, Looking, Shape, At
<1>3. row \in [Uploads -> Rows] /\ row[Up(t)] \in Rows
  BY <1>2 DEF RowsGood
<1> DEFINE e == IF row[Up(t)].state \in Receivable THEN thread[t].err ELSE row[Up(t)].state
           r == [row[Up(t)] EXCEPT !.state = e]
<1>4. e \in States
  BY <1>2, <1>3 DEF Rows, States, Receivable, Terminal
<1>5. row' = [row EXCEPT ![Up(t)] = r]
  BY <1>1
<1>6. r \in Rows /\ r.state = e /\ r.key = row[Up(t)].key /\ r.file = row[Up(t)].file
      /\ r.verified = row[Up(t)].verified
  <2> HIDE DEF e
  <2> QED BY <1>3, <1>4 DEF Rows
<1> HIDE DEF r
<1>7. /\ row' \in [Uploads -> Rows] /\ row'[Up(t)] = r
      /\ \A v \in Uploads \ {Up(t)} : row'[v].key = row[v].key /\ (Keeps(v) \/ Ends(v))
  BY <1>2, <1>5, <1>6, OneMoves
<1>8. Keeps(Up(t)) \/ Ends(Up(t)) \/ MarkWorks(Up(t))
  BY <1>2, <1>6, <1>7 DEF Keeps, Ends, MarkWorks
<1> QED BY <1>1, <1>6, <1>7, <1>8 DEF RowsMove, Works

(* What Claim makes of the rows.                                           *)
LEMMA ClaimRows ==
  ASSUME ThreadsGood, RowsGood, NEW t \in Threads, Claim(t)
  PROVE  RowsMove(t)
<1>1. CASE UNCHANGED row
  BY <1>1, StillRests, RestMoves
<1>2. CASE row' # row
  <2>1. PICK f \in FreshFiles :
          /\ thread'[t].f = f /\ At(t)' = "move" /\ row[Up(t)].state \in Receivable
          /\ row' = [row EXCEPT ![Up(t)].state = "completing", ![Up(t)].file = f,
                                ![Up(t)].aged = FALSE]
    BY <1>2, ClaimDoes DEF Stays
  <2>2. At(t) = "claim" /\ Up(t) \in Uploads
    BY ClaimDoes, ItsShape DEF Critical, Looking
  <2> DEFINE r == [row[Up(t)] EXCEPT !.state = "completing", !.file = f, !.aged = FALSE]
  <2>3. row \in [Uploads -> Rows] /\ row[Up(t)] \in Rows /\ f \in Files /\ "completing" \in States
    BY <2>2 DEF RowsGood, FreshFiles, States
  <2>4. row' = [row EXCEPT ![Up(t)] = r]
    BY <2>1, <2>2, <2>3
  <2>5. r \in Rows /\ r.state = "completing" /\ r.key = row[Up(t)].key /\ r.file = f
    BY <2>3 DEF Rows
  <2> HIDE DEF r
  <2>6. /\ row' \in [Uploads -> Rows] /\ row'[Up(t)] = r
        /\ \A v \in Uploads \ {Up(t)} : row'[v].key = row[v].key /\ (Keeps(v) \/ Ends(v))
    BY <2>2, <2>4, <2>5, OneMoves
  <2>7. ClaimWorks(Up(t), thread'[t].f)
    BY <2>1, <2>5, <2>6 DEF ClaimWorks
  <2> QED BY <2>1, <2>2, <2>5, <2>6, <2>7 DEF RowsMove, Works
<1> QED BY <1>1, <1>2

(* The bounds of the offsets.                                              *)
LEMMA Bounds == 0 \in 0..Total /\ Total \in 0..Total /\ Total \in Nat \ {0}
<1>1. Total \in Nat \ {0}
  BY VaultAssumption DEF VaultAssumption
<1> QED BY <1>1

(* What Commit makes of the rows.                                          *)
LEMMA CommitRows ==
  ASSUME ThreadsGood, RowsGood, NEW t \in Threads, Commit(t)
  PROVE  RowsMove(t)
<1>1. CASE UNCHANGED row
  BY <1>1, StillRests, RestMoves
<1>2. CASE row' # row
  <2>1. /\ row' = [row EXCEPT ![Up(t)].state = "committed", ![Up(t)].verified = Total,
                              ![Up(t)].aged = FALSE]
        /\ row[Up(t)].state = "completing" /\ row[Up(t)].file = thread[t].f
    BY <1>2, CommitDoes
  <2>2. At(t) = "commit" /\ Up(t) \in Uploads
    BY CommitDoes, ItsShape DEF Critical, Completing
  <2> DEFINE r == [row[Up(t)] EXCEPT !.state = "committed", !.verified = Total, !.aged = FALSE]
  <2>3. row \in [Uploads -> Rows] /\ row[Up(t)] \in Rows /\ "committed" \in States /\ Total \in 0..Total
    BY <2>2, Bounds DEF RowsGood, States, Terminal
  <2>4. row' = [row EXCEPT ![Up(t)] = r]
    BY <2>1, <2>2, <2>3
  <2>5. r \in Rows /\ r.state = "committed" /\ r.key = row[Up(t)].key /\ r.file = row[Up(t)].file
    BY <2>3 DEF Rows
  <2> HIDE DEF r
  <2>6. /\ row' \in [Uploads -> Rows] /\ row'[Up(t)] = r
        /\ \A v \in Uploads \ {Up(t)} : row'[v].key = row[v].key /\ (Keeps(v) \/ Ends(v))
    BY <2>2, <2>4, <2>5, OneMoves
  <2>7. CommitWorks(Up(t))
    BY <2>1, <2>5, <2>6 DEF CommitWorks
  <2> QED BY <2>1, <2>2, <2>5, <2>6, <2>7 DEF RowsMove, Works
<1> QED BY <1>1, <1>2

(* What Restart makes of the rows.                                         *)
LEMMA RestartRows ==
  ASSUME ThreadsGood, RowsGood, NEW t \in Threads, Restart(t)
  PROVE  RowsMove(t)
<1>1. /\ row' = [row EXCEPT ![Up(t)] = IF @.state = "completing" THEN Restarted(@) ELSE @]
      /\ At(t) = "restart" /\ Up(t) \in Uploads
  BY RestartDoes, ItsShape DEF Restart, Critical, Restarting
<1>2. row \in [Uploads -> Rows] /\ row[Up(t)] \in Rows
  BY <1>1 DEF RowsGood
<1>3. CASE row[Up(t)].state # "completing"
  <2>1. row' = row
    BY <1>1, <1>2, <1>3
  <2> QED BY <2>1, StillRests, RestMoves
<1>4. CASE row[Up(t)].state = "completing"
  <2> DEFINE r == Restarted(row[Up(t)])
  <2>1. row' = [row EXCEPT ![Up(t)] = r]
    BY <1>1, <1>4
  <2>2. /\ r \in Rows /\ r.state = "failed_retryable" /\ r.key = row[Up(t)].key
        /\ r.file = NoFile /\ r.verified = 0
    BY <1>2, Bounds DEF Rows, Restarted, States, Receivable
  <2> HIDE DEF r
  <2>3. /\ row' \in [Uploads -> Rows] /\ row'[Up(t)] = r
        /\ \A v \in Uploads \ {Up(t)} : row'[v].key = row[v].key /\ (Keeps(v) \/ Ends(v))
    BY <1>1, <2>1, <2>2, OneMoves
  <2>4. RestartWorks(Up(t))
    BY <1>4, <2>2, <2>3 DEF RestartWorks
  <2> QED BY <1>1, <2>2, <2>3, <2>4 DEF RowsMove, Works
<1> QED BY <1>3, <1>4

(* What Write makes of the rows.                                           *)
LEMMA WriteRows ==
  ASSUME ThreadsGood, RowsGood, NEW t \in Threads, Write(t)
  PROVE  RowsMove(t)
<1>1. At(t) = "write" /\ Up(t) \in Uploads
  BY WriteDoes, ItsShape DEF Critical, Writing
<1> DEFINE R == Expired(row)
<1>2. CASE row' = row
  BY <1>2, StillRests, RestMoves
<1>3. CASE row' = R
  BY <1>3, ExpiredRests, RestMoves
<1>4. CASE /\ R[Up(t)].state \in Receivable
           /\ row' = [R EXCEPT ![Up(t)].state = "failed_retryable", ![Up(t)].verified = 0]
  <2> DEFINE r == [row[Up(t)] EXCEPT !.state = "failed_retryable", !.verified = 0]
  <2>1. /\ R \in [Uploads -> Rows] /\ R[Up(t)] = row[Up(t)] /\ row[Up(t)] \in Rows
        /\ row[Up(t)].state \in Receivable
    <3>1. "expired" \notin Receivable
      BY DEF Receivable
    <3>2. R \in [Uploads -> Rows]
      BY ExpiredRows DEF Expired
    <3> QED BY <1>1, <1>4, <3>1, <3>2, ExpiredRows
  <2>2. row' = [R EXCEPT ![Up(t)] = r]
    <3> HIDE DEF R
    <3> QED BY <1>1, <1>4, <2>1
  <2>3. /\ r \in Rows /\ r.state = "failed_retryable" /\ r.key = row[Up(t)].key
        /\ r.file = row[Up(t)].file /\ r.verified = 0
    BY <2>1, Bounds DEF Rows, States, Receivable
  <2> HIDE DEF r
  <2>4. /\ row' \in [Uploads -> Rows] /\ row'[Up(t)] = r
        /\ \A v \in Uploads \ {Up(t)} : row'[v].key = row[v].key /\ (Keeps(v) \/ Ends(v))
    BY <1>1, <2>2, <2>3, OneMoves
  <2>5. WriteWorks(Up(t))
    BY <2>1, <2>3, <2>4 DEF WriteWorks
  <2> QED BY <1>1, <2>3, <2>4, <2>5 DEF RowsMove, Works
<1> QED BY <1>2, <1>3, <1>4 DEF Write

(* What Count makes of the rows.                                           *)
LEMMA CountRows ==
  ASSUME ThreadsGood, RowsGood, WorkGood, NEW t \in Threads, Count(t)
  PROVE  RowsMove(t)
<1>1. At(t) = "count" /\ Up(t) \in Uploads /\ thread[t].off + 1 \in 0..Total
  <2>1. /\ At(t) = "count" /\ Up(t) \in Uploads /\ thread[t].off \in Nat /\ thread[t].off < Total
    BY CountDoes, ItsShape DEF Critical, Writing
  <2> QED BY <2>1, VaultAssumption DEF VaultAssumption
<1>2. row[Up(t)].state \in Receivable
  BY <1>1 DEF WorkGood, WorkOf
<1> DEFINE R == Expired(row)
           v == thread[t].off + 1
           r == [R[Up(t)] EXCEPT !.state = "receiving", !.verified = v, !.lapsed = FALSE]
<1>3. row' = [R EXCEPT ![Up(t)].state = "receiving", ![Up(t)].verified = v, ![Up(t)].lapsed = FALSE]
  BY DEF Count
<1>4. R \in [Uploads -> Rows] /\ R[Up(t)] \in Rows
  BY <1>1, ExpiredRows DEF Expired
<1>5. row' = [R EXCEPT ![Up(t)] = r]
  <2> HIDE DEF R, v
  <2> QED BY <1>1, <1>3, <1>4
<1>6. /\ r \in Rows /\ r.state = "receiving" /\ r.key = row[Up(t)].key
      /\ r.file = row[Up(t)].file /\ r.verified = v
  <2>1. R[Up(t)].key = row[Up(t)].key /\ R[Up(t)].file = row[Up(t)].file
    BY <1>1, ExpiredRows
  <2>2. v \in 0..Total
    BY <1>1
  <2> HIDE DEF R, v
  <2> QED BY <1>4, <2>1, <2>2 DEF Rows, States, Receivable
<1> HIDE DEF r
<1>7. /\ row' \in [Uploads -> Rows] /\ row'[Up(t)] = r
      /\ \A u \in Uploads \ {Up(t)} : row'[u].key = row[u].key /\ (Keeps(u) \/ Ends(u))
  BY <1>1, <1>5, <1>6, OneMoves
<1>8. CountWorks(Up(t), v)
  BY <1>2, <1>6, <1>7 DEF CountWorks
<1> QED BY <1>1, <1>6, <1>7, <1>8 DEF RowsMove, Works

(* A key is released, and no two uploads have it.                          *)
LEMMA CreateRows ==
  ASSUME ThreadsGood, RowsGood, NEW t \in Threads, t \in Adders, Create(t)
  PROVE  RowsMove(t)
<1> DEFINE E == Expired(row)
           R == ReleasedKey(E, t)
<1>1. \A u \in Uploads : /\ R[u] \in Rows /\ R[u].file = row[u].file /\ R[u].verified = row[u].verified
                         /\ \/ R[u].state = row[u].state
                            \/ row[u].state \in Receivable /\ R[u].state = "expired"
                         /\ R[u].key \in {row[u].key, NoKey}
  <2> TAKE u \in Uploads
  <2>1. E[u] \in Rows /\ E[u].file = row[u].file /\ E[u].verified = row[u].verified /\ E[u].key = row[u].key
        /\ (E[u].state = row[u].state \/ (row[u].state \in Receivable /\ E[u].state = "expired"))
    BY ExpiredRows
  <2>2. R[u] = E[u] \/ R[u] = [E[u] EXCEPT !.key = NoKey]
    BY DEF ReleasedKey
  <2> HIDE DEF E, R
  <2> QED BY <2>1, <2>2 DEF Rows
<1>2. R = [u \in Uploads |-> R[u]]
  BY DEF ReleasedKey
<1>3. At(t) = "create"
  BY CreateDoes
<1>4. CASE row' = R
  <2>1. row' \in [Uploads -> Rows]
    <3> HIDE DEF R
    <3> QED BY <1>1, <1>2, <1>4
  <2>2. \A u \in Uploads : row'[u].key \in {row[u].key, NoKey} /\ (Keeps(u) \/ Ends(u))
    <3> HIDE DEF R
    <3> QED BY <1>1, <1>4 DEF Keeps, Ends
  <2> QED BY <2>1, <2>2 DEF RowsMove
<1>5. CASE /\ Standing(R, t) = {} /\ Up(t)' \in Uploads /\ R[Up(t)'].state = "unused"
           /\ row' = [R EXCEPT ![Up(t)'] = [Unused EXCEPT !.state = "created", !.key = Wants[t]]]
  <2> DEFINE u == Up(t)'
             r == [Unused EXCEPT !.state = "created", !.key = Wants[t]]
  <2>1. Wants[t] \in Keys
    BY VaultAssumption DEF VaultAssumption
  <2>2. r \in Rows /\ r.state = "created" /\ r.key = Wants[t] /\ r.file = NoFile /\ r.verified = 0
    BY <2>1, Bounds DEF Unused, Rows, States, Receivable
  <2>3. \A v \in Uploads : R[v].key # Wants[t]
    BY <1>5 DEF Standing
  <2>4. row[u].state = "unused" /\ u \in Uploads
    <3>1. "expired" # "unused"
      OBVIOUS
    <3> HIDE DEF R
    <3> QED BY <1>1, <1>5, <3>1
  <2>5. row' = [R EXCEPT ![u] = r]
    BY <1>5
  <2> HIDE DEF R, r, u
  <2>6. row' \in [Uploads -> Rows] /\ row'[u] = r /\ \A v \in Uploads \ {u} : row'[v] = R[v]
    BY <1>1, <1>2, <2>2, <2>4, <2>5
  <2>7. Opens(u)
    BY <2>1, <2>2, <2>3, <2>4, <2>6 DEF Opens
  <2>8. \A v \in Uploads \ {u} : row'[v].key \in {row[v].key, NoKey} /\ (Keeps(v) \/ Ends(v))
    BY <1>1, <2>6 DEF Keeps, Ends
  <2> QED BY <1>3, <2>6, <2>7, <2>8 DEF RowsMove
<1> QED BY <1>4, <1>5, CreateDoes

(* What deleting and purging a file make of the rows.                      *)
LEMMA FileRows ==
  ASSUME RowsGood, FilesGood, ThreadsGood, NEW t \in Threads
  PROVE  /\ \A f \in Files : Delete(t, f) => RowsRest
         /\ Forget(t) => RowsMove(t)
<1>1. ASSUME NEW f \in Files, Delete(t, f) PROVE RowsRest
  <2>1. row' = [u \in Uploads |-> IF row[u].file = f /\ life[f] = "live"
                                  THEN [row[u] EXCEPT !.key = NoKey] ELSE row[u]]
    BY <1>1 DEF Delete
  <2>2. \A u \in Uploads : /\ row'[u] \in Rows /\ row'[u].key \in {row[u].key, NoKey}
                           /\ row'[u].state = row[u].state /\ row'[u].file = row[u].file
                           /\ row'[u].verified = row[u].verified
    <3> TAKE u \in Uploads
    <3>1. row[u] \in Rows /\ (row'[u] = row[u] \/ row'[u] = [row[u] EXCEPT !.key = NoKey])
      BY <2>1 DEF RowsGood
    <3> QED BY <3>1 DEF Rows
  <2>3. row' \in [Uploads -> Rows]
    <3>1. row' = [u \in Uploads |-> row'[u]]
      BY <2>1
    <3> QED BY <2>2, <3>1
  <2> QED BY <2>2, <2>3 DEF RowsRest, Keeps
<1>2. ASSUME Forget(t) PROVE RowsMove(t)
  <2> DEFINE f == thread[t].f
  <2>1. /\ row' = [u \in Uploads |-> IF row[u].file = f THEN [row[u] EXCEPT !.state = "purged"]
                                     ELSE row[u]]
        /\ At(t) = "forget" /\ f \in Files /\ life[f] = "deleted"
    BY <1>2, ItsShape, FileStepsDo DEF Forget, Shape, At, OnFile, FilesGood, FileOf
  <2> HIDE DEF f
  <2>2. f # NoFile
    BY <2>1, VaultAssumption DEF VaultAssumption
  <2>3. \A u \in Uploads : /\ row'[u] \in Rows /\ row'[u].key = row[u].key
                           /\ Keeps(u) \/ Purges(u)
    <3> TAKE u \in Uploads
    <3>1. row[u] \in Rows
      BY DEF RowsGood
    <3>2. CASE row[u].file # f
      BY <2>1, <3>1, <3>2 DEF Keeps
    <3>3. CASE row[u].file = f
      <4>1. row'[u] = [row[u] EXCEPT !.state = "purged"]
        BY <2>1, <3>3
      <4>2. /\ row'[u] \in Rows /\ row'[u].state = "purged" /\ row'[u].key = row[u].key
            /\ row'[u].file = row[u].file /\ row'[u].verified = row[u].verified
        BY <3>1, <4>1 DEF Rows, States, Absent
      <4>3. row[u].state \in {"committed", "purged"}
        BY <2>1, <2>2, <3>3 DEF RowsGood, FilesGood, FileOf
      <4> QED BY <4>2, <4>3 DEF Keeps, Purges
    <3> QED BY <3>2, <3>3
  <2>4. row' \in [Uploads -> Rows]
    <3>1. row' = [u \in Uploads |-> row'[u]]
      BY <2>1
    <3> QED BY <2>3, <3>1
  <2> QED BY <2>1, <2>3, <2>4 DEF RowsMove
<1> QED BY <1>1, <1>2

(* Every step of a thread, every chance and every death.                   *)
LEMMA ThreadRows ==
  ASSUME ThreadsGood, RowsGood, WorkGood, FilesGood, NEW t \in Threads, ThreadStep(t)
  PROVE  RowsMove(t)
<1>1. CASE Mark(t) \/ Claim(t) \/ Commit(t) \/ Restart(t) \/ Write(t) \/ Count(t) \/ Forget(t)
  BY <1>1, MarkRows, ClaimRows, CommitRows, RestartRows, WriteRows, CountRows, FileRows
<1>2. CASE Create(t)
  <2>1. t \in Adders
    BY <1>2, CreateDoes DEF WorkGood, WorkOf
  <2> QED BY <1>2, <2>1, CreateRows
<1>3. CASE ReadRow(t) \/ Sweep(t) \/ Insert(t)
  <2>1. row' = row \/ row' = Expired(row)
    BY <1>3 DEF ReadRow, Sweep, Insert
  <2> QED BY <2>1, StillRests, ExpiredRests, RestMoves
<1>4. CASE \/ Acquire(t) \/ Release(t) \/ Check(t) \/ Resume(t) \/ Move(t) \/ ReadStale(t)
           \/ Recover(t) \/ Drop(t) \/ Unlink(t) \/ GetSession(t) \/ Send(t) \/ Add(t) \/ CleanUp(t)
           \/ Put(t) \/ InsertFails(t) \/ Undo(t) \/ Discard(t) \/ ForgetFails(t) \/ Shred(t)
           \/ CountFails(t) \/ \E f \in Files : Purge(t, f)
  <2>1. row' = row
    BY <1>4 DEF Acquire, Release, Check, Resume, Move, ReadStale, Recover, Drop, Unlink, GetSession,
       Send, Add, CleanUp, Put, InsertFails, Undo, Discard, ForgetFails, Shred, CountFails, Purge
  <2> QED BY <2>1, StillRests, RestMoves
<1>5. CASE \E f \in Files : Delete(t, f)
  BY <1>5, FileRows, RestMoves
<1> QED BY <1>1, <1>2, <1>3, <1>4, <1>5 DEF ThreadStep, Step

(* Nothing but threads makes rows do more than rest.                       *)
LEMMA ChanceRows ==
  ASSUME RowsGood
  PROVE  /\ \A u \in Uploads : RowChance(u) => RowsRest
         /\ \A u \in Uploads : Lose(u) => RowsRest
         /\ Death => RowsRest
         /\ UNCHANGED vars => RowsRest
<1>1. ASSUME NEW u \in Uploads, RowChance(u) PROVE RowsRest
  <2>1. row \in [Uploads -> Rows] /\ row[u] \in Rows
    BY DEF RowsGood
  <2>2. PICK r \in Rows : /\ row' = [row EXCEPT ![u] = r]
                          /\ r.key = row[u].key /\ r.file = row[u].file /\ r.verified = row[u].verified
                          /\ \/ r.state = row[u].state
                             \/ /\ row[u].state \in Receivable \cup {"expired", "failed_terminal"}
                                /\ r.state = "cancelled"
    <3>1. CASE Cancel(u)
      <4> DEFINE r == [row[u] EXCEPT !.state = "cancelled"]
      <4>1. row' = [row EXCEPT ![u] = r] /\ row[u].state \in Receivable \cup {"expired", "failed_terminal"}
        BY <3>1 DEF Cancel
      <4>2. /\ r \in Rows /\ r.state = "cancelled" /\ r.key = row[u].key /\ r.file = row[u].file
            /\ r.verified = row[u].verified
        BY <2>1 DEF Rows, States, Terminal
      <4> HIDE DEF r
      <4> QED BY <4>1, <4>2
    <3>2. CASE LeaseEnds(u)
      <4> DEFINE r == [row[u] EXCEPT !.lapsed = TRUE]
      <4>1. row' = [row EXCEPT ![u] = r]
        BY <3>2 DEF LeaseEnds
      <4>2. /\ r \in Rows /\ r.state = row[u].state /\ r.key = row[u].key /\ r.file = row[u].file
            /\ r.verified = row[u].verified
        BY <2>1 DEF Rows
      <4> HIDE DEF r
      <4> QED BY <4>1, <4>2
    <3>3. CASE Age(u)
      <4> DEFINE r == [row[u] EXCEPT !.aged = TRUE]
      <4>1. row' = [row EXCEPT ![u] = r]
        BY <3>3 DEF Age
      <4>2. /\ r \in Rows /\ r.state = row[u].state /\ r.key = row[u].key /\ r.file = row[u].file
            /\ r.verified = row[u].verified
        BY <2>1 DEF Rows
      <4> HIDE DEF r
      <4> QED BY <4>1, <4>2
    <3> QED BY <1>1, <3>1, <3>2, <3>3 DEF RowChance, Lapse, FailedLapse
  <2>3. /\ row' \in [Uploads -> Rows] /\ row'[u] = r
        /\ \A v \in Uploads \ {u} : row'[v].key = row[v].key /\ (Keeps(v) \/ Ends(v))
    BY <2>2, OneMoves
  <2>4. Keeps(u) \/ Ends(u)
    BY <2>2, <2>3 DEF Keeps, Ends
  <2> QED BY <2>2, <2>3, <2>4 DEF RowsRest
<1>2. \A u \in Uploads : Lose(u) => row' = row
  BY DEF Lose
<1>3. Death => row' = row
  BY DEF Death, Die, PowerLoss
<1>4. UNCHANGED vars => row' = row
  BY DEF vars
<1> QED BY <1>1, <1>2, <1>3, <1>4, StillRests

(* While somebody writes, no upload changes but by that thread.            *)
LEMMA OthersWait ==
  ASSUME ThreadsGood, NEW s \in Threads, writer = s, At(s) = "count"
  PROVE  /\ \A t \in Threads \ {s} : ThreadStep(t) => row' = row
         /\ \A u \in Uploads : RowChance(u) => \A v \in Uploads : RowsGood => Keeps(v)
<1>1. s # Nobody
  BY VaultAssumption DEF VaultAssumption
<1>2. ASSUME NEW t \in Threads \ {s}, ThreadStep(t) PROVE row' = row
  <2>1. writer \notin {Nobody, t}
    BY <1>1
  <2>2. At(t) \notin {"count", "insert", "forget"}
    BY <2>1 DEF ThreadsGood
  <2> QED BY <1>2, <2>1, <2>2
          DEF ThreadStep, Step, Begin, Acquire, Release, ReadRow, Check, Mark, Claim, Resume, Move, Commit,
              ReadStale, Recover, Drop, Restart, Sweep, Unlink, Create, GetSession, Send, Write, Count,
              Insert, Undo, Discard, Forget, Shred, Add, CleanUp, Put, InsertFails, ForgetFails,
              CountFails, Delete, Purge
<1>3. ASSUME NEW u \in Uploads, RowChance(u), NEW v \in Uploads, RowsGood PROVE Keeps(v)
  <2>1. ~Cancel(u)
    BY <1>1 DEF Cancel, Begin
  <2>2. row \in [Uploads -> Rows] /\ row[u] \in Rows /\ row[v] \in Rows
    BY <1>3 DEF RowsGood
  <2>3. row' = [row EXCEPT ![u].lapsed = TRUE] \/ row' = [row EXCEPT ![u].aged = TRUE]
    BY <1>3, <2>1 DEF RowChance, Lapse, FailedLapse, LeaseEnds, Age
  <2> QED BY <2>2, <2>3 DEF Keeps, Rows
<1> QED BY <1>2, <1>3

(* Pieces.                                                                 *)
LEMMA PiecesAre ==
  /\ \A p \in Pieces : /\ p # Gone /\ p \in Seq({"good", "bad"}) /\ Len(p) \in 0..Total
                       /\ Size(p) = Len(p)
  /\ \A q \in Seq({"good", "bad"}) : Len(q) \in 0..Total => q \in Pieces
  /\ Whole \in Pieces /\ Whole # Gone /\ Size(Whole) = Total
  /\ Size(Gone) = 0
<1>1. ASSUME NEW p \in Pieces
      PROVE  p # Gone /\ p \in Seq({"good", "bad"}) /\ Len(p) \in 0..Total /\ Size(p) = Len(p)
  <2>1. PICK n \in 0..Total : p \in [1..n -> {"good", "bad"}]
    BY DEF Pieces
  <2>2. n \in Nat
    BY <2>1, Bounds
  <2>3. p \in Seq({"good", "bad"})
    BY <2>1, <2>2, SeqDef
  <2>4. Len(p) = n
    BY <2>1, <2>2, <2>3, LenProperties
  <2>5. p # Gone
    BY VaultAssumption DEF VaultAssumption
  <2> QED BY <2>1, <2>3, <2>4, <2>5 DEF Size
<1>2. ASSUME NEW q \in Seq({"good", "bad"}), Len(q) \in 0..Total PROVE q \in Pieces
  BY <1>2, LenProperties DEF Pieces
<1>3. Whole \in [1..Total -> {"good", "bad"}] /\ Total \in 0..Total
  BY Bounds DEF Whole
<1>4. Whole \in Pieces
  BY <1>3 DEF Pieces
<1>5. Len(Whole) = Total
  BY <1>1, <1>3, <1>4, Bounds, LenProperties
<1> QED BY <1>1, <1>2, <1>4, <1>5 DEF Size

(* The first pieces of a partial.                                          *)
LEMMA Cut ==
  ASSUME NEW p \in Pieces, NEW n \in 0..Len(p)
  PROVE  /\ SubSeq(p, 1, n) \in Pieces /\ Size(SubSeq(p, 1, n)) = n
         /\ SubSeq(p, 1, n) \in Seq({"good", "bad"}) /\ Len(SubSeq(p, 1, n)) = n
<1>1. p \in Seq({"good", "bad"}) /\ Len(p) \in 0..Total /\ Total \in Nat /\ Len(p) \in Nat /\ n \in Nat
  BY PiecesAre, Bounds
<1>2. \A i \in 1..n : p[i] \in {"good", "bad"}
  <2> TAKE i \in 1..n
  <2>1. i \in 1..Len(p)
    BY <1>1
  <2> QED BY <1>1, <2>1, ElementOfSeq
<1>3. SubSeq(p, 1, n) \in Seq({"good", "bad"}) /\ Len(SubSeq(p, 1, n)) = IF 1 <= n THEN n - 1 + 1 ELSE 0
  <2>1. 1 \in Int /\ n \in Int
    BY <1>1
  <2> QED BY <1>2, <2>1, SubSeqProperties
<1>4. Len(SubSeq(p, 1, n)) = n /\ n \in 0..Total
  BY <1>1, <1>3
<1> QED BY <1>3, <1>4, PiecesAre

(* A piece more.                                                           *)
LEMMA Added ==
  ASSUME NEW p \in Pieces \cup {Gone}, NEW n \in Nat, n <= Size(p), n < Total, NEW x \in {"good", "bad"},
         p = Gone => n = 0
  PROVE  Appended(p, n, x) \in Pieces /\ Size(Appended(p, n, x)) = n + 1
<1> DEFINE q == IF p = Gone THEN <<>> ELSE SubSeq(p, 1, n)
<1>1. q \in Seq({"good", "bad"}) /\ Len(q) = n
  <2>1. CASE p = Gone
    BY <2>1, EmptySeq
  <2>2. CASE p # Gone
    <3>1. n \in 0..Len(p)
      BY <2>2 DEF Size
    <3> QED BY <2>2, <3>1, Cut
  <2> QED BY <2>1, <2>2
<1>2. Appended(p, n, x) = Append(q, x)
  BY DEF Appended
<1> HIDE DEF q
<1>3. Append(q, x) \in Seq({"good", "bad"}) /\ Len(Append(q, x)) = n + 1
  BY <1>1, AppendProperties
<1>4. n + 1 \in 0..Total
  BY Bounds
<1> QED BY <1>2, <1>3, <1>4, PiecesAre

(* What is written on an upload that can still receive: whatever it says   *)
(* is verified is there.                                                   *)
Wrote(u) == /\ row[u].state \in Receivable /\ row'[u].state \in Receivable
            /\ row'[u].verified <= Size(partial'[u])

(* A writer leaves at least the verified pieces, and one more to count.    *)
LEMMA WriteBytes ==
  ASSUME ThreadsGood, RowsGood, partial \in [Uploads -> Pieces \cup {Gone}], NEW t \in Threads, Write(t)
  PROVE  /\ partial' \in [Uploads -> Pieces \cup {Gone}] /\ Up(t) \in Uploads
         /\ \A u \in Uploads \ {Up(t)} : partial'[u] = partial[u]
         /\ partial' = partial \/ Wrote(Up(t))
         /\ At(t)' = "count" => /\ Wrote(Up(t)) /\ row'[Up(t)].verified = thread[t].off
                                /\ Size(partial'[Up(t)]) = thread[t].off + 1
<1> DEFINE u == Up(t)
           R == Expired(row)
           v == R[u].verified
           p == partial[u]
           off == thread[t].off
<1>1. u \in Uploads /\ off \in Nat /\ off < Total /\ At(t) = "write"
  <2>1. At(t) = "write" /\ u \in Uploads
    BY WriteDoes, ItsShape DEF Critical, Writing
  <2>2. off \in 0..Total /\ off < Total
    BY <2>1, ItsShape DEF Shape, Writing, At, ThreadRecords
  <2> QED BY <2>1, <2>2
<1>2. v \in 0..Total /\ v = row[u].verified /\ p \in Pieces \cup {Gone} /\ row \in [Uploads -> Rows]
  <2>1. R[u] \in Rows
    BY <1>1, ExpiredRows
  <2> QED BY <1>1, <2>1, ExpiredRows DEF Rows, RowsGood
<1>3. R[u].state \in Receivable => R[u] = row[u]
  <2>1. "expired" \notin Receivable
    BY DEF Receivable
  <2> QED BY <1>1, <2>1, ExpiredRows
<1>4. R \in [Uploads -> Rows]
  BY ExpiredRows DEF Expired
<1>5. Fail(t, "other") /\ UNCHANGED writer => At(t)' = "release"
  <2>1. At(t) \in Critical /\ At(t) # "count"
    BY <1>1 DEF Critical, Writing
  <2> QED BY <2>1, FailStays DEF Stays
<1>6. \A m : Set(t, [thread[t] EXCEPT !.pc = "release", !.off = m]) => At(t)' = "release"
  BY ItsShape DEF ThreadsGood, Set, At, ThreadRecords
<1>7. CASE partial' = partial /\ At(t)' = "release"
  BY <1>1, <1>7
<1>8. CASE /\ R[u].state \in Receivable
           /\ row' = [R EXCEPT ![u].state = "failed_retryable", ![u].verified = 0]
           /\ partial' = [partial EXCEPT ![u] = Gone]
           /\ At(t)' = "release"
  <2>1. At(t)' # "count"
    BY <1>8
  <2>2. row'[u].state = "failed_retryable" /\ row'[u].verified = 0
    <3> HIDE DEF R, u
    <3> QED BY <1>1, <1>4, <1>8 DEF Rows
  <2>3. partial'[u] = Gone /\ 0 <= Size(Gone)
    BY <1>1, <1>8, PiecesAre
  <2>4. Wrote(u)
    BY <1>3, <1>8, <2>2, <2>3 DEF Wrote, Receivable
  <2> QED BY <1>1, <1>8, <2>1, <2>4
<1>9. CASE /\ R[u].state \in Receivable /\ Size(p) >= v
           /\ partial' = [partial EXCEPT ![u] = IF p = Gone THEN p ELSE SubSeq(p, 1, v)]
           /\ row' = R \/ row' = row
           /\ At(t)' = "release"
  <2> DEFINE kept == IF p = Gone THEN p ELSE SubSeq(p, 1, v)
  <2>1. kept \in Pieces \cup {Gone} /\ v <= Size(kept)
    <3>1. CASE p = Gone
      BY <1>9, <3>1
    <3>2. CASE p # Gone
      <4>1. p \in Pieces /\ Size(p) = Len(p)
        BY <1>2, <3>2, PiecesAre
      <4>2. v \in 0..Len(p)
        BY <1>2, <1>9, <4>1, PiecesAre
      <4>3. kept \in Pieces /\ Size(kept) = v
        BY <3>2, <4>1, <4>2, Cut
      <4>4. v <= v
        BY <1>2
      <4> QED BY <4>3, <4>4
    <3> QED BY <3>1, <3>2
  <2>2. partial' = [partial EXCEPT ![u] = kept]
    BY <1>9
  <2> HIDE DEF kept
  <2>3. row'[u] = row[u] /\ row[u].state \in Receivable
    BY <1>3, <1>9
  <2>4. Wrote(u)
    BY <1>1, <1>2, <2>1, <2>2, <2>3 DEF Wrote
  <2> QED BY <1>1, <1>9, <2>1, <2>2, <2>4
<1>10. CASE /\ R[u].state \in Receivable /\ Size(p) >= v /\ off = v
           /\ \E x \in {"good", "bad"} : partial' = [partial EXCEPT ![u] = Appended(p, off, x)]
           /\ row' = row
  <2>1. PICK x \in {"good", "bad"} : partial' = [partial EXCEPT ![u] = Appended(p, off, x)]
    BY <1>10
  <2>2. Appended(p, off, x) \in Pieces /\ Size(Appended(p, off, x)) = off + 1
    <3>1. p = Gone => off = 0
      BY <1>1, <1>10, PiecesAre
    <3>2. off <= Size(p)
      <4>1. Size(p) \in Nat
        BY <1>2, PiecesAre, Bounds
      <4> QED BY <1>1, <1>10, <4>1
    <3> QED BY <1>1, <1>2, <3>1, <3>2, Added
  <2>3. row'[u].verified = off /\ row'[u].state \in Receivable /\ row[u].state \in Receivable
    BY <1>2, <1>3, <1>10
  <2>4. Size(partial'[u]) = off + 1
    BY <1>1, <2>1, <2>2
  <2>5. Wrote(u)
    BY <1>1, <2>3, <2>4 DEF Wrote
  <2> HIDE DEF p, off
  <2> QED BY <1>1, <2>1, <2>2, <2>3, <2>4, <2>5 DEF off
<1>11. CASE R[u].state \notin Receivable
  <2>1. partial' = partial /\ Fail(t, "other") /\ UNCHANGED writer
    BY <1>11 DEF Write
  <2> QED BY <1>7, <1>5, <2>1
<1>12. CASE R[u].state \in Receivable /\ Size(p) < v
  <2>1. /\ row' = [R EXCEPT ![u].state = "failed_retryable", ![u].verified = 0]
        /\ partial' = [partial EXCEPT ![u] = Gone]
        /\ Fail(t, "other") /\ UNCHANGED writer
    BY <1>2, <1>12, PiecesAre DEF Write
  <2> QED BY <1>8, <1>5, <1>12, <2>1
<1>13. CASE R[u].state \in Receivable /\ ~(Size(p) < v)
  <2>1. Size(p) >= v
    <3>1. Size(p) \in Nat /\ v \in Nat
      BY <1>2, PiecesAre, Bounds
    <3> QED BY <1>13, <3>1
  <2>2. CASE off = v
    <3>1. /\ \E x \in {"good", "bad"} : partial' = [partial EXCEPT ![u] = Appended(p, off, x)]
          /\ row' = row
      BY <1>13, <2>2 DEF Write
    <3> QED BY <1>10, <1>13, <2>1, <2>2, <3>1
  <2>3. CASE off # v
    <3>1. /\ partial' = [partial EXCEPT ![u] = IF p = Gone THEN p ELSE SubSeq(p, 1, v)]
          /\ UNCHANGED writer
          /\ \/ row' = R /\ Set(t, [thread[t] EXCEPT !.pc = "release", !.off = v])
             \/ row' = row /\ Fail(t, "other")
      BY <1>13, <2>3 DEF Write
    <3> QED BY <1>9, <1>5, <1>6, <1>13, <2>1, <3>1
  <2> QED BY <2>2, <2>3
<1> QED BY <1>11, <1>12, <1>13

(* What a thread's step makes of the partials.                             *)
Gives(t) == /\ At(t) = "move" /\ At(t)' = "commit" /\ partial[Up(t)] = Whole
            /\ partial'[Up(t)] = Gone /\ object' = [object EXCEPT ![thread[t].f] = Whole]
PartialsMove(t) ==
    /\ partial' \in [Uploads -> Pieces \cup {Gone}]
    /\ \A u \in Uploads :
          \/ partial'[u] = partial[u]
          \/ u = Up(t) /\ At(t) = "write" /\ Wrote(u)
          \/ u = Up(t) /\ At(t) = "drop" /\ partial'[u] = Gone
          \/ u = Up(t) /\ Gives(t)
          \/ At(t) = "unlink" /\ u \in thread[t].todo /\ partial'[u] = Gone

(* What happens to one partial leaves the others alone.                    *)
LEMMA OnePartial ==
  ASSUME partial \in [Uploads -> Pieces \cup {Gone}], NEW u \in Uploads,
         partial' = [partial EXCEPT ![u] = Gone]
  PROVE  /\ partial' \in [Uploads -> Pieces \cup {Gone}] /\ partial'[u] = Gone
         /\ \A v \in Uploads \ {u} : partial'[v] = partial[v]
OBVIOUS

(* What a step of a thread makes of the partials.                          *)
LEMMA ThreadPartials ==
  ASSUME ThreadsGood, RowsGood, BytesGood, NEW t \in Threads, ThreadStep(t)
  PROVE  PartialsMove(t)
<1>1. partial \in [Uploads -> Pieces \cup {Gone}]
  BY DEF BytesGood
<1>2. CASE partial' = partial
  BY <1>1, <1>2 DEF PartialsMove
<1>3. CASE Write(t)
  <2>1. At(t) = "write"
    BY <1>3, WriteDoes
  <2> QED BY <1>1, <1>3, <2>1, WriteBytes DEF PartialsMove
<1>4. CASE Drop(t)
  <2>1. At(t) = "drop" /\ Up(t) \in Uploads /\ partial' = [partial EXCEPT ![Up(t)] = Gone]
    BY <1>4, DropDoes, ItsShape DEF Drop, Critical, Restarting
  <2> QED BY <1>1, <2>1, OnePartial DEF PartialsMove
<1>5. CASE Move(t) /\ partial' # partial
  <2>1. /\ At(t) = "move" /\ Up(t) \in Uploads /\ partial' = [partial EXCEPT ![Up(t)] = Gone]
        /\ At(t)' = "commit" /\ partial[Up(t)] = Whole
        /\ object' = [object EXCEPT ![thread[t].f] = Whole]
    BY <1>5, MoveDoes, ItsShape DEF Critical, Completing, Stays
  <2> QED BY <1>1, <2>1, OnePartial DEF PartialsMove, Gives
<1>6. CASE Unlink(t) /\ partial' # partial
  <2>1. PICK u \in thread[t].todo : u \in Uploads /\ partial' = [partial EXCEPT ![u] = Gone]
    BY <1>6, UnlinkDoes
  <2>2. At(t) = "unlink"
    BY <1>6, UnlinkDoes
  <2> QED BY <1>1, <2>1, <2>2, OnePartial DEF PartialsMove
<1>7. CASE ~(Write(t) \/ Drop(t) \/ Move(t) \/ Unlink(t))
  <2>1. partial' = partial
    BY <1>7 DEF ThreadStep, Step, disk, Acquire, Release, ReadRow, Check, Mark, Claim, Resume, Commit,
       ReadStale, Recover, Restart, Sweep, Create, GetSession, Send, Count, Insert, Undo,
       Discard, Forget, Shred, Add, CleanUp, Put, InsertFails, ForgetFails, CountFails, Delete, Purge
  <2> QED BY <1>2, <2>1
<1> QED BY <1>2, <1>3, <1>4, <1>5, <1>6, <1>7

(* And what chances and deaths make of them.                               *)
LEMMA ChancePartials ==
  ASSUME RowsGood, FilesGood, BytesGood
  PROVE  /\ \A u \in Uploads : RowChance(u) => partial' = partial
         /\ UNCHANGED vars => partial' = partial
         /\ \A v \in Uploads :
               Lose(v) => /\ partial' \in [Uploads -> Pieces \cup {Gone}]
                          /\ damaged' = damaged \cup {v} /\ row[v].state \in Receivable \cup {"completing"}
                          /\ \A u \in Uploads : partial'[u] = partial[u] \/ (u = v /\ partial'[u] = Gone)
         /\ Death => /\ partial' \in [Uploads -> Pieces \cup {Gone}]
                     /\ \A u \in Uploads :
                           \/ partial'[u] = partial[u]
                           \/ row[u].file \in unsynced /\ partial'[u] = object[row[u].file]
<1>1. partial \in [Uploads -> Pieces \cup {Gone}] /\ object \in [Files -> {Whole, Gone}]
      /\ unsynced \subseteq Files
  BY DEF BytesGood, FilesGood, FileOf
<1>2. \A u \in Uploads : RowChance(u) => partial' = partial
  BY DEF RowChance, Cancel, Lapse, FailedLapse, LeaseEnds, Age, disk
<1>3. UNCHANGED vars => partial' = partial
  BY DEF vars, disk
<1>4. ASSUME NEW v \in Uploads, Lose(v)
      PROVE  /\ partial' \in [Uploads -> Pieces \cup {Gone}]
             /\ damaged' = damaged \cup {v} /\ row[v].state \in Receivable \cup {"completing"}
             /\ \A u \in Uploads : partial'[u] = partial[u] \/ (u = v /\ partial'[u] = Gone)
  <2>1. partial' = [partial EXCEPT ![v] = Gone]
    BY <1>4 DEF Lose
  <2> QED BY <1>1, <1>4, <2>1, OnePartial DEF Lose, Active
<1>5. ASSUME Death
      PROVE  /\ partial' \in [Uploads -> Pieces \cup {Gone}]
             /\ \A u \in Uploads :
                   \/ partial'[u] = partial[u]
                   \/ row[u].file \in unsynced /\ partial'[u] = object[row[u].file]
  <2>1. CASE PowerLoss
    <3>1. PICK lost \in SUBSET unsynced :
            partial' = [u \in Uploads |-> IF row[u].file \in lost THEN object[row[u].file]
                                          ELSE partial[u]]
      BY <2>1 DEF PowerLoss
    <3>2. \A u \in Uploads : row[u].file \in lost => object[row[u].file] \in Pieces \cup {Gone}
      BY <1>1, PiecesAre
    <3> QED BY <1>1, <3>1, <3>2
  <2>2. CASE ~PowerLoss
    <3>1. partial' = partial
      BY <1>5, <2>2 DEF Death, Die, disk
    <3> QED BY <1>1, <3>1
  <2> QED BY <2>1, <2>2
<1> QED BY <1>2, <1>3, <1>4, <1>5

(* The rows stay as they should be.                                        *)
LEMMA RowsStayGood ==
  ASSUME VaultInv, [VaultNext]_vars
  PROVE  RowsGood'
<1> USE DEF VaultInv
<1>1. \A u \in Uploads : row[u].file \in Files \cup {NoFile} /\ row[u].key \in Keys \cup {NoKey}
  BY DEF RowsGood, Rows
<1>2. NoFile \notin Files
  BY VaultAssumption DEF VaultAssumption
<1>3. ASSUME RowsRest, \A u \in Uploads : row[u].state = "unused" => partial'[u] = partial[u]
      PROVE  RowsGood'
  <2>1. \A u \in Uploads : /\ row'[u].key \in {row[u].key, NoKey} /\ row'[u].file = row[u].file
                           /\ row'[u].file # NoFile <=> row'[u].state \in {"completing", "committed", "purged"}
                           /\ row'[u].state = "unused" => row[u].state = "unused"
    BY <1>3 DEF RowsRest, Keeps, Ends, RowsGood, Receivable
  <2>2. \A u \in Uploads : row'[u].state = "unused" => row'[u].key = NoKey /\ partial'[u] = Gone
    BY <1>3, <2>1 DEF RowsGood
  <2>3. \A u \in Uploads : \A v \in Uploads \ {u} :
           /\ row'[u].file # row'[v].file \/ row'[u].file = NoFile
           /\ row'[u].key # row'[v].key \/ row'[u].key = NoKey
    BY <2>1 DEF RowsGood
  <2> QED BY <1>3, <2>1, <2>2, <2>3 DEF RowsGood, RowsRest
<1>4. ASSUME NEW t \in Threads, ThreadStep(t) PROVE RowsGood'
  <2>1. RowsMove(t) /\ PartialsMove(t)
    BY <1>4, ThreadRows, ThreadPartials
  <2>2. \A u \in Uploads :
           /\ row'[u].file # NoFile <=> row'[u].state \in {"completing", "committed", "purged"}
           /\ row'[u].state = "unused" => row[u].state = "unused" /\ ~Opens(u)
    <3> TAKE u \in Uploads
    <3>1. CASE Keeps(u) \/ Ends(u) \/ Opens(u) \/ Purges(u)
      BY <3>1 DEF Keeps, Ends, Opens, Purges, RowsGood, Receivable
    <3>2. CASE u = Up(t) /\ Works(t)
      BY <1>2, <3>2 DEF Works, MarkWorks, ClaimWorks, CommitWorks, RestartWorks, WriteWorks, CountWorks,
         FreshFiles, RowsGood, Receivable
    <3> QED BY <2>1, <3>1, <3>2 DEF RowsMove
  <2>3. \A u \in Uploads : row'[u].state = "unused" => row'[u].key = NoKey /\ partial'[u] = Gone
    <3> TAKE u \in Uploads
    <3> HAVE row'[u].state = "unused"
    <3>1. row[u].state = "unused" /\ row[u].key = NoKey /\ partial[u] = Gone /\ ~Opens(u)
      BY <2>2 DEF RowsGood
    <3>2. row'[u].key = NoKey
      BY <2>1, <3>1 DEF RowsMove
    <3>3. ~Wrote(u) /\ ~(u = Up(t) /\ Gives(t))
      BY <3>1, PiecesAre DEF Wrote, Gives, Receivable
    <3> QED BY <2>1, <3>1, <3>2, <3>3 DEF PartialsMove
  <2>4. \A u \in Uploads : \/ row'[u].file \in {row[u].file, NoFile}
                           \/ u = Up(t) /\ row'[u].file \in FreshFiles
    <3> TAKE u \in Uploads
    <3>1. CASE Keeps(u) \/ Ends(u) \/ Opens(u) \/ Purges(u)
      BY <3>1 DEF Keeps, Ends, Opens, Purges
    <3>2. CASE u = Up(t) /\ Works(t)
      BY <3>2 DEF Works, MarkWorks, ClaimWorks, CommitWorks, RestartWorks, WriteWorks, CountWorks
    <3> QED BY <2>1, <3>1, <3>2 DEF RowsMove
  <2>5. \A u \in Uploads : \A v \in Uploads \ {u} :
           row'[u].file # row'[v].file \/ row'[u].file = NoFile
    BY <2>4 DEF RowsGood, FreshFiles
  <2>6. \A u \in Uploads : \A v \in Uploads \ {u} :
           row'[u].key # row'[v].key \/ row'[u].key = NoKey
    BY <2>1 DEF RowsGood, RowsMove, Opens
  <2> QED BY <2>1, <2>2, <2>3, <2>5, <2>6 DEF RowsGood, RowsMove
<1>5. ASSUME NEW u \in Uploads, RowChance(u) \/ Lose(u) PROVE RowsGood'
  <2>1. RowsRest
    BY <1>5, ChanceRows
  <2>2. \A v \in Uploads : row[v].state = "unused" => partial'[v] = partial[v]
    BY <1>5, ChancePartials DEF Receivable
  <2> QED BY <1>3, <2>1, <2>2
<1>6. CASE Death \/ UNCHANGED vars
  <2>1. RowsRest
    BY <1>6, ChanceRows
  <2>2. \A v \in Uploads : row[v].state = "unused" => partial'[v] = partial[v]
    BY <1>2, <1>6, ChancePartials DEF FilesGood, FileOf, RowsGood
  <2> QED BY <1>3, <2>1, <2>2
<1> QED BY <1>4, <1>5, <1>6, NextIs

(* What is finished stays so, and what is used stays used.                 *)
LEMMA FinishedLasts ==
  ASSUME NEW t, RowsMove(t), NEW u \in Uploads
  PROVE  /\ Finished(u) => Finished(u)'
         /\ row[u].state # "unused" => row'[u].state # "unused"
<1>1. CASE Keeps(u) \/ Ends(u) \/ Opens(u) \/ Purges(u)
  BY <1>1 DEF Keeps, Ends, Opens, Purges, Finished, Receivable, Terminal
<1>2. CASE u = Up(t) /\ Works(t)
  BY <1>2 DEF Works, MarkWorks, ClaimWorks, CommitWorks, RestartWorks, WriteWorks, CountWorks,
     Finished, Receivable, Terminal
<1> QED BY <1>1, <1>2 DEF RowsMove

(* The holder of an upload that is not finished is the only one.           *)
LEMMA SoleHolder ==
  ASSUME ThreadsGood, LocksGood, NEW s \in Threads, NEW t \in Threads, At(s) \in Critical, At(t) \in Critical,
         Up(s) = Up(t), ~Finished(Up(t))
  PROVE  s = t
<1>1. thread[s].holds /\ thread[t].holds /\ Up(t) \in Uploads
  BY ItsShape
<1>2. lockfile[Up(t)] = 1
  BY <1>1 DEF LocksGood
<1>3. thread[s].fd \in Nat /\ thread[t].fd \in Nat
  BY ItsShape DEF ThreadRecords
<1>4. 0 < thread[s].fd /\ thread[s].fd <= 1 /\ 0 < thread[t].fd /\ thread[t].fd <= 1
  BY <1>1, <1>2 DEF LocksGood
<1>5. thread[s].fd = thread[t].fd
  BY <1>3, <1>4
<1> QED BY <1>1, <1>5 DEF LocksGood

(* How a thread comes to a lock, has it, and leaves it.                    *)
LockStep(t) ==
  \/ /\ At(t) \in Critical /\ thread'[t].holds
     /\ Up(t)' = Up(t) /\ thread'[t].fd = thread[t].fd
  \/ /\ At(t) = "wait" /\ ~Excluded(t)
     /\ Up(t)' = Up(t) /\ thread'[t].fd = thread[t].fd
  \/ ~thread'[t].holds /\ Up(t)' \in {NoUpload, Up(t)} /\ At(t)' # "wait"
  \/ /\ ~thread'[t].holds /\ At(t)' = "wait"
     /\ Up(t)' \in Uploads /\ row[Up(t)'].state # "unused" /\ thread'[t].fd = lockfile[Up(t)']
  \/ ~thread'[t].holds /\ At(t)' = "get" /\ Up(t)' \in Uploads /\ row'[Up(t)'].state # "unused"

(* What the steps of a thread make of its lock.                            *)
LEMMA LockSteps ==
  ASSUME VaultInv, RowsGood', NEW t \in Threads, ThreadStep(t)
  PROVE  LockStep(t)
<1> USE DEF VaultInv
<1>1. ASSUME NEW P, Stays(t, P), At(t) \in Critical PROVE LockStep(t)
  BY <1>1, ItsShape DEF Stays, LockStep
<1>2. ASSUME NEW P, Quiet(t, P), "wait" \notin P PROVE LockStep(t)
  BY <1>2 DEF Quiet, LockStep
<1>3. CASE Acquire(t)
  BY <1>3, AcquireDoes DEF LockStep, Acquire
<1>4. CASE Release(t)
  <2>1. ~thread'[t].holds /\ Up(t)' \in {NoUpload, Up(t)} /\ At(t)' # "wait"
    BY <1>4, ReleaseDoes
  <2> QED BY <2>1 DEF LockStep
<1>5. CASE \/ ReadRow(t) \/ Check(t) \/ Mark(t) \/ Claim(t) \/ Resume(t) \/ Move(t) \/ Commit(t)
           \/ Drop(t) \/ Restart(t) \/ Write(t) \/ Count(t) \/ CountFails(t)
  <2>1. At(t) \in Critical /\ \E P : Stays(t, P)
    BY <1>5, ReadRowDoes, CheckDoes, MarkDoes, ClaimDoes, ResumeDoes, MoveDoes, CommitDoes, DropDoes,
       RestartDoes, WriteDoes, CountDoes, CountFailsDoes
       DEF Critical, Looking, Completing, Restarting, Writing
  <2> QED BY <1>1, <2>1
<1>6. CASE \/ ReadStale(t) \/ Sweep(t) \/ Unlink(t) \/ GetSession(t) \/ Add(t) \/ CleanUp(t)
           \/ Insert(t) \/ Undo(t) \/ Discard(t) \/ Forget(t) \/ Shred(t) \/ InsertFails(t)
           \/ ForgetFails(t) \/ Put(t)
  <2>1. \E P : Quiet(t, P) /\ "wait" \notin P
    <3>1. CASE ReadStale(t) \/ Sweep(t) \/ Add(t) \/ CleanUp(t) \/ Put(t)
      <4>1. Quiet(t, {"recover"}) \/ Quiet(t, {"unlink"}) \/ Quiet(t, {"stale"}) \/ Quiet(t, {"insert"})
        BY <3>1, ReadStaleDoes, SweepDoes, BeginsDo, PutDoes
      <4> QED BY <4>1
    <3>2. CASE Unlink(t) \/ GetSession(t)
      <4>1. Quiet(t, {"unlink", "create", "idle"}) \/ Quiet(t, {"idle", "send"})
        BY <3>2, UnlinkDoes, GetSessionDoes
      <4> QED BY <4>1
    <3>3. CASE \/ Insert(t) \/ Undo(t) \/ Discard(t) \/ Forget(t) \/ Shred(t) \/ InsertFails(t)
               \/ ForgetFails(t)
      <4>1. Quiet(t, {"idle"}) \/ Quiet(t, {"undo"}) \/ Quiet(t, {"shred"})
        BY <3>3, FileStepsDo
      <4> QED BY <4>1
    <3> QED BY <1>6, <3>1, <3>2, <3>3
  <2> QED BY <1>2, <2>1
<1>7. CASE Recover(t)
  <2>1. CASE Quiet(t, {"sweep"})
    BY <1>2, <2>1
  <2>2. CASE ~Quiet(t, {"sweep"})
    <3>1. PICK u \in thread[t].todo :
             /\ At(t)' = "wait" /\ Up(t)' = u /\ ~thread'[t].holds /\ u \in Uploads
             /\ thread'[t].fd = lockfile[u]
      BY <1>7, <2>2, RecoverDoes
    <3>2. At(t) = "recover"
      BY <1>7, RecoverDoes
    <3>3. row[u].state # "unused"
      BY <3>1, <3>2 DEF WorkGood, WorkOf, Stale
    <3> QED BY <3>1, <3>3 DEF LockStep
  <2> QED BY <2>1, <2>2
<1>8. CASE Send(t)
  <2>1. CASE Quiet(t, {"idle"})
    BY <1>2, <2>1
  <2>2. CASE ~Quiet(t, {"idle"})
    <3>1. /\ At(t)' = "wait" /\ Up(t)' = Up(t) /\ ~thread'[t].holds /\ thread'[t].fd = lockfile[Up(t)]
          /\ At(t) = "send"
      BY <1>8, <2>2, SendDoes
    <3>2. Up(t) \in Uploads /\ row[Up(t)].state # "unused"
      BY <3>1, ItsShape DEF LocksGood
    <3> QED BY <3>1, <3>2 DEF LockStep
  <2> QED BY <2>1, <2>2
<1>9. CASE Create(t)
  <2> DEFINE R == ReleasedKey(Expired(row), t)
  <2>1. /\ At(t)' = "get" /\ ~thread'[t].holds
        /\ \/ Up(t)' \in Standing(R, t) /\ row' = R
           \/ /\ Standing(R, t) = {} /\ Up(t)' \in Uploads /\ R[Up(t)'].state = "unused"
              /\ row' = [R EXCEPT ![Up(t)'] = [Unused EXCEPT !.state = "created", !.key = Wants[t]]]
    BY <1>9, CreateDoes
  <2>2. Wants[t] \in Keys /\ NoKey \notin Keys
    <3>1. t \in Adders
      BY <1>9, CreateDoes DEF WorkGood, WorkOf
    <3> QED BY <3>1, VaultAssumption DEF VaultAssumption
  <2>3. CASE Up(t)' \in Standing(R, t) /\ row' = R
    <3>1. Up(t)' \in Uploads /\ row'[Up(t)'].key = Wants[t]
      BY <2>3 DEF Standing
    <3>2. row'[Up(t)'].state # "unused"
      BY <2>2, <3>1 DEF RowsGood
    <3> QED BY <2>1, <3>1, <3>2 DEF LockStep
  <2>4. CASE /\ Up(t)' \in Uploads
             /\ row' = [R EXCEPT ![Up(t)'] = [Unused EXCEPT !.state = "created", !.key = Wants[t]]]
    <3>1. DOMAIN R = Uploads
      BY DEF ReleasedKey
    <3> HIDE DEF R
    <3>2. row'[Up(t)'].state = "created"
      BY <2>4, <3>1 DEF Unused
    <3> QED BY <2>1, <2>4, <3>2 DEF LockStep
  <2> QED BY <2>1, <2>3, <2>4
<1>10. CASE \E f \in Files : Delete(t, f) \/ Purge(t, f)
  <2>1. PICK f \in Files : Delete(t, f) \/ Purge(t, f)
    BY <1>10
  <2>2. Quiet(t, {"discard"}) \/ Quiet(t, {"forget"}) \/ (thread' = thread /\ At(t) = "idle")
    BY <2>1, DeleteDoes, PurgeDoes DEF Purge
  <2>3. CASE thread' = thread /\ At(t) = "idle"
    BY <2>3, ItsShape DEF LockStep, At, Up, Critical, Completing, Looking, Restarting, Writing
  <2> QED BY <1>2, <2>2, <2>3
<1> QED BY <1>3, <1>4, <1>5, <1>6, <1>7, <1>8, <1>9, <1>10 DEF ThreadStep, Step

(* Lock files change only when an upload is finished.                      *)
LEMMA LockFiles ==
  ASSUME VaultInv, NEW t \in Threads, ThreadStep(t)
  PROVE  \/ lockfile' = lockfile
         \/ \E u \in Uploads : Finished(u) /\ lockfile' = [lockfile EXCEPT ![u] = @ + 1]
<1> USE DEF VaultInv
<1>1. CASE Release(t)
  <2>1. Up(t) \in Uploads /\ row[Up(t)].state # "unused"
    BY <1>1, ReleaseDoes, ItsShape DEF Critical, LocksGood
  <2>2. Over(Up(t)) => Finished(Up(t))
    BY <2>1 DEF Over, Finished, Absent
  <2> QED BY <1>1, <2>1, <2>2, ReleaseDoes DEF Unlinked
<1>2. CASE Unlink(t)
  <2>1. At(t) = "unlink" /\ \A u \in thread[t].todo : Finished(u)
    BY <1>2, UnlinkDoes DEF LocksGood
  <2> QED BY <1>2, <2>1, UnlinkDoes DEF Unlinked
<1>3. CASE ~(Release(t) \/ Unlink(t))
  BY <1>3 DEF ThreadStep, Step, disk, Acquire, ReadRow, Check, Mark, Claim, Resume, Move, Commit,
     ReadStale, Recover, Drop, Restart, Sweep, Create, GetSession, Send, Write, Count, Insert, Undo,
     Discard, Forget, Shred, Add, CleanUp, Put, InsertFails, ForgetFails, CountFails, Delete, Purge
<1> QED BY <1>1, <1>2, <1>3

(* Whoever unlinks has a list of uploads that are over.                    *)
LEMMA SweptAreFinished ==
  ASSUME VaultInv, NEW t \in Threads, ThreadStep(t), At(t)' = "unlink", NEW u \in thread'[t].todo
  PROVE  u \in Uploads /\ Finished(u)'
<1> USE DEF VaultInv
<1>1. RowsMove(t)
  BY ThreadRows
<1>2. CASE Sweep(t)
  <2>1. u \in Uploads /\ ~Active(row', u) /\ (partial[u] # Gone \/ Opened(u, t))
    BY <1>2, SweepDoes
  <2>2. row[u].state # "unused"
    BY <2>1 DEF RowsGood, LocksGood, Opened, Up
  <2>3. row'[u].state \in States /\ row'[u].state # "unused"
    BY <1>1, <2>1, <2>2, FinishedLasts DEF RowsMove, Rows
  <2> QED BY <2>1, <2>3 DEF Active, Finished, States, Absent, Terminal, Receivable
<1>3. CASE Unlink(t)
  <2>1. At(t) = "unlink" /\ u \in thread[t].todo
    BY <1>3, UnlinkDoes
  <2>2. u \in Uploads /\ Finished(u)
    BY <2>1, ItsShape DEF LocksGood, ThreadRecords
  <2> QED BY <1>1, <2>2, FinishedLasts
<1>4. CASE ~(Sweep(t) \/ Unlink(t))
  <2>1. At(t)' # "unlink" \/ (At(t) = "unlink" /\ thread' = thread)
    <3>1. CASE \/ Acquire(t) \/ Release(t) \/ ReadRow(t) \/ Check(t) \/ Mark(t) \/ Claim(t)
               \/ Resume(t) \/ Move(t) \/ Commit(t) \/ Drop(t) \/ Restart(t)
      <4>1. CASE Acquire(t) \/ Release(t)
        BY <4>1, AcquireDoes, ReleaseDoes
      <4>2. CASE ReadRow(t) \/ Check(t) \/ Mark(t) \/ Claim(t)
        BY <4>2, ReadRowDoes, CheckDoes, MarkDoes, ClaimDoes DEF Stays
      <4>3. CASE Resume(t) \/ Move(t) \/ Commit(t) \/ Drop(t) \/ Restart(t)
        BY <4>3, ResumeDoes, MoveDoes, CommitDoes, DropDoes, RestartDoes DEF Stays
      <4> QED BY <3>1, <4>1, <4>2, <4>3
    <3>2. CASE \/ ReadStale(t) \/ Recover(t) \/ Create(t) \/ GetSession(t)
               \/ Send(t) \/ Write(t) \/ Count(t) \/ CountFails(t) \/ Add(t) \/ CleanUp(t)
      BY <3>2, ReadStaleDoes, RecoverDoes, CreateDoes, GetSessionDoes,
         SendDoes, WriteDoes, CountDoes, CountFailsDoes, BeginsDo DEF Stays, Quiet
    <3>3. CASE \/ Insert(t) \/ Undo(t) \/ Discard(t) \/ Forget(t) \/ Shred(t) \/ InsertFails(t)
               \/ ForgetFails(t) \/ Put(t)
      BY <3>3, FileStepsDo, PutDoes DEF Quiet
    <3>4. ASSUME NEW f \in Files, Delete(t, f) \/ Purge(t, f) PROVE At(t)' # "unlink"
      <4>1. At(t) = "idle"
        BY <3>4 DEF Delete, Purge
      <4> QED BY <3>4, <4>1, DeleteDoes, PurgeDoes DEF Quiet, At
    <3> QED BY <1>4, <3>1, <3>2, <3>3, <3>4 DEF ThreadStep, Step
  <2> QED BY <2>1, <1>1, FinishedLasts, ItsShape DEF LocksGood, ThreadRecords
<1> QED BY <1>2, <1>3, <1>4

(* A step of a thread keeps the locks as they should be.                   *)
LEMMA LocksByThread ==
  ASSUME VaultInv, ThreadsGood', RowsGood', NEW t \in Threads, ThreadStep(t)
  PROVE  LocksGood'
<1> USE DEF VaultInv
<1>1. Others(t) /\ RowsMove(t) /\ LockStep(t)
  BY ThreadStepMoves, ThreadRows, LockSteps
<1>2. /\ lockfile' \in [Uploads -> Nat \ {0}]
      /\ \A u \in Uploads : lockfile'[u] = lockfile[u] \/ (Finished(u) /\ lockfile'[u] = lockfile[u] + 1)
  <2>1. lockfile \in [Uploads -> Nat \ {0}]
    BY DEF LocksGood
  <2>2. CASE lockfile' = lockfile
    BY <2>1, <2>2
  <2>3. ASSUME NEW u \in Uploads, Finished(u), lockfile' = [lockfile EXCEPT ![u] = @ + 1]
        PROVE  /\ lockfile' \in [Uploads -> Nat \ {0}]
               /\ \A v \in Uploads : lockfile'[v] = lockfile[v] \/ (Finished(v) /\ lockfile'[v] = lockfile[v] + 1)
    <3>1. lockfile[u] + 1 \in Nat \ {0}
      BY <2>1
    <3> QED BY <2>1, <2>3, <3>1
  <2> QED BY <2>2, <2>3, LockFiles
<1>3. \A u \in Uploads : /\ ~Finished(u)' => lockfile'[u] = 1
                         /\ lockfile[u] \in Nat \ {0} /\ lockfile[u] <= lockfile'[u]
  <2> TAKE u \in Uploads
  <2>1. Finished(u) => Finished(u)'
    BY <1>1, FinishedLasts
  <2>2. lockfile[u] \in Nat \ {0} /\ (~Finished(u) => lockfile[u] = 1)
    BY DEF LocksGood
  <2> QED BY <1>2, <2>1, <2>2
<1>4. \A s \in Threads : Shape(thread'[s]) /\ (thread'[s].holds <=> At(s)' \in Critical) /\ thread'[s].fd \in Nat
  BY DEF ThreadsGood, Shape, ThreadRecords, At
<1>5. \A s \in Threads : Shape(thread[s]) /\ (thread[s].holds <=> At(s) \in Critical) /\ thread[s].fd \in Nat
                         /\ (At(s) \in Critical \cup {"wait"} => Up(s) \in Uploads)
  BY ItsShape DEF ThreadRecords
<1>6. NoUpload \notin Uploads /\ "wait" \notin Critical /\ "get" \notin Critical \cup {"wait"}
  BY VaultAssumption DEF VaultAssumption, NoUpload, Critical, Completing, Looking, Restarting, Writing
<1>7. \A s \in Threads : Up(s)' \in Uploads =>
         /\ row'[Up(s)'].state # "unused"
         /\ At(s)' \in Critical \cup {"wait"} => 0 < thread'[s].fd /\ thread'[s].fd <= lockfile'[Up(s)']
  <2> TAKE s \in Threads
  <2> HAVE Up(s)' \in Uploads
  <2>1. CASE s # t \/ (/\ Up(t)' = Up(t) /\ thread'[t].fd = thread[t].fd
                       /\ At(t) \in Critical \cup {"wait"})
    <3>1. Up(s)' = Up(s) /\ thread'[s].fd = thread[s].fd
          /\ (At(s)' \in Critical \cup {"wait"} => At(s) \in Critical \cup {"wait"})
      BY <1>1, <2>1 DEF Others, Up, At
    <3>2. row'[Up(s)].state # "unused"
      BY <1>1, <3>1, FinishedLasts DEF LocksGood
    <3>3. ASSUME At(s)' \in Critical \cup {"wait"} PROVE 0 < thread'[s].fd /\ thread'[s].fd <= lockfile'[Up(s)']
      <4>1. 0 < thread[s].fd /\ thread[s].fd <= lockfile[Up(s)]
        BY <3>1, <3>3 DEF LocksGood
      <4>2. lockfile[Up(s)] \in Nat /\ lockfile'[Up(s)] \in Nat /\ lockfile[Up(s)] <= lockfile'[Up(s)]
        BY <1>2, <1>3, <3>1
      <4> QED BY <1>5, <3>1, <4>1, <4>2
    <3> QED BY <3>1, <3>2, <3>3
  <2>2. CASE s = t /\ ~thread'[t].holds /\ Up(t)' \in {NoUpload, Up(t)} /\ At(t)' # "wait"
    <3>1. Up(t)' = Up(t)
      BY <1>6, <2>2
    <3>2. row'[Up(t)].state # "unused"
      BY <1>1, <3>1, <2>2, FinishedLasts DEF LocksGood
    <3> QED BY <1>4, <2>2, <3>1, <3>2
  <2>3. CASE /\ s = t /\ ~thread'[t].holds /\ At(t)' = "wait"
             /\ row[Up(t)'].state # "unused" /\ thread'[t].fd = lockfile[Up(t)']
    <3>1. row'[Up(t)'].state # "unused"
      BY <1>1, <2>3, FinishedLasts
    <3>2. /\ lockfile[Up(t)'] \in Nat \ {0} /\ lockfile'[Up(t)'] \in Nat
          /\ lockfile[Up(t)'] <= lockfile'[Up(t)']
      BY <1>2, <1>3, <2>3
    <3> QED BY <2>3, <3>1, <3>2
  <2>4. CASE s = t /\ ~thread'[t].holds /\ At(t)' = "get" /\ row'[Up(t)'].state # "unused"
    BY <1>6, <2>4
  <2> QED BY <1>1, <2>1, <2>2, <2>3, <2>4 DEF LockStep
<1>8. \A r, s \in Threads :
         thread'[r].holds /\ thread'[s].holds /\ Up(r)' = Up(s)' /\ thread'[r].fd = thread'[s].fd => r = s
  <2>1. \A s \in Threads \ {t} : /\ thread'[s].holds = thread[s].holds /\ Up(s)' = Up(s)
                                 /\ thread'[s].fd = thread[s].fd
    BY <1>1 DEF Others, Up
  <2>2. ASSUME NEW s \in Threads \ {t}, thread'[t].holds, thread'[s].holds, Up(t)' = Up(s)',
               thread'[t].fd = thread'[s].fd
        PROVE  FALSE
    <3>1. At(t)' \in Critical
      BY <1>4, <2>2
    <3>2. CASE At(t) \in Critical /\ Up(t)' = Up(t) /\ thread'[t].fd = thread[t].fd
      BY <1>5, <2>1, <2>2, <3>2 DEF LocksGood
    <3>3. CASE ~Excluded(t) /\ Up(t)' = Up(t) /\ thread'[t].fd = thread[t].fd
      BY <2>1, <2>2, <3>3 DEF Excluded, Up
    <3> QED BY <1>1, <1>6, <2>2, <3>1, <3>2, <3>3 DEF LockStep
  <2> QED BY <2>1, <2>2 DEF LocksGood
<1>9. \A s \in Threads : At(s)' = "unlink" => \A u \in thread'[s].todo : Finished(u)'
  <2> TAKE s \in Threads
  <2> HAVE At(s)' = "unlink"
  <2>1. CASE s = t
    BY <2>1, SweptAreFinished
  <2>2. CASE s # t
    <3>1. At(s) = "unlink" /\ thread'[s].todo = thread[s].todo /\ thread[s].todo \subseteq Uploads
      BY <1>1, <2>2, ItsShape DEF Others, At, ThreadRecords
    <3> QED BY <1>1, <3>1, FinishedLasts DEF LocksGood
  <2> QED BY <2>1, <2>2
<1> QED BY <1>2, <1>3, <1>7, <1>8, <1>9 DEF LocksGood

(* The fields of an idle thread.                                           *)
LEMMA IdleIs == Idle.pc = "idle" /\ Idle.u = NoUpload /\ ~Idle.holds /\ Idle.todo = {} /\ Idle.task = "none"
BY DEF Idle

(* Whatever happens, the locks stay as they should be.                     *)
LEMMA LocksStayGood ==
  ASSUME VaultInv, [VaultNext]_vars
  PROVE  LocksGood'
<1> USE DEF VaultInv
<1>1. ThreadsGood' /\ RowsGood'
  BY ThreadsStayGood, RowsStayGood
<1>2. ASSUME RowsRest, lockfile' = lockfile,
             \A t \in Threads : thread'[t] = thread[t] \/ thread'[t] = Idle
      PROVE  LocksGood'
  <2>1. \A u \in Uploads : (Finished(u) => Finished(u)') /\ (row[u].state # "unused" => row'[u].state # "unused")
    BY <1>2, RestMoves, FinishedLasts
  <2>2. NoUpload \notin Uploads
    BY VaultAssumption DEF VaultAssumption, NoUpload
  <2>3. \A t \in Threads : \/ /\ Up(t)' = Up(t) /\ At(t)' = At(t) /\ thread'[t] = thread[t]
                           \/ At(t)' = "idle" /\ Up(t)' \notin Uploads /\ ~thread'[t].holds
    BY <1>2, <2>2, IdleIs DEF At, Up
  <2>4. \A t \in Threads : thread[t].todo \subseteq Uploads
    BY ItsShape DEF ThreadRecords
  <2> QED BY <1>2, <2>1, <2>3, <2>4 DEF LocksGood
<1>3. ASSUME NEW u \in Uploads, RowChance(u) \/ Lose(u) PROVE LocksGood'
  <2>1. lockfile' = lockfile /\ thread' = thread
    BY <1>3 DEF RowChance, Lose, Cancel, Lapse, FailedLapse, LeaseEnds, Age, disk
  <2> QED BY <1>2, <1>3, <2>1, ChanceRows
<1>4. CASE Death
  <2>1. lockfile' = lockfile
    BY <1>4 DEF Death, Die, PowerLoss, disk
  <2> QED BY <1>2, <1>4, <2>1, ChanceRows, DeathMoves
<1>5. CASE UNCHANGED vars
  <2>1. lockfile' = lockfile /\ thread' = thread
    BY <1>5 DEF vars, disk
  <2> QED BY <1>2, <1>5, <2>1, ChanceRows
<1> QED BY <1>1, <1>3, <1>4, <1>5, NextIs, LocksByThread

(* What a thread's step makes of the files.                                *)
ObjectsMove(t) ==
    /\ object' \in [Files -> {Whole, Gone}] /\ hidden' \in [Files -> {Whole, Gone}]
    /\ \A f \in Files :
          \/ object'[f] = object[f]
          \/ Gives(t) /\ f = thread[t].f /\ object'[f] = Whole
          \/ At(t) = "idle" /\ f \in FreshFiles /\ object'[f] = Whole
          \/ life[f] \in {"deleted", "purged"}
          \/ At(t) = "undo" /\ f = thread[t].f
LivesMove(t) ==
    /\ life' \in [Files -> {"none", "live", "deleted", "purged"}]
    /\ \A f \in Files :
          \/ life'[f] = life[f]
          \/ At(t) = "commit" /\ f = thread[t].f /\ row[Up(t)].file = f /\ CommitWorks(Up(t))
             /\ life'[f] = "live" /\ f \notin unsynced'
          \/ At(t) = "insert" /\ f = thread[t].f /\ life'[f] = "live"
          \/ At(t) = "idle" /\ life[f] \in {"live", "deleted"} /\ life'[f] = "deleted"
          \/ At(t) = "forget" /\ f = thread[t].f /\ life[f] = "deleted" /\ life'[f] = "purged"
    /\ At(t) = "commit" /\ CommitWorks(Up(t)) => life'[row[Up(t)].file] = "live"
SyncsMove(t) ==
    \/ unsynced' \subseteq unsynced
    \/ Gives(t) /\ unsynced' = unsynced \cup {thread[t].f}
FileThread(t) ==
    \/ At(t)' \notin OnFile
    \/ /\ At(t)' = "insert" /\ At(t) = "idle" /\ thread'[t].f \in FreshFiles
       /\ object'[thread'[t].f] = Whole /\ UNCHANGED <<row, life, unsynced>>
    \/ /\ At(t)' = "undo" /\ At(t) = "insert" /\ thread'[t].f = thread[t].f
       /\ UNCHANGED <<row, life, unsynced>>
    \/ At(t)' = "discard" /\ thread'[t].f \in Files /\ life'[thread'[t].f] = "deleted"
    \/ At(t)' = "forget" /\ thread'[t].f \in Files /\ life'[thread'[t].f] = "deleted"
    \/ At(t)' = "shred" /\ thread'[t].f \in Files /\ life'[thread'[t].f] = "purged"
FilesMove(t) == ObjectsMove(t) /\ LivesMove(t) /\ SyncsMove(t) /\ FileThread(t)

(* Files that stay as they are.                                            *)
LEMMA FilesStand ==
  ASSUME FilesGood, NEW t, UNCHANGED <<life, object, hidden, unsynced>>,
         ~(At(t) = "commit" /\ CommitWorks(Up(t)))
  PROVE  ObjectsMove(t) /\ LivesMove(t) /\ SyncsMove(t)
BY DEF FilesGood, FileOf, ObjectsMove, LivesMove, SyncsMove

(* A thread that is not at a file has no file to answer for.               *)
LEMMA OffFile ==
  ASSUME NEW t, \/ \E P : Stays(t, P) /\ P \cap OnFile = {}
                \/ \E P : Quiet(t, P) /\ P \cap OnFile = {}
  PROVE  FileThread(t)
BY DEF Stays, Quiet, FileThread

(* A thread at a file has one.                                             *)
LEMMA FileOfThread ==
  ASSUME ThreadsGood, NEW t \in Threads, At(t) \in Completing \cup OnFile
  PROVE  thread[t].f \in Files
BY ItsShape DEF Shape, At

(* What the steps under a lock make of the files.                          *)
LEMMA CriticalFiles ==
  ASSUME VaultInv, NEW t \in Threads,
         \/ Acquire(t) \/ Release(t) \/ ReadRow(t) \/ Check(t) \/ Mark(t) \/ Claim(t)
         \/ Resume(t) \/ Move(t) \/ Commit(t) \/ Drop(t) \/ Restart(t)
         \/ Write(t) \/ Count(t) \/ CountFails(t)
  PROVE  FilesMove(t)
<1> USE DEF VaultInv
<1>1. {"release", "resume", "check", "mark", "claim", "move", "commit", "drop", "restart", "count",
       "write", "read", "idle", "recover", "added", "send"} \cap OnFile = {}
  BY DEF OnFile
<1>2. FileThread(t)
  <2>1. CASE Acquire(t) \/ Release(t)
    BY <1>1, <2>1, AcquireDoes, ReleaseDoes DEF FileThread
  <2>2. CASE \/ ReadRow(t) \/ Check(t) \/ Mark(t) \/ Claim(t) \/ Resume(t) \/ Move(t) \/ Commit(t)
             \/ Drop(t) \/ Restart(t)
    <3>1. At(t)' \in {"release", "resume", "check", "mark", "claim", "move", "commit", "drop", "restart"}
      BY <2>2, ReadRowDoes, CheckDoes, MarkDoes, ClaimDoes, ResumeDoes, MoveDoes, CommitDoes, DropDoes,
         RestartDoes DEF Stays
    <3> QED BY <1>1, <3>1 DEF FileThread
  <2>3. CASE Write(t) \/ Count(t) \/ CountFails(t)
    <3>1. At(t)' \in {"release", "count"}
      BY <2>3, WriteDoes, CountDoes, CountFailsDoes DEF Stays
    <3> QED BY <1>1, <3>1 DEF FileThread
  <2> QED BY <2>1, <2>2, <2>3
<1>3. CASE \/ Acquire(t) \/ Release(t) \/ ReadRow(t) \/ Check(t) \/ Mark(t) \/ Claim(t)
           \/ Resume(t) \/ Drop(t) \/ Restart(t) \/ Write(t) \/ Count(t) \/ CountFails(t)
  <2>1. UNCHANGED <<life, object, hidden, unsynced>> /\ At(t) # "commit"
    BY <1>3 DEF disk, Acquire, Release, ReadRow, Check, Mark, Claim, Resume, Drop, Restart, Write,
       Count, CountFails
  <2> QED BY <1>2, <2>1, FilesStand DEF FilesMove
<1>4. CASE Move(t)
  <2>1. At(t) = "move" /\ thread[t].f \in Files /\ UNCHANGED <<life, hidden>>
    BY <1>4, MoveDoes, FileOfThread DEF Completing, Move
  <2>2. object \in [Files -> {Whole, Gone}]
    BY DEF FilesGood, FileOf
  <2>3. CASE UNCHANGED <<object, unsynced>>
    BY <1>2, <2>1, <2>3, FilesStand DEF FilesMove
  <2>4. CASE ~UNCHANGED <<object, unsynced>>
    <3>1. /\ partial[Up(t)] = Whole /\ object' = [object EXCEPT ![thread[t].f] = Whole]
          /\ partial' = [partial EXCEPT ![Up(t)] = Gone] /\ At(t)' = "commit"
          /\ unsynced' = unsynced \cup {thread[t].f}
      BY <1>4, <2>4, MoveDoes DEF Stays
    <3>2. Up(t) \in Uploads
      BY <2>1, ItsShape DEF Critical, Completing
    <3>3. Gives(t)
      BY <2>1, <3>1, <3>2 DEF Gives, BytesGood
    <3>4. ObjectsMove(t)
      BY <2>1, <2>2, <3>1, <3>3 DEF ObjectsMove, FilesGood, FileOf
    <3>5. LivesMove(t)
      BY <2>1 DEF LivesMove, FilesGood, FileOf
    <3> QED BY <1>2, <3>1, <3>3, <3>4, <3>5 DEF FilesMove, SyncsMove
  <2> QED BY <2>3, <2>4
<1>5. CASE Commit(t)
  <2>1. /\ At(t) = "commit" /\ thread[t].f \in Files /\ UNCHANGED <<object, hidden>> /\ Up(t) \in Uploads
        /\ unsynced' = unsynced \ {thread[t].f}
    BY <1>5, CommitDoes, FileOfThread, ItsShape DEF Completing, Commit, Critical
  <2>2. ObjectsMove(t) /\ SyncsMove(t)
    BY <2>1 DEF ObjectsMove, SyncsMove, FilesGood, FileOf
  <2>3. CASE UNCHANGED <<row, life>>
    <3>1. ~CommitWorks(Up(t))
      BY <2>3 DEF CommitWorks
    <3> QED BY <1>2, <2>2, <2>3, <3>1 DEF FilesMove, LivesMove, FilesGood, FileOf
  <2>4. CASE ~UNCHANGED <<row, life>>
    <3>1. /\ row[Up(t)].file = thread[t].f
          /\ row' = [row EXCEPT ![Up(t)].state = "committed", ![Up(t)].verified = Total,
                                ![Up(t)].aged = FALSE]
          /\ row[Up(t)].state = "completing"
          /\ life' = [life EXCEPT ![thread[t].f] = "live"]
      BY <1>5, <2>4, CommitDoes
    <3>2. CommitWorks(Up(t))
      <4>1. row \in [Uploads -> Rows] /\ row[Up(t)] \in Rows
        BY <2>1 DEF RowsGood
      <4> QED BY <2>1, <3>1, <4>1 DEF CommitWorks, Rows
    <3>3. LivesMove(t)
      BY <2>1, <3>1, <3>2 DEF LivesMove, FilesGood, FileOf
    <3> QED BY <1>2, <2>2, <3>3 DEF FilesMove
  <2> QED BY <2>3, <2>4
<1> QED BY <1>3, <1>4, <1>5

(* The steps between them leave the files alone.                           *)
LEMMA OtherFiles ==
  ASSUME VaultInv, NEW t \in Threads,
         \/ ReadStale(t) \/ Recover(t) \/ Sweep(t) \/ Unlink(t) \/ Create(t) \/ GetSession(t)
         \/ Send(t) \/ Add(t) \/ CleanUp(t)
  PROVE  FilesMove(t)
<1> USE DEF VaultInv
<1>1. At(t)' \notin OnFile
  <2>1. CASE ReadStale(t) \/ Recover(t) \/ Sweep(t) \/ Unlink(t)
    BY <2>1, ReadStaleDoes, RecoverDoes, SweepDoes, UnlinkDoes DEF Quiet, OnFile
  <2>2. CASE Create(t) \/ GetSession(t) \/ Send(t)
    BY <2>2, CreateDoes, GetSessionDoes, SendDoes DEF Quiet, OnFile
  <2>3. CASE Add(t) \/ CleanUp(t)
    BY <2>3, BeginsDo DEF Quiet, OnFile
  <2> QED BY <2>1, <2>2, <2>3
<1>2. UNCHANGED <<life, object, hidden, unsynced>> /\ At(t) # "commit"
  BY DEF disk, ReadStale, Recover, Sweep, Unlink, Create, GetSession, Send, Add, CleanUp
<1> QED BY <1>1, <1>2, FilesStand DEF FilesMove, FileThread

(* What the steps on files make of them.                                   *)
LEMMA FilesFiles ==
  ASSUME VaultInv, NEW t \in Threads,
         \/ Put(t) \/ Insert(t) \/ InsertFails(t) \/ Undo(t) \/ Discard(t) \/ Forget(t)
         \/ ForgetFails(t) \/ Shred(t) \/ \E f \in Files : Delete(t, f) \/ Purge(t, f)
  PROVE  FilesMove(t)
<1> USE DEF VaultInv
<1>1. /\ object \in [Files -> {Whole, Gone}] /\ hidden \in [Files -> {Whole, Gone}]
      /\ life \in [Files -> {"none", "live", "deleted", "purged"}]
  BY DEF FilesGood, FileOf
<1>2. CASE Put(t)
  <2>1. PICK f \in FreshFiles : thread'[t].f = f /\ object' = [object EXCEPT ![f] = Whole]
    BY <1>2, PutDoes
  <2>2. At(t) = "idle" /\ At(t)' = "insert" /\ UNCHANGED <<row, life, hidden, unsynced>> /\ f \in Files
    BY <1>2, PutDoes DEF Quiet, Put, FreshFiles
  <2> QED BY <1>1, <2>1, <2>2 DEF FilesMove, ObjectsMove, LivesMove, SyncsMove, FileThread
<1>3. CASE Insert(t)
  <2>1. /\ At(t) = "insert" /\ At(t)' = "idle" /\ thread[t].f \in Files
        /\ life' = [life EXCEPT ![thread[t].f] = "live"] /\ UNCHANGED <<object, hidden, unsynced>>
    BY <1>3, FileStepsDo, FileOfThread DEF Quiet, Insert, disk, OnFile
  <2> QED BY <1>1, <2>1 DEF FilesMove, ObjectsMove, LivesMove, SyncsMove, FileThread, OnFile
<1>4. CASE InsertFails(t)
  <2>1. /\ At(t) = "insert" /\ At(t)' = "undo" /\ thread'[t].f = thread[t].f
        /\ UNCHANGED <<row, life, object, hidden, unsynced>>
    BY <1>4, FileStepsDo DEF Quiet, InsertFails, disk
  <2> QED BY <1>1, <2>1 DEF FilesMove, ObjectsMove, LivesMove, SyncsMove, FileThread
<1>5. CASE Undo(t)
  <2>1. /\ At(t) = "undo" /\ At(t)' = "idle" /\ thread[t].f \in Files
        /\ object' = [object EXCEPT ![thread[t].f] = Gone] /\ UNCHANGED <<life, hidden, unsynced>>
    BY <1>5, FileStepsDo, FileOfThread DEF Quiet, Undo, OnFile
  <2> QED BY <1>1, <2>1 DEF FilesMove, ObjectsMove, LivesMove, SyncsMove, FileThread, OnFile
<1>6. CASE Discard(t)
  <2>1. /\ At(t) = "discard" /\ At(t)' = "idle" /\ thread[t].f \in Files
        /\ life[thread[t].f] \in {"deleted", "purged"}
        /\ object' = [object EXCEPT ![thread[t].f] = Gone] /\ UNCHANGED <<life, hidden, unsynced>>
    BY <1>6, FileStepsDo, FileOfThread DEF Quiet, Discard, OnFile, FilesGood, FileOf
  <2> QED BY <1>1, <2>1 DEF FilesMove, ObjectsMove, LivesMove, SyncsMove, FileThread, OnFile
<1>7. CASE Forget(t)
  <2>1. /\ At(t) = "forget" /\ At(t)' = "shred" /\ thread[t].f \in Files /\ thread'[t].f = thread[t].f
        /\ life[thread[t].f] = "deleted" /\ life' = [life EXCEPT ![thread[t].f] = "purged"]
        /\ UNCHANGED <<object, hidden, unsynced>>
    BY <1>7, FileStepsDo, FileOfThread DEF Quiet, Forget, OnFile, FilesGood, FileOf, disk
  <2> QED BY <1>1, <2>1 DEF FilesMove, ObjectsMove, LivesMove, SyncsMove, FileThread
<1>8. CASE ForgetFails(t)
  <2> DEFINE f == thread[t].f
             moved == thread[t].was = "moved"
  <2>1. /\ At(t) = "forget" /\ At(t)' = "idle" /\ f \in Files /\ life[f] = "deleted"
        /\ object' = [object EXCEPT ![f] = IF moved THEN hidden[f] ELSE @]
        /\ hidden' = [hidden EXCEPT ![f] = IF moved THEN Gone ELSE @]
        /\ UNCHANGED <<life, unsynced>>
    BY <1>8, FileStepsDo, FileOfThread DEF Quiet, ForgetFails, OnFile, FilesGood, FileOf
  <2> HIDE DEF f, moved
  <2>2. /\ object' \in [Files -> {Whole, Gone}] /\ hidden' \in [Files -> {Whole, Gone}]
        /\ \A g \in Files \ {f} : object'[g] = object[g]
    BY <1>1, <2>1
  <2> QED BY <1>1, <2>1, <2>2 DEF FilesMove, ObjectsMove, LivesMove, SyncsMove, FileThread, OnFile
<1>9. CASE Shred(t)
  <2>1. /\ At(t) = "shred" /\ At(t)' = "idle" /\ thread[t].f \in Files
        /\ hidden' = [hidden EXCEPT ![thread[t].f] = Gone] /\ UNCHANGED <<life, object, unsynced>>
    BY <1>9, FileStepsDo, FileOfThread DEF Quiet, Shred, OnFile
  <2> QED BY <1>1, <2>1 DEF FilesMove, ObjectsMove, LivesMove, SyncsMove, FileThread, OnFile
<1>10. ASSUME NEW f \in Files, Delete(t, f) PROVE FilesMove(t)
  <2>1. /\ At(t) = "idle" /\ At(t)' = "discard" /\ thread'[t].f = f /\ life[f] \in {"live", "deleted"}
        /\ life' = [life EXCEPT ![f] = "deleted"] /\ UNCHANGED <<object, hidden, unsynced>>
    BY <1>10, DeleteDoes DEF Quiet, Delete, disk
  <2> QED BY <1>1, <2>1 DEF FilesMove, ObjectsMove, LivesMove, SyncsMove, FileThread
<1>11. ASSUME NEW f \in Files, Purge(t, f) PROVE FilesMove(t)
  <2>1. UNCHANGED <<life, unsynced>> /\ At(t) = "idle"
    BY <1>11 DEF Purge
  <2>2. CASE /\ Quiet(t, {"forget"}) /\ thread'[t].f = f /\ life[f] = "deleted"
             /\ object' = [object EXCEPT ![f] = Gone]
             /\ hidden' = [hidden EXCEPT ![f] = IF object[f] # Gone THEN object[f] ELSE @]
    <3>1. /\ object' \in [Files -> {Whole, Gone}] /\ hidden' \in [Files -> {Whole, Gone}]
          /\ \A g \in Files \ {f} : object'[g] = object[g]
      BY <1>1, <2>2
    <3>2. At(t)' = "forget"
      BY <2>2 DEF Quiet
    <3> QED BY <1>1, <2>1, <2>2, <3>1, <3>2 DEF FilesMove, ObjectsMove, LivesMove, SyncsMove, FileThread
  <2>3. CASE UNCHANGED <<object, thread>> /\ hidden' = [hidden EXCEPT ![f] = Gone]
    <3>1. At(t)' \notin OnFile
      BY <2>1, <2>3 DEF At, OnFile
    <3> QED BY <1>1, <2>1, <2>3, <3>1 DEF FilesMove, ObjectsMove, LivesMove, SyncsMove, FileThread
  <2> QED BY <1>11, <2>2, <2>3, PurgeDoes
<1> QED BY <1>2, <1>3, <1>4, <1>5, <1>6, <1>7, <1>8, <1>9, <1>10, <1>11

(* What a step of a thread makes of the files.                             *)
LEMMA ThreadFiles ==
  ASSUME VaultInv, NEW t \in Threads, ThreadStep(t)
  PROVE  FilesMove(t)
BY CriticalFiles, OtherFiles, FilesFiles DEF ThreadStep, Step

(* Whose file a file is.                                                   *)
LEMMA FileOwner ==
  ASSUME VaultInv, NEW u \in Uploads, row[u].file \in Files
  PROVE  \A v \in Uploads : row[v].file = row[u].file => v = u
BY VaultAssumption DEF VaultInv, RowsGood, VaultAssumption

(* The file of a completion is that of its row, and not a live one yet.    *)
LEMMA WorkedFile ==
  ASSUME VaultInv, NEW t \in Threads, At(t) \in Completing
  PROVE  /\ Up(t) \in Uploads /\ row[Up(t)].state = "completing" /\ row[Up(t)].file = thread[t].f
         /\ thread[t].f \in Files /\ life[thread[t].f] = "none"
         /\ At(t) = "move" => object[thread[t].f] = Gone
         /\ At(t) = "commit" => object[thread[t].f] = Whole
<1> USE DEF VaultInv
<1>1. Up(t) \in Uploads /\ thread[t].f \in Files
  BY ItsShape, FileOfThread DEF Critical
<1>2. row[Up(t)].state = "completing" /\ row[Up(t)].file = thread[t].f
  BY DEF WorkGood, WorkOf
<1>3. life[thread[t].f] = "none"
  BY <1>1, <1>2 DEF FilesGood, FileOf
<1> QED BY <1>1, <1>2, <1>3 DEF WorkGood, WorkOf

(* An object whose rename may be undone belongs to no file yet.            *)
LEMMA SyncsStayGood ==
  ASSUME VaultInv, NEW t \in Threads, FilesMove(t)
  PROVE  unsynced' \subseteq Files /\ \A f \in unsynced' : life'[f] = "none" /\ object'[f] = Whole
<1> USE DEF VaultInv
<1>1. Gives(t) => /\ thread[t].f \in Files /\ life[thread[t].f] = "none" /\ At(t) = "move"
                  /\ object'[thread[t].f] = Whole
  BY WorkedFile DEF Gives, Completing, FilesGood, FileOf
<1>2. ASSUME NEW f \in unsynced' PROVE f \in Files /\ life'[f] = "none" /\ object'[f] = Whole
  <2>1. CASE f \in unsynced
    <3>1. f \in Files /\ life[f] = "none" /\ object[f] = Whole /\ Whole # Gone
      BY <2>1, PiecesAre DEF FilesGood, FileOf
    <3>2. ~(At(t) \in {"insert", "undo"} /\ f = thread[t].f)
      BY <2>1 DEF FilesGood, FileOf
    <3>3. f \notin FreshFiles
      BY <3>1 DEF FreshFiles
    <3>4. object'[f] = Whole
      BY <3>1, <3>2, <3>3 DEF FilesMove, ObjectsMove
    <3>5. life'[f] = "none"
      BY <1>2, <3>1, <3>2 DEF FilesMove, LivesMove
    <3> QED BY <3>1, <3>4, <3>5
  <2>2. CASE f \notin unsynced
    <3>1. Gives(t) /\ f = thread[t].f
      BY <1>2, <2>2 DEF FilesMove, SyncsMove
    <3>2. life'[f] = life[f]
      BY <1>1, <3>1 DEF FilesMove, LivesMove
    <3> QED BY <1>1, <3>1, <3>2
  <2> QED BY <2>1, <2>2
<1> QED BY <1>2

(* The file of a row is there exactly when the row says so.                *)
LEMMA RowFilesStayGood ==
  ASSUME VaultInv, NEW t \in Threads, FilesMove(t), RowsMove(t), NEW u \in Uploads
  PROVE  /\ row'[u].state = "completing" => life'[row'[u].file] = "none"
         /\ row'[u].state = "committed" => life'[row'[u].file] # "none"
<1> USE DEF VaultInv
<1>1. row[u].state \in {"completing", "committed"} => row[u].file \in Files
  BY DEF RowsGood, Rows
<1>2. CASE Keeps(u) /\ row[u].state = "completing"
  <2> DEFINE f == row[u].file
  <2>1. f \in Files /\ life[f] = "none"
    BY <1>1, <1>2 DEF FilesGood, FileOf
  <2>2. ~(At(t) = "commit" /\ f = thread[t].f /\ row[Up(t)].file = f /\ CommitWorks(Up(t)))
    <3>1. ASSUME At(t) = "commit", row[Up(t)].file = f, CommitWorks(Up(t)) PROVE FALSE
      <4>1. Up(t) \in Uploads
        BY <3>1, ItsShape DEF Critical, Completing
      <4>2. Up(t) = u
        BY <2>1, <3>1, <4>1, FileOwner
      <4> QED BY <1>2, <3>1, <4>2 DEF CommitWorks, Keeps
    <3> QED BY <3>1
  <2>3. ~(At(t) = "insert" /\ f = thread[t].f)
    BY DEF FilesGood, FileOf, Named
  <2>4. life'[f] = "none"
    BY <2>1, <2>2, <2>3 DEF FilesMove, LivesMove
  <2> QED BY <1>2, <2>4 DEF Keeps
<1>3. CASE Keeps(u) /\ row[u].state = "committed"
  <2>1. row[u].file \in Files /\ life[row[u].file] # "none"
    BY <1>1, <1>3 DEF FilesGood, FileOf
  <2>2. life'[row[u].file] # "none"
    BY <2>1 DEF FilesMove, LivesMove
  <2> QED BY <1>3, <2>2 DEF Keeps
<1>4. CASE u = Up(t) /\ Works(t)
  <2>1. CASE At(t) = "claim" /\ ClaimWorks(u, thread'[t].f)
    <3>1. row'[u].file \in Files /\ life[row'[u].file] = "none" /\ row'[u].state = "completing"
      BY <2>1 DEF ClaimWorks, FreshFiles
    <3>2. life'[row'[u].file] = "none"
      BY <2>1, <3>1 DEF FilesMove, LivesMove
    <3> QED BY <3>1, <3>2
  <2>2. CASE At(t) = "commit" /\ CommitWorks(u)
    BY <1>4, <2>2 DEF CommitWorks, FilesMove, LivesMove
  <2>3. CASE MarkWorks(u) \/ RestartWorks(u) \/ WriteWorks(u) \/ CountWorks(u, thread[t].off + 1)
    BY <2>3 DEF MarkWorks, RestartWorks, WriteWorks, CountWorks
  <2> QED BY <1>4, <2>1, <2>2, <2>3 DEF Works
<1>5. CASE Ends(u) \/ Opens(u) \/ Purges(u)
  BY <1>5 DEF Ends, Opens, Purges
<1> QED BY <1>2, <1>3, <1>4, <1>5 DEF RowsMove, Keeps

(* An upload keeps its file, loses it, or claims a fresh one.              *)
LEMMA NewFiles ==
  ASSUME NEW t, RowsMove(t), NEW u \in Uploads
  PROVE  row'[u].file \in {row[u].file, NoFile} \/ (row'[u].file \in FreshFiles /\ At(t) = "claim")
<1>1. CASE Keeps(u) \/ Ends(u) \/ Opens(u) \/ Purges(u)
  BY <1>1 DEF Keeps, Ends, Opens, Purges
<1>2. CASE u = Up(t) /\ Works(t)
  BY <1>2 DEF Works, MarkWorks, ClaimWorks, CommitWorks, RestartWorks, WriteWorks, CountWorks
<1> QED BY <1>1, <1>2 DEF RowsMove

(* The files of the threads that did not move.                             *)
LEMMA OtherFileThreads ==
  ASSUME VaultInv, NEW t \in Threads, Others(t), FilesMove(t), RowsMove(t), NEW s \in Threads \ {t}
  PROVE  FileOf(s)'
<1> USE DEF VaultInv
<1> DEFINE g == thread[s].f
<1>1. thread'[s] = thread[s] /\ At(s)' = At(s)
  BY DEF Others, At
<1>2. At(s) \in OnFile => g \in Files /\ g # NoFile
  BY FileOfThread, VaultAssumption DEF VaultAssumption
<1>6. \A f \in Files : life[f] \in {"deleted", "purged"} /\ At(t) \in {"commit", "insert"}
                       => thread[t].f # f
  BY WorkedFile DEF Completing, FilesGood, FileOf
<1>3. CASE At(s) \in {"insert", "undo"}
  <2>1. /\ s = Putter /\ life[g] = "none" /\ ~Named(g) /\ g \notin unsynced
        /\ At(s) = "insert" => object[g] = Whole
    BY <1>3 DEF ThreadsGood, FilesGood, FileOf
  <2>2. At(t) \notin {"insert", "undo"}
    BY <2>1 DEF ThreadsGood
  <2>3. g \notin FreshFiles /\ g \in Files /\ g # NoFile
    BY <1>2, <1>3 DEF FreshFiles, OnFile
  <2>4. \A u \in Uploads : row[u].file # g
    BY <2>1 DEF Named
  <2>5. At(t) \in Completing => thread[t].f # g
    BY <2>4, WorkedFile
  <2>6. ~Gives(t) \/ thread[t].f # g
    BY <2>5 DEF Gives, Completing
  <2>7. \A u \in Uploads : row'[u].file # g
    BY <2>3, <2>4, NewFiles
  <2>8. g \notin unsynced'
    BY <2>1, <2>6 DEF FilesMove, SyncsMove
  <2>9. life'[g] = "none"
    BY <2>1, <2>2, <2>3, <2>5 DEF FilesMove, LivesMove, Completing
  <2>10. object'[g] = object[g]
    BY <2>1, <2>2, <2>3, <2>6 DEF FilesMove, ObjectsMove
  <2> HIDE DEF g
  <2>11. thread'[s].f = g
    BY <1>1 DEF g
  <2> QED BY <1>1, <1>3, <2>1, <2>7, <2>8, <2>9, <2>10, <2>11 DEF FileOf, Named
<1>4. CASE At(s) \in {"discard", "shred"}
  <2>1. g \in Files /\ life[g] \in {"deleted", "purged"}
    BY <1>2, <1>4 DEF FilesGood, FileOf, OnFile
  <2>2. life'[g] \in {"deleted", "purged"}
    BY <1>6, <2>1 DEF FilesMove, LivesMove
  <2> QED BY <1>1, <1>4, <2>2 DEF FileOf
<1>5. CASE At(s) = "forget"
  <2>1. g \in Files /\ life[g] = "deleted"
    BY <1>2, <1>5 DEF FilesGood, FileOf, OnFile
  <2>2. At(t) # "forget"
    BY <1>5 DEF ThreadsGood
  <2>3. life'[g] = "deleted"
    BY <1>6, <2>1, <2>2 DEF FilesMove, LivesMove
  <2> QED BY <1>1, <1>5, <2>3 DEF FileOf
<1> QED BY <1>1, <1>3, <1>4, <1>5 DEF FileOf

(* And of the one that did.                                                *)
LEMMA OwnFileThread ==
  ASSUME VaultInv, NEW t \in Threads, FilesMove(t), RowsMove(t)
  PROVE  FileOf(t)'
<1> USE DEF VaultInv
<1> DEFINE f == thread'[t].f
<1>1. CASE At(t)' \notin OnFile
  BY <1>1 DEF FileOf, OnFile
<1>2. CASE /\ At(t)' = "insert" /\ f \in FreshFiles
           /\ object'[f] = Whole /\ UNCHANGED <<row, life, unsynced>>
  <2>1. life[f] = "none" /\ (\A u \in Uploads : row[u].file # f) /\ f \notin unsynced
    BY <1>2, PiecesAre DEF FreshFiles, FilesGood
  <2> QED BY <1>2, <2>1 DEF FileOf, Named
<1>3. CASE /\ At(t)' = "undo" /\ At(t) = "insert" /\ f = thread[t].f
           /\ UNCHANGED <<row, life, unsynced>>
  <2>1. life[f] = "none" /\ (\A u \in Uploads : row[u].file # f) /\ f \notin unsynced
    BY <1>3 DEF FilesGood, FileOf, Named
  <2> QED BY <1>3, <2>1 DEF FileOf, Named
<1>4. CASE \/ At(t)' \in {"discard", "forget"} /\ life'[f] = "deleted"
           \/ At(t)' = "shred" /\ life'[f] = "purged"
  BY <1>4 DEF FileOf
<1> QED BY <1>1, <1>2, <1>3, <1>4 DEF FilesMove, FileThread

(* A step of a thread keeps the files as they should be.                   *)
LEMMA FilesByThread ==
  ASSUME VaultInv, NEW t \in Threads, ThreadStep(t)
  PROVE  FilesGood'
<1>1. Others(t) /\ FilesMove(t) /\ RowsMove(t)
  BY ThreadStepMoves, ThreadFiles, ThreadRows DEF VaultInv
<1>2. \A s \in Threads : FileOf(s)'
  BY <1>1, OtherFileThreads, OwnFileThread
<1>3. /\ life' \in [Files -> {"none", "live", "deleted", "purged"}]
      /\ object' \in [Files -> {Whole, Gone}] /\ hidden' \in [Files -> {Whole, Gone}]
  BY <1>1 DEF FilesMove, ObjectsMove, LivesMove
<1>4. \A u \in Uploads : /\ row'[u].state = "completing" => life'[row'[u].file] = "none"
                         /\ row'[u].state = "committed" => life'[row'[u].file] # "none"
  BY <1>1, RowFilesStayGood
<1>5. /\ unsynced' \subseteq Files
      /\ \A f \in unsynced' : life'[f] = "none" /\ object'[f] = Whole
  BY <1>1, SyncsStayGood
<1> QED BY <1>2, <1>3, <1>4, <1>5 DEF FilesGood

(* Whatever happens, the files stay as they should be.                     *)
LEMMA FilesStayGood ==
  ASSUME VaultInv, [VaultNext]_vars
  PROVE  FilesGood'
<1> USE DEF VaultInv
<1>1. ASSUME RowsRest, life' = life, hidden' = hidden,
             object' \in [Files -> {Whole, Gone}], unsynced' \subseteq unsynced,
             \A f \in unsynced' : object'[f] = object[f],
             \A t \in Threads : \/ thread'[t] = thread[t] /\ object' = object
                                \/ At(t)' \notin OnFile
      PROVE  FilesGood'
  <2>1. \A u \in Uploads : /\ row'[u].file = row[u].file
                           /\ row'[u].state \in {"completing", "committed"} => row'[u].state = row[u].state
    BY <1>1 DEF RowsRest, Keeps, Ends
  <2>2. \A t \in Threads : FileOf(t)'
    <3> TAKE t \in Threads
    <3>1. CASE At(t)' \notin OnFile
      BY <3>1 DEF FileOf, OnFile
    <3>2. CASE thread'[t] = thread[t] /\ object' = object
      <4>1. FileOf(t) /\ At(t)' = At(t)
        BY <3>2 DEF FilesGood, At
      <4> QED BY <1>1, <2>1, <3>2, <4>1 DEF FileOf, Named
    <3> QED BY <1>1, <3>1, <3>2
  <2> QED BY <1>1, <2>1, <2>2 DEF FilesGood
<1>2. ASSUME NEW u \in Uploads, RowChance(u) \/ Lose(u) PROVE FilesGood'
  <2>1. UNCHANGED <<thread, life, object, hidden, unsynced>>
    BY <1>2 DEF RowChance, Lose, Cancel, Lapse, FailedLapse, LeaseEnds, Age, disk
  <2> QED BY <1>1, <1>2, <2>1, ChanceRows DEF FilesGood
<1>3. CASE UNCHANGED vars
  <2>1. UNCHANGED <<thread, life, object, hidden, unsynced>>
    BY <1>3 DEF vars, disk
  <2> QED BY <1>1, <1>3, <2>1, ChanceRows DEF FilesGood
<1>4. CASE PowerLoss
  <2>1. PICK lost \in SUBSET unsynced : object' = [f \in Files |-> IF f \in lost THEN Gone ELSE object[f]]
    BY <1>4 DEF PowerLoss
  <2>2. life' = life /\ hidden' = hidden /\ unsynced' = {}
    BY <1>4 DEF PowerLoss
  <2>3. object' \in [Files -> {Whole, Gone}]
    BY <2>1 DEF FilesGood
  <2>4. \A t \in Threads : At(t)' \notin OnFile
    <3>1. \A t \in Threads : thread'[t] = Idle \/ At(t)' = "added"
      BY <1>4, DeathMoves DEF Death
    <3> QED BY <3>1, IdleIs DEF At, OnFile
  <2> QED BY <1>1, <1>4, <2>2, <2>3, <2>4, ChanceRows DEF Death
<1>5. CASE Death /\ ~PowerLoss
  <2>1. UNCHANGED <<life, object, hidden, unsynced>>
    BY <1>5 DEF Death, Die, disk
  <2>2. \A t \in Threads : thread'[t] = thread[t] \/ At(t)' \notin OnFile
    BY <1>5, DeathMoves, IdleIs DEF At, OnFile
  <2> QED BY <1>1, <1>5, <2>1, <2>2, ChanceRows DEF FilesGood
<1> QED BY <1>2, <1>3, <1>4, <1>5, NextIs, FilesByThread

(* Bytes.                                                                  *)
LEMMA ThreadsDamageNothing ==
  ASSUME NEW t \in Threads, ThreadStep(t)
  PROVE  damaged' = damaged
<1>1. CASE \/ Acquire(t) \/ Release(t) \/ ReadRow(t) \/ Check(t) \/ Mark(t) \/ Claim(t)
           \/ Resume(t) \/ Move(t) \/ Commit(t) \/ Drop(t) \/ Restart(t) \/ ReadStale(t) \/ Recover(t)
           \/ Sweep(t) \/ Unlink(t) \/ Create(t) \/ GetSession(t) \/ Send(t) \/ Add(t)
  BY <1>1 DEF Unspent, Acquire, Release, ReadRow, Check, Mark, Claim, Resume, Move, Commit, Drop,
     Restart, ReadStale, Recover, Sweep, Unlink, Create, GetSession, Send, Add
<1>2. CASE \/ Write(t) \/ Count(t) \/ CountFails(t) \/ CleanUp(t) \/ Put(t) \/ Insert(t)
           \/ InsertFails(t) \/ Undo(t) \/ Discard(t) \/ Forget(t) \/ ForgetFails(t) \/ Shred(t)
           \/ \E f \in Files : Delete(t, f) \/ Purge(t, f)
  BY <1>2 DEF Unspent, Write, Count, CountFails, CleanUp, Put, Insert, InsertFails, Undo, Discard,
     Forget, ForgetFails, Shred, Delete, Purge
<1> QED BY <1>1, <1>2 DEF ThreadStep, Step

(* A loss of power gives back the partials whose renames it undoes.        *)
LEMMA DeathBytes ==
  ASSUME VaultInv, Death
  PROVE  /\ damaged' = damaged /\ life' = life
         /\ \A f \in Files : object'[f] = object[f] \/ life[f] = "none"
         /\ \A u \in Uploads :
               \/ partial'[u] = partial[u] /\ (row[u].file \in Files => object'[row[u].file] = object[row[u].file])
               \/ row[u].file \in Files /\ life[row[u].file] = "none" /\ partial'[u] = Whole
<1> USE DEF VaultInv
<1>1. CASE PowerLoss
  <2>1. PICK lost \in SUBSET unsynced :
          /\ partial' = [u \in Uploads |-> IF row[u].file \in lost THEN object[row[u].file]
                                           ELSE partial[u]]
          /\ object' = [f \in Files |-> IF f \in lost THEN Gone ELSE object[f]]
    BY <1>1 DEF PowerLoss
  <2>2. \A f \in lost : f \in Files /\ life[f] = "none" /\ object[f] = Whole
    BY DEF FilesGood
  <2>3. damaged' = damaged /\ life' = life
    BY <1>1 DEF PowerLoss
  <2> QED BY <2>1, <2>2, <2>3
<1>2. CASE ~PowerLoss
  <2>1. UNCHANGED <<partial, object, damaged, life>>
    BY <1>2 DEF Death, Die, disk
  <2> QED BY <2>1
<1> QED BY <1>1, <1>2

(* Live files stay whole through the steps of threads.                     *)
LEMMA LiveFilesStayWhole ==
  ASSUME VaultInv, NEW t \in Threads, FilesMove(t), NEW f \in Files, life'[f] = "live"
  PROVE  object'[f] = Whole
<1> USE DEF VaultInv
<1>1. CASE life[f] = "live"
  <2>1. object[f] = Whole
    BY <1>1 DEF BytesGood, FilesAreWhole
  <2>2. ~(Gives(t) /\ f = thread[t].f)
    BY <1>1, WorkedFile DEF Gives, Completing
  <2>3. ~(At(t) = "undo" /\ f = thread[t].f)
    BY <1>1 DEF FilesGood, FileOf
  <2> QED BY <1>1, <2>1, <2>2, <2>3 DEF FilesMove, ObjectsMove, FreshFiles
<1>2. CASE life[f] # "live"
  <2>1. At(t) \in {"commit", "insert"} /\ f = thread[t].f
    BY <1>2 DEF FilesMove, LivesMove
  <2>2. object[f] = Whole /\ life[f] = "none"
    BY <2>1, WorkedFile DEF Completing, FilesGood, FileOf
  <2> QED BY <2>1, <2>2 DEF FilesMove, ObjectsMove, Gives
<1> QED BY <1>1, <1>2

(* Verified pieces stay through the steps of threads.                      *)
LEMMA VerifiedBytesStay ==
  ASSUME VaultInv, NEW t \in Threads, RowsMove(t), PartialsMove(t),
         NEW u \in Uploads \ damaged, row'[u].state \in Receivable
  PROVE  row'[u].verified <= Size(partial'[u])
<1> USE DEF VaultInv
<1>1. \A p \in Pieces \cup {Gone} : Size(p) \in Nat
  BY PiecesAre, Bounds
<1>2. partial'[u] \in Pieces \cup {Gone}
  BY DEF PartialsMove
<1>3. CASE row'[u].verified = 0
  BY <1>1, <1>2, <1>3
<1>4. CASE Wrote(u)
  BY <1>4 DEF Wrote
<1>5. ~(u = Up(t) /\ At(t) = "drop" /\ row[u].state \in Receivable \cup {"completing"})
  <2>1. ASSUME u = Up(t), At(t) = "drop" PROVE thread[t].task = "recover"
    BY <2>1, ItsShape DEF Shape, At, Restarting
  <2> QED BY <2>1 DEF WorkGood, WorkOf, Restarting, Stale
<1>6. row[u].state \in Receivable /\ ~Wrote(u) => partial'[u] = partial[u]
  <2>1. row[u].state \in Receivable => ~(u = Up(t) /\ Gives(t))
    BY WorkedFile DEF Gives, Completing, Receivable
  <2>2. row[u].state \in Receivable => ~(At(t) = "unlink" /\ u \in thread[t].todo)
    BY DEF LocksGood, Finished, Terminal, Receivable
  <2> QED BY <1>5, <2>1, <2>2 DEF PartialsMove
<1>7. row[u].state \in Receivable => row[u].verified <= Size(partial[u])
  BY DEF BytesGood, FilesAreWhole
<1>8. CASE Keeps(u) \/ (u = Up(t) /\ MarkWorks(u))
  <2>1. row[u].state \in Receivable /\ row'[u].verified = row[u].verified
    BY <1>8 DEF Keeps, MarkWorks
  <2> QED BY <1>4, <1>6, <1>7, <2>1
<1>9. CASE u = Up(t) /\ At(t) = "count" /\ CountWorks(u, thread[t].off + 1)
  <2>1. row[u].state \in Receivable /\ Size(partial[u]) = thread[t].off + 1
    BY <1>9 DEF WorkGood, WorkOf, CountWorks
  <2>2. Size(partial[u]) \in Nat
    BY <1>1 DEF BytesGood
  <2>3. row'[u].verified = Size(partial[u])
    BY <1>9, <2>1 DEF CountWorks
  <2>4. Size(partial[u]) <= Size(partial[u])
    BY <2>2
  <2> QED BY <1>4, <1>6, <2>1, <2>3, <2>4
<1>10. CASE (u = Up(t) /\ (RestartWorks(u) \/ WriteWorks(u))) \/ Opens(u)
  BY <1>3, <1>10 DEF RestartWorks, WriteWorks, Opens
<1>11. ~(Ends(u) \/ Purges(u) \/ (u = Up(t) /\ (CommitWorks(u) \/ ClaimWorks(u, thread'[t].f))))
  BY DEF Ends, Purges, CommitWorks, ClaimWorks, Receivable
<1> QED BY <1>8, <1>9, <1>10, <1>11 DEF RowsMove, Works

(* The bytes of a completion stay through the steps of threads.            *)
LEMMA CompletingBytesStay ==
  ASSUME VaultInv, NEW t \in Threads, RowsMove(t), PartialsMove(t), FilesMove(t),
         NEW u \in Uploads \ damaged, row'[u].state = "completing"
  PROVE  Whole \in {partial'[u], object'[row'[u].file]}
<1> USE DEF VaultInv
<1>1. CASE Keeps(u)
  <2> DEFINE f == row[u].file
  <2>1. /\ row[u].state = "completing" /\ row'[u].file = f /\ f \in Files /\ life[f] = "none"
        /\ Whole \in {partial[u], object[f]}
    BY <1>1 DEF Keeps, RowsGood, Rows, FilesGood, BytesGood, FilesAreWhole
  <2> HIDE DEF f
  <2>2. CASE object[f] = Whole
    <3>1. ~(At(t) = "undo" /\ f = thread[t].f)
      BY <2>1 DEF FilesGood, FileOf, Named, f
    <3>2. object'[f] = Whole
      BY <2>1, <2>2, <3>1 DEF FilesMove, ObjectsMove
    <3> QED BY <2>1, <3>2
  <2>3. CASE partial[u] = Whole
    <3>1. ~(u = Up(t) /\ At(t) = "drop")
      BY <2>1 DEF WorkGood, WorkOf, Restarting
    <3>2. ~Wrote(u) /\ ~(At(t) = "unlink" /\ u \in thread[t].todo)
      BY <2>1 DEF Wrote, LocksGood, Finished, Terminal, Receivable
    <3>3. CASE u = Up(t) /\ Gives(t)
      <4>1. thread[t].f = f
        BY <3>3, WorkedFile DEF Gives, Completing, f
      <4>2. object'[f] = Whole
        BY <2>1, <3>3, <4>1 DEF Gives, FilesGood
      <4> QED BY <2>1, <4>2
    <3> QED BY <2>3, <3>1, <3>2, <3>3 DEF PartialsMove
  <2> QED BY <2>1, <2>2, <2>3
<1>2. CASE u = Up(t) /\ At(t) = "claim" /\ ClaimWorks(u, thread'[t].f)
  <2>1. partial[u] = Whole
    BY <1>2 DEF WorkGood, WorkOf, ClaimWorks
  <2>2. partial'[u] = partial[u]
    BY <1>2 DEF PartialsMove, Gives
  <2> QED BY <2>1, <2>2
<1>3. ~(Ends(u) \/ Purges(u) \/ Opens(u))
  BY DEF Ends, Purges, Opens
<1>4. ~(\/ MarkWorks(u) \/ CommitWorks(u) \/ RestartWorks(u) \/ WriteWorks(u)
        \/ CountWorks(u, thread[t].off + 1))
  BY DEF MarkWorks, CommitWorks, RestartWorks, WriteWorks, CountWorks
<1> QED BY <1>1, <1>2, <1>3, <1>4 DEF RowsMove, Works

(* Whatever happens, no bytes are lost.                                    *)
LEMMA BytesStayGood ==
  ASSUME VaultInv, [VaultNext]_vars
  PROVE  BytesGood'
<1> USE DEF VaultInv
<1>1. ASSUME NEW t \in Threads, ThreadStep(t) PROVE BytesGood'
  <2>1. RowsMove(t) /\ PartialsMove(t) /\ FilesMove(t) /\ damaged' = damaged
    BY <1>1, ThreadRows, ThreadPartials, ThreadFiles, ThreadsDamageNothing
  <2>2. FilesAreWhole'
    BY <2>1, LiveFilesStayWhole, VerifiedBytesStay, CompletingBytesStay DEF FilesAreWhole
  <2> QED BY <2>1, <2>2 DEF BytesGood, PartialsMove
<1>2. ASSUME RowsRest, partial' \in [Uploads -> Pieces \cup {Gone}], damaged' \subseteq Uploads,
             damaged \subseteq damaged',
             \A f \in Files : life'[f] = life[f] /\ (object'[f] = object[f] \/ life[f] = "none"),
             \A u \in Uploads \ damaged' :
               \/ partial'[u] = partial[u] /\ (row[u].file \in Files => object'[row[u].file] = object[row[u].file])
               \/ row[u].file \in Files /\ life[row[u].file] = "none" /\ partial'[u] = Whole
      PROVE  BytesGood'
  <2>1. \A f \in Files : life'[f] = "live" => object'[f] = Whole
    BY <1>2 DEF BytesGood, FilesAreWhole
  <2>2. ASSUME NEW u \in Uploads \ damaged', row'[u].state \in Receivable
        PROVE  row'[u].verified <= Size(partial'[u])
    <3>1. row[u].state \in Receivable /\ row'[u].verified = row[u].verified
      BY <1>2, <2>2 DEF RowsRest, Keeps, Ends, Receivable
    <3>2. row[u].file \notin Files
      BY <3>1, VaultAssumption DEF RowsGood, VaultAssumption, Receivable
    <3>3. partial'[u] = partial[u]
      BY <1>2, <2>2, <3>2
    <3> QED BY <1>2, <2>2, <3>1, <3>3 DEF BytesGood, FilesAreWhole
  <2>3. ASSUME NEW u \in Uploads \ damaged', row'[u].state = "completing"
        PROVE  Whole \in {partial'[u], object'[row'[u].file]}
    <3>1. row[u].state = "completing" /\ row'[u].file = row[u].file /\ row[u].file \in Files
      BY <1>2, <2>3 DEF RowsRest, Keeps, Ends, RowsGood, Rows
    <3>2. Whole \in {partial[u], object[row[u].file]}
      BY <1>2, <2>3, <3>1 DEF BytesGood, FilesAreWhole
    <3> QED BY <1>2, <2>3, <3>1, <3>2
  <2> QED BY <1>2, <2>1, <2>2, <2>3 DEF BytesGood, FilesAreWhole
<1>3. ASSUME UNCHANGED <<partial, object, life, damaged>>, RowsRest PROVE BytesGood'
  BY <1>2, <1>3 DEF BytesGood
<1>4. ASSUME NEW u \in Uploads, RowChance(u) PROVE BytesGood'
  <2>1. UNCHANGED <<partial, object, life, damaged>>
    BY <1>4 DEF RowChance, Cancel, Lapse, FailedLapse, LeaseEnds, Age, disk, Unspent
  <2> QED BY <1>3, <1>4, <2>1, ChanceRows
<1>5. ASSUME NEW v \in Uploads, Lose(v) PROVE BytesGood'
  <2>1. life' = life /\ object' = object
    BY <1>5 DEF Lose
  <2>2. /\ partial' \in [Uploads -> Pieces \cup {Gone}] /\ damaged' = damaged \cup {v}
        /\ \A u \in Uploads \ damaged' : partial'[u] = partial[u]
    BY <1>5, ChancePartials
  <2> QED BY <1>2, <1>5, <2>1, <2>2, ChanceRows DEF BytesGood
<1>6. CASE UNCHANGED vars
  <2>1. UNCHANGED <<partial, object, life, damaged>>
    BY <1>6 DEF vars, disk
  <2> QED BY <1>3, <1>6, <2>1, ChanceRows
<1>7. CASE Death
  <2>1. RowsRest /\ partial' \in [Uploads -> Pieces \cup {Gone}]
    BY <1>7, ChanceRows, ChancePartials
  <2>2. damaged' = damaged /\ life' = life /\ damaged \subseteq Uploads
    BY <1>7, DeathBytes DEF BytesGood
  <2> QED BY <1>2, <1>7, <2>1, <2>2, DeathBytes
<1> QED BY <1>1, <1>4, <1>5, <1>6, <1>7, NextIs

(* Work.  An upload that somebody holds and that is not finished changes   *)
(* by its holder only.                                                     *)
LEMMA HeldStays ==
  ASSUME VaultInv, NEW t \in Threads, RowsMove(t), PartialsMove(t), NEW s \in Threads \ {t},
         At(s) \in Critical
  PROVE  /\ Keeps(Up(s)) \/ Ends(Up(s)) \/ Purges(Up(s))
         /\ ~Finished(Up(s)) => partial'[Up(s)] = partial[Up(s)] /\ ~Purges(Up(s))
<1> USE DEF VaultInv
<1> DEFINE u == Up(s)
<1>1. u \in Uploads /\ row[u].state # "unused"
  BY ItsShape DEF LocksGood
<1>2. ~Finished(u) => ~(u = Up(t) /\ At(t) \in Critical)
  BY SoleHolder
<1>3. Works(t) => At(t) \in Critical
  BY DEF Works, Critical, Looking, Completing, Restarting, Writing
<1>4. u = Up(t) /\ Works(t) => ~Finished(u)
  BY DEF Works, MarkWorks, ClaimWorks, CommitWorks, RestartWorks, WriteWorks, CountWorks, Finished,
     Receivable, Terminal
<1>5. Keeps(u) \/ Ends(u) \/ Purges(u)
  BY <1>1, <1>2, <1>3, <1>4 DEF RowsMove, Opens
<1>6. ASSUME ~Finished(u) PROVE partial'[u] = partial[u] /\ ~Purges(u)
  <2>1. ~(u = Up(t) /\ (At(t) \in {"write", "drop"} \/ Gives(t)))
    BY <1>2, <1>6 DEF Gives, Critical, Writing, Restarting, Completing
  <2>2. ~(At(t) = "unlink" /\ u \in thread[t].todo)
    BY <1>6 DEF LocksGood
  <2> QED BY <1>1, <1>6, <2>1, <2>2 DEF PartialsMove, Purges, Finished, Terminal
<1> QED BY <1>5, <1>6

(* What somebody recovers was not receiving, or has lost its bytes.        *)
LEMMA StaleStays ==
  ASSUME VaultInv, NEW t \in Threads, RowsMove(t), NEW s \in Threads, NEW v \in Stale(s)
  PROVE  /\ v \in Uploads /\ row'[v].state # "unused"
         /\ row'[v].state \in Receivable => v \in damaged
<1> USE DEF VaultInv
<1>1. v \in Uploads
  <2>1. thread[s].task = "recover" => Up(s) \in Uploads
    BY ItsShape DEF Shape, At, Up
  <2>2. thread[s].todo \subseteq Uploads
    BY ItsShape DEF ThreadRecords
  <2> QED BY <2>1, <2>2 DEF Stale
<1>2. row[v].state # "unused" /\ (row[v].state \in Receivable => v \in damaged)
  BY DEF WorkGood, WorkOf
<1>3. row'[v].state # "unused"
  BY <1>1, <1>2, FinishedLasts
<1>4. ASSUME row'[v].state \in Receivable PROVE v \in damaged
  <2>1. CASE Keeps(v)
    BY <1>2, <1>4, <2>1 DEF Keeps
  <2>2. CASE v = Up(t) /\ (MarkWorks(v) \/ WriteWorks(v) \/ CountWorks(v, thread[t].off + 1))
    BY <1>2, <2>2 DEF MarkWorks, WriteWorks, CountWorks
  <2>3. CASE v = Up(t) /\ At(t) = "restart" /\ RestartWorks(v)
    BY <2>3 DEF WorkGood, WorkOf, Restarting, RestartWorks
  <2>4. ~(Ends(v) \/ Purges(v) \/ Opens(v) \/ ClaimWorks(v, thread'[t].f) \/ CommitWorks(v))
    BY <1>2, <1>4 DEF Ends, Purges, Opens, ClaimWorks, CommitWorks, Receivable
  <2> QED BY <1>1, <2>1, <2>2, <2>3, <2>4 DEF RowsMove, Works
<1> QED BY <1>1, <1>3, <1>4

(* Only a claim makes an upload a completion.                              *)
LEMMA CompletingBefore ==
  ASSUME NEW t, RowsMove(t), NEW u \in Uploads, row'[u].state = "completing",
         ~(u = Up(t) /\ At(t) = "claim")
  PROVE  row[u].state = "completing" /\ row'[u].file = row[u].file
<1>1. ~(Ends(u) \/ Purges(u) \/ Opens(u))
  BY DEF Ends, Purges, Opens
<1>2. ~(\/ MarkWorks(u) \/ CommitWorks(u) \/ RestartWorks(u) \/ WriteWorks(u)
        \/ CountWorks(u, thread[t].off + 1))
  BY DEF MarkWorks, CommitWorks, RestartWorks, WriteWorks, CountWorks
<1>3. Keeps(u)
  BY <1>1, <1>2 DEF RowsMove, Works
<1> QED BY <1>3 DEF Keeps

(* What a thread knows stays true through the steps of others.             *)
LEMMA OtherWork ==
  ASSUME VaultInv, NEW t \in Threads, ThreadStep(t), Others(t), RowsMove(t), PartialsMove(t), FilesMove(t),
         damaged' = damaged, NEW s \in Threads \ {t}
  PROVE  WorkOf(s)'
<1> USE DEF VaultInv
<1> DEFINE u == Up(s)
           f == thread[s].f
<1>1. thread'[s] = thread[s] /\ At(s)' = At(s) /\ Up(s)' = Up(s) /\ Stale(s)' = Stale(s)
  BY DEF Others, At, Up, Stale
<1>2. WorkOf(s)
  BY DEF WorkGood
<1>3. \A v \in Stale(s) : /\ row'[v].state # "unused"
                          /\ row'[v].state \in Receivable => v \in damaged
  BY StaleStays
<1>4. CASE At(s) \notin Critical
  BY <1>1, <1>2, <1>3, <1>4 DEF WorkOf, Critical, Completing, Looking, Restarting, Writing
<1>5. CASE At(s) \in Critical
  <2>1. u \in Uploads
    BY <1>5, ItsShape
  <2>2. /\ Keeps(u) \/ Ends(u) \/ Purges(u)
        /\ ~Finished(u) => partial'[u] = partial[u] /\ ~Purges(u)
    BY <1>5, HeldStays
  <2>3. At(s) \in {"check", "mark", "claim"} => row'[u].state # "completing"
    BY <1>2, <2>2 DEF WorkOf, Keeps, Ends, Purges
  <2>4. row'[u].state \in Receivable => row[u].state \in Receivable /\ partial'[u] = partial[u]
    BY <2>2 DEF Keeps, Ends, Purges, Finished, Receivable, Terminal
  <2>5. At(s) \in Completing => /\ row'[u].state = "completing" /\ row'[u].file = f
                                /\ object'[f] = object[f]
    <3> HAVE At(s) \in Completing
    <3>1. /\ row[u].state = "completing" /\ row[u].file = f /\ f \in Files /\ life[f] = "none"
      BY WorkedFile
    <3>2. Keeps(u)
      BY <2>2, <3>1 DEF Ends, Purges, Receivable
    <3>3. ~(Gives(t) /\ thread[t].f = f)
      <4>1. ASSUME Gives(t), thread[t].f = f PROVE FALSE
        <5>1. At(t) \in Completing /\ Up(t) \in Uploads /\ row[Up(t)].file = f
          BY <4>1, WorkedFile DEF Gives, Completing
        <5>2. Up(t) = u
          BY <2>1, <3>1, <5>1, FileOwner
        <5> QED BY <1>5, <3>1, <5>1, <5>2, SoleHolder DEF Critical, Finished, Terminal
      <4> QED BY <4>1
    <3>4. f \notin FreshFiles /\ ~(At(t) = "undo" /\ thread[t].f = f)
      BY <2>1, <3>1 DEF FreshFiles, FilesGood, FileOf, Named
    <3>5. object'[f] = object[f]
      BY <3>1, <3>3, <3>4 DEF FilesMove, ObjectsMove
    <3> QED BY <3>1, <3>2, <3>5 DEF Keeps
  <2>6. At(s) \in Restarting /\ row'[u].state = "completing" => u \in damaged
    BY <1>2, <2>2 DEF WorkOf, Keeps, Ends, Purges
  <2>7. At(s) = "count" => /\ row'[u].state \in Receivable /\ row'[u].verified = thread[s].off
                           /\ u \in damaged \/ Size(partial'[u]) = thread[s].off + 1
    <3> HAVE At(s) = "count"
    <3>1. writer = s
      BY DEF ThreadsGood
    <3>2. row' = row
      BY <3>1, OthersWait
    <3> QED BY <1>2, <2>4, <3>2 DEF WorkOf
  <2> HIDE DEF u, f
  <2>8. Up(s)' = u /\ thread'[s].f = f /\ thread'[s].off = thread[s].off
    BY <1>1 DEF u, f
  <2>9. /\ At(s) = "claim" /\ row[u].state \in Receivable => u \in damaged \/ partial[u] = Whole
        /\ At(s) = "create" => s \in Adders
        /\ At(s) = "move" => object[f] = Gone
        /\ At(s) = "commit" => object[f] = Whole
    BY <1>2 DEF WorkOf, u, f
  <2>10. At(s) \in {"move", "commit"} => At(s) \in Completing
    BY DEF Completing
  <2> QED BY <1>1, <1>3, <2>3, <2>4, <2>5, <2>6, <2>7, <2>8, <2>9, <2>10 DEF WorkOf
<1> QED BY <1>4, <1>5

(* A thread that has left its critical section has no work.                *)
LEMMA NoWork ==
  ASSUME ThreadsGood', NEW t \in Threads, At(t)' \notin Critical \cup {"wait", "recover", "create"}
  PROVE  WorkOf(t)'
<1>1. thread'[t].task = "none"
  BY DEF ThreadsGood, Shape, At
<1> QED BY <1>1 DEF WorkOf, Stale, Critical, Completing, Looking, Restarting, Writing

(* What it recovers are those it recovered before.                         *)
LEMMA NoNewWork ==
  ASSUME VaultInv, NEW t \in Threads, RowsMove(t), damaged' = damaged,
         Up(t)' = Up(t), thread'[t].task = thread[t].task, thread'[t].todo = thread[t].todo,
         At(t)' # "recover"
  PROVE  /\ \A v \in Stale(t)' : /\ row'[v].state # "unused"
                                 /\ row'[v].state \in Receivable => v \in damaged
         /\ At(t)' \in {"wait", "read", "write", "release"} => WorkOf(t)'
<1>1. Stale(t)' \subseteq Stale(t)
  BY DEF Stale
<1>2. \A v \in Stale(t)' : /\ row'[v].state # "unused"
                           /\ row'[v].state \in Receivable => v \in damaged
  BY <1>1, StaleStays
<1> QED BY <1>2 DEF WorkOf, Completing, Restarting

(* What a thread knows of stale uploads stays true while it stays.         *)
LEMMA SteadyWork ==
  ASSUME VaultInv, NEW t \in Threads, RowsMove(t), damaged' = damaged, NEW P, Stays(t, P),
         "recover" \notin P
  PROVE  /\ \A v \in Stale(t)' : /\ row'[v].state # "unused"
                                 /\ row'[v].state \in Receivable => v \in damaged
         /\ At(t)' \in P /\ Up(t)' = Up(t)
         /\ At(t)' = "release" => WorkOf(t)'
<1>1. /\ Up(t)' = Up(t) /\ thread'[t].task = thread[t].task /\ thread'[t].todo = thread[t].todo
      /\ At(t)' # "recover" /\ At(t)' \in P
  BY DEF Stays
<1> QED BY <1>1, NoNewWork

(* The steps of completing an upload.                                      *)
LEMMA LookingWork ==
  ASSUME VaultInv, ThreadsGood', NEW t \in Threads, RowsMove(t), PartialsMove(t), FilesMove(t), damaged' = damaged,
         Acquire(t) \/ ReadRow(t) \/ Check(t) \/ Mark(t) \/ Claim(t)
  PROVE  WorkOf(t)'
<1> USE DEF VaultInv
<1>1. CASE Acquire(t)
  <2>1. /\ At(t)' \in {"write", "read"} /\ Up(t)' = Up(t) /\ thread'[t].task = thread[t].task
        /\ thread'[t].todo = thread[t].todo
    BY <1>1, AcquireDoes
  <2> QED BY <2>1, NoNewWork
<1>2. CASE ReadRow(t)
  <2>1. /\ Stays(t, {"release", "resume", "check"})
        /\ At(t)' = "resume" => row'[Up(t)].state = "completing" /\ thread'[t].f = row'[Up(t)].file
        /\ At(t)' = "check" => row'[Up(t)].state \in Receivable
    BY <1>2, ReadRowDoes
  <2>2. /\ \A v \in Stale(t)' : /\ row'[v].state # "unused"
                                /\ row'[v].state \in Receivable => v \in damaged
        /\ At(t)' \in {"release", "resume", "check"} /\ Up(t)' = Up(t)
        /\ At(t)' = "release" => WorkOf(t)'
    BY <2>1, SteadyWork
  <2> QED BY <2>1, <2>2 DEF WorkOf, Completing, Restarting, Receivable
<1>3. CASE Check(t)
  <2>1. Stays(t, {"mark", "claim"}) /\ At(t) = "check" /\ (At(t)' = "claim" => partial[Up(t)] = Whole)
    BY <1>3, CheckDoes
  <2>2. /\ \A v \in Stale(t)' : /\ row'[v].state # "unused"
                                /\ row'[v].state \in Receivable => v \in damaged
        /\ At(t)' \in {"mark", "claim"} /\ Up(t)' = Up(t)
    BY <2>1, SteadyWork
  <2>3. row' = row /\ partial' = partial /\ row[Up(t)].state # "completing"
    BY <1>3, <2>1 DEF Check, disk, WorkGood, WorkOf
  <2> QED BY <2>1, <2>2, <2>3 DEF WorkOf, Completing, Restarting
<1>4. CASE Mark(t)
  <2>1. Stays(t, {"release", "drop"}) /\ At(t) = "mark" /\ Up(t) \in Uploads
    BY <1>4, MarkDoes, ItsShape DEF Critical, Looking
  <2>2. /\ \A v \in Stale(t)' : /\ row'[v].state # "unused"
                                /\ row'[v].state \in Receivable => v \in damaged
        /\ At(t)' \in {"release", "drop"} /\ Up(t)' = Up(t)
    BY <2>1, SteadyWork
  <2>3. row'[Up(t)].state # "completing"
    BY <2>1, CompletingBefore DEF WorkGood, WorkOf
  <2> QED BY <2>2, <2>3 DEF WorkOf, Completing, Restarting
<1>5. CASE Claim(t)
  <2>1. At(t) = "claim" /\ Up(t) \in Uploads
    BY <1>5, ClaimDoes, ItsShape DEF Critical, Looking
  <2>2. CASE Stays(t, {"release"})
    BY <2>2, SteadyWork
  <2>3. CASE ~Stays(t, {"release"})
    <3>1. PICK f \in FreshFiles :
            /\ Stays(t, {"move"}) /\ thread'[t].f = f
            /\ row' = [row EXCEPT ![Up(t)].state = "completing", ![Up(t)].file = f,
                                  ![Up(t)].aged = FALSE]
      BY <1>5, <2>3, ClaimDoes
    <3>2. /\ \A v \in Stale(t)' : /\ row'[v].state # "unused"
                                  /\ row'[v].state \in Receivable => v \in damaged
          /\ At(t)' = "move" /\ Up(t)' = Up(t)
      <4>1. At(t)' = "move" /\ Stays(t, {"move"}) /\ "recover" \notin {"move"}
        BY <3>1 DEF Stays
      <4>2. \A v \in Stale(t)' : /\ row'[v].state # "unused"
                                 /\ row'[v].state \in Receivable => v \in damaged
        BY <4>1, SteadyWork
      <4> QED BY <3>1, <4>1, <4>2 DEF Stays
    <3>3. row'[Up(t)].state = "completing" /\ row'[Up(t)].file = f
      <4>1. row \in [Uploads -> Rows] /\ row[Up(t)] \in Rows
        BY <2>1 DEF RowsGood
      <4> QED BY <2>1, <3>1, <4>1 DEF Rows
    <3>4. object' = object /\ object[f] = Gone
      BY <1>5, <3>1 DEF Claim, disk, FreshFiles
    <3> QED BY <3>1, <3>2, <3>3, <3>4 DEF WorkOf, Completing, Restarting
  <2> QED BY <2>2, <2>3
<1> QED BY <1>1, <1>2, <1>3, <1>4, <1>5

(* An upload whose bytes are nowhere is one that somebody took them from.  *)
LEMMA BytesAreLost ==
  ASSUME VaultInv, NEW t \in Threads, At(t) \in Completing, object[thread[t].f] = Gone,
         partial[Up(t)] # Whole
  PROVE  Up(t) \in damaged
<1>1. /\ Up(t) \in Uploads /\ row[Up(t)].state = "completing" /\ row[Up(t)].file = thread[t].f
  BY WorkedFile
<1>2. Whole # Gone
  BY PiecesAre
<1> QED BY <1>1, <1>2 DEF VaultInv, BytesGood, FilesAreWhole

(* The steps of a completion make true what the next step needs.           *)
LEMMA CompletingWork ==
  ASSUME VaultInv, ThreadsGood', NEW t \in Threads, RowsMove(t), PartialsMove(t), FilesMove(t), damaged' = damaged,
         Resume(t) \/ Move(t) \/ Commit(t) \/ Drop(t) \/ Restart(t)
  PROVE  WorkOf(t)'
<1> USE DEF VaultInv
<1>1. CASE Resume(t)
  <2>1. /\ Stays(t, {"commit", "move", "release", "drop"}) /\ At(t) = "resume"
        /\ thread'[t].f = thread[t].f
        /\ At(t)' = "commit" => object[thread[t].f] # Gone
        /\ At(t)' = "move" => object[thread[t].f] = Gone
        /\ At(t)' = "drop" => object[thread[t].f] = Gone /\ partial[Up(t)] # Whole
    BY <1>1, ResumeDoes
  <2>2. /\ \A v \in Stale(t)' : /\ row'[v].state # "unused"
                                /\ row'[v].state \in Receivable => v \in damaged
        /\ At(t)' \in {"commit", "move", "release", "drop"} /\ Up(t)' = Up(t)
        /\ At(t)' = "release" => WorkOf(t)'
    BY <2>1, SteadyWork
  <2>3. row' = row /\ object' = object
    BY <1>1 DEF Resume, disk
  <2>4. /\ row[Up(t)].state = "completing" /\ row[Up(t)].file = thread[t].f /\ thread[t].f \in Files
    BY <2>1, WorkedFile DEF Completing
  <2>5. object[thread[t].f] \in {Whole, Gone}
    BY <2>4 DEF FilesGood
  <2>6. At(t)' = "drop" => Up(t) \in damaged
    BY <2>1, BytesAreLost DEF Completing
  <2> QED BY <2>1, <2>2, <2>3, <2>4, <2>5, <2>6 DEF WorkOf, Completing, Restarting
<1>2. CASE Move(t)
  <2>1. At(t) = "move" /\ thread'[t].f = thread[t].f /\ row' = row
    BY <1>2, MoveDoes DEF Move
  <2>2. /\ row[Up(t)].state = "completing" /\ row[Up(t)].file = thread[t].f /\ thread[t].f \in Files
        /\ object[thread[t].f] = Gone
    BY <2>1, WorkedFile DEF Completing
  <2>3. CASE Stays(t, {"release", "drop"}) /\ partial[Up(t)] # Whole
    <3>1. /\ \A v \in Stale(t)' : /\ row'[v].state # "unused"
                                  /\ row'[v].state \in Receivable => v \in damaged
          /\ At(t)' \in {"release", "drop"} /\ Up(t)' = Up(t)
      BY <2>3, SteadyWork
    <3>2. Up(t) \in damaged
      BY <2>1, <2>2, <2>3, BytesAreLost DEF Completing
    <3> QED BY <2>1, <2>2, <3>1, <3>2 DEF WorkOf, Completing, Restarting
  <2>4. CASE Stays(t, {"commit"}) /\ object' = [object EXCEPT ![thread[t].f] = Whole]
    <3>1. /\ \A v \in Stale(t)' : /\ row'[v].state # "unused"
                                  /\ row'[v].state \in Receivable => v \in damaged
          /\ At(t)' = "commit" /\ Up(t)' = Up(t)
      BY <2>4, SteadyWork
    <3>2. object'[thread[t].f] = Whole
      BY <2>2, <2>4 DEF FilesGood
    <3> QED BY <2>1, <2>2, <3>1, <3>2 DEF WorkOf, Completing, Restarting
  <2> QED BY <1>2, <2>3, <2>4, MoveDoes
<1>3. CASE Commit(t) \/ Restart(t)
  <2>1. Stays(t, {"release"})
    BY <1>3, CommitDoes, RestartDoes
  <2> QED BY <2>1, SteadyWork
<1>4. CASE Drop(t)
  <2>1. Stays(t, {"restart"}) /\ At(t) = "drop" /\ row' = row
    BY <1>4, DropDoes DEF Drop
  <2>2. /\ \A v \in Stale(t)' : /\ row'[v].state # "unused"
                                /\ row'[v].state \in Receivable => v \in damaged
        /\ At(t)' = "restart" /\ Up(t)' = Up(t)
    BY <2>1, SteadyWork
  <2>3. row[Up(t)].state = "completing" => Up(t) \in damaged
    BY <2>1 DEF WorkGood, WorkOf, Restarting
  <2> QED BY <2>1, <2>2, <2>3 DEF WorkOf, Completing, Restarting
<1> QED BY <1>1, <1>2, <1>3, <1>4

(* The steps of a writer make true what the next step needs.               *)
LEMMA WritingWork ==
  ASSUME VaultInv, ThreadsGood', NEW t \in Threads, RowsMove(t), damaged' = damaged,
         Write(t) \/ Count(t) \/ CountFails(t)
  PROVE  WorkOf(t)'
<1> USE DEF VaultInv
<1>1. CASE Count(t) \/ CountFails(t)
  <2>1. Stays(t, {"release"})
    BY <1>1, CountDoes, CountFailsDoes
  <2> QED BY <2>1, SteadyWork
<1>2. CASE Write(t)
  <2>1. /\ Stays(t, {"release", "count"})
        /\ At(t)' = "count" => thread'[t].off = thread[t].off
    BY <1>2, WriteDoes
  <2>2. /\ \A v \in Stale(t)' : /\ row'[v].state # "unused"
                                /\ row'[v].state \in Receivable => v \in damaged
        /\ At(t)' \in {"release", "count"} /\ Up(t)' = Up(t)
        /\ At(t)' = "release" => WorkOf(t)'
    BY <2>1, SteadyWork
  <2>3. At(t)' = "count" => /\ Wrote(Up(t)) /\ row'[Up(t)].verified = thread[t].off
                            /\ Size(partial'[Up(t)]) = thread[t].off + 1
    BY <1>2, WriteBytes DEF BytesGood
  <2> QED BY <2>1, <2>2, <2>3 DEF WorkOf, Wrote, Completing, Restarting
<1> QED BY <1>1, <1>2

(* The steps between critical sections.                                    *)
LEMMA BetweenWork ==
  ASSUME VaultInv, ThreadsGood', NEW t \in Threads, RowsMove(t), damaged' = damaged,
         \/ Release(t) \/ ReadStale(t) \/ Recover(t) \/ Sweep(t) \/ Unlink(t) \/ Create(t)
         \/ GetSession(t) \/ Send(t) \/ Add(t) \/ CleanUp(t)
  PROVE  WorkOf(t)'
<1> USE DEF VaultInv
<1>1. thread'[t].task # "none" <=> At(t)' \in Critical \cup {"wait"}
  BY DEF ThreadsGood, Shape, At
<1>2. {"idle", "recover", "added", "send", "unlink", "create", "get", "stale", "sweep"}
        \cap (Critical \cup {"wait"}) = {}
  BY DEF Critical, Completing, Looking, Restarting, Writing
<1>3. ASSUME At(t)' = "recover",
             \A v \in thread'[t].todo : /\ row'[v].state # "unused"
                                        /\ row'[v].state \in Receivable => v \in damaged
      PROVE  WorkOf(t)'
  <2>1. Stale(t)' = thread'[t].todo
    BY <1>1, <1>2, <1>3 DEF Stale
  <2>2. \A v \in Stale(t)' : /\ row'[v].state # "unused"
                             /\ row'[v].state \in Receivable => v \in damaged
    BY <1>3, <2>1
  <2> QED BY <1>3, <2>2 DEF WorkOf, Completing, Restarting
<1>4. CASE Release(t)
  <2>1. /\ At(t)' \in {"idle", "recover", "added", "send"}
        /\ At(t)' = "recover" => thread[t].task = "recover" /\ thread'[t].todo \subseteq thread[t].todo
    BY <1>4, ReleaseDoes
  <2>2. CASE At(t)' = "recover"
    <3>1. \A v \in thread'[t].todo : v \in Stale(t)
      BY <2>1, <2>2 DEF Stale
    <3> QED BY <1>3, <2>2, <3>1, StaleStays
  <2> QED BY <1>2, <2>1, <2>2, NoWork
<1>5. CASE ReadStale(t)
  <2>1. /\ At(t)' = "recover" /\ row' = row
        /\ \A u \in thread'[t].todo : row[u].state = "completing"
    BY <1>5, ReadStaleDoes DEF Quiet, ReadStale
  <2> QED BY <1>3, <2>1 DEF Receivable
<1>6. CASE Recover(t)
  <2>1. CASE Quiet(t, {"sweep"})
    BY <1>2, <2>1, NoWork DEF Quiet
  <2>2. CASE ~Quiet(t, {"sweep"})
    <3>1. PICK u \in thread[t].todo :
             /\ At(t)' = "wait" /\ Up(t)' = u /\ thread'[t].todo = thread[t].todo /\ At(t) = "recover"
             /\ thread'[t].task = "recover"
      BY <1>6, <2>2, RecoverDoes
    <3>2. Stale(t)' \subseteq Stale(t)
      BY <3>1 DEF Stale
    <3>3. \A v \in Stale(t)' : /\ row'[v].state # "unused"
                               /\ row'[v].state \in Receivable => v \in damaged
      BY <3>2, StaleStays
    <3> QED BY <3>1, <3>3 DEF WorkOf, Completing, Restarting
  <2> QED BY <2>1, <2>2
<1>7. CASE Unlink(t)
  <2>1. At(t)' \in {"unlink", "create", "idle"} /\ (At(t)' = "create" => t \in Adders)
    BY <1>7, UnlinkDoes DEF Quiet
  <2>2. CASE At(t)' = "create"
    <3>1. Stale(t)' = {}
      BY <1>1, <1>2, <2>2 DEF Stale
    <3> QED BY <2>1, <2>2, <3>1 DEF WorkOf, Completing, Restarting
  <2> QED BY <1>2, <2>1, <2>2, NoWork
<1>8. CASE Sweep(t) \/ Create(t) \/ GetSession(t) \/ Add(t) \/ CleanUp(t)
  <2>1. At(t)' \in {"unlink", "get", "idle", "send", "stale"}
    BY <1>8, SweepDoes, CreateDoes, GetSessionDoes, BeginsDo DEF Quiet
  <2> QED BY <1>2, <2>1, NoWork
<1>9. CASE Send(t)
  <2>1. CASE Quiet(t, {"idle"})
    BY <1>2, <2>1, NoWork DEF Quiet
  <2>2. CASE ~Quiet(t, {"idle"})
    <3>1. At(t)' = "wait" /\ thread'[t].task \in {"chunk", "complete"}
      BY <1>9, <2>2, SendDoes
    <3>2. Stale(t)' = {}
      BY <3>1 DEF Stale
    <3> QED BY <3>1, <3>2 DEF WorkOf, Completing, Restarting
  <2> QED BY <2>1, <2>2
<1> QED BY <1>4, <1>5, <1>6, <1>7, <1>8, <1>9

(* The steps on files need nothing of uploads.                             *)
LEMMA FileWork ==
  ASSUME VaultInv, ThreadsGood', NEW t \in Threads,
         \/ Put(t) \/ Insert(t) \/ InsertFails(t) \/ Undo(t) \/ Discard(t) \/ Forget(t)
         \/ ForgetFails(t) \/ Shred(t) \/ \E f \in Files : Delete(t, f) \/ Purge(t, f)
  PROVE  WorkOf(t)'
<1> USE DEF VaultInv
<1>1. At(t)' \in OnFile \cup {"idle"}
  <2>1. CASE \E f \in Files : Delete(t, f) \/ Purge(t, f)
    <3>1. PICK f \in Files : Delete(t, f) \/ Purge(t, f)
      BY <2>1
    <3>2. CASE Delete(t, f)
      BY <3>2, DeleteDoes DEF Quiet, OnFile
    <3>3. CASE Purge(t, f)
      <4>1. CASE Quiet(t, {"forget"})
        BY <4>1 DEF Quiet, OnFile
      <4>2. CASE UNCHANGED thread
        BY <3>3, <4>2 DEF Purge, At
      <4> QED BY <3>3, <4>1, <4>2, PurgeDoes
    <3> QED BY <3>1, <3>2, <3>3
  <2>2. CASE Put(t)
    BY <2>2, PutDoes DEF Quiet, OnFile
  <2>3. CASE \/ Insert(t) \/ InsertFails(t) \/ Undo(t) \/ Discard(t) \/ Forget(t)
             \/ ForgetFails(t) \/ Shred(t)
    BY <2>3, FileStepsDo DEF Quiet, OnFile
  <2> QED BY <2>1, <2>2, <2>3
<1>2. At(t)' \notin Critical \cup {"wait", "recover", "create"}
  BY <1>1 DEF OnFile, Critical, Completing, Looking, Restarting, Writing
<1> QED BY <1>2, NoWork

(* Any step of a thread makes true what its next step needs.               *)
LEMMA WorkByThread ==
  ASSUME VaultInv, NEW t \in Threads, ThreadStep(t)
  PROVE  WorkGood'
<1> USE DEF VaultInv
<1>1. /\ ThreadsGood' /\ Others(t) /\ RowsMove(t) /\ PartialsMove(t) /\ FilesMove(t)
      /\ damaged' = damaged
  BY ThreadStepMoves, ThreadRows, ThreadPartials, ThreadFiles, ThreadsDamageNothing
<1>2. \A s \in Threads \ {t} : WorkOf(s)'
  BY <1>1, OtherWork
<1>3. WorkOf(t)'
  BY <1>1, LookingWork, CompletingWork, WritingWork, BetweenWork, FileWork DEF ThreadStep, Step
<1> QED BY <1>2, <1>3 DEF WorkGood

(* Chances and deaths.                                                     *)
LEMMA WorkStaysGood ==
  ASSUME VaultInv, [VaultNext]_vars
  PROVE  WorkGood'
<1> USE DEF VaultInv
<1>1. ASSUME NEW t \in Threads, RowsRest, damaged \subseteq damaged', thread'[t] = thread[t], object' = object,
             \A u \in Uploads \ damaged' : partial'[u] = partial[u],
             At(t) = "count" => Keeps(Up(t))
      PROVE  WorkOf(t)'
  <2>1. At(t)' = At(t) /\ Up(t)' = Up(t) /\ Stale(t)' = Stale(t) /\ WorkOf(t)
    BY <1>1 DEF At, Up, Stale, WorkGood
  <2>2. \A v \in Stale(t) : /\ row'[v].state # "unused"
                            /\ row'[v].state \in Receivable => v \in damaged
    BY <1>1, RestMoves, StaleStays
  <2>3. At(t) \in Critical => Up(t) \in Uploads /\ (Keeps(Up(t)) \/ Ends(Up(t)))
    BY <1>1, ItsShape DEF RowsRest
  <2>4. CASE At(t) \notin Critical
    BY <1>1, <2>1, <2>2, <2>4 DEF WorkOf, Critical, Completing, Looking, Restarting, Writing
  <2>5. CASE At(t) \in Critical
    <3>1. /\ row'[Up(t)].state \in Receivable => row[Up(t)].state \in Receivable
          /\ row'[Up(t)].state = "completing" <=> row[Up(t)].state = "completing"
          /\ row'[Up(t)].file = row[Up(t)].file
      BY <2>3, <2>5 DEF Keeps, Ends, Receivable
    <3>2. Up(t) \in damaged' \/ partial'[Up(t)] = partial[Up(t)]
      BY <1>1, <2>3, <2>5
    <3>3. At(t) = "count" => row'[Up(t)].state = row[Up(t)].state /\ row'[Up(t)].verified = row[Up(t)].verified
      BY <1>1 DEF Keeps
    <3> QED BY <1>1, <2>1, <2>2, <3>1, <3>2, <3>3 DEF WorkOf
  <2> QED BY <2>4, <2>5
<1>2. ASSUME NEW t \in Threads, ThreadsGood', thread'[t] = Idle \/ At(t)' = "added" PROVE WorkOf(t)'
  <2>1. At(t)' \in {"idle", "added"}
    BY <1>2, IdleIs DEF At
  <2>2. At(t)' \notin Critical \cup {"wait", "recover", "create"}
    BY <2>1 DEF Critical, Completing, Looking, Restarting, Writing
  <2> QED BY <1>2, <2>2, NoWork
<1>3. \A t \in Threads : At(t) = "count" => Up(t) \in Uploads /\ writer = t
  BY ItsShape DEF Critical, Writing, ThreadsGood
<1>4. ASSUME NEW u \in Uploads, RowChance(u) PROVE WorkGood'
  <2>1. UNCHANGED <<thread, partial, object, damaged>>
    BY <1>4 DEF RowChance, Cancel, Lapse, FailedLapse, LeaseEnds, Age, disk, Unspent
  <2>2. RowsRest
    BY <1>4, ChanceRows
  <2>3. \A t \in Threads : At(t) = "count" => Keeps(Up(t))
    BY <1>3, <1>4, OthersWait
  <2> QED BY <1>1, <2>1, <2>2, <2>3 DEF WorkGood
<1>5. ASSUME NEW v \in Uploads, Lose(v) PROVE WorkGood'
  <2>1. UNCHANGED <<thread, object, row>>
    BY <1>5 DEF Lose
  <2>2. damaged' = damaged \cup {v} /\ \A u \in Uploads \ damaged' : partial'[u] = partial[u]
    BY <1>5, ChancePartials
  <2>3. RowsRest /\ \A t \in Threads : At(t) = "count" => Keeps(Up(t))
    BY <1>5, <2>1, ChanceRows DEF Keeps
  <2> QED BY <1>1, <2>1, <2>2, <2>3 DEF WorkGood
<1>6. CASE UNCHANGED vars
  <2>1. UNCHANGED <<thread, object, row, partial, damaged>>
    BY <1>6 DEF vars, disk
  <2>2. RowsRest /\ \A t \in Threads : At(t) = "count" => Keeps(Up(t))
    BY <1>6, <2>1, ChanceRows DEF Keeps
  <2> QED BY <1>1, <2>1, <2>2 DEF WorkGood
<1>7. CASE Death
  <2>1. ThreadsGood' /\ \A t \in Threads : thread'[t] = thread[t] \/ thread'[t] = Idle
    BY <1>7, DeathMoves
  <2>2. CASE PowerLoss
    <3>1. \A t \in Threads : thread'[t] = Idle \/ At(t)' = "added"
      BY <1>7, <2>2, DeathMoves
    <3> QED BY <1>2, <2>1, <3>1 DEF WorkGood
  <2>3. CASE ~PowerLoss
    <3>1. UNCHANGED <<object, row, partial, damaged>>
      BY <1>7, <2>3 DEF Death, Die, disk
    <3>2. RowsRest /\ \A t \in Threads : At(t) = "count" => Keeps(Up(t))
      BY <1>7, <3>1, ChanceRows DEF Keeps
    <3>3. \A t \in Threads : WorkOf(t)'
      BY <1>1, <1>2, <2>1, <3>1, <3>2
    <3> QED BY <3>3 DEF WorkGood
  <2> QED BY <2>2, <2>3
<1> QED BY <1>4, <1>5, <1>6, <1>7, NextIs, WorkByThread
------------------------------------------------------------------------------
(* The vault as it begins.                                                 *)
LEMMA VaultBegins == ASSUME VaultInit PROVE VaultInv
<1>1. /\ \A t \in Threads : thread[t] = Idle /\ At(t) = "idle" /\ Up(t) = NoUpload /\ ~thread[t].holds
      /\ \A u \in Uploads : row[u] = Unused /\ partial[u] = Gone /\ lockfile[u] = 1
      /\ \A f \in Files : life[f] = "none" /\ object[f] = Gone /\ hidden[f] = Gone
      /\ unsynced = {} /\ damaged = {} /\ writer = Nobody
      /\ NoUpload \notin Uploads /\ Nobody \notin Threads
  BY VaultAssumption DEF VaultInit, VaultAssumption, At, Up, NoUpload, Idle
<1>2. ThreadsGood
  <2>1. Shape(Idle) /\ Idle \in ThreadRecords
    BY IdleShape DEF Shape
  <2> QED BY <1>1, <2>1 DEF VaultInit, ThreadsGood
<1>3. RowsGood
  <2>1. Unused \in Rows
    BY Bounds DEF Unused, Rows, States, Absent
  <2> QED BY <1>1, <2>1 DEF VaultInit, RowsGood, Unused
<1>4. LocksGood
  BY <1>1 DEF VaultInit, LocksGood, Critical, Completing, Looking, Restarting, Writing
<1>5. WorkGood
  <2> SUFFICES ASSUME NEW t \in Threads PROVE WorkOf(t)
    BY DEF WorkGood
  <2>1. thread[t].task = "none" /\ At(t) = "idle"
    BY <1>1 DEF Idle
  <2> QED BY <2>1 DEF WorkOf, Stale, Completing, Restarting
<1>6. FilesGood
  <2>1. \A t \in Threads : FileOf(t)
    BY <1>1 DEF FileOf
  <2>2. \A u \in Uploads : row[u].state = "unused"
    BY <1>1 DEF Unused
  <2> QED BY <1>1, <2>1, <2>2 DEF VaultInit, FilesGood
<1>7. BytesGood
  <2>1. \A u \in Uploads : row[u].state = "unused"
    BY <1>1 DEF Unused
  <2> QED BY <1>1, <2>1 DEF VaultInit, BytesGood, FilesAreWhole, Receivable
<1> QED BY <1>2, <1>3, <1>4, <1>5, <1>6, <1>7 DEF VaultInv

(* The invariant is inductive.                                             *)
LEMMA VaultGoesOn == ASSUME VaultInv, [VaultNext]_vars PROVE VaultInv'
<1>1. ThreadsGood /\ RowsGood /\ LocksGood
  BY DEF VaultInv
<1> QED BY <1>1, ThreadsStayGood, RowsStayGood, LocksStayGood, WorkStaysGood, FilesStayGood,
           BytesStayGood DEF VaultInv

(* The invariant holds in every reachable state: threads and their locks,  *)
(* the rows and the keys of uploads, the files and what is on the disk     *)
(* agree, through every interleaving of uploads, completions, recoveries,  *)
(* clean-ups, deletions and deaths.                                        *)
THEOREM VaultInvariance == VaultSpec => []VaultInv
<1>1. VaultInit => VaultInv
  BY VaultBegins
<1>2. VaultInv /\ [VaultNext]_vars => VaultInv'
  BY VaultGoesOn
<1> QED BY <1>1, <1>2, PTL DEF VaultSpec

(* The columns of upload_sessions and files and what is on the disk keep   *)
(* their types; a session names a file exactly from its claim on, and no   *)
(* two sessions share a file or an idempotency key.                        *)
THEOREM VaultKeepsItsTypes == VaultSpec => []VaultTypeOK
<1>1. ASSUME VaultInv PROVE VaultTypeOK
  <2>1. object \in [Files -> Pieces \cup {Gone}] /\ hidden \in [Files -> Pieces \cup {Gone}]
    BY <1>1, PiecesAre DEF VaultInv, FilesGood
  <2>2. lockfile \in [Uploads -> Nat]
    BY <1>1 DEF VaultInv, LocksGood
  <2>3. /\ row \in [Uploads -> Rows] /\ partial \in [Uploads -> Pieces \cup {Gone}]
        /\ life \in [Files -> {"none", "live", "deleted", "purged"}] /\ unsynced \subseteq Files
        /\ \A t \in Threads : At(t) \in {"count", "insert", "forget"} <=> writer = t
    BY <1>1 DEF VaultInv, RowsGood, FilesGood, BytesGood, ThreadsGood
  <2>4. \A u \in Uploads :
          /\ row[u].file # NoFile <=> row[u].state \in {"completing", "committed", "purged"}
          /\ \A v \in Uploads \ {u} : /\ row[u].file # row[v].file \/ row[u].file = NoFile
                                      /\ row[u].key # row[v].key \/ row[u].key = NoKey
    BY <1>1 DEF VaultInv, RowsGood
  <2> QED BY <2>1, <2>2, <2>3, <2>4 DEF VaultTypeOK
<1> QED BY <1>1, VaultInvariance, PTL

(* Every live file is whole, and the bytes a phone was told are verified   *)
(* are in the partial, or in the object of the completion that took them,  *)
(* until the file is there: whatever races, fails, dies or loses power.    *)
THEOREM FilesStayWhole == VaultSpec => []FilesAreWhole
<1>1. VaultInv => FilesAreWhole
  BY DEF VaultInv, BytesGood
<1> QED BY <1>1, VaultInvariance, PTL
------------------------------------------------------------------------------
(* The vault as its promise sees it.                                       *)
Stage(u) == StageOf(row[u].state)
Came(u) == IF row[u].state \in {"committed", "purged"} THEN {row[u].file} ELSE {}
StageRests(u) == Stage(u)' = Stage(u) \/ (Stage(u) = "open" /\ Stage(u)' = "failed")
KeyRests(u) == row'[u].key = row[u].key

(* What moves of rows are to it.                                           *)
LEMMA MovesMap ==
  ASSUME NEW u \in Uploads
  PROVE  /\ Keeps(u) \/ Ends(u) => StageRests(u) /\ Came(u)' = Came(u)
         /\ \A t \in Threads : u = Up(t) /\ Works(t) =>
               \/ StageRests(u) /\ Came(u)' = Came(u)
               \/ At(t) = "commit" /\ CommitWorks(u) /\ row[u].file = thread[t].f
<1>1. Keeps(u) => StageRests(u) /\ Came(u)' = Came(u)
  BY DEF Keeps, StageRests, Came, Stage
<1>2. Ends(u) => StageRests(u) /\ Came(u)' = Came(u)
  BY DEF Ends, StageRests, Came, Stage, StageOf, Receivable
<1>3. ASSUME row[u].state \in Receivable \cup {"completing"}, row'[u].state \in Receivable \cup {"completing"}
      PROVE  StageRests(u) /\ Came(u)' = Came(u)
  BY <1>3 DEF StageRests, Came, Stage, StageOf, Receivable
<1>4. ASSUME NEW t \in Threads, u = Up(t), Works(t)
      PROVE  \/ StageRests(u) /\ Came(u)' = Came(u)
             \/ At(t) = "commit" /\ CommitWorks(u) /\ row[u].file = thread[t].f
  BY <1>3, <1>4 DEF Works, MarkWorks, ClaimWorks, RestartWorks, WriteWorks, CountWorks, Receivable
<1> QED BY <1>1, <1>2, <1>4

(* Whatever leaves keys and files alone may only have ended uploads.       *)
LEMMA FailMaps ==
  ASSUME life' = life, \A u \in Uploads : StageRests(u) /\ Came(u)' = Came(u) /\ KeyRests(u)
  PROVE  Promise!PromiseNext
BY DEF StageRests, Stage, Came, KeyRests, Promise!PromiseNext, Promise!Fail, Promise!MayFail

(* Rows that rest with their keys keep the promise.                        *)
LEMMA RestMaps ==
  ASSUME RowsRest, life' = life, \A u \in Uploads : KeyRests(u)
  PROVE  Promise!PromiseNext
BY MovesMap, FailMaps DEF RowsRest

(* Keys stay but when an upload begins and when a file is deleted.         *)
LEMMA KeysRest ==
  ASSUME ThreadsGood, RowsGood, NEW t \in Threads, ThreadStep(t), ~Create(t),
         ~\E f \in Files : Delete(t, f), NEW v \in Uploads
  PROVE  KeyRests(v)
<1>1. row \in [Uploads -> Rows] /\ row[v] \in Rows /\ Expired(row)[v] \in Rows
      /\ Expired(row)[v].key = row[v].key /\ Expired(row) = [u \in Uploads |-> Expired(row)[u]]
  BY ExpiredRows DEF RowsGood, Expired
<1>2. CASE row' = row \/ row' = Expired(row)
  BY <1>1, <1>2 DEF KeyRests
<1>3. CASE Mark(t) \/ Claim(t) \/ Commit(t)
  <2>1. CASE \E x : row' = [row EXCEPT ![Up(t)].state = x]
    BY <1>1, <2>1 DEF KeyRests, Rows
  <2>2. CASE \E f : row' = [row EXCEPT ![Up(t)].state = "completing", ![Up(t)].file = f,
                                      ![Up(t)].aged = FALSE]
    BY <1>1, <2>2 DEF KeyRests, Rows
  <2>3. CASE row' = [row EXCEPT ![Up(t)].state = "committed", ![Up(t)].verified = Total,
                                ![Up(t)].aged = FALSE]
    BY <1>1, <2>3 DEF KeyRests, Rows
  <2>4. CASE Mark(t)
    <3>1. row' = [row EXCEPT ![Up(t)].state = IF row[Up(t)].state \in Receivable THEN thread[t].err
                                              ELSE row[Up(t)].state]
      BY <1>1, <2>4, MarkDoes, ItsShape DEF Mark, Critical, Looking
    <3> QED BY <2>1, <3>1
  <2> QED BY <1>2, <1>3, <2>2, <2>3, <2>4 DEF Claim, Commit
<1>4. CASE Restart(t)
  BY <1>1, <1>4 DEF KeyRests, Rows, Restart, Restarted
<1>5. CASE Write(t) \/ Count(t)
  <2> DEFINE R == Expired(row)
  <2>1. \/ row' = row \/ row' = R
        \/ row' = [R EXCEPT ![Up(t)].state = "failed_retryable", ![Up(t)].verified = 0]
        \/ row' = [R EXCEPT ![Up(t)].state = "receiving", ![Up(t)].verified = thread[t].off + 1,
                            ![Up(t)].lapsed = FALSE]
    BY <1>5 DEF Write, Count
  <2> HIDE DEF R
  <2>2. R[v] \in Rows /\ R[v].key = row[v].key /\ R = [u \in Uploads |-> R[u]]
    BY <1>1 DEF R
  <2> QED BY <2>1, <2>2 DEF KeyRests, Rows
<1>6. CASE Forget(t)
  BY <1>1, <1>6 DEF KeyRests, Rows, Forget
<1>7. CASE ReadRow(t) \/ Sweep(t) \/ Insert(t)
  BY <1>2, <1>7 DEF ReadRow, Sweep, Insert
<1>8. CASE \/ Acquire(t) \/ Release(t) \/ Check(t) \/ Resume(t) \/ Move(t) \/ ReadStale(t)
           \/ Recover(t) \/ Drop(t) \/ Unlink(t) \/ GetSession(t) \/ Send(t) \/ Add(t) \/ CleanUp(t)
           \/ Put(t) \/ InsertFails(t) \/ Undo(t) \/ Discard(t) \/ ForgetFails(t) \/ Shred(t)
           \/ CountFails(t) \/ \E f \in Files : Purge(t, f)
  <2>1. row' = row
    BY <1>8 DEF Acquire, Release, Check, Resume, Move, ReadStale, Recover, Drop, Unlink, GetSession,
       Send, Add, CleanUp, Put, InsertFails, Undo, Discard, ForgetFails, Shred, CountFails, Purge
  <2> QED BY <1>2, <2>1
<1> QED BY <1>3, <1>4, <1>5, <1>6, <1>7, <1>8 DEF ThreadStep, Step

(* A completed upload arrives.                                             *)
LEMMA CommitMaps ==
  ASSUME VaultInv, VaultInv', NEW t \in Threads, Commit(t),
         NEW u, u = Up(t), NEW f, f = thread[t].f
  PROVE  Promise!PromiseNext
<1> USE DEF VaultInv
<1>1. /\ u \in Uploads /\ f \in Files /\ At(t) = "commit"
      /\ row[u].state = "completing" /\ row[u].file = f /\ f # NoFile
  <2>1. At(t) = "commit" /\ At(t) \in Completing
    BY CommitDoes DEF Completing
  <2>2. /\ u \in Uploads /\ f \in Files /\ row[u].state = "completing" /\ row[u].file = f
    BY <2>1, WorkedFile
  <2> QED BY <2>1, <2>2, VaultAssumption DEF VaultAssumption
<1>2. row' = [row EXCEPT ![u].state = "committed", ![u].verified = Total, ![u].aged = FALSE]
  BY <1>1 DEF Commit
<1>3. life[f] = "none" /\ life' = [life EXCEPT ![f] = "live"]
  BY <1>1 DEF FilesGood, Commit
<1>4. row \in [Uploads -> Rows] /\ row[u] \in Rows
  BY <1>1 DEF RowsGood
<1>5. /\ row'[u].state = "committed" /\ row'[u].file = f /\ row'[u].key = row[u].key
      /\ \A v \in Uploads \ {u} : row'[v] = row[v]
  BY <1>1, <1>2, <1>4 DEF Rows
<1>6. /\ Stage(u) = "open" /\ Stage(u)' = "arrived" /\ Came(u) = {} /\ Came(u)' = {f}
      /\ \A v \in Uploads \ {u} : Stage(v)' = Stage(v) /\ Came(v)' = Came(v)
      /\ \A v \in Uploads : KeyRests(v)
  BY <1>1, <1>5 DEF Stage, Came, KeyRests, StageOf, Receivable
<1>7. Promise!Arrive(u, f)
  <2> DEFINE stage == [v \in Uploads |-> Stage(v)]
             result == [v \in Uploads |-> Came(v)]
             claim == [v \in Uploads |-> row[v].key]
  <2>1. stage' = [stage EXCEPT ![u] = "arrived"] /\ stage[u] = "open"
    BY <1>1, <1>6
  <2>2. result' = [result EXCEPT ![u] = {f}]
    BY <1>1, <1>6
  <2>3. claim' = claim
    BY <1>6 DEF KeyRests
  <2> QED BY <1>3, <2>1, <2>2, <2>3 DEF Stage, Came, Promise!Arrive
<1> QED BY <1>1, <1>7 DEF Promise!PromiseNext

(* A small file arrives at once.                                           *)
LEMMA InsertMaps ==
  ASSUME VaultInv, NEW t \in Threads, Insert(t), \A u \in Uploads : KeyRests(u)
  PROVE  Promise!PromiseNext
<1> USE DEF VaultInv
<1> DEFINE f == thread[t].f
<1>1. f \in Files /\ life[f] = "none"
  BY FileOfThread DEF Insert, OnFile, FilesGood, FileOf
<1>2. life' = [life EXCEPT ![f] = "live"]
  BY DEF Insert
<1>3. \A u \in Uploads : StageRests(u) /\ Came(u)' = Came(u)
  BY ExpiredRests, MovesMap DEF Insert, RowsRest
<1> HIDE DEF f
<1>4. Promise!Put(f)
  BY <1>1, <1>2, <1>3 DEF StageRests, Stage, Came, KeyRests, Promise!Put, Promise!MayFail
<1> QED BY <1>1, <1>4 DEF Promise!PromiseNext

(* A file is deleted, and its upload stands for its key no longer.         *)
LEMMA DeleteMaps ==
  ASSUME VaultInv, VaultInv', NEW t \in Threads, NEW f \in Files, Delete(t, f)
  PROVE  Promise!PromiseNext
<1> USE DEF VaultInv
<1>1. /\ life[f] \in {"live", "deleted"} /\ life' = [life EXCEPT ![f] = "deleted"]
      /\ row' = [u \in Uploads |-> IF row[u].file = f /\ life[f] = "live"
                                   THEN [row[u] EXCEPT !.key = NoKey] ELSE row[u]]
  BY DEF Delete
<1>2. \A u \in Uploads : /\ row'[u].state = row[u].state /\ row'[u].file = row[u].file
                         /\ \/ row'[u].key = row[u].key
                            \/ row'[u].key = NoKey /\ row[u].file = f /\ life[f] = "live"
  <2> TAKE u \in Uploads
  <2>1. row[u] \in Rows
    BY DEF RowsGood
  <2> QED BY <1>1, <2>1 DEF Rows
<1>3. \A u \in Uploads : Stage(u)' = Stage(u) /\ Came(u)' = Came(u)
  BY <1>2 DEF Stage, Came
<1>4. life'[f] = "deleted" /\ life \in [Files -> {"none", "live", "deleted", "purged"}]
  BY <1>1 DEF FilesGood
<1>5. CASE life[f] = "deleted"
  <2>1. life' = life
    BY <1>1, <1>4, <1>5
  <2>2. \A u \in Uploads : KeyRests(u)
    BY <1>2, <1>5 DEF KeyRests
  <2> QED BY <1>3, <2>1, <2>2, FailMaps DEF StageRests
<1>6. CASE life[f] = "live"
  <2>1. \A u \in Uploads : \/ KeyRests(u)
                           \/ /\ row'[u].key = NoKey /\ Stage(u)' # "open"
                              /\ ~(Stage(u)' = "arrived" /\ \E g \in Came(u)' : life'[g] = "live")
    <3> TAKE u \in Uploads
    <3>1. CASE row[u].file = f /\ row'[u].key = NoKey
      <4>1. row[u].state \in {"committed", "purged"}
        <5>1. f # NoFile
          BY VaultAssumption DEF VaultAssumption
        <5> QED BY <1>6, <3>1, <5>1 DEF RowsGood, FilesGood
      <4>2. Stage(u)' # "open" /\ Came(u)' = {f}
        BY <1>2, <3>1, <4>1 DEF Stage, Came, StageOf, Receivable
      <4> QED BY <1>4, <3>1, <4>2
    <3> QED BY <1>2, <3>1 DEF KeyRests
  <2>2. \A u \in Uploads : \A v \in Uploads \ {u} : row'[u].key # row'[v].key \/ row'[u].key = NoKey
    BY DEF RowsGood
  <2>3. Promise!Claims
    BY <2>1, <2>2 DEF Promise!Claims, Promise!Stands, Stage, Came, KeyRests
  <2>4. Promise!Delete(f)
    BY <1>1, <1>3, <1>6, <2>3 DEF Promise!Delete, Stage, Came
  <2> QED BY <2>4 DEF Promise!PromiseNext
<1> QED BY <1>1, <1>5, <1>6

(* A deleted file is purged, and with it the upload it came from.          *)
LEMMA ForgetMaps ==
  ASSUME VaultInv, NEW t \in Threads, Forget(t), \A u \in Uploads : KeyRests(u)
  PROVE  Promise!PromiseNext
<1> USE DEF VaultInv
<1> DEFINE f == thread[t].f
<1>1. f \in Files /\ life[f] = "deleted" /\ f # NoFile
  BY FileOfThread, VaultAssumption DEF Forget, OnFile, FilesGood, FileOf, VaultAssumption
<1>2. /\ life' = [life EXCEPT ![f] = "purged"]
      /\ row' = [u \in Uploads |-> IF row[u].file = f THEN [row[u] EXCEPT !.state = "purged"]
                                   ELSE row[u]]
  BY DEF Forget
<1> HIDE DEF f
<1>3. \A u \in Uploads : /\ Stage(u)' = IF f \in Came(u) THEN "purged" ELSE Stage(u)
                         /\ Came(u)' = Came(u)
  <2> TAKE u \in Uploads
  <2>1. row[u] \in Rows
    BY DEF RowsGood
  <2>2. CASE row[u].file = f
    <3>1. row[u].state \in {"committed", "purged"}
      BY <1>1, <2>2 DEF RowsGood, FilesGood
    <3>2. row'[u].state = "purged" /\ row'[u].file = f
      BY <1>2, <2>1, <2>2 DEF Rows
    <3> QED BY <2>2, <3>1, <3>2 DEF Stage, Came, StageOf, Receivable
  <2>3. CASE row[u].file # f
    <3>1. row'[u] = row[u]
      BY <1>2, <2>3
    <3> QED BY <2>3, <3>1 DEF Stage, Came
  <2> QED BY <2>2, <2>3
<1>4. Promise!Purge(f)
  BY <1>1, <1>2, <1>3 DEF Promise!Purge, Stage, Came, KeyRests
<1> QED BY <1>1, <1>4 DEF Promise!PromiseNext

(* An upload begins, or one that stands for the key goes on.               *)
LEMMA CreateMaps ==
  ASSUME VaultInv, VaultInv', NEW t \in Threads, Create(t)
  PROVE  Promise!PromiseNext
<1> USE DEF VaultInv
<1> DEFINE E == Expired(row)
           R == ReleasedKey(E, t)
<1>1. At(t) = "create" /\ life' = life /\ t \in Adders /\ Wants[t] # NoKey
  <2>1. At(t) = "create" /\ life' = life
    BY DEF Create
  <2>2. t \in Adders
    BY <2>1 DEF WorkGood, WorkOf
  <2> QED BY <2>1, <2>2, VaultAssumption DEF VaultAssumption
<1>2. \A u \in Uploads :
         /\ R[u].state = E[u].state /\ R[u].file = row[u].file
         /\ E[u].state = row[u].state \/ (row[u].state \in Receivable /\ E[u].state = "expired")
         /\ \/ R[u].key = row[u].key
            \/ /\ R[u].key = NoKey /\ row[u].key = Wants[t]
               /\ R[u].state \in {"cancelled", "expired", "failed_terminal"}
  <2> TAKE u \in Uploads
  <2>1. E[u] \in Rows /\ E[u].file = row[u].file /\ E[u].key = row[u].key
        /\ (E[u].state = row[u].state \/ (row[u].state \in Receivable /\ E[u].state = "expired"))
    BY ExpiredRows
  <2>2. \/ R[u] = E[u]
        \/ /\ R[u] = [E[u] EXCEPT !.key = NoKey] /\ E[u].key = Wants[t]
           /\ E[u].state \in {"cancelled", "expired", "failed_terminal"}
    BY DEF ReleasedKey, Standing, Unneeded
  <2> HIDE DEF E, R
  <2> QED BY <2>1, <2>2 DEF Rows
<1>3. \A u \in Uploads : R[u].state = row[u].state \/ (row[u].state \in Receivable /\ R[u].state = "expired")
  BY <1>2
<1>4. CASE Up(t)' \in Standing(R, t) /\ row' = R
  <2> HIDE DEF E, R
  <2>1. PICK u \in Uploads : R[u].key = Wants[t]
    BY <1>4 DEF Standing
  <2>2. \A v \in Uploads : KeyRests(v)
    <3> TAKE v \in Uploads
    <3>1. row[u].key = Wants[t]
      BY <1>1, <1>2, <2>1
    <3>2. CASE row[v].key = Wants[t]
      <4>1. v = u
        BY <1>1, <3>1, <3>2 DEF RowsGood
      <4> QED BY <1>4, <2>1, <3>1, <4>1 DEF KeyRests
    <3> QED BY <1>2, <1>4, <3>2 DEF KeyRests
  <2>3. \A v \in Uploads : Keeps(v) \/ Ends(v)
    BY <1>1, CreateRows, <1>3, <1>4 DEF RowsMove, Keeps, Ends, Opens, Purges, Works, Receivable
  <2>4. \A v \in Uploads : StageRests(v) /\ Came(v)' = Came(v)
    BY <2>3, MovesMap
  <2> QED BY <1>1, <2>2, <2>4, FailMaps
<1>5. CASE /\ Standing(R, t) = {} /\ Up(t)' \in Uploads /\ R[Up(t)'].state = "unused"
           /\ row' = [R EXCEPT ![Up(t)'] = [Unused EXCEPT !.state = "created", !.key = Wants[t]]]
  <2>1. PICK u \in Uploads : /\ R[u].state = "unused"
                             /\ row' = [R EXCEPT ![u] = [Unused EXCEPT !.state = "created",
                                                                      !.key = Wants[t]]]
    BY <1>5
  <2>2. R = [v \in Uploads |-> R[v]]
    BY DEF ReleasedKey
  <2> HIDE DEF E, R
  <2>3. /\ row'[u].state = "created" /\ \A v \in Uploads \ {u} : row'[v] = R[v]
        /\ row[u].state = "unused"
    BY <1>3, <2>1, <2>2 DEF Unused
  <2>4. Stage(u) = "unused" /\ Stage(u)' = "open" /\ Came(u) = {} /\ Came(u)' = {}
    BY <2>3 DEF Stage, Came, StageOf, Receivable
  <2>5. \A v \in Uploads \ {u} : /\ StageRests(v) /\ Came(v)' = Came(v)
                                 /\ KeyRests(v) \/ (row'[v].key = NoKey /\ Stage(v)' = "failed")
    <3> TAKE v \in Uploads \ {u}
    <3>1. row'[v] = R[v]
      BY <2>3
    <3>2. StageRests(v) /\ Came(v)' = Came(v)
      <4>1. CASE R[v].state = row[v].state
        <5>1. row'[v].state = row[v].state /\ row'[v].file = row[v].file
          BY <1>2, <3>1, <4>1
        <5> QED BY <5>1 DEF StageRests, Stage, Came
      <4>2. CASE row[v].state \in Receivable /\ R[v].state = "expired"
        BY <3>1, <4>2 DEF StageRests, Stage, Came, StageOf, Receivable
      <4> QED BY <1>3, <4>1, <4>2
    <3>3. KeyRests(v) \/ (row'[v].key = NoKey /\ Stage(v)' = "failed")
      BY <1>2, <3>1 DEF KeyRests, Stage, StageOf, Receivable
    <3> QED BY <3>2, <3>3
  <2>6. \A v \in Uploads : \A w \in Uploads \ {v} : row'[v].key # row'[w].key \/ row'[v].key = NoKey
    BY DEF RowsGood
  <2>7. Promise!Claims
    BY <2>4, <2>5, <2>6 DEF Promise!Claims, Promise!Stands, Stage, Came, KeyRests
  <2>8. [v \in Uploads |-> Came(v)]' = [v \in Uploads |-> Came(v)]
    BY <2>4, <2>5
  <2>9. Promise!Open(u)
    BY <1>1, <2>4, <2>5, <2>7, <2>8 DEF Promise!Open, Promise!MayFail, Stage, Came, StageRests
  <2> QED BY <2>9 DEF Promise!PromiseNext
<1> QED BY <1>4, <1>5, CreateDoes


(* Every step is one of the promise's.                                     *)
LEMMA ThreadsKeepPromise ==
  ASSUME VaultInv, VaultInv', NEW t \in Threads, ThreadStep(t)
  PROVE  Promise!PromiseNext
<1>1. ThreadsGood /\ RowsGood /\ WorkGood /\ FilesGood
  BY DEF VaultInv
<1>2. CASE Create(t) \/ Commit(t) \/ \E f \in Files : Delete(t, f)
  BY <1>2, CreateMaps, CommitMaps, DeleteMaps
<1>3. CASE ~(Create(t) \/ \E f \in Files : Delete(t, f))
  <2>1. \A u \in Uploads : KeyRests(u)
    BY <1>1, <1>3, KeysRest
  <2>2. CASE Insert(t) \/ Forget(t)
    BY <2>1, <2>2, InsertMaps, ForgetMaps
  <2>3. CASE Mark(t) \/ Claim(t) \/ Restart(t) \/ Write(t) \/ Count(t)
    <3>1. RowsMove(t)
      BY <1>1, ThreadRows
    <3>2. At(t) \notin {"create", "forget", "commit"} /\ life' = life
      BY <2>3 DEF Mark, Claim, Restart, Write, Count
    <3>3. \A u \in Uploads : Keeps(u) \/ Ends(u) \/ (u = Up(t) /\ Works(t))
      BY <3>1, <3>2 DEF RowsMove
    <3>4. \A u \in Uploads : StageRests(u) /\ Came(u)' = Came(u)
      BY <3>2, <3>3, MovesMap
    <3> QED BY <2>1, <3>2, <3>4, FailMaps
  <2>4. CASE ReadRow(t) \/ Sweep(t)
    <3>1. (row' = row \/ row' = Expired(row)) /\ life' = life
      BY <2>4 DEF ReadRow, Sweep
    <3> QED BY <1>1, <2>1, <3>1, StillRests, ExpiredRests, RestMaps
  <2>5. CASE \/ Acquire(t) \/ Release(t) \/ Check(t) \/ Resume(t) \/ Move(t) \/ ReadStale(t)
             \/ Recover(t) \/ Drop(t) \/ Unlink(t) \/ GetSession(t) \/ Send(t) \/ Add(t) \/ CleanUp(t)
             \/ Put(t) \/ InsertFails(t) \/ Undo(t) \/ Discard(t) \/ ForgetFails(t) \/ Shred(t)
             \/ CountFails(t) \/ \E f \in Files : Purge(t, f)
    <3>1. row' = row /\ life' = life
      BY <2>5 DEF Acquire, Release, Check, Resume, Move, ReadStale, Recover, Drop, Unlink, GetSession,
         Send, Add, CleanUp, Put, InsertFails, Undo, Discard, ForgetFails, Shred, CountFails, Purge
    <3> QED BY <1>1, <2>1, <3>1, StillRests, RestMaps
  <2> QED BY <1>2, <1>3, <2>2, <2>3, <2>4, <2>5 DEF ThreadStep, Step
<1> QED BY <1>2, <1>3

(* So does whatever else happens.                                          *)
LEMMA ChancesKeepPromise ==
  ASSUME VaultInv, VaultInv',
         (\E u \in Uploads : RowChance(u) \/ Lose(u)) \/ Death \/ UNCHANGED vars
  PROVE  Promise!PromiseNext
<1>1. RowsGood
  BY DEF VaultInv
<1>2. RowsRest
  BY <1>1, ChanceRows
<1>3. ASSUME NEW u \in Uploads, RowChance(u) \/ Lose(u)
      PROVE  life' = life /\ \A v \in Uploads : KeyRests(v)
  <2>1. life' = life /\ row' \in {row, [row EXCEPT ![u].state = "cancelled"],
                                  [row EXCEPT ![u].lapsed = TRUE], [row EXCEPT ![u].aged = TRUE]}
    BY <1>3 DEF RowChance, Lose, Cancel, Lapse, FailedLapse, LeaseEnds, Age
  <2> SUFFICES ASSUME NEW v \in Uploads PROVE KeyRests(v)
    BY <2>1
  <2>2. row \in [Uploads -> Rows] /\ row[v] \in Rows
    BY <1>1 DEF RowsGood
  <2> QED BY <2>1, <2>2 DEF KeyRests, Rows
<1>4. ASSUME Death \/ UNCHANGED vars PROVE life' = life /\ \A v \in Uploads : KeyRests(v)
  <2>1. life' = life /\ row' = row
    BY <1>4 DEF Death, Die, PowerLoss, vars
  <2> QED BY <2>1 DEF KeyRests
<1> QED BY <1>2, <1>3, <1>4, RestMaps

(* The promise holds of the empty vault.                                   *)
LEMMA PromiseBegins == ASSUME VaultInit PROVE Promise!PromiseInit
<1>1. \A u \in Uploads : /\ StageOf(row[u].state) = "unused" /\ row[u].key = NoKey
                         /\ row[u].state \notin {"committed", "purged"}
  BY DEF VaultInit, Unused, StageOf, Receivable
<1> QED BY <1>1 DEF VaultInit, Promise!PromiseInit

(* The vault implements its promise: a file arrives once and whole, what   *)
(* was cancelled, expired or failed never arrives, no two uploads stand    *)
(* for one idempotency key, and what is deleted stays away, whatever       *)
(* interleaves and whoever dies.                                           *)
THEOREM VaultKeepsPromise == VaultSpec => KeepsPromise
<1>1. VaultInit => Promise!PromiseInit
  BY PromiseBegins
<1>2. VaultInv /\ VaultInv' /\ [VaultNext]_vars => [Promise!PromiseNext]_(Promise!PromiseVars)
  BY NextIs, ThreadsKeepPromise, ChancesKeepPromise
<1> QED BY <1>1, <1>2, VaultInvariance, PTL DEF VaultSpec, KeepsPromise, Promise!PromiseSpec
=============================================================================
