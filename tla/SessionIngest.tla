--------------------------- MODULE SessionIngest ----------------------------
(***************************************************************************)
(* On-demand ingestion of provider transcripts into the session event log  *)
(* (mac/companiond/session_event_ingest.py), on top of SessionEventLog,    *)
(* whose operations its threads call.                                      *)
(*                                                                         *)
(* A provider appends records to the transcript at a path, or replaces the *)
(* file.  HTTP streams register a session (ensure), the file watcher       *)
(* wakes the one ingest worker, the worker and requests that need the head *)
(* of the transcript (drain_now) copy records into the log, requests that  *)
(* serve bytes of an open transcript bind the log to it                    *)
(* (generation_for_open_source), and the deletion of a transcript drops    *)
(* both.  Each registration is an object with a drain lock of its own; a   *)
(* thread that looked one up keeps it after the session is registered      *)
(* again.                                                                  *)
(***************************************************************************)
EXTENDS SessionEventLog

CONSTANTS Paths,         \* transcript paths
          Worker,        \* the ingest thread
          Streams,       \* request threads that keep a session registered
          Drainers,      \* request threads that call drain_now
          Tails,         \* request threads that serve an open transcript
          Removers,      \* request threads that delete transcripts
          ParserVersion, \* of the provider's parser
          Budgets,       \* bounds: see budget
          MaxQueue,      \* bound: events the worker's queue holds
          NoEntry, NoPath, NoKey, Nobody

Threads == {Worker} \cup Streams \cup Drainers \cup Tails \cup Removers

(* A scenario: the transcripts there are at the start, how many records a  *)
(* file holds at most, how many registrations there are between two        *)
(* starts, I/O errors, crashes of the daemon and moves of a session, and   *)
(* the threads, the written paths and the replacing inodes it is about.    *)
BudgetRecord == [start : [Paths -> Sources], length : 0..MaxOffset,
                 entries : Nat, faults : Nat, crashes : Nat, resumes : Nat,
                 threads : SUBSET Threads, paths : SUBSET Paths,
                 fresh : SUBSET Sources]

ASSUME IngestAssumption ==
    /\ Events = Sources \X (1..MaxOffset)
    /\ Writers = {Worker} \cup Drainers
    /\ ParserVersion \in Parsers
    /\ Nobody \notin Threads
    /\ Budgets \subseteq BudgetRecord
    /\ \A b \in Budgets : \A p, q \in Paths : p # q => b.start[p] # b.start[q]

VARIABLES
    file,     \* Paths -> the inode at the path, or NoSource
    written,  \* Sources -> number of records in the inode
    current,  \* Keys -> the transcript path the registry resolves
    deletion, \* Keys -> "no", the inode a pending deletion is for, or "done"
    entry,    \* registration objects: id -> [key, path, ready, watch]
    session,  \* _sessions: Keys -> id of the registered object, or NoEntry
    holder,   \* id -> the thread that holds the object's drain lock
    awaiting, \* watched paths whose present inode is not registered yet
    wakes,    \* events queued for the worker: <<path, type>>
    errors,   \* _errors: keys in the typed error state
    due,      \* the worker's batch: Keys -> {"no", "drain", "reset"}
    thread,   \* Threads -> program counter and locals
    movedUnder, \* history: Keys -> the registration its cursor last moved under
    budget    \* bound: what the environment may still do, and who takes part

environment == <<file, written, current, deletion>>
registry == <<entry, session, holder, awaiting>>
control == <<wakes, errors, due>>
vars == <<logVars, environment, registry, control, thread, budget, movedUnder>>

Spend(what) == /\ budget[what] > 0
               /\ budget' = [budget EXCEPT ![what] = @ - 1]

At(t) == thread[t].pc
Rest == [pc |-> "rest", key |-> NoKey, id |-> NoEntry, path |-> NoPath,
         source |-> NoSource, size |-> 0, offset |-> 0, force |-> FALSE]
Goto(t, pc) == thread' = [thread EXCEPT ![t].pc = pc]

Content(s) == [i \in 1..written[s] |-> <<s, i>>]

Registered == {session[k] : k \in {j \in Keys : session[j] # NoEntry}}
WatchedBy(e) == {e[i].path : i \in {j \in DOMAIN e : e[j].watch}}

Free(i) == holder[i] = Nobody
Unlock(t) == holder' = [holder EXCEPT ![thread[t].id] = Nobody]

(* The hub hands an event to the worker's subscription.                    *)
Notify(p, type) ==
    wakes' = IF p \in WatchedBy(entry) /\ p \notin awaiting
             THEN wakes \cup {<<p, type>>} ELSE wakes

Fault == Spend("faults")

(* Whoever moves the cursor of a session does so under the registration it *)
(* looked up; a request that binds an open transcript, under the present   *)
(* one.                                                                    *)
RegistrationOf(t) == IF At(t) = "bind" THEN session[thread[t].key] ELSE thread[t].id
Remember(t) ==
    movedUnder' = [k \in Keys |-> IF cursor'[k] = cursor[k] THEN movedUnder[k]
                                  ELSE RegistrationOf(t)]

------------------------------------------------------------------------------
IngestInit ==
    /\ Init
    /\ written = [s \in Sources |-> 0]
    /\ current \in [Keys -> Paths]
    /\ deletion = [k \in Keys |-> "no"]
    /\ entry = <<>> /\ holder = <<>>
    /\ session = [k \in Keys |-> NoEntry]
    /\ awaiting = {} /\ wakes = {} /\ errors = {}
    /\ due = [k \in Keys |-> "no"]
    /\ thread = [t \in Threads |-> Rest]
    /\ movedUnder = [k \in Keys |-> NoEntry]
    /\ budget \in Budgets
    /\ file = budget.start

------------------------------------------------------------------------------
(* The provider and the file watcher.                                      *)

WriteRecord(p) ==
    /\ p \in budget.paths
    /\ file[p] # NoSource
    /\ written[file[p]] < budget.length
    /\ written' = [written EXCEPT ![file[p]] = @ + 1]
    /\ Notify(p, "changed")
    /\ UNCHANGED <<logVars, file, current, deletion, registry, errors, due,
                   thread, budget, movedUnder>>

(* An atomic rewrite: another inode with n records takes the path of one   *)
(* that has records, and no inode number is used twice.  The watcher       *)
(* reports the old inode as rotated and closes it.                         *)
ReplaceFile(p, s, n) ==
    /\ p \in budget.paths /\ s \in budget.fresh /\ n <= budget.length
    /\ file[p] # NoSource
    /\ written[file[p]] > 0 /\ written[s] = 0
    /\ \A q \in Paths : file[q] # s
    /\ file' = [file EXCEPT ![p] = s]
    /\ written' = [written EXCEPT ![s] = n]
    /\ Notify(p, "rotated")
    /\ awaiting' = awaiting \cup ({p} \cap WatchedBy(entry))
    /\ UNCHANGED <<logVars, current, deletion, entry, session, holder, errors,
                   due, thread, budget, movedUnder>>

(* Mutant: the content the new inode already has is not announced.         *)
RegisterSilently(p) ==
    /\ up
    /\ p \in awaiting
    /\ file[p] # NoSource
    /\ awaiting' = awaiting \ {p}
    /\ UNCHANGED <<logVars, environment, entry, session, holder, control,
                   thread, budget, movedUnder>>

(* _service_retries: the new inode is registered; what it already holds    *)
(* counts as a change.                                                     *)
RegisterFile(p) ==
    /\ up
    /\ p \in awaiting
    /\ file[p] # NoSource
    /\ awaiting' = awaiting \ {p}
    /\ wakes' = wakes \cup {<<p, "changed">>}
    /\ UNCHANGED <<logVars, environment, entry, session, holder, errors, due,
                   thread, budget, movedUnder>>

(* /resume, or a corrected resolution, moves the session to another file.  *)
Resume(k, p) ==
    /\ deletion[k] = "no"
    /\ current[k] # p
    /\ Spend("resumes")
    /\ current' = [current EXCEPT ![k] = p]
    /\ UNCHANGED <<logVars, file, written, deletion, registry, control, thread,
                   movedUnder>>

------------------------------------------------------------------------------
(* ensure                                                                  *)

(* The caller resolves the transcript.  A stream asks the tombstones first *)
(* and repeats this as long as it is open; a request that serves the file  *)
(* opens it here and keeps its identity and size.                          *)
Resolve(t, k) ==
    /\ up
    /\ At(t) = "rest" /\ t \in budget.threads
    /\ t \in Streams => deletion[k] = "no"
    /\ file[current[k]] # NoSource
    /\ thread' = [thread EXCEPT ![t] =
         [Rest EXCEPT !.pc = "ensure", !.key = k, !.path = current[k],
            !.source = IF t \in Tails THEN file[current[k]] ELSE NoSource,
            !.size = IF t \in Tails THEN written[file[current[k]]] ELSE 0]]
    /\ UNCHANGED <<logVars, environment, registry, control, budget,
                   movedUnder>>

(* What the caller of ensure does after it returned TRUE.                  *)
Ensured(t) == IF t \in Drainers THEN "lookup"
              ELSE IF t \in Tails THEN "bind" ELSE "rest"
Return(t) == IF Ensured(t) = "rest" THEN Rest
             ELSE [thread[t] EXCEPT !.pc = Ensured(t)]

EnsureCreate(t) ==
    /\ At(t) = "ensure"
    /\ session[thread[t].key] = NoEntry
    /\ Len(entry) < budget.entries
    /\ entry' = Append(entry, [key |-> thread[t].key, path |-> thread[t].path,
                               ready |-> FALSE, watch |-> FALSE])
    /\ holder' = Append(holder, t)
    /\ session' = [session EXCEPT ![thread[t].key] = Len(entry) + 1]
    /\ thread' = [thread EXCEPT ![t].pc = "prepare", ![t].id = Len(entry) + 1]
    /\ UNCHANGED <<logVars, environment, awaiting, control, budget,
                   movedUnder>>

EnsureFind(t) ==
    /\ At(t) = "ensure"
    /\ session[thread[t].key] # NoEntry
    /\ thread' = [thread EXCEPT ![t].pc = "ensureLock",
                                ![t].id = session[thread[t].key]]
    /\ UNCHANGED <<logVars, environment, registry, control, budget,
                   movedUnder>>

(* _ensure_locked up to its first call of the log.                         *)
EnsureLocked(t) ==
    /\ At(t) = "ensureLock"
    /\ Free(thread[t].id)
    /\ LET i == thread[t].id
           registered == session[thread[t].key] = i
           same == entry[i].path = thread[t].path
       IN \/ /\ ~registered
             /\ thread' = [thread EXCEPT ![t] = Rest]
             /\ UNCHANGED registry
          \/ /\ registered /\ entry[i].ready /\ same
             /\ thread' = [thread EXCEPT ![t] = Return(t)]
             /\ UNCHANGED registry
          \/ /\ registered /\ entry[i].ready /\ ~same
             /\ entry' = [entry EXCEPT ![i].path = thread[t].path,
                                       ![i].ready = FALSE, ![i].watch = FALSE]
             /\ holder' = [holder EXCEPT ![i] = t]
             /\ awaiting' = awaiting \cap WatchedBy(entry')
             /\ Goto(t, "rebind")
             /\ UNCHANGED session
          \/ /\ registered /\ ~entry[i].ready
             /\ holder' = [holder EXCEPT ![i] = t]
             /\ Goto(t, "prepare")
             /\ UNCHANGED <<entry, session, awaiting>>
    /\ UNCHANGED <<logVars, environment, control, budget, movedUnder>>

EnsurePrepare(t) ==
    /\ At(t) = "prepare"
    /\ LET k == thread[t].key IN
         \/ FirstPrepare(k, ParserVersion)
         \/ RebuildForParser(k, ParserVersion)
         \/ /\ LockFree
            /\ HasCursor(k) /\ cursor[k].parser = ParserVersion
            /\ UNCHANGED logVars
    /\ Goto(t, "watch")
    /\ UNCHANGED <<environment, registry, control, budget>>
    /\ Remember(t)

EnsureRebind(t) ==
    /\ At(t) = "rebind"
    /\ ResetIngest(thread[t].key)
    /\ Goto(t, "watch")
    /\ UNCHANGED <<environment, registry, control, budget>>
    /\ Remember(t)

(* The log raised: the object stays published and not ready.               *)
EnsureFails(t) ==
    /\ At(t) \in {"prepare", "rebind"}
    /\ Fault
    /\ Unlock(t)
    /\ thread' = [thread EXCEPT ![t] = Rest]
    /\ UNCHANGED <<logVars, environment, entry, session, awaiting, control,
                   movedUnder>>

(* The watch is open before the first drain is requested.                  *)
EnsureWatch(t) ==
    /\ At(t) = "watch"
    /\ Unlock(t)
    /\ LET i == thread[t].id
           p == thread[t].path
       IN \/ /\ session[thread[t].key] = i /\ entry[i].path = p
             /\ entry' = [entry EXCEPT ![i].watch = TRUE, ![i].ready = TRUE]
             /\ awaiting' = IF file[p] = NoSource THEN awaiting \cup {p} ELSE awaiting
             /\ wakes' = wakes \cup {<<p, "requested">>}
             /\ thread' = [thread EXCEPT ![t] = Return(t)]
          \/ /\ session[thread[t].key] # i \/ entry[i].path # p
             /\ thread' = [thread EXCEPT ![t] = Rest]
             /\ UNCHANGED <<entry, awaiting, wakes>>
    /\ UNCHANGED <<logVars, environment, session, errors, due, budget,
                   movedUnder>>

(* remove, and the eviction of the least recently used session, under the  *)
(* drain lock of the object.                                               *)
Unregister(k) ==
    /\ session[k] # NoEntry
    /\ Free(session[k])
    /\ session' = [session EXCEPT ![k] = NoEntry]
    /\ entry' = [entry EXCEPT ![session[k]].ready = FALSE,
                              ![session[k]].watch = FALSE]
    /\ awaiting' = awaiting \cap WatchedBy(entry')
    /\ errors' = errors \ {k}

Evict(k) ==
    /\ up
    /\ Len(entry) < budget.entries
    /\ Unregister(k)
    /\ UNCHANGED <<logVars, environment, holder, wakes, due, thread, budget,
                   movedUnder>>

------------------------------------------------------------------------------
(* The ingest worker: _run collects a batch, then drains one key at a time *)

BoundTo(p) == {k \in Keys : session[k] # NoEntry /\ entry[session[k]].path = p}
Woken(k) == {e[2] : e \in {w \in wakes : w[1] = NoPath \/ k \in BoundTo(w[1])}}

Collect ==
    /\ up
    /\ At(Worker) = "rest"
    /\ \A k \in Keys : due[k] = "no"
    /\ wakes # {} \/ errors # {}
    /\ due' = [k \in Keys |-> CASE "rotated" \in Woken(k) -> "reset"
                              [] "rotated" \notin Woken(k)
                                   /\ (k \in errors
                                       \/ (session[k] # NoEntry /\ Woken(k) # {})) -> "drain"
                              [] OTHER -> "no"]
    /\ wakes' = {}
    /\ UNCHANGED <<logVars, environment, registry, errors, thread, budget,
                   movedUnder>>

(* The bounded queue drops its oldest events; the worker gets a queue_gap. *)
Overflow(kept) ==
    /\ up
    /\ Cardinality(wakes) >= MaxQueue
    /\ kept # wakes
    /\ wakes' = kept \cup {<<NoPath, "gap">>}
    /\ UNCHANGED <<logVars, environment, registry, errors, due, thread, budget,
                   movedUnder>>

Take(k) ==
    /\ up
    /\ At(Worker) = "rest"
    /\ due[k] # "no"
    /\ due' = [due EXCEPT ![k] = "no"]
    /\ thread' = IF session[k] = NoEntry THEN thread
                 ELSE [thread EXCEPT ![Worker] =
                         [Rest EXCEPT !.pc = "lock", !.key = k, !.id = session[k],
                                      !.force = (due[k] = "reset")]]
    /\ UNCHANGED <<logVars, environment, registry, wakes, errors, budget,
                   movedUnder>>

(* drain_now                                                               *)
Lookup(t) ==
    /\ At(t) = "lookup"
    /\ thread' = IF session[thread[t].key] = NoEntry
                 THEN [thread EXCEPT ![t] = Rest]
                 ELSE [thread EXCEPT ![t].pc = "lock",
                                     ![t].id = session[thread[t].key]]
    /\ UNCHANGED <<logVars, environment, registry, control, budget,
                   movedUnder>>

------------------------------------------------------------------------------
(* _drain_entry_locked                                                     *)

(* Mutant: a drain does not wait for the thread that holds the object.     *)
DrainWithoutWaiting(t) ==
    /\ At(t) = "lock"
    /\ holder' = [holder EXCEPT ![thread[t].id] = t]
    /\ Goto(t, "open")
    /\ UNCHANGED <<logVars, environment, entry, session, awaiting, control, budget,
                   movedUnder>>

DrainLock(t) ==
    /\ At(t) = "lock"
    /\ Free(thread[t].id)
    /\ holder' = [holder EXCEPT ![thread[t].id] = t]
    /\ Goto(t, "open")
    /\ UNCHANGED <<logVars, environment, entry, session, awaiting, control, budget,
                   movedUnder>>

DrainOpen(t) ==
    /\ At(t) = "open"
    /\ LET s == file[entry[thread[t].id].path] IN
         /\ s # NoSource
         /\ thread' = [thread EXCEPT ![t].pc = "reconcile", ![t].source = s,
                                     ![t].size = written[s]]
    /\ UNCHANGED <<logVars, environment, registry, control, budget,
                   movedUnder>>

(* The outcomes of reconcile_ingest_source; off is where the cursor stands *)
(* afterwards.                                                             *)
Reconcile(k, src, size, force) ==
    \/ BindSource(k, src, size, force)
    \/ RebuildForSource(k, src, size, force)
    \/ /\ LockFree
       /\ HasCursor(k) /\ SourceOf(k) = src /\ ~MustReset(k, src, size, force)
       /\ UNCHANGED logVars

DrainReconcile(t) ==
    /\ At(t) = "reconcile"
    /\ LET k == thread[t].key IN
         /\ Reconcile(k, thread[t].source, thread[t].size, thread[t].force)
         /\ thread' = [thread EXCEPT ![t].pc = "copy",
                                     ![t].offset = cursor'[k].offset]
    /\ UNCHANGED <<environment, registry, control, budget>>
    /\ Remember(t)

(* The complete records of the next read: ordinary ones go together, an    *)
(* oversized one goes alone.                                               *)
OrdinaryRun(s, off, size) ==
    {n \in 1..MaxBatch : /\ off + n <= size
                         /\ \A i \in 1..n : <<s, off + i>> \in Ordinary}

Copying(t) == At(t) = "copy" /\ thread[t].offset < thread[t].size

CopyChunk(t) ==
    /\ Copying(t)
    /\ LET s == thread[t].source
           off == thread[t].offset
           run == OrdinaryRun(s, off, thread[t].size)
       IN /\ run # {}
          /\ AppendAndAdvance(thread[t].key,
                              [i \in 1..Max(run) |-> <<s, off + i>>],
                              off + Max(run), off, s)
          /\ thread' = [thread EXCEPT ![t].offset = off + Max(run)]
    /\ UNCHANGED <<environment, registry, control, budget>>
    /\ Remember(t)

(* source_file_version: what an append or a rename over the path changes.  *)
SameVersion(t) ==
    /\ written[thread[t].source] = thread[t].size
    /\ \E p \in Paths : file[p] = thread[t].source

PreserveChunk(t) ==
    /\ Copying(t)
    /\ LET s == thread[t].source
           off == thread[t].offset
       IN /\ <<s, off + 1>> \in Oversized
          /\ SameVersion(t)
          /\ Reserve(t, thread[t].key, <<s, off + 1>>, off + 1, off, s)
    /\ Goto(t, "preserve")
    /\ UNCHANGED <<environment, registry, control, budget, movedUnder>>

PreserveJob(t) ==
    /\ At(t) = "preserve"
    /\ \/ CreateTemp(t) /\ UNCHANGED <<thread, budget, movedUnder>>
       \/ SameVersion(t) /\ FinishCopy(t) /\ UNCHANGED <<thread, budget, movedUnder>>
       \/ SameVersion(t) /\ RenameTemp(t) /\ UNCHANGED <<thread, budget, movedUnder>>
       \/ CommitRow(t) /\ Goto(t, "kept") /\ Remember(t) /\ UNCHANGED budget
       \/ ~SameVersion(t) /\ AbandonCopy(t) /\ Goto(t, "lost") /\ UNCHANGED <<budget, movedUnder>>
       \/ /\ ~SameVersion(t)
             \/ ~CursorMatches(job[t].key, job[t].expected, job[t].source)
          /\ LoseRace(t) /\ Goto(t, "lost") /\ UNCHANGED <<budget, movedUnder>>
       \/ /\ Fault /\ Goto(t, "failed")
          /\ CreateFails(t) \/ AbandonCopy(t) \/ LoseRace(t) \/ CommitFails(t)
          /\ UNCHANGED movedUnder
    /\ UNCHANGED <<environment, registry, control>>

PreserveEnd(t) ==
    /\ At(t) \in {"kept", "lost", "failed"}
    /\ \/ DiscardCopy(t) /\ UNCHANGED thread
       \/ /\ Release(t)
          /\ thread' = [thread EXCEPT
               ![t].offset = IF At(t) = "kept" THEN job[t].next ELSE @,
               ![t].pc = CASE At(t) = "kept" -> "copy"
                           [] At(t) = "lost" -> "reread"
                           [] At(t) = "failed" -> "error"]
    /\ UNCHANGED <<environment, registry, control, budget, movedUnder>>

(* The log refused the record because its cursor is elsewhere, or because  *)
(* the file has another version.                                           *)
CopyRefused(t) ==
    /\ Copying(t)
    /\ LockFree
    /\ \/ ~CursorMatches(thread[t].key, thread[t].offset, thread[t].source)
       \/ /\ <<thread[t].source, thread[t].offset + 1>> \in Oversized
          /\ ~SameVersion(t)
    /\ Goto(t, "reread")
    /\ UNCHANGED <<logVars, environment, registry, control, budget,
                   movedUnder>>

(* Resume at the durable cursor when another reader moved it forward       *)
(* within the bytes this drain may read; give up, without an error, else.  *)
Reread(t) ==
    /\ At(t) = "reread"
    /\ LET off == OffsetOf(thread[t].key) IN
         \/ /\ thread[t].offset < off /\ off <= thread[t].size
            /\ thread' = [thread EXCEPT ![t].pc = "copy", ![t].offset = off]
            /\ UNCHANGED holder
         \/ /\ ~(thread[t].offset < off /\ off <= thread[t].size)
            /\ Unlock(t)
            /\ thread' = [thread EXCEPT ![t] = Rest]
    /\ UNCHANGED <<logVars, environment, entry, session, awaiting, control, budget,
                   movedUnder>>

(* A storage limit, or an error of the file system or of SQLite, before    *)
(* the next record is stored.                                              *)
CopyFails(t) ==
    /\ \/ At(t) = "reconcile" /\ Fault
       \/ Copying(t) /\ Fault
       \/ /\ Copying(t) /\ LockFree
          /\ ~Fits(thread[t].key, 1)
          /\ UNCHANGED budget
    /\ Goto(t, "error")
    /\ UNCHANGED <<logVars, environment, registry, control, movedUnder>>

(* No transcript at the path when it is opened, or inspected by drain_now. *)
OpenFails(t) ==
    /\ At(t) \in {"open", "inspect"}
    /\ file[entry[thread[t].id].path] = NoSource
    /\ Goto(t, "error")
    /\ UNCHANGED <<logVars, environment, registry, control, budget,
                   movedUnder>>

RecordError(t) ==
    /\ At(t) = "error"
    /\ errors' = errors \cup {thread[t].key}
    /\ Unlock(t)
    /\ thread' = [thread EXCEPT ![t] = Rest]
    /\ UNCHANGED <<logVars, environment, entry, session, awaiting, wakes, due, budget,
                   movedUnder>>

(* Mutant: a complete drain leaves the error state as it is.               *)
EndKeepingError(t) ==
    /\ At(t) = "copy"
    /\ thread[t].offset >= thread[t].size
    /\ t = Worker
    /\ Unlock(t)
    /\ thread' = [thread EXCEPT ![t] = Rest]
    /\ UNCHANGED <<logVars, environment, entry, session, awaiting, control, budget,
                   movedUnder>>

(* The drain reached the size it saw at the open: the error state ends.    *)
DrainEnd(t) ==
    /\ At(t) = "copy"
    /\ thread[t].offset >= thread[t].size
    /\ errors' = errors \ {thread[t].key}
    /\ \/ /\ t \in Drainers
          /\ Goto(t, "inspect")
          /\ UNCHANGED holder
       \/ /\ t = Worker
          /\ Unlock(t)
          /\ thread' = [thread EXCEPT ![t] = Rest]
    /\ UNCHANGED <<logVars, environment, entry, session, awaiting, wakes, due, budget,
                   movedUnder>>

(* drain_now compares the durable offset with the size of the file now at  *)
(* the path; it answers, drains again, or gives up after four attempts.    *)
Inspect(t) ==
    /\ At(t) = "inspect"
    /\ file[entry[thread[t].id].path] # NoSource
    /\ \/ /\ OffsetOf(thread[t].key) >= written[file[entry[thread[t].id].path]]
          /\ Unlock(t)
          /\ thread' = [thread EXCEPT ![t] = Rest]
       \/ /\ OffsetOf(thread[t].key) < written[file[entry[thread[t].id].path]]
          /\ \/ Goto(t, "open") /\ UNCHANGED holder
             \/ Unlock(t) /\ thread' = [thread EXCEPT ![t] = Rest]
    /\ UNCHANGED <<logVars, environment, entry, session, awaiting, control, budget,
                   movedUnder>>

------------------------------------------------------------------------------
(* generation_for_open_source, after ensure: under the drain lock of the   *)
(* registered object, with the identity and the size of the caller's open. *)
TailBind(t) ==
    /\ At(t) = "bind"
    /\ LET k == thread[t].key IN
         \/ /\ session[k] = NoEntry
            /\ UNCHANGED <<logVars, errors>>
         \/ /\ session[k] # NoEntry /\ Free(session[k])
            /\ entry[session[k]].path # thread[t].path
            /\ UNCHANGED <<logVars, errors>>
         \/ /\ session[k] # NoEntry /\ Free(session[k])
            /\ entry[session[k]].path = thread[t].path
            /\ Reconcile(k, thread[t].source, thread[t].size, FALSE)
            /\ errors' = errors \ {k}
    /\ thread' = [thread EXCEPT ![t] = Rest]
    /\ UNCHANGED <<environment, registry, wakes, due, budget>>
    /\ Remember(t)

------------------------------------------------------------------------------
(* The deletion of a transcript (pairlingd._complete_pending_session_      *)
(* delete): tombstone, unregister, move the file to the Trash, unregister  *)
(* again and purge, final tombstone.  A pending deletion is retried.       *)

BeginDelete(t, k) ==
    /\ up
    /\ At(t) = "rest" /\ t \in budget.threads
    /\ \/ /\ deletion[k] = "no" /\ file[current[k]] # NoSource
          /\ deletion' = [deletion EXCEPT ![k] = file[current[k]]]
          /\ thread' = [thread EXCEPT ![t] =
               [Rest EXCEPT !.pc = "remove", !.key = k, !.path = current[k],
                            !.source = file[current[k]]]]
       \/ /\ deletion[k] \in Sources
          /\ UNCHANGED deletion
          /\ thread' = [thread EXCEPT ![t] =
               [Rest EXCEPT !.pc = IF file[current[k]] = deletion[k] THEN "remove"
                                   ELSE "removeAgain",
                            !.key = k, !.path = current[k], !.source = deletion[k]]]
    /\ UNCHANGED <<logVars, file, written, current, registry, control, budget,
                   movedUnder>>

DeleteUnregister(t) ==
    /\ At(t) \in {"remove", "removeAgain"}
    /\ \/ Unregister(thread[t].key)
       \/ /\ session[thread[t].key] = NoEntry
          /\ UNCHANGED <<session, entry, awaiting, errors>>
    /\ Goto(t, IF At(t) = "remove" THEN "trash" ELSE "purge")
    /\ UNCHANGED <<logVars, environment, holder, wakes, due, budget,
                   movedUnder>>

(* Another file at the path rolls the tombstone back.                      *)
Trash(t) ==
    /\ At(t) = "trash"
    /\ LET p == thread[t].path IN
         \/ /\ file[p] = thread[t].source
            /\ file' = [file EXCEPT ![p] = NoSource]
            /\ Notify(p, "rotated")
            /\ awaiting' = awaiting \cup ({p} \cap WatchedBy(entry))
            /\ Goto(t, "removeAgain")
            /\ UNCHANGED deletion
         \/ /\ file[p] # thread[t].source
            /\ deletion' = [deletion EXCEPT ![thread[t].key] = "no"]
            /\ thread' = [thread EXCEPT ![t] = Rest]
            /\ UNCHANGED <<file, awaiting, wakes>>
    /\ UNCHANGED <<logVars, written, current, entry, session, holder, errors,
                   due, budget, movedUnder>>

Purge(t) ==
    /\ At(t) = "purge"
    /\ PurgeSession(thread[t].key)
    /\ Goto(t, "receipt")
    /\ UNCHANGED <<environment, registry, control, budget>>
    /\ Remember(t)

FinishDelete(t) ==
    /\ At(t) = "receipt"
    /\ LockFree
    /\ deletion' = [deletion EXCEPT ![thread[t].key] = "done"]
    /\ thread' = [thread EXCEPT ![t] = Rest]
    /\ UNCHANGED <<logVars, file, written, current, registry, control, budget,
                   movedUnder>>

------------------------------------------------------------------------------
IngestCrash ==
    /\ Spend("crashes")
    /\ Crash
    /\ entry' = <<>> /\ holder' = <<>>
    /\ session' = [k \in Keys |-> NoEntry]
    /\ awaiting' = {} /\ wakes' = {} /\ errors' = {}
    /\ due' = [k \in Keys |-> "no"]
    /\ thread' = [t \in Threads |-> Rest]
    /\ UNCHANGED <<environment, movedUnder>>

IngestRestart ==
    /\ Restart
    /\ UNCHANGED <<environment, registry, control, thread, budget, movedUnder>>

IngestSweep ==
    /\ SweepBlob
    /\ UNCHANGED <<environment, registry, control, thread, budget, movedUnder>>

Provider == \E p \in Paths :
    \/ WriteRecord(p)
    \/ \E s \in Sources, n \in 0..MaxOffset : ReplaceFile(p, s, n)
    \/ \E k \in Keys : Resume(k, p)

EnsureStep(t) ==
    EnsureCreate(t) \/ EnsureFind(t) \/ EnsureLocked(t) \/ EnsurePrepare(t)
        \/ EnsureRebind(t) \/ EnsureWatch(t)

DrainStep(t) ==
    DrainLock(t) \/ DrainOpen(t) \/ OpenFails(t) \/ DrainReconcile(t)
        \/ CopyChunk(t) \/ PreserveChunk(t) \/ PreserveJob(t) \/ PreserveEnd(t)
        \/ CopyRefused(t) \/ Reread(t) \/ RecordError(t) \/ DrainEnd(t)

WorkerStep == Collect \/ (\E k \in Keys : Take(k)) \/ DrainStep(Worker)

DeleteStep(t) == DeleteUnregister(t) \/ Trash(t) \/ Purge(t) \/ FinishDelete(t)

IngestNext ==
    \/ Provider
    \/ \E p \in Paths : RegisterFile(p)
    \/ \E kept \in SUBSET wakes : Overflow(kept)
    \/ \E k \in Keys : Evict(k)
    \/ WorkerStep
    \/ \E t \in Streams \cup Drainers \cup Tails :
         (\E k \in Keys : Resolve(t, k)) \/ EnsureStep(t) \/ EnsureFails(t)
    \/ \E t \in Drainers : Lookup(t) \/ DrainStep(t) \/ Inspect(t)
    \/ \E t \in {Worker} \cup Drainers : CopyFails(t)
    \/ \E t \in Tails : TailBind(t)
    \/ \E t \in Removers : (\E k \in Keys : BeginDelete(t, k)) \/ DeleteStep(t)
    \/ IngestSweep \/ IngestCrash \/ IngestRestart

(* The daemon's threads run; open streams resolve their session again and  *)
(* again; the watcher thread keeps retrying; launchd restarts the daemon.  *)
Fairness ==
    /\ WF_vars(WorkerStep)
    /\ \A p \in Paths : WF_vars(RegisterFile(p))
    /\ \A t \in Streams : WF_vars(EnsureStep(t) \/ \E k \in Keys : Resolve(t, k))
    /\ \A t \in Drainers : WF_vars(EnsureStep(t) \/ Lookup(t) \/ DrainStep(t)
                                   \/ Inspect(t))
    /\ \A t \in Tails : WF_vars(EnsureStep(t) \/ TailBind(t))
    /\ \A t \in Removers : WF_vars(DeleteStep(t))
    /\ WF_vars(IngestSweep) /\ WF_vars(IngestRestart)

IngestSafety == IngestInit /\ [][IngestNext]_vars
IngestSpec == IngestSafety /\ Fairness

------------------------------------------------------------------------------
(* Registrations, locks and programs of the threads are of their own kind; *)
(* a thread past a lock holds it.                                          *)
IngestTypeOK ==
    /\ TypeOK
    /\ file \in [Paths -> Sources \cup {NoSource}]
    /\ written \in [Sources -> 0..MaxOffset]
    /\ entry \in Seq([key : Keys, path : Paths, ready : BOOLEAN, watch : BOOLEAN])
    /\ session \in [Keys -> (1..Len(entry)) \cup {NoEntry}]
    /\ holder \in Seq(Threads \cup {Nobody}) /\ Len(holder) = Len(entry)
    /\ errors \in SUBSET Keys
    /\ budget \in BudgetRecord
    /\ \A t \in Threads :
         At(t) \in {"prepare", "rebind", "watch", "open", "reconcile", "copy",
                    "preserve", "kept", "lost", "failed", "reread", "error",
                    "inspect"} => holder[thread[t].id] = t

(* What the log holds for a session is exactly the first offset records of *)
(* the file its cursor is bound to: no record twice, none skipped, none    *)
(* out of order and none of another file, whoever drains, rebinds,         *)
(* replaces, evicts or crashes in between.                                 *)
RowsArePrefixOfSource ==
    \A k \in Keys :
        rows[k] = IF SourceOf(k) = NoSource THEN <<>>
                  ELSE SubSeq(Content(SourceOf(k)), 1, OffsetOf(k))

(* The documentation of reconcile_ingest_source: a changed inode, a        *)
(* truncated file or an explicit rotation resets the log; so does a change *)
(* of the binding or of the parser.  A step that drops rows of a file that *)
(* is still the bound one and is not shorter than the cursor, and handles  *)
(* neither a rotation nor a registration, has no such reason.              *)
Steps(t) == thread'[t] # thread[t]
Justified(k) ==
    \/ SourceOf(k)' # SourceOf(k)
    \/ written[SourceOf(k)] < OffsetOf(k)
    \/ \E t \in Threads :
         Steps(t) /\ (At(t) = "prepare" \/ (At(t) = "reconcile" /\ thread[t].force))
DropsRowsNeedlessly(k) ==
    SourceOf(k) # NoSource /\ rows[k] # <<>> /\ rows[k]' = <<>> /\ ~Justified(k)

(* The size a drain judges the file by was read after it got the lock of   *)
(* its registration, so it never undoes what was copied under the same     *)
(* lock: of a file that only grew, a drain drops rows only if a rival      *)
(* registration of the session copied them, and a request that serves an   *)
(* open transcript, which reads the size before it has the lock, only if   *)
(* the file grew since.  Nobody else does.                                 *)
OnlyRivalsUndo ==
    [][\A k \in Keys : DropsRowsNeedlessly(k) =>
          \E t \in Threads :
              /\ Steps(t)
              /\ \/ At(t) = "reconcile" /\ movedUnder[k] # thread[t].id
                 \/ At(t) = "bind" /\ thread[t].size < written[thread[t].source]]_vars

(* Once a deletion is final, nothing of the session is in the log.         *)
DeletedStaysPurged ==
    \A k \in Keys : deletion[k] = "done" => rows[k] = <<>>

(* When the provider rests, and nobody deletes it, the log of a session    *)
(* that a stream keeps open ends up holding the whole transcript that the  *)
(* registry resolves.                                                      *)
Complete(k) ==
    LET s == file[current[k]] IN
      s # NoSource /\ deletion[k] = "no" => SourceOf(k) = s /\ rows[k] = Content(s)
KeptOpen == budget.threads = Streams
HeadIsReached == KeptOpen => <>[](\A k \in Keys : Complete(k))

(* And the error state does not outlive its cause.                         *)
ErrorsEnd == KeptOpen => <>[](\A k \in Keys : file[current[k]] # NoSource => k \notin errors)
=============================================================================
