--------------------------- MODULE SessionEventLog ---------------------------
(***************************************************************************)
(* The durable session event log of the companion daemon                   *)
(* (mac/companiond/session_event_log.py): one SQLite database with the     *)
(* rows, ingest cursors, raw-blob references and storage ledger of every   *)
(* session, a private directory of blob files beside it, and the in-memory *)
(* reservations of the writers that are copying an oversized record.       *)
(*                                                                         *)
(* Every operation holds the log's mutex around one SQLite transaction.    *)
(* Three things span more than one atomic step: the copy of an oversized   *)
(* record (reserve, copy, rename, commit, give the reservation back), the  *)
(* removal of blob files after the transaction that dropped their          *)
(* references, and a crash of the daemon in between.                       *)
(*                                                                         *)
(* A row costs one unit of storage, the raw copy of an oversized record    *)
(* RawCost more.  Offsets count records of the transcript.                 *)
(***************************************************************************)
EXTENDS Integers, Sequences, FiniteSets, FiniteSetsExt

CONSTANTS Keys,        \* session keys
          Ordinary,    \* events whose row holds the whole record
          Oversized,   \* events whose row points at a raw copy
          Writers,     \* threads that may run append_preserved_raw_and_advance
          Names,       \* blob tokens
          Sources,     \* (device, inode) identities of transcripts
          Parsers,     \* parser versions
          RawCost,     \* units of the raw copy of an oversized record
          MaxSession,  \* max_session_bytes
          MaxTotal,    \* max_total_bytes
          MaxBatch,    \* bound: events in one transaction
          MaxOffset,   \* bound: records in a transcript
          MaxGen,      \* bound: generations of one session
          NoCursor, NoSource, NoName

ASSUME LogAssumption ==
    /\ RawCost \in Nat \ {0}
    /\ MaxSession \in Nat /\ MaxTotal \in Nat
    /\ MaxBatch \in Nat /\ MaxOffset \in Nat /\ MaxGen \in Nat
    /\ 1 \in Parsers
    /\ Ordinary \cap Oversized = {}
    /\ NoCursor \notin [offset : Nat, parser : Parsers, gen : Nat \ {0},
                        source : Sources \cup {NoSource}]
    /\ NoSource \notin Sources
    /\ NoName \notin Names
    /\ IsFiniteSet(Names) /\ IsFiniteSet(Keys)

VARIABLES
    rows,          \* session_events: Keys -> sequence of events
    cursor,        \* ingest_cursors: Keys -> row, or NoCursor
    refs,          \* session_event_raw_blobs
    usage,         \* session_event_storage_usage: Keys -> units
    temps,         \* tokens with a .tmp file in the blob directory
    blobs,         \* tokens with a .raw file in the blob directory
    reserved,      \* _reserved_session_bytes
    reservedTotal, \* _reserved_total_bytes
    job,           \* Writers -> the preserved copy a thread is in
    sweep,         \* blob files the holder of the mutex still has to unlink
    leaked,        \* tokens whose unlink failed (history variable)
    up             \* is the daemon running?

database == <<rows, cursor, refs, usage>>
storage == <<temps, blobs, leaked>>
memory == <<reserved, reservedTotal, job, sweep, up>>
logVars == <<rows, cursor, refs, usage, temps, blobs, leaked,
             reserved, reservedTotal, job, sweep, up>>

Events == Ordinary \cup Oversized

Cursor == [offset : Nat, parser : Parsers, gen : Nat \ {0},
           source : Sources \cup {NoSource}]
Ref == [key : Keys, gen : Nat \ {0}, seq : Nat \ {0}, name : Names]

Idle == [stage |-> "idle"]
Job == [stage : {"reserved", "copying", "copied", "renamed", "discarding",
                 "returning"},
        key : Keys, event : Oversized, expected : Nat, next : Nat,
        source : Sources, name : Names \cup {NoName}]

------------------------------------------------------------------------------
(* Readings of the database.                                               *)

HasCursor(k) == cursor[k] # NoCursor
OffsetOf(k) == IF HasCursor(k) THEN cursor[k].offset ELSE 0
GenOf(k) == IF HasCursor(k) THEN cursor[k].gen ELSE 1
SourceOf(k) == IF HasCursor(k) THEN cursor[k].source ELSE NoSource

RefsOf(k) == {r \in refs : r.key = k}
BlobNames(k) == {r.name : r \in RefsOf(k)}
Referenced == {r.name : r \in refs}
ReservationCost == 1 + RawCost
UsageOfRows(k) == Len(rows[k]) + RawCost * Cardinality(RefsOf(k))

TotalUsage == MapThenSumSet(LAMBDA k : usage[k], Keys)

(* The mutex is held across a state only while blob files are unlinked     *)
(* after a reset, and between the rename and the commit of a raw copy.     *)
LockFree == /\ up
            /\ sweep = {}
            /\ \A w \in Writers : job[w].stage # "renamed"

(* Mutant: the check counts stored rows only.                              *)
FitsIgnoringReservations(k, n) == /\ usage[k] + n <= MaxSession
                                  /\ TotalUsage + n <= MaxTotal

(* _check_storage_capacity_locked; the free-disk check may refuse as well, *)
(* which leaves everything as it is.                                       *)
Fits(k, n) == /\ usage[k] + reserved[k] + n <= MaxSession
              /\ TotalUsage + reservedTotal + n <= MaxTotal

------------------------------------------------------------------------------
Init == /\ rows = [k \in Keys |-> <<>>]
        /\ cursor = [k \in Keys |-> NoCursor]
        /\ refs = {}
        /\ usage = [k \in Keys |-> 0]
        /\ temps = {} /\ blobs = {} /\ leaked = {}
        /\ reserved = [k \in Keys |-> 0]
        /\ reservedTotal = 0
        /\ job = [w \in Writers |-> Idle]
        /\ sweep = {}
        /\ up = TRUE

(* append: rows get the next dense seq, the ledger grows with them.        *)
AppendEvents(k, evs) ==
    /\ LockFree
    /\ evs # <<>>
    /\ Fits(k, Len(evs))
    /\ rows' = [rows EXCEPT ![k] = @ \o evs]
    /\ usage' = [usage EXCEPT ![k] = @ + Len(evs)]
    /\ UNCHANGED <<cursor, refs, storage, memory>>

(* The compare of the compare-and-append: the cursor still is where the    *)
(* caller read it and still belongs to the file the caller has open.       *)
CursorMatches(k, expected, src) ==
    /\ OffsetOf(k) = expected
    /\ SourceOf(k) = src

(* append_and_advance                                                      *)
AppendAndAdvance(k, evs, next, expected, src) ==
    /\ LockFree
    /\ CursorMatches(k, expected, src)
    /\ Fits(k, Len(evs))
    /\ rows' = [rows EXCEPT ![k] = @ \o evs]
    /\ cursor' = [cursor EXCEPT ![k].offset = next]
    /\ usage' = [usage EXCEPT ![k] = @ + Len(evs)]
    /\ UNCHANGED <<refs, storage, memory>>

------------------------------------------------------------------------------
(* append_preserved_raw_and_advance, step by step.                         *)

(* _storage_reservation: the check and the increment are one critical      *)
(* section.                                                                *)
Reserve(w, k, e, next, expected, src) ==
    /\ LockFree
    /\ job[w] = Idle
    /\ Fits(k, ReservationCost)
    /\ reserved' = [reserved EXCEPT ![k] = @ + ReservationCost]
    /\ reservedTotal' = reservedTotal + ReservationCost
    /\ job' = [job EXCEPT ![w] =
                 [stage |-> "reserved", key |-> k, event |-> e,
                  expected |-> expected, next |-> next, source |-> src,
                  name |-> NoName]]
    /\ UNCHANGED <<database, storage, sweep, up>>

(* A random 256-bit token: O_EXCL on a name nothing else carries.          *)
Fresh(n) == /\ n \notin temps \cup blobs \cup Referenced \cup sweep
            /\ \A w \in Writers : job[w] # Idle => job[w].name # n

CreateTemp(w) ==
    /\ job[w].stage = "reserved"
    /\ \E n \in Names :
         /\ Fresh(n)
         /\ temps' = temps \cup {n}
         /\ job' = [job EXCEPT ![w].stage = "copying", ![w].name = n]
    /\ UNCHANGED <<database, blobs, leaked, reserved, reservedTotal, sweep, up>>

(* The temporary file could not be created: the error leaves through the   *)
(* reservation.                                                            *)
CreateFails(w) ==
    /\ job[w].stage = "reserved"
    /\ job' = [job EXCEPT ![w].stage = "returning"]
    /\ UNCHANGED <<database, storage, reserved, reservedTotal, sweep, up>>

(* All bytes are copied and synced and the source still has the version it *)
(* had before the copy.                                                    *)
FinishCopy(w) ==
    /\ job[w].stage = "copying"
    /\ job' = [job EXCEPT ![w].stage = "copied"]
    /\ UNCHANGED <<database, storage, reserved, reservedTotal, sweep, up>>

(* A short read, a write error, or another version of the source.          *)
AbandonCopy(w) ==
    /\ job[w].stage = "copying"
    /\ job' = [job EXCEPT ![w].stage = "discarding"]
    /\ UNCHANGED <<database, storage, reserved, reservedTotal, sweep, up>>

(* Mutant: the file gets its final name only after the commit.             *)
RenameAfterCommit(w) ==
    /\ LockFree
    /\ job[w].stage = "copied"
    /\ CursorMatches(job[w].key, job[w].expected, job[w].source)
    /\ job' = [job EXCEPT ![w].stage = "renamed"]
    /\ UNCHANGED <<database, storage, reserved, reservedTotal, sweep, up>>

(* Under the mutex: the cursor still matches, so the copy gets its final   *)
(* name inside the transaction that will reference it.                     *)
RenameTemp(w) ==
    /\ LockFree
    /\ job[w].stage = "copied"
    /\ CursorMatches(job[w].key, job[w].expected, job[w].source)
    /\ temps' = temps \ {job[w].name}
    /\ blobs' = blobs \cup {job[w].name}
    /\ job' = [job EXCEPT ![w].stage = "renamed"]
    /\ UNCHANGED <<database, leaked, reserved, reservedTotal, sweep, up>>

(* Under the mutex: the cursor moved, the source has another version, or   *)
(* the rename failed.                                                      *)
LoseRace(w) ==
    /\ LockFree
    /\ job[w].stage = "copied"
    /\ job' = [job EXCEPT ![w].stage = "discarding"]
    /\ UNCHANGED <<database, storage, reserved, reservedTotal, sweep, up>>

(* Mutant: the reference carries the last seq before the row.              *)
CommitRowOffByOne(w) ==
    /\ up
    /\ job[w].stage = "renamed"
    /\ LET k == job[w].key IN
         /\ rows' = [rows EXCEPT ![k] = Append(@, job[w].event)]
         /\ refs' = refs \cup {[key |-> k, gen |-> GenOf(k),
                                seq |-> Len(rows[k]), name |-> job[w].name]}
         /\ cursor' = [cursor EXCEPT ![k].offset = job[w].next]
         /\ usage' = [usage EXCEPT ![k] = @ + ReservationCost]
    /\ job' = [job EXCEPT ![w].stage = "returning"]
    /\ UNCHANGED <<storage, reserved, reservedTotal, sweep, up>>

(* The row, its reference, the cursor and the ledger commit together.      *)
CommitRow(w) ==
    /\ up
    /\ job[w].stage = "renamed"
    /\ LET k == job[w].key IN
         /\ rows' = [rows EXCEPT ![k] = Append(@, job[w].event)]
         /\ refs' = refs \cup {[key |-> k, gen |-> GenOf(k),
                                seq |-> Len(rows[k]) + 1, name |-> job[w].name]}
         /\ cursor' = [cursor EXCEPT ![k].offset = job[w].next]
         /\ usage' = [usage EXCEPT ![k] = @ + ReservationCost]
    /\ job' = [job EXCEPT ![w].stage = "returning"]
    /\ UNCHANGED <<storage, reserved, reservedTotal, sweep, up>>

(* The transaction failed after the rename and was rolled back.            *)
CommitFails(w) ==
    /\ up
    /\ job[w].stage = "renamed"
    /\ job' = [job EXCEPT ![w].stage = "discarding"]
    /\ UNCHANGED <<database, storage, reserved, reservedTotal, sweep, up>>

(* Mutant: only the temporary name is unlinked.                            *)
DiscardOnlyTemp(w) ==
    /\ job[w].stage = "discarding"
    /\ temps' = temps \ {job[w].name}
    /\ job' = [job EXCEPT ![w].stage = "returning"]
    /\ UNCHANGED <<database, blobs, leaked, reserved, reservedTotal, sweep, up>>

(* The finally clause, outside the mutex: unlink the temporary file and,   *)
(* since nothing was committed, the renamed one.                           *)
DiscardCopy(w) ==
    /\ job[w].stage = "discarding"
    /\ \/ /\ temps' = temps \ {job[w].name}
          /\ blobs' = blobs \ {job[w].name}
          /\ UNCHANGED leaked
       \/ /\ leaked' = leaked \cup {job[w].name}
          /\ UNCHANGED <<temps, blobs>>
    /\ job' = [job EXCEPT ![w].stage = "returning"]
    /\ UNCHANGED <<database, reserved, reservedTotal, sweep, up>>

(* The reservation ends under the mutex, after the commit it covered.      *)
Release(w) ==
    /\ LockFree
    /\ job[w].stage = "returning"
    /\ reserved' = [reserved EXCEPT ![job[w].key] = @ - ReservationCost]
    /\ reservedTotal' = reservedTotal - ReservationCost
    /\ job' = [job EXCEPT ![w] = Idle]
    /\ UNCHANGED <<database, storage, sweep, up>>

------------------------------------------------------------------------------
(* Resets: one transaction drops the references, the rows and the ledger   *)
(* entry; the files they named are unlinked after it, under the same hold  *)
(* of the mutex.                                                           *)

(* Mutants: the references, or the ledger entry, survive the rows.         *)
DropRowsKeepingRefs(k) ==
    /\ rows' = [rows EXCEPT ![k] = <<>>]
    /\ usage' = [usage EXCEPT ![k] = 0]
    /\ sweep' = BlobNames(k)
    /\ UNCHANGED <<refs, storage, reserved, reservedTotal, job, up>>

DropRowsKeepingUsage(k) ==
    /\ rows' = [rows EXCEPT ![k] = <<>>]
    /\ refs' = refs \ RefsOf(k)
    /\ sweep' = BlobNames(k)
    /\ UNCHANGED <<usage, storage, reserved, reservedTotal, job, up>>

DropRows(k) ==
    /\ rows' = [rows EXCEPT ![k] = <<>>]
    /\ refs' = refs \ RefsOf(k)
    /\ usage' = [usage EXCEPT ![k] = 0]
    /\ sweep' = BlobNames(k)
    /\ UNCHANGED <<storage, reserved, reservedTotal, job, up>>

NewCursor(p, g, src) == [offset |-> 0, parser |-> p, gen |-> g, source |-> src]

(* Mutant: a file as long as the cursor counts as truncated.               *)
MustResetOffByOne(k, src, size, force) ==
    \/ force
    \/ OffsetOf(k) >= size
    \/ SourceOf(k) \notin {NoSource, src}

(* reconcile_ingest_source binds a missing or unbound cursor to the opened *)
(* file, keeps a cursor that belongs to it, and rebuilds on a rotation, a  *)
(* file shorter than the cursor or a file with another identity.           *)
MustReset(k, src, size, force) ==
    \/ force
    \/ OffsetOf(k) > size
    \/ SourceOf(k) \notin {NoSource, src}

BindSource(k, src, size, force) ==
    /\ LockFree
    /\ \/ /\ ~HasCursor(k)
          /\ cursor' = [cursor EXCEPT ![k] = NewCursor(1, 1, src)]
       \/ /\ HasCursor(k)
          /\ ~MustReset(k, src, size, force)
          /\ SourceOf(k) = NoSource
          /\ cursor' = [cursor EXCEPT ![k].source = src]
    /\ UNCHANGED <<rows, refs, usage, storage, memory>>

(* Mutant: the log of a new source keeps its generation.                   *)
RebuildSourceInPlace(k, src, size, force) ==
    /\ LockFree
    /\ HasCursor(k)
    /\ MustReset(k, src, size, force)
    /\ cursor' = [cursor EXCEPT ![k] = NewCursor(@.parser, @.gen, src)]
    /\ DropRows(k)

RebuildForSource(k, src, size, force) ==
    /\ LockFree
    /\ HasCursor(k)
    /\ MustReset(k, src, size, force)
    /\ GenOf(k) < MaxGen
    /\ cursor' = [cursor EXCEPT ![k] = NewCursor(@.parser, @.gen + 1, src)]
    /\ DropRows(k)

(* prepare_ingest                                                          *)
FirstPrepare(k, p) ==
    /\ LockFree
    /\ ~HasCursor(k)
    /\ cursor' = [cursor EXCEPT ![k] = NewCursor(p, 1, NoSource)]
    /\ UNCHANGED <<rows, refs, usage, storage, memory>>

RebuildForParser(k, p) ==
    /\ LockFree
    /\ HasCursor(k)
    /\ cursor[k].parser # p
    /\ GenOf(k) < MaxGen
    /\ cursor' = [cursor EXCEPT ![k] = NewCursor(p, @.gen + 1, @.source)]
    /\ DropRows(k)

(* reset_ingest                                                            *)
ResetIngest(k) ==
    /\ LockFree
    /\ GenOf(k) < MaxGen
    /\ cursor' = [cursor EXCEPT ![k] =
                    NewCursor(IF HasCursor(k) THEN @.parser ELSE 1,
                              GenOf(k) + 1, NoSource)]
    /\ DropRows(k)

(* set_ingest_offset                                                       *)
SetIngestOffset(k, offset) ==
    /\ LockFree
    /\ cursor' = [cursor EXCEPT ![k] =
                    IF HasCursor(k) THEN [@ EXCEPT !.offset = offset]
                    ELSE [NewCursor(1, 1, NoSource) EXCEPT !.offset = offset]]
    /\ UNCHANGED <<rows, refs, usage, storage, memory>>

(* Mutant: the ingest identity survives the purge.                         *)
PurgeRowsOnly(k) ==
    /\ LockFree
    /\ DropRows(k)
    /\ UNCHANGED cursor

(* purge_session                                                           *)
PurgeSession(k) ==
    /\ LockFree
    /\ cursor' = [cursor EXCEPT ![k] = NoCursor]
    /\ DropRows(k)

(* _remove_blob_files: a name that cannot be unlinked is reported, and the *)
(* loop goes on with the others.                                           *)
SweepBlob ==
    /\ up
    /\ \E n \in sweep :
         /\ sweep' = sweep \ {n}
         /\ \/ blobs' = blobs \ {n} /\ UNCHANGED leaked
            \/ leaked' = leaked \cup {n} /\ UNCHANGED blobs
    /\ UNCHANGED <<database, temps, reserved, reservedTotal, job, up>>

------------------------------------------------------------------------------
(* The daemon dies: SQLite keeps committed transactions, the directory     *)
(* keeps its files, reservations and copies in progress are gone.          *)
Crash ==
    /\ up
    /\ up' = FALSE
    /\ reserved' = [k \in Keys |-> 0]
    /\ reservedTotal' = 0
    /\ job' = [w \in Writers |-> Idle]
    /\ sweep' = {}
    /\ leaked' = (temps \cup blobs) \ Referenced
    /\ UNCHANGED <<database, temps, blobs>>

(* __init__: rebuild the ledger from the rows and references, then prune   *)
(* every managed file no reference names.                                  *)
Restart ==
    /\ ~up
    /\ up' = TRUE
    /\ usage' = [k \in Keys |-> UsageOfRows(k)]
    /\ temps' = {}
    /\ blobs' = blobs \cap Referenced
    /\ leaked' = {}
    /\ UNCHANGED <<rows, cursor, refs, reserved, reservedTotal, job, sweep>>

------------------------------------------------------------------------------
Batches == UNION {[1..n -> Ordinary] : n \in 0..MaxBatch}

AppendStep ==
    \E k \in Keys, evs \in Batches :
        \/ AppendEvents(k, evs)
        \/ \E expected \in 0..MaxOffset, src \in Sources :
             \E next \in (expected + 1)..MaxOffset :
               AppendAndAdvance(k, evs, next, expected, src)

PreserveStep(w) ==
    \/ \E k \in Keys, e \in Oversized, src \in Sources, expected \in 0..MaxOffset :
         \E next \in (expected + 1)..MaxOffset :
           Reserve(w, k, e, next, expected, src)
    \/ CreateTemp(w) \/ CreateFails(w) \/ FinishCopy(w) \/ AbandonCopy(w)
    \/ RenameTemp(w) \/ LoseRace(w) \/ CommitRow(w) \/ CommitFails(w)
    \/ DiscardCopy(w) \/ Release(w)

ResetStep ==
    \E k \in Keys :
        \/ \E src \in Sources, size \in 0..MaxOffset, force \in BOOLEAN :
             BindSource(k, src, size, force) \/ RebuildForSource(k, src, size, force)
        \/ \E p \in Parsers : FirstPrepare(k, p) \/ RebuildForParser(k, p)
        \/ ResetIngest(k)
        \/ \E offset \in 0..MaxOffset : SetIngestOffset(k, offset)
        \/ PurgeSession(k)

Next == \/ AppendStep
        \/ \E w \in Writers : PreserveStep(w)
        \/ ResetStep
        \/ SweepBlob
        \/ Crash
        \/ Restart

Spec == Init /\ [][Next]_logVars
------------------------------------------------------------------------------
(* Every table, file set and job holds values of its own kind.             *)
TypeOK ==
    /\ rows \in [Keys -> Seq(Events)]
    /\ cursor \in [Keys -> Cursor \cup {NoCursor}]
    /\ refs \in SUBSET Ref
    /\ usage \in [Keys -> Nat]
    /\ temps \in SUBSET Names /\ blobs \in SUBSET Names
    /\ leaked \in SUBSET Names /\ sweep \in SUBSET Names
    /\ reserved \in [Keys -> Int] /\ reservedTotal \in Int
    /\ job \in [Writers -> Job \cup {Idle}]
    /\ up \in BOOLEAN

(* open_raw_at_generation never meets a reference without its file: a copy *)
(* gets its final name before the transaction that references it, and a    *)
(* file is unlinked only after the transaction that drops its reference,   *)
(* whatever the other writers, failed unlinks and crashes do.              *)
ReferencedFilesExist == Referenced \subseteq blobs

(* A raw reference names a row of the current generation that was stored   *)
(* as oversized, no two references share a row or a file, and no oversized *)
(* row lost its reference: a rebuilt seq never serves the bytes of a row   *)
(* of an earlier generation.                                               *)
ReferencesBindRows ==
    /\ \A r \in refs : /\ r.gen = GenOf(r.key)
                       /\ r.seq \in DOMAIN rows[r.key]
                       /\ rows[r.key][r.seq] \in Oversized
    /\ \A r, s \in refs : (r.name = s.name \/ (r.key = s.key /\ r.seq = s.seq)) => r = s
    /\ \A k \in Keys : \A n \in DOMAIN rows[k] :
         rows[k][n] \in Oversized => \E r \in refs : r.key = k /\ r.seq = n

(* The storage ledger is exact: what it charges a session is what its rows *)
(* and raw copies take, and the reservations are those of the copies in    *)
(* progress, none lost and none given back twice.                          *)
Reserving(k) == {w \in Writers : job[w] # Idle /\ job[w].key = k}
LedgerExact ==
    /\ \A k \in Keys : usage[k] = UsageOfRows(k)
    /\ \A k \in Keys : reserved[k] = ReservationCost * Cardinality(Reserving(k))
    /\ reservedTotal = MapThenSumSet(LAMBDA k : reserved[k], Keys)

(* A copy in progress that committed is charged twice until its            *)
(* reservation ends; the others are not charged anywhere else.  So a       *)
(* session stands for its rows and for the copies yet to commit.           *)
Outstanding(k) == {w \in Reserving(k) : job[w].stage # "returning"}
Charges == [k \in Keys |-> UsageOfRows(k) + ReservationCost * Cardinality(Outstanding(k))]

(* Neither limit is ever exceeded, by rows and by copies that passed the   *)
(* check and have yet to commit, however the writers interleave.           *)
WithinLimits ==
    /\ \A k \in Keys : Charges[k] <= MaxSession
    /\ MapThenSumSet(LAMBDA k : Charges[k], Keys) <= MaxTotal

(* No file of the blob directory is forgotten: each is referenced, belongs *)
(* to a copy in progress or to a removal in progress, or is one whose      *)
(* unlink failed, which the next start prunes.                             *)
OwnedByJobs == {job[w].name : w \in {v \in Writers : job[v] # Idle}}
NoForgottenFile == temps \cup blobs \subseteq Referenced \cup OwnedByJobs \cup sweep \cup leaked

(* The log is an implementation of SessionHistory: readers may trust       *)
(* <<generation, seq>>.                                                    *)
History == INSTANCE SessionHistory WITH history <- rows, gen <- [k \in Keys |-> GenOf(k)]
RefinesHistory == History!Spec
==============================================================================
