----------------------- MODULE SessionEventLogProofs -----------------------
(***************************************************************************)
(* What the session event log guarantees for any number of sessions,       *)
(* writers and limits: type correctness, that no raw reference is without  *)
(* its file, that references and rows of a generation belong together,     *)
(* that no file is forgotten, that the ledger is exact and the limits      *)
(* hold, and that the log implements SessionHistory.                       *)
(*                                                                         *)
(* None of the properties is inductive: they hold because of what a copy   *)
(* in progress may and may not share with the database, which IInv states, *)
(* and because of where its file may be and what it is charged.            *)
(***************************************************************************)
EXTENDS SessionEventLog, FiniteSetTheorems, SequenceTheorems, TLAPS

------------------------------------------------------------------------------
(* Stages in which a copy owns a file in the blob directory.               *)
Holding == {"copying", "copied", "renamed", "discarding"}

RefsFinite == IsFiniteSet(refs)

(* Between the rename and the commit a writer has the mutex: nobody else   *)
(* is there, no removal is in progress, and the cursor it compared stands. *)
RenamedIsExclusive ==
    /\ \A v, w \in Writers :
         job[v].stage = "renamed" /\ job[w].stage = "renamed" => v = w
    /\ \A w \in Writers : job[w].stage = "renamed" =>
         sweep = {} /\ HasCursor(job[w].key) /\ job[w].name \in blobs

(* The file of a copy in progress is its own, and no reference names a     *)
(* file that is about to be unlinked.                                      *)
NamesAreOwned ==
    /\ \A w \in Writers : job[w].stage \in Holding =>
         job[w].name \in Names /\ job[w].name \notin Referenced
    /\ \A v, w \in Writers :
         v # w /\ job[v].stage \in Holding /\ job[w].stage \in Holding
           => job[v].name # job[w].name
    /\ sweep \cap Referenced = {}

(* A daemon that is down copies and unlinks nothing.                       *)
DownIsQuiet == ~up => sweep = {} /\ \A w \in Writers : job[w] = Idle

IInv == /\ TypeOK /\ RefsFinite /\ RenamedIsExclusive /\ NamesAreOwned
        /\ DownIsQuiet /\ ReferencedFilesExist /\ ReferencesBindRows

------------------------------------------------------------------------------
(* A batch is a sequence of ordinary events.                               *)
LEMMA BatchIsSeq == \A evs \in Batches : evs \in Seq(Ordinary) /\ evs \in Seq(Events)
BY LogAssumption DEF Batches, Events, LogAssumption

(* Only a writer in a stage of its own has a job record.                   *)
LEMMA StagesOfJobs ==
    ASSUME TypeOK, NEW w \in Writers
    PROVE  /\ job[w].stage # "idle" => job[w] \in Job
           /\ job[w] = Idle => job[w].stage = "idle"
BY DEF TypeOK, Idle

(* A cursor bound to a source exists, and is a row of its table.           *)
LEMMA CursorIsRow ==
    ASSUME TypeOK, NEW k \in Keys
    PROVE  /\ HasCursor(k) => cursor[k] \in Cursor
           /\ SourceOf(k) \in Sources => HasCursor(k)
           /\ GenOf(k) \in Nat \ {0}
           /\ OffsetOf(k) \in Nat
BY LogAssumption DEF TypeOK, HasCursor, SourceOf, GenOf, OffsetOf, Cursor, LogAssumption

LEMMA UsageIsNat ==
    ASSUME TypeOK, RefsFinite, NEW k \in Keys
    PROVE  UsageOfRows(k) \in Nat
<1>1. IsFiniteSet(RefsOf(k))
  BY FS_Subset DEF RefsFinite, RefsOf
<1>2. Cardinality(RefsOf(k)) \in Nat
  BY <1>1, FS_CardinalityType
<1>3. Len(rows[k]) \in Nat
  BY DEF TypeOK
<1>4. RawCost * Cardinality(RefsOf(k)) \in Nat
  BY <1>2, LogAssumption DEF LogAssumption
<1> QED BY <1>3, <1>4 DEF UsageOfRows

------------------------------------------------------------------------------
(* The steps of the log, one lemma for each kind of change.                *)

(* A job moves to another stage and nothing else changes: the copy failed, *)
(* finished, lost its race or was rolled back.                             *)
LEMMA StageMoves ==
    ASSUME IInv, NEW w \in Writers,
           NEW stage \in {"copied", "discarding", "returning"},
           job[w].stage # "idle", up,
           stage \in Holding => job[w].stage \in Holding,
           job' = [job EXCEPT ![w].stage = stage],
           UNCHANGED <<database, storage, reserved, reservedTotal, sweep, up>>
    PROVE  IInv'
<1>1. job[w] \in Job
  BY StagesOfJobs DEF IInv
<1>2. /\ job'[w] = [job[w] EXCEPT !.stage = stage]
      /\ \A v \in Writers : v # w => job'[v] = job[v]
  BY DEF IInv, TypeOK
<1>3. job'[w] \in Job /\ job'[w].stage = stage /\ job'[w].name = job[w].name
  BY <1>1, <1>2 DEF Job
<1>4. TypeOK'
  BY <1>2, <1>3 DEF IInv, TypeOK, database, storage
<1>5. RefsFinite' /\ ReferencedFilesExist' /\ DownIsQuiet'
  BY DEF IInv, RefsFinite, ReferencedFilesExist, Referenced, DownIsQuiet, database, storage
<1>6. ReferencesBindRows'
  BY DEF IInv, ReferencesBindRows, GenOf, HasCursor, database
<1>7. RenamedIsExclusive'
  BY <1>1, <1>2, <1>3 DEF IInv, RenamedIsExclusive, HasCursor, database, storage, Job
<1>8. NamesAreOwned'
  BY <1>2, <1>3 DEF IInv, NamesAreOwned, Referenced, Holding, database
<1> QED BY <1>4, <1>5, <1>6, <1>7, <1>8 DEF IInv

(* The rows of a session grow by ordinary events.                          *)
LEMMA RowsGrow ==
    ASSUME IInv, up, NEW k \in Keys, NEW evs \in Batches,
           rows' = [rows EXCEPT ![k] = @ \o evs],
           cursor' \in [Keys -> Cursor \cup {NoCursor}],
           \A j \in Keys : GenOf(j)' = GenOf(j),
           \A j \in Keys : HasCursor(j) => HasCursor(j)',
           usage' = [usage EXCEPT ![k] = @ + Len(evs)],
           UNCHANGED <<refs, storage, memory>>
    PROVE  IInv'
<1>1. evs \in Seq(Ordinary) /\ evs \in Seq(Events)
  BY BatchIsSeq
<1>2. /\ rows'[k] = rows[k] \o evs
      /\ \A j \in Keys : j # k => rows'[j] = rows[j]
  BY DEF IInv, TypeOK
<1>3. /\ rows'[k] \in Seq(Events)
      /\ Len(rows'[k]) = Len(rows[k]) + Len(evs)
      /\ \A n \in 1..Len(rows[k]) : rows'[k][n] = rows[k][n]
      /\ \A n \in 1..Len(rows'[k]) : n > Len(rows[k]) => rows'[k][n] \in Ordinary
  <2>1. rows[k] \in Seq(Events)
    BY DEF IInv, TypeOK
  <2>2. /\ rows[k] \o evs \in Seq(Events)
        /\ Len(rows[k] \o evs) = Len(rows[k]) + Len(evs)
        /\ \A i \in 1 .. Len(rows[k]) + Len(evs) : (rows[k] \o evs)[i] =
              IF i <= Len(rows[k]) THEN rows[k][i] ELSE evs[i - Len(rows[k])]
    BY <1>1, <2>1, ConcatProperties
  <2>3. Len(rows[k]) \in Nat /\ Len(evs) \in Nat
    BY <2>1, <1>1
  <2>4. \A i \in 1..Len(evs) : evs[i] \in Ordinary
    BY <1>1, ElementOfSeq
  <2> QED BY <1>2, <2>2, <2>3, <2>4
<1>4. TypeOK'
  <2>1. rows' \in [Keys -> Seq(Events)]
    BY <1>2, <1>3 DEF IInv, TypeOK
  <2>2. usage' \in [Keys -> Nat]
    BY <1>1 DEF IInv, TypeOK
  <2> QED BY <2>1, <2>2 DEF IInv, TypeOK, storage, memory
<1>5. RefsFinite' /\ ReferencedFilesExist' /\ DownIsQuiet'
  BY DEF IInv, RefsFinite, ReferencedFilesExist, Referenced, DownIsQuiet, storage, memory
<1>6. ReferencesBindRows'
  <2>1. \A r \in refs : /\ r.gen = GenOf(r.key)'
                        /\ r.seq \in DOMAIN rows'[r.key]
                        /\ rows'[r.key][r.seq] \in Oversized
    BY <1>2, <1>3 DEF IInv, TypeOK, Ref, ReferencesBindRows
  <2>2. \A j \in Keys : \A n \in DOMAIN rows'[j] :
          rows'[j][n] \in Oversized => \E r \in refs : r.key = j /\ r.seq = n
    <3> SUFFICES ASSUME NEW j \in Keys, NEW n \in DOMAIN rows'[j],
                        rows'[j][n] \in Oversized
                 PROVE  \E r \in refs : r.key = j /\ r.seq = n
      OBVIOUS
    <3>1. CASE j # k
      BY <3>1, <1>2 DEF IInv, ReferencesBindRows
    <3>2. CASE j = k
      <4>1. n \in 1..Len(rows'[k])
        BY <3>2, <1>3
      <4>2. rows'[k][n] \notin Ordinary
        BY <3>2, LogAssumption DEF LogAssumption
      <4>3. Len(rows[k]) \in Nat /\ Len(rows'[k]) \in Nat
        BY <1>3 DEF IInv, TypeOK
      <4>4. n \in 1..Len(rows[k])
        BY <4>1, <4>2, <4>3, <1>3
      <4>5. rows[k][n] \in Oversized /\ n \in DOMAIN rows[k]
        BY <4>4, <1>3, <3>2 DEF IInv, TypeOK
      <4> QED BY <4>5, <3>2 DEF IInv, ReferencesBindRows
    <3> QED BY <3>1, <3>2
  <2> QED BY <2>1, <2>2 DEF IInv, ReferencesBindRows
<1>7. RenamedIsExclusive'
  BY StagesOfJobs DEF IInv, RenamedIsExclusive, storage, memory, Job
<1>8. NamesAreOwned'
  BY DEF IInv, NamesAreOwned, Referenced, Holding, memory
<1> QED BY <1>4, <1>5, <1>6, <1>7, <1>8 DEF IInv

(* A cursor is created, bound or set, and its generation stays.            *)
LEMMA CursorMoves ==
    ASSUME IInv, LockFree,
           cursor' \in [Keys -> Cursor \cup {NoCursor}],
           \A j \in Keys : GenOf(j)' = GenOf(j),
           UNCHANGED <<rows, refs, usage, storage, memory>>
    PROVE  IInv'
<1>1. TypeOK'
  BY DEF IInv, TypeOK, storage, memory
<1>2. RefsFinite' /\ ReferencedFilesExist' /\ DownIsQuiet'
  BY DEF IInv, RefsFinite, ReferencedFilesExist, Referenced, DownIsQuiet, storage, memory
<1>3. ReferencesBindRows'
  BY DEF IInv, TypeOK, Ref, ReferencesBindRows
<1>4. RenamedIsExclusive'
  BY DEF LockFree, RenamedIsExclusive, memory
<1>5. NamesAreOwned'
  BY DEF IInv, NamesAreOwned, Referenced, Holding, memory
<1> QED BY <1>1, <1>2, <1>3, <1>4, <1>5 DEF IInv

(* A session loses its rows: what the transaction leaves behind names none *)
(* of the files that are unlinked after it.                                *)
LEMMA RowsDrop ==
    ASSUME IInv, LockFree, NEW k \in Keys, DropRows(k),
           cursor' \in [Keys -> Cursor \cup {NoCursor}],
           \A j \in Keys : j # k => GenOf(j)' = GenOf(j)
    PROVE  IInv'
<1>1. refs' \subseteq refs /\ \A r \in refs' : r.key # k
  BY DEF DropRows, RefsOf
<1>2. \A j \in Keys : rows'[j] = IF j = k THEN <<>> ELSE rows[j]
  BY DEF DropRows, IInv, TypeOK
<1>3. BlobNames(k) \subseteq Names
  BY DEF BlobNames, RefsOf, IInv, TypeOK, Ref
<1>4. TypeOK'
  <2>1. rows' \in [Keys -> Seq(Events)]
    BY <1>2, EmptySeq DEF DropRows, IInv, TypeOK
  <2>2. usage' \in [Keys -> Nat]
    BY DEF DropRows, IInv, TypeOK
  <2> QED BY <2>1, <2>2, <1>1, <1>3 DEF DropRows, IInv, TypeOK, storage
<1>5. RefsFinite'
  BY <1>1, FS_Subset DEF IInv, RefsFinite
<1>6. ReferencedFilesExist' /\ DownIsQuiet'
  BY <1>1 DEF DropRows, IInv, ReferencedFilesExist, Referenced, DownIsQuiet, LockFree, storage
<1>7. ReferencesBindRows'
  <2>1. \A r \in refs' : /\ r.gen = GenOf(r.key)'
                         /\ r.seq \in DOMAIN rows'[r.key]
                         /\ rows'[r.key][r.seq] \in Oversized
    BY <1>1, <1>2 DEF IInv, TypeOK, Ref, ReferencesBindRows
  <2>2. \A r, s \in refs' :
          (r.name = s.name \/ (r.key = s.key /\ r.seq = s.seq)) => r = s
    BY <1>1 DEF IInv, ReferencesBindRows
  <2>3. \A j \in Keys : \A n \in DOMAIN rows'[j] :
          rows'[j][n] \in Oversized => \E r \in refs' : r.key = j /\ r.seq = n
    <3> SUFFICES ASSUME NEW j \in Keys, NEW n \in DOMAIN rows'[j],
                        rows'[j][n] \in Oversized
                 PROVE  \E r \in refs' : r.key = j /\ r.seq = n
      OBVIOUS
    <3>1. j # k
      BY <1>2
    <3>2. PICK r \in refs : r.key = j /\ r.seq = n
      BY <3>1, <1>2 DEF IInv, ReferencesBindRows
    <3>3. r \in refs'
      BY <3>1, <3>2 DEF DropRows, RefsOf
    <3> QED BY <3>2, <3>3
  <2> QED BY <2>1, <2>2, <2>3 DEF ReferencesBindRows
<1>8. RenamedIsExclusive'
  BY DEF DropRows, LockFree, RenamedIsExclusive
<1>9. NamesAreOwned'
  <2>1. sweep' \cap Referenced' = {}
    BY DEF DropRows, BlobNames, RefsOf, Referenced, IInv, ReferencesBindRows
  <2>2. Referenced' \subseteq Referenced
    BY <1>1 DEF Referenced
  <2> QED BY <2>1, <2>2 DEF DropRows, IInv, NamesAreOwned, Holding
<1> QED BY <1>4, <1>5, <1>6, <1>7, <1>8, <1>9 DEF IInv

(* A writer takes a reservation.                                           *)
LEMMA ReserveStep ==
    ASSUME IInv, NEW w \in Writers, NEW k \in Keys, NEW e \in Oversized,
           NEW next \in Nat, NEW expected \in Nat, NEW src \in Sources,
           Reserve(w, k, e, next, expected, src)
    PROVE  IInv'
<1>1. /\ job'[w] \in Job /\ job'[w].stage = "reserved"
      /\ \A v \in Writers : v # w => job'[v] = job[v]
  BY DEF Reserve, IInv, TypeOK, Job
<1>2. ReservationCost \in Int
  BY LogAssumption DEF LogAssumption, ReservationCost
<1>3. TypeOK'
  BY <1>1, <1>2 DEF Reserve, IInv, TypeOK, database, storage
<1>4. RefsFinite' /\ ReferencedFilesExist' /\ DownIsQuiet'
  BY DEF Reserve, LockFree, IInv, RefsFinite, ReferencedFilesExist, Referenced,
         DownIsQuiet, database, storage
<1>5. ReferencesBindRows'
  BY DEF Reserve, IInv, ReferencesBindRows, GenOf, HasCursor, database
<1>6. RenamedIsExclusive'
  BY <1>1 DEF Reserve, LockFree, RenamedIsExclusive
<1>7. NamesAreOwned'
  BY <1>1 DEF Reserve, IInv, NamesAreOwned, Referenced, Holding, database
<1> QED BY <1>3, <1>4, <1>5, <1>6, <1>7 DEF IInv

(* The reservation ends.                                                   *)
LEMMA ReleaseStep ==
    ASSUME IInv, NEW w \in Writers, Release(w)
    PROVE  IInv'
<1>1. /\ job'[w] = Idle
      /\ \A v \in Writers : v # w => job'[v] = job[v]
  BY DEF Release, IInv, TypeOK
<1>2. job[w] \in Job
  BY StagesOfJobs DEF Release, IInv
<1>3. ReservationCost \in Int
  BY LogAssumption DEF LogAssumption, ReservationCost
<1>4. TypeOK'
  <2>1. job[w].key \in Keys
    BY <1>2 DEF Job
  <2>2. reserved' \in [Keys -> Int] /\ reservedTotal' \in Int
    BY <2>1, <1>3 DEF Release, IInv, TypeOK
  <2>3. job' \in [Writers -> Job \cup {Idle}]
    BY DEF Release, IInv, TypeOK
  <2> QED BY <2>2, <2>3 DEF Release, IInv, TypeOK, database, storage
<1>5. RefsFinite' /\ ReferencedFilesExist' /\ DownIsQuiet'
  BY DEF Release, LockFree, IInv, RefsFinite, ReferencedFilesExist, Referenced,
         DownIsQuiet, database, storage
<1>6. ReferencesBindRows'
  BY DEF Release, IInv, ReferencesBindRows, GenOf, HasCursor, database
<1>7. RenamedIsExclusive'
  BY <1>1 DEF Release, LockFree, RenamedIsExclusive, Idle
<1>8. NamesAreOwned'
  BY <1>1 DEF Release, IInv, NamesAreOwned, Referenced, Holding, database, Idle
<1> QED BY <1>4, <1>5, <1>6, <1>7, <1>8 DEF IInv

(* A temporary file gets a name nothing else carries.                      *)
LEMMA CreateTempStep ==
    ASSUME IInv, NEW w \in Writers, CreateTemp(w)
    PROVE  IInv'
<1>1. PICK n \in Names : /\ Fresh(n)
                         /\ temps' = temps \cup {n}
                         /\ job' = [job EXCEPT ![w].stage = "copying", ![w].name = n]
  BY DEF CreateTemp
<1>2. job[w] \in Job
  BY StagesOfJobs DEF CreateTemp, IInv
<1>3. /\ job'[w] \in Job /\ job'[w].stage = "copying" /\ job'[w].name = n
      /\ \A v \in Writers : v # w => job'[v] = job[v]
  BY <1>1, <1>2 DEF IInv, TypeOK, Job
<1>4. TypeOK'
  BY <1>1, <1>3 DEF CreateTemp, IInv, TypeOK, database
<1>5. RefsFinite' /\ ReferencedFilesExist'
  BY DEF CreateTemp, IInv, RefsFinite, ReferencedFilesExist, Referenced, database
<1>6. DownIsQuiet'
  BY StagesOfJobs DEF CreateTemp, IInv, DownIsQuiet, Idle
<1>7. ReferencesBindRows'
  BY DEF CreateTemp, IInv, ReferencesBindRows, GenOf, HasCursor, database
<1>8. RenamedIsExclusive'
  <2>1. UNCHANGED <<cursor, sweep, blobs>>
    BY DEF CreateTemp, database
  <2>2. \A v \in Writers : job'[v].stage = "renamed" => v # w /\ job'[v] = job[v]
    BY <1>3
  <2> QED BY <2>1, <2>2 DEF IInv, RenamedIsExclusive, HasCursor
<1>9. NamesAreOwned'
  <2>1. n \notin Referenced /\ \A v \in Writers : job[v].stage \in Holding => job[v].name # n
    BY <1>1 DEF Fresh, Holding, Idle
  <2>2. Referenced' = Referenced /\ sweep' = sweep
    BY DEF CreateTemp, Referenced, database
  <2>3. \A v \in Writers : job'[v].stage \in Holding =>
          job'[v].name \in Names /\ job'[v].name \notin Referenced
    BY <2>1, <1>3 DEF IInv, NamesAreOwned
  <2>4. \A u, v \in Writers :
          u # v /\ job'[u].stage \in Holding /\ job'[v].stage \in Holding
            => job'[u].name # job'[v].name
    BY <2>1, <1>3 DEF IInv, NamesAreOwned
  <2> QED BY <2>2, <2>3, <2>4 DEF IInv, NamesAreOwned
<1> QED BY <1>4, <1>5, <1>6, <1>7, <1>8, <1>9 DEF IInv

(* The copy gets its final name under the mutex.                           *)
LEMMA RenameTempStep ==
    ASSUME IInv, NEW w \in Writers, RenameTemp(w)
    PROVE  IInv'
<1>1. job[w] \in Job
  BY StagesOfJobs DEF RenameTemp, IInv
<1>2. /\ job'[w] \in Job /\ job'[w].stage = "renamed"
      /\ job'[w].name = job[w].name /\ job'[w].key = job[w].key
      /\ \A v \in Writers : v # w => job'[v] = job[v]
  BY <1>1 DEF RenameTemp, IInv, TypeOK, Job
<1>3. job[w].name \in Names /\ job[w].name \in blobs'
  BY DEF RenameTemp, IInv, NamesAreOwned, Holding
<1>4. TypeOK'
  BY <1>2, <1>3 DEF RenameTemp, IInv, TypeOK, database
<1>5. RefsFinite' /\ ReferencedFilesExist' /\ DownIsQuiet'
  BY DEF RenameTemp, LockFree, IInv, RefsFinite, ReferencedFilesExist, Referenced,
         DownIsQuiet, database
<1>6. ReferencesBindRows'
  BY DEF RenameTemp, IInv, ReferencesBindRows, GenOf, HasCursor, database
<1>7. RenamedIsExclusive'
  <2>1. HasCursor(job[w].key)
    BY <1>1, CursorIsRow DEF RenameTemp, CursorMatches, IInv, Job
  <2> QED BY <2>1, <1>2, <1>3 DEF RenameTemp, LockFree, RenamedIsExclusive, HasCursor, database
<1>8. NamesAreOwned'
  BY <1>2, <1>3 DEF RenameTemp, IInv, NamesAreOwned, Referenced, Holding, database
<1> QED BY <1>4, <1>5, <1>6, <1>7, <1>8 DEF IInv

(* The files of a failed copy are unlinked.                                *)
LEMMA DiscardCopyStep ==
    ASSUME IInv, NEW w \in Writers, DiscardCopy(w)
    PROVE  IInv'
<1>1. job[w] \in Job /\ job[w].name \in Names /\ job[w].name \notin Referenced
  BY StagesOfJobs DEF DiscardCopy, IInv, NamesAreOwned, Holding
<1>2. /\ job'[w] \in Job /\ job'[w].stage = "returning"
      /\ \A v \in Writers : v # w => job'[v] = job[v]
  BY <1>1 DEF DiscardCopy, IInv, TypeOK, Job
<1>3. temps' \subseteq temps /\ blobs' \subseteq blobs /\ leaked' \subseteq leaked \cup {job[w].name}
  BY DEF DiscardCopy
<1>4. TypeOK'
  BY <1>1, <1>2, <1>3 DEF DiscardCopy, IInv, TypeOK, database
<1>5. RefsFinite' /\ ReferencedFilesExist'
  BY <1>1 DEF DiscardCopy, IInv, RefsFinite, ReferencedFilesExist, Referenced, database
<1>6. DownIsQuiet'
  BY StagesOfJobs DEF DiscardCopy, IInv, DownIsQuiet, Idle
<1>7. ReferencesBindRows'
  BY DEF DiscardCopy, IInv, ReferencesBindRows, GenOf, HasCursor, database
<1>8. RenamedIsExclusive'
  <2>1. ASSUME NEW v \in Writers, job'[v].stage = "renamed"
        PROVE  sweep' = {} /\ HasCursor(job[v].key)' /\ job'[v].name \in blobs'
    <3>1. v # w /\ job[v].stage = "renamed" /\ job'[v] = job[v]
      BY <2>1, <1>2
    <3>2. job[v].name \in blobs /\ job[v].name # job[w].name
      BY <3>1 DEF DiscardCopy, IInv, RenamedIsExclusive, NamesAreOwned, Holding
    <3> QED BY <3>1, <3>2 DEF DiscardCopy, IInv, RenamedIsExclusive, HasCursor, database
  <2>2. \A u, v \in Writers :
          job'[u].stage = "renamed" /\ job'[v].stage = "renamed" => u = v
    BY <1>2 DEF IInv, RenamedIsExclusive
  <2> QED BY <2>1, <2>2 DEF RenamedIsExclusive
<1>9. NamesAreOwned'
  BY <1>2 DEF DiscardCopy, IInv, NamesAreOwned, Referenced, Holding, database
<1> QED BY <1>4, <1>5, <1>6, <1>7, <1>8, <1>9 DEF IInv

(* The holder of the mutex unlinks one file of a removed generation.       *)
LEMMA SweepBlobStep ==
    ASSUME IInv, SweepBlob
    PROVE  IInv'
<1>1. PICK n \in sweep : /\ sweep' = sweep \ {n}
                         /\ \/ blobs' = blobs \ {n} /\ UNCHANGED leaked
                            \/ leaked' = leaked \cup {n} /\ UNCHANGED blobs
  BY DEF SweepBlob
<1>2. n \in Names /\ n \notin Referenced
  BY DEF IInv, TypeOK, NamesAreOwned
<1>3. TypeOK'
  BY <1>1, <1>2 DEF SweepBlob, IInv, TypeOK, database
<1>4. RefsFinite' /\ ReferencedFilesExist' /\ DownIsQuiet'
  BY <1>1, <1>2 DEF SweepBlob, IInv, RefsFinite, ReferencedFilesExist, Referenced,
                    DownIsQuiet, database
<1>5. ReferencesBindRows'
  BY DEF SweepBlob, IInv, ReferencesBindRows, GenOf, HasCursor, database
<1>6. RenamedIsExclusive'
  BY <1>1 DEF SweepBlob, IInv, RenamedIsExclusive
<1>7. NamesAreOwned'
  BY <1>1 DEF SweepBlob, IInv, NamesAreOwned, Referenced, Holding, database
<1> QED BY <1>3, <1>4, <1>5, <1>6, <1>7 DEF IInv

(* The commit: the writer has the mutex since the rename, so the file is   *)
(* there, nobody else refers to it and the seq is the next one.            *)
LEMMA CommitRowStep ==
    ASSUME IInv, NEW w \in Writers, CommitRow(w)
    PROVE  IInv'
<1> DEFINE k == job[w].key
           e == job[w].event
           r == [key |-> k, gen |-> GenOf(k), seq |-> Len(rows[k]) + 1, name |-> job[w].name]
<1>1. job[w] \in Job /\ k \in Keys /\ e \in Oversized /\ job[w].next \in Nat
  BY StagesOfJobs DEF CommitRow, IInv, Job
<1>2. /\ job[w].name \in Names /\ job[w].name \in blobs /\ job[w].name \notin Referenced
      /\ sweep = {} /\ HasCursor(k)
  BY DEF CommitRow, IInv, NamesAreOwned, RenamedIsExclusive, Holding
<1>3. /\ rows' = [rows EXCEPT ![k] = Append(@, e)]
      /\ refs' = refs \cup {r}
      /\ cursor' = [cursor EXCEPT ![k].offset = job[w].next]
      /\ usage' = [usage EXCEPT ![k] = @ + ReservationCost]
      /\ job' = [job EXCEPT ![w].stage = "returning"]
      /\ UNCHANGED <<storage, reserved, reservedTotal, sweep, up>>
  BY DEF CommitRow
<1>4. /\ job'[w] \in Job /\ job'[w].stage = "returning"
      /\ \A v \in Writers : v # w => job'[v] = job[v]
  BY <1>1, <1>3 DEF IInv, TypeOK, Job
<1>5. cursor[k] \in Cursor /\ GenOf(k) \in Nat \ {0}
  BY <1>1, <1>2, CursorIsRow DEF IInv
<1>6. /\ cursor' \in [Keys -> Cursor \cup {NoCursor}]
      /\ \A j \in Keys : GenOf(j)' = GenOf(j)
  <2>1. cursor'[k] \in Cursor /\ cursor'[k].gen = cursor[k].gen
    BY <1>1, <1>3, <1>5 DEF IInv, TypeOK, Cursor
  <2>2. \A j \in Keys : j # k => cursor'[j] = cursor[j]
    BY <1>1, <1>3 DEF IInv, TypeOK
  <2>3. cursor' \in [Keys -> Cursor \cup {NoCursor}]
    BY <2>1, <2>2, <1>1, <1>3 DEF IInv, TypeOK
  <2>4. cursor'[k] # NoCursor
    BY <2>1, LogAssumption DEF LogAssumption, Cursor
  <2> QED BY <2>1, <2>2, <2>3, <2>4, <1>2 DEF GenOf, HasCursor
<1>7. /\ rows[k] \in Seq(Events) /\ Len(rows[k]) \in Nat
      /\ rows'[k] = Append(rows[k], e) /\ rows'[k] \in Seq(Events)
      /\ \A j \in Keys : j # k => rows'[j] = rows[j]
  BY <1>1, <1>3 DEF IInv, TypeOK, Events
<1>8. /\ DOMAIN rows'[k] = 1..(Len(rows[k]) + 1)
      /\ DOMAIN rows[k] = 1..Len(rows[k])
      /\ rows'[k][Len(rows[k]) + 1] = e
      /\ \A n \in 1..Len(rows[k]) : rows'[k][n] = rows[k][n]
  BY <1>1, <1>7 DEF Events
<1>9. r \in Ref
  BY <1>1, <1>2, <1>5, <1>7 DEF Ref
<1>10. TypeOK'
  <2>1. rows' \in [Keys -> Seq(Events)]
    BY <1>1, <1>3, <1>7 DEF IInv, TypeOK
  <2>2. usage' \in [Keys -> Nat]
    <3>1. ReservationCost \in Nat
      BY LogAssumption DEF ReservationCost, LogAssumption
    <3> QED BY <3>1, <1>1, <1>3 DEF IInv, TypeOK
  <2> QED BY <2>1, <2>2, <1>3, <1>4, <1>6, <1>9 DEF IInv, TypeOK, storage
<1>11. RefsFinite'
  BY <1>3, FS_AddElement DEF IInv, RefsFinite
<1>12. Referenced' = Referenced \cup {job[w].name}
  <2>1. r.name = job[w].name
    OBVIOUS
  <2>2. refs' = refs \cup {r}
    BY <1>3
  <2> HIDE DEF r
  <2>3. \A n : n \in Referenced' <=> n \in Referenced \/ n = r.name
    BY <2>2 DEF Referenced
  <2> QED BY <2>1, <2>3
<1>13. ReferencedFilesExist'
  BY <1>2, <1>3, <1>12 DEF IInv, ReferencedFilesExist, storage
<1>14. DownIsQuiet'
  BY <1>3 DEF CommitRow, DownIsQuiet
<1>15. ReferencesBindRows'
  <2>1. \A s \in refs' : /\ s.gen = GenOf(s.key)'
                         /\ s.seq \in DOMAIN rows'[s.key]
                         /\ rows'[s.key][s.seq] \in Oversized
    <3> SUFFICES ASSUME NEW s \in refs'
                 PROVE  /\ s.gen = GenOf(s.key)'
                        /\ s.seq \in DOMAIN rows'[s.key]
                        /\ rows'[s.key][s.seq] \in Oversized
      OBVIOUS
    <3>1. CASE s = r
      BY <3>1, <1>1, <1>6, <1>7, <1>8, SMTT(30)
    <3>2. CASE s \in refs
      <4>1. s.key \in Keys /\ s.seq \in Nat /\ s.gen = GenOf(s.key)
            /\ s.seq \in DOMAIN rows[s.key] /\ rows[s.key][s.seq] \in Oversized
        BY <3>2 DEF IInv, TypeOK, Ref, ReferencesBindRows
      <4>2. CASE s.key = k
        BY <4>1, <4>2, <1>6, <1>7, <1>8
      <4>3. CASE s.key # k
        BY <4>1, <4>3, <1>6, <1>7
      <4> QED BY <4>2, <4>3
    <3> QED BY <3>1, <3>2, <1>3
  <2>2. \A s \in refs : /\ s.name # r.name
                        /\ ~(s.key = r.key /\ s.seq = r.seq)
    <3> SUFFICES ASSUME NEW s \in refs
                 PROVE  s.name # r.name /\ ~(s.key = r.key /\ s.seq = r.seq)
      OBVIOUS
    <3>1. s.name # job[w].name
      BY <1>2 DEF Referenced
    <3>2. s.key = k => s.seq \in 1..Len(rows[k])
      BY <1>8 DEF IInv, ReferencesBindRows
    <3> QED BY <3>1, <3>2, <1>7
  <2>3. \A s, t \in refs' :
          (s.name = t.name \/ (s.key = t.key /\ s.seq = t.seq)) => s = t
    BY <2>2, <1>3 DEF IInv, ReferencesBindRows
  <2>4. \A j \in Keys : \A n \in DOMAIN rows'[j] :
          rows'[j][n] \in Oversized => \E s \in refs' : s.key = j /\ s.seq = n
    <3> SUFFICES ASSUME NEW j \in Keys, NEW n \in DOMAIN rows'[j],
                        rows'[j][n] \in Oversized
                 PROVE  \E s \in refs' : s.key = j /\ s.seq = n
      OBVIOUS
    <3>1. CASE j # k
      <4>1. n \in DOMAIN rows[j] /\ rows[j][n] \in Oversized
        BY <3>1, <1>7
      <4> QED BY <4>1, <1>3 DEF IInv, ReferencesBindRows
    <3>2. CASE j = k /\ n = Len(rows[k]) + 1
      <4>1. r \in refs' /\ r.key = k /\ r.seq = Len(rows[k]) + 1
        BY <1>3
      <4> HIDE DEF r
      <4> QED BY <4>1, <3>2
    <3>3. CASE j = k /\ n # Len(rows[k]) + 1
      <4>1. n \in DOMAIN rows[k] /\ rows[k][n] \in Oversized
        BY <3>3, <1>7, <1>8
      <4> QED BY <4>1, <3>3, <1>1, <1>3 DEF IInv, ReferencesBindRows
    <3> QED BY <3>1, <3>2, <3>3
  <2> QED BY <2>1, <2>3, <2>4 DEF ReferencesBindRows
<1>16. RenamedIsExclusive'
  BY <1>4 DEF CommitRow, IInv, RenamedIsExclusive
<1>17. NamesAreOwned'
  <2>1. \A v \in Writers : job'[v].stage \in Holding =>
          job'[v] = job[v] /\ v # w /\ job[v].name # job[w].name
    BY <1>4 DEF CommitRow, IInv, NamesAreOwned, Holding
  <2>2. sweep' = {}
    BY <1>2, <1>3
  <2> QED BY <2>1, <2>2, <1>12 DEF IInv, NamesAreOwned
<1> QED BY <1>10, <1>11, <1>13, <1>14, <1>15, <1>16, <1>17 DEF IInv

(* The daemon dies and starts again.                                       *)
LEMMA CrashStep == ASSUME IInv, Crash PROVE IInv'
<1>1. TypeOK'
  <2>1. reserved' \in [Keys -> Int] /\ reservedTotal' \in Int /\ job' \in [Writers -> Job \cup {Idle}]
    BY DEF Crash
  <2>2. leaked' \in SUBSET Names
    BY DEF Crash, IInv, TypeOK
  <2> QED BY <2>1, <2>2 DEF Crash, IInv, TypeOK, database
<1>2. RefsFinite' /\ ReferencedFilesExist'
  BY DEF Crash, IInv, RefsFinite, ReferencedFilesExist, Referenced, database
<1>3. ReferencesBindRows'
  BY DEF Crash, IInv, ReferencesBindRows, GenOf, HasCursor, database
<1>4. \A w \in Writers : job'[w] = Idle
  BY DEF Crash
<1>5. RenamedIsExclusive' /\ NamesAreOwned' /\ DownIsQuiet'
  BY <1>4 DEF Crash, RenamedIsExclusive, NamesAreOwned, DownIsQuiet, Holding, Idle
<1> QED BY <1>1, <1>2, <1>3, <1>5 DEF IInv

LEMMA RestartStep == ASSUME IInv, Restart PROVE IInv'
<1>1. TypeOK'
  <2>1. usage' \in [Keys -> Nat]
    BY UsageIsNat DEF Restart, IInv
  <2> QED BY <2>1 DEF Restart, IInv, TypeOK
<1>2. RefsFinite' /\ ReferencedFilesExist'
  BY DEF Restart, IInv, RefsFinite, ReferencedFilesExist, Referenced
<1>3. ReferencesBindRows'
  BY DEF Restart, IInv, ReferencesBindRows, GenOf, HasCursor
<1>4. /\ \A w \in Writers : job'[w] = Idle
      /\ sweep' = {}
  BY DEF Restart, IInv, DownIsQuiet
<1>5. RenamedIsExclusive' /\ NamesAreOwned' /\ DownIsQuiet'
  BY <1>4 DEF Restart, RenamedIsExclusive, NamesAreOwned, DownIsQuiet, Holding, Idle
<1> QED BY <1>1, <1>2, <1>3, <1>5 DEF IInv

------------------------------------------------------------------------------
LEMMA InitHolds == Init => IInv
<1> SUFFICES ASSUME Init PROVE IInv
  OBVIOUS
<1>1. TypeOK
  BY EmptySeq DEF Init, TypeOK
<1>2. RefsFinite
  BY FS_EmptySet DEF Init, RefsFinite
<1>3. RenamedIsExclusive /\ NamesAreOwned /\ DownIsQuiet
  BY DEF Init, RenamedIsExclusive, NamesAreOwned, DownIsQuiet, Holding, Idle
<1>4. ReferencedFilesExist /\ ReferencesBindRows
  BY DEF Init, ReferencedFilesExist, ReferencesBindRows, Referenced
<1> QED BY <1>1, <1>2, <1>3, <1>4 DEF IInv

LEMMA AppendStepHolds == ASSUME IInv, AppendStep PROVE IInv'
<1>1. PICK k \in Keys, evs \in Batches :
        \/ AppendEvents(k, evs)
        \/ \E expected \in 0..MaxOffset, src \in Sources :
             \E next \in (expected + 1)..MaxOffset :
               AppendAndAdvance(k, evs, next, expected, src)
  BY DEF AppendStep
<1>2. CASE AppendEvents(k, evs)
  <2>1. UNCHANGED cursor /\ up
    BY <1>2 DEF AppendEvents, LockFree
  <2>2. /\ cursor' \in [Keys -> Cursor \cup {NoCursor}]
        /\ \A j \in Keys : GenOf(j)' = GenOf(j)
        /\ \A j \in Keys : HasCursor(j) => HasCursor(j)'
    BY <2>1 DEF IInv, TypeOK, GenOf, HasCursor
  <2> QED BY <1>2, <2>1, <2>2, RowsGrow DEF AppendEvents
<1>3. ASSUME NEW expected \in 0..MaxOffset, NEW src \in Sources,
             NEW next \in (expected + 1)..MaxOffset,
             AppendAndAdvance(k, evs, next, expected, src)
      PROVE  IInv'
  <2>1. next \in Nat
    BY LogAssumption DEF LogAssumption
  <2>2. HasCursor(k) /\ cursor[k] \in Cursor
    BY <1>3, CursorIsRow DEF AppendAndAdvance, CursorMatches, IInv
  <2>3. cursor' = [cursor EXCEPT ![k].offset = next] /\ up
    BY <1>3 DEF AppendAndAdvance, LockFree
  <2>4. cursor'[k] \in Cursor /\ cursor'[k].gen = cursor[k].gen
    BY <2>1, <2>2, <2>3 DEF IInv, TypeOK, Cursor
  <2>5. \A j \in Keys : j # k => cursor'[j] = cursor[j]
    BY <2>3 DEF IInv, TypeOK
  <2>6. cursor'[k] # NoCursor
    BY <2>4, LogAssumption DEF LogAssumption, Cursor
  <2>7. cursor' \in [Keys -> Cursor \cup {NoCursor}]
    BY <2>3, <2>4, <2>5 DEF IInv, TypeOK
  <2>8. /\ \A j \in Keys : GenOf(j)' = GenOf(j)
        /\ \A j \in Keys : HasCursor(j) => HasCursor(j)'
    BY <2>2, <2>4, <2>5, <2>6 DEF GenOf, HasCursor
  <2> QED BY <1>3, <2>3, <2>7, <2>8, RowsGrow DEF AppendAndAdvance
<1> QED BY <1>1, <1>2, <1>3

LEMMA PreserveStepHolds ==
    ASSUME IInv, NEW w \in Writers, PreserveStep(w) PROVE IInv'
<1>1. ASSUME NEW k \in Keys, NEW e \in Oversized, NEW src \in Sources,
             NEW expected \in 0..MaxOffset, NEW next \in (expected + 1)..MaxOffset,
             Reserve(w, k, e, next, expected, src)
      PROVE  IInv'
  <2>1. expected \in Nat /\ next \in Nat
    BY LogAssumption DEF LogAssumption
  <2> QED BY <1>1, <2>1, ReserveStep
<1>2. job[w].stage # "idle" => up
  BY DEF IInv, DownIsQuiet, Idle
<1>3. CASE CreateFails(w) \/ FinishCopy(w) \/ AbandonCopy(w) \/ LoseRace(w) \/ CommitFails(w)
  <2>1. CASE CreateFails(w)
    BY <2>1, <1>2, StageMoves DEF CreateFails, Holding
  <2>2. CASE FinishCopy(w)
    BY <2>2, <1>2, StageMoves DEF FinishCopy, Holding
  <2>3. CASE AbandonCopy(w)
    BY <2>3, <1>2, StageMoves DEF AbandonCopy, Holding
  <2>4. CASE LoseRace(w)
    BY <2>4, <1>2, StageMoves DEF LoseRace, Holding
  <2>5. CASE CommitFails(w)
    BY <2>5, <1>2, StageMoves DEF CommitFails, Holding
  <2> QED BY <1>3, <2>1, <2>2, <2>3, <2>4, <2>5
<1> QED BY <1>1, <1>3, CreateTempStep, RenameTempStep, CommitRowStep, DiscardCopyStep,
           ReleaseStep DEF PreserveStep

(* What a transaction on the cursor of one session leaves behind.          *)
LEMMA NewCursorIsRow ==
    ASSUME NEW p \in Parsers, NEW g \in Nat \ {0}, NEW src \in Sources \cup {NoSource}
    PROVE  /\ NewCursor(p, g, src) \in Cursor
           /\ NewCursor(p, g, src) # NoCursor
           /\ NewCursor(p, g, src).gen = g
BY LogAssumption DEF NewCursor, Cursor, LogAssumption

LEMMA CursorIsSet ==
    ASSUME TypeOK, NEW k \in Keys, NEW c \in Cursor,
           cursor' = [cursor EXCEPT ![k] = c]
    PROVE  /\ cursor' \in [Keys -> Cursor \cup {NoCursor}]
           /\ GenOf(k)' = c.gen
           /\ \A j \in Keys : j # k => GenOf(j)' = GenOf(j)
<1>1. c # NoCursor
  BY LogAssumption DEF LogAssumption, Cursor
<1>2. cursor'[k] = c /\ \A j \in Keys : j # k => cursor'[j] = cursor[j]
  BY DEF TypeOK
<1> QED BY <1>1, <1>2 DEF TypeOK, GenOf, HasCursor

(* Forget the session: nothing is bound, the generation is the first.      *)
LEMMA CursorIsDropped ==
    ASSUME TypeOK, NEW k \in Keys, cursor' = [cursor EXCEPT ![k] = NoCursor]
    PROVE  /\ cursor' \in [Keys -> Cursor \cup {NoCursor}]
           /\ GenOf(k)' = 1
           /\ \A j \in Keys : j # k => GenOf(j)' = GenOf(j)
BY DEF TypeOK, GenOf, HasCursor

(* The cursor each transaction writes, and the generation it has.          *)
LEMMA BindSourceCursor ==
    ASSUME TypeOK, NEW k \in Keys, NEW src \in Sources, NEW size \in Nat,
           NEW force \in BOOLEAN, BindSource(k, src, size, force)
    PROVE  \E c \in Cursor : cursor' = [cursor EXCEPT ![k] = c] /\ c.gen = GenOf(k)
<1>1. CASE ~HasCursor(k) /\ cursor' = [cursor EXCEPT ![k] = NewCursor(1, 1, src)]
  <2>1. NewCursor(1, 1, src) \in Cursor /\ NewCursor(1, 1, src).gen = 1
    BY NewCursorIsRow, LogAssumption DEF LogAssumption
  <2> QED BY <1>1, <2>1 DEF GenOf
<1>2. CASE HasCursor(k) /\ cursor' = [cursor EXCEPT ![k].source = src]
  <2>1. cursor[k] \in Cursor
    BY <1>2, CursorIsRow
  <2>2. /\ [cursor[k] EXCEPT !.source = src] \in Cursor
        /\ [cursor[k] EXCEPT !.source = src].gen = cursor[k].gen
    BY <2>1 DEF Cursor
  <2>3. cursor' = [cursor EXCEPT ![k] = [cursor[k] EXCEPT !.source = src]]
    BY <1>2
  <2> QED BY <1>2, <2>2, <2>3 DEF GenOf
<1> QED BY <1>1, <1>2 DEF BindSource

LEMMA RebuildForSourceCursor ==
    ASSUME TypeOK, NEW k \in Keys, NEW src \in Sources, NEW size \in Nat,
           NEW force \in BOOLEAN, RebuildForSource(k, src, size, force)
    PROVE  \E c \in Cursor : cursor' = [cursor EXCEPT ![k] = c] /\ c.gen = GenOf(k) + 1
<1> DEFINE c == NewCursor(cursor[k].parser, cursor[k].gen + 1, src)
<1>1. cursor[k] \in Cursor /\ cursor[k].gen = GenOf(k)
  BY CursorIsRow DEF RebuildForSource, GenOf
<1>2. cursor' = [cursor EXCEPT ![k] = c]
  BY DEF RebuildForSource
<1>3. cursor[k].parser \in Parsers /\ cursor[k].gen + 1 \in Nat \ {0}
  BY <1>1 DEF Cursor
<1>4. c \in Cursor /\ c.gen = cursor[k].gen + 1
  BY <1>3, NewCursorIsRow
<1> QED BY <1>1, <1>2, <1>4

LEMMA RebuildForParserCursor ==
    ASSUME TypeOK, NEW k \in Keys, NEW p \in Parsers, RebuildForParser(k, p)
    PROVE  \E c \in Cursor : cursor' = [cursor EXCEPT ![k] = c] /\ c.gen = GenOf(k) + 1
<1> DEFINE c == NewCursor(p, cursor[k].gen + 1, cursor[k].source)
<1>1. cursor[k] \in Cursor /\ cursor[k].gen = GenOf(k)
  BY CursorIsRow DEF RebuildForParser, GenOf
<1>2. cursor' = [cursor EXCEPT ![k] = c]
  BY DEF RebuildForParser
<1>3. cursor[k].source \in Sources \cup {NoSource} /\ cursor[k].gen + 1 \in Nat \ {0}
  BY <1>1 DEF Cursor
<1>4. c \in Cursor /\ c.gen = cursor[k].gen + 1
  BY <1>3, NewCursorIsRow
<1> QED BY <1>1, <1>2, <1>4

LEMMA ResetIngestCursor ==
    ASSUME TypeOK, NEW k \in Keys, ResetIngest(k)
    PROVE  \E c \in Cursor : cursor' = [cursor EXCEPT ![k] = c] /\ c.gen = GenOf(k) + 1
<1> DEFINE p == IF HasCursor(k) THEN cursor[k].parser ELSE 1
           c == NewCursor(p, GenOf(k) + 1, NoSource)
<1>1. p \in Parsers
  BY CursorIsRow, LogAssumption DEF LogAssumption, Cursor
<1>2. cursor' = [cursor EXCEPT ![k] = c]
  BY DEF ResetIngest
<1>3. GenOf(k) + 1 \in Nat \ {0}
  BY CursorIsRow
<1> HIDE DEF p
<1>4. c \in Cursor /\ c.gen = GenOf(k) + 1
  BY <1>1, <1>3, NewCursorIsRow
<1> QED BY <1>2, <1>4

LEMMA FirstPrepareCursor ==
    ASSUME TypeOK, NEW k \in Keys, NEW p \in Parsers, FirstPrepare(k, p)
    PROVE  \E c \in Cursor : cursor' = [cursor EXCEPT ![k] = c] /\ c.gen = GenOf(k)
<1>1. NewCursor(p, 1, NoSource) \in Cursor /\ NewCursor(p, 1, NoSource).gen = 1
  BY NewCursorIsRow
<1> QED BY <1>1 DEF FirstPrepare, GenOf

LEMMA SetIngestOffsetCursor ==
    ASSUME TypeOK, NEW k \in Keys, NEW offset \in Nat, SetIngestOffset(k, offset)
    PROVE  \E c \in Cursor : cursor' = [cursor EXCEPT ![k] = c] /\ c.gen = GenOf(k)
<1> DEFINE old == IF HasCursor(k) THEN cursor[k] ELSE NewCursor(1, 1, NoSource)
           c == [old EXCEPT !.offset = offset]
<1>1. NewCursor(1, 1, NoSource) \in Cursor /\ NewCursor(1, 1, NoSource).gen = 1
  BY NewCursorIsRow, LogAssumption DEF LogAssumption
<1>2. old \in Cursor /\ old.gen = GenOf(k)
  BY <1>1, CursorIsRow DEF GenOf
<1>3. cursor' = [cursor EXCEPT ![k] = c]
  BY DEF SetIngestOffset
<1> HIDE DEF old
<1>4. c \in Cursor /\ c.gen = old.gen
  BY <1>2 DEF Cursor
<1> QED BY <1>2, <1>3, <1>4

LEMMA ResetStepHolds == ASSUME IInv, ResetStep PROVE IInv'
<1>1. PICK k \in Keys :
        \/ \E src \in Sources, size \in 0..MaxOffset, force \in BOOLEAN :
             BindSource(k, src, size, force) \/ RebuildForSource(k, src, size, force)
        \/ \E p \in Parsers : FirstPrepare(k, p) \/ RebuildForParser(k, p)
        \/ ResetIngest(k)
        \/ \E offset \in 0..MaxOffset : SetIngestOffset(k, offset)
        \/ PurgeSession(k)
  BY DEF ResetStep
<1>2. TypeOK /\ 0..MaxOffset \subseteq Nat
  BY LogAssumption DEF IInv, LogAssumption
<1>3. ASSUME NEW src \in Sources, NEW size \in 0..MaxOffset, NEW force \in BOOLEAN,
             BindSource(k, src, size, force)
      PROVE  IInv'
  <2>1. PICK c \in Cursor : cursor' = [cursor EXCEPT ![k] = c] /\ c.gen = GenOf(k)
    BY <1>2, <1>3, BindSourceCursor
  <2>2. /\ cursor' \in [Keys -> Cursor \cup {NoCursor}]
        /\ \A j \in Keys : GenOf(j)' = GenOf(j)
    BY <1>2, <2>1, CursorIsSet
  <2> QED BY <1>3, <2>2, CursorMoves DEF BindSource
<1>4. ASSUME NEW p \in Parsers, FirstPrepare(k, p) PROVE IInv'
  <2>1. PICK c \in Cursor : cursor' = [cursor EXCEPT ![k] = c] /\ c.gen = GenOf(k)
    BY <1>2, <1>4, FirstPrepareCursor
  <2>2. /\ cursor' \in [Keys -> Cursor \cup {NoCursor}]
        /\ \A j \in Keys : GenOf(j)' = GenOf(j)
    BY <1>2, <2>1, CursorIsSet
  <2> QED BY <1>4, <2>2, CursorMoves DEF FirstPrepare
<1>5. ASSUME NEW offset \in 0..MaxOffset, SetIngestOffset(k, offset) PROVE IInv'
  <2>1. PICK c \in Cursor : cursor' = [cursor EXCEPT ![k] = c] /\ c.gen = GenOf(k)
    BY <1>2, <1>5, SetIngestOffsetCursor
  <2>2. /\ cursor' \in [Keys -> Cursor \cup {NoCursor}]
        /\ \A j \in Keys : GenOf(j)' = GenOf(j)
    BY <1>2, <2>1, CursorIsSet
  <2> QED BY <1>5, <2>2, CursorMoves DEF SetIngestOffset
<1>6. ASSUME NEW src \in Sources, NEW size \in 0..MaxOffset, NEW force \in BOOLEAN,
             RebuildForSource(k, src, size, force)
      PROVE  IInv'
  <2>1. PICK c \in Cursor : cursor' = [cursor EXCEPT ![k] = c] /\ c.gen = GenOf(k) + 1
    BY <1>2, <1>6, RebuildForSourceCursor
  <2>2. /\ cursor' \in [Keys -> Cursor \cup {NoCursor}]
        /\ \A j \in Keys : j # k => GenOf(j)' = GenOf(j)
    BY <1>2, <2>1, CursorIsSet
  <2> QED BY <1>6, <2>2, RowsDrop DEF RebuildForSource
<1>7. ASSUME NEW p \in Parsers, RebuildForParser(k, p) PROVE IInv'
  <2>1. PICK c \in Cursor : cursor' = [cursor EXCEPT ![k] = c] /\ c.gen = GenOf(k) + 1
    BY <1>2, <1>7, RebuildForParserCursor
  <2>2. /\ cursor' \in [Keys -> Cursor \cup {NoCursor}]
        /\ \A j \in Keys : j # k => GenOf(j)' = GenOf(j)
    BY <1>2, <2>1, CursorIsSet
  <2> QED BY <1>7, <2>2, RowsDrop DEF RebuildForParser
<1>8. CASE ResetIngest(k)
  <2>1. PICK c \in Cursor : cursor' = [cursor EXCEPT ![k] = c] /\ c.gen = GenOf(k) + 1
    BY <1>2, <1>8, ResetIngestCursor
  <2>2. /\ cursor' \in [Keys -> Cursor \cup {NoCursor}]
        /\ \A j \in Keys : j # k => GenOf(j)' = GenOf(j)
    BY <1>2, <2>1, CursorIsSet
  <2> QED BY <1>8, <2>2, RowsDrop DEF ResetIngest
<1>9. CASE PurgeSession(k)
  BY <1>2, <1>9, CursorIsDropped, RowsDrop DEF PurgeSession
<1> QED BY <1>1, <1>3, <1>4, <1>5, <1>6, <1>7, <1>8, <1>9

------------------------------------------------------------------------------
(* Every step of the log preserves the invariant.                          *)
LEMMA LogInductive == IInv /\ [Next]_logVars => IInv'
<1> SUFFICES ASSUME IInv, [Next]_logVars PROVE IInv'
  OBVIOUS
<1>1. CASE AppendStep
  BY <1>1, AppendStepHolds
<1>2. CASE \E w \in Writers : PreserveStep(w)
  BY <1>2, PreserveStepHolds
<1>3. CASE ResetStep
  BY <1>3, ResetStepHolds
<1>4. CASE SweepBlob
  BY <1>4, SweepBlobStep
<1>5. CASE Crash
  BY <1>5, CrashStep
<1>6. CASE Restart
  BY <1>6, RestartStep
<1>7. CASE UNCHANGED logVars
  <2>1. TypeOK'
    BY <1>7 DEF IInv, TypeOK, logVars
  <2>2. RefsFinite' /\ RenamedIsExclusive' /\ NamesAreOwned' /\ DownIsQuiet'
    BY <1>7 DEF IInv, RefsFinite, RenamedIsExclusive, NamesAreOwned, DownIsQuiet,
                HasCursor, Referenced, logVars
  <2>3. ReferencedFilesExist' /\ ReferencesBindRows'
    BY <1>7 DEF IInv, ReferencedFilesExist, ReferencesBindRows, Referenced, GenOf,
                HasCursor, logVars
  <2> QED BY <2>1, <2>2, <2>3 DEF IInv
<1> QED BY <1>1, <1>2, <1>3, <1>4, <1>5, <1>6, <1>7 DEF Next

(* The inductive invariant holds in every state of the log.                *)
THEOREM LogInvariant == Spec => []IInv
BY InitHolds, LogInductive, PTL DEF Spec

(* Tables, files and copies always hold values of their own kind, for any  *)
(* number of sessions and writers and any limits.                          *)
THEOREM LogTypeCorrect == Spec => []TypeOK
<1>1. IInv => TypeOK
  BY DEF IInv
<1> QED BY <1>1, LogInvariant, PTL

(* open_raw_at_generation never meets a committed reference without its    *)
(* file: not while a copy is renamed, not while a removed generation is    *)
(* unlinked, not after a crash between any two of these steps.             *)
THEOREM LogFilesExist == Spec => []ReferencedFilesExist
<1>1. IInv => ReferencedFilesExist
  BY DEF IInv
<1> QED BY <1>1, LogInvariant, PTL

(* A raw reference always belongs to an oversized row of the present       *)
(* generation, and every oversized row has its own: bytes of an earlier    *)
(* generation are never served for a row of the present one.               *)
THEOREM LogReferencesBind == Spec => []ReferencesBindRows
<1>1. IInv => ReferencesBindRows
  BY DEF IInv
<1> QED BY <1>1, LogInvariant, PTL

------------------------------------------------------------------------------
(* Where a file of the blob directory may be: committed, held by a copy,   *)
(* about to be unlinked, or left by an unlink that failed.  A temporary    *)
(* file has only the second and the last of these, and a copy that has     *)
(* ended holds nothing any more, although it still has its reservation.    *)
Held == {job[w].name : w \in {v \in Writers : job[v].stage \in Holding}}
FilesKnown ==
    /\ temps \cup blobs \subseteq Referenced \cup Held \cup sweep \cup leaked
    /\ temps \subseteq Held \cup leaked
    /\ temps \cap Referenced = {}
    /\ \A w \in Writers : job[w].stage = "renamed" => job[w].name \notin temps

(* Every step leaves every file where somebody knows of it.                *)
LEMMA FilesStayKnown == IInv /\ FilesKnown /\ [Next]_logVars => FilesKnown'
<1> SUFFICES ASSUME IInv, FilesKnown, [Next]_logVars PROVE FilesKnown'
  OBVIOUS
<1>1. TypeOK
  BY DEF IInv
<1>2. ASSUME UNCHANGED <<refs, temps, blobs, leaked, sweep, job>> PROVE FilesKnown'
  BY <1>2 DEF FilesKnown, Held, Referenced
<1>3. CASE AppendStep
  BY <1>2, <1>3 DEF AppendStep, AppendEvents, AppendAndAdvance, storage, memory
<1>4. ASSUME NEW w \in Writers, PreserveStep(w) PROVE FilesKnown'
  <2>1. \A v \in Writers : v # w => job'[v] = job[v]
    BY <1>1, <1>4 DEF PreserveStep, Reserve, CreateTemp, CreateFails, FinishCopy, AbandonCopy,
                      RenameTemp, LoseRace, CommitRow, CommitFails, DiscardCopy, Release, TypeOK
  <2>2. job[w].stage # "idle" => job[w] \in Job
    BY <1>1, StagesOfJobs
  <2>3. ASSUME UNCHANGED <<refs, temps, blobs, leaked, sweep>>,
               job[w].stage \notin Holding, job'[w].stage \notin Holding
        PROVE  FilesKnown'
    <3>1. Held' = Held
      BY <2>1, <2>3 DEF Held
    <3>2. \A v \in Writers : job'[v].stage = "renamed" => job'[v] = job[v]
      BY <2>1, <2>3 DEF Holding
    <3> QED BY <2>3, <3>1, <3>2 DEF FilesKnown, Referenced
  <2>4. ASSUME NEW s \in Holding \ {"renamed"}, job[w].stage \in Holding,
               job' = [job EXCEPT ![w].stage = s],
               UNCHANGED <<refs, temps, blobs, leaked, sweep>>
        PROVE  FilesKnown'
    <3>1. job'[w].stage = s /\ job'[w].name = job[w].name
      BY <1>1, <2>2, <2>4 DEF TypeOK, Job, Holding
    <3>2. Held' = Held
      BY <2>1, <2>4, <3>1 DEF Held
    <3>3. \A v \in Writers : job'[v].stage = "renamed" => job'[v] = job[v]
      BY <2>1, <3>1
    <3> QED BY <2>4, <3>2, <3>3 DEF FilesKnown, Referenced
  <2>5. ASSUME NEW k \in Keys, NEW e \in Oversized, NEW src \in Sources,
               NEW expected \in 0..MaxOffset, NEW next \in (expected + 1)..MaxOffset,
               Reserve(w, k, e, next, expected, src)
        PROVE  FilesKnown'
    <3>1. job[w].stage \notin Holding /\ job'[w].stage \notin Holding
      BY <1>1, <2>5 DEF Reserve, Idle, Holding, TypeOK
    <3> QED BY <2>3, <2>5, <3>1 DEF Reserve, database, storage
  <2>6. CASE CreateTemp(w)
    <3>1. PICK n \in Names : /\ Fresh(n) /\ temps' = temps \cup {n}
                             /\ job' = [job EXCEPT ![w].stage = "copying", ![w].name = n]
      BY <2>6 DEF CreateTemp
    <3>2. job[w].stage = "reserved" /\ job'[w].stage = "copying" /\ job'[w].name = n
      BY <1>1, <2>2, <2>6, <3>1 DEF CreateTemp, TypeOK, Job
    <3>3. Held' = Held \cup {n}
      BY <2>1, <3>2 DEF Held, Holding
    <3>4. n \notin Referenced
      BY <3>1 DEF Fresh
    <3>5. \A v \in Writers : job'[v].stage = "renamed" => job'[v].name \notin temps'
      <4> SUFFICES ASSUME NEW v \in Writers, job'[v].stage = "renamed"
                   PROVE  job'[v].name \notin temps'
        OBVIOUS
      <4>1. job'[v] = job[v] /\ job[v] # Idle
        BY <2>1, <3>2 DEF Idle
      <4>2. job[v].name # n
        BY <3>1, <4>1 DEF Fresh
      <4> QED BY <3>1, <4>1, <4>2 DEF FilesKnown
    <3>6. UNCHANGED <<blobs, leaked, sweep>> /\ Referenced' = Referenced
      BY <2>6 DEF CreateTemp, Referenced, database
    <3>7. /\ temps' \cup blobs' \subseteq Referenced' \cup Held' \cup sweep' \cup leaked'
          /\ temps' \subseteq Held' \cup leaked'
          /\ temps' \cap Referenced' = {}
      BY <3>1, <3>3, <3>4, <3>6 DEF FilesKnown
    <3> QED BY <3>5, <3>7 DEF FilesKnown
  <2>7. CASE CreateFails(w)
    <3>1. job[w].stage \notin Holding /\ job'[w].stage \notin Holding
      BY <1>1, <2>2, <2>7 DEF CreateFails, Holding, TypeOK, Job
    <3> QED BY <2>3, <2>7, <3>1 DEF CreateFails, database, storage
  <2>8. CASE FinishCopy(w) \/ AbandonCopy(w) \/ LoseRace(w) \/ CommitFails(w)
    BY <2>4, <2>8 DEF FinishCopy, AbandonCopy, LoseRace, CommitFails, Holding, database, storage
  <2>9. CASE RenameTemp(w)
    <3>1. job[w].stage = "copied" /\ job'[w].stage = "renamed" /\ job'[w].name = job[w].name
      BY <1>1, <2>2, <2>9 DEF RenameTemp, TypeOK, Job
    <3>2. Held' = Held /\ job[w].name \in Held
      BY <2>1, <3>1 DEF Held, Holding
    <3>3. \A v \in Writers : job'[v].stage = "renamed" => job'[v].name \notin temps'
      BY <2>1, <2>9, <3>1 DEF RenameTemp, FilesKnown
    <3> QED BY <2>9, <3>2, <3>3 DEF RenameTemp, FilesKnown, Referenced, database
  <2>10. CASE CommitRow(w)
    <3>1. job[w].stage = "renamed" /\ job'[w].stage = "returning"
      BY <1>1, <2>2, <2>10 DEF CommitRow, TypeOK, Job
    <3>2. Referenced' = Referenced \cup {job[w].name}
      <4> DEFINE r == [key |-> job[w].key, gen |-> GenOf(job[w].key),
                       seq |-> Len(rows[job[w].key]) + 1, name |-> job[w].name]
      <4>1. refs' = refs \cup {r}
        BY <2>10 DEF CommitRow
      <4>2. r.name = job[w].name
        OBVIOUS
      <4> HIDE DEF r
      <4> QED BY <4>1, <4>2 DEF Referenced
    <3>3. Held \subseteq Held' \cup {job[w].name}
      BY <2>1 DEF Held
    <3>4. job[w].name \notin temps
      BY <3>1 DEF FilesKnown
    <3>5. temps \subseteq Held' \cup leaked
      BY <3>3, <3>4 DEF FilesKnown
    <3>6. \A v \in Writers : job'[v].stage = "renamed" => job'[v].name \notin temps
      BY <2>1, <3>1 DEF FilesKnown
    <3> QED BY <2>10, <3>2, <3>3, <3>4, <3>5, <3>6 DEF CommitRow, FilesKnown, storage
  <2>11. CASE DiscardCopy(w)
    <3>1. job[w].stage = "discarding" /\ job'[w].stage = "returning"
      BY <1>1, <2>2, <2>11 DEF DiscardCopy, TypeOK, Job
    <3>2. Held \subseteq Held' \cup {job[w].name}
      BY <2>1 DEF Held
    <3>3. \A v \in Writers : job'[v].stage = "renamed" => job'[v] = job[v]
      BY <2>1, <3>1
    <3>4. CASE temps' = temps \ {job[w].name} /\ blobs' = blobs \ {job[w].name} /\ leaked' = leaked
      BY <2>11, <3>2, <3>3, <3>4 DEF DiscardCopy, FilesKnown, Referenced, database
    <3>5. CASE leaked' = leaked \cup {job[w].name} /\ temps' = temps /\ blobs' = blobs
      BY <2>11, <3>2, <3>3, <3>5 DEF DiscardCopy, FilesKnown, Referenced, database
    <3> QED BY <2>11, <3>4, <3>5 DEF DiscardCopy
  <2>12. CASE Release(w)
    <3>1. job[w].stage \notin Holding /\ job'[w].stage \notin Holding
      BY <1>1, <2>12 DEF Release, Holding, TypeOK, Idle
    <3> QED BY <2>3, <2>12, <3>1 DEF Release, database, storage
  <2> QED BY <1>4, <2>5, <2>6, <2>7, <2>8, <2>9, <2>10, <2>11, <2>12 DEF PreserveStep
<1>5. CASE ResetStep
  <2>1. PICK k \in Keys :
          (DropRows(k) /\ LockFree) \/ UNCHANGED <<refs, temps, blobs, leaked, sweep, job>>
    BY <1>5 DEF ResetStep, BindSource, RebuildForSource, FirstPrepare, RebuildForParser,
                ResetIngest, SetIngestOffset, PurgeSession, storage, memory
  <2>2. CASE DropRows(k) /\ LockFree
    <3>1. /\ Referenced \subseteq Referenced' \cup sweep' /\ Referenced' \subseteq Referenced
          /\ sweep = {}
      BY <2>2 DEF DropRows, LockFree, Referenced, BlobNames, RefsOf
    <3> QED BY <2>2, <3>1 DEF DropRows, FilesKnown, Held, storage
  <2> QED BY <1>2, <2>1, <2>2
<1>6. CASE SweepBlob
  BY <1>6 DEF SweepBlob, FilesKnown, Held, Referenced, database
<1>7. CASE Crash
  <2>1. \A w \in Writers : job'[w] = Idle
    BY <1>7 DEF Crash
  <2> QED BY <1>7, <2>1 DEF Crash, FilesKnown, Referenced, Held, Idle, database
<1>8. CASE Restart
  BY <1>8 DEF Restart, FilesKnown, Referenced, Held, Holding, IInv, DownIsQuiet, Idle
<1>9. CASE UNCHANGED logVars
  BY <1>2, <1>9 DEF logVars
<1> QED BY <1>3, <1>4, <1>5, <1>6, <1>7, <1>8, <1>9 DEF Next

(* The blob directory holds no file that nobody knows of, whatever copies, *)
(* resets, failed unlinks and crashes meet.                                *)
THEOREM LogForgetsNoFile == Spec => []NoForgottenFile
<1>1. Init => FilesKnown
  BY DEF Init, FilesKnown, Idle
<1>2. FilesKnown => NoForgottenFile
  BY DEF FilesKnown, NoForgottenFile, Held, OwnedByJobs, Holding, Idle
<1> QED BY <1>1, <1>2, FilesStayKnown, LogInvariant, PTL DEF Spec

------------------------------------------------------------------------------
(* Sums over a finite set: MapThenSumSet takes the elements away one by    *)
(* one, in an order of its own.                                            *)
Chosen(s) == CHOOSE x \in s : TRUE
SumOver(f, S) ==
    CHOOSE sum : sum = [s \in SUBSET S |->
        IF s = {} THEN 0 ELSE f[Chosen(s)] + sum[s \ {Chosen(s)}]]
Total(f, S) == SumOver(f, S)[S]

(* A sum over a set is the sum of a function on it.                       *)
LEMMA TotalIsSum == \A f, S : MapThenSumSet(LAMBDA k : f[k], S) = Total(f, S)
BY DEF MapThenSumSet, MapThenFoldSet, Total, SumOver, Chosen

(* A set of subsets of a finite set has a smallest element.                *)
LEMMA SmallestSubset ==
    ASSUME NEW S, IsFiniteSet(S), NEW B \in SUBSET (SUBSET S), B # {}
    PROVE  \E s \in B : \A t \in SUBSET s : t # s => t \notin B
<1> DEFINE R == StrictSubsetOrdering(S)
<1>1. IsWellFoundedOn(R, FiniteSubsetsOf(S)) /\ FiniteSubsetsOf(S) = SUBSET S
  BY FS_StrictSubsetOrderingWellFounded, FS_FiniteSubsetsOfFinite
<1>2. \A s, t \in SUBSET S : t \subseteq s /\ t # s => <<t, s>> \in R
  BY DEF StrictSubsetOrdering
<1> HIDE DEF R
<1>3. PICK s \in B : \A t \in B : ~ (<<t, s>> \in R)
  BY <1>1, WFMin
<1>4. ASSUME NEW t \in SUBSET s, t # s PROVE t \notin B
  <2>1. s \in SUBSET S /\ t \in SUBSET S
    BY <1>3
  <2>2. <<t, s>> \in R
    BY <1>2, <1>4, <2>1
  <2> QED BY <1>3, <2>2
<1> QED BY <1>3, <1>4

(* A set of naturals has a least element.                                  *)
LEMMA LeastNat ==
    ASSUME NEW T \in SUBSET Nat, T # {}
    PROVE  \E x \in T : \A y \in T : x <= y
<1> DEFINE R == OpToRel(<, Nat)
<1>1. IsWellFoundedOn(R, Nat)
  BY NatLessThanWellFounded
<1>2. \A x, y \in Nat : <<y, x>> \in R <=> y < x
  BY DEF OpToRel
<1> HIDE DEF R
<1>3. PICK x \in T : \A y \in T : ~ (<<y, x>> \in R)
  BY <1>1, WFMin
<1>4. ASSUME NEW y \in T PROVE x <= y
  <2>1. x \in Nat /\ y \in Nat /\ ~ (<<y, x>> \in R)
    BY <1>3
  <2>2. ~ (y < x)
    BY <1>2, <2>1
  <2> QED BY <2>1, <2>2
<1> QED BY <1>4

(* There is a sum of every subset.                                         *)
LEMMA SumsExist ==
    ASSUME NEW S, IsFiniteSet(S), NEW f
    PROVE  SumOver(f, S) = [s \in SUBSET S |->
               IF s = {} THEN 0 ELSE f[Chosen(s)] + SumOver(f, S)[s \ {Chosen(s)}]]
<1> DEFINE Small(n) == {s \in SUBSET S : Cardinality(s) <= n}
           Sums(g, n) == g = [s \in Small(n) |->
               IF s = {} THEN 0 ELSE f[Chosen(s)] + g[s \ {Chosen(s)}]]
           Bad == {n \in Nat : ~ \E g : Sums(g, n)}
<1>1. \A s \in SUBSET S :
        /\ Cardinality(s) \in Nat
        /\ Cardinality(s) = 0 => s = {}
        /\ s # {} => /\ Chosen(s) \in s /\ s \ {Chosen(s)} \in SUBSET S
                     /\ Cardinality(s \ {Chosen(s)}) = Cardinality(s) - 1
  <2> TAKE s \in SUBSET S
  <2>1. IsFiniteSet(s)
    BY FS_Subset
  <2>2. s # {} => Chosen(s) \in s
    BY DEF Chosen
  <2> QED BY <2>1, <2>2, FS_CardinalityType, FS_EmptySet, FS_RemoveElement
<1>2. Bad = {}
  <2> SUFFICES ASSUME Bad # {} PROVE FALSE
    OBVIOUS
  <2>1. PICK m \in Bad : \A n \in Bad : m <= n
    <3>1. Bad \in SUBSET Nat
      OBVIOUS
    <3> HIDE DEF Bad
    <3> QED BY <3>1, LeastNat
  <2>2. CASE m = 0
    <3> DEFINE g == [s \in Small(0) |-> 0]
    <3>1. \A s \in Small(0) : s = {}
      <4> TAKE s \in Small(0)
      <4>1. s \in SUBSET S /\ Cardinality(s) <= 0
        OBVIOUS
      <4>3. Cardinality(s) \in Nat
        BY <1>1, <4>1
      <4>2. Cardinality(s) = 0
        BY <4>1, <4>3
      <4> QED BY <1>1, <4>1, <4>2
    <3>2. Sums(g, 0)
      BY <3>1
    <3> QED BY <2>1, <2>2, <3>2
  <2>3. CASE m # 0
    <3>1. m - 1 \in Nat /\ m - 1 \notin Bad
      <4>1. m \in Nat /\ m - 1 \in Nat /\ ~ (m <= m - 1)
        BY <2>1, <2>3
      <4> HIDE DEF Bad
      <4> QED BY <2>1, <4>1
    <3>2. PICK h : Sums(h, m - 1)
      BY <3>1
    <3> DEFINE g == [s \in Small(m) |->
                       IF s = {} THEN 0 ELSE f[Chosen(s)] + h[s \ {Chosen(s)}]]
    <3>3. \A s \in Small(m) : s # {} => s \ {Chosen(s)} \in Small(m - 1)
      BY <1>1, <2>1
    <3>4. \A s \in Small(m - 1) : s \in Small(m) /\ g[s] = h[s]
      <4> TAKE s \in Small(m - 1)
      <4>1. s \in Small(m)
        <5>1. s \in SUBSET S /\ Cardinality(s) <= m - 1
          OBVIOUS
        <5>2. Cardinality(s) \in Nat /\ m \in Nat
          BY <1>1, <2>1, <5>1
        <5>3. Cardinality(s) <= m
          BY <5>1, <5>2
        <5> QED BY <5>1, <5>3
      <4>2. h[s] = IF s = {} THEN 0 ELSE f[Chosen(s)] + h[s \ {Chosen(s)}]
        BY <3>2
      <4> QED BY <4>1, <4>2
    <3>5. \A s \in Small(m) : g[s] = IF s = {} THEN 0 ELSE f[Chosen(s)] + g[s \ {Chosen(s)}]
      <4> TAKE s \in Small(m)
      <4>1. g[s] = IF s = {} THEN 0 ELSE f[Chosen(s)] + h[s \ {Chosen(s)}]
        OBVIOUS
      <4>2. s # {} => g[s \ {Chosen(s)}] = h[s \ {Chosen(s)}]
        BY <3>3, <3>4
      <4> HIDE DEF g
      <4> QED BY <4>1, <4>2
    <3>6. g = [s \in Small(m) |-> g[s]]
      OBVIOUS
    <3>7. Sums(g, m)
      <4> HIDE DEF g
      <4> QED BY <3>5, <3>6
    <3> QED BY <2>1, <3>7
  <2> QED BY <2>2, <2>3
<1>3. PICK g : Sums(g, Cardinality(S))
  <2>1. Cardinality(S) \in Nat
    BY <1>1
  <2> QED BY <1>2, <2>1
<1>4. Small(Cardinality(S)) = SUBSET S
  BY FS_Subset
<1>5. g = [s \in SUBSET S |-> IF s = {} THEN 0 ELSE f[Chosen(s)] + g[s \ {Chosen(s)}]]
  BY <1>3, <1>4
<1> HIDE DEF Small, Sums, Bad
<1> QED BY <1>5 DEF SumOver

(* What the sums of the subsets are, and that they are numbers.            *)
LEMMA SumsAreIntegers ==
    ASSUME NEW S, IsFiniteSet(S), NEW f \in [S -> Int]
    PROVE  \A s \in SUBSET S :
             /\ SumOver(f, S)[s] \in Int
             /\ s = {} => SumOver(f, S)[s] = 0
             /\ s # {} => /\ Chosen(s) \in s
                          /\ SumOver(f, S)[s] = f[Chosen(s)] + SumOver(f, S)[s \ {Chosen(s)}]
<1> DEFINE sum == SumOver(f, S)
           Bad == {s \in SUBSET S : sum[s] \notin Int}
<1>1. \A s \in SUBSET S :
        /\ s = {} => sum[s] = 0
        /\ s # {} => /\ Chosen(s) \in s
                     /\ sum[s] = f[Chosen(s)] + sum[s \ {Chosen(s)}]
  <2> TAKE s \in SUBSET S
  <2>1. sum = [r \in SUBSET S |-> IF r = {} THEN 0 ELSE f[Chosen(r)] + sum[r \ {Chosen(r)}]]
    BY SumsExist
  <2>2. s # {} => Chosen(s) \in s
    BY DEF Chosen
  <2> HIDE DEF sum
  <2> QED BY <2>1, <2>2
<1> HIDE DEF sum
<1>2. Bad = {}
  <2> SUFFICES ASSUME Bad # {} PROVE FALSE
    OBVIOUS
  <2>1. Bad \in SUBSET (SUBSET S)
    OBVIOUS
  <2>2. PICK s \in Bad : \A t \in SUBSET s : t # s => t \notin Bad
    <3> HIDE DEF Bad
    <3> QED BY <2>1, SmallestSubset
  <2>3. s # {}
    <3>1. s \in SUBSET S /\ sum[s] \notin Int
      BY <2>2
    <3>2. s = {} => sum[s] = 0
      BY <1>1, <3>1
    <3> QED BY <3>1, <3>2
  <2>6. Chosen(s) \in s
    BY <1>1, <2>2, <2>3
  <2>4. sum[s \ {Chosen(s)}] \in Int
    <3>1. s \ {Chosen(s)} \in SUBSET s /\ s \ {Chosen(s)} # s
      BY <2>6
    <3>2. s \ {Chosen(s)} \notin Bad
      <4> HIDE DEF Bad
      <4> QED BY <2>2, <3>1
    <3> QED BY <2>2, <3>1, <3>2
  <2>5. f[Chosen(s)] \in Int
    BY <2>2, <2>6
  <2>7. s \in SUBSET S /\ sum[s] \notin Int
    BY <2>2
  <2>8. sum[s] = f[Chosen(s)] + sum[s \ {Chosen(s)}]
    BY <1>1, <2>3, <2>7
  <2> QED BY <2>4, <2>5, <2>7, <2>8
<1> QED BY <1>1, <1>2 DEF sum

(* Whichever element is taken away first, the sum is the same.             *)
LEMMA SumTakes ==
    ASSUME NEW S, IsFiniteSet(S), NEW f \in [S -> Int],
           NEW s \in SUBSET S, NEW x \in s
    PROVE  SumOver(f, S)[s] = f[x] + SumOver(f, S)[s \ {x}]
<1> DEFINE sum == SumOver(f, S)
           Bad == {r \in SUBSET S : \E y \in r : sum[r] # f[y] + sum[r \ {y}]}
<1>1. \A r \in SUBSET S :
        /\ sum[r] \in Int
        /\ r # {} => /\ Chosen(r) \in r
                     /\ sum[r] = f[Chosen(r)] + sum[r \ {Chosen(r)}]
  <2>1. \A r \in SUBSET S :
          /\ sum[r] \in Int
          /\ r = {} => sum[r] = 0
          /\ r # {} => /\ Chosen(r) \in r
                       /\ sum[r] = f[Chosen(r)] + sum[r \ {Chosen(r)}]
    BY SumsAreIntegers
  <2> HIDE DEF sum
  <2> QED BY <2>1
<1> HIDE DEF sum
<1>2. Bad = {}
  <2> SUFFICES ASSUME Bad # {} PROVE FALSE
    OBVIOUS
  <2>1. Bad \in SUBSET (SUBSET S)
    OBVIOUS
  <2>2. PICK r \in Bad : \A t \in SUBSET r : t # r => t \notin Bad
    <3> HIDE DEF Bad
    <3> QED BY <2>1, SmallestSubset
  <2>3. PICK y \in r : sum[r] # f[y] + sum[r \ {y}]
    BY <2>2
  <2>4. r \in SUBSET S /\ r # {}
    BY <2>2, <2>3
  <2> DEFINE c == Chosen(r)
  <2>5. c \in r /\ sum[r] = f[c] + sum[r \ {c}]
    BY <1>1, <2>4
  <2> HIDE DEF c
  <2>6. c # y
    BY <2>3, <2>5
  <2>7. r \ {c} \notin Bad /\ r \ {y} \notin Bad
    <3>1. r \ {c} \in SUBSET r /\ r \ {c} # r /\ r \ {y} \in SUBSET r /\ r \ {y} # r
      BY <2>3, <2>5
    <3> HIDE DEF Bad
    <3> QED BY <2>2, <3>1
  <2>8. sum[r \ {c}] = f[y] + sum[(r \ {c}) \ {y}]
    <3>1. r \ {c} \in SUBSET S /\ y \in r \ {c}
      BY <2>3, <2>4, <2>6
    <3> QED BY <2>7, <3>1
  <2>9. sum[r \ {y}] = f[c] + sum[(r \ {y}) \ {c}]
    <3>1. r \ {y} \in SUBSET S /\ c \in r \ {y}
      BY <2>4, <2>5, <2>6
    <3> QED BY <2>7, <3>1
  <2>10. (r \ {y}) \ {c} = (r \ {c}) \ {y} /\ (r \ {c}) \ {y} \in SUBSET S
    BY <2>4
  <2>11. f[c] \in Int /\ f[y] \in Int /\ sum[(r \ {c}) \ {y}] \in Int
    BY <1>1, <2>3, <2>4, <2>5, <2>10
  <2>12. sum[r] = f[c] + (f[y] + sum[(r \ {c}) \ {y}])
    BY <2>5, <2>8
  <2>13. sum[r \ {y}] = f[c] + sum[(r \ {c}) \ {y}]
    BY <2>9, <2>10
  <2> QED BY <2>3, <2>11, <2>12, <2>13
<1>3. sum[s] = f[x] + sum[s \ {x}]
  BY <1>2
<1> QED BY <1>3 DEF sum

(* Functions that agree on a set have the same sum there.                  *)
LEMMA SumsAgree ==
    ASSUME NEW S, IsFiniteSet(S), NEW f \in [S -> Int], NEW g \in [S -> Int],
           NEW s \in SUBSET S, \A x \in s : f[x] = g[x]
    PROVE  SumOver(f, S)[s] = SumOver(g, S)[s]
<1> DEFINE a == SumOver(f, S)
           b == SumOver(g, S)
           Bad == {r \in SUBSET S : r \subseteq s /\ a[r] # b[r]}
<1>1. \A r \in SUBSET S :
        /\ r = {} => a[r] = 0 /\ b[r] = 0
        /\ r # {} => /\ Chosen(r) \in r
                     /\ a[r] = f[Chosen(r)] + a[r \ {Chosen(r)}]
                     /\ b[r] = g[Chosen(r)] + b[r \ {Chosen(r)}]
  BY SumsAreIntegers
<1> HIDE DEF a, b
<1>2. Bad = {}
  <2> SUFFICES ASSUME Bad # {} PROVE FALSE
    OBVIOUS
  <2>1. Bad \in SUBSET (SUBSET S)
    OBVIOUS
  <2>2. PICK r \in Bad : \A t \in SUBSET r : t # r => t \notin Bad
    <3> HIDE DEF Bad
    <3> QED BY <2>1, SmallestSubset
  <2>3. r \in SUBSET S /\ r \subseteq s /\ a[r] # b[r]
    BY <2>2
  <2>4. r # {}
    <3>1. r = {} => a[r] = 0 /\ b[r] = 0
      BY <1>1, <2>3
    <3> QED BY <2>3, <3>1
  <2> DEFINE c == Chosen(r)
  <2>5. c \in r /\ a[r] = f[c] + a[r \ {c}] /\ b[r] = g[c] + b[r \ {c}]
    BY <1>1, <2>3, <2>4
  <2> HIDE DEF c
  <2>6. r \ {c} \notin Bad
    <3>1. r \ {c} \in SUBSET r /\ r \ {c} # r
      BY <2>5
    <3> HIDE DEF Bad
    <3> QED BY <2>2, <3>1
  <2>7. a[r \ {c}] = b[r \ {c}]
    <3>1. r \ {c} \in SUBSET S /\ r \ {c} \subseteq s
      BY <2>3
    <3> QED BY <2>6, <3>1
  <2>8. f[c] = g[c]
    BY <2>3, <2>5
  <2> QED BY <2>3, <2>5, <2>7, <2>8
<1>3. a[s] = b[s]
  BY <1>2
<1> QED BY <1>3 DEF a, b

(* The sum of integers is one.                                             *)
LEMMA TotalIsInteger ==
    ASSUME NEW S, IsFiniteSet(S), NEW f \in [S -> Int] PROVE Total(f, S) \in Int
BY SumsAreIntegers DEF Total

(* The sum moves with one of its parts.                                    *)
LEMMA TotalMoves ==
    ASSUME NEW S, IsFiniteSet(S), NEW f \in [S -> Int], NEW g \in [S -> Int], NEW x \in S,
           \A y \in S : y # x => g[y] = f[y]
    PROVE  /\ Total(f, S) \in Int /\ Total(g, S) \in Int
           /\ Total(g, S) = Total(f, S) + (g[x] - f[x])
<1>1. SumOver(f, S)[S \ {x}] = SumOver(g, S)[S \ {x}]
  BY SumsAgree
<1>2. /\ SumOver(f, S)[S] = f[x] + SumOver(f, S)[S \ {x}]
      /\ SumOver(g, S)[S] = g[x] + SumOver(g, S)[S \ {x}]
  BY SumTakes
<1>3. SumOver(f, S)[S \ {x}] \in Int /\ f[x] \in Int /\ g[x] \in Int
  BY SumsAreIntegers
<1> QED BY <1>1, <1>2, <1>3 DEF Total

(* The sum of the sums is the sum of both, and a sum of smaller parts is   *)
(* not greater.                                                            *)
LEMMA TotalAdds ==
    ASSUME NEW S, IsFiniteSet(S), NEW f \in [S -> Int], NEW g \in [S -> Int],
           NEW h \in [S -> Int], \A x \in S : h[x] <= f[x] + g[x]
    PROVE  Total(h, S) <= Total(f, S) + Total(g, S)
<1> DEFINE a == SumOver(f, S)
           b == SumOver(g, S)
           d == SumOver(h, S)
           Bad == {r \in SUBSET S : ~ (d[r] <= a[r] + b[r])}
<1>1. \A r \in SUBSET S :
        /\ a[r] \in Int /\ b[r] \in Int /\ d[r] \in Int
        /\ r = {} => a[r] = 0 /\ b[r] = 0 /\ d[r] = 0
        /\ r # {} => /\ Chosen(r) \in r
                     /\ a[r] = f[Chosen(r)] + a[r \ {Chosen(r)}]
                     /\ b[r] = g[Chosen(r)] + b[r \ {Chosen(r)}]
                     /\ d[r] = h[Chosen(r)] + d[r \ {Chosen(r)}]
  <2>1. \A r \in SUBSET S :
          /\ a[r] \in Int
          /\ r = {} => a[r] = 0
          /\ r # {} => Chosen(r) \in r /\ a[r] = f[Chosen(r)] + a[r \ {Chosen(r)}]
    BY SumsAreIntegers
  <2>2. \A r \in SUBSET S :
          /\ b[r] \in Int
          /\ r = {} => b[r] = 0
          /\ r # {} => Chosen(r) \in r /\ b[r] = g[Chosen(r)] + b[r \ {Chosen(r)}]
    BY SumsAreIntegers
  <2>3. \A r \in SUBSET S :
          /\ d[r] \in Int
          /\ r = {} => d[r] = 0
          /\ r # {} => Chosen(r) \in r /\ d[r] = h[Chosen(r)] + d[r \ {Chosen(r)}]
    BY SumsAreIntegers
  <2> HIDE DEF a, b, d
  <2> QED BY <2>1, <2>2, <2>3
<1> HIDE DEF a, b, d
<1>2. Bad = {}
  <2> SUFFICES ASSUME Bad # {} PROVE FALSE
    OBVIOUS
  <2>1. Bad \in SUBSET (SUBSET S)
    OBVIOUS
  <2>2. PICK r \in Bad : \A t \in SUBSET r : t # r => t \notin Bad
    <3> HIDE DEF Bad
    <3> QED BY <2>1, SmallestSubset
  <2>3. r \in SUBSET S /\ ~ (d[r] <= a[r] + b[r])
    BY <2>2
  <2>4. r # {}
    <3>1. r = {} => a[r] = 0 /\ b[r] = 0 /\ d[r] = 0
      BY <1>1, <2>3
    <3> QED BY <2>3, <3>1
  <2> DEFINE c == Chosen(r)
  <2>5. /\ c \in r
        /\ a[r] = f[c] + a[r \ {c}] /\ b[r] = g[c] + b[r \ {c}] /\ d[r] = h[c] + d[r \ {c}]
    BY <1>1, <2>3, <2>4
  <2> HIDE DEF c
  <2>6. r \ {c} \notin Bad
    <3>1. r \ {c} \in SUBSET r /\ r \ {c} # r
      BY <2>5
    <3> HIDE DEF Bad
    <3> QED BY <2>2, <3>1
  <2>7. r \ {c} \in SUBSET S /\ c \in S
    BY <2>3, <2>5
  <2>8. d[r \ {c}] <= a[r \ {c}] + b[r \ {c}]
    BY <2>6, <2>7
  <2>9. f[c] \in Int /\ g[c] \in Int /\ h[c] \in Int /\ h[c] <= f[c] + g[c]
    BY <2>7
  <2>10. a[r \ {c}] \in Int /\ b[r \ {c}] \in Int /\ d[r \ {c}] \in Int
    BY <1>1, <2>7
  <2>11. d[r] <= a[r] + b[r]
    BY <2>5, <2>8, <2>9, <2>10
  <2> QED BY <2>3, <2>11
<1>3. d[S] <= a[S] + b[S]
  BY <1>2
<1> QED BY <1>3 DEF a, b, d, Total

(* The sum of nothing is nothing.                                          *)
LEMMA TotalOfZeros ==
    ASSUME NEW S, IsFiniteSet(S)
    PROVE  Total([x \in S |-> 0], S) = 0
<1> DEFINE z == [x \in S |-> 0]
           a == SumOver(z, S)
           Bad == {r \in SUBSET S : a[r] # 0}
<1>1. z \in [S -> Int] /\ \A x \in S : z[x] = 0
  OBVIOUS
<1> HIDE DEF z
<1>2. \A r \in SUBSET S :
        /\ r = {} => a[r] = 0
        /\ r # {} => Chosen(r) \in r /\ a[r] = z[Chosen(r)] + a[r \ {Chosen(r)}]
  BY <1>1, SumsAreIntegers, ZenonT(30)
<1> HIDE DEF a
<1>3. Bad = {}
  <2> SUFFICES ASSUME Bad # {} PROVE FALSE
    OBVIOUS
  <2>1. Bad \in SUBSET (SUBSET S)
    OBVIOUS
  <2>2. PICK r \in Bad : \A t \in SUBSET r : t # r => t \notin Bad
    <3> HIDE DEF Bad
    <3> QED BY <2>1, SmallestSubset
  <2>3. r \in SUBSET S /\ a[r] # 0
    BY <2>2
  <2>4. r # {}
    <3>1. r = {} => a[r] = 0
      BY <1>2, <2>3
    <3> QED BY <2>3, <3>1
  <2>5. Chosen(r) \in r /\ a[r] = z[Chosen(r)] + a[r \ {Chosen(r)}]
    BY <1>2, <2>3, <2>4
  <2>6. r \ {Chosen(r)} \notin Bad
    <3>1. r \ {Chosen(r)} \in SUBSET r /\ r \ {Chosen(r)} # r
      BY <2>5
    <3> HIDE DEF Bad
    <3> QED BY <2>2, <3>1
  <2>7. a[r \ {Chosen(r)}] = 0 /\ z[Chosen(r)] = 0
    BY <1>1, <2>3, <2>5, <2>6
  <2> QED BY <2>3, <2>5, <2>7
<1>4. a[S] = 0
  BY <1>3
<1> QED BY <1>4 DEF a, z, Total

------------------------------------------------------------------------------
(* The ledger: a reservation for every copy that has not returned, and the *)
(* copies that have yet to commit within the limits together with rows.    *)
Copiers == {w \in Writers : job[w] # Idle}

(* The sums of both are sums of functions.                                 *)
Exact == /\ \A k \in Keys : usage[k] = UsageOfRows(k)
         /\ \A k \in Keys : reserved[k] = ReservationCost * Cardinality(Reserving(k))
         /\ reservedTotal = Total(reserved, Keys)
Within == (\A k \in Keys : Charges[k] <= MaxSession) /\ Total(Charges, Keys) <= MaxTotal
LedgerInv == IsFiniteSet(Copiers) /\ Exact /\ Within

(* The invariant implies both properties.                                  *)
LEMMA LedgerSums ==
    /\ LedgerInv => LedgerExact /\ WithinLimits
    /\ TotalUsage = Total(usage, Keys)
BY DEF LedgerInv, LedgerExact, WithinLimits, TotalUsage, Exact, Within,
       Total, SumOver, Chosen, MapThenSumSet, MapThenFoldSet

(* The costs and limits are naturals.                                      *)
LEMMA CostIsNat ==
    /\ ReservationCost \in Nat /\ RawCost \in Nat
    /\ IsFiniteSet(Keys) /\ MaxSession \in Nat /\ MaxTotal \in Nat
    /\ ReservationCost = 1 + RawCost
BY LogAssumption DEF LogAssumption, ReservationCost

(* A cost is paid once more, or once less.                                 *)
LEMMA Multiples ==
    ASSUME NEW c \in Nat, NEW m \in Int, NEW n \in Int
    PROVE  /\ c * n \in Int
           /\ c * (n + 1) = c * n + c /\ c * (n - 1) = c * n - c
           /\ m <= n => c * m <= c * n
           /\ c * 0 = 0 /\ c * 1 = c
OBVIOUS

(* The copies of a session are counted.                                    *)
LEMMA CopiesAreCounted ==
    ASSUME IsFiniteSet(Copiers), NEW k \in Keys
    PROVE  /\ IsFiniteSet(Reserving(k)) /\ Cardinality(Reserving(k)) \in Nat
           /\ IsFiniteSet(Outstanding(k)) /\ Cardinality(Outstanding(k)) \in Nat
           /\ Cardinality(Outstanding(k)) <= Cardinality(Reserving(k))
<1>1. Reserving(k) \in SUBSET Copiers /\ Outstanding(k) \in SUBSET Reserving(k)
  BY DEF Reserving, Outstanding, Copiers
<1> QED BY <1>1, FS_Subset, FS_CardinalityType

(* What a session is charged is a number.                                  *)
LEMMA ChargesAreNumbers ==
    TypeOK /\ RefsFinite /\ IsFiniteSet(Copiers) => Charges \in [Keys -> Int]
<1> SUFFICES ASSUME TypeOK, RefsFinite, IsFiniteSet(Copiers) PROVE Charges \in [Keys -> Int]
  OBVIOUS
<1>1. ASSUME NEW k \in Keys
      PROVE  UsageOfRows(k) + ReservationCost * Cardinality(Outstanding(k)) \in Int
  <2>1. UsageOfRows(k) \in Nat
    BY UsageIsNat
  <2>2. ReservationCost * Cardinality(Outstanding(k)) \in Int
    BY CopiesAreCounted, CostIsNat, Multiples
  <2> QED BY <2>1, <2>2
<1> QED BY <1>1 DEF Charges

(* It is not more than what its ledger and its reservations say.           *)
LEMMA ChargesAreCovered ==
    ASSUME TypeOK, RefsFinite, IsFiniteSet(Copiers), Exact
    PROVE  /\ Charges \in [Keys -> Int] /\ usage \in [Keys -> Int] /\ reserved \in [Keys -> Int]
           /\ \A k \in Keys : Charges[k] <= usage[k] + reserved[k]
<1>1. ASSUME NEW k \in Keys PROVE Charges[k] \in Int /\ Charges[k] <= usage[k] + reserved[k]
  <2>1. UsageOfRows(k) \in Nat
    BY UsageIsNat
  <2>2. /\ ReservationCost * Cardinality(Outstanding(k)) \in Int
        /\ ReservationCost * Cardinality(Reserving(k)) \in Int
        /\ ReservationCost * Cardinality(Outstanding(k))
             <= ReservationCost * Cardinality(Reserving(k))
    BY CopiesAreCounted, CostIsNat, Multiples
  <2>3. Charges[k] = UsageOfRows(k) + ReservationCost * Cardinality(Outstanding(k))
    BY DEF Charges
  <2>4. usage[k] = UsageOfRows(k) /\ reserved[k] = ReservationCost * Cardinality(Reserving(k))
    BY DEF Exact
  <2> QED BY <2>1, <2>2, <2>3, <2>4
<1>2. Charges \in [Keys -> Int]
  BY ChargesAreNumbers
<1> QED BY <1>1, <1>2 DEF TypeOK

(* Limits that held go on to hold where no charge grows.                   *)
LEMMA ChargesFall ==
    ASSUME Within, Charges \in [Keys -> Int], Charges' \in [Keys -> Int],
           \A k \in Keys : Charges'[k] <= Charges[k]
    PROVE  Within'
<1>1. IsFiniteSet(Keys) /\ MaxSession \in Nat /\ MaxTotal \in Nat
  BY CostIsNat
<1>2. \A k \in Keys : Charges'[k] <= MaxSession
  BY <1>1 DEF Within
<1> DEFINE z == [k \in Keys |-> 0]
<1>3. z \in [Keys -> Int] /\ \A k \in Keys : z[k] = 0
  OBVIOUS
<1>4. Total(z, Keys) = 0
  BY <1>1, TotalOfZeros
<1> HIDE DEF z
<1>5. \A k \in Keys : Charges'[k] <= Charges[k] + z[k]
  BY <1>3
<1>6. Total(Charges', Keys) <= Total(Charges, Keys) + Total(z, Keys)
  BY <1>1, <1>3, <1>5, TotalAdds
<1>7. Total(Charges, Keys) \in Int /\ Total(Charges', Keys) \in Int
  BY <1>1, TotalIsInteger
<1>8. Total(Charges, Keys) <= MaxTotal
  BY DEF Within
<1>9. Total(Charges', Keys) <= MaxTotal
  BY <1>1, <1>4, <1>6, <1>7, <1>8
<1> QED BY <1>2, <1>9 DEF Within

(* A charge that passed the check stays within the limits, whatever the    *)
(* reservations of the other writers are.                                  *)
LEMMA ChargesFit ==
    ASSUME TypeOK, RefsFinite, LedgerInv, NEW k \in Keys, NEW n \in Nat, Fits(k, n),
           Charges' \in [Keys -> Int], Charges'[k] = Charges[k] + n,
           \A j \in Keys : j # k => Charges'[j] = Charges[j]
    PROVE  Within'
<1>1. IsFiniteSet(Keys) /\ MaxSession \in Nat /\ MaxTotal \in Nat
  BY CostIsNat
<1>2. /\ Charges \in [Keys -> Int] /\ usage \in [Keys -> Int] /\ reserved \in [Keys -> Int]
      /\ \A j \in Keys : Charges[j] <= usage[j] + reserved[j]
  BY ChargesAreCovered DEF LedgerInv
<1>3. \A j \in Keys : Charges'[j] <= MaxSession
  <2>1. Charges'[k] <= MaxSession
    BY <1>1, <1>2 DEF Fits
  <2> QED BY <1>2, <2>1 DEF LedgerInv, Within
<1>4. Total(Charges, Keys) <= Total(usage, Keys) + Total(reserved, Keys)
  BY <1>1, <1>2, TotalAdds
<1>5. Total(Charges', Keys) = Total(Charges, Keys) + n
  <2>1. Total(Charges', Keys) = Total(Charges, Keys) + (Charges'[k] - Charges[k])
    BY <1>1, <1>2, TotalMoves
  <2>2. Charges'[k] - Charges[k] = n
    BY <1>2
  <2> QED BY <2>1, <2>2
<1>6. /\ Total(Charges, Keys) \in Int /\ Total(usage, Keys) \in Int
      /\ Total(reserved, Keys) \in Int
  BY <1>1, <1>2, TotalIsInteger
<1>7. TotalUsage = Total(usage, Keys) /\ reservedTotal = Total(reserved, Keys)
  BY LedgerSums DEF LedgerInv, Exact
<1>8. Total(usage, Keys) + Total(reserved, Keys) + n <= MaxTotal
  BY <1>7 DEF Fits
<1>9. Total(Charges', Keys) <= MaxTotal
  BY <1>1, <1>4, <1>5, <1>6, <1>8
<1> QED BY <1>3, <1>9 DEF Within

(* What the ledger is about, in parts.                                     *)
Cost(n) == ReservationCost * n
LEMMA ChargeOf == \A k \in Keys : Charges[k] = UsageOfRows(k) + Cost(Cardinality(Outstanding(k)))
BY DEF Charges, Cost

(* Nobody starts, ends or goes on with a copy.                             *)
LEMMA CopiesStay ==
    ASSUME job' = job
    PROVE  /\ Copiers' = Copiers
           /\ \A k \in Keys : Reserving(k)' = Reserving(k) /\ Outstanding(k)' = Outstanding(k)
BY DEF Copiers, Reserving, Outstanding

(* A step that keeps copies, rows, references and ledger.                  *)
LEMMA LedgerRests ==
    ASSUME LedgerInv, UNCHANGED <<rows, refs, usage, reserved, reservedTotal, job>>
    PROVE  LedgerInv'
<1>1. Copiers' = Copiers /\ Exact' = Exact
  BY DEF Exact, Copiers, Reserving, UsageOfRows, RefsOf
<1>2. Charges' = Charges
  BY DEF Charges, Outstanding, Reserving, UsageOfRows, RefsOf
<1> QED BY <1>1, <1>2 DEF LedgerInv, Within

(* A copy goes on to its next stage.                                       *)
LEMMA LedgerOfStages ==
    ASSUME IInv, IInv', LedgerInv, NEW w \in Writers,
           job[w] # Idle, job'[w] # Idle, job'[w].key = job[w].key,
           job[w].stage = "returning" => job'[w].stage = "returning",
           \A v \in Writers : v # w => job'[v] = job[v],
           UNCHANGED <<rows, refs, usage, reserved, reservedTotal>>
    PROVE  LedgerInv'
<1>1. /\ Copiers' = Copiers
      /\ \A k \in Keys : Reserving(k)' = Reserving(k)
      /\ \A k \in Keys : Outstanding(k)' \subseteq Outstanding(k)
  BY DEF Copiers, Reserving, Outstanding
<1>2. \A k \in Keys : UsageOfRows(k)' = UsageOfRows(k)
  BY DEF UsageOfRows, RefsOf
<1>3. IsFiniteSet(Copiers')
  BY <1>1 DEF LedgerInv
<1>4. Exact'
  BY <1>1, <1>2 DEF LedgerInv, Exact
<1>5. Charges \in [Keys -> Int] /\ Charges' \in [Keys -> Int]
  <2>1. Charges \in [Keys -> Int]
    BY ChargesAreNumbers DEF IInv, LedgerInv
  <2>2. TypeOK' /\ RefsFinite' /\ IsFiniteSet(Copiers)'
    BY <1>3 DEF IInv
  <2>3. (Charges \in [Keys -> Int])'
    BY <2>2, ChargesAreNumbers, PTL
  <2> QED BY <2>1, <2>3
<1>6. ASSUME NEW k \in Keys PROVE Charges'[k] <= Charges[k]
  <2>1. /\ IsFiniteSet(Outstanding(k)) /\ Cardinality(Outstanding(k)) \in Nat
        /\ UsageOfRows(k) \in Nat
    BY CopiesAreCounted, UsageIsNat DEF IInv, LedgerInv
  <2>2. /\ Cardinality(Outstanding(k)') \in Nat
        /\ Cardinality(Outstanding(k)') <= Cardinality(Outstanding(k))
    BY <1>1, <2>1, FS_Subset, FS_CardinalityType
  <2>3. Cost(Cardinality(Outstanding(k)')) <= Cost(Cardinality(Outstanding(k)))
    BY <2>1, <2>2, CostIsNat, Multiples DEF Cost
  <2>4. Charges'[k] = UsageOfRows(k)' + Cost(Cardinality(Outstanding(k)'))
    BY DEF Charges, Cost
  <2>5. /\ Cost(Cardinality(Outstanding(k)')) \in Int
        /\ Cost(Cardinality(Outstanding(k))) \in Int
    BY <2>1, <2>2, CostIsNat, Multiples DEF Cost
  <2> QED BY <1>2, <2>1, <2>3, <2>4, <2>5, ChargeOf
<1>7. Within'
  BY <1>5, <1>6, ChargesFall DEF LedgerInv
<1> QED BY <1>3, <1>4, <1>7 DEF LedgerInv

(* A session gets rows.                                                    *)
LEMMA LedgerOfAppend ==
    ASSUME IInv, IInv', LedgerInv, NEW k \in Keys, NEW evs \in Batches, Fits(k, Len(evs)),
           rows' = [rows EXCEPT ![k] = @ \o evs], usage' = [usage EXCEPT ![k] = @ + Len(evs)],
           UNCHANGED <<refs, reserved, reservedTotal, job>>
    PROVE  LedgerInv'
<1>1. TypeOK /\ RefsFinite /\ TypeOK' /\ RefsFinite'
  BY DEF IInv
<1>2. /\ Copiers' = Copiers
      /\ \A j \in Keys : Reserving(j)' = Reserving(j) /\ Outstanding(j)' = Outstanding(j)
  BY CopiesStay
<1>3. Len(evs) \in Nat /\ evs \in Seq(Events) /\ rows[k] \in Seq(Events)
  BY <1>1, BatchIsSeq DEF TypeOK
<1>4. Len(rows'[k]) = Len(rows[k]) + Len(evs) /\ Len(rows[k]) \in Nat
  BY <1>1, <1>3, ConcatProperties DEF TypeOK
<1>5. \A j \in Keys : RefsOf(j)' = RefsOf(j)
  BY DEF RefsOf
<1>6. UsageOfRows(k)' = UsageOfRows(k) + Len(evs)
  <2>1. RawCost * Cardinality(RefsOf(k)) \in Int
    BY <1>1, FS_Subset, FS_CardinalityType, CostIsNat, Multiples DEF RefsOf, RefsFinite
  <2> QED BY <1>3, <1>4, <1>5, <2>1 DEF UsageOfRows
<1>7. \A j \in Keys : j # k => UsageOfRows(j)' = UsageOfRows(j) /\ usage'[j] = usage[j]
  BY <1>1, <1>5 DEF UsageOfRows, TypeOK
<1>8. usage'[k] = usage[k] + Len(evs)
  BY <1>1 DEF TypeOK
<1>9. IsFiniteSet(Copiers')
  BY <1>2 DEF LedgerInv
<1>10. Exact'
  BY <1>2, <1>6, <1>7, <1>8 DEF LedgerInv, Exact
<1>11. (Charges \in [Keys -> Int])'
  <2>1. TypeOK' /\ RefsFinite' /\ IsFiniteSet(Copiers)'
    BY <1>1, <1>9
  <2> QED BY <2>1, ChargesAreNumbers, PTL
<1>12. Charges'[k] = Charges[k] + Len(evs)
  <2>1. UsageOfRows(k) \in Int /\ ReservationCost * Cardinality(Outstanding(k)) \in Int
    BY <1>1, UsageIsNat, CopiesAreCounted, CostIsNat, Multiples DEF LedgerInv
  <2> QED BY <1>2, <1>3, <1>6, <2>1 DEF Charges
<1>13. \A j \in Keys : j # k => Charges'[j] = Charges[j]
  BY <1>2, <1>7 DEF Charges
<1>14. Within'
  BY <1>1, <1>3, <1>11, <1>12, <1>13, ChargesFit
<1> QED BY <1>9, <1>10, <1>14 DEF LedgerInv

(* A writer takes a reservation that fits.                                 *)
LEMMA LedgerOfReserve ==
    ASSUME IInv, IInv', LedgerInv, NEW w \in Writers, NEW k \in Keys, NEW e \in Oversized,
           NEW next \in Nat, NEW expected \in Nat, NEW src \in Sources,
           Reserve(w, k, e, next, expected, src)
    PROVE  LedgerInv'
<1>1. TypeOK /\ RefsFinite /\ TypeOK' /\ RefsFinite'
  BY DEF IInv
<1>2. /\ job[w] = Idle /\ job'[w] # Idle /\ job'[w].key = k /\ job'[w].stage = "reserved"
      /\ \A v \in Writers : v # w => job'[v] = job[v]
      /\ Fits(k, ReservationCost)
  BY <1>1 DEF Reserve, Idle, TypeOK
<1>3. /\ Copiers' = Copiers \cup {w}
      /\ Reserving(k)' = Reserving(k) \cup {w} /\ w \notin Reserving(k)
      /\ Outstanding(k)' = Outstanding(k) \cup {w} /\ w \notin Outstanding(k)
  BY <1>2 DEF Copiers, Reserving, Outstanding
<1>4. \A j \in Keys : j # k => Reserving(j)' = Reserving(j) /\ Outstanding(j)' = Outstanding(j)
  BY <1>2 DEF Reserving, Outstanding
<1>5. /\ Cardinality(Reserving(k)') = Cardinality(Reserving(k)) + 1
      /\ Cardinality(Outstanding(k)') = Cardinality(Outstanding(k)) + 1
      /\ Cardinality(Reserving(k)) \in Nat /\ Cardinality(Outstanding(k)) \in Nat
  BY <1>3, CopiesAreCounted, FS_AddElement DEF LedgerInv
<1>6. /\ Cost(Cardinality(Reserving(k)')) = Cost(Cardinality(Reserving(k))) + ReservationCost
      /\ Cost(Cardinality(Outstanding(k)')) = Cost(Cardinality(Outstanding(k))) + ReservationCost
      /\ Cost(Cardinality(Outstanding(k))) \in Int
  BY <1>5, CostIsNat, Multiples DEF Cost
<1>7. UNCHANGED <<rows, refs, usage>> /\ \A j \in Keys : UsageOfRows(j)' = UsageOfRows(j)
  BY DEF Reserve, database, UsageOfRows, RefsOf
<1>8. IsFiniteSet(Copiers')
  BY <1>3, FS_AddElement DEF LedgerInv
<1>9. /\ reserved \in [Keys -> Int] /\ reserved' \in [Keys -> Int]
      /\ reserved'[k] = reserved[k] + ReservationCost
      /\ \A j \in Keys : j # k => reserved'[j] = reserved[j]
      /\ reservedTotal' = reservedTotal + ReservationCost
  BY <1>1 DEF Reserve, TypeOK
<1>10. Exact'
  <2>1. \A j \in Keys : reserved'[j] = ReservationCost * Cardinality(Reserving(j)')
    <3>1. reserved[k] = Cost(Cardinality(Reserving(k)))
      BY DEF LedgerInv, Exact, Cost
    <3>2. reserved'[k] = Cost(Cardinality(Reserving(k)'))
      BY <1>6, <1>9, <3>1
    <3> QED BY <1>4, <1>9, <3>2 DEF LedgerInv, Exact, Cost
  <2>2. Total(reserved', Keys) = Total(reserved, Keys) + (reserved'[k] - reserved[k])
    BY <1>9, CostIsNat, TotalMoves
  <2>3. reserved'[k] - reserved[k] = ReservationCost
    BY <1>9, CostIsNat
  <2>4. Total(reserved', Keys) = Total(reserved, Keys) + ReservationCost
    BY <2>2, <2>3
  <2>5. reservedTotal' = Total(reserved', Keys)
    BY <1>9, <2>4 DEF LedgerInv, Exact
  <2> QED BY <1>7, <2>1, <2>5 DEF LedgerInv, Exact
<1>11. (Charges \in [Keys -> Int])'
  <2>1. TypeOK' /\ RefsFinite' /\ IsFiniteSet(Copiers)'
    BY <1>1, <1>8
  <2> QED BY <2>1, ChargesAreNumbers, PTL
<1>12. Charges'[k] = Charges[k] + ReservationCost
  <2>1. UsageOfRows(k) \in Int
    BY <1>1, UsageIsNat
  <2>2. Charges'[k] = UsageOfRows(k)' + Cost(Cardinality(Outstanding(k)'))
    BY DEF Charges, Cost
  <2> QED BY <1>6, <1>7, <2>1, <2>2, ChargeOf, CostIsNat
<1>13. \A j \in Keys : j # k => Charges'[j] = Charges[j]
  BY <1>4, <1>7 DEF Charges
<1>14. Within'
  BY <1>1, <1>2, <1>11, <1>12, <1>13, CostIsNat, ChargesFit
<1> QED BY <1>8, <1>10, <1>14 DEF LedgerInv

(* The reservation ends, and is given back.                                *)
LEMMA LedgerOfRelease ==
    ASSUME IInv, IInv', LedgerInv, NEW w \in Writers, Release(w)
    PROVE  LedgerInv'
<1>1. TypeOK /\ RefsFinite /\ TypeOK' /\ RefsFinite'
  BY DEF IInv
<1>2. PICK k \in Keys : job[w].key = k
  BY <1>1, StagesOfJobs DEF Release, Job
<1>3. /\ job[w] # Idle /\ job'[w] = Idle
      /\ job[w].stage = "returning"
      /\ \A v \in Writers : v # w => job'[v] = job[v]
  BY <1>1 DEF Release, Idle, TypeOK
<1>4. /\ reserved \in [Keys -> Int] /\ reserved' \in [Keys -> Int]
      /\ reserved'[k] = reserved[k] - ReservationCost
      /\ \A j \in Keys : j # k => reserved'[j] = reserved[j]
      /\ reservedTotal' = reservedTotal - ReservationCost
  BY <1>2, <1>1 DEF Release, TypeOK
<1>5. /\ Copiers' = Copiers \ {w}
      /\ Reserving(k)' = Reserving(k) \ {w} /\ w \in Reserving(k)
  BY <1>2, <1>3 DEF Copiers, Reserving
<1>6. \A j \in Keys : j # k => Reserving(j)' = Reserving(j)
  BY <1>2, <1>3 DEF Reserving
<1>7. \A j \in Keys : Outstanding(j)' = Outstanding(j)
  BY <1>3 DEF Outstanding, Reserving
<1>8. /\ Cardinality(Reserving(k)') = Cardinality(Reserving(k)) - 1
      /\ Cardinality(Reserving(k)) \in Nat
  BY <1>3, <1>5, CopiesAreCounted, FS_RemoveElement DEF LedgerInv
<1>9. Cost(Cardinality(Reserving(k)')) = Cost(Cardinality(Reserving(k))) - ReservationCost
  BY <1>8, CostIsNat, Multiples DEF Cost
<1>10. UNCHANGED <<rows, refs, usage>> /\ \A j \in Keys : UsageOfRows(j)' = UsageOfRows(j)
  BY DEF Release, database, UsageOfRows, RefsOf
<1>11. IsFiniteSet(Copiers')
  BY <1>5, FS_RemoveElement DEF LedgerInv
<1>12. Exact'
  <2>1. \A j \in Keys : reserved'[j] = ReservationCost * Cardinality(Reserving(j)')
    <3>1. reserved[k] = Cost(Cardinality(Reserving(k)))
      BY <1>3 DEF LedgerInv, Exact, Cost
    <3>2. reserved'[k] = Cost(Cardinality(Reserving(k)'))
      BY <1>4, <1>9, <3>1
    <3> QED BY <1>4, <1>6, <3>2 DEF LedgerInv, Exact, Cost
  <2>2. Total(reserved', Keys) = Total(reserved, Keys) + (reserved'[k] - reserved[k])
    BY <1>3, <1>4, CostIsNat, TotalMoves
  <2>3. reserved'[k] - reserved[k] = -ReservationCost
    BY <1>3, <1>4, CostIsNat
  <2>4. Total(reserved, Keys) \in Int
    BY <1>4, CostIsNat, TotalIsInteger
  <2>5. reservedTotal' = Total(reserved', Keys)
    BY <1>4, <2>2, <2>3, <2>4, CostIsNat DEF LedgerInv, Exact
  <2> QED BY <1>10, <2>1, <2>5 DEF LedgerInv, Exact
<1>13. Charges' = Charges
  BY <1>7, <1>10 DEF Charges
<1> QED BY <1>11, <1>12, <1>13 DEF LedgerInv, Within

(* The row and its reference are charged as much as their reservation.     *)
LEMMA LedgerOfCommit ==
    ASSUME IInv, IInv', LedgerInv, NEW w \in Writers, CommitRow(w)
    PROVE  LedgerInv'
<1>1. TypeOK /\ RefsFinite /\ TypeOK' /\ RefsFinite'
  BY DEF IInv
<1>2. PICK k \in Keys : job[w].key = k
  BY <1>1, StagesOfJobs DEF CommitRow, Job
<1>3. /\ job[w] # Idle /\ job[w].key = k /\ job[w].stage = "renamed"
      /\ job[w].event \in Events
      /\ job'[w] # Idle /\ job'[w].key = k /\ job'[w].stage = "returning"
      /\ \A v \in Writers : v # w => job'[v] = job[v]
  BY <1>1, <1>2, StagesOfJobs DEF CommitRow, Idle, TypeOK, Job, Events
<1>4. PICK r : /\ refs' = refs \cup {r} /\ r.key = k /\ r.seq = Len(rows[k]) + 1
  <2> DEFINE r == [key |-> k, gen |-> GenOf(k), seq |-> Len(rows[k]) + 1, name |-> job[w].name]
  <2>1. refs' = refs \cup {r}
    BY <1>2 DEF CommitRow
  <2>2. r.key = k /\ r.seq = Len(rows[k]) + 1
    OBVIOUS
  <2> HIDE DEF r
  <2> QED BY <2>1, <2>2
<1>5. /\ rows' = [rows EXCEPT ![k] = Append(@, job[w].event)]
      /\ usage' = [usage EXCEPT ![k] = @ + ReservationCost]
      /\ UNCHANGED <<reserved, reservedTotal>>
  BY <1>2 DEF CommitRow
<1>6. rows[k] \in Seq(Events) /\ Len(rows[k]) \in Nat
  BY <1>1, <1>3 DEF TypeOK
<1>7. r \notin refs
  <2>1. \A q \in refs : q.key = k => q.seq \in 1..Len(rows[k])
    BY <1>6 DEF IInv, ReferencesBindRows
  <2> QED BY <1>6, <1>4, <2>1
<1>8. /\ RefsOf(k)' = RefsOf(k) \cup {r} /\ r \notin RefsOf(k)
      /\ \A j \in Keys : j # k => RefsOf(j)' = RefsOf(j)
  BY <1>7, <1>4 DEF RefsOf
<1>9. /\ Cardinality(RefsOf(k)') = Cardinality(RefsOf(k)) + 1
      /\ Cardinality(RefsOf(k)) \in Nat
  <2>1. IsFiniteSet(RefsOf(k))
    BY <1>1, FS_Subset DEF RefsOf, RefsFinite
  <2> QED BY <1>8, <2>1, FS_AddElement, FS_CardinalityType
<1>10. /\ rows'[k] = Append(rows[k], job[w].event)
      /\ \A j \in Keys : j # k => rows'[j] = rows[j] /\ usage'[j] = usage[j]
      /\ usage'[k] = usage[k] + ReservationCost
  BY <1>1, <1>3, <1>5 DEF TypeOK
<1>11. Len(rows'[k]) = Len(rows[k]) + 1
  BY <1>3, <1>6, <1>10, AppendProperties
<1>12. UsageOfRows(k)' = UsageOfRows(k) + ReservationCost
  <2>1. RawCost * Cardinality(RefsOf(k)') = RawCost * Cardinality(RefsOf(k)) + RawCost
    BY <1>9, CostIsNat, Multiples
  <2>2. RawCost * Cardinality(RefsOf(k)) \in Int
    BY <1>9, CostIsNat, Multiples
  <2>3. UsageOfRows(k)' = Len(rows'[k]) + RawCost * Cardinality(RefsOf(k)')
    BY DEF UsageOfRows
  <2>4. UsageOfRows(k) = Len(rows[k]) + RawCost * Cardinality(RefsOf(k))
    BY DEF UsageOfRows
  <2>5. UsageOfRows(k)' = (Len(rows[k]) + 1) + (RawCost * Cardinality(RefsOf(k)) + RawCost)
    BY <1>11, <2>1, <2>3
  <2>6. ASSUME NEW a \in Int, NEW b \in Int PROVE (a + 1) + (b + RawCost) = (a + b) + (1 + RawCost)
    BY CostIsNat
  <2> QED BY <1>6, <2>2, <2>4, <2>5, <2>6, CostIsNat
<1>13. \A j \in Keys : j # k => UsageOfRows(j)' = UsageOfRows(j)
  BY <1>8, <1>10 DEF UsageOfRows
<1>14. /\ Copiers' = Copiers
       /\ \A j \in Keys : Reserving(j)' = Reserving(j)
       /\ \A j \in Keys : j # k => Outstanding(j)' = Outstanding(j)
       /\ Outstanding(k)' = Outstanding(k) \ {w} /\ w \in Outstanding(k)
  BY <1>3 DEF Copiers, Reserving, Outstanding
<1>15. /\ Cost(Cardinality(Outstanding(k)')) = Cost(Cardinality(Outstanding(k))) - ReservationCost
       /\ Cost(Cardinality(Outstanding(k))) \in Int
  <2>1. /\ Cardinality(Outstanding(k)') = Cardinality(Outstanding(k)) - 1
        /\ Cardinality(Outstanding(k)) \in Nat
    BY <1>3, <1>14, CopiesAreCounted, FS_RemoveElement DEF LedgerInv
  <2> QED BY <2>1, CostIsNat, Multiples DEF Cost
<1>16. Exact'
  <2>1. \A j \in Keys : usage[j] = UsageOfRows(j)
    BY DEF LedgerInv, Exact
  <2>2. ASSUME NEW j \in Keys PROVE usage'[j] = UsageOfRows(j)'
    <3>1. CASE j = k
      <4>1. usage'[k] = usage[k] + ReservationCost
        BY <1>1, <1>3, <1>5 DEF TypeOK
      <4>2. usage[k] = UsageOfRows(k)
        BY <2>1
      <4>3. usage'[k] = UsageOfRows(k)'
        BY <1>12, <4>1, <4>2
      <4> QED BY <3>1, <4>3
    <3>2. CASE j # k
      <4>1. usage'[j] = usage[j] /\ UsageOfRows(j)' = UsageOfRows(j)
        BY <1>10, <1>13, <3>2
      <4> QED BY <2>1, <4>1
    <3> QED BY <3>1, <3>2
  <2> QED BY <1>5, <1>14, <2>2 DEF LedgerInv, Exact
<1>17. ASSUME NEW j \in Keys PROVE Charges'[j] = Charges[j]
  <2>1. CASE j = k
    <3>1. UsageOfRows(k) \in Int
      BY <1>1, <1>3, UsageIsNat
    <3>2. Charges'[k] = UsageOfRows(k)' + Cost(Cardinality(Outstanding(k)'))
      BY <1>3 DEF Charges, Cost
    <3> QED BY <1>3, <1>12, <1>15, <2>1, <3>1, <3>2, ChargeOf, CostIsNat
  <2>2. CASE j # k
    BY <1>13, <1>14, <2>2 DEF Charges
  <2> QED BY <2>1, <2>2
<1>18. Charges' = Charges
  BY <1>17 DEF Charges
<1> QED BY <1>14, <1>16, <1>18 DEF LedgerInv, Within

(* A session loses its rows, and what it was charged for them.             *)
LEMMA LedgerOfDrop ==
    ASSUME IInv, IInv', LedgerInv, NEW k \in Keys, DropRows(k)
    PROVE  LedgerInv'
<1>1. TypeOK /\ RefsFinite /\ TypeOK' /\ RefsFinite'
  BY DEF IInv
<1>2. /\ rows' = [rows EXCEPT ![k] = <<>>] /\ refs' = refs \ RefsOf(k)
      /\ usage' = [usage EXCEPT ![k] = 0] /\ UNCHANGED <<reserved, reservedTotal, job>>
  BY DEF DropRows
<1>3. /\ Copiers' = Copiers
      /\ \A j \in Keys : Reserving(j)' = Reserving(j) /\ Outstanding(j)' = Outstanding(j)
  BY <1>2, CopiesStay
<1>4. RefsOf(k)' = {} /\ \A j \in Keys : j # k => RefsOf(j)' = RefsOf(j)
  BY <1>2 DEF RefsOf
<1>5. rows'[k] = <<>> /\ usage'[k] = 0
      /\ \A j \in Keys : j # k => rows'[j] = rows[j] /\ usage'[j] = usage[j]
  BY <1>1, <1>2 DEF TypeOK
<1>6. UsageOfRows(k)' = 0
  <2>1. RawCost * Cardinality({}) = 0
    BY FS_EmptySet, CostIsNat, Multiples
  <2> QED BY <1>4, <1>5, <2>1 DEF UsageOfRows
<1>7. \A j \in Keys : j # k => UsageOfRows(j)' = UsageOfRows(j)
  BY <1>4, <1>5 DEF UsageOfRows
<1>8. Exact'
  BY <1>2, <1>3, <1>5, <1>6, <1>7 DEF LedgerInv, Exact
<1>9. Charges \in [Keys -> Int] /\ (Charges \in [Keys -> Int])'
  <2>1. TypeOK' /\ RefsFinite' /\ IsFiniteSet(Copiers)'
    BY <1>1, <1>3 DEF LedgerInv
  <2>2. Charges \in [Keys -> Int]
    BY <1>1, ChargesAreNumbers DEF LedgerInv
  <2>3. (Charges \in [Keys -> Int])'
    BY <2>1, ChargesAreNumbers, PTL
  <2> QED BY <2>2, <2>3
<1>10. ASSUME NEW j \in Keys PROVE Charges'[j] <= Charges[j]
  <2>1. /\ Charges[j] = UsageOfRows(j) + Cost(Cardinality(Outstanding(j)))
        /\ Charges'[j] = UsageOfRows(j)' + Cost(Cardinality(Outstanding(j)))
    BY <1>3 DEF Charges, Cost
  <2>2. UsageOfRows(j) \in Nat /\ Cost(Cardinality(Outstanding(j))) \in Int
    BY <1>1, UsageIsNat, CopiesAreCounted, CostIsNat, Multiples DEF LedgerInv, Cost
  <2>3. UsageOfRows(j)' <= UsageOfRows(j) /\ UsageOfRows(j)' \in Nat
    BY <1>6, <1>7, <2>2
  <2> QED BY <2>1, <2>2, <2>3
<1>11. Within'
  BY <1>9, <1>10, ChargesFall DEF LedgerInv
<1> QED BY <1>3, <1>8, <1>11 DEF LedgerInv

(* The daemon dies, and its reservations with it.                          *)
LEMMA LedgerOfCrash ==
    ASSUME IInv, IInv', LedgerInv, Crash
    PROVE  LedgerInv'
<1>1. TypeOK /\ RefsFinite /\ TypeOK' /\ RefsFinite'
  BY DEF IInv
<1>2. /\ \A w \in Writers : job'[w] = Idle
      /\ reserved' = [j \in Keys |-> 0] /\ reservedTotal' = 0
      /\ UNCHANGED <<rows, refs, usage>>
  BY DEF Crash, database
<1>3. Copiers' = {} /\ \A j \in Keys : Reserving(j)' = {} /\ Outstanding(j)' = {}
  BY <1>2 DEF Copiers, Reserving, Outstanding
<1>4. \A j \in Keys : UsageOfRows(j)' = UsageOfRows(j)
  BY <1>2 DEF UsageOfRows, RefsOf
<1>5. IsFiniteSet(Copiers') /\ Cost(Cardinality({})) = 0
  BY <1>3, FS_EmptySet, CostIsNat, Multiples DEF Cost
<1>6. Exact'
  <2>1. Total(reserved', Keys) = 0
    BY <1>2, CostIsNat, TotalOfZeros
  <2> QED BY <1>2, <1>3, <1>4, <1>5, <2>1 DEF LedgerInv, Exact, Cost
<1>7. Charges \in [Keys -> Int] /\ (Charges \in [Keys -> Int])'
  <2>1. TypeOK' /\ RefsFinite' /\ IsFiniteSet(Copiers)'
    BY <1>1, <1>5
  <2>2. Charges \in [Keys -> Int]
    BY <1>1, ChargesAreNumbers DEF LedgerInv
  <2>3. (Charges \in [Keys -> Int])'
    BY <2>1, ChargesAreNumbers, PTL
  <2> QED BY <2>2, <2>3
<1>8. ASSUME NEW j \in Keys PROVE Charges'[j] <= Charges[j]
  <2>1. Charges[j] = UsageOfRows(j) + Cost(Cardinality(Outstanding(j)))
    BY ChargeOf
  <2>2. Charges'[j] = UsageOfRows(j)' + Cost(Cardinality(Outstanding(j)'))
    BY DEF Charges, Cost
  <2>3. UsageOfRows(j) \in Nat /\ Cost(Cardinality(Outstanding(j))) \in Int
    BY <1>1, UsageIsNat, CopiesAreCounted, CostIsNat, Multiples DEF LedgerInv, Cost
  <2>4. Cost(Cardinality(Outstanding(j))) >= 0
    <3>1. Cardinality(Outstanding(j)) \in Nat
      BY CopiesAreCounted DEF LedgerInv
    <3> QED BY <1>5, <3>1, FS_EmptySet, CostIsNat, Multiples DEF Cost
  <2>5. Charges'[j] = UsageOfRows(j)
    BY <1>3, <1>4, <1>5, <2>2, <2>3
  <2> QED BY <2>1, <2>3, <2>4, <2>5
<1>9. Within'
  BY <1>7, <1>8, ChargesFall DEF LedgerInv
<1> QED BY <1>5, <1>6, <1>9 DEF LedgerInv

(* The ledger is rebuilt from what it should say.                          *)
LEMMA LedgerOfRestart ==
    ASSUME LedgerInv, Restart
    PROVE  LedgerInv'
<1>1. usage' = [k \in Keys |-> UsageOfRows(k)]
      /\ UNCHANGED <<rows, refs, reserved, reservedTotal, job>>
  BY DEF Restart
<1>2. \A k \in Keys : UsageOfRows(k)' = UsageOfRows(k)
  BY <1>1 DEF UsageOfRows, RefsOf
<1>3. /\ Copiers' = Copiers
      /\ \A j \in Keys : Reserving(j)' = Reserving(j) /\ Outstanding(j)' = Outstanding(j)
  BY <1>1, CopiesStay
<1>4. Exact'
  BY <1>1, <1>2, <1>3 DEF LedgerInv, Exact
<1>5. Charges' = Charges
  BY <1>2, <1>3 DEF Charges
<1> QED BY <1>3, <1>4, <1>5 DEF LedgerInv, Within

(* Every step of a copy keeps the ledger.                                  *)
LEMMA LedgerOfPreserve ==
    ASSUME IInv, IInv', LedgerInv, NEW w \in Writers, PreserveStep(w)
    PROVE  LedgerInv'
<1>1. TypeOK
  BY DEF IInv
<1>2. ASSUME NEW k \in Keys, NEW e \in Oversized, NEW src \in Sources,
             NEW expected \in 0..MaxOffset, NEW next \in (expected + 1)..MaxOffset,
             Reserve(w, k, e, next, expected, src)
      PROVE  LedgerInv'
  <2>1. expected \in Nat /\ next \in Nat
    BY LogAssumption DEF LogAssumption
  <2> QED BY <1>2, <2>1, LedgerOfReserve
<1>3. ASSUME NEW s \in {"copying", "copied", "renamed", "discarding", "returning"}, NEW n,
             job[w].stage \notin {"idle", "returning"},
             \/ job' = [job EXCEPT ![w].stage = s]
             \/ job' = [job EXCEPT ![w].stage = s, ![w].name = n],
             UNCHANGED <<rows, refs, usage, reserved, reservedTotal>>
      PROVE  LedgerInv'
  <2>1. job[w] \in Job /\ job[w] # Idle
    BY <1>1, <1>3, StagesOfJobs DEF Idle
  <2>2. /\ job'[w].key = job[w].key /\ job'[w].stage = s
        /\ \A v \in Writers : v # w => job'[v] = job[v]
    BY <1>1, <1>3, <2>1 DEF TypeOK, Job
  <2>3. job'[w] # Idle
    BY <2>2 DEF Idle
  <2> QED BY <1>3, <2>1, <2>2, <2>3, LedgerOfStages
<1>4. CASE CreateTemp(w)
  BY <1>3, <1>4 DEF CreateTemp, database
<1>5. CASE CreateFails(w) \/ FinishCopy(w) \/ AbandonCopy(w) \/ RenameTemp(w) \/ LoseRace(w)
           \/ CommitFails(w) \/ DiscardCopy(w)
  BY <1>3, <1>5 DEF CreateFails, FinishCopy, AbandonCopy, RenameTemp, LoseRace, CommitFails,
                    DiscardCopy, database
<1>6. CASE CommitRow(w)
  BY <1>6, LedgerOfCommit
<1>7. CASE Release(w)
  BY <1>7, LedgerOfRelease
<1> QED BY <1>2, <1>4, <1>5, <1>6, <1>7 DEF PreserveStep

(* Every step of the log keeps the ledger.                                 *)
LEMMA LedgerInductive == IInv /\ LedgerInv /\ [Next]_logVars => LedgerInv'
<1> SUFFICES ASSUME IInv, LedgerInv, [Next]_logVars PROVE LedgerInv'
  OBVIOUS
<1>1. IInv'
  BY LogInductive
<1>2. CASE AppendStep
  <2>1. PICK k \in Keys, evs \in Batches :
          /\ Fits(k, Len(evs)) /\ rows' = [rows EXCEPT ![k] = @ \o evs]
          /\ usage' = [usage EXCEPT ![k] = @ + Len(evs)]
          /\ UNCHANGED <<refs, reserved, reservedTotal, job>>
    BY <1>2 DEF AppendStep, AppendEvents, AppendAndAdvance, memory
  <2> QED BY <1>1, <2>1, LedgerOfAppend
<1>3. CASE \E w \in Writers : PreserveStep(w)
  BY <1>1, <1>3, LedgerOfPreserve
<1>4. CASE ResetStep
  <2>1. PICK k \in Keys :
          DropRows(k) \/ UNCHANGED <<rows, refs, usage, reserved, reservedTotal, job>>
    BY <1>4 DEF ResetStep, BindSource, RebuildForSource, FirstPrepare, RebuildForParser,
                ResetIngest, SetIngestOffset, PurgeSession, memory
  <2> QED BY <1>1, <2>1, LedgerOfDrop, LedgerRests
<1>5. CASE SweepBlob \/ UNCHANGED logVars
  BY <1>5, LedgerRests DEF SweepBlob, database, logVars
<1>6. CASE Crash
  BY <1>1, <1>6, LedgerOfCrash
<1>7. CASE Restart
  BY <1>7, LedgerOfRestart
<1> QED BY <1>2, <1>3, <1>4, <1>5, <1>6, <1>7 DEF Next

(* At first nothing is charged.                                            *)
LEMMA LedgerBegins == Init => LedgerInv
<1> SUFFICES ASSUME Init PROVE LedgerInv
  OBVIOUS
<1>1. /\ Copiers = {} /\ \A k \in Keys : Reserving(k) = {} /\ Outstanding(k) = {}
      /\ \A k \in Keys : RefsOf(k) = {} /\ Len(rows[k]) = 0
  BY DEF Init, Copiers, Reserving, Outstanding, RefsOf
<1>2. /\ IsFiniteSet({}) /\ RawCost * Cardinality({}) = 0
      /\ ReservationCost * Cardinality({}) = 0
  BY FS_EmptySet, CostIsNat, Multiples
<1>3. \A k \in Keys : UsageOfRows(k) = 0
  <2> TAKE k \in Keys
  <2>1. RefsOf(k) = {} /\ Len(rows[k]) = 0
    BY <1>1
  <2> QED BY <1>2, <2>1 DEF UsageOfRows
<1>4. Total([k \in Keys |-> 0], Keys) = 0
  BY CostIsNat, TotalOfZeros
<1>5. Exact
  BY <1>1, <1>2, <1>3, <1>4 DEF Init, Exact
<1>6. Charges = [k \in Keys |-> 0]
  <2>1. ASSUME NEW k \in Keys
        PROVE  UsageOfRows(k) + ReservationCost * Cardinality(Outstanding(k)) = 0
    <3>1. Outstanding(k) = {} /\ UsageOfRows(k) = 0
      BY <1>1, <1>3
    <3> QED BY <1>2, <3>1
  <2> QED BY <2>1 DEF Charges
<1>7. Within
  BY <1>4, <1>6, CostIsNat DEF Within
<1> QED BY <1>1, <1>2, <1>5, <1>7 DEF LedgerInv

(* The ledger's invariant holds in every state.                            *)
LEMMA LedgerInvariant == Spec => []LedgerInv
BY LedgerBegins, LedgerInductive, LogInvariant, PTL DEF Spec

(* The ledger charges a session exactly what its rows and raw copies take, *)
(* and exactly the reservations of the copies in progress, for any         *)
(* sessions, writers and limits and through every crash.                   *)
THEOREM LogLedgerIsExact == Spec => []LedgerExact
<1>1. LedgerInv => LedgerExact
  BY LedgerSums
<1> QED BY <1>1, LedgerInvariant, PTL

(* No session and not all of them together ever exceed their limit, with   *)
(* what the copies that passed the check have yet to commit.               *)
THEOREM LogStaysWithinLimits == Spec => []WithinLimits
<1>1. LedgerInv => WithinLimits
  BY LedgerSums
<1> QED BY <1>1, LedgerInvariant, PTL

------------------------------------------------------------------------------
(* The log implements SessionHistory.                                      *)

(* A batch of events that is not empty extends the history.                *)
LEMMA ExtendMaps ==
    ASSUME TypeOK, NEW k \in Keys, NEW evs \in Seq(Events), evs # <<>>,
           rows' = [rows EXCEPT ![k] = @ \o evs],
           \A j \in Keys : GenOf(j)' = GenOf(j)
    PROVE  History!Extend(k)
<1>1. rows[k] \in Seq(Events) /\ Len(rows[k]) \in Nat
  BY DEF TypeOK
<1>2. rows'[k] = rows[k] \o evs
  BY DEF TypeOK
<1>3. Len(evs) \in Nat \ {0}
  BY EmptySeq
<1>4. rows'[k] \in Seq(Events) /\ Len(rows'[k]) = Len(rows[k]) + Len(evs)
  BY <1>1, <1>2, ConcatProperties
<1>5. SubSeq(rows'[k], 1, Len(rows[k])) = rows[k]
  <2>1. CASE rows[k] = <<>>
    <3>1. Len(rows[k]) = 0
      BY <2>1, EmptySeq
    <3> QED BY <2>1, <3>1, SubSeqEmpty
  <2>2. CASE rows[k] # <<>>
    <3>1. Len(rows[k]) \in Nat \ {0}
      BY <1>1, <2>2, EmptySeq
    <3>2. SubSeq(rows[k] \o evs, 1, Len(rows[k])) = SubSeq(rows[k], 1, Len(rows[k]))
      BY <1>1, <3>1, SubSeqOfConcat1
    <3> QED BY <1>1, <1>2, <3>2, SubSeqFull
  <2> QED BY <2>1, <2>2
<1>6. rows' = [rows EXCEPT ![k] = rows'[k]]
  BY <1>2 DEF TypeOK
<1>7. [j \in Keys |-> GenOf(j)]' = [j \in Keys |-> GenOf(j)]
  OBVIOUS
<1> QED BY <1>1, <1>3, <1>4, <1>5, <1>6, <1>7 DEF History!Extend

(* The rows go away and the generation moves.                              *)
LEMMA RebuildMaps ==
    ASSUME TypeOK, NEW k \in Keys, DropRows(k), NEW c \in Cursor,
           cursor' = [cursor EXCEPT ![k] = c], c.gen = GenOf(k) + 1
    PROVE  History!Rebuild(k)
<1>1. rows' = [rows EXCEPT ![k] = <<>>]
  BY DEF DropRows
<1>2. GenOf(k)' = GenOf(k) + 1 /\ \A j \in Keys : j # k => GenOf(j)' = GenOf(j)
  BY CursorIsSet
<1>3. [j \in Keys |-> GenOf(j)]' = [[j \in Keys |-> GenOf(j)] EXCEPT ![k] = @ + 1]
  BY <1>2
<1> QED BY <1>1, <1>3 DEF History!Rebuild

LEMMA ForgetMaps ==
    ASSUME TypeOK, NEW k \in Keys, PurgeSession(k)
    PROVE  History!Forget(k)
<1>1. rows' = [rows EXCEPT ![k] = <<>>]
  BY DEF PurgeSession, DropRows
<1>2. GenOf(k)' = 1 /\ \A j \in Keys : j # k => GenOf(j)' = GenOf(j)
  BY CursorIsDropped DEF PurgeSession
<1>3. [j \in Keys |-> GenOf(j)]' = [[j \in Keys |-> GenOf(j)] EXCEPT ![k] = 1]
  BY <1>2
<1> QED BY <1>1, <1>3 DEF History!Forget

(* A step that leaves rows and generations alone is a stutter.             *)
LEMMA StutterMaps ==
    ASSUME UNCHANGED rows, \A j \in Keys : GenOf(j)' = GenOf(j)
    PROVE  UNCHANGED History!vars
<1>1. [j \in Keys |-> GenOf(j)]' = [j \in Keys |-> GenOf(j)]
  OBVIOUS
<1> QED BY <1>1 DEF History!vars

LEMMA AppendMaps == ASSUME IInv, AppendStep PROVE [History!Next]_History!vars
<1>1. PICK k \in Keys, evs \in Batches :
        \/ AppendEvents(k, evs)
        \/ \E expected \in 0..MaxOffset, src \in Sources :
             \E next \in (expected + 1)..MaxOffset :
               AppendAndAdvance(k, evs, next, expected, src)
  BY DEF AppendStep
<1>2. TypeOK /\ evs \in Seq(Events)
  BY BatchIsSeq DEF IInv
<1>3. rows' = [rows EXCEPT ![k] = @ \o evs]
  BY <1>1 DEF AppendEvents, AppendAndAdvance
<1>4. \A j \in Keys : GenOf(j)' = GenOf(j)
  <2>1. CASE AppendEvents(k, evs)
    BY <2>1 DEF AppendEvents, GenOf, HasCursor
  <2>2. ASSUME NEW expected \in 0..MaxOffset, NEW src \in Sources,
               NEW next \in (expected + 1)..MaxOffset,
               AppendAndAdvance(k, evs, next, expected, src)
        PROVE  \A j \in Keys : GenOf(j)' = GenOf(j)
    <3> DEFINE c == [cursor[k] EXCEPT !.offset = next]
    <3>1. next \in Nat
      BY LogAssumption DEF LogAssumption
    <3>2. HasCursor(k) /\ cursor[k] \in Cursor
      BY <1>2, <2>2, CursorIsRow DEF AppendAndAdvance, CursorMatches
    <3>3. c \in Cursor /\ c.gen = GenOf(k)
      BY <3>1, <3>2 DEF Cursor, GenOf
    <3>4. cursor' = [cursor EXCEPT ![k] = c]
      BY <2>2 DEF AppendAndAdvance
    <3> HIDE DEF c
    <3> QED BY <1>2, <3>3, <3>4, CursorIsSet
  <2> QED BY <1>1, <2>1, <2>2
<1>5. CASE evs = <<>>
  <2>1. rows[k] \o <<>> = rows[k]
    BY <1>2, ConcatEmptySeq DEF TypeOK
  <2>2. UNCHANGED rows
    BY <1>2, <1>3, <1>5, <2>1 DEF TypeOK
  <2> QED BY <1>4, <2>2, StutterMaps
<1>6. CASE evs # <<>>
  BY <1>2, <1>3, <1>4, <1>6, ExtendMaps DEF History!Next
<1> QED BY <1>5, <1>6

LEMMA CommitMaps ==
    ASSUME IInv, NEW w \in Writers, CommitRow(w)
    PROVE  \E k \in Keys : History!Extend(k)
<1> DEFINE k == job[w].key
           c == [cursor[k] EXCEPT !.offset = job[w].next]
           evs == <<job[w].event>>
<1>1. TypeOK /\ job[w] \in Job /\ k \in Keys /\ job[w].event \in Events /\ job[w].next \in Nat
  BY StagesOfJobs DEF CommitRow, IInv, Job, Events
<1>2. HasCursor(k) /\ cursor[k] \in Cursor
  BY <1>1, CursorIsRow DEF CommitRow, IInv, RenamedIsExclusive
<1>3. c \in Cursor /\ c.gen = GenOf(k)
  BY <1>1, <1>2 DEF Cursor, GenOf
<1>4. cursor' = [cursor EXCEPT ![k] = c]
  BY DEF CommitRow
<1>5. evs \in Seq(Events) /\ evs # <<>>
  BY <1>1
<1>6. rows' = [rows EXCEPT ![k] = @ \o evs]
  <2>1. rows' = [rows EXCEPT ![k] = Append(rows[k], job[w].event)]
    BY DEF CommitRow
  <2>2. Append(rows[k], job[w].event) = rows[k] \o evs
    <3>1. rows[k] \in Seq(Events)
      BY <1>1 DEF TypeOK
    <3> HIDE DEF k
    <3> QED BY <3>1, <1>1
  <2> QED BY <2>1, <2>2
<1> HIDE DEF c, evs
<1>7. \A j \in Keys : GenOf(j)' = GenOf(j)
  BY <1>1, <1>3, <1>4, CursorIsSet
<1> QED BY <1>1, <1>5, <1>6, <1>7, ExtendMaps

LEMMA PreserveMaps ==
    ASSUME IInv, NEW w \in Writers, PreserveStep(w)
    PROVE  [History!Next]_History!vars
<1>1. CASE CommitRow(w)
  BY <1>1, CommitMaps DEF History!Next
<1>2. CASE ~CommitRow(w)
  <2>1. UNCHANGED database
    BY <1>2 DEF PreserveStep, Reserve, CreateTemp, CreateFails, FinishCopy, AbandonCopy,
                RenameTemp, LoseRace, CommitFails, DiscardCopy, Release
  <2>2. UNCHANGED rows /\ \A j \in Keys : GenOf(j)' = GenOf(j)
    BY <2>1 DEF database, GenOf, HasCursor
  <2> QED BY <2>2, StutterMaps
<1> QED BY <1>1, <1>2

LEMMA ResetMaps == ASSUME IInv, ResetStep PROVE [History!Next]_History!vars
<1>1. PICK k \in Keys :
        \/ \E src \in Sources, size \in 0..MaxOffset, force \in BOOLEAN :
             BindSource(k, src, size, force) \/ RebuildForSource(k, src, size, force)
        \/ \E p \in Parsers : FirstPrepare(k, p) \/ RebuildForParser(k, p)
        \/ ResetIngest(k)
        \/ \E offset \in 0..MaxOffset : SetIngestOffset(k, offset)
        \/ PurgeSession(k)
  BY DEF ResetStep
<1>2. TypeOK /\ 0..MaxOffset \subseteq Nat
  BY LogAssumption DEF IInv, LogAssumption
<1>3. ASSUME \/ \E src \in Sources, size \in 0..MaxOffset, force \in BOOLEAN :
                  BindSource(k, src, size, force)
             \/ \E p \in Parsers : FirstPrepare(k, p)
             \/ \E offset \in 0..MaxOffset : SetIngestOffset(k, offset)
      PROVE  UNCHANGED History!vars
  <2>1. UNCHANGED rows
    BY <1>3 DEF BindSource, FirstPrepare, SetIngestOffset
  <2>2. PICK c \in Cursor : cursor' = [cursor EXCEPT ![k] = c] /\ c.gen = GenOf(k)
    BY <1>2, <1>3, BindSourceCursor, FirstPrepareCursor, SetIngestOffsetCursor
  <2> QED BY <1>2, <2>1, <2>2, CursorIsSet, StutterMaps
<1>4. ASSUME \/ \E src \in Sources, size \in 0..MaxOffset, force \in BOOLEAN :
                  RebuildForSource(k, src, size, force)
             \/ \E p \in Parsers : RebuildForParser(k, p)
             \/ ResetIngest(k)
      PROVE  History!Rebuild(k)
  <2>1. DropRows(k)
    BY <1>4 DEF RebuildForSource, RebuildForParser, ResetIngest
  <2>2. PICK c \in Cursor : cursor' = [cursor EXCEPT ![k] = c] /\ c.gen = GenOf(k) + 1
    BY <1>2, <1>4, RebuildForSourceCursor, RebuildForParserCursor, ResetIngestCursor
  <2> QED BY <1>2, <2>1, <2>2, RebuildMaps
<1>5. CASE PurgeSession(k)
  BY <1>2, <1>5, ForgetMaps DEF History!Next
<1> QED BY <1>1, <1>3, <1>4, <1>5 DEF History!Next

(* For every session, writer and limit the log implements SessionHistory:  *)
(* within one generation rows only grow at the end, and rows that go away  *)
(* take their generation with them.                                        *)
THEOREM LogRefinesHistory == Spec => RefinesHistory
<1>1. Init => History!Init
  BY DEF Init, History!Init, GenOf, HasCursor
<1>2. IInv /\ [Next]_logVars => [History!Next]_History!vars
  <2> SUFFICES ASSUME IInv, [Next]_logVars PROVE [History!Next]_History!vars
    OBVIOUS
  <2>1. CASE AppendStep
    BY <2>1, AppendMaps
  <2>2. CASE \E w \in Writers : PreserveStep(w)
    BY <2>2, PreserveMaps
  <2>3. CASE ResetStep
    BY <2>3, ResetMaps
  <2>4. CASE SweepBlob \/ Crash \/ Restart \/ UNCHANGED logVars
    <3>1. UNCHANGED rows /\ \A j \in Keys : GenOf(j)' = GenOf(j)
      BY <2>4 DEF SweepBlob, Crash, Restart, logVars, database, GenOf, HasCursor
    <3> QED BY <3>1, StutterMaps
  <2> QED BY <2>1, <2>2, <2>3, <2>4 DEF Next
<1> QED BY <1>1, <1>2, LogInvariant, PTL DEF Spec, RefinesHistory, History!Spec

==============================================================================
