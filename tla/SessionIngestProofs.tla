------------------------ MODULE SessionIngestProofs ------------------------
(***************************************************************************)
(* What transcript ingestion guarantees for any sessions, transcripts,     *)
(* streams, requests and deletions, however they interleave: it uses the   *)
(* log as the log is meant to be used, the log of a session is a prefix of *)
(* one file, locks are held by the threads inside, and rows are only       *)
(* dropped for a reason.                                                   *)
(***************************************************************************)
EXTENDS SessionIngest, SessionEventLogProofs

------------------------------------------------------------------------------
(* Where a thread can be, and what it carries there.                       *)
Ensuring == {"ensure", "ensureLock", "prepare", "rebind", "watch"}
Preserving == {"preserve", "kept", "lost", "failed"}
Copies == Preserving \cup {"copy", "reread"}
Locked == Copies \cup {"prepare", "rebind", "watch", "open", "reconcile", "error", "inspect"}
Reading == Copies \cup {"reconcile", "bind"}
Deleting == {"remove", "trash", "removeAgain", "purge", "receipt"}
Pcs == Ensuring \cup Locked \cup Deleting \cup {"rest", "lookup", "bind", "lock"}

ThreadRecords == [pc : Pcs, key : Keys \cup {NoKey}, id : Nat \cup {NoEntry},
                  path : Paths \cup {NoPath}, source : Sources \cup {NoSource},
                  size : 0..MaxOffset, offset : 0..MaxOffset, force : BOOLEAN]
Opened(r) == r.source \in Sources /\ r.size <= written[r.source]
Shape(t, r) ==
    /\ r \in ThreadRecords
    /\ r.pc # "rest" => r.key \in Keys
    /\ r.pc \in Ensuring => r.path \in Paths
    /\ r.pc \in Locked \cup {"ensureLock", "lock"} => r.id \in 1..Len(entry)
    /\ r.pc \in Reading \/ (r.pc \in Ensuring /\ t \in Tails) => Opened(r)
ThreadsFit ==
    /\ thread \in [Threads -> ThreadRecords]
    /\ \A t \in Threads : Shape(t, thread[t])

Entries == [key : Keys, path : Paths, ready : BOOLEAN, watch : BOOLEAN]
RegistryFits ==
    /\ entry \in Seq(Entries)
    /\ session \in [Keys -> (1..Len(entry)) \cup {NoEntry}]
    /\ holder \in Seq(Threads \cup {Nobody}) /\ Len(holder) = Len(entry)
    /\ errors \in SUBSET Keys

FilesFit ==
    /\ file \in [Paths -> Sources \cup {NoSource}]
    /\ written \in [Sources -> 0..MaxOffset]
    /\ current \in [Keys -> Paths]
    /\ budget \in BudgetRecord

(* A thread inside a critical section holds the lock of its object.        *)
LocksHeld == \A t \in Threads : At(t) \in Locked => holder[thread[t].id] = t

(* The copy of an oversized record is of the next record of the file its   *)
(* cursor is bound to, and is made by a drain of its session.              *)
JobFits(j) ==
    /\ j.source \in Sources /\ j.expected \in 0..MaxOffset
    /\ j.next = j.expected + 1 /\ j.event = <<j.source, j.next>>
    /\ j.next <= written[j.source]
    /\ j.stage = "renamed" => CursorMatches(j.key, j.expected, j.source)
JobsFit == \A w \in Writers : job[w] # Idle => JobFits(job[w])
JobsHaveDrains == \A w \in Writers : job[w] # Idle =>
    At(w) \in Preserving /\ job[w].key = thread[w].key

(* The rows of a session are the first records of its file.                *)
FirstRecords(s, n) == [i \in 1..n |-> <<s, i>>]
PrefixOf(k) ==
    IF SourceOf(k) = NoSource THEN rows[k] = <<>> /\ OffsetOf(k) = 0
    ELSE /\ OffsetOf(k) <= written[SourceOf(k)]
         /\ rows[k] = FirstRecords(SourceOf(k), OffsetOf(k))
RowsArePrefixes == \A k \in Keys : PrefixOf(k)

IngestInv ==
    /\ IInv /\ ThreadsFit /\ RegistryFits /\ FilesFit /\ LocksHeld
    /\ JobsFit /\ JobsHaveDrains /\ RowsArePrefixes

------------------------------------------------------------------------------
(* What ingestion does to the log.                                         *)
Run(s, off, n) == [i \in 1..n |-> <<s, off + i>>]
AppendsRun ==
    \E k \in Keys, s \in Sources, off \in 0..MaxOffset, n \in 1..MaxBatch :
        /\ off + n <= written[s] /\ \A i \in 1..n : <<s, off + i>> \in Ordinary
        /\ AppendAndAdvance(k, Run(s, off, n), off + n, off, s)
ReservesNext(w) ==
    \E k \in Keys, s \in Sources, off \in 0..MaxOffset :
        /\ off + 1 <= written[s] /\ <<s, off + 1>> \in Oversized
        /\ Reserve(w, k, <<s, off + 1>>, off + 1, off, s)
CopyGoesOn(w) ==
    \/ CreateTemp(w) \/ CreateFails(w) \/ FinishCopy(w) \/ AbandonCopy(w)
    \/ RenameTemp(w) \/ LoseRace(w) \/ CommitRow(w) \/ CommitFails(w)
    \/ DiscardCopy(w) \/ Release(w)
Rebinds(k) ==
    \/ \E s \in Sources, size \in 0..MaxOffset, force \in BOOLEAN :
          BindSource(k, s, size, force) \/ RebuildForSource(k, s, size, force)
    \/ FirstPrepare(k, ParserVersion) \/ RebuildForParser(k, ParserVersion)
    \/ ResetIngest(k)
    \/ PurgeSession(k)
LogUse ==
    \/ AppendsRun
    \/ \E w \in Writers : ReservesNext(w) \/ CopyGoesOn(w)
    \/ \E k \in Keys : Rebinds(k)
    \/ SweepBlob \/ Crash \/ Restart

(* The bounds are naturals, and an event is a record of a source.          *)
LEMMA BoundsAreNat ==
    /\ MaxOffset \in Nat /\ MaxBatch \in Nat
    /\ Events = Sources \X (1..MaxOffset) /\ NoSource \notin Sources
    /\ Oversized \subseteq Events /\ Ordinary \subseteq Events
BY LogAssumption, IngestAssumption DEF LogAssumption, IngestAssumption, Events

(* The uses of the log are steps of the log.                               *)
LEMMA UsesAreSteps == ASSUME FilesFit, LogUse PROVE Next
<1>1. CASE AppendsRun
  <2>1. PICK k \in Keys, s \in Sources, off \in 0..MaxOffset, n \in 1..MaxBatch :
           /\ off + n <= written[s] /\ \A i \in 1..n : <<s, off + i>> \in Ordinary
           /\ AppendAndAdvance(k, Run(s, off, n), off + n, off, s)
    BY <1>1 DEF AppendsRun
  <2>2. off + n \in (off + 1)..MaxOffset
    BY <2>1, BoundsAreNat DEF FilesFit
  <2>3. Run(s, off, n) \in [1..n -> Ordinary]
    BY <2>1 DEF Run
  <2>4. n \in 0..MaxBatch
    BY BoundsAreNat
  <2>5. Run(s, off, n) \in Batches
    BY <2>3, <2>4 DEF Batches
  <2> QED BY <2>1, <2>2, <2>5 DEF Next, AppendStep
<1>2. ASSUME NEW w \in Writers, ReservesNext(w) PROVE Next
  <2>1. PICK k \in Keys, s \in Sources, off \in 0..MaxOffset :
           /\ off + 1 <= written[s] /\ <<s, off + 1>> \in Oversized
           /\ Reserve(w, k, <<s, off + 1>>, off + 1, off, s)
    BY <1>2 DEF ReservesNext
  <2>2. off + 1 \in (off + 1)..MaxOffset
    BY <2>1, BoundsAreNat DEF FilesFit
  <2>3. PreserveStep(w)
    BY <2>1, <2>2 DEF PreserveStep
  <2> QED BY <2>3 DEF Next
<1>3. ASSUME NEW w \in Writers, CopyGoesOn(w) PROVE Next
  BY <1>3 DEF CopyGoesOn, Next, PreserveStep
<1>4. ASSUME NEW k \in Keys, Rebinds(k) PROVE Next
  <2>1. ParserVersion \in Parsers
    BY IngestAssumption DEF IngestAssumption
  <2>2. ResetStep
    BY <1>4, <2>1 DEF Rebinds, ResetStep
  <2> QED BY <2>2 DEF Next
<1> QED BY <1>1, <1>2, <1>3, <1>4 DEF LogUse, Next

------------------------------------------------------------------------------
(* The rows of a session, and the file they come from.                     *)
SourcesGrow == /\ written' \in [Sources -> 0..MaxOffset]
               /\ \A s \in Sources : written[s] <= written'[s]

(* A session has a source or none, and an offset.                          *)
LEMMA CursorKinds ==
    ASSUME TypeOK, NEW k \in Keys
    PROVE  SourceOf(k) \in Sources \cup {NoSource} /\ OffsetOf(k) \in Nat
BY CursorIsRow DEF TypeOK, SourceOf, HasCursor, Cursor

(* No records make no rows.                                                *)
LEMMA NoRecords == \A s : FirstRecords(s, 0) = <<>>
<1> SUFFICES ASSUME NEW s PROVE FirstRecords(s, 0) = <<>>
  OBVIOUS
<1>1. 1..0 = {}
  OBVIOUS
<1> QED BY <1>1 DEF FirstRecords

(* The next record after the first ones.                                   *)
LEMMA OneMoreRecord ==
    ASSUME NEW s, NEW off \in Nat
    PROVE  Append(FirstRecords(s, off), <<s, off + 1>>) = FirstRecords(s, off + 1)
<1>1. FirstRecords(s, off) \in Seq(Range(FirstRecords(s, off))) /\ Len(FirstRecords(s, off)) = off
  BY DEF FirstRecords, Range
<1>2. DOMAIN FirstRecords(s, off) = 1..off
  BY DEF FirstRecords
<1> QED BY <1>1, <1>2 DEF FirstRecords

(* The next records after the first ones.                                  *)
LEMMA MoreRecords ==
    ASSUME NEW s \in Sources, NEW off \in Nat, NEW n \in Nat
    PROVE  FirstRecords(s, off) \o Run(s, off, n) = FirstRecords(s, off + n)
<1> DEFINE A == FirstRecords(s, off)
           B == Run(s, off, n)
           C == FirstRecords(s, off + n)
<1>1. A \in Seq(Sources \X Nat) /\ Len(A) = off /\ \A i \in 1..off : A[i] = <<s, i>>
  BY DEF FirstRecords
<1>2. B \in Seq(Sources \X Nat) /\ Len(B) = n /\ \A i \in 1..n : B[i] = <<s, off + i>>
  BY DEF Run
<1>3. C \in Seq(Sources \X Nat) /\ Len(C) = off + n /\ \A i \in 1..(off + n) : C[i] = <<s, i>>
  BY DEF FirstRecords
<1> HIDE DEF A, B, C
<1> DEFINE D == A \o B
<1>4. /\ D \in Seq(Sources \X Nat) /\ Len(D) = off + n
      /\ \A i \in 1..(off + n) : D[i] = IF i <= off THEN A[i] ELSE B[i - off]
  BY <1>1, <1>2, ConcatProperties
<1> HIDE DEF D
<1>5. ASSUME NEW i \in 1..(off + n) PROVE D[i] = C[i]
  <2>1. D[i] = IF i <= off THEN A[i] ELSE B[i - off]
    BY <1>4
  <2>2. C[i] = <<s, i>>
    BY <1>3
  <2>3. CASE i <= off
    <3>1. i \in 1..off
      BY <2>3
    <3> QED BY <1>1, <2>1, <2>2, <2>3, <3>1
  <2>4. CASE ~(i <= off)
    <3>1. i - off \in 1..n /\ off + (i - off) = i
      BY <2>4
    <3>2. B[i - off] = <<s, i>>
      BY <3>1, <1>2
    <3> QED BY <2>1, <2>2, <2>4, <3>2
  <2> QED BY <2>3, <2>4
<1>6. D = C
  BY <1>3, <1>4, <1>5, SeqEqual
<1> QED BY <1>6 DEF A, B, C, D

(* Sources that grow leave a prefix a prefix.                              *)
LEMMA PrefixStays ==
    ASSUME TypeOK, FilesFit, SourcesGrow, NEW k \in Keys, PrefixOf(k), rows'[k] = rows[k],
           OffsetOf(k)' = OffsetOf(k), SourceOf(k)' = SourceOf(k)
    PROVE  PrefixOf(k)'
<1>1. CASE SourceOf(k) = NoSource
  BY <1>1 DEF PrefixOf
<1>2. CASE SourceOf(k) # NoSource
  <2>1. SourceOf(k) \in Sources /\ OffsetOf(k) \in Nat
    BY <1>2, CursorKinds
  <2>2. OffsetOf(k) <= written'[SourceOf(k)]
    BY <2>1, <1>2, BoundsAreNat DEF PrefixOf, SourcesGrow, FilesFit
  <2> QED BY <2>2, <1>2 DEF PrefixOf
<1> QED BY <1>1, <1>2

(* A session without rows is the prefix of any file.                       *)
LEMMA PrefixEmpty ==
    ASSUME SourcesGrow, NEW k \in Keys, rows'[k] = <<>>, OffsetOf(k)' = 0,
           SourceOf(k)' \in Sources \cup {NoSource}
    PROVE  PrefixOf(k)'
<1>1. FirstRecords(SourceOf(k)', 0) = <<>>
  BY NoRecords
<1>2. SourceOf(k)' # NoSource => 0 <= written'[SourceOf(k)']
  BY BoundsAreNat DEF SourcesGrow
<1> QED BY <1>1, <1>2 DEF PrefixOf

(* The records that follow make a longer prefix.                           *)
LEMMA PrefixGrows ==
    ASSUME FilesFit, SourcesGrow, NEW k \in Keys, PrefixOf(k), NEW s \in Sources, NEW n \in Nat,
           SourceOf(k) = s, SourceOf(k)' = s,
           NEW off \in Nat, OffsetOf(k) = off, OffsetOf(k)' = off + n, off + n <= written[s],
           \/ rows'[k] = rows[k] \o Run(s, off, n)
           \/ n = 1 /\ rows'[k] = Append(rows[k], <<s, off + 1>>)
    PROVE  PrefixOf(k)'
<1>1. rows[k] = FirstRecords(s, off)
  BY BoundsAreNat DEF PrefixOf
<1>2. rows'[k] = FirstRecords(s, off + n)
  <2>1. CASE rows'[k] = rows[k] \o Run(s, off, n)
    BY <1>1, <2>1, MoreRecords
  <2>2. CASE n = 1 /\ rows'[k] = Append(rows[k], <<s, off + 1>>)
    BY <1>1, <2>2, OneMoreRecord
  <2> QED BY <2>1, <2>2
<1>3. off + n <= written'[s]
  BY BoundsAreNat DEF SourcesGrow, FilesFit
<1> QED BY <1>2, <1>3, BoundsAreNat DEF PrefixOf

------------------------------------------------------------------------------
(* Each use of the log keeps rows and copies true to the files.            *)
TrueToFiles == JobsFit /\ RowsArePrefixes

(* What a copy is about does not change while the file grows.              *)
LEMMA JobStays ==
    ASSUME FilesFit, SourcesGrow, NEW j, JobFits(j), NEW w \in Writers,
           job'[w].source = j.source, job'[w].expected = j.expected, job'[w].next = j.next,
           job'[w].event = j.event,
           job'[w].stage = "renamed"
               => CursorMatches(job[w].key, job[w].expected, job[w].source)'
    PROVE  JobFits(job[w])'
<1>1. j.source \in Sources /\ j.next \in Nat
  BY BoundsAreNat DEF JobFits
<1>2. j.next <= written'[j.source]
  BY <1>1, BoundsAreNat DEF JobFits, SourcesGrow, FilesFit
<1> QED BY <1>1, <1>2 DEF JobFits

(* Where no copy has its final name, or no cursor moves, the copies stay   *)
(* what they are.                                                          *)
LEMMA JobsStay ==
    ASSUME TypeOK, FilesFit, SourcesGrow, JobsFit, job' = job,
           \/ \A w \in Writers : job[w].stage # "renamed"
           \/ \A k \in Keys : OffsetOf(k)' = OffsetOf(k) /\ SourceOf(k)' = SourceOf(k)
    PROVE  JobsFit'
<1> SUFFICES ASSUME NEW w \in Writers, job[w] # Idle PROVE JobFits(job[w])'
  BY DEF JobsFit
<1>1. JobFits(job[w]) /\ job[w].key \in Keys
  BY DEF JobsFit, TypeOK, Job
<1>2. job'[w].stage = "renamed"
        => CursorMatches(job[w].key, job[w].expected, job[w].source)'
  BY <1>1 DEF JobFits, CursorMatches
<1> QED BY <1>1, <1>2, JobStays

(* A free mutex means that no copy has its final name.                     *)
LEMMA FreeMeansNone == LockFree => \A w \in Writers : job[w].stage # "renamed"
BY DEF LockFree

(* A run of records is appended.                                           *)
LEMMA AppendsRunKeeps ==
    ASSUME TypeOK, FilesFit, SourcesGrow, TrueToFiles, AppendsRun
    PROVE  TrueToFiles'
<1>1. PICK k \in Keys, s \in Sources, off \in 0..MaxOffset, n \in 1..MaxBatch :
         /\ off + n <= written[s] /\ \A i \in 1..n : <<s, off + i>> \in Ordinary
         /\ AppendAndAdvance(k, Run(s, off, n), off + n, off, s)
  BY DEF AppendsRun
<1>2. LockFree /\ job' = job
  BY <1>1 DEF AppendAndAdvance, memory
<1>3. OffsetOf(k) = off /\ SourceOf(k) = s /\ HasCursor(k) /\ cursor[k] \in Cursor
  BY <1>1, CursorIsRow DEF AppendAndAdvance, CursorMatches
<1>4. /\ rows' = [rows EXCEPT ![k] = @ \o Run(s, off, n)]
      /\ cursor' = [cursor EXCEPT ![k].offset = off + n]
  BY <1>1 DEF AppendAndAdvance
<1>5. \A j \in Keys \ {k} : /\ rows'[j] = rows[j]
                            /\ OffsetOf(j)' = OffsetOf(j) /\ SourceOf(j)' = SourceOf(j)
  BY <1>4 DEF TypeOK, OffsetOf, SourceOf, HasCursor
<1>6. rows'[k] = rows[k] \o Run(s, off, n)
  BY <1>4 DEF TypeOK
<1>7. cursor'[k] = [cursor[k] EXCEPT !.offset = off + n]
  BY <1>4 DEF TypeOK
<1>8. off \in Nat /\ n \in Nat /\ off + n \in Nat
  BY BoundsAreNat
<1>9. cursor'[k] \in Cursor
  BY <1>3, <1>7, <1>8 DEF Cursor
<1>10. cursor'[k] # NoCursor
  BY <1>9, LogAssumption DEF LogAssumption, Cursor
<1>11. OffsetOf(k)' = off + n /\ SourceOf(k)' = s
  BY <1>3, <1>7, <1>10 DEF OffsetOf, SourceOf, HasCursor, Cursor
<1>12. PrefixOf(k)'
  BY <1>1, <1>3, <1>6, <1>8, <1>11, PrefixGrows DEF TrueToFiles, RowsArePrefixes
<1>13. \A j \in Keys \ {k} : PrefixOf(j)'
  BY <1>5, PrefixStays DEF TrueToFiles, RowsArePrefixes
<1>14. JobsFit'
  BY <1>2, <1>5, JobsStay, FreeMeansNone DEF TrueToFiles
<1> QED BY <1>12, <1>13, <1>14 DEF TrueToFiles, RowsArePrefixes

(* Where rows and cursors stay, only the copies have to be looked at.      *)
LEMMA RowsStay ==
    ASSUME TypeOK, FilesFit, SourcesGrow, TrueToFiles, UNCHANGED <<rows, cursor>>
    PROVE  /\ RowsArePrefixes'
           /\ \A k \in Keys : OffsetOf(k)' = OffsetOf(k) /\ SourceOf(k)' = SourceOf(k)
<1>1. \A k \in Keys : OffsetOf(k)' = OffsetOf(k) /\ SourceOf(k)' = SourceOf(k)
  BY DEF OffsetOf, SourceOf, HasCursor
<1>2. \A k \in Keys : PrefixOf(k)'
  BY <1>1, PrefixStays DEF TrueToFiles, RowsArePrefixes
<1> QED BY <1>1, <1>2 DEF RowsArePrefixes

(* The next record is an oversized one: it gets a copy of its own.         *)
LEMMA ReservesNextKeeps ==
    ASSUME TypeOK, FilesFit, SourcesGrow, TrueToFiles, NEW w \in Writers, ReservesNext(w)
    PROVE  TrueToFiles'
<1>1. PICK k \in Keys, s \in Sources, off \in 0..MaxOffset :
         /\ off + 1 <= written[s] /\ <<s, off + 1>> \in Oversized
         /\ Reserve(w, k, <<s, off + 1>>, off + 1, off, s)
  BY DEF ReservesNext
<1>2. UNCHANGED <<rows, cursor>>
  BY <1>1 DEF Reserve, database
<1>3. /\ job'[w] = [stage |-> "reserved", key |-> k, event |-> <<s, off + 1>>, expected |-> off,
                    next |-> off + 1, source |-> s, name |-> NoName]
      /\ \A v \in Writers \ {w} : job'[v] = job[v]
  BY <1>1 DEF Reserve, TypeOK
<1>4. JobFits(job[w])'
  <2>1. off + 1 <= written'[s]
    BY <1>1, BoundsAreNat DEF SourcesGrow, FilesFit
  <2> QED BY <1>3, <2>1 DEF JobFits
<1>5. ASSUME NEW v \in Writers \ {w}, job'[v] # Idle PROVE JobFits(job[v])'
  <2>1. JobFits(job[v]) /\ job[v].stage # "renamed"
    BY <1>1, <1>3, <1>5, FreeMeansNone DEF TrueToFiles, JobsFit, Reserve
  <2> QED BY <1>3, <1>5, <2>1, JobStays
<1>6. JobsFit'
  BY <1>4, <1>5 DEF JobsFit
<1> QED BY <1>2, <1>6, RowsStay DEF TrueToFiles

(* A copy takes its next step without touching rows and cursors.           *)
LEMMA CopyMoves ==
    ASSUME TypeOK, FilesFit, SourcesGrow, TrueToFiles, NEW w \in Writers,
           UNCHANGED <<rows, cursor>>, job[w] # Idle, \A v \in Writers \ {w} : job'[v] = job[v],
           \/ job'[w] = Idle
           \/ /\ job'[w].key = job[w].key /\ job'[w].source = job[w].source
              /\ job'[w].expected = job[w].expected /\ job'[w].next = job[w].next
              /\ job'[w].event = job[w].event
              /\ job'[w].stage = "renamed"
                   => CursorMatches(job[w].key, job[w].expected, job[w].source)
    PROVE  TrueToFiles'
<1>1. \A k \in Keys : OffsetOf(k)' = OffsetOf(k) /\ SourceOf(k)' = SourceOf(k)
  BY RowsStay
<1>2. ASSUME NEW v \in Writers, job[v] # Idle, job[v].stage = "renamed"
      PROVE  CursorMatches(job[v].key, job[v].expected, job[v].source)
  BY <1>2 DEF TrueToFiles, JobsFit, JobFits
<1>3. \A v \in Writers : job[v] # Idle => job[v].key \in Keys
  BY DEF TypeOK, Job
<1>4. ASSUME NEW v \in Writers \ {w}, job'[v] # Idle PROVE JobFits(job[v])'
  <2>1. /\ job'[v] = job[v] /\ JobFits(job[v]) /\ job[v].key \in Keys
        /\ job[v].stage = "renamed" => CursorMatches(job[v].key, job[v].expected, job[v].source)
    BY <1>2, <1>3, <1>4 DEF TrueToFiles, JobsFit
  <2>2. job'[v].stage = "renamed"
          => CursorMatches(job[v].key, job[v].expected, job[v].source)'
    BY <2>1, <1>1 DEF CursorMatches
  <2> QED BY <2>1, <2>2, JobStays
<1>5. ASSUME job'[w] # Idle PROVE JobFits(job[w])'
  <2>1. JobFits(job[w]) /\ job[w].key \in Keys
    BY <1>3 DEF TrueToFiles, JobsFit
  <2>2. job'[w].stage = "renamed"
          => CursorMatches(job[w].key, job[w].expected, job[w].source)'
    BY <1>5, <2>1, <1>1 DEF CursorMatches
  <2> QED BY <1>5, <2>1, <2>2, JobStays
<1> QED BY <1>4, <1>5, RowsStay DEF TrueToFiles, JobsFit

(* The row of a copied record is the next record of the file.              *)
LEMMA CommitRowKeeps ==
    ASSUME IInv, FilesFit, SourcesGrow, TrueToFiles, NEW w \in Writers, CommitRow(w)
    PROVE  TrueToFiles'
<1>1. TypeOK /\ job[w] # Idle /\ job[w] \in Job /\ job[w].stage = "renamed"
  BY StagesOfJobs DEF CommitRow, IInv, Idle
<1>2. JobFits(job[w]) /\ job[w].key \in Keys
  BY <1>1 DEF TrueToFiles, JobsFit, Job
<1>3. PICK k \in Keys, s \in Sources, off \in 0..MaxOffset :
        /\ k = job[w].key /\ s = job[w].source /\ off + 1 <= written[s]
        /\ job[w].next = off + 1 /\ job[w].event = <<s, off + 1>>
        /\ OffsetOf(k) = off /\ SourceOf(k) = s
  BY <1>1, <1>2 DEF JobFits, CursorMatches
<1>4. HasCursor(k) /\ cursor[k] \in Cursor
  BY <1>1, <1>2, <1>3, CursorIsRow
<1>5. /\ rows' = [rows EXCEPT ![k] = Append(@, <<s, off + 1>>)]
      /\ cursor' = [cursor EXCEPT ![k].offset = off + 1]
      /\ job' = [job EXCEPT ![w].stage = "returning"]
  BY <1>3 DEF CommitRow
<1>6. \A j \in Keys \ {k} : /\ rows'[j] = rows[j]
                            /\ OffsetOf(j)' = OffsetOf(j) /\ SourceOf(j)' = SourceOf(j)
  BY <1>1, <1>5 DEF TypeOK, OffsetOf, SourceOf, HasCursor
<1>7. rows'[k] = Append(rows[k], <<s, off + 1>>)
  BY <1>1, <1>2, <1>3, <1>5 DEF TypeOK
<1>8. cursor'[k] = [cursor[k] EXCEPT !.offset = off + 1]
  BY <1>1, <1>2, <1>3, <1>5 DEF TypeOK
<1>9. off \in Nat /\ off + 1 \in Nat
  BY <1>3, BoundsAreNat
<1>10. cursor'[k] \in Cursor
  BY <1>4, <1>8, <1>9 DEF Cursor
<1>11. cursor'[k] # NoCursor
  BY <1>10, LogAssumption DEF LogAssumption, Cursor
<1>12. OffsetOf(k)' = off + 1 /\ SourceOf(k)' = s
  <2>1. cursor'[k].offset = off + 1 /\ cursor'[k].source = cursor[k].source
    BY <1>4, <1>8 DEF Cursor
  <2>2. cursor[k].source = s
    BY <1>3, <1>4 DEF SourceOf
  <2> QED BY <2>1, <2>2, <1>11 DEF OffsetOf, SourceOf, HasCursor
<1>13. PrefixOf(k)'
  BY <1>3, <1>7, <1>9, <1>12, PrefixGrows DEF TrueToFiles, RowsArePrefixes
<1>14. \A j \in Keys \ {k} : PrefixOf(j)'
  BY <1>1, <1>6, PrefixStays DEF TrueToFiles, RowsArePrefixes
<1>15. ASSUME NEW v \in Writers, job'[v] # Idle PROVE JobFits(job[v])'
  <2>1. /\ job'[v].source = job[v].source /\ job'[v].expected = job[v].expected
        /\ job'[v].next = job[v].next /\ job'[v].event = job[v].event
        /\ job[v] # Idle
    BY <1>1, <1>5, <1>15 DEF TypeOK, Job
  <2>2. job'[v].stage # "renamed"
    BY <1>1, <1>5 DEF TypeOK, Job, IInv, RenamedIsExclusive
  <2>3. JobFits(job[v])
    BY <2>1 DEF TrueToFiles, JobsFit
  <2> QED BY <2>1, <2>2, <2>3, JobStays
<1> QED BY <1>13, <1>14, <1>15 DEF TrueToFiles, JobsFit, RowsArePrefixes

(* A copy goes on: it is still one of the next record.                     *)
LEMMA CopyKeeps ==
    ASSUME IInv, FilesFit, SourcesGrow, TrueToFiles, NEW w \in Writers, CopyGoesOn(w)
    PROVE  TrueToFiles'
<1>1. CASE CommitRow(w)
  BY <1>1, CommitRowKeeps
<1>2. CASE ~CommitRow(w)
  <2>1. TypeOK /\ job[w] # Idle
    BY <1>2 DEF CopyGoesOn, CreateTemp, CreateFails, FinishCopy, AbandonCopy, RenameTemp, LoseRace,
                CommitFails, DiscardCopy, Release, Idle, IInv
  <2>2. job[w] \in Job
    BY <2>1 DEF TypeOK
  <2>3. UNCHANGED <<rows, cursor>>
    BY <1>2 DEF CopyGoesOn, CreateTemp, CreateFails, FinishCopy, AbandonCopy, RenameTemp, LoseRace,
                CommitFails, DiscardCopy, Release, database
  <2>4. \/ \E st \in {"copying", "copied", "discarding", "returning", "renamed"} :
              \/ job' = [job EXCEPT ![w].stage = st]
              \/ \E n \in Names : job' = [job EXCEPT ![w].stage = st, ![w].name = n]
        \/ job' = [job EXCEPT ![w] = Idle]
    BY <1>2 DEF CopyGoesOn, CreateTemp, CreateFails, FinishCopy, AbandonCopy, RenameTemp, LoseRace,
                CommitFails, DiscardCopy, Release
  <2>5. \A v \in Writers \ {w} : job'[v] = job[v]
    BY <2>4, <2>1 DEF TypeOK
  <2>6. \/ job'[w] = Idle
        \/ /\ job'[w].key = job[w].key /\ job'[w].source = job[w].source
           /\ job'[w].expected = job[w].expected /\ job'[w].next = job[w].next
           /\ job'[w].event = job[w].event
    BY <2>1, <2>2, <2>4 DEF TypeOK, Job
  <2>7. job'[w].stage = "renamed" => CursorMatches(job[w].key, job[w].expected, job[w].source)
    BY <1>2, <2>1, <2>2 DEF CopyGoesOn, CreateTemp, CreateFails, FinishCopy, AbandonCopy,
         RenameTemp, LoseRace, CommitFails, DiscardCopy, Release, TypeOK, Job, Idle
  <2> QED BY <2>1, <2>3, <2>5, <2>6, <2>7, CopyMoves
<1> QED BY <1>1, <1>2

(* A cursor that begins anew.                                              *)
LEMMA CursorAnew ==
    ASSUME TypeOK, NEW k \in Keys, NEW c \in Cursor \cup {NoCursor}, c # NoCursor => c.offset = 0,
           cursor' = [cursor EXCEPT ![k] = c]
    PROVE  /\ OffsetOf(k)' = 0 /\ SourceOf(k)' \in Sources \cup {NoSource}
           /\ \A j \in Keys \ {k} : OffsetOf(j)' = OffsetOf(j) /\ SourceOf(j)' = SourceOf(j)
           /\ c # NoCursor => SourceOf(k)' = c.source
           /\ c = NoCursor => SourceOf(k)' = NoSource
<1>1. cursor'[k] = c /\ \A j \in Keys \ {k} : cursor'[j] = cursor[j]
  BY DEF TypeOK
<1>2. c # NoCursor => c.source \in Sources \cup {NoSource}
  BY DEF Cursor
<1> QED BY <1>1, <1>2 DEF OffsetOf, SourceOf, HasCursor

(* A new cursor, by the transaction that writes it.                        *)
LEMMA NewCursorAnew ==
    ASSUME TypeOK, NEW k \in Keys, Rebinds(k)
    PROVE  \/ \E s \in Sources : SourceOf(k) = NoSource /\ HasCursor(k)
                                 /\ cursor' = [cursor EXCEPT ![k].source = s]
           \/ \E p \in Parsers, g \in Nat \ {0}, s \in Sources \cup {NoSource} :
                 cursor' = [cursor EXCEPT ![k] = NewCursor(p, g, s)]
           \/ cursor' = [cursor EXCEPT ![k] = NoCursor]
<1>1. /\ HasCursor(k) => /\ cursor[k].parser \in Parsers /\ cursor[k].gen + 1 \in Nat \ {0}
                         /\ cursor[k].source \in Sources \cup {NoSource}
      /\ GenOf(k) + 1 \in Nat \ {0} /\ 1 \in Parsers /\ 1 \in Nat \ {0} /\ ParserVersion \in Parsers
  BY CursorIsRow, LogAssumption, IngestAssumption DEF LogAssumption, IngestAssumption, Cursor
<1>2. ASSUME NEW s \in Sources, NEW size, NEW force, BindSource(k, s, size, force)
      PROVE  \/ SourceOf(k) = NoSource /\ HasCursor(k) /\ cursor' = [cursor EXCEPT ![k].source = s]
             \/ cursor' = [cursor EXCEPT ![k] = NewCursor(1, 1, s)]
  BY <1>2 DEF BindSource
<1>3. ASSUME NEW s \in Sources, NEW size, NEW force, RebuildForSource(k, s, size, force)
      PROVE  /\ cursor' = [cursor EXCEPT ![k] = NewCursor(cursor[k].parser, cursor[k].gen + 1, s)]
             /\ HasCursor(k)
  BY <1>3 DEF RebuildForSource
<1>4. ASSUME FirstPrepare(k, ParserVersion)
      PROVE  cursor' = [cursor EXCEPT ![k] = NewCursor(ParserVersion, 1, NoSource)]
  BY <1>4 DEF FirstPrepare
<1>5. ASSUME RebuildForParser(k, ParserVersion)
      PROVE  /\ cursor' = [cursor EXCEPT ![k] =
                             NewCursor(ParserVersion, cursor[k].gen + 1, cursor[k].source)]
             /\ HasCursor(k)
  BY <1>5 DEF RebuildForParser
<1>6. ASSUME ResetIngest(k)
      PROVE  cursor' = [cursor EXCEPT ![k] = NewCursor(IF HasCursor(k) THEN cursor[k].parser ELSE 1,
                                                       GenOf(k) + 1, NoSource)]
  BY <1>6 DEF ResetIngest
<1>7. ASSUME PurgeSession(k) PROVE cursor' = [cursor EXCEPT ![k] = NoCursor]
  BY <1>7 DEF PurgeSession
<1> QED BY <1>1, <1>2, <1>3, <1>4, <1>5, <1>6, <1>7 DEF Rebinds

(* A rebound session has no rows: it had none, or they are dropped.        *)
LEMMA ReboundIsEmpty ==
    ASSUME TypeOK, FilesFit, RowsArePrefixes, NEW k \in Keys, Rebinds(k)
    PROVE  /\ LockFree /\ job' = job
           /\ rows'[k] = <<>> /\ OffsetOf(k)' = 0 /\ SourceOf(k)' \in Sources \cup {NoSource}
           /\ \A j \in Keys \ {k} : /\ rows'[j] = rows[j]
                                    /\ OffsetOf(j)' = OffsetOf(j) /\ SourceOf(j)' = SourceOf(j)
<1>1. LockFree /\ job' = job
  BY DEF Rebinds, BindSource, RebuildForSource, FirstPrepare, RebuildForParser, ResetIngest,
         PurgeSession, DropRows, memory
<1>2. ~HasCursor(k) \/ SourceOf(k) = NoSource => rows[k] = <<>> /\ OffsetOf(k) = 0
  BY DEF RowsArePrefixes, PrefixOf, SourceOf
<1>3. \/ rows' = [rows EXCEPT ![k] = <<>>]
      \/ rows' = rows /\ (~HasCursor(k) \/ SourceOf(k) = NoSource)
  BY DEF Rebinds, BindSource, RebuildForSource, FirstPrepare, RebuildForParser, ResetIngest,
         PurgeSession, DropRows
<1>4. rows'[k] = <<>> /\ \A j \in Keys \ {k} : rows'[j] = rows[j]
  BY <1>2, <1>3 DEF TypeOK
<1>5. ASSUME NEW s \in Sources, SourceOf(k) = NoSource, HasCursor(k),
             cursor' = [cursor EXCEPT ![k].source = s]
      PROVE  /\ OffsetOf(k)' = 0 /\ SourceOf(k)' \in Sources \cup {NoSource}
             /\ \A j \in Keys \ {k} : OffsetOf(j)' = OffsetOf(j) /\ SourceOf(j)' = SourceOf(j)
  <2> DEFINE c == [cursor[k] EXCEPT !.source = s]
  <2>1. cursor[k] \in Cursor /\ cursor[k].offset = 0
    BY <1>2, <1>5, CursorIsRow DEF OffsetOf
  <2>2. c \in Cursor /\ c.offset = 0
    BY <2>1 DEF Cursor
  <2>3. cursor' = [cursor EXCEPT ![k] = c]
    BY <1>5
  <2> HIDE DEF c
  <2> QED BY <2>2, <2>3, CursorAnew
<1>6. ASSUME NEW p \in Parsers, NEW g \in Nat \ {0}, NEW s \in Sources \cup {NoSource},
             cursor' = [cursor EXCEPT ![k] = NewCursor(p, g, s)]
      PROVE  /\ OffsetOf(k)' = 0 /\ SourceOf(k)' \in Sources \cup {NoSource}
             /\ \A j \in Keys \ {k} : OffsetOf(j)' = OffsetOf(j) /\ SourceOf(j)' = SourceOf(j)
  <2>1. NewCursor(p, g, s) \in Cursor
    BY NewCursorIsRow
  <2>2. NewCursor(p, g, s).offset = 0
    BY DEF NewCursor
  <2> QED BY <1>6, <2>1, <2>2, CursorAnew
<1>7. ASSUME cursor' = [cursor EXCEPT ![k] = NoCursor]
      PROVE  /\ OffsetOf(k)' = 0 /\ SourceOf(k)' \in Sources \cup {NoSource}
             /\ \A j \in Keys \ {k} : OffsetOf(j)' = OffsetOf(j) /\ SourceOf(j)' = SourceOf(j)
  BY <1>7, CursorAnew
<1> QED BY <1>1, <1>4, <1>5, <1>6, <1>7, NewCursorAnew

(* A use of the log, or none, leaves rows and copies true to the files.    *)
LEMMA LogStaysTrue ==
    ASSUME IInv, FilesFit, SourcesGrow, TrueToFiles, LogUse \/ UNCHANGED logVars
    PROVE  TrueToFiles'
<1> TypeOK
  BY DEF IInv
<1>1. CASE AppendsRun
  BY <1>1, AppendsRunKeeps
<1>2. ASSUME NEW w \in Writers, ReservesNext(w) PROVE TrueToFiles'
  BY <1>2, ReservesNextKeeps
<1>3. ASSUME NEW w \in Writers, CopyGoesOn(w) PROVE TrueToFiles'
  BY <1>3, CopyKeeps
<1>4. ASSUME NEW k \in Keys, Rebinds(k) PROVE TrueToFiles'
  <2>1. /\ LockFree /\ job' = job
        /\ rows'[k] = <<>> /\ OffsetOf(k)' = 0 /\ SourceOf(k)' \in Sources \cup {NoSource}
        /\ \A j \in Keys \ {k} : /\ rows'[j] = rows[j]
                                 /\ OffsetOf(j)' = OffsetOf(j) /\ SourceOf(j)' = SourceOf(j)
    BY <1>4, ReboundIsEmpty DEF TrueToFiles
  <2>2. PrefixOf(k)'
    BY <2>1, PrefixEmpty
  <2>3. \A j \in Keys \ {k} : PrefixOf(j)'
    BY <2>1, PrefixStays DEF TrueToFiles, RowsArePrefixes
  <2>4. JobsFit'
    BY <2>1, JobsStay, FreeMeansNone DEF TrueToFiles
  <2> QED BY <2>2, <2>3, <2>4 DEF TrueToFiles, RowsArePrefixes
<1>5. ASSUME UNCHANGED <<rows, cursor, job>> PROVE TrueToFiles'
  <2>1. /\ RowsArePrefixes'
        /\ \A k \in Keys : OffsetOf(k)' = OffsetOf(k) /\ SourceOf(k)' = SourceOf(k)
    BY <1>5, RowsStay
  <2>2. JobsFit'
    BY <1>5, <2>1, JobsStay DEF TrueToFiles
  <2> QED BY <2>1, <2>2 DEF TrueToFiles
<1>6. CASE Crash
  <2>1. UNCHANGED <<rows, cursor>> /\ job' = [w \in Writers |-> Idle]
    BY <1>6 DEF Crash, database
  <2>2. JobsFit'
    BY <2>1 DEF JobsFit
  <2> QED BY <2>1, <2>2, RowsStay DEF TrueToFiles
<1>7. SweepBlob \/ Restart \/ UNCHANGED logVars => UNCHANGED <<rows, cursor, job>>
  BY DEF SweepBlob, Restart, logVars, database
<1> QED BY <1>1, <1>2, <1>3, <1>4, <1>5, <1>6, <1>7 DEF LogUse

------------------------------------------------------------------------------
(* Steps of threads.                                                       *)
UsesLog == LogUse \/ UNCHANGED logVars

(* What is inductive for the log stays so under its uses.                  *)
LEMMA LogKeepsInv == ASSUME IInv, FilesFit, UsesLog PROVE IInv'
BY UsesAreSteps, LogInductive DEF UsesLog

(* A thread that goes to another point keeps what it carries.              *)
LEMMA Goes ==
    ASSUME NEW r \in ThreadRecords, NEW pc \in Pcs
    PROVE  /\ [r EXCEPT !.pc = pc] \in ThreadRecords
           /\ [r EXCEPT !.pc = pc].pc = pc
           /\ [r EXCEPT !.pc = pc].key = r.key /\ [r EXCEPT !.pc = pc].id = r.id
           /\ [r EXCEPT !.pc = pc].path = r.path /\ [r EXCEPT !.pc = pc].source = r.source
           /\ [r EXCEPT !.pc = pc].size = r.size /\ [r EXCEPT !.pc = pc].offset = r.offset
           /\ [r EXCEPT !.pc = pc].force = r.force
BY DEF ThreadRecords

(* A thread at rest carries nothing.                                       *)
LEMMA RestFits == \A t : Rest \in ThreadRecords /\ Rest.pc = "rest" /\ Shape(t, Rest)'
<1> SUFFICES ASSUME NEW t PROVE Rest \in ThreadRecords /\ Rest.pc = "rest" /\ Shape(t, Rest)'
  OBVIOUS
<1>1. Rest \in ThreadRecords
  BY BoundsAreNat DEF Rest, ThreadRecords, Pcs
<1>2. Rest.pc = "rest"
  BY DEF Rest
<1> QED BY <1>1, <1>2 DEF Shape, Ensuring, Locked, Reading, Copies, Preserving

(* Others are where they were, while files and registrations grow.         *)
LEMMA OthersStay ==
    ASSUME ThreadsFit, FilesFit, RegistryFits, SourcesGrow, Len(entry) <= Len(entry'),
           Len(entry') \in Nat,
           NEW s \in Threads, thread'[s] = thread[s]
    PROVE  Shape(s, thread[s])'
<1>1. Shape(s, thread[s]) /\ thread[s] \in ThreadRecords
  BY DEF ThreadsFit
<1>2. Opened(thread[s]) => Opened(thread[s])'
  BY <1>1, BoundsAreNat DEF Opened, SourcesGrow, FilesFit, ThreadRecords
<1>3. Len(entry) \in Nat
  BY DEF RegistryFits
<1>4. thread[s].id \in 1..Len(entry) => thread[s].id \in 1..Len(entry')
  BY <1>3
<1> QED BY <1>1, <1>2, <1>4 DEF Shape

(* A step of one thread: it fits where it arrives, holds its lock there,   *)
(* takes no lock from another, and only its own copy changes.              *)
LEMMA ThreadStep ==
    ASSUME IngestInv, NEW t \in Threads, NEW r, thread' = [thread EXCEPT ![t] = r], Shape(t, r)',
           RegistryFits', FilesFit', SourcesGrow, Len(entry) <= Len(entry'),
           r.pc \in Locked => holder'[r.id] = t,
           \A i \in 1..Len(entry) : holder[i] \notin {t, Nobody} => holder'[i] = holder[i],
           \A w \in Writers \ {t} : job'[w] = job[w],
           t \in Writers /\ job'[t] # Idle => r.pc \in Preserving /\ job'[t].key = r.key,
           UsesLog
    PROVE  IngestInv'
<1>1. thread'[t] = r /\ \A s \in Threads \ {t} : thread'[s] = thread[s]
  BY DEF IngestInv, ThreadsFit
<1>2. Len(entry') \in Nat
  BY DEF RegistryFits
<1>3. ThreadsFit'
  <2>1. \A s \in Threads \ {t} : Shape(s, thread[s])'
    BY <1>1, <1>2, OthersStay DEF IngestInv
  <2>2. Shape(t, thread[t])'
    BY <1>1 DEF Shape, Opened
  <2>3. \A s \in Threads : Shape(s, thread[s])'
    BY <2>1, <2>2
  <2>4. thread' \in [Threads -> ThreadRecords]
    BY <2>3 DEF Shape, IngestInv, ThreadsFit
  <2> QED BY <2>3, <2>4 DEF ThreadsFit
<1>4. LocksHeld'
  <2>1. ASSUME NEW s \in Threads \ {t}, At(s) \in Locked PROVE holder'[thread[s].id] = s
    <3>1. holder[thread[s].id] = s /\ thread[s].id \in 1..Len(entry)
      BY <2>1 DEF IngestInv, LocksHeld, ThreadsFit, Shape, At
    <3>2. s \notin {t, Nobody}
      BY IngestAssumption DEF IngestAssumption
    <3> QED BY <3>1, <3>2
  <2> QED BY <2>1, <1>1 DEF LocksHeld, At
<1>5. JobsHaveDrains'
  BY <1>1 DEF IngestInv, JobsHaveDrains, At
<1>6. IInv'
  BY LogKeepsInv DEF IngestInv
<1>7. TrueToFiles'
  BY LogStaysTrue DEF IngestInv, UsesLog, TrueToFiles
<1> QED BY <1>3, <1>4, <1>5, <1>6, <1>7 DEF IngestInv, TrueToFiles

(* A step that no thread makes.                                            *)
LEMMA WorldStep ==
    ASSUME IngestInv, thread' = thread, holder' = holder, job' = job, RegistryFits', FilesFit',
           SourcesGrow, Len(entry) <= Len(entry'), UsesLog
    PROVE  IngestInv'
<1>1. Len(entry') \in Nat
  BY DEF RegistryFits
<1>2. ThreadsFit'
  BY <1>1, OthersStay DEF IngestInv, ThreadsFit
<1>3. LocksHeld' /\ JobsHaveDrains'
  BY DEF IngestInv, LocksHeld, JobsHaveDrains, At
<1>4. IInv'
  BY LogKeepsInv DEF IngestInv
<1>5. TrueToFiles'
  BY LogStaysTrue DEF IngestInv, UsesLog, TrueToFiles
<1> QED BY <1>2, <1>3, <1>4, <1>5 DEF IngestInv, TrueToFiles

------------------------------------------------------------------------------
(* Files grow; the budget is spent.                                        *)
LEMMA FilesStay ==
    ASSUME FilesFit, UNCHANGED <<file, written, current, budget>>
    PROVE  FilesFit' /\ SourcesGrow
BY BoundsAreNat DEF FilesFit, SourcesGrow

(* What the environment does is taken from the budget.                     *)
LEMMA BudgetIsSpent ==
    ASSUME budget \in BudgetRecord, NEW what \in {"faults", "crashes", "resumes"}, Spend(what)
    PROVE  budget' \in BudgetRecord
BY DEF BudgetRecord, Spend

(* Registrations nobody touches still fit.                                 *)
LEMMA RegistryStays ==
    ASSUME RegistryFits, UNCHANGED <<entry, session, holder>>, errors' \in SUBSET Keys
    PROVE  RegistryFits' /\ Len(entry) <= Len(entry')
<1>1. Len(entry) \in Nat
  BY DEF RegistryFits
<1> QED BY <1>1 DEF RegistryFits

(* One element of a sequence is replaced.                                  *)
LEMMA EntryChanges ==
    ASSUME RegistryFits, NEW i \in 1..Len(entry), NEW e \in Entries,
           entry' = [entry EXCEPT ![i] = e]
    PROVE  entry' \in Seq(Entries) /\ Len(entry') = Len(entry)
BY ExceptSeq DEF RegistryFits

(* The lock of one object changes hands.                                   *)
LEMMA HolderChanges ==
    ASSUME RegistryFits, NEW i \in 1..Len(entry), NEW t \in Threads \cup {Nobody},
           holder' = [holder EXCEPT ![i] = t]
    PROVE  /\ holder' \in Seq(Threads \cup {Nobody}) /\ Len(holder') = Len(holder)
           /\ holder'[i] = t /\ \A j \in 1..Len(entry) : j # i => holder'[j] = holder[j]
BY ExceptSeq DEF RegistryFits

(* A session is unregistered; the object stays.                            *)
LEMMA UnregisterKeeps ==
    ASSUME RegistryFits, NEW k \in Keys, Unregister(k), holder' = holder
    PROVE  RegistryFits' /\ Len(entry') = Len(entry)
<1>1. session[k] \in 1..Len(entry)
  BY DEF RegistryFits, Unregister
<1>2. entry[session[k]] \in Entries
  BY <1>1 DEF RegistryFits
<1>3. [entry[session[k]] EXCEPT !.ready = FALSE, !.watch = FALSE] \in Entries
  BY <1>2 DEF Entries
<1>4. entry' = [entry EXCEPT ![session[k]] =
                  [entry[session[k]] EXCEPT !.ready = FALSE, !.watch = FALSE]]
  BY DEF Unregister
<1>5. entry' \in Seq(Entries) /\ Len(entry') = Len(entry)
  BY <1>1, <1>3, <1>4, EntryChanges
<1>6. session' \in [Keys -> (1..Len(entry)) \cup {NoEntry}] /\ errors' \in SUBSET Keys
  BY DEF RegistryFits, Unregister
<1> QED BY <1>5, <1>6 DEF RegistryFits

(* The provider, the watcher and the queue.                                *)
LEMMA ProviderKeeps == ASSUME IngestInv, Provider PROVE IngestInv'
<1>1. PICK p \in Paths : \/ WriteRecord(p)
                         \/ \E s \in Sources, n \in 0..MaxOffset : ReplaceFile(p, s, n)
                         \/ \E k \in Keys : Resume(k, p)
  BY DEF Provider
<1>2. /\ UsesLog /\ thread' = thread /\ holder' = holder /\ job' = job
      /\ UNCHANGED <<entry, session, errors>>
  BY <1>1 DEF WriteRecord, ReplaceFile, Resume, UsesLog, logVars, registry, control
<1>3. RegistryFits' /\ Len(entry) <= Len(entry')
  BY <1>2, RegistryStays DEF IngestInv, RegistryFits
<1>4. FilesFit' /\ SourcesGrow
  <2>1. FilesFit
    BY DEF IngestInv
  <2>2. CASE WriteRecord(p)
    <3>1. file[p] \in Sources /\ written[file[p]] \in 0..MaxOffset
      BY <2>1, <2>2 DEF WriteRecord, FilesFit
    <3>2. written[file[p]] + 1 \in 0..MaxOffset
      BY <2>1, <2>2, <3>1, BoundsAreNat DEF WriteRecord, FilesFit, BudgetRecord
    <3>3. written' = [written EXCEPT ![file[p]] = @ + 1] /\ UNCHANGED <<file, current, budget>>
      BY <2>2 DEF WriteRecord
    <3>4. SourcesGrow
      BY <2>1, <3>1, <3>2, <3>3, BoundsAreNat DEF SourcesGrow, FilesFit
    <3> QED BY <2>1, <3>3, <3>4 DEF FilesFit, SourcesGrow
  <2>3. ASSUME NEW s \in Sources, NEW n \in 0..MaxOffset, ReplaceFile(p, s, n)
        PROVE  FilesFit' /\ SourcesGrow
    <3>1. /\ written' = [written EXCEPT ![s] = n] /\ UNCHANGED <<current, budget>>
          /\ file' = [file EXCEPT ![p] = s] /\ written[s] = 0
      BY <2>3 DEF ReplaceFile
    <3>2. SourcesGrow
      BY <2>1, <3>1, BoundsAreNat DEF SourcesGrow, FilesFit
    <3> QED BY <2>1, <3>1, <3>2 DEF FilesFit, SourcesGrow
  <2>4. ASSUME NEW k \in Keys, Resume(k, p) PROVE FilesFit' /\ SourcesGrow
    <3>1. /\ current' = [current EXCEPT ![k] = p] /\ UNCHANGED <<file, written>>
          /\ Spend("resumes")
      BY <2>4 DEF Resume
    <3>2. budget' \in BudgetRecord
      BY <2>1, <3>1, BudgetIsSpent DEF FilesFit
    <3> QED BY <2>1, <3>1, <3>2, BoundsAreNat DEF FilesFit, SourcesGrow
  <2> QED BY <1>1, <2>2, <2>3, <2>4
<1> QED BY <1>2, <1>3, <1>4, WorldStep

(* The watcher's queue and the worker's batch.                             *)
LEMMA QueueKeeps ==
    ASSUME IngestInv,
           \/ \E p \in Paths : RegisterFile(p)
           \/ \E kept \in SUBSET wakes : Overflow(kept)
           \/ Collect
    PROVE  IngestInv'
<1>1. /\ UsesLog /\ thread' = thread /\ holder' = holder /\ job' = job
      /\ UNCHANGED <<entry, session, errors, file, written, current, budget>>
  BY DEF RegisterFile, Overflow, Collect, UsesLog, logVars, registry, environment
<1>2. RegistryFits' /\ Len(entry) <= Len(entry')
  BY <1>1, RegistryStays DEF IngestInv, RegistryFits
<1>3. FilesFit' /\ SourcesGrow
  BY <1>1, FilesStay DEF IngestInv
<1> QED BY <1>1, <1>2, <1>3, WorldStep

(* The eviction of a session.                                              *)
LEMMA EvictKeeps == ASSUME IngestInv, NEW k \in Keys, Evict(k) PROVE IngestInv'
<1>1. /\ UsesLog /\ thread' = thread /\ holder' = holder /\ job' = job
      /\ UNCHANGED <<file, written, current, budget>>
  BY DEF Evict, UsesLog, logVars, environment
<1>2. RegistryFits' /\ Len(entry') = Len(entry) /\ Len(entry) \in Nat
  BY <1>1, UnregisterKeeps DEF IngestInv, Evict, RegistryFits
<1>3. FilesFit' /\ SourcesGrow
  BY <1>1, FilesStay DEF IngestInv
<1> QED BY <1>1, <1>2, <1>3, WorldStep

(* The log's own steps: the sweep and the restart.                         *)
LEMMA SweepAndRestartKeep ==
    ASSUME IngestInv, IngestSweep \/ IngestRestart
    PROVE  IngestInv' /\ UsesLog
<1>1. /\ UsesLog /\ thread' = thread /\ holder' = holder /\ job' = job
      /\ UNCHANGED <<entry, session, errors, file, written, current, budget>>
  BY DEF IngestSweep, IngestRestart, SweepBlob, Restart, UsesLog, LogUse, registry, control,
         environment
<1>2. RegistryFits' /\ Len(entry) <= Len(entry')
  BY <1>1, RegistryStays DEF IngestInv, RegistryFits
<1>3. FilesFit' /\ SourcesGrow
  BY <1>1, FilesStay DEF IngestInv
<1> QED BY <1>1, <1>2, <1>3, WorldStep

(* A crash ends every thread and every registration.                       *)
LEMMA CrashKeeps == ASSUME IngestInv, IngestCrash PROVE IngestInv' /\ UsesLog
<1>1. /\ Crash /\ entry' = <<>> /\ holder' = <<>> /\ session' = [k \in Keys |-> NoEntry]
      /\ errors' = {} /\ thread' = [t \in Threads |-> Rest] /\ Spend("crashes")
      /\ UNCHANGED <<file, written, current>>
  BY DEF IngestCrash, environment
<1>2. RegistryFits'
  BY <1>1, EmptySeq DEF RegistryFits
<1>3. FilesFit' /\ SourcesGrow
  <2>1. budget' \in BudgetRecord
    BY <1>1, BudgetIsSpent DEF IngestInv, FilesFit
  <2> QED BY <1>1, <2>1, BoundsAreNat DEF IngestInv, FilesFit, SourcesGrow
<1>4. UsesLog /\ \A w \in Writers : job'[w] = Idle
  BY <1>1 DEF UsesLog, LogUse, Crash
<1>5. \A t \in Threads : thread'[t] = Rest
  BY <1>1
<1>6. ThreadsFit'
  <2>1. ASSUME NEW t \in Threads PROVE Shape(t, thread[t])'
    BY <1>5, RestFits DEF Shape, Opened
  <2> QED BY <1>1, <2>1, RestFits DEF ThreadsFit
<1>7. LocksHeld' /\ JobsHaveDrains'
  BY <1>4, <1>5, RestFits DEF LocksHeld, JobsHaveDrains, At, Locked, Copies, Preserving
<1>8. IInv'
  BY <1>4, LogKeepsInv DEF IngestInv
<1>9. TrueToFiles'
  BY <1>3, <1>4, LogStaysTrue DEF IngestInv, UsesLog, TrueToFiles
<1> QED BY <1>2, <1>3, <1>4, <1>6, <1>7, <1>8, <1>9 DEF IngestInv, TrueToFiles

------------------------------------------------------------------------------
(* A step of a thread that changes neither registrations nor files: it     *)
(* stays inside or outside, takes a free lock, or gives its own back.      *)
LEMMA Walks ==
    ASSUME IngestInv, NEW t \in Threads, NEW r, thread' = [thread EXCEPT ![t] = r], Shape(t, r),
           UNCHANGED <<written, entry, session>>, errors' \in SUBSET Keys, FilesFit',
           \/ holder' = holder /\ (r.pc \in Locked => At(t) \in Locked /\ r.id = thread[t].id)
           \/ r.pc \in Locked /\ Free(r.id) /\ holder' = [holder EXCEPT ![r.id] = t]
           \/ r.pc \notin Locked /\ At(t) \in Locked /\ Unlock(t),
           \A w \in Writers \ {t} : job'[w] = job[w],
           t \in Writers /\ job'[t] # Idle => r.pc \in Preserving /\ job'[t].key = r.key,
           UsesLog
    PROVE  IngestInv'
<1>1. RegistryFits /\ Shape(t, thread[t]) /\ (At(t) \in Locked => holder[thread[t].id] = t)
  BY DEF IngestInv, ThreadsFit, LocksHeld
<1>2. Shape(t, r)'
  BY DEF Shape, Opened
<1>3. SourcesGrow
  BY BoundsAreNat DEF SourcesGrow, FilesFit
<1>4. /\ RegistryFits'
      /\ r.pc \in Locked => holder'[r.id] = t
      /\ \A i \in 1..Len(entry) : holder[i] \notin {t, Nobody} => holder'[i] = holder[i]
  <2>1. CASE holder' = holder /\ (r.pc \in Locked => At(t) \in Locked /\ r.id = thread[t].id)
    BY <1>1, <2>1 DEF RegistryFits
  <2>2. CASE r.pc \in Locked /\ Free(r.id) /\ holder' = [holder EXCEPT ![r.id] = t]
    <3>1. r.id \in 1..Len(entry) /\ holder[r.id] = Nobody
      BY <2>2 DEF Shape, Free
    <3> QED BY <1>1, <2>2, <3>1, HolderChanges DEF RegistryFits
  <2>3. CASE r.pc \notin Locked /\ At(t) \in Locked /\ Unlock(t)
    <3>1. thread[t].id \in 1..Len(entry) /\ holder[thread[t].id] = t
      BY <1>1, <2>3 DEF Shape, At
    <3>2. holder' = [holder EXCEPT ![thread[t].id] = Nobody]
      BY <2>3 DEF Unlock
    <3> QED BY <1>1, <2>3, <3>1, <3>2, HolderChanges DEF RegistryFits
  <2> QED BY <2>1, <2>2, <2>3
<1>5. Len(entry) <= Len(entry')
  BY <1>1 DEF RegistryFits
<1> QED BY <1>2, <1>3, <1>4, <1>5, ThreadStep

(* A thread that copies nothing has no copy.                               *)
LEMMA NoCopy ==
    ASSUME IngestInv, NEW t \in Threads, At(t) \notin Preserving, job' = job
    PROVE  /\ \A w \in Writers \ {t} : job'[w] = job[w]
           /\ t \in Writers => job'[t] = Idle
BY DEF IngestInv, JobsHaveDrains

(* A step that leaves the log and the files alone.                         *)
LEMMA WalksQuietly ==
    ASSUME IngestInv, NEW t \in Threads, NEW r, thread' = [thread EXCEPT ![t] = r], Shape(t, r),
           UNCHANGED <<logVars, file, written, current, entry, session>>,
           errors' \in SUBSET Keys, budget' \in BudgetRecord,
           \/ holder' = holder /\ (r.pc \in Locked => At(t) \in Locked /\ r.id = thread[t].id)
           \/ r.pc \in Locked /\ Free(r.id) /\ holder' = [holder EXCEPT ![r.id] = t]
           \/ r.pc \notin Locked /\ At(t) \in Locked /\ Unlock(t),
           At(t) \notin Preserving
    PROVE  IngestInv'
<1>1. UsesLog /\ job' = job
  BY DEF UsesLog, logVars
<1>2. FilesFit'
  BY DEF IngestInv, FilesFit
<1> QED BY <1>1, <1>2, NoCopy, Walks

(* What a thread carries, as long as it carries it.                        *)
LEMMA Carries ==
    ASSUME IngestInv, NEW t \in Threads
    PROVE  /\ thread[t] \in ThreadRecords /\ Shape(t, thread[t])
           /\ At(t) # "rest" => thread[t].key \in Keys
           /\ At(t) \in Ensuring => thread[t].path \in Paths
           /\ At(t) \in Locked \cup {"ensureLock", "lock"} => thread[t].id \in 1..Len(entry)
           /\ At(t) \in Reading \/ (At(t) \in Ensuring /\ t \in Tails) => Opened(thread[t])
           /\ errors \in SUBSET Keys /\ budget \in BudgetRecord
BY DEF IngestInv, ThreadsFit, Shape, At, RegistryFits, FilesFit

(* A thread at rest fits.                                                  *)
LEMMA RestIsFit == ASSUME NEW t PROVE Rest.pc = "rest" /\ Shape(t, Rest)
<1>1. Rest \in ThreadRecords
  BY BoundsAreNat DEF Rest, ThreadRecords, Pcs
<1>2. Rest.pc = "rest"
  BY DEF Rest
<1> QED BY <1>1, <1>2 DEF Shape, Ensuring, Locked, Reading, Copies, Preserving

(* A thread that goes on with what it carries.                             *)
GoneTo(t, pc) == [thread[t] EXCEPT !.pc = pc]
(* It fits where it goes, if it has what is needed there.                  *)
LEMMA GoesFit ==
    ASSUME IngestInv, NEW t \in Threads, NEW pc \in Pcs \ {"rest"}, At(t) # "rest",
           pc \in Ensuring => At(t) \in Ensuring,
           pc \in Locked \cup {"ensureLock", "lock"}
               => At(t) \in Locked \cup {"ensureLock", "lock"},
           pc \in Reading => At(t) \in Reading \/ (At(t) \in Ensuring /\ t \in Tails)
    PROVE  /\ Shape(t, GoneTo(t, pc))
           /\ GoneTo(t, pc).pc = pc /\ GoneTo(t, pc).id = thread[t].id
           /\ GoneTo(t, pc).key = thread[t].key
<1>1. thread[t] \in ThreadRecords
  BY Carries
<1> DEFINE r == GoneTo(t, pc)
<1>2. /\ r \in ThreadRecords /\ r.pc = pc /\ r.key = thread[t].key /\ r.id = thread[t].id
      /\ r.path = thread[t].path /\ r.source = thread[t].source /\ r.size = thread[t].size
  BY <1>1, Goes DEF GoneTo
<1> HIDE DEF r
<1>3. Opened(thread[t]) => Opened(r)
  BY <1>2 DEF Opened
<1>4. Shape(t, r)
  BY <1>2, <1>3, Carries DEF Shape
<1> QED BY <1>2, <1>4 DEF r

(* ensure: the caller resolves the transcript.                             *)
LEMMA ResolveKeeps ==
    ASSUME IngestInv, NEW t \in Threads, NEW k \in Keys, Resolve(t, k)
    PROVE  IngestInv'
<1>1. PICK p, src, sz :
         /\ p = current[k]
         /\ src = IF t \in Tails THEN file[current[k]] ELSE NoSource
         /\ sz = IF t \in Tails THEN written[file[current[k]]] ELSE 0
  OBVIOUS
<1>2. PICK r : r = [Rest EXCEPT !.pc = "ensure", !.key = k, !.path = p, !.source = src, !.size = sz]
  OBVIOUS
<1>3. thread' = [thread EXCEPT ![t] = r] /\ At(t) = "rest"
  BY <1>1, <1>2 DEF Resolve
<1>4. /\ UNCHANGED <<logVars, file, written, current, entry, session, errors, budget>>
      /\ holder' = holder
  BY DEF Resolve, environment, registry, control
<1>5. /\ p \in Paths /\ src \in Sources \cup {NoSource} /\ sz \in 0..MaxOffset
      /\ t \in Tails => src \in Sources /\ sz <= written[src]
  <2>1. current[k] \in Paths /\ file[current[k]] \in Sources
        /\ written[file[current[k]]] \in 0..MaxOffset
    BY DEF IngestInv, FilesFit, Resolve
  <2> QED BY <2>1, <1>1, BoundsAreNat
<1>6. r = [pc |-> "ensure", key |-> k, id |-> NoEntry, path |-> p,
           source |-> src, size |-> sz, offset |-> 0, force |-> FALSE]
  BY <1>2 DEF Rest
<1>7. /\ r \in ThreadRecords /\ r.pc = "ensure" /\ r.key = k /\ r.path = p
      /\ r.source = src /\ r.size = sz
  BY <1>5, <1>6, BoundsAreNat DEF ThreadRecords, Pcs, Ensuring
<1>8. t \in Tails => Opened(r)
  BY <1>5, <1>7 DEF Opened
<1>9. Shape(t, r)
  BY <1>5, <1>7, <1>8 DEF Shape, Ensuring, Locked, Reading, Copies, Preserving
<1>10. r.pc \notin Locked /\ At(t) \notin Preserving
  BY <1>3, <1>7 DEF Locked, Copies, Preserving
<1>11. errors' \in SUBSET Keys /\ budget' \in BudgetRecord
  BY <1>4, Carries
<1> QED BY <1>3, <1>4, <1>9, <1>10, <1>11, WalksQuietly

(* ensure finds the registered object.                                     *)
LEMMA EnsureFindKeeps ==
    ASSUME IngestInv, NEW t \in Threads, EnsureFind(t)
    PROVE  IngestInv'
<1> DEFINE i == session[thread[t].key]
           r == [thread[t] EXCEPT !.pc = "ensureLock", !.id = i]
<1>1. At(t) = "ensure" /\ thread' = [thread EXCEPT ![t] = r]
  BY DEF EnsureFind
<1>2. thread[t] \in ThreadRecords /\ thread[t].key \in Keys /\ thread[t].path \in Paths
  BY <1>1, Carries DEF Ensuring
<1>3. i \in 1..Len(entry) /\ i \in Nat
  BY <1>2 DEF EnsureFind, IngestInv, RegistryFits
<1>4. /\ r \in ThreadRecords /\ r.pc = "ensureLock" /\ r.key = thread[t].key /\ r.id = i
      /\ r.path = thread[t].path /\ r.source = thread[t].source /\ r.size = thread[t].size
  BY <1>2, <1>3 DEF ThreadRecords, Pcs, Ensuring
<1>5. /\ UNCHANGED <<logVars, file, written, current, entry, session, errors, budget>>
      /\ holder' = holder
  BY DEF EnsureFind, environment, registry, control
<1> HIDE DEF r, i
<1>6. t \in Tails => Opened(r)
  BY <1>1, <1>4, Carries DEF Opened, Ensuring
<1>7. Shape(t, r)
  BY <1>2, <1>3, <1>4, <1>6 DEF Shape, Ensuring, Locked, Reading, Copies, Preserving
<1>8. r.pc \notin Locked /\ At(t) \notin Preserving
  BY <1>1, <1>4 DEF Locked, Copies, Preserving
<1>9. errors' \in SUBSET Keys /\ budget' \in BudgetRecord
  BY <1>5, Carries
<1> QED BY <1>1, <1>5, <1>7, <1>8, <1>9, WalksQuietly

(* A new object is published with its lock taken.                          *)
LEMMA EnsureCreateKeeps ==
    ASSUME IngestInv, NEW t \in Threads, EnsureCreate(t)
    PROVE  IngestInv'
<1> DEFINE n == Len(entry) + 1
           e == [key |-> thread[t].key, path |-> thread[t].path, ready |-> FALSE, watch |-> FALSE]
<1>0. PICK r : r = [thread[t] EXCEPT !.pc = "prepare", !.id = n]
  OBVIOUS
<1>1. At(t) = "ensure" /\ thread' = [thread EXCEPT ![t] = r]
  BY <1>0 DEF EnsureCreate
<1>2. thread[t] \in ThreadRecords /\ thread[t].key \in Keys /\ thread[t].path \in Paths
  BY <1>1, Carries DEF Ensuring
<1>3. Len(entry) \in Nat /\ n \in Nat /\ Len(holder) = Len(entry)
  BY DEF IngestInv, RegistryFits
<1>4. /\ r \in ThreadRecords /\ r.pc = "prepare" /\ r.key = thread[t].key /\ r.id = n
      /\ r.path = thread[t].path /\ r.source = thread[t].source /\ r.size = thread[t].size
  BY <1>0, <1>2, <1>3 DEF ThreadRecords, Pcs, Ensuring
<1>5. /\ UNCHANGED <<logVars, file, written, current, errors, budget>>
      /\ entry' = Append(entry, e) /\ holder' = Append(holder, t)
      /\ session' = [session EXCEPT ![thread[t].key] = n]
  BY DEF EnsureCreate, environment, control
<1>6. e \in Entries
  BY <1>2 DEF Entries
<1> HIDE DEF e
<1>7. entry' \in Seq(Entries) /\ Len(entry') = n
  BY <1>5, <1>6, AppendProperties DEF IngestInv, RegistryFits
<1>8. /\ holder' \in Seq(Threads \cup {Nobody}) /\ Len(holder') = n /\ holder'[n] = t
      /\ \A i \in 1..Len(entry) : holder'[i] = holder[i]
  BY <1>3, <1>5, AppendProperties DEF IngestInv, RegistryFits
<1> HIDE DEF n
<1>9. n = Len(entry) + 1 /\ n \in 1..n /\ \A i \in 1..Len(entry) : i \in 1..n
  BY <1>3 DEF n
<1>10. RegistryFits'
  <2>1. session' \in [Keys -> (1..n) \cup {NoEntry}]
    <3>1. session \in [Keys -> (1..Len(entry)) \cup {NoEntry}]
      BY DEF IngestInv, RegistryFits
    <3>2. \A k \in Keys : session[k] \in (1..n) \cup {NoEntry}
      BY <3>1, <1>9
    <3> HIDE DEF n
    <3> QED BY <3>1, <3>2, <1>5, <1>9
  <2> QED BY <2>1, <1>5, <1>7, <1>8 DEF IngestInv, RegistryFits
<1>11. t \in Tails => Opened(r)'
  <2>1. t \in Tails => Opened(thread[t])
    BY <1>1, Carries DEF Ensuring
  <2> QED BY <2>1, <1>4, <1>5 DEF Opened
<1>12. Shape(t, r)'
  BY <1>2, <1>4, <1>7, <1>9, <1>11 DEF Shape, Ensuring, Locked, Reading, Copies, Preserving
<1>13. UsesLog /\ job' = job
  BY <1>5 DEF UsesLog, logVars
<1>14. /\ \A w \in Writers \ {t} : job'[w] = job[w]
       /\ t \in Writers => job'[t] = Idle
  BY <1>1, <1>13, NoCopy DEF Preserving
<1>15. FilesFit' /\ SourcesGrow
  BY <1>5, FilesStay DEF IngestInv
<1>16. Len(entry) <= Len(entry') /\ holder'[r.id] = t
  BY <1>3, <1>4, <1>7, <1>8, <1>9
<1>17. \A i \in 1..Len(entry) : holder[i] \notin {t, Nobody} => holder'[i] = holder[i]
  BY <1>8
<1>18. t \in Writers /\ job'[t] # Idle => r.pc \in Preserving /\ job'[t].key = r.key
  BY <1>14
<1> QED BY <1>1, <1>10, <1>12, <1>13, <1>14, <1>15, <1>16, <1>17, <1>18, ThreadStep

(* A step that ends what a thread does, without the log.                   *)
LEMMA RestsQuietly ==
    ASSUME IngestInv, NEW t \in Threads, thread' = [thread EXCEPT ![t] = Rest],
           UNCHANGED <<logVars, file, written, current, entry, session>>,
           errors' \in SUBSET Keys, budget' \in BudgetRecord,
           holder' = holder \/ (At(t) \in Locked /\ Unlock(t)),
           At(t) \notin Preserving
    PROVE  IngestInv'
<1>1. PICK r : r = Rest
  OBVIOUS
<1>2. r.pc = "rest" /\ Shape(t, r) /\ thread' = [thread EXCEPT ![t] = r]
  BY <1>1, RestIsFit
<1>3. r.pc \notin Locked
  BY <1>2 DEF Locked, Copies, Preserving
<1> QED BY <1>2, <1>3, WalksQuietly

(* A step that takes a thread further, without the log.                    *)
LEMMA GoesQuietly ==
    ASSUME IngestInv, NEW t \in Threads, NEW pc \in Pcs \ {"rest"}, At(t) # "rest",
           thread' = [thread EXCEPT ![t].pc = pc],
           pc \in Ensuring => At(t) \in Ensuring,
           pc \in Locked \cup {"ensureLock", "lock"}
               => At(t) \in Locked \cup {"ensureLock", "lock"},
           pc \in Reading => At(t) \in Reading \/ (At(t) \in Ensuring /\ t \in Tails),
           UNCHANGED <<logVars, file, written, current, entry, session>>,
           errors' \in SUBSET Keys, budget' \in BudgetRecord,
           \/ holder' = holder /\ (pc \in Locked => At(t) \in Locked)
           \/ pc \in Locked /\ Free(thread[t].id) /\ holder' = [holder EXCEPT ![thread[t].id] = t],
           At(t) \notin Preserving
    PROVE  IngestInv'
<1>1. PICK r : r = GoneTo(t, pc)
  OBVIOUS
<1>2. thread' = [thread EXCEPT ![t] = r]
  BY <1>1 DEF GoneTo
<1>3. Shape(t, r) /\ r.pc = pc /\ r.id = thread[t].id
  BY <1>1, GoesFit
<1> QED BY <1>2, <1>3, WalksQuietly

(* What the caller of ensure does next fits.                               *)
LEMMA Returned ==
    ASSUME IngestInv, NEW t \in Threads, At(t) \in Ensuring
    PROVE  /\ Shape(t, Return(t)) /\ Return(t).pc \in {"rest", "lookup", "bind"}
           /\ Return(t).pc \notin Locked
<1>0. Return(t).pc \in {"rest", "lookup", "bind"} => Return(t).pc \notin Locked
  BY DEF Locked, Copies, Preserving
<1>1. CASE Ensured(t) = "rest"
  <2>1. Return(t) = Rest
    BY <1>1 DEF Return
  <2> QED BY <2>1, <1>0, RestIsFit
<1>2. CASE Ensured(t) # "rest"
  <2>1. \/ Ensured(t) = "lookup"
        \/ Ensured(t) = "bind" /\ t \in Tails
    BY <1>2 DEF Ensured
  <2>2. At(t) # "rest"
    BY DEF Ensuring
  <2>3. Return(t) = GoneTo(t, Ensured(t))
    BY <1>2 DEF Return, GoneTo
  <2>4. /\ Ensured(t) \in Pcs \ {"rest"} /\ Ensured(t) \notin Ensuring
        /\ Ensured(t) \notin Locked \cup {"ensureLock", "lock"}
        /\ Ensured(t) \in Reading => t \in Tails
    BY <2>1 DEF Pcs, Ensuring, Locked, Reading, Copies, Preserving
  <2>5. Shape(t, GoneTo(t, Ensured(t))) /\ GoneTo(t, Ensured(t)).pc = Ensured(t)
    BY <2>2, <2>4, GoesFit
  <2> QED BY <2>1, <2>3, <2>5, <1>0
<1> QED BY <1>1, <1>2

(* ensure with the lock of the object: unregistered meanwhile, ready,      *)
(* moved to another path, or left half prepared.                           *)
LEMMA EnsureLockedKeeps ==
    ASSUME IngestInv, NEW t \in Threads, EnsureLocked(t)
    PROVE  IngestInv'
<1>1. PICK i : i = thread[t].id
  OBVIOUS
<1>2. /\ At(t) = "ensureLock" /\ Free(i)
      /\ UNCHANGED <<logVars, file, written, current, errors, budget>>
  BY <1>1 DEF EnsureLocked, environment, control
<1>3. /\ i \in 1..Len(entry) /\ thread[t] \in ThreadRecords
      /\ thread[t].key \in Keys /\ thread[t].path \in Paths
      /\ errors' \in SUBSET Keys /\ budget' \in BudgetRecord
  BY <1>1, <1>2, Carries DEF Ensuring
<1>4. At(t) \in Ensuring /\ At(t) # "rest" /\ At(t) \notin Preserving
  BY <1>2 DEF Ensuring, Preserving
<1>5. CASE thread' = [thread EXCEPT ![t] = Rest] /\ UNCHANGED registry
  BY <1>2, <1>3, <1>4, <1>5, RestsQuietly DEF registry
<1>6. CASE thread' = [thread EXCEPT ![t] = Return(t)] /\ UNCHANGED registry
  <2>1. UNCHANGED <<entry, session>> /\ holder' = holder
    BY <1>6 DEF registry
  <2>2. PICK r : r = Return(t)
    OBVIOUS
  <2>3. thread' = [thread EXCEPT ![t] = r] /\ Shape(t, r) /\ r.pc \notin Locked
    BY <1>4, <1>6, <2>2, Returned
  <2> QED BY <1>2, <1>3, <1>4, <2>1, <2>3, WalksQuietly
<1>7. CASE /\ holder' = [holder EXCEPT ![i] = t] /\ Goto(t, "prepare")
           /\ UNCHANGED <<entry, session, awaiting>>
  <2>1. /\ "prepare" \in Pcs \ {"rest"} /\ "prepare" \in Ensuring /\ "prepare" \in Locked
        /\ "prepare" \notin Reading
    BY DEF Pcs, Ensuring, Locked, Reading, Copies, Preserving
  <2>2. thread' = [thread EXCEPT ![t].pc = "prepare"]
    BY <1>7 DEF Goto
  <2>3. At(t) \in Locked \cup {"ensureLock", "lock"}
    BY <1>2
  <2> QED BY <1>1, <1>2, <1>3, <1>4, <1>7, <2>1, <2>2, <2>3, GoesQuietly
<1>8. CASE /\ entry' = [entry EXCEPT ![i].path = thread[t].path,
                                     ![i].ready = FALSE, ![i].watch = FALSE]
           /\ holder' = [holder EXCEPT ![i] = t] /\ Goto(t, "rebind")
           /\ UNCHANGED session
  <2>1. PICK e : e = [entry[i] EXCEPT !.path = thread[t].path, !.ready = FALSE, !.watch = FALSE]
    OBVIOUS
  <2>2. entry[i] \in Entries
    BY <1>3 DEF IngestInv, RegistryFits
  <2>3. e \in Entries
    BY <1>3, <2>1, <2>2 DEF Entries
  <2>4. entry' = [entry EXCEPT ![i] = e]
    BY <1>3, <1>8, <2>1 DEF IngestInv, RegistryFits
  <2>5. entry' \in Seq(Entries) /\ Len(entry') = Len(entry) /\ Len(entry) \in Nat
    BY <1>3, <2>3, <2>4, EntryChanges DEF IngestInv, RegistryFits
  <2>6. /\ holder' \in Seq(Threads \cup {Nobody}) /\ Len(holder') = Len(holder)
        /\ holder'[i] = t /\ \A j \in 1..Len(entry) : j # i => holder'[j] = holder[j]
    BY <1>3, <1>8, HolderChanges DEF IngestInv
  <2>7. RegistryFits'
    BY <1>2, <1>3, <1>8, <2>5, <2>6 DEF IngestInv, RegistryFits
  <2>8. PICK r : r = GoneTo(t, "rebind")
    OBVIOUS
  <2>9. thread' = [thread EXCEPT ![t] = r]
    BY <1>8, <2>8 DEF GoneTo, Goto
  <2>10. /\ "rebind" \in Pcs \ {"rest"} /\ "rebind" \in Ensuring /\ "rebind" \in Locked
         /\ "rebind" \notin Reading
    BY DEF Pcs, Ensuring, Locked, Reading, Copies, Preserving
  <2>11. Shape(t, r) /\ r.pc = "rebind" /\ r.id = i
    BY <1>1, <1>2, <1>4, <2>8, <2>10, GoesFit
  <2>12. Shape(t, r)'
    BY <1>2, <2>5, <2>11 DEF Shape, Opened
  <2>13. UsesLog /\ job' = job
    BY <1>2 DEF UsesLog, logVars
  <2>14. /\ \A w \in Writers \ {t} : job'[w] = job[w]
         /\ t \in Writers => job'[t] = Idle
    BY <1>4, <2>13, NoCopy
  <2>15. FilesFit' /\ SourcesGrow
    BY <1>2, FilesStay DEF IngestInv
  <2>16. Len(entry) <= Len(entry') /\ holder'[r.id] = t
    BY <2>5, <2>6, <2>11
  <2>17. \A j \in 1..Len(entry) : holder[j] \notin {t, Nobody} => holder'[j] = holder[j]
    BY <1>2, <2>6 DEF Free
  <2>18. t \in Writers /\ job'[t] # Idle => r.pc \in Preserving /\ job'[t].key = r.key
    BY <2>14
  <2> QED BY <2>7, <2>9, <2>12, <2>13, <2>14, <2>15, <2>16, <2>17, <2>18, ThreadStep
<1> QED BY <1>1, <1>5, <1>6, <1>7, <1>8 DEF EnsureLocked

(* A step inside or outside the lock that calls the log and goes on.       *)
LEMMA GoesWithLog ==
    ASSUME IngestInv, NEW t \in Threads, NEW pc \in Pcs \ {"rest"}, At(t) # "rest",
           thread' = [thread EXCEPT ![t].pc = pc],
           pc \in Ensuring => At(t) \in Ensuring,
           pc \in Locked => At(t) \in Locked,
           pc \in {"ensureLock", "lock"} => At(t) \in Locked \cup {"ensureLock", "lock"},
           pc \in Reading => At(t) \in Reading \/ (At(t) \in Ensuring /\ t \in Tails),
           UNCHANGED <<environment, registry, control>>, budget' \in BudgetRecord, UsesLog,
           \A w \in Writers \ {t} : job'[w] = job[w],
           t \in Writers /\ job'[t] # Idle => pc \in Preserving /\ job'[t].key = thread[t].key
    PROVE  IngestInv'
<1>1. PICK r : r = GoneTo(t, pc)
  OBVIOUS
<1>2. thread' = [thread EXCEPT ![t] = r]
  BY <1>1 DEF GoneTo
<1>3. pc \in Locked \cup {"ensureLock", "lock"} => At(t) \in Locked \cup {"ensureLock", "lock"}
  OBVIOUS
<1>4. Shape(t, r) /\ r.pc = pc /\ r.id = thread[t].id /\ r.key = thread[t].key
  BY <1>1, <1>3, GoesFit
<1>5. UNCHANGED <<file, written, current, entry, session>> /\ holder' = holder
      /\ errors' \in SUBSET Keys
  BY Carries DEF environment, registry, control
<1>6. FilesFit'
  BY <1>5 DEF IngestInv, FilesFit
<1> QED BY <1>2, <1>4, <1>5, <1>6, Walks

(* _ensure_locked calls the log.                                           *)
LEMMA EnsureCallsLog ==
    ASSUME IngestInv, NEW t \in Threads, EnsurePrepare(t) \/ EnsureRebind(t)
    PROVE  IngestInv' /\ UsesLog
<1>1. /\ At(t) \in {"prepare", "rebind"} /\ thread' = [thread EXCEPT ![t].pc = "watch"]
      /\ UNCHANGED <<environment, registry, control, budget>>
  BY DEF EnsurePrepare, EnsureRebind, Goto
<1>2. thread[t].key \in Keys /\ budget' \in BudgetRecord
  BY <1>1, Carries
<1>3. Rebinds(thread[t].key) \/ UNCHANGED logVars
  <2>1. CASE EnsurePrepare(t)
    BY <2>1 DEF EnsurePrepare, Rebinds
  <2>2. CASE EnsureRebind(t)
    BY <2>2 DEF EnsureRebind, Rebinds
  <2> QED BY <2>1, <2>2
<1>4. UsesLog
  BY <1>2, <1>3 DEF UsesLog, LogUse
<1>5. job' = job
  BY <1>3 DEF Rebinds, BindSource, RebuildForSource, FirstPrepare, RebuildForParser, ResetIngest,
              PurgeSession, DropRows, memory, logVars
<1>6. /\ \A w \in Writers \ {t} : job'[w] = job[w]
      /\ t \in Writers => job'[t] = Idle
  BY <1>1, <1>5, NoCopy DEF Preserving
<1>7. /\ "watch" \in Pcs \ {"rest"} /\ "watch" \notin Reading
      /\ At(t) \in Ensuring /\ At(t) \in Locked /\ At(t) # "rest"
  BY <1>1 DEF Pcs, Ensuring, Locked, Reading, Copies, Preserving
<1> QED BY <1>1, <1>2, <1>4, <1>6, <1>7, GoesWithLog

(* The log raised: the lock goes back.                                     *)
LEMMA EnsureFailsKeeps == ASSUME IngestInv, NEW t \in Threads, EnsureFails(t) PROVE IngestInv'
<1>1. /\ At(t) \in {"prepare", "rebind"} /\ Unlock(t) /\ Spend("faults")
      /\ thread' = [thread EXCEPT ![t] = Rest]
      /\ UNCHANGED <<logVars, file, written, current, entry, session, errors>>
  BY DEF EnsureFails, Fault, environment, control
<1>2. At(t) \in Locked /\ At(t) \notin Preserving
  BY <1>1 DEF Locked, Preserving
<1>3. errors' \in SUBSET Keys /\ budget' \in BudgetRecord
  BY <1>1, Carries, BudgetIsSpent
<1> QED BY <1>1, <1>2, <1>3, RestsQuietly

(* The watch opens, and the object is ready.                               *)
LEMMA EnsureWatchKeeps == ASSUME IngestInv, NEW t \in Threads, EnsureWatch(t) PROVE IngestInv'
<1>1. PICK i : i = thread[t].id
  OBVIOUS
<1>2. /\ At(t) = "watch" /\ Unlock(t)
      /\ UNCHANGED <<logVars, file, written, current, session, errors, budget>>
  BY DEF EnsureWatch, environment
<1>3. At(t) \in Ensuring /\ At(t) \in Locked /\ At(t) \notin Preserving
  BY <1>2 DEF Ensuring, Locked, Preserving
<1>4. i \in 1..Len(entry) /\ errors' \in SUBSET Keys /\ budget' \in BudgetRecord
  BY <1>1, <1>2, <1>3, Carries
<1>5. CASE thread' = [thread EXCEPT ![t] = Rest] /\ UNCHANGED entry
  BY <1>2, <1>3, <1>4, <1>5, RestsQuietly
<1>6. CASE /\ entry' = [entry EXCEPT ![i].watch = TRUE, ![i].ready = TRUE]
           /\ thread' = [thread EXCEPT ![t] = Return(t)]
  <2>1. PICK e : e = [entry[i] EXCEPT !.watch = TRUE, !.ready = TRUE]
    OBVIOUS
  <2>2. entry[i] \in Entries
    BY <1>4 DEF IngestInv, RegistryFits
  <2>3. e \in Entries
    BY <2>1, <2>2 DEF Entries
  <2>4. entry' = [entry EXCEPT ![i] = e]
    BY <1>4, <1>6, <2>1 DEF IngestInv, RegistryFits
  <2>5. entry' \in Seq(Entries) /\ Len(entry') = Len(entry) /\ Len(entry) \in Nat
    BY <1>4, <2>3, <2>4, EntryChanges DEF IngestInv, RegistryFits
  <2>6. holder' = [holder EXCEPT ![i] = Nobody]
    BY <1>1, <1>2 DEF Unlock
  <2>7. /\ holder' \in Seq(Threads \cup {Nobody}) /\ Len(holder') = Len(holder)
        /\ \A j \in 1..Len(entry) : j # i => holder'[j] = holder[j]
    BY <1>4, <2>6, HolderChanges DEF IngestInv
  <2>8. RegistryFits'
    BY <1>2, <1>4, <2>5, <2>7 DEF IngestInv, RegistryFits
  <2>9. PICK r : r = Return(t)
    OBVIOUS
  <2>10. thread' = [thread EXCEPT ![t] = r] /\ Shape(t, r) /\ r.pc \notin Locked
    BY <1>3, <1>6, <2>9, Returned
  <2>11. Shape(t, r)'
    BY <1>2, <2>5, <2>10 DEF Shape, Opened
  <2>12. UsesLog /\ job' = job
    BY <1>2 DEF UsesLog, logVars
  <2>13. /\ \A w \in Writers \ {t} : job'[w] = job[w]
         /\ t \in Writers => job'[t] = Idle
    BY <1>3, <2>12, NoCopy
  <2>14. FilesFit' /\ SourcesGrow
    BY <1>2, FilesStay DEF IngestInv
  <2>15. holder[i] = t
    BY <1>1, <1>3 DEF IngestInv, LocksHeld
  <2>16. \A j \in 1..Len(entry) : holder[j] \notin {t, Nobody} => holder'[j] = holder[j]
    BY <2>7, <2>15
  <2>17. Len(entry) <= Len(entry')
    BY <2>5
  <2>18. t \in Writers /\ job'[t] # Idle => r.pc \in Preserving /\ job'[t].key = r.key
    BY <2>13
  <2> QED BY <2>8, <2>10, <2>11, <2>12, <2>13, <2>14, <2>16, <2>17, <2>18, ThreadStep
<1> QED BY <1>1, <1>5, <1>6 DEF EnsureWatch

(* The worker takes the next session of its batch.                         *)
LEMMA TakeKeeps == ASSUME IngestInv, NEW k \in Keys, Take(k) PROVE IngestInv'
<1>1. /\ At(Worker) = "rest" /\ Worker \in Threads
      /\ UNCHANGED <<logVars, file, written, current, entry, session, errors, budget>>
      /\ holder' = holder
  BY DEF Take, environment, registry, Threads
<1>2. errors' \in SUBSET Keys /\ budget' \in BudgetRecord
  BY <1>1, Carries
<1>3. At(Worker) \notin Preserving
  BY <1>1 DEF Preserving
<1>4. CASE session[k] = NoEntry
  <2>1. thread' = thread
    BY <1>4 DEF Take
  <2>2. UsesLog /\ job' = job
    BY <1>1 DEF UsesLog, logVars
  <2>3. RegistryFits' /\ Len(entry) <= Len(entry')
    BY <1>1, <1>2, RegistryStays DEF IngestInv
  <2>4. FilesFit' /\ SourcesGrow
    BY <1>1, FilesStay DEF IngestInv
  <2> QED BY <1>1, <2>1, <2>2, <2>3, <2>4, WorldStep
<1>5. CASE session[k] # NoEntry
  <2>1. PICK i, f : i = session[k] /\ f = (due[k] = "reset")
    OBVIOUS
  <2>2. PICK r : r = [Rest EXCEPT !.pc = "lock", !.key = k, !.id = i, !.force = f]
    OBVIOUS
  <2>3. thread' = [thread EXCEPT ![Worker] = r]
    BY <1>5, <2>1, <2>2 DEF Take
  <2>4. f \in BOOLEAN
    BY <2>1
  <2>5. i \in 1..Len(entry) /\ i \in Nat
    BY <1>5, <2>1 DEF IngestInv, RegistryFits
  <2>6. r = [pc |-> "lock", key |-> k, id |-> i, path |-> NoPath,
             source |-> NoSource, size |-> 0, offset |-> 0, force |-> f]
    BY <2>2 DEF Rest
  <2>7. r \in ThreadRecords /\ r.pc = "lock" /\ r.key = k /\ r.id = i
    BY <2>4, <2>5, <2>6, BoundsAreNat DEF ThreadRecords, Pcs
  <2>8. Shape(Worker, r) /\ r.pc \notin Locked
    BY <2>5, <2>7 DEF Shape, Ensuring, Locked, Reading, Copies, Preserving
  <2> QED BY <1>1, <1>2, <1>3, <2>3, <2>8, WalksQuietly
<1> QED BY <1>4, <1>5

(* drain_now asks for the registered object.                               *)
LEMMA LookupKeeps == ASSUME IngestInv, NEW t \in Threads, Lookup(t) PROVE IngestInv'
<1>1. /\ At(t) = "lookup" /\ holder' = holder
      /\ UNCHANGED <<logVars, file, written, current, entry, session, errors, budget>>
  BY DEF Lookup, environment, registry, control
<1>2. /\ errors' \in SUBSET Keys /\ budget' \in BudgetRecord
      /\ thread[t] \in ThreadRecords /\ thread[t].key \in Keys
  BY <1>1, Carries
<1>3. At(t) \notin Preserving
  BY <1>1 DEF Preserving
<1>4. CASE session[thread[t].key] = NoEntry
  <2>1. thread' = [thread EXCEPT ![t] = Rest]
    BY <1>4 DEF Lookup
  <2> QED BY <1>1, <1>2, <1>3, <2>1, RestsQuietly
<1>5. CASE session[thread[t].key] # NoEntry
  <2>1. PICK i : i = session[thread[t].key]
    OBVIOUS
  <2>2. PICK r : r = [thread[t] EXCEPT !.pc = "lock", !.id = i]
    OBVIOUS
  <2>3. thread' = [thread EXCEPT ![t] = r]
    BY <1>2, <1>5, <2>1, <2>2 DEF Lookup, IngestInv, ThreadsFit
  <2>4. i \in 1..Len(entry) /\ i \in Nat
    BY <1>2, <1>5, <2>1 DEF IngestInv, RegistryFits
  <2>5. r \in ThreadRecords /\ r.pc = "lock" /\ r.key = thread[t].key /\ r.id = i
    BY <1>2, <2>2, <2>4 DEF ThreadRecords, Pcs
  <2>6. Shape(t, r) /\ r.pc \notin Locked
    BY <1>2, <2>4, <2>5 DEF Shape, Ensuring, Locked, Reading, Copies, Preserving
  <2> QED BY <1>1, <1>2, <1>3, <2>3, <2>6, WalksQuietly
<1> QED BY <1>4, <1>5

(* A drain takes the lock of its object.                                   *)
LEMMA DrainLockKeeps == ASSUME IngestInv, NEW t \in Threads, DrainLock(t) PROVE IngestInv'
<1>1. /\ At(t) = "lock" /\ Free(thread[t].id) /\ holder' = [holder EXCEPT ![thread[t].id] = t]
      /\ thread' = [thread EXCEPT ![t].pc = "open"]
      /\ UNCHANGED <<logVars, file, written, current, entry, session, errors, budget>>
  BY DEF DrainLock, Goto, environment, control
<1>2. errors' \in SUBSET Keys /\ budget' \in BudgetRecord
  BY <1>1, Carries
<1>3. /\ "open" \in Pcs \ {"rest"} /\ "open" \in Locked /\ "open" \notin Reading
      /\ "open" \notin Ensuring /\ At(t) \notin Preserving /\ At(t) # "rest"
      /\ At(t) \in Locked \cup {"ensureLock", "lock"}
  BY <1>1 DEF Pcs, Ensuring, Locked, Reading, Copies, Preserving
<1> QED BY <1>1, <1>2, <1>3, GoesQuietly

(* The drain opens the transcript at the path of its object.               *)
LEMMA DrainOpenKeeps == ASSUME IngestInv, NEW t \in Threads, DrainOpen(t) PROVE IngestInv'
<1>1. PICK s, n : s = file[entry[thread[t].id].path] /\ n = written[s]
  OBVIOUS
<1>2. PICK r : r = [thread[t] EXCEPT !.pc = "reconcile", !.source = s, !.size = n]
  OBVIOUS
<1>3. /\ At(t) = "open" /\ s # NoSource /\ holder' = holder
      /\ UNCHANGED <<logVars, file, written, current, entry, session, errors, budget>>
  BY <1>1 DEF DrainOpen, environment, registry, control
<1>4. At(t) \in Locked /\ At(t) \notin Preserving /\ At(t) # "rest"
  BY <1>3 DEF Locked, Preserving
<1>5. /\ errors' \in SUBSET Keys /\ budget' \in BudgetRecord
      /\ thread[t] \in ThreadRecords /\ thread[t].key \in Keys /\ thread[t].id \in 1..Len(entry)
  BY <1>3, <1>4, Carries
<1>6. thread' = [thread EXCEPT ![t] = r]
  BY <1>1, <1>2 DEF DrainOpen, IngestInv, ThreadsFit
<1>7. entry[thread[t].id].path \in Paths
  <2>1. entry[thread[t].id] \in Entries
    BY <1>5 DEF IngestInv, RegistryFits
  <2> QED BY <2>1 DEF Entries
<1>8. s \in Sources /\ n \in 0..MaxOffset /\ n <= written[s]
  <2>1. s \in Sources
    BY <1>1, <1>3, <1>7 DEF IngestInv, FilesFit
  <2>2. n \in 0..MaxOffset
    BY <1>1, <2>1 DEF IngestInv, FilesFit
  <2> QED BY <1>1, <2>1, <2>2, BoundsAreNat
<1>9. /\ r \in ThreadRecords /\ r.pc = "reconcile" /\ r.key = thread[t].key
      /\ r.id = thread[t].id /\ r.source = s /\ r.size = n
  BY <1>2, <1>5, <1>8 DEF ThreadRecords, Pcs, Locked
<1>10. Shape(t, r)
  BY <1>5, <1>8, <1>9 DEF Shape, Opened, Ensuring, Locked, Reading, Copies, Preserving
<1> QED BY <1>3, <1>4, <1>5, <1>6, <1>9, <1>10, WalksQuietly

(* Steps that end in an error or in another reading of the cursor.         *)
LEMMA DrainTurnsKeep ==
    ASSUME IngestInv, NEW t \in Threads, OpenFails(t) \/ CopyFails(t) \/ CopyRefused(t)
    PROVE  IngestInv'
<1>1. PICK pc \in {"error", "reread"} :
         /\ thread' = [thread EXCEPT ![t].pc = pc]
         /\ pc = "reread" => At(t) \in Copies
  BY DEF OpenFails, CopyFails, CopyRefused, Copying, Copies, Goto
<1>2. /\ At(t) \in {"open", "inspect", "reconcile", "copy"} /\ holder' = holder
      /\ UNCHANGED <<logVars, file, written, current, entry, session, errors>>
      /\ UNCHANGED budget \/ Spend("faults")
  BY DEF OpenFails, CopyFails, CopyRefused, Copying, Fault, environment, registry, control
<1>3. errors' \in SUBSET Keys /\ budget' \in BudgetRecord
  BY <1>2, Carries, BudgetIsSpent
<1>4. /\ pc \in Pcs \ {"rest"} /\ pc \in Locked /\ pc \notin Ensuring
      /\ At(t) \in Locked /\ At(t) # "rest" /\ At(t) \notin Preserving
      /\ pc \in Reading => At(t) \in Reading
  BY <1>1, <1>2 DEF Pcs, Ensuring, Locked, Reading, Copies, Preserving
<1> QED BY <1>1, <1>2, <1>3, <1>4, GoesQuietly

(* Steps that end a drain.                                                 *)
LEMMA DrainEndsKeep ==
    ASSUME IngestInv, NEW t \in Threads, RecordError(t) \/ DrainEnd(t) \/ Inspect(t)
    PROVE  IngestInv'
<1>1. /\ At(t) \in {"error", "copy", "inspect"}
      /\ UNCHANGED <<logVars, file, written, current, entry, session, budget>>
      /\ \/ thread' = [thread EXCEPT ![t] = Rest] /\ Unlock(t)
         \/ \E pc \in {"inspect", "open"} :
              thread' = [thread EXCEPT ![t].pc = pc] /\ UNCHANGED holder
  BY DEF RecordError, DrainEnd, Inspect, Goto, environment
<1>2. errors' \in SUBSET Keys
  BY Carries DEF RecordError, DrainEnd, Inspect, control
<1>3. At(t) \in Locked /\ At(t) # "rest" /\ At(t) \notin Preserving /\ budget' \in BudgetRecord
  BY <1>1, Carries DEF Locked, Copies, Preserving
<1>4. CASE thread' = [thread EXCEPT ![t] = Rest] /\ Unlock(t)
  BY <1>1, <1>2, <1>3, <1>4, RestsQuietly
<1>5. ASSUME NEW pc \in {"inspect", "open"}, thread' = [thread EXCEPT ![t].pc = pc],
             UNCHANGED holder
      PROVE  IngestInv'
  <2>1. pc \in Pcs \ {"rest"} /\ pc \in Locked /\ pc \notin Ensuring /\ pc \notin Reading
    BY DEF Pcs, Ensuring, Locked, Reading, Copies, Preserving
  <2> QED BY <1>1, <1>2, <1>3, <1>5, <2>1, GoesQuietly
<1> QED BY <1>1, <1>4, <1>5

(* A bounded set of numbers has a largest one: the least of its bounds.    *)
LEMMA LargestOf ==
    ASSUME NEW n \in Nat, NEW S, S \subseteq 1..n, S # {}
    PROVE  Max(S) \in S
<1> DEFINE D == {d \in 0..n : \A y \in S : y <= d}
           R == OpToRel(<, Nat)
<1>1. D \subseteq Nat /\ D # {}
  <2>1. n \in D
    OBVIOUS
  <2> QED BY <2>1
<1>2. IsWellFoundedOn(R, Nat)
  BY NatLessThanWellFounded
<1>3. \A x, y \in Nat : <<y, x>> \in R <=> y < x
  BY DEF OpToRel
<1>4. PICK d \in D : \A e \in D : ~ (<<e, d>> \in R)
  <2> HIDE DEF D, R
  <2> QED BY <1>1, <1>2, WFMin
<1>5. d \in 0..n /\ \A y \in S : y <= d
  OBVIOUS
<1>6. d \in S
  <2> SUFFICES ASSUME d \notin S PROVE FALSE
    OBVIOUS
  <2>1. PICK y \in S : TRUE
    OBVIOUS
  <2>2. d - 1 \in 0..n /\ \A z \in S : z <= d - 1
    BY <1>5, <2>1
  <2>3. d - 1 \in D
    BY <2>2
  <2> HIDE DEF D, R
  <2>4. d - 1 \in Nat /\ d \in Nat /\ d - 1 < d
    BY <1>5, <2>2
  <2> QED BY <1>3, <1>4, <2>3, <2>4
<1>7. \A y \in S : d >= y
  BY <1>5
<1> QED BY <1>6, <1>7 DEF Max

(* A session's offset is one of a record.                                  *)
LEMMA OffsetIsBounded == ASSUME IngestInv, NEW k \in Keys PROVE OffsetOf(k) \in 0..MaxOffset
<1>1. PrefixOf(k) /\ FilesFit /\ TypeOK
  BY DEF IngestInv, RowsArePrefixes, IInv
<1>2. SourceOf(k) \in Sources \cup {NoSource} /\ OffsetOf(k) \in Nat
  BY <1>1, CursorKinds
<1>3. CASE SourceOf(k) = NoSource
  BY <1>1, <1>3, BoundsAreNat DEF PrefixOf
<1>4. CASE SourceOf(k) # NoSource
  BY <1>1, <1>2, <1>4, BoundsAreNat DEF PrefixOf, FilesFit
<1> QED BY <1>3, <1>4

(* A drain that goes on from an offset.                                    *)
From(t, pc, off) == [thread[t] EXCEPT !.pc = pc, !.offset = off]
(* It fits, and stays inside the lock.                                     *)
LEMMA GoesOnFrom ==
    ASSUME IngestInv, NEW t \in Threads, NEW off \in 0..MaxOffset,
           NEW pc \in {"copy", "reread", "error"}, At(t) \in Copies \cup {"reconcile"},
           NEW r, r = From(t, pc, off)
    PROVE  /\ Shape(t, r) /\ r.pc = pc /\ r.id = thread[t].id /\ r.key = thread[t].key
           /\ At(t) \in Locked /\ r.pc \in Locked
<1>1. At(t) \in Locked /\ At(t) \in Reading /\ At(t) # "rest" /\ pc \in Locked /\ pc \notin Ensuring
  BY DEF Locked, Reading, Copies, Preserving, Ensuring
<1>2. /\ thread[t] \in ThreadRecords /\ thread[t].key \in Keys /\ thread[t].id \in 1..Len(entry)
      /\ Opened(thread[t])
  BY <1>1, Carries
<1>3. pc \in Pcs
  BY <1>1 DEF Pcs
<1>4. /\ r \in ThreadRecords /\ r.pc = pc /\ r.key = thread[t].key /\ r.id = thread[t].id
      /\ r.source = thread[t].source /\ r.size = thread[t].size
  BY <1>2, <1>3 DEF ThreadRecords, From
<1>5. Opened(r)
  BY <1>2, <1>4 DEF Opened
<1>6. Shape(t, r)
  BY <1>1, <1>2, <1>4, <1>5 DEF Shape
<1> QED BY <1>1, <1>4, <1>6

(* Resume where the log now stands, or give up.                            *)
LEMMA RereadKeeps == ASSUME IngestInv, NEW t \in Threads, Reread(t) PROVE IngestInv'
<1>1. /\ At(t) = "reread"
      /\ UNCHANGED <<logVars, file, written, current, entry, session, errors, budget>>
  BY DEF Reread, environment, control
<1>2. errors' \in SUBSET Keys /\ budget' \in BudgetRecord /\ thread[t].key \in Keys
  BY <1>1, Carries
<1>3. At(t) \in Copies \cup {"reconcile"} /\ At(t) \in Locked /\ At(t) \notin Preserving
  BY <1>1 DEF Locked, Copies, Preserving
<1>4. CASE thread' = [thread EXCEPT ![t] = Rest] /\ Unlock(t)
  BY <1>1, <1>2, <1>3, <1>4, RestsQuietly
<1>5. CASE /\ thread' = [thread EXCEPT ![t].pc = "copy", ![t].offset = OffsetOf(thread[t].key)]
           /\ UNCHANGED holder
  <2>1. PICK off : off = OffsetOf(thread[t].key)
    OBVIOUS
  <2>2. PICK r : r = From(t, "copy", off)
    OBVIOUS
  <2>3. thread' = [thread EXCEPT ![t] = r]
    BY <1>5, <2>1, <2>2 DEF IngestInv, ThreadsFit, From
  <2>4. off \in 0..MaxOffset
    BY <1>2, <2>1, OffsetIsBounded
  <2>5. Shape(t, r) /\ r.pc = "copy" /\ r.id = thread[t].id
    BY <1>3, <2>2, <2>4, GoesOnFrom
  <2> QED BY <1>1, <1>2, <1>3, <1>5, <2>3, <2>5, WalksQuietly
<1> QED BY <1>4, <1>5 DEF Reread

(* reconcile_ingest_source.                                                *)
LEMMA ReconcileUsesLog ==
    ASSUME IngestInv, NEW k \in Keys, NEW s \in Sources, NEW size \in 0..MaxOffset,
           NEW force \in BOOLEAN, Reconcile(k, s, size, force)
    PROVE  /\ UsesLog /\ job' = job
           /\ cursor'[k].offset = OffsetOf(k) \/ cursor'[k].offset = 0
<1>1. Rebinds(k) \/ UNCHANGED logVars
  BY DEF Reconcile, Rebinds
<1>2. UsesLog
  BY <1>1 DEF UsesLog, LogUse
<1>3. job' = job
  BY DEF Reconcile, BindSource, RebuildForSource, DropRows, memory, logVars
<1>4. cursor \in [Keys -> Cursor \cup {NoCursor}]
  BY DEF IngestInv, IInv, TypeOK
<1>5. HasCursor(k) => cursor[k] \in Cursor /\ OffsetOf(k) = cursor[k].offset
  BY <1>4 DEF HasCursor, OffsetOf
<1>6. ASSUME NEW p, NEW g, cursor' = [cursor EXCEPT ![k] = NewCursor(p, g, s)]
      PROVE  cursor'[k].offset = 0
  <2>1. cursor'[k] = NewCursor(p, g, s)
    BY <1>4, <1>6
  <2> QED BY <2>1 DEF NewCursor
<1>7. ASSUME HasCursor(k), cursor' = [cursor EXCEPT ![k].source = s]
      PROVE  cursor'[k].offset = OffsetOf(k)
  <2>1. cursor'[k] = [cursor[k] EXCEPT !.source = s]
    BY <1>4, <1>7
  <2> QED BY <1>5, <1>7, <2>1 DEF Cursor
<1>8. ASSUME HasCursor(k), cursor' = cursor PROVE cursor'[k].offset = OffsetOf(k)
  BY <1>5, <1>8
<1>9. \/ cursor' = [cursor EXCEPT ![k] = NewCursor(1, 1, s)]
      \/ cursor' = [cursor EXCEPT ![k] = NewCursor(cursor[k].parser, cursor[k].gen + 1, s)]
      \/ HasCursor(k) /\ cursor' = [cursor EXCEPT ![k].source = s]
      \/ HasCursor(k) /\ cursor' = cursor
  BY DEF Reconcile, BindSource, RebuildForSource, logVars
<1> QED BY <1>2, <1>3, <1>6, <1>7, <1>8, <1>9

(* The drain binds the log to what it opened.                              *)
LEMMA DrainReconcileKeeps ==
    ASSUME IngestInv, NEW t \in Threads, DrainReconcile(t)
    PROVE  IngestInv' /\ UsesLog
<1>1. PICK k, off : k = thread[t].key /\ off = cursor'[k].offset
  OBVIOUS
<1>2. PICK r : r = From(t, "copy", off)
  OBVIOUS
<1>3. /\ At(t) = "reconcile" /\ holder' = holder
      /\ UNCHANGED <<file, written, current, entry, session, errors, budget>>
      /\ Reconcile(k, thread[t].source, thread[t].size, thread[t].force)
  BY <1>1 DEF DrainReconcile, environment, registry, control
<1>4. thread' = [thread EXCEPT ![t] = r]
  BY <1>1, <1>2 DEF DrainReconcile, IngestInv, ThreadsFit, From
<1>5. At(t) \in Copies \cup {"reconcile"} /\ At(t) \in Reading /\ At(t) \notin Preserving
  BY <1>3 DEF Reading, Copies, Preserving
<1>6. /\ k \in Keys /\ thread[t].source \in Sources /\ thread[t].size \in 0..MaxOffset
      /\ thread[t].force \in BOOLEAN /\ errors' \in SUBSET Keys
  BY <1>1, <1>3, <1>5, Carries DEF Opened, ThreadRecords
<1>7. UsesLog /\ job' = job /\ (off = OffsetOf(k) \/ off = 0)
  BY <1>1, <1>3, <1>6, ReconcileUsesLog
<1>8. off \in 0..MaxOffset
  BY <1>6, <1>7, OffsetIsBounded, BoundsAreNat
<1>9. Shape(t, r) /\ r.pc = "copy" /\ r.id = thread[t].id /\ At(t) \in Locked
  BY <1>2, <1>5, <1>8, GoesOnFrom
<1>10. /\ \A w \in Writers \ {t} : job'[w] = job[w]
       /\ t \in Writers /\ job'[t] # Idle => r.pc \in Preserving /\ job'[t].key = r.key
  BY <1>5, <1>7, NoCopy
<1>11. FilesFit'
  BY <1>3, FilesStay DEF IngestInv
<1> QED BY <1>3, <1>4, <1>6, <1>7, <1>9, <1>10, <1>11, Walks

(* A run of ordinary records is copied.                                    *)
LEMMA CopyChunkKeeps ==
    ASSUME IngestInv, NEW t \in Threads, CopyChunk(t)
    PROVE  IngestInv' /\ UsesLog
<1>1. PICK k, s, off, size : /\ k = thread[t].key /\ s = thread[t].source
                             /\ off = thread[t].offset /\ size = thread[t].size
  OBVIOUS
<1>2. PICK n : n = Max(OrdinaryRun(s, off, size))
  OBVIOUS
<1>3. /\ At(t) = "copy" /\ holder' = holder
      /\ UNCHANGED <<file, written, current, entry, session, errors, budget>>
      /\ OrdinaryRun(s, off, size) # {}
      /\ AppendAndAdvance(k, Run(s, off, n), off + n, off, s)
  BY <1>1, <1>2 DEF CopyChunk, Copying, Run, environment, registry, control
<1>4. At(t) \in Copies \cup {"reconcile"} /\ At(t) \in Reading /\ At(t) \notin Preserving
  BY <1>3 DEF Reading, Copies, Preserving
<1>5. /\ k \in Keys /\ s \in Sources /\ size \in 0..MaxOffset /\ off \in 0..MaxOffset
      /\ size <= written[s] /\ written[s] \in 0..MaxOffset /\ errors' \in SUBSET Keys
  BY <1>1, <1>3, <1>4, Carries DEF Opened, ThreadRecords, IngestInv, FilesFit
<1>6. n \in OrdinaryRun(s, off, size)
  <2>1. OrdinaryRun(s, off, size) \subseteq 1..MaxBatch
    BY DEF OrdinaryRun
  <2> QED BY <1>2, <1>3, <2>1, LargestOf, BoundsAreNat
<1>7. n \in 1..MaxBatch /\ off + n <= size /\ \A i \in 1..n : <<s, off + i>> \in Ordinary
  BY <1>6 DEF OrdinaryRun
<1>8. off + n \in 0..MaxOffset /\ off + n <= written[s]
  BY <1>5, <1>7, BoundsAreNat
<1>9. AppendsRun
  BY <1>3, <1>5, <1>7, <1>8 DEF AppendsRun
<1>10. UsesLog /\ job' = job
  BY <1>3, <1>9 DEF UsesLog, LogUse, AppendAndAdvance, memory
<1>11. PICK m : m = off + n
  OBVIOUS
<1>12. PICK r : r = From(t, "copy", m)
  OBVIOUS
<1>13. thread[t].pc = "copy" /\ thread' = [thread EXCEPT ![t].offset = m]
  BY <1>1, <1>2, <1>3, <1>11 DEF CopyChunk, At
<1>14. thread' = [thread EXCEPT ![t] = r]
  BY <1>12, <1>13 DEF From, IngestInv, ThreadsFit, ThreadRecords
<1>15. Shape(t, r) /\ r.pc = "copy" /\ r.id = thread[t].id /\ At(t) \in Locked
  BY <1>4, <1>8, <1>11, <1>12, GoesOnFrom
<1>16. /\ \A w \in Writers \ {t} : job'[w] = job[w]
       /\ t \in Writers /\ job'[t] # Idle => r.pc \in Preserving /\ job'[t].key = r.key
  BY <1>4, <1>10, NoCopy
<1>17. FilesFit'
  BY <1>3, FilesStay DEF IngestInv
<1> QED BY <1>3, <1>5, <1>10, <1>14, <1>15, <1>16, <1>17, Walks

(* The next record is oversized: its copy begins.                          *)
LEMMA PreserveChunkKeeps ==
    ASSUME IngestInv, NEW t \in Threads \cap Writers, PreserveChunk(t)
    PROVE  IngestInv' /\ UsesLog
<1>1. PICK k, s, off : k = thread[t].key /\ s = thread[t].source /\ off = thread[t].offset
  OBVIOUS
<1>2. /\ At(t) = "copy" /\ off < thread[t].size /\ <<s, off + 1>> \in Oversized
      /\ Reserve(t, k, <<s, off + 1>>, off + 1, off, s)
      /\ thread' = [thread EXCEPT ![t].pc = "preserve"]
      /\ UNCHANGED <<environment, registry, control, budget>>
  BY <1>1 DEF PreserveChunk, Copying, Goto
<1>3. /\ "preserve" \in Pcs \ {"rest"} /\ "preserve" \in Locked /\ "preserve" \in Preserving
      /\ "preserve" \notin Ensuring /\ At(t) \in Locked /\ At(t) \in Reading /\ At(t) # "rest"
  BY <1>2 DEF Pcs, Ensuring, Locked, Reading, Copies, Preserving
<1>4. /\ k \in Keys /\ s \in Sources /\ off \in 0..MaxOffset /\ thread[t].size \in 0..MaxOffset
      /\ thread[t].size <= written[s] /\ written[s] \in 0..MaxOffset /\ budget' \in BudgetRecord
  BY <1>1, <1>2, <1>3, Carries DEF Opened, ThreadRecords, IngestInv, FilesFit
<1>5. off + 1 <= written[s]
  BY <1>2, <1>4, BoundsAreNat
<1>6. ReservesNext(t)
  BY <1>2, <1>4, <1>5 DEF ReservesNext
<1>7. UsesLog
  BY <1>6 DEF UsesLog, LogUse
<1>8. job' = [job EXCEPT ![t] = [stage |-> "reserved", key |-> k, event |-> <<s, off + 1>>,
                 expected |-> off, next |-> off + 1, source |-> s, name |-> NoName]]
  BY <1>2 DEF Reserve
<1>9. /\ \A w \in Writers \ {t} : job'[w] = job[w]
      /\ job'[t].key = k
  BY <1>8 DEF IngestInv, IInv, TypeOK
<1> QED BY <1>1, <1>2, <1>3, <1>4, <1>7, <1>9, GoesWithLog

(* A copy that goes on is that of the same session.                        *)
LEMMA CopyStays ==
    ASSUME IngestInv, NEW w \in Writers, CopyGoesOn(w)
    PROVE  /\ \A v \in Writers \ {w} : job'[v] = job[v]
           /\ job[w] # Idle /\ job[w].key = thread[w].key /\ JobFits(job[w])
           /\ job'[w] # Idle => job'[w].key = job[w].key
<1>1. job[w].stage # "idle"
  BY DEF CopyGoesOn, CreateTemp, CreateFails, FinishCopy, AbandonCopy, RenameTemp, LoseRace,
         CommitRow, CommitFails, DiscardCopy, Release
<1>2. job[w] # Idle
  BY <1>1 DEF Idle
<1>3. /\ job[w].key = thread[w].key /\ JobFits(job[w])
      /\ job \in [Writers -> Job \cup {Idle}] /\ job[w] \in Job
  BY <1>2 DEF IngestInv, JobsHaveDrains, JobsFit, IInv, TypeOK
<1>4. ASSUME NEW st, job' = [job EXCEPT ![w].stage = st]
      PROVE  job'[w].key = job[w].key /\ \A v \in Writers \ {w} : job'[v] = job[v]
  BY <1>3, <1>4 DEF Job
<1>5. ASSUME NEW st, NEW n, job' = [job EXCEPT ![w].stage = st, ![w].name = n]
      PROVE  job'[w].key = job[w].key /\ \A v \in Writers \ {w} : job'[v] = job[v]
  BY <1>3, <1>5 DEF Job
<1>6. ASSUME job' = [job EXCEPT ![w] = Idle]
      PROVE  job'[w] = Idle /\ \A v \in Writers \ {w} : job'[v] = job[v]
  BY <1>3, <1>6
<1>7. \/ \E st : job' = [job EXCEPT ![w].stage = st]
      \/ \E st, n : job' = [job EXCEPT ![w].stage = st, ![w].name = n]
      \/ job' = [job EXCEPT ![w] = Idle]
  BY DEF CopyGoesOn, CreateTemp, CreateFails, FinishCopy, AbandonCopy, RenameTemp, LoseRace,
         CommitRow, CommitFails, DiscardCopy, Release
<1> QED BY <1>2, <1>3, <1>4, <1>5, <1>6, <1>7

(* Each step of the copy of an oversized record.                           *)
LEMMA PreserveJobKeeps ==
    ASSUME IngestInv, NEW t \in Threads \cap Writers, PreserveJob(t)
    PROVE  IngestInv' /\ UsesLog
<1>1. At(t) = "preserve" /\ CopyGoesOn(t) /\ UNCHANGED <<environment, registry, control>>
  BY DEF PreserveJob, CopyGoesOn
<1>2. UNCHANGED budget \/ Spend("faults")
  BY DEF PreserveJob, Fault
<1>3. \/ thread' = thread
      \/ \E pc \in {"kept", "lost", "failed"} : thread' = [thread EXCEPT ![t].pc = pc]
  BY DEF PreserveJob, Goto
<1>4. budget' \in BudgetRecord
  BY <1>2, Carries, BudgetIsSpent
<1>5. /\ \A v \in Writers \ {t} : job'[v] = job[v]
      /\ job'[t] # Idle => job'[t].key = thread[t].key
  BY <1>1, CopyStays
<1>6. UsesLog
  BY <1>1 DEF UsesLog, LogUse
<1>7. \E pc \in Preserving : thread' = [thread EXCEPT ![t].pc = pc]
  <2>1. thread[t].pc = "preserve" /\ thread[t] \in ThreadRecords
    BY <1>1, Carries DEF At
  <2>2. thread' = thread => thread' = [thread EXCEPT ![t].pc = "preserve"]
    BY <2>1 DEF IngestInv, ThreadsFit, ThreadRecords
  <2> QED BY <1>3, <2>2 DEF Preserving
<1>8. PICK pc \in Preserving : thread' = [thread EXCEPT ![t].pc = pc]
  BY <1>7
<1>9. /\ pc \in Pcs \ {"rest"} /\ pc \in Locked /\ pc \notin Ensuring
      /\ At(t) \in Locked /\ At(t) \in Reading /\ At(t) # "rest"
  BY <1>1 DEF Pcs, Ensuring, Locked, Reading, Copies, Preserving
<1> QED BY <1>1, <1>4, <1>5, <1>6, <1>8, <1>9, GoesWithLog

(* The copy is cleaned up, its reservation is given back, and the drain    *)
(* goes on according to how it ended.                                      *)
LEMMA PreserveEndKeeps ==
    ASSUME IngestInv, NEW t \in Threads \cap Writers, PreserveEnd(t)
    PROVE  IngestInv' /\ UsesLog
<1>1. /\ At(t) \in {"kept", "lost", "failed"} /\ CopyGoesOn(t)
      /\ UNCHANGED <<environment, registry, control, budget>>
  BY DEF PreserveEnd, CopyGoesOn
<1>2. /\ \A v \in Writers \ {t} : job'[v] = job[v]
      /\ job'[t] # Idle => job'[t].key = thread[t].key
      /\ JobFits(job[t])
  BY <1>1, CopyStays
<1>3. UsesLog
  BY <1>1 DEF UsesLog, LogUse
<1>4. /\ At(t) \in Preserving /\ At(t) \in Copies \cup {"reconcile"} /\ At(t) \in Locked
      /\ At(t) \in Reading /\ At(t) # "rest" /\ At(t) \in Pcs /\ At(t) \notin Ensuring
  BY <1>1 DEF Pcs, Ensuring, Locked, Reading, Copies, Preserving
<1>5. /\ thread[t] \in ThreadRecords /\ budget' \in BudgetRecord /\ errors' \in SUBSET Keys
  BY <1>1, Carries DEF control
<1>6. CASE UNCHANGED thread
  <2>1. PICK pc : pc = At(t)
    OBVIOUS
  <2>2. thread' = [thread EXCEPT ![t].pc = pc]
    BY <1>5, <1>6, <2>1 DEF IngestInv, ThreadsFit, ThreadRecords, At
  <2> QED BY <1>1, <1>2, <1>3, <1>4, <1>5, <2>1, <2>2, GoesWithLog
<1>7. CASE /\ Release(t)
           /\ thread' = [thread EXCEPT
                ![t].offset = IF At(t) = "kept" THEN job[t].next ELSE @,
                ![t].pc = CASE At(t) = "kept" -> "copy"
                            [] At(t) = "lost" -> "reread"
                            [] At(t) = "failed" -> "error"]
  <2>1. PICK pc, off : /\ pc = CASE At(t) = "kept" -> "copy"
                                 [] At(t) = "lost" -> "reread"
                                 [] At(t) = "failed" -> "error"
                       /\ off = IF At(t) = "kept" THEN job[t].next ELSE thread[t].offset
    OBVIOUS
  <2>2. pc \in {"copy", "reread", "error"}
    BY <1>1, <2>1
  <2>3. off \in 0..MaxOffset
    <3>1. job[t].next \in 0..MaxOffset
      BY <1>2, BoundsAreNat DEF JobFits, IngestInv, FilesFit
    <3>2. thread[t].offset \in 0..MaxOffset
      BY <1>5 DEF ThreadRecords
    <3> QED BY <2>1, <3>1, <3>2
  <2>4. PICK r : r = From(t, pc, off)
    OBVIOUS
  <2>5. thread' = [thread EXCEPT ![t] = r]
    <3>1. thread' = [thread EXCEPT ![t].offset = off, ![t].pc = pc]
      BY <1>7, <2>1
    <3> QED BY <2>4, <3>1 DEF From, IngestInv, ThreadsFit, ThreadRecords
  <2>6. Shape(t, r) /\ r.pc = pc /\ r.id = thread[t].id /\ r.pc \in Locked
    BY <1>4, <2>2, <2>3, <2>4, GoesOnFrom
  <2>7. job'[t] = Idle
    BY <1>7 DEF Release, IngestInv, IInv, TypeOK
  <2>8. /\ UNCHANGED <<file, written, current, budget, entry, session>> /\ holder' = holder
    BY <1>1 DEF environment, registry
  <2>9. FilesFit'
    BY <2>8, FilesStay DEF IngestInv
  <2> QED BY <1>2, <1>3, <1>4, <1>5, <2>5, <2>6, <2>7, <2>8, <2>9, Walks
<1> QED BY <1>6, <1>7 DEF PreserveEnd

(* A step that ends what a thread does, with a call of the log.            *)
LEMMA RestsWithLog ==
    ASSUME IngestInv, NEW t \in Threads, thread' = [thread EXCEPT ![t] = Rest],
           UNCHANGED <<environment, registry, budget>>, errors' \in SUBSET Keys,
           UsesLog, job' = job, At(t) \notin Preserving
    PROVE  IngestInv'
<1>1. PICK r : r = Rest
  OBVIOUS
<1>2. r.pc = "rest" /\ Shape(t, r) /\ thread' = [thread EXCEPT ![t] = r]
  BY <1>1, RestIsFit
<1>3. r.pc \notin Locked
  BY <1>2 DEF Locked, Copies, Preserving
<1>4. UNCHANGED <<file, written, current, budget, entry, session>> /\ holder' = holder
  BY DEF environment, registry
<1>5. FilesFit'
  BY <1>4, FilesStay DEF IngestInv
<1>6. /\ \A w \in Writers \ {t} : job'[w] = job[w]
      /\ t \in Writers => job'[t] = Idle
  BY NoCopy
<1> QED BY <1>2, <1>3, <1>4, <1>5, <1>6, Walks

(* A request that serves an open transcript binds the log to it.           *)
LEMMA TailBindKeeps == ASSUME IngestInv, NEW t \in Threads, TailBind(t) PROVE IngestInv' /\ UsesLog
<1>1. PICK k : k = thread[t].key
  OBVIOUS
<1>2. /\ At(t) = "bind" /\ thread' = [thread EXCEPT ![t] = Rest]
      /\ UNCHANGED <<environment, registry, budget>>
      /\ \/ UNCHANGED <<logVars, errors>>
         \/ Reconcile(k, thread[t].source, thread[t].size, FALSE) /\ errors' = errors \ {k}
  BY <1>1 DEF TailBind
<1>3. At(t) \in Reading /\ At(t) \notin Preserving
  BY <1>2 DEF Reading, Copies, Preserving
<1>4. /\ k \in Keys /\ thread[t].source \in Sources /\ thread[t].size \in 0..MaxOffset
      /\ errors \in SUBSET Keys
  BY <1>1, <1>2, <1>3, Carries DEF Opened, ThreadRecords
<1>5. errors' \in SUBSET Keys
  BY <1>2, <1>4
<1>6. UsesLog /\ job' = job
  <2>1. CASE UNCHANGED logVars
    BY <2>1 DEF UsesLog, logVars
  <2>2. CASE Reconcile(k, thread[t].source, thread[t].size, FALSE)
    BY <1>4, <2>2, ReconcileUsesLog
  <2> QED BY <1>2, <2>1, <2>2
<1> QED BY <1>2, <1>3, <1>5, <1>6, RestsWithLog

(* The deletion of a transcript.                                           *)
LEMMA BeginDeleteKeeps ==
    ASSUME IngestInv, NEW t \in Threads, NEW k \in Keys, BeginDelete(t, k)
    PROVE  IngestInv'
<1>1. At(t) = "rest" /\ holder' = holder
      /\ UNCHANGED <<logVars, file, written, current, entry, session, errors, budget>>
  BY DEF BeginDelete, registry, control
<1>2. current[k] \in Paths /\ file[current[k]] \in Sources \cup {NoSource}
  BY DEF IngestInv, FilesFit
<1>3. PICK pc \in {"remove", "removeAgain"}, s \in Sources \cup {NoSource} :
         thread' = [thread EXCEPT ![t] =
           [Rest EXCEPT !.pc = pc, !.key = k, !.path = current[k], !.source = s]]
  <2>1. CASE /\ deletion[k] = "no"
             /\ thread' = [thread EXCEPT ![t] =
                  [Rest EXCEPT !.pc = "remove", !.key = k, !.path = current[k],
                               !.source = file[current[k]]]]
    BY <1>2, <2>1
  <2>2. ASSUME deletion[k] \in Sources, NEW pc \in {"remove", "removeAgain"},
               thread' = [thread EXCEPT ![t] =
                  [Rest EXCEPT !.pc = pc, !.key = k, !.path = current[k],
                               !.source = deletion[k]]]
        PROVE  \E q \in {"remove", "removeAgain"}, s \in Sources \cup {NoSource} :
                  thread' = [thread EXCEPT ![t] =
                    [Rest EXCEPT !.pc = q, !.key = k, !.path = current[k], !.source = s]]
    BY <2>2
  <2> QED BY <2>1, <2>2 DEF BeginDelete
<1>4. PICK p : p = current[k]
  OBVIOUS
<1>5. PICK r : r = [Rest EXCEPT !.pc = pc, !.key = k, !.path = p, !.source = s]
  OBVIOUS
<1>6. thread' = [thread EXCEPT ![t] = r] /\ p \in Paths
  BY <1>2, <1>3, <1>4, <1>5
<1>7. r = [pc |-> pc, key |-> k, id |-> NoEntry, path |-> p,
           source |-> s, size |-> 0, offset |-> 0, force |-> FALSE]
  BY <1>5 DEF Rest
<1>8. r \in ThreadRecords /\ r.pc = pc /\ r.key = k
  BY <1>6, <1>7, BoundsAreNat DEF ThreadRecords, Pcs, Deleting
<1>9. Shape(t, r) /\ r.pc \notin Locked
  BY <1>8 DEF Shape, Ensuring, Locked, Reading, Copies, Preserving
<1>10. At(t) \notin Preserving /\ errors' \in SUBSET Keys /\ budget' \in BudgetRecord
  BY <1>1, Carries DEF Preserving
<1> QED BY <1>1, <1>6, <1>9, <1>10, WalksQuietly

(* A deletion goes on, while registrations or the file at the path change. *)
LEMMA DeletionGoesOn ==
    ASSUME IngestInv, NEW t \in Threads, NEW pc \in {"trash", "purge", "removeAgain"},
           thread' = [thread EXCEPT ![t].pc = pc],
           At(t) \in {"remove", "removeAgain", "trash"}, holder' = holder,
           RegistryFits', Len(entry') = Len(entry), FilesFit', UNCHANGED <<logVars, written>>
    PROVE  IngestInv'
<1>1. PICK r : r = GoneTo(t, pc)
  OBVIOUS
<1>2. thread' = [thread EXCEPT ![t] = r]
  BY <1>1 DEF GoneTo
<1>3. /\ pc \in Pcs \ {"rest"} /\ pc \notin Ensuring /\ pc \notin Locked /\ pc \notin Reading
      /\ pc \notin {"ensureLock", "lock"} /\ At(t) # "rest" /\ At(t) \notin Preserving
  BY DEF Pcs, Deleting, Ensuring, Locked, Reading, Copies, Preserving
<1>4. Shape(t, r) /\ r.pc = pc
  BY <1>1, <1>3, GoesFit
<1>5. Shape(t, r)'
  BY <1>4 DEF Shape, Opened
<1>6. UsesLog /\ job' = job
  BY DEF UsesLog, logVars
<1>7. /\ \A w \in Writers \ {t} : job'[w] = job[w]
      /\ t \in Writers => job'[t] = Idle
  BY <1>3, <1>6, NoCopy
<1>8. SourcesGrow
  BY BoundsAreNat DEF SourcesGrow, FilesFit
<1>9. Len(entry) <= Len(entry')
  BY DEF IngestInv, RegistryFits
<1>10. r.pc \in Locked => holder'[r.id] = t
  BY <1>3, <1>4
<1>11. t \in Writers /\ job'[t] # Idle => r.pc \in Preserving /\ job'[t].key = r.key
  BY <1>7
<1>12. \A i \in 1..Len(entry) : holder[i] \notin {t, Nobody} => holder'[i] = holder[i]
  OBVIOUS
<1> QED BY <1>2, <1>5, <1>6, <1>7, <1>8, <1>9, <1>10, <1>11, <1>12, ThreadStep

(* A deletion unregisters the session.                                     *)
LEMMA DeleteUnregisterKeeps ==
    ASSUME IngestInv, NEW t \in Threads, DeleteUnregister(t)
    PROVE  IngestInv'
<1>1. PICK k : k = thread[t].key
  OBVIOUS
<1>2. /\ At(t) \in {"remove", "removeAgain"} /\ holder' = holder
      /\ UNCHANGED <<logVars, file, written, current, budget>>
      /\ \/ Unregister(k)
         \/ UNCHANGED <<session, entry, errors>>
  BY <1>1 DEF DeleteUnregister, environment
<1>3. PICK pc \in {"trash", "purge"} : thread' = [thread EXCEPT ![t].pc = pc]
  BY <1>2 DEF DeleteUnregister, Goto
<1>4. k \in Keys /\ errors \in SUBSET Keys
  BY <1>1, <1>2, Carries
<1>5. RegistryFits' /\ Len(entry') = Len(entry)
  <2>1. RegistryFits
    BY DEF IngestInv
  <2>2. CASE Unregister(k)
    BY <1>2, <1>4, <2>1, <2>2, UnregisterKeeps
  <2>3. CASE UNCHANGED <<session, entry, errors>>
    BY <1>2, <1>4, <2>1, <2>3, RegistryStays
  <2> QED BY <1>2, <2>2, <2>3
<1>6. FilesFit'
  BY <1>2, FilesStay DEF IngestInv
<1> QED BY <1>2, <1>3, <1>5, <1>6, DeletionGoesOn

(* The file goes to the Trash, or the tombstone is rolled back.            *)
LEMMA TrashKeeps == ASSUME IngestInv, NEW t \in Threads, Trash(t) PROVE IngestInv'
<1>1. PICK p : p = thread[t].path
  OBVIOUS
<1>2. /\ At(t) = "trash" /\ holder' = holder
      /\ UNCHANGED <<logVars, written, current, entry, session, errors, budget>>
  BY DEF Trash
<1>3. errors' \in SUBSET Keys /\ budget' \in BudgetRecord /\ At(t) \notin Preserving
  BY <1>2, Carries DEF Preserving
<1>4. CASE /\ file' = [file EXCEPT ![p] = NoSource]
           /\ thread' = [thread EXCEPT ![t].pc = "removeAgain"]
  <2>1. FilesFit'
    BY <1>2, <1>4 DEF IngestInv, FilesFit
  <2>2. RegistryFits' /\ Len(entry') = Len(entry)
    BY <1>2, <1>3, RegistryStays DEF IngestInv
  <2> QED BY <1>2, <1>4, <2>1, <2>2, DeletionGoesOn
<1>5. CASE thread' = [thread EXCEPT ![t] = Rest] /\ UNCHANGED file
  BY <1>2, <1>3, <1>5, RestsQuietly
<1> QED BY <1>1, <1>4, <1>5 DEF Trash, Goto

(* The rows and the cursor are purged.                                     *)
LEMMA PurgeKeeps == ASSUME IngestInv, NEW t \in Threads, Purge(t) PROVE IngestInv' /\ UsesLog
<1>1. /\ At(t) = "purge" /\ PurgeSession(thread[t].key)
      /\ thread' = [thread EXCEPT ![t].pc = "receipt"]
      /\ UNCHANGED <<environment, registry, control, budget>>
  BY DEF Purge, Goto
<1>2. thread[t].key \in Keys /\ budget' \in BudgetRecord
  BY <1>1, Carries
<1>3. Rebinds(thread[t].key)
  BY <1>1 DEF Rebinds
<1>4. UsesLog
  BY <1>2, <1>3 DEF UsesLog, LogUse
<1>5. job' = job
  BY <1>1 DEF PurgeSession, DropRows
<1>6. /\ \A w \in Writers \ {t} : job'[w] = job[w]
      /\ t \in Writers => job'[t] = Idle
  BY <1>1, <1>5, NoCopy DEF Preserving
<1>7. /\ "receipt" \in Pcs \ {"rest"} /\ "receipt" \notin Ensuring /\ "receipt" \notin Locked
      /\ "receipt" \notin Reading /\ "receipt" \notin {"ensureLock", "lock"} /\ At(t) # "rest"
  BY <1>1 DEF Pcs, Deleting, Ensuring, Locked, Reading, Copies, Preserving
<1> QED BY <1>1, <1>2, <1>4, <1>6, <1>7, GoesWithLog

(* The final tombstone.                                                    *)
LEMMA FinishDeleteKeeps == ASSUME IngestInv, NEW t \in Threads, FinishDelete(t) PROVE IngestInv'
<1>1. /\ At(t) = "receipt" /\ thread' = [thread EXCEPT ![t] = Rest] /\ holder' = holder
      /\ UNCHANGED <<logVars, file, written, current, entry, session, errors, budget>>
  BY DEF FinishDelete, registry, control
<1>2. errors' \in SUBSET Keys /\ budget' \in BudgetRecord /\ At(t) \notin Preserving
  BY <1>1, Carries DEF Preserving
<1> QED BY <1>1, <1>2, RestsQuietly

------------------------------------------------------------------------------
(* The induction.                                                          *)
LEMMA IngestBegins == IngestInit => IngestInv
<1> SUFFICES ASSUME IngestInit PROVE IngestInv
  OBVIOUS
<1>1. IInv
  BY InitHolds DEF IngestInit
<1>2. budget \in BudgetRecord
  BY IngestAssumption DEF IngestInit, IngestAssumption
<1>3. FilesFit
  BY <1>2, BoundsAreNat DEF IngestInit, FilesFit, BudgetRecord
<1>4. RegistryFits
  BY EmptySeq DEF IngestInit, RegistryFits
<1>5. \A t \in Threads : thread[t] = Rest
  BY DEF IngestInit
<1>6. ThreadsFit
  BY <1>5, RestFits, RestIsFit DEF IngestInit, ThreadsFit
<1>7. LocksHeld
  BY <1>5, RestIsFit DEF LocksHeld, At, Locked, Copies, Preserving
<1>8. JobsFit /\ JobsHaveDrains
  BY DEF IngestInit, Init, JobsFit, JobsHaveDrains
<1>9. RowsArePrefixes
  BY DEF IngestInit, Init, RowsArePrefixes, PrefixOf, SourceOf, OffsetOf, HasCursor
<1> QED BY <1>1, <1>3, <1>4, <1>6, <1>7, <1>8, <1>9 DEF IngestInv

(* The steps of ensure.                                                    *)
LEMMA EnsureStepKeeps ==
    ASSUME IngestInv, NEW t \in Threads,
           (\E k \in Keys : Resolve(t, k)) \/ EnsureStep(t) \/ EnsureFails(t)
    PROVE  IngestInv' /\ UsesLog
<1>1. ASSUME \/ \E k \in Keys : Resolve(t, k)
             \/ EnsureCreate(t) \/ EnsureFind(t) \/ EnsureLocked(t) \/ EnsureWatch(t)
             \/ EnsureFails(t)
      PROVE  UsesLog
  BY <1>1 DEF Resolve, EnsureCreate, EnsureFind, EnsureLocked, EnsureWatch, EnsureFails, UsesLog
<1> QED BY <1>1, ResolveKeeps, EnsureCreateKeeps, EnsureFindKeeps, EnsureLockedKeeps,
           EnsureWatchKeeps, EnsureFailsKeeps, EnsureCallsLog DEF EnsureStep

(* The steps of a drain.                                                   *)
LEMMA DrainStepKeeps ==
    ASSUME IngestInv, NEW t \in Threads \cap Writers,
           DrainStep(t) \/ Lookup(t) \/ Inspect(t) \/ CopyFails(t)
    PROVE  IngestInv' /\ UsesLog
<1>1. ASSUME \/ DrainLock(t) \/ DrainOpen(t) \/ OpenFails(t) \/ CopyRefused(t) \/ Reread(t)
             \/ RecordError(t) \/ DrainEnd(t) \/ Lookup(t) \/ Inspect(t) \/ CopyFails(t)
      PROVE  UsesLog
  BY <1>1 DEF DrainLock, DrainOpen, OpenFails, CopyRefused, Reread, RecordError, DrainEnd, Lookup,
              Inspect, CopyFails, UsesLog
<1>2. ASSUME DrainLock(t) \/ DrainOpen(t) \/ Lookup(t) PROVE IngestInv'
  BY <1>2, DrainLockKeeps, DrainOpenKeeps, LookupKeeps
<1>3. ASSUME OpenFails(t) \/ CopyRefused(t) \/ CopyFails(t) PROVE IngestInv'
  BY <1>3, DrainTurnsKeep
<1>4. ASSUME RecordError(t) \/ DrainEnd(t) \/ Inspect(t) \/ Reread(t) PROVE IngestInv'
  BY <1>4, DrainEndsKeep, RereadKeeps
<1>5. ASSUME \/ DrainReconcile(t) \/ CopyChunk(t) \/ PreserveChunk(t) \/ PreserveJob(t)
             \/ PreserveEnd(t)
      PROVE  IngestInv' /\ UsesLog
  BY <1>5, DrainReconcileKeeps, CopyChunkKeeps, PreserveChunkKeeps, PreserveJobKeeps,
     PreserveEndKeeps
<1> QED BY <1>1, <1>2, <1>3, <1>4, <1>5 DEF DrainStep

(* The steps of a deletion.                                                *)
LEMMA DeletionKeeps ==
    ASSUME IngestInv, NEW t \in Threads, (\E k \in Keys : BeginDelete(t, k)) \/ DeleteStep(t)
    PROVE  IngestInv' /\ UsesLog
<1>1. ASSUME \/ \E k \in Keys : BeginDelete(t, k)
             \/ DeleteUnregister(t) \/ Trash(t) \/ FinishDelete(t)
      PROVE  UsesLog
  BY <1>1 DEF BeginDelete, DeleteUnregister, Trash, FinishDelete, UsesLog
<1> QED BY <1>1, BeginDeleteKeeps, DeleteUnregisterKeeps, TrashKeeps, FinishDeleteKeeps,
           PurgeKeeps DEF DeleteStep

(* Every step keeps the invariant, and uses the log as it is meant to be.  *)
LEMMA IngestInductive ==
    ASSUME IngestInv, [IngestNext]_vars
    PROVE  IngestInv' /\ UsesLog
<1>0. /\ Worker \in Threads \cap Writers /\ Drainers \subseteq Threads \cap Writers
      /\ Streams \cup Tails \cup Removers \subseteq Threads
  BY IngestAssumption DEF IngestAssumption, Threads
<1>1. CASE \/ Provider \/ \E p \in Paths : RegisterFile(p)
           \/ \E kept \in SUBSET wakes : Overflow(kept)
           \/ \E k \in Keys : Evict(k)
  <2>1. UsesLog
    BY <1>1 DEF Provider, WriteRecord, ReplaceFile, Resume, RegisterFile, Overflow, Evict, UsesLog
  <2>2. IngestInv'
    BY <1>1, ProviderKeeps, QueueKeeps, EvictKeeps
  <2> QED BY <2>1, <2>2
<1>2. CASE Collect \/ \E k \in Keys : Take(k)
  <2>1. UsesLog
    BY <1>2 DEF Collect, Take, UsesLog
  <2>2. IngestInv'
    BY <1>2, QueueKeeps, TakeKeeps
  <2> QED BY <2>1, <2>2
<1>3. ASSUME NEW t \in Streams \cup Drainers \cup Tails,
             (\E k \in Keys : Resolve(t, k)) \/ EnsureStep(t) \/ EnsureFails(t)
      PROVE  IngestInv' /\ UsesLog
  BY <1>0, <1>3, EnsureStepKeeps
<1>4. ASSUME NEW t \in {Worker} \cup Drainers,
             DrainStep(t) \/ Lookup(t) \/ Inspect(t) \/ CopyFails(t)
      PROVE  IngestInv' /\ UsesLog
  BY <1>0, <1>4, DrainStepKeeps
<1>5. ASSUME NEW t \in Tails, TailBind(t) PROVE IngestInv' /\ UsesLog
  BY <1>0, <1>5, TailBindKeeps
<1>6. ASSUME NEW t \in Removers, (\E k \in Keys : BeginDelete(t, k)) \/ DeleteStep(t)
      PROVE  IngestInv' /\ UsesLog
  BY <1>0, <1>6, DeletionKeeps
<1>7. CASE IngestSweep \/ IngestRestart \/ IngestCrash
  BY <1>7, SweepAndRestartKeep, CrashKeeps
<1>8. CASE UNCHANGED vars
  <2>1. /\ UsesLog /\ thread' = thread /\ holder' = holder /\ job' = job
        /\ UNCHANGED <<entry, session, errors, file, written, current, budget>>
    BY <1>8 DEF vars, logVars, environment, registry, control, UsesLog
  <2>2. RegistryFits' /\ Len(entry) <= Len(entry')
    BY <2>1, RegistryStays DEF IngestInv, RegistryFits
  <2>3. FilesFit' /\ SourcesGrow
    BY <2>1, FilesStay DEF IngestInv
  <2> QED BY <2>1, <2>2, <2>3, WorldStep
<1> QED BY <1>1, <1>2, <1>3, <1>4, <1>5, <1>6, <1>7, <1>8 DEF IngestNext, WorkerStep

(* The inductive invariant holds in every state of the ingestion.          *)
THEOREM IngestInvariance == IngestSafety => []IngestInv
BY IngestBegins, IngestInductive, PTL DEF IngestSafety

(* Registrations, locks and programs of the threads are always of their    *)
(* own kind, and a thread past a lock holds it, for any sessions, files,   *)
(* requests and deletions.                                                 *)
THEOREM IngestKeepsItsTypes == IngestSafety => []IngestTypeOK
<1>1. IngestInv => IngestTypeOK
  <2> SUFFICES ASSUME IngestInv PROVE IngestTypeOK
    OBVIOUS
  <2>1. \A t \in Threads :
          At(t) \in {"prepare", "rebind", "watch", "open", "reconcile", "copy",
                     "preserve", "kept", "lost", "failed", "reread", "error",
                     "inspect"} => holder[thread[t].id] = t
    BY DEF IngestInv, LocksHeld, Locked, Copies, Preserving
  <2>2. TypeOK
    BY DEF IngestInv, IInv
  <2> QED BY <2>1, <2>2 DEF IngestInv, IngestTypeOK, RegistryFits, FilesFit, Entries
<1> QED BY <1>1, IngestInvariance, PTL

(* The first m of the first n records are the first m.                     *)
LEMMA FirstOfFirst ==
    ASSUME NEW s \in Sources, NEW n \in Nat, NEW m \in 0..n
    PROVE  SubSeq(FirstRecords(s, n), 1, m) = FirstRecords(s, m)
<1> DEFINE C == FirstRecords(s, n)
           D == SubSeq(C, 1, m)
           E == FirstRecords(s, m)
<1>1. /\ \A i \in 1..m : C[i] = <<s, i>> /\ C[i] \in Sources \X Nat
      /\ E \in Seq(Sources \X Nat) /\ Len(E) = m /\ \A i \in 1..m : E[i] = <<s, i>>
  BY DEF FirstRecords
<1> HIDE DEF C, E
<1>2. /\ D \in Seq(Sources \X Nat) /\ Len(D) = IF 1 <= m THEN m - 1 + 1 ELSE 0
      /\ \A i \in 1..(m - 1 + 1) : D[i] = C[1 + i - 1]
  BY <1>1, SubSeqProperties
<1> HIDE DEF D
<1>3. Len(D) = m /\ \A i \in 1..m : D[i] = C[i]
  BY <1>2
<1>4. D = E
  <2>1. Len(D) = Len(E) /\ \A i \in 1..Len(D) : D[i] = E[i]
    BY <1>1, <1>3
  <2>2. D \in Seq(Sources \X Nat) /\ E \in Seq(Sources \X Nat)
    BY <1>1, <1>2
  <2> HIDE DEF C
  <2> QED BY ONLY <2>1, <2>2, SeqEqual
<1> QED BY <1>4 DEF D, C, E

(* The log of a session is always exactly the first records of the file    *)
(* its cursor is bound to, for any number of sessions, files, streams,     *)
(* requests and deletions, however they interleave.                        *)
THEOREM LogIsPrefixOfSource == IngestSafety => []RowsArePrefixOfSource
<1>1. IngestInv => RowsArePrefixOfSource
  <2> SUFFICES ASSUME IngestInv, NEW k \in Keys, SourceOf(k) # NoSource
               PROVE  rows[k] = SubSeq(Content(SourceOf(k)), 1, OffsetOf(k))
    BY DEF RowsArePrefixOfSource, IngestInv, RowsArePrefixes, PrefixOf
  <2>1. SourceOf(k) \in Sources /\ OffsetOf(k) \in Nat
    BY CursorKinds DEF IngestInv, IInv
  <2>2. /\ rows[k] = FirstRecords(SourceOf(k), OffsetOf(k))
        /\ OffsetOf(k) <= written[SourceOf(k)] /\ written[SourceOf(k)] \in Nat
    BY <2>1, BoundsAreNat DEF IngestInv, RowsArePrefixes, PrefixOf, FilesFit
  <2>3. Content(SourceOf(k)) = FirstRecords(SourceOf(k), written[SourceOf(k)])
    BY DEF Content, FirstRecords
  <2> QED BY <2>1, <2>2, <2>3, FirstOfFirst
<1> QED BY <1>1, IngestInvariance, PTL

(* Whatever the threads do, their calls are a behaviour of the log: what   *)
(* is proved of the log holds of the log under ingestion.                  *)
THEOREM IngestIsABehaviourOfTheLog == IngestSafety => Spec
<1>1. IngestInit => Init
  BY DEF IngestInit
<1>2. IngestInv /\ [IngestNext]_vars => [Next]_logVars
  BY IngestInductive, UsesAreSteps DEF UsesLog, IngestInv
<1> QED BY <1>1, <1>2, IngestInvariance, PTL DEF IngestSafety, Spec

(* In particular it never meets a reference without its file, forgets no   *)
(* file, charges what is stored and stays within the limits, and its       *)
(* readers see the history the log promises.                               *)
THEOREM IngestKeepsTheLogsPromises ==
    IngestSafety => /\ []ReferencedFilesExist /\ []ReferencesBindRows
                    /\ []NoForgottenFile /\ []LedgerExact /\ []WithinLimits
                    /\ RefinesHistory
BY IngestIsABehaviourOfTheLog, LogFilesExist, LogReferencesBind, LogForgetsNoFile,
   LogLedgerIsExact, LogStaysWithinLimits, LogRefinesHistory, PTL

------------------------------------------------------------------------------
(* Why rows are dropped.  A drain judges the file by the size it saw when  *)
(* it opened it.  Until reconcile the lock of its registration keeps every *)
(* copy under the same registration out; a drain that holds another one,   *)
(* because the session was registered again, may copy on.                  *)

(* What the drain saw is not less than what is in the log of that file, if *)
(* it was copied under the registration of the drain.                      *)
SizesHold ==
    \A t \in Threads :
        /\ At(t) = "reconcile" /\ ~thread[t].force
        /\ SourceOf(thread[t].key) = thread[t].source
        /\ movedUnder[thread[t].key] = thread[t].id
        => OffsetOf(thread[t].key) <= thread[t].size

(* Who draws the cursor of a session: a drain that copies, or a rebinding. *)
Advances(t) ==
    CopyChunk(t) \/ (t \in Writers /\ At(t) = "preserve" /\ CommitRow(t) /\ Goto(t, "kept")
                       /\ Remember(t))
Rebinding(t) ==
    \/ EnsurePrepare(t) \/ EnsureRebind(t) \/ DrainReconcile(t) \/ Purge(t)
    \/ t \in Tails /\ TailBind(t)

(* Nothing else moves a cursor.                                            *)
LEMMA CursorsMove ==
    ASSUME IngestInv, [IngestNext]_vars
    PROVE  UNCHANGED <<cursor, movedUnder>> \/ \E t \in Threads : Advances(t) \/ Rebinding(t)
<1>0. /\ Worker \in Threads \cap Writers /\ Drainers \subseteq Threads \cap Writers
      /\ Streams \cup Tails \cup Removers \subseteq Threads
  BY IngestAssumption DEF IngestAssumption, Threads
<1>1. ASSUME \/ Provider \/ \E p \in Paths : RegisterFile(p)
             \/ \E kept \in SUBSET wakes : Overflow(kept)
             \/ \E k \in Keys : Evict(k)
             \/ Collect \/ \E k \in Keys : Take(k)
      PROVE  UNCHANGED <<cursor, movedUnder>>
  BY <1>1 DEF Provider, WriteRecord, ReplaceFile, Resume, RegisterFile, Overflow, Evict, Collect,
              Take, logVars
<1>2. ASSUME NEW t \in Threads,
             (\E k \in Keys : Resolve(t, k)) \/ EnsureStep(t) \/ EnsureFails(t)
      PROVE  UNCHANGED <<cursor, movedUnder>> \/ Rebinding(t)
  BY <1>2 DEF Resolve, EnsureStep, EnsureCreate, EnsureFind, EnsureLocked, EnsureWatch,
              EnsureFails, Rebinding, logVars
<1>3. ASSUME NEW t \in Threads \cap Writers,
             \/ DrainLock(t) \/ DrainOpen(t) \/ OpenFails(t) \/ CopyRefused(t) \/ Reread(t)
             \/ RecordError(t) \/ DrainEnd(t) \/ Lookup(t) \/ Inspect(t) \/ CopyFails(t)
      PROVE  UNCHANGED <<cursor, movedUnder>>
  BY <1>3 DEF DrainLock, DrainOpen, OpenFails, CopyRefused, Reread, RecordError, DrainEnd, Lookup,
              Inspect, CopyFails, logVars
<1>4. ASSUME NEW t \in Threads \cap Writers, PreserveChunk(t) \/ PreserveEnd(t)
      PROVE  UNCHANGED <<cursor, movedUnder>>
  BY <1>4 DEF PreserveChunk, PreserveEnd, Reserve, DiscardCopy, Release, database
<1>5. ASSUME NEW t \in Threads \cap Writers, PreserveJob(t)
      PROVE  UNCHANGED <<cursor, movedUnder>> \/ Advances(t)
  BY <1>5 DEF PreserveJob, CreateTemp, CreateFails, FinishCopy, AbandonCopy, RenameTemp, LoseRace,
              CommitFails, Advances, database
<1>6. ASSUME NEW t \in Threads \cap Writers,
             DrainStep(t) \/ Lookup(t) \/ Inspect(t) \/ CopyFails(t)
      PROVE  UNCHANGED <<cursor, movedUnder>> \/ Advances(t) \/ Rebinding(t)
  BY <1>3, <1>4, <1>5, <1>6 DEF DrainStep, Advances, Rebinding
<1>7. ASSUME NEW t \in Removers, (\E k \in Keys : BeginDelete(t, k)) \/ DeleteStep(t)
      PROVE  UNCHANGED <<cursor, movedUnder>> \/ Rebinding(t)
  BY <1>7 DEF BeginDelete, DeleteStep, DeleteUnregister, Trash, FinishDelete, Rebinding, logVars
<1>8. ASSUME NEW t \in Tails, TailBind(t) PROVE Rebinding(t)
  BY <1>8 DEF Rebinding
<1>9. ASSUME IngestSweep \/ IngestRestart \/ IngestCrash \/ UNCHANGED vars PROVE UNCHANGED <<cursor, movedUnder>>
  BY <1>9 DEF IngestSweep, IngestRestart, IngestCrash, SweepBlob, Restart, Crash, database, vars,
              logVars
<1> QED BY <1>0, <1>1, <1>2, <1>6, <1>7, <1>8, <1>9 DEF IngestNext, WorkerStep

(* A drain that copies draws the cursor of its own session to a record.    *)
LEMMA AdvancesItsOwn ==
    ASSUME IngestInv, NEW t \in Threads, NEW k, k = thread[t].key, Advances(t)
    PROVE  /\ At(t) \in {"copy", "preserve"} /\ k \in Keys /\ OffsetOf(k)' > 0
           /\ \A j \in Keys \ {k} : OffsetOf(j)' = OffsetOf(j) /\ SourceOf(j)' = SourceOf(j)
<1>1. k = thread[t].key
  OBVIOUS
<1>2. At(t) \in {"copy", "preserve"}
  BY DEF Advances, CopyChunk, Copying
<1>3. At(t) \in Reading /\ At(t) # "rest"
  BY <1>2 DEF Reading, Copies, Preserving
<1>4. /\ k \in Keys /\ thread[t].source \in Sources /\ thread[t].offset \in 0..MaxOffset
      /\ cursor \in [Keys -> Cursor \cup {NoCursor}]
  BY <1>1, <1>3, Carries DEF Opened, ThreadRecords, IngestInv, IInv, TypeOK
<1>5. \E n \in Nat \ {0} : HasCursor(k) /\ cursor' = [cursor EXCEPT ![k].offset = n]
  <2>1. CASE CopyChunk(t)
    <3>1. PICK s, off, n : s = thread[t].source /\ off = thread[t].offset
                           /\ n = Max(OrdinaryRun(s, off, thread[t].size))
      OBVIOUS
    <3>2. /\ OrdinaryRun(s, off, thread[t].size) # {} /\ SourceOf(k) = s
          /\ cursor' = [cursor EXCEPT ![k].offset = off + n]
      BY <1>1, <2>1, <3>1 DEF CopyChunk, AppendAndAdvance, CursorMatches
    <3>3. OrdinaryRun(s, off, thread[t].size) \subseteq 1..MaxBatch
      BY DEF OrdinaryRun
    <3>4. n \in 1..MaxBatch
      BY <3>1, <3>2, <3>3, LargestOf, BoundsAreNat
    <3>5. HasCursor(k)
      BY <1>4, <3>1, <3>2, CursorIsRow DEF IngestInv, IInv
    <3>6. off + n \in Nat \ {0}
      BY <1>4, <3>1, <3>4, BoundsAreNat
    <3> QED BY <3>2, <3>5, <3>6
  <2>2. CASE t \in Writers /\ CommitRow(t)
    <3>1. CopyGoesOn(t)
      BY <2>2 DEF CopyGoesOn
    <3>2. job[t].key = k /\ JobFits(job[t])
      BY <1>1, <2>2, <3>1, CopyStays
    <3>3. job[t].stage = "renamed" /\ cursor' = [cursor EXCEPT ![k].offset = job[t].next]
      BY <2>2, <3>2 DEF CommitRow
    <3>4. SourceOf(k) \in Sources /\ job[t].next \in Nat \ {0}
      BY <3>2, <3>3, BoundsAreNat DEF JobFits, CursorMatches
    <3>5. HasCursor(k)
      BY <1>4, <3>4, CursorIsRow DEF IngestInv, IInv
    <3> QED BY <3>3, <3>4, <3>5
  <2> QED BY <2>1, <2>2 DEF Advances
<1>6. PICK n \in Nat \ {0} : HasCursor(k) /\ cursor' = [cursor EXCEPT ![k].offset = n]
  BY <1>5
<1>7. cursor[k] \in Cursor /\ cursor'[k] = [cursor[k] EXCEPT !.offset = n]
  BY <1>4, <1>6 DEF HasCursor
<1>8. cursor'[k] \in Cursor /\ cursor'[k].offset = n
  BY <1>7 DEF Cursor
<1>9. OffsetOf(k)' = n
  BY <1>8, LogAssumption DEF OffsetOf, HasCursor, LogAssumption, Cursor
<1>10. \A j \in Keys \ {k} : cursor'[j] = cursor[j]
  BY <1>4, <1>6
<1>11. \A j \in Keys \ {k} : OffsetOf(j)' = OffsetOf(j) /\ SourceOf(j)' = SourceOf(j)
  BY <1>10 DEF OffsetOf, SourceOf, HasCursor
<1> QED BY <1>2, <1>4, <1>9, <1>11

(* A rebinding begins at the first record, or changes nothing.             *)
LEMMA RebindingBegins ==
    ASSUME IngestInv, NEW t \in Threads, NEW k, k = thread[t].key, Rebinding(t)
    PROVE  /\ \A j \in Keys \ {k} : OffsetOf(j)' = OffsetOf(j) /\ SourceOf(j)' = SourceOf(j)
           /\ UNCHANGED cursor \/ OffsetOf(k)' = 0
<1>1. k = thread[t].key
  OBVIOUS
<1>2. At(t) \in {"prepare", "rebind", "reconcile", "bind", "purge"}
  BY DEF Rebinding, EnsurePrepare, EnsureRebind, DrainReconcile, Purge, TailBind
<1>3. /\ k \in Keys /\ TypeOK /\ FilesFit /\ RowsArePrefixes
      /\ At(t) \in Reading => /\ thread[t].source \in Sources /\ thread[t].size \in 0..MaxOffset
                              /\ thread[t].force \in BOOLEAN
  BY <1>1, <1>2, Carries DEF Opened, ThreadRecords, IngestInv, IInv
<1>4. Rebinds(k) \/ UNCHANGED logVars
  <2>1. CASE EnsurePrepare(t)
    BY <1>1, <2>1 DEF EnsurePrepare, Rebinds
  <2>2. CASE EnsureRebind(t) \/ Purge(t)
    BY <1>1, <2>2 DEF EnsureRebind, Purge, Rebinds
  <2>3. CASE DrainReconcile(t)
    <3>1. At(t) \in Reading /\ Reconcile(k, thread[t].source, thread[t].size, thread[t].force)
      BY <1>1, <2>3 DEF DrainReconcile, Reading
    <3> QED BY <1>3, <3>1 DEF Reconcile, Rebinds
  <2>4. CASE TailBind(t)
    <3>1. At(t) \in Reading /\ (UNCHANGED logVars
                                \/ Reconcile(k, thread[t].source, thread[t].size, FALSE))
      BY <1>1, <2>4 DEF TailBind, Reading
    <3> QED BY <1>3, <3>1 DEF Reconcile, Rebinds
  <2> QED BY <2>1, <2>2, <2>3, <2>4 DEF Rebinding
<1>5. CASE Rebinds(k)
  BY <1>1, <1>3, <1>5, ReboundIsEmpty
<1>6. CASE UNCHANGED logVars
  BY <1>6 DEF logVars, OffsetOf, SourceOf, HasCursor
<1> QED BY <1>4, <1>5, <1>6

(* A thread comes to reconcile by opening the file, and by nothing else.   *)
Arrives(u) ==
    /\ \A t \in Threads \ {u} : thread'[t] = thread[t]
    /\ thread'[u] = thread[u] \/ thread'[u].pc # "reconcile" \/ DrainOpen(u)

(* A thread that is sent somewhere else is not at reconcile.               *)
LEMMA SentElsewhere ==
    ASSUME IngestInv, NEW u \in Threads,
           \/ thread' = thread
           \/ thread' = [thread EXCEPT ![u] = Rest]
           \/ \E pc \in Pcs \ {"reconcile"} :
                \/ thread' = [thread EXCEPT ![u].pc = pc]
                \/ \E x : thread' = [thread EXCEPT ![u].pc = pc, ![u].id = x]
                \/ \E x : thread' = [thread EXCEPT ![u].pc = pc, ![u].offset = x]
                \/ \E x : thread' = [thread EXCEPT ![u].offset = x, ![u].pc = pc]
                \/ \E r : r.pc = pc /\ thread' = [thread EXCEPT ![u] = r]
    PROVE  Arrives(u)
<1>1. thread \in [Threads -> ThreadRecords] /\ thread[u] \in ThreadRecords
  BY DEF IngestInv, ThreadsFit
<1>2. \A t \in Threads \ {u} : thread'[t] = thread[t]
  BY <1>1
<1>3. thread'[u] = thread[u] \/ thread'[u].pc # "reconcile"
  <2>1. CASE thread' = [thread EXCEPT ![u] = Rest]
    BY <1>1, <2>1 DEF Rest
  <2>2. ASSUME NEW pc \in Pcs \ {"reconcile"}, thread' = [thread EXCEPT ![u].pc = pc]
        PROVE  thread'[u].pc # "reconcile"
    BY <1>1, <2>2 DEF ThreadRecords
  <2>3. ASSUME NEW pc \in Pcs \ {"reconcile"}, NEW x,
               thread' = [thread EXCEPT ![u].pc = pc, ![u].id = x]
        PROVE  thread'[u].pc # "reconcile"
    BY <1>1, <2>3 DEF ThreadRecords
  <2>4. ASSUME NEW pc \in Pcs \ {"reconcile"}, NEW x,
               \/ thread' = [thread EXCEPT ![u].pc = pc, ![u].offset = x]
               \/ thread' = [thread EXCEPT ![u].offset = x, ![u].pc = pc]
        PROVE  thread'[u].pc # "reconcile"
    BY <1>1, <2>4 DEF ThreadRecords
  <2>5. ASSUME NEW pc \in Pcs \ {"reconcile"}, NEW r, r.pc = pc,
               thread' = [thread EXCEPT ![u] = r]
        PROVE  thread'[u].pc # "reconcile"
    BY <1>1, <2>5
  <2> QED BY <2>1, <2>2, <2>3, <2>4, <2>5
<1> QED BY <1>2, <1>3 DEF Arrives

(* So only an open, or a crash, sends a thread there.                      *)
LEMMA OnlyOpensArrive ==
    ASSUME IngestInv, [IngestNext]_vars
    PROVE  IngestCrash \/ \E u \in Threads : Arrives(u)
<1>0. /\ Worker \in Threads \cap Writers /\ Drainers \subseteq Threads \cap Writers
      /\ Streams \cup Tails \cup Removers \subseteq Threads
  BY IngestAssumption DEF IngestAssumption, Threads
<1> DEFINE P == Pcs \ {"reconcile"}
<1>1. /\ Ensuring \subseteq P /\ Preserving \subseteq P /\ Deleting \subseteq P
      /\ {"rest", "lookup", "bind", "lock", "open"} \subseteq P
      /\ {"copy", "reread", "error", "inspect"} \subseteq P
  BY DEF Pcs, Ensuring, Locked, Copies, Preserving, Deleting
<1>2. /\ {"ensure", "ensureLock", "prepare", "rebind", "watch"} \subseteq P
      /\ {"preserve", "kept", "lost", "failed"} \subseteq P
      /\ {"remove", "trash", "removeAgain", "purge", "receipt"} \subseteq P
  BY <1>1 DEF Ensuring, Preserving, Deleting
<1> HIDE DEF P
<1>3. ASSUME \/ Provider \/ \E p \in Paths : RegisterFile(p)
             \/ \E kept \in SUBSET wakes : Overflow(kept)
             \/ \E k \in Keys : Evict(k)
             \/ Collect \/ IngestSweep \/ IngestRestart \/ UNCHANGED vars
      PROVE  Arrives(Worker)
  <2>1. thread' = thread
    BY <1>3 DEF Provider, WriteRecord, ReplaceFile, Resume, RegisterFile, Overflow, Evict, Collect,
                IngestSweep, IngestRestart, vars
  <2> QED BY <1>0, <2>1, SentElsewhere
<1>4. ASSUME NEW k \in Keys, Take(k) PROVE Arrives(Worker)
  <2>1. CASE session[k] = NoEntry
    <3>1. thread' = thread
      BY <1>4, <2>1 DEF Take
    <3> QED BY <1>0, <3>1, SentElsewhere
  <2>2. CASE session[k] # NoEntry
    <3>1. PICK r : r = [Rest EXCEPT !.pc = "lock", !.key = k, !.id = session[k],
                                    !.force = (due[k] = "reset")]
      OBVIOUS
    <3>2. thread' = [thread EXCEPT ![Worker] = r]
      BY <1>4, <2>2, <3>1 DEF Take
    <3>3. r.pc = "lock"
      BY <3>1 DEF Rest
    <3> QED BY <1>0, <1>1, <3>2, <3>3, SentElsewhere DEF P
  <2> QED BY <2>1, <2>2
<1>5. ASSUME NEW u \in Threads, NEW k \in Keys, Resolve(u, k) PROVE Arrives(u)
  <2>1. PICK r : r = [Rest EXCEPT !.pc = "ensure", !.key = k, !.path = current[k],
            !.source = IF u \in Tails THEN file[current[k]] ELSE NoSource,
            !.size = IF u \in Tails THEN written[file[current[k]]] ELSE 0]
    OBVIOUS
  <2>2. thread' = [thread EXCEPT ![u] = r]
    BY <1>5, <2>1 DEF Resolve
  <2>3. r.pc = "ensure"
    BY <2>1 DEF Rest
  <2> QED BY <1>2, <2>2, <2>3, SentElsewhere DEF P
<1>6. ASSUME NEW u \in Threads, EnsureStep(u) \/ EnsureFails(u) PROVE Arrives(u)
  <2>1. CASE EnsureCreate(u) \/ EnsureFind(u)
    <3>1. \E pc \in P : \E x : thread' = [thread EXCEPT ![u].pc = pc, ![u].id = x]
      BY <1>2, <2>1 DEF EnsureCreate, EnsureFind
    <3> QED BY <3>1, SentElsewhere DEF P
  <2>2. CASE EnsurePrepare(u) \/ EnsureRebind(u) \/ EnsureFails(u)
    <3>1. \/ thread' = [thread EXCEPT ![u] = Rest]
          \/ \E pc \in P : thread' = [thread EXCEPT ![u].pc = pc]
      BY <1>2, <2>2 DEF EnsurePrepare, EnsureRebind, EnsureFails, Goto
    <3> QED BY <3>1, SentElsewhere DEF P
  <2>3. CASE EnsureLocked(u) \/ EnsureWatch(u)
    <3>1. At(u) \in Ensuring
      BY <2>3 DEF EnsureLocked, EnsureWatch, Ensuring
    <3>2. PICK r : r = Return(u)
      OBVIOUS
    <3>3. r.pc \in P
      BY <1>1, <3>1, <3>2, Returned
    <3>4. \/ thread' = [thread EXCEPT ![u] = Rest] \/ thread' = [thread EXCEPT ![u] = r]
          \/ \E pc \in P : thread' = [thread EXCEPT ![u].pc = pc]
      BY <1>2, <2>3, <3>2 DEF EnsureLocked, EnsureWatch, Goto
    <3> QED BY <3>3, <3>4, SentElsewhere DEF P
  <2> QED BY <1>6, <2>1, <2>2, <2>3 DEF EnsureStep
<1>7. ASSUME NEW u \in Threads \cap Writers,
             DrainStep(u) \/ Lookup(u) \/ Inspect(u) \/ CopyFails(u)
      PROVE  Arrives(u)
  <2>1. ASSUME \/ DrainLock(u) \/ OpenFails(u) \/ PreserveChunk(u) \/ PreserveJob(u)
               \/ CopyRefused(u) \/ RecordError(u) \/ DrainEnd(u) \/ Inspect(u) \/ CopyFails(u)
        PROVE  Arrives(u)
    <3>1. \/ thread' = thread \/ thread' = [thread EXCEPT ![u] = Rest]
          \/ \E pc \in P : thread' = [thread EXCEPT ![u].pc = pc]
      BY <1>1, <1>2, <2>1 DEF DrainLock, OpenFails, PreserveChunk, PreserveJob, CopyRefused,
                              RecordError, DrainEnd, Inspect, CopyFails, Goto
    <3> QED BY <3>1, SentElsewhere DEF P
  <2>2. CASE DrainOpen(u)
    BY <2>2 DEF DrainOpen, Arrives, IngestInv, ThreadsFit
  <2>3. CASE DrainReconcile(u) \/ Reread(u)
    <3>1. \/ thread' = [thread EXCEPT ![u] = Rest]
          \/ \E pc \in P : \E x : thread' = [thread EXCEPT ![u].pc = pc, ![u].offset = x]
      BY <1>1, <2>3 DEF DrainReconcile, Reread
    <3> QED BY <3>1, SentElsewhere DEF P
  <2>4. CASE PreserveEnd(u)
    <3>1. \/ thread' = thread
          \/ \E pc \in P : \E x : thread' = [thread EXCEPT ![u].offset = x, ![u].pc = pc]
      <4>1. CASE UNCHANGED thread
        BY <4>1
      <4>2. CASE ~ (UNCHANGED thread)
        <5>1. PICK x, pc : /\ x = IF At(u) = "kept" THEN job[u].next ELSE thread[u].offset
                           /\ pc = CASE At(u) = "kept" -> "copy"
                                     [] At(u) = "lost" -> "reread"
                                     [] At(u) = "failed" -> "error"
          OBVIOUS
        <5>2. thread' = [thread EXCEPT ![u].offset = x, ![u].pc = pc]
          BY <2>4, <4>2, <5>1 DEF PreserveEnd
        <5>3. pc \in {"copy", "reread", "error"}
          BY <2>4, <5>1 DEF PreserveEnd
        <5> QED BY <1>1, <5>2, <5>3
      <4> QED BY <4>1, <4>2
    <3> QED BY <3>1, SentElsewhere DEF P
  <2>5. CASE CopyChunk(u)
    <3>1. PICK x : x = thread[u].offset
                         + Max(OrdinaryRun(thread[u].source, thread[u].offset, thread[u].size))
      OBVIOUS
    <3>2. thread' = [thread EXCEPT ![u].offset = x] /\ thread[u].pc = "copy"
      BY <2>5, <3>1 DEF CopyChunk, Copying, At
    <3>3. thread' = [thread EXCEPT ![u].pc = "copy", ![u].offset = x]
      BY <3>2 DEF IngestInv, ThreadsFit, ThreadRecords
    <3> QED BY <1>1, <3>3, SentElsewhere DEF P
  <2>6. CASE Lookup(u)
    <3>1. \/ thread' = [thread EXCEPT ![u] = Rest]
          \/ \E pc \in P : \E x : thread' = [thread EXCEPT ![u].pc = pc, ![u].id = x]
      BY <1>1, <2>6 DEF Lookup
    <3> QED BY <3>1, SentElsewhere DEF P
  <2> QED BY <1>7, <2>1, <2>2, <2>3, <2>4, <2>5, <2>6 DEF DrainStep
<1>8. ASSUME NEW u \in Tails, TailBind(u) PROVE Arrives(u)
  <2>1. thread' = [thread EXCEPT ![u] = Rest] /\ u \in Threads
    BY <1>0, <1>8 DEF TailBind
  <2> QED BY <2>1, SentElsewhere
<1>9. ASSUME NEW u \in Removers, (\E k \in Keys : BeginDelete(u, k)) \/ DeleteStep(u)
      PROVE  Arrives(u)
  <2>1. CASE DeleteStep(u)
    <3>1. \/ thread' = [thread EXCEPT ![u] = Rest]
          \/ \E pc \in P : thread' = [thread EXCEPT ![u].pc = pc]
      BY <1>2, <2>1 DEF DeleteStep, DeleteUnregister, Trash, Purge, FinishDelete, Goto
    <3> QED BY <1>0, <3>1, SentElsewhere DEF P
  <2>2. ASSUME NEW k \in Keys, BeginDelete(u, k) PROVE Arrives(u)
    <3>1. PICK pc \in {"remove", "removeAgain"} : \E x : thread' = [thread EXCEPT ![u] =
              [Rest EXCEPT !.pc = pc, !.key = k, !.path = current[k], !.source = x]]
      BY <2>2 DEF BeginDelete
    <3>2. PICK x : thread' = [thread EXCEPT ![u] =
              [Rest EXCEPT !.pc = pc, !.key = k, !.path = current[k], !.source = x]]
      BY <3>1
    <3>3. PICK r : r = [Rest EXCEPT !.pc = pc, !.key = k, !.path = current[k], !.source = x]
      OBVIOUS
    <3>4. r.pc = pc /\ thread' = [thread EXCEPT ![u] = r] /\ pc \in P
      BY <1>2, <3>2, <3>3 DEF Rest
    <3> QED BY <1>0, <3>4, SentElsewhere DEF P
  <2> QED BY <1>9, <2>1, <2>2
<1> QED BY <1>0, <1>3, <1>4, <1>5, <1>6, <1>7, <1>8, <1>9 DEF IngestNext, WorkerStep

(* The history follows the cursor.                                         *)
LEMMA Remembered ==
    ASSUME NEW t \in Threads, Advances(t) \/ Rebinding(t), NEW k \in Keys
    PROVE  /\ cursor'[k] = cursor[k] => movedUnder'[k] = movedUnder[k]
           /\ cursor'[k] # cursor[k] => movedUnder'[k] = RegistrationOf(t)
<1>1. Remember(t)
  BY DEF Advances, Rebinding, CopyChunk, EnsurePrepare, EnsureRebind, DrainReconcile, Purge, TailBind
<1> QED BY <1>1 DEF Remember

(* Whoever draws a cursor makes a step of its own, and draws no other.     *)
LEMMA MoversStep ==
    ASSUME IngestInv, NEW t \in Threads, Advances(t) \/ Rebinding(t)
    PROVE  Steps(t)
<1>1. thread \in [Threads -> ThreadRecords] /\ thread[t] \in ThreadRecords
  BY DEF IngestInv, ThreadsFit
<1>2. ASSUME NEW pc, thread[t].pc # pc, thread' = [thread EXCEPT ![t].pc = pc]
      PROVE  Steps(t)
  <2>1. thread'[t].pc = pc
    BY <1>1, <1>2 DEF ThreadRecords
  <2> QED BY <1>2, <2>1 DEF Steps
<1>3. CASE CopyChunk(t)
  <2>1. PICK off, n : off = thread[t].offset
                      /\ n = Max(OrdinaryRun(thread[t].source, thread[t].offset, thread[t].size))
    OBVIOUS
  <2>2. /\ OrdinaryRun(thread[t].source, off, thread[t].size) # {}
        /\ thread' = [thread EXCEPT ![t].offset = off + n]
    BY <1>3, <2>1 DEF CopyChunk
  <2>3. OrdinaryRun(thread[t].source, off, thread[t].size) \subseteq 1..MaxBatch
    BY DEF OrdinaryRun
  <2>4. n \in Nat \ {0} /\ off \in Nat
    BY <1>1, <2>1, <2>2, <2>3, LargestOf, BoundsAreNat DEF ThreadRecords
  <2>5. thread'[t].offset = off + n
    BY <1>1, <2>2 DEF ThreadRecords
  <2>6. off + n # off
    BY <2>4
  <2> QED BY <2>1, <2>5, <2>6 DEF Steps
<1>4. CASE At(t) = "preserve" /\ Goto(t, "kept")
  BY <1>2, <1>4 DEF Goto, At
<1>5. CASE EnsurePrepare(t) \/ EnsureRebind(t) \/ Purge(t)
  BY <1>2, <1>5 DEF EnsurePrepare, EnsureRebind, Purge, Goto, At
<1>6. CASE DrainReconcile(t)
  <2>1. At(t) = "reconcile" /\ \E x : thread' = [thread EXCEPT ![t].pc = "copy", ![t].offset = x]
    BY <1>6 DEF DrainReconcile
  <2>2. thread'[t].pc = "copy"
    BY <1>1, <2>1 DEF ThreadRecords
  <2> QED BY <2>1, <2>2 DEF Steps, At
<1>7. CASE TailBind(t)
  <2>1. thread[t].pc = "bind" /\ thread'[t] = Rest
    BY <1>1, <1>7 DEF TailBind, At
  <2> QED BY <2>1, RestIsFit DEF Steps
<1> QED BY <1>3, <1>4, <1>5, <1>6, <1>7 DEF Advances, Rebinding

LEMMA MoversKeepOthers ==
    ASSUME IngestInv, NEW t \in Threads, Advances(t) \/ Rebinding(t),
           NEW j \in Keys, j # thread[t].key
    PROVE  cursor'[j] = cursor[j]
<1>1. cursor \in [Keys -> Cursor \cup {NoCursor}]
  BY DEF IngestInv, IInv, TypeOK
<1>2. ASSUME NEW x, \/ cursor' = [cursor EXCEPT ![thread[t].key] = x]
                    \/ cursor' = [cursor EXCEPT ![thread[t].key].offset = x]
                    \/ cursor' = [cursor EXCEPT ![thread[t].key].source = x]
      PROVE  cursor'[j] = cursor[j]
  BY <1>1, <1>2
<1>3. CASE CopyChunk(t)
  BY <1>2, <1>3 DEF CopyChunk, AppendAndAdvance
<1>4. CASE t \in Writers /\ At(t) = "preserve" /\ CommitRow(t)
  <2>1. CopyGoesOn(t)
    BY <1>4 DEF CopyGoesOn
  <2>2. job[t].key = thread[t].key
    BY <1>4, <2>1, CopyStays
  <2> QED BY <1>2, <1>4, <2>2 DEF CommitRow
<1>5. CASE EnsurePrepare(t)
  BY <1>2, <1>5 DEF EnsurePrepare, FirstPrepare, RebuildForParser, logVars
<1>6. CASE EnsureRebind(t) \/ Purge(t)
  BY <1>2, <1>6 DEF EnsureRebind, Purge, ResetIngest, PurgeSession
<1>7. CASE DrainReconcile(t) \/ TailBind(t)
  <2>1. \/ UNCHANGED logVars
        \/ \E src, size, force : \/ BindSource(thread[t].key, src, size, force)
                                \/ RebuildForSource(thread[t].key, src, size, force)
    BY <1>7 DEF DrainReconcile, TailBind, Reconcile
  <2> QED BY <1>2, <2>1 DEF BindSource, RebuildForSource, logVars
<1> QED BY <1>3, <1>4, <1>5, <1>6, <1>7 DEF Advances, Rebinding

(* What a drain saw is not less than what was copied under its own         *)
(* registration.                                                           *)
LEMMA SizesKeepHolding ==
    ASSUME IngestInv, SizesHold, [IngestNext]_vars
    PROVE  SizesHold'
<1> SUFFICES ASSUME NEW t \in Threads, thread'[t].pc = "reconcile", ~ thread'[t].force,
                    NEW k, k = thread'[t].key, NEW s, s = thread'[t].source, SourceOf(k)' = s,
                    movedUnder'[k] = thread'[t].id
             PROVE  OffsetOf(k)' <= thread'[t].size
  BY DEF SizesHold, At
<1>1. ~ IngestCrash
  BY RestIsFit DEF IngestCrash
<1>2. thread'[t] = thread[t] \/ DrainOpen(t)
  BY <1>1, OnlyOpensArrive DEF Arrives
<1>3. CASE DrainOpen(t)
  <2>1. /\ UNCHANGED logVars /\ At(t) = "open"
        /\ thread' = [thread EXCEPT ![t].pc = "reconcile",
              ![t].source = file[entry[thread[t].id].path],
              ![t].size = written[file[entry[thread[t].id].path]]]
    BY <1>3 DEF DrainOpen
  <2>2. thread[t] \in ThreadRecords /\ thread[t].key \in Keys /\ thread[t].id \in 1..Len(entry)
    BY <2>1, Carries DEF Locked
  <2>3. k = thread[t].key /\ s = file[entry[thread[t].id].path] /\ thread'[t].size = written[s]
    BY <2>1, <2>2 DEF IngestInv, ThreadsFit, ThreadRecords
  <2>4. s \in Sources
    <3>1. entry[thread[t].id] \in Entries
      BY <2>2 DEF IngestInv, RegistryFits
    <3>2. entry[thread[t].id].path \in Paths
      BY <3>1 DEF Entries
    <3> QED BY <1>3, <2>3, <3>2 DEF IngestInv, FilesFit, DrainOpen
  <2>5. SourceOf(k) = s /\ OffsetOf(k)' = OffsetOf(k)
    <3>1. cursor' = cursor
      BY <2>1 DEF logVars
    <3>2. SourceOf(k)' = SourceOf(k) /\ OffsetOf(k)' = OffsetOf(k)
      BY <3>1 DEF SourceOf, OffsetOf, HasCursor
    <3> QED BY <3>2
  <2>6. OffsetOf(k) <= written[s]
    BY <2>2, <2>3, <2>4, <2>5, BoundsAreNat DEF IngestInv, RowsArePrefixes, PrefixOf
  <2> QED BY <2>3, <2>5, <2>6
<1>4. CASE thread'[t] = thread[t]
  <2>1. At(t) = "reconcile" /\ k = thread[t].key /\ s = thread[t].source /\ ~ thread[t].force
    BY <1>4 DEF At
  <2>2. At(t) \in Locked /\ holder[thread[t].id] = t
    BY <2>1 DEF Locked, IngestInv, LocksHeld
  <2>3. k \in Keys /\ thread[t] \in ThreadRecords /\ thread[t].size \in Nat
    BY <2>1, Carries, BoundsAreNat DEF ThreadRecords
  <2>4. CASE cursor'[k] = cursor[k]
    <3>1. OffsetOf(k)' = OffsetOf(k) /\ SourceOf(k)' = SourceOf(k)
      BY <2>4 DEF OffsetOf, SourceOf, HasCursor
    <3>2. movedUnder[k] = thread[t].id
      <4>1. movedUnder'[k] = movedUnder[k]
        BY <2>3, <2>4, CursorsMove, Remembered
      <4> QED BY <1>4, <4>1
    <3> QED BY <1>4, <2>1, <3>1, <3>2 DEF SizesHold
  <2>5. CASE cursor'[k] # cursor[k]
    <3>1. PICK u \in Threads : Advances(u) \/ Rebinding(u)
      BY <2>5, CursorsMove
    <3>2. Steps(u) /\ thread[u].key = k
      BY <2>3, <2>5, <3>1, MoversStep, MoversKeepOthers
    <3>3. CASE Rebinding(u)
      <4>1. OffsetOf(k)' = 0
        BY <2>5, <3>2, <3>3, RebindingBegins
      <4> QED BY <1>4, <2>3, <4>1
    <3>4. CASE Advances(u)
      <4>1. movedUnder'[k] = RegistrationOf(u)
        BY <2>3, <2>5, <3>1, Remembered
      <4>2. At(u) \in {"copy", "preserve"}
        BY <3>2, <3>4, AdvancesItsOwn
      <4>3. At(u) \in Locked /\ holder[thread[u].id] = u
        BY <4>2 DEF Locked, Copies, Preserving, IngestInv, LocksHeld
      <4>4. thread[u].id = thread[t].id
        BY <1>4, <4>1, <4>2 DEF RegistrationOf
      <4> QED BY <1>4, <2>2, <3>2, <4>3, <4>4 DEF Steps
    <3> QED BY <3>1, <3>3, <3>4
  <2> QED BY <2>4, <2>5
<1> QED BY <1>2, <1>3, <1>4

(* Rows that go away take the cursor back to the first record.             *)
LEMMA DroppedRowsBegin ==
    ASSUME IngestInv, IngestInv', NEW k \in Keys, SourceOf(k) # NoSource, rows[k] # <<>>,
           rows[k]' = <<>>, SourceOf(k)' = SourceOf(k)
    PROVE  OffsetOf(k) > 0 /\ OffsetOf(k)' = 0
<1>1. PICK s : s = SourceOf(k)
  OBVIOUS
<1>2. rows[k] = FirstRecords(s, OffsetOf(k)) /\ OffsetOf(k) \in Nat
  BY <1>1, OffsetIsBounded, BoundsAreNat DEF IngestInv, RowsArePrefixes, PrefixOf
<1>3. OffsetOf(k) > 0
  BY <1>2, NoRecords
<1>4. PICK m : m = OffsetOf(k)'
  OBVIOUS
<1>5. m \in Nat
  <2>1. cursor'[k] \in Cursor \cup {NoCursor}
    BY DEF IngestInv, IInv, TypeOK
  <2> QED BY <1>4, <2>1 DEF OffsetOf, HasCursor, Cursor
<1>6. rows'[k] = FirstRecords(s, m)
  <2>1. PrefixOf(k)'
    BY DEF IngestInv, RowsArePrefixes
  <2> QED BY <1>1, <1>4, <2>1 DEF PrefixOf, FirstRecords
<1>7. m = 0
  <2>1. Len(FirstRecords(s, m)) = m
    BY <1>5 DEF FirstRecords
  <2>2. Len(<<>>) = 0
    BY EmptySeq
  <2> QED BY <1>6, <2>1, <2>2
<1> QED BY <1>3, <1>4, <1>7

(* A step that drops rows has a reason, or undoes what a rival copied, or  *)
(* serves a transcript that grew since it was opened.                      *)
Undoes(k, t) ==
    /\ Steps(t)
    /\ \/ At(t) = "reconcile" /\ movedUnder[k] # thread[t].id
       \/ At(t) = "bind" /\ thread[t].size < written[thread[t].source]

LEMMA DropsHaveReasons ==
    ASSUME IngestInv, IngestInv', SizesHold, [IngestNext]_vars,
           NEW k \in Keys, DropsRowsNeedlessly(k)
    PROVE  \E t \in Threads : Undoes(k, t)
<1>0. SourceOf(k) # NoSource /\ rows[k] # <<>> /\ rows[k]' = <<>> /\ ~ Justified(k)
  BY DEF DropsRowsNeedlessly
<1>1. /\ SourceOf(k)' = SourceOf(k) /\ ~ (written[SourceOf(k)] < OffsetOf(k))
      /\ \A t \in Threads :
           Steps(t) => At(t) # "prepare" /\ ~ (At(t) = "reconcile" /\ thread[t].force)
  BY <1>0 DEF Justified
<1>2. OffsetOf(k) > 0 /\ OffsetOf(k)' = 0
  BY <1>0, <1>1, DroppedRowsBegin
<1>3. OffsetOf(k) \in Nat
  BY OffsetIsBounded
<1>4. ~ (OffsetOf(k)' = OffsetOf(k))
  BY <1>2, <1>3
<1>5. cursor'[k] # cursor[k]
  BY <1>4 DEF OffsetOf, HasCursor
<1>6. PICK t \in Threads : Advances(t) \/ Rebinding(t)
  BY <1>5, CursorsMove
<1>7. Steps(t) /\ thread[t].key = k
  BY <1>5, <1>6, MoversStep, MoversKeepOthers
<1>8. CASE Advances(t)
  <2>1. OffsetOf(k)' > 0
    BY <1>7, <1>8, AdvancesItsOwn
  <2> QED BY <1>2, <2>1
<1>9. CASE Rebinding(t)
  <2>1. CASE EnsurePrepare(t)
    BY <1>1, <1>7, <2>1 DEF EnsurePrepare
  <2>2. CASE EnsureRebind(t) \/ Purge(t)
    <3>1. ResetIngest(k) \/ PurgeSession(k)
      BY <1>7, <2>2 DEF EnsureRebind, Purge
    <3>2. \/ \E p, g : cursor' = [cursor EXCEPT ![k] = NewCursor(p, g, NoSource)]
          \/ cursor' = [cursor EXCEPT ![k] = NoCursor]
      BY <3>1 DEF ResetIngest, PurgeSession
    <3>3. cursor'[k].source = NoSource \/ cursor'[k] = NoCursor
      BY <3>2 DEF IngestInv, IInv, TypeOK, NewCursor
    <3>4. SourceOf(k)' = NoSource
      BY <3>3 DEF SourceOf, HasCursor
    <3> QED BY <1>0, <1>1, <3>4
  <2>3. ASSUME NEW src, NEW size, NEW force, ~ force, Reconcile(k, src, size, force)
        PROVE  OffsetOf(k) > size /\ SourceOf(k) = src
    <3>1. HasCursor(k)
      BY <1>0 DEF SourceOf
    <3>2. RebuildForSource(k, src, size, force)
      BY <1>0, <1>5, <2>3, <3>1 DEF Reconcile, BindSource, logVars
    <3>3. OffsetOf(k) > size \/ SourceOf(k) # src
      BY <2>3, <3>2 DEF RebuildForSource, MustReset
    <3>4. cursor'[k] = NewCursor(cursor[k].parser, cursor[k].gen + 1, src)
      BY <3>2 DEF RebuildForSource, IngestInv, IInv, TypeOK
    <3>5. cursor'[k].source = src
      BY <3>4 DEF NewCursor
    <3>6. SourceOf(k)' = src \/ SourceOf(k)' = NoSource
      BY <3>5 DEF SourceOf, HasCursor
    <3> QED BY <1>0, <1>1, <3>3, <3>6
  <2>4. CASE DrainReconcile(t)
    <3>1. /\ At(t) = "reconcile" /\ ~ thread[t].force
          /\ Reconcile(k, thread[t].source, thread[t].size, thread[t].force)
      BY <1>1, <1>7, <2>4 DEF DrainReconcile
    <3>2. OffsetOf(k) > thread[t].size /\ SourceOf(k) = thread[t].source
      BY <2>3, <3>1
    <3>3. thread[t].size \in Nat
      BY <3>1, Carries, BoundsAreNat DEF ThreadRecords
    <3>4. movedUnder[k] # thread[t].id
      <4> SUFFICES ASSUME movedUnder[k] = thread[t].id PROVE FALSE
        OBVIOUS
      <4>1. OffsetOf(k) <= thread[t].size
        BY <1>7, <3>1, <3>2 DEF SizesHold
      <4> QED BY <1>3, <3>2, <3>3, <4>1
    <3> QED BY <1>7, <3>1, <3>4 DEF Undoes
  <2>5. CASE TailBind(t)
    <3>1. At(t) = "bind" /\ (UNCHANGED logVars \/ Reconcile(k, thread[t].source, thread[t].size, FALSE))
      BY <1>7, <2>5 DEF TailBind
    <3>2. OffsetOf(k) > thread[t].size /\ SourceOf(k) = thread[t].source
      BY <1>5, <2>3, <3>1 DEF logVars
    <3>3. thread[t].size \in Nat /\ thread[t].source \in Sources
      BY <3>1, Carries, BoundsAreNat DEF ThreadRecords, Opened, Reading
    <3>4. written[thread[t].source] \in Nat
      BY <3>3, BoundsAreNat DEF IngestInv, FilesFit
    <3>5. thread[t].size < written[thread[t].source]
      BY <1>1, <1>3, <3>2, <3>3, <3>4
    <3> QED BY <1>7, <3>1, <3>5 DEF Undoes
  <2> QED BY <1>9, <2>1, <2>2, <2>4, <2>5 DEF Rebinding
<1> QED BY <1>6, <1>8, <1>9

(* Whatever registers, is evicted or races, a drain drops rows of a file   *)
(* that only grew only if they were copied under another registration of   *)
(* the session, and an open-transcript request only if the file grew since *)
(* it was opened; everything else that drops rows has one of the reasons   *)
(* the log's documentation gives.                                          *)
THEOREM ResetsHaveReasons == IngestSafety => OnlyRivalsUndo
<1>1. IngestInit => SizesHold
  <2> SUFFICES ASSUME IngestInit PROVE SizesHold
    OBVIOUS
  <2>1. \A t \in Threads : thread[t] = Rest
    BY DEF IngestInit
  <2> QED BY <2>1, RestIsFit DEF SizesHold, At
<1>2. IngestInv /\ SizesHold /\ [IngestNext]_vars => SizesHold'
  BY SizesKeepHolding
<1>3. IngestInv /\ IngestInv' /\ SizesHold /\ [IngestNext]_vars
        => \A k \in Keys : DropsRowsNeedlessly(k) =>
              \E t \in Threads :
                  /\ Steps(t)
                  /\ \/ At(t) = "reconcile" /\ movedUnder[k] # thread[t].id
                     \/ At(t) = "bind" /\ thread[t].size < written[thread[t].source]
  BY DropsHaveReasons DEF Undoes
<1> QED BY <1>1, <1>2, <1>3, IngestInvariance, PTL DEF IngestSafety, OnlyRivalsUndo
=============================================================================
