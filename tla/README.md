# Pairling helper: models, checks and proofs

Pairling is the Mac companion of an iOS app. A daemon (`mac/companiond/pairlingd.py`,
one thread per HTTP request) follows the transcripts that coding agents write, keeps
them as a durable event log, serves that log to phones as a resumable stream, pairs
phones with the Mac, notifies them, lets them control coding agents, and keeps files
for them. This directory models the parts of the daemon that keep state together across
threads, processes, stores and restarts. All paths below are
relative to `mac/companiond/` unless they start elsewhere.

## 1. Inventory

| Part | State it keeps | Operations | Hard behaviour | What makes it correct |
|---|---|---|---|---|
| Session event log (`session_event_log.py`) | SQLite rows, ingest cursors, raw-blob references, a storage ledger; blob files; in-memory reservations | append, append-and-advance, preserve an oversized record, bind / rebuild / reset / purge, reads | the copy of an oversized record spans five steps and two stores; blob files are unlinked after the commit; crash anywhere | a reference always has its file and its row; the ledger is exact and the limits hold; rows of a generation only grow |
| Transcript ingestion (`session_event_ingest.py`) | registrations with a drain lock each, error states, the worker's queue | ensure, worker drain, drain_now, serve an open transcript, remove | lookups before locks; replacement, move and eviction of a transcript that is being read; lost wakes; retries | the log is the exact prefix of one file; the head is reached; errors end |
| File watcher, event hub (`session_events.py`) | subscriptions with a bounded queue, watches, retries | publish, get, close, rotate | several publishers, an overrun, waiting and closing | every loss is announced before what follows it |
| Session stream and pages (`pairlingd.py`, `_handle_session_events_v2*`) | per connection: generation, cursor | hello, poll, history page, one full row | the log is rebuilt between any two reads; the connection breaks | the phone never mixes two histories, has no silent hole, catches up |
| Session removal (`pairlingd.py`, `session_event_ingest.remove`) | tombstones, receipts, the registry of sessions | delete, retry a pending deletion | readers of the session being deleted | nothing of a deleted session comes back |
| Pairing and devices (`pairling_pairing.py`, `pairling_devices.py`, `pairling_relay_claims.py`) | invitation and marker files, device and claim rows, relay secrets, used tickets | start, claim, activate, revoke, expire, clean up | four stores in turn, compensation that may fail, repeated requests, crashes, two invitations for one phone | one live device per phone, one device per invitation, the newest repair wins, nothing is left behind |
| Push outbox (`push_dispatcher.py`) | delivery rows with leases, retry inputs in a second store, tombstones of finished events, the registry of phones | submit, claim, send, finish, drain, prune, register, drop a phone | a lease that runs out under a sender; the end of a delivery is three transactions over two stores; revocation during a send; crash anywhere | a finished delivery stays finished, nothing is sent to a dropped phone, every event settles |
| Control gateway and managed sessions (`session_control_gateway.py`, `managed_provider_sessions.py`, `provider_control_service.py`) | events and typestate of a session, leases, confirmations, the ledger of actions, recovery handles and attempts | snapshot, execute, retry, recover, expire, refresh the generation | the provider answers late or not at all; retries beside the first request; crash between reservation, start, call and verdict | an action runs at most once, its verdict is the provider's, the events tell what the ledger holds, authority is exclusive |
| PairDrop vault (`pairdrop_store.py`, `pairdrop_cli.py`) | rows of uploads and files, partials, objects, lock files | create, write a piece, complete, cancel, expire, recover, clean up, put, delete, purge | several processes on one vault; renames and rows are separate steps; clean-up beside live uploads; loss of power | a file arrives once and whole, what failed never arrives, adding again ends |
| PTY broker, request proofs, postures | leases and rings; a replay window; files with revisions | | one lock each | |
| Adapters, publishers, monitors, App Attest, installer, connectd (Go), automation helper (Swift) | none shared, or another program's | | I/O, cryptography, wording | |

How they interact: the provider writes a transcript; the watcher publishes on the hub;
the ingest worker drains the file into the log under the registration's drain lock; the
log's generation and sequence numbers are what streams and pages agree on with a phone;
a removal closes the registration, moves the file and purges the log. A pairing creates
the device that every other request is authenticated as, writes into the push secret
store, and its activation drops the push registrations of the device it replaces. A
phone's request to act on a session goes through the gateway, which keeps its ledger and
events in the managed-session store and calls the provider's driver. The vault is shared
by the daemon and the command line, in processes of their own, through one database and
one directory.
`PROJECT.json` lists every component, the ones not modelled with the reason, and under
`hazards` each place where the code is hard to test.

## 2. Modules

| Module | Models | Built on |
|---|---|---|
| `SessionHistory` | abstract: a session's log is a growing sequence per generation | |
| `SessionEventLog` | the durable log, blob directory, reservations, crash and restart; implements `SessionHistory` | |
| `SessionEventLogProofs` | its inductive invariant, refinement | `SessionEventLog`, `TLAPS` |
| `SessionIngest` | registrations, worker, requests and deletion; its threads call the log's actions | extends `SessionEventLog` |
| `SessionIngestProofs` | its inductive invariant; ingestion uses the log as the log is meant to be used | `SessionIngest`, `SessionEventLogProofs` |
| `SessionStream` | one v2 stream, history pages and single rows of one phone | |
| `SessionStreamProofs` | its inductive invariant | `SessionStream`, `TLAPS` |
| `LossyQueue` | abstract: a queue that may drop its oldest events and says how many | |
| `EventQueue` | a subscription of the hub; implements `LossyQueue` | |
| `EventQueueProofs` | its inductive invariant, refinement | `EventQueue`, `TLAPS` |
| `Pairing` | invitations, claims, activations, revocation, clean-up, crashes | |
| `PairingProofs` | its inductive invariant | `Pairing`, `TLAPS` |
| `PushOutbox` | one sender and the worker on the rows, inputs and tombstones of the outbox | |
| `PushOutboxProofs` | its inductive invariant | `PushOutbox`, `TLAPS` |
| `ControlPromise` | abstract: a mutation is handed to the provider at most once and gets the verdict the provider proves; what two requests that dispatch it at once, or a verdict told twice, may do to that | |
| `SessionControl` | requests, ledger, events and leases of one managed session, the provider, crashes; implements `ControlPromise` | |
| `SessionControlProofs` | its two inductive invariants, refinement | `SessionControl`, `TLAPS` |
| `VaultPromise` | abstract: an upload arrives once or fails for good, and stands for its key as long as something can come of it | |
| `PairDropVault` | uploads, completion, clean-up and files of the vault, by threads of processes that die; implements `VaultPromise` | |
| `PairDropVaultProofs` | its inductive invariant, refinement | `PairDropVault`, `TLAPS` |
| `MC*` | instances for TLC: scenarios and symmetry sets | |

Definitions marked "Mutant" are plausible bugs that no next-state relation uses;
`PROJECT.json` pairs each checked property with one that breaks it.

### Correspondence to the code

**SessionEventLog.** `rows`, `cursor`, `refs`, `usage` are the tables `session_events`,
`ingest_cursors`, `session_event_raw_blobs`, `session_event_storage_usage`; `temps` and
`blobs` are `.tmp` and `.raw` files; `reserved`, `reservedTotal` the in-memory
reservations; `job` is a thread inside `append_preserved_raw_and_advance`, `sweep` the
files that the holder of the mutex has yet to unlink. One action per operation; the copy
of an oversized record is cut where the code gives up the mutex or commits. A row costs
one unit, a raw copy `RawCost`; offsets count records. Parsing and redaction are data.
`leaked` is a history variable: names whose unlink failed.

**SessionIngest.** `entry` are the registration objects (a thread keeps the one it looked
up even when the session is registered again), `session` is `_sessions`, `holder` their
drain locks, `wakes` the worker's queue, `awaiting` watches whose new inode is not
registered, `errors` the typed error state, `due` the worker's coalesced batch. A
thread's program counter names the point it waits at, and the model interleaves wherever
a lock is taken or given back. The provider appends, replaces a file (a new inode), and
a session resolves to another path; a torn last line is left out, since the cursor counts
only complete lines. `movedUnder` is a history variable: the registration under which a
session's cursor last moved.

**SessionStream.** `reader` is the handler with the generation and cursor it read, `wire`
what was written and not read, `call` a page or row request under way, `phone` what the
phone holds and what it was told is missing. Rows remember the build of the log they
come from, so a mixture of two histories can be seen. The phone is external: it restarts
on `log_reset`, notes `backlog_gap`, keeps an answer only for the generation it has now.

**EventQueue.** One subscription; a publisher first looks the subscription up
(`Publish`) and then offers (`Offer`), which is where a close comes between. `Get` is cut
at the wait on the condition.

**Pairing.** `files`, `markers` are the invitation and its claim marker; `claim` and
`device` the rows of `pending_pair_claims` and `devices`; `secrets`, `tombs`, `notices`
the three parts of the push secret store; `push` the registrations of the push registry;
`lock` is `_claim_lock`. A handler is a request thread; each program counter is one step
that touches one store: `marker`, `create`, `store`, `unlink`, `unmark`, and the
compensation `undoSecret`, `undoDevice`, `undoMarker` in the order of
`_finalize_pending_psk_claim`. The activation's transaction is `Decide` (its checks, and
the rejection of an older repair), `MarkRemote` (`before_activation`, which writes
another store while the database's write lock is held) and `Commit`. Each change of the
secret store may fail before or after the new content is in place. A pending device's
created_at is its number. Keys, proofs and attestations are abstract: they verify, or the
request is refused.

**PushOutbox.** Rows, inputs and tombstones are the delivery table, the second store of
retry payloads and the terminal tombstones; a sender's program counter names the
transaction or network call it stands before, and it carries what it read earlier (the
claim number, the target it was bound to). The worker drains due rows, the clock ends
leases and retry delays, a phone registers, renews its token, is dropped. The push
provider is external: it accepts, refuses the token, is out of reach, and an answer may
be lost.

**SessionControl.** `execute` and `recover` are request threads cut at each transaction
of the managed-session store and at the call of the provider: verify lease and snapshot,
reserve, prepare (the catalogue's check, then the consumption of the confirmation), own (a
known owned typestate, then the service's reservation), mark the dispatch, publish
`mutation.started`, call, complete, publish the verdict, persist the recovery handle. A
refusal by the catalogue, the service, the mark or the start event is recorded as
`rejected` in the ledger; a missing confirmation or typestate raises and leaves the action
reserved. The store's events with their typestate, the ledger rows, leases, confirmations
and handles are variables. The provider is external: `fate` is what it did. `driver` is
what the session's driver knows of it, in its memory (`_action_results` in
`providers/opencode.py:944-991`): it waits from the call on, may or may not see the end,
and a recovery proves only what the driver knows. A crash ends all threads and empties the
drivers; the store survives. `Sent` lets a world have a request wait for the answer to
another one, as a phone does that acts upon what it was told. `twins` is a history
variable: actions that a repeated request went on with while another one was between their
reservation and their dispatch.

**PairDropVault.** `row` is `upload_sessions`, `partial`, `object`, `hidden` and
`lockfile` the files in `partials`, `objects` and `.purge-recovery`, `life` the table
`files`. A thread is a request of the daemon or a process of the command line; each step
is one transaction or one operation on files. An flock is held on an inode, and unlinking
a lock file makes the next opener use another one. `unsynced` are renames that a loss of
power may undo; `writer` is a thread that works on files inside a write transaction
(`write_upload_chunk`, `upload_bytes`, `purge_deleted_file`), which no other transaction
can begin beside. A file is a sequence of pieces, good or bad; hashing is comparison with
`Whole`. `damaged` is a history variable: uploads whose partial somebody removed from
outside.

## 3. Runs

| Run | Asks | Bounds |
|---|---|---|
| `log` | `TypeOK`, `ReferencedFilesExist`, `ReferencesBindRows`, `LedgerExact`, `WithinLimits`, `NoForgottenFile`, `RefinesHistory` | two sessions, two writers, two blob tokens, one unit too little for both sessions, two generations |
| `ingest` | `IngestTypeOK`, `RowsArePrefixOfSource`, `OnlyRivalsUndo`, `HeadIsReached`, `ErrorsEnd` | ten scenarios under fairness: a boundary race on a replaced transcript, a move with a crash or with an eviction, a deletion with a crash and an I/O error or with an eviction, a stream through a failure and a crash, through a replacement, through a replacement and an eviction, two drains under two registrations, a request that binds a transcript that grew since it was opened |
| `ingest_purged` (violation) | `DeletedStaysPurged` | one stream, one deletion |
| `stream` | `StreamTypeOK`, `OneHistoryUnlessPurged`, `NoSilentHole`, `ClaimedGenerationIsTheirs`, `PhoneCatchesUp` | three rows, two rebuilds or one purge, one break |
| `queue` | `QueueTypeOK`, `NothingUncounted`, `BehavesAsLossyQueue`, `EverythingIsReported` | two publishers, a queue of two, three events each |
| `pairing` | `PairingTypeOK`, `OneLiveDevicePerPhone`, `NewestRepairWins`, `OneDevicePerInvitation`, `SecretsAreAccountedFor`, `AcknowledgedIsClean` | two threads, two devices, four scenarios |
| `pairing_unannounced` (violation) | `RemoteJoinIsAnnounced` | the same |
| `outbox` | `OutboxTypeOK`, `FinishedStaysFinished`, `NoSendAfterDrop`, `EveryEventSettles` | one sender and the worker, one phone, two events, one active and one terminal row at most, eight scenarios |
| `outbox_orphaned` (violation) | `InputBacksRow` | a full outbox |
| `control` | `ControlTypeOK`, `EventsTellTheLedger`, `AuthorityIsExclusive`, `KeepsPromise`, `RunIsSettled` | two phones, three actions, up to six requests, two generations, one crash, ten worlds |
| `control_twice` (violation) | `RejectedWasNotApplied` | one request sent twice |
| `vault` | `VaultTypeOK`, `FilesAreWhole`, `KeepsPromise`, `EveryAddEnds` | two processes that add one thing of two pieces, three uploads, two files, six worlds |

What the passing runs show. The log never references a file that is gone, charges exactly
what it stores, and forgets a file only when its unlink failed; to its readers it is a
sequence that grows until the generation changes. Whatever drains, rebinds, replaces,
evicts or crashes, its rows are the first *offset* records of the file its cursor is
bound to, and a session that is kept open reaches the head. What was copied is copied
again for no reason in two cases only, both of which the run reaches: a drain undoes what
another registration of the session copied, and a request that opened the transcript binds
it by a size that is out of date. A phone sees one history, is
told of every hole, and ends up with everything. A subscriber learns the exact number of
events it lost before it sees the next one. A phone has one live device however often it
pairs, an invitation makes one device through any failure, and an acknowledged activation
leaves no push registration of the replaced device behind, even one that was
authenticated earlier. An event given to the outbox is delivered, refused or given up,
through lost answers, expired leases and crashes, never reopened, and a sender that was
overtaken changes nothing; once a phone was dropped, no delivery that had not yet been
bound to it reaches it. An action on a session reaches the provider at most once,
whatever is repeated, recovered or interrupted, and is never recorded as something the
provider did not do, unless a repeated request went on with it before it was dispatched
(`twins`; `control_twice` shows what then happens). Mutations of a session start one after
the other's verdict, and none after its end, unless a verdict was told twice
(`JudgedTwice`), because an answer came after a recovery. Both cases are in the run, and in
them the chain of events, the one lease, the one confirmation, and a verdict once given
hold all the same. Each run that began reaches a verdict if the phone goes on asking, or,
where its driver no longer knows the outcome, stays open with its recovery handle.

A file in the vault is whole and came of one upload, a cancelled or failed upload never
becomes a file, and whoever adds a thing again and again ends up with it.

Why the bounds are enough. Every race in the code needs two threads at one object, or one
thread and the environment; each run has two of those that meet, and three when a third
adds an order (worker, request and deletion). A second record makes the difference between
"first" and "not first"; a third row makes a page, a gap and a live row at the same time;
two generations distinguish "other" from "same", and a third lets a reader be two behind.
The storage limits are one unit below what both writers want. Two devices and two
invitations are the smallest number that has an order. Scenarios (`Budgets`) split a
product of rare events into runs that each allow one or two of them: failures are not
needed together with replacement for any step the code takes on either. All bounds are
constants or fields of `budget`: `MaxBatch`, `MaxOffset`, `MaxGen` (log), `length`,
`entries`, `faults`, `crashes`, `resumes`, `MaxQueue` (ingest), `rebuilds`, `purges`,
`drops`, `MaxRows` (stream), `MaxEvents` (queue), `MaxDevices`, `crashes`, `faults`,
`drops`, `revokes`, `pushes` (pairing), `ActiveLimit`, `TerminalLimit`, the attempts,
renewals and crashes of a scenario (outbox), the fields of a world (control: requests,
generations, crashes, what may be asked again; vault: lapses, cancels, deletes, purges,
puts, clean-ups, faults, losses, crashes, who adds). An upload of two pieces has a first
piece and a rest; two adders are the smallest number that can meet over one key, the third
upload is for the one who tries again after a failure. Most worlds of `control` have up to
four requests: an action is asked for, asked for again, and recovered, and a second action
or phone meets it. `LateAnswer` has six, because a first request must still wait for its
answer while a second gives up on it, a third recovers, and a fourth and a fifth start
other actions, one of which ends the session. `Late` has a request beside the first one
from the first step on. `RunIsSettled` is
stated for worlds without a change of generation, and `HeadIsReached` and `ErrorsEnd` for
scenarios in which a stream keeps the session open. Where a budget is used up the system
may really stop, so those runs do not look for deadlock; `log` and `queue` do.

Symmetry is used over blob tokens, sessions and writers in `log` and over threads in
`pairing`; never in a run with a liveness property.

### Fairness

* Ingestion: weak fairness for the one worker thread, the watcher's retry loop, each
  request thread once it is under way, the blob sweep of the thread that holds the mutex,
  and the restart of the daemon (launchd's KeepAlive). Nothing is asked of the provider,
  of failures or of crashes: their budgets end, which is what "the provider rests" means.
* Stream: the handler's loop, the connection and the phone go on; strong fairness only for
  the phone's page requests, because a page may wait for a single row that was asked for
  first, though not for ever.
* Queue: the reader calls `get` again and again, a publisher finishes its offer. No
  fairness for time-outs: `EverythingIsReported` must hold by notification alone.
* Outbox: the worker's loop and the clock (leases and retry delays end). The thread that
  submits, the phone and the push provider owe nothing.
* Control: a request that was admitted goes on, the phone asks again about an action it
  has no verdict for, and the provider finishes what it runs. That its driver learns of it
  is not assumed: whether it does is left open, and after a crash it does not.
* Vault: a thread that has begun goes on, time passes (a stalled completion gets old, the
  lease of a failed upload ends, as `expires_at` says), and an adder adds again until it
  is told that the file is there. Nothing is asked of clean-ups beyond those that every
  new upload begins with.

## 4. Proofs

`SessionEventLogProofs` proves, for any sets of sessions, events, writers, names and
sources, any limits and any bounds:

* `LogInvariant`: `Spec => []IInv`. `TypeOK`, `ReferencedFilesExist` and
  `ReferencesBindRows` are not inductive by themselves. A file is deleted by a sweep or
  created by a copy under a name, so the invariant must say who owns a name:
  `NamesAreOwned` (a name held by a copy is not referenced, two copies do not share one,
  nothing referenced is swept), `RenamedIsExclusive` (between rename and commit the mutex
  is held, so at most one job is there and no sweep runs), `DownIsQuiet` (a crash ends
  every copy) and `RefsFinite` (cardinalities are counts).
* `LogTypeCorrect`, `LogFilesExist`, `LogReferencesBind`: the checked invariants.
* `LogRefinesHistory`: `Spec => RefinesHistory`, each action of the log is an action of
  `SessionHistory` or a stutter, from the same invariant.
* `LogForgetsNoFile` (`NoForgottenFile`) from `FilesKnown`, which says where a file may be:
  committed, held by a copy, about to be unlinked, or left by an unlink that failed. A
  temporary file is in the second or the last of these places and never carries the name
  of a committed one; a copy that has ended still has its reservation, but no file.
* `LogLedgerIsExact` (`LedgerExact`) and `LogStaysWithinLimits` (`WithinLimits`) from
  `LedgerInv`: the copies under way are finitely many, the ledger is exact (`Exact`), and
  what a session stands for, its rows and the copies yet to commit, is within the limits
  (`Within`). A commit adds to the rows what it takes from the copies yet to commit, and
  only a check that counts the reservations may add to either. That the sum over all
  sessions follows is proved of `MapThenSumSet` itself: it is a number (`SumsExist`,
  `SumsAreIntegers`), whichever element is taken away first (`SumTakes`), and one changed
  element changes it by as much (`TotalMoves`).

`EventQueueProofs` proves for any number of publishers and any queue length
`QueueTypeCorrect`, `QueueLosesNothingUncounted` and `QueueImplementsLossyQueue`. The
invariant adds `OnlyFullQueuesDrop`: while losses are to be announced the reader is more
than a whole queue behind what was accepted, which makes the announced number and the
events still queued add up to exactly what it has not seen.

`SessionStreamProofs` proves, for any number of rows, rebuilds, purges and breaks and any
page sizes, `StreamTypes`, `HolesAreAnnounced` (`NoSilentHole`), `OneHistoryAlways`
(`OneHistoryUnlessPurged`) and `ClaimsAreTrue` (`ClaimedGenerationIsTheirs`). What a phone
has missed cannot be judged from the phone alone, because messages are on their way to it.
The invariant `StreamInv` therefore speaks of the wire: each message on it begins where
the ones before it leave the phone, the last one ends where the handler is
(`WireFollows`), a request is about what the phone has already passed (`CallIsBelow`), and
until a purge the build of a row is known by its generation, on the wire as well
(`BuildsAreGenerations`). Messages that are written together are proved to follow once and
for any wire they are put on (`FollowersConcatenate`, `WiresShorten`).

`PushOutboxProofs` proves, for any events, phones, senders, limits, failures and pace of
the clock, `RowsKeepTheirTypes` (`OutboxTypeOK`), `FinishedForGood`
(`FinishedStaysFinished`), `NothingForDropped` (`NoSendAfterDrop`) and
`InputsFollowPhones`. `OutboxInv` rests on three things: only a row that is "sending" is
locked, so that an answer that counts finds no finished row; an input exists only for a
phone that is there or an event that was submitted again since, so that whoever finds the
input to bind may still send; and what a thread carries from one transaction to the next
has its kind (`ThreadsGood`). The order of the rows, which pruning goes by, is a relation
(`older`), and every commit keeps it total and transitive (`CommitKeepsOrder`).

`PairingProofs` proves, for any numbers of invitations, requests, phones, devices and
request threads and any budgets, `StoresKeepTheirTypes` (`PairingTypeOK`),
`OnePhoneOneDevice` (`OneLiveDevicePerPhone`), `YoungerReplacesOlder`
(`NewestRepairWins`), `InvitationsServeOnce` (`OneDevicePerInvitation`),
`SecretsHaveAKeeper` (`SecretsAreAccountedFor`) and `AnswersComeAfterCleanUp`
(`AcknowledgedIsClean`), all from one invariant, `PairingInv` (`PairingInvariance`). Only
`OneLiveDevicePerPhone` is a part of it as it stands; the others follow from what has to
be known of the stores while a claim is half done:

* A claim and its device row agree about phone, invitation and state (`Registry`), and at
  most one device of an invitation is usable (`OneUsable`). A new row keeps that only
  because nobody has taken the invitation yet, which the thread cannot see in the database
  alone: rows are forgotten. `InvitesGood` says what stands in for them: an invitation
  that was ever taken has its file marked or gone, and it will not be opened again.
* Between the check of the file and the row stands `_claim_lock`. `LockedGood` says, for
  each program counter behind it, what the thread has read and may still believe; that no
  other thread falsifies it, although `start_pair` and revocations do not take the lock, is
  `WhileLocked`. The roll-back of a claim relies on it as much as its way forward.
* A clean-up only has claims on its list that have ended, and a claim is called cleaned
  only when its secret is gone (`SecretsGood`), whoever else cleans up at the same time.
* What has been replaced is either without a push registration for good, by its tombstone,
  or still on the list the activation is working off (`PushGood`); a crash before the
  answer leaves no phone that is done.

The steps are first reduced to two kinds, those by which rows only age (`Ages`) and the
one by which a row and its claim come (`Adds`); the parts of the invariant are proved
against the two, not against thirty actions.

`SessionControlProofs` proves, whatever requests, faults, expiries, changes of generation
and crashes come, `ControlKeepsItsTypes` (`ControlTypeOK`), `OnePhoneHoldsTheLease`,
`OneActionIsConfirmed` and `TheChainContinues` from the invariant `AlwaysInv`: what each
request is about to do has the shape its program counter says, an event that was signed
was admitted where the chain had come to, and the action that consumed the confirmation is
the one that goes on. The next three need more: `TheLedgerIsTold` (`EventsTellTheLedger`),
`AuthorityStaysExclusive` (`AuthorityIsExclusive`) and `ThePromiseIsKept` (the refinement
of `ControlPromise`, step by step) follow from `LedgerInv`. Nothing is assumed of how
requests for one action overlap, so a request cannot be told apart by what it alone has
done; the invariant has what stays true whoever else is at work:

* the state of an action, its events, its runs and its fate agree (`RowsGood`);
* what a request knows of its action never becomes false (`Knows`): that the start event
  is there, that the provider decided what the request is about to record;
* a mutation without twins is brought to the provider by one request, which nobody rejects
  meanwhile (`NobodyElse`);
* unless a verdict was told twice, the last mutation that has started has the typestate to
  itself until its own verdict (`StartsGood`), and who is about to run one is alone with it
  (`RunsAlone`). The chain's comparison of predecessors makes that so, twins included: of
  two start events that continue one event the second is refused.

`SessionIngestProofs` proves, for any sessions, transcripts, streams, requests and
deletions, `IngestKeepsItsTypes` (`IngestTypeOK`), `LogIsPrefixOfSource`
(`RowsArePrefixOfSource`), `IngestIsABehaviourOfTheLog` and `ResetsHaveReasons`
(`OnlyRivalsUndo`).

* `IngestInv` joins the log's own invariant with what ingestion adds: what a thread carries
  has the shape its program counter says (`ThreadsFit`), a thread inside a critical section
  holds the lock of its registration object (`LocksHeld`), a copy of an oversized record is
  of the next record of the file the cursor is bound to (`JobsFit`) and belongs to a drain
  that waits for it (`JobsHaveDrains`), and the rows of a session are the first records of
  its file (`RowsArePrefixes`).
* `LogUse` lists the ways in which ingestion calls the log. Each handler is proved to be
  one of them or to leave the log alone, and each of them is a step of the log
  (`UsesAreSteps`). So `IngestIsABehaviourOfTheLog`: `IngestSafety => Spec` of
  `SessionEventLog`, and what is proved of the log carries over to the log under ingestion
  (`IngestKeepsTheLogsPromises`). So the files, the ledger and the limits of the log are also
  safe under ingestion. That the rows stay a prefix is proved of the uses, not of the
  handlers.
* `ResetsHaveReasons` is about `movedUnder`, the registration under which a cursor last
  moved; it is history, and no action reads it. The theorem needs one more invariant,
  `SizesHold`: the size a drain has read is not below the offset, unless the file is
  another one or the offset was moved under a rival registration. The lock of the
  registration is what makes it so: between the look at the file and the reconcile nobody
  else copies under it.

`PairDropVaultProofs` proves, for any numbers of uploads, files, keys, pieces and adders and
any processes that die at any point, `VaultKeepsItsTypes` (`VaultTypeOK`), `FilesStayWhole`
(`FilesAreWhole`) and `VaultKeepsPromise` (the refinement of `VaultPromise`, step by step)
from `VaultInv`:

* What the holder of an upload's lock knows at each program counter (`WorkGood`): behind
  the check of a completion the upload is "completing" for the thread's own file, before
  the commit the object is there and whole, before the row of a piece the partial has just
  that piece more.
* The lock is held on an inode, and lock files are unlinked while others have them open,
  so two threads may be behind two locks of one upload. `LocksGood` says why that does no
  harm: only the lock file of an upload that has ended is unlinked, and an upload that can
  still change has its first one.
* An upload that a clean-up still has on its list although it can receive again has lost
  its partial at some time (`Stale`): this is what the second finding of the vault in
  section 5 needs, and what keeps it apart from every other upload.
* A rename that a loss of power may undo concerns only objects of files that are not yet
  live (`FilesGood`), so that a live file is whole through it.

Some facts are proved by induction on natural numbers: the prover cannot use an induction
theorem with an operator parameter, but it can use that a non-empty set of naturals has a
least element (`NatLessThanWellFounded` with `WFMin`), and a property of a sequence then
follows from its first exception, one of a sum over a finite set from a smallest set that
has no such sum.

Assumptions: `LogAssumption` (limits are naturals, a raw copy costs something, ordinary
and oversized events are different, null values are outside their types, finitely many
names and sessions, without which the total the code compares with its limit is no
number), those of the queue and the stream (limits are naturals), `OutboxAssumption` (the
worker is no sender, null values are outside their types, tokens are positive, a scenario
begins with tokens and modes that exist), `IngestAssumption` (events are the
records of the sources, copies are made by the worker and by boundary requests, nobody is no
thread, a scenario has the type of budgets and begins with different files at different
paths), `VaultAssumption` (uploads are numbers, an upload has a piece, an adder wants a key,
null values are outside their types), `PairingAssumption` (a request is for one
invitation, null values are no rows, budgets are naturals and sets) and
`ControlAssumption` (requests of a world name phones, actions and earlier requests). TLC evaluates
them on each run.

Only model-checked:

* liveness (`HeadIsReached`, `ErrorsEnd`, `PhoneCatchesUp`, `EverythingIsReported`,
  `EveryEventSettles`, `RunIsSettled`, `EveryAddEnds`): fairness and ENABLED are beyond
  the prover;

Every other property of a passing run is stated by a theorem, and no theorem has a
hypothesis beyond the assumptions about the constants.

## 5. Findings

* **A deleted session's log comes back** (`ingest_purged`). A drain that looked its
  registration up before `remove` runs after `purge_session`.
* **A remote join is acknowledged before it is announced** (`pairing_unannounced`). A
  repeated request from the LAN read the pending notice before the first request wrote
  it.
* **A delivery row loses its input** (`outbox_orphaned`). Whether an input still has a
  row is looked up in one transaction and the input deleted in another; a resubmission in
  between leaves a row that can no longer be sent.
* **An action is recorded as rejected while the provider applies it** (`control_twice`).
  A repeated request that finds its action reserved goes on beside the first one, and
  whichever of them fails first records the verdict.

`PROJECT.json` quotes what the code's comments say in each case.

Noticed while modelling, without a run of their own (the log and the sessions):

* A request that serves an open transcript passes a size to `generation_for_open_source`
  that it read before the drain lock (`pairlingd.py:29352`, `:29805`). An append and a
  drain in between make it smaller than the cursor, and the log is reset although the
  file only grew; `session_event_log.py:1098` names a changed inode, a truncated file and
  an explicit rotation as the reasons for a reset. `generation_for_open_source` does not
  ask for a drain, so the log stays empty until the next wake. The scenario `LateBinding`
  does this; `OnlyRivalsUndo` says that such a request resets only if the file grew since
  it was opened.
* Two drains: a drain that looked its registration up (`session_event_ingest.py:671`) may
  go on after the session was evicted and registered again, beside a drain under the new
  registration; each holds the lock of its own object. If the first one opens the file, the
  provider appends, and the second one copies what was appended, then the first one's
  reconcile finds the cursor beyond the size it has read, and resets the log of a file that
  only grew. The rows are copied again, in a new generation. The scenario `Rivals` does
  this; `OnlyRivalsUndo` says that a drain resets without need only what another
  registration copied. The root is that of `ingest_purged`: the lookup is not repeated
  behind the lock.
* A purge deletes the cursor's row (`session_event_log.py:1268`), so generations start at
  1 again, and a position of the first generation 1 is taken for one of the second;
  `OneHistoryUnlessPurged` covers all other rebuilds.
* A registration whose first call of the log failed stays unready, and a session that
  moved meanwhile cannot be rebound (`session_event_ingest.py:411`, `:466`); `HeadIsReached`
  is violated in a scenario with one fault and one move, so no scenario has both.
* `drain_now` inspects the path again after the drain and compares sizes; the file there
  may be another one (`session_event_ingest.py:578`).
* `Subscription.get` never looks at `_closed`; a call that begins after the close waits
  for its whole timeout (`session_events.py:57`). Every caller passes one.
* The copy of an oversized record is given up whenever the provider appends meanwhile, and
  started again by the next drain.
* A transcript rewritten in place to the same or a greater length keeps its inode and is
  not seen as changed (`session_event_ingest.py:692`); a cursor made by a reconcile has
  parser version 1 and the next registration rebuilds it (`session_event_log.py:1114`);
  the stream reads `queue_gap` notices and does not pass them on (`pairlingd.py:31071`);
  `_service_retries` may register the file of a watch that was closed meanwhile, whose
  descriptor then stays open (`session_events.py:353`).
* Pairing: a crash between `create_pending_device` and the storing of the relay secret
  leaves a resumable claim without a secret; the phone can supply it later through
  `update_preferences`. A crash between the marker and the device leaves the invitation
  answering `pair_already_claimed` until it expires. A roll-back whose deletion of the
  secret fails, and a claim that stalls past its own expiry before it stores its secret
  while `start_pair` cleans up without the lock, leave a secret that no clean-up finds
  (`leaked` in the model; `SecretsAreAccountedFor` speaks of all others). Revocation
  ignores a failed `drop_device`; the sweep at the next start repairs it.

In the outbox:

* `_valid_retry_payloads` is read before the transaction of the claim
  (`push_dispatcher.py:1384`, `:1455`): a row whose input is stored in between is given up
  as `retry_payload_missing`.
* An input that is stored again for a finished event, with a crash before it is cleaned
  up, is dispatched again once its tombstone is pruned.
* A drop that is followed by a new submission lets a delivery that is in flight reach the
  dropped phone; `NoSendAfterDrop` leaves that out.

In session control:

* A driver's refusal after `mutation.started` is raised as `ControlContractError` (for
  example `providers/opencode.py:777`); the ledger then says rejected, no event follows
  (`session_control_gateway.py:2318`) and the typestate stays `mutation_pending`.
* A change of the capability generation under an action makes its verdict and its retry
  stale; the session stays in `mutation_pending`.
* An action that was interrupted before its start, with another that completes meanwhile,
  can no longer settle; a fork that is recovered as applied does not settle either.
* A late retry can append `mutation.started` after the verdict. A slow snapshot of an old
  generation revokes the lease of the new one and then fails; a snapshot can name the new
  generation with a sequence number of the old one. A confirmation that is admitted after
  the session has ended stays valid. `interrupted_protocol_actions` has no caller. The
  `/provider-controls` routes reach the drivers without the typestate.

* A late answer: a request waits for the provider; its repetition declares the outcome
  unknown (`session_control_gateway.py:2141`) and a recovery settles the action as
  applied; another action starts, and the typestate is `mutation_pending` again; now the
  first request's answer comes. The ledger lets applied become applied
  (`managed_provider_sessions.py:92`), the event is compared with the typestate and not
  with the action that is pending (`:3786-3794`), and a second `mutation.applied` for the
  first action frees the typestate the other one has taken
  (`session_control_gateway.py:1770-1789`). From then on a third mutation may start while
  the second is open, and if it ends the session, the second may still be at work. The
  world `LateAnswer` does this; `JudgedTwice` is true from the second verdict on, and the
  properties say what is lost then (the order of starts, the quiet after the end) and what
  is not.
* Receipts: the drivers keep what they know of an operation in memory
  (`providers/opencode.py:944-991`, likewise `qwen.py`, `droid_jsonrpc.py`, `copilot.py`),
  and drivers are not reconstructed (`managed_provider_sessions.py:4091-4094`). After a
  restart of the daemon `recover` cannot prove anything, and the action stays
  `in_progress` or `outcome_unknown` with its recovery handle until that ends;
  `RunIsSettled` says so.
* Twins: where a repeated request goes on with a reserved action beside the first one,
  both may mark the dispatch, and the start event of the second is refused because the
  first one's is there; the second then records `rejected` (`control_twice`). If the first
  action is judged before the second comes to its start event, the provider may be asked
  twice (`runs` is counted up to two); `ControlPromise` allows it for `twins` only.

In the vault:

* If a partial is lost when all its bytes are verified, each further `add` goes straight
  to the completion, which fails with `missing_partial` and keeps `verified_offset`
  (`pairdrop_store.py:1936`); the restart in `write_upload_chunk` is never reached, and
  only the end of the lease, 24 hours later, frees the key. `EveryAddEnds` holds because
  of that.
* Two clean-ups at once may have the same stalled completion in their lists; when the
  first has restarted it and it is receiving again, the second completes it under its
  lock, fails on the size, and removes the partial of a live upload
  (`pairdrop_store.py:3349`), although `:1500` says "Active sessions stay protected by
  cleanup_partials". It needs a lost partial to begin with, which is why `damaged` keeps
  an upload for good.
* A crash in `upload_bytes` between the object and the commit leaves an object no row
  names, and nothing sweeps it.
* The restart of an upload removes its partial before its transaction commits
  (`pairdrop_store.py:3351`, `:1728`).

## 6. Not modelled, and why

The provider adapters, the App Attest code, the automation helper and connectd talk to
programs that are not here or compute one answer from one input. Parsing of transcript
lines, redaction, JSON shapes, terminal emulation, path hardening and the installer have
no state shared between actors. In modelled components: the parsers' content, torn lines
and the free-disk check of the log (it may refuse, which changes nothing); the kqueue
registration and the polling fallback of the watcher; the multiplexed device stream and
the notices of ingest errors; token rotation, reauthentication, node binding and smoke
leases of the device registry.

In the outbox: the relay's older retry contract, quarantine and salvage of the registry,
the migration from the environment, the limit of 50 rows a drain and of 4096 tombstones,
failed writes of the secret store. In session control: the negotiation of a context and
its revocation, signatures and the message schema (external), event pages, launch and
fork registration, canaries, the insides of drivers apart from what they remember of an
operation (a driver that keeps receipts on disk would do better than the model). In the
vault: attachments of files to sessions, downloads and pages, audit and
event tables, the capacity arithmetic (a reservation only refuses), the migration of an
older vault, checks of paths and links, a purge whose restoration fails and the record it
leaves, a commit whose outcome is unknown in `upload_bytes`, the hourly clean-up that
spares young files (the one before each upload, which spares none, is modelled).

The PTY broker and the replay cache of request proofs keep their state under one lock
each: what could go wrong in them is in one critical section, where a unit test reaches
it, so the models went to the parts above.

## 7. Plan

Every safety invariant, action property and refinement that a passing run checks is
proved, without hypotheses about how requests or drains overlap. What is left is to make
the model wider, and in this order:

1. The broker of terminals (`pty_broker.py`): ownership of a terminal, its output ring and
   re-attachment after a restart of the daemon. It would meet `SessionControl` at the
   delivery of an action, where the model now has one step with its possible outcomes.
2. Proofs of requests and their replay cache: one more actor in front of `Pairing` and
   `SessionControl`, which both take a request as authenticated.
3. One of the provider adapters as an external process with a life of its own, under
   `SessionControl`.
4. If the code comes to order the requests for one action, or to hold one registration
   through a drain, `twins`, `JudgedTwice` and the rivals of `OnlyRivalsUndo` are to go, and
   the properties become the stronger ones without them.
