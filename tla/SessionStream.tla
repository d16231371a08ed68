---------------------------- MODULE SessionStream ----------------------------
(***************************************************************************)
(* The event stream of one session to a phone (_handle_session_events_v2   *)
(* of mac/companiond/pairlingd.py, with the reads it makes of the session  *)
(* event log), its history pages (once=1) and the full content of one      *)
(* event.  The log underneath changes as SessionHistory allows: rows are   *)
(* added at the end, all of them go away with a move to the next           *)
(* generation, or the session is purged.                                   *)
(*                                                                         *)
(* A row is its seq and the build of the log it was written by: the n-th   *)
(* rows of two builds are different events.  The phone is not part of the  *)
(* repository; it does with each message what the message is for.          *)
(***************************************************************************)
EXTENDS Integers, Sequences

CONSTANTS BacklogLimit, \* SESSION_EVENTS_V2_BACKLOG_LIMIT
          BatchLimit,   \* rows of one forward read
          PageLimit,    \* rows of one history page
          MaxRows,      \* bound: rows of one build
          Budgets       \* bounds: see budget

ASSUME StreamAssumption ==
    /\ {BacklogLimit, BatchLimit, PageLimit} \subseteq Nat \ {0}
    /\ MaxRows \in Nat
    /\ Budgets \subseteq [rebuilds : Nat, purges : Nat, drops : Nat]

VARIABLES log,     \* the durable log: [gen, build, last]
          reader,  \* the stream's handler: [at, gen, client, cursor]
          wire,    \* server-sent events on their way to the phone
          call,    \* the phone's other request: a history page or one row
          phone,   \* [gen, cursor, held, missing]
          budget,  \* bound: rebuilds and purges of the log and ends of a
                   \* stream or a call that may still happen
          purged   \* history: whether the session was purged

vars == <<log, reader, wire, call, phone, budget, purged>>

Spend(what) == /\ budget[what] > 0
               /\ budget' = [budget EXCEPT ![what] = @ - 1]

Larger(a, b) == IF a > b THEN a ELSE b
Smaller(a, b) == IF a < b THEN a ELSE b

Row(n, b) == [seq |-> n, build |-> b]
Rows(from, to) == {Row(n, log.build) : n \in from + 1 .. to}
Seqs(held) == {r.seq : r \in held}

Idle == [at |-> "idle", gen |-> 0, client |-> 0, cursor |-> 0]
NoCall == [at |-> "none", kind |-> "page", gen |-> 0, from |-> 0, to |-> 0, rows |-> {}]

StreamInit ==
    /\ log = [gen |-> 1, build |-> 0, last |-> 0]
    /\ reader = Idle
    /\ wire = <<>>
    /\ call = NoCall
    /\ phone = [gen |-> 0, cursor |-> 0, held |-> {}, missing |-> {}]
    /\ budget \in Budgets /\ purged = FALSE

-----------------------------------------------------------------------------
(* The log.                                                               *)

Extend ==
    /\ \E n \in log.last + 1 .. MaxRows : log' = [log EXCEPT !.last = n]
    /\ UNCHANGED <<reader, wire, call, phone, budget, purged>>

(* Mutant: the rows go away and the generation stays.                     *)
RebuildInPlace ==
    /\ Spend("rebuilds")
    /\ log' = [gen |-> log.gen, build |-> log.build + 1, last |-> 0]
    /\ UNCHANGED <<reader, wire, call, phone, purged>>

Rebuild ==
    /\ Spend("rebuilds")
    /\ log' = [gen |-> log.gen + 1, build |-> log.build + 1, last |-> 0]
    /\ UNCHANGED <<reader, wire, call, phone, purged>>

(* The purge deletes the cursor and the generation it holds.              *)
Forget ==
    /\ Spend("purges") /\ purged' = TRUE
    /\ log' = [gen |-> 1, build |-> log.build + 1, last |-> 0]
    /\ UNCHANGED <<reader, wire, call, phone>>

-----------------------------------------------------------------------------
(* The stream.                                                            *)

Reset(g) == [type |-> "log_reset", gen |-> g]
Gap(g, from, to) == [type |-> "backlog_gap", gen |-> g, from |-> from, to |-> to]
Event(n) == [type |-> "session_event", row |-> Row(n, log.build)]

(* Mutant: every backlog is cut, short ones as well.                      *)
BoundedAlways(cursor, last) == last - BacklogLimit

(* _bounded_session_event_cursor                                          *)
Bounded(cursor, last) ==
    IF last - cursor <= BacklogLimit THEN cursor ELSE last - BacklogLimit
GapBelow(g, cursor, last) ==
    IF Bounded(cursor, last) = cursor THEN <<>>
    ELSE <<Gap(g, cursor, Bounded(cursor, last))>>

(* The phone connects with its position; get_generation is the handler's  *)
(* first read of the log.                                                 *)
Open ==
    /\ reader.at \in {"idle", "done"} /\ wire = <<>>
    /\ reader' = [at |-> "opened", gen |-> log.gen, client |-> phone.gen,
                  cursor |-> phone.cursor]
    /\ UNCHANGED <<log, wire, call, phone, budget, purged>>

(* last_seq is a second read; everything up to the loop follows from it.  *)
Hello ==
    LET stale == reader.client # reader.gen \/ reader.cursor > log.last
        from == IF stale THEN 0 ELSE reader.cursor
    IN
    /\ reader.at = "opened"
    /\ reader' = [reader EXCEPT !.at = "streaming", !.cursor = Bounded(from, log.last)]
    /\ wire' = wire \o (IF stale THEN <<Reset(reader.gen)>> ELSE <<>>)
                    \o GapBelow(reader.gen, from, log.last)
    /\ UNCHANGED <<log, call, phone, budget, purged>>

Streaming == reader.at = "streaming"
Behind == log.gen # reader.gen \/ reader.cursor > log.last

(* One read of generation, rows and last seq decides what the loop does.  *)
PollReset ==
    /\ Streaming /\ Behind
    /\ reader' = [reader EXCEPT !.gen = log.gen, !.cursor = 0]
    /\ wire' = Append(wire, Reset(log.gen))
    /\ UNCHANGED <<log, call, phone, budget, purged>>

(* Mutant: rows are sent without a look at the generation.                *)
CurrentUnchecked == Streaming /\ reader.cursor <= log.last
Current == Streaming /\ ~Behind

(* Mutant: the jump is not announced.                                     *)
PollGapSilently ==
    /\ Current /\ Bounded(reader.cursor, log.last) # reader.cursor
    /\ reader' = [reader EXCEPT !.cursor = Bounded(reader.cursor, log.last)]
    /\ UNCHANGED <<log, wire, call, phone, budget, purged>>

PollGap ==
    /\ Current /\ Bounded(reader.cursor, log.last) # reader.cursor
    /\ reader' = [reader EXCEPT !.cursor = Bounded(reader.cursor, log.last)]
    /\ wire' = wire \o GapBelow(log.gen, reader.cursor, log.last)
    /\ UNCHANGED <<log, call, phone, budget, purged>>

(* The byte limit may cut the page short, never below one row.            *)
PollRows ==
    /\ Current /\ Bounded(reader.cursor, log.last) = reader.cursor
    /\ \E n \in 1 .. Smaller(BatchLimit, log.last - reader.cursor) :
          /\ reader' = [reader EXCEPT !.cursor = @ + n]
          /\ wire' = wire \o [i \in 1 .. n |-> Event(reader.cursor + i)]
    /\ UNCHANGED <<log, call, phone, budget, purged>>

(* The deadline, or the authorization has ended: what was written arrives. *)
Done ==
    /\ Streaming /\ Spend("drops")
    /\ reader' = [reader EXCEPT !.at = "done"]
    /\ UNCHANGED <<log, wire, call, phone, purged>>

(* The connection breaks: what was written and not read is lost.          *)
Disconnect ==
    /\ reader.at # "idle" /\ Spend("drops")
    /\ reader' = Idle
    /\ wire' = <<>>
    /\ UNCHANGED <<log, call, phone, purged>>

-----------------------------------------------------------------------------
(* The phone.                                                             *)

After(m) ==
    CASE m.type = "log_reset" ->
           [gen |-> m.gen, cursor |-> 0, held |-> {}, missing |-> {}]
      [] m.type = "backlog_gap" ->
           [phone EXCEPT !.cursor = m.to,
                         !.missing = @ \cup (m.from + 1 .. m.to)]
      [] m.type = "session_event" ->
           [phone EXCEPT !.cursor = m.row.seq, !.held = @ \cup {m.row},
                         !.missing = @ \ {m.row.seq}]

(* A reset also drops the request in flight: the handler may announce the  *)
(* generation it had read before a rebuild, which is the request's too.    *)
Receive ==
    /\ wire # <<>>
    /\ phone' = After(Head(wire))
    /\ call' = IF Head(wire).type = "log_reset" THEN NoCall ELSE call
    /\ wire' = Tail(wire)
    /\ UNCHANGED <<log, reader, budget, purged>>

(* Older history is walked upward: the next page ends at the highest row   *)
(* that is missing.                                                        *)
AskPage ==
    /\ call.at = "none"
    /\ \E n \in phone.missing :
          /\ \A m \in phone.missing : m <= n
          /\ call' = [NoCall EXCEPT !.at = "asked", !.gen = phone.gen, !.to = n,
                        !.from = IF n > PageLimit THEN n - PageLimit ELSE 0]
    /\ UNCHANGED <<log, reader, wire, phone, budget, purged>>

(* A large row arrives cut; the phone asks for the whole of it.            *)
AskRow ==
    /\ call.at = "none"
    /\ \E r \in phone.held :
          call' = [NoCall EXCEPT !.at = "asked", !.kind = "row", !.gen = phone.gen,
                                 !.from = r.seq - 1, !.to = r.seq]
    /\ UNCHANGED <<log, reader, wire, phone, budget, purged>>

Mismatch ==
    /\ call.at = "asked" /\ call.gen # log.gen
    /\ call' = NoCall
    /\ UNCHANGED <<log, reader, wire, phone, budget, purged>>

(* Mutant: the byte limits cut the page from above.                       *)
AnswerPageFromBelow ==
    LET top == Smaller(call.to, log.last) IN
    /\ call.at = "asked" /\ call.kind = "page" /\ call.gen = log.gen
    /\ \E to \in Smaller(call.from + 1, top) .. top :
          call' = [call EXCEPT !.at = "answered", !.rows = Rows(call.from, to)]
    /\ UNCHANGED <<log, reader, wire, phone, budget, purged>>

(* The range of the page is cut from below by the byte limits, never below *)
(* one row.                                                                *)
AnswerPage ==
    LET top == Smaller(call.to, log.last) IN
    /\ call.at = "asked" /\ call.kind = "page" /\ call.gen = log.gen
    /\ \E from \in call.from .. Larger(call.from, top - 1) :
          call' = [call EXCEPT !.at = "answered", !.rows = Rows(from, top)]
    /\ UNCHANGED <<log, reader, wire, phone, budget, purged>>

(* read_at_generation; 404 when the row is not there.                     *)
AnswerRow ==
    /\ call.at = "asked" /\ call.kind = "row" /\ call.gen = log.gen
    /\ call' = IF call.to <= log.last
               THEN [call EXCEPT !.at = "answered", !.rows = Rows(call.from, call.to)]
               ELSE NoCall
    /\ UNCHANGED <<log, reader, wire, phone, budget, purged>>

(* The phone keeps an answer only for the generation it now has.          *)
TakeAnswer ==
    /\ call.at = "answered"
    /\ phone' = IF call.gen = phone.gen
                THEN [phone EXCEPT !.held = @ \cup call.rows,
                                   !.missing = @ \ Seqs(call.rows)]
                ELSE phone
    /\ call' = NoCall
    /\ UNCHANGED <<log, reader, wire, budget, purged>>

CallFails ==
    /\ call.at # "none" /\ Spend("drops")
    /\ call' = NoCall
    /\ UNCHANGED <<log, reader, wire, phone, purged>>

-----------------------------------------------------------------------------
Write == Extend \/ Rebuild \/ Forget
Serve == Hello \/ PollReset \/ PollGap \/ PollRows
Answer == Mismatch \/ AnswerPage \/ AnswerRow

StreamNext ==
    \/ Write
    \/ Open \/ Serve \/ Done \/ Disconnect \/ Receive
    \/ AskPage \/ AskRow \/ Answer \/ TakeAnswer \/ CallFails

StreamSafety == StreamInit /\ [][StreamNext]_vars

(* The handler's loop, the connection and the phone keep going.  A page    *)
(* may wait for a row that was asked for, not for ever.  Nothing is asked  *)
(* of the writer, of AskRow or of failures.                                *)
StreamSpec ==
    /\ StreamSafety
    /\ WF_vars(Open) /\ WF_vars(Serve) /\ WF_vars(Receive)
    /\ SF_vars(AskPage) /\ WF_vars(Answer) /\ WF_vars(TakeAnswer)

-----------------------------------------------------------------------------
StreamTypeOK ==
    LET seqs == 0 .. MaxRows
        gens == 0 .. log.build + 1
        rows == [seq : 1 .. MaxRows, build : 0 .. log.build]
    IN
    /\ log \in [gen : gens \ {0}, build : Nat, last : seqs]
    /\ budget \in [rebuilds : Nat, purges : Nat, drops : Nat] /\ purged \in BOOLEAN
    /\ reader \in [at : {"idle", "opened", "streaming", "done"}, gen : gens,
                   client : gens, cursor : seqs]
    /\ call.at \in {"none", "asked", "answered"} /\ call.rows \subseteq rows
    /\ phone.gen \in gens /\ phone.cursor \in seqs
    /\ phone.held \subseteq rows /\ phone.missing \subseteq seqs \ {0}
    /\ \A i \in DOMAIN wire : wire[i].type \in {"log_reset", "backlog_gap", "session_event"}

(* What the phone shows is one history: all the rows it holds, whether     *)
(* they came by the stream, by a page or as one full row, were written by  *)
(* the same build of the log.  read_at_generation says what this is for:   *)
(* a rebuilt seq must not be mistaken for the row a client saw.            *)
OneHistory == \A r, s \in phone.held : r.build = s.build

(* A purge lets the generations start over at 1: OneHistory without the    *)
(* condition does not hold, and the properties of generations and of the   *)
(* end speak of behaviours in which the session is not purged.             *)
OneHistoryUnlessPurged == ~purged => OneHistory

(* No silent hole: every seq up to the phone's cursor is a row it holds or *)
(* one it was told is missing.  The code promises a bounded replay         *)
(* announced instead of silently clipped.                                  *)
NoSilentHole ==
    /\ 1 .. phone.cursor = Seqs(phone.held) \cup phone.missing
    /\ Seqs(phone.held) \cap phone.missing = {}

(* The generation a phone claims tells its rows: when it is the present    *)
(* one, they are rows of the present log.  A phone that reconnects would   *)
(* otherwise never be told to start again.                                 *)
ClaimedGenerationIsTheirs ==
    ~purged /\ phone.gen = log.gen =>
        \A r \in phone.held : r.build = log.build /\ r.seq <= log.last

(* When the provider and the connection rest, the phone ends up with the   *)
(* whole log of the present generation: live rows by the stream, skipped   *)
(* ones by pages.                                                          *)
PhoneCatchesUp ==
    <>[](\/ purged
         \/ /\ phone.gen = log.gen
            /\ phone.held = Rows(0, log.last) /\ phone.missing = {})

=============================================================================
