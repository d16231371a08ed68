--------------------------- MODULE MCSessionIngest ---------------------------
(* Instances of SessionIngest for TLC: one session, small transcripts, and *)
(* scenarios that each let a few things happen.                            *)
EXTENDS SessionIngest, TLC

CONSTANTS k1, p1, p2, s1, s2, s3, wk, st, dr, tl, rm, n1, n2, n3, n4

(* The second record of the third transcript is an oversized one.          *)
OneOversized == {<<s3, 2>>}
AllButOne == (Sources \X (1..MaxOffset)) \ OneOversized
AllOrdinary == Sources \X (1..MaxOffset)

Calm == [start |-> (p1 :> s1 @@ p2 :> s2), length |-> 1,
         entries |-> 1, faults |-> 0, crashes |-> 0, resumes |-> 0,
         threads |-> {}, paths |-> {p1}, fresh |-> {}]

(* The worker and a boundary request drain a transcript with an oversized  *)
(* record that is replaced once.                                           *)
BoundaryRace == [Calm EXCEPT !.start = (p1 :> s3 @@ p2 :> s1), !.length = 2,
                             !.threads = {dr}, !.fresh = {s2}]
(* A session moves between two transcripts, and is evicted or survives a   *)
(* crash.                                                                  *)
MoveAndCrash == [Calm EXCEPT !.threads = {st}, !.crashes = 1, !.resumes = 1,
                             !.paths = {p1, p2}]
MoveAndEvict == [MoveAndCrash EXCEPT !.entries = 2, !.crashes = 0]
(* A transcript is deleted while a request and the worker read it, and an  *)
(* I/O error happens and the daemon crashes, or the session is evicted.    *)
DeleteAndCrash == [Calm EXCEPT !.threads = {tl, rm}, !.crashes = 1, !.faults = 1]
DeleteAndEvict == [Calm EXCEPT !.threads = {tl, rm}, !.entries = 2]
(* A stream keeps a session open: through an I/O error and a crash; while  *)
(* the transcript is replaced, or replaced and the session evicted.        *)
FailAndCrash == [Calm EXCEPT !.start = (p1 :> s3 @@ p2 :> s1), !.length = 2,
                             !.threads = {st}, !.faults = 1, !.crashes = 1]
Replace == [Calm EXCEPT !.start = (p1 :> s1 @@ p2 :> s3), !.length = 2,
                        !.threads = {st}, !.fresh = {s2}]
ReplaceAndEvict == [Replace EXCEPT !.length = 1, !.entries = 2]
(* The session is evicted and registered again while the worker waits for  *)
(* its first registration: two drains of it hold different locks.          *)
Rivals == [Calm EXCEPT !.threads = {dr}, !.entries = 2]
(* A request opens the transcript, and the worker copies on before it      *)
(* binds the log.                                                          *)
LateBinding == [Calm EXCEPT !.threads = {tl}, !.length = 2]
Scenarios == {BoundaryRace, MoveAndCrash, MoveAndEvict, DeleteAndCrash,
              DeleteAndEvict, FailAndCrash, Replace, ReplaceAndEvict, Rivals, LateBinding}

(* The transcript of a session is deleted while the worker drains it.      *)
DeleteScenarios == {[Calm EXCEPT !.threads = {st, rm}]}
==============================================================================
