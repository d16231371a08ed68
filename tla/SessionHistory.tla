--------------------------- MODULE SessionHistory ---------------------------
(***************************************************************************)
(* What a reader of one companion session may rely on: every session key   *)
(* names a generation and the events of that generation in seq order.  The *)
(* events of a generation only ever grow at the end, so a reader that      *)
(* holds <<generation, seq>> may resume from it; history is thrown away    *)
(* only together with a move to the next generation, or when the whole     *)
(* session is forgotten.                                                   *)
(***************************************************************************)
EXTENDS Naturals, Sequences

CONSTANTS Keys,     \* session keys
          Events    \* what a row of the log can hold

VARIABLES history,  \* Keys -> sequence of events; seq n is history[k][n]
          gen       \* Keys -> the generation the events belong to

vars == <<history, gen>>

TypeOK == /\ history \in [Keys -> Seq(Events)]
          /\ gen \in [Keys -> Nat \ {0}]

Init == /\ history = [k \in Keys |-> <<>>]
        /\ gen = [k \in Keys |-> 1]

(* One transaction of rows with the next dense seq numbers.               *)
Extend(k) ==
    /\ Len(history'[k]) > Len(history[k])
    /\ history'[k] \in Seq(Events)
    /\ SubSeq(history'[k], 1, Len(history[k])) = history[k]
    /\ history' = [history EXCEPT ![k] = history'[k]]
    /\ UNCHANGED gen

(* The rows of a source that was replaced, or of a parser that changed, go *)
(* away and the generation moves forward in the same transaction.         *)
Rebuild(k) ==
    /\ history' = [history EXCEPT ![k] = <<>>]
    /\ gen' = [gen EXCEPT ![k] = @ + 1]

(* The session was removed: nothing durable is left of it.                *)
Forget(k) ==
    /\ history' = [history EXCEPT ![k] = <<>>]
    /\ gen' = [gen EXCEPT ![k] = 1]

Next == \E k \in Keys : Extend(k) \/ Rebuild(k) \/ Forget(k)

Spec == Init /\ [][Next]_vars
=============================================================================
