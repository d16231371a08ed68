--------------------------- MODULE MCPairDropVault ---------------------------
(* Instances of PairDropVault for TLC: two adders of the same thing of two *)
(* pieces, in a process each.                                              *)
EXTENDS PairDropVault, TLC

CONSTANTS c1, c2, cl, pt, rm, pg, k1, f1, f2

SameThing == [c \in Adders |-> k1]
CommandLineAndDaemon == {{c1}, {c2, cl, pt, rm, pg}}

Calm == [who |-> Adders, lapses |-> 0, cancels |-> 0, deletes |-> 0, crashes |-> 0, losses |-> 0,
         faults |-> 0, bad |-> 0, cleanups |-> 0, puts |-> 0, purges |-> 0]

(* A process dies, or the power fails, at every step.                      *)
Crashing == [Calm EXCEPT !.crashes = 1]
(* An upload fails under the other adder: it is cancelled or too old.      *)
Abandoned == [Calm EXCEPT !.cancels = 1, !.lapses = 1]
(* What was sent is not what was announced, and the disk is full once.     *)
Spoilt == [Calm EXCEPT !.bad = 1, !.faults = 1]
(* A partial is lost, and the upload is taken up by clean-ups.             *)
Losing == [Calm EXCEPT !.losses = 1]
(* The file is deleted and purged while the other adder completes it.      *)
Deleting == [Calm EXCEPT !.deletes = 1, !.purges = 1, !.faults = 1]
(* A small file is put beside, while a clean-up runs.                      *)
Beside == [Calm EXCEPT !.who = {c1}, !.puts = 1, !.faults = 1, !.cleanups = 1, !.cancels = 1]
AllWorlds == {Crashing, Abandoned, Spoilt, Losing, Deleting, Beside}
==============================================================================
