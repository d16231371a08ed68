------------------------- MODULE MCSessionEventLog -------------------------
(* Instances of SessionEventLog for TLC.                                   *)
EXTENDS SessionEventLog, TLC

CONSTANTS k1, k2, w1, w2, n1, n2, n3, s1, s2, a, o

Tokens == Permutations(Names) \cup Permutations(Keys) \cup Permutations(Writers)
==============================================================================
