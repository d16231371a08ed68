--------------------------- MODULE MCSessionStream ---------------------------
(* Instances of SessionStream for TLC.                                     *)
EXTENDS SessionStream

(* Two rebuilds, or a purge, while the connection breaks once.             *)
RebuiltTwice == [rebuilds |-> 2, purges |-> 0, drops |-> 1]
PurgedOnce == [rebuilds |-> 0, purges |-> 1, drops |-> 1]
BothScenarios == {RebuiltTwice, PurgedOnce}
==============================================================================
