------------------------------ MODULE MCPairing ------------------------------
(* Instances of Pairing for TLC.                                           *)
EXTENDS Pairing, TLC

CONSTANTS i1, i2, q1, q2, q3, r1, h1, h2

(* One phone, shown two invitations; another phone saw the first, too.     *)
Shown == q1 :> i1 @@ q2 :> i2 @@ q3 :> i1
Identity == q1 :> r1 @@ q2 :> r1 @@ q3 :> NoRelay

Calm == [crashes |-> 0, faults |-> 0, drops |-> 0, revokes |-> 0, pushes |-> 0,
         invites |-> {i1}, requests |-> {q1}, remote |-> {FALSE}]
(* The same phone pairs twice, out of order, and registers for pushes.     *)
PairTwice == [Calm EXCEPT !.invites = {i1, i2}, !.requests = {q1, q2}, !.pushes = 1]
(* One invitation, two phones, failing stores and a crash.                 *)
FailAndCrash == [Calm EXCEPT !.drops = 1, !.faults = 1, !.crashes = 1,
                             !.requests = {q1, q3}, !.remote = BOOLEAN]
(* A phone is revoked, here or from the command line, while it registers.  *)
RevokeOne == [Calm EXCEPT !.revokes = 1, !.pushes = 1, !.crashes = 1, !.faults = 1]
(* A roll-back that fails, too.                                            *)
FailTwice == [Calm EXCEPT !.faults = 2, !.requests = {q1, q3}]
Scenarios == {PairTwice, FailAndCrash, FailTwice, RevokeOne}
Threads == Permutations(Handlers)
==============================================================================
