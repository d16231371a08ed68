---------------------------- MODULE MCSessionControl -------------------------
(* Instances of SessionControl for TLC.                                    *)
EXTENDS SessionControl

CONSTANTS p1, p2, a1, a2, a3

Snap(p) == [kind |-> "snapshot", phone |-> p, act |-> NoAct, via |-> 0]
Exec(p, a, s) == [kind |-> "execute", phone |-> p, act |-> a, via |-> s]
Reco(p, a, s) == [kind |-> "recover", phone |-> p, act |-> a, via |-> s]
World(plan, faults) ==
    [plan |-> plan, faults |-> faults, again |-> {}, after |-> {},
     reads |-> {}, ends |-> {}, asks |-> {}, forks |-> {}]

(* One action, retried and recovered until it is settled; the daemon may   *)
(* crash anywhere.                                                         *)
Persistent == [World(<<Snap(p1), Exec(p1, a1, 1), Reco(p1, a1, 1)>>,
                     {"crash", "turns", "refuse", "raise", "deny"})
                  EXCEPT !.again = {1, 2, 3}]
(* A retry that comes while the first request is at work on the action, or *)
(* at the provider with it.                                                *)
Late == [World(<<Snap(p1), Exec(p1, a1, 1), Exec(p1, a1, 1), Reco(p1, a1, 1)>>,
               {"refuse", "raise", "deny"})
            EXCEPT !.again = {3, 4}]
(* Two actions under one confirmation.                                     *)
Confirm == [World(<<Snap(p1), Exec(p1, a1, 1), Exec(p1, a2, 1)>>, {"crash", "refuse"})
               EXCEPT !.asks = {a1, a2}, !.again = {2}]
(* An action interrupted before its start, and another one.                *)
Overlap == [World(<<Snap(p1), Exec(p1, a1, 1), Exec(p1, a2, 1), Reco(p1, a2, 1)>>, {"crash"})
               EXCEPT !.again = {2, 4}]
(* Two phones; snapshots and leases end.                                   *)
TwoPhones == World(<<Snap(p1), Snap(p2), Exec(p1, a1, 1), Exec(p2, a2, 2)>>, {"expire"})
(* The generation moves on under an action.                                *)
Moving == [World(<<Snap(p1), Snap(p1), Exec(p1, a1, 1), Reco(p1, a1, 2)>>,
                 {"refresh", "contract", "raise", "deny"})
              EXCEPT !.again = {4}]
(* The session is ended, a fork is recovered, the provider is only asked.  *)
Ending == [World(<<Snap(p1), Exec(p1, a1, 1), Exec(p1, a2, 1), Snap(p1)>>, {"deny"})
              EXCEPT !.ends = {a1}]
Fork == [World(<<Snap(p1), Exec(p1, a1, 1), Reco(p1, a1, 1)>>, {"expire", "raise", "deny"})
            EXCEPT !.forks = {a1}, !.again = {3}]
Read == [World(<<Snap(p1), Exec(p1, a1, 1), Exec(p1, a2, 1)>>, {"crash", "raise"})
            EXCEPT !.reads = {a1}, !.again = {2}]
(* An answer that comes after a retry and a recovery gave the verdict, and *)
(* after another action was started, and perhaps one that ends the session.*)
LateAnswer == [World(<<Snap(p1), Exec(p1, a1, 1), Exec(p1, a1, 1), Reco(p1, a1, 1),
                       Exec(p1, a2, 1), Exec(p1, a3, 1)>>, {})
                  EXCEPT !.ends = {a3}, !.after = {<<3, 4>>, <<4, 5>>, <<4, 6>>}]
AllWorlds == {Persistent, Late, Confirm, Overlap, TwoPhones, Moving, Ending, Fork, Read,
              LateAnswer}

(* The same request twice at once.                                         *)
Twins == {World(<<Snap(p1), Exec(p1, a1, 1), Exec(p1, a1, 1)>>, {"refuse", "raise", "deny"})}
==============================================================================
