---------------------------- MODULE MCPushOutbox -----------------------------
(* Instances of PushOutbox for TLC.                                        *)
EXTENDS PushOutbox, TLC

CONSTANTS a1, l1, d1, s1, wk

(* An alert and an update of a Live Activity, for one phone.               *)
OnePhone == [e \in Events |-> d1]
(* The first two tokens belong to one activity, the third to another.      *)
OneActivity == 1 :> 1 @@ 2 :> 1 @@ 3 :> 2

Calm == [submits |-> [e \in Events |-> 0], known |-> 1, modes |-> {"local"},
         kinds |-> {}, tokens |-> 0, drops |-> 0, faults |-> 0, crashes |-> 0,
         switches |-> 0, never |-> {}, quiet |-> {}, ends |-> FALSE]
Of(b, f) == [b EXCEPT !.submits = [e \in Events |-> IF e \in DOMAIN f THEN f[e] ELSE 0]]

(* One alert, submitted again after its phone was dropped.                 *)
Resubmitted == [Of(Calm, a1 :> 2) EXCEPT !.drops = 1, !.never = {"retry", "reject", "invalid"}]
(* The daemon crashes, perhaps between the two stores of a drop.           *)
Crashed == [Of(Calm, a1 :> 1) EXCEPT !.drops = 1, !.crashes = 1, !.never = {"retry", "reject", "invalid"}]
(* Two events fill the outbox and push each other out of it.               *)
TwoEvents == [Of(Calm, a1 :> 1 @@ l1 :> 1) EXCEPT !.never = {"retry", "reject"}]
(* A phone whose token comes late, or which wants no alerts.               *)
LateToken == [Of(Calm, a1 :> 1) EXCEPT !.known = 0, !.kinds = {"alert"}, !.tokens = 1,
                                       !.quiet = {"muted"}, !.never = {"retry", "reject"}]
(* The relay knows the phone by another secret; it had none, and the       *)
(* registry is not written; the configuration names another provider.      *)
Relay == [Of(Calm, a1 :> 1) EXCEPT !.modes = {"relay"}, !.kinds = {"pair"}, !.tokens = 1,
                                   !.never = {"retry", "reject", "invalid", "queued"}]
NoSecret == [Relay EXCEPT !.known = 0, !.faults = 1, !.never = @ \cup {"waiting"}]
OtherProvider == [Of(Calm, a1 :> 1) EXCEPT !.switches = 1, !.never = {"reject", "invalid"}]
(* A Live Activity renews its token and ends, or another takes its place.  *)
Renewals == [Of(Calm, l1 :> 1) EXCEPT !.kinds = {"live"}, !.tokens = 1, !.ends = TRUE,
                                      !.never = {"reject", "invalid"}]
Scenarios == {Resubmitted, Crashed, TwoEvents, LateToken, Relay, NoSecret,
              OtherProvider, Renewals}
Full == {TwoEvents}
==============================================================================
