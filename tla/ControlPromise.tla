---------------------------- MODULE ControlPromise ---------------------------
(***************************************************************************)
(* What session control promises of the mutations it is asked to perform   *)
(* on one provider session.  Each is handed to the provider at most once,  *)
(* unless a repeated request was at work beside the first one before the   *)
(* mutation was dispatched; none is while the outcome of another is open,  *)
(* unless an answer came so late that it was told after its verdict; and a *)
(* verdict stays, and is what the provider did.                            *)
(***************************************************************************)
EXTENDS Naturals

CONSTANT Acts

VARIABLES
    verdict,   \* Acts -> "open", "unknown", "applied" or "rejected"
    runs,      \* Acts -> how often it was handed to the provider
    fate,      \* Acts -> what the provider did: "none", "working", ...
    twins,     \* the mutations two requests were dispatching at once
    blind,     \* a rejection may be recorded without asking the provider
    confused   \* a verdict was told again after it had been given

Final == {"applied", "rejected"}

PromiseInit == /\ verdict = [a \in Acts |-> "open"]
               /\ runs = [a \in Acts |-> 0]
               /\ fate = [a \in Acts |-> "none"]
               /\ twins = {} /\ blind \in BOOLEAN /\ confused = FALSE

(* A second request joins a mutation that has not been dispatched.         *)
Join(a) ==
    /\ verdict[a] = "open" /\ runs[a] = 0
    /\ twins' = twins \cup {a}
    /\ UNCHANGED <<verdict, runs, fate, blind, confused>>

(* The action reaches the provider, once.                                  *)
Run(a) ==
    /\ a \in twins \/ (runs[a] = 0 /\ verdict[a] \notin Final)
    /\ confused \/ \A b \in Acts \ {a} : runs[b] > 0 => verdict[b] \in Final
    /\ runs' = [runs EXCEPT ![a] = @ + 1]
    /\ fate' = [fate EXCEPT ![a] = IF @ = "none" THEN "working" ELSE @]
    /\ UNCHANGED <<verdict, twins, blind, confused>>

(* The provider decides.                                                   *)
Decide(a) ==
    /\ fate[a] = "working"
    /\ \E v \in Final : fate' = [fate EXCEPT ![a] = v]
    /\ UNCHANGED <<verdict, runs, twins, blind, confused>>

(* The ledger learns.                                                      *)
Judge(a) ==
    /\ verdict[a] \notin Final
    /\ \E v \in Final \cup {"unknown"} :
          /\ v = "applied" => fate[a] = "applied"
          /\ v = "rejected" => blind \/ a \in twins \/ fate[a] \in {"none", "rejected"}
          /\ verdict' = [verdict EXCEPT ![a] = v]
    /\ UNCHANGED <<runs, fate, twins, blind, confused>>

(* A verdict is told again.                                                *)
TellAgain(a) ==
    /\ verdict[a] \in Final
    /\ confused' = TRUE
    /\ UNCHANGED <<verdict, runs, fate, twins, blind>>

PromiseVars == <<verdict, runs, fate, twins, blind, confused>>
PromiseNext == \E a \in Acts : Join(a) \/ Run(a) \/ Decide(a) \/ Judge(a) \/ TellAgain(a)
PromiseSpec == PromiseInit /\ [][PromiseNext]_PromiseVars
==============================================================================
