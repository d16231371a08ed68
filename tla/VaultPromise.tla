----------------------------- MODULE VaultPromise -----------------------------
(***************************************************************************)
(* What the PairDrop vault promises of what is added to it.  An upload is  *)
(* open until its file arrives, once and whole, or until it fails, which   *)
(* is for good.  As long as an upload stands for a thing to add, nothing   *)
(* else is opened for that thing.  Files are deleted before they are       *)
(* purged and never come back.                                             *)
(***************************************************************************)
CONSTANTS Uploads, Files, Keys, NoKey

VARIABLES
    stage,   \* Uploads -> "unused", "open", "arrived", "failed" or "purged"
    claim,   \* Uploads -> the key it stands for, or NoKey
    result,  \* Uploads -> the files that came of it
    life     \* Files -> "none", "live", "deleted" or "purged"

PromiseVars == <<stage, claim, result, life>>

PromiseInit ==
    /\ stage = [u \in Uploads |-> "unused"] /\ claim = [u \in Uploads |-> NoKey]
    /\ result = [u \in Uploads |-> {}] /\ life = [f \in Files |-> "none"]

(* An upload stands for its key while it is open or its file is live; the  *)
(* claim begins with the upload, ends when it stands no longer, and no two *)
(* uploads have the same.                                                  *)
Stands(u) == \/ stage[u] = "open"
             \/ stage[u] = "arrived" /\ \E f \in result[u] : life[f] = "live"
Claims ==
    \A u \in Uploads :
       /\ \/ claim'[u] = claim[u]
          \/ stage[u] = "unused" /\ stage'[u] = "open"
          \/ claim'[u] = NoKey /\ ~Stands(u)'
       /\ \A v \in Uploads \ {u} : claim'[u] = claim'[v] => claim'[u] = NoKey

(* Any request may find that the time of some uploads is over.             *)
MayFail(u) == \/ stage'[u] = stage[u]
              \/ stage[u] = "open" /\ stage'[u] = "failed"

Open(u) == /\ stage[u] = "unused" /\ stage'[u] = "open"
           /\ \A v \in Uploads \ {u} : MayFail(v)
           /\ Claims /\ UNCHANGED <<result, life>>
Fail == /\ \A u \in Uploads : MayFail(u)
        /\ UNCHANGED <<claim, result, life>>

Arrive(u, f) ==
    /\ stage[u] = "open" /\ life[f] = "none"
    /\ stage' = [stage EXCEPT ![u] = "arrived"]
    /\ result' = [result EXCEPT ![u] = {f}]
    /\ life' = [life EXCEPT ![f] = "live"]
    /\ UNCHANGED claim

(* A small file is added in one request.                                   *)
Put(f) == /\ life[f] = "none" /\ life' = [life EXCEPT ![f] = "live"]
          /\ \A u \in Uploads : MayFail(u)
          /\ UNCHANGED <<claim, result>>

Delete(f) ==
    /\ life[f] = "live" /\ life' = [life EXCEPT ![f] = "deleted"]
    /\ Claims /\ UNCHANGED <<stage, result>>

Purge(f) ==
    /\ life[f] = "deleted" /\ life' = [life EXCEPT ![f] = "purged"]
    /\ stage' = [u \in Uploads |-> IF f \in result[u] THEN "purged" ELSE stage[u]]
    /\ UNCHANGED <<claim, result>>

PromiseNext == \/ Fail \/ \E u \in Uploads : Open(u)
               \/ \E f \in Files : \/ Put(f) \/ Delete(f) \/ Purge(f)
                                   \/ \E u \in Uploads : Arrive(u, f)

PromiseSpec == PromiseInit /\ [][PromiseNext]_PromiseVars
==============================================================================
