------------------------------- MODULE Pairing -------------------------------
(***************************************************************************)
(* Pairing a phone with the Mac (PairingStore in                           *)
(* mac/companiond/pairling_pairing.py over DeviceRegistry in               *)
(* pairling_devices.py, and the activation handler of pairlingd.py).       *)
(*                                                                         *)
(* The Mac opens an invitation (a file).  A phone claims it: the daemon    *)
(* links a marker beside the file, inserts a pending device together with  *)
(* the sealed reply, stores the relay secret in another store, deletes the *)
(* invitation, deletes the marker, and answers; a failure is compensated.  *)
(* The phone activates the device it was given: one transaction replaces   *)
(* the earlier devices of the same relay identity, and the answer is held  *)
(* back until their push registrations are gone and a remote join has been *)
(* announced.  Phones repeat a request until they have its answer, files,  *)
(* database and secret store fail one by one, and the daemon crashes.      *)
(*                                                                         *)
(* Devices are numbered in the order of created_at.                        *)
(***************************************************************************)
EXTENDS Integers, FiniteSets

CONSTANTS Invites,    \* pair ids
          Requests,   \* claims of phones; the request hash of one attempt
          PairOf,     \* Requests -> the invitation the phone was shown
          RelayOf,    \* Requests -> relay identity of the phone, or NoRelay
          Handlers,   \* request threads
          MaxDevices, \* bound: devices created
          Budgets,    \* bounds: see budget
          Nobody, NoRelay, NoClaim, NoDevice

Devices == 1 .. MaxDevices

(* Rows of pending_pair_claims and of devices, which share their states;   *)
(* by is superseded_by_device_id, 0 for none.                              *)
States == {"pending", "active", "expired", "superseded"}
Claims == [device : Devices, request : Requests, state : States, cleaned : BOOLEAN]
DeviceRows == [request : Requests, state : States, revoked : BOOLEAN, by : 0 .. MaxDevices]

ASSUME PairingAssumption ==
    /\ PairOf \in [Requests -> Invites]
    /\ Nobody \notin Handlers
    /\ MaxDevices \in Nat
    /\ Budgets \subseteq [crashes : Nat, faults : Nat, drops : Nat, revokes : Nat,
                          pushes : Nat, invites : SUBSET Invites,
                          requests : SUBSET Requests, remote : SUBSET BOOLEAN]
    /\ NoClaim \notin Claims /\ NoDevice \notin DeviceRows

VARIABLES
    files,     \* invitations whose record file exists
    markers,   \* invitations whose claim marker exists
    lapsed,    \* invitations past their expires_at
    claim,     \* pending_pair_claims: Invites -> row, or NoClaim
    late,      \* claims past expires_at
    old,       \* claims past retain_until
    device,    \* devices: Devices -> row, or NoDevice
    created,   \* devices created so far
    secrets,   \* devices with an entry in the push secret store
    tombs,     \* revoked_device_ids of the push secret store
    notices,   \* remote joins still to be announced (pairing_notifications)
    push,      \* devices with a push registration
    pushing,   \* devices with an authenticated registration under way
    used,      \* relay tickets already used (memory of the verifier)
    lock,      \* holder of _claim_lock
    handler,   \* Handlers -> program counter and locals
    phone,     \* Requests -> the device it was given, and whether it is done
    up,        \* "down", "boot" or "up"
    budget,    \* bound: what may still happen, and where requests come from
    announced, \* history: remote joins recorded in the outbox
    joined,    \* history: devices whose activation came from outside the LAN
    leaked     \* history: secrets no clean-up knows of

filesVars == <<files, markers, lapsed>>
registryVars == <<claim, late, old, device, created>>
secretVars == <<secrets, tombs, notices, leaked>>
pushVars == <<push, pushing>>
history == <<announced, joined>>
vars == <<filesVars, registryVars, secretVars, pushVars, used, lock, handler,
          phone, up, budget, history>>

Spend(what) == /\ budget[what] > 0
               /\ budget' = [budget EXCEPT ![what] = @ - 1]
Fault == Spend("faults")

Idle == [pc |-> "idle", kind |-> "none", q |-> Nobody, i |-> Nobody, d |-> 0,
         todo |-> {}, item |-> <<>>, remote |-> FALSE, failed |-> FALSE]
At(h) == handler[h].pc
Goto(h, pc) == handler' = [handler EXCEPT ![h].pc = pc]
Finish(h) == handler' = [handler EXCEPT ![h] = Idle]
(* Mutant: a thread does not wait for the lock.                             *)
LockAnyway(h) == lock' = h

Lock(h) == lock = Nobody /\ lock' = h
Unlock == lock' = Nobody

Row(d) == device[d] # NoDevice
Live(d) == Row(d) /\ device[d].state = "active" /\ ~device[d].revoked
SameRelay(d, e) == /\ RelayOf[device[d].request] # NoRelay
                   /\ RelayOf[device[d].request] = RelayOf[device[e].request]
HasTicket(q) == RelayOf[q] # NoRelay

(* An activation holds the database's write lock from its checks to its    *)
(* commit.                                                                 *)
RegistryFree == \A h \in Handlers : At(h) \notin {"marking", "commit"}

PairingInit ==
    /\ files = {} /\ markers = {} /\ lapsed = {}
    /\ claim = [i \in Invites |-> NoClaim] /\ late = {} /\ old = {}
    /\ device = [d \in Devices |-> NoDevice] /\ created = 0
    /\ secrets = {} /\ tombs = {} /\ notices = {} /\ leaked = {}
    /\ push = {} /\ pushing = {} /\ used = {}
    /\ lock = Nobody
    /\ handler = [h \in Handlers |-> Idle]
    /\ phone = [q \in Requests |-> [device |-> 0, done |-> FALSE]]
    /\ up = "up"
    /\ budget \in Budgets
    /\ announced = {} /\ joined = {}
------------------------------------------------------------------------------
(* Requests arrive.                                                        *)

BeginClaim(h, q) ==
    /\ up = "up" /\ At(h) = "idle"
    /\ q \in budget.requests /\ PairOf[q] \notin budget.invites
    /\ phone[q].device = 0
    /\ handler' = [handler EXCEPT ![h] =
         [Idle EXCEPT !.pc = "lock", !.kind = "claim", !.q = q, !.i = PairOf[q]]]
    /\ UNCHANGED <<filesVars, registryVars, secretVars, pushVars, used, lock,
                   phone, up, budget, history>>

(* The handler asks for a pending announcement before it has the lock.     *)
BeginActivate(h, q, remote) ==
    /\ up = "up" /\ At(h) = "idle"
    /\ phone[q].device # 0 /\ ~phone[q].done
    /\ remote \in budget.remote
    /\ handler' = [handler EXCEPT ![h] =
         [Idle EXCEPT !.pc = "lock", !.kind = "activate", !.q = q, !.i = PairOf[q],
                      !.d = phone[q].device,
                      !.remote = remote \/ phone[q].device \in notices]]
    /\ UNCHANGED <<filesVars, registryVars, secretVars, pushVars, used, lock,
                   phone, up, budget, history>>

(* start_pair cleans up without _claim_lock.                               *)
BeginStart(h, i) ==
    /\ up = "up" /\ At(h) = "idle"
    /\ i \in budget.invites
    /\ budget' = [budget EXCEPT !.invites = @ \ {i}]
    /\ handler' = [handler EXCEPT ![h] =
         [Idle EXCEPT !.pc = "prune", !.kind = "start", !.i = i]]
    /\ UNCHANGED <<filesVars, registryVars, secretVars, pushVars, used, lock,
                   phone, up, history>>

------------------------------------------------------------------------------
(* _cleanup_pending_claims                                                 *)

ClaimsIn(states) == {i \in Invites : claim[i] # NoClaim /\ claim[i].state \in states}
Expiring == ClaimsIn({"pending"}) \cap late
Rejected == ClaimsIn({"expired", "superseded"})
Outstanding == {i \in Rejected : ~claim[i].cleaned}
Item(i) == <<i, claim[i].device>>

(* Mutant: rejected claims are forgotten whether cleaned or not.           *)
ForgottenUncleaned == Rejected \cap old

Forgotten == {i \in Rejected \cap old : claim[i].cleaned}

AfterCleaning == [claim |-> "resume", activate |-> "decide", start |-> "records",
                  boot |-> "records", rejected |-> "reject"]
Cleaned(h) == AfterCleaning[handler[h].kind]

(* prune_pending_claims; a claim or an activation takes the lock first.    *)
Prune(h) ==
    /\ \/ At(h) = "prune" /\ UNCHANGED lock
       \/ At(h) = "lock" /\ Lock(h)
    /\ RegistryFree
    /\ claim' = [i \in Invites |->
         IF i \in Forgotten \cup (ClaimsIn({"active"}) \cap old) THEN NoClaim
         ELSE IF i \in Expiring
           THEN [claim[i] EXCEPT !.state = "expired",
                                 !.cleaned = ~HasTicket(claim[i].request)]
           ELSE claim[i]]
    /\ device' = [d \in Devices |->
         IF \E i \in Forgotten : claim[i].device = d THEN NoDevice
         ELSE IF \E i \in Expiring : claim[i].device = d
           THEN [device[d] EXCEPT !.state = "expired", !.revoked = TRUE]
           ELSE device[d]]
    /\ LET items == {Item(i) : i \in Outstanding \cup
                       {j \in Expiring : HasTicket(claim[j].request)}}
       IN handler' = [handler EXCEPT ![h].todo = items,
                        ![h].pc = IF items = {} THEN Cleaned(h) ELSE "clean"]
    /\ UNCHANGED <<filesVars, late, old, created, secretVars, pushVars, used,
                   phone, up, budget, history>>

(* One item: the secret, then the mark; a failure leaves it to the next    *)
(* clean-up.  A change of the secret store may fail before or after the    *)
(* new content is in place (mutate_push_secrets), here and below.          *)
CleanSecret(h) ==
    /\ At(h) = "clean"
    /\ \E item \in handler[h].todo :
         \/ /\ secrets' = secrets \ {item[2]}
            /\ handler' = [handler EXCEPT ![h].pc = "cleaned", ![h].item = item,
                                          ![h].todo = @ \ {item}]
            /\ UNCHANGED budget
         \/ /\ Fault
            /\ secrets' \in {secrets, secrets \ {item[2]}}
            /\ handler' = [handler EXCEPT ![h].todo = @ \ {item}]
    /\ UNCHANGED <<filesVars, registryVars, tombs, notices, leaked, pushVars, used, lock,
                   phone, up, history>>

MarkCleaned(h) ==
    /\ At(h) = "cleaned"
    /\ RegistryFree
    /\ LET i == handler[h].item[1] IN
         \/ /\ claim' = IF claim[i] # NoClaim /\ claim[i].device = handler[h].item[2]
                        THEN [claim EXCEPT ![i].cleaned = TRUE] ELSE claim
            /\ UNCHANGED budget
         \/ Fault /\ UNCHANGED claim
    /\ handler' = [handler EXCEPT ![h].pc = "clean", ![h].item = <<>>]
    /\ UNCHANGED <<filesVars, late, old, device, created, secretVars, pushVars, used,
                   lock, phone, up, history>>

CleanDone(h) ==
    /\ At(h) = "clean" /\ handler[h].todo = {}
    /\ Goto(h, Cleaned(h))
    /\ UNCHANGED <<filesVars, registryVars, secretVars, pushVars, used, lock,
                   phone, up, budget, history>>

(* The request fails: an error answer, which tells the phone nothing.      *)
Reject(h) ==
    /\ At(h) = "reject"
    /\ Unlock
    /\ Finish(h)
    /\ UNCHANGED <<filesVars, registryVars, secretVars, pushVars, used,
                   phone, up, budget, history>>

(* A store cannot be read, an attestation or a key does not verify, or too *)
(* many attempts were made; nothing has been changed.                      *)
Refuse(h) ==
    /\ At(h) \in {"resume", "check", "decide"}
    /\ Fault
    /\ Goto(h, "reject")
    /\ UNCHANGED <<filesVars, registryVars, secretVars, pushVars, used, lock,
                   phone, up, history>>

------------------------------------------------------------------------------
(* start_pair                                                              *)

(* _prune_expired_records: a bounded number of expired invitations, and    *)
(* markers whose invitation is gone.                                       *)
PruneRecords(h) ==
    /\ At(h) = "records" /\ lock = Nobody
    /\ \E gone \in SUBSET (files \cap lapsed) :
         /\ files' = files \ gone
         /\ \E stale \in SUBSET ((markers \cap lapsed) \ files') : markers' = markers \ stale
    /\ Goto(h, IF handler[h].kind = "boot" THEN "sweep" ELSE "open")
    /\ UNCHANGED <<lapsed, registryVars, secretVars, pushVars, used, lock,
                   phone, up, budget, history>>

OpenInvite(h) ==
    /\ At(h) = "open"
    /\ files' = files \cup {handler[h].i}
    /\ Finish(h)
    /\ UNCHANGED <<markers, lapsed, registryVars, secretVars, pushVars, used, lock,
                   phone, up, budget, history>>

------------------------------------------------------------------------------
(* psk_claim_pair, under _claim_lock.                                      *)

(* Mutant: any request gets the saved reply.                               *)
SavedForAnyone(h) ==
    LET i == handler[h].i IN
    claim[i] # NoClaim /\ claim[i].state \in {"pending", "active"}
        /\ ~(claim[i].state = "pending" /\ i \in late)

(* resumable_pair_claim finds the reply of the same request.               *)
Saved(h) ==
    LET i == handler[h].i IN
    /\ claim[i] # NoClaim /\ claim[i].request = handler[h].q
    /\ claim[i].state \in {"pending", "active"}
    /\ ~(claim[i].state = "pending" /\ i \in late)

Resume(h) ==
    /\ At(h) = "resume"
    /\ handler' = [handler EXCEPT
         ![h].pc = IF claim[handler[h].i] = NoClaim THEN "check"
                   ELSE IF Saved(h) THEN "reply" ELSE "reject",
         ![h].d = IF claim[handler[h].i] # NoClaim THEN claim[handler[h].i].device ELSE 0]
    /\ UNCHANGED <<filesVars, registryVars, secretVars, pushVars, used, lock,
                   phone, up, budget, history>>

(* _precheck_claim and the relay ticket, which serves once.                *)
CheckInvite(h) ==
    /\ At(h) = "check"
    /\ LET i == handler[h].i
           q == handler[h].q
       IN \/ /\ i \notin files \/ i \in lapsed \/ q \in used
             /\ files' = IF i \in lapsed THEN files \ {i} ELSE files
             /\ Goto(h, "reject")
             /\ UNCHANGED used
          \/ /\ i \in files /\ i \notin lapsed /\ q \notin used
             /\ used' = IF HasTicket(q) THEN used \cup {q} ELSE used
             /\ Goto(h, "marker")
             /\ UNCHANGED files
    /\ UNCHANGED <<markers, lapsed, registryVars, secretVars, pushVars, lock,
                   phone, up, budget, history>>

(* _create_claim_marker: an exclusive link.                                *)
CreateMarker(h) ==
    /\ At(h) = "marker"
    /\ LET i == handler[h].i IN
         \/ /\ i \notin markers
            /\ markers' = markers \cup {i}
            /\ Goto(h, "create")
            /\ UNCHANGED budget
         \/ /\ i \in markers \/ Fault
            /\ i \in markers => UNCHANGED budget
            /\ Goto(h, "undoTicket")
            /\ UNCHANGED markers
    /\ UNCHANGED <<files, lapsed, registryVars, secretVars, pushVars, used, lock,
                   phone, up, history>>

(* create_pending_device: the device, the saved reply and their expiry in  *)
(* one transaction.                                                        *)
CreateDevice(h) ==
    /\ At(h) = "create" /\ RegistryFree
    /\ LET i == handler[h].i
           q == handler[h].q
           d == created + 1
       IN \/ /\ claim[i] = NoClaim /\ created < MaxDevices
             /\ created' = d
             /\ device' = [device EXCEPT ![d] = [request |-> q, state |-> "pending",
                                                 revoked |-> FALSE, by |-> 0]]
             /\ claim' = [claim EXCEPT ![i] = [device |-> d, request |-> q,
                                               state |-> "pending", cleaned |-> FALSE]]
             /\ late' = late \ {i} /\ old' = old \ {i}
             /\ handler' = [handler EXCEPT ![h].d = d,
                              ![h].pc = IF HasTicket(q) THEN "store" ELSE "unlink"]
             /\ UNCHANGED budget
          \/ /\ claim[i] # NoClaim \/ created = MaxDevices \/ Fault
             /\ claim[i] # NoClaim \/ created = MaxDevices => UNCHANGED budget
             /\ Goto(h, "undoMarker")
             /\ UNCHANGED registryVars
    /\ UNCHANGED <<filesVars, secretVars, pushVars, used, lock, phone, up, history>>

(* A secret that arrives after its claim expired may miss the clean-up.    *)
StoreSecret(h) ==
    /\ At(h) = "store"
    /\ LET d == handler[h].d
           waiting == claim[handler[h].i] # NoClaim /\ claim[handler[h].i].state = "pending"
           Stored == /\ secrets' = secrets \cup {d}
                     /\ leaked' = IF waiting THEN leaked ELSE leaked \cup {d}
       IN \/ Stored /\ Goto(h, "unlink") /\ UNCHANGED budget
          \/ /\ Fault
             /\ Stored \/ UNCHANGED <<secrets, leaked>>
             /\ Goto(h, "undoSecret")
    /\ UNCHANGED <<filesVars, registryVars, tombs, notices, pushVars, used, lock,
                   phone, up, history>>

DeleteInvite(h) ==
    /\ At(h) = "unlink"
    /\ \/ /\ files' = files \ {handler[h].i}
          /\ Goto(h, "unmark")
          /\ UNCHANGED budget
       \/ /\ Fault
          /\ Goto(h, IF HasTicket(handler[h].q) THEN "undoSecret" ELSE "undoDevice")
          /\ UNCHANGED files
    /\ UNCHANGED <<markers, lapsed, registryVars, secretVars, pushVars, used, lock,
                   phone, up, history>>

(* The marker goes last; a failure here is ignored.                        *)
DeleteMarker(h) ==
    /\ At(h) = "unmark"
    /\ \/ markers' = markers \ {handler[h].i} /\ UNCHANGED budget
       \/ Fault /\ UNCHANGED markers
    /\ Goto(h, "reply")
    /\ UNCHANGED <<files, lapsed, registryVars, secretVars, pushVars, used, lock,
                   phone, up, history>>

(* The sealed reply reaches the phone, or is lost.                         *)
Reply(h) ==
    /\ At(h) = "reply"
    /\ \/ phone' = [phone EXCEPT ![handler[h].q].device = handler[h].d] /\ UNCHANGED budget
       \/ Spend("drops") /\ UNCHANGED phone
    /\ Unlock
    /\ Finish(h)
    /\ UNCHANGED <<filesVars, registryVars, secretVars, pushVars, used, up, history>>

------------------------------------------------------------------------------
(* Compensation of a claim that failed.                                    *)

UndoSecret(h) ==
    /\ At(h) = "undoSecret"
    /\ LET d == handler[h].d IN
         \/ /\ secrets' = secrets \ {d}
            /\ Goto(h, "undoDevice")
            /\ UNCHANGED budget
         \/ /\ Fault
            /\ secrets' \in {secrets, secrets \ {d}}
            /\ handler' = [handler EXCEPT ![h].pc = "undoDevice", ![h].failed = TRUE]
    /\ UNCHANGED <<filesVars, registryVars, tombs, notices, leaked, pushVars, used, lock,
                   phone, up, history>>

(* rollback_created_device; a pending device has replaced nobody.  With    *)
(* the row goes the last trace of a secret that could not be deleted.      *)
UndoDevice(h) ==
    /\ At(h) = "undoDevice" /\ RegistryFree
    /\ LET d == handler[h].d IN
         \/ /\ Row(d)
            /\ device' = [device EXCEPT ![d] = NoDevice]
            /\ claim' = [i \in Invites |-> IF claim[i] # NoClaim /\ claim[i].device = d
                                           THEN NoClaim ELSE claim[i]]
            /\ leaked' = leaked \cup ({d} \cap secrets)
            /\ Goto(h, IF handler[h].failed THEN "reject" ELSE "undoMarker")
            /\ UNCHANGED budget
         \/ /\ ~Row(d) \/ Fault
            /\ ~Row(d) => UNCHANGED budget
            /\ Goto(h, "reject")
            /\ UNCHANGED <<device, claim, leaked>>
    /\ UNCHANGED <<filesVars, late, old, created, secrets, tombs, notices, pushVars,
                   used, lock, phone, up, history>>

(* Only a claim that left nothing behind gives back its ticket and marker. *)
UndoMarker(h) ==
    /\ At(h) = "undoMarker"
    /\ \/ markers' = markers \ {handler[h].i} /\ UNCHANGED budget
       \/ Fault /\ UNCHANGED markers
    /\ used' = used \ {handler[h].q}
    /\ Goto(h, "reject")
    /\ UNCHANGED <<files, lapsed, registryVars, secretVars, pushVars, lock,
                   phone, up, history>>

UndoTicket(h) ==
    /\ At(h) = "undoTicket"
    /\ used' = used \ {handler[h].q}
    /\ Goto(h, "reject")
    /\ UNCHANGED <<filesVars, registryVars, secretVars, pushVars, lock,
                   phone, up, budget, history>>

------------------------------------------------------------------------------
(* activate_pending_claim, under _claim_lock and in one transaction.       *)

(* Mutant: an older repair may replace a newer one.                        *)
NoNewerRepair(d) == {}

NewerRepairs(d) == {e \in Devices : Live(e) /\ SameRelay(e, d) /\ e > d}

Activable(i, d) ==
    /\ Row(d) /\ ~device[d].revoked
    /\ claim[i] = NoClaim => device[d].state = "active"
    /\ claim[i] # NoClaim => /\ claim[i].state \in {"pending", "active"}
                             /\ claim[i].device = d
                             /\ claim[i].state = "pending" => i \notin late

Decide(h) ==
    /\ At(h) = "decide" /\ RegistryFree
    /\ LET i == handler[h].i
           d == handler[h].d
       IN \/ /\ ~Activable(i, d)
             /\ Goto(h, "reject")
             /\ UNCHANGED <<device, claim>>
          \/ /\ Activable(i, d)
             /\ device[d].state = "active" \/ NewerRepairs(d) = {}
             /\ Goto(h, "marking")
             /\ UNCHANGED <<device, claim>>
          \/ /\ Activable(i, d)
             /\ device[d].state = "pending" /\ NewerRepairs(d) # {}
             /\ \E e \in NewerRepairs(d) :
                  /\ \A f \in NewerRepairs(d) : f <= e
                  /\ device' = [device EXCEPT ![d].state = "superseded",
                                              ![d].revoked = TRUE, ![d].by = e]
             /\ claim' = [claim EXCEPT ![i].state = "superseded"]
             /\ handler' = [handler EXCEPT ![h].pc = "clean", ![h].kind = "rejected",
                                           ![h].todo = {<<i, d>>}]
    /\ UNCHANGED <<filesVars, late, old, created, secretVars, pushVars, used, lock,
                   phone, up, budget, history>>

(* before_activation: the remote join must be announced, whatever happens  *)
(* after the commit.                                                       *)
MarkRemote(h) ==
    /\ At(h) = "marking"
    /\ \/ /\ notices' = IF handler[h].remote THEN notices \cup {handler[h].d} ELSE notices
          /\ Goto(h, "commit")
          /\ UNCHANGED budget
       \/ /\ handler[h].remote /\ Fault
          /\ notices' \in {notices, notices \cup {handler[h].d}}
          /\ Goto(h, "reject")
    /\ UNCHANGED <<filesVars, registryVars, secrets, tombs, leaked, pushVars, used, lock,
                   phone, up, history>>

Replaced(d) == {e \in Devices : Live(e) /\ SameRelay(e, d) /\ e # d}

(* Mutant: the earlier devices stay.                                       *)
ActivateBeside(h) ==
    LET d == handler[h].d IN
    /\ device' = [device EXCEPT ![d].state = "active"]
    /\ claim' = [claim EXCEPT ![handler[h].i].state = "active"]
    /\ handler' = [handler EXCEPT ![h].pc = "drop"]

Activate(h) ==
    LET d == handler[h].d IN
    /\ device' = [e \in Devices |->
         IF e = d THEN [device[e] EXCEPT !.state = "active"]
         ELSE IF e \in Replaced(d) THEN [device[e] EXCEPT !.revoked = TRUE, !.by = d]
         ELSE device[e]]
    /\ claim' = [claim EXCEPT ![handler[h].i].state = "active"]
    /\ handler' = [handler EXCEPT ![h].pc = "drop", ![h].todo = Replaced(d)]

(* The phone repeats an activation whose answer it did not get.            *)
Reactivate(h) ==
    LET d == handler[h].d IN
    /\ handler' = [handler EXCEPT ![h].pc = "drop",
         ![h].todo = {e \in Devices : Row(e) /\ device[e].by = d /\ device[e].revoked}]
    /\ UNCHANGED <<device, claim>>

Commit(h) ==
    /\ At(h) = "commit"
    /\ \/ device[handler[h].d].state = "active" /\ Reactivate(h) /\ UNCHANGED joined
       \/ /\ device[handler[h].d].state = "pending" /\ Activate(h)
          /\ joined' = IF handler[h].remote THEN joined \cup {handler[h].d} ELSE joined
    /\ Unlock
    /\ UNCHANGED <<filesVars, late, old, created, secretVars, pushVars, used,
                   phone, up, budget, announced>>

(* The transaction is rolled back; only a request that had something to    *)
(* commit can fail here.                                                   *)
CommitFails(h) ==
    /\ At(h) = "commit" /\ device[handler[h].d].state = "pending"
    /\ Fault
    /\ Unlock
    /\ IF handler[h].remote THEN Goto(h, "unnotice") ELSE Finish(h)
    /\ UNCHANGED <<filesVars, registryVars, secretVars, pushVars, used,
                   phone, up, history>>

(* clear_remote_notification_marker, after the lock was released; its      *)
(* failure is ignored.                                                     *)
ClearNotice(h) ==
    /\ At(h) = "unnotice"
    /\ \/ notices' = notices \ {handler[h].d} /\ UNCHANGED budget
       \/ Fault /\ notices' \in {notices, notices \ {handler[h].d}}
    /\ Finish(h)
    /\ UNCHANGED <<filesVars, registryVars, secrets, tombs, leaked, pushVars, used, lock,
                   phone, up, history>>

(* drop_device: the secret and a tombstone in one store, then the          *)
(* registration in another.  A failure ends the request without an         *)
(* acknowledgement.                                                        *)
DropDevice(h) ==
    /\ At(h) = "drop"
    /\ \E e \in handler[h].todo :
         \/ /\ secrets' = secrets \ {e} /\ tombs' = tombs \cup {e} /\ push' = push \ {e}
            /\ handler' = [handler EXCEPT ![h].todo = @ \ {e}]
            /\ UNCHANGED budget
         \/ /\ Fault
            /\ \/ secrets' = secrets \ {e} /\ tombs' = tombs \cup {e}
               \/ UNCHANGED <<secrets, tombs>>
            /\ Finish(h)
            /\ UNCHANGED push
    /\ UNCHANGED <<filesVars, registryVars, notices, leaked, pushing, used, lock,
                   phone, up, history>>

DropDone(h) ==
    /\ At(h) = "drop" /\ handler[h].todo = {}
    /\ IF handler[h].kind = "revoke" THEN Finish(h)
       ELSE Goto(h, IF handler[h].remote THEN "announce" ELSE "ack")
    /\ UNCHANGED <<filesVars, registryVars, secretVars, pushVars, used, lock,
                   phone, up, budget, history>>

(* The broadcast is recorded in the outbox, then the notice goes away.     *)
Announce(h) ==
    /\ At(h) = "announce"
    /\ \/ /\ announced' = announced \cup {handler[h].d}
          /\ Goto(h, "complete")
          /\ UNCHANGED budget
       \/ Fault /\ Finish(h) /\ UNCHANGED announced
    /\ UNCHANGED <<filesVars, registryVars, secretVars, pushVars, used, lock,
                   phone, up, joined>>

CompleteNotice(h) ==
    /\ At(h) = "complete"
    /\ \/ /\ notices' = notices \ {handler[h].d}
          /\ Goto(h, "ack")
          /\ UNCHANGED budget
       \/ Fault /\ Finish(h) /\ notices' \in {notices, notices \ {handler[h].d}}
    /\ UNCHANGED <<filesVars, registryVars, secrets, tombs, leaked, pushVars, used, lock,
                   phone, up, history>>

Acknowledge(h) ==
    /\ At(h) = "ack"
    /\ \/ phone' = [phone EXCEPT ![handler[h].q].done = TRUE] /\ UNCHANGED budget
       \/ Spend("drops") /\ UNCHANGED phone
    /\ Finish(h)
    /\ UNCHANGED <<filesVars, registryVars, secretVars, pushVars, used, lock, up, history>>

------------------------------------------------------------------------------
(* Revocation: by the phone itself, which also drops its registration, or  *)
(* from the command line, which leaves that to the next start.             *)
Revoke(h, d) ==
    /\ up = "up" /\ At(h) = "idle" /\ RegistryFree
    /\ Row(d) /\ ~device[d].revoked
    /\ Spend("revokes")
    /\ device' = [device EXCEPT ![d].revoked = TRUE]
    /\ \/ /\ Live(d)
          /\ handler' = [handler EXCEPT ![h] = [Idle EXCEPT !.pc = "drop", !.kind = "revoke",
                                                            !.todo = {d}]]
       \/ UNCHANGED handler
    /\ UNCHANGED <<filesVars, claim, late, old, created, secretVars, pushVars, used, lock,
                   phone, up, history>>

(* A push registration is authenticated first and stored later.            *)
AuthenticatePush(q) ==
    /\ up = "up"
    /\ phone[q].done /\ Live(phone[q].device)
    /\ Spend("pushes")
    /\ pushing' = pushing \cup {phone[q].device}
    /\ UNCHANGED <<filesVars, registryVars, secretVars, push, used, lock, handler,
                   phone, up, history>>

(* Mutant: a registration does not look for a tombstone.                   *)
StorePushAnyway(d) ==
    /\ d \in pushing
    /\ pushing' = pushing \ {d}
    /\ push' = push \cup {d}
    /\ UNCHANGED <<filesVars, registryVars, secretVars, used, lock, handler,
                   phone, up, budget, history>>

(* update_preferences                                                      *)
StorePush(d) ==
    /\ d \in pushing
    /\ pushing' = pushing \ {d}
    /\ push' = IF d \in tombs THEN push ELSE push \cup {d}
    /\ UNCHANGED <<filesVars, registryVars, secretVars, used, lock, handler,
                   phone, up, budget, history>>

------------------------------------------------------------------------------
(* Time.  An active claim is retained for a day, an invitation lives for   *)
(* five minutes.                                                           *)
InviteLapses(i) ==
    /\ i \in files \ lapsed
    /\ lapsed' = lapsed \cup {i}
    /\ UNCHANGED <<files, markers, registryVars, secretVars, pushVars, used, lock,
                   handler, phone, up, budget, history>>

ClaimLapses(i) ==
    /\ i \in ClaimsIn({"pending"}) \ late
    /\ late' = late \cup {i}
    /\ UNCHANGED <<filesVars, claim, old, device, created, secretVars, pushVars, used,
                   lock, handler, phone, up, budget, history>>

RetentionEnds(i) ==
    /\ i \in (Rejected \cup (ClaimsIn({"active"}) \cap lapsed)) \ old
    /\ old' = old \cup {i}
    /\ UNCHANGED <<filesVars, claim, late, device, created, secretVars, pushVars, used,
                   lock, handler, phone, up, budget, history>>

------------------------------------------------------------------------------
(* The daemon dies and is started again: clean-up of the claims and files, *)
(* then the sweep of revoked devices (gc_revoked).                         *)
Crash ==
    /\ up # "down" /\ Spend("crashes")
    /\ up' = "down"
    /\ handler' = [h \in Handlers |-> Idle]
    /\ lock' = Nobody
    /\ used' = {} /\ pushing' = {}
    /\ UNCHANGED <<filesVars, registryVars, secretVars, push, phone, history>>

Boot(h) ==
    /\ up = "down"
    /\ up' = "boot"
    /\ handler' = [handler EXCEPT ![h] = [Idle EXCEPT !.pc = "prune", !.kind = "boot"]]
    /\ UNCHANGED <<filesVars, registryVars, secretVars, pushVars, used, lock, phone,
                   budget, history>>

Sweep(h) ==
    /\ At(h) = "sweep"
    /\ LET revoked == {d \in Devices : Row(d) /\ device[d].revoked} IN
         \/ /\ secrets' = secrets \ revoked /\ tombs' = tombs \cup revoked
            /\ push' = push \ revoked
            /\ UNCHANGED budget
         \/ /\ Fault
            /\ \/ secrets' = secrets \ revoked /\ tombs' = tombs \cup revoked
               \/ UNCHANGED <<secrets, tombs>>
            /\ UNCHANGED push
    /\ up' = "up"
    /\ Finish(h)
    /\ UNCHANGED <<filesVars, registryVars, notices, leaked, pushing, used, lock, phone,
                   history>>

------------------------------------------------------------------------------
ClaimStep(h) == Resume(h) \/ CheckInvite(h) \/ CreateMarker(h) \/ CreateDevice(h)
                    \/ StoreSecret(h) \/ DeleteInvite(h) \/ DeleteMarker(h) \/ Reply(h)
                    \/ UndoSecret(h) \/ UndoDevice(h) \/ UndoMarker(h) \/ UndoTicket(h)
ActivateStep(h) == Decide(h) \/ MarkRemote(h) \/ Commit(h) \/ ClearNotice(h)
                       \/ DropDevice(h) \/ DropDone(h) \/ Announce(h)
                       \/ CompleteNotice(h) \/ Acknowledge(h)
CleanStep(h) == Prune(h) \/ CleanSecret(h) \/ MarkCleaned(h) \/ CleanDone(h)
                    \/ PruneRecords(h) \/ OpenInvite(h) \/ Sweep(h)
Step(h) == CleanStep(h) \/ ClaimStep(h) \/ ActivateStep(h) \/ Reject(h)

Ask(h, q) == BeginClaim(h, q) \/ \E remote \in BOOLEAN : BeginActivate(h, q, remote)

PairingNext ==
    \/ \E h \in Handlers :
         \/ \E q \in Requests : Ask(h, q)
         \/ \E i \in Invites : BeginStart(h, i)
         \/ Step(h) \/ Refuse(h) \/ CommitFails(h)
         \/ \E d \in Devices : Revoke(h, d)
         \/ Boot(h)
    \/ \E q \in Requests : AuthenticatePush(q)
    \/ \E d \in Devices : StorePush(d)
    \/ \E i \in Invites : InviteLapses(i) \/ ClaimLapses(i) \/ RetentionEnds(i)
    \/ Crash

PairingSafety == PairingInit /\ [][PairingNext]_vars

------------------------------------------------------------------------------
(* Types, and _claim_lock is held by the thread that is inside.            *)
Locked(h) == /\ handler[h].kind \in {"claim", "activate", "rejected"}
             /\ At(h) \notin {"lock", "unnotice", "drop", "announce", "complete", "ack"}
PairingTypeOK ==
    /\ files \subseteq Invites /\ markers \subseteq Invites /\ lapsed \subseteq Invites
    /\ claim \in [Invites -> Claims \cup {NoClaim}]
    /\ device \in [Devices -> DeviceRows \cup {NoDevice}]
    /\ created \in 0 .. MaxDevices
    /\ \A d \in Devices : Row(d) => d <= created
    /\ (secrets \cup tombs \cup notices \cup push) \subseteq 1 .. created
    /\ lock \in Handlers \cup {Nobody}
    /\ \A h \in Handlers : Locked(h) <=> lock = h
    /\ phone \in [Requests -> [device : 0 .. MaxDevices, done : BOOLEAN]]
    /\ up \in {"down", "boot", "up"}

(* A phone is one device: at no time are two devices of one relay identity *)
(* active and not revoked, however many invitations it claims and in       *)
(* whatever order it activates them.                                       *)
OneLiveDevicePerPhone ==
    \A d, e \in Devices : Live(d) /\ Live(e) /\ SameRelay(d, e) => d = e

(* The newest repair wins: a device is only ever replaced by one that was  *)
(* created after it, so a late activation of an older invitation does not  *)
(* take the phone's newer credentials away.                                *)
NewestRepairWins == \A d \in Devices : Row(d) /\ device[d].by # 0 => device[d].by > d

(* An invitation makes one device: whatever is repeated, undone, crashes   *)
(* or expires, no two phones are given devices of the same invitation and  *)
(* no invitation is behind two devices that are pending or active.         *)
Usable(d) == Row(d) /\ device[d].state \in {"pending", "active"}
OneDevicePerInvitation ==
    /\ \A d, e \in Devices :
         Usable(d) /\ Usable(e) /\ PairOf[device[d].request] = PairOf[device[e].request]
            => d = e
    /\ \A q, r \in Requests :
         PairOf[q] = PairOf[r] /\ phone[q].device # 0 /\ phone[r].device # 0 => q = r

(* No secret outlives the records that would make somebody delete it: a    *)
(* failed clean-up is retried by the next one.  Two ways remain, both kept *)
(* in leaked: a roll-back whose deletion of the secret failed, and a claim *)
(* that stored its secret after it had expired.                            *)
SecretsAreAccountedFor ==
    \A d \in secrets \ leaked :
        /\ Row(d)
        /\ device[d].state \in {"expired", "superseded"} =>
             \E i \in Invites : /\ claim[i] # NoClaim /\ claim[i].device = d
                                /\ ~claim[i].cleaned

(* An acknowledged activation is complete: the push registrations of the   *)
(* devices it replaced are gone and stay away, even if one of them was     *)
(* authenticated before the replacement and stores its token after it.     *)
AcknowledgedIsClean ==
    \A q \in Requests : phone[q].done =>
        \A e \in Devices : Row(e) /\ device[e].by = phone[q].device => e \notin push

(* A device that joined from outside is announced before its phone hears   *)
(* that it is active: withholding the acknowledgement makes the phone      *)
(* retry until every existing device has a durable outbox record.          *)
RemoteJoinIsAnnounced ==
    \A q \in Requests : phone[q].done /\ phone[q].device \in joined
                            => phone[q].device \in announced
=============================================================================
