---------------------------- MODULE PairingProofs ----------------------------
(***************************************************************************)
(* Proofs about Pairing: what its stores promise, for any number of        *)
(* invitations, requests, phones, devices and request threads.             *)
(*                                                                         *)
(* PairingInv is the inductive invariant.  Its parts follow the story of a *)
(* pairing:                                                                *)
(*   StoresGood, HandlersGood  the types, and where each kind of request   *)
(*                thread may be and what it then holds (Shape); a thread   *)
(*                past "lock" owns the lock, so at most one is;            *)
(*   Registry     a claim and its device row were written together and are *)
(*                of one invitation and one state; a device replaced by    *)
(*                another is revoked and older than that one;              *)
(*   OneUsable    at most one device of an invitation can still be used,   *)
(*                so a retry cannot leave a second;                        *)
(*   InvitesGood  once an invitation gave a device, its file is marked or  *)
(*                gone and stays so (Closed), and it is started only once; *)
(*   PhonesGood   a phone's device is the one its claim names;             *)
(*   LockedGood   what the thread under the lock read stays true until it  *)
(*                lets go (WhileLocked), whatever it read it from;         *)
(*   SecretsGood  a secret in the keychain has a row that says so, and a   *)
(*                clean-up only ever aims at devices of ended claims;      *)
(*   PushGood     a phone acknowledged, or one about to be, replaced only  *)
(*                devices that push no more.                               *)
(*                                                                         *)
(* The argument: each handler step is first reduced to the few ways in     *)
(* which the registry can change (Ages: rows only get older; Adds: one row *)
(* and its claim come), and each part of the invariant is then kept by     *)
(* those, step by step.  Lemmas named ...KeepThreads are about one         *)
(* handler's own record, ...Ages about the registry, ...Goes and Arrives   *)
(* about where a thread goes next, ...Grow and ...Lasts about what one     *)
(* step may add or must leave, ...StayGood about one part of PairingInv.   *)
(***************************************************************************)
EXTENDS Pairing, TLAPS, FiniteSetTheorems

(* What a request thread may be at.                                        *)
Making == {"store", "unlink", "undoSecret", "undoDevice"}
ClaimPcs == {"resume", "check", "marker", "create", "unmark", "reply", "undoMarker",
             "undoTicket"} \cup Making
Settling == {"announce", "complete", "ack"}
Cleaning == {"clean", "cleaned"}
Pcs == {"idle", "lock", "reject", "prune", "records", "open", "sweep", "decide", "marking",
        "commit", "unnotice", "drop"} \cup ClaimPcs \cup Settling \cup Cleaning
Kinds == {"none", "claim", "activate", "rejected", "start", "boot", "revoke"}
CleanUps == SUBSET (Invites \X Devices)
Drops == SUBSET Devices
Todos == CleanUps \cup Drops
HandlerRecords ==
    [pc : Pcs, kind : Kinds, q : Requests \cup {Nobody}, i : Invites \cup {Nobody},
     d : 0 .. MaxDevices, todo : Todos,
     item : (Invites \X Devices) \cup {<<>>}, remote : BOOLEAN, failed : BOOLEAN]
PcFits(r) ==
    /\ r.kind = "none" <=> r.pc = "idle"
    /\ r.kind = "claim" => r.pc \in {"lock", "reject"} \cup ClaimPcs \cup Cleaning
    /\ r.kind = "activate" => r.pc \in {"lock", "reject", "decide", "marking", "commit",
                                        "unnotice", "drop"} \cup Settling \cup Cleaning
    /\ r.kind = "rejected" => r.pc \in {"reject"} \cup Cleaning
    /\ r.kind = "start" => r.pc \in {"prune", "records", "open"} \cup Cleaning
    /\ r.kind = "boot" => r.pc \in {"prune", "records", "sweep"} \cup Cleaning
    /\ r.kind = "revoke" => r.pc = "drop"
Shape(r, c) ==
    /\ r \in HandlerRecords /\ PcFits(r)
    /\ r.kind \in {"claim", "activate", "rejected"} => r.q \in Requests /\ r.i = PairOf[r.q]
    /\ r.kind = "start" => r.i \in Invites
    /\ r.kind \in {"activate", "rejected"} \/ r.pc \in Making \cup {"unmark", "reply"}
          => r.d \in 1 .. c
    /\ r.pc \in Cleaning => r.todo \in SUBSET (Invites \X (1 .. c))
    /\ r.pc = "cleaned" => r.item \in Invites \X (1 .. c)
    /\ r.pc = "drop" => r.todo \in SUBSET (1 .. c)
HandlersGood ==
    /\ handler \in [Handlers -> HandlerRecords]
    /\ \A h \in Handlers : Shape(handler[h], created)
    /\ lock \in Handlers \cup {Nobody}
    /\ \A h \in Handlers : Locked(h) <=> lock = h
    /\ up = "down" => \A h \in Handlers : At(h) = "idle"

BudgetRecords ==
    [crashes : Nat, faults : Nat, drops : Nat, revokes : Nat, pushes : Nat,
     invites : SUBSET Invites, requests : SUBSET Requests, remote : SUBSET BOOLEAN]
Counters == {"crashes", "faults", "drops", "revokes", "pushes"}
StoresGood ==
    /\ budget \in BudgetRecords
    /\ files \subseteq Invites /\ markers \subseteq Invites /\ lapsed \subseteq Invites
    /\ (secrets \cup tombs \cup notices \cup push \cup pushing) \subseteq 1 .. created
    /\ phone \in [Requests -> [device : 0 .. created, done : BOOLEAN]]
    /\ up \in {"down", "boot", "up"}

(* The registry: a claim and its device belong together.                   *)
Refused == {"expired", "superseded"}
Registry(C, D, c) ==
    /\ C \in [Invites -> Claims \cup {NoClaim}]
    /\ D \in [Devices -> DeviceRows \cup {NoDevice}]
    /\ c \in 0 .. MaxDevices
    /\ \A d \in Devices : D[d] # NoDevice => d <= c
    /\ \A i \in Invites : C[i] # NoClaim =>
         /\ D[C[i].device] # NoDevice
         /\ D[C[i].device].request = C[i].request /\ PairOf[C[i].request] = i
         /\ D[C[i].device].state = C[i].state
         /\ C[i].cleaned => C[i].state \in Refused
    /\ \A d \in Devices : D[d] # NoDevice =>
         /\ D[d].state # "active" =>
               LET i == PairOf[D[d].request] IN C[i] # NoClaim /\ C[i].device = d
         /\ D[d].by # 0 =>
               /\ D[d].by > d /\ D[d].by <= c /\ D[d].revoked
               /\ D[d].state \in {"active", "superseded"}
               /\ D[D[d].by] # NoDevice => D[D[d].by].state # "pending"

UsableFor(d, i) == Usable(d) /\ PairOf[device[d].request] = i
OneUsable == \A d, e \in Devices, i \in Invites : UsableFor(d, i) /\ UsableFor(e, i) => d = e

(* Invitations: before they are opened, and after they were used.          *)
Starting(h, i) == handler[h].kind = "start" /\ handler[h].i = i
Fresh(i) == i \in budget.invites \/ \E h \in Handlers : Starting(h, i)
Given(i) == \E q \in Requests : PairOf[q] = i /\ phone[q].device # 0
Taken(i) == \/ claim[i] # NoClaim \/ Given(i)
            \/ \E d \in Devices : UsableFor(d, i)
Closed(i) == (i \in files => i \in markers) /\ ~Fresh(i)
InvitesGood ==
    /\ \A g, h \in Handlers, i \in Invites : Starting(g, i) /\ Starting(h, i) => g = h
    /\ \A h \in Handlers, i \in budget.invites : ~Starting(h, i)
    /\ \A i \in files : ~Fresh(i)
    /\ \A i \in Invites : Taken(i) => Closed(i)

(* Phones have what their claim says.                                      *)
PhonesGood ==
    /\ \A q, r \in Requests :
         PairOf[q] = PairOf[r] /\ phone[q].device # 0 /\ phone[r].device # 0 => q = r
    /\ \A q \in Requests : phone[q].device # 0 /\ claim[PairOf[q]] # NoClaim =>
         claim[PairOf[q]].request = q /\ claim[PairOf[q]].device = phone[q].device
    /\ \A h \in Handlers : handler[h].kind = "activate" =>
         phone[handler[h].q].device = handler[h].d

(* Under the lock.                                                         *)
ItsClaim(r) == claim[r.i] # NoClaim => claim[r.i].device = r.d /\ claim[r.i].request = r.q
ClaimingGood(r) ==
    /\ r.pc = "marker" => r.i \in files
    /\ r.pc = "create" => r.i \in files /\ r.i \in markers /\ ~Taken(r.i)
    /\ r.pc \in Making => r.i \in markers
    /\ r.pc = "unmark" => r.i \notin files
    /\ r.pc \in Making \cup {"unmark"} =>
         /\ ~Fresh(r.i) /\ ItsClaim(r) /\ ~Given(r.i)
         /\ \A e \in Devices : UsableFor(e, r.i) => e = r.d
    /\ r.pc = "store" => HasTicket(r.q)
    /\ r.pc = "reply" =>
         /\ Closed(r.i) /\ ItsClaim(r)
         /\ \A q \in Requests : PairOf[q] = r.i /\ phone[q].device # 0 =>
               q = r.q /\ phone[q].device = r.d
    /\ r.pc = "undoMarker" => ~Taken(r.i)
ActivatingGood(r) ==
    r.pc \in {"marking", "commit"} =>
       /\ Row(r.d) /\ device[r.d].state \in {"pending", "active"}
       /\ device[r.d].state = "pending" =>
            /\ NewerRepairs(r.d) = {} /\ claim[r.i] # NoClaim /\ claim[r.i].device = r.d
LockedGood == \A h \in Handlers : ClaimingGood(handler[h]) /\ ActivatingGood(handler[h])

(* Secrets.                                                                *)
Kept == secrets \ leaked
Ended(d) == \A i \in Invites : claim[i] # NoClaim /\ claim[i].device = d
                                  => claim[i].state \in Refused
SecretsGood ==
    /\ \A d \in Kept : /\ Row(d) /\ HasTicket(device[d].request)
                       /\ device[d].state \in Refused =>
                            ~claim[PairOf[device[d].request]].cleaned
    /\ \A h \in Handlers : At(h) \in Cleaning => \A x \in handler[h].todo : Ended(x[2])
    /\ \A h \in Handlers : At(h) = "cleaned" =>
         Ended(handler[h].item[2]) /\ handler[h].item[2] \notin Kept

(* Push registrations.                                                     *)
Clean(e) == e \notin push /\ (e \in tombs \/ device[e].state # "active")
CleanBut(d, S) == /\ Row(d) => device[d].state # "pending"
                  /\ \A e \in Devices : Row(e) /\ device[e].by = d => e \in S \/ Clean(e)
PushGood ==
    /\ \A d \in push \cup pushing : Row(d) => device[d].state = "active"
    /\ \A h \in Handlers : handler[h].kind = "activate" =>
         /\ At(h) = "drop" => CleanBut(handler[h].d, handler[h].todo)
         /\ At(h) \in Settling => CleanBut(handler[h].d, {})
    /\ \A q \in Requests : phone[q].done => phone[q].device # 0 /\ CleanBut(phone[q].device, {})

PairingInv ==
    /\ StoresGood /\ Registry(claim, device, created) /\ OneUsable /\ OneLiveDevicePerPhone
    /\ HandlersGood /\ InvitesGood /\ PhonesGood /\ LockedGood /\ SecretsGood /\ PushGood
-----------------------------------------------------------------------------
(* A thread's list of what is left to do is one of clean-ups or of drops.  *)
LEMMA WhatIsToDo ==
  /\ \A S \in SUBSET (Invites \X Devices) : S \in Todos
  /\ \A S \in SUBSET Devices : S \in Todos
  /\ {} \in Todos
<1>1. CleanUps \subseteq Todos /\ Drops \subseteq Todos
  BY DEF Todos
<1>2. {} \in Drops
  BY DEF Drops
<1> QED BY <1>1, <1>2 DEF CleanUps, Drops

(* What a bound still allows.                                              *)
LEMMA SpendKeeps ==
  ASSUME budget \in BudgetRecords, NEW what \in Counters, Spend(what)
  PROVE  budget' \in BudgetRecords /\ budget'.invites = budget.invites
BY DEF BudgetRecords, Counters, Spend

(* Which steps touch what: the rest of them leave it alone.                *)
RegistryStep(h) ==
    \/ Prune(h) \/ MarkCleaned(h) \/ CreateDevice(h) \/ UndoDevice(h) \/ Decide(h) \/ Commit(h)
    \/ \E d \in Devices : Revoke(h, d)
FilesStep(h) ==
    PruneRecords(h) \/ OpenInvite(h) \/ CheckInvite(h) \/ CreateMarker(h) \/ DeleteInvite(h)
       \/ DeleteMarker(h) \/ UndoMarker(h)
SecretStep(h) ==
    CleanSecret(h) \/ StoreSecret(h) \/ UndoSecret(h) \/ UndoDevice(h) \/ DropDevice(h) \/ Sweep(h)
WhatBegins(h) ==
    \/ \E q \in Requests : Ask(h, q)
    \/ \E i \in Invites : BeginStart(h, i)
    \/ \E d \in Devices : Revoke(h, d)
    \/ Boot(h)
registry == <<claim, device, created>>
(* What a step of a thread is, to the stores it may touch.                 *)
LEMMA ThreadTouches ==
  ASSUME NEW h \in Handlers, WhatBegins(h) \/ Step(h) \/ Refuse(h) \/ CommitFails(h)
  PROVE  /\ UNCHANGED registry \/ RegistryStep(h)
         /\ UNCHANGED <<files, markers>> \/ FilesStep(h)
         /\ UNCHANGED <<secrets, leaked>> \/ SecretStep(h)
         /\ UNCHANGED <<tombs, push>> \/ DropDevice(h) \/ Sweep(h)
         /\ UNCHANGED notices \/ MarkRemote(h) \/ ClearNotice(h) \/ CompleteNotice(h)
         /\ UNCHANGED <<lapsed, pushing>>
         /\ UNCHANGED phone \/ Reply(h) \/ Acknowledge(h)
         /\ UNCHANGED up \/ Boot(h) \/ Sweep(h)
         /\ \/ UNCHANGED budget \/ \E what \in Counters : Spend(what)
            \/ \E i \in Invites : BeginStart(h, i)
<1> DEFINE rest == <<files, markers, registry, secrets, leaked, tombs, push, pushing, notices,
                      lapsed, phone, up>>
           spends == UNCHANGED budget \/ \E what \in Counters : Spend(what)
<1>1. ASSUME \E q \in Requests : Ask(h, q) PROVE UNCHANGED rest /\ UNCHANGED budget
  BY <1>1 DEF Ask, BeginClaim, BeginActivate, filesVars, registryVars, secretVars, pushVars,
              history, registry
<1>2. ASSUME NEW i \in Invites, BeginStart(h, i) PROVE UNCHANGED rest
  BY <1>2 DEF BeginStart, filesVars, registryVars, secretVars, pushVars, registry
<1>3. ASSUME NEW d \in Devices, Revoke(h, d)
      PROVE  spends
             /\ UNCHANGED <<files, markers, secrets, leaked, tombs, push, pushing, notices, lapsed, phone, up>>
  BY <1>3 DEF Revoke, filesVars, secretVars, pushVars, Counters
<1>4. ASSUME Boot(h) \/ Refuse(h) \/ CommitFails(h) PROVE spends /\ (UNCHANGED rest \/
        (Boot(h) /\ UNCHANGED <<files, markers, registry, secrets, leaked, tombs, push, pushing,
                                notices, lapsed, phone>>))
  BY <1>4 DEF Boot, Refuse, CommitFails, Fault, filesVars, registryVars, secretVars, pushVars,
              registry, Counters
<1>5. ASSUME CleanDone(h) \/ Resume(h) \/ UndoTicket(h) \/ DropDone(h) \/ Announce(h) \/ Reject(h)
      PROVE  spends /\ UNCHANGED rest
  BY <1>5 DEF CleanDone, Resume, UndoTicket, DropDone, Announce, Reject, Fault, filesVars,
              registryVars, secretVars, pushVars, registry, Counters
<1>6. ASSUME MarkRemote(h) \/ ClearNotice(h) \/ CompleteNotice(h)
      PROVE  spends /\ UNCHANGED <<files, markers, registry, secrets, leaked, tombs, push, pushing,
                                   lapsed, phone, up>>
  BY <1>6 DEF MarkRemote, ClearNotice, CompleteNotice, Fault, filesVars,
              registryVars, pushVars, registry, Counters
<1>7. ASSUME Prune(h) \/ MarkCleaned(h) \/ CreateDevice(h) \/ Decide(h) \/ Commit(h)
      PROVE  spends
             /\ UNCHANGED <<files, markers, secrets, leaked, tombs, push, pushing, notices, lapsed, phone, up>>
  BY <1>7 DEF Prune, MarkCleaned, CreateDevice, Decide, Commit, Fault, filesVars, secretVars,
              pushVars, Counters
<1>8. ASSUME UndoDevice(h)
      PROVE  spends
             /\ UNCHANGED <<files, markers, secrets, tombs, push, pushing, notices, lapsed, phone, up>>
  BY <1>8 DEF UndoDevice, Fault, filesVars, pushVars, Counters
<1>9. ASSUME FilesStep(h)
      PROVE  spends
             /\ UNCHANGED <<registry, secrets, leaked, tombs, push, pushing, notices, lapsed, phone, up>>
  BY <1>9 DEF FilesStep, PruneRecords, OpenInvite, CheckInvite, CreateMarker, DeleteInvite,
              DeleteMarker, UndoMarker, Fault, registryVars, secretVars, pushVars, registry, Counters
<1>10. ASSUME CleanSecret(h) \/ StoreSecret(h) \/ UndoSecret(h)
       PROVE  spends
              /\ UNCHANGED <<files, markers, registry, tombs, push, pushing, notices, lapsed, phone, up>>
  BY <1>10 DEF CleanSecret, StoreSecret, UndoSecret, Fault, filesVars, registryVars, pushVars,
               registry, Counters
<1>11. ASSUME DropDevice(h)
       PROVE  spends /\ UNCHANGED <<files, markers, registry, pushing, notices, lapsed, phone, up>>
  BY <1>11 DEF DropDevice, Fault, filesVars, registryVars, registry, Counters
<1>12. ASSUME Sweep(h)
       PROVE  spends /\ UNCHANGED <<files, markers, registry, pushing, notices, lapsed, phone>>
  BY <1>12 DEF Sweep, Fault, filesVars, registryVars, registry, Counters
<1>13. ASSUME Reply(h) \/ Acknowledge(h)
       PROVE  spends
              /\ UNCHANGED <<files, markers, registry, secrets, leaked, tombs, push, pushing, notices, lapsed, up>>
  BY <1>13 DEF Reply, Acknowledge, filesVars, registryVars, secretVars, pushVars, registry, Counters
<1> HIDE DEF spends
<1>14. CASE WhatBegins(h)
  BY <1>1, <1>2, <1>3, <1>4, <1>14 DEF WhatBegins, RegistryStep, spends
<1>15. CASE Refuse(h) \/ CommitFails(h)
  BY <1>4, <1>15 DEF spends, Boot
<1>16. CASE CleanStep(h)
  BY <1>5, <1>7, <1>9, <1>10, <1>12, <1>16 DEF CleanStep, RegistryStep, FilesStep, SecretStep, spends
<1>17. CASE ClaimStep(h)
  BY <1>5, <1>7, <1>8, <1>9, <1>10, <1>13, <1>17
     DEF ClaimStep, RegistryStep, FilesStep, SecretStep, spends
<1>18. CASE ActivateStep(h) \/ Reject(h)
  BY <1>5, <1>6, <1>7, <1>11, <1>13, <1>18
     DEF ActivateStep, RegistryStep, FilesStep, SecretStep, spends
<1> QED BY <1>14, <1>15, <1>16, <1>17, <1>18 DEF Step
-----------------------------------------------------------------------------
(* The request threads.                                                    *)
LockedRec(r) == /\ r.kind \in {"claim", "activate", "rejected"}
                /\ r.pc \notin {"lock", "unnotice", "drop", "announce", "complete", "ack"}

(* Types of a thread stay true as devices are added.                       *)
LEMMA ShapeLasts ==
  ASSUME NEW c \in Nat, NEW k \in Nat, c <= k, NEW r, Shape(r, c)
  PROVE  Shape(r, k)
BY DEF Shape

(* Only the place of a thread changes: its record stays well-shaped.       *)
LEMMA GotoGood ==
  ASSUME NEW c, NEW r, Shape(r, c), NEW p \in Pcs, PcFits([r EXCEPT !.pc = p]),
         p \in Making \cup {"unmark", "reply"} => r.d \in 1 .. c,
         p \in Cleaning => r.todo \in SUBSET (Invites \X (1 .. c)),
         p \notin {"cleaned", "drop"}
  PROVE  Shape([r EXCEPT !.pc = p], c)
<1>1. r \in HandlerRecords
  BY DEF Shape
<1> DEFINE n == [r EXCEPT !.pc = p]
<1>2. /\ n \in HandlerRecords /\ n.pc = p
      /\ n.kind = r.kind /\ n.q = r.q /\ n.i = r.i /\ n.d = r.d /\ n.todo = r.todo /\ n.item = r.item
  BY <1>1 DEF HandlerRecords
<1> HIDE DEF n
<1>3. PcFits(n)
  BY DEF n
<1> QED BY <1>2, <1>3 DEF Shape, n

(* One thread moves.                                                       *)
Becomes(h, n) == handler' = [handler EXCEPT ![h] = n]
(* A step that moves one thread to a well-shaped record keeps them all.    *)
LEMMA ThreadMoves ==
  ASSUME HandlersGood, created \in Nat, created' \in Nat, created <= created',
         NEW h \in Handlers, NEW n, Becomes(h, n), Shape(n, created'),
         up' # "down",
         \/ lock' = lock /\ (LockedRec(n) <=> Locked(h))
         \/ lock' = Nobody /\ Locked(h) /\ ~LockedRec(n)
         \/ lock = Nobody /\ lock' = h /\ LockedRec(n)
  PROVE  HandlersGood'
<1>1. n \in HandlerRecords
  BY DEF Shape
<1>2. handler' \in [Handlers -> HandlerRecords] /\ handler'[h] = n
      /\ \A g \in Handlers \ {h} : handler'[g] = handler[g]
  BY <1>1 DEF HandlersGood, Becomes
<1>3. ASSUME NEW g \in Handlers PROVE Shape(handler'[g], created')
  BY <1>2, <1>3, ShapeLasts DEF HandlersGood
<1>4. ASSUME NEW g \in Handlers PROVE Locked(g)' <=> LockedRec(handler'[g])
  BY DEF Locked, LockedRec, At
<1>5. ASSUME NEW g \in Handlers PROVE Locked(g) <=> LockedRec(handler[g])
  BY DEF Locked, LockedRec, At
<1>6. Nobody \notin Handlers /\ lock \in Handlers \cup {Nobody} /\ \A g \in Handlers : Locked(g) <=> lock = g
  BY PairingAssumption DEF PairingAssumption, HandlersGood
<1>7. ASSUME NEW g \in Handlers PROVE Locked(g)' <=> lock' = g
  BY <1>2, <1>4, <1>5, <1>6
<1>8. lock' \in Handlers \cup {Nobody}
  BY <1>6
<1> QED BY <1>2, <1>3, <1>7, <1>8 DEF HandlersGood

(* What a thread is at tells what it does.                                 *)
LEMMA KindAt ==
  ASSUME HandlersGood, NEW h \in Handlers
  PROVE  /\ handler[h] \in HandlerRecords /\ At(h) \in Pcs
         /\ At(h) = "idle" <=> handler[h].kind = "none"
         /\ At(h) = "lock" => handler[h].kind \in {"claim", "activate"}
         /\ At(h) \in ClaimPcs => handler[h].kind = "claim"
         /\ At(h) \in {"decide", "marking", "commit", "unnotice"} \cup Settling =>
              handler[h].kind = "activate"
         /\ At(h) = "reject" => handler[h].kind \in {"claim", "activate", "rejected"}
         /\ At(h) = "drop" => handler[h].kind \in {"activate", "revoke"}
         /\ At(h) \in {"prune", "records"} => handler[h].kind \in {"start", "boot"}
         /\ At(h) = "open" => handler[h].kind = "start"
         /\ At(h) = "sweep" => handler[h].kind = "boot"
         /\ At(h) \in Cleaning =>
              handler[h].kind \in {"claim", "activate", "rejected", "start", "boot"}
<1>1. handler[h] \in HandlerRecords /\ PcFits(handler[h])
  BY DEF HandlersGood, Shape
<1>2. handler[h].kind \in Kinds /\ handler[h].pc \in Pcs
  BY <1>1 DEF HandlerRecords
<1> QED BY <1>1, <1>2 DEF PcFits, At, Kinds, ClaimPcs, Making, Settling, Cleaning

(* A step that is a Goto keeps every thread well-shaped.                   *)
LEMMA GotoStep ==
  ASSUME HandlersGood, created \in Nat, created' = created, NEW h \in Handlers,
         NEW p \in Pcs \ {"cleaned", "drop"}, Goto(h, p), PcFits([handler[h] EXCEPT !.pc = p]),
         p \in Making \cup {"unmark", "reply"} => handler[h].d \in 1 .. created,
         p \in Cleaning => handler[h].todo \in SUBSET (Invites \X (1 .. created)),
         up' # "down",
         \/ lock' = lock /\ (LockedRec([handler[h] EXCEPT !.pc = p]) <=> Locked(h))
         \/ lock' = Nobody /\ Locked(h) /\ ~LockedRec([handler[h] EXCEPT !.pc = p])
  PROVE  HandlersGood'
<1> DEFINE n == [handler[h] EXCEPT !.pc = p]
<1>1. Becomes(h, n)
  BY DEF Goto, Becomes
<1>2. Shape(n, created')
  BY GotoGood DEF HandlersGood
<1>3. \/ lock' = lock /\ (LockedRec(n) <=> Locked(h))
      \/ lock' = Nobody /\ Locked(h) /\ ~LockedRec(n)
  OBVIOUS
<1>4. created <= created' /\ created' \in Nat
  OBVIOUS
<1> HIDE DEF n
<1> QED BY <1>1, <1>2, <1>3, <1>4, ThreadMoves

(* A thread at rest.                                                       *)
LEMMA IdleIsGood == \A c : Shape(Idle, c) /\ ~LockedRec(Idle)
<1>1. Idle \in HandlerRecords
  BY WhatIsToDo, PairingAssumption DEF PairingAssumption, Idle, HandlerRecords, Pcs, Kinds
<1> QED BY <1>1 DEF Idle, Shape, PcFits, LockedRec, Making, Cleaning, ClaimPcs
LEMMA FinishStep ==
  ASSUME HandlersGood, created \in Nat, created' = created, NEW h \in Handlers, Finish(h),
         up' # "down", \/ lock' = lock /\ ~Locked(h)
                       \/ lock' = Nobody /\ Locked(h)
  PROVE  HandlersGood'
<1>1. Shape(Idle, created') /\ ~LockedRec(Idle) /\ Becomes(h, Idle)
  BY IdleIsGood DEF Finish, Becomes
<1>2. created <= created' /\ created' \in Nat
  OBVIOUS
<1> QED BY <1>1, <1>2, ThreadMoves

(* The counter of devices; a thread at work runs in a daemon that is up.   *)
LEMMA Counted ==
  ASSUME PairingInv
  PROVE  /\ created \in Nat /\ created <= MaxDevices /\ MaxDevices \in Nat
         /\ created \in 0 .. MaxDevices /\ HandlersGood
         /\ \A h \in Handlers : At(h) # "idle" => up # "down"
BY PairingAssumption DEF PairingAssumption, PairingInv, Registry, HandlersGood

(* A thread of a claim goes on.                                            *)
LEMMA ClaimGoesOn ==
  ASSUME PairingInv, NEW h \in Handlers,
         At(h) \in ClaimPcs,
         NEW p \in ClaimPcs \cup {"reject"}, Goto(h, p),
         p \in Making \cup {"unmark", "reply"} => At(h) \in Making \cup {"unmark"},
         UNCHANGED <<created, lock, up>>
  PROVE  HandlersGood'
<1>1. /\ created \in Nat /\ HandlersGood /\ up' # "down" /\ handler[h].kind = "claim"
      /\ handler[h] \in HandlerRecords
  BY Counted, KindAt DEF ClaimPcs, Making
<1>2. p \in Pcs \ {"cleaned", "drop"} /\ p \notin Cleaning
  BY DEF Pcs, ClaimPcs, Cleaning, Making
<1>3. PcFits([handler[h] EXCEPT !.pc = p])
  BY <1>1 DEF PcFits, HandlerRecords, ClaimPcs, Making
<1>4. LockedRec([handler[h] EXCEPT !.pc = p]) /\ Locked(h)
  BY <1>1 DEF LockedRec, HandlerRecords, Locked, ClaimPcs, Making
<1>5. p \in Making \cup {"unmark", "reply"} => handler[h].d \in 1 .. created
  BY <1>1 DEF HandlersGood, Shape, At
<1> QED BY <1>1, <1>2, <1>3, <1>4, <1>5, GotoStep

(* The steps of a claim that only go on.                                   *)
LEMMA ClaimKeepsThreads ==
  ASSUME PairingInv, NEW h \in Handlers,
         CheckInvite(h) \/ CreateMarker(h) \/ StoreSecret(h) \/ DeleteInvite(h) \/ DeleteMarker(h)
           \/ UndoMarker(h) \/ UndoTicket(h) \/ UndoDevice(h)
  PROVE  HandlersGood'
<1>1. CASE CheckInvite(h)
  <2>1. At(h) = "check" /\ (Goto(h, "reject") \/ Goto(h, "marker"))
        /\ UNCHANGED <<created, lock, up>>
    BY <1>1 DEF CheckInvite, registryVars
  <2> QED BY <2>1, ClaimGoesOn DEF ClaimPcs, Making
<1>2. CASE CreateMarker(h)
  <2>1. At(h) = "marker" /\ (Goto(h, "create") \/ Goto(h, "undoTicket"))
        /\ UNCHANGED <<created, lock, up>>
    BY <1>2 DEF CreateMarker, registryVars
  <2> QED BY <2>1, ClaimGoesOn DEF ClaimPcs, Making
<1>3. CASE StoreSecret(h)
  <2>1. At(h) = "store" /\ (Goto(h, "unlink") \/ Goto(h, "undoSecret"))
        /\ UNCHANGED <<created, lock, up>>
    BY <1>3 DEF StoreSecret, registryVars
  <2> QED BY <2>1, ClaimGoesOn DEF ClaimPcs, Making
<1>4. CASE DeleteInvite(h)
  <2>1. At(h) = "unlink" /\ (Goto(h, "unmark") \/ Goto(h, "undoSecret") \/ Goto(h, "undoDevice"))
        /\ UNCHANGED <<created, lock, up>>
    BY <1>4 DEF DeleteInvite, registryVars
  <2> QED BY <2>1, ClaimGoesOn DEF ClaimPcs, Making
<1>5. CASE DeleteMarker(h)
  <2>1. At(h) = "unmark" /\ Goto(h, "reply") /\ UNCHANGED <<created, lock, up>>
    BY <1>5 DEF DeleteMarker, registryVars
  <2> QED BY <2>1, ClaimGoesOn DEF ClaimPcs, Making
<1>6. CASE UndoMarker(h) \/ UndoTicket(h)
  <2>1. At(h) \in {"undoMarker", "undoTicket"} /\ Goto(h, "reject")
        /\ UNCHANGED <<created, lock, up>>
    BY <1>6 DEF UndoMarker, UndoTicket, registryVars
  <2> QED BY <2>1, ClaimGoesOn DEF ClaimPcs, Making
<1>7. CASE UndoDevice(h)
  <2>1. At(h) = "undoDevice" /\ (Goto(h, "reject") \/ Goto(h, "undoMarker"))
        /\ UNCHANGED <<created, lock, up>>
    BY <1>7 DEF UndoDevice
  <2> QED BY <2>1, ClaimGoesOn DEF ClaimPcs, Making
<1> QED BY <1>1, <1>2, <1>3, <1>4, <1>5, <1>6, <1>7

LEMMA UndoSecretKeepsThreads ==
  ASSUME PairingInv, NEW h \in Handlers, UndoSecret(h) PROVE HandlersGood'
<1>1. At(h) = "undoSecret" /\ UNCHANGED <<created, lock, up>>
  BY DEF UndoSecret, registryVars
<1>2. CASE Goto(h, "undoDevice")
  BY <1>1, <1>2, ClaimGoesOn DEF ClaimPcs, Making
<1>3. CASE handler' = [handler EXCEPT ![h].pc = "undoDevice", ![h].failed = TRUE]
  <2> DEFINE n == [handler[h] EXCEPT !.pc = "undoDevice", !.failed = TRUE]
  <2>1. Becomes(h, n)
    BY <1>3 DEF Becomes
  <2>2. /\ created \in Nat /\ created' \in Nat /\ created <= created' /\ HandlersGood
        /\ up' # "down" /\ handler[h].kind = "claim" /\ handler[h] \in HandlerRecords
    BY <1>1, Counted, KindAt DEF ClaimPcs, Making
  <2>3. /\ n \in HandlerRecords /\ n.pc = "undoDevice" /\ n.kind = "claim"
        /\ n.q = handler[h].q /\ n.i = handler[h].i /\ n.d = handler[h].d
    <3>1. "undoDevice" \in Pcs
      BY DEF Pcs, ClaimPcs, Making
    <3> QED BY <2>2, <3>1 DEF HandlerRecords
  <2>4. handler[h].d \in 1 .. created /\ handler[h].q \in Requests /\ handler[h].i = PairOf[handler[h].q]
    BY <1>1, <2>2 DEF HandlersGood, Shape, At, Making
  <2> HIDE DEF n
  <2>5. Shape(n, created')
    BY <1>1, <2>3, <2>4 DEF Shape, PcFits, ClaimPcs, Making, Cleaning
  <2>6. LockedRec(n) /\ Locked(h)
    BY <1>1, <2>2, <2>3 DEF LockedRec, Locked
  <2> QED BY <1>1, <2>1, <2>2, <2>5, <2>6, ThreadMoves
<1> QED BY <1>2, <1>3 DEF UndoSecret

LEMMA ResumeKeepsThreads ==
  ASSUME PairingInv, NEW h \in Handlers, Resume(h) PROVE HandlersGood'
<1> DEFINE r == handler[h]
           c == claim[r.i]
           pc == IF c = NoClaim THEN "check" ELSE IF Saved(h) THEN "reply" ELSE "reject"
           d == IF c # NoClaim THEN c.device ELSE 0
           n == [r EXCEPT !.pc = pc, !.d = d]
<1>1. At(h) = "resume" /\ Becomes(h, n) /\ UNCHANGED <<created, lock, up>>
  BY DEF Resume, Becomes, registryVars
<1>2. /\ created \in Nat /\ created' \in Nat /\ created <= created' /\ HandlersGood
      /\ up' # "down" /\ r.kind = "claim" /\ r \in HandlerRecords /\ MaxDevices \in Nat
      /\ created \in 0 .. MaxDevices
  BY <1>1, Counted, KindAt DEF ClaimPcs, Making
<1>3. r.q \in Requests /\ r.i = PairOf[r.q] /\ r.i \in Invites
  BY <1>2, PairingAssumption DEF PairingAssumption, HandlersGood, Shape
<1>4. c # NoClaim => c.device \in 1 .. created
  BY <1>3, <1>2 DEF PairingInv, Registry, Claims, Devices
<1>5. d \in 0 .. MaxDevices /\ (pc = "reply" => d \in 1 .. created)
  BY <1>2, <1>4
<1>6. pc \in Pcs /\ pc \in {"check", "reply", "reject"}
  BY DEF Pcs, ClaimPcs
<1> HIDE DEF c, pc, d
<1>7. /\ n \in HandlerRecords /\ n.pc = pc /\ n.kind = "claim" /\ n.q = r.q /\ n.i = r.i /\ n.d = d
  BY <1>2, <1>5, <1>6 DEF HandlerRecords
<1> HIDE DEF n
<1>8. Shape(n, created')
  BY <1>1, <1>3, <1>5, <1>6, <1>7 DEF Shape, PcFits, ClaimPcs, Making, Cleaning
<1>9. LockedRec(n) /\ Locked(h)
  BY <1>1, <1>2, <1>6, <1>7 DEF LockedRec, Locked
<1> QED BY <1>1, <1>2, <1>8, <1>9, ThreadMoves

LEMMA CreateKeepsThreads ==
  ASSUME PairingInv, NEW h \in Handlers, CreateDevice(h) PROVE HandlersGood'
<1>1. At(h) = "create" /\ UNCHANGED <<lock, up>>
  BY DEF CreateDevice
<1>2. CASE Goto(h, "undoMarker") /\ UNCHANGED created
  BY <1>1, <1>2, ClaimGoesOn DEF ClaimPcs, Making
<1>3. CASE /\ created < MaxDevices /\ created' = created + 1
           /\ handler' = [handler EXCEPT ![h].d = created + 1,
                            ![h].pc = IF HasTicket(handler[h].q) THEN "store" ELSE "unlink"]
  <2> DEFINE r == handler[h]
             pc == IF HasTicket(handler[h].q) THEN "store" ELSE "unlink"
             n == [r EXCEPT !.d = created + 1, !.pc = pc]
  <2>1. Becomes(h, n)
    BY <1>3 DEF Becomes
  <2>2. /\ created \in Nat /\ created' \in Nat /\ created <= created' /\ HandlersGood
        /\ up' # "down" /\ r.kind = "claim" /\ r \in HandlerRecords /\ MaxDevices \in Nat
        /\ created + 1 \in 0 .. MaxDevices /\ created + 1 \in 1 .. created'
    BY <1>1, <1>3, Counted, KindAt DEF ClaimPcs, Making
  <2>3. r.q \in Requests /\ r.i = PairOf[r.q]
    BY <2>2 DEF HandlersGood, Shape
  <2>4. pc \in Pcs /\ pc \in {"store", "unlink"}
    BY DEF Pcs, ClaimPcs, Making
  <2> HIDE DEF pc
  <2>5. /\ n \in HandlerRecords /\ n.pc = pc /\ n.kind = "claim" /\ n.q = r.q /\ n.i = r.i
        /\ n.d = created + 1
    BY <2>2, <2>4 DEF HandlerRecords
  <2> HIDE DEF n
  <2>6. Shape(n, created')
    BY <2>2, <2>3, <2>4, <2>5 DEF Shape, PcFits, ClaimPcs, Making, Cleaning
  <2>7. LockedRec(n) /\ Locked(h)
    BY <1>1, <2>2, <2>4, <2>5 DEF LockedRec, Locked
  <2> QED BY <1>1, <2>1, <2>2, <2>6, <2>7, ThreadMoves
<1> QED BY <1>2, <1>3 DEF CreateDevice, registryVars

(* A request ends.                                                         *)
LEMMA EndKeepsThreads ==
  ASSUME PairingInv, NEW h \in Handlers, Reply(h) \/ Reject(h) PROVE HandlersGood'
<1>1. /\ At(h) \in {"reply", "reject"} /\ Finish(h) /\ lock' = Nobody /\ UNCHANGED <<created, up>>
  BY DEF Reply, Reject, Unlock, registryVars
<1>2. created \in Nat /\ HandlersGood /\ up' # "down"
  BY <1>1, Counted
<1>3. handler[h].kind \in {"claim", "activate", "rejected"}
  BY <1>1, <1>2, KindAt DEF ClaimPcs
<1>4. Locked(h)
  BY <1>1, <1>3 DEF Locked
<1> QED BY <1>1, <1>2, <1>4, FinishStep

LEMMA RefuseKeepsThreads ==
  ASSUME PairingInv, NEW h \in Handlers, Refuse(h) PROVE HandlersGood'
<1>1. At(h) \in {"resume", "check", "decide"} /\ Goto(h, "reject")
      /\ UNCHANGED <<created, lock, up>>
  BY DEF Refuse, registryVars
<1>2. /\ created \in Nat /\ HandlersGood /\ up' # "down" /\ handler[h] \in HandlerRecords
      /\ handler[h].kind \in {"claim", "activate"}
  BY <1>1, Counted, KindAt DEF ClaimPcs
<1>3. PcFits([handler[h] EXCEPT !.pc = "reject"])
  BY <1>2 DEF PcFits, HandlerRecords
<1>4. LockedRec([handler[h] EXCEPT !.pc = "reject"]) /\ Locked(h)
  BY <1>1, <1>2 DEF LockedRec, HandlerRecords, Locked
<1>5. "reject" \in Pcs \ {"cleaned", "drop"} /\ "reject" \notin Making \cup {"unmark", "reply"} \cup Cleaning
  BY DEF Pcs, Making, Cleaning
<1> QED BY <1>1, <1>2, <1>3, <1>4, <1>5, GotoStep

(* What a clean-up finds to delete.                                        *)
Items == {Item(i) : i \in Outstanding \cup {j \in Expiring : HasTicket(claim[j].request)}}
(* What prune_pending_claims lists for cleaning are claims.                *)
LEMMA ItemsAreClaims ==
  /\ \A i \in Outstanding \cup Expiring : i \in Invites /\ claim[i] # NoClaim
  /\ PairingInv => Items \in SUBSET (Invites \X (1 .. created))
<1>1. \A i \in Outstanding \cup Expiring : i \in Invites /\ claim[i] # NoClaim
  BY DEF Outstanding, Rejected, Expiring, ClaimsIn
<1>2. ASSUME PairingInv, NEW i \in Outstanding \cup Expiring
      PROVE  Item(i) \in Invites \X (1 .. created)
  <2>1. claim[i].device \in 1 .. created
    BY <1>1, <1>2, Counted DEF PairingInv, Registry, Claims, Devices
  <2> QED BY <1>1, <2>1 DEF Item
<1> QED BY <1>1, <1>2 DEF Items

LEMMA PruneKeepsThreads ==
  ASSUME PairingInv, NEW h \in Handlers, Prune(h) PROVE HandlersGood'
<1> DEFINE r == handler[h]
           pc == IF Items = {} THEN Cleaned(h) ELSE "clean"
           n == [r EXCEPT !.todo = Items, !.pc = pc]
<1>1. Becomes(h, n) /\ UNCHANGED <<created, up>>
  BY DEF Prune, Becomes, Items
<1>2. \/ At(h) = "prune" /\ UNCHANGED lock
      \/ At(h) = "lock" /\ lock = Nobody /\ lock' = h
  BY DEF Prune, Lock
<1>3. /\ created \in Nat /\ created' \in Nat /\ created <= created' /\ HandlersGood
      /\ up' # "down" /\ r \in HandlerRecords /\ created \in 0 .. MaxDevices
      /\ At(h) = "prune" => r.kind \in {"start", "boot"}
      /\ At(h) = "lock" => r.kind \in {"claim", "activate"}
  BY <1>1, <1>2, Counted, KindAt
<1>4. /\ Cleaned(h) = IF r.kind = "claim" THEN "resume" ELSE IF r.kind = "activate" THEN "decide"
                      ELSE "records"
      /\ pc \in Pcs /\ pc \in {"clean", "resume", "decide", "records"}
  BY <1>2, <1>3 DEF Cleaned, AfterCleaning, Pcs, ClaimPcs, Cleaning
<1>5. Items \in SUBSET (Invites \X (1 .. created)) /\ Items \in SUBSET (Invites \X Devices)
  <2>1. Items \in SUBSET (Invites \X (1 .. created))
    BY ItemsAreClaims
  <2>2. 1 .. created \subseteq Devices
    BY <1>3, Counted DEF Devices
  <2> QED BY <2>1, <2>2
<1>6. Shape(r, created)
  BY <1>3 DEF HandlersGood
<1>7. r.kind \in {"claim", "activate"} => pc \in {"clean", "resume", "decide"}
  BY <1>4
<1>8. /\ r.kind = "claim" => pc \in {"clean", "resume"}
      /\ r.kind = "activate" => pc \in {"clean", "decide"}
      /\ r.kind \in {"start", "boot"} => pc \in {"clean", "records"}
  BY <1>4
<1> HIDE DEF pc
<1>9. /\ n \in HandlerRecords /\ n.pc = pc /\ n.kind = r.kind /\ n.q = r.q /\ n.i = r.i /\ n.d = r.d
      /\ n.todo = Items
  BY WhatIsToDo, <1>3, <1>4, <1>5 DEF HandlerRecords
<1> HIDE DEF n
<1>10. PcFits(n)
  BY <1>2, <1>3, <1>8, <1>9 DEF PcFits, ClaimPcs, Making, Cleaning
<1>11. Shape(n, created')
  BY <1>1, <1>2, <1>3, <1>4, <1>5, <1>6, <1>9, <1>10 DEF Shape, ClaimPcs, Making, Cleaning, At
<1>12. /\ At(h) = "prune" => ~LockedRec(n) /\ ~Locked(h)
       /\ At(h) = "lock" => LockedRec(n)
  BY <1>2, <1>3, <1>4, <1>9 DEF LockedRec, Locked
<1> QED BY <1>1, <1>2, <1>3, <1>11, <1>12, ThreadMoves

LEMMA CleanKeepsThreads ==
  ASSUME PairingInv, NEW h \in Handlers, CleanSecret(h) \/ MarkCleaned(h) PROVE HandlersGood'
<1> DEFINE r == handler[h]
<1>1. At(h) \in Cleaning /\ UNCHANGED <<created, lock, up>>
  BY DEF CleanSecret, MarkCleaned, Cleaning, registryVars
<1>2. /\ created \in Nat /\ created' \in Nat /\ created <= created' /\ HandlersGood
      /\ up' # "down" /\ r \in HandlerRecords /\ Shape(r, created) /\ PcFits(r)
      /\ r.kind \in {"claim", "activate", "rejected", "start", "boot"}
  BY <1>1, Counted, KindAt DEF Cleaning, HandlersGood, Shape
<1>3. r.todo \in SUBSET (Invites \X (1 .. created))
  BY <1>1, <1>2 DEF Shape, At
<1>4. SUFFICES ASSUME NEW n \in HandlerRecords, Becomes(h, n), n.pc \in Cleaning,
                      n.kind = r.kind, n.q = r.q, n.i = r.i, n.d = r.d,
                      n.todo \in SUBSET (Invites \X (1 .. created)),
                      n.pc = "cleaned" => n.item \in Invites \X (1 .. created)
               PROVE  HandlersGood'
  <2>1. Cleaning \subseteq Pcs /\ SUBSET (Invites \X (1 .. created)) \subseteq SUBSET (Invites \X Devices)
    BY Counted DEF Pcs, Devices
  <2>2. CASE CleanSecret(h)
    <3>1. PICK item \in r.todo :
            \/ handler' = [handler EXCEPT ![h].pc = "cleaned", ![h].item = item, ![h].todo = @ \ {item}]
            \/ handler' = [handler EXCEPT ![h].todo = @ \ {item}] /\ At(h) = "clean"
      BY <2>2 DEF CleanSecret
    <3>2. item \in Invites \X (1 .. created) /\ item \in Invites \X Devices
          /\ r.todo \ {item} \in SUBSET (Invites \X (1 .. created))
      BY <1>3, <2>1
    <3>3. CASE handler' = [handler EXCEPT ![h].pc = "cleaned", ![h].item = item, ![h].todo = @ \ {item}]
      <4> DEFINE n == [r EXCEPT !.pc = "cleaned", !.item = item, !.todo = r.todo \ {item}]
      <4>1. Becomes(h, n)
        BY <3>3 DEF Becomes
      <4>2. /\ n \in HandlerRecords /\ n.pc = "cleaned" /\ n.kind = r.kind /\ n.q = r.q /\ n.i = r.i
            /\ n.d = r.d /\ n.todo = r.todo \ {item} /\ n.item = item
        BY WhatIsToDo, <1>2, <2>1, <3>2 DEF HandlerRecords, Cleaning
      <4> HIDE DEF n
      <4> QED BY <1>4, <3>2, <4>1, <4>2 DEF Cleaning
    <3>4. CASE handler' = [handler EXCEPT ![h].todo = @ \ {item}] /\ At(h) = "clean"
      <4> DEFINE n == [r EXCEPT !.todo = r.todo \ {item}]
      <4>1. Becomes(h, n)
        BY <3>4 DEF Becomes
      <4>2. /\ n \in HandlerRecords /\ n.pc = "clean" /\ n.kind = r.kind /\ n.q = r.q /\ n.i = r.i
            /\ n.d = r.d /\ n.todo = r.todo \ {item}
        BY WhatIsToDo, <1>2, <2>1, <3>2, <3>4 DEF HandlerRecords, At
      <4> HIDE DEF n
      <4> QED BY <1>4, <3>2, <4>1, <4>2 DEF Cleaning
    <3> QED BY <3>1, <3>3, <3>4
  <2>3. CASE MarkCleaned(h)
    <3> DEFINE n == [r EXCEPT !.pc = "clean", !.item = <<>>]
    <3>1. Becomes(h, n)
      BY <2>3 DEF MarkCleaned, Becomes
    <3>2. /\ n \in HandlerRecords /\ n.pc = "clean" /\ n.kind = r.kind /\ n.q = r.q /\ n.i = r.i
          /\ n.d = r.d /\ n.todo = r.todo
      BY <1>2, <2>1 DEF HandlerRecords, Cleaning
    <3> HIDE DEF n
    <3> QED BY <1>3, <1>4, <3>1, <3>2 DEF Cleaning
  <2> QED BY <2>2, <2>3
<1>5. PcFits(n)
  BY <1>2, <1>4 DEF PcFits, Cleaning
<1>6. Shape(n, created')
  BY <1>1, <1>2, <1>4, <1>5 DEF Shape, Cleaning, Making
<1>7. LockedRec(n) <=> Locked(h)
  BY <1>1, <1>2, <1>4 DEF LockedRec, Locked, Cleaning
<1> QED BY <1>1, <1>2, <1>4, <1>6, <1>7, ThreadMoves

LEMMA RecordsKeepThreads ==
  ASSUME PairingInv, NEW h \in Handlers,
         CleanDone(h) \/ PruneRecords(h) \/ OpenInvite(h) \/ Sweep(h)
  PROVE  HandlersGood'
<1>1. /\ At(h) \in {"clean", "records", "open", "sweep"} /\ UNCHANGED <<created, lock>>
      /\ up' # "down"
  BY Counted DEF CleanDone, PruneRecords, OpenInvite, Sweep, registryVars
<1>2. /\ created \in Nat /\ HandlersGood /\ handler[h] \in HandlerRecords /\ Shape(handler[h], created)
      /\ At(h) \in Cleaning => handler[h].kind \in {"claim", "activate", "rejected", "start", "boot"}
      /\ At(h) = "records" => handler[h].kind \in {"start", "boot"}
      /\ At(h) = "open" => handler[h].kind = "start"
      /\ At(h) = "sweep" => handler[h].kind = "boot"
  BY <1>1, Counted, KindAt DEF HandlersGood
<1>3. CASE CleanDone(h)
  <2>1. At(h) = "clean" /\ Goto(h, Cleaned(h)) /\ UNCHANGED lock
    BY <1>3 DEF CleanDone
  <2>2. Cleaned(h) = IF handler[h].kind = "claim" THEN "resume"
                     ELSE IF handler[h].kind = "activate" THEN "decide"
                     ELSE IF handler[h].kind = "rejected" THEN "reject" ELSE "records"
    BY <1>2, <2>1 DEF Cleaned, AfterCleaning, Cleaning
  <2> DEFINE p == Cleaned(h)
  <2>3. /\ p \in Pcs \ {"cleaned", "drop"} /\ p \notin Making \cup {"unmark", "reply"} \cup Cleaning
        /\ p \in {"resume", "decide", "reject", "records"}
    BY <2>2 DEF Pcs, ClaimPcs, Making, Cleaning
  <2>4. /\ handler[h].kind = "claim" => p = "resume"
        /\ handler[h].kind = "activate" => p = "decide"
        /\ handler[h].kind = "rejected" => p = "reject"
        /\ handler[h].kind \in {"start", "boot"} => p = "records"
    BY <2>2
  <2> HIDE DEF p
  <2>5. PcFits([handler[h] EXCEPT !.pc = p])
    BY <1>2, <2>1, <2>3, <2>4 DEF PcFits, HandlerRecords, ClaimPcs, Cleaning
  <2>6. LockedRec([handler[h] EXCEPT !.pc = p]) <=> Locked(h)
    BY <1>2, <2>1, <2>3 DEF LockedRec, HandlerRecords, Locked
  <2> QED BY <1>1, <1>2, <2>1, <2>3, <2>5, <2>6, GotoStep DEF p
<1>4. CASE PruneRecords(h)
  <2> DEFINE p == IF handler[h].kind = "boot" THEN "sweep" ELSE "open"
  <2>1. At(h) = "records" /\ Goto(h, p)
    BY <1>4 DEF PruneRecords
  <2>2. /\ p \in Pcs \ {"cleaned", "drop"} /\ p \notin Making \cup {"unmark", "reply"} \cup Cleaning
        /\ p \in {"sweep", "open"}
    BY DEF Pcs, Making, Cleaning
  <2>3. PcFits([handler[h] EXCEPT !.pc = p])
    BY <1>2, <2>1 DEF PcFits, HandlerRecords
  <2>4. LockedRec([handler[h] EXCEPT !.pc = p]) <=> Locked(h)
    BY <1>2, <2>1 DEF LockedRec, HandlerRecords, Locked
  <2> HIDE DEF p
  <2> QED BY <1>1, <1>2, <2>1, <2>2, <2>3, <2>4, GotoStep
<1>5. CASE OpenInvite(h) \/ Sweep(h)
  <2>1. Finish(h) /\ ~Locked(h)
    BY <1>1, <1>2, <1>5 DEF OpenInvite, Sweep, Locked
  <2> QED BY <1>1, <1>2, <2>1, FinishStep
<1> QED BY <1>3, <1>4, <1>5

(* A thread of an activation goes on.                                      *)
LEMMA ActivationGoesOn ==
  ASSUME PairingInv, NEW h \in Handlers, handler[h].kind = "activate",
         NEW p \in {"reject", "marking", "commit", "unnotice"} \cup Settling, Goto(h, p),
         \/ lock' = lock /\ (LockedRec([handler[h] EXCEPT !.pc = p]) <=> Locked(h))
         \/ lock' = Nobody /\ Locked(h) /\ ~LockedRec([handler[h] EXCEPT !.pc = p]),
         UNCHANGED <<created, up>>
  PROVE  HandlersGood'
<1>1. /\ created \in Nat /\ HandlersGood /\ handler[h] \in HandlerRecords
  BY Counted, KindAt
<1>2. up' # "down"
  BY <1>1, Counted, KindAt
<1>3. p \in Pcs \ {"cleaned", "drop"} /\ p \notin Making \cup {"unmark", "reply"} \cup Cleaning
  BY DEF Pcs, Making, Cleaning, Settling
<1>4. PcFits([handler[h] EXCEPT !.pc = p])
  BY <1>1 DEF PcFits, HandlerRecords, Settling
<1> QED BY <1>1, <1>2, <1>3, <1>4, GotoStep

LEMMA ActivateKeepsThreads ==
  ASSUME PairingInv, NEW h \in Handlers,
         MarkRemote(h) \/ CommitFails(h) \/ ClearNotice(h) \/ Announce(h) \/ CompleteNotice(h)
           \/ Acknowledge(h)
  PROVE  HandlersGood'
<1>1. /\ At(h) \in {"marking", "commit", "unnotice"} \cup Settling /\ UNCHANGED <<created, up>>
  BY DEF MarkRemote, CommitFails, ClearNotice, Announce, CompleteNotice, Acknowledge, Settling, registryVars
<1>2. /\ handler[h].kind = "activate" /\ handler[h] \in HandlerRecords
      /\ created \in Nat /\ HandlersGood /\ up' # "down"
  BY <1>1, Counted, KindAt DEF Settling
<1>3. \/ At(h) \in {"unnotice"} \cup Settling /\ Finish(h) /\ UNCHANGED lock
      \/ At(h) = "commit" /\ Finish(h) /\ lock' = Nobody
      \/ At(h) = "commit" /\ Goto(h, "unnotice") /\ lock' = Nobody
      \/ At(h) = "marking" /\ (Goto(h, "commit") \/ Goto(h, "reject")) /\ UNCHANGED lock
      \/ At(h) \in Settling /\ (Goto(h, "complete") \/ Goto(h, "ack")) /\ UNCHANGED lock
  BY DEF MarkRemote, CommitFails, ClearNotice, Announce, CompleteNotice, Acknowledge, Settling, Unlock
<1>4. CASE At(h) \in {"unnotice"} \cup Settling /\ Finish(h) /\ UNCHANGED lock
  <2>1. ~Locked(h)
    BY <1>4 DEF Locked, Settling
  <2> QED BY <1>1, <1>2, <1>4, <2>1, FinishStep
<1>5. CASE At(h) = "commit" /\ Finish(h) /\ lock' = Nobody
  <2>1. Locked(h)
    BY <1>2, <1>5 DEF Locked
  <2> QED BY <1>1, <1>2, <1>5, <2>1, FinishStep
<1>6. CASE At(h) = "commit" /\ Goto(h, "unnotice") /\ lock' = Nobody
  <2>1. Locked(h) /\ ~LockedRec([handler[h] EXCEPT !.pc = "unnotice"])
    BY <1>2, <1>6 DEF Locked, LockedRec, HandlerRecords
  <2> QED BY <1>1, <1>2, <1>6, <2>1, ActivationGoesOn
<1>7. CASE At(h) = "marking" /\ (Goto(h, "commit") \/ Goto(h, "reject")) /\ UNCHANGED lock
  <2>1. /\ Locked(h) /\ LockedRec([handler[h] EXCEPT !.pc = "commit"])
        /\ LockedRec([handler[h] EXCEPT !.pc = "reject"])
    BY <1>2, <1>7 DEF Locked, LockedRec, HandlerRecords
  <2> QED BY <1>1, <1>2, <1>7, <2>1, ActivationGoesOn
<1>8. CASE At(h) \in Settling /\ (Goto(h, "complete") \/ Goto(h, "ack")) /\ UNCHANGED lock
  <2>1. /\ ~Locked(h) /\ ~LockedRec([handler[h] EXCEPT !.pc = "complete"])
        /\ ~LockedRec([handler[h] EXCEPT !.pc = "ack"])
    BY <1>2, <1>8 DEF Locked, LockedRec, HandlerRecords, Settling
  <2> QED BY <1>1, <1>2, <1>8, <2>1, ActivationGoesOn DEF Settling
<1> QED BY <1>3, <1>4, <1>5, <1>6, <1>7, <1>8

LEMMA DecideKeepsThreads ==
  ASSUME PairingInv, NEW h \in Handlers, Decide(h) PROVE HandlersGood'
<1> DEFINE r == handler[h]
<1>1. At(h) = "decide" /\ UNCHANGED <<created, lock, up>>
  BY DEF Decide
<1>2. /\ created \in Nat /\ created' \in Nat /\ created <= created' /\ HandlersGood
      /\ up' # "down" /\ r \in HandlerRecords /\ r.kind = "activate" /\ Shape(r, created)
      /\ MaxDevices \in Nat /\ created <= MaxDevices
  BY <1>1, Counted, KindAt DEF HandlersGood
<1>3. /\ r.d \in 1 .. created /\ r.q \in Requests /\ r.i = PairOf[r.q] /\ r.i \in Invites
  BY <1>2, PairingAssumption DEF PairingAssumption, Shape
<1>4. CASE Goto(h, "reject") \/ Goto(h, "marking")
  <2>1. /\ Locked(h) /\ LockedRec([r EXCEPT !.pc = "marking"])
        /\ LockedRec([r EXCEPT !.pc = "reject"])
    BY <1>1, <1>2 DEF Locked, LockedRec, HandlerRecords
  <2> QED BY <1>1, <1>2, <1>4, <2>1, ActivationGoesOn
<1>5. CASE handler' = [handler EXCEPT ![h].pc = "clean", ![h].kind = "rejected",
                                      ![h].todo = {<<r.i, r.d>>}]
  <2> DEFINE n == [r EXCEPT !.pc = "clean", !.kind = "rejected", !.todo = {<<r.i, r.d>>}]
  <2>1. Becomes(h, n)
    BY <1>5 DEF Becomes
  <2>2. /\ {<<r.i, r.d>>} \in SUBSET (Invites \X (1 .. created))
        /\ {<<r.i, r.d>>} \in SUBSET (Invites \X Devices)
    BY <1>2, <1>3 DEF Devices
  <2>3. "clean" \in Pcs /\ "rejected" \in Kinds
    BY DEF Pcs, Cleaning, Kinds
  <2>4. /\ n \in HandlerRecords /\ n.pc = "clean" /\ n.kind = "rejected" /\ n.q = r.q /\ n.i = r.i
        /\ n.d = r.d /\ n.todo = {<<r.i, r.d>>}
    BY WhatIsToDo, <1>2, <2>2, <2>3 DEF HandlerRecords
  <2> HIDE DEF n
  <2>5. Shape(n, created')
    BY <1>1, <1>3, <2>2, <2>4 DEF Shape, PcFits, Cleaning, Making
  <2>6. LockedRec(n) /\ Locked(h)
    BY <1>1, <1>2, <2>4 DEF LockedRec, Locked
  <2> QED BY <1>1, <1>2, <2>1, <2>5, <2>6, ThreadMoves
<1> QED BY <1>4, <1>5 DEF Decide

LEMMA CommitKeepsThreads ==
  ASSUME PairingInv, NEW h \in Handlers, Commit(h) PROVE HandlersGood'
<1> DEFINE r == handler[h]
<1>1. At(h) = "commit" /\ lock' = Nobody /\ UNCHANGED <<created, up>>
  BY DEF Commit, Unlock
<1>2. /\ created \in Nat /\ created' \in Nat /\ created <= created' /\ HandlersGood
      /\ up' # "down" /\ r \in HandlerRecords /\ r.kind = "activate" /\ Shape(r, created)
  BY <1>1, Counted, KindAt DEF HandlersGood
<1>3. PICK S \in SUBSET {e \in Devices : Row(e)} :
         handler' = [handler EXCEPT ![h].pc = "drop", ![h].todo = S]
  <2>1. /\ Replaced(r.d) \in SUBSET {e \in Devices : Row(e)}
        /\ {e \in Devices : Row(e) /\ device[e].by = r.d /\ device[e].revoked}
              \in SUBSET {e \in Devices : Row(e)}
    BY DEF Replaced, Live
  <2>2. CASE Reactivate(h)
    BY <2>1, <2>2 DEF Reactivate
  <2>3. CASE Activate(h)
    BY <2>1, <2>3 DEF Activate
  <2> QED BY <2>2, <2>3 DEF Commit
<1>4. S \in SUBSET (1 .. created) /\ S \in SUBSET Devices
  <2>1. \A e \in Devices : Row(e) => e <= created
    BY DEF PairingInv, Registry, Row
  <2> QED BY <2>1, <1>2 DEF Devices
<1> DEFINE n == [r EXCEPT !.pc = "drop", !.todo = S]
<1>5. Becomes(h, n)
  BY <1>3 DEF Becomes
<1>6. /\ n \in HandlerRecords /\ n.pc = "drop" /\ n.kind = "activate" /\ n.q = r.q /\ n.i = r.i
      /\ n.d = r.d /\ n.todo = S
  <2>1. "drop" \in Pcs
    BY DEF Pcs
  <2>2. r \in HandlerRecords /\ S \in Todos
    BY <1>2, <1>4, WhatIsToDo
  <2> HIDE DEF r
  <2> QED BY <1>2, <2>1, <2>2 DEF HandlerRecords
<1> HIDE DEF n
<1>7. Shape(n, created')
  BY <1>1, <1>2, <1>4, <1>6 DEF Shape, PcFits, Cleaning, Making
<1>8. ~LockedRec(n) /\ Locked(h)
  BY <1>1, <1>2, <1>6 DEF LockedRec, Locked
<1> QED BY <1>1, <1>2, <1>5, <1>7, <1>8, ThreadMoves

LEMMA DropKeepsThreads ==
  ASSUME PairingInv, NEW h \in Handlers, DropDevice(h) \/ DropDone(h) PROVE HandlersGood'
<1> DEFINE r == handler[h]
<1>1. At(h) = "drop" /\ UNCHANGED <<created, lock, up>>
  BY DEF DropDevice, DropDone, registryVars
<1>2. /\ created \in Nat /\ created' \in Nat /\ created <= created' /\ HandlersGood
      /\ up' # "down" /\ r \in HandlerRecords /\ r.kind \in {"activate", "revoke"}
      /\ Shape(r, created) /\ r.todo \in SUBSET (1 .. created) /\ ~Locked(h)
      /\ 1 .. created \subseteq Devices
  BY <1>1, Counted, KindAt DEF HandlersGood, Shape, At, Locked, Devices
<1>3. CASE Finish(h)
  BY <1>1, <1>2, <1>3, FinishStep
<1>4. CASE \E e \in r.todo : handler' = [handler EXCEPT ![h].todo = @ \ {e}]
  <2>1. PICK e \in r.todo : handler' = [handler EXCEPT ![h].todo = @ \ {e}]
    BY <1>4
  <2> DEFINE n == [r EXCEPT !.todo = r.todo \ {e}]
  <2>2. Becomes(h, n)
    BY <2>1 DEF Becomes
  <2>3. r.todo \ {e} \in SUBSET (1 .. created) /\ r.todo \ {e} \in SUBSET Devices
    BY <1>2
  <2>4. /\ n \in HandlerRecords /\ n.pc = "drop" /\ n.kind = r.kind /\ n.q = r.q /\ n.i = r.i
        /\ n.d = r.d /\ n.todo = r.todo \ {e}
    BY WhatIsToDo, <1>1, <1>2, <2>3 DEF HandlerRecords, At
  <2> HIDE DEF n
  <2>5. Shape(n, created')
    BY <1>1, <1>2, <2>3, <2>4 DEF Shape, PcFits, Cleaning, Making
  <2>6. ~LockedRec(n)
    BY <2>4 DEF LockedRec
  <2> QED BY <1>1, <1>2, <2>2, <2>5, <2>6, ThreadMoves
<1>5. CASE DropDone(h) /\ ~Finish(h)
  <2>1. r.kind = "activate" /\ (Goto(h, "announce") \/ Goto(h, "ack"))
    BY <1>2, <1>5 DEF DropDone
  <2>2. ~LockedRec([r EXCEPT !.pc = "announce"]) /\ ~LockedRec([r EXCEPT !.pc = "ack"])
    BY <1>2 DEF LockedRec, HandlerRecords
  <2> QED BY <1>1, <1>2, <2>1, <2>2, ActivationGoesOn DEF Settling
<1> QED BY <1>3, <1>4, <1>5 DEF DropDevice

(* A thread begins.                                                        *)
LEMMA BeginKeepsThreads ==
  ASSUME PairingInv, NEW h \in Handlers, WhatBegins(h) PROVE HandlersGood'
<1>1. /\ created \in Nat /\ HandlersGood /\ Devices = 1 .. MaxDevices /\ MaxDevices \in Nat
      /\ created \in 0 .. MaxDevices /\ PairOf \in [Requests -> Invites]
  BY Counted, PairingAssumption DEF Devices, PairingAssumption
<1>2. /\ At(h) = "idle" \/ up = "down"
      /\ UNCHANGED <<created, lock>>
      /\ up' # "down"
  BY DEF WhatBegins, Ask, BeginClaim, BeginActivate, BeginStart, Revoke, Boot, registryVars
<1>3. At(h) = "idle" /\ ~Locked(h)
  <2>1. At(h) = "idle"
    BY <1>1, <1>2 DEF HandlersGood
  <2> QED BY <1>1, <2>1, KindAt DEF Locked
<1>4. ASSUME NEW n, Becomes(h, n), Shape(n, created), ~LockedRec(n) PROVE HandlersGood'
  <2>1. created' \in Nat /\ created <= created' /\ Shape(n, created')
    BY <1>1, <1>2, <1>4
  <2> QED BY <1>1, <1>2, <1>3, <1>4, <2>1, ThreadMoves
<1>5. Idle \in HandlerRecords
  BY IdleIsGood DEF Shape
<1>0. /\ {"lock", "prune", "drop"} \subseteq Pcs
      /\ {"claim", "activate", "start", "revoke", "boot"} \subseteq Kinds
  BY DEF Pcs, Kinds
<1>6. ASSUME NEW q \in Requests, BeginClaim(h, q) PROVE HandlersGood'
  <2> DEFINE n == [Idle EXCEPT !.pc = "lock", !.kind = "claim", !.q = q, !.i = PairOf[q]]
  <2>1. Becomes(h, n)
    BY <1>6 DEF BeginClaim, Becomes
  <2>2. n \in HandlerRecords /\ n.pc = "lock" /\ n.kind = "claim" /\ n.q = q /\ n.i = PairOf[q]
    BY <1>0, <1>1, <1>5 DEF HandlerRecords
  <2> HIDE DEF n
  <2>3. Shape(n, created) /\ ~LockedRec(n)
    BY <2>2 DEF Shape, PcFits, Making, Cleaning, LockedRec
  <2> QED BY <1>4, <2>1, <2>3
<1>7. ASSUME NEW q \in Requests, NEW remote \in BOOLEAN, BeginActivate(h, q, remote)
      PROVE  HandlersGood'
  <2> DEFINE away == remote \/ phone[q].device \in notices
             n == [Idle EXCEPT !.pc = "lock", !.kind = "activate", !.q = q, !.i = PairOf[q],
                               !.d = phone[q].device, !.remote = away]
  <2>1. Becomes(h, n)
    BY <1>7 DEF BeginActivate, Becomes
  <2>2. phone[q].device \in 1 .. created /\ phone[q].device \in 0 .. MaxDevices /\ away \in BOOLEAN
    BY <1>1, <1>7 DEF BeginActivate, PairingInv, StoresGood
  <2> HIDE DEF away
  <2>3. /\ n \in HandlerRecords /\ n.pc = "lock" /\ n.kind = "activate" /\ n.q = q /\ n.i = PairOf[q]
        /\ n.d = phone[q].device
    BY <1>0, <1>1, <1>5, <2>2 DEF HandlerRecords
  <2> HIDE DEF n
  <2>4. Shape(n, created) /\ ~LockedRec(n)
    BY <2>2, <2>3 DEF Shape, PcFits, Making, Cleaning, LockedRec
  <2> QED BY <1>4, <2>1, <2>4
<1>8. ASSUME NEW i \in Invites, BeginStart(h, i) PROVE HandlersGood'
  <2> DEFINE n == [Idle EXCEPT !.pc = "prune", !.kind = "start", !.i = i]
  <2>1. Becomes(h, n)
    BY <1>8 DEF BeginStart, Becomes
  <2>2. n \in HandlerRecords /\ n.pc = "prune" /\ n.kind = "start" /\ n.i = i
    BY <1>0, <1>1, <1>5 DEF HandlerRecords
  <2> HIDE DEF n
  <2>3. Shape(n, created) /\ ~LockedRec(n)
    BY <2>2 DEF Shape, PcFits, Making, Cleaning, LockedRec
  <2> QED BY <1>4, <2>1, <2>3
<1>9. ASSUME NEW d \in Devices, Revoke(h, d) PROVE HandlersGood'
  <2>1. CASE UNCHANGED handler
    <3>1. \A g \in Handlers : Locked(g)' <=> Locked(g)
      BY <2>1 DEF Locked, At
    <3> QED BY <1>1, <1>2, <2>1, <3>1 DEF HandlersGood, At
  <2>2. CASE handler' = [handler EXCEPT ![h] = [Idle EXCEPT !.pc = "drop", !.kind = "revoke",
                                                            !.todo = {d}]]
    <3> DEFINE n == [Idle EXCEPT !.pc = "drop", !.kind = "revoke", !.todo = {d}]
    <3>1. Becomes(h, n)
      BY <2>2 DEF Becomes
    <3>2. {d} \in SUBSET (1 .. created) /\ {d} \in SUBSET Devices
      BY <1>1, <1>9 DEF Revoke, PairingInv, Registry, Row
    <3>3. n \in HandlerRecords /\ n.pc = "drop" /\ n.kind = "revoke" /\ n.todo = {d}
      BY WhatIsToDo, <1>0, <1>1, <1>5, <3>2 DEF HandlerRecords
    <3> HIDE DEF n
    <3>4. Shape(n, created) /\ ~LockedRec(n)
      BY <3>2, <3>3 DEF Shape, PcFits, Making, Cleaning, LockedRec
    <3> QED BY <1>4, <3>1, <3>4
  <2> QED BY <1>9, <2>1, <2>2 DEF Revoke
<1>10. ASSUME Boot(h) PROVE HandlersGood'
  <2> DEFINE n == [Idle EXCEPT !.pc = "prune", !.kind = "boot"]
  <2>1. Becomes(h, n)
    BY <1>10 DEF Boot, Becomes
  <2>2. n \in HandlerRecords /\ n.pc = "prune" /\ n.kind = "boot"
    BY <1>0, <1>1, <1>5 DEF HandlerRecords
  <2> HIDE DEF n
  <2>3. Shape(n, created) /\ ~LockedRec(n)
    BY <2>2 DEF Shape, PcFits, Making, Cleaning, LockedRec
  <2> QED BY <1>4, <2>1, <2>3
<1> QED BY <1>6, <1>7, <1>8, <1>9, <1>10 DEF WhatBegins, Ask

(* Everybody else.                                                         *)
Outside ==
    \/ \E q \in Requests : AuthenticatePush(q)
    \/ \E d \in Devices : StorePush(d)
    \/ \E i \in Invites : InviteLapses(i) \/ ClaimLapses(i) \/ RetentionEnds(i)
    \/ UNCHANGED vars
ThreadStep(h) == WhatBegins(h) \/ Step(h) \/ Refuse(h) \/ CommitFails(h)
(* A step is a thread's, one from outside (or none), or a crash.           *)
LEMMA NextIs ==
  ASSUME [PairingNext]_vars
  PROVE  (\E h \in Handlers : ThreadStep(h)) \/ Outside \/ Crash
BY DEF PairingNext, WhatBegins, ThreadStep, Outside

(* What the phones, the push service and the clock do touches few stores.  *)
LEMMA OutsideTouches ==
  ASSUME Outside
  PROVE  /\ UNCHANGED <<files, markers, registry, secrets, leaked, tombs, notices, phone, handler, lock, up>>
         /\ UNCHANGED lapsed \/ \E i \in Invites : InviteLapses(i)
         /\ UNCHANGED budget \/ \E what \in Counters : Spend(what)
         /\ UNCHANGED budget \/ UNCHANGED <<lapsed>>
         /\ \/ UNCHANGED push
            \/ \E d \in Devices : StorePush(d)
         /\ \/ UNCHANGED pushing
            \/ \E q \in Requests : AuthenticatePush(q)
            \/ \E d \in Devices : StorePush(d)
<1> DEFINE rest == <<files, markers, registry, secrets, leaked, tombs, notices, phone, handler, lock, up>>
<1>1. ASSUME NEW q \in Requests, AuthenticatePush(q)
      PROVE  UNCHANGED rest /\ UNCHANGED <<lapsed, push>> /\ \E what \in Counters : Spend(what)
  BY <1>1 DEF AuthenticatePush, filesVars, registryVars, secretVars, registry, Counters
<1>2. ASSUME NEW d \in Devices, StorePush(d) PROVE UNCHANGED rest /\ UNCHANGED <<lapsed, budget>>
  BY <1>2 DEF StorePush, filesVars, registryVars, secretVars, registry
<1>3. ASSUME NEW i \in Invites, InviteLapses(i) \/ ClaimLapses(i) \/ RetentionEnds(i)
      PROVE  UNCHANGED rest
             /\ UNCHANGED <<push, pushing, budget>> /\ (UNCHANGED lapsed \/ InviteLapses(i))
  BY <1>3 DEF InviteLapses, ClaimLapses, RetentionEnds, filesVars, registryVars, secretVars,
              pushVars, registry
<1>4. ASSUME UNCHANGED vars PROVE UNCHANGED rest /\ UNCHANGED <<lapsed, push, pushing, budget>>
  BY <1>4 DEF vars, filesVars, registryVars, secretVars, pushVars, registry
<1> HIDE DEF rest
<1> QED BY <1>1, <1>2, <1>3, <1>4 DEF Outside, rest

(* Every step of a thread leaves the threads good.                         *)
LEMMA StepKeepsThreads ==
  ASSUME PairingInv, NEW h \in Handlers, ThreadStep(h)
  PROVE  HandlersGood'
<1>1. CASE WhatBegins(h) \/ Refuse(h) \/ CommitFails(h)
  BY <1>1, BeginKeepsThreads, RefuseKeepsThreads, ActivateKeepsThreads
<1>2. CASE CleanStep(h)
  BY <1>2, PruneKeepsThreads, CleanKeepsThreads, RecordsKeepThreads DEF CleanStep
<1>3. CASE ClaimStep(h)
  BY <1>3, ResumeKeepsThreads, CreateKeepsThreads, ClaimKeepsThreads, UndoSecretKeepsThreads,
     EndKeepsThreads DEF ClaimStep
<1>4. CASE ActivateStep(h) \/ Reject(h)
  BY <1>4, DecideKeepsThreads, ActivateKeepsThreads, CommitKeepsThreads, DropKeepsThreads,
     EndKeepsThreads DEF ActivateStep
<1> QED BY <1>1, <1>2, <1>3, <1>4 DEF ThreadStep, Step
(* Every step keeps HandlersGood.                                          *)
LEMMA ThreadsStayGood ==
  ASSUME PairingInv, [PairingNext]_vars
  PROVE  HandlersGood'
<1>1. CASE Outside
  <2>1. UNCHANGED <<handler, lock, up, created>> /\ HandlersGood
    BY <1>1, OutsideTouches DEF registry, PairingInv
  <2>2. \A h \in Handlers : Locked(h)' <=> Locked(h)
    BY <2>1 DEF Locked, At
  <2> QED BY <2>1, <2>2 DEF HandlersGood, At
<1>2. CASE Crash
  <2>1. handler' = [h \in Handlers |-> Idle] /\ lock' = Nobody /\ Idle.kind = "none" /\ Idle.pc = "idle"
    BY <1>2 DEF Crash, Idle
  <2>2. Shape(Idle, created') /\ Idle \in HandlerRecords /\ Nobody \notin Handlers
    BY IdleIsGood, PairingAssumption DEF Shape, PairingAssumption
  <2>3. \A h \in Handlers : ~Locked(h)' /\ At(h)' = "idle"
    BY <2>1 DEF Locked, At
  <2> QED BY <2>1, <2>2, <2>3 DEF HandlersGood
<1> QED BY <1>1, <1>2, NextIs, StepKeepsThreads
-----------------------------------------------------------------------------
(* The stores.                                                             *)

(* The fields a step works with.                                           *)
LEMMA Fields ==
  ASSUME PairingInv, NEW h \in Handlers
  PROVE  /\ handler[h].kind \in {"claim", "activate", "rejected"} =>
              handler[h].q \in Requests /\ handler[h].i = PairOf[handler[h].q] /\ handler[h].i \in Invites
         /\ handler[h].kind = "start" => handler[h].i \in Invites
         /\ handler[h].kind \in {"activate", "rejected"} \/ At(h) \in Making \cup {"unmark", "reply"}
              => handler[h].d \in 1 .. created
         /\ At(h) \in Cleaning => handler[h].todo \in SUBSET (Invites \X (1 .. created))
         /\ At(h) = "cleaned" => handler[h].item \in Invites \X (1 .. created)
         /\ At(h) = "drop" => handler[h].todo \in SUBSET (1 .. created)
         /\ 1 .. created \subseteq Devices /\ created \in Nat
         /\ \A d \in Devices : Row(d) => d \in 1 .. created
<1>1. Shape(handler[h], created) /\ PairOf \in [Requests -> Invites]
  BY PairingAssumption DEF PairingAssumption, PairingInv, HandlersGood
<1>2. 1 .. created \subseteq Devices /\ created \in Nat
  BY Counted DEF Devices
<1>3. \A d \in Devices : Row(d) => d \in 1 .. created
  BY <1>2, Counted DEF PairingInv, Registry, Row, Devices
<1> QED BY <1>1, <1>2, <1>3 DEF Shape, At

(* Devices are numbered in the order they are made.                        *)
LEMMA CreatedGrows ==
  ASSUME PairingInv, [PairingNext]_vars
  PROVE  created' \in Nat /\ created <= created' /\ created \in Nat /\ created' <= MaxDevices
<1>1. created \in Nat /\ created <= MaxDevices /\ MaxDevices \in Nat
  BY Counted
<1>2. CASE \E h \in Handlers : CreateDevice(h)
  BY <1>1, <1>2 DEF CreateDevice, registryVars
<1>3. CASE UNCHANGED created
  BY <1>1, <1>3
<1>4. CASE \E h \in Handlers : ThreadStep(h) /\ ~CreateDevice(h)
  <2>1. PICK h \in Handlers : ThreadStep(h) /\ ~CreateDevice(h)
    BY <1>4
  <2>2. UNCHANGED registry \/ RegistryStep(h)
    BY <2>1, ThreadTouches DEF ThreadStep
  <2>3. RegistryStep(h) => UNCHANGED created
    BY <2>1 DEF RegistryStep, Prune, MarkCleaned, UndoDevice, Decide, Commit, Revoke
  <2> QED BY <1>1, <2>2, <2>3 DEF registry
<1>5. CASE Outside \/ Crash
  <2>1. UNCHANGED created
    BY <1>5, OutsideTouches DEF registry, Crash, registryVars
  <2> QED BY <1>1, <2>1
<1> QED BY <1>2, <1>4, <1>5, NextIs

(* Every step keeps the types.                                             *)
LEMMA StoresStayGood ==
  ASSUME PairingInv, [PairingNext]_vars
  PROVE  StoresGood'
<1>1. created' \in Nat /\ created <= created' /\ created \in Nat /\ StoresGood
  BY CreatedGrows DEF PairingInv
<1>2. CASE Outside
  <2>1. budget' \in BudgetRecords /\ lapsed' \subseteq Invites
    BY <1>1, <1>2, OutsideTouches, SpendKeeps DEF StoresGood, InviteLapses
  <2>2. push' \cup pushing' \subseteq 1 .. created
    <3>1. \A q \in Requests : AuthenticatePush(q) => pushing' \subseteq 1 .. created
      <4>1. ASSUME NEW q \in Requests, AuthenticatePush(q) PROVE phone[q].device \in 1 .. created
        <5>1. phone[q].device \in 1 .. created
          BY <1>1, <4>1 DEF AuthenticatePush, StoresGood, PairingInv, PushGood
        <5> QED BY <5>1
      <4> QED BY <1>1, <4>1 DEF AuthenticatePush, StoresGood
    <3>2. \A d \in Devices : StorePush(d) => push' \cup pushing' \subseteq 1 .. created
      BY <1>1 DEF StorePush, StoresGood
    <3> QED BY <1>1, <1>2, <3>1, <3>2, OutsideTouches DEF StoresGood
  <2>3. UNCHANGED <<files, markers, secrets, tombs, notices, phone, up, created>>
    BY <1>2, OutsideTouches DEF registry
  <2> QED BY <1>1, <2>1, <2>2, <2>3 DEF StoresGood
<1>3. CASE Crash
  <2>1. budget' \in BudgetRecords
    BY <1>1, <1>3, SpendKeeps DEF StoresGood, Crash, Counters
  <2> QED BY <1>1, <1>3, <2>1 DEF StoresGood, Crash, filesVars, registryVars, secretVars
<1>4. CASE \E h \in Handlers : ThreadStep(h)
  <2>1. PICK h \in Handlers : ThreadStep(h)
    BY <1>4
  <2>2. budget' \in BudgetRecords
    <3>1. ASSUME NEW i \in Invites, BeginStart(h, i) PROVE budget' \in BudgetRecords
      BY <1>1, <3>1 DEF BeginStart, StoresGood, BudgetRecords
    <3> QED BY <1>1, <2>1, <3>1, ThreadTouches, SpendKeeps DEF StoresGood, ThreadStep
  <2>3. files' \subseteq Invites /\ markers' \subseteq Invites
    <3>1. ASSUME OpenInvite(h) \/ CreateMarker(h) PROVE handler[h].i \in Invites
      <4>1. handler[h].kind \in {"start", "claim"}
        BY <3>1, KindAt DEF PairingInv, OpenInvite, CreateMarker, ClaimPcs
      <4> QED BY <4>1, Fields
    <3>2. FilesStep(h) => files' \subseteq Invites /\ markers' \subseteq Invites
      BY <1>1, <3>1 DEF FilesStep, PruneRecords, OpenInvite, CheckInvite, CreateMarker, DeleteInvite,
            DeleteMarker, UndoMarker, StoresGood
    <3> QED BY <1>1, <2>1, <3>2, ThreadTouches DEF ThreadStep, StoresGood
  <2>4. UNCHANGED lapsed
    BY <2>1, ThreadTouches DEF ThreadStep
  <2>5. secrets' \subseteq 1 .. created
    <3>1. StoreSecret(h) => handler[h].d \in 1 .. created
      BY Fields DEF StoreSecret, Making
    <3>2. CASE SecretStep(h)
      BY <1>1, <3>1, <3>2 DEF SecretStep, CleanSecret, StoreSecret, UndoSecret, UndoDevice, DropDevice,
            Sweep, StoresGood
    <3> QED BY <1>1, <2>1, <3>2, ThreadTouches DEF ThreadStep, StoresGood
  <2>6. tombs' \subseteq 1 .. created /\ push' \subseteq 1 .. created
    <3>1. CASE DropDevice(h)
      <4>1. handler[h].todo \in SUBSET (1 .. created)
        BY <3>1, Fields DEF DropDevice
      <4> QED BY <1>1, <3>1, <4>1 DEF DropDevice, StoresGood
    <3>2. CASE Sweep(h)
      <4>1. {d \in Devices : Row(d) /\ device[d].revoked} \subseteq 1 .. created
        BY <2>1, Fields
      <4> QED BY <1>1, <3>2, <4>1 DEF Sweep, StoresGood
    <3> QED BY <1>1, <2>1, <3>1, <3>2, ThreadTouches DEF ThreadStep, StoresGood
  <2>7. notices' \subseteq 1 .. created
    <3>1. MarkRemote(h) => handler[h].d \in 1 .. created
      BY Fields, KindAt DEF MarkRemote, PairingInv
    <3>2. MarkRemote(h) \/ ClearNotice(h) \/ CompleteNotice(h) => notices' \subseteq 1 .. created
      BY <1>1, <3>1 DEF MarkRemote, ClearNotice, CompleteNotice, StoresGood
    <3>3. UNCHANGED notices \/ MarkRemote(h) \/ ClearNotice(h) \/ CompleteNotice(h)
      BY <2>1, ThreadTouches DEF ThreadStep
    <3> QED BY <1>1, <3>2, <3>3 DEF StoresGood
  <2>8. phone' \in [Requests -> [device : 0 .. created, done : BOOLEAN]]
    <3>1. CASE Reply(h)
      <4>1. handler[h].d \in 0 .. created
        BY <1>1, <3>1, Fields DEF Reply
      <4> QED BY <1>1, <3>1, <4>1 DEF Reply, StoresGood
    <3>2. CASE Acknowledge(h)
      <4>1. PICK q : phone' = phone \/ phone' = [phone EXCEPT ![q].done = TRUE]
        BY <3>2 DEF Acknowledge
      <4>2. phone \in [Requests -> [device : 0 .. created, done : BOOLEAN]]
        BY <1>1 DEF StoresGood
      <4> QED BY <4>1, <4>2
    <3> QED BY <1>1, <2>1, <3>1, <3>2, ThreadTouches DEF ThreadStep, StoresGood
  <2>9. up' \in {"down", "boot", "up"} /\ UNCHANGED pushing
    BY <1>1, <2>1, ThreadTouches DEF ThreadStep, StoresGood, Boot, Sweep
  <2>10. 1 .. created \subseteq 1 .. created' /\ 0 .. created \subseteq 0 .. created'
    BY <1>1
  <2> QED BY <1>1, <2>2, <2>3, <2>4, <2>5, <2>6, <2>7, <2>8, <2>9, <2>10 DEF StoresGood
<1> QED BY <1>2, <1>3, <1>4, NextIs
-----------------------------------------------------------------------------
(* The registry.                                                           *)

(* What a row of either table says of the other.                           *)
LEMMA Rows ==
  ASSUME PairingInv
  PROVE  /\ \A i \in Invites : claim[i] # NoClaim =>
              /\ claim[i] \in Claims /\ claim[i].device \in Devices /\ Row(claim[i].device)
              /\ device[claim[i].device].request = claim[i].request /\ PairOf[claim[i].request] = i
              /\ device[claim[i].device].state = claim[i].state
              /\ claim[i].cleaned => claim[i].state \in Refused
         /\ \A d \in Devices : Row(d) =>
              /\ device[d] \in DeviceRows /\ d <= created /\ PairOf[device[d].request] \in Invites
              /\ device[d].state # "active" => /\ claim[PairOf[device[d].request]] # NoClaim
                                               /\ claim[PairOf[device[d].request]].device = d
              /\ device[d].by # 0 =>
                   /\ device[d].by > d /\ device[d].by <= created /\ device[d].revoked
                   /\ device[d].by \in Devices /\ device[d].state \in {"active", "superseded"}
                   /\ Row(device[d].by) => device[device[d].by].state # "pending"
         /\ \A i, j \in Invites :
              claim[i] # NoClaim /\ claim[j] # NoClaim /\ claim[i].device = claim[j].device => i = j
<1>1. Registry(claim, device, created) /\ PairOf \in [Requests -> Invites]
  BY PairingAssumption DEF PairingAssumption, PairingInv
<1>2. \A i \in Invites : claim[i] # NoClaim =>
              /\ claim[i] \in Claims /\ claim[i].device \in Devices /\ Row(claim[i].device)
              /\ device[claim[i].device].request = claim[i].request /\ PairOf[claim[i].request] = i
              /\ device[claim[i].device].state = claim[i].state
              /\ claim[i].cleaned => claim[i].state \in Refused
  BY <1>1 DEF Registry, Claims, Row
<1>3. ASSUME NEW d \in Devices, Row(d)
      PROVE  /\ device[d] \in DeviceRows /\ d <= created /\ PairOf[device[d].request] \in Invites
             /\ device[d].state # "active" => /\ claim[PairOf[device[d].request]] # NoClaim
                                              /\ claim[PairOf[device[d].request]].device = d
             /\ device[d].by # 0 =>
                  /\ device[d].by > d /\ device[d].by <= created /\ device[d].revoked
                  /\ device[d].by \in Devices /\ device[d].state \in {"active", "superseded"}
                  /\ Row(device[d].by) => device[device[d].by].state # "pending"
  <2>1. device[d] \in DeviceRows
    BY <1>1, <1>3 DEF Registry, Row
  <2>2. device[d].by \in 0 .. MaxDevices /\ device[d].request \in Requests
    BY <2>1 DEF DeviceRows
  <2>3. device[d].by # 0 => device[d].by \in Devices
    BY <2>2, Counted DEF Devices
  <2> QED BY <1>1, <1>3, <2>1, <2>2, <2>3 DEF Registry, Row
<1>4. ASSUME NEW i \in Invites, NEW j \in Invites, claim[i] # NoClaim, claim[j] # NoClaim,
             claim[i].device = claim[j].device
      PROVE  i = j
  <2>1. PairOf[claim[i].request] = i /\ PairOf[claim[j].request] = j
        /\ claim[i].request = claim[j].request
    BY <1>2, <1>4
  <2> QED BY <2>1
<1> QED BY <1>2, <1>3, <1>4

(* Nothing new appears, and what was decided stays decided.                *)
Ages ==
    /\ created' = created
    /\ \A i \in Invites : claim'[i] # NoClaim =>
         /\ claim[i] # NoClaim /\ claim'[i].device = claim[i].device
         /\ claim'[i].request = claim[i].request
         /\ claim[i].state # "pending" => claim'[i].state = claim[i].state
    /\ \A d \in Devices : Row(d)' =>
         /\ Row(d) /\ device'[d].request = device[d].request
         /\ device[d].state # "pending" => device'[d].state = device[d].state
         /\ \/ device'[d].by = device[d].by
            \/ device[d].state = "pending" /\ device'[d].state \in Refused
            \/ Row(device'[d].by) /\ device[device'[d].by].state = "pending"
NobodyJoins == \A d \in Devices : Live(d)' => Live(d)
RegistryGood == Registry(claim, device, created)

(* No device becomes usable again.                                         *)
LEMMA AgesUsable ==
  ASSUME Ages, NEW d \in Devices, NEW i, UsableFor(d, i)'
  PROVE  UsableFor(d, i)
<1>1. Row(d)' /\ device'[d].state \in {"pending", "active"} /\ PairOf[device'[d].request] = i
  BY DEF UsableFor, Usable
<1>2. Row(d) /\ device'[d].request = device[d].request
      /\ (device[d].state # "pending" => device'[d].state = device[d].state)
  BY <1>1 DEF Ages
<1> QED BY <1>1, <1>2 DEF UsableFor, Usable

(* Rows that only age leave one usable device; one live one if none joins. *)
LEMMA AgesKeeps ==
  ASSUME PairingInv, Ages
  PROVE  /\ OneUsable'
         /\ NobodyJoins => OneLiveDevicePerPhone'
<1>2. OneUsable'
  BY AgesUsable DEF OneUsable, PairingInv
<1>3. ASSUME NobodyJoins PROVE OneLiveDevicePerPhone'
  <2>1. ASSUME NEW d \in Devices, NEW e \in Devices, Live(d)', Live(e)', SameRelay(d, e)'
        PROVE  d = e
    <3>1. Live(d) /\ Live(e) /\ Row(d)' /\ Row(e)'
      BY <1>3, <2>1 DEF NobodyJoins, Live
    <3>2. device'[d].request = device[d].request /\ device'[e].request = device[e].request
      BY <3>1 DEF Ages
    <3>3. SameRelay(d, e)
      BY <2>1, <3>2 DEF SameRelay
    <3> QED BY <3>1, <3>3 DEF OneLiveDevicePerPhone, PairingInv
  <2> QED BY <2>1 DEF OneLiveDevicePerPhone
<1> QED BY <1>2, <1>3

(* A row that ends is a row.                                               *)
LEMMA EndedRows ==
  /\ \A x \in DeviceRows :
       /\ [x EXCEPT !.state = "expired", !.revoked = TRUE] \in DeviceRows
       /\ [x EXCEPT !.state = "expired", !.revoked = TRUE] # NoDevice /\ x # NoDevice
  /\ \A c \in Claims, b \in BOOLEAN :
       /\ [c EXCEPT !.state = "expired", !.cleaned = b] \in Claims
       /\ [c EXCEPT !.state = "expired", !.cleaned = b] # NoClaim /\ c # NoClaim
<1>1. ASSUME NEW x \in DeviceRows
      PROVE  [x EXCEPT !.state = "expired", !.revoked = TRUE] \in DeviceRows
  BY DEF DeviceRows, States
<1>2. ASSUME NEW c \in Claims, NEW b \in BOOLEAN
      PROVE  [c EXCEPT !.state = "expired", !.cleaned = b] \in Claims
  BY DEF Claims, States
<1> QED BY <1>1, <1>2, PairingAssumption DEF PairingAssumption

(* prune_pending_claims                                                    *)
LEMMA PruneAges ==
  ASSUME PairingInv, NEW h \in Handlers, Prune(h)
  PROVE  Ages /\ NobodyJoins /\ RegistryGood'
<1> DEFINE Gone == Forgotten \cup (ClaimsIn({"active"}) \cap old)
<1>1. ASSUME NEW i \in Invites
      PROVE  claim'[i] = IF i \in Gone THEN NoClaim
                         ELSE IF i \in Expiring
                           THEN [claim[i] EXCEPT !.state = "expired", !.cleaned = ~HasTicket(claim[i].request)]
                           ELSE claim[i]
  BY DEF Prune
<1>2. ASSUME NEW d \in Devices
      PROVE  device'[d] = IF \E i \in Forgotten : claim[i].device = d THEN NoDevice
                          ELSE IF \E i \in Expiring : claim[i].device = d
                            THEN [device[d] EXCEPT !.state = "expired", !.revoked = TRUE]
                            ELSE device[d]
  BY DEF Prune
<1>3. /\ \A i \in Expiring : i \in Invites /\ claim[i] # NoClaim /\ claim[i].state = "pending"
      /\ \A i \in Forgotten : i \in Invites /\ claim[i] # NoClaim /\ claim[i].state \in Refused
      /\ \A i \in Gone \ Forgotten : i \in Invites /\ claim[i] # NoClaim /\ claim[i].state = "active"
  BY DEF Expiring, Forgotten, Rejected, ClaimsIn, Refused
<1>4. created' = created /\ DOMAIN claim' = Invites /\ DOMAIN device' = Devices
  BY DEF Prune
<1> HIDE DEF Gone
<1>5. ASSUME NEW i \in Invites, claim'[i] # NoClaim
      PROVE  /\ claim[i] # NoClaim /\ i \notin Forgotten
             /\ claim'[i] \in Claims /\ claim'[i].device = claim[i].device
             /\ claim'[i].request = claim[i].request
             /\ claim'[i].state = IF i \in Expiring THEN "expired" ELSE claim[i].state
             /\ claim[i].state # "pending" => claim'[i].state = claim[i].state
             /\ claim'[i].cleaned => claim'[i].state \in Refused
  <2>1. i \notin Gone /\ i \notin Forgotten
    BY <1>1, <1>5 DEF Gone
  <2>2. claim[i] # NoClaim
    BY <1>1, <1>3, <1>5, <2>1
  <2>3. claim[i] \in Claims
    BY <2>2, Rows
  <2>4. CASE i \in Expiring
    <3> DEFINE b == ~HasTicket(claim[i].request)
    <3>1. b \in BOOLEAN /\ claim'[i] = [claim[i] EXCEPT !.state = "expired", !.cleaned = b]
      BY <1>1, <2>1, <2>4
    <3> HIDE DEF b
    <3>2. [claim[i] EXCEPT !.state = "expired", !.cleaned = b] \in Claims
      <4>1. b \in BOOLEAN
        BY <3>1
      <4> QED BY <2>3, <4>1, EndedRows
    <3>3. claim'[i] \in Claims
      BY <3>1, <3>2
    <3>4. /\ claim'[i].device = claim[i].device /\ claim'[i].request = claim[i].request
          /\ claim'[i].state = "expired"
      BY <2>3, <3>1 DEF Claims
    <3> QED BY <1>3, <2>1, <2>2, <2>4, <3>3, <3>4 DEF Refused
  <2>5. CASE i \notin Expiring
    <3>1. claim'[i] = claim[i]
      BY <1>1, <2>1, <2>5
    <3> QED BY <2>1, <2>2, <2>3, <2>5, <3>1, Rows
  <2> QED BY <2>4, <2>5
<1>6. ASSUME NEW d \in Devices, Row(d)'
      PROVE  /\ Row(d) /\ device'[d] \in DeviceRows /\ device'[d].request = device[d].request
             /\ device'[d].by = device[d].by
             /\ device'[d].revoked \/ device'[d].revoked = device[d].revoked
             /\ device[d].state # "pending" => device'[d].state = device[d].state
             /\ device'[d].state \in {device[d].state, "expired"}
             /\ ~ \E i \in Forgotten : claim[i].device = d
             /\ device'[d].state = IF \E i \in Expiring : claim[i].device = d THEN "expired" ELSE device[d].state
             /\ device'[d].revoked = FALSE => device'[d] = device[d]
  <2>1. device'[d] # NoDevice /\ ~ \E i \in Forgotten : claim[i].device = d
    BY <1>2, <1>6 DEF Row
  <2>2. CASE \E i \in Expiring : claim[i].device = d
    <3>1. PICK i \in Expiring : claim[i].device = d
      BY <2>2
    <3>2. Row(d) /\ device[d].state = "pending" /\ device[d] \in DeviceRows
      BY <1>3, <3>1, Rows
    <3>3. device'[d] = [device[d] EXCEPT !.state = "expired", !.revoked = TRUE]
      BY <1>2, <2>1, <2>2
    <3> QED BY <2>1, <2>2, <3>2, <3>3 DEF DeviceRows, States
  <2>3. CASE ~ \E i \in Expiring : claim[i].device = d
    <3>1. device'[d] = device[d] /\ Row(d)
      BY <1>2, <1>6, <2>1, <2>3 DEF Row
    <3> QED BY <2>1, <2>3, <3>1, Rows
  <2> QED BY <2>2, <2>3
<1>7. Ages
  BY <1>4, <1>5, <1>6 DEF Ages
<1>8. NobodyJoins
  BY <1>6, Rows DEF NobodyJoins, Live, DeviceRows
<1>9. ASSUME NEW i \in Invites, claim'[i] # NoClaim
      PROVE  /\ device'[claim'[i].device] # NoDevice
             /\ device'[claim'[i].device].request = claim'[i].request
             /\ PairOf[claim'[i].request] = i
             /\ device'[claim'[i].device].state = claim'[i].state
  <2>0. PICK d : d = claim[i].device
    OBVIOUS
  <2>1. /\ claim[i] # NoClaim /\ i \notin Forgotten /\ claim'[i].device = d
        /\ claim'[i].request = claim[i].request
        /\ claim'[i].state = IF i \in Expiring THEN "expired" ELSE claim[i].state
    BY <1>5, <1>9, <2>0
  <2>2. /\ d \in Devices /\ Row(d) /\ device[d].request = claim[i].request /\ PairOf[claim[i].request] = i
        /\ device[d].state = claim[i].state
    BY <2>0, <2>1, Rows
  <2>3. \A j \in Forgotten : claim[j].device # d
    BY <1>3, <2>0, <2>1, Rows
  <2>4. Row(d)'
    <3>1. device[d] \in DeviceRows
      BY <2>2, Rows
    <3>2. ~ \E j \in Forgotten : claim[j].device = d
      BY <2>3
    <3>3. device'[d] = device[d] \/ device'[d] = [device[d] EXCEPT !.state = "expired", !.revoked = TRUE]
      BY <1>2, <2>2, <3>2
    <3>4. device'[d] # NoDevice
      BY <3>1, <3>3, EndedRows
    <3> QED BY <3>4 DEF Row
  <2>5. (\E j \in Expiring : claim[j].device = d) <=> i \in Expiring
    BY <1>3, <2>0, <2>1, Rows
  <2>6. device'[d].request = device[d].request
        /\ device'[d].state = IF i \in Expiring THEN "expired" ELSE device[d].state
    <3>1. /\ device'[d].request = device[d].request
          /\ device'[d].state = IF \E j \in Expiring : claim[j].device = d THEN "expired"
                                ELSE device[d].state
      BY <1>6, <2>2, <2>4
    <3> QED BY <2>5, <3>1
  <2> QED BY <2>1, <2>2, <2>4, <2>6 DEF Row
<1>10. ASSUME NEW d \in Devices, Row(d)', device'[d].state # "active"
       PROVE  LET i == PairOf[device'[d].request] IN claim'[i] # NoClaim /\ claim'[i].device = d
  <2> DEFINE i == PairOf[device[d].request]
  <2>1. Row(d) /\ device[d].state # "active" /\ device'[d].request = device[d].request
    BY <1>6, <1>10
  <2>2. i \in Invites /\ claim[i] # NoClaim /\ claim[i].device = d /\ claim[i].state # "active"
    BY <2>1, Rows
  <2>3. i \notin Gone
    BY <1>3, <1>6, <1>10, <2>2
  <2>4. claim[i] \in Claims
    BY <2>2, Rows
  <2>5. claim'[i] # NoClaim
    <3> DEFINE b == ~HasTicket(claim[i].request)
    <3>1. b \in BOOLEAN /\ claim'[i] = IF i \in Expiring THEN [claim[i] EXCEPT !.state = "expired", !.cleaned = b]
                                       ELSE claim[i]
      BY <1>1, <2>2, <2>3
    <3> HIDE DEF b, i
    <3> QED BY <2>4, <3>1, EndedRows
  <2> QED BY <1>5, <2>1, <2>2, <2>5
<1>11. ASSUME NEW d \in Devices, Row(d)', device'[d].by # 0
       PROVE  /\ device'[d].by > d /\ device'[d].by <= created' /\ device'[d].revoked
              /\ device'[d].state \in {"active", "superseded"}
              /\ device'[device'[d].by] # NoDevice => device'[device'[d].by].state # "pending"
  <2> DEFINE b == device[d].by
  <2>1. Row(d) /\ device'[d].by = b /\ b # 0 /\ b \in Devices
    <3>1. Row(d) /\ device'[d].by = device[d].by
      BY <1>6, <1>11
    <3>2. device[d].by # 0 => device[d].by \in Devices
      BY <3>1, Rows
    <3> QED BY <1>11, <3>1, <3>2
  <2>2. /\ b > d /\ b <= created /\ device[d].revoked /\ device[d].state \in {"active", "superseded"}
        /\ Row(b) => device[b].state # "pending"
    BY <2>1, Rows
  <2>3. Row(b)' => device'[b].state # "pending"
    BY <1>6, <2>1, <2>2
  <2> QED BY <1>4, <1>6, <1>11, <2>1, <2>2, <2>3 DEF Row
<1>12. claim' \in [Invites -> Claims \cup {NoClaim}] /\ device' \in [Devices -> DeviceRows \cup {NoDevice}]
  <2>1. claim' = [i \in Invites |-> claim'[i]] /\ device' = [d \in Devices |-> device'[d]]
    BY DEF Prune
  <2> QED BY <1>5, <1>6, <2>1 DEF Row
<1>13. created' \in 0 .. MaxDevices /\ \A d \in Devices : Row(d)' => d <= created'
  BY <1>4, <1>6, Counted, Rows
<1>14. RegistryGood'
  BY <1>5, <1>9, <1>10, <1>11, <1>12, <1>13 DEF RegistryGood, Registry, Row
<1> QED BY <1>7, <1>8, <1>14

(* mark_claim_cleaned: what is cleaned has ended.                          *)
LEMMA MarkAges ==
  ASSUME PairingInv, NEW h \in Handlers, MarkCleaned(h)
  PROVE  Ages /\ NobodyJoins /\ RegistryGood'
<1>1. created' = created /\ device' = device /\ At(h) = "cleaned"
  BY DEF MarkCleaned
<1>2. CASE claim' = claim
  BY <1>1, <1>2 DEF Ages, NobodyJoins, RegistryGood, PairingInv, Live, Row
<1>3. CASE claim' # claim
  <2>1. PICK i, d : i = handler[h].item[1] /\ d = handler[h].item[2]
    OBVIOUS
  <2>2. /\ claim[i] # NoClaim /\ claim[i].device = d /\ claim' = [claim EXCEPT ![i].cleaned = TRUE]
    BY <1>3, <2>1 DEF MarkCleaned
  <2>3. i \in Invites
    BY <1>1, <2>1, Fields
  <2>4. Ended(d)
    BY <1>1, <2>1 DEF PairingInv, SecretsGood
  <2>5. claim[i].state \in Refused
    BY <2>2, <2>3, <2>4 DEF Ended
  <2>6. claim[i] \in Claims /\ claim \in [Invites -> Claims \cup {NoClaim}] /\ NoClaim \notin Claims
    BY <2>2, <2>3, Rows, PairingAssumption DEF PairingInv, Registry, PairingAssumption
  <2> DEFINE c == [claim[i] EXCEPT !.cleaned = TRUE]
  <2>7. /\ c \in Claims /\ c # NoClaim /\ c.device = claim[i].device /\ c.request = claim[i].request
        /\ c.state = claim[i].state
    BY <2>6 DEF Claims
  <2>8. claim' = [claim EXCEPT ![i] = c]
    BY <2>2
  <2> HIDE DEF c
  <2>9. claim' \in [Invites -> Claims \cup {NoClaim}]
    BY <2>3, <2>6, <2>7, <2>8
  <2>10. claim'[i] = c /\ \A j \in Invites \ {i} : claim'[j] = claim[j]
    BY <2>3, <2>6, <2>8
  <2>11. ASSUME NEW j \in Invites, claim'[j] # NoClaim
         PROVE  /\ claim[j] # NoClaim /\ claim'[j].device = claim[j].device
                /\ claim'[j].request = claim[j].request /\ claim'[j].state = claim[j].state
                /\ claim'[j].cleaned => claim[j].state \in Refused
    BY <2>2, <2>5, <2>7, <2>10, <2>11, Rows
  <2>12. Ages
    BY <1>1, <2>11 DEF Ages, Row
  <2>13. NobodyJoins
    BY <1>1 DEF NobodyJoins, Live, Row
  <2>14. \A j \in Invites : claim'[j] # NoClaim <=> claim[j] # NoClaim
    BY <2>2, <2>7, <2>10
  <2>15. RegistryGood'
    <3>1. ASSUME NEW j \in Invites, claim'[j] # NoClaim
          PROVE  /\ device'[claim'[j].device] # NoDevice
                 /\ device'[claim'[j].device].request = claim'[j].request
                 /\ PairOf[claim'[j].request] = j
                 /\ device'[claim'[j].device].state = claim'[j].state
                 /\ claim'[j].cleaned => claim'[j].state \in Refused
      BY <1>1, <2>11, <3>1, Rows DEF Row
    <3>2. ASSUME NEW e \in Devices, device[e] # NoDevice, device[e].state # "active"
          PROVE  claim'[PairOf[device[e].request]] # NoClaim /\ claim'[PairOf[device[e].request]].device = e
      BY <2>11, <2>14, <3>2, Rows DEF Row
    <3> QED BY <1>1, <2>9, <3>1, <3>2 DEF RegistryGood, Registry, PairingInv
  <2> QED BY <2>12, <2>13, <2>15
<1> QED BY <1>2, <1>3

(* revoke_device                                                           *)
LEMMA RevokeAges ==
  ASSUME PairingInv, NEW h \in Handlers, NEW d \in Devices, Revoke(h, d)
  PROVE  Ages /\ NobodyJoins /\ RegistryGood'
<1>1. created' = created /\ claim' = claim /\ Row(d) /\ device' = [device EXCEPT ![d].revoked = TRUE]
  BY DEF Revoke
<1>2. /\ device[d] \in DeviceRows /\ device \in [Devices -> DeviceRows \cup {NoDevice}]
      /\ NoDevice \notin DeviceRows
  BY <1>1, Rows, PairingAssumption DEF PairingInv, Registry, PairingAssumption
<1> DEFINE x == [device[d] EXCEPT !.revoked = TRUE]
<1>3. /\ x \in DeviceRows /\ x # NoDevice /\ x.request = device[d].request /\ x.state = device[d].state
      /\ x.by = device[d].by /\ x.revoked
  BY <1>2 DEF DeviceRows
<1>4. device' = [device EXCEPT ![d] = x]
  BY <1>1
<1> HIDE DEF x
<1>5. device' \in [Devices -> DeviceRows \cup {NoDevice}]
      /\ device'[d] = x /\ \A e \in Devices \ {d} : device'[e] = device[e]
  BY <1>2, <1>3, <1>4
<1>6. ASSUME NEW e \in Devices
      PROVE  /\ device'[e] # NoDevice <=> device[e] # NoDevice
             /\ device[e] # NoDevice =>
                  /\ device'[e].request = device[e].request /\ device'[e].state = device[e].state
                  /\ device'[e].by = device[e].by /\ (device[e].revoked => device'[e].revoked)
  BY <1>1, <1>3, <1>5 DEF Row
<1>7. Ages
  BY <1>1, <1>6 DEF Ages, Row
<1>8. NobodyJoins
  BY <1>3, <1>5 DEF NobodyJoins, Live, Row
<1>9. RegistryGood'
  <2>1. ASSUME NEW j \in Invites, claim[j] # NoClaim
        PROVE  /\ device'[claim[j].device] # NoDevice
               /\ device'[claim[j].device].request = claim[j].request
               /\ PairOf[claim[j].request] = j
               /\ device'[claim[j].device].state = claim[j].state
               /\ claim[j].cleaned => claim[j].state \in Refused
    <3>1. PICK e \in Devices : e = claim[j].device
      BY <2>1, Rows
    <3> QED BY <1>6, <2>1, <3>1, Rows DEF Row
  <2>2. ASSUME NEW e \in Devices, device'[e] # NoDevice
        PROVE  /\ e <= created
               /\ device'[e].state # "active" =>
                    /\ claim[PairOf[device'[e].request]] # NoClaim
                    /\ claim[PairOf[device'[e].request]].device = e
               /\ device'[e].by # 0 =>
                    /\ device'[e].by > e /\ device'[e].by <= created /\ device'[e].revoked
                    /\ device'[e].state \in {"active", "superseded"}
                    /\ device'[device'[e].by] # NoDevice => device'[device'[e].by].state # "pending"
    BY <1>6, <2>2, Rows DEF Row
  <2>3. claim' \in [Invites -> Claims \cup {NoClaim}] /\ created' \in 0 .. MaxDevices
    BY <1>1 DEF PairingInv, Registry
  <2> QED BY <1>1, <1>5, <2>1, <2>2, <2>3 DEF RegistryGood, Registry
<1> QED BY <1>7, <1>8, <1>9

(* rollback_created_device                                                 *)
LEMMA UndoAges ==
  ASSUME PairingInv, NEW h \in Handlers, UndoDevice(h)
  PROVE  Ages /\ NobodyJoins /\ RegistryGood'
<1>1. created' = created
  BY DEF UndoDevice
<1>2. CASE UNCHANGED <<claim, device>>
  BY <1>1, <1>2 DEF Ages, NobodyJoins, RegistryGood, PairingInv, Live, Row
<1>3. CASE ~UNCHANGED <<claim, device>>
  <2>1. PICK d : /\ d = handler[h].d /\ device' = [device EXCEPT ![d] = NoDevice]
                 /\ claim' = [i \in Invites |-> IF claim[i] # NoClaim /\ claim[i].device = d
                                                THEN NoClaim ELSE claim[i]]
    BY <1>3 DEF UndoDevice
  <2>2. /\ device \in [Devices -> DeviceRows \cup {NoDevice}]
        /\ claim \in [Invites -> Claims \cup {NoClaim}]
    BY DEF PairingInv, Registry
  <2>3. /\ device' \in [Devices -> DeviceRows \cup {NoDevice}]
        /\ \A e \in Devices : device'[e] # NoDevice => device'[e] = device[e] /\ e # d
        /\ \A e \in Devices \ {d} : device'[e] = device[e]
    BY <2>1, <2>2
  <2>4. /\ claim' \in [Invites -> Claims \cup {NoClaim}]
        /\ \A i \in Invites : claim'[i] # NoClaim => claim'[i] = claim[i] /\ claim[i].device # d
        /\ \A i \in Invites : claim[i] # NoClaim /\ claim[i].device # d => claim'[i] = claim[i]
    BY <2>1, <2>2
  <2>5. Ages
    BY <1>1, <2>3, <2>4 DEF Ages, Row
  <2>6. NobodyJoins
    BY <2>3 DEF NobodyJoins, Live, Row
  <2>7. RegistryGood'
    <3>1. ASSUME NEW i \in Invites, claim'[i] # NoClaim
          PROVE  /\ device'[claim'[i].device] # NoDevice
                 /\ device'[claim'[i].device].request = claim'[i].request
                 /\ PairOf[claim'[i].request] = i
                 /\ device'[claim'[i].device].state = claim'[i].state
                 /\ claim'[i].cleaned => claim'[i].state \in Refused
      <4>1. claim'[i] = claim[i] /\ claim[i].device \in Devices /\ claim[i].device # d
        BY <2>4, <3>1, Rows
      <4>2. device'[claim[i].device] = device[claim[i].device]
        BY <2>3, <4>1
      <4> QED BY <3>1, <4>1, <4>2, Rows DEF Row
    <3>2. ASSUME NEW e \in Devices, device'[e] # NoDevice
          PROVE  /\ e <= created
                 /\ device'[e].state # "active" =>
                      /\ claim'[PairOf[device'[e].request]] # NoClaim
                      /\ claim'[PairOf[device'[e].request]].device = e
                 /\ device'[e].by # 0 =>
                      /\ device'[e].by > e /\ device'[e].by <= created /\ device'[e].revoked
                      /\ device'[e].state \in {"active", "superseded"}
                      /\ device'[device'[e].by] # NoDevice => device'[device'[e].by].state # "pending"
      BY <2>3, <2>4, <3>2, Rows DEF Row
    <3> QED BY <1>1, <2>3, <2>4, <3>1, <3>2 DEF RegistryGood, Registry, PairingInv
  <2> QED BY <2>5, <2>6, <2>7
<1> QED BY <1>2, <1>3

(* An activation that comes too late.                                      *)
LEMMA DecideAges ==
  ASSUME PairingInv, NEW h \in Handlers, Decide(h)
  PROVE  Ages /\ NobodyJoins /\ RegistryGood'
<1>1. created' = created
  BY DEF Decide
<1>2. CASE UNCHANGED <<claim, device>>
  BY <1>1, <1>2 DEF Ages, NobodyJoins, RegistryGood, PairingInv, Live, Row
<1>3. CASE ~UNCHANGED <<claim, device>>
  <2>1. PICK i, d : i = handler[h].i /\ d = handler[h].d
    OBVIOUS
  <2>2. /\ Activable(i, d) /\ device[d].state = "pending"
        /\ \E e \in NewerRepairs(d) :
              device' = [device EXCEPT ![d].state = "superseded", ![d].revoked = TRUE, ![d].by = e]
        /\ claim' = [claim EXCEPT ![i].state = "superseded"]
    BY <1>3, <2>1 DEF Decide
  <2>3. PICK e \in NewerRepairs(d) :
              device' = [device EXCEPT ![d].state = "superseded", ![d].revoked = TRUE, ![d].by = e]
    BY <2>2
  <2>4. i \in Invites /\ d \in Devices
    BY <2>1, KindAt, Fields DEF Decide, PairingInv
  <2>5. /\ claim[i] # NoClaim /\ claim[i].device = d /\ Row(d)
    BY <2>2 DEF Activable
  <2>6. /\ claim[i] \in Claims /\ device[d] \in DeviceRows /\ claim[i].state = "pending"
        /\ device[d].request = claim[i].request /\ PairOf[claim[i].request] = i
        /\ ~claim[i].cleaned
    BY <2>2, <2>4, <2>5, Rows DEF Refused
  <2>7. /\ e \in Devices /\ Row(e) /\ device[e].state = "active" /\ e > d /\ e \in 0 .. MaxDevices
        /\ e <= created /\ e # d
    <3>1. e \in Devices /\ Row(e) /\ device[e].state = "active" /\ e > d
      BY <2>3 DEF NewerRepairs, Live
    <3> QED BY <2>4, <3>1, Rows DEF Devices
  <2> DEFINE x == [device[d] EXCEPT !.state = "superseded", !.revoked = TRUE, !.by = e]
             c == [claim[i] EXCEPT !.state = "superseded"]
  <2>8. /\ x \in DeviceRows /\ x.request = device[d].request /\ x.state = "superseded"
        /\ x.by = e /\ x.revoked /\ x # NoDevice
    BY <2>6, <2>7, PairingAssumption DEF PairingAssumption, DeviceRows, States
  <2>9. /\ c \in Claims /\ c.request = claim[i].request /\ c.state = "superseded"
        /\ c.device = d /\ c # NoClaim
    BY <2>5, <2>6, PairingAssumption DEF PairingAssumption, Claims, States
  <2>10. device' = [device EXCEPT ![d] = x] /\ claim' = [claim EXCEPT ![i] = c]
    BY <2>2, <2>3
  <2> HIDE DEF x, c
  <2>11. /\ device' \in [Devices -> DeviceRows \cup {NoDevice}] /\ device'[d] = x
         /\ \A f \in Devices \ {d} : device'[f] = device[f]
         /\ claim' \in [Invites -> Claims \cup {NoClaim}] /\ claim'[i] = c
         /\ \A j \in Invites \ {i} : claim'[j] = claim[j]
    BY <2>4, <2>8, <2>9, <2>10 DEF PairingInv, Registry
  <2>12. Ages
    <3>1. ASSUME NEW j \in Invites, claim'[j] # NoClaim
          PROVE  /\ claim[j] # NoClaim /\ claim'[j].device = claim[j].device
                 /\ claim'[j].request = claim[j].request
                 /\ claim[j].state # "pending" => claim'[j].state = claim[j].state
      BY <2>5, <2>6, <2>9, <2>11, <3>1
    <3>2. ASSUME NEW f \in Devices, Row(f)'
          PROVE  /\ Row(f) /\ device'[f].request = device[f].request
                 /\ device[f].state # "pending" => device'[f].state = device[f].state
                 /\ \/ device'[f].by = device[f].by
                    \/ device[f].state = "pending" /\ device'[f].state \in Refused
      BY <2>2, <2>5, <2>8, <2>11, <3>2 DEF Row, Refused
    <3> QED BY <1>1, <3>1, <3>2 DEF Ages
  <2>13. NobodyJoins
    BY <2>8, <2>11 DEF NobodyJoins, Live, Row
  <2>14. RegistryGood'
    <3>1. ASSUME NEW j \in Invites, claim'[j] # NoClaim
          PROVE  /\ device'[claim'[j].device] # NoDevice
                 /\ device'[claim'[j].device].request = claim'[j].request
                 /\ PairOf[claim'[j].request] = j
                 /\ device'[claim'[j].device].state = claim'[j].state
                 /\ claim'[j].cleaned => claim'[j].state \in Refused
      <4>1. CASE j = i
        BY <2>6, <2>8, <2>9, <2>11, <4>1 DEF Refused
      <4>2. CASE j # i
        <5>1. claim'[j] = claim[j] /\ claim[j].device \in Devices /\ claim[j].device # d
          BY <2>4, <2>5, <2>11, <3>1, <4>2, Rows
        <5>2. device'[claim[j].device] = device[claim[j].device]
          BY <2>11, <5>1
        <5> QED BY <3>1, <5>1, <5>2, Rows DEF Row
      <4> QED BY <4>1, <4>2
    <3>2. ASSUME NEW f \in Devices, device'[f] # NoDevice
          PROVE  /\ f <= created
                 /\ device'[f].state # "active" =>
                      /\ claim'[PairOf[device'[f].request]] # NoClaim
                      /\ claim'[PairOf[device'[f].request]].device = f
                 /\ device'[f].by # 0 =>
                      /\ device'[f].by > f /\ device'[f].by <= created /\ device'[f].revoked
                      /\ device'[f].state \in {"active", "superseded"}
                      /\ device'[device'[f].by] # NoDevice => device'[device'[f].by].state # "pending"
      <4>1. CASE f = d
        BY <2>4, <2>5, <2>6, <2>7, <2>8, <2>9, <2>11, <4>1, Rows DEF Row
      <4>2. CASE f # d
        <5>1. device'[f] = device[f] /\ Row(f)
          BY <2>11, <3>2, <4>2 DEF Row
        <5>2. device[f].state # "active" =>
                  LET j == PairOf[device[f].request] IN claim'[j] # NoClaim /\ claim'[j].device = f
          BY <2>5, <2>11, <4>2, <5>1, Rows
        <5> QED BY <2>8, <2>11, <5>1, <5>2, Rows DEF Row
      <4> QED BY <4>1, <4>2
    <3> QED BY <1>1, <2>11, <3>1, <3>2 DEF RegistryGood, Registry, PairingInv
  <2> QED BY <2>12, <2>13, <2>14
<1> QED BY <1>2, <1>3

(* Who commits an activation: the pending device of its claim, and nobody  *)
(* newer has the place.                                                    *)
LEMMA Committing ==
  ASSUME PairingInv, NEW h \in Handlers, At(h) = "commit"
  PROVE  /\ handler[h].kind = "activate" /\ handler[h].d \in Devices /\ handler[h].i \in Invites
         /\ Row(handler[h].d) /\ device[handler[h].d].state \in {"pending", "active"}
         /\ device[handler[h].d].state = "pending" =>
              /\ NewerRepairs(handler[h].d) = {} /\ claim[handler[h].i] # NoClaim
              /\ claim[handler[h].i].device = handler[h].d
<1>1. handler[h].kind = "activate" /\ handler[h].d \in Devices /\ handler[h].i \in Invites
  BY KindAt, Fields DEF PairingInv
<1>2. ActivatingGood(handler[h])
  BY DEF PairingInv, LockedGood
<1> QED BY <1>1, <1>2 DEF ActivatingGood, At

(* What the commit of an activation writes.                                *)
LEMMA ActivateRows ==
  ASSUME PairingInv, NEW h \in Handlers, At(h) = "commit", NEW d, d = handler[h].d,
         NEW i, i = handler[h].i, device[d].state = "pending", Activate(h)
  PROVE  /\ d \in Devices /\ i \in Invites /\ Row(d) /\ claim[i] # NoClaim /\ claim[i].device = d
         /\ claim[i].state = "pending" /\ device[d].by = 0 /\ NewerRepairs(d) = {}
         /\ device' \in [Devices -> DeviceRows \cup {NoDevice}]
         /\ claim' \in [Invites -> Claims \cup {NoClaim}]
         /\ Row(d)' /\ device'[d].request = device[d].request /\ device'[d].state = "active"
         /\ device'[d].by = 0 /\ device'[d].revoked = device[d].revoked
         /\ \A e \in Replaced(d) :
              /\ e \in Devices /\ e < d /\ Row(e) /\ device[e].state = "active"
              /\ Row(e)' /\ device'[e].request = device[e].request /\ device'[e].state = "active"
              /\ device'[e].by = d /\ device'[e].revoked
         /\ \A e \in Devices \ {d} : e \notin Replaced(d) => device'[e] = device[e]
         /\ claim'[i] # NoClaim /\ claim'[i].device = d /\ claim'[i].request = claim[i].request
         /\ claim'[i].state = "active" /\ ~claim'[i].cleaned
         /\ \A j \in Invites \ {i} : claim'[j] = claim[j]
<1>1. /\ d \in Devices /\ i \in Invites /\ Row(d) /\ NewerRepairs(d) = {}
      /\ claim[i] # NoClaim /\ claim[i].device = d
  BY Committing
<1>2. /\ claim[i].state = "pending" /\ claim[i] \in Claims /\ device[d] \in DeviceRows
      /\ ~claim[i].cleaned
  BY <1>1, Rows DEF Refused
<1>3. device[d].by = 0
  BY <1>1, Rows
<1>4. \A e \in Replaced(d) : e \in Devices /\ Live(e) /\ SameRelay(e, d) /\ e # d /\ e < d
  BY <1>1 DEF Replaced, NewerRepairs, Devices
<1>5. /\ device' = [e \in Devices |->
           IF e = d THEN [device[e] EXCEPT !.state = "active"]
           ELSE IF e \in Replaced(d) THEN [device[e] EXCEPT !.revoked = TRUE, !.by = d]
           ELSE device[e]]
      /\ claim' = [claim EXCEPT ![i].state = "active"]
  BY DEF Activate
<1> DEFINE Won(x) == [x EXCEPT !.state = "active"]
           Lost(x) == [x EXCEPT !.revoked = TRUE, !.by = d]
<1>6. /\ \A x \in DeviceRows :
           /\ Won(x) \in DeviceRows /\ Won(x).request = x.request /\ Won(x).state = "active"
           /\ Won(x).by = x.by /\ Won(x).revoked = x.revoked
           /\ Lost(x) \in DeviceRows /\ Lost(x).request = x.request /\ Lost(x).state = x.state
           /\ Lost(x).by = d /\ Lost(x).revoked
      /\ \A c \in Claims : [c EXCEPT !.state = "active"] \in Claims
      /\ NoDevice \notin DeviceRows /\ NoClaim \notin Claims
  <2>1. d \in 0 .. MaxDevices
    BY <1>1, Counted DEF Devices
  <2> QED BY <2>1, PairingAssumption DEF PairingAssumption, DeviceRows, Claims, States
<1>7. \A e \in Devices : device[e] \in DeviceRows \cup {NoDevice}
  BY DEF PairingInv, Registry
<1>8. \A e \in Replaced(d) : Row(e) /\ device[e].state = "active" /\ device[e] \in DeviceRows
  BY <1>4, Rows DEF Live
<1>9. /\ device'[d] = Won(device[d])
      /\ \A e \in Replaced(d) : device'[e] = Lost(device[e])
      /\ \A e \in Devices \ {d} : e \notin Replaced(d) => device'[e] = device[e]
  BY <1>1, <1>4, <1>5
<1> HIDE DEF Won, Lost
<1>10. device' \in [Devices -> DeviceRows \cup {NoDevice}]
  <2>1. \A e \in Devices : device'[e] \in DeviceRows \cup {NoDevice}
    BY <1>2, <1>6, <1>7, <1>8, <1>9
  <2> QED BY <1>5, <2>1
<1>11. /\ Row(d)' /\ device'[d].request = device[d].request /\ device'[d].state = "active"
       /\ device'[d].by = 0 /\ device'[d].revoked = device[d].revoked
  BY <1>1, <1>2, <1>3, <1>6, <1>9 DEF Row
<1>12. ASSUME NEW e \in Replaced(d)
       PROVE  /\ Row(e)' /\ device'[e].request = device[e].request /\ device'[e].state = "active"
              /\ device'[e].by = d /\ device'[e].revoked
  BY <1>6, <1>8, <1>9 DEF Row
<1> DEFINE c == [claim[i] EXCEPT !.state = "active"]
<1>13. /\ c \in Claims /\ c.device = d /\ c.request = claim[i].request /\ c.state = "active"
       /\ ~c.cleaned /\ c # NoClaim /\ claim' = [claim EXCEPT ![i] = c]
  BY <1>1, <1>2, <1>5, <1>6 DEF Claims
<1> HIDE DEF c
<1>14. claim \in [Invites -> Claims \cup {NoClaim}]
  BY DEF PairingInv, Registry
<1>15. /\ claim' \in [Invites -> Claims \cup {NoClaim}] /\ claim'[i] = c
       /\ \A j \in Invites \ {i} : claim'[j] = claim[j]
  BY <1>1, <1>13, <1>14
<1> QED BY <1>1, <1>2, <1>3, <1>4, <1>8, <1>9, <1>10, <1>11, <1>12, <1>13, <1>15

(* activate_pending_claim: the device takes the place of the earlier ones. *)
LEMMA ActivateAges ==
  ASSUME PairingInv, NEW h \in Handlers, Commit(h)
  PROVE  Ages /\ OneLiveDevicePerPhone' /\ RegistryGood'
<1>1. created' = created /\ At(h) = "commit"
  BY DEF Commit
<1>2. CASE UNCHANGED <<claim, device>>
  BY <1>1, <1>2 DEF Ages, OneLiveDevicePerPhone, RegistryGood, PairingInv, Live, Row, SameRelay
<1>3. CASE ~UNCHANGED <<claim, device>>
  <2>1. PICK i, d : i = handler[h].i /\ d = handler[h].d
    OBVIOUS
  <2>2. device[d].state = "pending" /\ Activate(h)
    BY <1>3, <2>1 DEF Commit, Reactivate
  <2>3. /\ d \in Devices /\ i \in Invites /\ Row(d) /\ claim[i] # NoClaim /\ claim[i].device = d
        /\ claim[i].state = "pending" /\ device[d].by = 0 /\ NewerRepairs(d) = {}
        /\ device' \in [Devices -> DeviceRows \cup {NoDevice}]
        /\ claim' \in [Invites -> Claims \cup {NoClaim}]
        /\ Row(d)' /\ device'[d].request = device[d].request /\ device'[d].state = "active"
        /\ device'[d].by = 0 /\ device'[d].revoked = device[d].revoked
        /\ claim'[i] # NoClaim /\ claim'[i].device = d /\ claim'[i].request = claim[i].request
        /\ claim'[i].state = "active" /\ ~claim'[i].cleaned
        /\ \A j \in Invites \ {i} : claim'[j] = claim[j]
    BY <1>1, <2>1, <2>2, ActivateRows
  <2>4. /\ \A e \in Replaced(d) :
              /\ e \in Devices /\ e < d /\ Row(e) /\ device[e].state = "active"
              /\ Row(e)' /\ device'[e].request = device[e].request /\ device'[e].state = "active"
              /\ device'[e].by = d /\ device'[e].revoked
        /\ \A e \in Devices \ {d} : e \notin Replaced(d) => device'[e] = device[e]
    BY <1>1, <2>1, <2>2, ActivateRows
  <2>5. ASSUME NEW e \in Devices, Row(e)'
        PROVE  /\ Row(e) /\ device'[e].request = device[e].request
               /\ device[e].state # "pending" => device'[e].state = device[e].state
               /\ device'[e].state = device[e].state \/ (e = d /\ device'[e].state = "active")
               /\ device'[e].by = device[e].by \/ (e \in Replaced(d) /\ device'[e].by = d)
               /\ device'[e].revoked = device[e].revoked \/ (e \in Replaced(d) /\ device'[e].revoked)
    BY <2>2, <2>3, <2>4, <2>5 DEF Row
  <2>6. Ages
    <3>1. ASSUME NEW j \in Invites, claim'[j] # NoClaim
          PROVE  /\ claim[j] # NoClaim /\ claim'[j].device = claim[j].device
                 /\ claim'[j].request = claim[j].request
                 /\ claim[j].state # "pending" => claim'[j].state = claim[j].state
      BY <2>3, <3>1
    <3>2. ASSUME NEW e \in Devices, Row(e)'
          PROVE  \/ device'[e].by = device[e].by
                 \/ Row(device'[e].by) /\ device[device'[e].by].state = "pending"
      BY <2>2, <2>3, <2>5, <3>2
    <3> QED BY <1>1, <2>5, <3>1, <3>2 DEF Ages
  <2>7. OneLiveDevicePerPhone'
    <3>1. ASSUME NEW e \in Devices, Live(e)' PROVE e = d \/ (Live(e) /\ e \notin Replaced(d))
      <4>1. Row(e)' /\ device'[e].state = "active" /\ ~device'[e].revoked
        BY <3>1 DEF Live
      <4>2. e # d => e \notin Replaced(d) /\ device'[e] = device[e]
        BY <2>4, <4>1
      <4> QED BY <4>1, <4>2, <2>5 DEF Live
    <3>2. ASSUME NEW e \in Devices, NEW f \in Devices, Live(e)', Live(f)', SameRelay(e, f)'
          PROVE  e = f
      <4>1. device'[e].request = device[e].request /\ device'[f].request = device[f].request
        BY <2>5, <3>2 DEF Live
      <4>2. SameRelay(e, f) /\ SameRelay(f, e)
        BY <3>2, <4>1 DEF SameRelay
      <4>3. CASE e = d \/ f = d
        BY <3>1, <3>2, <4>2, <4>3 DEF Replaced
      <4>4. CASE e # d /\ f # d
        BY <3>1, <3>2, <4>2, <4>4 DEF PairingInv, OneLiveDevicePerPhone
      <4> QED BY <4>3, <4>4
    <3> QED BY <3>2 DEF OneLiveDevicePerPhone
  <2>8. RegistryGood'
    <3>1. ASSUME NEW j \in Invites, claim'[j] # NoClaim
          PROVE  /\ device'[claim'[j].device] # NoDevice
                 /\ device'[claim'[j].device].request = claim'[j].request
                 /\ PairOf[claim'[j].request] = j
                 /\ device'[claim'[j].device].state = claim'[j].state
                 /\ claim'[j].cleaned => claim'[j].state \in Refused
      <4>1. CASE j = i
        BY <2>3, <4>1, Rows DEF Row
      <4>2. CASE j # i
        <5>1. PICK e : e = claim[j].device
          OBVIOUS
        <5>2. claim'[j] = claim[j] /\ e \in Devices /\ Row(e) /\ e # d
          BY <2>3, <3>1, <4>2, <5>1, Rows
        <5>3. /\ device'[e] # NoDevice /\ device'[e].request = device[e].request
              /\ device'[e].state = device[e].state
          BY <2>4, <5>2 DEF Row
        <5> QED BY <3>1, <5>1, <5>2, <5>3, Rows
      <4> QED BY <4>1, <4>2
    <3>2. ASSUME NEW e \in Devices, device'[e] # NoDevice
          PROVE  /\ e <= created
                 /\ device'[e].state # "active" =>
                      /\ claim'[PairOf[device'[e].request]] # NoClaim
                      /\ claim'[PairOf[device'[e].request]].device = e
                 /\ device'[e].by # 0 =>
                      /\ device'[e].by > e /\ device'[e].by <= created /\ device'[e].revoked
                      /\ device'[e].state \in {"active", "superseded"}
                      /\ device'[device'[e].by] # NoDevice => device'[device'[e].by].state # "pending"
      <4>1. CASE e = d
        BY <2>3, <4>1, Rows
      <4>2. CASE e \in Replaced(d)
        BY <2>3, <2>4, <4>2, Rows DEF Devices
      <4>3. CASE e # d /\ e \notin Replaced(d)
        <5>1. device'[e] = device[e] /\ Row(e)
          BY <2>4, <3>2, <4>3 DEF Row
        <5>2. device[e].state # "active" => /\ claim'[PairOf[device[e].request]] # NoClaim
                                            /\ claim'[PairOf[device[e].request]].device = e
          BY <2>3, <4>3, <5>1, Rows
        <5>3. ASSUME device[e].by # 0, device'[device[e].by] # NoDevice
              PROVE  device'[device[e].by].state # "pending"
          <6>1. PICK b \in Devices : b = device[e].by
            BY <5>1, <5>3, Rows
          <6>2. Row(b) /\ (device[b].state # "pending" => device'[b].state = device[b].state)
            BY <2>5, <5>3, <6>1 DEF Row
          <6> QED BY <5>1, <5>3, <6>1, <6>2, Rows
        <5> QED BY <5>1, <5>2, <5>3, Rows
      <4> QED BY <4>1, <4>2, <4>3
    <3> QED BY <1>1, <2>3, <3>1, <3>2, Rows DEF RegistryGood, Registry, PairingInv, Row
  <2> QED BY <2>6, <2>7, <2>8
<1> QED BY <1>2, <1>3

(* create_pending_device: what one step adds.                              *)
Adds(h, d, i, q) ==
    /\ handler[h].i = i /\ handler[h].q = q /\ d = created + 1 /\ created' = d
    /\ d \in Devices /\ i \in Invites /\ q \in Requests /\ PairOf[q] = i
    /\ claim[i] = NoClaim /\ ~Row(d) /\ ~Taken(i) /\ i \in files /\ i \in markers
    /\ device' \in [Devices -> DeviceRows \cup {NoDevice}]
    /\ claim' \in [Invites -> Claims \cup {NoClaim}]
    /\ Row(d)' /\ device'[d].request = q /\ device'[d].state = "pending"
    /\ ~device'[d].revoked /\ device'[d].by = 0
    /\ \A e \in Devices \ {d} : device'[e] = device[e]
    /\ claim'[i] # NoClaim /\ claim'[i].device = d /\ claim'[i].request = q
    /\ claim'[i].state = "pending" /\ ~claim'[i].cleaned
    /\ \A j \in Invites \ {i} : claim'[j] = claim[j]

(* create_pending_claim adds one device and its claim.                     *)
LEMMA CreateAdds ==
  ASSUME PairingInv, NEW h \in Handlers, CreateDevice(h)
  PROVE  UNCHANGED registry \/ \E d, i, q : Adds(h, d, i, q)
<1>1. At(h) = "create" /\ handler[h].kind = "claim"
  BY KindAt DEF CreateDevice, PairingInv, ClaimPcs
<1>2. PICK i, q, d : i = handler[h].i /\ q = handler[h].q /\ d = created + 1
  OBVIOUS
<1>3. i \in Invites /\ q \in Requests /\ PairOf[q] = i
  BY <1>1, <1>2, Fields
<1>4. i \in files /\ i \in markers /\ ~Taken(i)
  BY <1>1, <1>2 DEF PairingInv, LockedGood, ClaimingGood, At
<1>5. CASE UNCHANGED registry
  BY <1>5
<1>6. CASE ~UNCHANGED registry
  <2> DEFINE x == [request |-> q, state |-> "pending", revoked |-> FALSE, by |-> 0]
             c == [device |-> d, request |-> q, state |-> "pending", cleaned |-> FALSE]
  <2>1. /\ claim[i] = NoClaim /\ created < MaxDevices /\ created' = d
        /\ device' = [device EXCEPT ![d] = x] /\ claim' = [claim EXCEPT ![i] = c]
    BY <1>2, <1>6 DEF CreateDevice, registry, registryVars
  <2>2. d \in Devices /\ 0 \in 0 .. MaxDevices /\ ~Row(d)
    BY <1>2, <2>1, Counted, Rows DEF Devices
  <2>3. x \in DeviceRows /\ c \in Claims
    BY <1>3, <2>2 DEF DeviceRows, Claims, States
  <2>4. NoDevice \notin DeviceRows /\ NoClaim \notin Claims
    BY PairingAssumption DEF PairingAssumption
  <2>5. /\ x.request = q /\ x.state = "pending" /\ ~x.revoked /\ x.by = 0
        /\ c.device = d /\ c.request = q /\ c.state = "pending" /\ ~c.cleaned
    OBVIOUS
  <2> HIDE DEF x, c
  <2>6. /\ device \in [Devices -> DeviceRows \cup {NoDevice}]
        /\ claim \in [Invites -> Claims \cup {NoClaim}]
    BY DEF PairingInv, Registry
  <2>7. /\ device' \in [Devices -> DeviceRows \cup {NoDevice}] /\ device'[d] = x
        /\ \A e \in Devices \ {d} : device'[e] = device[e]
        /\ claim' \in [Invites -> Claims \cup {NoClaim}] /\ claim'[i] = c
        /\ \A j \in Invites \ {i} : claim'[j] = claim[j]
    BY <1>3, <2>1, <2>2, <2>3, <2>6
  <2>8. x # NoDevice /\ c # NoClaim
    BY <2>3, <2>4
  <2>9. device'[d] # NoDevice
    BY <2>7, <2>8
  <2>10. Adds(h, d, i, q)
    BY <1>2, <1>3, <1>4, <2>1, <2>2, <2>5, <2>7, <2>8, <2>9 DEF Adds, Row
  <2> QED BY <2>10
<1> QED BY <1>5, <1>6

(* One new device and its claim: the registry stays good.                  *)
LEMMA AddsKeeps ==
  ASSUME PairingInv, NEW h \in Handlers, NEW d, NEW i, NEW q, Adds(h, d, i, q)
  PROVE  OneUsable' /\ OneLiveDevicePerPhone' /\ RegistryGood'
<1>1. /\ d = created + 1 /\ created' = d /\ d \in Devices /\ i \in Invites /\ q \in Requests
      /\ PairOf[q] = i /\ claim[i] = NoClaim /\ ~Row(d) /\ ~Taken(i)
      /\ device' \in [Devices -> DeviceRows \cup {NoDevice}]
      /\ claim' \in [Invites -> Claims \cup {NoClaim}]
      /\ Row(d)' /\ device'[d].request = q /\ device'[d].state = "pending"
      /\ ~device'[d].revoked /\ device'[d].by = 0
      /\ \A e \in Devices \ {d} : device'[e] = device[e]
      /\ claim'[i] # NoClaim /\ claim'[i].device = d /\ claim'[i].request = q
      /\ claim'[i].state = "pending" /\ ~claim'[i].cleaned
      /\ \A j \in Invites \ {i} : claim'[j] = claim[j]
  BY DEF Adds
<1>2. OneUsable'
  <2>1. ASSUME NEW e \in Devices, NEW j \in Invites, UsableFor(e, j)'
        PROVE  (e = d /\ j = i) \/ (UsableFor(e, j) /\ e # d /\ j # i)
    <3>1. CASE e = d
      BY <1>1, <2>1, <3>1 DEF UsableFor, Usable
    <3>2. CASE e # d
      <4>1. device'[e] = device[e]
        BY <1>1, <3>2
      <4>2. UsableFor(e, j)
        BY <2>1, <4>1 DEF UsableFor, Usable, Row
      <4> QED BY <1>1, <3>2, <4>2 DEF Taken
    <3> QED BY <3>1, <3>2
  <2> QED BY <2>1 DEF OneUsable, PairingInv
<1>3. OneLiveDevicePerPhone'
  <2>1. ASSUME NEW e \in Devices, Live(e)' PROVE Live(e) /\ e # d /\ device'[e] = device[e]
    BY <1>1, <2>1 DEF Live, Row
  <2> QED BY <2>1 DEF OneLiveDevicePerPhone, SameRelay, PairingInv
<1>4. RegistryGood'
  <2>1. ASSUME NEW j \in Invites, claim'[j] # NoClaim
        PROVE  /\ device'[claim'[j].device] # NoDevice
               /\ device'[claim'[j].device].request = claim'[j].request
               /\ PairOf[claim'[j].request] = j
               /\ device'[claim'[j].device].state = claim'[j].state
               /\ claim'[j].cleaned => claim'[j].state \in Refused
    <3>1. CASE j = i
      BY <1>1, <3>1 DEF Row
    <3>2. CASE j # i
      <4>1. PICK e : e = claim[j].device
        OBVIOUS
      <4>2. claim'[j] = claim[j] /\ e \in Devices /\ Row(e) /\ e # d
        BY <1>1, <2>1, <3>2, <4>1, Rows
      <4>3. device'[e] = device[e]
        BY <1>1, <4>2
      <4> QED BY <2>1, <4>1, <4>2, <4>3, Rows DEF Row
    <3> QED BY <3>1, <3>2
  <2>2. ASSUME NEW e \in Devices, device'[e] # NoDevice
        PROVE  /\ e <= created'
               /\ device'[e].state # "active" =>
                    /\ claim'[PairOf[device'[e].request]] # NoClaim
                    /\ claim'[PairOf[device'[e].request]].device = e
               /\ device'[e].by # 0 =>
                    /\ device'[e].by > e /\ device'[e].by <= created' /\ device'[e].revoked
                    /\ device'[e].state \in {"active", "superseded"}
                    /\ device'[device'[e].by] # NoDevice => device'[device'[e].by].state # "pending"
    <3>1. CASE e = d
      BY <1>1, <3>1, Counted
    <3>2. CASE e # d
      <4>1. device'[e] = device[e] /\ Row(e)
        BY <1>1, <2>2, <3>2 DEF Row
      <4>2. device[e] \in DeviceRows /\ e <= created /\ created \in Nat
        BY <4>1, Rows, Counted
      <4>3. device[e].state # "active" => /\ claim'[PairOf[device[e].request]] # NoClaim
                                          /\ claim'[PairOf[device[e].request]].device = e
        BY <1>1, <3>2, <4>1, Rows
      <4>4. ASSUME device[e].by # 0
            PROVE  /\ device[e].by > e /\ device[e].by <= created' /\ device[e].revoked
                   /\ device[e].state \in {"active", "superseded"}
                   /\ device'[device[e].by] # NoDevice => device'[device[e].by].state # "pending"
        <5>1. PICK b \in Devices : b = device[e].by
          BY <4>1, <4>4, Rows
        <5>2. /\ b > e /\ b <= created /\ device[e].revoked /\ device[e].state \in {"active", "superseded"}
              /\ Row(b) => device[b].state # "pending"
          BY <4>1, <4>4, <5>1, Rows
        <5>3. device'[b] = device[b] /\ b <= created'
          BY <1>1, <4>2, <5>1, <5>2 DEF Devices
        <5> QED BY <5>1, <5>2, <5>3 DEF Row
      <4>5. e <= created'
        BY <1>1, <4>2 DEF Devices
      <4> QED BY <4>1, <4>3, <4>4, <4>5
    <3> QED BY <3>1, <3>2
  <2>3. created' \in 0 .. MaxDevices
    BY <1>1, Counted DEF Devices
  <2>4. /\ claim' \in [Invites -> Claims \cup {NoClaim}]
        /\ device' \in [Devices -> DeviceRows \cup {NoDevice}]
    BY <1>1
  <2> QED BY <2>1, <2>2, <2>3, <2>4 DEF RegistryGood, Registry
<1> QED BY <1>2, <1>3, <1>4

(* One step and the registry.                                              *)
LEMMA RegistrySteps ==
  ASSUME PairingInv, [PairingNext]_vars
  PROVE  Ages \/ \E h \in Handlers : CreateDevice(h) /\ \E d, i, q : Adds(h, d, i, q)
<1>1. CASE UNCHANGED registry
  BY <1>1 DEF Ages, registry, Row
<1>2. CASE ~UNCHANGED registry
  <2>1. PICK h \in Handlers : RegistryStep(h)
    <3>1. Outside \/ Crash => UNCHANGED registry
      BY OutsideTouches DEF Crash, registryVars, registry
    <3>2. \A h \in Handlers : ThreadStep(h) => RegistryStep(h)
      BY <1>2, ThreadTouches DEF ThreadStep
    <3> QED BY <1>2, <3>1, <3>2, NextIs
  <2>2. Prune(h) => Ages
    BY PruneAges
  <2>3. MarkCleaned(h) => Ages
    BY MarkAges
  <2>4. UndoDevice(h) => Ages
    BY UndoAges
  <2>5. Decide(h) => Ages
    BY DecideAges
  <2>6. Commit(h) => Ages
    BY ActivateAges
  <2>7. ASSUME NEW d \in Devices, Revoke(h, d) PROVE Ages
    BY <2>7, RevokeAges
  <2>8. CASE CreateDevice(h)
    BY <1>2, <2>8, CreateAdds
  <2> QED BY <2>1, <2>2, <2>3, <2>4, <2>5, <2>6, <2>7, <2>8 DEF RegistryStep
<1> QED BY <1>1, <1>2

(* Every step keeps the registry's three parts.                            *)
LEMMA RegistryStaysGood ==
  ASSUME PairingInv, [PairingNext]_vars
  PROVE  RegistryGood' /\ OneUsable' /\ OneLiveDevicePerPhone'
<1>1. CASE UNCHANGED registry
  BY <1>1 DEF RegistryGood, OneUsable, OneLiveDevicePerPhone, UsableFor, Usable, Live, SameRelay,
              Row, registry, PairingInv
<1>2. CASE ~UNCHANGED registry
  <2>1. PICK h \in Handlers : RegistryStep(h)
    <3>1. Outside \/ Crash => UNCHANGED registry
      BY OutsideTouches DEF Crash, registryVars, registry
    <3>2. \A h \in Handlers : ThreadStep(h) => RegistryStep(h)
      BY <1>2, ThreadTouches DEF ThreadStep
    <3> QED BY <1>2, <3>1, <3>2, NextIs
  <2>2. Prune(h) => Ages /\ NobodyJoins /\ RegistryGood'
    BY PruneAges
  <2>3. MarkCleaned(h) => Ages /\ NobodyJoins /\ RegistryGood'
    BY MarkAges
  <2>4. UndoDevice(h) => Ages /\ NobodyJoins /\ RegistryGood'
    BY UndoAges
  <2>5. Decide(h) => Ages /\ NobodyJoins /\ RegistryGood'
    BY DecideAges
  <2>6. Commit(h) => Ages /\ OneLiveDevicePerPhone' /\ RegistryGood'
    BY ActivateAges
  <2>7. ASSUME NEW d \in Devices, Revoke(h, d) PROVE Ages /\ NobodyJoins /\ RegistryGood'
    BY <2>7, RevokeAges
  <2>8. ASSUME CreateDevice(h) PROVE OneUsable' /\ OneLiveDevicePerPhone' /\ RegistryGood'
    BY <1>2, <2>8, CreateAdds, AddsKeeps
  <2> QED BY <2>1, <2>2, <2>3, <2>4, <2>5, <2>6, <2>7, <2>8, AgesKeeps DEF RegistryStep
<1> QED BY <1>1, <1>2
-----------------------------------------------------------------------------
(* Where a thread goes.                                                    *)
Others(h) == \A g \in Handlers \ {h} : handler'[g] = handler[g]
Keeps(h) == /\ handler'[h].kind = handler[h].kind /\ handler'[h].q = handler[h].q
            /\ handler'[h].i = handler[h].i /\ handler'[h].remote = handler[h].remote
Goes(h, to) == Keeps(h) /\ handler'[h].d = handler[h].d /\ At(h)' \in to
LEMMA GotoGoes ==
  ASSUME HandlersGood, NEW h \in Handlers, NEW p, Goto(h, p)
  PROVE  Others(h) /\ Goes(h, {p}) /\ handler'[h].todo = handler[h].todo
                   /\ handler'[h].item = handler[h].item
BY DEF HandlersGood, HandlerRecords, Goto, Others, Keeps, Goes, At

LEMMA FinishGoes ==
  ASSUME HandlersGood, NEW h \in Handlers, Finish(h)
  PROVE  Others(h) /\ handler'[h] = Idle /\ At(h)' = "idle"
BY DEF HandlersGood, Finish, Others, At, Idle

(* Cleaning up.                                                            *)
LEMMA CleanGoes ==
  ASSUME HandlersGood, NEW h \in Handlers
  PROVE  /\ Prune(h) => Others(h) /\ Goes(h, {"clean", "resume", "decide", "records"})
         /\ CleanSecret(h) => Others(h) /\ Goes(h, Cleaning)
         /\ MarkCleaned(h) => Others(h) /\ Goes(h, {"clean"}) /\ handler'[h].todo = handler[h].todo
         /\ CleanDone(h) => Others(h) /\ Goes(h, {"resume", "decide", "records", "reject"})
         /\ PruneRecords(h) => Others(h) /\ Goes(h, {"sweep", "open"})
         /\ OpenInvite(h) \/ Sweep(h) => Others(h) /\ handler'[h] = Idle
<1>1. handler \in [Handlers -> HandlerRecords]
  BY DEF HandlersGood
<1>2. /\ handler[h].kind \in {"claim", "activate", "start", "boot"}
           => Cleaned(h) \in {"resume", "decide", "records"}
      /\ handler[h].kind \in {"claim", "activate", "start", "boot", "rejected"}
           => Cleaned(h) \in {"resume", "decide", "records", "reject"}
  BY DEF Cleaned, AfterCleaning
<1>3. ASSUME Prune(h) PROVE Others(h) /\ Goes(h, {"clean", "resume", "decide", "records"})
  <2>1. At(h) \in {"prune", "lock"}
    BY <1>3 DEF Prune
  <2>2. PICK p, S : handler' = [handler EXCEPT ![h].todo = S, ![h].pc = p] /\ (p = Cleaned(h) \/ p = "clean")
    BY <1>3 DEF Prune
  <2>3. p \in {"clean", "resume", "decide", "records"}
    BY <1>2, <2>1, <2>2, KindAt
  <2> QED BY <1>1, <2>2, <2>3 DEF HandlerRecords, Others, Keeps, Goes, At
<1>4. ASSUME CleanSecret(h) PROVE Others(h) /\ Goes(h, Cleaning)
  <2>1. PICK p, S, x : /\ handler' = [handler EXCEPT ![h].pc = p, ![h].item = x, ![h].todo = S]
                          \/ handler' = [handler EXCEPT ![h].todo = S]
                       /\ p \in Cleaning /\ At(h) \in Cleaning
    BY <1>4 DEF CleanSecret, Cleaning
  <2> QED BY <1>1, <2>1 DEF HandlerRecords, Others, Keeps, Goes, At
<1>5. ASSUME MarkCleaned(h)
      PROVE  Others(h) /\ Goes(h, {"clean"}) /\ handler'[h].todo = handler[h].todo
  BY <1>1, <1>5 DEF MarkCleaned, HandlerRecords, Others, Keeps, Goes, At
<1>6. ASSUME CleanDone(h) PROVE Others(h) /\ Goes(h, {"resume", "decide", "records", "reject"})
  <2>1. Cleaned(h) \in {"resume", "decide", "records", "reject"}
    BY <1>2, <1>6, KindAt DEF CleanDone, Cleaning
  <2> QED BY <1>6, <2>1, GotoGoes DEF CleanDone, Goes
<1>7. ASSUME PruneRecords(h) PROVE Others(h) /\ Goes(h, {"sweep", "open"})
  BY <1>7, GotoGoes DEF PruneRecords, Goes
<1>8. ASSUME OpenInvite(h) \/ Sweep(h) PROVE Others(h) /\ handler'[h] = Idle
  BY <1>8, FinishGoes DEF OpenInvite, Sweep
<1> QED BY <1>3, <1>4, <1>5, <1>6, <1>7, <1>8

(* Claiming.                                                               *)
LEMMA ClaimGoes ==
  ASSUME HandlersGood, NEW h \in Handlers
  PROVE  /\ Resume(h) => Others(h) /\ Keeps(h) /\ At(h)' \in {"check", "reply", "reject"}
         /\ CheckInvite(h) => Others(h) /\ Goes(h, {"marker", "reject"})
         /\ CreateMarker(h) => Others(h) /\ Goes(h, {"create", "undoTicket"})
         /\ CreateDevice(h) => Others(h) /\ Keeps(h) /\ At(h)' \in {"store", "unlink", "undoMarker"}
         /\ StoreSecret(h) => Others(h) /\ Goes(h, {"unlink", "undoSecret"})
         /\ DeleteInvite(h) => Others(h) /\ Goes(h, {"unmark", "undoSecret", "undoDevice"})
         /\ DeleteMarker(h) => Others(h) /\ Goes(h, {"reply"})
         /\ UndoSecret(h) => Others(h) /\ Goes(h, {"undoDevice"})
         /\ UndoDevice(h) => Others(h) /\ Goes(h, {"undoMarker", "reject"})
         /\ UndoMarker(h) \/ UndoTicket(h) \/ Refuse(h) => Others(h) /\ Goes(h, {"reject"})
         /\ Reply(h) \/ Reject(h) => Others(h) /\ handler'[h] = Idle
<1>1. handler \in [Handlers -> HandlerRecords]
  BY DEF HandlersGood
<1>2. ASSUME Resume(h) PROVE Others(h) /\ Keeps(h) /\ At(h)' \in {"check", "reply", "reject"}
  <2>1. PICK p, d : handler' = [handler EXCEPT ![h].pc = p, ![h].d = d] /\ p \in {"check", "reply", "reject"}
    BY <1>2 DEF Resume
  <2> QED BY <1>1, <2>1 DEF HandlerRecords, Others, Keeps, At
<1>3. ASSUME CreateDevice(h)
      PROVE  Others(h) /\ Keeps(h) /\ At(h)' \in {"store", "unlink", "undoMarker"}
  <2>1. CASE Goto(h, "undoMarker")
    BY <2>1, GotoGoes DEF Goes
  <2>2. CASE \E p, d : handler' = [handler EXCEPT ![h].d = d, ![h].pc = p] /\ p \in {"store", "unlink"}
    BY <1>1, <2>2 DEF HandlerRecords, Others, Keeps, At
  <2> QED BY <1>3, <2>1, <2>2 DEF CreateDevice
<1>4. ASSUME UndoSecret(h) PROVE Others(h) /\ Goes(h, {"undoDevice"})
  <2>1. CASE Goto(h, "undoDevice")
    BY <2>1, GotoGoes
  <2>2. CASE handler' = [handler EXCEPT ![h].pc = "undoDevice", ![h].failed = TRUE]
    BY <1>1, <2>2 DEF HandlerRecords, Others, Keeps, Goes, At
  <2> QED BY <1>4, <2>1, <2>2 DEF UndoSecret
<1>5. CheckInvite(h) => Others(h) /\ Goes(h, {"marker", "reject"})
  BY GotoGoes DEF CheckInvite, Goes
<1>6. CreateMarker(h) => Others(h) /\ Goes(h, {"create", "undoTicket"})
  BY GotoGoes DEF CreateMarker, Goes
<1>7. StoreSecret(h) => Others(h) /\ Goes(h, {"unlink", "undoSecret"})
  BY GotoGoes DEF StoreSecret, Goes
<1>8. DeleteInvite(h) => Others(h) /\ Goes(h, {"unmark", "undoSecret", "undoDevice"})
  BY GotoGoes DEF DeleteInvite, Goes
<1>9. DeleteMarker(h) => Others(h) /\ Goes(h, {"reply"})
  BY GotoGoes DEF DeleteMarker, Goes
<1>10. UndoDevice(h) => Others(h) /\ Goes(h, {"undoMarker", "reject"})
  BY GotoGoes DEF UndoDevice, Goes
<1>11. UndoMarker(h) \/ UndoTicket(h) \/ Refuse(h) => Others(h) /\ Goes(h, {"reject"})
  BY GotoGoes DEF UndoMarker, UndoTicket, Refuse, Goes
<1>12. Reply(h) \/ Reject(h) => Others(h) /\ handler'[h] = Idle
  BY FinishGoes DEF Reply, Reject
<1> QED BY <1>2, <1>3, <1>4, <1>5, <1>6, <1>7, <1>8, <1>9, <1>10, <1>11, <1>12

(* Activating.                                                             *)
LEMMA ActivateGoes ==
  ASSUME HandlersGood, NEW h \in Handlers
  PROVE  /\ Decide(h) => /\ Others(h)
                         /\ \/ Goes(h, {"marking", "reject"})
                            \/ /\ At(h)' = "clean" /\ handler'[h].kind = "rejected"
                               /\ handler'[h].todo = {<<handler[h].i, handler[h].d>>}
         /\ MarkRemote(h) => Others(h) /\ Goes(h, {"commit", "reject"})
         /\ Commit(h) => Others(h) /\ Goes(h, {"drop"})
         /\ CommitFails(h) => Others(h) /\ (Goes(h, {"unnotice"}) \/ handler'[h] = Idle)
         /\ ClearNotice(h) \/ Acknowledge(h) => Others(h) /\ handler'[h] = Idle
         /\ DropDevice(h) => /\ Others(h)
                             /\ \/ handler'[h] = Idle
                                \/ /\ Goes(h, {"drop"}) /\ handler'[h].remote = handler[h].remote
                                   /\ \E e \in handler[h].todo :
                                        /\ handler'[h].todo = handler[h].todo \ {e}
                                        /\ e \in tombs' /\ e \notin push'
         /\ DropDone(h) => Others(h) /\ (Goes(h, {"announce", "ack"}) \/ handler'[h] = Idle)
         /\ Announce(h) => Others(h) /\ (Goes(h, {"complete"}) \/ handler'[h] = Idle)
         /\ CompleteNotice(h) => Others(h) /\ (Goes(h, {"ack"}) \/ handler'[h] = Idle)
<1>1. handler \in [Handlers -> HandlerRecords]
  BY DEF HandlersGood
<1>2. ASSUME Decide(h)
      PROVE  Others(h) /\ (\/ Goes(h, {"marking", "reject"})
                           \/ /\ At(h)' = "clean" /\ handler'[h].kind = "rejected"
                              /\ handler'[h].todo = {<<handler[h].i, handler[h].d>>})
  <2>1. CASE Goto(h, "reject") \/ Goto(h, "marking")
    BY <2>1, GotoGoes DEF Goes
  <2>2. CASE handler' = [handler EXCEPT ![h].pc = "clean", ![h].kind = "rejected",
                                        ![h].todo = {<<handler[h].i, handler[h].d>>}]
    BY <1>1, <2>2 DEF HandlerRecords, Others, At
  <2> QED BY <1>2, <2>1, <2>2 DEF Decide
<1>3. ASSUME Commit(h) PROVE Others(h) /\ Goes(h, {"drop"})
  <2>1. PICK S : handler' = [handler EXCEPT ![h].pc = "drop", ![h].todo = S]
    BY <1>3 DEF Commit, Activate, Reactivate
  <2> QED BY <1>1, <2>1 DEF HandlerRecords, Others, Keeps, Goes, At
<1>4. ASSUME DropDevice(h)
      PROVE  /\ Others(h)
             /\ \/ handler'[h] = Idle
                \/ /\ Goes(h, {"drop"}) /\ handler'[h].remote = handler[h].remote
                   /\ \E e \in handler[h].todo : /\ handler'[h].todo = handler[h].todo \ {e}
                                                 /\ e \in tombs' /\ e \notin push'
  <2>1. CASE Finish(h)
    BY <2>1, FinishGoes
  <2>2. CASE ~Finish(h)
    <3>1. PICK e \in handler[h].todo : /\ handler' = [handler EXCEPT ![h].todo = handler[h].todo \ {e}]
                                       /\ tombs' = tombs \cup {e} /\ push' = push \ {e}
      BY <1>4, <2>2 DEF DropDevice
    <3> QED BY <1>1, <1>4, <3>1 DEF HandlerRecords, Others, Keeps, Goes, At, DropDevice
  <2> QED BY <2>1, <2>2
<1>5. MarkRemote(h) => Others(h) /\ Goes(h, {"commit", "reject"})
  BY GotoGoes DEF MarkRemote, Goes
<1>6. CommitFails(h) => Others(h) /\ (Goes(h, {"unnotice"}) \/ handler'[h] = Idle)
  BY GotoGoes, FinishGoes DEF CommitFails, Goes
<1>7. ClearNotice(h) \/ Acknowledge(h) => Others(h) /\ handler'[h] = Idle
  BY FinishGoes DEF ClearNotice, Acknowledge
<1>8. DropDone(h) => Others(h) /\ (Goes(h, {"announce", "ack"}) \/ handler'[h] = Idle)
  BY GotoGoes, FinishGoes DEF DropDone, Goes
<1>9. Announce(h) => Others(h) /\ (Goes(h, {"complete"}) \/ handler'[h] = Idle)
  BY GotoGoes, FinishGoes DEF Announce, Goes
<1>10. CompleteNotice(h) => Others(h) /\ (Goes(h, {"ack"}) \/ handler'[h] = Idle)
  BY GotoGoes, FinishGoes DEF CompleteNotice, Goes
<1> QED BY <1>2, <1>3, <1>4, <1>5, <1>6, <1>7, <1>8, <1>9, <1>10

(* Beginning.                                                              *)
LEMMA BeginGoes ==
  ASSUME HandlersGood, NEW h \in Handlers, WhatBegins(h)
  PROVE  /\ Others(h)
         /\ \/ UNCHANGED handler /\ \E d \in Devices : Revoke(h, d)
            \/ \E q \in Requests : BeginClaim(h, q) /\ At(h)' = "lock" /\ handler'[h].kind = "claim"
            \/ \E q \in Requests :
                  /\ At(h)' = "lock" /\ handler'[h].kind = "activate" /\ handler'[h].q = q
                  /\ handler'[h].d = phone[q].device /\ phone[q].device # 0
                  /\ UNCHANGED phone
            \/ \E i \in Invites : BeginStart(h, i) /\ At(h)' = "prune" /\ handler'[h].kind = "start"
                                                   /\ handler'[h].i = i
            \/ Boot(h) /\ At(h)' = "prune" /\ handler'[h].kind = "boot"
            \/ \E d \in Devices : Revoke(h, d) /\ At(h)' = "drop" /\ handler'[h].kind = "revoke"
<1>1. handler \in [Handlers -> HandlerRecords]
  BY DEF HandlersGood
<1>2. ASSUME NEW q \in Requests, BeginClaim(h, q)
      PROVE  Others(h) /\ At(h)' = "lock" /\ handler'[h].kind = "claim"
  BY <1>1, <1>2 DEF BeginClaim, Others, At, Idle
<1>3. ASSUME NEW q \in Requests, NEW remote \in BOOLEAN, BeginActivate(h, q, remote)
      PROVE  /\ Others(h) /\ At(h)' = "lock" /\ handler'[h].kind = "activate" /\ handler'[h].q = q
             /\ handler'[h].d = phone[q].device /\ phone[q].device # 0 /\ UNCHANGED phone
  BY <1>1, <1>3 DEF BeginActivate, Others, At, Idle
<1>4. ASSUME NEW i \in Invites, BeginStart(h, i)
      PROVE  Others(h) /\ At(h)' = "prune" /\ handler'[h].kind = "start" /\ handler'[h].i = i
  BY <1>1, <1>4 DEF BeginStart, Others, At, Idle
<1>5. ASSUME Boot(h) PROVE Others(h) /\ At(h)' = "prune" /\ handler'[h].kind = "boot"
  BY <1>1, <1>5 DEF Boot, Others, At, Idle
<1>6. ASSUME NEW d \in Devices, Revoke(h, d)
      PROVE  Others(h) /\ (UNCHANGED handler \/ (At(h)' = "drop" /\ handler'[h].kind = "revoke"))
  <2> DEFINE n == [Idle EXCEPT !.pc = "drop", !.kind = "revoke", !.todo = {d}]
  <2>1. n.pc = "drop" /\ n.kind = "revoke"
    BY DEF Idle
  <2> HIDE DEF n
  <2>2. handler' = [handler EXCEPT ![h] = n] \/ UNCHANGED handler
    BY <1>6 DEF Revoke, n
  <2> QED BY <1>1, <2>1, <2>2 DEF Others, At
<1> QED BY <1>2, <1>3, <1>4, <1>5, <1>6 DEF WhatBegins, Ask

(* How a thread got where it is.                                           *)
Arrival(h) ==
    /\ Others(h)
    /\ handler'[h].kind = "start" => \/ handler[h].kind = "start" /\ handler'[h].i = handler[h].i
                                     \/ \E i \in Invites : BeginStart(h, i) /\ handler'[h].i = i
    /\ handler'[h].kind = "activate" =>
         \/ handler[h].kind = "activate" /\ Keeps(h) /\ handler'[h].d = handler[h].d
         \/ /\ At(h)' = "lock" /\ handler'[h].q \in Requests
            /\ handler'[h].d = phone[handler'[h].q].device /\ phone[handler'[h].q].device # 0
            /\ UNCHANGED phone
    /\ At(h)' \in ClaimPcs => Keeps(h) /\ handler[h].kind = "claim"
    /\ At(h)' = "marker" => CheckInvite(h)
    /\ At(h)' = "create" => CreateMarker(h)
    /\ At(h)' = "store" => CreateDevice(h)
    /\ At(h)' = "unlink" => CreateDevice(h) \/ StoreSecret(h)
    /\ At(h)' = "undoSecret" => StoreSecret(h) \/ DeleteInvite(h)
    /\ At(h)' = "undoDevice" => DeleteInvite(h) \/ UndoSecret(h)
    /\ At(h)' = "unmark" => DeleteInvite(h)
    /\ At(h)' = "reply" => DeleteMarker(h) \/ Resume(h)
    /\ At(h)' = "undoMarker" => CreateDevice(h) \/ UndoDevice(h)
    /\ At(h)' = "marking" => Decide(h) /\ Keeps(h)
    /\ At(h)' = "commit" => MarkRemote(h)
    /\ At(h)' \in Cleaning => Prune(h) \/ CleanSecret(h) \/ MarkCleaned(h) \/ Decide(h)
    /\ At(h)' = "cleaned" => CleanSecret(h)
    /\ handler'[h].kind = "activate" =>
         /\ At(h)' = "drop" => Commit(h) \/ DropDevice(h)
         /\ At(h)' \in Settling => DropDone(h) \/ Announce(h) \/ CompleteNotice(h)
(* Where a thread can be after a step says which step it was.              *)
LEMMA Arrives ==
  ASSUME PairingInv, NEW h \in Handlers, ThreadStep(h)
  PROVE  Arrival(h)
<1>1. HandlersGood
  BY DEF PairingInv
<1>2. Idle.pc = "idle" /\ Idle.kind = "none"
  BY DEF Idle
<1>3. CASE WhatBegins(h)
  <2>1. Others(h)
    BY <1>1, <1>3, BeginGoes
  <2>2. CASE UNCHANGED handler /\ \E d \in Devices : Revoke(h, d)
    <3>1. At(h)' = "idle" /\ handler'[h].kind = "none"
      BY <1>1, <2>2, KindAt DEF Revoke, At
    <3> QED BY <2>1, <3>1 DEF Arrival, ClaimPcs, Making, Settling, Cleaning
  <2>3. CASE ~ (UNCHANGED handler /\ \E d \in Devices : Revoke(h, d))
    <3>1. /\ At(h)' \in {"lock", "prune", "drop"}
          /\ At(h)' = "drop" => handler'[h].kind = "revoke"
          /\ handler'[h].kind = "start" => \E i \in Invites : BeginStart(h, i) /\ handler'[h].i = i
          /\ handler'[h].kind = "activate" =>
               /\ At(h)' = "lock" /\ handler'[h].q \in Requests
               /\ handler'[h].d = phone[handler'[h].q].device /\ phone[handler'[h].q].device # 0
               /\ UNCHANGED phone
      BY <1>1, <1>3, <2>3, BeginGoes
    <3> QED BY <2>1, <3>1 DEF Arrival, ClaimPcs, Making, Settling, Cleaning
  <2> QED BY <2>2, <2>3
<1>4. CASE handler'[h] = Idle /\ Others(h)
  BY <1>2, <1>4 DEF Arrival, ClaimPcs, Making, Settling, Cleaning, At
<1>5. CASE Others(h) /\ Goes(h, {"reject", "undoTicket", "resume", "check", "decide", "records", "open",
                                 "sweep", "unnotice"})
            /\ (At(h)' \in ClaimPcs => handler[h].kind = "claim")
  BY <1>5 DEF Arrival, Goes, Keeps, ClaimPcs, Making, Settling, Cleaning
<1>6. CASE Prune(h) \/ CleanSecret(h) \/ MarkCleaned(h)
  <2>1. /\ Others(h) /\ Goes(h, Cleaning \cup {"resume", "decide", "records"})
        /\ At(h)' \notin Cleaning => Goes(h, {"resume", "decide", "records"})
        /\ At(h)' = "cleaned" => CleanSecret(h)
    BY <1>1, <1>6, CleanGoes DEF Goes, Cleaning
  <2>2. At(h)' = "resume" => handler[h].kind = "claim"
    <3>1. CASE Prune(h) /\ At(h)' = "resume"
      <4>1. handler[h].kind \in {"claim", "activate", "start", "boot"}
        BY <1>1, <3>1, KindAt DEF Prune
      <4>2. At(h)' = Cleaned(h) \/ At(h)' = "clean"
        <5>1. PICK p, S : handler' = [handler EXCEPT ![h].todo = S, ![h].pc = p]
                          /\ (p = Cleaned(h) \/ p = "clean")
          BY <3>1 DEF Prune
        <5> QED BY <1>1, <5>1 DEF HandlersGood, HandlerRecords, At
      <4> QED BY <3>1, <4>1, <4>2 DEF Cleaned, AfterCleaning
    <3> QED BY <1>1, <1>6, <3>1, CleanGoes DEF Goes, Cleaning
  <2> QED BY <1>6, <2>1, <2>2 DEF Arrival, Goes, Keeps, ClaimPcs, Making, Settling, Cleaning
<1>7. CASE CleanDone(h) \/ PruneRecords(h) \/ OpenInvite(h) \/ Sweep(h)
  <2>1. CASE CleanDone(h)
    <3>1. At(h)' = Cleaned(h) /\ handler[h].kind \in {"claim", "activate", "rejected", "start", "boot"}
      BY <1>1, <2>1, GotoGoes, KindAt DEF CleanDone, Goes, Cleaning
    <3>2. At(h)' \in ClaimPcs => handler[h].kind = "claim"
      BY <3>1 DEF Cleaned, AfterCleaning, ClaimPcs, Making
    <3>3. Others(h) /\ Goes(h, {"resume", "decide", "records", "reject"})
      BY <1>1, <2>1, CleanGoes
    <3> QED BY <1>5, <3>2, <3>3 DEF Goes
  <2>2. CASE PruneRecords(h)
    <3>1. Others(h) /\ Goes(h, {"sweep", "open"})
      BY <1>1, <2>2, CleanGoes
    <3>2. At(h)' \notin ClaimPcs
      BY <3>1 DEF Goes, ClaimPcs, Making
    <3> QED BY <1>5, <3>1, <3>2 DEF Goes
  <2> QED BY <1>1, <1>4, <1>7, <2>1, <2>2, CleanGoes
<1>8. CASE ClaimStep(h) \/ Reject(h) \/ Refuse(h)
  <2>1. CASE Reject(h) \/ Reply(h)
    BY <1>1, <1>4, <2>1, ClaimGoes
  <2>2. CASE Refuse(h) \/ UndoMarker(h) \/ UndoTicket(h)
    <3>1. Others(h) /\ Goes(h, {"reject"}) /\ At(h)' = "reject"
      BY <1>1, <2>2, ClaimGoes DEF Goes
    <3>2. At(h)' \notin ClaimPcs
      BY <3>1 DEF ClaimPcs, Making
    <3> QED BY <1>5, <3>1, <3>2 DEF Goes
  <2>3. CASE ClaimStep(h) /\ ~ (Reject(h) \/ Reply(h) \/ UndoMarker(h) \/ UndoTicket(h))
    <3>1. handler[h].kind = "claim"
      <4>1. At(h) \in ClaimPcs
        BY <2>3 DEF ClaimStep, Resume, CheckInvite, CreateMarker, CreateDevice, StoreSecret, DeleteInvite,
                    DeleteMarker, UndoSecret, UndoDevice, ClaimPcs, Making
      <4> QED BY <1>1, <4>1, KindAt
    <3>2. /\ Resume(h) => Others(h) /\ Keeps(h) /\ At(h)' \in {"check", "reply", "reject"}
          /\ CheckInvite(h) => Others(h) /\ Keeps(h) /\ At(h)' \in {"marker", "reject"}
          /\ CreateMarker(h) => Others(h) /\ Keeps(h) /\ At(h)' \in {"create", "undoTicket"}
          /\ CreateDevice(h) => Others(h) /\ Keeps(h) /\ At(h)' \in {"store", "unlink", "undoMarker"}
          /\ StoreSecret(h) => Others(h) /\ Keeps(h) /\ At(h)' \in {"unlink", "undoSecret"}
          /\ DeleteInvite(h) => Others(h) /\ Keeps(h) /\ At(h)' \in {"unmark", "undoSecret", "undoDevice"}
          /\ DeleteMarker(h) => Others(h) /\ Keeps(h) /\ At(h)' = "reply"
          /\ UndoSecret(h) => Others(h) /\ Keeps(h) /\ At(h)' = "undoDevice"
          /\ UndoDevice(h) => Others(h) /\ Keeps(h) /\ At(h)' \in {"undoMarker", "reject"}
      BY <1>1, ClaimGoes DEF Goes
    <3>3. Keeps(h) => handler'[h].kind = "claim"
      BY <3>1 DEF Keeps
    <3> QED BY <2>3, <3>1, <3>2, <3>3 DEF ClaimStep, Arrival, ClaimPcs, Making, Settling, Cleaning
  <2> QED BY <1>8, <2>1, <2>2, <2>3
<1>9. CASE ActivateStep(h) \/ CommitFails(h)
  <2>1. CASE handler'[h] = Idle
    BY <1>1, <1>4, <1>9, <2>1, ActivateGoes DEF ActivateStep
  <2>2. CASE handler'[h] # Idle
    <3>1. Decide(h) \/ MarkRemote(h) \/ Commit(h) \/ CommitFails(h) \/ DropDevice(h) \/ DropDone(h)
             \/ Announce(h) \/ CompleteNotice(h)
      BY <1>1, <1>9, <2>2, ActivateGoes DEF ActivateStep
    <3>2. handler[h].kind \in {"activate", "revoke"}
      BY <1>1, <3>1, KindAt DEF Decide, MarkRemote, Commit, CommitFails, DropDevice, DropDone, Announce,
                                CompleteNotice, Settling
    <3>3. CASE Decide(h) /\ handler'[h].kind = "rejected" /\ At(h)' = "clean" /\ Others(h)
      BY <3>3 DEF Arrival, ClaimPcs, Making, Settling, Cleaning
    <3>4. CASE ~ (Decide(h) /\ handler'[h].kind = "rejected" /\ At(h)' = "clean" /\ Others(h))
      <4>1. Others(h) /\ Keeps(h) /\ handler'[h].d = handler[h].d
        BY <1>1, <2>2, <3>1, <3>4, ActivateGoes DEF Goes
      <4>2. /\ Decide(h) => At(h)' \in {"marking", "reject"}
            /\ MarkRemote(h) => At(h)' \in {"commit", "reject"}
            /\ Commit(h) \/ DropDevice(h) => At(h)' = "drop"
            /\ CommitFails(h) => At(h)' = "unnotice"
            /\ DropDone(h) => At(h)' \in {"announce", "ack"}
            /\ Announce(h) => At(h)' = "complete"
            /\ CompleteNotice(h) => At(h)' = "ack"
        BY <1>1, <2>2, <3>4, ActivateGoes DEF Goes
      <4> QED BY <3>1, <3>2, <4>1, <4>2 DEF Arrival, Keeps, ClaimPcs, Making, Settling, Cleaning
    <3> QED BY <3>3, <3>4
  <2> QED BY <2>1, <2>2
<1> QED BY <1>3, <1>6, <1>7, <1>8, <1>9 DEF ThreadStep, Step, CleanStep
-----------------------------------------------------------------------------
(* Invitations.                                                            *)

(* What is given to phones.                                                *)
LEMMA GivenGrows ==
  ASSUME PairingInv, [PairingNext]_vars, NEW q \in Requests, phone'[q].device # phone[q].device
  PROVE  \E h \in Handlers : /\ Reply(h) /\ handler[h].q = q /\ phone'[q].device = handler[h].d
                             /\ \A r \in Requests \ {q} : phone'[r] = phone[r]
<1>1. ~Outside /\ ~Crash
  BY OutsideTouches DEF Crash
<1>2. PICK h \in Handlers : ThreadStep(h)
  BY <1>1, NextIs
<1>3. phone \in [Requests -> [device : 0 .. created, done : BOOLEAN]]
  BY DEF PairingInv, StoresGood
<1>4. ~Acknowledge(h)
  BY <1>3 DEF Acknowledge
<1>5. Reply(h)
  BY <1>2, <1>4, ThreadTouches DEF ThreadStep
<1> QED BY <1>3, <1>5 DEF Reply

(* Only a reply or a new device takes an invitation.                       *)
LEMMA TakenGrows ==
  ASSUME PairingInv, [PairingNext]_vars, NEW i \in Invites, Taken(i)', ~Taken(i)
  PROVE  \E h \in Handlers : \/ CreateDevice(h) /\ \E d, q : Adds(h, d, i, q)
                             \/ Reply(h) /\ handler[h].i = i
<1>1. CASE Given(i)'
  <2>1. PICK q \in Requests : PairOf[q] = i /\ phone'[q].device # 0
    BY <1>1 DEF Given
  <2>2. phone'[q].device # phone[q].device
    BY <2>1 DEF Taken, Given
  <2>3. PICK h \in Handlers : Reply(h) /\ handler[h].q = q
    BY <2>2, GivenGrows
  <2>4. handler[h].i = i
    BY <2>1, <2>3, KindAt, Fields DEF Reply, PairingInv, ClaimPcs
  <2> QED BY <2>3, <2>4
<1>2. CASE ~Given(i)'
  <2>1. CASE Ages
    BY <1>2, <2>1, AgesUsable DEF Taken, Ages
  <2>2. CASE ~Ages
    <3>1. PICK h \in Handlers : CreateDevice(h) /\ \E d, j, q : Adds(h, d, j, q)
      BY <2>2, RegistrySteps
    <3>2. PICK d, j, q : Adds(h, d, j, q)
      BY <3>1
    <3>3. CASE j = i
      BY <3>1, <3>2, <3>3
    <3>4. CASE j # i
      <4>1. claim'[i] = claim[i]
        BY <3>2, <3>4 DEF Adds
      <4>2. ASSUME NEW e \in Devices, UsableFor(e, i)' PROVE UsableFor(e, i)
        <5>1. e # d /\ device'[e] = device[e]
          BY <3>2, <3>4, <4>2 DEF Adds, UsableFor
        <5> QED BY <4>2, <5>1 DEF UsableFor, Usable, Row
      <4> QED BY <1>2, <4>1, <4>2 DEF Taken
    <3> QED BY <3>3, <3>4
  <2> QED BY <2>1, <2>2
<1> QED BY <1>1, <1>2

(* Files appear when an invitation is opened; markers go with their files. *)
LEMMA FilesGrow ==
  ASSUME PairingInv, [PairingNext]_vars, NEW i, i \in files', i \notin files
  PROVE  \E h \in Handlers : OpenInvite(h) /\ handler[h].i = i
<1>1. ~Outside /\ ~Crash
  BY OutsideTouches DEF Crash, filesVars
<1>2. PICK h \in Handlers : ThreadStep(h)
  BY <1>1, NextIs
<1>3. FilesStep(h)
  BY <1>2, ThreadTouches DEF ThreadStep
<1> QED BY <1>3 DEF FilesStep, PruneRecords, OpenInvite, CheckInvite, CreateMarker, DeleteInvite,
                    DeleteMarker, UndoMarker

(* A marker goes after its file, or when its claim is undone.              *)
LEMMA MarkersShrink ==
  ASSUME PairingInv, [PairingNext]_vars, NEW i, i \in markers, i \notin markers'
  PROVE  \/ i \notin files'
         \/ \E h \in Handlers : (DeleteMarker(h) \/ UndoMarker(h)) /\ handler[h].i = i
<1>1. ~Outside /\ ~Crash
  BY OutsideTouches DEF Crash, filesVars
<1>2. PICK h \in Handlers : ThreadStep(h)
  BY <1>1, NextIs
<1>3. FilesStep(h)
  BY <1>2, ThreadTouches DEF ThreadStep
<1> QED BY <1>3 DEF FilesStep, PruneRecords, OpenInvite, CheckInvite, CreateMarker, DeleteInvite,
                    DeleteMarker, UndoMarker

(* An invitation is fresh once.                                            *)
LEMMA BudgetShrinks ==
  ASSUME PairingInv, [PairingNext]_vars
  PROVE  /\ budget'.invites \subseteq budget.invites
         /\ \A h \in Handlers : \A i : BeginStart(h, i) => i \in budget.invites /\ i \notin budget'.invites
<1>1. budget \in BudgetRecords
  BY DEF PairingInv, StoresGood
<1>2. \A what \in Counters : Spend(what) => budget'.invites = budget.invites
  BY <1>1, SpendKeeps
<1>3. \A h \in Handlers : \A i : BeginStart(h, i) =>
         i \in budget.invites /\ budget'.invites = budget.invites \ {i}
  BY <1>1 DEF BeginStart, BudgetRecords
<1>4. budget'.invites \subseteq budget.invites
  <2>1. CASE Outside
    BY <1>2, <2>1, OutsideTouches
  <2>2. CASE Crash
    BY <1>2, <2>2 DEF Crash, Counters
  <2>3. CASE \E h \in Handlers : ThreadStep(h)
    BY <1>2, <1>3, <2>3, ThreadTouches DEF ThreadStep
  <2> QED BY <2>1, <2>2, <2>3, NextIs
<1> QED BY <1>3, <1>4

(* Nothing makes an invitation fresh again; only BeginStart starts it.      *)
LEMMA FreshFades ==
  ASSUME PairingInv, [PairingNext]_vars, NEW i \in Invites
  PROVE  /\ \A h \in Handlers : Starting(h, i)' => Starting(h, i) \/ BeginStart(h, i)
         /\ Fresh(i)' => Fresh(i)
<1>1. ASSUME NEW h \in Handlers, Starting(h, i)' PROVE Starting(h, i) \/ BeginStart(h, i)
  <2>1. CASE Outside
    BY <1>1, <2>1, OutsideTouches DEF Starting
  <2>2. CASE Crash
    <3>1. handler'[h] = Idle /\ Idle.kind = "none"
      BY <2>2 DEF Crash, Idle
    <3> QED BY <1>1, <3>1 DEF Starting
  <2>3. ASSUME NEW g \in Handlers, ThreadStep(g) PROVE Starting(h, i) \/ BeginStart(h, i)
    <3>1. Arrival(g)
      BY <2>3, Arrives
    <3>2. CASE h # g
      BY <1>1, <3>1, <3>2 DEF Arrival, Others, Starting
    <3>3. CASE h = g
      BY <1>1, <3>1, <3>3 DEF Arrival, Starting
    <3> QED BY <3>2, <3>3
  <2> QED BY <2>1, <2>2, <2>3, NextIs
<1>2. Fresh(i)' => Fresh(i)
  BY <1>1, BudgetShrinks DEF Fresh
<1> QED BY <1>1, <1>2

(* Every step keeps InvitesGood.                                           *)
LEMMA InvitesStayGood ==
  ASSUME PairingInv, [PairingNext]_vars
  PROVE  InvitesGood'
<1>1. ASSUME NEW g \in Handlers, NEW h \in Handlers, NEW i \in Invites, Starting(g, i)', Starting(h, i)'
      PROVE  g = h
  <2>1. ASSUME NEW a \in Handlers, NEW b \in Handlers, BeginStart(a, i), Starting(b, i)' PROVE a = b
    <3>1. i \in budget.invites /\ ~Starting(b, i)
      BY <2>1, BudgetShrinks DEF PairingInv, InvitesGood
    <3>2. BeginStart(b, i)
      BY <2>1, <3>1, FreshFades
    <3>3. a # b => handler'[b] = handler[b]
      BY <2>1 DEF BeginStart
    <3> QED BY <2>1, <3>1, <3>3 DEF Starting
  <2> QED BY <1>1, <2>1, FreshFades DEF PairingInv, InvitesGood
<1>2. ASSUME NEW h \in Handlers, NEW i \in budget'.invites PROVE ~Starting(h, i)'
  <2>1. i \in budget.invites /\ i \in Invites
    BY BudgetShrinks DEF PairingInv, StoresGood, BudgetRecords
  <2>2. ~Starting(h, i) /\ ~BeginStart(h, i)
    BY <1>2, <2>1, BudgetShrinks DEF PairingInv, InvitesGood
  <2> QED BY <2>1, <2>2, FreshFades
<1>3. ASSUME NEW i \in files' PROVE ~Fresh(i)' /\ (Fresh(i) => i \notin files)
  <2>1. i \in Invites
    BY StoresStayGood DEF StoresGood
  <2>2. CASE i \in files
    BY <2>1, <2>2, FreshFades DEF PairingInv, InvitesGood
  <2>3. CASE i \notin files
    <3>1. PICK h \in Handlers : OpenInvite(h) /\ handler[h].i = i
      BY <2>3, FilesGrow
    <3>2. Starting(h, i) /\ handler'[h] = Idle /\ Idle.kind = "none" /\ budget' = budget
      BY <3>1, KindAt, CleanGoes DEF OpenInvite, Starting, PairingInv, Idle
    <3>3. i \notin budget.invites /\ \A g \in Handlers : Starting(g, i) => g = h
      BY <2>1, <3>2 DEF PairingInv, InvitesGood
    <3>4. ASSUME NEW g \in Handlers, Starting(g, i)' PROVE FALSE
      <4>1. Starting(g, i)
        BY <2>1, <3>2, <3>3, <3>4, FreshFades, BudgetShrinks
      <4> QED BY <3>2, <3>3, <3>4, <4>1 DEF Starting
    <3> QED BY <2>3, <3>2, <3>3, <3>4 DEF Fresh
  <2> QED BY <2>2, <2>3
<1>4. ASSUME NEW i \in Invites, Taken(i)' PROVE Closed(i)'
  <2>1. CASE Taken(i)
    <3>1. Closed(i)
      BY <2>1 DEF PairingInv, InvitesGood
    <3>2. ~Fresh(i)'
      BY <3>1, FreshFades DEF Closed
    <3>3. ASSUME i \in files' PROVE i \in markers'
      <4>1. i \in files
        <5>1. SUFFICES ASSUME i \notin files PROVE FALSE
          OBVIOUS
        <5>2. PICK h \in Handlers : OpenInvite(h) /\ handler[h].i = i
          BY <3>3, <5>1, FilesGrow
        <5>3. Fresh(i)
          BY <5>2, KindAt DEF OpenInvite, Starting, Fresh, PairingInv
        <5> QED BY <3>1, <5>3 DEF Closed
      <4>2. i \in markers
        BY <3>1, <4>1 DEF Closed
      <4>3. ASSUME NEW h \in Handlers, DeleteMarker(h) \/ UndoMarker(h) PROVE handler[h].i # i
        <5>1. ClaimingGood(handler[h])
          BY DEF PairingInv, LockedGood
        <5> QED BY <2>1, <4>1, <4>3, <5>1 DEF ClaimingGood, DeleteMarker, UndoMarker, At
      <4> QED BY <3>3, <4>2, <4>3, MarkersShrink
    <3> QED BY <3>2, <3>3 DEF Closed
  <2>2. CASE ~Taken(i)
    <3>1. PICK h \in Handlers : \/ CreateDevice(h) /\ \E d, q : Adds(h, d, i, q)
                                \/ Reply(h) /\ handler[h].i = i
      BY <1>4, <2>2, TakenGrows
    <3>2. UNCHANGED <<files, markers>>
      BY <3>1 DEF CreateDevice, Reply, filesVars
    <3>3. CASE \E d, q : Adds(h, d, i, q)
      <4>1. i \in files /\ i \in markers
        BY <3>3 DEF Adds
      <4>2. ~Fresh(i)
        BY <4>1 DEF PairingInv, InvitesGood
      <4> QED BY <3>2, <4>1, <4>2, FreshFades DEF Closed
    <3>4. CASE Reply(h) /\ handler[h].i = i
      <4>1. Closed(i)
        BY <3>4 DEF PairingInv, LockedGood, ClaimingGood, Reply, At
      <4> QED BY <3>2, <4>1, FreshFades DEF Closed
    <3> QED BY <3>1, <3>3, <3>4
  <2> QED BY <2>1, <2>2
<1> QED BY <1>1, <1>2, <1>3, <1>4 DEF InvitesGood
-----------------------------------------------------------------------------
(* Phones.                                                                 *)

(* A phone is given its device once.                                       *)
LEMMA PhoneStays ==
  ASSUME PairingInv, [PairingNext]_vars, NEW q \in Requests, phone[q].device # 0
  PROVE  phone'[q].device = phone[q].device
<1>1. SUFFICES ASSUME phone'[q].device # phone[q].device PROVE FALSE
  OBVIOUS
<1>2. PICK h \in Handlers : /\ Reply(h) /\ handler[h].q = q /\ phone'[q].device = handler[h].d
  BY <1>1, GivenGrows
<1>3. handler[h].i = PairOf[q] /\ At(h) = "reply"
  BY <1>2, KindAt, Fields DEF Reply, PairingInv, ClaimPcs
<1>4. ClaimingGood(handler[h])
  BY DEF PairingInv, LockedGood
<1> QED BY <1>1, <1>2, <1>3, <1>4 DEF ClaimingGood, At

(* Every step keeps PhonesGood.                                            *)
LEMMA PhonesStayGood ==
  ASSUME PairingInv, [PairingNext]_vars
  PROVE  PhonesGood'
<1>1. ASSUME NEW q \in Requests, phone'[q].device # phone[q].device
      PROVE  /\ \A r \in Requests : PairOf[r] = PairOf[q] /\ phone'[r].device # 0 => r = q
             /\ UNCHANGED claim
             /\ claim[PairOf[q]] # NoClaim => /\ claim[PairOf[q]].request = q
                                              /\ claim[PairOf[q]].device = phone'[q].device
  <2>1. PICK h \in Handlers : /\ Reply(h) /\ handler[h].q = q /\ phone'[q].device = handler[h].d
                              /\ \A r \in Requests \ {q} : phone'[r] = phone[r]
    BY <1>1, GivenGrows
  <2>2. handler[h].i = PairOf[q] /\ At(h) = "reply" /\ UNCHANGED claim
    BY <2>1, KindAt, Fields DEF Reply, PairingInv, ClaimPcs, registryVars
  <2>3. ClaimingGood(handler[h])
    BY DEF PairingInv, LockedGood
  <2>4. /\ \A r \in Requests : PairOf[r] = PairOf[q] /\ phone[r].device # 0 => r = q
        /\ claim[PairOf[q]] # NoClaim => /\ claim[PairOf[q]].request = q
                                         /\ claim[PairOf[q]].device = handler[h].d
    BY <2>1, <2>2, <2>3 DEF ClaimingGood, ItsClaim, At
  <2> QED BY <2>1, <2>2, <2>4
<1>2. ASSUME NEW q \in Requests, NEW r \in Requests, PairOf[q] = PairOf[r],
             phone'[q].device # 0, phone'[r].device # 0
      PROVE  q = r
  <2>1. CASE phone'[q].device # phone[q].device \/ phone'[r].device # phone[r].device
    BY <1>1, <1>2, <2>1
  <2>2. CASE phone'[q].device = phone[q].device /\ phone'[r].device = phone[r].device
    BY <1>2, <2>2 DEF PairingInv, PhonesGood
  <2> QED BY <2>1, <2>2
<1>3. ASSUME NEW q \in Requests, phone'[q].device # 0, claim'[PairOf[q]] # NoClaim
      PROVE  claim'[PairOf[q]].request = q /\ claim'[PairOf[q]].device = phone'[q].device
  <2> DEFINE i == PairOf[q]
  <2>1. i \in Invites
    BY PairingAssumption DEF PairingAssumption
  <2>2. CASE phone'[q].device # phone[q].device
    BY <1>1, <1>3, <2>2
  <2>3. CASE phone'[q].device = phone[q].device
    <3>1. Given(i)
      BY <1>3, <2>3 DEF Given
    <3>2. ASSUME NEW h \in Handlers, NEW d, NEW j, NEW r, Adds(h, d, j, r)
          PROVE  claim'[i] = claim[i]
      BY <2>1, <3>1, <3>2 DEF Adds, Taken
    <3>3. claim[i] # NoClaim /\ claim'[i].request = claim[i].request /\ claim'[i].device = claim[i].device
      BY <1>3, <2>1, <3>2, RegistrySteps DEF Ages
    <3> QED BY <1>3, <2>3, <3>3 DEF PairingInv, PhonesGood
  <2> QED BY <2>2, <2>3
<1>4. ASSUME NEW g \in Handlers, handler'[g].kind = "activate"
      PROVE  phone'[handler'[g].q].device = handler'[g].d
  <2>1. ASSUME handler[g].kind = "activate", handler'[g].q = handler[g].q, handler'[g].d = handler[g].d
        PROVE  phone'[handler'[g].q].device = handler'[g].d
    <3>1. handler[g].q \in Requests /\ handler[g].d # 0
      BY <2>1, Fields, Counted
    <3>2. phone[handler[g].q].device = handler[g].d
      BY <2>1 DEF PairingInv, PhonesGood
    <3> QED BY <2>1, <3>1, <3>2, PhoneStays
  <2>2. CASE Outside
    BY <1>4, <2>1, <2>2, OutsideTouches
  <2>3. CASE Crash
    <3>1. handler'[g] = Idle /\ Idle.kind = "none"
      BY <2>3 DEF Crash, Idle
    <3> QED BY <1>4, <3>1
  <2>4. ASSUME NEW h \in Handlers, ThreadStep(h) PROVE phone'[handler'[g].q].device = handler'[g].d
    <3>1. Arrival(h)
      BY <2>4, Arrives
    <3>2. CASE g # h
      BY <1>4, <2>1, <3>1, <3>2 DEF Arrival, Others
    <3>3. CASE g = h
      BY <1>4, <2>1, <3>1, <3>3 DEF Arrival, Keeps
    <3> QED BY <3>2, <3>3
  <2> QED BY <2>2, <2>3, <2>4, NextIs
<1> QED BY <1>2, <1>3, <1>4 DEF PhonesGood
-----------------------------------------------------------------------------
(* Under the lock.                                                         *)

(* What others do while a thread holds the lock.                           *)
Guarded(g) ==
    /\ handler'[g] = handler[g] /\ UNCHANGED markers /\ files \subseteq files' /\ Ages
    /\ \A i \in files' : i \in files \/ Fresh(i)
    /\ \A q \in Requests : phone'[q].device = phone[q].device
    /\ \A i \in Invites : Taken(i)' => Taken(i)
    /\ At(g) \in {"marking", "commit"} => UNCHANGED registry
(* What the thread under the lock read, no other thread changes.           *)
LEMMA WhileLocked ==
  ASSUME PairingInv, [PairingNext]_vars, NEW g \in Handlers, Locked(g), ~ThreadStep(g), ~Crash
  PROVE  Guarded(g)
<1>1. \A h \in Handlers : Locked(h) <=> h = g
  BY PairingAssumption DEF PairingAssumption, PairingInv, HandlersGood
<1>2. lock = g /\ lock # Nobody
  BY <1>1, PairingAssumption DEF PairingAssumption, PairingInv, HandlersGood
<1>3. ASSUME NEW h \in Handlers, At(h) \in ClaimPcs \cup {"decide", "marking", "commit"} PROVE h = g
  <2>1. Locked(h)
    BY <1>3, KindAt DEF Locked, PairingInv, ClaimPcs, Making
  <2> QED BY <1>1, <2>1
<1>4. \A h \in Handlers : ~Reply(h) /\ ~CreateDevice(h)
  <2>1. \A h \in Handlers : Reply(h) \/ CreateDevice(h) => h = g
    BY <1>3 DEF Reply, CreateDevice, ClaimPcs
  <2> QED BY <2>1 DEF ThreadStep, Step, ClaimStep
<1>5. Ages
  BY <1>4, RegistrySteps
<1>6. \A q \in Requests : phone'[q].device = phone[q].device
  BY <1>4, GivenGrows
<1>7. \A i \in Invites : Taken(i)' => Taken(i)
  BY <1>4, TakenGrows
<1>8. CASE Outside
  <2>1. UNCHANGED <<handler, files, markers, registry>>
    BY <1>8, OutsideTouches
  <2> QED BY <1>5, <1>6, <1>7, <2>1 DEF Guarded
<1>9. ASSUME NEW h \in Handlers, ThreadStep(h) PROVE Guarded(g)
  <2>1. h # g /\ handler'[g] = handler[g]
    BY <1>9, Arrives DEF Arrival, Others
  <2>2. At(h) \notin ClaimPcs \cup {"decide", "marking", "commit"}
    BY <1>3, <2>1
  <2>3. UNCHANGED <<files, markers>> \/ OpenInvite(h)
    <3>1. UNCHANGED <<files, markers>> \/ FilesStep(h)
      BY <1>9, ThreadTouches DEF ThreadStep
    <3> QED BY <1>2, <2>2, <3>1 DEF FilesStep, PruneRecords, CheckInvite, CreateMarker, DeleteInvite,
                                    DeleteMarker, UndoMarker, ClaimPcs, Making
  <2>4. UNCHANGED markers /\ files \subseteq files' /\ \A i \in files' : i \in files \/ Fresh(i)
    <3>1. OpenInvite(h) => Fresh(handler[h].i) /\ files' = files \cup {handler[h].i} /\ UNCHANGED markers
      BY KindAt DEF OpenInvite, Fresh, Starting, PairingInv
    <3> QED BY <2>3, <3>1
  <2>5. ASSUME At(g) \in {"marking", "commit"} PROVE UNCHANGED registry
    <3>1. ~RegistryFree
      BY <2>5 DEF RegistryFree
    <3>2. ~RegistryStep(h)
      BY <2>2, <3>1 DEF RegistryStep, Prune, MarkCleaned, CreateDevice, UndoDevice, Decide, Commit, Revoke
    <3> QED BY <1>9, <3>2, ThreadTouches DEF ThreadStep
  <2> QED BY <1>5, <1>6, <1>7, <2>1, <2>4, <2>5 DEF Guarded
<1> QED BY <1>8, <1>9, NextIs

(* What the thread under the lock relies on outlives another's step.       *)
LEMMA GuardedKeeps ==
  ASSUME PairingInv, [PairingNext]_vars, NEW g \in Handlers, Locked(g), Guarded(g)
  PROVE  ClaimingGood(handler[g])' /\ ActivatingGood(handler[g])'
<1>1. PICK r : r = handler[g]
  OBVIOUS
<1>2. r = handler'[g] /\ r.i \in Invites /\ r.pc = At(g)
  BY <1>1, Fields DEF Guarded, Locked, At
<1>3. ClaimingGood(r) /\ ActivatingGood(r)
  BY <1>1 DEF PairingInv, LockedGood
<1>4. /\ r.i \in files => r.i \in files'
      /\ r.i \in files' => r.i \in files \/ Fresh(r.i)
      /\ markers' = markers /\ (Taken(r.i)' => Taken(r.i)) /\ (Fresh(r.i)' => Fresh(r.i))
      /\ Given(r.i)' => Given(r.i)
  BY <1>2, FreshFades DEF Guarded, Given
<1>5. ItsClaim(r) => ItsClaim(r)'
  BY <1>2 DEF ItsClaim, Guarded, Ages
<1>6. \A e \in Devices : UsableFor(e, r.i)' => UsableFor(e, r.i)
  BY AgesUsable DEF Guarded
<1>7. Closed(r.i) => Closed(r.i)'
  BY <1>4 DEF Closed
<1>8. ClaimingGood(r)'
  <2>1. \A q \in Requests : phone'[q].device = phone[q].device
    BY DEF Guarded
  <2> QED BY <1>3, <1>4, <1>5, <1>6, <1>7, <2>1 DEF ClaimingGood
<1>9. ActivatingGood(r)'
  <2>1. r.pc \in {"marking", "commit"} => UNCHANGED <<claim, device>>
    BY <1>2 DEF Guarded, registry
  <2> QED BY <1>3, <2>1 DEF ActivatingGood, NewerRepairs, Live, Row, SameRelay
<1> QED BY <1>2, <1>8, <1>9

(* Neither the registry nor a phone changes.                               *)
LEMMA QuietKeeps ==
  ASSUME UNCHANGED <<claim, device, phone>>
  PROVE  /\ \A i : (Taken(i)' <=> Taken(i)) /\ (Given(i)' <=> Given(i))
         /\ \A i : \A e \in Devices : UsableFor(e, i)' <=> UsableFor(e, i)
         /\ \A r : ItsClaim(r)' <=> ItsClaim(r)
BY DEF Taken, Given, UsableFor, Usable, Row, ItsClaim

(* A claim on its way to a device.                                         *)
LEMMA BeforeDevice ==
  ASSUME PairingInv, [PairingNext]_vars, NEW g \in Handlers, ThreadStep(g),
         NEW n, n = handler'[g], n.pc \in {"marker", "create"}
  PROVE  ClaimingGood(n)'
<1>1. Arrival(g) /\ HandlersGood /\ At(g)' = n.pc
  BY Arrives DEF PairingInv, At
<1>2. CASE n.pc = "marker"
  <2>1. CheckInvite(g)
    BY <1>1, <1>2 DEF Arrival
  <2>2. n.i = handler[g].i /\ Goto(g, "marker")
    <3>1. ~Goto(g, "reject")
      BY <1>1, <1>2, GotoGoes DEF Goes
    <3>2. Goto(g, "marker")
      BY <2>1, <3>1 DEF CheckInvite
    <3> QED BY <1>1, <3>2, GotoGoes DEF Goes, Keeps
  <2>3. n.i \in files'
    <3>1. ~Goto(g, "reject")
      BY <1>1, <1>2, GotoGoes DEF Goes
    <3> QED BY <2>1, <2>2, <3>1 DEF CheckInvite
  <2> QED BY <1>2, <2>3 DEF ClaimingGood, Making
<1>3. CASE n.pc = "create"
  <2>1. CreateMarker(g) /\ At(g) = "marker"
    BY <1>1, <1>3 DEF Arrival, CreateMarker
  <2>2. ~Goto(g, "undoTicket")
    BY <1>1, <1>3, GotoGoes DEF Goes
  <2>3. /\ handler[g].i \notin markers /\ markers' = markers \cup {handler[g].i}
        /\ n.i = handler[g].i /\ UNCHANGED <<files, claim, device, phone>>
    <3>1. Keeps(g)
      BY <1>1, <2>1, ClaimGoes DEF Goes
    <3> QED BY <2>1, <2>2, <3>1 DEF CreateMarker, Keeps, registryVars
  <2>4. n.i \in files
    BY <2>1, <2>3 DEF PairingInv, LockedGood, ClaimingGood, At
  <2>5. ~Taken(n.i)
    <3>1. n.i \in Invites
      BY <2>4 DEF PairingInv, StoresGood
    <3> QED BY <2>3, <2>4, <3>1 DEF PairingInv, InvitesGood, Closed
  <2> QED BY <1>3, <2>3, <2>4, <2>5, QuietKeeps DEF ClaimingGood, Making
<1> QED BY <1>2, <1>3

(* create_pending_claim: the thread now holds the only usable device.      *)
LEMMA DeviceMade ==
  ASSUME PairingInv, [PairingNext]_vars, NEW g \in Handlers, CreateDevice(g), NEW n, n = handler'[g]
  PROVE  ClaimingGood(n)'
<1>1. HandlersGood /\ At(g) = "create" /\ handler[g].kind = "claim"
  BY KindAt DEF PairingInv, CreateDevice, ClaimPcs
<1>2. handler \in [Handlers -> HandlerRecords]
  BY <1>1 DEF HandlersGood
<1>3. /\ n.i = handler[g].i /\ n.q = handler[g].q /\ n.pc = At(g)'
      /\ n.pc \in {"store", "unlink", "undoMarker"}
  BY <1>1, ClaimGoes DEF Keeps, At
<1>4. /\ n.i \in files /\ n.i \in markers /\ ~Taken(n.i) /\ n.i \in Invites
  BY <1>1, <1>3, Fields DEF PairingInv, LockedGood, ClaimingGood, At
<1>5. UNCHANGED <<files, markers, phone>>
  BY DEF CreateDevice, filesVars
<1>6. ~Fresh(n.i)'
  BY <1>4, FreshFades DEF PairingInv, InvitesGood
<1>7. CASE n.pc = "undoMarker"
  <2>1. UNCHANGED registry
    <3>1. ASSUME handler' = [handler EXCEPT ![g].d = created + 1,
                                ![g].pc = IF HasTicket(handler[g].q) THEN "store" ELSE "unlink"]
          PROVE  FALSE
      BY <1>2, <1>3, <1>7, <3>1 DEF HandlerRecords, At
    <3> QED BY <3>1 DEF CreateDevice, registry, registryVars
  <2> QED BY <1>4, <1>5, <1>7, <2>1, QuietKeeps DEF ClaimingGood, Making, registry
<1>8. CASE n.pc # "undoMarker"
  <2>1. ~Goto(g, "undoMarker")
    BY <1>1, <1>3, <1>8, GotoGoes DEF Goes
  <2>2. /\ handler' = [handler EXCEPT ![g].d = created + 1,
                                ![g].pc = IF HasTicket(handler[g].q) THEN "store" ELSE "unlink"]
        /\ created' = created + 1
    BY <2>1 DEF CreateDevice
  <2>3. n.d = created + 1 /\ (n.pc = "store" => HasTicket(n.q))
    BY <1>2, <1>3, <2>2 DEF HandlerRecords, At
  <2>4. created' # created
    BY <2>2, Counted
  <2>5. PICK d, i, q : Adds(g, d, i, q)
    BY <2>4, CreateAdds DEF registry
  <2>6. /\ i = n.i /\ q = n.q /\ d = n.d /\ claim'[i].device = d /\ claim'[i].request = q
        /\ \A e \in Devices \ {d} : device'[e] = device[e]
    BY <1>3, <2>3, <2>5 DEF Adds
  <2>7. ItsClaim(n)'
    BY <2>6 DEF ItsClaim
  <2>8. ~Given(n.i)'
    BY <1>4, <1>5 DEF Taken, Given
  <2>9. ASSUME NEW e \in Devices, UsableFor(e, n.i)' PROVE e = n.d
    <3>1. e # d => UsableFor(e, n.i)
      BY <2>6, <2>9 DEF UsableFor, Usable, Row
    <3> QED BY <1>4, <2>6, <3>1 DEF Taken
  <2>10. n.pc \in {"store", "unlink"}
    BY <1>3, <1>8
  <2> QED BY <1>4, <1>5, <1>6, <2>3, <2>7, <2>8, <2>9, <2>10 DEF ClaimingGood, Making
<1> QED BY <1>7, <1>8

(* A claim that has its device, on its way to the reply or back.           *)
LEMMA AfterDevice ==
  ASSUME PairingInv, [PairingNext]_vars, NEW g \in Handlers, NEW n, n = handler'[g],
         StoreSecret(g) \/ UndoSecret(g) \/ DeleteInvite(g) \/ DeleteMarker(g) \/ UndoDevice(g)
  PROVE  ClaimingGood(n)'
<1>1. HandlersGood /\ At(g) \in Making \cup {"unmark"}
  BY DEF PairingInv, StoreSecret, UndoSecret, DeleteInvite, DeleteMarker, UndoDevice, Making
<1>2. handler[g].kind = "claim" /\ handler[g].i \in Invites
  BY <1>1, KindAt, Fields DEF ClaimPcs
<1>3. PICK r : r = handler[g]
  OBVIOUS
<1>4. /\ n.i = r.i /\ n.q = r.q /\ n.d = r.d /\ n.pc = At(g)' /\ r.pc = At(g)
  BY <1>1, <1>3, ClaimGoes DEF Goes, Keeps, At
<1>5. /\ r.pc \in Making => r.i \in markers
      /\ r.pc = "unmark" => r.i \notin files
      /\ ~Fresh(r.i) /\ ItsClaim(r) /\ ~Given(r.i)
      /\ \A e \in Devices : UsableFor(e, r.i) => e = r.d
  BY <1>1, <1>3, <1>4 DEF PairingInv, LockedGood, ClaimingGood
<1>6. ItsClaim(r) <=> ItsClaim(n)
  BY <1>4 DEF ItsClaim
<1>7. ~Fresh(n.i)'
  BY <1>2, <1>3, <1>4, <1>5, FreshFades
<1>8. CASE StoreSecret(g) \/ UndoSecret(g) \/ (DeleteInvite(g) /\ n.pc # "unmark")
  <2>1. UNCHANGED <<markers, claim, device, phone>>
    BY <1>8 DEF StoreSecret, UndoSecret, DeleteInvite, filesVars, registryVars
  <2>2. n.pc \in {"unlink", "undoSecret", "undoDevice"} /\ r.pc \in Making
    BY <1>1, <1>4, <1>8, ClaimGoes DEF Goes, StoreSecret, UndoSecret, DeleteInvite, Making
  <2>3. n.i \in markers' /\ ~Given(n.i)' /\ ItsClaim(n)' /\ \A e \in Devices : UsableFor(e, n.i)' => e = n.d
    BY <1>4, <1>5, <1>6, <2>1, <2>2, QuietKeeps
  <2> QED BY <1>7, <2>2, <2>3 DEF ClaimingGood, Making
<1>9. CASE DeleteInvite(g) /\ n.pc = "unmark"
  <2>1. UNCHANGED <<claim, device, phone>>
    BY <1>9 DEF DeleteInvite, registryVars
  <2>2. ~Given(n.i)' /\ ItsClaim(n)' /\ \A e \in Devices : UsableFor(e, n.i)' => e = n.d
    BY <1>4, <1>5, <1>6, <2>1, QuietKeeps
  <2>3. n.i \notin files'
    <3>1. \A p \in {"undoSecret", "undoDevice"} : ~Goto(g, p)
      BY <1>1, <1>4, <1>9, GotoGoes DEF Goes
    <3>2. files' = files \ {handler[g].i}
      BY <1>9, <3>1 DEF DeleteInvite
    <3> QED BY <1>3, <1>4, <3>2
  <2> QED BY <1>7, <1>9, <2>2, <2>3 DEF ClaimingGood, Making
<1>10. CASE DeleteMarker(g)
  <2>1. UNCHANGED <<files, claim, device, phone>> /\ r.pc = "unmark"
    BY <1>4, <1>10 DEF DeleteMarker, registryVars
  <2>2. ~Given(n.i)' /\ ItsClaim(n)' /\ n.i \notin files'
    BY <1>4, <1>5, <1>6, <2>1, QuietKeeps
  <2>3. n.pc = "reply"
    BY <1>1, <1>4, <1>10, ClaimGoes DEF Goes
  <2>4. Closed(n.i)'
    BY <1>7, <2>2 DEF Closed
  <2> QED BY <2>2, <2>3, <2>4 DEF ClaimingGood, Making, Given
<1>11. CASE UndoDevice(g)
  <2>1. n.pc \in {"reject", "undoMarker"} /\ UNCHANGED phone
    BY <1>1, <1>4, <1>11, ClaimGoes DEF Goes, UndoDevice
  <2>2. CASE n.pc = "reject"
    BY <2>2 DEF ClaimingGood, Making
  <2>3. CASE n.pc = "undoMarker"
    <3>1. ~Goto(g, "reject")
      <4>1. Goto(g, "reject") => At(g)' = "reject"
        BY <1>1, GotoGoes DEF Goes
      <4> QED BY <1>4, <2>3, <4>1
    <3>2. /\ device' = [device EXCEPT ![r.d] = NoDevice]
          /\ claim' = [i \in Invites |-> IF claim[i] # NoClaim /\ claim[i].device = r.d
                                         THEN NoClaim ELSE claim[i]]
      BY <1>3, <1>11, <3>1 DEF UndoDevice
    <3>3. claim'[n.i] = NoClaim
      BY <1>2, <1>3, <1>4, <1>5, <3>2 DEF ItsClaim
    <3>4. ASSUME NEW e \in Devices, UsableFor(e, n.i)' PROVE FALSE
      <4>1. device \in [Devices -> DeviceRows \cup {NoDevice}]
        BY DEF PairingInv, Registry
      <4>2. e # r.d /\ device'[e] = device[e]
        BY <3>2, <3>4, <4>1 DEF UsableFor, Usable, Row
      <4> QED BY <1>4, <1>5, <3>4, <4>2 DEF UsableFor, Usable, Row
    <3>5. ~Given(n.i)'
      BY <1>4, <1>5, <2>1 DEF Given
    <3>6. ~Taken(n.i)'
      BY <3>3, <3>4, <3>5 DEF Taken
    <3> QED BY <2>3, <3>6 DEF ClaimingGood, Making
  <2> QED BY <2>1, <2>2, <2>3
<1> QED BY <1>8, <1>9, <1>10, <1>11

(* A repeated claim is answered from its saved reply.                      *)
LEMMA ResumeAnswers ==
  ASSUME PairingInv, [PairingNext]_vars, NEW g \in Handlers, NEW n, n = handler'[g], Resume(g)
  PROVE  ClaimingGood(n)'
<1>1. HandlersGood /\ At(g) = "resume" /\ handler[g].kind = "claim"
  BY KindAt DEF PairingInv, Resume, ClaimPcs
<1>2. handler \in [Handlers -> HandlerRecords]
  BY <1>1 DEF HandlersGood
<1>3. PICK i, q : i = handler[g].i /\ q = handler[g].q
  OBVIOUS
<1>4. i \in Invites /\ q \in Requests /\ PairOf[q] = i
  BY <1>1, <1>3, Fields
<1>5. n.i = i /\ n.q = q /\ n.pc = At(g)' /\ n.pc \in {"check", "reply", "reject"}
  BY <1>1, <1>3, ClaimGoes DEF Keeps, At
<1>6. CASE n.pc # "reply"
  BY <1>5, <1>6 DEF ClaimingGood, Making
<1>7. CASE n.pc = "reply"
  <2>1. handler' = [handler EXCEPT
          ![g].pc = IF claim[i] = NoClaim THEN "check" ELSE IF Saved(g) THEN "reply" ELSE "reject",
          ![g].d = IF claim[i] # NoClaim THEN claim[i].device ELSE 0]
    BY <1>3 DEF Resume
  <2>2. claim[i] # NoClaim /\ Saved(g) /\ n.d = claim[i].device
    BY <1>2, <1>5, <1>7, <2>1 DEF HandlerRecords, At
  <2>3. claim[i].request = q
    BY <1>3, <2>2 DEF Saved
  <2>4. UNCHANGED <<files, markers, claim, device, phone>>
    BY DEF Resume, filesVars, registryVars
  <2>5. Closed(i)
    BY <1>4, <2>2 DEF PairingInv, InvitesGood, Taken
  <2>6. Closed(i)'
    BY <1>4, <2>4, <2>5, FreshFades DEF Closed
  <2>7. ItsClaim(n)'
    BY <1>5, <2>2, <2>3, <2>4 DEF ItsClaim
  <2>8. ASSUME NEW p \in Requests, PairOf[p] = i, phone'[p].device # 0
        PROVE  p = q /\ phone'[p].device = n.d
    BY <2>2, <2>3, <2>4, <2>8 DEF PairingInv, PhonesGood
  <2> QED BY <1>5, <1>7, <2>6, <2>7, <2>8 DEF ClaimingGood, Making
<1> QED BY <1>6, <1>7

(* An activation on its way to the commit.                                 *)
LEMMA BeforeCommit ==
  ASSUME PairingInv, [PairingNext]_vars, NEW g \in Handlers, ThreadStep(g), NEW n, n = handler'[g],
         n.pc \in {"marking", "commit"}
  PROVE  ActivatingGood(n)'
<1>1. Arrival(g) /\ HandlersGood /\ At(g)' = n.pc
  BY Arrives DEF PairingInv, At
<1>2. CASE n.pc = "marking"
  <2>1. Decide(g) /\ n.i = handler[g].i /\ n.d = handler[g].d
    <3>1. Decide(g)
      BY <1>1, <1>2 DEF Arrival
    <3>2. Goes(g, {"marking", "reject"})
      BY <1>1, <1>2, <3>1, ActivateGoes
    <3> QED BY <3>1, <3>2 DEF Goes, Keeps
  <2>2. n.i \in Invites /\ n.d \in Devices
    BY <1>1, <2>1, KindAt, Fields DEF Decide
  <2>3. /\ Activable(n.i, n.d) /\ (device[n.d].state = "active" \/ NewerRepairs(n.d) = {})
        /\ UNCHANGED <<device, claim>>
    <3>1. ~Goto(g, "reject")
      <4>1. Goto(g, "reject") => At(g)' = "reject"
        BY <1>1, GotoGoes DEF Goes
      <4> QED BY <1>1, <1>2, <4>1
    <3>2. handler' # [handler EXCEPT ![g].pc = "clean", ![g].kind = "rejected",
                                     ![g].todo = {<<handler[g].i, handler[g].d>>}]
      BY <1>1, <1>2 DEF HandlersGood, HandlerRecords, At
    <3> QED BY <2>1, <3>1, <3>2 DEF Decide
  <2>4. /\ Row(n.d) /\ device[n.d].state \in {"pending", "active"}
        /\ device[n.d].state = "pending" =>
             NewerRepairs(n.d) = {} /\ claim[n.i] # NoClaim /\ claim[n.i].device = n.d
    BY <2>2, <2>3, Rows DEF Activable
  <2> QED BY <2>3, <2>4 DEF ActivatingGood, NewerRepairs, Live, Row, SameRelay
<1>3. CASE n.pc = "commit"
  <2>1. MarkRemote(g) /\ n.i = handler[g].i /\ n.d = handler[g].d /\ At(g) = "marking"
        /\ UNCHANGED <<claim, device>>
    <3>1. MarkRemote(g)
      BY <1>1, <1>3 DEF Arrival
    <3>2. Goes(g, {"commit", "reject"})
      BY <1>1, <3>1, ActivateGoes
    <3> QED BY <3>1, <3>2 DEF Goes, Keeps, MarkRemote, registryVars
  <2>2. ActivatingGood(handler[g])
    BY DEF PairingInv, LockedGood
  <2> QED BY <2>1, <2>2 DEF ActivatingGood, NewerRepairs, Live, Row, SameRelay, At
<1> QED BY <1>2, <1>3

(* Every step keeps LockedGood.                                            *)
LEMMA LockedStaysGood ==
  ASSUME PairingInv, [PairingNext]_vars
  PROVE  LockedGood'
<1> SUFFICES ASSUME NEW g \in Handlers
             PROVE  ClaimingGood(handler[g])' /\ ActivatingGood(handler[g])'
  BY DEF LockedGood
<1>1. PICK n : n = handler'[g]
  OBVIOUS
<1>2. n.pc = At(g)' /\ HandlersGood /\ HandlersGood'
  BY <1>1, ThreadsStayGood DEF At, PairingInv
<1>3. CASE n.pc \notin {"marker", "create", "unmark", "reply", "undoMarker", "marking", "commit"} \cup Making
  BY <1>1, <1>3 DEF ClaimingGood, ActivatingGood, Making
<1>4. CASE n.pc \in {"marker", "create", "unmark", "reply", "undoMarker", "marking", "commit"} \cup Making
  <2>1. CASE ThreadStep(g)
    <3>1. Arrival(g)
      BY <2>1, Arrives
    <3>2. ClaimingGood(n)'
      <4>1. CASE n.pc \in {"marking", "commit"}
        BY <4>1 DEF ClaimingGood, Making
      <4>2. CASE n.pc \in {"marker", "create"}
        BY <1>1, <2>1, <4>2, BeforeDevice
      <4>3. CASE n.pc \in {"unmark", "reply", "undoMarker"} \cup Making
        <5>1. \/ CreateDevice(g) \/ Resume(g)
              \/ StoreSecret(g) \/ UndoSecret(g) \/ DeleteInvite(g) \/ DeleteMarker(g) \/ UndoDevice(g)
          BY <1>2, <3>1, <4>3 DEF Arrival, Making
        <5> QED BY <1>1, <5>1, DeviceMade, ResumeAnswers, AfterDevice
      <4> QED BY <1>4, <4>1, <4>2, <4>3
    <3>3. ActivatingGood(n)'
      <4>1. CASE n.pc \in {"marking", "commit"}
        BY <1>1, <2>1, <4>1, BeforeCommit
      <4>2. CASE n.pc \notin {"marking", "commit"}
        BY <4>2 DEF ActivatingGood
      <4> QED BY <4>1, <4>2
    <3> QED BY <1>1, <3>2, <3>3
  <2>2. CASE Crash
    <3>1. handler'[g] = Idle /\ Idle.pc = "idle"
      BY <2>2 DEF Crash, Idle
    <3> QED BY <1>1, <1>4, <3>1 DEF Making
  <2>3. CASE ~ThreadStep(g) /\ ~Crash
    <3>1. handler'[g] = handler[g]
      BY <2>3, NextIs, OutsideTouches, Arrives DEF Arrival, Others
    <3>2. Locked(g)
      <4>1. At(g) \in ClaimPcs \cup {"marking", "commit"}
        BY <1>1, <1>4, <3>1 DEF At, ClaimPcs, Making
      <4> QED BY <1>2, <4>1, KindAt DEF Locked, ClaimPcs, Making
    <3> QED BY <2>3, <3>2, WhileLocked, GuardedKeeps
  <2> QED BY <2>1, <2>2, <2>3
<1> QED BY <1>3, <1>4
-----------------------------------------------------------------------------
(* Secrets.                                                                *)

(* A secret appears while its claim waits for the phone.                   *)
LEMMA SecretsGrow ==
  ASSUME PairingInv, [PairingNext]_vars, NEW d, d \in Kept', d \notin Kept
  PROVE  /\ UNCHANGED registry /\ d \in Devices /\ Row(d) /\ HasTicket(device[d].request)
         /\ \E i \in Invites : claim[i] # NoClaim /\ claim[i].device = d /\ claim[i].state = "pending"
<1>1. ~Outside /\ ~Crash
  BY OutsideTouches DEF Crash, secretVars, Kept
<1>2. PICK h \in Handlers : ThreadStep(h)
  BY <1>1, NextIs
<1>3. SecretStep(h)
  BY <1>2, ThreadTouches DEF ThreadStep, Kept
<1>4. StoreSecret(h)
  <2>1. CASE CleanSecret(h) \/ UndoSecret(h) \/ DropDevice(h) \/ Sweep(h)
    <3>1. leaked' = leaked /\ secrets' \subseteq secrets
      BY <2>1 DEF CleanSecret, UndoSecret, DropDevice, Sweep
    <3> QED BY <3>1 DEF Kept
  <2>2. CASE UndoDevice(h)
    <3>1. leaked \subseteq leaked' /\ secrets' = secrets
      BY <2>2 DEF UndoDevice
    <3> QED BY <3>1 DEF Kept
  <2> QED BY <1>3, <2>1, <2>2 DEF SecretStep
<1>5. PICK i, e : i = handler[h].i /\ e = handler[h].d
  OBVIOUS
<1>6. /\ d = e /\ claim[i] # NoClaim /\ claim[i].state = "pending"
  BY <1>4, <1>5 DEF StoreSecret, Kept
<1>7. At(h) = "store" /\ handler[h].kind = "claim"
  BY <1>4, KindAt DEF StoreSecret, PairingInv, ClaimPcs, Making
<1>8. ItsClaim(handler[h]) /\ HasTicket(handler[h].q)
  BY <1>7 DEF PairingInv, LockedGood, ClaimingGood, Making, At
<1>9. i \in Invites /\ claim[i].device = d /\ claim[i].request = handler[h].q
  BY <1>5, <1>6, <1>7, <1>8, Fields DEF ItsClaim
<1>10. UNCHANGED registry
  BY <1>4 DEF StoreSecret, registryVars, registry
<1> QED BY <1>6, <1>8, <1>9, <1>10, Rows

(* A device disappears with its clean-up done, or its secret is known to   *)
(* be left behind.                                                         *)
LEMMA RowsGo ==
  ASSUME PairingInv, [PairingNext]_vars, NEW d \in Devices, Row(d), ~Row(d)'
  PROVE  \/ \E i \in Forgotten : claim[i].device = d
         \/ d \notin Kept'
<1>1. PICK h \in Handlers : RegistryStep(h)
  <2>1. Outside \/ Crash => UNCHANGED registry
    BY OutsideTouches DEF Crash, registryVars, registry
  <2>2. ~UNCHANGED registry
    BY DEF registry, Row
  <2> QED BY <2>1, <2>2, NextIs, ThreadTouches DEF ThreadStep
<1>2. device \in [Devices -> DeviceRows \cup {NoDevice}]
  BY DEF PairingInv, Registry
<1>3. CASE Prune(h)
  <2>1. device'[d] = NoDevice
    BY DEF Row
  <2>2. ASSUME ~ \E i \in Forgotten : claim[i].device = d PROVE FALSE
    <3>1. device[d] \in DeviceRows
      BY Rows
    <3>2. device'[d] = device[d] \/ device'[d] = [device[d] EXCEPT !.state = "expired", !.revoked = TRUE]
      BY <1>3, <2>2 DEF Prune
    <3> QED BY <2>1, <3>1, <3>2, EndedRows
  <2> QED BY <2>2
<1>4. CASE UndoDevice(h)
  <2>1. /\ device' = [device EXCEPT ![handler[h].d] = NoDevice]
        /\ leaked' = leaked \cup ({handler[h].d} \cap secrets) /\ secrets' = secrets
    BY <1>4 DEF UndoDevice, Row
  <2>2. d = handler[h].d
    BY <1>2, <2>1 DEF Row
  <2> QED BY <2>1, <2>2 DEF Kept
<1>5. CASE MarkCleaned(h)
  BY <1>5 DEF MarkCleaned, Row
<1>6. CASE CreateDevice(h)
  BY <1>6, CreateAdds DEF Adds, registry, Row
<1>7. CASE Decide(h)
  <2>1. device[d] \in DeviceRows /\ NoDevice \notin DeviceRows
    BY Rows, PairingAssumption DEF PairingAssumption
  <2>2. PICK e : /\ device' = [device EXCEPT ![handler[h].d].state = "superseded",
                                 ![handler[h].d].revoked = TRUE, ![handler[h].d].by = e]
                 /\ e \in NewerRepairs(handler[h].d)
    BY <1>7 DEF Decide, Row
  <2> DEFINE x == [device[d] EXCEPT !.state = "superseded", !.revoked = TRUE, !.by = e]
  <2>3. e \in 0 .. MaxDevices
    BY <2>2, Counted DEF NewerRepairs, Devices
  <2>4. x \in DeviceRows
    BY <2>1, <2>3 DEF DeviceRows, States
  <2>5. device'[d] = x \/ device'[d] = device[d]
    BY <1>2, <2>2
  <2> QED BY <2>1, <2>4, <2>5 DEF Row
<1>8. CASE Commit(h)
  <2>1. CASE UNCHANGED device
    BY <2>1 DEF Row
  <2>2. CASE ~UNCHANGED device
    <3>1. PICK i, e : i = handler[h].i /\ e = handler[h].d
      OBVIOUS
    <3>2. At(h) = "commit" /\ device[e].state = "pending" /\ Activate(h)
      BY <1>8, <2>2, <3>1 DEF Commit, Reactivate
    <3>3. /\ Row(e)' /\ \A f \in Replaced(e) : Row(f)'
          /\ \A f \in Devices \ {e} : f \notin Replaced(e) => device'[f] = device[f]
      BY <3>1, <3>2, ActivateRows
    <3> QED BY <3>3 DEF Row
  <2> QED BY <2>1, <2>2
<1>9. ASSUME NEW e \in Devices, Revoke(h, e) PROVE FALSE
  <2>1. device[d] \in DeviceRows /\ NoDevice \notin DeviceRows
    BY Rows, PairingAssumption DEF PairingAssumption
  <2> DEFINE x == [device[d] EXCEPT !.revoked = TRUE]
  <2>2. x \in DeviceRows
    BY <2>1 DEF DeviceRows
  <2>3. device'[d] = x \/ device'[d] = device[d]
    BY <1>2, <1>9 DEF Revoke
  <2> QED BY <2>1, <2>2, <2>3 DEF Row
<1> QED BY <1>1, <1>3, <1>4, <1>5, <1>6, <1>7, <1>8, <1>9 DEF RegistryStep

(* Who marks a claim as cleaned.                                           *)
LEMMA CleanedGrows ==
  ASSUME PairingInv, [PairingNext]_vars, NEW j \in Invites, claim'[j] # NoClaim, claim'[j].cleaned
  PROVE  /\ claim[j] # NoClaim /\ claim'[j].device = claim[j].device
         /\ \/ claim[j].cleaned
            \/ ~HasTicket(claim[j].request)
            \/ \E h \in Handlers : At(h) = "cleaned" /\ handler[h].item[2] = claim[j].device
<1>1. claim[j] # NoClaim /\ claim'[j].device = claim[j].device
  <2>1. ASSUME NEW h \in Handlers, NEW d, NEW i, NEW q, Adds(h, d, i, q)
        PROVE  claim[j] # NoClaim /\ claim'[j] = claim[j]
    BY <2>1 DEF Adds
  <2> QED BY <2>1, RegistrySteps DEF Ages
<1>2. ASSUME ~claim[j].cleaned, HasTicket(claim[j].request)
      PROVE  \E h \in Handlers : At(h) = "cleaned" /\ handler[h].item[2] = claim[j].device
  <2>1. claim[j] \in Claims /\ claim \in [Invites -> Claims \cup {NoClaim}]
    BY <1>1, Rows DEF PairingInv, Registry
  <2>2. PICK h \in Handlers : RegistryStep(h)
    <3>1. Outside \/ Crash => UNCHANGED registry
      BY OutsideTouches DEF Crash, registryVars, registry
    <3>2. ~UNCHANGED registry
      BY <1>2 DEF registry
    <3> QED BY <3>1, <3>2, NextIs, ThreadTouches DEF ThreadStep
  <2>3. ~Prune(h)
    <3>1. SUFFICES ASSUME Prune(h) PROVE FALSE
      OBVIOUS
    <3> DEFINE b == ~HasTicket(claim[j].request)
    <3>2. claim'[j] = claim[j] \/ claim'[j] = [claim[j] EXCEPT !.state = "expired", !.cleaned = b]
      BY <3>1 DEF Prune
    <3>3. b = FALSE
      BY <1>2
    <3> HIDE DEF b
    <3> QED BY <1>2, <2>1, <3>2, <3>3 DEF Claims
  <2>4. ~CreateDevice(h)
    BY <1>2, CreateAdds DEF registry, Adds
  <2>5. ~UndoDevice(h)
    BY <1>2 DEF UndoDevice
  <2>6. ~Decide(h)
    <3>1. SUFFICES ASSUME Decide(h) PROVE FALSE
      OBVIOUS
    <3>2. claim' = [claim EXCEPT ![handler[h].i].state = "superseded"]
      BY <1>2, <3>1 DEF Decide
    <3>3. claim'[j] = claim[j] \/ claim'[j] = [claim[j] EXCEPT !.state = "superseded"]
      BY <2>1, <3>2
    <3> QED BY <1>2, <2>1, <3>3 DEF Claims
  <2>7. ~Commit(h)
    <3>1. SUFFICES ASSUME Commit(h) PROVE FALSE
      OBVIOUS
    <3>2. claim' = [claim EXCEPT ![handler[h].i].state = "active"]
      BY <1>2, <3>1 DEF Commit, Activate, Reactivate
    <3>3. claim'[j] = claim[j] \/ claim'[j] = [claim[j] EXCEPT !.state = "active"]
      BY <2>1, <3>2
    <3> QED BY <1>2, <2>1, <3>3 DEF Claims
  <2>8. \A d \in Devices : ~Revoke(h, d)
    BY <1>2 DEF Revoke
  <2>9. MarkCleaned(h)
    BY <2>2, <2>3, <2>4, <2>5, <2>6, <2>7, <2>8 DEF RegistryStep
  <2>10. At(h) = "cleaned" /\ (claim' = claim \/ (/\ claim[handler[h].item[1]].device = handler[h].item[2]
                                                  /\ claim' = [claim EXCEPT ![handler[h].item[1]].cleaned = TRUE]))
    BY <2>9 DEF MarkCleaned
  <2>11. handler[h].item[1] = j
    BY <1>2, <2>1, <2>10
  <2> QED BY <1>2, <2>10, <2>11
<1> QED BY <1>1, <1>2

(* A claim that ended stays ended.                                         *)
LEMMA EndedLasts ==
  ASSUME PairingInv, [PairingNext]_vars, NEW d \in 1 .. created, Ended(d)
  PROVE  Ended(d)'
<1>1. ASSUME Ages, NEW i \in Invites, claim'[i] # NoClaim, claim'[i].device = d
      PROVE  claim'[i].state \in Refused
  <2>1. claim[i] # NoClaim /\ claim[i].device = d
        /\ (claim[i].state # "pending" => claim'[i].state = claim[i].state)
    BY <1>1 DEF Ages
  <2>2. claim[i].state \in Refused
    BY <2>1 DEF Ended
  <2> QED BY <2>1, <2>2 DEF Refused
<1>2. ASSUME NEW h \in Handlers, NEW e, NEW j, NEW q, Adds(h, e, j, q),
             NEW i \in Invites, claim'[i] # NoClaim, claim'[i].device = d
      PROVE  claim'[i].state \in Refused
  <2>1. i # j
    <3>1. d # e
      BY <1>2, Counted DEF Adds
    <3> QED BY <1>2, <3>1 DEF Adds
  <2>2. claim'[i] = claim[i]
    BY <1>2, <2>1 DEF Adds
  <2> QED BY <1>2, <2>2 DEF Ended
<1> QED BY <1>1, <1>2, RegistrySteps DEF Ended

(* The items of a clean-up have ended.                                     *)
LEMMA ItemsEnd ==
  ASSUME PairingInv, [PairingNext]_vars, NEW h \in Handlers, ThreadStep(h), At(h)' \in Cleaning
  PROVE  \A x \in handler'[h].todo : Ended(x[2])'
<1>1. HandlersGood /\ handler \in [Handlers -> HandlerRecords]
  BY DEF PairingInv, HandlersGood
<1>2. Prune(h) \/ CleanSecret(h) \/ MarkCleaned(h) \/ Decide(h)
  BY Arrives DEF Arrival
<1>3. CASE CleanSecret(h) \/ MarkCleaned(h)
  <2>1. At(h) \in Cleaning /\ handler'[h].todo \subseteq handler[h].todo
    <3>1. CleanSecret(h) => handler'[h].todo \subseteq handler[h].todo
      <4>1. SUFFICES ASSUME CleanSecret(h) PROVE handler'[h].todo \subseteq handler[h].todo
        OBVIOUS
      <4>2. PICK item \in handler[h].todo :
              \/ handler' = [handler EXCEPT ![h].pc = "cleaned", ![h].item = item,
                                            ![h].todo = handler[h].todo \ {item}]
              \/ handler' = [handler EXCEPT ![h].todo = handler[h].todo \ {item}]
        BY <4>1 DEF CleanSecret
      <4> QED BY <1>1, <4>2 DEF HandlerRecords
    <3> QED BY <1>1, <1>3, <3>1, CleanGoes DEF CleanSecret, MarkCleaned, Cleaning
  <2>2. ASSUME NEW x \in handler'[h].todo PROVE Ended(x[2])'
    <3>1. Ended(x[2]) /\ x[2] \in 1 .. created
      BY <2>1, Fields DEF PairingInv, SecretsGood
    <3> QED BY <3>1, EndedLasts
  <2> QED BY <2>2
<1>4. CASE Prune(h)
  <2>1. PICK p : handler' = [handler EXCEPT ![h].todo = {Item(i) : i \in Outstanding \cup
                                              {j \in Expiring : HasTicket(claim[j].request)}},
                                            ![h].pc = p]
    BY <1>4 DEF Prune
  <2>2. ASSUME NEW x \in handler'[h].todo PROVE Ended(x[2])'
    <3>1. PICK i \in Outstanding \cup Expiring : x = Item(i)
      BY <1>1, <2>1 DEF HandlerRecords
    <3>2. i \in Invites /\ claim[i] # NoClaim /\ x[2] = claim[i].device
      BY <3>1, ItemsAreClaims DEF Item
    <3>3. CASE i \in Outstanding
      <4>1. claim[i].state \in Refused
        BY <3>3 DEF Outstanding, Rejected, ClaimsIn, Refused
      <4>2. Ended(x[2])
        BY <3>2, <4>1, Rows DEF Ended
      <4>3. x[2] \in 1 .. created
        BY <3>2, Rows, Counted DEF Devices
      <4> QED BY <4>2, <4>3, EndedLasts
    <3>4. CASE i \in Expiring
      <4>1. ASSUME NEW k \in Invites, claim'[k] # NoClaim, claim'[k].device = x[2]
            PROVE  claim'[k].state \in Refused
        <5>1. k = i
          BY <1>4, <3>2, <4>1, PruneAges, Rows DEF Ages
        <5>2. claim[i] \in Claims
          BY <3>2, Rows
        <5> DEFINE b == ~HasTicket(claim[i].request)
        <5>3. claim'[i] = [claim[i] EXCEPT !.state = "expired", !.cleaned = b]
          BY <1>4, <3>2, <3>4, <4>1, <5>1 DEF Prune
        <5> HIDE DEF b
        <5> QED BY <5>1, <5>2, <5>3 DEF Claims, Refused
      <4> QED BY <4>1 DEF Ended
    <3> QED BY <3>1, <3>3, <3>4
  <2> QED BY <2>2
<1>5. CASE Decide(h)
  <2>1. PICK i, d : i = handler[h].i /\ d = handler[h].d
    OBVIOUS
  <2>2. At(h)' = "clean"
    BY <1>1, <1>5, ActivateGoes DEF Goes, Cleaning
  <2>3. /\ handler'[h].todo = {<<i, d>>}
        /\ Activable(i, d) /\ device[d].state = "pending" /\ claim' = [claim EXCEPT ![i].state = "superseded"]
    <3>1. \A p \in {"reject", "marking"} : ~Goto(h, p)
      <4>1. \A p \in {"reject", "marking"} : Goto(h, p) => At(h)' = p
        BY <1>1, GotoGoes DEF Goes
      <4> QED BY <2>2, <4>1
    <3>2. handler'[h].todo = {<<i, d>>}
      BY <1>1, <1>5, <2>1, <2>2, ActivateGoes DEF Goes
    <3> QED BY <1>5, <2>1, <3>1, <3>2 DEF Decide
  <2>4. i \in Invites /\ claim[i] # NoClaim /\ claim[i].device = d
    BY <1>1, <1>5, <2>1, <2>3, KindAt, Fields DEF Decide, Activable
  <2>5. claim[i] \in Claims /\ claim \in [Invites -> Claims \cup {NoClaim}]
    BY <2>4, Rows DEF PairingInv, Registry
  <2>6. claim'[i].state = "superseded"
    BY <2>3, <2>4, <2>5 DEF Claims
  <2>7. Ended(d)'
    <3>1. ASSUME NEW k \in Invites, claim'[k] # NoClaim, claim'[k].device = d PROVE k = i
      BY <1>5, <2>4, <3>1, DecideAges, Rows DEF Ages
    <3> QED BY <2>6, <3>1 DEF Ended, Refused
  <2>8. \A x \in handler'[h].todo : x[2] = d
    BY <2>3
  <2> QED BY <2>7, <2>8
<1> QED BY <1>2, <1>3, <1>4, <1>5

(* The item in hand has no secret any more.                                *)
LEMMA ItemInHand ==
  ASSUME PairingInv, [PairingNext]_vars, NEW h \in Handlers, ThreadStep(h), At(h)' = "cleaned"
  PROVE  \A d : d = handler'[h].item[2] => Ended(d)' /\ d \notin Kept'
<1>1. CleanSecret(h) /\ At(h) = "clean" /\ handler \in [Handlers -> HandlerRecords]
  BY Arrives DEF Arrival, CleanSecret, PairingInv, HandlersGood
<1>2. PICK item \in handler[h].todo :
         /\ secrets' = secrets \ {item[2]}
         /\ handler' = [handler EXCEPT ![h].pc = "cleaned", ![h].item = item,
                                       ![h].todo = handler[h].todo \ {item}]
  <2>1. \A S : handler' # [handler EXCEPT ![h].todo = S]
    BY <1>1 DEF HandlerRecords, At
  <2> QED BY <1>1, <2>1 DEF CleanSecret
<1>3. handler'[h].item = item
  BY <1>1, <1>2 DEF HandlerRecords
<1>4. Ended(item[2]) /\ item[2] \in 1 .. created
  BY <1>1, Fields DEF PairingInv, SecretsGood, Cleaning
<1>5. item[2] \notin Kept'
  BY <1>2 DEF Kept
<1> QED BY <1>3, <1>4, <1>5, EndedLasts

(* Every step keeps SecretsGood.                                           *)
LEMMA SecretsStayGood ==
  ASSUME PairingInv, [PairingNext]_vars
  PROVE  SecretsGood'
<1>1. ASSUME NEW d \in Kept'
      PROVE  /\ Row(d)' /\ HasTicket(device'[d].request)
             /\ device'[d].state \in Refused => ~claim'[PairOf[device'[d].request]].cleaned
  <2>1. CASE d \notin Kept
    <3>1. /\ UNCHANGED registry /\ d \in Devices /\ Row(d) /\ HasTicket(device[d].request)
          /\ \E i \in Invites : claim[i] # NoClaim /\ claim[i].device = d /\ claim[i].state = "pending"
      BY <2>1, SecretsGrow
    <3>2. device[d].state = "pending"
      BY <3>1, Rows
    <3> QED BY <3>1, <3>2 DEF Row, registry, Refused
  <2>2. CASE d \in Kept
    <3>1. d \in Devices /\ Row(d) /\ HasTicket(device[d].request) /\ d \in 1 .. created
          /\ (device[d].state \in Refused => ~claim[PairOf[device[d].request]].cleaned)
      <4>1. d \in secrets
        BY <2>2 DEF Kept
      <4>2. d \in 1 .. created /\ d \in Devices
        BY <4>1, Counted DEF PairingInv, StoresGood, Devices
      <4> QED BY <2>2, <4>2 DEF PairingInv, SecretsGood
    <3> DEFINE j == PairOf[device[d].request]
    <3>2. Row(d)'
      <4>1. ASSUME NEW i \in Forgotten, claim[i].device = d PROVE FALSE
        <5>1. i \in Invites /\ claim[i] # NoClaim /\ claim[i].cleaned
          BY DEF Forgotten, Rejected, ClaimsIn
        <5>2. device[d].state \in Refused /\ j = i
          BY <4>1, <5>1, Rows
        <5> QED BY <3>1, <5>1, <5>2
      <4> QED BY <3>1, <4>1, RowsGo
    <3>3. device'[d].request = device[d].request
      <4>1. ASSUME NEW h \in Handlers, NEW e, NEW i, NEW q, Adds(h, e, i, q)
            PROVE  device'[d] = device[d]
        BY <3>1, <4>1 DEF Adds
      <4> QED BY <3>1, <3>2, <4>1, RegistrySteps DEF Ages
    <3>4. ASSUME device'[d].state \in Refused, claim'[j].cleaned PROVE FALSE
      <4>1. j \in Invites
        BY <3>1, Rows
      <4>2. claim'[j] # NoClaim /\ claim'[j].device = d
        <5>1. Registry(claim, device, created)'
          BY RegistryStaysGood DEF RegistryGood
        <5>2. device'[d].state # "active" /\ device'[d] # NoDevice
          BY <3>2, <3>4 DEF Refused, Row
        <5> QED BY <3>1, <3>3, <5>1, <5>2 DEF Registry
      <4>3. /\ claim[j] # NoClaim /\ claim[j].device = d
            /\ \/ claim[j].cleaned
               \/ ~HasTicket(claim[j].request)
               \/ \E h \in Handlers : At(h) = "cleaned" /\ handler[h].item[2] = d
        BY <3>4, <4>1, <4>2, CleanedGrows
      <4>4. claim[j].request = device[d].request /\ (claim[j].cleaned => device[d].state \in Refused)
        <5> HIDE DEF j
        <5>1. device[d].request = claim[j].request /\ device[d].state = claim[j].state
          BY <4>1, <4>3, Rows
        <5>2. claim[j].cleaned => claim[j].state \in Refused
          BY <4>1, <4>3, Rows
        <5> QED BY <5>1, <5>2
      <4> QED BY <2>2, <3>1, <4>3, <4>4 DEF PairingInv, SecretsGood
    <3> QED BY <3>1, <3>2, <3>3, <3>4
  <2> QED BY <2>1, <2>2
<1>2. ASSUME NEW h \in Handlers, At(h)' \in Cleaning, handler'[h] = handler[h]
      PROVE  /\ \A x \in handler'[h].todo : Ended(x[2])'
             /\ At(h)' = "cleaned" => \A d : d = handler'[h].item[2] => Ended(d)' /\ d \notin Kept'
  <2>1. At(h)' = At(h)
    BY <1>2 DEF At
  <2>2. ASSUME NEW x \in handler[h].todo PROVE Ended(x[2])'
    <3>1. Ended(x[2]) /\ x[2] \in 1 .. created
      BY <1>2, <2>1, Fields DEF PairingInv, SecretsGood
    <3> QED BY <3>1, EndedLasts
  <2>3. ASSUME At(h) = "cleaned", NEW d, d = handler[h].item[2] PROVE Ended(d)' /\ d \notin Kept'
    <3>2. Ended(d) /\ d \notin Kept /\ d \in 1 .. created
      BY <2>3, Fields DEF PairingInv, SecretsGood
    <3>3. d \notin Kept'
      BY <3>2, SecretsGrow DEF Ended, Refused
    <3>4. Ended(d)'
      BY <3>2, EndedLasts
    <3> QED BY <3>3, <3>4
  <2> QED BY <1>2, <2>1, <2>2, <2>3
<1>3. ASSUME NEW h \in Handlers, At(h)' \in Cleaning
      PROVE  handler'[h] = handler[h] \/ ThreadStep(h)
  <2>1. CASE Crash
    BY <1>3, <2>1 DEF Crash, At, Idle, Cleaning
  <2> QED BY <2>1, NextIs, OutsideTouches, Arrives DEF Arrival, Others
<1>4. \A h \in Handlers : At(h)' \in Cleaning => \A x \in handler'[h].todo : Ended(x[2])'
  BY <1>2, <1>3, ItemsEnd
<1>5. ASSUME NEW h \in Handlers, At(h)' = "cleaned"
      PROVE  Ended(handler[h].item[2])' /\ handler'[h].item[2] \notin Kept'
  <2>1. At(h)' \in Cleaning
    BY <1>5 DEF Cleaning
  <2>2. PICK d : d = handler'[h].item[2]
    OBVIOUS
  <2>3. Ended(d)' /\ d \notin Kept'
    BY <1>2, <1>3, <1>5, <2>1, <2>2, ItemInHand
  <2> QED BY <2>2, <2>3
<1> QED BY <1>1, <1>4, <1>5 DEF SecretsGood
-----------------------------------------------------------------------------
(* Push registrations.                                                     *)

(* Tombstones stay; a registration that is stored found none.              *)
LEMMA PushMoves ==
  ASSUME PairingInv, [PairingNext]_vars
  PROVE  /\ tombs \subseteq tombs'
         /\ \A e : e \in push' /\ e \notin push => e \in pushing /\ e \notin tombs /\ UNCHANGED registry
         /\ \A e : e \in pushing' /\ e \notin pushing => Live(e) /\ UNCHANGED registry
<1>1. CASE Outside
  <2>1. UNCHANGED <<tombs, registry>>
    BY <1>1, OutsideTouches
  <2>2. UNCHANGED push \/ \E d \in Devices : StorePush(d)
    BY <1>1, OutsideTouches
  <2>3. \/ UNCHANGED pushing
        \/ \E q \in Requests : AuthenticatePush(q)
        \/ \E d \in Devices : StorePush(d)
    BY <1>1, OutsideTouches
  <2>4. \A e : e \in push' /\ e \notin push => e \in pushing /\ e \notin tombs
    BY <2>2 DEF StorePush
  <2>5. \A e : e \in pushing' /\ e \notin pushing => Live(e)
    BY <2>3 DEF StorePush, AuthenticatePush
  <2> QED BY <2>1, <2>4, <2>5
<1>2. CASE Crash
  BY <1>2 DEF Crash, secretVars
<1>3. ASSUME NEW h \in Handlers, ThreadStep(h)
      PROVE  tombs \subseteq tombs' /\ push' \subseteq push /\ pushing' = pushing
  <2>1. UNCHANGED pushing /\ (UNCHANGED <<tombs, push>> \/ DropDevice(h) \/ Sweep(h))
    BY <1>3, ThreadTouches DEF ThreadStep
  <2> QED BY <2>1 DEF DropDevice, Sweep
<1> QED BY <1>1, <1>2, <1>3, NextIs

(* What is clean stays clean.                                              *)
LEMMA CleanLasts ==
  ASSUME PairingInv, [PairingNext]_vars, NEW e \in Devices, NEW d \in 1 .. created,
         Row(e), device[e].by = d, Clean(e)
  PROVE  Row(e)' => Clean(e)'
<1>1. SUFFICES ASSUME Row(e)' PROVE Clean(e)'
  OBVIOUS
<1>2. device[e].state \in {"active", "superseded"}
  <2>1. d # 0
    BY Counted
  <2> QED BY <2>1, Rows
<1>3. e \notin push'
  <2>1. e \in pushing => device[e].state = "active"
    BY DEF PairingInv, PushGood
  <2> QED BY <2>1, PushMoves DEF Clean
<1>4. e \in tombs' \/ device'[e].state # "active"
  <2>1. CASE e \in tombs
    BY <2>1, PushMoves
  <2>2. CASE device[e].state = "superseded"
    <3>1. ASSUME NEW h \in Handlers, NEW f, NEW i, NEW q, Adds(h, f, i, q)
          PROVE  device'[e] = device[e]
      BY <3>1 DEF Adds
    <3>2. device'[e].state = "superseded"
      BY <1>1, <2>2, <3>1, RegistrySteps DEF Ages
    <3> QED BY <3>2
  <2> QED BY <1>2, <2>1, <2>2 DEF Clean
<1> QED BY <1>3, <1>4 DEF Clean

(* What was clean up to a list of drops stays so.                          *)
LEMMA CleanButLasts ==
  ASSUME PairingInv, [PairingNext]_vars, NEW d \in 1 .. created, NEW S, CleanBut(d, S)
  PROVE  CleanBut(d, S)'
<1>1. d \in Devices /\ d # 0 /\ d # created + 1
  BY Counted DEF Devices
<1>2. CASE Ages
  <2>1. Row(d)' => device'[d].state # "pending"
    BY <1>1, <1>2 DEF Ages, CleanBut
  <2>2. ASSUME NEW e \in Devices, Row(e)', device'[e].by = d PROVE e \in S \/ Clean(e)'
    <3>1. Row(e) /\ (\/ device[e].by = d
                     \/ device[e].state = "pending" /\ device'[e].state \in Refused
                     \/ Row(d) /\ device[d].state = "pending")
      BY <1>2, <2>2 DEF Ages
    <3>2. CASE device[e].by = d
      BY <2>2, <3>1, <3>2, CleanLasts DEF CleanBut
    <3>3. CASE device[e].state = "pending" /\ device'[e].state \in Refused
      <4>1. e \notin push /\ ~UNCHANGED registry
        BY <3>1, <3>3 DEF PairingInv, PushGood, registry, Refused
      <4>2. e \notin push'
        BY <4>1, PushMoves
      <4> QED BY <3>3, <4>2 DEF Clean, Refused
    <3> QED BY <3>1, <3>2, <3>3 DEF CleanBut
  <2> QED BY <2>1, <2>2 DEF CleanBut
<1>3. ASSUME NEW h \in Handlers, NEW f, NEW i, NEW q, Adds(h, f, i, q) PROVE CleanBut(d, S)'
  <2>1. /\ f = created + 1 /\ device'[f].by = 0
        /\ \A e \in Devices \ {f} : device'[e] = device[e]
    BY <1>3 DEF Adds
  <2>2. Row(d)' => device'[d].state # "pending"
    BY <1>1, <2>1 DEF Row, CleanBut
  <2>3. ASSUME NEW e \in Devices, Row(e)', device'[e].by = d PROVE e \in S \/ Clean(e)'
    <3>1. e # f /\ device'[e] = device[e] /\ Row(e)
      BY <1>1, <2>1, <2>3 DEF Row
    <3> QED BY <2>3, <3>1, CleanLasts DEF CleanBut
  <2> QED BY <2>2, <2>3 DEF CleanBut
<1> QED BY <1>2, <1>3, RegistrySteps

(* The commit leaves only its replaced devices to be dropped.              *)
LEMMA CommitLeaves ==
  ASSUME PairingInv, NEW h \in Handlers, Commit(h)
  PROVE  \A d, S : d = handler[h].d /\ S = handler'[h].todo => CleanBut(d, S)'
<1>1. At(h) = "commit" /\ handler \in [Handlers -> HandlerRecords]
  BY DEF Commit, PairingInv, HandlersGood
<1>2. PICK i, d : i = handler[h].i /\ d = handler[h].d
  OBVIOUS
<1>3. /\ handler[h].kind = "activate" /\ d \in Devices /\ Row(d) /\ d # 0
  BY <1>1, <1>2, Committing, Fields DEF Devices
<1>5. PICK S : S = handler'[h].todo
  OBVIOUS
<1>6. CASE device[d].state = "active" /\ Reactivate(h)
  <2>1. UNCHANGED device /\ S = {e \in Devices : Row(e) /\ device[e].by = d /\ device[e].revoked}
    BY <1>1, <1>2, <1>5, <1>6 DEF Reactivate, HandlerRecords
  <2>2. \A e \in Devices : Row(e) /\ device[e].by = d => e \in S
    BY <1>3, <2>1, Rows
  <2>3. CleanBut(d, S)'
    BY <1>6, <2>1, <2>2 DEF CleanBut, Row
  <2> QED BY <1>2, <1>5, <2>3
<1>7. CASE device[d].state = "pending" /\ Activate(h)
  <2>1. S = Replaced(d)
    BY <1>1, <1>2, <1>5, <1>7 DEF Activate, HandlerRecords
  <2>2. /\ device'[d].state = "active" /\ device'[d].by = 0
        /\ \A e \in Devices \ {d} : e \notin Replaced(d) => device'[e] = device[e]
    BY <1>1, <1>2, <1>7, ActivateRows
  <2>3. ASSUME NEW e \in Devices, Row(e)', device'[e].by = d, e \notin S PROVE FALSE
    <3>1. e # d
      BY <1>3, <2>2, <2>3
    <3>2. device[e].by = d /\ Row(e)
      BY <2>1, <2>2, <2>3, <3>1 DEF Row
    <3> QED BY <1>3, <1>7, <3>2, Rows
  <2>4. CleanBut(d, S)'
    BY <2>2, <2>3 DEF CleanBut
  <2> QED BY <1>2, <1>5, <2>4
<1> QED BY <1>2, <1>6, <1>7 DEF Commit

(* Every step keeps PushGood.                                              *)
LEMMA PushStaysGood ==
  ASSUME PairingInv, [PairingNext]_vars
  PROVE  PushGood'
<1>1. ASSUME NEW e \in push' \cup pushing', Row(e)' PROVE device'[e].state = "active"
  <2>1. CASE e \in push \cup pushing
    <3>1. e \in 1 .. created /\ e \in Devices
      BY <2>1, Counted DEF PairingInv, StoresGood, Devices
    <3>2. ASSUME NEW h \in Handlers, NEW f, NEW i, NEW q, Adds(h, f, i, q)
          PROVE  device'[e] = device[e]
      BY <3>1, <3>2, Counted DEF Adds
    <3>3. Row(e) /\ (device[e].state # "pending" => device'[e].state = device[e].state)
      BY <1>1, <3>1, <3>2, RegistrySteps DEF Ages, Row
    <3> QED BY <2>1, <3>3 DEF PairingInv, PushGood
  <2>2. CASE e \notin push \cup pushing
    <3>1. Live(e) /\ UNCHANGED registry
      BY <1>1, <2>2, PushMoves
    <3> QED BY <3>1 DEF Live, registry
  <2> QED BY <2>1, <2>2
<1>2. ASSUME NEW h \in Handlers, handler'[h].kind = "activate"
      PROVE  /\ At(h)' = "drop" => CleanBut(handler[h].d, handler[h].todo)'
             /\ At(h)' \in Settling => CleanBut(handler[h].d, {})'
  <2>1. PICK n : n = handler'[h]
    OBVIOUS
  <2>2. CASE handler'[h] = handler[h]
    <3>1. n.d \in 1 .. created /\ n = handler[h]
      BY <1>2, <2>1, <2>2, Fields
    <3>2. /\ n.pc = "drop" => CleanBut(n.d, n.todo)
          /\ n.pc \in Settling => CleanBut(n.d, {})
      BY <1>2, <2>1, <2>2 DEF PairingInv, PushGood, At
    <3>3. /\ n.pc = "drop" => CleanBut(n.d, n.todo)'
          /\ n.pc \in Settling => CleanBut(n.d, {})'
      BY <3>1, <3>2, CleanButLasts
    <3>4. At(h)' = n.pc
      BY <2>1 DEF At
    <3> QED BY <2>1, <3>3, <3>4
  <2>3. CASE ThreadStep(h) /\ handler'[h] # handler[h]
    <3>1. Arrival(h) /\ HandlersGood
      BY <2>3, Arrives DEF PairingInv
    <3>2. CASE At(h)' \notin {"drop"} \cup Settling
      BY <3>2
    <3>3. CASE At(h)' \in {"drop"} \cup Settling
      <4>1. handler[h].kind = "activate" /\ n.d = handler[h].d /\ handler[h].d \in 1 .. created
        BY <1>2, <2>1, <3>1, <3>3, Fields DEF Arrival, Settling
      <4>2. CASE At(h)' = "drop" /\ Commit(h)
        <5>1. PICK d, S : d = handler[h].d /\ S = handler'[h].todo
          OBVIOUS
        <5>2. CleanBut(d, S)'
          BY <4>2, <5>1, CommitLeaves
        <5> QED BY <2>1, <4>1, <4>2, <5>1, <5>2 DEF Settling
      <4>3. CASE At(h)' = "drop" /\ DropDevice(h)
        <5>1. PICK d, S, T : d = handler[h].d /\ S = handler[h].todo /\ T = handler'[h].todo
          OBVIOUS
        <5>2. Idle.pc = "idle"
          BY DEF Idle
        <5>3. PICK e \in S : T = S \ {e} /\ e \in tombs' /\ e \notin push'
          BY <3>1, <4>3, <5>1, <5>2, ActivateGoes DEF At
        <5>4. CleanBut(d, S)
          BY <4>1, <4>3, <5>1 DEF PairingInv, PushGood, DropDevice
        <5>5. CleanBut(d, S)' /\ Clean(e)'
          BY <4>1, <5>1, <5>3, <5>4, CleanButLasts DEF Clean
        <5>6. CleanBut(d, T)'
          BY <5>3, <5>5 DEF CleanBut
        <5> QED BY <2>1, <4>1, <4>3, <5>1, <5>6 DEF Settling
      <4>4. CASE At(h)' \in Settling
        <5>1. PICK d : d = handler[h].d
          OBVIOUS
        <5>2. DropDone(h) \/ Announce(h) \/ CompleteNotice(h)
          BY <1>2, <3>1, <4>4 DEF Arrival
        <5>3. CleanBut(d, {})
          <6>1. CASE DropDone(h)
            BY <4>1, <5>1, <6>1 DEF PairingInv, PushGood, DropDone
          <6>2. CASE Announce(h) \/ CompleteNotice(h)
            BY <4>1, <5>1, <6>2 DEF PairingInv, PushGood, Announce, CompleteNotice, Settling
          <6> QED BY <5>2, <6>1, <6>2
        <5>4. CleanBut(d, {})'
          BY <4>1, <5>1, <5>3, CleanButLasts
        <5> QED BY <2>1, <4>1, <4>4, <5>1, <5>4 DEF Settling
      <4> QED BY <1>2, <3>1, <3>3, <4>2, <4>3, <4>4 DEF Arrival
    <3> QED BY <3>2, <3>3
  <2>4. handler'[h] = handler[h] \/ ThreadStep(h)
    <3>1. CASE Crash
      BY <1>2, <3>1 DEF Crash, Idle
    <3> QED BY <3>1, NextIs, OutsideTouches, Arrives DEF Arrival, Others
  <2> QED BY <2>2, <2>3, <2>4
<1>3. ASSUME NEW q \in Requests, phone'[q].done
      PROVE  phone'[q].device # 0 /\ CleanBut(phone[q].device, {})'
  <2>1. PICK d : d = phone[q].device
    OBVIOUS
  <2>2. d # 0 /\ CleanBut(d, {})
    <3>1. CASE phone[q].done
      BY <2>1, <3>1 DEF PairingInv, PushGood
    <3>2. CASE ~phone[q].done
      <4>1. ~Outside /\ ~Crash
        BY <1>3, <3>2, OutsideTouches DEF Crash
      <4>2. PICK h \in Handlers : ThreadStep(h)
        BY <4>1, NextIs
      <4>3. phone \in [Requests -> [device : 0 .. created, done : BOOLEAN]]
        BY DEF PairingInv, StoresGood
      <4>4. ~Reply(h)
        BY <1>3, <3>2, <4>3 DEF Reply
      <4>5. Acknowledge(h)
        BY <1>3, <3>2, <4>2, <4>4, ThreadTouches DEF ThreadStep
      <4>6. At(h) = "ack" /\ handler[h].kind = "activate" /\ handler[h].q = q
        BY <1>3, <3>2, <4>3, <4>5, KindAt DEF Acknowledge, PairingInv, Settling
      <4>7. handler[h].d = d /\ d \in 1 .. created
        BY <2>1, <4>6, Fields DEF PairingInv, PhonesGood
      <4>8. CleanBut(handler[h].d, {})
        BY <4>6 DEF PairingInv, PushGood, Settling
      <4> QED BY <4>7, <4>8, Counted
    <3> QED BY <3>1, <3>2
  <2>3. d \in 1 .. created
    BY <2>1, <2>2, Counted DEF PairingInv, StoresGood
  <2>4. phone'[q].device = d
    BY <2>1, <2>2, PhoneStays
  <2>5. CleanBut(d, {})'
    BY <2>2, <2>3, CleanButLasts
  <2> QED BY <2>2, <2>4, <2>5
<1> QED BY <1>1, <1>2, <1>3 DEF PushGood
-----------------------------------------------------------------------------
(* The invariant.                                                          *)
LEMMA PairingInvHoldsAtFirst ==
  ASSUME PairingInit
  PROVE  PairingInv
<1>1. /\ Idle.pc = "idle" /\ Idle.kind = "none"
      /\ \A h \in Handlers : handler[h] = Idle /\ At(h) = "idle"
  BY DEF PairingInit, Idle, At
<1>2. StoresGood
  <2>1. budget \in BudgetRecords
    BY PairingAssumption DEF PairingInit, PairingAssumption, BudgetRecords
  <2>2. phone \in [Requests -> [device : 0 .. created, done : BOOLEAN]]
    BY DEF PairingInit
  <2> QED BY <2>1, <2>2 DEF StoresGood, PairingInit
<1>3. RegistryGood
  BY PairingAssumption DEF PairingInit, RegistryGood, Registry, PairingAssumption
<1>4. \A d \in Devices : ~Row(d)
  BY DEF PairingInit, Row
<1>5. OneUsable /\ OneLiveDevicePerPhone
  BY <1>4 DEF OneUsable, UsableFor, Usable, OneLiveDevicePerPhone, Live
<1>6. HandlersGood
  <2>1. \A h \in Handlers : Shape(handler[h], created) /\ ~Locked(h)
    BY <1>1, IdleIsGood DEF Locked
  <2>2. Idle \in HandlerRecords
    BY IdleIsGood DEF Shape
  <2> QED BY <1>1, <2>1, <2>2, PairingAssumption DEF PairingInit, HandlersGood, PairingAssumption
<1>7. InvitesGood
  <2>1. \A h \in Handlers, i \in Invites : ~Starting(h, i)
    BY <1>1 DEF Starting
  <2>2. \A i \in Invites : ~Taken(i)
    BY <1>4 DEF Taken, Given, UsableFor, Usable, PairingInit
  <2>3. \A h \in Handlers : \A i : ~Starting(h, i)
    BY <1>1 DEF Starting
  <2> QED BY <2>1, <2>2, <2>3 DEF InvitesGood, PairingInit
<1>8. PhonesGood
  BY <1>1 DEF PhonesGood, PairingInit
<1>9. LockedGood
  BY <1>1 DEF LockedGood, ClaimingGood, ActivatingGood, Making, At
<1>10. SecretsGood
  BY <1>1 DEF SecretsGood, Kept, PairingInit, Cleaning
<1>11. PushGood
  BY <1>1 DEF PushGood, PairingInit
<1> QED BY <1>2, <1>3, <1>5, <1>6, <1>7, <1>8, <1>9, <1>10, <1>11 DEF PairingInv, RegistryGood

(* The invariant is inductive.                                             *)
LEMMA PairingInvIsKept ==
  ASSUME PairingInv, [PairingNext]_vars
  PROVE  PairingInv'
BY StoresStayGood, RegistryStaysGood, ThreadsStayGood, InvitesStayGood, PhonesStayGood,
   LockedStaysGood, SecretsStayGood, PushStaysGood DEF PairingInv, RegistryGood

(* The inductive invariant holds in every state the daemon reaches.        *)
THEOREM PairingInvariance == PairingSafety => []PairingInv
<1>1. PairingInit => PairingInv
  BY PairingInvHoldsAtFirst
<1>2. PairingInv /\ [PairingNext]_vars => PairingInv'
  BY PairingInvIsKept
<1> QED BY <1>1, <1>2, PTL DEF PairingSafety

(* PairingTypeOK: the stores hold what they are meant to hold, and         *)
(* _claim_lock is held by the one thread that is inside.                   *)
THEOREM StoresKeepTheirTypes == PairingSafety => []PairingTypeOK
<1>1. ASSUME PairingInv PROVE PairingTypeOK
  <2>1. 0 .. created \subseteq 0 .. MaxDevices
    BY <1>1, Counted
  <2>2. phone \in [Requests -> [device : 0 .. MaxDevices, done : BOOLEAN]]
    BY <1>1, <2>1 DEF PairingInv, StoresGood
  <2> QED BY <1>1, <2>2 DEF PairingTypeOK, PairingInv, StoresGood, Registry, HandlersGood, Row
<1> QED BY <1>1, PairingInvariance, PTL

(* OneLiveDevicePerPhone: an activation replaces every earlier device of   *)
(* the relay identity, so no two of them are ever live.                    *)
THEOREM OnePhoneOneDevice == PairingSafety => []OneLiveDevicePerPhone
<1>1. PairingInv => OneLiveDevicePerPhone
  BY DEF PairingInv
<1> QED BY <1>1, PairingInvariance, PTL

(* NewestRepairWins: a device is replaced by a younger one only.           *)
THEOREM YoungerReplacesOlder == PairingSafety => []NewestRepairWins
<1>1. PairingInv => NewestRepairWins
  BY Rows DEF NewestRepairWins
<1> QED BY <1>1, PairingInvariance, PTL

(* OneDevicePerInvitation: repeated, undone, expired or cut short by a     *)
(* crash, an invitation is behind one device and one phone.                *)
THEOREM InvitationsServeOnce == PairingSafety => []OneDevicePerInvitation
<1>1. ASSUME PairingInv PROVE OneDevicePerInvitation
  <2>1. ASSUME NEW d \in Devices, NEW e \in Devices, Usable(d), Usable(e),
               PairOf[device[d].request] = PairOf[device[e].request]
        PROVE  d = e
    <3>1. PairOf[device[d].request] \in Invites
      BY <1>1, <2>1, Rows DEF Usable
    <3> QED BY <1>1, <2>1, <3>1 DEF PairingInv, OneUsable, UsableFor
  <2>2. \A q, r \in Requests :
           PairOf[q] = PairOf[r] /\ phone[q].device # 0 /\ phone[r].device # 0 => q = r
    BY <1>1 DEF PairingInv, PhonesGood
  <2> QED BY <2>1, <2>2 DEF OneDevicePerInvitation
<1> QED BY <1>1, PairingInvariance, PTL

(* SecretsAreAccountedFor: a secret that no clean-up will reach is one of  *)
(* the two kinds kept in leaked.                                           *)
THEOREM SecretsHaveAKeeper == PairingSafety => []SecretsAreAccountedFor
<1>1. ASSUME PairingInv PROVE SecretsAreAccountedFor
  <2>1. ASSUME NEW d \in secrets \ leaked
        PROVE  /\ Row(d)
               /\ device[d].state \in {"expired", "superseded"} =>
                    \E i \in Invites : claim[i] # NoClaim /\ claim[i].device = d /\ ~claim[i].cleaned
    <3>1. /\ Row(d) /\ d \in Devices
          /\ device[d].state \in Refused => ~claim[PairOf[device[d].request]].cleaned
      <4>1. d \in 1 .. created
        BY <1>1 DEF PairingInv, StoresGood
      <4> QED BY <1>1, <4>1, Counted DEF PairingInv, SecretsGood, Kept, Devices
    <3>2. CASE device[d].state \in {"expired", "superseded"}
      <4>1. PairOf[device[d].request] \in Invites /\ claim[PairOf[device[d].request]] # NoClaim
            /\ claim[PairOf[device[d].request]].device = d
        BY <1>1, <3>1, <3>2, Rows
      <4> QED BY <3>1, <3>2, <4>1 DEF Refused
    <3> QED BY <3>1, <3>2
  <2> QED BY <2>1 DEF SecretsAreAccountedFor
<1> QED BY <1>1, PairingInvariance, PTL

(* AcknowledgedIsClean: the answer to an activation is held back until     *)
(* the registrations of the devices it replaced are gone for good.         *)
THEOREM AnswersComeAfterCleanUp == PairingSafety => []AcknowledgedIsClean
<1>1. ASSUME PairingInv PROVE AcknowledgedIsClean
  BY <1>1 DEF PairingInv, PushGood, CleanBut, Clean, AcknowledgedIsClean
<1> QED BY <1>1, PairingInvariance, PTL
=============================================================================
