------------------------- MODULE SessionStreamProofs -------------------------
(***************************************************************************)
(* Proofs about SessionStream: what a phone shows is one history without a *)
(* silent hole, and the generation it claims is the one its rows have, for *)
(* any limits and any number of rebuilds, failures and rows.               *)
(*                                                                         *)
(* The messages on the wire tell where the phone will be after each of     *)
(* them.  The invariant says that they follow one another, starting from   *)
(* where the phone is and ending at where the handler is, and that until   *)
(* the session is purged the build of a row is known by its generation.    *)
(***************************************************************************)
EXTENDS SessionStream, SequenceTheorems, TLAPS

------------------------------------------------------------------------------
(* The messages, and where the phone is after one of them.                 *)

Resets == [type : {"log_reset"}, gen : Nat]
Gaps == [type : {"backlog_gap"}, gen : Nat, from : 0 .. MaxRows, to : 0 .. MaxRows]
Events == [type : {"session_event"}, row : [seq : 1 .. MaxRows, build : Nat]]
Messages == Resets \cup Gaps \cup Events

PosAfter(m) == CASE m.type = "log_reset" -> 0
                 [] m.type = "backlog_gap" -> m.to
                 [] m.type = "session_event" -> m.row.seq
GenAfter(m) == IF m.type = "session_event" THEN m.row.build + 1 ELSE m.gen

(* The position and the generation of a phone that was at p, or had g, and *)
(* has read the first i messages of s.                                     *)
PosAt(s, p, i) == IF i = 0 THEN p ELSE PosAfter(s[i])
GenAt(s, g, i) == IF i = 0 THEN g ELSE GenAfter(s[i])

(* Each gap and each row begins where the phone will be.                   *)
Continues(m, p) == /\ m.type = "backlog_gap" => m.from = p /\ m.from <= m.to
                   /\ m.type = "session_event" => m.row.seq = p + 1
Follows(s, p) == \A i \in 1 .. Len(s) : Continues(s[i], PosAt(s, p, i - 1))

(* Only a reset changes the generation.                                    *)
Keeps(s, g) == \A i \in 1 .. Len(s) : s[i].type # "log_reset" =>
                                         GenAfter(s[i]) = GenAt(s, g, i - 1)

(* Where the phone will be, and in which generation, when it has read all. *)
WireEnd == PosAt(wire, phone.cursor, Len(wire))
WireGen == GenAt(wire, phone.gen, Len(wire))

(* What the handler writes.                                                *)
Announce(g) == <<Reset(g)>>
Restart(g, l) == Announce(g) \o GapBelow(g, 0, l)
SentRows(c, n) == [i \in 1 .. n |-> Event(c + i)]

------------------------------------------------------------------------------
(* The inductive invariant.                                                *)

CallTypeOK ==
    /\ call \in [at : {"none", "asked", "answered"}, kind : {"page", "row"}, gen : Nat,
                 from : 0 .. MaxRows, to : 0 .. MaxRows,
                 rows : SUBSET [seq : 1 .. MaxRows, build : 0 .. log.build]]
    /\ phone \in [gen : Nat, cursor : 0 .. MaxRows,
                  held : SUBSET [seq : 1 .. MaxRows, build : 0 .. log.build],
                  missing : SUBSET (1 .. MaxRows)]
    /\ wire \in Seq(Messages)
    /\ \A i \in 1 .. Len(wire) : GenAfter(wire[i]) <= log.build + 1

(* The wire begins where the phone is and ends where the handler is.       *)
WireFollows ==
    /\ Follows(wire, phone.cursor)
    /\ reader.at \in {"idle", "opened"} => wire = <<>>
    /\ reader.at = "opened" => reader.cursor = phone.cursor /\ reader.client = phone.gen
    /\ reader.at = "streaming" => reader.cursor = WireEnd

(* What the phone asked for is below where it is.                          *)
CallIsBelow ==
    call.at # "none" =>
       /\ call.gen = phone.gen /\ call.from <= call.to /\ call.to <= phone.cursor
       /\ \A r \in call.rows : r.seq <= call.to

(* Until a purge, a generation has one build, and nobody is ahead of the   *)
(* log in the present one.                                                 *)
BuildsAreGenerations ==
    ~purged =>
       /\ log.gen = log.build + 1
       /\ \A r \in phone.held \cup call.rows : r.build + 1 = phone.gen
       /\ Keeps(wire, phone.gen)
       /\ reader.at = "streaming" => reader.gen = WireGen
       /\ phone.gen <= log.gen /\ reader.gen <= log.gen
       /\ \A i \in 0 .. Len(wire) :
             GenAt(wire, phone.gen, i) = log.gen => PosAt(wire, phone.cursor, i) <= log.last

StreamInv == /\ StreamTypeOK /\ CallTypeOK
             /\ WireFollows /\ CallIsBelow /\ NoSilentHole /\ BuildsAreGenerations

------------------------------------------------------------------------------
(* Facts about messages and about sequences of them.                       *)

LEMMA MessageShape ==
    ASSUME NEW m \in Messages
    PROVE  /\ m.type \in {"log_reset", "backlog_gap", "session_event"}
           /\ m.type = "log_reset" => m.gen \in Nat
           /\ m.type = "backlog_gap" => m.gen \in Nat /\ m.from \in 0 .. MaxRows /\ m.to \in 0 .. MaxRows
           /\ m.type = "session_event" => m.row \in [seq : 1 .. MaxRows, build : Nat]
           /\ PosAfter(m) \in 0 .. MaxRows
           /\ GenAfter(m) \in Nat
<1>1. CASE m \in Resets
  BY <1>1, StreamAssumption DEF Resets, PosAfter, GenAfter, StreamAssumption
<1>2. CASE m \in Gaps
  BY <1>2 DEF Gaps, PosAfter, GenAfter
<1>3. CASE m \in Events
  BY <1>3, StreamAssumption DEF Events, PosAfter, GenAfter, StreamAssumption
<1> QED BY <1>1, <1>2, <1>3 DEF Messages

LEMMA PlacesHaveTypes ==
    ASSUME NEW s \in Seq(Messages), NEW p \in 0 .. MaxRows, NEW g \in Nat, NEW i \in 0 .. Len(s)
    PROVE  PosAt(s, p, i) \in 0 .. MaxRows /\ GenAt(s, g, i) \in Nat
<1>1. CASE i = 0
  BY <1>1 DEF PosAt, GenAt
<1>2. CASE i # 0
  <2>1. s[i] \in Messages
    BY <1>2, ElementOfSeq
  <2> QED BY <1>2, <2>1, MessageShape DEF PosAt, GenAt
<1> QED BY <1>1, <1>2

LEMMA ShortWires ==
    ASSUME NEW p, NEW g
    PROVE  /\ <<>> \in Seq(Messages) /\ Follows(<<>>, p) /\ Keeps(<<>>, g)
           /\ \A m \in Messages :
                 /\ <<m>> \in Seq(Messages) /\ Len(<<m>>) = 1 /\ <<m>>[1] = m
                 /\ Continues(m, p) => Follows(<<m>>, p)
                 /\ (m.type # "log_reset" => GenAfter(m) = g) => Keeps(<<m>>, g)
BY DEF Follows, Keeps, PosAt, GenAt

(* Where the phone will be when something is written behind the wire.      *)
LEMMA PlacesConcatenate ==
    ASSUME NEW s \in Seq(Messages), NEW t \in Seq(Messages), NEW p
    PROVE  /\ \A i \in 0 .. Len(s) : PosAt(s \o t, p, i) = PosAt(s, p, i)
           /\ \A i \in 0 .. Len(t) : PosAt(s \o t, p, Len(s) + i) = PosAt(t, PosAt(s, p, Len(s)), i)
<1> DEFINE w == s \o t
           end == PosAt(s, p, Len(s))
<1>1. /\ \A i \in 1 .. Len(s) : w[i] = s[i]
      /\ \A i \in 1 .. Len(t) : w[Len(s) + i] = t[i]
      /\ Len(s) \in Nat /\ Len(t) \in Nat
  BY ConcatProperties, LenProperties
<1> HIDE DEF w
<1>2. \A i \in 0 .. Len(s) : PosAt(w, p, i) = PosAt(s, p, i)
  BY <1>1 DEF PosAt
<1>3. ASSUME NEW i \in 0 .. Len(t) PROVE PosAt(w, p, Len(s) + i) = PosAt(t, end, i)
  <2>1. CASE i = 0
    <3>1. PosAt(t, end, i) = end /\ Len(s) + i = Len(s) /\ Len(s) \in 0 .. Len(s)
      BY <2>1, <1>1 DEF PosAt
    <3> QED BY <3>1, <1>2
  <2>2. CASE i # 0
    <3>1. w[Len(s) + i] = t[i] /\ Len(s) + i # 0
      BY <2>2, <1>1
    <3> QED BY <3>1, <2>2 DEF PosAt
  <2> QED BY <2>1, <2>2
<1> QED BY <1>2, <1>3 DEF w

(* The generation it will then have.                                       *)
LEMMA GenerationsConcatenate ==
    ASSUME NEW s \in Seq(Messages), NEW t \in Seq(Messages), NEW g
    PROVE  /\ \A i \in 0 .. Len(s) : GenAt(s \o t, g, i) = GenAt(s, g, i)
           /\ \A i \in 0 .. Len(t) : GenAt(s \o t, g, Len(s) + i) = GenAt(t, GenAt(s, g, Len(s)), i)
<1> DEFINE w == s \o t
           end == GenAt(s, g, Len(s))
<1>1. /\ \A i \in 1 .. Len(s) : w[i] = s[i]
      /\ \A i \in 1 .. Len(t) : w[Len(s) + i] = t[i]
      /\ Len(s) \in Nat /\ Len(t) \in Nat
  BY ConcatProperties, LenProperties
<1> HIDE DEF w
<1>2. \A i \in 0 .. Len(s) : GenAt(w, g, i) = GenAt(s, g, i)
  BY <1>1 DEF GenAt
<1>3. ASSUME NEW i \in 0 .. Len(t) PROVE GenAt(w, g, Len(s) + i) = GenAt(t, end, i)
  <2>1. CASE i = 0
    <3>1. GenAt(t, end, i) = end /\ Len(s) + i = Len(s) /\ Len(s) \in 0 .. Len(s)
      BY <2>1, <1>1 DEF GenAt
    <3> QED BY <3>1, <1>2
  <2>2. CASE i # 0
    <3>1. w[Len(s) + i] = t[i] /\ Len(s) + i # 0
      BY <2>2, <1>1
    <3> QED BY <3>1, <2>2 DEF GenAt
  <2> QED BY <2>1, <2>2
<1> QED BY <1>2, <1>3 DEF w

(* What is written behind a wire has to follow from its end.               *)
LEMMA FollowersConcatenate ==
    ASSUME NEW s \in Seq(Messages), NEW t \in Seq(Messages), NEW p,
           Follows(s, p), Follows(t, PosAt(s, p, Len(s)))
    PROVE  Follows(s \o t, p)
<1> DEFINE w == s \o t
           end == PosAt(s, p, Len(s))
<1>1. /\ Len(w) = Len(s) + Len(t) /\ Len(s) \in Nat /\ Len(t) \in Nat
      /\ \A i \in 1 .. Len(s) : w[i] = s[i]
      /\ \A i \in 1 .. Len(t) : w[Len(s) + i] = t[i]
  BY ConcatProperties, LenProperties
<1>2. /\ \A i \in 0 .. Len(s) : PosAt(w, p, i) = PosAt(s, p, i)
      /\ \A i \in 0 .. Len(t) : PosAt(w, p, Len(s) + i) = PosAt(t, end, i)
  BY PlacesConcatenate
<1> HIDE DEF w
<1>3. ASSUME NEW i \in 1 .. Len(w)
      PROVE  Continues(w[i], PosAt(w, p, i - 1))
  <2>1. CASE i \in 1 .. Len(s)
    <3>1. i - 1 \in 0 .. Len(s) /\ w[i] = s[i] /\ Continues(s[i], PosAt(s, p, i - 1))
      BY <2>1, <1>1, <1>3 DEF Follows
    <3> QED BY <3>1, <1>2
  <2>2. CASE i \notin 1 .. Len(s)
    <3> DEFINE j == i - Len(s)
    <3>1. j \in 1 .. Len(t) /\ i = Len(s) + j /\ i - 1 = Len(s) + (j - 1) /\ j - 1 \in 0 .. Len(t)
      BY <2>2, <1>1
    <3>2. w[i] = t[j] /\ PosAt(w, p, i - 1) = PosAt(t, end, j - 1)
      BY <3>1, <1>1, <1>2
    <3> QED BY <3>1, <3>2, <1>3 DEF Follows
  <2> QED BY <2>1, <2>2
<1> QED BY <1>3 DEF Follows, w

(* It has to be of the generation the wire ends with, or to be a reset.    *)
LEMMA KeepersConcatenate ==
    ASSUME NEW s \in Seq(Messages), NEW t \in Seq(Messages), NEW g,
           Keeps(s, g), Keeps(t, GenAt(s, g, Len(s)))
    PROVE  Keeps(s \o t, g)
<1> DEFINE w == s \o t
           end == GenAt(s, g, Len(s))
<1>1. /\ Len(w) = Len(s) + Len(t) /\ Len(s) \in Nat /\ Len(t) \in Nat
      /\ \A i \in 1 .. Len(s) : w[i] = s[i]
      /\ \A i \in 1 .. Len(t) : w[Len(s) + i] = t[i]
  BY ConcatProperties, LenProperties
<1>2. /\ \A i \in 0 .. Len(s) : GenAt(w, g, i) = GenAt(s, g, i)
      /\ \A i \in 0 .. Len(t) : GenAt(w, g, Len(s) + i) = GenAt(t, end, i)
  BY GenerationsConcatenate
<1> HIDE DEF w
<1>3. ASSUME NEW i \in 1 .. Len(w), w[i].type # "log_reset"
      PROVE  GenAfter(w[i]) = GenAt(w, g, i - 1)
  <2>1. CASE i \in 1 .. Len(s)
    BY <2>1, <1>1, <1>2, <1>3 DEF Keeps
  <2>2. CASE i \notin 1 .. Len(s)
    <3> DEFINE j == i - Len(s)
    <3>1. j \in 1 .. Len(t) /\ i = Len(s) + j /\ i - 1 = Len(s) + (j - 1) /\ j - 1 \in 0 .. Len(t)
      BY <2>2, <1>1
    <3>2. w[i] = t[j] /\ GenAt(w, g, i - 1) = GenAt(t, end, j - 1)
      BY <3>1, <1>1, <1>2
    <3> QED BY <3>1, <3>2, <1>3 DEF Keeps
  <2> QED BY <2>1, <2>2
<1> QED BY <1>3 DEF Keeps, w

(* A phone that has read the first message is where it leads.              *)
LEMMA WiresShorten ==
    ASSUME NEW s \in Seq(Messages), s # <<>>, NEW p, NEW g
    PROVE  LET t == Tail(s)
               m == Head(s)
           IN /\ m \in Messages /\ m = s[1] /\ 1 \in 1 .. Len(s)
              /\ t \in Seq(Messages) /\ Len(s) = Len(t) + 1
              /\ \A i \in 1 .. Len(t) : t[i] = s[i + 1] /\ i + 1 \in 1 .. Len(s)
              /\ \A i \in 0 .. Len(t) : /\ PosAt(t, PosAfter(m), i) = PosAt(s, p, i + 1)
                                        /\ GenAt(t, GenAfter(m), i) = GenAt(s, g, i + 1)
              /\ Follows(s, p) => Continues(m, p) /\ Follows(t, PosAfter(m))
              /\ Keeps(s, g) => Keeps(t, GenAfter(m))
                                /\ (m.type # "log_reset" => GenAfter(m) = g)
<1> DEFINE t == Tail(s)
           m == Head(s)
<1>1. /\ m \in Messages /\ m = s[1] /\ t \in Seq(Messages)
      /\ Len(s) \in Nat /\ Len(t) \in Nat /\ Len(s) = Len(t) + 1
      /\ \A i \in 1 .. Len(t) : t[i] = s[i + 1]
  BY HeadTailProperties, EmptySeq, LenProperties
<1> HIDE DEF t, m
<1>2. \A i \in 0 .. Len(t) : /\ PosAt(t, PosAfter(m), i) = PosAt(s, p, i + 1)
                            /\ GenAt(t, GenAfter(m), i) = GenAt(s, g, i + 1)
  BY <1>1 DEF PosAt, GenAt
<1>3. Follows(s, p) => Continues(m, p) /\ Follows(t, PosAfter(m))
  <2> SUFFICES ASSUME Follows(s, p)
               PROVE  Continues(m, p) /\ Follows(t, PosAfter(m))
    OBVIOUS
  <2>1. Continues(s[1], PosAt(s, p, 0))
    BY <1>1 DEF Follows
  <2>2. ASSUME NEW i \in 1 .. Len(t)
        PROVE  Continues(t[i], PosAt(t, PosAfter(m), i - 1))
    <3>1. Continues(s[i + 1], PosAt(s, p, i))
      BY <1>1 DEF Follows
    <3>2. PosAt(t, PosAfter(m), i - 1) = PosAt(s, p, i)
      BY <1>1, <1>2
    <3> QED BY <3>1, <3>2, <1>1
  <2> QED BY <2>1, <2>2, <1>1 DEF Follows, PosAt
<1>4. Keeps(s, g) => Keeps(t, GenAfter(m)) /\ (m.type # "log_reset" => GenAfter(m) = g)
  <2> SUFFICES ASSUME Keeps(s, g)
               PROVE  Keeps(t, GenAfter(m)) /\ (m.type # "log_reset" => GenAfter(m) = g)
    OBVIOUS
  <2>1. m.type # "log_reset" => GenAfter(m) = g
    BY <1>1 DEF Keeps, GenAt
  <2>2. ASSUME NEW i \in 1 .. Len(t), t[i].type # "log_reset"
        PROVE  GenAfter(t[i]) = GenAt(t, GenAfter(m), i - 1)
    <3>1. GenAfter(s[i + 1]) = GenAt(s, g, i) /\ t[i] = s[i + 1]
      BY <1>1, <2>2 DEF Keeps
    <3>2. GenAt(t, GenAfter(m), i - 1) = GenAt(s, g, i)
      BY <1>1, <1>2
    <3> QED BY <3>1, <3>2
  <2> QED BY <2>1, <2>2 DEF Keeps
<1> QED
  BY <1>1, <1>2, <1>3, <1>4 DEF t, m

------------------------------------------------------------------------------
(* The invariant holds initially, and every action keeps it.               *)

LEMMA InitEstablishes == StreamInit => StreamInv
<1> SUFFICES ASSUME StreamInit PROVE StreamInv
  OBVIOUS
<1> USE DEF StreamInit, Idle, NoCall
<1>1. StreamTypeOK
  <2>1. budget \in [rebuilds : Nat, purges : Nat, drops : Nat] /\ MaxRows \in Nat
    BY StreamAssumption DEF StreamAssumption
  <2>2. /\ log \in [gen : (0 .. log.build + 1) \ {0}, build : Nat, last : 0 .. MaxRows]
        /\ reader \in [at : {"idle", "opened", "streaming", "done"}, gen : 0 .. log.build + 1,
                       client : 0 .. log.build + 1, cursor : 0 .. MaxRows]
    BY <2>1
  <2>3. DOMAIN wire = {}
    OBVIOUS
  <2> QED BY <2>1, <2>2, <2>3 DEF StreamTypeOK
<1>2. CallTypeOK
  BY ShortWires, StreamAssumption DEF CallTypeOK, StreamAssumption
<1>3. WireFollows
  BY ShortWires DEF WireFollows
<1>4. CallIsBelow /\ NoSilentHole
  BY DEF CallIsBelow, NoSilentHole, Seqs
<1>5. BuildsAreGenerations
  BY ShortWires DEF BuildsAreGenerations, GenAt, PosAt
<1> QED BY <1>1, <1>2, <1>3, <1>4, <1>5 DEF StreamInv

LEMMA StutteringKeeps == ASSUME StreamInv, UNCHANGED vars PROVE StreamInv'
BY DEF StreamInv, vars, StreamTypeOK, CallTypeOK, WireFollows, CallIsBelow, NoSilentHole,
       BuildsAreGenerations, WireEnd, WireGen

(* A bound that is used up stays a number.                                 *)
LEMMA SpendingKeeps ==
    ASSUME budget \in [rebuilds : Nat, purges : Nat, drops : Nat],
           NEW what \in {"rebuilds", "purges", "drops"}, Spend(what)
    PROVE  budget' \in [rebuilds : Nat, purges : Nat, drops : Nat]
<1>1. budget[what] \in Nat /\ budget[what] > 0
  BY DEF Spend
<1>2. budget[what] - 1 \in Nat
  BY <1>1
<1> QED BY <1>2 DEF Spend

(* The generations of the wire are numbers.                                *)
LEMMA WireGenerations ==
    ASSUME StreamInv
    PROVE  /\ Len(wire) \in Nat
           /\ \A i \in 1 .. Len(wire) : GenAfter(wire[i]) \in Nat
           /\ \A i \in 0 .. Len(wire) :
                 /\ PosAt(wire, phone.cursor, i) \in 0 .. MaxRows
                 /\ GenAt(wire, phone.gen, i) \in Nat
                 /\ GenAt(wire, phone.gen, i) <= log.build + 1
<1>1. wire \in Seq(Messages) /\ phone.cursor \in 0 .. MaxRows /\ phone.gen \in Nat
  BY DEF StreamInv, CallTypeOK
<1>2. Len(wire) \in Nat
  BY <1>1, LenProperties
<1>3. \A i \in 1 .. Len(wire) : GenAfter(wire[i]) \in Nat
  BY <1>1, <1>2, ElementOfSeq, MessageShape
<1>4. ASSUME NEW i \in 0 .. Len(wire)
      PROVE  GenAt(wire, phone.gen, i) <= log.build + 1
  BY SMTT(30), <1>1, <1>2, <1>3 DEF StreamInv, StreamTypeOK, CallTypeOK, GenAt
<1> QED BY <1>1, <1>2, <1>3, <1>4, PlacesHaveTypes

(* A step that changes neither what the phone holds nor what is on its way *)
(* keeps what is said of the two, whatever the log does.                   *)
LEMMA LogStepsKeep ==
    ASSUME StreamInv, Write PROVE StreamInv'
<1> USE StreamAssumption DEF StreamAssumption
<1>1. /\ UNCHANGED <<reader, wire, call, phone>>
      /\ log'.build \in Nat /\ log.build <= log'.build
      /\ log'.gen \in 1 .. log'.build + 1 /\ log'.last \in 0 .. MaxRows
      /\ log' = [gen |-> log'.gen, build |-> log'.build, last |-> log'.last]
      /\ budget' \in [rebuilds : Nat, purges : Nat, drops : Nat] /\ purged' \in BOOLEAN
  <2> USE DEF StreamInv, StreamTypeOK
  <2>1. CASE Extend
    <3>1. PICK n \in log.last + 1 .. MaxRows : log' = [log EXCEPT !.last = n]
      BY <2>1 DEF Extend
    <3>2. log' = [gen |-> log.gen, build |-> log.build, last |-> n] /\ n \in 0 .. MaxRows
      BY <3>1
    <3> QED BY <2>1, <3>2 DEF Extend
  <2>2. CASE Rebuild
    BY <2>2, SpendingKeeps DEF Rebuild
  <2>3. CASE Forget
    BY <2>3, SpendingKeeps DEF Forget
  <2> QED BY <2>1, <2>2, <2>3 DEF Write
<1>2. StreamTypeOK'
  BY <1>1 DEF StreamInv, StreamTypeOK
<1>3. CallTypeOK'
  <2>1. \A i \in 1 .. Len(wire) : GenAfter(wire[i]) <= log'.build + 1
    <3>1. \A i \in 1 .. Len(wire) : GenAfter(wire[i]) \in Nat /\ GenAfter(wire[i]) <= log.build + 1
      BY WireGenerations DEF StreamInv, CallTypeOK
    <3>2. log.build \in Nat
      BY DEF StreamInv, StreamTypeOK
    <3> QED BY SMTT(30), <1>1, <3>1, <3>2
  <2>2. [seq : 1 .. MaxRows, build : 0 .. log.build]
           \subseteq [seq : 1 .. MaxRows, build : 0 .. log'.build]
    BY <1>1 DEF StreamInv, StreamTypeOK
  <2> QED BY <1>1, <2>1, <2>2 DEF StreamInv, CallTypeOK
<1>4. WireFollows' /\ CallIsBelow' /\ NoSilentHole'
  BY <1>1 DEF StreamInv, WireFollows, CallIsBelow, NoSilentHole, WireEnd
<1>5. BuildsAreGenerations'
  <2>1. CASE Extend
    <3>1. /\ log'.gen = log.gen /\ log'.build = log.build /\ log.last <= log'.last
          /\ log.last \in Int /\ log'.last \in Int /\ purged' = purged
      BY <2>1 DEF Extend, StreamInv, StreamTypeOK
    <3>2. \A i \in 0 .. Len(wire) :
             PosAt(wire, phone.cursor, i) <= log.last => PosAt(wire, phone.cursor, i) <= log'.last
      BY SMTT(30), <3>1, <1>1, WireGenerations
    <3>3. ~purged => \A i \in 0 .. Len(wire) :
             GenAt(wire, phone.gen, i) = log.gen => PosAt(wire, phone.cursor, i) <= log'.last
      BY <3>2 DEF StreamInv, BuildsAreGenerations
    <3> QED BY <3>1, <3>3, <1>1 DEF StreamInv, BuildsAreGenerations, WireGen
  <2>2. CASE Rebuild
    <3>1. /\ log'.gen = log.gen + 1 /\ log'.build = log.build + 1 /\ purged' = purged
          /\ log.gen \in Int /\ log.build \in Int /\ phone.gen \in Int /\ reader.gen \in Int
      BY <2>2 DEF Rebuild, StreamInv, StreamTypeOK
    <3>2. \A i \in 0 .. Len(wire) : GenAt(wire, phone.gen, i) # log.build + 2
      BY <3>1, WireGenerations
    <3>3. ~purged => \A i \in 0 .. Len(wire) : GenAt(wire, phone.gen, i) # log'.gen
      BY <3>1, <3>2 DEF StreamInv, BuildsAreGenerations
    <3>4. ~purged =>
          /\ log'.gen = log'.build + 1
          /\ \A r \in phone.held \cup call.rows : r.build + 1 = phone.gen
          /\ Keeps(wire, phone.gen)
          /\ reader.at = "streaming" => reader.gen = WireGen
          /\ phone.gen <= log'.gen /\ reader.gen <= log'.gen
      BY SMTT(30), <3>1 DEF StreamInv, BuildsAreGenerations
    <3> QED BY <3>1, <3>3, <3>4, <1>1 DEF BuildsAreGenerations, WireGen
  <2>3. CASE Forget
    BY <2>3 DEF Forget, BuildsAreGenerations
  <2> QED BY <2>1, <2>2, <2>3 DEF Write
<1> QED BY <1>2, <1>3, <1>4, <1>5 DEF StreamInv

(* A new connection begins where the phone is.                             *)
LEMMA OpenKeeps == ASSUME StreamInv, Open PROVE StreamInv'
<1> USE DEF StreamInv, Open
<1>1. StreamTypeOK'
  BY DEF StreamTypeOK
<1>2. CallTypeOK' /\ CallIsBelow' /\ NoSilentHole'
  BY DEF CallTypeOK, CallIsBelow, NoSilentHole
<1>3. WireFollows'
  BY DEF WireFollows
<1>4. BuildsAreGenerations'
  BY DEF BuildsAreGenerations, StreamTypeOK
<1> QED BY <1>1, <1>2, <1>3, <1>4

(* The end of a stream: what was written still arrives, or is lost.        *)
LEMMA EndsKeep == ASSUME StreamInv, Done \/ Disconnect PROVE StreamInv'
<1> USE StreamAssumption DEF StreamAssumption, StreamInv
<1>1. /\ UNCHANGED <<log, call, phone, purged>>
      /\ budget' \in [rebuilds : Nat, purges : Nat, drops : Nat]
  BY SpendingKeeps DEF Done, Disconnect, StreamTypeOK
<1>2. \/ wire' = wire /\ reader' = [reader EXCEPT !.at = "done"] /\ reader.at = "streaming"
      \/ wire' = <<>> /\ reader' = Idle
  BY DEF Done, Disconnect, Streaming
<1>3. /\ reader'.gen = reader.gen \/ reader'.gen = 0
      /\ reader'.at \in {"done", "idle"}
      /\ reader'.at = "idle" => wire' = <<>>
  BY SMTT(30), <1>2 DEF Idle, StreamTypeOK
<1>4. StreamTypeOK'
  <2>1. \A i \in DOMAIN wire' : wire'[i].type \in {"log_reset", "backlog_gap", "session_event"}
    BY SMTT(30), <1>2 DEF StreamTypeOK
  <2>2. reader' \in [at : {"idle", "opened", "streaming", "done"}, gen : 0 .. log.build + 1,
                    client : 0 .. log.build + 1, cursor : 0 .. MaxRows]
    <3>1. CASE reader' = Idle
      <4>1. 0 \in 0 .. log.build + 1 /\ 0 \in 0 .. MaxRows
        BY DEF StreamTypeOK
      <4> QED BY <3>1, <4>1 DEF Idle
    <3>2. CASE reader' = [reader EXCEPT !.at = "done"]
      BY <3>2 DEF StreamTypeOK
    <3> QED BY <1>2, <3>1, <3>2
  <2> QED BY <1>1, <2>1, <2>2 DEF StreamTypeOK
<1>5. CallTypeOK'
  <2>1. wire' \in Seq(Messages) /\ \A i \in 1 .. Len(wire') : GenAfter(wire'[i]) <= log.build + 1
    <3>1. CASE wire' = wire
      BY <3>1 DEF CallTypeOK
    <3>2. CASE wire' = <<>>
      BY <3>2, ShortWires
    <3> QED BY <1>2, <3>1, <3>2
  <2> QED BY <1>1, <2>1 DEF CallTypeOK
<1>6. CallIsBelow' /\ NoSilentHole'
  BY <1>1 DEF CallIsBelow, NoSilentHole
<1>7. WireFollows'
  <2>1. Follows(wire', phone.cursor)
    BY <1>2, ShortWires DEF WireFollows
  <2> QED BY <1>1, <1>3, <2>1 DEF WireFollows
<1>8. BuildsAreGenerations'
  <2>1. ASSUME wire' = <<>>, ~purged
        PROVE  /\ Keeps(wire', phone.gen)
               /\ \A i \in 0 .. Len(wire') :
                     GenAt(wire', phone.gen, i) = log.gen
                        => PosAt(wire', phone.cursor, i) <= log.last
    <3>1. 0 \in 0 .. Len(wire) /\ \A i \in 0 .. Len(<<>>) : i = 0
      BY WireGenerations
    <3> QED BY <2>1, <3>1, ShortWires DEF BuildsAreGenerations, GenAt, PosAt
  <2>2. log.gen \in Nat /\ 0 <= log.gen
    BY DEF StreamTypeOK
  <2> QED BY <1>1, <1>2, <1>3, <2>1, <2>2 DEF BuildsAreGenerations
<1> QED BY <1>4, <1>5, <1>6, <1>7, <1>8

(* What the handler may write: messages that follow from the end of the    *)
(* wire and lead to where the handler then is.                             *)
LEMMA WritingKeeps ==
    ASSUME StreamInv, NEW t \in Seq(Messages), wire' = wire \o t,
           UNCHANGED <<log, call, phone, budget, purged>>,
           reader' \in [at : {"streaming"}, gen : 0 .. log.build + 1,
                        client : 0 .. log.build + 1, cursor : 0 .. MaxRows],
           Follows(t, WireEnd), reader'.cursor = PosAt(t, WireEnd, Len(t)),
           \A i \in 1 .. Len(t) : GenAfter(t[i]) <= log.build + 1,
           ~purged => /\ Keeps(t, WireGen)
                      /\ reader'.gen = GenAt(t, WireGen, Len(t)) /\ reader'.gen <= log.gen
                      /\ \A i \in 1 .. Len(t) : GenAfter(t[i]) = log.gen => PosAfter(t[i]) <= log.last
    PROVE  StreamInv'
<1> DEFINE w == wire \o t
<1>0. wire \in Seq(Messages) /\ w = wire \o t /\ wire' = w
  BY DEF StreamInv, CallTypeOK
<1> HIDE DEF w
<1>1. /\ w \in Seq(Messages) /\ Len(w) = Len(wire) + Len(t) /\ Len(wire) \in Nat /\ Len(t) \in Nat
      /\ \A i \in 1 .. Len(wire) : w[i] = wire[i]
      /\ \A i \in 1 .. Len(t) : w[Len(wire) + i] = t[i]
      /\ \A i \in 0 .. Len(wire) : /\ PosAt(w, phone.cursor, i) = PosAt(wire, phone.cursor, i)
                                   /\ GenAt(w, phone.gen, i) = GenAt(wire, phone.gen, i)
      /\ \A i \in 0 .. Len(t) : /\ PosAt(w, phone.cursor, Len(wire) + i) = PosAt(t, WireEnd, i)
                                /\ GenAt(w, phone.gen, Len(wire) + i) = GenAt(t, WireGen, i)
      /\ Follows(wire, phone.cursor) /\ Follows(t, WireEnd) => Follows(w, phone.cursor)
      /\ Keeps(wire, phone.gen) /\ Keeps(t, WireGen) => Keeps(w, phone.gen)
  <2>1. /\ w \in Seq(Messages) /\ Len(w) = Len(wire) + Len(t) /\ Len(wire) \in Nat /\ Len(t) \in Nat
        /\ \A i \in 1 .. Len(wire) : w[i] = wire[i]
        /\ \A i \in 1 .. Len(t) : w[Len(wire) + i] = t[i]
    BY <1>0, ConcatProperties, LenProperties
  <2>2. /\ \A i \in 0 .. Len(wire) : PosAt(w, phone.cursor, i) = PosAt(wire, phone.cursor, i)
        /\ \A i \in 0 .. Len(t) : PosAt(w, phone.cursor, Len(wire) + i) = PosAt(t, WireEnd, i)
    BY <1>0, PlacesConcatenate DEF WireEnd
  <2>3. /\ \A i \in 0 .. Len(wire) : GenAt(w, phone.gen, i) = GenAt(wire, phone.gen, i)
        /\ \A i \in 0 .. Len(t) : GenAt(w, phone.gen, Len(wire) + i) = GenAt(t, WireGen, i)
    BY SMTT(30), <1>0, GenerationsConcatenate DEF WireGen
  <2>4. Follows(wire, phone.cursor) /\ Follows(t, WireEnd) => Follows(w, phone.cursor)
    BY <1>0, FollowersConcatenate DEF WireEnd
  <2>5. Keeps(wire, phone.gen) /\ Keeps(t, WireGen) => Keeps(w, phone.gen)
    BY <1>0, KeepersConcatenate DEF WireGen
  <2> QED BY <2>1, <2>2, <2>3, <2>4, <2>5
<1>2. wire' = w
  BY <1>0
<1>3. \A i \in 1 .. Len(w) : i \in 1 .. Len(wire) \/ \E j \in 1 .. Len(t) : i = Len(wire) + j
  <2> TAKE i \in 1 .. Len(w)
  <2>1. CASE i > Len(wire)
    <3>1. i - Len(wire) \in 1 .. Len(t) /\ i = Len(wire) + (i - Len(wire))
      BY <2>1, <1>1
    <3> QED BY <3>1
  <2> QED BY <2>1, <1>1
<1>4. StreamTypeOK'
  <2>1. \A i \in DOMAIN w : w[i].type \in {"log_reset", "backlog_gap", "session_event"}
    BY <1>1, LenProperties, ElementOfSeq, MessageShape
  <2> QED BY <1>2, <2>1 DEF StreamInv, StreamTypeOK
<1>5. CallTypeOK'
  <2>1. \A i \in 1 .. Len(w) : GenAfter(w[i]) <= log.build + 1
    <3>1. \A i \in 1 .. Len(wire) : GenAfter(w[i]) <= log.build + 1
      BY <1>1 DEF StreamInv, CallTypeOK
    <3>2. \A i \in 1 .. Len(t) : GenAfter(w[Len(wire) + i]) <= log.build + 1
      BY <1>1
    <3> QED BY <1>3, <3>1, <3>2
  <2> QED BY <1>1, <1>2, <2>1 DEF StreamInv, CallTypeOK
<1>6. CallIsBelow' /\ NoSilentHole'
  BY DEF StreamInv, CallIsBelow, NoSilentHole
<1>7. WireFollows'
  <2>1. reader'.cursor = PosAt(w, phone.cursor, Len(w)) /\ reader'.at = "streaming"
    BY <1>1
  <2> QED BY <1>1, <1>2, <2>1 DEF StreamInv, WireFollows, WireEnd
<1>8. BuildsAreGenerations'
  <2>1. ASSUME ~purged
        PROVE  /\ Keeps(w, phone.gen) /\ reader'.gen = GenAt(w, phone.gen, Len(w))
               /\ reader'.gen <= log.gen
               /\ \A i \in 0 .. Len(w) :
                     GenAt(w, phone.gen, i) = log.gen => PosAt(w, phone.cursor, i) <= log.last
    <3>1. Keeps(w, phone.gen) /\ reader'.gen = GenAt(w, phone.gen, Len(w)) /\ reader'.gen <= log.gen
      BY <1>1, <2>1 DEF StreamInv, BuildsAreGenerations
    <3>2. ASSUME NEW i \in 0 .. Len(w), GenAt(w, phone.gen, i) = log.gen
          PROVE  PosAt(w, phone.cursor, i) <= log.last
      <4>1. CASE i \in 0 .. Len(wire)
        BY <1>1, <2>1, <3>2, <4>1 DEF StreamInv, BuildsAreGenerations
      <4>2. CASE i \notin 0 .. Len(wire)
        <5>1. PICK j \in 1 .. Len(t) : i = Len(wire) + j
          BY <1>1, <1>3, <4>2
        <5>2. /\ PosAt(w, phone.cursor, i) = PosAt(t, WireEnd, j) /\ GenAt(w, phone.gen, i) = GenAt(t, WireGen, j)
              /\ j # 0
          BY <1>1, <5>1
        <5> QED BY <2>1, <3>2, <5>2 DEF PosAt, GenAt
      <4> QED BY <4>1, <4>2
    <3> QED BY <3>1, <3>2
  <2> QED BY <1>2, <2>1 DEF StreamInv, BuildsAreGenerations, WireGen
<1> QED BY <1>4, <1>5, <1>6, <1>7, <1>8 DEF StreamInv

(* A bounded replay starts at the cursor or above it.                      *)
LEMMA BoundedReach ==
    ASSUME NEW l \in 0 .. MaxRows, NEW c \in 0 .. l
    PROVE  Bounded(c, l) \in c .. l /\ Bounded(c, l) \in 0 .. MaxRows
BY StreamAssumption DEF StreamAssumption, Bounded

(* How it is announced.                                                    *)
LEMMA BoundedReplay ==
    ASSUME NEW g \in Nat, NEW l \in 0 .. MaxRows, NEW c \in 0 .. l
    PROVE  /\ GapBelow(g, c, l) \in Seq(Messages)
           /\ Follows(GapBelow(g, c, l), c) /\ Keeps(GapBelow(g, c, l), g)
           /\ PosAt(GapBelow(g, c, l), c, Len(GapBelow(g, c, l))) = Bounded(c, l)
           /\ GenAt(GapBelow(g, c, l), g, Len(GapBelow(g, c, l))) = g
           /\ \A i \in 1 .. Len(GapBelow(g, c, l)) :
                 GenAfter(GapBelow(g, c, l)[i]) = g /\ PosAfter(GapBelow(g, c, l)[i]) <= l
<1> DEFINE t == GapBelow(g, c, l)
           b == Bounded(c, l)
           m == Gap(g, c, b)
<1>1. b \in c .. l
  BY BoundedReach
<1>2. m \in Messages /\ GenAfter(m) = g /\ PosAfter(m) = b /\ Continues(m, c)
  <2>1. b \in 0 .. MaxRows /\ c \in 0 .. MaxRows
    BY <1>1, StreamAssumption DEF StreamAssumption
  <2>2. m \in Gaps /\ m.type = "backlog_gap" /\ m.gen = g /\ m.from = c /\ m.to = b
    BY <2>1 DEF Gaps, Gap
  <2> QED BY <1>1, <2>2 DEF Messages, GenAfter, PosAfter, Continues
<1>3. CASE b = c
  <2>1. t = <<>>
    BY <1>3 DEF GapBelow
  <2> QED BY <1>1, <1>3, <2>1, ShortWires DEF PosAt, GenAt
<1>4. CASE b # c
  <2>1. t = <<m>>
    BY <1>4 DEF GapBelow
  <2> HIDE DEF t, m
  <2>2. Len(t) = 1 /\ t[1] = m /\ \A i \in 1 .. Len(t) : i = 1
    BY <2>1
  <2>3. t \in Seq(Messages) /\ Follows(t, c) /\ Keeps(t, g)
    BY <1>2, <2>1, ShortWires
  <2>4. PosAt(t, c, Len(t)) = b /\ GenAt(t, g, Len(t)) = g
    BY <1>2, <2>2 DEF PosAt, GenAt
  <2>5. \A i \in 1 .. Len(t) : GenAfter(t[i]) = g /\ PosAfter(t[i]) <= l
    BY <1>1, <1>2, <2>2
  <2> QED BY <1>1, <1>4, <2>1, <2>3, <2>4, <2>5 DEF m, t
<1> QED BY <1>3, <1>4

(* A reset takes the phone to the start of a generation, from anywhere.    *)
LEMMA ResetAlone ==
    ASSUME NEW g \in Nat, NEW p, NEW h
    PROVE  /\ Announce(g) \in Seq(Messages) /\ Len(Announce(g)) = 1
           /\ Follows(Announce(g), p) /\ Keeps(Announce(g), h)
           /\ PosAt(Announce(g), p, 1) = 0 /\ GenAt(Announce(g), h, 1) = g
           /\ GenAfter(Announce(g)[1]) = g /\ PosAfter(Announce(g)[1]) = 0
<1> DEFINE m == Reset(g)
           r == Announce(g)
<1>1. m \in Messages /\ GenAfter(m) = g /\ PosAfter(m) = 0 /\ Continues(m, p) /\ m.type = "log_reset"
  BY DEF Messages, Resets, Reset, GenAfter, PosAfter, Continues
<1>2. /\ r \in Seq(Messages) /\ Follows(r, p) /\ Keeps(r, h) /\ Len(r) = 1 /\ r[1] = m
  BY <1>1, ShortWires DEF Announce
<1>3. PosAt(r, p, 1) = 0 /\ GenAt(r, h, 1) = g
  BY <1>1, <1>2 DEF PosAt, GenAt
<1> QED BY <1>1, <1>2, <1>3

(* Behind it the replay of the generation may begin with a gap.            *)
LEMMA ResetReplay ==
    ASSUME NEW g \in Nat, NEW l \in 0 .. MaxRows, NEW p, NEW h
    PROVE  /\ Restart(g, l) \in Seq(Messages) /\ Follows(Restart(g, l), p) /\ Keeps(Restart(g, l), h)
           /\ PosAt(Restart(g, l), p, Len(Restart(g, l))) = Bounded(0, l)
           /\ GenAt(Restart(g, l), h, Len(Restart(g, l))) = g
           /\ \A i \in 1 .. Len(Restart(g, l)) :
                 GenAfter(Restart(g, l)[i]) = g /\ PosAfter(Restart(g, l)[i]) <= l
<1> DEFINE r == Announce(g)
           gap == GapBelow(g, 0, l)
           t == Restart(g, l)
<1>1. /\ r \in Seq(Messages) /\ Len(r) = 1 /\ Follows(r, p) /\ Keeps(r, h)
      /\ PosAt(r, p, 1) = 0 /\ GenAt(r, h, 1) = g
      /\ GenAfter(r[1]) = g /\ PosAfter(r[1]) = 0
  BY ResetAlone
<1>2. /\ gap \in Seq(Messages) /\ Follows(gap, 0) /\ Keeps(gap, g)
      /\ PosAt(gap, 0, Len(gap)) = Bounded(0, l) /\ GenAt(gap, g, Len(gap)) = g
      /\ \A i \in 1 .. Len(gap) : GenAfter(gap[i]) = g /\ PosAfter(gap[i]) <= l
  BY BoundedReplay, 0 \in 0 .. l
<1>3. t = r \o gap /\ r \in Seq(Messages) /\ gap \in Seq(Messages)
  BY <1>1, <1>2 DEF Restart
<1> HIDE DEF t, r, gap
<1>4. /\ t \in Seq(Messages) /\ Len(t) = Len(r) + Len(gap)
      /\ \A i \in 1 .. Len(r) : t[i] = r[i]
      /\ \A i \in 1 .. Len(gap) : t[Len(r) + i] = gap[i]
  BY <1>3, ConcatProperties, LenProperties
<1>5. Len(gap) \in Nat
  BY <1>3, LenProperties
<1>6. Follows(t, p)
  BY <1>1, <1>2, <1>3, FollowersConcatenate
<1>7. Keeps(t, h)
  BY <1>1, <1>2, <1>3, KeepersConcatenate
<1>8. PosAt(t, p, Len(t)) = PosAt(gap, 0, Len(gap))
  <2>1. \A i \in 0 .. Len(gap) : PosAt(t, p, Len(r) + i) = PosAt(gap, PosAt(r, p, Len(r)), i)
    BY <1>3, PlacesConcatenate
  <2> QED BY <1>1, <1>4, <1>5, <2>1
<1>9. GenAt(t, h, Len(t)) = GenAt(gap, g, Len(gap))
  <2>1. \A i \in 0 .. Len(gap) : GenAt(t, h, Len(r) + i) = GenAt(gap, GenAt(r, h, Len(r)), i)
    BY <1>3, GenerationsConcatenate
  <2> QED BY <1>1, <1>4, <1>5, <2>1
<1>10. ASSUME NEW i \in 1 .. Len(t) PROVE GenAfter(t[i]) = g /\ PosAfter(t[i]) <= l
  <2>1. CASE i = 1
    BY <2>1, <1>1, <1>4
  <2>2. CASE i # 1
    <3>1. i - 1 \in 1 .. Len(gap) /\ Len(r) + (i - 1) = i
      BY <2>2, <1>1, <1>4, <1>5
    <3>2. t[i] = gap[i - 1]
      BY <3>1, <1>4
    <3> QED BY <3>1, <3>2, <1>2
  <2> QED BY <2>1, <2>2
<1> QED BY <1>2, <1>4, <1>6, <1>7, <1>8, <1>9, <1>10 DEF t

(* Rows that are sent follow each other, and are of the present build.     *)
LEMMA RowsOnTheWire ==
    ASSUME log.build \in Nat, NEW c \in Nat, NEW n \in Nat \ {0}, c + n <= MaxRows
    PROVE  /\ SentRows(c, n) \in Seq(Messages) /\ Len(SentRows(c, n)) = n
           /\ \A i \in 1 .. n : /\ GenAfter(SentRows(c, n)[i]) = log.build + 1
                                /\ PosAfter(SentRows(c, n)[i]) = c + i
           /\ Follows(SentRows(c, n), c) /\ Keeps(SentRows(c, n), log.build + 1)
           /\ PosAt(SentRows(c, n), c, n) = c + n
           /\ GenAt(SentRows(c, n), log.build + 1, n) = log.build + 1
<1> DEFINE t == SentRows(c, n)
<1>1. ASSUME NEW i \in 1 .. n
      PROVE  /\ t[i] \in Messages /\ t[i].type = "session_event"
             /\ t[i].row.seq = c + i /\ t[i].row.build = log.build
  <2>1. c + i \in 1 .. MaxRows
    BY StreamAssumption DEF StreamAssumption
  <2>2. t[i] = [type |-> "session_event", row |-> [seq |-> c + i, build |-> log.build]]
    BY DEF Event, Row, SentRows
  <2> QED BY <2>1, <2>2 DEF Messages, Events
<1>2. t \in Seq(Messages) /\ Len(t) = n
  <2>1. t = [i \in 1 .. n |-> t[i]]
    BY DEF SentRows
  <2> HIDE DEF t
  <2>2. t \in [1 .. n -> Messages]
    BY <1>1, <2>1, Zenon
  <2>3. t \in Seq(Messages)
    BY <2>2
  <2>4. DOMAIN t = 1 .. n
    BY <2>2
  <2> QED BY <2>3, <2>4, LenProperties
<1> HIDE DEF t
<1>3. \A i \in 1 .. n : GenAfter(t[i]) = log.build + 1 /\ PosAfter(t[i]) = c + i
  BY <1>1 DEF GenAfter, PosAfter
<1>4. ASSUME NEW i \in 1 .. n
      PROVE  PosAt(t, c, i - 1) = c + (i - 1) /\ GenAt(t, log.build + 1, i - 1) = log.build + 1
  <2>1. CASE i = 1
    BY <2>1 DEF PosAt, GenAt
  <2>2. CASE i # 1
    <3>1. i - 1 \in 1 .. n /\ i - 1 # 0
      BY <2>2
    <3> QED BY <3>1, <1>3 DEF PosAt, GenAt
  <2> QED BY <2>1, <2>2
<1>5. Follows(t, c)
  <2>1. ASSUME NEW i \in 1 .. n PROVE Continues(t[i], PosAt(t, c, i - 1))
    <3>1. t[i].row.seq = (c + (i - 1)) + 1 /\ t[i].type # "backlog_gap"
      BY <1>1
    <3> QED BY <1>4, <3>1 DEF Continues
  <2> QED BY <1>2, <2>1 DEF Follows
<1>6. Keeps(t, log.build + 1)
  BY <1>2, <1>3, <1>4 DEF Keeps
<1>7. PosAt(t, c, n) = c + n /\ GenAt(t, log.build + 1, n) = log.build + 1
  BY <1>3 DEF PosAt, GenAt
<1> QED BY <1>2, <1>3, <1>5, <1>6, <1>7 DEF t

(* What the handler writes first: the phone's position decides whether it  *)
(* is told to start again.                                                 *)
LEMMA HelloKeeps == ASSUME StreamInv, Hello PROVE StreamInv'
<1> DEFINE stale == reader.client # reader.gen \/ reader.cursor > log.last
           from == IF stale THEN 0 ELSE reader.cursor
           gap == GapBelow(reader.gen, from, log.last)
           t == IF stale THEN Restart(reader.gen, log.last) ELSE gap
<1>1. /\ reader.gen \in Nat /\ reader.gen <= log.build + 1 /\ reader.gen \in 0 .. log.build + 1
      /\ reader.client \in 0 .. log.build + 1
      /\ reader.cursor \in 0 .. MaxRows /\ log.last \in 0 .. MaxRows /\ phone.gen \in Nat
      /\ log.build \in Nat
  BY DEF StreamInv, StreamTypeOK, CallTypeOK
<1>2. /\ wire = <<>> /\ WireEnd = reader.cursor /\ WireGen = reader.client
  BY DEF StreamInv, WireFollows, Hello, WireEnd, WireGen, PosAt, GenAt
<1>3. from \in 0 .. log.last
  BY <1>1
<1>4. Bounded(from, log.last) \in 0 .. MaxRows
  <2> HIDE DEF from
  <2> QED BY <1>1, <1>3, BoundedReach
<1>5. /\ t \in Seq(Messages) /\ Follows(t, WireEnd) /\ Keeps(t, WireGen)
      /\ PosAt(t, WireEnd, Len(t)) = Bounded(from, log.last) /\ GenAt(t, WireGen, Len(t)) = reader.gen
      /\ \A i \in 1 .. Len(t) : GenAfter(t[i]) = reader.gen /\ PosAfter(t[i]) <= log.last
  <2>1. CASE stale
    <3>1. t = Restart(reader.gen, log.last) /\ from = 0
      BY <2>1
    <3> HIDE DEF t, from
    <3> QED BY <1>1, <3>1, ResetReplay
  <2>2. CASE ~stale
    <3>1. t = gap /\ WireEnd = from /\ WireGen = reader.gen
      BY <2>2, <1>2
    <3> HIDE DEF t, from
    <3>2. /\ gap \in Seq(Messages) /\ Follows(gap, from) /\ Keeps(gap, reader.gen)
          /\ PosAt(gap, from, Len(gap)) = Bounded(from, log.last)
          /\ GenAt(gap, reader.gen, Len(gap)) = reader.gen
          /\ \A i \in 1 .. Len(gap) :
                GenAfter(gap[i]) = reader.gen /\ PosAfter(gap[i]) <= log.last
      BY <1>1, <1>3, BoundedReplay
    <3> HIDE DEF gap
    <3> QED BY <3>1, <3>2
  <2> QED BY <2>1, <2>2
<1>6. /\ wire' = wire \o t /\ UNCHANGED <<log, call, phone, budget, purged>>
      /\ reader' = [reader EXCEPT !.at = "streaming", !.cursor = Bounded(from, log.last)]
  <2>1. gap \in Seq(Messages)
    <3> HIDE DEF from
    <3> QED BY <1>1, <1>3, BoundedReplay
  <2>2. wire' = wire \o (IF stale THEN Announce(reader.gen) ELSE <<>>) \o gap
    BY DEF Hello, Announce
  <2>3. Announce(reader.gen) \in Seq(Messages)
    BY <1>1, ResetAlone
  <2>4. CASE stale
    <3>1. wire' = (<<>> \o Announce(reader.gen)) \o gap
      BY <1>2, <2>2, <2>4
    <3>2. t = Announce(reader.gen) \o gap
      BY <2>4 DEF Restart
    <3>3. wire' = t /\ wire \o t = t
      <4> HIDE DEF gap, t
      <4> QED BY <1>2, <1>5, <2>3, <3>1, <3>2, ConcatEmptySeq
    <3> QED BY <3>3 DEF Hello
  <2>5. CASE ~stale
    <3>1. wire' = (<<>> \o <<>>) \o gap /\ t = gap
      BY <1>2, <2>2, <2>5
    <3>2. wire' = t /\ wire \o t = t
      <4> HIDE DEF gap, t
      <4> QED BY <1>2, <2>1, <3>1, ShortWires, ConcatEmptySeq
    <3> QED BY <3>2 DEF Hello
  <2> QED BY <2>4, <2>5
<1>7. /\ reader' \in [at : {"streaming"}, gen : 0 .. log.build + 1,
                      client : 0 .. log.build + 1, cursor : 0 .. MaxRows]
      /\ reader'.cursor = Bounded(from, log.last) /\ reader'.gen = reader.gen
  <2> HIDE DEF from, t
  <2> QED BY <1>1, <1>4, <1>6 DEF StreamInv, StreamTypeOK
<1>8. ~purged => reader.gen <= log.gen
  BY DEF StreamInv, BuildsAreGenerations
<1> HIDE DEF t, from
<1> QED BY <1>1, <1>5, <1>6, <1>7, <1>8, WritingKeeps

(* The loop writes from where the wire ends.                               *)
LEMMA PollsKeep == ASSUME StreamInv, PollReset \/ PollGap \/ PollRows PROVE StreamInv'
<1>1. /\ reader.gen \in 0 .. log.build + 1 /\ reader.client \in 0 .. log.build + 1
      /\ reader.cursor \in 0 .. MaxRows /\ log.last \in 0 .. MaxRows /\ phone.gen \in Nat
      /\ log.build \in Nat /\ log.gen \in 0 .. log.build + 1 /\ log.gen \in Nat
      /\ log.gen <= log.build + 1
  BY DEF StreamInv, StreamTypeOK, CallTypeOK
<1>2. /\ WireEnd = reader.cursor /\ (~purged => WireGen = reader.gen) /\ reader.at = "streaming"
      /\ ~purged => log.gen = log.build + 1
  BY DEF StreamInv, WireFollows, BuildsAreGenerations, PollReset, PollGap, PollRows,
         Streaming, Current
<1>3. CASE PollReset
  <2> DEFINE t == Announce(log.gen)
  <2>1. /\ t \in Seq(Messages) /\ Len(t) = 1 /\ Follows(t, WireEnd) /\ Keeps(t, WireGen)
        /\ PosAt(t, WireEnd, 1) = 0 /\ GenAt(t, WireGen, 1) = log.gen
        /\ GenAfter(t[1]) = log.gen /\ PosAfter(t[1]) = 0
    BY <1>1, ResetAlone
  <2>2. /\ UNCHANGED <<log, call, phone, budget, purged>>
        /\ reader' = [reader EXCEPT !.gen = log.gen, !.cursor = 0]
    BY <1>3 DEF PollReset
  <2>3. wire' = wire \o t
    BY <1>3, AppendIsConcat DEF PollReset, StreamInv, CallTypeOK, Announce
  <2> HIDE DEF t
  <2>4. /\ reader' \in [at : {"streaming"}, gen : 0 .. log.build + 1,
                        client : 0 .. log.build + 1, cursor : 0 .. MaxRows]
        /\ reader'.cursor = 0 /\ reader'.gen = log.gen
    <3>1. 0 \in 0 .. MaxRows
      BY StreamAssumption DEF StreamAssumption
    <3> QED BY <1>1, <1>2, <2>2, <3>1 DEF StreamInv, StreamTypeOK
  <2>5. \A i \in 1 .. Len(t) : GenAfter(t[i]) <= log.build + 1 /\ PosAfter(t[i]) <= log.last
    BY <1>1, <2>1
  <2>6. log.gen <= log.gen
    BY <1>1
  <2> QED BY <2>1, <2>2, <2>3, <2>4, <2>5, <2>6, WritingKeeps
<1>4. CASE PollGap
  <2> DEFINE t == GapBelow(log.gen, reader.cursor, log.last)
             b == Bounded(reader.cursor, log.last)
  <2>1. reader.gen = log.gen /\ reader.cursor \in 0 .. log.last
    BY <1>1, <1>4 DEF PollGap, Current, Streaming, Behind
  <2>2. /\ t \in Seq(Messages) /\ Follows(t, reader.cursor) /\ Keeps(t, log.gen)
        /\ PosAt(t, reader.cursor, Len(t)) = b /\ GenAt(t, log.gen, Len(t)) = log.gen
        /\ \A i \in 1 .. Len(t) : GenAfter(t[i]) = log.gen /\ PosAfter(t[i]) <= log.last
    BY <1>1, <2>1, BoundedReplay
  <2>3. b \in 0 .. MaxRows
    BY <1>1, <2>1, BoundedReach
  <2>4. /\ wire' = wire \o t /\ UNCHANGED <<log, call, phone, budget, purged>>
        /\ reader' = [reader EXCEPT !.cursor = b]
    BY <1>4 DEF PollGap
  <2> HIDE DEF t, b
  <2>5. /\ reader' \in [at : {"streaming"}, gen : 0 .. log.build + 1,
                        client : 0 .. log.build + 1, cursor : 0 .. MaxRows]
        /\ reader'.cursor = b /\ reader'.gen = log.gen
    BY <1>2, <2>1, <2>3, <2>4 DEF StreamInv, StreamTypeOK
  <2>6. (\A i \in 1 .. Len(t) : GenAfter(t[i]) <= log.build + 1) /\ log.gen <= log.gen
    BY <1>1, <2>2
  <2> QED BY <1>2, <2>1, <2>2, <2>4, <2>5, <2>6, WritingKeeps
<1>5. CASE PollRows
  <2>1. reader.gen = log.gen /\ reader.cursor \in 0 .. log.last
    BY <1>1, <1>5 DEF PollRows, Current, Streaming, Behind
  <2>2. PICK n \in 1 .. Smaller(BatchLimit, log.last - reader.cursor) :
           /\ reader' = [reader EXCEPT !.cursor = @ + n]
           /\ wire' = wire \o [i \in 1 .. n |-> Event(reader.cursor + i)]
    BY <1>5 DEF PollRows
  <2> DEFINE t == SentRows(reader.cursor, n)
  <2>3. n \in Nat \ {0} /\ reader.cursor + n <= log.last /\ reader.cursor \in Nat
        /\ reader.cursor + n <= MaxRows
    BY <1>1, <2>1, StreamAssumption DEF Smaller, StreamAssumption
  <2>4. /\ t \in Seq(Messages) /\ Len(t) = n /\ Follows(t, reader.cursor) /\ Keeps(t, log.build + 1)
        /\ PosAt(t, reader.cursor, n) = reader.cursor + n
        /\ GenAt(t, log.build + 1, n) = log.build + 1
        /\ \A i \in 1 .. n : GenAfter(t[i]) = log.build + 1 /\ PosAfter(t[i]) = reader.cursor + i
    BY <1>1, <2>3, RowsOnTheWire
  <2>5. wire' = wire \o t /\ UNCHANGED <<log, call, phone, budget, purged>>
    BY <1>5, <2>2 DEF PollRows, SentRows
  <2> HIDE DEF t
  <2>6. reader' = [reader EXCEPT !.cursor = reader.cursor + n] /\ reader.cursor + n \in 0 .. MaxRows
    BY <2>2, <2>3
  <2>7. /\ reader' \in [at : {"streaming"}, gen : 0 .. log.build + 1,
                        client : 0 .. log.build + 1, cursor : 0 .. MaxRows]
        /\ reader'.cursor = reader.cursor + n /\ reader'.gen = log.gen
    <3>1. reader \in [at : {"idle", "opened", "streaming", "done"}, gen : 0 .. log.build + 1,
                      client : 0 .. log.build + 1, cursor : 0 .. MaxRows]
      BY DEF StreamInv, StreamTypeOK
    <3> QED BY <1>2, <2>1, <2>6, <3>1
  <2>8. /\ \A i \in 1 .. Len(t) : GenAfter(t[i]) <= log.build + 1 /\ PosAfter(t[i]) <= log.last
        /\ log.gen <= log.gen
    BY SMTT(30), <1>1, <2>3, <2>4
  <2>9. Follows(t, WireEnd) /\ reader'.cursor = PosAt(t, WireEnd, Len(t))
    BY <1>2, <2>4, <2>7
  <2>10. ~purged => /\ Keeps(t, WireGen)
                    /\ reader'.gen = GenAt(t, WireGen, Len(t)) /\ reader'.gen <= log.gen
    BY <1>2, <2>1, <2>4, <2>7, <2>8
  <2> QED BY <2>4, <2>5, <2>7, <2>8, <2>9, <2>10, WritingKeeps
<1> QED BY <1>3, <1>4, <1>5

(* The phone reads one message.                                            *)
LEMMA ReceiveKeeps == ASSUME StreamInv, Receive PROVE StreamInv'
<1> DEFINE m == Head(wire)
           t == Tail(wire)
           rows == [seq : 1 .. MaxRows, build : 0 .. log.build]
<1>1. /\ m \in Messages /\ m = wire[1] /\ 1 \in 1 .. Len(wire) /\ t \in Seq(Messages)
      /\ Len(wire) = Len(t) + 1 /\ Len(t) \in Nat
      /\ \A i \in 1 .. Len(t) : t[i] = wire[i + 1] /\ i + 1 \in 1 .. Len(wire)
      /\ \A i \in 0 .. Len(t) : /\ PosAt(t, PosAfter(m), i) = PosAt(wire, phone.cursor, i + 1)
                                /\ GenAt(t, GenAfter(m), i) = GenAt(wire, phone.gen, i + 1)
      /\ Continues(m, phone.cursor) /\ Follows(t, PosAfter(m))
      /\ Keeps(wire, phone.gen) => /\ Keeps(t, GenAfter(m))
                                   /\ m.type # "log_reset" => GenAfter(m) = phone.gen
  <2>1. wire \in Seq(Messages) /\ wire # <<>> /\ Follows(wire, phone.cursor)
    BY DEF StreamInv, CallTypeOK, WireFollows, Receive
  <2>2. t \in Seq(Messages) => Len(t) \in Nat
    BY LenProperties
  <2> QED BY <2>1, <2>2, WiresShorten
<1> HIDE DEF m, t
<1>2. /\ phone' = After(m) /\ wire' = t /\ UNCHANGED <<log, reader, budget, purged>>
      /\ call' = IF m.type = "log_reset" THEN NoCall ELSE call
  BY DEF Receive, m, t
<1>3. /\ m.type \in {"log_reset", "backlog_gap", "session_event"}
      /\ m.type = "log_reset" => m.gen \in Nat
      /\ m.type = "backlog_gap" => m.gen \in Nat /\ m.from \in 0 .. MaxRows /\ m.to \in 0 .. MaxRows
      /\ m.type = "session_event" => m.row \in [seq : 1 .. MaxRows, build : Nat]
      /\ PosAfter(m) \in 0 .. MaxRows /\ GenAfter(m) \in Nat
  BY <1>1, MessageShape
<1>4. /\ log.build \in Nat /\ phone.gen \in Nat /\ phone.gen <= log.build + 1
      /\ phone.cursor \in 0 .. MaxRows /\ MaxRows \in Nat
      /\ phone.held \subseteq rows /\ phone.missing \subseteq 1 .. MaxRows
      /\ phone = [gen |-> phone.gen, cursor |-> phone.cursor, held |-> phone.held,
                  missing |-> phone.missing]
      /\ GenAfter(m) <= log.build + 1
  <2>1. GenAfter(m) <= log.build + 1
    BY <1>1 DEF StreamInv, CallTypeOK
  <2>2. phone = [gen |-> phone.gen, cursor |-> phone.cursor, held |-> phone.held,
                 missing |-> phone.missing]
    BY DEF StreamInv, CallTypeOK
  <2>3. log.build \in Nat /\ phone.gen \in 0 .. log.build + 1 /\ phone.held \subseteq rows
    BY DEF StreamInv, StreamTypeOK
  <2>4. phone.cursor \in 0 .. MaxRows /\ phone.missing \subseteq 1 .. MaxRows /\ MaxRows \in Nat
    BY StreamAssumption DEF StreamInv, CallTypeOK, StreamAssumption
  <2> QED BY <2>1, <2>2, <2>3, <2>4
<1>5. /\ phone' \in [gen : 0 .. log.build + 1, cursor : 0 .. MaxRows, held : SUBSET rows,
                     missing : SUBSET (1 .. MaxRows)]
      /\ phone'.cursor = PosAfter(m)
      /\ m.type = "log_reset" => phone'.gen = GenAfter(m) /\ phone'.held = {}
      /\ m.type # "log_reset" => phone'.gen = phone.gen /\ phone.cursor <= phone'.cursor
      /\ \A x \in phone'.held : x \in phone.held \/ x.build + 1 = GenAfter(m)
      /\ NoSilentHole'
  <2>1. CASE m.type = "log_reset"
    <3>1. phone' = [gen |-> m.gen, cursor |-> 0, held |-> {}, missing |-> {}]
      BY <1>2, <2>1 DEF After
    <3>2. PosAfter(m) = 0 /\ GenAfter(m) = m.gen
      BY <2>1 DEF PosAfter, GenAfter
    <3> QED BY <1>3, <1>4, <2>1, <3>1, <3>2 DEF NoSilentHole, Seqs
  <2>2. CASE m.type = "backlog_gap"
    <3>1. phone' = [gen |-> phone.gen, cursor |-> m.to, held |-> phone.held,
                    missing |-> phone.missing \cup (m.from + 1 .. m.to)]
      BY <1>2, <1>4, <2>2 DEF After
    <3>2. PosAfter(m) = m.to /\ m.from = phone.cursor /\ m.from <= m.to
      BY <1>1, <2>2 DEF PosAfter, Continues
    <3>3. NoSilentHole'
      BY <1>3, <1>4, <2>2, <3>1, <3>2 DEF StreamInv, NoSilentHole, Seqs
    <3> QED BY <1>3, <1>4, <2>2, <3>1, <3>2, <3>3
  <2>3. CASE m.type = "session_event"
    <3>1. phone' = [gen |-> phone.gen, cursor |-> m.row.seq, held |-> phone.held \cup {m.row},
                    missing |-> phone.missing \ {m.row.seq}]
      BY <1>2, <1>4, <2>3 DEF After
    <3>2. /\ PosAfter(m) = m.row.seq /\ m.row.seq = phone.cursor + 1
          /\ GenAfter(m) = m.row.build + 1
      BY <1>1, <2>3 DEF PosAfter, Continues, GenAfter
    <3>3. m.row \in rows
      BY <1>3, <1>4, <2>3, <3>2
    <3>4. NoSilentHole'
      <4>1. Seqs(phone.held \cup {m.row}) = Seqs(phone.held) \cup {m.row.seq}
        BY DEF Seqs
      <4>2. 1 .. phone.cursor + 1 = (1 .. phone.cursor) \cup {phone.cursor + 1}
        BY <1>4
      <4>3. /\ 1 .. phone.cursor = Seqs(phone.held) \cup phone.missing
            /\ Seqs(phone.held) \cap phone.missing = {}
        BY DEF StreamInv, NoSilentHole
      <4>4. phone'.held = phone.held \cup {m.row} /\ phone'.cursor = phone.cursor + 1
            /\ phone'.missing = phone.missing \ {m.row.seq}
        BY <3>1, <3>2
      <4>5. (Seqs(phone.held) \cup {m.row.seq}) \cap (phone.missing \ {m.row.seq}) = {}
        BY <4>3
      <4>6. 1 .. phone.cursor + 1 = (Seqs(phone.held) \cup {m.row.seq}) \cup (phone.missing \ {m.row.seq})
        BY <3>2, <4>2, <4>3
      <4> QED BY <4>1, <4>4, <4>5, <4>6 DEF NoSilentHole
    <3> QED BY <1>3, <1>4, <2>3, <3>1, <3>2, <3>3, <3>4
  <2> QED BY <1>3, <2>1, <2>2, <2>3
<1>6. StreamTypeOK' /\ CallTypeOK'
  <2>1. /\ call'.at \in {"none", "asked", "answered"} /\ call'.rows \subseteq rows
        /\ call' \in [at : {"none", "asked", "answered"}, kind : {"page", "row"}, gen : Nat,
                      from : 0 .. MaxRows, to : 0 .. MaxRows, rows : SUBSET rows]
    BY <1>2, <1>4 DEF StreamInv, CallTypeOK, NoCall
  <2>2. \A i \in DOMAIN t : t[i].type \in {"log_reset", "backlog_gap", "session_event"}
    BY <1>1, LenProperties, ElementOfSeq, MessageShape
  <2>3. \A i \in 1 .. Len(t) : GenAfter(t[i]) <= log.build + 1
    BY <1>1 DEF StreamInv, CallTypeOK
  <2>4. phone' \in [gen : Nat, cursor : 0 .. MaxRows, held : SUBSET rows,
                    missing : SUBSET (1 .. MaxRows)]
    BY <1>4, <1>5
  <2>5. CallTypeOK'
    BY <1>1, <1>2, <2>1, <2>3, <2>4 DEF CallTypeOK
  <2>6. /\ phone'.gen \in 0 .. log.build + 1 /\ phone'.cursor \in 0 .. MaxRows
        /\ phone'.held \subseteq rows /\ phone'.missing \subseteq (0 .. MaxRows) \ {0}
    BY <1>4, <1>5
  <2> QED BY <1>2, <2>1, <2>2, <2>5, <2>6 DEF StreamInv, StreamTypeOK
<1>7. WireFollows'
  <2>1. wire # <<>> /\ reader.at \notin {"idle", "opened"}
    BY DEF StreamInv, WireFollows, Receive
  <2>2. PosAt(t, PosAfter(m), Len(t)) = WireEnd
    BY <1>1 DEF WireEnd
  <2>3. WireEnd' = WireEnd
    BY <1>2, <1>5, <2>2 DEF WireEnd
  <2> QED BY <1>1, <1>2, <1>5, <2>1, <2>3 DEF StreamInv, WireFollows
<1>8. CallIsBelow'
  <2>1. CASE m.type = "log_reset"
    BY <1>2, <2>1 DEF CallIsBelow, NoCall
  <2>2. CASE m.type # "log_reset"
    <3>1. call' = call /\ phone'.gen = phone.gen /\ phone.cursor <= phone'.cursor
          /\ phone'.cursor \in Int /\ call.to \in Int /\ phone.cursor \in Int
      BY <1>2, <1>3, <1>4, <1>5, <2>2 DEF StreamInv, CallTypeOK
    <3> QED BY <3>1 DEF StreamInv, CallIsBelow
  <2> QED BY <2>1, <2>2
<1>9. BuildsAreGenerations'
  <2> SUFFICES ASSUME ~purged PROVE BuildsAreGenerations'
    BY <1>2 DEF BuildsAreGenerations
  <2>1. Keeps(t, GenAfter(m)) /\ (m.type # "log_reset" => GenAfter(m) = phone.gen)
    BY <1>1 DEF StreamInv, BuildsAreGenerations
  <2>2. phone'.gen = GenAfter(m) /\ phone'.cursor = PosAfter(m)
    BY <1>5, <2>1
  <2>3. \A x \in phone'.held \cup call'.rows : x.build + 1 = phone'.gen
    BY <1>2, <1>5, <2>1, <2>2 DEF StreamInv, BuildsAreGenerations, NoCall
  <2>4. GenAt(t, GenAfter(m), Len(t)) = WireGen
    BY <1>1 DEF WireGen
  <2>5. WireGen' = WireGen
    BY <1>2, <2>2, <2>4 DEF WireGen
  <2>6. log.gen = log.build + 1 /\ phone'.gen <= log.gen
    BY <1>4, <2>2 DEF StreamInv, BuildsAreGenerations
  <2>7. ASSUME NEW i \in 0 .. Len(t), GenAt(t, GenAfter(m), i) = log.gen
        PROVE  PosAt(t, PosAfter(m), i) <= log.last
    <3>1. i + 1 \in 0 .. Len(wire) /\ GenAt(wire, phone.gen, i + 1) = log.gen
          /\ PosAt(t, PosAfter(m), i) = PosAt(wire, phone.cursor, i + 1)
      BY <1>1, <2>7
    <3> QED BY <3>1 DEF StreamInv, BuildsAreGenerations
  <2> QED BY <1>2, <2>1, <2>2, <2>3, <2>5, <2>6, <2>7 DEF StreamInv, BuildsAreGenerations
<1> QED BY <1>5, <1>6, <1>7, <1>8, <1>9 DEF StreamInv

(* What the phone's other request may become: an answer that is below the  *)
(* phone's position, of rows of its generation.                            *)
LEMMA CallsKeep ==
    ASSUME StreamInv, UNCHANGED <<log, reader, wire, phone, purged>>,
           budget' \in [rebuilds : Nat, purges : Nat, drops : Nat],
           call' \in [at : {"none", "asked", "answered"}, kind : {"page", "row"}, gen : Nat,
                      from : 0 .. MaxRows, to : 0 .. MaxRows,
                      rows : SUBSET [seq : 1 .. MaxRows, build : 0 .. log.build]],
           call'.at # "none" =>
              /\ call'.gen = phone.gen /\ call'.from <= call'.to /\ call'.to <= phone.cursor
              /\ \A x \in call'.rows : x.seq <= call'.to,
           ~purged => \A x \in call'.rows : x.build + 1 = phone.gen
    PROVE  StreamInv'
<1>1. call'.at \in {"none", "asked", "answered"}
      /\ call'.rows \subseteq [seq : 1 .. MaxRows, build : 0 .. log.build]
  OBVIOUS
<1>2. StreamTypeOK'
  BY <1>1 DEF StreamInv, StreamTypeOK
<1>3. CallTypeOK'
  BY DEF StreamInv, CallTypeOK
<1>4. WireFollows' /\ CallIsBelow' /\ NoSilentHole'
  BY DEF StreamInv, WireFollows, CallIsBelow, NoSilentHole, WireEnd
<1>5. BuildsAreGenerations'
  BY DEF StreamInv, BuildsAreGenerations, WireGen
<1> QED BY <1>2, <1>3, <1>4, <1>5 DEF StreamInv

(* The requests of the phone and their ends.                               *)
LEMMA RequestsKeep ==
    ASSUME StreamInv, AskPage \/ AskRow \/ Mismatch \/ CallFails PROVE StreamInv'
<1> USE StreamAssumption DEF StreamAssumption
<1>1. /\ UNCHANGED <<log, reader, wire, phone, purged>>
      /\ budget' \in [rebuilds : Nat, purges : Nat, drops : Nat]
  BY SpendingKeeps DEF AskPage, AskRow, Mismatch, CallFails, StreamInv, StreamTypeOK
<1>2. /\ phone.cursor \in 0 .. MaxRows /\ phone.gen \in Nat
      /\ 1 .. phone.cursor = Seqs(phone.held) \cup phone.missing
  BY DEF StreamInv, CallTypeOK, NoSilentHole
<1>3. CASE Mismatch \/ CallFails
  <2>1. call' = NoCall
    BY <1>3 DEF Mismatch, CallFails
  <2> QED BY <1>1, <2>1, CallsKeep DEF NoCall
<1>4. CASE AskPage
  <2>1. PICK n \in phone.missing :
           call' = [NoCall EXCEPT !.at = "asked", !.gen = phone.gen, !.to = n,
                        !.from = IF n > PageLimit THEN n - PageLimit ELSE 0]
    BY <1>4 DEF AskPage
  <2>2. n \in 1 .. phone.cursor
    BY <1>2
  <2> DEFINE f == IF n > PageLimit THEN n - PageLimit ELSE 0
  <2>3. f \in 0 .. n
    BY <2>2
  <2>4. call' = [at |-> "asked", kind |-> "page", gen |-> phone.gen, from |-> f, to |-> n, rows |-> {}]
    BY <2>1 DEF NoCall
  <2> HIDE DEF f
  <2> QED BY <1>1, <1>2, <2>2, <2>3, <2>4, CallsKeep
<1>5. CASE AskRow
  <2>1. PICK x \in phone.held :
           call' = [NoCall EXCEPT !.at = "asked", !.kind = "row", !.gen = phone.gen,
                                 !.from = x.seq - 1, !.to = x.seq]
    BY <1>5 DEF AskRow
  <2>2. x.seq \in 1 .. phone.cursor
    BY <1>2 DEF Seqs
  <2>3. call' = [at |-> "asked", kind |-> "row", gen |-> phone.gen, from |-> x.seq - 1,
                 to |-> x.seq, rows |-> {}]
    BY <2>1 DEF NoCall
  <2> QED BY <1>1, <1>2, <2>2, <2>3, CallsKeep
<1> QED BY <1>3, <1>4, <1>5

(* The rows of an answer are read in one transaction with the generation.  *)
LEMMA AnswersKeep == ASSUME StreamInv, AnswerPage \/ AnswerRow PROVE StreamInv'
<1> USE StreamAssumption DEF StreamAssumption
<1> DEFINE rows == [seq : 1 .. MaxRows, build : 0 .. log.build]
<1>1. /\ UNCHANGED <<log, reader, wire, phone, purged, budget>>
      /\ budget' \in [rebuilds : Nat, purges : Nat, drops : Nat]
      /\ call.at = "asked" /\ call.gen = log.gen
  BY DEF AnswerPage, AnswerRow, StreamInv, StreamTypeOK
<1>2. /\ log.last \in 0 .. MaxRows /\ log.build \in Nat /\ call.gen = phone.gen
      /\ call.from \in 0 .. MaxRows /\ call.to \in 0 .. MaxRows /\ call.from <= call.to
      /\ call.to <= phone.cursor
      /\ call \in [at : {"none", "asked", "answered"}, kind : {"page", "row"}, gen : Nat,
                   from : 0 .. MaxRows, to : 0 .. MaxRows, rows : SUBSET rows]
      /\ ~purged => log.build + 1 = phone.gen
  BY <1>1 DEF StreamInv, StreamTypeOK, CallTypeOK, CallIsBelow, BuildsAreGenerations
<1>3. ASSUME NEW f \in Nat, NEW top \in 0 .. MaxRows, top <= call.to,
             call' = [call EXCEPT !.at = "answered", !.rows = Rows(f, top)]
      PROVE  StreamInv'
  <2>1. \A x \in Rows(f, top) : x \in rows /\ x.seq <= call.to /\ x.build = log.build
    BY <1>2, <1>3 DEF Rows, Row
  <2>2. Rows(f, top) \in SUBSET rows
    BY <2>1
  <2>3. /\ call' \in [at : {"none", "asked", "answered"}, kind : {"page", "row"}, gen : Nat,
                      from : 0 .. MaxRows, to : 0 .. MaxRows, rows : SUBSET rows]
        /\ call'.gen = call.gen /\ call'.from = call.from /\ call'.to = call.to
        /\ call'.rows = Rows(f, top)
    BY <1>2, <1>3, <2>2
  <2> QED BY <1>1, <1>2, <2>1, <2>3, CallsKeep
<1>4. CASE AnswerPage
  <2> DEFINE top == Smaller(call.to, log.last)
  <2>1. PICK f \in call.from .. Larger(call.from, top - 1) :
           call' = [call EXCEPT !.at = "answered", !.rows = Rows(f, top)]
    BY <1>4 DEF AnswerPage
  <2>2. f \in Nat /\ top \in 0 .. MaxRows /\ top <= call.to
    BY <1>2 DEF Smaller, Larger
  <2> HIDE DEF top
  <2> QED BY <1>3, <2>1, <2>2
<1>5. CASE AnswerRow
  <2>1. CASE call.to <= log.last
    <3>1. call' = [call EXCEPT !.at = "answered", !.rows = Rows(call.from, call.to)]
      BY <1>5, <2>1 DEF AnswerRow
    <3>2. call.from \in Nat /\ call.to \in 0 .. MaxRows /\ call.to <= call.to
      BY <1>2
    <3> QED BY <1>3, <3>1, <3>2
  <2>2. CASE ~(call.to <= log.last)
    <3>1. call' = NoCall
      BY <1>5, <2>2 DEF AnswerRow
    <3> QED BY <1>1, <3>1, CallsKeep DEF NoCall
  <2> QED BY <2>1, <2>2
<1> QED BY <1>4, <1>5

(* What an answer adds, it takes from what is missing.                     *)
LEMMA TakeAnswerKeeps == ASSUME StreamInv, TakeAnswer PROVE StreamInv'
<1> DEFINE rows == [seq : 1 .. MaxRows, build : 0 .. log.build]
<1>1. /\ UNCHANGED <<log, reader, wire, budget, purged>> /\ call' = NoCall
      /\ call.at = "answered" /\ call.gen = phone.gen
  BY DEF TakeAnswer, StreamInv, CallIsBelow
<1>2. /\ phone \in [gen : Nat, cursor : 0 .. MaxRows, held : SUBSET rows,
                    missing : SUBSET (1 .. MaxRows)]
      /\ call.rows \in SUBSET rows /\ call.to \in 0 .. MaxRows /\ call.to <= phone.cursor
      /\ \A x \in call.rows : x.seq <= call.to
      /\ phone.gen \in 0 .. log.build + 1
      /\ MaxRows \in Nat
  BY <1>1, StreamAssumption
     DEF StreamInv, CallTypeOK, CallIsBelow, StreamTypeOK, StreamAssumption
<1>3. /\ phone' = [phone EXCEPT !.held = phone.held \cup call.rows,
                                !.missing = phone.missing \ Seqs(call.rows)]
  BY <1>1 DEF TakeAnswer
<1>4. /\ phone' \in [gen : Nat, cursor : 0 .. MaxRows, held : SUBSET rows,
                     missing : SUBSET (1 .. MaxRows)]
      /\ phone'.gen = phone.gen /\ phone'.cursor = phone.cursor
      /\ phone'.held = phone.held \cup call.rows
      /\ phone'.missing = phone.missing \ Seqs(call.rows)
  BY <1>2, <1>3
<1>5. NoCall \in [at : {"none", "asked", "answered"}, kind : {"page", "row"}, gen : Nat,
                  from : 0 .. MaxRows, to : 0 .. MaxRows, rows : SUBSET rows]
  BY <1>2 DEF NoCall
<1>6. StreamTypeOK'
  <2>1. /\ phone'.gen \in 0 .. log.build + 1 /\ phone'.cursor \in 0 .. MaxRows
        /\ phone'.held \subseteq rows /\ phone'.missing \subseteq (0 .. MaxRows) \ {0}
    BY <1>2, <1>4
  <2>2. NoCall.at \in {"none", "asked", "answered"} /\ NoCall.rows \subseteq rows
    BY DEF NoCall
  <2> QED BY <1>1, <2>1, <2>2 DEF StreamInv, StreamTypeOK
<1>7. CallTypeOK'
  BY <1>1, <1>4, <1>5 DEF StreamInv, CallTypeOK
<1>8. WireFollows' /\ CallIsBelow'
  <2>1. WireEnd' = WireEnd
    BY <1>1, <1>4 DEF WireEnd
  <2> QED BY <1>1, <1>4, <2>1 DEF StreamInv, WireFollows, CallIsBelow, NoCall
<1>9. NoSilentHole'
  <2>1. Seqs(phone.held \cup call.rows) = Seqs(phone.held) \cup Seqs(call.rows)
    BY DEF Seqs
  <2>2. Seqs(call.rows) \subseteq 1 .. phone.cursor
    BY <1>2 DEF Seqs
  <2>3. /\ 1 .. phone.cursor = Seqs(phone.held) \cup phone.missing
        /\ Seqs(phone.held) \cap phone.missing = {}
    BY DEF StreamInv, NoSilentHole
  <2> QED BY <1>4, <2>1, <2>2, <2>3 DEF NoSilentHole
<1>10. BuildsAreGenerations'
  <2>1. WireGen' = WireGen
    BY <1>1, <1>4 DEF WireGen
  <2> QED BY <1>1, <1>4, <2>1 DEF StreamInv, BuildsAreGenerations, NoCall
<1> QED BY <1>6, <1>7, <1>8, <1>9, <1>10 DEF StreamInv

------------------------------------------------------------------------------
(* The theorems.                                                           *)

(* Every step keeps the inductive invariant.                               *)
LEMMA StreamStep == StreamInv /\ [StreamNext]_vars => StreamInv'
<1> SUFFICES ASSUME StreamInv, [StreamNext]_vars PROVE StreamInv'
  OBVIOUS
<1>1. CASE UNCHANGED vars
  BY <1>1, StutteringKeeps
<1>2. CASE Write
  BY <1>2, LogStepsKeep
<1>3. CASE Open \/ Done \/ Disconnect
  BY <1>3, OpenKeeps, EndsKeep
<1>4. CASE Serve
  BY <1>4, HelloKeeps, PollsKeep DEF Serve
<1>5. CASE Receive
  BY <1>5, ReceiveKeeps
<1>6. CASE AskPage \/ AskRow \/ Mismatch \/ CallFails
  BY <1>6, RequestsKeep
<1>7. CASE AnswerPage \/ AnswerRow
  BY <1>7, AnswersKeep
<1>8. CASE TakeAnswer
  BY <1>8, TakeAnswerKeeps
<1> QED BY <1>1, <1>2, <1>3, <1>4, <1>5, <1>6, <1>7, <1>8 DEF StreamNext, Answer

(* In every state of every behaviour.                                      *)
LEMMA StreamAlways == StreamSpec => []StreamInv
<1>1. StreamInit => StreamInv
  BY InitEstablishes
<1>2. StreamInv /\ [StreamNext]_vars => StreamInv'
  BY StreamStep
<1> QED BY <1>1, <1>2, PTL DEF StreamSpec, StreamSafety

(* Log, stream, wire, request and phone keep their types.                  *)
THEOREM StreamTypes == StreamSpec => []StreamTypeOK
<1>1. StreamInv => StreamTypeOK
  BY DEF StreamInv
<1> QED BY <1>1, StreamAlways, PTL

(* _handle_session_events_v2 clips no replay silently: every seq up to the *)
(* phone's cursor is a row it holds or one it was told is missing, whatever*)
(* is rebuilt, purged, cut off or lost on the way.                         *)
THEOREM HolesAreAnnounced == StreamSpec => []NoSilentHole
<1>1. StreamInv => NoSilentHole
  BY DEF StreamInv
<1> QED BY <1>1, StreamAlways, PTL

(* Rows of two builds of the log are never shown together unless the       *)
(* session is purged: neither the stream nor a page nor a full row brings  *)
(* one of another generation.                                              *)
THEOREM OneHistoryAlways == StreamSpec => []OneHistoryUnlessPurged
<1>1. StreamInv => OneHistoryUnlessPurged
  <2> SUFFICES ASSUME StreamInv, ~purged, NEW x \in phone.held, NEW y \in phone.held
               PROVE  x.build = y.build
    BY DEF OneHistoryUnlessPurged, OneHistory
  <2>1. x.build + 1 = y.build + 1
    BY DEF StreamInv, BuildsAreGenerations
  <2>2. x.build \in Nat /\ y.build \in Nat
    BY DEF StreamInv, StreamTypeOK
  <2> QED BY <2>1, <2>2
<1> QED BY <1>1, StreamAlways, PTL

(* A phone that claims the present generation holds rows of the present    *)
(* log, none of them beyond its end: the handler may go on from its cursor.*)
THEOREM ClaimsAreTrue == StreamSpec => []ClaimedGenerationIsTheirs
<1>1. StreamInv => ClaimedGenerationIsTheirs
  <2> SUFFICES ASSUME StreamInv, ~purged, phone.gen = log.gen, NEW x \in phone.held
               PROVE  x.build = log.build /\ x.seq <= log.last
    BY DEF ClaimedGenerationIsTheirs
  <2>1. x.build \in Nat /\ x.seq \in Nat /\ log.build \in Nat /\ log.last \in Nat
        /\ phone.cursor \in Nat
    BY DEF StreamInv, StreamTypeOK
  <2>2. x.build + 1 = phone.gen /\ log.gen = log.build + 1
    BY DEF StreamInv, BuildsAreGenerations
  <2>3. x.seq \in 1 .. phone.cursor
    BY DEF StreamInv, NoSilentHole, Seqs
  <2>4. 0 \in 0 .. Len(wire)
    BY WireGenerations
  <2>5. phone.cursor <= log.last
    BY <2>4 DEF StreamInv, BuildsAreGenerations, GenAt, PosAt
  <2> QED BY <2>1, <2>2, <2>3, <2>5
<1> QED BY <1>1, StreamAlways, PTL
==============================================================================
