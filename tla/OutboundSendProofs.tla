------------------------- MODULE OutboundSendProofs -------------------------
(***************************************************************************)
(* More theorems about OutboundDelivery, for every set of messages, drains *)
(* and kinds and for every bound: no blind resend, replays that are paid   *)
(* for, required messages that are not lost, and the ledger that the queue *)
(* keeps (DeliveryLedger).                                                 *)
(***************************************************************************)
EXTENDS OutboundProofs

Charge(m) == row[m].rc + crashes + faults

(* The next attempt is paid for. *)
Paid(m) == attempts[m] <= Charge(m)

(* No drain replays the row. *)
Unsendable(m) == Pending(m) => row[m].rs = "unknown"

(* The row is gone from the queue or shows that a send was started. *)
Evident(m) == Pending(m) => row[m].rs # "none"

(* The adapter sees its sends when it is asked about them. *)
Visible(m) == kind[m].byMark => kind[m].exact

Units(m) == 1 .. kind[m].units
Done(m, u) == sent[m][u] > 0 \/ u \in muted[m]
PartSent(m) == \E u \in Units(m) : sent[m][u] > 0

AtWork(w, m) == work[w].pc \in AttemptPcs /\ work[w].msg = m

(* What the marks of an attempt say about the row. *)
MarkInv(m, x) ==
  /\ x.pre = "acked" \/ x.post = "acked" => ~ Pending(m)
  /\ x.pre = "marked" => Evident(m)
  /\ x.pc \in {"io", "result"} => x.pre # "no"
  /\ kind[m].required => x.pre # "acked"
  /\ Plain(m) =>
       /\ x.post = "failed" => Paid(m)
       /\ x.post = "marked" => row[m].rs = "unknown"
       /\ x.post = "marked" /\ x.pc \in Sending => x.got
       /\ x.got /\ kind[m].hooked => x.pc \notin Sending

(* A single send that was accepted is over, and not proven to have failed. *)
OnceInv(m, x) ==
  kind[m].units = 1 /\ Visible(m) /\ sent[m][1] > 0 =>
    /\ x.pc \notin {"unit", "dispatch", "io"}
    /\ x.pc = "finish" => x.got \/ (x.bad /\ ~ x.proven)
    /\ x.pc = "caught" => x.got \/ x.err # "proven"

(* How far an attempt has got. *)
ProgressInv(m, x) ==
  /\ x.unit \in Units(m)
  /\ x.pc = "result" => sent[m][x.unit] > 0
  /\ x.got => PartSent(m)
  /\ ~ x.bad /\ x.pc # "caught" =>
       \A u \in Units(m) : u < x.unit \/ x.pc = "finish" => Done(m, u)

AttemptInv(w) ==
  /\ work[w].pc = "reconcile" => Pending(work[w].msg)
  /\ work[w].pc \in AttemptPcs =>
       /\ MarkInv(work[w].msg, work[w])
       /\ OnceInv(work[w].msg, work[w])
       /\ ProgressInv(work[w].msg, work[w])

PaidInv(m) ==
  /\ attempts[m] <= 1 + Charge(m)
  /\ Paid(m) \/ Unsendable(m) \/ \E w \in Worker : AtWork(w, m)

SentInv(m) == sent[m][1] <= 1 /\ (sent[m][1] > 0 => Evident(m))

KeptInv(m) ==
  row[m].st = "gone" =>
    Complete(m) \/ m \in aborted \/ (faults > 0 /\ PartSent(m))

EntryInv(m) ==
  /\ work[m].pc \in {"new", "queued"} => attempts[m] = 0 /\ sent[m][1] = 0
  /\ Plain(m) => PaidInv(m)
  /\ kind[m].units = 1 /\ Visible(m) => SentInv(m)
  /\ kind[m].required => KeptInv(m)

JInv ==
  /\ IInv
  /\ \A w \in Worker : AttemptInv(w)
  /\ \A m \in Message : EntryInv(m)

-----------------------------------------------------------------------------
(* Steps of one worker. *)

(* Only what belongs to m changes, and nothing is taken back. *)
Local(m) ==
  /\ kind' = kind
  /\ crashes' = crashes
  /\ faults' \in Nat /\ faults' >= faults
  /\ aborted \subseteq aborted'
  /\ \A n \in Message \ {m} :
       /\ row'[n] = row[n] /\ sent'[n] = sent[n] /\ muted'[n] = muted[n]
       /\ attempts'[n] = attempts[n]

\* The numbers of an entry are numbers.
LEMMA NumberFacts ==
  ASSUME IInv, NEW m \in Message
  PROVE  /\ row[m] \in RowType /\ row[m].rc \in Nat
         /\ attempts[m] \in Nat /\ crashes \in Nat /\ faults \in Nat
         /\ kind[m] \in KindType /\ kind[m].units \in 1 .. MaxUnits
         /\ 1 \in Units(m)
         /\ \A u \in Units(m) : u \in 1 .. MaxUnits
         /\ \A u \in 1 .. MaxUnits : sent[m][u] \in Nat
<1>1. row[m] \in RowType /\ row[m].rc \in Nat
  BY DeliveryAssumption DEF IInv, TypeOK, RowType
<1>2. attempts[m] \in Nat /\ crashes \in Nat /\ faults \in Nat
  BY DeliveryAssumption DEF IInv, TypeOK
<1>3. kind[m] \in KindType
  BY DeliveryAssumption DEF IInv, TypeOK
<1>4. kind[m].units \in 1 .. MaxUnits
  BY <1>3 DEF KindType
<1>5. 1 \in Units(m) /\ \A u \in Units(m) : u \in 1 .. MaxUnits
  BY <1>4, DeliveryAssumption DEF Units
<1>6. sent[m] \in [1 .. MaxUnits -> Nat]
  BY DEF IInv, TypeOK
<1> QED BY <1>1, <1>2, <1>3, <1>4, <1>5, <1>6

\* A step of a claim's holder concerns its own attempt and its own entry only.
LEMMA OwnStep ==
  ASSUME JInv, IInv', NEW w \in Worker, Holds(w), NEW m \in Message,
         m = work[w].msg, NEW y \in WorkType, Goto(w, y), Local(m),
         y.pc # "reconcile",
         y.pc \in AttemptPcs =>
           y.msg = m /\ MarkInv(m, y)' /\ OnceInv(m, y)' /\ ProgressInv(m, y)',
         EntryInv(m)'
  PROVE  JInv'
<1>1. /\ work'[w] = y
      /\ \A v \in Worker : v # w => work'[v] = work[v]
  BY DEF JInv, IInv, TypeOK, Goto
<1>2. ASSUME NEW n \in Message, n # m
      PROVE  /\ row'[n] = row[n] /\ sent'[n] = sent[n] /\ muted'[n] = muted[n]
             /\ attempts'[n] = attempts[n] /\ kind' = kind
             /\ Pending(n)' = Pending(n)
             /\ Charge(n) <= Charge(n)'
             /\ Paid(n) => Paid(n)'
  <2>1. /\ row'[n] = row[n] /\ sent'[n] = sent[n] /\ muted'[n] = muted[n]
        /\ attempts'[n] = attempts[n] /\ kind' = kind
        /\ crashes' = crashes /\ faults' \in Nat /\ faults' >= faults
    BY <1>2 DEF Local
  <2>2. Charge(n) \in Nat /\ Charge(n)' \in Nat /\ Charge(n) <= Charge(n)'
        /\ attempts[n] \in Nat
    <3>1. row[n].rc \in Nat /\ crashes \in Nat /\ faults \in Nat
          /\ attempts[n] \in Nat
      BY NumberFacts DEF JInv
    <3> QED BY <2>1, <3>1 DEF Charge
  <2>3. Paid(n) => Paid(n)'
    BY <2>1, <2>2 DEF Paid
  <2> QED BY <2>1, <2>2, <2>3 DEF Pending
<1>3. ASSUME NEW v \in Worker
      PROVE  AttemptInv(v)'
  <2>1. CASE v = w
    BY <1>1, <2>1 DEF AttemptInv
  <2>2. CASE v # w /\ work[v].pc \in AttemptPcs
    <3>1. Holds(v)
      BY <2>2 DEF Holds, HoldPcs
    <3>2. PICK n \in Message : n = work[v].msg
      BY <3>1, HolderFacts DEF JInv
    <3>3. n # m
      BY <2>2, <3>1, <3>2 DEF JInv, IInv, Exclusive
    <3>4. AttemptInv(v) /\ work'[v] = work[v]
      BY <1>1, <2>2 DEF JInv
    <3>5. PICK x : x = work[v]
      OBVIOUS
    <3>6. MarkInv(n, x) /\ OnceInv(n, x) /\ ProgressInv(n, x)
      BY <2>2, <3>2, <3>4, <3>5 DEF AttemptInv
    <3>7. MarkInv(n, x)'
      BY <1>2, <3>3, <3>6 DEF MarkInv, Evident, Plain
    <3>8. OnceInv(n, x)'
      BY <1>2, <3>3, <3>6 DEF OnceInv, Visible
    <3>9. ProgressInv(n, x)'
      BY <1>2, <3>3, <3>6 DEF ProgressInv, Units, PartSent, Done
    <3>10. work[v].pc # "reconcile"
      BY <2>2 DEF AttemptPcs, Sending
    <3> QED BY <3>2, <3>4, <3>5, <3>7, <3>8, <3>9, <3>10 DEF AttemptInv
  <2>3. CASE v # w /\ work[v].pc = "reconcile"
    <3>1. Holds(v)
      BY <2>3 DEF Holds, HoldPcs
    <3>2. PICK n \in Message : n = work[v].msg
      BY <3>1, HolderFacts DEF JInv
    <3>3. n # m
      BY <2>3, <3>1, <3>2 DEF JInv, IInv, Exclusive
    <3>4. Pending(n)'
      BY <1>2, <2>3, <3>2, <3>3 DEF JInv, AttemptInv
    <3>5. work'[v] = work[v] /\ work[v].pc \notin AttemptPcs
      BY <1>1, <2>3 DEF AttemptPcs, Sending
    <3> QED BY <3>2, <3>4, <3>5 DEF AttemptInv
  <2>4. CASE v # w /\ work[v].pc \notin AttemptPcs \cup {"reconcile"}
    BY <1>1, <2>4 DEF AttemptInv
  <2> QED BY <2>1, <2>2, <2>3, <2>4
<1>4. ASSUME NEW n \in Message, n # m
      PROVE  EntryInv(n)'
  <2>1. EntryInv(n) /\ n \in Worker
    BY DEF JInv, Worker
  <2>2. work'[n].pc \in {"new", "queued"} => attempts[n] = 0 /\ sent[n][1] = 0
    <3>1. CASE n = w
      <4>1. StageInv(n) /\ StageInv(n)'
        BY <2>1 DEF JInv, IInv
      <4>2. work[n].msg = n
        BY <4>1 DEF StageInv, Knows
      <4> QED BY <1>4, <3>1, <4>2
    <3>2. CASE n # w
      BY <1>1, <2>1, <3>2 DEF EntryInv
    <3> QED BY <3>1, <3>2
  <2>3. PaidInv(n) => PaidInv(n)'
    <3>1. ASSUME NEW v \in Worker, AtWork(v, n)
          PROVE  AtWork(v, n)'
      BY <1>1, <1>4, <3>1 DEF AtWork
    <3>2. attempts[n] <= 1 + Charge(n) => attempts'[n] <= 1 + Charge(n)'
      <4>1. /\ row[n].rc \in Nat /\ crashes \in Nat /\ faults \in Nat
            /\ attempts[n] \in Nat /\ crashes' = crashes
            /\ faults' \in Nat /\ faults' >= faults
        BY NumberFacts DEF JInv, Local
      <4> QED BY <1>2, <1>4, <4>1 DEF Charge
    <3> QED BY <1>2, <1>4, <3>1, <3>2 DEF PaidInv, Unsendable
  <2>4. SentInv(n) => SentInv(n)'
    BY <1>2, <1>4 DEF SentInv, Evident
  <2>5. KeptInv(n) => KeptInv(n)'
    <3>1. /\ faults \in Nat /\ faults' \in Nat /\ faults' >= faults
          /\ aborted \subseteq aborted'
      BY NumberFacts DEF JInv, Local
    <3> QED BY <1>2, <1>4, <3>1 DEF KeptInv, Complete, PartSent, Units
  <2> QED BY <1>2, <1>4, <2>1, <2>2, <2>3, <2>4, <2>5
          DEF EntryInv, Plain, Visible
<1> QED BY <1>3, <1>4 DEF JInv

\* The holder of an entry that is not about to be claimed for the first time.
LEMMA OwnEntry ==
  ASSUME JInv, NEW w \in Worker, work[w].pc \in AttemptPcs,
         NEW m \in Message, m = work[w].msg
  PROVE  /\ Holds(w) /\ work[w] \in WorkType
         /\ work[m].pc \notin {"new", "queued"}
         /\ EntryInv(m)
         /\ MarkInv(m, work[w]) /\ OnceInv(m, work[w]) /\ ProgressInv(m, work[w])
<1>1. Holds(w) /\ work[w].pc # "taken"
  BY DEF Holds, HoldPcs, AttemptPcs, Sending
<1>2. work[w] \in WorkType /\ work[m].pc \notin {"new", "queued"}
  BY <1>1, HolderFacts DEF JInv
<1> QED BY <1>1, <1>2 DEF JInv, AttemptInv

\* What a write may do to an entry: lose no count, no evidence and nothing
\* that is required.
Keeps(m) ==
  /\ row'[m].rc \in Nat /\ row'[m].rc >= row[m].rc
  /\ kind[m].units = 1 /\ Visible(m) /\ sent[m][1] > 0 /\ Evident(m) =>
       Evident(m)'
  /\ kind[m].required /\ row'[m].st = "gone" =>
       \/ row[m].st = "gone"
       \/ Complete(m)
       \/ m \in aborted'
       \/ faults' > 0 /\ PartSent(m)

\* What was paid stays paid.
LEMMA PaidFacts ==
  ASSUME JInv, NEW m \in Message, Local(m), Keeps(m), attempts' = attempts
  PROVE  /\ attempts[m] <= 1 + Charge(m) => attempts'[m] <= 1 + Charge(m)'
         /\ Paid(m) => Paid(m)'
<1>1. /\ row[m].rc \in Nat /\ crashes \in Nat /\ faults \in Nat
      /\ attempts[m] \in Nat /\ crashes' = crashes
      /\ faults' \in Nat /\ faults' >= faults
      /\ row'[m].rc \in Nat /\ row'[m].rc >= row[m].rc
  BY NumberFacts DEF JInv, Local, Keeps
<1> QED BY <1>1 DEF Charge, Paid

\* A write keeps what the entry says of its sends.
LEMMA WriteFacts ==
  ASSUME JInv, NEW m \in Message, Local(m), Keeps(m), sent' = sent, muted' = muted
  PROVE  /\ kind[m].units = 1 /\ Visible(m) => SentInv(m)'
         /\ kind[m].required => KeptInv(m)'
<1>1. EntryInv(m) /\ kind' = kind
  BY DEF JInv, Local
<1>2. faults \in Nat /\ faults' \in Nat /\ faults' >= faults
      /\ aborted \subseteq aborted'
  BY NumberFacts DEF JInv, Local
<1>3. kind[m].units = 1 /\ Visible(m) => SentInv(m)'
  BY <1>1 DEF EntryInv, SentInv, Keeps
<1>4. kind[m].required => KeptInv(m)'
  BY <1>1, <1>2 DEF EntryInv, KeptInv, Keeps, Complete, PartSent, Units
<1> QED BY <1>3, <1>4

\* A write after which the attempt goes on.
LEMMA WriteAndStay ==
  ASSUME JInv, IInv', NEW w \in Worker, work[w].pc \in AttemptPcs,
         NEW m \in Message, m = work[w].msg, NEW y \in WorkType, Goto(w, y),
         y.pc \in AttemptPcs, y.msg = m,
         Local(m), Keeps(m), UNCHANGED <<sent, muted, attempts>>,
         MarkInv(m, y)', OnceInv(m, y), ProgressInv(m, y)
  PROVE  JInv'
<1>1. Holds(w) /\ work[m].pc \notin {"new", "queued"} /\ EntryInv(m)
  BY OwnEntry
<1>2. work'[w] = y /\ \A v \in Worker : v # w => work'[v] = work[v]
  BY DEF JInv, IInv, TypeOK, Goto
<1>3. kind' = kind
  BY DEF Local
<1>4. OnceInv(m, y)' /\ ProgressInv(m, y)'
  BY <1>3 DEF OnceInv, Visible, ProgressInv, Units, PartSent, Done
<1>5. work'[m].pc \notin {"new", "queued"}
  BY <1>1, <1>2 DEF AttemptPcs, Sending, Worker
<1>6. Plain(m) => PaidInv(m)'
  <2>1. AtWork(w, m)'
    BY <1>2 DEF AtWork
  <2> QED BY <1>1, <2>1, PaidFacts DEF EntryInv, PaidInv
<1>7. EntryInv(m)'
  BY <1>3, <1>5, <1>6, WriteFacts DEF EntryInv, Plain, Visible
<1>8. y.pc # "reconcile"
  BY DEF AttemptPcs, Sending
<1> QED BY <1>1, <1>4, <1>7, <1>8, OwnStep

\* A write with which a worker gives its entry up: it pays for the next
\* attempt, or there is none.
LEMMA HoldAndEnd ==
  ASSUME JInv, IInv', NEW w \in Worker, Holds(w),
         NEW m \in Message, m = work[w].msg, End(w),
         work[m].pc \notin {"new", "queued"},
         Local(m), Keeps(m), UNCHANGED <<sent, muted, attempts>>,
         Plain(m) => Paid(m)' \/ Unsendable(m)'
  PROVE  JInv'
<1>1. Holds(w) /\ work[m].pc \notin {"new", "queued"} /\ EntryInv(m)
  BY DEF JInv
<1>2. PICK y \in WorkType : Goto(w, y) /\ y.pc \in {"over", "loop"}
  <2>1. CASE Live(w)
    <3>1. At("over", w) \in WorkType /\ At("over", w).pc = "over"
      BY <2>1, DeliveryAssumption DEF Live, At, WorkType
    <3> QED BY <2>1, <3>1 DEF End
  <2>2. CASE ~ Live(w)
    <3>1. At("loop", NoMessage) \in WorkType /\ At("loop", NoMessage).pc = "loop"
      BY DeliveryAssumption DEF At, WorkType
    <3> QED BY <2>2, <3>1 DEF End
  <2> QED BY <2>1, <2>2
<1>3. work'[w] = y /\ \A v \in Worker : v # w => work'[v] = work[v]
  BY <1>2 DEF JInv, IInv, TypeOK, Goto
<1>4. kind' = kind
  BY DEF Local
<1>5. work'[m].pc \notin {"new", "queued"}
  BY <1>1, <1>2, <1>3 DEF Worker
<1>6. Plain(m) => PaidInv(m)'
  BY <1>1, PaidFacts DEF EntryInv, PaidInv
<1>7. EntryInv(m)'
  BY <1>4, <1>5, <1>6, WriteFacts DEF EntryInv, Plain, Visible
<1>8. y.pc \notin AttemptPcs
  BY <1>2 DEF AttemptPcs, Sending
<1> QED BY <1>1, <1>2, <1>7, <1>8, OwnStep

LEMMA WriteAndEnd ==
  ASSUME JInv, IInv', NEW w \in Worker, work[w].pc \in AttemptPcs,
         NEW m \in Message, m = work[w].msg, End(w),
         Local(m), Keeps(m), UNCHANGED <<sent, muted, attempts>>,
         Plain(m) => Paid(m)' \/ Unsendable(m)'
  PROVE  JInv'
BY OwnEntry, HoldAndEnd

\* The platform may have accepted a unit, or there was nothing to send.
Delivers(m, u) ==
  /\ \/ sent' = sent
     \/ sent' = Accepted(m, u)
  /\ muted' \in {muted, [muted EXCEPT ![m] = @ \cup {u}]}

\* What a delivery changes.
LEMMA DeliverFacts ==
  ASSUME IInv, NEW m \in Message, NEW u \in 1 .. MaxUnits, Delivers(m, u)
  PROVE  /\ \A n \in Message : n # m => sent'[n] = sent[n] /\ muted'[n] = muted[n]
         /\ \A v \in 1 .. MaxUnits :
              /\ sent[m][v] \in Nat
              /\ sent'[m][v] = sent[m][v] \/ (v = u /\ sent'[m][v] = sent[m][v] + 1)
         /\ sent' = sent => \A v \in 1 .. MaxUnits : sent'[m][v] = sent[m][v]
         /\ sent' = Accepted(m, u) => sent'[m][u] = sent[m][u] + 1
         /\ muted[m] \subseteq muted'[m]
<1>1. sent \in [Message -> [1 .. MaxUnits -> Nat]]
      /\ muted \in [Message -> SUBSET (1 .. MaxUnits)]
  BY DEF IInv, TypeOK
<1>2. sent[m] \in [1 .. MaxUnits -> Nat]
  BY <1>1
<1>3. /\ \A n \in Message : n # m => muted'[n] = muted[n]
      /\ muted[m] \subseteq muted'[m]
  BY <1>1 DEF Delivers
<1>4. sent' = Accepted(m, u) =>
        /\ sent'[m] = [sent[m] EXCEPT ![u] = sent[m][u] + 1]
        /\ \A n \in Message : n # m => sent'[n] = sent[n]
  BY <1>1, Zenon DEF Accepted
<1>5. sent' = Accepted(m, u) =>
        \A v \in 1 .. MaxUnits : sent'[m][v] =
          IF v = u THEN sent[m][u] + 1 ELSE sent[m][v]
  BY <1>2, <1>4
<1>6. \A v \in 1 .. MaxUnits : sent[m][v] \in Nat
  BY <1>2
<1> QED BY <1>3, <1>4, <1>5, <1>6 DEF Delivers

\* What a delivery, or none, leaves behind in an attempt that goes on.
LEMMA DeliverAndStay ==
  ASSUME JInv, IInv', NEW w \in Worker, work[w].pc \in AttemptPcs,
         NEW m \in Message, m = work[w].msg, NEW y \in WorkType, Goto(w, y),
         y.pc \in AttemptPcs, y.msg = m, Local(m),
         UNCHANGED <<row, attempts>>, Delivers(m, work[w].unit),
         sent' = sent \/ work[w].pc = "io",
         MarkInv(m, y)', OnceInv(m, y)', ProgressInv(m, y)'
  PROVE  JInv'
<1> DEFINE x == work[w]
<1>1. /\ Holds(w) /\ x \in WorkType /\ work[m].pc \notin {"new", "queued"}
      /\ EntryInv(m) /\ MarkInv(m, x) /\ OnceInv(m, x)
  BY OwnEntry
<1>2. work'[w] = y /\ \A v \in Worker : v # w => work'[v] = work[v]
  BY DEF JInv, IInv, TypeOK, Goto
<1>3. kind' = kind /\ faults \in Nat /\ faults' \in Nat /\ faults' >= faults
      /\ aborted \subseteq aborted' /\ row[m].rc \in Nat
      /\ kind[m].units \in 1 .. MaxUnits /\ x.unit \in 1 .. MaxUnits
      /\ 1 \in 1 .. MaxUnits
      /\ \A u \in Units(m) : u \in 1 .. MaxUnits
  BY <1>1, NumberFacts DEF JInv, Local, WorkType, Units
<1>4. work'[m].pc \notin {"new", "queued"}
  BY <1>1, <1>2 DEF AttemptPcs, Sending, Worker
<1>5. Keeps(m)
  BY <1>3 DEF Keeps, Evident, Pending
<1>6. Plain(m) => PaidInv(m)'
  <2>1. AtWork(w, m)'
    BY <1>2 DEF AtWork
  <2> QED BY <1>1, <1>5, <2>1, PaidFacts DEF EntryInv, PaidInv
<1>7. /\ \A v \in 1 .. MaxUnits : sent[m][v] \in Nat /\ sent'[m][v] >= sent[m][v]
                                   /\ sent'[m][v] \in Nat
      /\ sent'[m][1] <= sent[m][1] + 1
      /\ sent' = sent => sent'[m][1] = sent[m][1]
      /\ muted[m] \subseteq muted'[m]
  BY <1>3, DeliverFacts DEF JInv
<1>8. kind[m].units = 1 /\ Visible(m) => SentInv(m)'
  <2>1. ASSUME kind[m].units = 1, Visible(m)
        PROVE  sent'[m][1] <= 1 /\ (sent'[m][1] > 0 => Evident(m))
    <3>1. CASE sent' = sent
      BY <1>1, <2>1, <3>1 DEF EntryInv, SentInv
    <3>2. CASE x.pc = "io"
      <4>1. ~ sent[m][1] > 0
        BY <1>1, <2>1, <3>2 DEF OnceInv
      <4>2. Evident(m)
        <5>1. x.pre \in {"marked", "acked"}
          BY <1>1, <3>2 DEF MarkInv, WorkType
        <5> QED BY <1>1, <5>1 DEF MarkInv, Evident
      <4> QED BY <1>3, <1>7, <4>1, <4>2
    <3> QED BY <3>1, <3>2
  <2> QED BY <2>1 DEF SentInv, Evident, Pending
<1>9. kind[m].required => KeptInv(m)'
  <2>1. PartSent(m) => PartSent(m)'
    <3>1. \A v \in 1 .. MaxUnits : sent[m][v] > 0 => sent'[m][v] > 0
      BY <1>7
    <3> QED BY <1>3, <3>1 DEF PartSent, Units
  <2>2. Complete(m) => Complete(m)'
    <3>1. \A v \in 1 .. MaxUnits : sent[m][v] > 0 => sent'[m][v] > 0
      BY <1>7
    <3> QED BY <1>3, <1>7, <3>1 DEF Complete, Units
  <2> QED BY <1>1, <1>3, <2>1, <2>2 DEF EntryInv, KeptInv
<1>10. EntryInv(m)'
  BY <1>3, <1>4, <1>6, <1>8, <1>9 DEF EntryInv, Plain, Visible
<1>11. y.pc # "reconcile"
  BY DEF AttemptPcs, Sending
<1> QED BY <1>1, <1>10, <1>11, OwnStep

\* Where Advance leads.
LEMMA AdvanceMore ==
  ASSUME IInv, NEW x \in WorkType, x.msg \in Message, x.unit \in Units(x.msg)
  PROVE  /\ Advance(x).bad = x.bad /\ Advance(x).proven = x.proven
         /\ Advance(x).err = x.err
         /\ Advance(x).pc = "unit" => Advance(x).unit = x.unit + 1
         /\ Advance(x).pc = "finish" => x.unit = kind[x.msg].units
         /\ Advance(x).unit \in Units(x.msg)
<1>1. kind[x.msg].units \in Nat /\ x.unit \in Nat /\ x.unit <= kind[x.msg].units
  BY NumberFacts, DeliveryAssumption DEF Units
<1>2. CASE x.unit < kind[x.msg].units
  <2>1. Advance(x) = [[x EXCEPT !.unit = x.unit + 1] EXCEPT !.pc = "unit"]
    BY <1>2, Zenon DEF Advance, WorkType
  <2> DEFINE u == x.unit + 1
  <2>2. u \in Units(x.msg)
    BY <1>1, <1>2 DEF Units
  <2> HIDE DEF u
  <2>3. Advance(x) = [[x EXCEPT !.unit = u] EXCEPT !.pc = "unit"]
    BY <2>1 DEF u
  <2>4. /\ Advance(x).bad = x.bad /\ Advance(x).proven = x.proven
        /\ Advance(x).err = x.err /\ Advance(x).pc = "unit"
        /\ Advance(x).unit = u
    BY <2>3 DEF WorkType
  <2> QED BY <2>2, <2>4 DEF u
<1>3. CASE ~ x.unit < kind[x.msg].units
  BY <1>1, <1>3 DEF Advance, WorkType
<1> QED BY <1>2, <1>3

\* Where Break leads.
LEMMA BreakMore ==
  ASSUME IInv, NEW x \in WorkType, x.msg \in Message, x.unit \in Units(x.msg),
         NEW err \in {"proven", "other", "permanent", "abort"}
  PROVE  /\ Break(x, err).unit \in Units(x.msg)
         /\ Break(x, err).pc # "caught" =>
              Break(x, err).bad /\ (err # "proven" => ~ Break(x, err).proven)
         /\ Break(x, err).pc = "caught" => Break(x, err).err = err
<1> DEFINE y == [x EXCEPT !.bad = TRUE, !.proven = @ /\ err = "proven"]
<1>1. y \in WorkType /\ y.msg = x.msg /\ y.unit = x.unit /\ y.bad
      /\ (err # "proven" => ~ y.proven)
  BY Zenon DEF WorkType
<1>2. CASE kind[x.msg].keepGoing
  <2>1. Break(x, err) = Advance(y)
    BY <1>2 DEF Break
  <2> HIDE DEF y
  <2>2. Advance(y).pc \in {"unit", "finish"}
    BY <1>1, AdvanceFacts DEF IInv
  <2> QED BY <1>1, <2>1, <2>2, AdvanceMore
<1>3. CASE ~ kind[x.msg].keepGoing
  BY <1>3 DEF Break, WorkType
<1> QED BY <1>2, <1>3

\* The marks of an attempt stay true while the row stays.
LEMMA MarksStay ==
  ASSUME JInv, NEW m \in Message, Local(m), row' = row, attempts' = attempts,
         NEW x \in WorkType, x.pc \in Sending, MarkInv(m, x),
         NEW y \in WorkType, y.pre = x.pre, y.post = x.post, y.got = x.got,
         y.pc \in {"unit", "finish", "caught"}
  PROVE  MarkInv(m, y)'
<1>1. Paid(m) => Paid(m)'
  <2>1. Keeps(m)
    BY NumberFacts DEF JInv, Keeps, Evident, Pending
  <2> QED BY <2>1, PaidFacts
<1>2. kind' = kind
  BY DEF Local
<1> QED BY <1>1, <1>2 DEF MarkInv, Evident, Pending, Plain, Sending

\* A unit that has nothing to send is done.
LEMMA SkipUnit ==
  ASSUME JInv, IInv', NEW w \in Worker, work[w].pc \in {"unit", "io"},
         NEW m \in Message, m = work[w].msg, Goto(w, Advance(work[w])),
         Local(m), UNCHANGED <<row, attempts, sent>>,
         muted' = [muted EXCEPT ![m] = @ \cup {work[w].unit}]
  PROVE  JInv'
<1> PICK x : x = work[w]
  OBVIOUS
<1>1. x.pc \in AttemptPcs /\ x.pc \in Sending
  BY DEF AttemptPcs, Sending
<1>2. /\ x \in WorkType /\ MarkInv(m, x) /\ OnceInv(m, x) /\ ProgressInv(m, x)
  BY <1>1, OwnEntry
<1>3. x.unit \in Units(m) /\ x.unit \in 1 .. MaxUnits
  BY <1>2, NumberFacts DEF JInv, ProgressInv
<1> PICK y : y = Advance(x)
  OBVIOUS
<1>4. /\ y \in WorkType /\ y.msg = m /\ y.got = x.got /\ y.pre = x.pre
      /\ y.post = x.post /\ y.pc \in {"unit", "finish"} /\ y.bad = x.bad
      /\ y.pc = "unit" => y.unit = x.unit + 1
      /\ y.pc = "finish" => x.unit = kind[m].units
      /\ y.unit \in Units(m)
      /\ kind[m].units = 1 => y.pc = "finish"
  BY <1>2, <1>3, AdvanceFacts, AdvanceMore DEF JInv, IInv
<1>5. Goto(w, y) /\ y.pc \in AttemptPcs
  BY <1>4 DEF AttemptPcs, Sending
<1>6. MarkInv(m, y)'
  BY <1>1, <1>2, <1>4, MarksStay
<1>7. kind' = kind
  BY DEF Local
<1>8. OnceInv(m, y)'
  BY <1>2, <1>7 DEF OnceInv, Visible
<1>9. ProgressInv(m, y)'
  <2>1. muted'[m] = muted[m] \cup {x.unit}
    BY DEF JInv, IInv, TypeOK
  <2>2. \A u \in Units(m) : u \in Nat /\ u <= kind[m].units
    BY NumberFacts, DeliveryAssumption DEF JInv, Units
  <2>3. \A u \in Units(m) : Done(m, u) => Done(m, u)'
    BY <2>1 DEF Done
  <2>4. Done(m, x.unit)'
    BY <2>1 DEF Done
  <2>5. ~ x.bad => \A u \in Units(m) : u < x.unit => Done(m, u)'
    BY <1>1, <1>2, <2>3 DEF ProgressInv
  <2>6. ~ y.bad =>
          \A u \in Units(m) : u < y.unit \/ y.pc = "finish" => Done(m, u)'
    <3>1. \A u \in Units(m) :
            u < y.unit \/ y.pc = "finish" => u < x.unit \/ u = x.unit
      BY <1>3, <1>4, <2>2
    <3> QED BY <1>4, <2>4, <2>5, <3>1
  <2>7. y.got => PartSent(m)'
    BY <1>2, <1>4, <1>7 DEF ProgressInv, PartSent, Units
  <2> QED BY <1>4, <1>7, <2>6, <2>7 DEF ProgressInv, Units
<1>10. Delivers(m, x.unit)
  BY DEF Delivers
<1> QED BY <1>1, <1>4, <1>5, <1>6, <1>8, <1>9, <1>10, DeliverAndStay

\* A unit that fails ends the batch, or leaves a gap in it.
LEMMA BreakUnit ==
  ASSUME JInv, IInv', NEW w \in Worker, work[w].pc \in {"unit", "dispatch", "io"},
         NEW m \in Message, m = work[w].msg,
         NEW err \in {"proven", "other", "permanent", "abort"},
         Goto(w, Break(work[w], err)),
         Local(m), UNCHANGED <<row, attempts>>,
         muted' \in {muted, [muted EXCEPT ![m] = @ \cup {work[w].unit}]},
         \/ sent' = sent
         \/ /\ work[w].pc = "io" /\ err # "proven"
            /\ sent' = Accepted(m, work[w].unit)
  PROVE  JInv'
<1> PICK x : x = work[w]
  OBVIOUS
<1>1. x.pc \in AttemptPcs /\ x.pc \in Sending
  BY DEF AttemptPcs, Sending
<1>2. /\ x \in WorkType /\ MarkInv(m, x) /\ OnceInv(m, x) /\ ProgressInv(m, x)
  BY <1>1, OwnEntry
<1>3. x.unit \in Units(m) /\ x.unit \in 1 .. MaxUnits
  BY <1>2, NumberFacts DEF JInv, ProgressInv
<1> PICK y : y = Break(x, err)
  OBVIOUS
<1>4. /\ y \in WorkType /\ y.msg = m /\ y.got = x.got /\ y.pre = x.pre
      /\ y.post = x.post /\ y.pc \in {"unit", "finish", "caught"}
      /\ y.unit \in Units(m)
      /\ y.pc # "caught" => y.bad /\ (err # "proven" => ~ y.proven)
      /\ y.pc = "caught" => y.err = err
      /\ kind[m].units = 1 => y.pc # "unit"
  BY <1>2, <1>3, BreakFacts, BreakMore DEF JInv, IInv
<1>5. Goto(w, y) /\ y.pc \in AttemptPcs
  BY <1>4 DEF AttemptPcs, Sending
<1>6. MarkInv(m, y)'
  BY <1>1, <1>2, <1>4, MarksStay
<1>7. kind' = kind
  BY DEF Local
<1>8. OnceInv(m, y)'
  <2>1. kind[m].units = 1 /\ Visible(m) => ~ sent[m][1] > 0
    BY <1>2 DEF OnceInv
  <2>2. CASE sent' = sent
    BY <1>7, <2>1, <2>2 DEF OnceInv, Visible
  <2>3. CASE err # "proven"
    BY <1>4, <1>7, <2>3 DEF OnceInv, Visible
  <2> QED BY <2>2, <2>3
<1>9. Delivers(m, x.unit)
  BY DEF Delivers
<1>10. ProgressInv(m, y)'
  <2>1. \A v \in 1 .. MaxUnits : sent[m][v] > 0 => sent'[m][v] > 0
    <3>1. \A v \in 1 .. MaxUnits :
            /\ sent[m][v] \in Nat
            /\ sent'[m][v] = sent[m][v] \/ sent'[m][v] = sent[m][v] + 1
      BY <1>3, <1>9, DeliverFacts DEF JInv
    <3> QED BY <3>1
  <2>2. PartSent(m) => PartSent(m)'
    BY <1>7, <2>1, NumberFacts DEF JInv, PartSent, Units
  <2> QED BY <1>2, <1>4, <1>7, <2>2 DEF ProgressInv, Units
<1> QED BY <1>1, <1>4, <1>5, <1>6, <1>8, <1>9, <1>10, DeliverAndStay

\* A step that writes nothing.
LEMMA QuietStep ==
  ASSUME IInv, NEW m \in Message, UNCHANGED <<row, kind, attempts, crashes, faults>>,
         aborted' = aborted,
         \A n \in Message \ {m} : sent'[n] = sent[n] /\ muted'[n] = muted[n]
  PROVE  Local(m)
BY NumberFacts DEF Local

LEMMA SuppressKeepsJ ==
  ASSUME JInv, IInv', NEW w \in Worker, Suppress(w)
  PROVE  JInv'
<1>1. work[w].pc = "unit" /\ work[w].pc \in AttemptPcs
  BY DEF Suppress, AttemptPcs, Sending
<1> PICK m \in Message : m = work[w].msg
  BY <1>1, UnitFacts DEF JInv
<1>2. Local(m)
  BY QuietStep DEF JInv, IInv, TypeOK, Suppress
<1> QED BY <1>1, <1>2, SkipUnit DEF Suppress

LEMMA AbortKeepsJ ==
  ASSUME JInv, IInv', NEW w \in Message, Abort(w)
  PROVE  JInv'
<1>1. work[w].pc = "unit" /\ work[w].pc \in AttemptPcs /\ w \in Worker
  BY DEF Abort, AttemptPcs, Sending, Worker
<1> PICK m \in Message : m = work[w].msg
  BY <1>1, UnitFacts DEF JInv
<1>2. Local(m)
  BY QuietStep DEF JInv, Abort, history
<1> QED BY <1>1, <1>2, BreakUnit DEF Abort, history

LEMMA PlatformSendsNothingKeepsJ ==
  ASSUME JInv, IInv', NEW w \in Worker, PlatformSendsNothing(w)
  PROVE  JInv'
<1>1. work[w].pc = "io" /\ work[w].pc \in AttemptPcs
  BY DEF PlatformSendsNothing, AttemptPcs, Sending
<1> PICK m \in Message : m = work[w].msg
  BY <1>1, UnitFacts DEF JInv
<1>2. Local(m)
  BY QuietStep DEF JInv, IInv, TypeOK, PlatformSendsNothing
<1>3. Goto(w, Advance(work[w])) \/ Goto(w, Break(work[w], "other"))
  BY DEF PlatformSendsNothing, AfterSend
<1>4. /\ UNCHANGED <<row, attempts, sent>>
      /\ muted' = [muted EXCEPT ![m] = @ \cup {work[w].unit}]
  BY DEF PlatformSendsNothing
<1>5. CASE Goto(w, Advance(work[w]))
  BY <1>1, <1>2, <1>4, <1>5, SkipUnit
<1>6. CASE Goto(w, Break(work[w], "other"))
  BY <1>1, <1>2, <1>4, <1>6, BreakUnit
<1> QED BY <1>3, <1>5, <1>6

LEMMA PlatformFailsKeepsJ ==
  ASSUME JInv, IInv', NEW w \in Worker, PlatformFails(w)
  PROVE  JInv'
<1>1. work[w].pc = "io" /\ work[w].pc \in AttemptPcs
  BY DEF PlatformFails, AttemptPcs, Sending
<1> PICK m \in Message : m = work[w].msg
  BY <1>1, UnitFacts DEF JInv
<1>2. PICK err \in {"proven", "other", "permanent", "abort"} :
        /\ Goto(w, Break(work[w], err))
        /\ sent' = sent \/ (err # "proven" /\ sent' = Accepted(m, work[w].unit))
  BY DEF PlatformFails
<1>3. Local(m)
  BY <1>2, QuietStep DEF JInv, IInv, TypeOK, PlatformFails, Accepted
<1> QED BY <1>1, <1>2, <1>3, BreakUnit DEF PlatformFails

LEMMA PlatformAcceptsKeepsJ ==
  ASSUME JInv, IInv', NEW w \in Worker, PlatformAccepts(w)
  PROVE  JInv'
<1> PICK x : x = work[w]
  OBVIOUS
<1>1. x.pc = "io" /\ x.pc \in AttemptPcs
  BY DEF PlatformAccepts, AttemptPcs, Sending
<1> PICK m \in Message : m = work[w].msg
  BY <1>1, UnitFacts DEF JInv
<1>2. /\ x \in WorkType /\ MarkInv(m, x) /\ OnceInv(m, x) /\ ProgressInv(m, x)
  BY <1>1, OwnEntry
<1>3. x.unit \in Units(m) /\ x.unit \in 1 .. MaxUnits
  BY <1>2, NumberFacts DEF JInv, ProgressInv
<1> PICK y : y = [x EXCEPT !.pc = "result"]
  OBVIOUS
<1>4. /\ y \in WorkType /\ y.msg = m /\ y.got = x.got /\ y.pre = x.pre
      /\ y.post = x.post /\ y.pc = "result" /\ y.bad = x.bad /\ y.unit = x.unit
  BY <1>2 DEF WorkType
<1>5. Goto(w, y) /\ y.pc \in AttemptPcs
  BY <1>4 DEF AttemptPcs, Sending, PlatformAccepts
<1>6. Delivers(m, x.unit) /\ sent' = Accepted(m, x.unit)
  BY DEF PlatformAccepts, Delivers
<1>7. Local(m)
  BY QuietStep DEF JInv, IInv, TypeOK, PlatformAccepts, Accepted
<1>8. UNCHANGED <<row, kind, attempts, muted, faults, crashes>>
  BY DEF PlatformAccepts
<1>9. MarkInv(m, y)'
  BY <1>1, <1>2, <1>4, <1>8
     DEF MarkInv, Evident, Pending, Plain, Sending, Paid, Charge
<1>10. OnceInv(m, y)'
  BY <1>4 DEF OnceInv
<1>11. /\ \A v \in 1 .. MaxUnits : sent[m][v] > 0 => sent'[m][v] > 0
       /\ sent'[m][x.unit] > 0
  <2>1. \A v \in 1 .. MaxUnits :
          /\ sent[m][v] \in Nat
          /\ sent'[m][v] = sent[m][v] \/ sent'[m][v] = sent[m][v] + 1
    BY <1>3, <1>6, DeliverFacts DEF JInv
  <2>2. sent'[m][x.unit] = sent[m][x.unit] + 1
    BY <1>3, <1>6, DeliverFacts DEF JInv
  <2> QED BY <1>3, <2>1, <2>2
<1>12. \A u \in Units(m) : u \in 1 .. MaxUnits
  BY NumberFacts DEF JInv
<1>13. ProgressInv(m, y)'
  BY <1>1, <1>2, <1>4, <1>8, <1>11, <1>12 DEF ProgressInv, PartSent, Units, Done
<1> QED BY <1>1, <1>4, <1>5, <1>6, <1>7, <1>8, <1>9, <1>10, <1>13, DeliverAndStay

-----------------------------------------------------------------------------
(* Steps that write. *)

\* What the updates do to the status and the count of a row.
LEMMA UpdateFacts ==
  ASSUME NEW r \in RowType
  PROVE  /\ Started(r).st = r.st /\ Started(r).rs # "none" /\ Started(r).rc = r.rc
         /\ Unknown(r).st = r.st /\ Unknown(r).rs = "unknown" /\ Unknown(r).rc = r.rc
         /\ Gone(r).st # "pending" /\ Gone(r).rs = r.rs /\ Gone(r).rc = r.rc
         /\ Gone(r).st = "gone" => r.st \in {"pending", "gone"}
         /\ Dead(r).st = "failed" /\ Dead(r).rs = r.rs /\ Dead(r).rc = r.rc
         /\ Failed(r).st = r.st /\ Failed(r).rs = r.rs /\ Failed(r).rc = r.rc + 1
         /\ FailedUnsent(r).st = r.st /\ FailedUnsent(r).rc = r.rc + 1
         /\ FailedAfterSend(r).st = r.st /\ FailedAfterSend(r).rs = "unknown"
         /\ FailedAfterSend(r).rc = r.rc + 1
<1>1. /\ Started(r).st = r.st /\ Started(r).rs # "none" /\ Started(r).rc = r.rc
      /\ Unknown(r).st = r.st /\ Unknown(r).rs = "unknown" /\ Unknown(r).rc = r.rc
      /\ Gone(r).st # "pending" /\ Gone(r).rs = r.rs /\ Gone(r).rc = r.rc
      /\ Gone(r).st = "gone" => r.st \in {"pending", "gone"}
      /\ Dead(r).st = "failed" /\ Dead(r).rs = r.rs /\ Dead(r).rc = r.rc
  BY DEF RowType, Started, Unknown, Gone, Dead
<1>2. /\ Failed(r).st = r.st /\ Failed(r).rs = r.rs /\ Failed(r).rc = r.rc + 1
  BY DEF RowType, Failed
<1>3. /\ FailedUnsent(r).st = r.st /\ FailedUnsent(r).rc = r.rc + 1
      /\ FailedAfterSend(r).st = r.st /\ FailedAfterSend(r).rs = "unknown"
      /\ FailedAfterSend(r).rc = r.rc + 1
  BY DEF RowType, Failed, FailedUnsent, FailedAfterSend, Unknown
<1> QED BY <1>1, <1>2, <1>3

\* A write concerns one entry and may cost faults.
LEMMA PutMore ==
  ASSUME IInv, NEW m \in Message, NEW r, NEW cost \in Nat, Put(m, r, cost),
         UNCHANGED <<kind, sent, muted, attempts, crashes>>,
         aborted \subseteq aborted'
  PROVE  Local(m) /\ row'[m] = r /\ faults' = faults + cost
<1>1. faults \in Nat /\ faults' = faults + cost
  BY NumberFacts DEF Put
<1>2. row'[m] = r /\ \A n \in Message : n # m => row'[n] = row[n]
  BY DEF Put, IInv, TypeOK
<1> QED BY <1>1, <1>2 DEF Local

\* An unchanged row keeps everything.
LEMMA SameKeeps ==
  ASSUME IInv, NEW m \in Message, row'[m] = row[m]
  PROVE  Keeps(m)
BY NumberFacts DEF Keeps, Evident, Pending

\* The outcomes of the mark before a send.
LEMMA PreSendMore ==
  ASSUME IInv, NEW m \in Message, NEW o \in PreSend(m)
  PROVE  /\ o.pre = "marked" => Pending(m) /\ o.row = Started(row[m])
         /\ o.pre = "acked" => ~ kind[m].required /\ o.row = Gone(row[m])
BY DEF PreSend

Marked(x, pc, pre, post) == [x EXCEPT !.pc = pc, !.pre = pre, !.post = post]

\* An attempt that has its mark.
LEMMA MarkedAttempt ==
  ASSUME NEW x \in WorkType, NEW pc \in {"dispatch", "io"},
         NEW pre \in {"no", "marked", "acked"},
         NEW post \in {"no", "marked", "acked", "failed"}
  PROVE  LET y == Marked(x, pc, pre, post)
         IN /\ y \in WorkType /\ y.msg = x.msg /\ y.got = x.got /\ y.pre = pre
            /\ y.post = post /\ y.pc = pc /\ y.bad = x.bad /\ y.unit = x.unit
BY DEF WorkType, Marked

LEMMA SendStartKeepsJ ==
  ASSUME JInv, IInv', NEW w \in Worker, SendStart(w)
  PROVE  JInv'
<1> PICK x : x = work[w]
  OBVIOUS
<1>1. x.pc = "unit" /\ x.pc \in AttemptPcs /\ x.pc \in Sending
  BY DEF SendStart, AttemptPcs, Sending
<1> PICK m \in Message : m = work[w].msg
  BY <1>1, UnitFacts DEF JInv
<1>2. /\ x \in WorkType /\ MarkInv(m, x) /\ OnceInv(m, x) /\ ProgressInv(m, x)
  BY <1>1, OwnEntry
<1>3. /\ row[m] \in RowType
      /\ x.got /\ ~ kind[m].exact => x.pre # "no"
      /\ kind[m].exact => kind[m].hooked
  BY <1>1, UnitFacts DEF JInv
<1>4. UNCHANGED <<kind, claims, todo, sent, muted, aborted, reported, attempts,
                  crashes>>
  BY DEF SendStart, history
<1> PICK sends : sends = IF kind[m].hooked THEN "dispatch" ELSE "io"
  OBVIOUS
<1>5. CASE kind[m].exact \/ x.pre # "no"
  <2> PICK y : y = [x EXCEPT !.pc = sends]
    OBVIOUS
  <2>1. Goto(w, y) /\ row' = row /\ faults' = faults
    BY <1>5, Zenon DEF SendStart
  <2>2. y \in WorkType /\ y.msg = m /\ y.got = x.got /\ y.pre = x.pre
        /\ y.post = x.post /\ y.pc = sends /\ y.bad = x.bad /\ y.unit = x.unit
    BY <1>2 DEF WorkType
  <2>3. y.pc \in AttemptPcs
    BY <2>2 DEF AttemptPcs, Sending
  <2>4. Local(m) /\ Keeps(m)
    BY <1>4, <2>1, QuietStep, SameKeeps DEF JInv
  <2>5. MarkInv(m, y)'
    BY <1>1, <1>2, <1>3, <1>4, <1>5, <2>1, <2>2
       DEF MarkInv, Evident, Pending, Plain, Sending, Paid, Charge
  <2>6. OnceInv(m, y) /\ ProgressInv(m, y)
    BY <1>1, <1>2, <2>2 DEF OnceInv, ProgressInv
  <2> QED BY <1>1, <1>4, <2>1, <2>2, <2>3, <2>4, <2>5, <2>6, WriteAndStay
<1>6. CASE ~ (kind[m].exact \/ x.pre # "no")
  <2>1. PICK o \in PreSend(m) :
          /\ Put(m, o.row, o.cost)
          /\ Goto(w, IF o.pre = "no" THEN Break(x, "other")
                     ELSE [x EXCEPT
                             !.pc = sends, !.pre = o.pre,
                             !.post = IF Live(w) /\ o.pre = "acked"
                                        THEN "acked" ELSE @])
    BY <1>6 DEF SendStart
  <2>2. /\ o.row \in RowType /\ o.cost \in Nat
        /\ o.pre \in {"no", "marked", "acked"}
        /\ o.pre = "no" => o.row = row[m]
    BY PreSendFacts DEF JInv, IInv
  <2>3. /\ o.pre = "marked" => Pending(m) /\ o.row = Started(row[m])
        /\ o.pre = "acked" => ~ kind[m].required /\ o.row = Gone(row[m])
    BY PreSendMore DEF JInv
  <2>4. Local(m) /\ row'[m] = o.row
    BY <1>4, <2>1, <2>2, PutMore DEF JInv
  <2>5. CASE o.pre = "no"
    <3>1. row' = row
      BY <2>1, <2>2, <2>5, FailedWrite DEF JInv, IInv
    <3>2. Goto(w, Break(work[w], "other"))
      BY <2>1, <2>5
    <3> QED BY <1>1, <1>4, <2>4, <3>1, <3>2, BreakUnit
  <2>6. CASE o.pre # "no"
    <3> PICK p : p = IF Live(w) /\ o.pre = "acked" THEN "acked" ELSE x.post
      OBVIOUS
    <3> PICK y : y = Marked(x, sends, o.pre, p)
      OBVIOUS
    <3>1. Goto(w, y)
      BY <2>1, <2>6, Zenon DEF Marked
    <3>2. y \in WorkType /\ y.msg = m /\ y.got = x.got /\ y.pre = o.pre
          /\ y.post = p /\ y.pc = sends /\ y.bad = x.bad /\ y.unit = x.unit
      <4>1. sends \in {"dispatch", "io"}
        OBVIOUS
      <4>2. p \in {"no", "marked", "acked", "failed"}
        BY <1>2 DEF WorkType
      <4> QED BY <1>2, <2>2, <4>1, <4>2, MarkedAttempt
    <3>3. y.pc \in AttemptPcs
      BY <3>2 DEF AttemptPcs, Sending
    <3>4. ~ x.got
      BY <1>3, <1>6
    <3>5. /\ row'[m].rc = row[m].rc
          /\ row'[m].rs # "none" \/ row'[m].st # "pending"
          /\ o.pre = "acked" \/ ~ Pending(m) => row'[m].st # "pending"
          /\ row'[m].st = "gone" => row[m].st = "gone" \/ ~ kind[m].required
      BY <1>3, <2>2, <2>3, <2>4, <2>6, UpdateFacts DEF Pending
    <3>6. Keeps(m)
      BY <3>5, NumberFacts DEF JInv, Keeps, Evident, Pending
    <3>7. Paid(m) => Paid(m)'
      BY <1>4, <2>4, <3>6, PaidFacts
    <3>8. MarkInv(m, y)'
      BY <1>1, <1>2, <1>4, <2>2, <2>3, <2>6, <3>2, <3>4, <3>5, <3>7
         DEF MarkInv, Evident, Pending, Plain
    <3>9. OnceInv(m, y) /\ ProgressInv(m, y)
      BY <1>1, <1>2, <3>2 DEF OnceInv, ProgressInv
    <3> QED BY <1>1, <1>4, <2>4, <3>1, <3>2, <3>3, <3>6, <3>8, <3>9, WriteAndStay
  <2> QED BY <2>5, <2>6
<1> QED BY <1>5, <1>6

LEMMA DispatchKeepsJ ==
  ASSUME JInv, IInv', NEW w \in Worker, Dispatch(w)
  PROVE  JInv'
<1> PICK x : x = work[w]
  OBVIOUS
<1>1. x.pc = "dispatch" /\ x.pc \in AttemptPcs /\ x.pc \in Sending
  BY DEF Dispatch, AttemptPcs, Sending
<1> PICK m \in Message : m = work[w].msg
  BY <1>1, UnitFacts DEF JInv
<1>2. /\ x \in WorkType /\ MarkInv(m, x) /\ OnceInv(m, x) /\ ProgressInv(m, x)
  BY <1>1, OwnEntry
<1>3. /\ row[m] \in RowType
      /\ ~ kind[m].exact => x.pre # "no"
      /\ kind[m].hooked
  BY <1>1, UnitFacts DEF JInv
<1>4. UNCHANGED <<kind, claims, todo, sent, muted, aborted, reported, attempts,
                  crashes>>
  BY DEF Dispatch, history
<1>5. Fault(m) \in Nat
  BY DEF Fault
<1> PICK z : z = [x EXCEPT !.pc = "io"]
  OBVIOUS
<1> PICK p : p = IF x.pre = "no" THEN "marked" ELSE x.pre
  OBVIOUS
<1> PICK y : y = Marked(x, "io", p, x.post)
  OBVIOUS
<1>6. z \in WorkType /\ z.msg = m /\ z.got = x.got /\ z.pre = x.pre
      /\ z.post = x.post /\ z.pc = "io" /\ z.bad = x.bad /\ z.unit = x.unit
  BY <1>2 DEF WorkType
<1>7. /\ y \in WorkType /\ y.msg = m /\ y.got = x.got /\ y.pre = p
      /\ y.post = x.post /\ y.pc = "io" /\ y.bad = x.bad /\ y.unit = x.unit
      /\ y = [x EXCEPT !.pc = "io", !.pre = IF @ = "no" THEN "marked" ELSE @]
  <2>1. p \in {"no", "marked", "acked"} /\ x.post \in {"no", "marked", "acked", "failed"}
    BY <1>2 DEF WorkType
  <2>2. y = [x EXCEPT !.pc = "io", !.pre = IF @ = "no" THEN "marked" ELSE @]
    BY <1>2 DEF Marked, WorkType
  <2> QED BY <1>2, <2>1, <2>2, MarkedAttempt
<1>8. "io" \in AttemptPcs /\ "io" \in Sending
  BY DEF AttemptPcs, Sending
<1>9. ASSUME row' = row, Local(m), Goto(w, z), x.pre # "no"
      PROVE  JInv'
  <2>1. Keeps(m)
    BY <1>9, SameKeeps DEF JInv
  <2>2. Paid(m) => Paid(m)'
    BY <1>4, <1>9, <2>1, PaidFacts
  <2>3. MarkInv(m, z)'
    BY <1>1, <1>2, <1>4, <1>6, <1>8, <1>9, <2>2 DEF MarkInv, Evident, Pending, Plain
  <2>4. OnceInv(m, z) /\ ProgressInv(m, z)
    BY <1>1, <1>2, <1>6 DEF OnceInv, ProgressInv
  <2> QED BY <1>1, <1>4, <1>6, <1>8, <1>9, <2>1, <2>3, <2>4, WriteAndStay
<1>10. CASE x.pre = "acked" /\ Goto(w, z) /\ UNCHANGED <<row, faults>>
  <2>1. Local(m)
    BY <1>4, <1>10, QuietStep DEF JInv
  <2> QED BY <1>9, <1>10, <2>1
<1>11. CASE x.pre # "acked" /\ Pending(m) /\ Put(m, Started(row[m]), 0) /\ Goto(w, y)
  <2>1. Local(m) /\ row'[m] = Started(row[m])
    BY <1>4, <1>11, PutMore DEF JInv
  <2>2. row'[m].st = row[m].st /\ row'[m].rs # "none" /\ row'[m].rc = row[m].rc
    BY <1>3, <2>1, UpdateFacts
  <2>3. Keeps(m)
    BY <2>2, NumberFacts DEF JInv, Keeps, Evident, Pending
  <2>4. Paid(m) => Paid(m)'
    BY <1>4, <2>1, <2>3, PaidFacts
  <2>5. x.post # "acked" /\ p = "marked"
    BY <1>2, <1>11 DEF MarkInv, WorkType
  <2>6. Plain(m) => ~ x.got /\ x.post # "marked"
    BY <1>1, <1>2, <1>3 DEF MarkInv
  <2>7. MarkInv(m, y)'
    BY <1>2, <1>4, <1>7, <2>2, <2>4, <2>5, <2>6 DEF MarkInv, Evident, Pending, Plain
  <2>8. OnceInv(m, y) /\ ProgressInv(m, y)
    BY <1>1, <1>2, <1>7 DEF OnceInv, ProgressInv
  <2> QED BY <1>1, <1>4, <1>7, <1>8, <1>11, <2>1, <2>3, <2>7, <2>8, WriteAndStay
<1>12. CASE /\ Put(m, row[m], Fault(m))
            /\ Goto(w, IF kind[m].exact THEN Break(x, "other") ELSE z)
  <2>1. Local(m) /\ row' = row
    BY <1>4, <1>5, <1>12, PutMore, FailedWrite DEF JInv, IInv
  <2>2. CASE kind[m].exact
    BY <1>1, <1>4, <1>12, <2>1, <2>2, BreakUnit
  <2>3. CASE ~ kind[m].exact
    BY <1>3, <1>9, <1>12, <2>1, <2>3
  <2> QED BY <2>2, <2>3
<1>13. \/ x.pre = "acked" /\ Goto(w, z) /\ UNCHANGED <<row, faults>>
       \/ x.pre # "acked" /\ Pending(m) /\ Put(m, Started(row[m]), 0) /\ Goto(w, y)
       \/ /\ Put(m, row[m], Fault(m))
          /\ Goto(w, IF kind[m].exact THEN Break(x, "other") ELSE z)
  BY <1>7, Zenon DEF Dispatch
<1> QED BY <1>10, <1>11, <1>12, <1>13

\* The outcomes of the mark after a send.
LEMMA PostSendMore ==
  ASSUME JInv, NEW m \in Message, NEW o \in PostSend(m), row[m].rc < MaxRetries,
         Put(m, o.row, o.cost), UNCHANGED <<kind, sent, muted, attempts, crashes>>,
         aborted' = aborted,
         kind[m].required => PartSent(m) \/ Complete(m)
  PROVE  /\ Local(m) /\ Keeps(m) /\ row'[m] = o.row
         /\ o.post \in {"no", "marked", "acked", "failed"}
         /\ ~ Pending(m) => ~ Pending(m)'
         /\ Evident(m) => Evident(m)'
         /\ o.post = "marked" => row'[m].rs = "unknown"
         /\ o.post = "acked" => ~ Pending(m)'
         /\ Plain(m) /\ o.post \in {"no", "failed"} => Paid(m)'
<1>1. row[m] \in RowType /\ row[m].rc \in Nat /\ faults \in Nat /\ crashes \in Nat
      /\ attempts[m] \in Nat
  BY NumberFacts DEF JInv
<1>2. o.cost \in Nat /\ o.post \in {"no", "marked", "acked", "failed"}
  BY PostSendFacts DEF JInv, IInv
<1>3. /\ o.post = "marked" => Pending(m) /\ o.row = Unknown(row[m])
      /\ o.post = "failed" => Pending(m) /\ o.row = FailedAfterSend(row[m])
      /\ o.post = "acked" => o.row = Gone(row[m]) /\ o.cost = Fault(m)
      /\ o.post = "no" => o.row = row[m] /\ o.cost = 1 + 2 * Fault(m)
  BY DEF PostSend
<1>4. Local(m) /\ row'[m] = o.row /\ faults' = faults + o.cost
  BY <1>2, PutMore DEF JInv
<1>5. /\ o.post = "marked" =>
           Pending(m) /\ row'[m].st = row[m].st /\ row'[m].rs = "unknown"
           /\ row'[m].rc = row[m].rc
      /\ o.post = "failed" =>
           Pending(m) /\ row'[m].st = row[m].st /\ row'[m].rs = "unknown"
           /\ row'[m].rc = row[m].rc + 1
      /\ o.post = "acked" =>
           /\ row'[m].st # "pending" /\ row'[m].rc = row[m].rc
           /\ row'[m].st = "gone" => row[m].st \in {"pending", "gone"}
      /\ o.post = "no" => row'[m] = row[m]
  BY <1>1, <1>3, <1>4, UpdateFacts
<1>6. row'[m].rc \in {row[m].rc, row[m].rc + 1}
  BY <1>2, <1>5
<1>7. row'[m].rc \in Nat /\ row'[m].rc >= row[m].rc
  BY <1>1, <1>6
<1>8. o.post = "acked" /\ Pending(m) => faults' > 0
  BY <1>1, <1>3, <1>4 DEF Fault
<1>9. CASE o.post = "acked"
  <2>1. row'[m].st # "pending" /\ (row'[m].st = "gone" => row[m].st \in {"pending", "gone"})
    BY <1>5, <1>9
  <2>2. Keeps(m)
    BY <1>7, <1>8, <1>9, <2>1 DEF Keeps, Evident, Pending
  <2> QED BY <1>2, <1>4, <1>9, <2>1, <2>2 DEF Evident, Pending
<1>10. CASE o.post = "marked"
  <2>1. row'[m].st = "pending" /\ row'[m].rs = "unknown"
    BY <1>5, <1>10 DEF Pending
  <2>2. Keeps(m)
    BY <1>7, <2>1 DEF Keeps, Evident, Pending
  <2> QED BY <1>2, <1>4, <1>5, <1>10, <2>1, <2>2 DEF Evident, Pending
<1>11. Plain(m) => attempts[m] <= 1 + Charge(m)
  BY DEF JInv, EntryInv, PaidInv
<1>12. CASE o.post = "failed"
  <2>1. row'[m].st = "pending" /\ row'[m].rs = "unknown" /\ row'[m].rc = row[m].rc + 1
    BY <1>5, <1>12 DEF Pending
  <2>2. Keeps(m)
    BY <1>7, <2>1 DEF Keeps, Evident, Pending
  <2>3. Plain(m) => Paid(m)'
    <3>1. faults' \in Nat /\ faults' >= faults
      BY <1>4 DEF Local
    <3> QED BY <1>1, <1>11, <2>1, <3>1 DEF Paid, Charge
  <2> QED BY <1>2, <1>4, <1>5, <1>12, <2>1, <2>2, <2>3 DEF Evident, Pending
<1>13. CASE o.post = "no"
  <2>1. row'[m] = row[m]
    BY <1>5, <1>13
  <2>2. Keeps(m)
    BY <2>1, SameKeeps DEF JInv
  <2>3. Plain(m) => Paid(m)'
    <3>1. faults' \in Nat /\ faults' >= faults + 1
      BY <1>1, <1>3, <1>4, <1>13 DEF Fault
    <3> QED BY <1>1, <1>11, <2>1, <3>1 DEF Paid, Charge
  <2> QED BY <1>2, <1>4, <1>5, <1>13, <2>1, <2>2, <2>3 DEF Evident, Pending
<1> QED BY <1>2, <1>9, <1>10, <1>12, <1>13

\* The result of a unit is known, and written down or not.
LEMMA KnownUnit ==
  ASSUME JInv, IInv', NEW w \in Worker, work[w].pc = "result",
         NEW m \in Message, m = work[w].msg, NEW y \in WorkType, Goto(w, y),
         y.msg = m, y.got, y.pre = work[w].pre,
         y.pc \in {"unit", "finish", "caught"}, y.unit \in Units(m),
         kind[m].units = 1 => y.pc # "unit",
         y.pc # "caught" /\ ~ y.bad =>
           /\ ~ work[w].bad
           /\ y.pc = "unit" => y.unit = work[w].unit + 1
           /\ y.pc = "finish" => work[w].unit = kind[m].units,
         Local(m), Keeps(m), UNCHANGED <<sent, muted, attempts>>,
         ~ Pending(m) => ~ Pending(m)', Evident(m) => Evident(m)',
         y.post = "acked" => ~ Pending(m)',
         Plain(m) => /\ y.post = "failed" => Paid(m)'
                     /\ y.post = "marked" => row'[m].rs = "unknown"
  PROVE  JInv'
<1> PICK x : x = work[w]
  OBVIOUS
<1>1. x.pc = "result" /\ x.pc \in AttemptPcs /\ x.pc \in Sending
  BY DEF AttemptPcs, Sending
<1>2. /\ x \in WorkType /\ MarkInv(m, x) /\ OnceInv(m, x) /\ ProgressInv(m, x)
  BY <1>1, OwnEntry
<1>3. y.pc \in AttemptPcs /\ kind' = kind
  BY DEF AttemptPcs, Sending, Local
<1>4. MarkInv(m, y)'
  <2>1. Plain(m) /\ kind[m].hooked => y.pc \notin Sending
    BY DEF Plain, Sending
  <2> QED BY <1>2, <1>3, <2>1 DEF MarkInv, Plain
<1>5. OnceInv(m, y)
  BY DEF OnceInv
<1>6. ProgressInv(m, y)
  <2>1. x.unit \in Nat /\ sent[m][x.unit] > 0 /\ PartSent(m)
    BY <1>1, <1>2, NumberFacts, DeliveryAssumption DEF ProgressInv, PartSent, Units
  <2>2. \A u \in Units(m) : u \in Nat /\ u <= kind[m].units
    BY NumberFacts, DeliveryAssumption DEF JInv, Units
  <2>3. ~ y.bad /\ y.pc # "caught" =>
          \A u \in Units(m) : u < y.unit \/ y.pc = "finish" => Done(m, u)
    <3>1. SUFFICES ASSUME ~ y.bad, y.pc # "caught", NEW u \in Units(m),
                          u < y.unit \/ y.pc = "finish"
                   PROVE  Done(m, u)
      OBVIOUS
    <3>2. u < x.unit \/ u = x.unit
      BY <2>1, <2>2, <3>1
    <3>3. u < x.unit => Done(m, u)
      BY <1>1, <1>2, <3>1 DEF ProgressInv
    <3> QED BY <2>1, <3>2, <3>3 DEF Done
  <2> QED BY <2>1, <2>3 DEF ProgressInv
<1> QED BY <1>1, <1>3, <1>4, <1>5, <1>6, WriteAndStay

\* A unit is left behind for the next one or for the end of the batch; if it
\* failed, the batch has a gap.
LeavesUnit(m, x, y) ==
  /\ y.pc \in {"unit", "finish", "caught"}
  /\ kind[m].units = 1 => y.pc # "unit"
  /\ y.pc # "caught" /\ ~ y.bad =>
       /\ ~ x.bad
       /\ y.pc = "unit" => y.unit = x.unit + 1
       /\ y.pc = "finish" => x.unit = kind[m].units

\* Where a unit that was sent leads.
LEMMA AfterSendMore ==
  ASSUME IInv, NEW x \in WorkType, x.msg \in Message, x.unit \in Units(x.msg),
         NEW y \in AfterSend(x)
  PROVE  /\ y \in WorkType /\ y.msg = x.msg /\ y.got = x.got /\ y.pre = x.pre
         /\ y.post = x.post /\ y.unit \in Units(x.msg)
         /\ LeavesUnit(x.msg, x, y)
<1>1. CASE y = Advance(x)
  BY <1>1, AdvanceFacts, AdvanceMore DEF IInv, LeavesUnit
<1>2. CASE y = Break(x, "other")
  BY <1>2, BreakFacts, BreakMore DEF IInv, LeavesUnit
<1> QED BY <1>1, <1>2 DEF AfterSend

LEMMA ResultKeepsJ ==
  ASSUME JInv, IInv', NEW w \in Worker, Result(w)
  PROVE  JInv'
<1> PICK z : z = work[w]
  OBVIOUS
<1>1. z.pc = "result" /\ z.pc \in AttemptPcs /\ z.pc \in Sending
  <2>1. [work[w] EXCEPT !.got = TRUE].pc = "result"
    BY Zenon DEF Result
  <2>2. work[w] \in WorkType
    BY DEF JInv, IInv, TypeOK
  <2> QED BY <2>1, <2>2 DEF WorkType, AttemptPcs, Sending
<1> PICK m \in Message : m = work[w].msg
  BY <1>1, UnitFacts DEF JInv
<1>2. /\ z \in WorkType /\ MarkInv(m, z) /\ OnceInv(m, z) /\ ProgressInv(m, z)
  BY <1>1, OwnEntry
<1>3. UNCHANGED <<kind, claims, todo, sent, muted, aborted, attempts, crashes>>
  BY DEF Result
<1> PICK x : x = [z EXCEPT !.got = TRUE]
  OBVIOUS
<1>4. /\ x \in WorkType /\ x.msg = m /\ x.got /\ x.pre = z.pre /\ x.post = z.post
      /\ x.unit = z.unit /\ x.bad = z.bad
  BY <1>2 DEF WorkType
<1>5. x.unit \in Units(m) /\ PartSent(m)
  BY <1>1, <1>2, <1>4 DEF ProgressInv, PartSent
<1>8. x.msg \in Message /\ x.unit \in Units(x.msg) /\ TypeOK /\ IInv
  BY <1>4, <1>5 DEF JInv, IInv
<1>6. CASE x.post # "no"
  <2> PICK y \in AfterSend(x) : Goto(w, y)
    BY <1>6 DEF Result
  <2>1. Goto(w, y) /\ row' = row /\ faults' = faults
    BY <1>6 DEF Result
  <2>2. /\ y \in WorkType /\ y.msg = m /\ y.got /\ y.pre = z.pre
        /\ y.post = z.post /\ y.unit \in Units(m) /\ LeavesUnit(m, z, y)
    <3>1. /\ y \in WorkType /\ y.msg = m /\ y.got /\ y.pre = z.pre
          /\ y.post = z.post /\ y.unit \in Units(m) /\ LeavesUnit(m, x, y)
      BY <1>4, <1>8, AfterSendMore
    <3> QED BY <1>4, <3>1 DEF LeavesUnit
  <2>3. Local(m) /\ Keeps(m)
    BY <1>3, <2>1, QuietStep, SameKeeps DEF JInv
  <2>4. Paid(m) => Paid(m)'
    BY <1>3, <2>3, PaidFacts
  <2>5. /\ ~ Pending(m) => ~ Pending(m)'
        /\ Evident(m) => Evident(m)'
        /\ y.post = "acked" => ~ Pending(m)'
        /\ Plain(m) => /\ y.post = "failed" => Paid(m)'
                       /\ y.post = "marked" => row'[m].rs = "unknown"
    BY <1>2, <2>1, <2>2, <2>4 DEF MarkInv, Pending, Evident
  <2> QED BY <1>1, <1>3, <2>1, <2>2, <2>3, <2>5, KnownUnit DEF LeavesUnit
<1>7. CASE x.post = "no"
  <2>1. PICK o \in PostSend(m) :
          /\ Put(m, o.row, o.cost)
          /\ IF o.post = "no"
               THEN Goto(w, Break(x, "other"))
               ELSE \E y \in AfterSend([x EXCEPT !.post = o.post]) : Goto(w, y)
    BY <1>4, <1>7 DEF Result
  <2>2. row[m].rc < MaxRetries
    BY <1>1, <1>4, <1>7, UnitFacts DEF JInv
  <2>3. /\ Local(m) /\ Keeps(m) /\ row'[m] = o.row
        /\ o.post \in {"no", "marked", "acked", "failed"}
        /\ ~ Pending(m) => ~ Pending(m)'
        /\ Evident(m) => Evident(m)'
        /\ o.post = "marked" => row'[m].rs = "unknown"
        /\ o.post = "acked" => ~ Pending(m)'
        /\ Plain(m) /\ o.post \in {"no", "failed"} => Paid(m)'
    BY <1>3, <1>5, <2>1, <2>2, PostSendMore
  <2>4. CASE o.post = "no"
    <3> PICK y : y = Break(x, "other")
      OBVIOUS
    <3>1. /\ y \in WorkType /\ y.msg = m /\ y.got /\ y.pre = z.pre
          /\ y.post = "no" /\ y.pc \in {"unit", "finish", "caught"}
          /\ y.unit \in Units(m)
          /\ y.pc # "caught" => y.bad
          /\ kind[m].units = 1 => y.pc # "unit"
      <4>1. /\ y \in WorkType /\ y.msg = x.msg /\ y.got = x.got /\ y.pre = x.pre
            /\ y.post = x.post /\ y.pc \in {"unit", "finish", "caught"}
            /\ kind[x.msg].units = 1 => y.pc # "unit"
        BY <1>4, <1>8, BreakFacts
      <4>2. y.unit \in Units(x.msg) /\ (y.pc # "caught" => y.bad)
        BY <1>4, <1>8, BreakMore
      <4> QED BY <1>4, <1>7, <4>1, <4>2
    <3>2. Goto(w, y)
      BY <2>1, <2>4
    <3> QED BY <1>1, <1>3, <2>3, <3>1, <3>2, KnownUnit
  <2>5. CASE o.post # "no"
    <3> PICK v : v = [x EXCEPT !.post = o.post]
      OBVIOUS
    <3>1. /\ v \in WorkType /\ v.msg = m /\ v.got /\ v.pre = z.pre
          /\ v.post = o.post /\ v.unit = z.unit /\ v.bad = z.bad
      BY <1>4, <2>3 DEF WorkType
    <3> PICK y \in AfterSend(v) : Goto(w, y)
      BY <2>1, <2>5
    <3>2. v.msg \in Message /\ v.unit \in Units(v.msg)
      BY <1>4, <1>5, <3>1
    <3>3. /\ y \in WorkType /\ y.msg = m /\ y.got /\ y.pre = z.pre
          /\ y.post = o.post /\ y.unit \in Units(m) /\ LeavesUnit(m, z, y)
      <4>1. /\ y \in WorkType /\ y.msg = m /\ y.got /\ y.pre = z.pre
            /\ y.post = o.post /\ y.unit \in Units(m) /\ LeavesUnit(m, v, y)
        BY <1>8, <3>1, <3>2, AfterSendMore
      <4> QED BY <3>1, <4>1 DEF LeavesUnit
    <3> QED BY <1>1, <1>3, <2>3, <3>3, KnownUnit DEF LeavesUnit
  <2> QED BY <2>4, <2>5
<1> QED BY <1>6, <1>7

-----------------------------------------------------------------------------
(* The ends of an attempt. *)

\* The marks at the end of an attempt.
LEMMA EndMarks ==
  ASSUME JInv, NEW m \in Message, Local(m), NEW x \in WorkType, MarkInv(m, x),
         NEW y \in WorkType, y.pre = x.pre, y.pc \in {"finish", "caught"},
         ~ Pending(m) => ~ Pending(m)', Evident(m) => Evident(m)',
         y.post = "acked" => ~ Pending(m)',
         Plain(m) => /\ y.post = "failed" => Paid(m)'
                     /\ y.post = "marked" => row'[m].rs = "unknown"
  PROVE  MarkInv(m, y)'
<1>1. kind' = kind
  BY DEF Local
<1> QED BY <1>1 DEF MarkInv, Plain, Sending

\* The write with which an attempt ends, and what it must not do.
LEMMA EndByWrite ==
  ASSUME JInv, IInv', NEW w \in Worker, Holds(w),
         NEW m \in Message, m = work[w].msg, NEW r, NEW cost \in Nat,
         work[m].pc \notin {"new", "queued"}, Put(m, r, cost), End(w),
         UNCHANGED <<kind, sent, muted, attempts, crashes>>,
         aborted \subseteq aborted',
         \/ r.rc = row[m].rc + 1
         \/ r.rc = row[m].rc /\ (cost # 0 \/ r.st # "pending"),
         r.st = "pending" => row[m].st = "pending",
         \/ r.st # "pending" \/ r.rs = row[m].rs \/ r.rs = "unknown"
         \/ ~ (kind[m].units = 1 /\ Visible(m) /\ sent[m][1] > 0),
         r.st = "gone" /\ kind[m].required =>
           row[m].st = "gone" \/ Complete(m) \/ m \in aborted'
  PROVE  JInv'
<1>1. Local(m) /\ row'[m] = r /\ faults' = faults + cost
  BY PutMore DEF JInv
<1>2. row[m].rc \in Nat /\ faults \in Nat /\ crashes \in Nat /\ attempts[m] \in Nat
  BY NumberFacts DEF JInv
<1>3. row'[m].rc \in Nat /\ row'[m].rc >= row[m].rc
  BY <1>1, <1>2
<1>4. Keeps(m)
  BY <1>1, <1>3 DEF Keeps, Evident, Pending
<1>5. Plain(m) => Paid(m)' \/ Unsendable(m)'
  <2>1. Plain(m) => attempts[m] <= 1 + Charge(m)
    BY DEF JInv, EntryInv, PaidInv
  <2>2. CASE r.rc = row[m].rc + 1
    BY <1>1, <1>2, <2>1, <2>2 DEF Paid, Charge
  <2>3. CASE r.rc = row[m].rc /\ cost # 0
    BY <1>1, <1>2, <2>1, <2>3 DEF Paid, Charge
  <2>4. CASE r.st # "pending"
    BY <1>1, <2>4 DEF Unsendable, Pending
  <2> QED BY <2>2, <2>3, <2>4
<1> QED BY <1>1, <1>4, <1>5, HoldAndEnd

\* An attempt ends with a write that fails.
LEMMA EndByFault ==
  ASSUME JInv, IInv', NEW w \in Worker, work[w].pc \in AttemptPcs,
         EndUnwritten(w), UNCHANGED <<kind, todo, history, crashes>>
  PROVE  JInv'
<1> PICK m \in Message : m = work[w].msg
  BY UnitFacts DEF JInv
<1>1. Fault(m) \in Nat /\ (Fault(m) # 0 \/ row[m].st # "pending")
  BY DEF Fault, Pending
<1>2. row[m].rc = row[m].rc /\ aborted \subseteq aborted'
  BY DEF history
<1> QED BY <1>1, <1>2, OwnEntry, EndByWrite DEF EndUnwritten, history

\* An attempt ends without a write when its row shows what became of it.
LEMMA EndByNothing ==
  ASSUME JInv, IInv', NEW w \in Worker, work[w].pc \in AttemptPcs,
         EndSilently(w), UNCHANGED <<kind, todo, history, crashes>>,
         \/ work[w].post # "no" \/ work[w].pre = "acked"
         \/ ~ Pending(work[w].msg)
  PROVE  JInv'
<1> PICK m \in Message : m = work[w].msg
  BY UnitFacts DEF JInv
<1> PICK x : x = work[w]
  OBVIOUS
<1>1. x \in WorkType /\ MarkInv(m, x)
  BY OwnEntry
<1>2. UNCHANGED <<row, kind, attempts, crashes, faults, sent, muted, aborted>>
  BY DEF EndSilently, history
<1>3. Local(m) /\ Keeps(m)
  BY <1>2, QuietStep, SameKeeps DEF JInv
<1>4. Paid(m) => Paid(m)'
  BY <1>2, <1>3, PaidFacts
<1>5. x.post \in {"no", "marked", "acked", "failed"}
  BY <1>1 DEF WorkType
<1>6. Plain(m) => Paid(m)' \/ Unsendable(m)'
  BY <1>1, <1>2, <1>4, <1>5 DEF MarkInv, Unsendable, Pending
<1> QED BY <1>2, <1>3, <1>6, WriteAndEnd DEF EndSilently

\* The bookkeeping of a replay throws.
LEMMA CaughtKeepsJ ==
  ASSUME JInv, IInv', NEW w \in Worker, work[w].pc = "finish",
         NEW cost \in Nat, Put(work[w].msg, row[work[w].msg], cost),
         Goto(w, [work[w] EXCEPT !.pc = "caught", !.err = "other"]),
         UNCHANGED <<kind, todo, history, crashes>>
  PROVE  JInv'
<1>1. work[w].pc \in AttemptPcs
  BY DEF AttemptPcs
<1> PICK m \in Message : m = work[w].msg
  BY <1>1, UnitFacts DEF JInv
<1> PICK x : x = work[w]
  OBVIOUS
<1>2. /\ x \in WorkType /\ MarkInv(m, x) /\ OnceInv(m, x) /\ ProgressInv(m, x)
  BY <1>1, OwnEntry
<1>3. UNCHANGED <<kind, sent, muted, attempts, crashes, aborted>>
  BY DEF history
<1>4. Local(m) /\ row'[m] = row[m] /\ Keeps(m)
  BY <1>3, PutMore, SameKeeps DEF JInv
<1>5. Paid(m) => Paid(m)'
  BY <1>3, <1>4, PaidFacts
<1> PICK y : y = [x EXCEPT !.pc = "caught", !.err = "other"]
  OBVIOUS
<1>6. /\ y \in WorkType /\ y.msg = m /\ y.got = x.got /\ y.pre = x.pre
      /\ y.post = x.post /\ y.pc = "caught" /\ y.err = "other" /\ y.unit = x.unit
      /\ y.pc \in AttemptPcs
  BY <1>2 DEF WorkType, AttemptPcs
<1>7. Goto(w, y)
  OBVIOUS
<1>8. MarkInv(m, y)'
  <2>1. /\ ~ Pending(m) => ~ Pending(m)'
        /\ Evident(m) => Evident(m)'
        /\ y.post = "acked" => ~ Pending(m)'
        /\ Plain(m) => /\ y.post = "failed" => Paid(m)'
                       /\ y.post = "marked" => row'[m].rs = "unknown"
    BY <1>2, <1>4, <1>5, <1>6 DEF MarkInv, Pending, Evident
  <2> QED BY <1>2, <1>4, <1>6, <2>1, EndMarks
<1>9. OnceInv(m, y) /\ ProgressInv(m, y)
  BY <1>2, <1>6 DEF OnceInv, ProgressInv
<1> QED BY <1>1, <1>3, <1>4, <1>6, <1>7, <1>8, <1>9, WriteAndStay

LEMMA PersistEvidenceKeepsJ ==
  ASSUME JInv, IInv', NEW w \in Worker, PersistEvidence(w)
  PROVE  JInv'
<1> PICK x : x = work[w]
  OBVIOUS
<1>1. x.pc \in {"finish", "caught"} /\ x.pc \in AttemptPcs /\ NeedsMark(w)
  BY DEF PersistEvidence, AttemptPcs
<1> PICK m \in Message : m = work[w].msg
  BY <1>1, UnitFacts DEF JInv
<1>2. /\ x \in WorkType /\ MarkInv(m, x) /\ OnceInv(m, x) /\ ProgressInv(m, x)
  BY <1>1, OwnEntry
<1>3. x.post = "no" /\ (x.got \/ (x.pc = "finish" /\ ~ x.bad))
  BY <1>1 DEF NeedsMark
<1>4. UNCHANGED <<kind, todo, sent, muted, aborted, attempts, crashes>>
  BY DEF PersistEvidence
<1>5. PICK o \in PostSend(m) :
        /\ Put(m, o.row, o.cost)
        /\ \/ o.post = "no" /\ End(w)
           \/ o.post = "no" /\ Goto(w, [x EXCEPT !.pc = "caught", !.err = "other"])
           \/ o.post # "no" /\ Goto(w, [x EXCEPT !.post = o.post])
  BY DEF PersistEvidence
<1>6. row[m].rc < MaxRetries
  BY <1>1, <1>3, UnitFacts DEF JInv
<1>7. PartSent(m) \/ Complete(m)
  BY <1>2, <1>3 DEF ProgressInv, Complete, Done, Units
<1>8. /\ Local(m) /\ Keeps(m) /\ row'[m] = o.row
      /\ o.post \in {"no", "marked", "acked", "failed"}
      /\ ~ Pending(m) => ~ Pending(m)'
      /\ Evident(m) => Evident(m)'
      /\ o.post = "marked" => row'[m].rs = "unknown"
      /\ o.post = "acked" => ~ Pending(m)'
      /\ Plain(m) /\ o.post \in {"no", "failed"} => Paid(m)'
  BY <1>4, <1>5, <1>6, <1>7, PostSendMore
<1>9. CASE o.post = "no" /\ End(w)
  BY <1>1, <1>4, <1>8, <1>9, WriteAndEnd
<1>10. CASE o.post = "no" /\ Goto(w, [x EXCEPT !.pc = "caught", !.err = "other"])
  <2> PICK y : y = [x EXCEPT !.pc = "caught", !.err = "other"]
    OBVIOUS
  <2>1. /\ y \in WorkType /\ y.msg = m /\ y.got = x.got /\ y.pre = x.pre
        /\ y.post = "no" /\ y.pc = "caught" /\ y.err = "other" /\ y.unit = x.unit
        /\ y.pc \in AttemptPcs
    BY <1>2, <1>3 DEF WorkType, AttemptPcs
  <2>2. MarkInv(m, y)'
    BY <1>2, <1>8, <2>1, EndMarks
  <2>3. OnceInv(m, y) /\ ProgressInv(m, y)
    BY <1>2, <2>1 DEF OnceInv, ProgressInv
  <2> QED BY <1>1, <1>4, <1>8, <1>10, <2>1, <2>2, <2>3, WriteAndStay
<1>11. CASE o.post # "no" /\ Goto(w, [x EXCEPT !.post = o.post])
  <2> PICK y : y = [x EXCEPT !.post = o.post]
    OBVIOUS
  <2>1. /\ y \in WorkType /\ y.msg = m /\ y.got = x.got /\ y.pre = x.pre
        /\ y.post = o.post /\ y.pc = x.pc /\ y.err = x.err /\ y.unit = x.unit
        /\ y.bad = x.bad /\ y.proven = x.proven
    BY <1>2, <1>8 DEF WorkType
  <2>2. MarkInv(m, y)'
    BY <1>1, <1>2, <1>8, <2>1, EndMarks
  <2>3. OnceInv(m, y) /\ ProgressInv(m, y)
    BY <1>2, <2>1 DEF OnceInv, ProgressInv
  <2> QED BY <1>1, <1>4, <1>8, <1>11, <2>1, <2>2, <2>3, WriteAndStay
<1> QED BY <1>5, <1>9, <1>10, <1>11

\* The counted failure that ends an attempt: it clears the mark of no send
\* that was accepted.
LEMMA EndByRecord ==
  ASSUME JInv, IInv', NEW w \in Worker, work[w].pc \in AttemptPcs,
         NEW proven \in BOOLEAN, EndWith(w, Record(work[w].msg, proven)),
         UNCHANGED <<kind, todo, history, crashes>>,
         LET m == work[w].msg
         IN kind[m].units = 1 /\ Visible(m) /\ sent[m][1] > 0 => ~ proven
  PROVE  JInv'
<1> PICK m \in Message : m = work[w].msg
  BY UnitFacts DEF JInv
<1> PICK r : r = Record(m, proven)
  OBVIOUS
<1>1. row[m] \in RowType /\ Pending(m) /\ Put(m, r, 0) /\ End(w)
  BY NumberFacts DEF EndWith, JInv
<1>2. r.st = "pending" /\ r.rc = row[m].rc + 1 /\ (~ proven => r.rs = row[m].rs)
  BY <1>1, UpdateFacts DEF Record, Pending
<1>3. r.st # "gone" /\ row[m].st = "pending" /\ aborted \subseteq aborted'
  BY <1>1, <1>2 DEF Pending, history
<1> QED BY <1>1, <1>2, <1>3, OwnEntry, EndByWrite DEF history

LEMMA FinishPartialKeepsJ ==
  ASSUME JInv, IInv', NEW w \in Worker, FinishPartial(w)
  PROVE  JInv'
<1> PICK x : x = work[w]
  OBVIOUS
<1> PICK p : p = (x.proven /\ ~ x.got)
  OBVIOUS
<1>1. x.pc = "finish" /\ x.pc \in AttemptPcs /\ x.bad /\ ~ NeedsMark(w)
      /\ UNCHANGED <<kind, todo, history, crashes>>
  BY DEF FinishPartial, AttemptPcs
<1> PICK m \in Message : m = work[w].msg
  BY <1>1, UnitFacts DEF JInv
<1>2. x \in WorkType /\ OnceInv(m, x)
  BY <1>1, OwnEntry
<1>3. x.got => x.post # "no"
  BY <1>1 DEF NeedsMark
<1>4. CASE x.post # "no" /\ EndSilently(w)
  BY <1>1, <1>4, EndByNothing
<1>5. CASE EndUnwritten(w)
  BY <1>1, <1>5, EndByFault
<1>6. CASE EndWith(w, Record(m, p))
  <2>1. p \in BOOLEAN
    OBVIOUS
  <2>2. kind[m].units = 1 /\ Visible(m) /\ sent[m][1] > 0 => ~ p
    BY <1>1, <1>2 DEF OnceInv
  <2> QED BY <1>1, <1>6, <2>1, <2>2, EndByRecord
<1>7. CASE Caught(w)
  <2>1. Fault(m) \in Nat
    BY DEF Fault
  <2> QED BY <1>1, <1>7, <2>1, CaughtKeepsJ DEF Caught
<1> QED BY <1>3, <1>4, <1>5, <1>6, <1>7 DEF FinishPartial

LEMMA FinishWholeKeepsJ ==
  ASSUME JInv, IInv', NEW w \in Worker, FinishWhole(w)
  PROVE  JInv'
<1> PICK x : x = work[w]
  OBVIOUS
<1>1. x.pc = "finish" /\ x.pc \in AttemptPcs /\ ~ x.bad
      /\ UNCHANGED <<kind, todo, history, crashes>>
  BY DEF FinishWhole, AttemptPcs
<1> PICK m \in Message : m = work[w].msg
  BY <1>1, UnitFacts DEF JInv
<1>2. /\ x \in WorkType /\ ProgressInv(m, x) /\ row[m] \in RowType
  BY <1>1, OwnEntry, UnitFacts DEF JInv
<1>3. aborted \subseteq aborted'
      /\ UNCHANGED <<kind, sent, muted, attempts, crashes>>
  BY <1>1 DEF history
<1> PICK unacked : unacked = IF x.got \/ (Live(w) /\ x.pre # "no")
                               THEN FailedAfterSend(row[m]) ELSE Failed(row[m])
  OBVIOUS
<1>4. \/ x.post # "no" /\ EndSilently(w)
      \/ Put(m, Gone(row[m]), 0) /\ End(w)
      \/ Pending(m) /\ Put(m, unacked, 1) /\ End(w)
      \/ Put(m, row[m], 1 + Fault(m)) /\ End(w)
      \/ /\ Put(m, row[m], 1 + Fault(m))
         /\ Goto(w, [x EXCEPT !.pc = "caught", !.err = "other"])
  BY DEF FinishWhole
<1>5. CASE x.post # "no" /\ EndSilently(w)
  BY <1>1, <1>5, EndByNothing
<1>6. CASE Put(m, Gone(row[m]), 0) /\ End(w)
  <2> PICK r : r = Gone(row[m])
    OBVIOUS
  <2>1. r.st # "pending" /\ r.rc = row[m].rc
    BY <1>2, UpdateFacts
  <2>2. Complete(m)
    BY <1>1, <1>2 DEF ProgressInv, Complete, Done, Units
  <2> QED BY <1>1, <1>3, <1>6, <2>1, <2>2, OwnEntry, EndByWrite
<1>7. CASE Pending(m) /\ Put(m, unacked, 1) /\ End(w)
  <2>1. /\ unacked.rc = row[m].rc + 1 /\ unacked.st = "pending"
        /\ row[m].st = "pending"
        /\ unacked.rs = row[m].rs \/ unacked.rs = "unknown"
    BY <1>2, <1>7, UpdateFacts DEF Pending
  <2> QED BY <1>1, <1>3, <1>7, <2>1, OwnEntry, EndByWrite
<1>8. 1 + Fault(m) \in Nat \ {0}
  BY DEF Fault
<1>9. CASE Put(m, row[m], 1 + Fault(m)) /\ End(w)
  <2> PICK cost \in Nat : cost = 1 + Fault(m)
    BY <1>8
  <2> QED BY <1>1, <1>3, <1>8, <1>9, OwnEntry, EndByWrite
<1>10. CASE /\ Put(m, row[m], 1 + Fault(m))
            /\ Goto(w, [x EXCEPT !.pc = "caught", !.err = "other"])
  BY <1>1, <1>8, <1>10, CaughtKeepsJ
<1> QED BY <1>4, <1>5, <1>6, <1>7, <1>9, <1>10

LEMMA LiveAbortsKeepsJ ==
  ASSUME JInv, IInv', NEW m \in Message, LiveAborts(m)
  PROVE  JInv'
<1>1. m \in Worker /\ work[m].pc \in AttemptPcs
  BY DEF LiveAborts, AttemptPcs, Worker
<1>2. m = work[m].msg /\ row[m] \in RowType
  BY <1>1, UnitFacts DEF JInv
<1>3. UNCHANGED <<kind, sent, muted, attempts, crashes>> /\ End(m)
  BY DEF LiveAborts
<1>4. CASE Put(m, Gone(row[m]), 0) /\ aborted' = aborted \cup {m}
  <2> PICK r : r = Gone(row[m])
    OBVIOUS
  <2>1. r.st # "pending" /\ r.rc = row[m].rc
    BY <1>2, UpdateFacts
  <2>2. aborted \subseteq aborted' /\ m \in aborted'
    BY <1>4
  <2> QED BY <1>1, <1>2, <1>3, <1>4, <2>1, <2>2, OwnEntry, EndByWrite
<1>5. CASE Put(m, row[m], 1) /\ UNCHANGED aborted
  <2>1. aborted \subseteq aborted'
    BY <1>5
  <2> QED BY <1>1, <1>2, <1>3, <1>5, <2>1, OwnEntry, EndByWrite
<1> QED BY <1>4, <1>5 DEF LiveAborts

LEMMA LiveFailsKeepsJ ==
  ASSUME JInv, IInv', NEW m \in Message, LiveFails(m)
  PROVE  JInv'
<1> PICK x : x = work[m]
  OBVIOUS
<1> PICK p : p = (x.err = "proven")
  OBVIOUS
<1>1. m \in Worker /\ x.pc = "caught" /\ x.pc \in AttemptPcs /\ ~ NeedsMark(m)
      /\ UNCHANGED <<kind, todo, history, crashes>>
  BY DEF LiveFails, AttemptPcs, Worker
<1>2. /\ m = work[m].msg /\ x \in WorkType /\ OnceInv(m, x) /\ row[m] \in RowType
  BY <1>1, OwnEntry, UnitFacts DEF JInv
<1>3. x.got => x.post # "no"
  BY <1>1 DEF NeedsMark
<1>4. CASE (x.post # "no" \/ x.pre = "acked") /\ EndSilently(m)
  BY <1>1, <1>4, EndByNothing
<1>5. CASE EndUnwritten(m)
  BY <1>1, <1>5, EndByFault
<1>6. CASE x.got /\ EndWith(m, FailedAfterSend(row[m]))
  <2> PICK r : r = FailedAfterSend(row[m])
    OBVIOUS
  <2>1. /\ r.rc = row[m].rc + 1 /\ r.st = "pending" /\ row[m].st = "pending"
        /\ r.rs = "unknown" /\ Put(m, r, 0) /\ End(m)
    BY <1>2, <1>6, UpdateFacts DEF EndWith, Pending
  <2>2. aborted \subseteq aborted'
    BY <1>1 DEF history
  <2> QED BY <1>1, <1>2, <2>1, <2>2, OwnEntry, EndByWrite DEF history
<1>7. CASE ~ x.got /\ EndWith(m, Record(m, p))
  <2>1. p \in BOOLEAN
    OBVIOUS
  <2>2. kind[m].units = 1 /\ Visible(m) /\ sent[m][1] > 0 => ~ p
    BY <1>1, <1>2, <1>7 DEF OnceInv
  <2> QED BY <1>1, <1>2, <1>7, <2>1, <2>2, EndByRecord
<1>8. Record(m, work[m].err = "proven") = Record(m, p)
  BY Zenon DEF Record
<1> QED BY <1>3, <1>4, <1>5, <1>6, <1>7, <1>8 DEF LiveFails

LEMMA ReplayFailsKeepsJ ==
  ASSUME JInv, IInv', NEW d \in Recoverer, ReplayFails(d)
  PROVE  JInv'
<1> PICK x : x = work[d]
  OBVIOUS
<1> PICK p : p = (x.err = "proven")
  OBVIOUS
<1>1. d \in Worker /\ x.pc = "caught" /\ x.pc \in AttemptPcs /\ ~ NeedsMark(d)
      /\ UNCHANGED <<kind, todo, history, crashes>>
  BY DEF ReplayFails, AttemptPcs, Worker
<1> PICK m \in Message : m = work[d].msg
  BY <1>1, UnitFacts DEF JInv
<1>2. x \in WorkType /\ OnceInv(m, x) /\ row[m] \in RowType
  BY <1>1, OwnEntry, UnitFacts DEF JInv
<1>3. x.got => x.post # "no"
  BY <1>1 DEF NeedsMark
<1>4. CASE (x.post # "no" \/ ~ Pending(m)) /\ EndSilently(d)
  BY <1>1, <1>4, EndByNothing
<1>5. CASE EndUnwritten(d)
  BY <1>1, <1>5, EndByFault
<1>6. CASE EndWith(d, Dead(row[m]))
  <2> PICK r : r = Dead(row[m])
    OBVIOUS
  <2>1. r.rc = row[m].rc /\ r.st = "failed" /\ Put(m, r, 0) /\ End(d)
    BY <1>2, <1>6, UpdateFacts DEF EndWith
  <2>2. aborted \subseteq aborted'
    BY <1>1 DEF history
  <2> QED BY <1>1, <2>1, <2>2, OwnEntry, EndByWrite DEF history
<1>7. CASE ~ x.got /\ EndWith(d, Record(m, p))
  <2>1. p \in BOOLEAN
    OBVIOUS
  <2>2. kind[m].units = 1 /\ Visible(m) /\ sent[m][1] > 0 => ~ p
    BY <1>1, <1>2, <1>7 DEF OnceInv
  <2> QED BY <1>1, <1>7, <2>1, <2>2, EndByRecord
<1>8. Record(m, work[d].err = "proven") = Record(m, p)
  BY Zenon DEF Record
<1> QED BY <1>3, <1>4, <1>5, <1>6, <1>7, <1>8 DEF ReplayFails

-----------------------------------------------------------------------------
(* Steps outside of attempts. *)

\* Workers move on outside of attempts, and nothing else changes.
LEMMA Elsewhere ==
  ASSUME JInv, IInv',
         \A v \in Worker :
           work[v].pc \in AttemptPcs \/ work'[v].pc \in AttemptPcs =>
             work'[v] = work[v],
         \A v \in Worker :
           work'[v].pc = "reconcile" =>
             work'[v] = work[v] \/ Pending(work'[v].msg),
         \A n \in Message :
           work'[n].pc \in {"new", "queued"} => work[n].pc \in {"new", "queued"},
         UNCHANGED <<row, kind, history, crashes, faults>>
  PROVE  JInv'
<1>1. UNCHANGED <<sent, muted, aborted, attempts>>
  BY DEF history
<1>2. ASSUME NEW v \in Worker
      PROVE  AttemptInv(v)'
  <2>1. AttemptInv(v)
    BY DEF JInv
  <2>2. CASE work'[v].pc \in AttemptPcs
    <3>1. work'[v] = work[v] /\ work[v].pc # "reconcile"
      BY <2>2 DEF AttemptPcs, Sending
    <3> QED BY <1>1, <2>1, <2>2, <3>1
            DEF AttemptInv, MarkInv, OnceInv, ProgressInv, Pending, Evident,
                Plain, Visible, Units, Done, PartSent, Paid, Charge
  <2>3. CASE work'[v].pc \notin AttemptPcs
    BY <2>1, <2>3 DEF AttemptInv, Pending
  <2> QED BY <2>2, <2>3
<1>3. ASSUME NEW n \in Message
      PROVE  EntryInv(n)'
  <2>1. EntryInv(n)
    BY DEF JInv
  <2>2. \A v \in Worker : AtWork(v, n) => AtWork(v, n)'
    BY DEF AtWork
  <2>3. PaidInv(n) => PaidInv(n)'
    BY <1>1, <2>2 DEF PaidInv, Paid, Charge, Unsendable, Pending
  <2>4. SentInv(n) => SentInv(n)'
    BY <1>1 DEF SentInv, Evident, Pending
  <2>5. KeptInv(n) => KeptInv(n)'
    BY <1>1 DEF KeptInv, Complete, PartSent, Units
  <2> QED BY <1>1, <2>1, <2>3, <2>4, <2>5 DEF EntryInv, Plain, Visible
<1> QED BY <1>2, <1>3 DEF JInv

\* One worker moves on outside of attempts.
LEMMA ElsewhereOne ==
  ASSUME JInv, IInv', NEW w \in Worker, work[w].pc \notin AttemptPcs,
         NEW y, Goto(w, y),
         y.pc \notin AttemptPcs \cup {"new", "queued"},
         y.pc = "reconcile" => Pending(y.msg),
         UNCHANGED <<row, kind, history, crashes, faults>>
  PROVE  JInv'
<1>1. /\ work'[w] = y
      /\ \A v \in Worker : v # w => work'[v] = work[v]
  BY DEF JInv, IInv, TypeOK, Goto
<1> QED BY <1>1, Elsewhere DEF Worker

\* The pcs of the workers that hold no claim, or are not in an attempt.
LEMMA QuietPcs ==
  /\ \A p \in {"over", "loop", "idle", "taken", "new", "queued", "reconcile"} :
       p \notin AttemptPcs
  /\ \A p, n : At(p, n).pc = p /\ At(p, n).msg = n
BY DEF AttemptPcs, Sending, At

LEMMA SnapshotKeepsJ ==
  ASSUME JInv, IInv', NEW d \in Recoverer, Snapshot(d)
  PROVE  JInv'
BY RecovererFacts, QuietPcs, ElsewhereOne DEF Snapshot

LEMMA DrainEndsKeepsJ ==
  ASSUME JInv, IInv', NEW d \in Recoverer, DrainEnds(d)
  PROVE  JInv'
BY RecovererFacts, QuietPcs, ElsewhereOne DEF DrainEnds

LEMMA DeadlinePassesKeepsJ ==
  ASSUME JInv, IInv', DeadlinePasses
  PROVE  JInv'
BY Elsewhere DEF DeadlinePasses

LEMMA TakeKeepsJ ==
  ASSUME JInv, IInv', NEW d \in Recoverer, NEW m \in Message, Take(d, m)
  PROVE  JInv'
<1>1. CASE m \in claims
  BY <1>1, Elsewhere DEF Take
<1>2. CASE m \notin claims
  BY <1>2, RecovererFacts, QuietPcs, ElsewhereOne DEF Take
<1> QED BY <1>1, <1>2

\* A drain that gives an entry up without a write.
LEMMA DrainLeaves ==
  ASSUME JInv, IInv', NEW d \in Recoverer, work[d].pc \in {"taken", "reconcile"},
         End(d), UNCHANGED <<row, kind, history, crashes, faults>>
  PROVE  JInv'
<1>1. d \in Worker /\ Goto(d, At("loop", NoMessage))
  BY RecovererFacts DEF End, Live
<1> QED BY <1>1, QuietPcs, ElsewhereOne

LEMMA SkipGoneKeepsJ ==
  ASSUME JInv, IInv', NEW d \in Recoverer, SkipGone(d)
  PROVE  JInv'
BY DrainLeaves DEF SkipGone, Examining

LEMMA DeferKeepsJ ==
  ASSUME JInv, IInv', NEW d \in Recoverer, Defer(d)
  PROVE  JInv'
BY DrainLeaves DEF Defer, Examining

LEMMA DeadLetterKeepsJ ==
  ASSUME JInv, IInv', NEW d \in Recoverer, DeadLetter(d)
  PROVE  JInv'
<1>1. work[d].pc = "taken" /\ Examining(d) /\ Pending(work[d].msg)
      /\ UNCHANGED <<kind, history, crashes>>
  BY DEF DeadLetter, Examining
<1> PICK m \in Message : m = work[d].msg
  BY <1>1, ExaminingFacts DEF JInv
<1>2. /\ d \in Worker /\ Holds(d) /\ row[m] \in RowType
      /\ work[m].pc \notin {"new", "queued"} /\ aborted \subseteq aborted'
  BY <1>1, ExaminingFacts DEF JInv, history
<1>3. CASE EndWith(d, Dead(row[m]))
  <2> PICK r : r = Dead(row[m])
    OBVIOUS
  <2>1. r.rc = row[m].rc /\ r.st = "failed" /\ Put(m, r, 0) /\ End(d)
    BY <1>2, <1>3, UpdateFacts DEF EndWith
  <2> QED BY <1>1, <1>2, <2>1, EndByWrite DEF history
<1>4. CASE EndUnwritten(d)
  <2>1. Fault(m) = 1
    BY <1>1 DEF Fault
  <2> QED BY <1>1, <1>2, <1>4, <2>1, EndByWrite DEF EndUnwritten, history
<1> QED BY <1>3, <1>4 DEF DeadLetter

\* A row appears, of which nothing was sent yet.
LEMMA EnqueueKeepsJ ==
  ASSUME JInv, IInv', NEW m \in Message, Enqueue(m)
  PROVE  JInv'
<1>1. m \in Worker /\ work[m].pc = "new" /\ MessageInv(m) /\ EntryInv(m)
  BY DEF Enqueue, Worker, JInv, IInv
<1>2. UNCHANGED <<kind, sent, muted, aborted, attempts, crashes, faults>>
  BY DEF Enqueue, history
<1>3. /\ row[m] \in RowType
      /\ row'[m] = [row[m] EXCEPT !.st = "pending"]
      /\ \A n \in Message : n # m => row'[n] = row[n]
  BY NumberFacts DEF Enqueue, JInv, IInv, TypeOK
<1>4. row'[m].st = "pending" /\ row'[m].rc = row[m].rc
  BY <1>3 DEF RowType
<1>5. /\ work'[m].pc = "queued"
      /\ \A v \in Worker : v # m => work'[v] = work[v]
  BY <1>1, QuietPcs DEF Enqueue, JInv, IInv, TypeOK, Goto
<1>6. \A v \in Worker :
        work[v].pc \in AttemptPcs \cup {"reconcile"} => work[v].msg # m
  BY <1>1 DEF MessageInv, Holds, HoldPcs, AttemptPcs, Sending
<1>7. ASSUME NEW v \in Worker
      PROVE  AttemptInv(v)'
  <2>1. CASE v = m
    BY <1>5, <2>1, QuietPcs DEF AttemptInv
  <2>2. CASE v # m /\ work[v].pc \in AttemptPcs \cup {"reconcile"}
    <3>1. work[v].msg \in Message /\ work[v].msg # m
      <4>1. Holds(v)
        BY <2>2 DEF Holds, HoldPcs
      <4> QED BY <1>6, <2>2, <4>1, HolderFacts DEF JInv
    <3>2. row'[work[v].msg] = row[work[v].msg] /\ work'[v] = work[v]
      BY <1>3, <1>5, <2>2, <3>1
    <3>3. AttemptInv(v)
      BY DEF JInv
    <3> QED BY <1>2, <3>2, <3>3
            DEF AttemptInv, MarkInv, OnceInv, ProgressInv, Pending, Evident,
                Plain, Visible, Units, Done, PartSent, Paid, Charge
  <2>3. CASE v # m /\ work[v].pc \notin AttemptPcs \cup {"reconcile"}
    BY <1>5, <2>3 DEF AttemptInv
  <2> QED BY <2>1, <2>2, <2>3
<1>8. ASSUME NEW n \in Message
      PROVE  EntryInv(n)'
  <2>1. EntryInv(n) /\ n \in Worker
    BY DEF JInv, Worker
  <2>2. CASE n # m
    <3>1. \A v \in Worker : AtWork(v, n) => AtWork(v, n)'
      BY <1>1, <1>5, QuietPcs DEF AtWork
    <3>2. row'[n] = row[n] /\ work'[n] = work[n]
      BY <1>3, <1>5, <2>1, <2>2
    <3>3. PaidInv(n) => PaidInv(n)'
      BY <1>2, <3>1, <3>2 DEF PaidInv, Paid, Charge, Unsendable, Pending
    <3>4. SentInv(n) => SentInv(n)'
      BY <1>2, <3>2 DEF SentInv, Evident, Pending
    <3>5. KeptInv(n) => KeptInv(n)'
      BY <1>2, <3>2 DEF KeptInv, Complete, PartSent, Units
    <3> QED BY <1>2, <2>1, <3>2, <3>3, <3>4, <3>5 DEF EntryInv, Plain, Visible
  <2>3. CASE n = m
    <3>1. attempts[m] = 0 /\ sent[m][1] = 0
      BY <1>1 DEF EntryInv
    <3>2. PaidInv(m)'
      <4>1. row[m].rc \in Nat /\ crashes \in Nat /\ faults \in Nat
        BY NumberFacts DEF JInv
      <4> QED BY <1>2, <1>4, <3>1, <4>1 DEF PaidInv, Paid, Charge
    <3>3. SentInv(m)'
      BY <1>2, <3>1 DEF SentInv
    <3>4. KeptInv(m)'
      BY <1>4 DEF KeptInv
    <3> QED BY <1>2, <2>3, <3>1, <3>2, <3>3, <3>4 DEF EntryInv
  <2> QED BY <2>2, <2>3
<1> QED BY <1>7, <1>8 DEF JInv

\* No row appears, and nothing is sent by way of the queue.
LEMMA EnqueueFailsKeepsJ ==
  ASSUME JInv, IInv', NEW m \in Message, EnqueueFails(m)
  PROVE  JInv'
<1>1. m \in Worker /\ work[m].pc = "new" /\ MessageInv(m)
  BY DEF EnqueueFails, Worker, JInv, IInv
<1>2. UNCHANGED <<kind, sent, muted, aborted, attempts, crashes>>
  BY DEF EnqueueFails, history
<1>3. /\ \A n \in Message : row'[n] = row[n]
      /\ faults \in Nat /\ faults' \in Nat /\ faults' >= faults
      /\ crashes \in Nat
      /\ \A n \in Message : row[n].rc \in Nat /\ attempts[n] \in Nat
  BY NumberFacts DEF EnqueueFails, Put, JInv, IInv, TypeOK
<1>4. /\ work'[m].pc = "over"
      /\ \A v \in Worker : v # m => work'[v] = work[v]
  BY <1>1, QuietPcs DEF EnqueueFails, JInv, IInv, TypeOK, Goto
<1>5. \A n \in Message : Paid(n) => Paid(n)'
  BY <1>2, <1>3 DEF Paid, Charge
<1>6. ASSUME NEW v \in Worker
      PROVE  AttemptInv(v)'
  <2>1. CASE v = m
    BY <1>4, <2>1, QuietPcs DEF AttemptInv
  <2>2. CASE v # m /\ work[v].pc \in AttemptPcs \cup {"reconcile"}
    <3>1. work[v].msg \in Message
      BY <2>2, HolderFacts DEF JInv, Holds, HoldPcs
    <3>2. AttemptInv(v) /\ work'[v] = work[v]
      BY <1>4, <2>2 DEF JInv
    <3> QED BY <1>2, <1>3, <1>5, <3>1, <3>2
            DEF AttemptInv, MarkInv, OnceInv, ProgressInv, Pending, Evident,
                Plain, Visible, Units, Done, PartSent
  <2>3. CASE v # m /\ work[v].pc \notin AttemptPcs \cup {"reconcile"}
    BY <1>4, <2>3 DEF AttemptInv
  <2> QED BY <2>1, <2>2, <2>3
<1>7. ASSUME NEW n \in Message
      PROVE  EntryInv(n)'
  <2>1. EntryInv(n) /\ n \in Worker
    BY DEF JInv, Worker
  <2>2. \A v \in Worker : AtWork(v, n) => AtWork(v, n)'
    BY <1>1, <1>4, QuietPcs DEF AtWork
  <2>3. PaidInv(n) => PaidInv(n)'
    BY <1>2, <1>3, <1>5, <2>2 DEF PaidInv, Paid, Charge, Unsendable, Pending
  <2>4. SentInv(n) => SentInv(n)'
    BY <1>2, <1>3 DEF SentInv, Evident, Pending
  <2>5. KeptInv(n) => KeptInv(n)'
    BY <1>2, <1>3 DEF KeptInv, Complete, PartSent, Units
  <2>6. work'[n].pc \in {"new", "queued"} => work[n].pc \in {"new", "queued"}
    BY <1>4, <2>1
  <2> QED BY <1>2, <1>3, <2>1, <2>3, <2>4, <2>5, <2>6 DEF EntryInv, Plain, Visible
<1> QED BY <1>6, <1>7 DEF JInv

\* An attempt begins when it is paid for and repeats no single send.
LEMMA BeginsKeepsJ ==
  ASSUME JInv, IInv', NEW w \in Worker, work[w].pc \notin AttemptPcs,
         NEW m \in Message, \A v \in Worker : ~ AtWork(v, m),
         Goto(w, At("unit", m)), Attempt(m),
         work[m].pc \notin {"new", "queued"} \/ w = m,
         Plain(m) => Paid(m),
         kind[m].units = 1 /\ Visible(m) => sent[m][1] = 0,
         UNCHANGED <<row, kind, sent, muted, aborted, crashes, faults>>
  PROVE  JInv'
<1> PICK y : y = At("unit", m)
  OBVIOUS
<1>1. /\ y.pc = "unit" /\ y.msg = m /\ y.unit = 1 /\ ~ y.got /\ ~ y.bad
      /\ y.pre = "no" /\ y.post = "no" /\ y.pc \in AttemptPcs
  BY DEF At, AttemptPcs, Sending
<1>2. /\ work'[w] = y
      /\ \A v \in Worker : v # w => work'[v] = work[v]
  BY DEF JInv, IInv, TypeOK, Goto
<1>3. /\ attempts'[m] = attempts[m] + 1
      /\ \A n \in Message : n # m => attempts'[n] = attempts[n]
  BY AttemptFacts DEF JInv, IInv, TypeOK, Attempt
<1>4. ASSUME NEW v \in Worker
      PROVE  AttemptInv(v)'
  <2>1. AttemptInv(v)
    BY DEF JInv
  <2>2. CASE v = w
    <3>1. MarkInv(m, y)'
      BY <1>1 DEF MarkInv
    <3>2. OnceInv(m, y)'
      BY DEF OnceInv, Visible
    <3>3. ProgressInv(m, y)'
      <4>1. 1 \in Units(m) /\ \A u \in Units(m) : ~ u < 1
        BY NumberFacts, DeliveryAssumption DEF JInv, Units
      <4> QED BY <1>1, <4>1 DEF ProgressInv, Units
    <3> QED BY <1>1, <1>2, <2>2, <3>1, <3>2, <3>3 DEF AttemptInv
  <2>3. CASE v # w /\ work[v].pc \in AttemptPcs
    <3>1. Holds(v)
      BY <2>3 DEF Holds, HoldPcs
    <3>2. PICK n \in Message : n = work[v].msg
      BY <3>1, HolderFacts DEF JInv
    <3>3. n # m
      BY <2>3, <3>2 DEF AtWork
    <3>4. attempts'[n] = attempts[n] /\ work'[v] = work[v]
      BY <1>2, <1>3, <2>3, <3>3
    <3> QED BY <2>1, <2>3, <3>2, <3>4
            DEF AttemptInv, MarkInv, OnceInv, ProgressInv, Pending, Evident,
                Plain, Visible, Units, Done, PartSent, Paid, Charge
  <2>4. CASE v # w /\ work[v].pc \notin AttemptPcs
    BY <1>2, <2>1, <2>4 DEF AttemptInv, Pending
  <2> QED BY <2>2, <2>3, <2>4
<1>5. ASSUME NEW n \in Message
      PROVE  EntryInv(n)'
  <2>1. EntryInv(n) /\ n \in Worker
    BY DEF JInv, Worker
  <2>2. SentInv(n) => SentInv(n)'
    BY DEF SentInv, Evident, Pending
  <2>3. KeptInv(n) => KeptInv(n)'
    BY DEF KeptInv, Complete, PartSent, Units
  <2>4. CASE n # m
    <3>1. \A v \in Worker : AtWork(v, n) => AtWork(v, n)'
      BY <1>2 DEF AtWork
    <3>2. PaidInv(n) => PaidInv(n)'
      BY <1>3, <2>4, <3>1 DEF PaidInv, Paid, Charge, Unsendable, Pending
    <3>3. work'[n].pc \in {"new", "queued"} => work[n].pc \in {"new", "queued"}
      BY <1>1, <1>2, <2>1
    <3> QED BY <1>3, <2>1, <2>2, <2>3, <2>4, <3>2, <3>3 DEF EntryInv, Plain, Visible
  <2>5. CASE n = m
    <3>1. work'[m].pc \notin {"new", "queued"}
      BY <1>1, <1>2, <2>1, <2>5
    <3>2. Plain(m) => PaidInv(m)'
      <4>1. /\ row[m].rc \in Nat /\ crashes \in Nat /\ faults \in Nat
            /\ attempts[m] \in Nat
        BY NumberFacts DEF JInv
      <4>2. AtWork(w, m)'
        BY <1>1, <1>2 DEF AtWork
      <4> QED BY <1>3, <4>1, <4>2 DEF PaidInv, Paid, Charge
    <3> QED BY <2>1, <2>2, <2>3, <2>5, <3>1, <3>2 DEF EntryInv, Plain, Visible
  <2> QED BY <2>4, <2>5
<1> QED BY <1>4, <1>5 DEF JInv

LEMMA ClaimLiveKeepsJ ==
  ASSUME JInv, IInv', NEW m \in Message, ClaimLive(m)
  PROVE  JInv'
<1>1. m \in Worker /\ work[m].pc = "queued" /\ MessageInv(m) /\ EntryInv(m)
      /\ work[m].pc \notin AttemptPcs
  BY QuietPcs DEF ClaimLive, Worker, JInv, IInv
<1>2. CASE m \in claims
  BY <1>1, <1>2, QuietPcs, ElsewhereOne DEF ClaimLive, history
<1>3. CASE m \notin claims
  <2>1. Goto(m, At("unit", m)) /\ Attempt(m)
        /\ UNCHANGED <<row, kind, sent, muted, aborted, crashes, faults>>
    BY <1>3 DEF ClaimLive
  <2>2. \A v \in Worker : ~ AtWork(v, m)
    BY <1>1, QuietPcs DEF MessageInv, AtWork, Holds, HoldPcs
  <2>3. attempts[m] = 0 /\ sent[m][1] = 0
    BY <1>1 DEF EntryInv
  <2>4. Paid(m)
    <3>1. row[m].rc \in Nat /\ crashes \in Nat /\ faults \in Nat
      BY NumberFacts DEF JInv
    <3> QED BY <2>3, <3>1 DEF Paid, Charge
  <2> QED BY <1>1, <2>1, <2>2, <2>3, <2>4, BeginsKeepsJ
<1> QED BY <1>2, <1>3

\* A drain that holds an entry is alone with it.
LEMMA DrainAlone ==
  ASSUME JInv, NEW d \in Recoverer, work[d].pc \in {"taken", "reconcile"},
         NEW m \in Message, m = work[d].msg
  PROVE  \A v \in Worker : ~ AtWork(v, m)
<1>1. d \in Worker /\ Holds(d) /\ work[d].pc \notin AttemptPcs
  BY ExaminingFacts, QuietPcs DEF JInv
<1> QED BY <1>1 DEF JInv, IInv, Exclusive, AtWork, Holds, HoldPcs

LEMMA BeginKeepsJ ==
  ASSUME JInv, IInv', NEW d \in Recoverer, Begin(d)
  PROVE  JInv'
<1>1. work[d].pc = "taken" /\ Examining(d) /\ Pending(work[d].msg)
      /\ work[d].pc \notin AttemptPcs
      /\ UNCHANGED <<row, kind, sent, muted, aborted, reported, crashes, faults>>
  BY QuietPcs DEF Begin, Examining
<1> PICK m \in Message : m = work[d].msg
  BY <1>1, ExaminingFacts DEF JInv
<1>2. d \in Worker /\ work[m].pc \notin {"new", "queued"} /\ EntryInv(m)
  BY <1>1, ExaminingFacts DEF JInv
<1>3. CASE row[m].rs = "none"
  <2>1. Goto(d, At("unit", m)) /\ Attempt(m)
    BY <1>3 DEF Begin
  <2>2. \A v \in Worker : ~ AtWork(v, m)
    BY <1>1, DrainAlone
  <2>3. Plain(m) => Paid(m)
    BY <1>1, <1>2, <1>3, <2>2 DEF EntryInv, PaidInv, Unsendable
  <2>4. kind[m].units = 1 /\ Visible(m) => sent[m][1] = 0
    <3>1. sent[m][1] \in Nat
      BY NumberFacts, DeliveryAssumption DEF JInv
    <3> QED BY <1>1, <1>2, <1>3, <3>1 DEF EntryInv, SentInv, Evident
  <2> QED BY <1>1, <1>2, <2>1, <2>2, <2>3, <2>4, BeginsKeepsJ
<1>4. CASE row[m].rs # "none"
  <2>1. Goto(d, At("reconcile", m)) /\ UNCHANGED attempts
    BY <1>4 DEF Begin
  <2> QED BY <1>1, <1>2, <2>1, QuietPcs, ElsewhereOne DEF history
<1> QED BY <1>3, <1>4

LEMMA ReconcileKeepsJ ==
  ASSUME JInv, IInv', NEW d \in Recoverer, Reconcile(d)
  PROVE  JInv'
<1>1. work[d].pc = "reconcile" /\ work[d].pc \notin AttemptPcs
      /\ UNCHANGED <<kind, todo, sent, muted, aborted, reported, crashes>>
  BY QuietPcs DEF Reconcile
<1> PICK m \in Message : m = work[d].msg
  BY <1>1, ExaminingFacts DEF JInv
<1>2. /\ d \in Worker /\ Holds(d) /\ EntryInv(m) /\ row[m] \in RowType
      /\ Pending(m) /\ aborted \subseteq aborted'
  BY <1>1, ExaminingFacts DEF JInv, AttemptInv
<1>3. work[m].pc \notin {"new", "queued"}
  BY <1>1, <1>2, HolderFacts DEF JInv
<1>4. PICK answer \in Answers(m) :
        \/ /\ Replayable(m, answer)
           /\ Attempt(m)
           /\ Goto(d, At("unit", m))
           /\ UNCHANGED <<row, claims, faults>>
        \/ /\ attempts' = attempts
           /\ \/ answer = "sent" /\ Put(m, Gone(row[m]), 0) /\ End(d)
              \/ Put(m, Failed(row[m]), 1) /\ End(d)
              \/ Put(m, row[m], 2) /\ End(d)
              \/ EndWith(d, Failed(row[m]))
              \/ EndWith(d, Dead(row[m]))
              \/ EndUnwritten(d)
  BY DEF Reconcile
<1>5. CASE /\ Replayable(m, answer)
           /\ Attempt(m)
           /\ Goto(d, At("unit", m))
           /\ UNCHANGED <<row, claims, faults>>
  <2>1. row[m].rs = "started" /\ ~ Seen(m)
    BY <1>5 DEF Replayable, Answers
  <2>2. \A v \in Worker : ~ AtWork(v, m)
    BY <1>1, DrainAlone
  <2>3. Plain(m) => Paid(m)
    BY <1>2, <2>1, <2>2 DEF EntryInv, PaidInv, Unsendable
  <2>4. kind[m].units = 1 /\ Visible(m) => sent[m][1] = 0
    <3>1. sent[m][1] \in Nat
      BY NumberFacts, DeliveryAssumption DEF JInv
    <3>2. ASSUME kind[m].units = 1, Visible(m) PROVE ~ sent[m][1] > 0
      <4>1. \A u \in 1 .. 1 : u = 1
        OBVIOUS
      <4> QED BY <2>1, <3>2, <4>1 DEF Seen, Complete, Visible
    <3> QED BY <3>1, <3>2
  <2> QED BY <1>1, <1>2, <1>3, <1>5, <2>1, <2>2, <2>3, <2>4, BeginsKeepsJ
<1>6. ASSUME attempts' = attempts, End(d), NEW r, NEW cost \in Nat, Put(m, r, cost),
             \/ r.rc = row[m].rc + 1
             \/ r.rc = row[m].rc /\ (cost # 0 \/ r.st # "pending"),
             r.rs = row[m].rs, r.st = "gone" => Complete(m)
      PROVE  JInv'
  BY <1>1, <1>2, <1>3, <1>6, EndByWrite DEF Pending
<1>7. CASE answer = "sent" /\ attempts' = attempts
           /\ Put(m, Gone(row[m]), 0) /\ End(d)
  <2> PICK r : r = Gone(row[m])
    OBVIOUS
  <2>1. r.rc = row[m].rc /\ r.st # "pending" /\ r.rs = row[m].rs /\ Complete(m)
    BY <1>2, <1>7, UpdateFacts DEF Answers, Seen
  <2> QED BY <1>6, <1>7, <2>1
<1>8. ASSUME NEW cost \in Nat, attempts' = attempts, Put(m, Failed(row[m]), cost),
             End(d)
      PROVE  JInv'
  <2> PICK r : r = Failed(row[m])
    OBVIOUS
  <2>1. r.rc = row[m].rc + 1 /\ r.st = "pending" /\ r.rs = row[m].rs
    BY <1>2, UpdateFacts DEF Pending
  <2> QED BY <1>6, <1>8, <2>1
<1>9. ASSUME NEW cost \in Nat \ {0}, attempts' = attempts, Put(m, row[m], cost), End(d)
      PROVE  JInv'
  <2>1. row[m].st # "gone"
    BY <1>2 DEF Pending
  <2> QED BY <1>6, <1>9, <2>1
<1>10. CASE attempts' = attempts /\ EndWith(d, Dead(row[m]))
  <2> PICK r : r = Dead(row[m])
    OBVIOUS
  <2>1. r.rc = row[m].rc /\ r.st = "failed" /\ r.rs = row[m].rs
    BY <1>2, UpdateFacts
  <2> QED BY <1>6, <1>10, <2>1 DEF EndWith
<1>11. Fault(m) = 1
  BY <1>2 DEF Fault
<1> QED BY <1>4, <1>5, <1>7, <1>8, <1>9, <1>10, <1>11 DEF EndWith, EndUnwritten

\* A crash pays for the next attempt, and hides no send.
LEMMA CrashKeepsJ ==
  ASSUME JInv, IInv', Crash
  PROVE  JInv'
<1>1. /\ crashes' = crashes + 1
      /\ UNCHANGED <<row, kind, muted, aborted, reported, attempts, faults>>
  BY DEF Crash
<1>2. ASSUME NEW w \in Worker
      PROVE  /\ work'[w].pc \in {"new", "over", "idle"}
             /\ work'[w].pc = "new" => work[w].pc = "new"
  BY DEF Crash, At
<1>3. ASSUME NEW w \in Worker
      PROVE  AttemptInv(w)'
  BY <1>2 DEF AttemptInv, AttemptPcs, Sending
<1>4. PICK arrived \in SUBSET {w \in Worker : work[w].pc = "io"} :
        sent' = [m \in Message |-> [u \in 1 .. MaxUnits |->
          IF \E w \in arrived : work[w].msg = m /\ work[w].unit = u
            THEN sent[m][u] + 1 ELSE sent[m][u]]]
  BY DEF Crash
<1>5. ASSUME NEW m \in Message
      PROVE  EntryInv(m)'
  <2>1. EntryInv(m) /\ MessageInv(m) /\ m \in Worker
    BY DEF JInv, IInv, Worker
  <2>2. /\ \A u \in 1 .. MaxUnits :
             /\ sent[m][u] \in Nat
             /\ sent'[m][u] \in {sent[m][u], sent[m][u] + 1}
        /\ 1 \in 1 .. MaxUnits
    BY <1>4, NumberFacts, DeliveryAssumption DEF JInv
  <2>3. sent'[m][1] = sent[m][1] \/ \E w \in Worker :
          work[w].pc = "io" /\ work[w].msg = m
    BY <1>4, <2>2
  <2>4. work'[m].pc \in {"new", "queued"} => attempts'[m] = 0 /\ sent'[m][1] = 0
    <3>1. ASSUME work[m].pc = "new", NEW w \in Worker, work[w].pc = "io",
                 work[w].msg = m
          PROVE  FALSE
      BY <2>1, <3>1 DEF MessageInv, Holds, HoldPcs, AttemptPcs, Sending
    <3> QED BY <1>1, <1>2, <2>1, <2>3, <3>1 DEF EntryInv
  <2>5. Plain(m) => PaidInv(m)'
    <3>1. /\ row[m].rc \in Nat /\ crashes \in Nat /\ faults \in Nat
          /\ attempts[m] \in Nat
      BY NumberFacts DEF JInv
    <3>2. Plain(m) => attempts[m] <= 1 + Charge(m)
      BY <2>1 DEF EntryInv, PaidInv
    <3> QED BY <1>1, <3>1, <3>2 DEF PaidInv, Paid, Charge
  <2>6. ASSUME kind[m].units = 1, Visible(m)
        PROVE  SentInv(m)'
    <3>1. SentInv(m)
      BY <2>1, <2>6 DEF EntryInv
    <3>2. CASE sent'[m][1] = sent[m][1]
      BY <1>1, <3>1, <3>2 DEF SentInv, Evident, Pending
    <3>3. ASSUME NEW w \in Worker, work[w].pc = "io", work[w].msg = m
          PROVE  SentInv(m)'
      <4> PICK x : x = work[w]
        OBVIOUS
      <4>1. x.pc \in AttemptPcs /\ x.pc = "io"
        BY <3>3 DEF AttemptPcs, Sending
      <4>2. x \in WorkType /\ MarkInv(m, x) /\ OnceInv(m, x)
        BY <3>3, <4>1, OwnEntry
      <4>3. ~ sent[m][1] > 0
        BY <2>6, <4>1, <4>2 DEF OnceInv
      <4>4. Evident(m)
        BY <4>1, <4>2 DEF MarkInv, WorkType, Evident
      <4> QED BY <1>1, <2>2, <4>3, <4>4 DEF SentInv, Evident, Pending
    <3> QED BY <2>3, <3>2, <3>3
  <2>7. KeptInv(m) => KeptInv(m)'
    <3>1. \A u \in 1 .. MaxUnits : sent[m][u] > 0 => sent'[m][u] > 0
      BY <2>2
    <3>2. \A u \in Units(m) : u \in 1 .. MaxUnits
      BY NumberFacts DEF JInv
    <3>3. Complete(m) => Complete(m)'
      BY <1>1, <3>1, <3>2 DEF Complete, Units
    <3>4. PartSent(m) => PartSent(m)'
      BY <1>1, <3>1, <3>2 DEF PartSent, Units
    <3> QED BY <1>1, <3>3, <3>4 DEF KeptInv
  <2> QED BY <1>1, <2>1, <2>4, <2>5, <2>6, <2>7 DEF EntryInv, Plain, Visible
<1> QED BY <1>3, <1>5 DEF JInv

-----------------------------------------------------------------------------
(* The invariant holds in every state. *)

\* Nothing was sent, marked or attempted yet.
LEMMA InitJ == Init => JInv
<1> SUFFICES ASSUME Init PROVE JInv
  OBVIOUS
<1>1. IInv
  BY InitInv
<1>2. ASSUME NEW w \in Worker
      PROVE  AttemptInv(w)
  <2>1. work[w].pc \in {"new", "idle"}
    BY DEF Init, At
  <2> QED BY <2>1 DEF AttemptInv, AttemptPcs, Sending
<1>3. ASSUME NEW m \in Message
      PROVE  EntryInv(m)
  <2>1. /\ row[m].st = "none" /\ attempts[m] = 0 /\ sent[m][1] = 0
        /\ row[m].rc = 0 /\ crashes = 0 /\ faults = 0
    BY DeliveryAssumption DEF Init
  <2> QED BY <2>1 DEF EntryInv, PaidInv, Paid, Charge, SentInv, KeptInv
<1> QED BY <1>1, <1>2, <1>3 DEF JInv

\* Every step keeps the invariant.
LEMMA NextJ ==
  ASSUME JInv, [Next]_vars
  PROVE  JInv'
<1>1. IInv'
  BY NextInv DEF JInv
<1>2. CASE UNCHANGED vars
  BY <1>1, <1>2, Elsewhere DEF vars
<1>3. ASSUME NEW w \in Worker, DeliverStep(w)
      PROVE  JInv'
  BY <1>1, <1>3, SuppressKeepsJ, SendStartKeepsJ, DispatchKeepsJ,
     PlatformAcceptsKeepsJ, PlatformSendsNothingKeepsJ, PlatformFailsKeepsJ,
     ResultKeepsJ, PersistEvidenceKeepsJ, FinishPartialKeepsJ, FinishWholeKeepsJ
     DEF DeliverStep
<1>4. ASSUME NEW m \in Message, LiveStep(m)
      PROVE  JInv'
  BY <1>1, <1>4, EnqueueKeepsJ, EnqueueFailsKeepsJ, ClaimLiveKeepsJ, AbortKeepsJ, LiveAbortsKeepsJ,
     LiveFailsKeepsJ DEF LiveStep
<1>5. ASSUME NEW d \in Recoverer, RecoverStep(d)
      PROVE  JInv'
  BY <1>1, <1>5, SnapshotKeepsJ, DrainEndsKeepsJ, TakeKeepsJ, SkipGoneKeepsJ,
     DeadLetterKeepsJ, DeferKeepsJ, BeginKeepsJ, ReconcileKeepsJ, ReplayFailsKeepsJ
     DEF RecoverStep
<1> QED BY <1>1, <1>2, <1>3, <1>4, <1>5, DeadlinePassesKeepsJ, CrashKeepsJ DEF Next

LEMMA SendInvariance == Spec => []JInv
BY InitJ, NextJ, PTL DEF Spec

(* Every adapter sees its own sends when it is asked about them. *)
MarkedKinds == \A k \in Kinds : k.byMark => k.exact

\* A message of one send reaches the platform at most once, whatever writes
\* fail and wherever the process crashes, if the adapter that is asked about
\* it sees its own sends (drainQueuedEntry: a started send "cannot be blindly
\* replayed; adapters must reconcile").
THEOREM NoDoubleSendAlways ==
  ASSUME MarkedKinds
  PROVE  Spec => []NoDoubleSend
<1>1. JInv => NoDoubleSend
  <2> SUFFICES ASSUME JInv, NEW m \in Message, kind[m].units = 1
               PROVE  sent[m][1] <= 1
    BY DEF NoDoubleSend
  <2>1. Visible(m)
    BY DEF MarkedKinds, Visible, JInv, IInv, TypeOK
  <2> QED BY <2>1 DEF JInv, EntryInv, SentInv
<1> QED BY <1>1, SendInvariance, PTL

\* Every attempt after the first was paid for by a counted retry, a crash or a
\* failed write, if no adapter with a dispatch hook sends more than one unit:
\* together with TypeCorrect, MAX_RETRIES bounds the replays.
THEOREM ReplaysAreCountedAlways ==
  ASSUME PlainKinds
  PROVE  Spec => []ReplaysAreCounted
<1>1. JInv => ReplaysAreCounted
  <2> SUFFICES ASSUME JInv, NEW m \in Message
               PROVE  attempts[m] <= 1 + row[m].rc + crashes + faults
    BY DEF ReplaysAreCounted
  <2>1. Plain(m)
    BY DEF PlainKinds, Plain, JInv, IInv, TypeOK
  <2>2. attempts[m] <= 1 + Charge(m)
    BY <2>1 DEF JInv, EntryInv, PaidInv
  <2>3. row[m].rc \in Nat /\ crashes \in Nat /\ faults \in Nat /\ attempts[m] \in Nat
    BY NumberFacts DEF JInv
  <2> QED BY <2>2, <2>3 DEF Charge
<1> QED BY <1>1, SendInvariance, PTL

\* The row of a required message disappears only when all of it was delivered
\* or left out, when it was aborted, or when a part of it was sent and the
\* queue could not be written (persistQueuedPreSendState).
THEOREM RequiredIsNotLostAlways == Spec => []RequiredIsNotLost
<1>1. JInv => RequiredIsNotLost
  BY DEF JInv, EntryInv, KeptInv, RequiredIsNotLost, Complete, PartSent, Units
<1> QED BY <1>1, SendInvariance, PTL

-----------------------------------------------------------------------------
(* The ledger of DeliveryLedger, which rows, claims and marks keep.        *)

Status == [m \in Message |-> row[m].st]
Busy == {m \in Message : \E w \in Worker : Attempting(w) /\ work[w].msg = m}
Singles == {m \in Message : kind[m].units = 1}
Copies == [m \in Message |-> IF kind[m].units = 1 THEN sent[m][1] ELSE 0]

(* What may become of the status of a row. *)
Moves(r, s) ==
  s.st = r.st \/ (r.st = "pending" /\ s.st \in {"gone", "failed"})

(* At most the row of m is written, and only to settle it. *)
Writes(m) == row' = [row EXCEPT ![m] = row'[m]] /\ Moves(row[m], row'[m])

Settles(m) ==
  \/ Status' = Status
  \/ /\ Status[m] = "pending"
     /\ Status' \in {[Status EXCEPT ![m] = "gone"], [Status EXCEPT ![m] = "failed"]}

(* At most worker w moves, and not to another message. *)
Moved(w) ==
  /\ Goto(w, work'[w])
  /\ work'[w].pc \in AttemptPcs => work'[w].msg = work[w].msg

\* Each of these is a step of the ledger, or none.
LEMMA LedgerRecords ==
  ASSUME NEW m \in Message, m \in Busy, Settles(m), Busy' \in {Busy, Busy \ {m}},
         reported' \in {reported, reported \cup {m}},
         UNCHANGED <<attempts, Singles, Copies>>
  PROVE  [Ledger!Next]_(Ledger!vars)
BY DEF Ledger!Next, Ledger!Record, Ledger!Settle, Ledger!vars, Settles, Status,
       Busy, Singles, Copies

LEMMA LedgerDisposes ==
  ASSUME NEW m \in Message, m \notin Busy, Settles(m),
         UNCHANGED <<Busy, reported, attempts, Singles, Copies>>
  PROVE  [Ledger!Next]_(Ledger!vars)
BY DEF Ledger!Next, Ledger!Dispose, Ledger!Settle, Ledger!vars, Settles, Status,
       Busy, Singles, Copies

LEMMA LedgerArrives ==
  ASSUME NEW m \in Message, m \in Busy \cap Singles, Copies[m] = 0,
         Copies' = [Copies EXCEPT ![m] = 1],
         UNCHANGED <<Status, Busy, attempts, reported, Singles>>
  PROVE  [Ledger!Next]_(Ledger!vars)
BY DEF Ledger!Next, Ledger!Arrive, Ledger!vars, Status, Busy, Singles, Copies

LEMMA LedgerBegins ==
  ASSUME NEW m \in Message, Status[m] = "pending", m \notin Busy \cup reported,
         Copies[m] = 0, Busy' = Busy \cup {m}, Attempt(m),
         UNCHANGED <<Status, reported, Singles, Copies>>
  PROVE  [Ledger!Next]_(Ledger!vars)
BY DEF Ledger!Next, Ledger!Begin, Ledger!vars, Attempt, Status, Busy, Singles, Copies

LEMMA LedgerPosts ==
  ASSUME NEW m \in Message, Status[m] = "none",
         Status' = [Status EXCEPT ![m] = "pending"],
         UNCHANGED <<Busy, attempts, reported, Singles, Copies>>
  PROVE  [Ledger!Next]_(Ledger!vars)
BY DEF Ledger!Next, Ledger!Post, Ledger!vars, Status, Busy, Singles, Copies

LEMMA LedgerCrashes ==
  ASSUME Busy' = {},
         NEW A \in SUBSET {m \in Busy \cap Singles : Copies[m] = 0},
         Copies' = [m \in Message |-> IF m \in A THEN 1 ELSE Copies[m]],
         UNCHANGED <<Status, attempts, reported, Singles>>
  PROVE  [Ledger!Next]_(Ledger!vars)
BY DEF Ledger!Next, Ledger!Crash, Ledger!vars, Status, Busy, Singles, Copies

LEMMA LedgerRests ==
  ASSUME UNCHANGED <<Status, Busy, attempts, reported, Singles, Copies>>
  PROVE  [Ledger!Next]_(Ledger!vars)
BY DEF Ledger!vars, Status, Busy, Singles, Copies

-----------------------------------------------------------------------------
(* What the writes and moves of a step do to the ledger. *)

\* No update of a row but the first write makes it pending.
LEMMA MoveFacts ==
  ASSUME NEW r \in RowType
  PROVE  /\ Moves(r, r) /\ Moves(r, Started(r)) /\ Moves(r, Unknown(r))
         /\ Moves(r, Gone(r)) /\ Moves(r, Failed(r)) /\ Moves(r, FailedUnsent(r))
         /\ Moves(r, FailedAfterSend(r))
         /\ r.st = "pending" => Moves(r, Dead(r))
<1>1. Gone(r).st \in {r.st, "gone"} /\ (Gone(r).st # r.st => r.st = "pending")
  BY DEF RowType, Gone
<1> QED BY <1>1, UpdateFacts DEF Moves

\* A write settles its row, or leaves its status alone.
LEMMA WriteSettles ==
  ASSUME TypeOK, NEW m \in Message, Writes(m)
  PROVE  Settles(m)
<1>1. \A n \in Message : n # m => row'[n] = row[n]
  BY Zenon DEF Writes, TypeOK
<1>2. /\ row'[m].st = row[m].st => Status' = Status
      /\ row'[m].st = "gone" => Status' = [Status EXCEPT ![m] = "gone"]
      /\ row'[m].st = "failed" => Status' = [Status EXCEPT ![m] = "failed"]
  BY <1>1 DEF Status
<1> QED BY <1>2 DEF Writes, Moves, Settles, Status

LEMMA PutWrites ==
  ASSUME TypeOK, NEW m \in Message, NEW r, NEW cost, Put(m, r, cost), Moves(row[m], r)
  PROVE  Writes(m)
<1>1. row' = [row EXCEPT ![m] = r] /\ row'[m] = r
  BY Zenon DEF Put, TypeOK
<1> QED BY <1>1 DEF Writes

LEMMA NothingWritten ==
  ASSUME TypeOK, NEW m \in Message, row' = row
  PROVE  Writes(m)
<1>1. row = [row EXCEPT ![m] = row[m]]
  BY Zenon DEF TypeOK
<1> QED BY <1>1 DEF Writes, Moves

\* The messages somebody is at work on, seen from one worker.
LEMMA BusyFacts ==
  ASSUME IInv, NEW w \in Worker, Goto(w, work'[w])
  PROVE  /\ work[w].pc \notin AttemptPcs /\ work'[w].pc \notin AttemptPcs =>
              Busy' = Busy
         /\ \A m \in Message :
              /\ work[w].pc \notin AttemptPcs /\ work'[w].pc \in AttemptPcs
                   /\ work'[w].msg = m => Busy' = Busy \cup {m}
              /\ work[w].pc \in AttemptPcs /\ work[w].msg = m => m \in Busy
              /\ work[w].pc \in AttemptPcs /\ work'[w].pc \in AttemptPcs
                   /\ work[w].msg = m /\ work'[w].msg = m => Busy' = Busy
              /\ work[w].pc \in AttemptPcs /\ work[w].msg = m
                   /\ work'[w].pc \notin AttemptPcs => Busy' = Busy \ {m}
<1>1. \A v \in Worker : v # w => work'[v] = work[v]
  BY Zenon DEF Goto, IInv, TypeOK
<1>2. \A v \in Worker : Attempting(v) <=> work[v].pc \in AttemptPcs
  BY DEF Attempting, AttemptPcs, Sending
<1>3. \A v \in Worker : Attempting(v)' <=> work'[v].pc \in AttemptPcs
  BY DEF Attempting, AttemptPcs, Sending
<1>4. \A v \in Worker : v # w /\ work[v].pc \in AttemptPcs /\ work[w].pc \in AttemptPcs
        => work[v].msg # work[w].msg
  BY DEF IInv, Exclusive, Holds, HoldPcs
<1>5. \A n : n \in Busy <=>
        n \in Message /\ \E v \in Worker : work[v].pc \in AttemptPcs /\ work[v].msg = n
  BY <1>2 DEF Busy
<1>6. \A n : n \in Busy' <=>
        n \in Message /\ \E v \in Worker : work'[v].pc \in AttemptPcs /\ work'[v].msg = n
  BY <1>3 DEF Busy
<1> HIDE DEF Busy
<1>7. work[w].pc \notin AttemptPcs /\ work'[w].pc \notin AttemptPcs => Busy' = Busy
  BY <1>1, <1>5, <1>6
<1>8. ASSUME NEW m \in Message, work[w].pc \notin AttemptPcs,
             work'[w].pc \in AttemptPcs, work'[w].msg = m
      PROVE  Busy' = Busy \cup {m}
  BY <1>1, <1>5, <1>6, <1>8
<1>9. ASSUME NEW m \in Message, work[w].pc \in AttemptPcs, work[w].msg = m
      PROVE  /\ m \in Busy
             /\ work'[w].pc \in AttemptPcs /\ work'[w].msg = m => Busy' = Busy
             /\ work'[w].pc \notin AttemptPcs => Busy' = Busy \ {m}
  <2>1. m \in Busy
    BY <1>5, <1>9
  <2>2. work'[w].pc \in AttemptPcs /\ work'[w].msg = m => Busy' = Busy
    BY <1>1, <1>5, <1>6, <1>9
  <2>3. work'[w].pc \notin AttemptPcs => Busy' = Busy \ {m}
    BY <1>1, <1>4, <1>5, <1>6, <1>9
  <2> QED BY <2>1, <2>2, <2>3
<1> QED BY <1>7, <1>8, <1>9

-----------------------------------------------------------------------------
(* An attempt records what it knows. *)

(* A step of an attempt that no platform answers with a send. *)
Records(w) ==
  /\ work[w].pc \in AttemptPcs
  /\ Moved(w)
  /\ Writes(work[w].msg)
  /\ reported' \in {reported, reported \cup {work[w].msg}}
  /\ UNCHANGED <<kind, attempts, sent>>

\* What an attempt records is a step of the ledger.
LEMMA RecordsKeepLedger ==
  ASSUME JInv, NEW w \in Worker, Records(w)
  PROVE  [Ledger!Next]_(Ledger!vars)
<1>1. IInv /\ TypeOK /\ Goto(w, work'[w])
  BY DEF JInv, IInv, Records, Moved
<1>2. PICK m \in Message : m = work[w].msg
  BY <1>1, UnitFacts DEF Records
<1>3. Settles(m)
  BY <1>1, <1>2, WriteSettles DEF Records
<1>4. m \in Busy /\ Busy' \in {Busy, Busy \ {m}}
  BY <1>1, <1>2, BusyFacts DEF Records, Moved
<1>5. UNCHANGED <<attempts, Singles, Copies>>
  BY DEF Records, Singles, Copies
<1> QED BY <1>2, <1>3, <1>4, <1>5, LedgerRecords DEF Records

\* A worker that goes somewhere is there.
LEMMA GotoFacts ==
  ASSUME TypeOK, NEW w \in Worker, NEW y, Goto(w, y)
  PROVE  work'[w] = y /\ Goto(w, work'[w])
<1>1. work'[w] = y
  BY Zenon DEF Goto, TypeOK
<1> QED BY <1>1

\* The end of an attempt is a move.
LEMMA EndMoves ==
  ASSUME TypeOK, NEW w \in Worker, End(w)
  PROVE  Moved(w) /\ work'[w].pc \in {"over", "loop"}
<1> DEFINE y == IF Live(w) THEN At("over", w) ELSE At("loop", NoMessage)
<1>1. Goto(w, y)
  BY DEF End
<1>2. y.pc \in {"over", "loop"}
  BY DEF At
<1> HIDE DEF y
<1>3. work'[w] = y /\ Goto(w, work'[w])
  BY <1>1, GotoFacts
<1> QED BY <1>2, <1>3 DEF Moved, AttemptPcs, Sending

\* A move within an attempt.
LEMMA StepMoves ==
  ASSUME TypeOK, NEW w \in Worker, NEW y, Goto(w, y), y.msg = work[w].msg
  PROVE  Moved(w)
BY GotoFacts DEF Moved

\* Both ends of a unit are moves.
LEMMA LeaveMoves ==
  ASSUME TypeOK, NEW w \in Worker, NEW x \in WorkType, x.msg = work[w].msg,
         x.msg \in Message,
         \/ Goto(w, Advance(x))
         \/ \E err \in {"proven", "other", "permanent", "abort"} :
              Goto(w, Break(x, err))
  PROVE  Moved(w)
<1>1. CASE Goto(w, Advance(x))
  BY <1>1, AdvanceFacts, StepMoves
<1>2. ASSUME NEW err \in {"proven", "other", "permanent", "abort"},
             Goto(w, Break(x, err))
      PROVE  Moved(w)
  BY <1>2, BreakFacts, StepMoves
<1> QED BY <1>1, <1>2

\* A step of an attempt that writes no row.
LEMMA QuietRecords ==
  ASSUME JInv, NEW w \in Worker, work[w].pc \in AttemptPcs, Moved(w),
         UNCHANGED <<row, kind, attempts, sent, reported>>
  PROVE  Records(w)
<1>1. IInv /\ TypeOK
  BY DEF JInv, IInv
<1>2. work[w].msg \in Message
  BY <1>1, UnitFacts
<1> QED BY <1>1, <1>2, NothingWritten DEF Records

\* A step of an attempt that writes its row.
LEMMA WriteRecords ==
  ASSUME JInv, NEW w \in Worker, work[w].pc \in AttemptPcs, Moved(w),
         NEW r, NEW cost, Put(work[w].msg, r, cost), Moves(row[work[w].msg], r),
         reported' \in {reported, reported \cup {work[w].msg}},
         UNCHANGED <<kind, attempts, sent>>
  PROVE  Records(w)
<1>1. IInv /\ TypeOK
  BY DEF JInv, IInv
<1>2. work[w].msg \in Message
  BY <1>1, UnitFacts
<1> QED BY <1>1, <1>2, PutWrites DEF Records

LEMMA SuppressRecords ==
  ASSUME JInv, NEW w \in Worker, Suppress(w)
  PROVE  Records(w)
<1>1. IInv /\ TypeOK /\ work[w].pc \in AttemptPcs
  BY DEF JInv, IInv, Suppress, AttemptPcs, Sending
<1>2. work[w] \in WorkType /\ work[w].msg \in Message
  BY <1>1, UnitFacts
<1>3. Moved(w)
  BY <1>1, <1>2, LeaveMoves DEF Suppress
<1> QED BY <1>1, <1>3, QuietRecords DEF Suppress

LEMMA AbortRecords ==
  ASSUME JInv, NEW m \in Message, Abort(m)
  PROVE  Records(m)
<1>1. IInv /\ TypeOK /\ m \in Worker /\ work[m].pc \in AttemptPcs
  BY DEF JInv, IInv, Abort, AttemptPcs, Sending, Worker
<1>2. work[m] \in WorkType /\ work[m].msg \in Message
  BY <1>1, UnitFacts
<1>3. Moved(m)
  BY <1>1, <1>2, LeaveMoves DEF Abort
<1> QED BY <1>1, <1>3, QuietRecords DEF Abort, history

LEMMA PlatformSendsNothingRecords ==
  ASSUME JInv, NEW w \in Worker, PlatformSendsNothing(w)
  PROVE  Records(w)
<1>1. IInv /\ TypeOK /\ work[w].pc \in AttemptPcs
  BY DEF JInv, IInv, PlatformSendsNothing, AttemptPcs, Sending
<1>2. work[w] \in WorkType /\ work[w].msg \in Message
  BY <1>1, UnitFacts
<1>3. Moved(w)
  BY <1>1, <1>2, LeaveMoves DEF PlatformSendsNothing, AfterSend
<1> QED BY <1>1, <1>3, QuietRecords DEF PlatformSendsNothing

\* The marks around a send settle nothing but what they give up.
LEMMA PreSendMoves ==
  ASSUME TypeOK, NEW m \in Message, NEW o \in PreSend(m)
  PROVE  Moves(row[m], o.row) /\ (o.pre = "no" => o.row = row[m])
<1>1. row[m] \in RowType
  BY DEF TypeOK
<1> QED BY <1>1, MoveFacts, PreSendFacts DEF PreSend

LEMMA PostSendMoves ==
  ASSUME TypeOK, NEW m \in Message, NEW o \in PostSend(m)
  PROVE  Moves(row[m], o.row)
<1>1. row[m] \in RowType
  BY DEF TypeOK
<1> QED BY <1>1, MoveFacts DEF PostSend

LEMMA SendStartRecords ==
  ASSUME JInv, NEW w \in Worker, SendStart(w)
  PROVE  Records(w)
<1> DEFINE x == work[w]
           m == x.msg
           sends == IF kind[m].hooked THEN "dispatch" ELSE "io"
<1>1. IInv /\ TypeOK /\ x.pc \in AttemptPcs
      /\ UNCHANGED <<kind, attempts, sent, reported>>
  BY DEF JInv, IInv, SendStart, AttemptPcs, Sending, history
<1>2. x \in WorkType /\ m \in Message
  BY <1>1, UnitFacts
<1>3. CASE Goto(w, [x EXCEPT !.pc = sends]) /\ row' = row
  <2>1. [x EXCEPT !.pc = sends].msg = m
    BY <1>2 DEF WorkType
  <2> QED BY <1>1, <1>3, <2>1, StepMoves, QuietRecords
<1>4. ASSUME NEW o \in PreSend(m), Put(m, o.row, o.cost),
             Goto(w, IF o.pre = "no" THEN Break(x, "other")
                     ELSE [x EXCEPT
                             !.pc = sends, !.pre = o.pre,
                             !.post = IF Live(w) /\ o.pre = "acked"
                                        THEN "acked" ELSE @])
      PROVE  Records(w)
  <2>1. Moved(w)
    <3>1. CASE o.pre = "no"
      BY <1>1, <1>2, <1>4, <3>1, LeaveMoves
    <3>2. CASE o.pre # "no"
      <4> DEFINE y == [x EXCEPT !.pc = sends, !.pre = o.pre,
                                !.post = IF Live(w) /\ o.pre = "acked"
                                           THEN "acked" ELSE @]
      <4>1. Goto(w, y)
        BY <1>4, <3>2
      <4>2. y.msg = m
        BY <1>2 DEF WorkType
      <4> HIDE DEF y
      <4> QED BY <1>1, <4>1, <4>2, StepMoves
    <3> QED BY <3>1, <3>2
  <2>2. Moves(row[m], o.row)
    BY <1>1, <1>2, PreSendMoves
  <2> QED BY <1>1, <1>4, <2>1, <2>2, WriteRecords
<1> QED BY <1>3, <1>4, Zenon DEF SendStart

LEMMA DispatchRecords ==
  ASSUME JInv, NEW w \in Worker, Dispatch(w)
  PROVE  Records(w)
<1> DEFINE x == work[w]
           m == x.msg
           marked == [x EXCEPT !.pc = "io", !.pre = IF @ = "no" THEN "marked" ELSE @]
           io == [x EXCEPT !.pc = "io"]
<1>1. IInv /\ TypeOK /\ x.pc \in AttemptPcs
      /\ UNCHANGED <<kind, attempts, sent, reported>>
  BY DEF JInv, IInv, Dispatch, AttemptPcs, Sending, history
<1>2. x \in WorkType /\ m \in Message /\ row[m] \in RowType
  BY <1>1, UnitFacts
<1>3. marked.msg = m /\ io.msg = m
  BY <1>2 DEF WorkType
<1>4. \/ Goto(w, io) /\ row' = row
      \/ Put(m, Started(row[m]), 0) /\ Goto(w, marked)
      \/ Put(m, row[m], Fault(m)) /\ (Goto(w, Break(x, "other")) \/ Goto(w, io))
  BY Zenon DEF Dispatch
<1> HIDE DEF marked, io
<1>5. CASE Goto(w, io) /\ row' = row
  BY <1>1, <1>3, <1>5, StepMoves, QuietRecords
<1>6. CASE Put(m, Started(row[m]), 0) /\ Goto(w, marked)
  BY <1>1, <1>2, <1>3, <1>6, StepMoves, MoveFacts, WriteRecords
<1>7. CASE /\ Put(m, row[m], Fault(m))
           /\ Goto(w, Break(x, "other")) \/ Goto(w, io)
  <2>1. Moved(w)
    BY <1>1, <1>2, <1>3, <1>7, StepMoves, LeaveMoves
  <2> QED BY <1>1, <1>2, <1>7, <2>1, MoveFacts, WriteRecords
<1> QED BY <1>4, <1>5, <1>6, <1>7

LEMMA ResultRecords ==
  ASSUME JInv, NEW w \in Worker, Result(w)
  PROVE  Records(w)
<1> DEFINE x == [work[w] EXCEPT !.got = TRUE]
           m == x.msg
<1>1. IInv /\ TypeOK /\ work[w].pc \in AttemptPcs
      /\ UNCHANGED <<kind, attempts, sent>>
  <2>1. x.pc = "result" /\ UNCHANGED <<kind, attempts, sent>>
    BY Zenon DEF Result
  <2>2. IInv /\ TypeOK /\ work[w] \in WorkType
    BY DEF JInv, IInv, TypeOK
  <2> QED BY <2>1, <2>2 DEF WorkType, AttemptPcs, Sending
<1>2. work[w] \in WorkType /\ work[w].msg \in Message
  BY <1>1, UnitFacts
<1>3. x \in WorkType /\ m = work[w].msg
  BY <1>2 DEF WorkType
<1>4. \/ /\ Goto(w, Advance(x)) \/ Goto(w, Break(x, "other"))
         /\ row' = row /\ reported' = reported
      \/ \E o \in PostSend(m) :
           /\ Put(m, o.row, o.cost)
           /\ reported' = Evidence(m, o.row)
           /\ \/ Goto(w, Break(x, "other"))
              \/ Goto(w, Advance([x EXCEPT !.post = o.post]))
              \/ Goto(w, Break([x EXCEPT !.post = o.post], "other"))
  BY DEF Result, AfterSend
<1> HIDE DEF x
<1>5. CASE /\ Goto(w, Advance(x)) \/ Goto(w, Break(x, "other"))
           /\ row' = row /\ reported' = reported
  BY <1>1, <1>2, <1>3, <1>5, LeaveMoves, QuietRecords
<1>6. ASSUME NEW o \in PostSend(m), Put(m, o.row, o.cost),
             reported' = Evidence(m, o.row),
             \/ Goto(w, Break(x, "other"))
             \/ Goto(w, Advance([x EXCEPT !.post = o.post]))
             \/ Goto(w, Break([x EXCEPT !.post = o.post], "other"))
      PROVE  Records(w)
  <2>1. o.post \in {"no", "marked", "acked", "failed"}
    BY <1>6 DEF PostSend
  <2>2. [x EXCEPT !.post = o.post] \in WorkType
        /\ [x EXCEPT !.post = o.post].msg = m
    BY <1>3, <2>1 DEF WorkType
  <2>3. Moved(w)
    BY <1>1, <1>2, <1>3, <1>6, <2>2, LeaveMoves
  <2>4. Moves(row[m], o.row)
    BY <1>1, <1>2, <1>3, PostSendMoves
  <2>5. reported' \in {reported, reported \cup {m}}
    BY <1>6 DEF Evidence
  <2> QED BY <1>1, <1>3, <1>6, <2>3, <2>4, <2>5, WriteRecords
<1> QED BY <1>4, <1>5, <1>6

LEMMA PersistEvidenceRecords ==
  ASSUME JInv, NEW w \in Worker, PersistEvidence(w)
  PROVE  Records(w)
<1> DEFINE x == work[w]
           m == x.msg
<1>1. IInv /\ TypeOK /\ x.pc \in AttemptPcs
      /\ UNCHANGED <<kind, attempts, sent>>
  BY DEF JInv, IInv, PersistEvidence, AttemptPcs, Sending
<1>2. x \in WorkType /\ m \in Message
  BY <1>1, UnitFacts
<1>3. PICK o \in PostSend(m) :
        /\ Put(m, o.row, o.cost)
        /\ reported' = IF x.got THEN Evidence(m, o.row) ELSE reported
        /\ \/ End(w)
           \/ Goto(w, [x EXCEPT !.pc = "caught", !.err = "other"])
           \/ Goto(w, [x EXCEPT !.post = o.post])
  BY Zenon DEF PersistEvidence
<1>4. [x EXCEPT !.pc = "caught", !.err = "other"].msg = m
      /\ [x EXCEPT !.post = o.post].msg = m
  BY <1>2 DEF WorkType
<1>5. Moved(w)
  BY <1>1, <1>3, <1>4, EndMoves, StepMoves
<1>6. Moves(row[m], o.row)
  BY <1>1, <1>2, PostSendMoves
<1>7. reported' \in {reported, reported \cup {m}}
  BY <1>3 DEF Evidence
<1> QED BY <1>1, <1>3, <1>5, <1>6, <1>7, WriteRecords

\* The ends of an attempt.
LEMMA EndRecords ==
  ASSUME JInv, NEW w \in Worker, work[w].pc \in AttemptPcs,
         NEW m, m = work[w].msg,
         UNCHANGED <<kind, attempts, sent, reported>>,
         NEW r, Moves(row[m], r),
         \/ EndSilently(w)
         \/ EndWith(w, r)
         \/ EndUnwritten(w)
         \/ Caught(w)
         \/ \E cost \in Nat : Put(m, r, cost) /\ End(w)
         \/ \E cost \in Nat : Put(m, row[m], cost) /\ End(w)
         \/ \E cost \in Nat :
              /\ Put(m, row[m], cost)
              /\ Goto(w, [work[w] EXCEPT !.pc = "caught", !.err = "other"])
  PROVE  Records(w)
<1>1. IInv /\ TypeOK
  BY DEF JInv, IInv
<1>2. work[w] \in WorkType /\ m \in Message /\ row[m] \in RowType
  BY <1>1, UnitFacts
<1>3. [work[w] EXCEPT !.pc = "caught", !.err = "other"].msg = m
  BY <1>2 DEF WorkType
<1>4. Moved(w)
  BY <1>1, <1>3, EndMoves, StepMoves
     DEF EndSilently, EndWith, EndUnwritten, Caught
<1>5. CASE row' = row
  BY <1>1, <1>4, <1>5, QuietRecords
<1>6. ASSUME NEW s, NEW cost, Put(m, s, cost), Moves(row[m], s)
      PROVE  Records(w)
  BY <1>4, <1>6, WriteRecords
<1>7. Moves(row[m], row[m])
  BY <1>2, MoveFacts
<1> QED BY <1>5, <1>6, <1>7 DEF EndSilently, EndWith, EndUnwritten, Caught

\* What a failed attempt leaves behind.
LEMMA RecordMoves ==
  ASSUME NEW m \in Message, row[m] \in RowType, NEW proven
  PROVE  Moves(row[m], Record(m, proven))
BY MoveFacts DEF Record

LEMMA FinishPartialRecords ==
  ASSUME JInv, NEW w \in Worker, FinishPartial(w)
  PROVE  Records(w)
<1> DEFINE x == work[w]
           m == x.msg
           r == Record(m, x.proven /\ ~ x.got)
<1>1. IInv /\ x.pc \in AttemptPcs /\ UNCHANGED <<kind, attempts, sent, reported>>
  BY DEF JInv, FinishPartial, AttemptPcs, Sending, history
<1>2. m \in Message /\ row[m] \in RowType
  BY <1>1, UnitFacts
<1>3. Moves(row[m], r)
  BY <1>2, RecordMoves
<1>4. EndSilently(w) \/ EndWith(w, r) \/ EndUnwritten(w) \/ Caught(w)
  BY Zenon DEF FinishPartial
<1> HIDE DEF r
<1> QED BY <1>1, <1>3, <1>4, EndRecords

LEMMA FinishWholeRecords ==
  ASSUME JInv, NEW w \in Worker, FinishWhole(w)
  PROVE  Records(w)
<1> DEFINE x == work[w]
           m == x.msg
           unacked == IF x.got \/ (Live(w) /\ x.pre # "no")
                        THEN FailedAfterSend(row[m]) ELSE Failed(row[m])
<1>1. IInv /\ x.pc \in AttemptPcs /\ UNCHANGED <<kind, attempts, sent, reported>>
  BY DEF JInv, FinishWhole, AttemptPcs, Sending, history
<1>2. m \in Message /\ row[m] \in RowType
  BY <1>1, UnitFacts
<1>3. Moves(row[m], unacked) /\ Moves(row[m], Gone(row[m]))
  BY <1>2, MoveFacts
<1>4. 0 \in Nat /\ 1 \in Nat /\ 1 + Fault(m) \in Nat
  BY DEF Fault
<1>5. \/ EndSilently(w)
      \/ Put(m, Gone(row[m]), 0) /\ End(w)
      \/ Put(m, unacked, 1) /\ End(w)
      \/ Put(m, row[m], 1 + Fault(m)) /\ End(w)
      \/ /\ Put(m, row[m], 1 + Fault(m))
         /\ Goto(w, [work[w] EXCEPT !.pc = "caught", !.err = "other"])
  BY Zenon DEF FinishWhole
<1> HIDE DEF unacked
<1> QED BY <1>1, <1>3, <1>4, <1>5, EndRecords

LEMMA LiveAbortsRecords ==
  ASSUME JInv, NEW m \in Message, LiveAborts(m)
  PROVE  Records(m)
<1>1. IInv /\ m \in Worker /\ work[m].pc \in AttemptPcs
      /\ UNCHANGED <<kind, attempts, sent, reported>> /\ End(m)
  BY DEF JInv, LiveAborts, AttemptPcs, Sending, Worker
<1>2. work[m].msg = m /\ row[m] \in RowType
  BY <1>1, UnitFacts
<1>3. Moves(row[m], Gone(row[m]))
  BY <1>2, MoveFacts
<1>4. 0 \in Nat /\ 1 \in Nat
  OBVIOUS
<1>5. Put(m, Gone(row[m]), 0) \/ Put(m, row[m], 1)
  BY DEF LiveAborts
<1> QED BY <1>1, <1>2, <1>3, <1>4, <1>5, EndRecords

LEMMA LiveFailsRecords ==
  ASSUME JInv, NEW m \in Message, LiveFails(m)
  PROVE  Records(m)
<1> DEFINE x == work[m]
           r == IF x.got THEN FailedAfterSend(row[m])
                         ELSE Record(m, x.err = "proven")
<1>1. IInv /\ m \in Worker /\ work[m].pc \in AttemptPcs
      /\ UNCHANGED <<kind, attempts, sent, reported>>
  BY DEF JInv, LiveFails, AttemptPcs, Sending, Worker, history
<1>2. work[m].msg = m /\ row[m] \in RowType
  BY <1>1, UnitFacts
<1>3. Moves(row[m], r)
  BY <1>2, MoveFacts, RecordMoves
<1>4. EndSilently(m) \/ EndWith(m, r) \/ EndUnwritten(m)
  BY Zenon DEF LiveFails
<1> HIDE DEF r
<1> QED BY <1>1, <1>2, <1>3, <1>4, EndRecords

LEMMA ReplayFailsRecords ==
  ASSUME JInv, NEW d \in Recoverer, ReplayFails(d)
  PROVE  Records(d)
<1> DEFINE x == work[d]
           m == x.msg
           r == IF x.err = "permanent" THEN Dead(row[m])
                                       ELSE Record(m, x.err = "proven")
<1>1. IInv /\ d \in Worker /\ x.pc \in AttemptPcs
      /\ UNCHANGED <<kind, attempts, sent, reported>>
  BY RecovererFacts DEF JInv, ReplayFails, AttemptPcs, Sending, history
<1>2. m \in Message /\ row[m] \in RowType
  BY <1>1, UnitFacts
<1>3. EndSilently(d) \/ EndUnwritten(d) \/ (row[m].st = "pending" /\ EndWith(d, r))
  BY DEF ReplayFails, EndWith, Pending
<1>4. row[m].st = "pending" => Moves(row[m], r)
  BY <1>2, MoveFacts, RecordMoves
<1>5. Moves(row[m], row[m])
  BY <1>2, MoveFacts
<1> HIDE DEF r
<1> QED BY <1>1, <1>3, <1>4, <1>5, EndRecords

-----------------------------------------------------------------------------
(* The platform accepts sends, and attempts begin. *)

\* A single send that the adapter can see has not arrived while it is under
\* way: it arrives once.
LEMMA ArrivalsKeepLedger ==
  ASSUME MarkedKinds, JInv, NEW w \in Worker, work[w].pc = "io",
         Moved(w), work'[w].pc \in AttemptPcs,
         sent' \in {sent, Accepted(work[w].msg, work[w].unit)},
         UNCHANGED <<row, kind, attempts, reported>>
  PROVE  [Ledger!Next]_(Ledger!vars)
<1>1. IInv /\ TypeOK /\ work[w].pc \in AttemptPcs /\ Goto(w, work'[w])
  BY DEF JInv, IInv, AttemptPcs, Sending, Moved
<1> PICK m \in Message : m = work[w].msg
  BY <1>1, UnitFacts
<1> PICK x : x = work[w]
  OBVIOUS
<1>2. x \in WorkType /\ x.pc = "io" /\ OnceInv(m, x) /\ ProgressInv(m, x)
  BY <1>1, OwnEntry
<1>3. x.unit \in Units(m) /\ x.unit \in 1 .. MaxUnits
  BY <1>2, NumberFacts DEF JInv, ProgressInv
<1>4. m \in Busy /\ Busy' = Busy /\ Status' = Status /\ Singles' = Singles
  BY <1>1, BusyFacts DEF Moved, Status, Singles
<1>5. CASE sent' = sent
  BY <1>1, <1>5, QuietRecords, RecordsKeepLedger
<1>6. CASE sent' = Accepted(m, x.unit)
  <2>1. \A n \in Message : n # m => sent'[n] = sent[n]
    BY <1>6, Zenon DEF Accepted, JInv, IInv, TypeOK
  <2>2. CASE kind[m].units = 1
    <3>1. x.unit = 1
      BY <1>3, <2>2 DEF Units
    <3>2. sent[m][1] \in Nat /\ ~ sent[m][1] > 0
      <4>1. Visible(m)
        BY DEF MarkedKinds, Visible, JInv, IInv, TypeOK
      <4>2. sent[m][1] \in Nat
        BY <1>3, <3>1, NumberFacts DEF JInv
      <4> QED BY <1>2, <2>2, <4>1, <4>2 DEF OnceInv
    <3>3. sent[m][1] = 0
      BY <3>2
    <3>4. sent'[m][1] = 1
      <4>1. sent'[m] = [sent[m] EXCEPT ![1] = sent[m][1] + 1]
        BY <1>6, <3>1, Zenon DEF Accepted, JInv, IInv, TypeOK
      <4>2. sent[m] \in [1 .. MaxUnits -> Nat] /\ 1 \in 1 .. MaxUnits
        BY <1>1, <1>3, <3>1 DEF TypeOK
      <4>3. sent'[m][1] = sent[m][1] + 1
        BY <4>1, <4>2, Zenon
      <4> QED BY <3>3, <4>3
    <3>5. Copies[m] = 0 /\ Copies' = [Copies EXCEPT ![m] = 1]
      BY <2>1, <2>2, <3>3, <3>4 DEF Copies
    <3>6. m \in Singles
      BY <2>2 DEF Singles
    <3> QED BY <1>4, <3>5, <3>6, LedgerArrives
  <2>3. CASE kind[m].units # 1
    <3>1. Copies' = Copies
      BY <2>1, <2>3 DEF Copies
    <3> QED BY <1>4, <3>1, LedgerRests
  <2> QED BY <2>2, <2>3
<1> QED BY <1>5, <1>6

LEMMA PlatformAcceptsKeepsLedger ==
  ASSUME MarkedKinds, JInv, NEW w \in Worker, PlatformAccepts(w)
  PROVE  [Ledger!Next]_(Ledger!vars)
<1> DEFINE y == [work[w] EXCEPT !.pc = "result"]
<1>1. IInv /\ TypeOK /\ work[w].pc \in AttemptPcs /\ work[w].pc = "io"
  BY DEF JInv, IInv, PlatformAccepts, AttemptPcs, Sending
<1>2. y.msg = work[w].msg /\ y.pc = "result" /\ Goto(w, y)
  BY <1>1, UnitFacts DEF WorkType, PlatformAccepts
<1> HIDE DEF y
<1>3. Moved(w) /\ work'[w].pc \in AttemptPcs
  BY <1>1, <1>2, GotoFacts, StepMoves DEF AttemptPcs, Sending
<1> QED BY <1>1, <1>3, ArrivalsKeepLedger DEF PlatformAccepts

LEMMA PlatformFailsKeepsLedger ==
  ASSUME MarkedKinds, JInv, NEW w \in Worker, PlatformFails(w)
  PROVE  [Ledger!Next]_(Ledger!vars)
<1>1. IInv /\ TypeOK /\ work[w].pc \in AttemptPcs /\ work[w].pc = "io"
  BY DEF JInv, IInv, PlatformFails, AttemptPcs, Sending
<1>2. work[w] \in WorkType /\ work[w].msg \in Message
  BY <1>1, UnitFacts
<1>3. PICK err \in {"proven", "other", "permanent", "abort"} :
        Goto(w, Break(work[w], err))
  BY DEF PlatformFails
<1>4. Moved(w)
  BY <1>1, <1>2, <1>3, LeaveMoves
<1>5. work'[w].pc \in AttemptPcs
  BY <1>1, <1>2, <1>3, BreakFacts, GotoFacts DEF AttemptPcs, Sending
<1> QED BY <1>1, <1>4, <1>5, ArrivalsKeepLedger DEF PlatformFails

\* An attempt begins at a pending entry that nobody is at work on, of which no
\* result is durable and no single send has arrived.
LEMMA BeginningsKeepLedger ==
  ASSUME JInv, NEW w \in Worker, work[w].pc \notin AttemptPcs,
         NEW m \in Message, Goto(w, At("unit", m)), Attempt(m),
         Pending(m), m \notin reported, \A v \in Worker : ~ AtWork(v, m),
         kind[m].units = 1 => sent[m][1] = 0,
         UNCHANGED <<row, kind, sent, reported>>
  PROVE  [Ledger!Next]_(Ledger!vars)
<1>1. IInv /\ TypeOK
  BY DEF JInv, IInv
<1>2. At("unit", m).pc \in AttemptPcs /\ At("unit", m).msg = m
  BY DEF At, AttemptPcs, Sending
<1>3. work'[w].pc \in AttemptPcs /\ work'[w].msg = m /\ Goto(w, work'[w])
  BY <1>1, <1>2, GotoFacts
<1>4. Busy' = Busy \cup {m}
  BY <1>1, <1>3, BusyFacts
<1>5. m \notin Busy
  BY DEF Busy, AtWork, Attempting, AttemptPcs, Sending
<1>6. Status[m] = "pending" /\ Copies[m] = 0
      /\ UNCHANGED <<Status, Singles, Copies>>
  BY DEF Status, Copies, Singles, Pending
<1> QED BY <1>4, <1>5, <1>6, LedgerBegins

\* A worker outside of an attempt moves on.
LEMMA IdlesKeepLedger ==
  ASSUME JInv, NEW w \in Worker, work[w].pc \notin AttemptPcs,
         NEW y, Goto(w, y), y.pc \notin AttemptPcs,
         UNCHANGED <<row, kind, sent, reported, attempts>>
  PROVE  [Ledger!Next]_(Ledger!vars)
<1>1. TypeOK /\ IInv
  BY DEF JInv, IInv
<1>2. Goto(w, work'[w]) /\ work'[w].pc \notin AttemptPcs
  BY <1>1, GotoFacts
<1>3. Busy' = Busy
  BY <1>1, <1>2, BusyFacts
<1>4. UNCHANGED <<Status, Singles, Copies>>
  BY DEF Status, Singles, Copies
<1> QED BY <1>3, <1>4, LedgerRests

\* A drain settles an entry that nobody is at work on.
LEMMA DisposalsKeepLedger ==
  ASSUME JInv, NEW d \in Recoverer, work[d].pc \in {"taken", "reconcile"},
         NEW m \in Message, m = work[d].msg, End(d),
         NEW r, NEW cost, Put(m, r, cost), Moves(row[m], r),
         UNCHANGED <<kind, attempts, sent, reported>>
  PROVE  [Ledger!Next]_(Ledger!vars)
<1>1. TypeOK /\ IInv /\ d \in Worker /\ work[d].pc \notin AttemptPcs
  BY RecovererFacts DEF JInv, IInv, AttemptPcs, Sending
<1>2. Settles(m)
  BY <1>1, PutWrites, WriteSettles
<1>3. Goto(d, work'[d]) /\ work'[d].pc \notin AttemptPcs
  BY <1>1, EndMoves DEF Moved, AttemptPcs, Sending
<1>4. Busy' = Busy
  BY <1>1, <1>3, BusyFacts
<1>5. m \notin Busy
  BY DrainAlone DEF Busy, AtWork, Attempting, AttemptPcs, Sending
<1>6. UNCHANGED <<Singles, Copies>>
  BY DEF Singles, Copies
<1> QED BY <1>2, <1>4, <1>5, <1>6, LedgerDisposes

\* The live sender claims its entry.
LEMMA ClaimLiveKeepsLedger ==
  ASSUME PlainKinds, JInv, NEW m \in Message, ClaimLive(m)
  PROVE  [Ledger!Next]_(Ledger!vars)
<1>1. m \in Worker /\ work[m].pc = "queued" /\ MessageInv(m) /\ EntryInv(m)
      /\ work[m].pc \notin AttemptPcs /\ TypeOK /\ IInv
      /\ UNCHANGED <<row, kind, sent, reported>>
  BY QuietPcs DEF ClaimLive, Worker, JInv, IInv
<1>2. CASE m \in claims
  <2>1. Goto(m, At("over", m)) /\ attempts' = attempts
    BY <1>2 DEF ClaimLive
  <2>2. Goto(m, work'[m]) /\ work'[m].pc \notin AttemptPcs
    BY <1>1, <2>1, GotoFacts DEF At, AttemptPcs, Sending
  <2>3. Busy' = Busy /\ UNCHANGED <<Status, Singles, Copies>>
    BY <1>1, <2>2, BusyFacts DEF Status, Singles, Copies
  <2> QED BY <1>1, <2>1, <2>3, LedgerRests
<1>3. CASE m \notin claims
  <2>1. Goto(m, At("unit", m)) /\ Attempt(m)
    BY <1>3 DEF ClaimLive
  <2>2. \A v \in Worker : ~ AtWork(v, m)
    BY <1>1, QuietPcs DEF MessageInv, AtWork, Holds, HoldPcs
  <2>3. Pending(m) /\ sent[m][1] = 0
    BY <1>1 DEF EntryInv, MessageInv, Pending
  <2>4. m \notin reported
    BY <1>1 DEF MessageInv, PlainKinds, Plain, TypeOK
  <2> QED BY <1>1, <2>1, <2>2, <2>3, <2>4, BeginningsKeepLedger
<1> QED BY <1>2, <1>3

LEMMA BeginKeepsLedger ==
  ASSUME PlainKinds, MarkedKinds, JInv, NEW d \in Recoverer, Begin(d)
  PROVE  [Ledger!Next]_(Ledger!vars)
<1>1. /\ work[d].pc = "taken" /\ Examining(d) /\ Pending(work[d].msg)
      /\ work[d].pc \notin AttemptPcs /\ TypeOK /\ IInv
      /\ UNCHANGED <<row, kind, sent, reported>>
  BY QuietPcs DEF Begin, Examining, JInv, IInv
<1> PICK m \in Message : m = work[d].msg
  BY <1>1, ExaminingFacts
<1>2. d \in Worker /\ EntryInv(m) /\ MessageInv(m)
  BY <1>1, ExaminingFacts DEF JInv
<1>3. CASE row[m].rs = "none"
  <2>1. Goto(d, At("unit", m)) /\ Attempt(m)
    BY <1>3 DEF Begin
  <2>2. \A v \in Worker : ~ AtWork(v, m)
    BY <1>1, DrainAlone
  <2>3. m \notin reported
    BY <1>1, <1>2, <1>3 DEF MessageInv, PlainKinds, Plain, TypeOK
  <2>4. kind[m].units = 1 => sent[m][1] = 0
    <3>1. sent[m][1] \in Nat
      BY NumberFacts, DeliveryAssumption DEF JInv
    <3>2. Visible(m)
      BY <1>1 DEF MarkedKinds, Visible, TypeOK
    <3> QED BY <1>1, <1>2, <1>3, <3>1, <3>2 DEF EntryInv, SentInv, Evident
  <2> QED BY <1>1, <1>2, <2>1, <2>2, <2>3, <2>4, BeginningsKeepLedger
<1>4. CASE row[m].rs # "none"
  <2>1. Goto(d, At("reconcile", m)) /\ attempts' = attempts
    BY <1>4 DEF Begin
  <2>2. PICK y : y = At("reconcile", m)
    OBVIOUS
  <2>3. y.pc \notin AttemptPcs
    BY <2>2 DEF At, AttemptPcs, Sending
  <2> QED BY <1>1, <1>2, <2>1, <2>2, <2>3, IdlesKeepLedger
<1> QED BY <1>3, <1>4

LEMMA ReconcileKeepsLedger ==
  ASSUME PlainKinds, MarkedKinds, JInv, NEW d \in Recoverer, Reconcile(d)
  PROVE  [Ledger!Next]_(Ledger!vars)
<1>1. /\ work[d].pc = "reconcile" /\ work[d].pc \notin AttemptPcs
      /\ TypeOK /\ IInv
      /\ UNCHANGED <<kind, sent, reported>>
  BY QuietPcs DEF Reconcile, JInv, IInv
<1> PICK m \in Message : m = work[d].msg
  BY <1>1, ExaminingFacts
<1>2. /\ d \in Worker /\ EntryInv(m) /\ MessageInv(m) /\ row[m] \in RowType
      /\ Pending(m)
  BY <1>1, ExaminingFacts DEF JInv, AttemptInv
<1>3. PICK answer \in Answers(m) :
        \/ /\ Replayable(m, answer)
           /\ Attempt(m)
           /\ Goto(d, At("unit", m))
           /\ row' = row
        \/ /\ attempts' = attempts
           /\ End(d)
           /\ \/ Put(m, Gone(row[m]), 0)
              \/ Put(m, Failed(row[m]), 1)
              \/ Put(m, row[m], 2)
              \/ Put(m, Failed(row[m]), 0)
              \/ Put(m, Dead(row[m]), 0)
              \/ Put(m, row[m], Fault(m))
  BY DEF Reconcile, EndWith, EndUnwritten
<1>4. CASE /\ Replayable(m, answer)
           /\ Attempt(m)
           /\ Goto(d, At("unit", m))
           /\ row' = row
  <2>1. row[m].rs = "started" /\ ~ Seen(m)
    BY <1>4 DEF Replayable, Answers
  <2>2. \A v \in Worker : ~ AtWork(v, m)
    BY <1>1, DrainAlone
  <2>3. m \notin reported
    BY <1>1, <1>2, <2>1 DEF MessageInv, PlainKinds, Plain, TypeOK
  <2>4. kind[m].units = 1 => sent[m][1] = 0
    <3>1. sent[m][1] \in Nat
      BY NumberFacts, DeliveryAssumption DEF JInv
    <3>2. kind[m].byMark => kind[m].exact
      BY <1>1 DEF MarkedKinds, TypeOK
    <3>3. ASSUME kind[m].units = 1 PROVE ~ sent[m][1] > 0
      <4>1. \A u \in 1 .. 1 : u = 1
        OBVIOUS
      <4> QED BY <2>1, <3>2, <3>3, <4>1 DEF Seen, Complete
    <3> QED BY <3>1, <3>3
  <2> QED BY <1>1, <1>2, <1>4, <2>2, <2>3, <2>4, BeginningsKeepLedger
<1>5. ASSUME attempts' = attempts, End(d), NEW r, NEW cost, Put(m, r, cost),
             Moves(row[m], r)
      PROVE  [Ledger!Next]_(Ledger!vars)
  BY <1>1, <1>2, <1>5, DisposalsKeepLedger
<1>6. /\ Moves(row[m], row[m]) /\ Moves(row[m], Gone(row[m]))
      /\ Moves(row[m], Failed(row[m])) /\ Moves(row[m], Dead(row[m]))
  BY <1>2, MoveFacts DEF Pending
<1> QED BY <1>3, <1>4, <1>5, <1>6

LEMMA DeadLetterKeepsLedger ==
  ASSUME JInv, NEW d \in Recoverer, DeadLetter(d)
  PROVE  [Ledger!Next]_(Ledger!vars)
<1>1. /\ work[d].pc = "taken" /\ Pending(work[d].msg) /\ TypeOK /\ IInv
      /\ UNCHANGED <<kind, attempts, sent, reported>>
      /\ End(d)
      /\ \/ Put(work[d].msg, Dead(row[work[d].msg]), 0)
         \/ Put(work[d].msg, row[work[d].msg], Fault(work[d].msg))
  BY DEF DeadLetter, Examining, EndWith, EndUnwritten, history, JInv, IInv
<1> PICK m \in Message : m = work[d].msg
  BY <1>1, ExaminingFacts
<1>2. row[m] \in RowType /\ row[m].st = "pending"
  BY <1>1, ExaminingFacts DEF Pending
<1>3. Moves(row[m], row[m]) /\ Moves(row[m], Dead(row[m]))
  BY <1>2, MoveFacts
<1> QED BY <1>1, <1>3, DisposalsKeepLedger

-----------------------------------------------------------------------------
(* The other steps.                                                        *)

\* The row is written before anything else happens to the message.
LEMMA EnqueueKeepsLedger ==
  ASSUME JInv, NEW m \in Message, Enqueue(m)
  PROVE  [Ledger!Next]_(Ledger!vars)
<1>1. /\ m \in Worker /\ work[m].pc = "new" /\ MessageInv(m) /\ TypeOK /\ IInv
      /\ work[m].pc \notin AttemptPcs
      /\ UNCHANGED <<kind, sent, reported, attempts>>
      /\ Goto(m, At("queued", m))
  BY DEF Enqueue, Worker, JInv, IInv, history, AttemptPcs, Sending
<1>2. At("queued", m).pc = "queued"
  BY DEF At
<1>3. Goto(m, work'[m]) /\ work'[m].pc \notin AttemptPcs
  BY <1>1, <1>2, GotoFacts DEF AttemptPcs, Sending
<1>4. Busy' = Busy
  BY <1>1, <1>3, BusyFacts
<1>5. UNCHANGED <<Singles, Copies>>
  BY <1>1 DEF Singles, Copies
<1>6. Status[m] = "none" /\ Status' = [Status EXCEPT ![m] = "pending"]
  <2>1. row[m] \in RowType /\ row[m].st = "none"
    BY <1>1 DEF MessageInv, TypeOK
  <2>2. row' = [row EXCEPT ![m] = [row[m] EXCEPT !.st = "pending"]]
    BY Zenon DEF Enqueue
  <2> PICK r : r = [row[m] EXCEPT !.st = "pending"]
    OBVIOUS
  <2>3. r.st = "pending"
    BY <2>1 DEF RowType
  <2>4. row' = [row EXCEPT ![m] = r]
    BY <2>2
  <2>5. row'[m] = r /\ \A n \in Message : n # m => row'[n] = row[n]
    BY <1>1, <2>4, Zenon DEF TypeOK
  <2> QED BY <2>1, <2>3, <2>5 DEF Status
<1> QED BY <1>1, <1>4, <1>5, <1>6, LedgerPosts

LEMMA EnqueueFailsKeepsLedger ==
  ASSUME JInv, NEW m \in Message, EnqueueFails(m)
  PROVE  [Ledger!Next]_(Ledger!vars)
<1>1. /\ m \in Worker /\ IInv /\ TypeOK /\ work[m].pc \notin AttemptPcs
      /\ UNCHANGED <<kind, sent, reported, attempts>>
      /\ Goto(m, At("over", m))
  BY DEF EnqueueFails, Worker, JInv, IInv, history, AttemptPcs, Sending
<1>2. At("over", m).pc \notin AttemptPcs
  BY QuietPcs
<1>3. Goto(m, work'[m]) /\ work'[m].pc \notin AttemptPcs
  BY <1>1, <1>2, GotoFacts
<1>4. Busy' = Busy
  BY <1>1, <1>3, BusyFacts
<1>5. \A n \in Message : row'[n] = row[n]
  BY <1>1 DEF EnqueueFails, Put, TypeOK
<1>6. UNCHANGED <<Status, Singles, Copies>>
  BY <1>1, <1>5 DEF Status, Singles, Copies
<1> QED BY <1>1, <1>4, <1>6, LedgerRests DEF Attempting

\* A drain takes its snapshot, claims, skips and ends outside of any attempt.
LEMMA QuietDrainKeepsLedger ==
  ASSUME JInv, NEW d \in Recoverer,
         \/ Snapshot(d) \/ DrainEnds(d) \/ SkipGone(d) \/ Defer(d)
         \/ \E m \in Message : Take(d, m)
  PROVE  [Ledger!Next]_(Ledger!vars)
<1>1. /\ TypeOK /\ IInv /\ d \in Worker /\ work[d].pc \notin AttemptPcs
      /\ UNCHANGED <<row, kind, sent, reported, attempts>>
  BY RecovererFacts DEF JInv, IInv, Snapshot, DrainEnds, SkipGone, Defer, Take,
     Examining, AttemptPcs, Sending, history
<1>2. CASE work' = work
  BY <1>1, <1>2, LedgerRests DEF Status, Busy, Singles, Copies, Attempting
<1>3. ASSUME NEW pc \in {"loop", "over", "idle", "taken"}, NEW n, Goto(d, At(pc, n))
      PROVE  [Ledger!Next]_(Ledger!vars)
  <2>1. PICK y : y = At(pc, n)
    OBVIOUS
  <2>2. y.pc \notin AttemptPcs
    BY <2>1 DEF At, AttemptPcs, Sending
  <2> QED BY <1>1, <1>3, <2>1, <2>2, IdlesKeepLedger
<1>4. CASE Snapshot(d)
  BY <1>3, <1>4 DEF Snapshot
<1>5. CASE DrainEnds(d)
  BY <1>3, <1>5 DEF DrainEnds
<1>6. CASE SkipGone(d) \/ Defer(d)
  BY <1>3, <1>6, RecovererFacts DEF SkipGone, Defer, End, Live
<1>7. ASSUME NEW m \in Message, Take(d, m)
      PROVE  [Ledger!Next]_(Ledger!vars)
  BY <1>2, <1>3, <1>7 DEF Take
<1> QED BY <1>4, <1>5, <1>6, <1>7

\* A crash loses the attempts; a single send under way may have arrived.
LEMMA CrashKeepsLedger ==
  ASSUME MarkedKinds, JInv, Crash
  PROVE  [Ledger!Next]_(Ledger!vars)
<1>1. /\ TypeOK /\ IInv
      /\ UNCHANGED <<row, kind, reported, attempts>>
  BY DEF Crash, JInv, IInv
<1>2. ASSUME NEW w \in Worker
      PROVE  work'[w].pc \in {"new", "over", "idle"}
  BY DEF Crash, At
<1>3. Busy' = {}
  BY <1>2 DEF Busy, Attempting
<1>4. Status' = Status /\ Singles' = Singles
  BY <1>1 DEF Status, Singles
<1>5. PICK arrived \in SUBSET {w \in Worker : work[w].pc = "io"} :
        sent' = [m \in Message |-> [u \in 1 .. MaxUnits |->
          IF \E w \in arrived : work[w].msg = m /\ work[w].unit = u
            THEN sent[m][u] + 1 ELSE sent[m][u]]]
  BY DEF Crash
<1> DEFINE A == {m \in Message : kind[m].units = 1 /\ \E w \in arrived :
                                    work[w].msg = m /\ work[w].unit = 1}
<1>6. ASSUME NEW m \in A
      PROVE  m \in Busy \cap Singles /\ Copies[m] = 0
  <2>1. PICK w \in arrived : work[w].msg = m /\ work[w].unit = 1
    OBVIOUS
  <2>2. w \in Worker /\ work[w].pc = "io" /\ m \in Message /\ kind[m].units = 1
        /\ work[w].pc \in AttemptPcs
    BY <1>6 DEF AttemptPcs, Sending
  <2>3. m \in Busy /\ m \in Singles
    BY <2>1, <2>2 DEF Busy, Singles, Attempting
  <2>4. OnceInv(m, work[w]) /\ Visible(m) /\ sent[m][1] \in Nat
    BY <1>1, <2>1, <2>2, OwnEntry, NumberFacts, DeliveryAssumption
       DEF MarkedKinds, Visible, TypeOK
  <2>5. ~ sent[m][1] > 0
    BY <2>2, <2>4 DEF OnceInv
  <2> QED BY <2>2, <2>3, <2>4, <2>5 DEF Copies
<1>7. ASSUME NEW m \in Message
      PROVE  Copies'[m] = IF m \in A THEN 1 ELSE Copies[m]
  <2>1. 1 \in 1 .. MaxUnits
    BY DeliveryAssumption
  <2>2. sent'[m][1] = IF \E w \in arrived : work[w].msg = m /\ work[w].unit = 1
                        THEN sent[m][1] + 1 ELSE sent[m][1]
    BY <1>5, <2>1
  <2>3. CASE m \in A
    <3>1. Copies[m] = 0 /\ kind[m].units = 1
      BY <1>6, <2>3
    <3>2. sent[m][1] = 0
      BY <3>1 DEF Copies
    <3> QED BY <1>1, <2>2, <2>3, <3>1, <3>2 DEF Copies
  <2>4. CASE m \notin A
    BY <1>1, <2>2, <2>4 DEF Copies
  <2> QED BY <2>3, <2>4
<1>8. A \in SUBSET {m \in Busy \cap Singles : Copies[m] = 0}
  BY <1>6
<1>9. Copies' = [m \in Message |-> IF m \in A THEN 1 ELSE Copies[m]]
  BY <1>7 DEF Copies
<1> HIDE DEF A
<1> QED BY <1>1, <1>3, <1>4, <1>8, <1>9, LedgerCrashes

\* The initial states are initial states of the ledger.
LEMMA InitLedger == Init => Ledger!Init
<1> SUFFICES ASSUME Init PROVE Ledger!Init
  OBVIOUS
<1>1. Status = [m \in Message |-> "none"] /\ Copies = [m \in Message |-> 0]
  BY DeliveryAssumption DEF Init, Status, Copies
<1>2. \A w \in Worker : work[w].pc \in {"new", "idle"}
  BY DEF Init, At
<1>3. Busy = {}
  BY <1>2 DEF Busy, Attempting
<1>4. Singles \subseteq Message
  BY DEF Singles
<1> QED BY <1>1, <1>3, <1>4 DEF Ledger!Init, Init, Status, Busy, Singles, Copies

\* Every step is a step of the ledger, or none.
LEMMA NextKeepsLedger ==
  ASSUME PlainKinds, MarkedKinds, JInv, [Next]_vars
  PROVE  [Ledger!Next]_(Ledger!vars)
<1>1. CASE UNCHANGED vars
  BY <1>1, LedgerRests
     DEF vars, history, Status, Busy, Singles, Copies, Attempting
<1>2. ASSUME NEW w \in Worker, DeliverStep(w)
      PROVE  [Ledger!Next]_(Ledger!vars)
  <2>1. \/ Records(w) \/ PlatformAccepts(w) \/ PlatformFails(w)
    BY <1>2, SuppressRecords, SendStartRecords, DispatchRecords,
       PlatformSendsNothingRecords, ResultRecords, PersistEvidenceRecords,
       FinishPartialRecords, FinishWholeRecords DEF DeliverStep
  <2> QED BY <2>1, RecordsKeepLedger, PlatformAcceptsKeepsLedger,
             PlatformFailsKeepsLedger
<1>3. ASSUME NEW m \in Message, LiveStep(m)
      PROVE  [Ledger!Next]_(Ledger!vars)
  <2>1. m \in Worker
    BY DEF Worker
  <2>2. \/ Records(m) \/ Enqueue(m) \/ EnqueueFails(m) \/ ClaimLive(m)
    BY <1>3, AbortRecords, LiveAbortsRecords, LiveFailsRecords DEF LiveStep
  <2> QED BY <2>1, <2>2, RecordsKeepLedger, EnqueueKeepsLedger,
             EnqueueFailsKeepsLedger, ClaimLiveKeepsLedger
<1>4. ASSUME NEW d \in Recoverer, RecoverStep(d)
      PROVE  [Ledger!Next]_(Ledger!vars)
  <2>1. CASE ReplayFails(d)
    BY <2>1, RecovererFacts, ReplayFailsRecords, RecordsKeepLedger
  <2>2. CASE DeadLetter(d) \/ Begin(d) \/ Reconcile(d)
    BY <2>2, DeadLetterKeepsLedger, BeginKeepsLedger, ReconcileKeepsLedger
  <2>3. CASE \/ Snapshot(d) \/ DrainEnds(d) \/ SkipGone(d) \/ Defer(d)
             \/ \E m \in Message : Take(d, m)
    BY <2>3, QuietDrainKeepsLedger
  <2> QED BY <1>4, <2>1, <2>2, <2>3 DEF RecoverStep
<1>5. CASE DeadlinePasses
  BY <1>5, LedgerRests
     DEF DeadlinePasses, history, Status, Busy, Singles, Copies, Attempting
<1> QED BY <1>1, <1>2, <1>3, <1>4, <1>5, CrashKeepsLedger DEF Next

\* The queue keeps the ledger of DeliveryLedger in every step of its live
\* senders, of recovery and of a crash: one attempt at a time, none once the
\* entry is settled, a result is durable or the only send was accepted.  It
\* does so if no adapter with a dispatch hook sends more than one unit and
\* every adapter sees its own sends when it is asked about them.
THEOREM DeliveriesKeepLedger ==
  ASSUME PlainKinds, MarkedKinds
  PROVE  Spec => LedgerIsKept
<1>1. JInv /\ [Next]_vars => [Ledger!Next]_(Ledger!vars)
  BY NextKeepsLedger
<1> QED BY <1>1, InitLedger, SendInvariance, PTL DEF Spec, LedgerIsKept, Ledger!Spec

=============================================================================
