--------------------------- MODULE OutboundProofs ---------------------------
(***************************************************************************)
(* Theorems about OutboundDelivery, for every set of messages, drains and  *)
(* kinds and for every bound: the types, one deliverer per entry, and that *)
(* a batch with a durable result is never started again.                   *)
(***************************************************************************)
EXTENDS OutboundDelivery, TLAPS

Sending == {"unit", "dispatch", "io", "result"}
AttemptPcs == Sending \cup {"finish", "caught"}
HoldPcs == AttemptPcs \cup {"taken", "reconcile"}

(* The worker holds the claim on its entry. *)
Holds(w) == work[w].pc \in HoldPcs

(* No later dispatch of the batch can overwrite the evidence of a result. *)
Plain(m) == kind[m].hooked => kind[m].units = 1

Exclusive ==
  \A v, w \in Worker :
    Holds(v) /\ Holds(w) /\ work[v].msg = work[w].msg => v = w

(* What worker w knows when it stands at x, with the row r of its entry, of *)
(* which a result is durable (rep) or not.                                 *)
Knows(w, x, r, rep) ==
  /\ w \in Message =>
       x.msg = w /\ x.pc \notin {"idle", "loop", "taken", "reconcile"}
  /\ w \notin Message => x.pc \notin {"new", "queued"}
  /\ x.pc = "reconcile" => r.rc < MaxRetries
  /\ x.pc \in AttemptPcs /\ x.post # "failed" => r.rc < MaxRetries
  /\ x.pc = "dispatch" => kind[x.msg].hooked
  /\ x.pc \in {"dispatch", "io", "result"} /\ ~ kind[x.msg].exact =>
       x.pre # "no"
  /\ x.pc = "unit" /\ x.got /\ ~ kind[x.msg].exact => x.pre # "no"
  /\ w \in Message /\ x.pc \in Sending \cup {"caught"} /\ ~ x.got =>
       x.post # "failed"
  /\ x.pc \in AttemptPcs /\ rep /\ Plain(x.msg) =>
       /\ x.got
       /\ kind[x.msg].hooked => x.pc \notin Sending

StageInv(w) ==
  /\ Holds(w) => work[w].msg \in claims
  /\ Knows(w, work[w], row[work[w].msg], work[w].msg \in reported)

(* What is true of a message before its own sender claims it, and of one   *)
(* with a durable result.                                                  *)
MessageInv(m) ==
  /\ work[m].pc \in {"new", "queued"} =>
       /\ row[m].rc = 0
       /\ \A w \in Worker : Holds(w) /\ work[w].msg = m => work[w].pc = "taken"
  /\ work[m].pc = "new" => row[m].st = "none"
  /\ work[m].pc = "queued" => row[m].st = "pending"
  /\ m \in reported /\ Plain(m) =>
       row[m].rs = "unknown" /\ work[m].pc \notin {"new", "queued"}

IInv ==
  /\ TypeOK
  /\ Exclusive
  /\ \A w \in Worker : StageInv(w)
  /\ \A m \in Message : MessageInv(m)

-----------------------------------------------------------------------------
(* Rows, and the writes that lead to them. *)

\* The updates of a row change what their names say.
LEMMA RowUpdates ==
  ASSUME NEW r \in RowType
  PROVE  /\ Started(r) \in RowType /\ Started(r).rc = r.rc
         /\ Unknown(r) \in RowType /\ Unknown(r).rc = r.rc
         /\ Unknown(r).rs = "unknown"
         /\ Gone(r) \in RowType /\ Gone(r).rc = r.rc /\ Gone(r).rs = r.rs
         /\ Dead(r) \in RowType /\ Dead(r).rc = r.rc /\ Dead(r).rs = r.rs
BY DEF RowType, Started, Unknown, Gone, Dead

\* A failed attempt is counted, and stays within the bound if it was below it.
LEMMA FailureUpdates ==
  ASSUME NEW r \in RowType, r.rc < MaxRetries
  PROVE  /\ Failed(r) \in RowType /\ Failed(r).rs = r.rs
         /\ FailedUnsent(r) \in RowType
         /\ FailedAfterSend(r) \in RowType
         /\ FailedAfterSend(r).rs = "unknown"
<1>1. r.rc + 1 \in 0 .. MaxRetries
  BY DeliveryAssumption DEF RowType
<1>2. Failed(r) \in RowType /\ Failed(r).rs = r.rs
  BY <1>1 DEF RowType, Failed
<1> QED BY <1>1, <1>2 DEF RowType, FailedUnsent, FailedAfterSend, Unknown

\* The mark before a send leaves the retry count alone.
LEMMA PreSendFacts ==
  ASSUME TypeOK, NEW m \in Message, NEW o \in PreSend(m)
  PROVE  /\ o.row \in RowType /\ o.row.rc = row[m].rc
         /\ o.pre \in {"no", "marked", "acked"} /\ o.cost \in Nat
         /\ o.pre = "no" => o.row = row[m]
<1>1. row[m] \in RowType
  BY DEF TypeOK
<1> QED BY <1>1, RowUpdates DEF PreSend, Fault

\* The evidence of a send is never taken back by the mark after it.
LEMMA PostSendFacts ==
  ASSUME TypeOK, NEW m \in Message, NEW o \in PostSend(m),
         row[m].rc < MaxRetries
  PROVE  /\ o.row \in RowType /\ o.cost \in Nat
         /\ o.post \in {"no", "marked", "acked", "failed"}
         /\ o.post # "failed" => o.row.rc = row[m].rc
         /\ row[m].rs = "unknown" => o.row.rs = "unknown"
<1>1. row[m] \in RowType
  BY DEF TypeOK
<1> QED BY <1>1, RowUpdates, FailureUpdates DEF PostSend, Fault

\* A result counts as evidence only in a row that says so.
LEMMA EvidenceFacts ==
  ASSUME NEW m \in Message, NEW r \in RowType
  PROVE  /\ Evidence(m, r) \in {reported, reported \cup {m}}
         /\ Evidence(m, r) # reported => r.rs = "unknown"
<1>1. Unknown(r) = r => r.rs = "unknown"
  BY RowUpdates
<1> QED BY <1>1 DEF Evidence

\* Both outcomes of a unit leave the rest of the attempt as it is.
LEMMA AdvanceFacts ==
  ASSUME TypeOK, NEW x \in WorkType, x.msg \in Message
  PROVE  /\ Advance(x) \in WorkType
         /\ Advance(x).msg = x.msg /\ Advance(x).got = x.got
         /\ Advance(x).pre = x.pre /\ Advance(x).post = x.post
         /\ Advance(x).pc \in {"unit", "finish"}
         /\ kind[x.msg].units = 1 => Advance(x).pc = "finish"
<1>1. kind[x.msg] \in KindType
  BY DeliveryAssumption DEF TypeOK
<1>2. kind[x.msg].units \in 1 .. MaxUnits /\ x.unit \in 1 .. MaxUnits
  BY <1>1 DEF KindType, WorkType
<1>3. CASE x.unit < kind[x.msg].units
  <2>1. x.unit + 1 \in 1 .. MaxUnits
    BY <1>2, <1>3, DeliveryAssumption
  <2>2. kind[x.msg].units # 1
    BY <1>2, <1>3, DeliveryAssumption
  <2>3. Advance(x) = [[x EXCEPT !.unit = x.unit + 1] EXCEPT !.pc = "unit"]
    BY <1>3, Zenon DEF Advance, WorkType
  <2> DEFINE u == x.unit + 1
  <2> HIDE DEF u
  <2>4. u \in 1 .. MaxUnits
    BY <2>1 DEF u
  <2>5. Advance(x) = [[x EXCEPT !.unit = u] EXCEPT !.pc = "unit"]
    BY <2>3 DEF u
  <2> QED BY <2>2, <2>4, <2>5 DEF WorkType
<1>4. CASE ~ x.unit < kind[x.msg].units
  BY <1>4 DEF WorkType, Advance
<1> QED BY <1>3, <1>4

\* A failed unit ends the batch or only itself, and forgets nothing.
LEMMA BreakFacts ==
  ASSUME TypeOK, NEW x \in WorkType, x.msg \in Message,
         NEW err \in {"proven", "other", "permanent", "abort"}
  PROVE  /\ Break(x, err) \in WorkType
         /\ Break(x, err).msg = x.msg /\ Break(x, err).got = x.got
         /\ Break(x, err).pre = x.pre /\ Break(x, err).post = x.post
         /\ Break(x, err).pc \in {"unit", "finish", "caught"}
         /\ kind[x.msg].units = 1 => Break(x, err).pc # "unit"
<1> DEFINE y == [x EXCEPT !.bad = TRUE, !.proven = @ /\ err = "proven"]
<1>1. y \in WorkType /\ y.msg = x.msg /\ y.got = x.got /\ y.pre = x.pre
      /\ y.post = x.post
  BY Zenon DEF WorkType
<1>2. CASE kind[x.msg].keepGoing
  <2>1. Break(x, err) = Advance(y)
    BY <1>2 DEF Break
  <2> HIDE DEF y
  <2> QED BY <1>1, <2>1, AdvanceFacts
<1>3. CASE ~ kind[x.msg].keepGoing
  BY <1>3 DEF Break, WorkType
<1> QED BY <1>2, <1>3

-----------------------------------------------------------------------------
(* Steps of the worker that holds the claim on an entry. *)

(* The variables no invariant but the type depends on. *)
Rest ==
  /\ todo' \in [Recoverer -> SUBSET Message]
  /\ sent' \in [Message -> [1 .. MaxUnits -> Nat]]
  /\ muted' \in [Message -> SUBSET (1 .. MaxUnits)]
  /\ aborted' \subseteq Message
  /\ attempts' \in [Message -> Nat]
  /\ crashes' \in 0 .. MaxCrashes
  /\ faults' \in 0 .. MaxFaults

(* Only the row of m and what is reported of m may change, and the evidence *)
(* of a result stays.                                                      *)
Touches(m) ==
  /\ kind' = kind
  /\ row' \in [Message -> RowType]
  /\ \A n \in Message \ {m} : row'[n] = row[n]
  /\ reported' \in {reported, reported \cup {m}}
  /\ m \in reported' /\ Plain(m) => row'[m].rs = "unknown"

\* The holder of a claim is at work on a message.
LEMMA HolderFacts ==
  ASSUME IInv, NEW w \in Worker, Holds(w)
  PROVE  /\ work[w] \in WorkType
         /\ work[w].msg \in Message
         /\ row[work[w].msg] \in RowType
         /\ kind[work[w].msg] \in KindType
         /\ work[w].pc # "taken" =>
              work[work[w].msg].pc \notin {"new", "queued"}
<1>1. work[w] \in WorkType
  BY DEF IInv, TypeOK
<1>2. work[w].msg \in Message
  BY DEF IInv, TypeOK, StageInv
<1>3. MessageInv(work[w].msg)
  BY <1>2 DEF IInv
<1> QED BY <1>1, <1>2, <1>3, DeliveryAssumption DEF IInv, TypeOK, MessageInv

\* A step of the holder that only concerns its entry keeps the invariant if
\* the holder's own part of it is kept.
LEMMA LocalStep ==
  ASSUME IInv, NEW w \in Worker, Holds(w), NEW m \in Message,
         m = work[w].msg, NEW y \in WorkType, Goto(w, y),
         Touches(m), Rest,
         y.pc \notin {"new", "queued"},
         \/ y.pc \in HoldPcs /\ y.msg = m /\ claims' = claims
         \/ y.pc \notin HoldPcs /\ claims' = claims \ {m},
         work[m].pc \in {"new", "queued"} =>
           row'[m] = row[m] /\ reported' = reported /\ y.pc \notin HoldPcs,
         Knows(w, y, row'[m], m \in reported')
  PROVE  IInv'
<1>1. /\ work' \in [Worker -> WorkType]
      /\ work'[w] = y
      /\ \A v \in Worker : v # w => work'[v] = work[v]
  BY DEF IInv, TypeOK, Goto
<1>2. TypeOK'
  BY <1>1 DEF IInv, TypeOK, Touches, Rest
<1>3. \A v \in Worker : v # w /\ Holds(v) => work[v].msg # m
  BY DEF IInv, Exclusive
<1>4. Exclusive'
  BY <1>1, <1>3 DEF IInv, Exclusive, Holds
<1>5. ASSUME NEW v \in Worker
      PROVE  StageInv(v)'
  <2>1. CASE v = w
    BY <1>1, <2>1 DEF StageInv, Holds, Knows, Touches, Plain, IInv,
                      HoldPcs, AttemptPcs, Sending
  <2>2. CASE v # w
    <3>1. work'[v] = work[v] /\ StageInv(v)
      BY <1>1, <2>2 DEF IInv
    <3>2. CASE Holds(v)
      <4>1. work[v].msg \in Message /\ work[v].msg # m
        BY <1>3, <2>2, <3>2, HolderFacts
      <4>2. work[v].msg \in claims /\ work[v].msg \in claims'
        BY <3>1, <3>2, <4>1 DEF StageInv
      <4>3. row'[work[v].msg] = row[work[v].msg]
            /\ (work[v].msg \in reported') = (work[v].msg \in reported)
        BY <4>1 DEF Touches
      <4> QED BY <3>1, <4>2, <4>3 DEF StageInv, Knows, Touches, Plain
    <3>3. CASE ~ Holds(v)
      BY <3>1, <3>3 DEF StageInv, Knows, Holds, HoldPcs, AttemptPcs, Sending
    <3> QED BY <3>2, <3>3
  <2> QED BY <2>1, <2>2
<1>6. ASSUME NEW n \in Message
      PROVE  MessageInv(n)'
  <2>1. n \in Worker /\ MessageInv(n)
    BY DEF IInv, Worker
  <2>2. work'[n].pc \in {"new", "queued"} => n # w /\ work'[n] = work[n]
    BY <1>1, <2>1
  <2>3. CASE n = m
    BY <1>1, <2>1, <2>2, <2>3 DEF MessageInv, Touches, Holds, Plain
  <2>4. CASE n # m
    BY <1>1, <2>1, <2>2, <2>4 DEF MessageInv, Touches, Holds, Plain
  <2> QED BY <2>3, <2>4
<1> QED BY <1>2, <1>4, <1>5, <1>6 DEF IInv

\* A write to the row of m touches m only.
LEMMA PutFacts ==
  ASSUME TypeOK, NEW m \in Message, NEW r \in RowType, NEW cost \in Nat,
         Put(m, r, cost), kind' = kind,
         reported' \in {reported, reported \cup {m}},
         m \in reported' /\ Plain(m) => r.rs = "unknown"
  PROVE  Touches(m) /\ row'[m] = r /\ faults' \in 0 .. MaxFaults
<1>1. faults' \in 0 .. MaxFaults
  BY DeliveryAssumption DEF TypeOK, Put
<1> QED BY <1>1 DEF TypeOK, Put, Touches

\* A step that leaves the rows alone touches no message.
LEMMA UntouchedFacts ==
  ASSUME IInv, NEW m \in Message, row' = row, kind' = kind, reported' = reported
  PROVE  Touches(m) /\ row'[m] = row[m]
<1>1. m \in reported /\ Plain(m) => row[m].rs = "unknown"
  BY DEF IInv, MessageInv
<1> QED BY <1>1 DEF Touches, IInv, TypeOK

\* The end of an attempt gives up the claim and everything the worker knew.
LEMMA EndStep ==
  ASSUME IInv, NEW w \in Worker, Holds(w), NEW m \in Message,
         m = work[w].msg, End(w), Touches(m), Rest,
         work[m].pc \in {"new", "queued"} =>
           row'[m] = row[m] /\ reported' = reported
  PROVE  IInv'
<1> DEFINE y == IF Live(w) THEN At("over", w) ELSE At("loop", NoMessage)
<1>1. y \in WorkType /\ y.pc \in {"over", "loop"}
      /\ (w \in Message => y.msg = w /\ y.pc = "over")
  BY DeliveryAssumption DEF Live, At, WorkType
<1>2. Goto(w, y) /\ claims' = claims \ {m}
  BY DEF End
<1>3. Knows(w, y, row'[m], m \in reported')
  <2> HIDE DEF y
  <2> QED BY <1>1 DEF Knows, AttemptPcs, Sending
<1> HIDE DEF y
<1> QED BY <1>1, <1>2, <1>3, LocalStep DEF HoldPcs, AttemptPcs, Sending

\* A step within an attempt.
LEMMA AttemptStep ==
  ASSUME IInv, NEW w \in Worker, work[w].pc \in AttemptPcs, NEW m \in Message,
         m = work[w].msg, NEW y \in WorkType, Goto(w, y),
         claims' = claims, y.msg = m, y.pc \in AttemptPcs,
         Touches(m), Rest,
         y.post # "failed" => row'[m].rc < MaxRetries,
         y.pc = "dispatch" => kind[m].hooked,
         y.pc \in {"dispatch", "io", "result"} /\ ~ kind[m].exact =>
           y.pre # "no",
         y.pc = "unit" /\ y.got /\ ~ kind[m].exact => y.pre # "no",
         w \in Message /\ y.pc \in Sending \cup {"caught"} /\ ~ y.got =>
           y.post # "failed",
         m \in reported' /\ Plain(m) =>
           y.got /\ (kind[m].hooked => y.pc \notin Sending)
  PROVE  IInv'
<1>1. Holds(w) /\ work[w].pc # "taken"
  BY DEF Holds, HoldPcs, AttemptPcs, Sending
<1>2. work[m].pc \notin {"new", "queued"}
  BY <1>1, HolderFacts
<1>3. StageInv(w)
  BY DEF IInv
<1>4. y.pc \notin {"new", "queued", "idle", "loop", "taken", "reconcile"}
      /\ y.pc \in HoldPcs
  BY DEF HoldPcs, AttemptPcs, Sending
<1>5. w \in Message => m = w
  BY <1>3 DEF StageInv, Knows
<1>6. Knows(w, y, row'[m], m \in reported')
  BY <1>4, <1>5 DEF Knows
<1> QED BY <1>1, <1>2, <1>4, <1>6, LocalStep

\* What a worker knows while it stands at a unit.
LEMMA UnitFacts ==
  ASSUME IInv, NEW w \in Worker, work[w].pc \in AttemptPcs
  PROVE  LET x == work[w]
             m == x.msg
         IN /\ x \in WorkType /\ m \in Message
            /\ row[m] \in RowType /\ kind[m] \in KindType
            /\ kind[m].exact => kind[m].hooked
            /\ x.post # "failed" => row[m].rc < MaxRetries
            /\ x.pc = "dispatch" => kind[m].hooked
            /\ x.pc \in {"dispatch", "io", "result"} /\ ~ kind[m].exact =>
                 x.pre # "no"
            /\ x.pc = "unit" /\ x.got /\ ~ kind[m].exact => x.pre # "no"
            /\ w \in Message /\ x.pc \in Sending \cup {"caught"} /\ ~ x.got =>
                 x.post # "failed"
            /\ m \in reported /\ Plain(m) =>
                 /\ x.got
                 /\ kind[m].hooked => x.pc \notin Sending
                 /\ row[m].rs = "unknown"
            /\ w \in Message => m = w
<1>1. Holds(w) /\ StageInv(w)
  BY DEF IInv, Holds, HoldPcs
<1>2. work[w] \in WorkType /\ work[w].msg \in Message
      /\ row[work[w].msg] \in RowType /\ kind[work[w].msg] \in KindType
  BY <1>1, HolderFacts
<1>3. kind[work[w].msg].exact => kind[work[w].msg].hooked
  BY <1>2, DeliveryAssumption DEF IInv, TypeOK
<1>4. MessageInv(work[w].msg)
  BY <1>2 DEF IInv
<1> QED BY <1>1, <1>2, <1>3, <1>4 DEF StageInv, Knows, MessageInv

-----------------------------------------------------------------------------
(* The steps of an attempt. *)

\* A unit that is left out, or ends it early, keeps the invariant
\* (deliverOutboundPayloadsCore goes on to the next unit or to its end).
LEMMA LeaveUnit ==
  ASSUME IInv, NEW w \in Worker, work[w].pc \in {"unit", "dispatch", "io"},
         \/ Goto(w, Advance(work[w]))
         \/ \E err \in {"proven", "other", "permanent", "abort"} :
              Goto(w, Break(work[w], err)),
         claims' = claims, row' = row, kind' = kind, reported' = reported, Rest
  PROVE  IInv'
<1> DEFINE x == work[w]
           m == x.msg
<1>1. TypeOK /\ x.pc \in AttemptPcs
  BY DEF IInv, AttemptPcs, Sending
<1>2. x \in WorkType /\ m \in Message
  BY <1>1, UnitFacts
<1>3. PICK y \in WorkType :
        /\ Goto(w, y)
        /\ y.msg = m /\ y.got = x.got /\ y.pre = x.pre /\ y.post = x.post
        /\ y.pc \in {"unit", "finish", "caught"}
        /\ kind[m].units = 1 => y.pc # "unit"
  <2>1. CASE Goto(w, Advance(x))
    BY <1>1, <1>2, <2>1, AdvanceFacts
  <2>2. CASE \E err \in {"proven", "other", "permanent", "abort"} :
               Goto(w, Break(x, err))
    BY <1>1, <1>2, <2>2, BreakFacts
  <2> QED BY <2>1, <2>2
<1>4. Touches(m) /\ row'[m] = row[m]
  BY <1>2, UntouchedFacts
<1>5. y.pc \in AttemptPcs /\ y.pc \notin {"dispatch", "io", "result"}
  BY <1>3 DEF AttemptPcs, Sending
<1>6. y.post # "failed" => row'[m].rc < MaxRetries
  BY <1>1, <1>3, <1>4, UnitFacts
<1>7. w \in Message /\ y.pc \in Sending \cup {"caught"} /\ ~ y.got =>
        y.post # "failed"
  BY <1>1, <1>3, UnitFacts DEF Sending
<1>8. m \in reported' /\ Plain(m) =>
        y.got /\ (kind[m].hooked => y.pc \notin Sending)
  BY <1>1, <1>3, UnitFacts DEF Sending
<1>9. y.pc = "unit" /\ y.got /\ ~ kind[m].exact => y.pre # "no"
  BY <1>1, <1>3, UnitFacts
<1> HIDE DEF x, m
<1> QED BY <1>1, <1>2, <1>3, <1>4, <1>5, <1>6, <1>7, <1>8, <1>9,
           AttemptStep DEF x, m

\* A unit is cancelled by a hook.
LEMMA SuppressKeeps ==
  ASSUME IInv, NEW w \in Worker, Suppress(w)
  PROVE  IInv'
<1>1. work[w].pc = "unit" /\ work[w].pc \in AttemptPcs
  BY DEF Suppress, AttemptPcs, Sending
<1>2. work[w] \in WorkType /\ work[w].msg \in Message
  BY <1>1, UnitFacts
<1>3. muted' \in [Message -> SUBSET (1 .. MaxUnits)]
  BY <1>2 DEF Suppress, IInv, TypeOK, WorkType
<1>4. Rest
  BY <1>3 DEF Rest, Suppress, IInv, TypeOK
<1> QED BY <1>1, <1>4, LeaveUnit DEF Suppress

\* The caller aborts the send.
LEMMA AbortKeeps ==
  ASSUME IInv, NEW m \in Message, Abort(m)
  PROVE  IInv'
<1>1. Rest
  BY DEF Rest, Abort, IInv, TypeOK, history
<1> QED BY <1>1, LeaveUnit DEF Abort, Worker, history

\* The platform gives no identity back.
LEMMA PlatformSendsNothingKeeps ==
  ASSUME IInv, NEW w \in Worker, PlatformSendsNothing(w)
  PROVE  IInv'
<1>1. work[w].pc = "io" /\ work[w].pc \in AttemptPcs
  BY DEF PlatformSendsNothing, AttemptPcs, Sending
<1>2. work[w] \in WorkType /\ work[w].msg \in Message
  BY <1>1, UnitFacts
<1>3. muted' \in [Message -> SUBSET (1 .. MaxUnits)]
  BY <1>2 DEF PlatformSendsNothing, IInv, TypeOK, WorkType
<1>4. Rest
  BY <1>3 DEF Rest, PlatformSendsNothing, IInv, TypeOK
<1> QED BY <1>1, <1>4, LeaveUnit DEF PlatformSendsNothing, AfterSend

\* The platform counts what it accepts.
LEMMA AcceptedFacts ==
  ASSUME TypeOK, NEW m \in Message, NEW u \in 1 .. MaxUnits
  PROVE  Accepted(m, u) \in [Message -> [1 .. MaxUnits -> Nat]]
<1> DEFINE k == sent[m][u] + 1
<1>1. sent[m] \in [1 .. MaxUnits -> Nat]
  BY Zenon DEF TypeOK
<1>2. k \in Nat
  <2>1. sent[m][u] \in Nat
    BY <1>1
  <2> QED BY <2>1
<1>3. Accepted(m, u) = [sent EXCEPT ![m] = [sent[m] EXCEPT ![u] = k]]
  BY Zenon DEF Accepted
<1> HIDE DEF k
<1>4. [sent[m] EXCEPT ![u] = k] \in [1 .. MaxUnits -> Nat]
  BY <1>1, <1>2
<1> QED BY <1>3, <1>4, Zenon DEF TypeOK

\* The platform, or the way to it, fails.
LEMMA PlatformFailsKeeps ==
  ASSUME IInv, NEW w \in Worker, PlatformFails(w)
  PROVE  IInv'
<1>1. work[w].pc = "io" /\ work[w].pc \in AttemptPcs
  BY DEF PlatformFails, AttemptPcs, Sending
<1>2. work[w] \in WorkType /\ work[w].msg \in Message
  BY <1>1, UnitFacts
<1>3. Accepted(work[w].msg, work[w].unit) \in [Message -> [1 .. MaxUnits -> Nat]]
  BY <1>2, AcceptedFacts DEF IInv, WorkType
<1>4. sent' \in [Message -> [1 .. MaxUnits -> Nat]]
  BY <1>3 DEF PlatformFails, IInv, TypeOK
<1>5. Rest
  BY <1>4 DEF Rest, PlatformFails, IInv, TypeOK
<1>6. \E err \in {"proven", "other", "permanent", "abort"} :
        Goto(w, Break(work[w], err))
  BY DEF PlatformFails
<1> QED BY <1>1, <1>5, <1>6, LeaveUnit DEF PlatformFails

\* The platform accepts a unit.
LEMMA PlatformAcceptsKeeps ==
  ASSUME IInv, NEW w \in Worker, PlatformAccepts(w)
  PROVE  IInv'
<1> DEFINE x == work[w]
           m == x.msg
           y == [x EXCEPT !.pc = "result"]
<1>1. x.pc = "io" /\ x.pc \in AttemptPcs
  BY DEF PlatformAccepts, AttemptPcs, Sending
<1>2. x \in WorkType /\ m \in Message
  BY <1>1, UnitFacts
<1>3. Accepted(m, x.unit) \in [Message -> [1 .. MaxUnits -> Nat]]
  BY <1>2, AcceptedFacts DEF IInv, WorkType
<1>4. Rest
  BY <1>3 DEF Rest, PlatformAccepts, IInv, TypeOK
<1>5. Touches(m) /\ row'[m] = row[m] /\ claims' = claims /\ reported' = reported
  BY <1>2, UntouchedFacts DEF PlatformAccepts
<1>6. y \in WorkType /\ y.pc = "result" /\ y.msg = m /\ y.got = x.got
      /\ y.pre = x.pre /\ y.post = x.post
  BY <1>2 DEF WorkType
<1>7. Goto(w, y)
  BY DEF PlatformAccepts
<1> HIDE DEF y
<1>8. /\ y.post # "failed" => row'[m].rc < MaxRetries
      /\ ~ kind[m].exact => y.pre # "no"
      /\ w \in Message /\ ~ y.got => y.post # "failed"
  BY <1>1, <1>5, <1>6, UnitFacts DEF Sending
<1>9. m \in reported' /\ Plain(m) => y.got /\ ~ kind[m].hooked
  BY <1>1, <1>5, <1>6, UnitFacts DEF Sending
<1>10. y.pc \in AttemptPcs
  BY <1>6 DEF AttemptPcs, Sending
<1> QED BY <1>1, <1>2, <1>4, <1>5, <1>6, <1>7, <1>8, <1>9, <1>10, AttemptStep

\* A failed write leaves the rows as they are.
LEMMA FailedWrite ==
  ASSUME TypeOK, NEW m \in Message, NEW cost \in Nat, Put(m, row[m], cost)
  PROVE  row' = row /\ faults' \in 0 .. MaxFaults
<1>1. faults' \in 0 .. MaxFaults
  BY DeliveryAssumption DEF TypeOK, Put
<1> QED BY <1>1, Zenon DEF TypeOK, Put

\* The mark before a send, or the failure to write it.
LEMMA SendStartKeeps ==
  ASSUME IInv, NEW w \in Worker, SendStart(w)
  PROVE  IInv'
<1> DEFINE x == work[w]
           m == x.msg
           sends == IF kind[m].hooked THEN "dispatch" ELSE "io"
<1>1. x.pc = "unit" /\ x.pc \in AttemptPcs
  BY DEF SendStart, AttemptPcs, Sending
<1>2. /\ x \in WorkType /\ m \in Message /\ row[m] \in RowType
      /\ x.post # "failed" => row[m].rc < MaxRetries
      /\ w \in Message /\ ~ x.got => x.post # "failed"
      /\ m \in reported /\ Plain(m) =>
           x.got /\ ~ kind[m].hooked /\ row[m].rs = "unknown"
      /\ x.got /\ ~ kind[m].exact => x.pre # "no"
      /\ kind[m].exact => kind[m].hooked
  BY <1>1, UnitFacts DEF Sending
<1>3. claims' = claims /\ reported' = reported /\ kind' = kind
      /\ UNCHANGED <<todo, sent, muted, aborted, attempts, crashes>>
  BY DEF SendStart, history
<1>4. CASE kind[m].exact \/ x.pre # "no"
  <2> DEFINE y == [x EXCEPT !.pc = sends]
  <2>1. Goto(w, y) /\ row' = row /\ faults' = faults
    BY <1>4, Zenon DEF SendStart
  <2>2. Touches(m) /\ row'[m] = row[m] /\ Rest
    BY <1>2, <1>3, <2>1, UntouchedFacts DEF Rest, IInv, TypeOK
  <2>3. y \in WorkType /\ y.msg = m /\ y.got = x.got /\ y.pre = x.pre
        /\ y.post = x.post /\ y.pc \in {"dispatch", "io"}
        /\ (y.pc = "dispatch" => kind[m].hooked)
    BY <1>2 DEF WorkType
  <2>4. y.pc \in AttemptPcs
    BY <2>3 DEF AttemptPcs, Sending
  <2> HIDE DEF y
  <2> QED BY <1>1, <1>2, <1>3, <1>4, <2>1, <2>2, <2>3, <2>4, AttemptStep
<1>5. CASE ~ (kind[m].exact \/ x.pre # "no")
  <2>1. PICK o \in PreSend(m) :
          /\ Put(m, o.row, o.cost)
          /\ Goto(w, IF o.pre = "no" THEN Break(x, "other")
                     ELSE [x EXCEPT
                             !.pc = sends, !.pre = o.pre,
                             !.post = IF Live(w) /\ o.pre = "acked"
                                        THEN "acked" ELSE @])
    BY <1>5 DEF SendStart
  <2>2. /\ o.row \in RowType /\ o.row.rc = row[m].rc
        /\ o.pre \in {"no", "marked", "acked"} /\ o.cost \in Nat
        /\ o.pre = "no" => o.row = row[m]
    BY <1>2, PreSendFacts DEF IInv
  <2>3. Touches(m) /\ row'[m] = o.row /\ faults' \in 0 .. MaxFaults
    BY <1>2, <1>3, <1>5, <2>1, <2>2, PutFacts DEF IInv
  <2>4. Rest
    BY <1>3, <2>3 DEF Rest, IInv, TypeOK
  <2>5. CASE o.pre = "no"
    <3>1. row' = row
      BY <1>2, <2>1, <2>2, <2>5, FailedWrite DEF IInv
    <3>2. Goto(w, Break(work[w], "other"))
      BY <2>1, <2>5
    <3> QED BY <1>1, <1>3, <2>4, <3>1, <3>2, LeaveUnit
  <2>6. CASE o.pre # "no"
    <3> DEFINE p == IF Live(w) /\ o.pre = "acked" THEN "acked" ELSE x.post
               y == [x EXCEPT !.pc = sends, !.pre = o.pre, !.post = p]
    <3>1. Goto(w, y)
      BY <2>1, <2>6, Zenon DEF WorkType
    <3>2. y \in WorkType /\ y.msg = m /\ y.got = x.got /\ y.pre = o.pre
          /\ y.post = p /\ y.pc \in {"dispatch", "io"}
          /\ (y.pc = "dispatch" => kind[m].hooked)
      BY <1>2, <2>2 DEF WorkType
    <3> HIDE DEF y
    <3>3. y.pc \in AttemptPcs
      BY <3>2 DEF AttemptPcs, Sending
    <3>4. y.post # "failed" => row[m].rc < MaxRetries
      BY <1>2, <1>5, <3>2 DEF Live
    <3>5. w \in Message /\ ~ y.got => y.post # "failed"
      BY <1>2, <3>2
    <3> HIDE DEF p
    <3> QED BY <1>1, <1>2, <1>3, <1>5, <2>3, <2>4, <2>6, <2>2, <3>1, <3>2, <3>3,
               <3>4, <3>5, AttemptStep
  <2> QED BY <2>5, <2>6
<1> QED BY <1>4, <1>5

\* The adapter announces a write; without a hook nobody gets here.
LEMMA DispatchKeeps ==
  ASSUME IInv, NEW w \in Worker, Dispatch(w)
  PROVE  IInv'
<1> DEFINE x == work[w]
           m == x.msg
           z == [x EXCEPT !.pc = "io"]
           p == IF x.pre = "no" THEN "marked" ELSE x.pre
           y == [x EXCEPT !.pc = "io", !.pre = p]
<1>1. x.pc = "dispatch" /\ x.pc \in AttemptPcs
  BY DEF Dispatch, AttemptPcs, Sending
<1>2. /\ x \in WorkType /\ m \in Message /\ row[m] \in RowType
      /\ x.post # "failed" => row[m].rc < MaxRetries
      /\ ~ kind[m].exact => x.pre # "no"
      /\ w \in Message /\ ~ x.got => x.post # "failed"
      /\ ~ (m \in reported /\ Plain(m))
  BY <1>1, UnitFacts DEF Sending
<1>3. claims' = claims /\ reported' = reported /\ kind' = kind
      /\ UNCHANGED <<todo, sent, muted, aborted, attempts, crashes>>
  BY DEF Dispatch, history
<1>4. Fault(m) \in Nat
  BY DEF Fault
<1>5. z \in WorkType /\ z.msg = m /\ z.got = x.got /\ z.pre = x.pre
      /\ z.post = x.post /\ z.pc = "io"
  BY <1>2 DEF WorkType
<1>6. y \in WorkType /\ y.msg = m /\ y.got = x.got /\ y.pre # "no"
      /\ y.post = x.post /\ y.pc = "io"
  BY <1>2 DEF WorkType
<1>7. "io" \in AttemptPcs /\ "io" # "dispatch" /\ "io" # "unit"
  BY DEF AttemptPcs, Sending
<1>8. ASSUME row' = row, faults' \in 0 .. MaxFaults, Goto(w, z),
             kind[m].exact => x.pre # "no"
      PROVE  IInv'
  <2>1. Touches(m) /\ row'[m] = row[m] /\ Rest
    BY <1>2, <1>3, <1>8, UntouchedFacts DEF Rest, IInv, TypeOK
  <2> HIDE DEF z
  <2> QED BY <1>1, <1>2, <1>3, <1>5, <1>7, <1>8, <2>1, AttemptStep
<1>9. ASSUME row' = row, faults' \in 0 .. MaxFaults, Goto(w, Break(x, "other"))
      PROVE  IInv'
  <2>1. Rest
    BY <1>3, <1>9 DEF Rest, IInv, TypeOK
  <2> QED BY <1>1, <1>3, <1>9, <2>1, LeaveUnit
<1>10. CASE x.pre = "acked" /\ Goto(w, z) /\ UNCHANGED <<row, faults>>
  BY <1>8, <1>10 DEF IInv, TypeOK
<1>11. CASE Put(m, Started(row[m]), 0) /\ Goto(w, y)
  <2>1. Started(row[m]) \in RowType /\ Started(row[m]).rc = row[m].rc
    BY <1>2, RowUpdates
  <2>2. Touches(m) /\ row'[m] = Started(row[m]) /\ faults' \in 0 .. MaxFaults
    BY <1>2, <1>3, <1>11, <2>1, PutFacts DEF IInv
  <2>3. Rest
    BY <1>3, <2>2 DEF Rest, IInv, TypeOK
  <2> HIDE DEF y
  <2> QED BY <1>1, <1>2, <1>3, <1>6, <1>7, <1>11, <2>1, <2>2, <2>3, AttemptStep
<1>12. CASE /\ Put(m, row[m], Fault(m))
            /\ Goto(w, IF kind[m].exact THEN Break(x, "other") ELSE z)
  <2>1. row' = row /\ faults' \in 0 .. MaxFaults
    BY <1>2, <1>4, <1>12, FailedWrite DEF IInv
  <2>2. CASE kind[m].exact
    BY <1>9, <1>12, <2>1, <2>2
  <2>3. CASE ~ kind[m].exact
    BY <1>8, <1>12, <2>1, <2>3
  <2> QED BY <2>2, <2>3
<1>13. \/ x.pre = "acked" /\ Goto(w, z) /\ UNCHANGED <<row, faults>>
       \/ Put(m, Started(row[m]), 0) /\ Goto(w, y)
       \/ /\ Put(m, row[m], Fault(m))
          /\ Goto(w, IF kind[m].exact THEN Break(x, "other") ELSE z)
  BY Zenon DEF Dispatch
<1> QED BY <1>10, <1>11, <1>12, <1>13

\* Where a unit that was sent leads, whether its pin fails or not.
LEMMA AfterSendFacts ==
  ASSUME TypeOK, NEW x \in WorkType, x.msg \in Message, NEW y \in AfterSend(x)
  PROVE  /\ y \in WorkType /\ y.msg = x.msg /\ y.got = x.got /\ y.pre = x.pre
         /\ y.post = x.post /\ y.pc \in {"unit", "finish", "caught"}
         /\ kind[x.msg].units = 1 => y.pc # "unit"
BY AdvanceFacts, BreakFacts DEF AfterSend

\* The first result of an attempt is made durable, or ends the unit.
LEMMA ResultKeeps ==
  ASSUME IInv, NEW w \in Worker, Result(w)
  PROVE  IInv'
<1> DEFINE x == [work[w] EXCEPT !.got = TRUE]
           m == work[w].msg
<1>1. work[w].pc = "result" /\ work[w].pc \in AttemptPcs
  <2>1. x.pc = "result"
    BY Zenon DEF Result
  <2>2. work[w] \in WorkType
    BY DEF IInv, TypeOK
  <2> QED BY <2>1, <2>2 DEF WorkType, AttemptPcs, Sending
<1>2. /\ work[w] \in WorkType /\ m \in Message /\ row[m] \in RowType
      /\ kind[m] \in KindType
      /\ kind[m].exact => kind[m].hooked
      /\ work[w].post # "failed" => row[m].rc < MaxRetries
      /\ ~ kind[m].exact => work[w].pre # "no"
      /\ m \in reported /\ Plain(m) => row[m].rs = "unknown"
  BY <1>1, UnitFacts
<1>3. claims' = claims /\ kind' = kind
      /\ UNCHANGED <<todo, sent, muted, aborted, attempts, crashes>>
  BY DEF Result, history
<1>4. x \in WorkType /\ x.msg = m /\ x.got /\ x.pre = work[w].pre
      /\ x.post = work[w].post
  BY <1>2 DEF WorkType
\* Where the worker goes, a result in hand, its row still tells.
<1>5. ASSUME NEW y \in WorkType, Goto(w, y), y.msg = m, y.got, y.pre = x.pre,
             y.pc \in {"unit", "finish", "caught"},
             kind[m].units = 1 => y.pc # "unit",
             y.post # "failed" => row'[m].rc < MaxRetries,
             Touches(m), faults' \in 0 .. MaxFaults
      PROVE  IInv'
  <2>1. Rest
    BY <1>3, <1>5 DEF Rest, IInv, TypeOK
  <2>2. y.pc \in AttemptPcs /\ y.pc \notin {"dispatch", "io", "result"}
    BY <1>5 DEF AttemptPcs, Sending
  <2>3. y.pc = "unit" /\ ~ kind[m].exact => y.pre # "no"
    BY <1>2, <1>4, <1>5
  <2>4. Plain(m) /\ kind[m].hooked => y.pc \notin Sending
    BY <1>5, <2>2 DEF Plain, Sending
  <2> QED BY <1>1, <1>2, <1>3, <1>5, <2>1, <2>2, <2>3, <2>4, AttemptStep
<1>6. ASSUME x.post # "no", NEW y \in AfterSend(x), Goto(w, y),
             UNCHANGED <<row, faults, reported>>
      PROVE  IInv'
  <2>1. Touches(m) /\ row'[m] = row[m] /\ faults' \in 0 .. MaxFaults
    BY <1>2, <1>3, <1>6, UntouchedFacts DEF IInv, TypeOK
  <2> HIDE DEF x
  <2> QED BY <1>2, <1>4, <1>5, <1>6, <2>1, AfterSendFacts DEF IInv
<1>7. ASSUME x.post = "no", NEW o \in PostSend(m), Put(m, o.row, o.cost),
             reported' = Evidence(m, o.row),
             IF o.post = "no"
               THEN Goto(w, Break(x, "other"))
               ELSE \E y \in AfterSend([x EXCEPT !.post = o.post]) : Goto(w, y)
      PROVE  IInv'
  <2>1. /\ o.row \in RowType /\ o.cost \in Nat
        /\ o.post \in {"no", "marked", "acked", "failed"}
        /\ o.post # "failed" => o.row.rc = row[m].rc
        /\ row[m].rs = "unknown" => o.row.rs = "unknown"
    BY <1>2, <1>4, <1>7, PostSendFacts DEF IInv
  <2>2. /\ reported' \in {reported, reported \cup {m}}
        /\ m \in reported' /\ Plain(m) => o.row.rs = "unknown"
    BY <1>2, <1>7, <2>1, EvidenceFacts
  <2>3. Touches(m) /\ row'[m] = o.row /\ faults' \in 0 .. MaxFaults
    BY <1>2, <1>3, <1>7, <2>1, <2>2, PutFacts DEF IInv
  <2>4. o.post # "failed" => row'[m].rc < MaxRetries
    BY <1>2, <1>4, <1>7, <2>1, <2>3
  <2>5. CASE o.post = "no"
    <3> HIDE DEF x
    <3> QED BY <1>2, <1>4, <1>5, <1>7, <2>3, <2>4, <2>5, BreakFacts DEF IInv
  <2>6. CASE o.post # "no"
    <3> DEFINE z == [x EXCEPT !.post = o.post]
    <3>1. z \in WorkType /\ z.msg = m /\ z.got /\ z.pre = x.pre /\ z.post = o.post
      BY <1>4, <2>1 DEF WorkType
    <3>2. PICK y \in AfterSend(z) : Goto(w, y)
      BY <1>7, <2>6
    <3> HIDE DEF x, z
    <3> QED BY <1>2, <1>5, <2>3, <2>4, <3>1, <3>2, AfterSendFacts DEF IInv
  <2> QED BY <2>5, <2>6
<1>8. x.msg = m /\ x.post = work[w].post
  BY <1>4
<1>9. \/ /\ x.post # "no" /\ \E y \in AfterSend(x) : Goto(w, y)
         /\ UNCHANGED <<row, faults, reported>>
      \/ /\ x.post = "no"
         /\ \E o \in PostSend(m) :
              /\ Put(m, o.row, o.cost)
              /\ reported' = Evidence(m, o.row)
              /\ IF o.post = "no"
                   THEN Goto(w, Break(x, "other"))
                   ELSE \E y \in AfterSend([x EXCEPT !.post = o.post]) : Goto(w, y)
  BY <1>8, Zenon DEF Result
<1> QED BY <1>6, <1>7, <1>9

-----------------------------------------------------------------------------
(* The ends of an attempt. *)

\* An attempt that ends with what is in its row.
LEMMA EndAttempt ==
  ASSUME IInv, NEW w \in Worker, work[w].pc \in AttemptPcs, NEW m \in Message,
         m = work[w].msg, End(w), Touches(m), Rest
  PROVE  IInv'
<1>1. Holds(w) /\ work[w].pc # "taken"
  BY DEF Holds, HoldPcs, AttemptPcs, Sending
<1>2. work[m].pc \notin {"new", "queued"}
  BY <1>1, HolderFacts
<1> QED BY <1>1, <1>2, EndStep

\* The write that ends an attempt keeps the evidence of a result.
LEMMA EndWithWrite ==
  ASSUME IInv, NEW w \in Worker, work[w].pc \in AttemptPcs, NEW m \in Message,
         m = work[w].msg, NEW r \in RowType, NEW cost \in Nat,
         Put(m, r, cost), End(w), kind' = kind, reported' = reported,
         row[m].rs = "unknown" /\ m \in reported /\ Plain(m) => r.rs = "unknown",
         UNCHANGED <<todo, sent, muted, attempts, crashes>>,
         aborted' \subseteq Message
  PROVE  IInv'
<1>1. m \in reported /\ Plain(m) => r.rs = "unknown"
  BY DEF IInv, MessageInv
<1>2. Touches(m) /\ faults' \in 0 .. MaxFaults
  BY <1>1, PutFacts DEF IInv
<1>3. Rest
  BY <1>2 DEF Rest, IInv, TypeOK
<1> QED BY <1>2, <1>3, EndAttempt

\* An attempt ends with a write that failed.
LEMMA EndUnwrittenKeeps ==
  ASSUME IInv, NEW w \in Worker, work[w].pc \in AttemptPcs, EndUnwritten(w),
         UNCHANGED <<kind, todo, history, crashes>>
  PROVE  IInv'
<1>1. work[w].msg \in Message /\ row[work[w].msg] \in RowType
  BY UnitFacts
<1>2. Fault(work[w].msg) \in Nat
  BY DEF Fault
<1> QED BY <1>1, <1>2, EndWithWrite DEF EndUnwritten, history, IInv, TypeOK

\* An attempt ends without a write.
LEMMA EndSilentlyKeeps ==
  ASSUME IInv, NEW w \in Worker, work[w].pc \in AttemptPcs, EndSilently(w),
         UNCHANGED <<kind, todo, history, crashes>>
  PROVE  IInv'
<1>1. work[w].msg \in Message
  BY UnitFacts
<1>2. Touches(work[w].msg)
  BY <1>1, UntouchedFacts DEF EndSilently, history
<1>3. Rest
  BY DEF Rest, IInv, TypeOK, EndSilently, history
<1> QED BY <1>1, <1>2, <1>3, EndAttempt DEF EndSilently

\* A worker that goes on after the loop over the units, with the same or
\* stronger evidence in its row.
LEMMA GoOn ==
  ASSUME IInv, NEW w \in Worker, work[w].pc \in {"finish", "caught"},
         NEW m \in Message, m = work[w].msg, NEW y \in WorkType, Goto(w, y),
         claims' = claims, y.msg = m, y.got = work[w].got,
         y.pc \in {"finish", "caught"},
         w \in Message /\ y.pc = "caught" /\ ~ y.got => y.post # "failed",
         Touches(m), Rest,
         m \in reported' /\ Plain(m) => y.got,
         y.post # "failed" => row'[m].rc < MaxRetries
  PROVE  IInv'
<1>1. work[w].pc \in AttemptPcs /\ y.pc \in AttemptPcs /\ y.pc \notin Sending
  BY DEF AttemptPcs, Sending
<1>2. y.pc \notin {"dispatch", "io", "result", "unit"}
  OBVIOUS
<1> QED BY <1>1, <1>2, AttemptStep DEF Sending

\* The bookkeeping of a replay throws.
LEMMA CaughtKeeps ==
  ASSUME IInv, NEW w \in Worker, w \notin Message, work[w].pc = "finish",
         NEW cost \in Nat, Put(work[w].msg, row[work[w].msg], cost),
         Goto(w, [work[w] EXCEPT !.pc = "caught", !.err = "other"]),
         claims' = claims, UNCHANGED <<kind, todo, history, crashes>>
  PROVE  IInv'
<1> DEFINE y == [work[w] EXCEPT !.pc = "caught", !.err = "other"]
           m == work[w].msg
<1>1. work[w].pc \in AttemptPcs
  BY DEF AttemptPcs
<1>2. /\ work[w] \in WorkType /\ m \in Message
      /\ work[w].post # "failed" => row[m].rc < MaxRetries
      /\ m \in reported /\ Plain(m) => work[w].got
  BY <1>1, UnitFacts
<1>3. row' = row /\ faults' \in 0 .. MaxFaults
  BY <1>2, FailedWrite DEF IInv
<1>4. Touches(m) /\ row'[m] = row[m]
  BY <1>2, <1>3, UntouchedFacts DEF history
<1>5. Rest
  BY <1>3 DEF Rest, IInv, TypeOK, history
<1>6. y \in WorkType /\ y.msg = m /\ y.got = work[w].got /\ y.pc = "caught"
      /\ y.post = work[w].post
  BY <1>2 DEF WorkType
<1>7. Goto(w, y) /\ reported' = reported
  BY DEF history
<1> HIDE DEF y
<1> QED BY <1>2, <1>4, <1>5, <1>6, <1>7, GoOn

\* The evidence is written at the end of the attempt.
LEMMA PersistEvidenceKeeps ==
  ASSUME IInv, NEW w \in Worker, PersistEvidence(w)
  PROVE  IInv'
<1> DEFINE x == work[w]
           m == x.msg
           replay == ~ Live(w) /\ x.pc = "finish"
<1>1. x.pc \in {"finish", "caught"} /\ x.pc \in AttemptPcs /\ NeedsMark(w)
  BY DEF PersistEvidence, AttemptPcs
<1>2. /\ x \in WorkType /\ m \in Message /\ row[m] \in RowType
      /\ x.post # "failed" => row[m].rc < MaxRetries
      /\ m \in reported /\ Plain(m) => x.got /\ row[m].rs = "unknown"
  BY <1>1, UnitFacts
<1>3. x.post = "no" /\ (w \in Message /\ x.pc = "caught" => x.got)
  BY <1>1 DEF NeedsMark
<1>4. kind' = kind /\ UNCHANGED <<todo, sent, muted, aborted, attempts, crashes>>
  BY DEF PersistEvidence
<1>5. PICK o \in PostSend(m) :
        /\ Put(m, o.row, o.cost)
        /\ reported' = IF x.got THEN Evidence(m, o.row) ELSE reported
        /\ IF o.post = "no" /\ ~ replay
             THEN End(w)
             ELSE /\ Goto(w, IF o.post = "no"
                               THEN [x EXCEPT !.pc = "caught", !.err = "other"]
                               ELSE [x EXCEPT !.post = o.post])
                  /\ UNCHANGED claims
  BY DEF PersistEvidence
<1>6. /\ o.row \in RowType /\ o.cost \in Nat
      /\ o.post \in {"no", "marked", "acked", "failed"}
      /\ o.post # "failed" => o.row.rc = row[m].rc
      /\ row[m].rs = "unknown" => o.row.rs = "unknown"
  BY <1>2, <1>3, PostSendFacts DEF IInv
<1>7. /\ reported' \in {reported, reported \cup {m}}
      /\ m \in reported' /\ Plain(m) => o.row.rs = "unknown" /\ x.got
  BY <1>2, <1>5, <1>6, EvidenceFacts
<1>8. Touches(m) /\ row'[m] = o.row /\ faults' \in 0 .. MaxFaults
  BY <1>2, <1>4, <1>5, <1>6, <1>7, PutFacts DEF IInv
<1>9. Rest
  BY <1>4, <1>8 DEF Rest, IInv, TypeOK
<1>10. CASE End(w)
  BY <1>1, <1>2, <1>8, <1>9, <1>10, EndAttempt
<1>11. CASE o.post = "no" /\ replay /\ claims' = claims
            /\ Goto(w, [x EXCEPT !.pc = "caught", !.err = "other"])
  <2> DEFINE y == [x EXCEPT !.pc = "caught", !.err = "other"]
  <2>1. y \in WorkType /\ y.msg = m /\ y.got = x.got /\ y.pc = "caught"
        /\ y.post = "no"
    BY <1>2, <1>3 DEF WorkType
  <2>2. y.post # "failed" => row'[m].rc < MaxRetries
    BY <1>2, <1>3, <1>6, <1>8, <1>11
  <2> HIDE DEF y
  <2>3. Goto(w, y)
    BY <1>11 DEF y
  <2> QED BY <1>1, <1>2, <1>7, <1>8, <1>9, <1>11, <2>1, <2>2, <2>3, GoOn
<1>12. CASE o.post # "no" /\ claims' = claims
            /\ Goto(w, [x EXCEPT !.post = o.post])
  <2> DEFINE y == [x EXCEPT !.post = o.post]
  <2>1. y \in WorkType /\ y.msg = m /\ y.got = x.got /\ y.pc = x.pc
        /\ y.post = o.post
    BY <1>2, <1>6 DEF WorkType
  <2>2. y.post # "failed" => row'[m].rc < MaxRetries
    BY <1>2, <1>3, <1>6, <1>8, <2>1
  <2>3. Goto(w, y)
    BY <1>12
  <2> HIDE DEF y
  <2> QED BY <1>1, <1>2, <1>3, <1>7, <1>8, <1>9, <1>12, <2>1, <2>2, <2>3, GoOn
<1> QED BY <1>5, <1>10, <1>11, <1>12

\* The failure record keeps the evidence of a result.
LEMMA RecordFacts ==
  ASSUME IInv, NEW m \in Message, row[m].rc < MaxRetries, NEW proven \in BOOLEAN
  PROVE  /\ Record(m, proven) \in RowType
         /\ ~ proven => Record(m, proven).rs = row[m].rs
<1>1. row[m] \in RowType
  BY DEF IInv, TypeOK
<1> QED BY <1>1, FailureUpdates DEF Record

\* A write to a pending row ends the attempt.
LEMMA EndWithKeeps ==
  ASSUME IInv, NEW w \in Worker, work[w].pc \in AttemptPcs, NEW r \in RowType,
         EndWith(w, r), UNCHANGED <<kind, todo, history, crashes>>,
         work[w].msg \in reported /\ Plain(work[w].msg) => r.rs = "unknown"
  PROVE  IInv'
<1>1. work[w].msg \in Message
  BY UnitFacts
<1> QED BY <1>1, EndWithWrite DEF EndWith, history, IInv, TypeOK

\* A batch of which some units failed.
LEMMA FinishPartialKeeps ==
  ASSUME IInv, NEW w \in Worker, FinishPartial(w)
  PROVE  IInv'
<1> DEFINE x == work[w]
           m == x.msg
           p == x.proven /\ ~ x.got
<1>1. x.pc = "finish" /\ x.pc \in AttemptPcs
      /\ UNCHANGED <<kind, todo, history, crashes>>
  BY DEF FinishPartial, AttemptPcs
<1>2. /\ x \in WorkType /\ m \in Message /\ row[m] \in RowType
      /\ x.post # "failed" => row[m].rc < MaxRetries
      /\ m \in reported /\ Plain(m) => x.got /\ row[m].rs = "unknown"
  BY <1>1, UnitFacts
<1>3. CASE EndSilently(w)
  BY <1>1, <1>3, EndSilentlyKeeps
<1>4. CASE EndUnwritten(w)
  BY <1>1, <1>4, EndUnwrittenKeeps
<1>5. CASE x.post # "failed" /\ EndWith(w, Record(m, p))
  <2>1. p \in BOOLEAN /\ (m \in reported /\ Plain(m) => ~ p)
    BY <1>2
  <2> HIDE DEF p
  <2>2. Record(m, p) \in RowType /\ (~ p => Record(m, p).rs = row[m].rs)
    BY <1>2, <1>5, <2>1, RecordFacts
  <2> QED BY <1>1, <1>2, <1>5, <2>1, <2>2, EndWithKeeps
<1>6. CASE ~ Live(w) /\ Caught(w)
  <2>1. Fault(m) \in Nat
    BY DEF Fault
  <2> QED BY <1>1, <1>6, <2>1, CaughtKeeps DEF Caught, Live
<1> QED BY <1>3, <1>4, <1>5, <1>6 DEF FinishPartial

\* A batch that went through.
LEMMA FinishWholeKeeps ==
  ASSUME IInv, NEW w \in Worker, FinishWhole(w)
  PROVE  IInv'
<1> DEFINE x == work[w]
           m == x.msg
           unacked == IF x.got \/ (Live(w) /\ x.pre # "no")
                        THEN FailedAfterSend(row[m]) ELSE Failed(row[m])
<1>1. x.pc = "finish" /\ x.pc \in AttemptPcs
      /\ UNCHANGED <<kind, todo, history, crashes>>
  BY DEF FinishWhole, AttemptPcs
<1>2. /\ x \in WorkType /\ m \in Message /\ row[m] \in RowType
      /\ x.post # "failed" => row[m].rc < MaxRetries
      /\ m \in reported /\ Plain(m) => x.got /\ row[m].rs = "unknown"
  BY <1>1, UnitFacts
<1>3. CASE EndSilently(w)
  BY <1>1, <1>3, EndSilentlyKeeps
<1>4. CASE Put(m, Gone(row[m]), 0) /\ End(w)
  <2>1. Gone(row[m]) \in RowType /\ Gone(row[m]).rs = row[m].rs
    BY <1>2, RowUpdates
  <2> QED BY <1>1, <1>2, <1>4, <2>1, EndWithWrite DEF history, IInv, TypeOK
<1>5. CASE x.post # "failed" /\ Put(m, unacked, 1) /\ End(w)
  <2>1. unacked \in RowType /\ (row[m].rs = "unknown" => unacked.rs = "unknown")
    BY <1>2, <1>5, FailureUpdates
  <2> HIDE DEF unacked
  <2> QED BY <1>1, <1>2, <1>5, <2>1, EndWithWrite DEF history, IInv, TypeOK
<1>6. ASSUME Put(m, row[m], 1 + Fault(m))
      PROVE  /\ End(w) => IInv'
             /\ ~ Live(w) /\ Goto(w, [x EXCEPT !.pc = "caught", !.err = "other"])
                /\ UNCHANGED claims => IInv'
  <2>1. 1 + Fault(m) \in Nat
    BY DEF Fault
  <2> DEFINE cost == 1 + Fault(m)
  <2> HIDE DEF cost
  <2>2. cost \in Nat /\ Put(m, row[m], cost)
    BY <1>6, <2>1 DEF cost
  <2>3. ASSUME End(w) PROVE IInv'
    BY <1>1, <1>2, <2>2, <2>3, EndWithWrite DEF history, IInv, TypeOK
  <2>4. ASSUME ~ Live(w), claims' = claims,
               Goto(w, [x EXCEPT !.pc = "caught", !.err = "other"])
        PROVE  IInv'
    BY <1>1, <2>2, <2>4, CaughtKeeps DEF Live
  <2> QED BY <2>3, <2>4
<1> QED BY <1>3, <1>4, <1>5, <1>6 DEF FinishWhole

\* A live sender is aborted.
LEMMA LiveAbortsKeeps ==
  ASSUME IInv, NEW m \in Message, LiveAborts(m)
  PROVE  IInv'
<1>1. m \in Worker /\ work[m].pc \in AttemptPcs
  BY DEF LiveAborts, AttemptPcs, Worker
<1>2. work[m].msg = m /\ row[m] \in RowType
  BY <1>1, UnitFacts
<1>3. Gone(row[m]) \in RowType /\ Gone(row[m]).rs = row[m].rs
  BY <1>2, RowUpdates
<1>4. aborted' \subseteq Message
  BY DEF LiveAborts, IInv, TypeOK
<1>5. row[m].rs = "unknown" /\ m \in reported /\ Plain(m) =>
        Gone(row[m]).rs = "unknown"
  BY <1>3
<1> QED BY <1>1, <1>2, <1>3, <1>4, <1>5, EndWithWrite DEF LiveAborts

\* A live sender fails.
LEMMA LiveFailsKeeps ==
  ASSUME IInv, NEW m \in Message, LiveFails(m)
  PROVE  IInv'
<1> DEFINE x == work[m]
           p == x.err = "proven"
           recorded == IF x.got THEN FailedAfterSend(row[m]) ELSE Record(m, p)
<1>1. m \in Worker /\ x.pc = "caught" /\ x.pc \in AttemptPcs
      /\ UNCHANGED <<kind, todo, history, crashes>>
  BY DEF LiveFails, AttemptPcs, Worker
<1>2. /\ x \in WorkType /\ x.msg = m /\ row[m] \in RowType
      /\ x.post # "failed" => row[m].rc < MaxRetries
      /\ ~ x.got => x.post # "failed"
      /\ m \in reported /\ Plain(m) => x.got
  BY <1>1, UnitFacts
<1>3. CASE EndSilently(m)
  BY <1>1, <1>3, EndSilentlyKeeps
<1>4. CASE EndUnwritten(m)
  BY <1>1, <1>4, EndUnwrittenKeeps
<1>5. CASE (x.got => x.post = "marked") /\ EndWith(m, recorded)
  <2>1. row[m].rc < MaxRetries
    BY <1>2, <1>5
  <2>2. p \in BOOLEAN
    OBVIOUS
  <2>3. Record(m, p) \in RowType
    BY <2>1, <2>2, RecordFacts
  <2>4. recorded \in RowType /\ (x.got => recorded.rs = "unknown")
    BY <1>2, <2>1, <2>3, FailureUpdates
  <2> HIDE DEF recorded
  <2> QED BY <1>1, <1>2, <1>5, <2>4, EndWithKeeps
<1> QED BY <1>3, <1>4, <1>5 DEF LiveFails

\* A replay fails.
LEMMA ReplayFailsKeeps ==
  ASSUME IInv, NEW d \in Recoverer, ReplayFails(d)
  PROVE  IInv'
<1> DEFINE x == work[d]
           m == x.msg
           p == x.err = "proven"
           r == IF x.err = "permanent" THEN Dead(row[m]) ELSE Record(m, p)
<1>1. d \in Worker /\ x.pc = "caught" /\ x.pc \in AttemptPcs
      /\ UNCHANGED <<kind, todo, history, crashes>>
  BY DEF ReplayFails, AttemptPcs, Worker
<1>2. /\ x \in WorkType /\ m \in Message /\ row[m] \in RowType
      /\ x.post # "failed" => row[m].rc < MaxRetries
      /\ m \in reported /\ Plain(m) => x.got
  BY <1>1, UnitFacts
<1>3. CASE EndSilently(d)
  BY <1>1, <1>3, EndSilentlyKeeps
<1>4. CASE EndUnwritten(d)
  BY <1>1, <1>4, EndUnwrittenKeeps
<1>5. CASE ~ x.got /\ x.post = "no" /\ EndWith(d, r)
  <2>1. p \in BOOLEAN
    OBVIOUS
  <2>2. Record(m, p) \in RowType
    BY <1>2, <1>5, <2>1, RecordFacts
  <2>3. r \in RowType
    BY <1>2, <2>2, RowUpdates
  <2> HIDE DEF r
  <2> QED BY <1>1, <1>2, <1>5, <2>3, EndWithKeeps
<1> QED BY <1>3, <1>4, <1>5 DEF ReplayFails

-----------------------------------------------------------------------------
(* Steps that begin an attempt or lead to one. *)

\* A row appears before it is claimed.
LEMMA EnqueueKeeps ==
  ASSUME IInv, NEW m \in Message, Enqueue(m)
  PROVE  IInv'
<1> DEFINE y == At("queued", m)
<1>1. m \in Worker /\ work[m].pc = "new" /\ MessageInv(m) /\ StageInv(m)
  BY DEF Enqueue, Worker, IInv
<1>2. y \in WorkType /\ y.pc = "queued" /\ y.msg = m
  BY DeliveryAssumption DEF At, WorkType
<1>3. row[m] \in RowType
  BY DEF IInv, TypeOK
<1> DEFINE r == [row[m] EXCEPT !.st = "pending"]
<1>4. r \in RowType /\ r.rc = row[m].rc /\ r.rs = row[m].rs /\ r.st = "pending"
  BY <1>3 DEF RowType
<1>5. row' = [row EXCEPT ![m] = r]
  BY Zenon DEF Enqueue
<1>6. Goto(m, y)
  BY DEF Enqueue
<1> HIDE DEF y, r
<1>7. /\ work' \in [Worker -> WorkType] /\ work'[m] = y
      /\ \A v \in Worker : v # m => work'[v] = work[v]
  BY <1>1, <1>2, <1>6 DEF IInv, TypeOK, Goto
<1>8. /\ row' \in [Message -> RowType] /\ row'[m] = r
      /\ \A n \in Message : n # m => row'[n] = row[n]
  BY <1>4, <1>5 DEF IInv, TypeOK
<1>9. UNCHANGED <<kind, claims, todo, sent, muted, aborted, reported, attempts,
                  crashes, faults>>
  BY DEF Enqueue, history
<1>10. \A v \in Worker : Holds(v)' <=> v # m /\ Holds(v)
  BY <1>1, <1>2, <1>7 DEF Holds, HoldPcs, AttemptPcs, Sending
<1>11. TypeOK'
  BY <1>7, <1>8, <1>9 DEF IInv, TypeOK
<1>12. Exclusive'
  BY <1>7, <1>10 DEF IInv, Exclusive
<1>13. ASSUME NEW v \in Worker
       PROVE  StageInv(v)'
  <2>1. CASE v = m
    <3>1. ~ Holds(m)'
      BY <1>1, <1>10
    <3>2. Knows(m, y, row'[y.msg], y.msg \in reported)
      BY <1>2 DEF Knows, AttemptPcs, Sending
    <3> QED BY <1>7, <1>9, <2>1, <3>1, <3>2 DEF StageInv, Knows, Plain
  <2>2. CASE v # m
    <3>1. work'[v] = work[v] /\ StageInv(v) /\ (Holds(v)' <=> Holds(v))
      BY <1>7, <1>10, <2>2 DEF IInv
    <3>2. CASE Holds(v)
      <4>1. work[v].msg \in Message
        BY <3>2, HolderFacts
      <4>2. row'[work[v].msg].rc = row[work[v].msg].rc
        BY <1>4, <1>8, <4>1
      <4> QED BY <1>9, <3>1, <4>1, <4>2 DEF StageInv, Knows, Plain
    <3>3. CASE ~ Holds(v)
      BY <3>1, <3>3 DEF StageInv, Knows, Holds, HoldPcs, AttemptPcs, Sending
    <3> QED BY <3>2, <3>3
  <2> QED BY <2>1, <2>2
<1>14. ASSUME NEW n \in Message
       PROVE  MessageInv(n)'
  <2>1. n \in Worker /\ MessageInv(n)
    BY DEF IInv, Worker
  <2>2. \A v \in Worker : Holds(v)' => work'[v] = work[v] /\ Holds(v)
    BY <1>7, <1>10
  <2>3. CASE n = m
    BY <1>1, <1>2, <1>4, <1>7, <1>8, <1>9, <2>2, <2>3 DEF MessageInv, Plain
  <2>4. CASE n # m
    BY <1>7, <1>8, <1>9, <2>1, <2>2, <2>4 DEF MessageInv, Plain
  <2> QED BY <2>3, <2>4
<1> QED BY <1>11, <1>12, <1>13, <1>14 DEF IInv

\* A worker that holds nothing moves on, and leaves everything else alone.
LEMMA IdleStep ==
  ASSUME IInv, NEW w \in Worker, ~ Holds(w), NEW y \in WorkType, Goto(w, y),
         y.pc \in {"over", "idle", "loop"},
         w \in Message => y.msg = w /\ y.pc = "over",
         UNCHANGED <<row, kind, claims, reported>>, Rest
  PROVE  IInv'
<1>1. /\ work' \in [Worker -> WorkType] /\ work'[w] = y
      /\ \A v \in Worker : v # w => work'[v] = work[v]
  BY DEF IInv, TypeOK, Goto
<1>2. \A v \in Worker : Holds(v)' <=> Holds(v)
  BY <1>1 DEF Holds, HoldPcs, AttemptPcs, Sending
<1>3. TypeOK'
  BY <1>1 DEF IInv, TypeOK, Rest
<1>4. Exclusive'
  BY <1>1, <1>2 DEF IInv, Exclusive
<1>5. ASSUME NEW v \in Worker
      PROVE  StageInv(v)'
  <2>1. CASE v = w
    <3>1. Knows(w, y, row'[y.msg], y.msg \in reported)
      BY DEF Knows, AttemptPcs, Sending
    <3> QED BY <1>1, <1>2, <2>1, <3>1 DEF StageInv, Knows, Plain
  <2>2. CASE v # w
    BY <1>1, <1>2, <2>2 DEF IInv, StageInv, Knows, Plain
  <2> QED BY <2>1, <2>2
<1>6. ASSUME NEW n \in Message
      PROVE  MessageInv(n)'
  <2>1. n \in Worker /\ MessageInv(n)
    BY DEF IInv, Worker
  <2>2. \A v \in Worker : Holds(v)' => work'[v] = work[v] /\ Holds(v)
    BY <1>1, <1>2
  <2>3. work'[n].pc \in {"new", "queued"} => work'[n] = work[n]
    BY <1>1, <2>1
  <2> QED BY <1>1, <2>1, <2>2, <2>3 DEF MessageInv, Plain
<1> QED BY <1>3, <1>4, <1>5, <1>6 DEF IInv

\* A worker that claims an entry nobody else holds.
LEMMA ClaimStep ==
  ASSUME IInv, NEW w \in Worker, ~ Holds(w), NEW m \in Message, m \notin claims,
         NEW pc \in {"unit", "taken"}, Goto(w, At(pc, m)),
         claims' = claims \cup {m},
         w \in Message => m = w /\ pc = "unit",
         w \notin Message => pc = "taken",
         pc = "unit" => row[m].rc < MaxRetries /\ ~ (m \in reported /\ Plain(m)),
         UNCHANGED <<row, kind, reported>>, Rest
  PROVE  IInv'
<1> DEFINE y == At(pc, m)
<1>1. y \in WorkType /\ y.pc = pc /\ y.msg = m /\ ~ y.got /\ y.post = "no"
  BY DeliveryAssumption DEF At, WorkType
<1>2. Goto(w, y)
  OBVIOUS
<1> HIDE DEF y
<1>3. /\ work' \in [Worker -> WorkType] /\ work'[w] = y
      /\ \A v \in Worker : v # w => work'[v] = work[v]
  BY <1>1, <1>2 DEF IInv, TypeOK, Goto
<1>4. \A v \in Worker : Holds(v)' <=> v = w \/ Holds(v)
  BY <1>1, <1>3 DEF Holds, HoldPcs, AttemptPcs, Sending
<1>5. \A v \in Worker : Holds(v) => work[v].msg \in claims
  BY DEF IInv, StageInv
<1>6. TypeOK'
  BY <1>3 DEF IInv, TypeOK, Rest
<1>7. Exclusive'
  BY <1>1, <1>3, <1>4, <1>5 DEF IInv, Exclusive
<1>8. ASSUME NEW v \in Worker
      PROVE  StageInv(v)'
  <2>1. CASE v = w
    <3>1. Knows(w, y, row[m], m \in reported)
      BY <1>1 DEF Knows, AttemptPcs, Sending
    <3> QED BY <1>1, <1>3, <2>1, <3>1 DEF StageInv, Knows, Plain
  <2>2. CASE v # w
    BY <1>3, <1>4, <2>2 DEF IInv, StageInv, Knows, Plain
  <2> QED BY <2>1, <2>2
<1>9. ASSUME NEW n \in Message
      PROVE  MessageInv(n)'
  <2>1. n \in Worker /\ MessageInv(n)
    BY DEF IInv, Worker
  <2>2. work'[n].pc \in {"new", "queued"} => n # w /\ work'[n] = work[n]
    BY <1>1, <1>3, <2>1
  <2>3. ASSUME work'[n].pc \in {"new", "queued"}, NEW v \in Worker, Holds(v)',
               work'[v].msg = n
        PROVE  work'[v].pc = "taken"
    BY <1>1, <1>3, <1>4, <2>1, <2>2, <2>3 DEF MessageInv
  <2> QED BY <1>3, <2>1, <2>2, <2>3 DEF MessageInv, Plain
<1> QED BY <1>6, <1>7, <1>8, <1>9 DEF IInv

\* A live sender claims its row, or stands by.
LEMMA ClaimLiveKeeps ==
  ASSUME IInv, NEW m \in Message, ClaimLive(m)
  PROVE  IInv'
<1>1. m \in Worker /\ work[m].pc = "queued" /\ MessageInv(m)
  BY DEF ClaimLive, Worker, IInv
<1>2. ~ Holds(m)
  BY <1>1 DEF Holds, HoldPcs, AttemptPcs, Sending
<1>3. UNCHANGED <<row, kind, todo, sent, muted, aborted, reported, crashes, faults>>
  BY DEF ClaimLive
<1>4. attempts' \in [Message -> Nat]
  <2>1. attempts[m] + 1 \in Nat
    BY DEF IInv, TypeOK
  <2> QED BY <2>1 DEF ClaimLive, Attempt, IInv, TypeOK
<1>5. Rest
  BY <1>3, <1>4 DEF Rest, IInv, TypeOK
<1>6. CASE m \in claims
  <2>1. At("over", m) \in WorkType /\ At("over", m).pc = "over"
        /\ At("over", m).msg = m
    BY DeliveryAssumption DEF At, WorkType
  <2>2. Goto(m, At("over", m)) /\ claims' = claims
    BY <1>6 DEF ClaimLive
  <2> QED BY <1>1, <1>2, <1>3, <1>5, <2>1, <2>2, IdleStep
<1>7. CASE m \notin claims
  <2>1. Goto(m, At("unit", m)) /\ claims' = claims \cup {m}
    BY <1>7 DEF ClaimLive
  <2>2. row[m].rc < MaxRetries /\ ~ (m \in reported /\ Plain(m))
    BY <1>1, DeliveryAssumption DEF MessageInv
  <2> QED BY <1>1, <1>2, <1>3, <1>5, <1>7, <2>1, <2>2, ClaimStep
<1> QED BY <1>6, <1>7

\* Messages and recoverers are different workers.
LEMMA RecovererFacts ==
  ASSUME NEW d \in Recoverer
  PROVE  d \in Worker /\ d \notin Message
BY DeliveryAssumption DEF Recoverer, Worker

\* A drain reads the pending rows.
LEMMA EnqueueFailsKeeps ==
  ASSUME IInv, NEW m \in Message, EnqueueFails(m)
  PROVE  IInv'
<1> DEFINE y == At("over", m)
<1>1. m \in Worker /\ ~ Holds(m)
  BY DEF EnqueueFails, Worker, Holds, HoldPcs, AttemptPcs, Sending
<1>2. y \in WorkType /\ y.pc = "over" /\ y.msg = m
  BY DeliveryAssumption DEF At, WorkType
<1>3. row' = row /\ faults' \in 0 .. MaxFaults
  BY DeliveryAssumption DEF EnqueueFails, Put, IInv, TypeOK
<1>4. Rest
  BY <1>3 DEF Rest, EnqueueFails, IInv, TypeOK, history
<1> HIDE DEF y
<1>5. Goto(m, y)
  BY DEF EnqueueFails, y
<1> QED BY <1>1, <1>2, <1>3, <1>4, <1>5, IdleStep DEF EnqueueFails, history

LEMMA SnapshotKeeps ==
  ASSUME IInv, NEW d \in Recoverer, Snapshot(d)
  PROVE  IInv'
<1> DEFINE y == At("loop", NoMessage)
<1>1. d \in Worker /\ d \notin Message
  BY RecovererFacts
<1>2. ~ Holds(d)
  BY DEF Snapshot, Holds, HoldPcs, AttemptPcs, Sending
<1>3. y \in WorkType /\ y.pc = "loop"
  BY DeliveryAssumption DEF At, WorkType
<1>4. todo' \in [Recoverer -> SUBSET Message]
  BY DEF Snapshot, IInv, TypeOK
<1>5. Rest
  BY <1>4 DEF Rest, Snapshot, IInv, TypeOK, history
<1> HIDE DEF y
<1>6. Goto(d, y)
  BY DEF Snapshot, y
<1> QED BY <1>1, <1>2, <1>3, <1>5, <1>6, IdleStep DEF Snapshot, history

\* A drain has come to the end of its snapshot.
LEMMA DrainEndsKeeps ==
  ASSUME IInv, NEW d \in Recoverer, DrainEnds(d)
  PROVE  IInv'
<1> DEFINE y == At(IF d = Boot THEN "over" ELSE "idle", NoMessage)
<1>1. d \in Worker /\ d \notin Message
  BY RecovererFacts
<1>2. ~ Holds(d)
  BY DEF DrainEnds, Holds, HoldPcs, AttemptPcs, Sending
<1>3. y \in WorkType /\ y.pc \in {"over", "idle"}
  BY DeliveryAssumption DEF At, WorkType
<1>4. Rest
  BY DEF Rest, DrainEnds, IInv, TypeOK, history
<1>5. Goto(d, y)
  BY DEF DrainEnds
<1> HIDE DEF y
<1> QED BY <1>1, <1>2, <1>3, <1>4, <1>5, IdleStep DEF DrainEnds, history

\* A step that changes only what no invariant but the type depends on.
LEMMA RestStep ==
  ASSUME IInv, UNCHANGED <<row, kind, claims, work, reported>>, Rest
  PROVE  IInv'
<1>1. \A w \in Worker : Holds(w)' <=> Holds(w)
  BY DEF Holds
<1>2. TypeOK'
  BY DEF IInv, TypeOK, Rest
<1>3. Exclusive'
  BY <1>1 DEF IInv, Exclusive
<1>4. \A w \in Worker : StageInv(w)'
  BY <1>1 DEF IInv, StageInv, Knows, Plain
<1>5. \A m \in Message : MessageInv(m)'
  BY <1>1 DEF IInv, MessageInv, Plain
<1> QED BY <1>2, <1>3, <1>4, <1>5 DEF IInv

\* The startup recovery runs out of time.
LEMMA DeadlinePassesKeeps ==
  ASSUME IInv, DeadlinePasses
  PROVE  IInv'
<1>1. Rest
  BY DEF Rest, DeadlinePasses, IInv, TypeOK, history
<1> QED BY <1>1, RestStep DEF DeadlinePasses, history

\* A drain claims an entry, or skips it.
LEMMA TakeKeeps ==
  ASSUME IInv, NEW d \in Recoverer, NEW m \in Message, Take(d, m)
  PROVE  IInv'
<1>1. d \in Worker /\ d \notin Message
  BY RecovererFacts
<1>2. ~ Holds(d)
  BY DEF Take, Holds, HoldPcs, AttemptPcs, Sending
<1>3. todo' \in [Recoverer -> SUBSET Message]
  BY DEF Take, IInv, TypeOK
<1>4. Rest
  BY <1>3 DEF Rest, Take, IInv, TypeOK, history
<1>5. CASE m \in claims
  BY <1>4, <1>5, RestStep DEF Take, history
<1>6. CASE m \notin claims
  BY <1>1, <1>2, <1>4, <1>6, ClaimStep DEF Take, history
<1> QED BY <1>5, <1>6

\* The facts about an entry that a drain examines.
LEMMA ExaminingFacts ==
  ASSUME IInv, NEW d \in Recoverer, work[d].pc \in {"taken", "reconcile"}
  PROVE  /\ d \in Worker /\ d \notin Message /\ Holds(d)
         /\ work[d].msg \in Message /\ row[work[d].msg] \in RowType
         /\ MessageInv(work[d].msg)
         /\ work[d].msg \in reported /\ Plain(work[d].msg) =>
              row[work[d].msg].rs = "unknown"
         /\ Examining(d) /\ Pending(work[d].msg) =>
              work[work[d].msg].pc \notin {"new", "queued"}
<1>1. d \in Worker /\ d \notin Message /\ Holds(d)
  BY RecovererFacts DEF Holds, HoldPcs
<1>2. work[d].msg \in Message /\ row[work[d].msg] \in RowType
  BY <1>1, HolderFacts
<1>3. MessageInv(work[d].msg)
  BY <1>2 DEF IInv
<1> QED BY <1>1, <1>2, <1>3 DEF MessageInv, Examining, Pending

\* A drain finds its entry settled.
LEMMA SkipGoneKeeps ==
  ASSUME IInv, NEW d \in Recoverer, SkipGone(d)
  PROVE  IInv'
<1>1. d \in Worker /\ Holds(d) /\ work[d].msg \in Message
  BY ExaminingFacts DEF SkipGone, Examining
<1>2. Touches(work[d].msg) /\ row' = row /\ reported' = reported
  BY <1>1, UntouchedFacts DEF SkipGone, history
<1>3. Rest
  BY DEF Rest, SkipGone, IInv, TypeOK, history
<1> QED BY <1>1, <1>2, <1>3, EndStep DEF SkipGone

\* A drain leaves an entry to its backoff.
LEMMA DeferKeeps ==
  ASSUME IInv, NEW d \in Recoverer, Defer(d)
  PROVE  IInv'
<1>1. d \in Worker /\ Holds(d) /\ work[d].msg \in Message
  BY ExaminingFacts DEF Defer, Examining
<1>2. Touches(work[d].msg) /\ row' = row /\ reported' = reported
  BY <1>1, UntouchedFacts DEF Defer, history
<1>3. Rest
  BY DEF Rest, Defer, IInv, TypeOK, history
<1> QED BY <1>1, <1>2, <1>3, EndStep DEF Defer

\* A drain writes to the row of an entry it examines, and lets it go.
LEMMA DrainWrites ==
  ASSUME IInv, NEW d \in Recoverer, work[d].pc \in {"taken", "reconcile"},
         work[work[d].msg].pc \notin {"new", "queued"},
         NEW r \in RowType, r.rs = row[work[d].msg].rs, NEW cost \in Nat,
         Put(work[d].msg, r, cost), End(d), kind' = kind,
         UNCHANGED <<history, crashes>>, todo' \in [Recoverer -> SUBSET Message]
  PROVE  IInv'
<1> DEFINE m == work[d].msg
<1>1. d \in Worker /\ Holds(d) /\ m \in Message
      /\ (m \in reported /\ Plain(m) => r.rs = "unknown")
  BY ExaminingFacts
<1>2. Touches(m) /\ faults' \in 0 .. MaxFaults
  BY <1>1, PutFacts DEF IInv, history
<1>3. Rest
  BY <1>2 DEF Rest, IInv, TypeOK, history
<1> QED BY <1>1, <1>2, <1>3, EndStep

\* A drain moves an entry to the failed ones.
LEMMA DeadLetterKeeps ==
  ASSUME IInv, NEW d \in Recoverer, DeadLetter(d)
  PROVE  IInv'
<1> DEFINE m == work[d].msg
<1>1. work[d].pc = "taken" /\ Examining(d) /\ Pending(m) /\ kind' = kind
      /\ UNCHANGED <<history, crashes>>
  BY DEF DeadLetter, Examining
<1>2. m \in Message /\ row[m] \in RowType
      /\ work[m].pc \notin {"new", "queued"}
  BY <1>1, ExaminingFacts
<1>3. todo' \in [Recoverer -> SUBSET Message]
  BY DEF DeadLetter, IInv, TypeOK
<1>4. Dead(row[m]) \in RowType /\ Dead(row[m]).rs = row[m].rs
  BY <1>2, RowUpdates
<1>5. CASE EndWith(d, Dead(row[m]))
  BY <1>1, <1>2, <1>3, <1>4, <1>5, DrainWrites DEF EndWith
<1>6. CASE EndUnwritten(d)
  <2>1. Fault(m) \in Nat
    BY DEF Fault
  <2> QED BY <1>1, <1>2, <1>3, <1>6, <2>1, DrainWrites DEF EndUnwritten
<1> QED BY <1>5, <1>6 DEF DeadLetter

\* A drain goes on with the entry it holds.
LEMMA BeginStep ==
  ASSUME IInv, NEW d \in Recoverer, work[d].pc \in {"taken", "reconcile"},
         NEW m \in Message, m = work[d].msg,
         work[m].pc \notin {"new", "queued"}, row[m].rc < MaxRetries,
         NEW pc \in {"unit", "reconcile"}, Goto(d, At(pc, m)),
         pc = "unit" => ~ (m \in reported /\ Plain(m)),
         UNCHANGED <<row, kind, claims, reported>>, Rest
  PROVE  IInv'
<1> DEFINE y == At(pc, m)
<1>1. y \in WorkType /\ y.pc = pc /\ y.msg = m /\ ~ y.got /\ y.post = "no"
  BY DeliveryAssumption DEF At, WorkType
<1>2. Goto(d, y)
  OBVIOUS
<1>3. d \in Worker /\ d \notin Message /\ Holds(d)
  BY ExaminingFacts
<1>4. Touches(m) /\ row'[m] = row[m]
  BY UntouchedFacts
<1> HIDE DEF y
<1>5. Knows(d, y, row'[m], m \in reported')
  BY <1>1, <1>3, <1>4 DEF Knows, AttemptPcs, Sending
<1>6. y.pc \in HoldPcs /\ y.pc \notin {"new", "queued"}
  BY <1>1 DEF HoldPcs, AttemptPcs, Sending
<1> QED BY <1>1, <1>2, <1>3, <1>4, <1>5, <1>6, LocalStep

\* An attempt is counted for one message.
LEMMA AttemptFacts ==
  ASSUME IInv, NEW m \in Message, Attempt(m)
  PROVE  attempts' \in [Message -> Nat]
         /\ \A n \in Message : n # m => attempts'[n] = attempts[n]
<1>1. attempts[m] + 1 \in Nat
  BY DEF IInv, TypeOK
<1> QED BY <1>1 DEF Attempt, IInv, TypeOK

\* A drain replays an entry or asks about it first.
LEMMA BeginKeeps ==
  ASSUME IInv, NEW d \in Recoverer, Begin(d)
  PROVE  IInv'
<1> DEFINE m == work[d].msg
<1>1. work[d].pc = "taken" /\ Examining(d) /\ Pending(m) /\ ~ Exhausted(m)
      /\ UNCHANGED <<row, kind, claims, todo, sent, muted, aborted, reported,
                     crashes, faults>>
  BY DEF Begin, Examining
<1>2. /\ m \in Message /\ row[m] \in RowType
      /\ work[m].pc \notin {"new", "queued"}
      /\ m \in reported /\ Plain(m) => row[m].rs = "unknown"
  BY <1>1, ExaminingFacts
<1>3. row[m].rc < MaxRetries
  BY <1>1, <1>2, DeliveryAssumption DEF Exhausted, RowType
<1>4. CASE row[m].rs = "none"
  <2>1. Attempt(m) /\ Goto(d, At("unit", m))
    BY <1>4 DEF Begin
  <2>2. Rest
    BY <1>1, <1>2, <2>1, AttemptFacts DEF Rest, IInv, TypeOK
  <2> QED BY <1>1, <1>2, <1>3, <1>4, <2>1, <2>2, BeginStep
<1>5. CASE row[m].rs # "none"
  <2>1. Goto(d, At("reconcile", m)) /\ attempts' = attempts
    BY <1>5 DEF Begin
  <2>2. Rest
    BY <1>1, <2>1 DEF Rest, IInv, TypeOK
  <2> QED BY <1>1, <1>2, <1>3, <2>1, <2>2, BeginStep
<1> QED BY <1>4, <1>5

\* An entry is reconciled, and settled or replayed.
LEMMA ReconcileKeeps ==
  ASSUME IInv, NEW d \in Recoverer, Reconcile(d)
  PROVE  IInv'
<1> DEFINE m == work[d].msg
<1>1. work[d].pc = "reconcile"
      /\ UNCHANGED <<kind, todo, sent, muted, aborted, reported, crashes>>
  BY DEF Reconcile
<1>2. /\ m \in Message /\ row[m] \in RowType /\ d \in Worker /\ Holds(d)
      /\ m \in reported /\ Plain(m) => row[m].rs = "unknown"
  BY <1>1, ExaminingFacts
<1>3. row[m].rc < MaxRetries /\ work[m].pc \notin {"new", "queued"}
  BY <1>1, <1>2, HolderFacts DEF IInv, StageInv, Knows
<1>4. /\ Gone(row[m]) \in RowType /\ Gone(row[m]).rs = row[m].rs
      /\ Dead(row[m]) \in RowType /\ Dead(row[m]).rs = row[m].rs
      /\ Failed(row[m]) \in RowType /\ Failed(row[m]).rs = row[m].rs
  BY <1>2, <1>3, RowUpdates, FailureUpdates
<1>5. CASE /\ row[m].rs = "started"
           /\ Attempt(m)
           /\ Goto(d, At("unit", m))
           /\ UNCHANGED <<row, claims, faults>>
  <2>1. Rest
    BY <1>1, <1>2, <1>5, AttemptFacts DEF Rest, IInv, TypeOK
  <2> QED BY <1>1, <1>2, <1>3, <1>5, <2>1, BeginStep
<1>6. ASSUME attempts' = attempts, End(d),
             NEW r \in {row[m], Gone(row[m]), Dead(row[m]), Failed(row[m])},
             NEW cost \in Nat, Put(m, r, cost)
      PROVE  IInv'
  <2>1. r \in RowType /\ r.rs = row[m].rs
    BY <1>2, <1>4, <1>6
  <2>2. UNCHANGED <<history, crashes>>
    BY <1>1, <1>6 DEF history
  <2>3. todo' \in [Recoverer -> SUBSET Message]
    BY <1>1 DEF IInv, TypeOK
  <2> QED BY <1>1, <1>3, <1>6, <2>1, <2>2, <2>3, DrainWrites
<1>7. Fault(m) \in Nat
  BY DEF Fault
<1>8. PICK answer \in Answers(m) :
        \/ /\ Replayable(m, answer)
           /\ Attempt(m)
           /\ Goto(d, At("unit", m))
           /\ UNCHANGED <<row, claims, faults>>
        \/ /\ attempts' = attempts
           /\ CASE answer = "sent" ->
                     \/ Put(m, Gone(row[m]), 0) /\ End(d)
                     \/ Put(m, Failed(row[m]), 1) /\ End(d)
                     \/ Put(m, row[m], 2) /\ End(d)
                [] answer = "retryable" ->
                     EndWith(d, Failed(row[m])) \/ EndUnwritten(d)
                [] OTHER ->
                     EndWith(d, Dead(row[m])) \/ EndUnwritten(d)
  BY DEF Reconcile
<1>9. CASE /\ Replayable(m, answer)
            /\ Attempt(m)
            /\ Goto(d, At("unit", m))
            /\ UNCHANGED <<row, claims, faults>>
  BY <1>5, <1>9 DEF Replayable
<1>10. CASE /\ attempts' = attempts
            /\ \/ Put(m, Gone(row[m]), 0) /\ End(d)
               \/ Put(m, Failed(row[m]), 1) /\ End(d)
               \/ Put(m, row[m], 2) /\ End(d)
               \/ EndWith(d, Failed(row[m]))
               \/ EndWith(d, Dead(row[m]))
               \/ EndUnwritten(d)
  BY <1>6, <1>7, <1>10 DEF EndWith, EndUnwritten
<1>11. \/ /\ Replayable(m, answer)
          /\ Attempt(m)
          /\ Goto(d, At("unit", m))
          /\ UNCHANGED <<row, claims, faults>>
       \/ /\ attempts' = attempts
          /\ \/ Put(m, Gone(row[m]), 0) /\ End(d)
             \/ Put(m, Failed(row[m]), 1) /\ End(d)
             \/ Put(m, row[m], 2) /\ End(d)
             \/ EndWith(d, Failed(row[m]))
             \/ EndWith(d, Dead(row[m]))
             \/ EndUnwritten(d)
  BY <1>8
<1> QED BY <1>9, <1>10, <1>11

\* A crash loses the claims and the workers, and never the evidence.
LEMMA CrashKeeps ==
  ASSUME IInv, Crash
  PROVE  IInv'
<1> DEFINE after(w) ==
      IF Live(w) THEN At(IF work[w].pc = "new" THEN "new" ELSE "over", w)
                 ELSE At("idle", NoMessage)
<1>1. \A w \in Worker :
        /\ after(w) \in WorkType
        /\ after(w).pc \in {"new", "over", "idle"}
        /\ w \in Message => after(w).msg = w /\ after(w).pc \in {"new", "over"}
        /\ w \notin Message => after(w).pc = "idle"
        /\ after(w).pc = "new" => work[w].pc = "new"
  BY DeliveryAssumption DEF Live, At, WorkType
<1>2. work' = [w \in Worker |-> after(w)]
  BY DEF Crash
<1> HIDE DEF after
<1>3. work' \in [Worker -> WorkType] /\ \A w \in Worker : work'[w] = after(w)
  BY <1>1, <1>2
<1>4. \A w \in Worker : ~ Holds(w)'
  BY <1>1, <1>3 DEF Holds, HoldPcs, AttemptPcs, Sending
<1>5. sent' \in [Message -> [1 .. MaxUnits -> Nat]]
  <2>1. PICK arrived \in SUBSET {w \in Worker : work[w].pc = "io"} :
          sent' = [m \in Message |-> [u \in 1 .. MaxUnits |->
            IF \E w \in arrived : work[w].msg = m /\ work[w].unit = u
              THEN sent[m][u] + 1 ELSE sent[m][u]]]
    BY DEF Crash
  <2>2. \A m \in Message, u \in 1 .. MaxUnits :
          sent[m][u] \in Nat /\ sent[m][u] + 1 \in Nat
    <3>1. \A m \in Message : sent[m] \in [1 .. MaxUnits -> Nat]
      BY DEF IInv, TypeOK
    <3>2. \A m \in Message, u \in 1 .. MaxUnits : sent[m][u] \in Nat
      BY <3>1
    <3> QED BY <3>2
  <2> QED BY <2>1, <2>2
<1>6. crashes' \in 0 .. MaxCrashes
  BY DeliveryAssumption DEF Crash, IInv, TypeOK
<1>7. claims' = {} /\ UNCHANGED <<row, kind, muted, aborted, reported, attempts,
                                  faults>>
      /\ todo' \in [Recoverer -> SUBSET Message]
  BY DEF Crash
<1>8. TypeOK'
  BY <1>3, <1>5, <1>6, <1>7 DEF IInv, TypeOK
<1>9. Exclusive'
  BY <1>4 DEF Exclusive
<1>10. ASSUME NEW w \in Worker
       PROVE  StageInv(w)'
  BY <1>1, <1>3, <1>4 DEF StageInv, Knows, AttemptPcs, Sending
<1>11. ASSUME NEW m \in Message
       PROVE  MessageInv(m)'
  <2>1. m \in Worker /\ MessageInv(m)
    BY DEF IInv, Worker
  <2> QED BY <1>1, <1>3, <1>4, <1>7, <2>1 DEF MessageInv, Plain
<1> QED BY <1>8, <1>9, <1>10, <1>11 DEF IInv

-----------------------------------------------------------------------------
(* The invariant holds in every state. *)

\* The initial states satisfy the invariant.
LEMMA InitInv == Init => IInv
<1> SUFFICES ASSUME Init PROVE IInv
  OBVIOUS
<1> DEFINE start(w) == IF Live(w) THEN At("new", w) ELSE At("idle", NoMessage)
<1>1. \A w \in Worker :
        /\ start(w) \in WorkType
        /\ start(w).pc \in {"new", "idle"}
        /\ w \in Message => start(w).msg = w /\ start(w).pc = "new"
        /\ w \notin Message => start(w).pc = "idle"
  BY DeliveryAssumption DEF Live, At, WorkType
<1>2. work = [w \in Worker |-> start(w)]
  BY DEF Init
<1> HIDE DEF start
<1>3. work \in [Worker -> WorkType] /\ \A w \in Worker : work[w] = start(w)
  BY <1>1, <1>2
<1>4. \A w \in Worker : ~ Holds(w)
  BY <1>1, <1>3 DEF Holds, HoldPcs, AttemptPcs, Sending
<1>5. row \in [Message -> RowType]
  BY DeliveryAssumption DEF Init, RowType
<1>6. TypeOK
  BY <1>3, <1>5, DeliveryAssumption DEF Init, TypeOK
<1>7. Exclusive
  BY <1>4 DEF Exclusive
<1>8. ASSUME NEW w \in Worker
      PROVE  StageInv(w)
  BY <1>1, <1>3, <1>4 DEF StageInv, Knows, AttemptPcs, Sending
<1>9. ASSUME NEW m \in Message
      PROVE  MessageInv(m)
  BY <1>1, <1>3, <1>4 DEF Init, MessageInv, Worker
<1> QED BY <1>6, <1>7, <1>8, <1>9 DEF IInv

\* Nothing happens.
LEMMA StutterInv ==
  ASSUME IInv, UNCHANGED vars
  PROVE  IInv'
<1>1. Rest
  BY DEF Rest, vars, history, IInv, TypeOK
<1> QED BY <1>1, RestStep DEF vars, history

\* Every step keeps the invariant.
LEMMA NextInv ==
  ASSUME IInv, [Next]_vars
  PROVE  IInv'
<1>1. CASE UNCHANGED vars
  BY <1>1, StutterInv
<1>2. ASSUME NEW w \in Worker, DeliverStep(w)
      PROVE  IInv'
  BY <1>2, SuppressKeeps, SendStartKeeps, DispatchKeeps, PlatformAcceptsKeeps,
     PlatformSendsNothingKeeps, PlatformFailsKeeps, ResultKeeps,
     PersistEvidenceKeeps, FinishPartialKeeps, FinishWholeKeeps
     DEF DeliverStep
<1>3. ASSUME NEW m \in Message, LiveStep(m)
      PROVE  IInv'
  BY <1>3, EnqueueKeeps, EnqueueFailsKeeps, ClaimLiveKeeps, AbortKeeps,
     LiveAbortsKeeps, LiveFailsKeeps DEF LiveStep
<1>4. ASSUME NEW d \in Recoverer, RecoverStep(d)
      PROVE  IInv'
  BY <1>4, SnapshotKeeps, DrainEndsKeeps, TakeKeeps, SkipGoneKeeps,
     DeadLetterKeeps, DeferKeeps, BeginKeeps, ReconcileKeeps, ReplayFailsKeeps
     DEF RecoverStep
<1> QED BY <1>1, <1>2, <1>3, <1>4, DeadlinePassesKeeps, CrashKeeps DEF Next

\* The inductive invariant: types, exclusion, and what workers and rows know.
LEMMA Invariance == Spec => []IInv
BY InitInv, NextInv, PTL DEF Spec

\* Every variable of the delivery queue keeps its type; above all the retry
\* count never passes MAX_RETRIES, however failures, fallbacks and crashes
\* follow one another.
THEOREM TypeCorrect == Spec => []TypeOK
<1>1. IInv => TypeOK
  BY DEF IInv
<1> QED BY <1>1, Invariance, PTL

\* No two workers are ever inside an attempt at the same entry: live senders,
\* the startup recovery and any number of drains, across crashes
\* (withActiveDeliveryClaim, claimRecoveryEntry).
THEOREM OneDelivererAlways == Spec => []OneDeliverer
<1>1. IInv => OneDeliverer
  BY DEF IInv, Exclusive, OneDeliverer, Holds, HoldPcs, AttemptPcs, Sending,
         Attempting
<1> QED BY <1>1, Invariance, PTL

-----------------------------------------------------------------------------
(* No replay of a batch with a durable result. *)

\* Every adapter either writes no evidence at its dispatches, or sends single
\* units.
PlainKinds == \A k \in Kinds : k.hooked => k.units = 1

\* No step begins an attempt at a message with a durable result.
LEMMA NoReplayStep ==
  ASSUME PlainKinds, IInv, [Next]_vars, NEW m \in reported
  PROVE  attempts'[m] = attempts[m]
<1>1. m \in Message /\ Plain(m) /\ MessageInv(m)
  BY DEF IInv, TypeOK, PlainKinds, Plain
<1>2. row[m].rs = "unknown" /\ work[m].pc # "queued"
  BY <1>1 DEF MessageInv
<1>3. CASE attempts' = attempts
  BY <1>3
<1>4. ASSUME NEW n \in Message, ClaimLive(n)
      PROVE  attempts'[m] = attempts[m]
  BY <1>1, <1>2, <1>4, AttemptFacts DEF ClaimLive
<1>5. ASSUME NEW d \in Recoverer, Begin(d)
      PROVE  attempts'[m] = attempts[m]
  <2>1. work[d].pc = "taken"
    BY <1>5 DEF Begin, Examining
  <2>2. work[d].msg \in Message
    BY <2>1, ExaminingFacts
  <2> QED BY <1>1, <1>2, <1>5, <2>2, AttemptFacts DEF Begin
<1>6. ASSUME NEW d \in Recoverer, Reconcile(d)
      PROVE  attempts'[m] = attempts[m]
  <2>1. work[d].pc = "reconcile"
    BY <1>6 DEF Reconcile
  <2>2. work[d].msg \in Message
    BY <2>1, ExaminingFacts
  <2>3. \/ row[work[d].msg].rs = "started" /\ Attempt(work[d].msg)
        \/ attempts' = attempts
    BY <1>6 DEF Reconcile, Replayable
  <2> QED BY <1>1, <1>2, <2>2, <2>3, AttemptFacts
<1>7. \/ attempts' = attempts
      \/ \E n \in Message : ClaimLive(n)
      \/ \E d \in Recoverer : Begin(d) \/ Reconcile(d)
  <2>1. ASSUME NEW w \in Worker, DeliverStep(w)
        PROVE  attempts' = attempts
    BY <2>1 DEF DeliverStep, Suppress, SendStart, Dispatch, PlatformAccepts,
       PlatformSendsNothing, PlatformFails, Result, PersistEvidence,
       FinishPartial, FinishWhole, history
  <2>2. ASSUME NEW n \in Message, LiveStep(n)
        PROVE  attempts' = attempts \/ ClaimLive(n)
    BY <2>2 DEF LiveStep, Enqueue, EnqueueFails, Abort, LiveAborts, LiveFails, history
  <2>3. ASSUME NEW d \in Recoverer, RecoverStep(d)
        PROVE  attempts' = attempts \/ Begin(d) \/ Reconcile(d)
    BY <2>3 DEF RecoverStep, Snapshot, DrainEnds, Take, SkipGone, DeadLetter,
       Defer, ReplayFails, history
  <2>4. DeadlinePasses \/ Crash \/ UNCHANGED vars => attempts' = attempts
    BY DEF DeadlinePasses, Crash, vars, history
  <2> QED BY <2>1, <2>2, <2>3, <2>4 DEF Next
<1> QED BY <1>3, <1>4, <1>5, <1>6, <1>7

\* A batch with a durable result is never started again, whatever failures,
\* reconciliations and crashes follow, if no adapter with a dispatch hook sends
\* more than one unit (drainQueuedEntry: "never replays the batch").
THEOREM NoReplayAlways ==
  ASSUME PlainKinds
  PROVE  Spec => NoReplayAfterResult
<1>1. IInv /\ [Next]_vars => [\A m \in reported : attempts'[m] = attempts[m]]_vars
  BY NoReplayStep
<1> QED BY <1>1, Invariance, PTL DEF Spec, NoReplayAfterResult

=============================================================================
