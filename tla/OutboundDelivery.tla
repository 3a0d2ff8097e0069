-------------------------- MODULE OutboundDelivery --------------------------
(***************************************************************************)
(* The write-ahead queue of outbound messages:                             *)
(*   src/infra/outbound/deliver.ts                  the live send          *)
(*   src/infra/outbound/delivery-queue-recovery.ts  the replays            *)
(*   src/infra/outbound/delivery-queue-storage.ts   the durable rows       *)
(*                                                                         *)
(* A message is a row of the queue and a batch of units, each of which is  *)
(* one send to the chat platform.  Its live sender and the drains that     *)
(* replay pending rows are workers; they run the same delivery loop, end   *)
(* it differently, and exclude each other by a claim held in memory.  A    *)
(* crash keeps the rows and what the platform accepted, nothing else.      *)
(* Every write to a row may fail.                                          *)
(***************************************************************************)
EXTENDS Naturals

CONSTANTS
  Message,           \* messages; each has one live sender
  Drain,             \* keys of reconnect and periodic drains
  Boot,              \* the drain at startup, recoverPendingDeliveries
  NoMessage,         \* "no entry"
  Kinds,             \* what a caller and an adapter may ask for, see KindType
  MaxUnits,          \* bound: units of a batch
  MaxRetries,        \* MAX_RETRIES
  MaxCrashes,        \* bound: crashes of the process
  MaxFaults          \* bound: failed writes to the queue

KindType ==
  [units : 1 .. MaxUnits,
   hooked : BOOLEAN,       \* the adapter calls onPlatformSendDispatch
   exact : BOOLEAN,        \* requireUnknownSendReconciliation
   byMark : BOOLEAN,       \* the adapter recognises a send by a mark only
   required : BOOLEAN,     \* queuePolicy = "required"
   keepGoing : BOOLEAN]    \* bestEffort: go on after a failed payload

(* The code that sends does not enforce that an exact delivery is hooked and *)
(* required: src/infra/outbound/message.ts asks for exactness under the      *)
(* policy "required" only, and for adapters that promise reconciliation; an  *)
(* adapter that makes the promise has to call the hook.                      *)
ASSUME DeliveryAssumption ==
  /\ Message \cap (Drain \cup {Boot}) = {}
  /\ Boot \notin Drain
  /\ NoMessage \notin Message
  /\ Kinds \subseteq KindType
  /\ \A k \in Kinds : k.exact => k.hooked /\ k.required
  /\ MaxUnits \in Nat \ {0}
  /\ MaxRetries \in Nat \ {0}
  /\ MaxCrashes \in Nat
  /\ MaxFaults \in Nat

Recoverer == Drain \cup {Boot}
Worker == Message \cup Recoverer

VARIABLES
  row,               \* [Message -> durable row]
  kind,              \* [Message -> what was asked for it]
  claims,            \* entriesInProgress
  work,              \* [Worker -> where it stands in which entry]
  todo,              \* [Recoverer -> rest of its snapshot of pending rows]
  sent,              \* [Message -> [unit -> times the platform accepted it]]
  muted,             \* [Message -> units with nothing to send]
  aborted,           \* messages given up with an AbortError
  reported,          \* messages with a persisted platform result
  attempts,          \* [Message -> delivery attempts begun]
  crashes,           \* crashes so far
  faults             \* failed writes so far

history == <<sent, muted, aborted, reported, attempts>>
vars == <<row, kind, claims, work, todo, history, crashes, faults>>

RowType ==
  [st : {"none", "pending", "failed", "gone"},
   rs : {"none", "started", "unknown"},
   rc : 0 .. MaxRetries]

WorkType ==
  [pc : {"new", "queued", "over", "idle", "loop", "taken", "reconcile",
         "unit", "dispatch", "io", "result", "finish", "caught"},
   msg : Message \cup {NoMessage},
   unit : 1 .. MaxUnits,
   got : BOOLEAN,          \* deliveredResults is not empty
   bad : BOOLEAN,          \* hadPartialFailure
   proven : BOOLEAN,       \* all failures were proven not sent
   pre : {"no", "marked", "acked"},
   post : {"no", "marked", "acked", "failed"},
   err : {"no", "proven", "other", "permanent", "abort"}]

TypeOK ==
  /\ row \in [Message -> RowType]
  /\ kind \in [Message -> Kinds]
  /\ claims \subseteq Message
  /\ work \in [Worker -> WorkType]
  /\ todo \in [Recoverer -> SUBSET Message]
  /\ sent \in [Message -> [1 .. MaxUnits -> Nat]]
  /\ muted \in [Message -> SUBSET (1 .. MaxUnits)]
  /\ aborted \subseteq Message
  /\ reported \subseteq Message
  /\ attempts \in [Message -> Nat]
  /\ crashes \in 0 .. MaxCrashes
  /\ faults \in 0 .. MaxFaults

(* A worker at the start of an attempt, or outside of one. *)
At(pc, m) ==
  [pc |-> pc, msg |-> m, unit |-> 1, got |-> FALSE, bad |-> FALSE,
   proven |-> TRUE, pre |-> "no", post |-> "no", err |-> "no"]

Live(w) == w \in Message

Init ==
  /\ row = [m \in Message |-> [st |-> "none", rs |-> "none", rc |-> 0]]
  /\ kind \in [Message -> Kinds]
  /\ claims = {}
  /\ work = [w \in Worker |-> IF Live(w) THEN At("new", w)
                                         ELSE At("idle", NoMessage)]
  /\ todo = [d \in Recoverer |-> {}]
  /\ sent = [m \in Message |-> [u \in 1 .. MaxUnits |-> 0]]
  /\ muted = [m \in Message |-> {}]
  /\ aborted = {}
  /\ reported = {}
  /\ attempts = [m \in Message |-> 0]
  /\ crashes = 0
  /\ faults = 0

(***************************************************************************)
(* The rows.  A write names the row it leaves and the writes that failed   *)
(* on the way to it.                                                       *)
(***************************************************************************)

(* Mutant: a failed attempt is not counted. *)
Bug_Failed(r) == r

Pending(m) == row[m].st = "pending"
Started(r) == [r EXCEPT !.rs = "started"]
Unknown(r) == [r EXCEPT !.rs = "unknown"]
Gone(r) == IF r.st = "pending" THEN [r EXCEPT !.st = "gone"] ELSE r
Dead(r) == [r EXCEPT !.st = "failed"]
Failed(r) == [r EXCEPT !.rc = @ + 1]

FailedUnsent(r) == [Failed(r) EXCEPT !.rs = "none"]
FailedAfterSend(r) == Unknown(Failed(r))

Put(m, r, failing) ==
  /\ faults + failing <= MaxFaults
  /\ faults' = faults + failing
  /\ row' = [row EXCEPT ![m] = r]

(* The faults of an update that throws: it throws by itself when the row  *)
(* is not pending.                                                         *)
Fault(m) == IF Pending(m) THEN 1 ELSE 0

(* Mutant: a required message is given up like any other. *)
Bug_PreSend(m) ==
  (IF Pending(m)
     THEN {[row |-> Started(row[m]), pre |-> "marked", cost |-> 0]} ELSE {})
  \cup {[row |-> Gone(row[m]), pre |-> "acked", cost |-> Fault(m)],
        [row |-> row[m], pre |-> "no", cost |-> Fault(m) + 1]}

(* persistQueuedPreSendState: mark, or for best effort give the row up. *)
PreSend(m) ==
  (IF Pending(m)
     THEN {[row |-> Started(row[m]), pre |-> "marked", cost |-> 0]} ELSE {})
  \cup (IF kind[m].required
          THEN {[row |-> row[m], pre |-> "no", cost |-> Fault(m)]}
          ELSE {[row |-> Gone(row[m]), pre |-> "acked", cost |-> Fault(m)],
                [row |-> row[m], pre |-> "no", cost |-> Fault(m) + 1]})

(* persistQueuedPostSendState, persistRecoveredPostSendState: mark, else   *)
(* acknowledge, else record a failure after the send, else throw.          *)
PostSend(m) ==
  (IF Pending(m)
     THEN {[row |-> Unknown(row[m]), post |-> "marked", cost |-> 0],
           [row |-> FailedAfterSend(row[m]), post |-> "failed", cost |-> 2]}
     ELSE {})
  \cup {[row |-> Gone(row[m]), post |-> "acked", cost |-> Fault(m)],
        [row |-> row[m], post |-> "no", cost |-> 1 + 2 * Fault(m)]}

(***************************************************************************)
(* One delivery attempt, shared by live senders and replays:               *)
(* deliverOutboundPayloadsWithQueueCleanup around deliverOutboundPayloadsCore. *)
(***************************************************************************)

Goto(w, x) == work' = [work EXCEPT ![w] = x]

(* Mutant: only a settled entry is released. *)
Bug_End(w) ==
  /\ claims' = IF Pending(work[w].msg) THEN claims ELSE claims \ {work[w].msg}
  /\ Goto(w, IF Live(w) THEN At("over", w) ELSE At("loop", NoMessage))

(* The claim is released in a finally block. *)
End(w) ==
  /\ claims' = claims \ {work[w].msg}
  /\ Goto(w, IF Live(w) THEN At("over", w) ELSE At("loop", NoMessage))

Advance(x) ==
  IF x.unit < kind[x.msg].units
    THEN [x EXCEPT !.unit = @ + 1, !.pc = "unit"]
    ELSE [x EXCEPT !.pc = "finish"]

(* A failed unit ends the batch, or under bestEffort only itself. *)
Break(x, err) ==
  IF kind[x.msg].keepGoing
    THEN Advance([x EXCEPT !.bad = TRUE, !.proven = @ /\ err = "proven"])
    ELSE [x EXCEPT !.pc = "caught", !.err = err]

(* After a send a required pin may fail, which fails the unit all the same. *)
AfterSend(x) == {Advance(x), Break(x, "other")}

(* Hooks cancel the unit, or nothing visible is left of it. *)
Suppress(w) ==
  LET x == work[w]
  IN /\ x.pc = "unit"
     /\ muted' = [muted EXCEPT ![x.msg] = @ \cup {x.unit}]
     /\ Goto(w, Advance(x))
     /\ UNCHANGED <<row, kind, claims, todo, sent, aborted, reported, attempts,
                    crashes, faults>>

(* throwIfAborted; replays carry no abort signal. *)
Abort(m) ==
  /\ work[m].pc = "unit"
  /\ Goto(m, Break(work[m], "abort"))
  /\ UNCHANGED <<row, kind, claims, todo, history, crashes, faults>>

(* onPlatformSendStart: the first send of an attempt leaves its mark; a    *)
(* send that must be reconciled exactly leaves it at the dispatch instead. *)
SendStart(w) ==
  LET x == work[w]
      m == x.msg
      sends == IF kind[m].hooked THEN "dispatch" ELSE "io"
  IN /\ x.pc = "unit"
     /\ IF kind[m].exact \/ x.pre # "no"
          THEN Goto(w, [x EXCEPT !.pc = sends]) /\ UNCHANGED <<row, faults>>
          ELSE \E o \in PreSend(m) :
                 /\ Put(m, o.row, o.cost)
                 /\ Goto(w, IF o.pre = "no" THEN Break(x, "other")
                            ELSE [x EXCEPT
                                    !.pc = sends, !.pre = o.pre,
                                    !.post = IF Live(w) /\ o.pre = "acked"
                                               THEN "acked" ELSE @])
     /\ UNCHANGED <<kind, claims, todo, history, crashes>>

(* onPlatformSendDispatch, which the adapter calls before each write. *)
Dispatch(w) ==
  LET x == work[w]
      m == x.msg
      marked == [x EXCEPT !.pc = "io", !.pre = IF @ = "no" THEN "marked" ELSE @]
  IN /\ x.pc = "dispatch"
     /\ \/ /\ x.pre = "acked"
           /\ Goto(w, [x EXCEPT !.pc = "io"])
           /\ UNCHANGED <<row, faults>>
        \/ /\ x.pre # "acked"
           /\ Pending(m)
           /\ Put(m, Started(row[m]), 0)
           /\ Goto(w, marked)
        \/ /\ x.pre # "acked"
           /\ Put(m, row[m], Fault(m))
           /\ Goto(w, IF kind[m].exact THEN Break(x, "other")
                                      ELSE [x EXCEPT !.pc = "io"])
     /\ UNCHANGED <<kind, claims, todo, history, crashes>>

(* The platform answers the adapter. *)
Accepted(m, u) == [sent EXCEPT ![m][u] = @ + 1]

PlatformAccepts(w) ==
  LET x == work[w]
  IN /\ x.pc = "io"
     /\ sent' = Accepted(x.msg, x.unit)
     /\ Goto(w, [x EXCEPT !.pc = "result"])
     /\ UNCHANGED <<row, kind, claims, todo, muted, aborted, reported, attempts,
                    crashes, faults>>

(* A result without an identity is treated as nothing sent. *)
PlatformSendsNothing(w) ==
  LET x == work[w]
  IN /\ x.pc = "io"
     /\ muted' = [muted EXCEPT ![x.msg] = @ \cup {x.unit}]
     /\ \E y \in AfterSend(x) : Goto(w, y)
     /\ UNCHANGED <<row, kind, claims, todo, sent, aborted, reported, attempts,
                    crashes, faults>>

(* Only "proven" proves anything: other errors, an AbortError of the adapter *)
(* among them, may hide a message that was accepted.                       *)
PlatformFails(w) ==
  LET x == work[w]
      unproven == IF Live(w) THEN {"other", "abort"} ELSE {"other", "permanent"}
  IN /\ x.pc = "io"
     /\ \/ Goto(w, Break(x, "proven")) /\ UNCHANGED sent
        \/ /\ \E err \in unproven : Goto(w, Break(x, err))
           /\ sent' \in {sent, Accepted(x.msg, x.unit)}
     /\ UNCHANGED <<row, kind, claims, todo, muted, aborted, reported, attempts,
                    crashes, faults>>

(* onDeliveryResult: the first result of an attempt is made durable. *)
Evidence(m, r) == IF Unknown(r) = r THEN reported \cup {m} ELSE reported

Result(w) ==
  LET x == [work[w] EXCEPT !.got = TRUE]
      m == x.msg
  IN /\ x.pc = "result"
     /\ IF x.post # "no"
          THEN /\ \E y \in AfterSend(x) : Goto(w, y)
               /\ UNCHANGED <<row, faults, reported>>
          ELSE \E o \in PostSend(m) :
                 /\ Put(m, o.row, o.cost)
                 /\ reported' = Evidence(m, o.row)
                 /\ IF o.post = "no"
                      THEN Goto(w, Break(x, "other"))
                      ELSE \E y \in AfterSend([x EXCEPT !.post = o.post]) :
                             Goto(w, y)
     /\ UNCHANGED <<kind, claims, todo, sent, muted, aborted, attempts, crashes>>

(***************************************************************************)
(* The end of an attempt.  The results a worker knows of are persisted     *)
(* first; a live sender also marks a send it started and saw nothing of.   *)
(***************************************************************************)

NeedsMark(w) ==
  LET x == work[w]
  IN /\ x.post = "no"
     /\ x.got \/ (Live(w) /\ x.pc = "finish" /\ ~ x.bad /\ x.pre = "marked")

(* A replay whose bookkeeping throws goes to its catch block; there, and    *)
(* in a live sender, the row is left as it is.                             *)
PersistEvidence(w) ==
  LET x == work[w]
      m == x.msg
      replay == ~ Live(w) /\ x.pc = "finish"
  IN /\ x.pc \in {"finish", "caught"}
     /\ x.err # "abort"
     /\ NeedsMark(w)
     /\ \E o \in PostSend(m) :
          /\ Put(m, o.row, o.cost)
          /\ reported' = IF x.got THEN Evidence(m, o.row) ELSE reported
          /\ IF o.post = "no" /\ ~ replay
               THEN End(w)
               ELSE /\ Goto(w, IF o.post = "no"
                                 THEN [x EXCEPT !.pc = "caught", !.err = "other"]
                                 ELSE [x EXCEPT !.post = o.post])
                    /\ UNCHANGED claims
     /\ UNCHANGED <<kind, todo, sent, muted, aborted, attempts, crashes>>

(* Mutant: every failure clears the mark. *)
Bug_Record(m, proven) == FailedUnsent(row[m])

(* recordFailure: only failures that were all proven clear the mark. *)
Record(m, proven) == IF proven THEN FailedUnsent(row[m]) ELSE Failed(row[m])

(* One write that ends the attempt; if it throws, so does the attempt. *)
EndWith(w, r) == Pending(work[w].msg) /\ Put(work[w].msg, r, 0) /\ End(w)
EndUnwritten(w) ==
  Put(work[w].msg, row[work[w].msg], Fault(work[w].msg)) /\ End(w)
Caught(w) ==
  /\ Put(work[w].msg, row[work[w].msg], Fault(work[w].msg))
  /\ Goto(w, [work[w] EXCEPT !.pc = "caught", !.err = "other"])
  /\ UNCHANGED claims
EndSilently(w) == End(w) /\ UNCHANGED <<row, faults>>

(* Some units of a best-effort batch failed. *)
FinishPartial(w) ==
  LET x == work[w]
      m == x.msg
  IN /\ x.pc = "finish"
     /\ x.bad
     /\ ~ NeedsMark(w)
     /\ IF x.post \in {"acked", "failed"} \/ (x.got /\ ~ Live(w))
          THEN EndSilently(w)
          ELSE \/ EndWith(w, Record(m, x.proven /\ ~ x.got))
               \/ Live(w) /\ EndUnwritten(w)
               \/ ~ Live(w) /\ Caught(w)
     /\ UNCHANGED <<kind, todo, history, crashes>>

(* The batch went through: acknowledge it, or keep what is known of it. *)
FinishWhole(w) ==
  LET x == work[w]
      m == x.msg
      unacked == IF x.got \/ (Live(w) /\ x.pre # "no")
                   THEN FailedAfterSend(row[m]) ELSE Failed(row[m])
  IN /\ x.pc = "finish"
     /\ ~ x.bad
     /\ ~ NeedsMark(w)
     /\ \/ x.post \in {"acked", "failed"} /\ EndSilently(w)
        \/ /\ x.post \notin {"acked", "failed"}
           /\ \/ Put(m, Gone(row[m]), 0) /\ End(w)
              \/ Pending(m) /\ Put(m, unacked, 1) /\ End(w)
              \/ /\ Put(m, row[m], 1 + Fault(m))
                 /\ IF Live(w) THEN End(w)
                      ELSE /\ Goto(w, [x EXCEPT !.pc = "caught", !.err = "other"])
                           /\ UNCHANGED claims
     /\ UNCHANGED <<kind, todo, history, crashes>>

(* The catch block of a live sender: an AbortError takes the row away,     *)
(* whatever was sent; everything else keeps what is known.                 *)
LiveAborts(m) ==
  /\ work[m].pc = "caught"
  /\ work[m].err = "abort"
  /\ End(m)
  /\ \/ Put(m, Gone(row[m]), 0) /\ aborted' = aborted \cup {m}
     \/ Put(m, row[m], 1) /\ UNCHANGED aborted
  /\ UNCHANGED <<kind, todo, sent, muted, reported, attempts, crashes>>

LiveFails(m) ==
  LET x == work[m]
      settled == IF x.got THEN x.post # "marked" ELSE x.pre = "acked"
      recorded == IF x.got THEN FailedAfterSend(row[m])
                           ELSE Record(m, x.err = "proven")
  IN /\ x.pc = "caught"
     /\ x.err # "abort"
     /\ ~ NeedsMark(m)
     /\ IF settled THEN EndSilently(m)
                   ELSE EndWith(m, recorded) \/ EndUnwritten(m)
     /\ UNCHANGED <<kind, todo, history, crashes>>

(* The catch block of a replay. *)
ReplayFails(d) ==
  LET x == work[d]
      m == x.msg
  IN /\ x.pc = "caught"
     /\ ~ NeedsMark(d)
     /\ IF x.got \/ x.post # "no" \/ ~ Pending(m)
          THEN EndSilently(d)
          ELSE \/ EndWith(d, IF x.err = "permanent" THEN Dead(row[m])
                             ELSE Record(m, x.err = "proven"))
               \/ EndUnwritten(d)
     /\ UNCHANGED <<kind, todo, history, crashes>>

(***************************************************************************)
(* The live sender: write the row, claim it, deliver.                      *)
(***************************************************************************)

Enqueue(m) ==
  /\ work[m].pc = "new"
  /\ row' = [row EXCEPT ![m].st = "pending"]
  /\ Goto(m, At("queued", m))
  /\ UNCHANGED <<kind, claims, todo, history, crashes, faults>>

(* A row that cannot be written refuses a required message; any other one  *)
(* is sent without a row, once, out of the queue's sight.                  *)
EnqueueFails(m) ==
  /\ work[m].pc = "new"
  /\ Put(m, row[m], 1)
  /\ Goto(m, At("over", m))
  /\ UNCHANGED <<kind, claims, todo, history, crashes>>

Attempt(m) == attempts' = [attempts EXCEPT ![m] = @ + 1]

(* withActiveDeliveryClaim: a sender that finds its entry claimed stands by. *)
ClaimLive(m) ==
  /\ work[m].pc = "queued"
  /\ IF m \in claims
       THEN /\ Goto(m, At("over", m))
            /\ UNCHANGED <<claims, attempts>>
       ELSE /\ claims' = claims \cup {m}
            /\ Attempt(m)
            /\ Goto(m, At("unit", m))
  /\ UNCHANGED <<row, kind, todo, sent, muted, aborted, reported, crashes, faults>>

(***************************************************************************)
(* Recovery: a drain takes a snapshot of the pending rows, claims one after *)
(* the other and reads each again before it does anything with it.         *)
(***************************************************************************)

Snapshot(d) ==
  /\ work[d].pc = "idle"
  /\ todo' = [todo EXCEPT ![d] = {m \in Message : Pending(m)}]
  /\ Goto(d, At("loop", NoMessage))
  /\ UNCHANGED <<row, kind, claims, history, crashes, faults>>

(* Startup recovery runs once per process, the others again and again. *)
DrainEnds(d) ==
  /\ work[d].pc = "loop"
  /\ todo[d] = {}
  /\ Goto(d, At(IF d = Boot THEN "over" ELSE "idle", NoMessage))
  /\ UNCHANGED <<row, kind, claims, todo, history, crashes, faults>>

(* Mutant: a drain does not look at the claims. *)
Bug_Take(d, m) ==
  /\ work[d].pc = "loop"
  /\ m \in todo[d]
  /\ todo' = [todo EXCEPT ![d] = @ \ {m}]
  /\ claims' = claims \cup {m}
  /\ Goto(d, At("taken", m))
  /\ UNCHANGED <<row, kind, history, crashes, faults>>

(* The time budget of startup recovery is spent. *)
DeadlinePasses ==
  /\ work[Boot].pc = "loop"
  /\ todo[Boot] # {}
  /\ todo' = [todo EXCEPT ![Boot] = {}]
  /\ UNCHANGED <<row, kind, claims, work, history, crashes, faults>>

Take(d, m) ==
  /\ work[d].pc = "loop"
  /\ m \in todo[d]
  /\ todo' = [todo EXCEPT ![d] = @ \ {m}]
  /\ IF m \in claims
       THEN UNCHANGED <<claims, work>>
       ELSE claims' = claims \cup {m} /\ Goto(d, At("taken", m))
  /\ UNCHANGED <<row, kind, history, crashes, faults>>

(* A live sender between its row and its claim waits for microtasks only,  *)
(* so it gets there before the drain that beat it to the claim goes on.    *)
Examining(d) == work[d].pc = "taken" /\ work[work[d].msg].pc # "queued"

(* Mutant: one retry too many. *)
Bug_Exhausted(m) == row[m].rc > MaxRetries

SkipGone(d) ==
  /\ Examining(d)
  /\ ~ Pending(work[d].msg)
  /\ End(d)
  /\ UNCHANGED <<row, kind, todo, history, crashes, faults>>

Exhausted(m) == row[m].rc >= MaxRetries

(* The provider rejects the entry for good, or its retries are used up.    *)
(* A write that throws ends a reconnect drain; startup recovery survives   *)
(* it when it was about retries.                                           *)
DeadLetter(d) ==
  LET m == work[d].msg
  IN /\ Examining(d)
     /\ Pending(m)
     /\ \/ EndWith(d, Dead(row[m])) /\ UNCHANGED todo
        \/ d = Boot /\ Exhausted(m) /\ EndUnwritten(d) /\ UNCHANGED todo
        \/ EndUnwritten(d) /\ todo' = [todo EXCEPT ![d] = {}]
     /\ UNCHANGED <<kind, history, crashes>>

(* The backoff of the last failure has not passed. *)
Defer(d) ==
  LET m == work[d].msg
  IN /\ Examining(d)
     /\ Pending(m)
     /\ row[m].rc \in 1 .. MaxRetries - 1
     /\ End(d)
     /\ UNCHANGED <<row, kind, todo, history, crashes, faults>>

(* An entry with evidence of a send is reconciled before it is replayed. *)
Begin(d) ==
  LET m == work[d].msg
  IN /\ Examining(d)
     /\ Pending(m)
     /\ ~ Exhausted(m)
     /\ IF row[m].rs = "none"
          THEN Attempt(m) /\ Goto(d, At("unit", m))
          ELSE Goto(d, At("reconcile", m)) /\ UNCHANGED attempts
     /\ UNCHANGED <<row, kind, claims, todo, sent, muted, aborted, reported,
                    crashes, faults>>

(***************************************************************************)
(* What an adapter may answer about an entry: that all of it was sent, that *)
(* it was not, or that it cannot tell (for now, for good, or at all).  An  *)
(* adapter that looks for marks does not see the sends without: only an    *)
(* exact delivery gives its id to the adapter.                             *)
(***************************************************************************)
Complete(m) ==
  \A u \in 1 .. kind[m].units : sent[m][u] > 0 \/ u \in muted[m]

Seen(m) == Complete(m) /\ (kind[m].byMark => kind[m].exact)

(* Mutant: "not sent" is believed whatever the row says. *)
Bug_Replayable(m, answer) == answer = "not_sent"

Answers(m) ==
  {IF Seen(m) THEN "sent" ELSE "not_sent", "retryable", "unresolved", "none"}

Replayable(m, answer) == answer = "not_sent" /\ row[m].rs = "started"

(* drainQueuedEntry, its first half. *)
Reconcile(d) ==
  LET m == work[d].msg
  IN /\ work[d].pc = "reconcile"
     /\ \E answer \in Answers(m) :
          \/ /\ Replayable(m, answer)
             /\ Attempt(m)
             /\ Goto(d, At("unit", m))
             /\ UNCHANGED <<row, claims, faults>>
          \/ /\ ~ Replayable(m, answer)
             /\ UNCHANGED attempts
             /\ CASE answer = "sent" ->
                       \/ Put(m, Gone(row[m]), 0) /\ End(d)
                       \/ Put(m, Failed(row[m]), 1) /\ End(d)
                       \/ Put(m, row[m], 2) /\ End(d)
                  [] answer = "retryable" ->
                       EndWith(d, Failed(row[m])) \/ EndUnwritten(d)
                  [] OTHER ->
                       EndWith(d, Dead(row[m])) \/ EndUnwritten(d)
     /\ UNCHANGED <<kind, todo, sent, muted, aborted, reported, crashes>>

(* A crash loses the claims and the workers; a send that is under way      *)
(* reaches the platform or does not.                                       *)
Crash ==
  /\ crashes < MaxCrashes
  /\ crashes' = crashes + 1
  /\ \E arrived \in SUBSET {w \in Worker : work[w].pc = "io"} :
       sent' = [m \in Message |-> [u \in 1 .. MaxUnits |->
         IF \E w \in arrived : work[w].msg = m /\ work[w].unit = u
           THEN sent[m][u] + 1 ELSE sent[m][u]]]
  /\ claims' = {}
  /\ todo' = [d \in Recoverer |-> {}]
  /\ work' = [w \in Worker |->
       IF Live(w) THEN At(IF work[w].pc = "new" THEN "new" ELSE "over", w)
                  ELSE At("idle", NoMessage)]
  /\ UNCHANGED <<row, kind, muted, aborted, reported, attempts, faults>>

DeliverStep(w) ==
  \/ Suppress(w)
  \/ SendStart(w)
  \/ Dispatch(w)
  \/ PlatformAccepts(w)
  \/ PlatformSendsNothing(w)
  \/ PlatformFails(w)
  \/ Result(w)
  \/ PersistEvidence(w)
  \/ FinishPartial(w)
  \/ FinishWhole(w)

LiveStep(m) ==
  \/ Enqueue(m)
  \/ EnqueueFails(m)
  \/ ClaimLive(m)
  \/ Abort(m)
  \/ LiveAborts(m)
  \/ LiveFails(m)

RecoverStep(d) ==
  \/ Snapshot(d)
  \/ DrainEnds(d)
  \/ \E m \in Message : Take(d, m)
  \/ SkipGone(d)
  \/ DeadLetter(d)
  \/ Defer(d)
  \/ Begin(d)
  \/ Reconcile(d)
  \/ ReplayFails(d)

Next ==
  \/ \E w \in Worker : DeliverStep(w)
  \/ \E m \in Message : LiveStep(m)
  \/ \E d \in Recoverer : RecoverStep(d)
  \/ DeadlinePasses
  \/ Crash

(* Requests to the platform and writes settle, live senders and drains run *)
(* on, channels drain their pending rows periodically, and backoffs pass:   *)
(* a drain cannot put off the same entry for ever.                         *)
Fairness ==
  /\ \A w \in Worker : WF_vars(DeliverStep(w))
  /\ \A m \in Message : WF_vars(ClaimLive(m) \/ LiveAborts(m) \/ LiveFails(m))
  /\ \A d \in Recoverer : WF_vars(RecoverStep(d))
  /\ \A d \in Drain, m \in Message :
       SF_vars(work[d].msg = m /\ Begin(d))

Spec == Init /\ [][Next]_vars

FairSpec == Spec /\ Fairness

(***************************************************************************)
(* Properties                                                              *)
(***************************************************************************)

Attempting(w) ==
  work[w].pc \in {"unit", "dispatch", "io", "result", "finish", "caught"}

(* Live senders, startup recovery and reconnect drains never work on one   *)
(* entry at the same time (withActiveDeliveryClaim, claimRecoveryEntry).   *)
OneDeliverer ==
  \A v, w \in Worker :
    Attempting(v) /\ Attempting(w) /\ work[v].msg = work[w].msg => v = w

(* A batch of which a result was made durable is never started again, after *)
(* whatever failures and crashes (drainQueuedEntry: "Preserve that concrete *)
(* evidence so reconnect recovery never replays the batch").               *)
NoReplayAfterResult ==
  [][\A m \in reported : attempts'[m] = attempts[m]]_vars

(* A message of one send reaches the platform at most once: an error that  *)
(* proves nothing, a crash during the send and a lost write never lead to  *)
(* a blind replay (drainQueuedEntry: a started send "cannot be blindly      *)
(* replayed; adapters must reconcile whether the platform already          *)
(* committed the message").                                                *)
NoDoubleSend ==
  \A m \in Message : kind[m].units = 1 => sent[m][1] <= 1

(* The row of a required message disappears only when the whole batch is   *)
(* settled, it was aborted, or a part of it was sent and the queue could   *)
(* not be written (persistQueuedPreSendState throws for "required").       *)
RequiredIsNotLost ==
  \A m \in Message :
    kind[m].required /\ row[m].st = "gone" =>
      \/ Complete(m)
      \/ m \in aborted
      \/ faults > 0 /\ \E u \in 1 .. kind[m].units : sent[m][u] > 0

(* Every further attempt is paid for by a counted retry, a crash or a      *)
(* failed write, so MAX_RETRIES bounds the replays.                        *)
ReplaysAreCounted ==
  \A m \in Message : attempts[m] <= 1 + row[m].rc + crashes + faults

(* The rows, claims, marks and retries keep the ledger of DeliveryLedger:  *)
(* one attempt at a time, none after the entry is settled, after a durable *)
(* result or after the only send was accepted, in every step of the live   *)
(* senders, of recovery and of a crash.                                    *)
Ledger == INSTANCE DeliveryLedger
  WITH entry <- [m \in Message |-> row[m].st],
       busy <- {m \in Message : \E w \in Worker : Attempting(w) /\ work[w].msg = m},
       tries <- attempts,
       evidence <- reported,
       single <- {m \in Message : kind[m].units = 1},
       copies <- [m \in Message |-> IF kind[m].units = 1 THEN sent[m][1] ELSE 0]
LedgerIsKept == Ledger!Spec

(* No row stays pending: it is acknowledged or it is moved to the failed   *)
(* ones, whatever writes fail and wherever the process crashes.            *)
EntrySettles ==
  \A m \in Message : Pending(m) ~> row[m].st \in {"gone", "failed"}

=============================================================================
