---------------------------- MODULE DeliveryLedger ----------------------------
(***************************************************************************)
(* What the write-ahead queue of outbound messages promises                *)
(* (src/infra/outbound), whoever delivers, drains, fails or crashes.       *)
(*                                                                         *)
(* A message is posted once.  Attempts at it are made one at a time, and   *)
(* none begins once it is settled, once a result of it is on record, or    *)
(* once the platform has accepted it, if it is a single send.  It is       *)
(* settled once, by the attempt at it or while there is none.              *)
(***************************************************************************)
EXTENDS Naturals

CONSTANT Message

VARIABLES
  entry,             \* [Message -> none, pending, gone, failed]
  busy,              \* messages with an attempt under way
  tries,             \* [Message -> attempts begun]
  evidence,          \* messages with a result on record
  single,            \* messages of one send
  copies             \* [Message -> times a single send was accepted]

vars == <<entry, busy, tries, evidence, single, copies>>

Init ==
  /\ entry = [m \in Message |-> "none"]
  /\ busy = {}
  /\ tries = [m \in Message |-> 0]
  /\ evidence = {}
  /\ single \subseteq Message
  /\ copies = [m \in Message |-> 0]

Post(m) ==
  /\ entry[m] = "none"
  /\ entry' = [entry EXCEPT ![m] = "pending"]
  /\ UNCHANGED <<busy, tries, evidence, single, copies>>

Begin(m) ==
  /\ entry[m] = "pending"
  /\ m \notin busy \cup evidence
  /\ copies[m] = 0
  /\ busy' = busy \cup {m}
  /\ tries' = [tries EXCEPT ![m] = @ + 1]
  /\ UNCHANGED <<entry, evidence, single, copies>>

\* The platform accepts the only send of m.
Arrive(m) ==
  /\ m \in busy \cap single
  /\ copies[m] = 0
  /\ copies' = [copies EXCEPT ![m] = 1]
  /\ UNCHANGED <<entry, busy, tries, evidence, single>>

Settle(m) ==
  /\ entry[m] = "pending"
  /\ entry' \in {[entry EXCEPT ![m] = "gone"], [entry EXCEPT ![m] = "failed"]}

\* The attempt writes down what it knows, and may end with that.
Record(m) ==
  /\ m \in busy
  /\ Settle(m) \/ UNCHANGED entry
  /\ busy' \in {busy, busy \ {m}}
  /\ evidence' \in {evidence, evidence \cup {m}}
  /\ UNCHANGED <<tries, single, copies>>

\* An entry that nobody is at work on is given up or found done.
Dispose(m) ==
  /\ m \notin busy
  /\ Settle(m)
  /\ UNCHANGED <<busy, tries, evidence, single, copies>>

\* The attempts are lost; what they have sent may have arrived.
Crash ==
  /\ busy' = {}
  /\ \E arrived \in SUBSET {m \in busy \cap single : copies[m] = 0} :
       copies' = [m \in Message |-> IF m \in arrived THEN 1 ELSE copies[m]]
  /\ UNCHANGED <<entry, tries, evidence, single>>

Next ==
  \/ \E m \in Message :
       Post(m) \/ Begin(m) \/ Arrive(m) \/ Record(m) \/ Dispose(m)
  \/ Crash

Spec == Init /\ [][Next]_vars

=============================================================================
