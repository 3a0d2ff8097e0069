--------------------------- MODULE SessionExclusion ---------------------------
(***************************************************************************)
(* What session admission promises (src/sessions/                          *)
(* session-lifecycle-admission.ts), whatever locks and lanes it takes.     *)
(* A turn has a lease from before it uses its session until it is done.    *)
(* Turns may share a session; a mutation starts to change one only when    *)
(* nobody has a lease for it, and nobody gets one until it has finished.   *)
(* The one exception is the turn the mutation was asked for from, which    *)
(* waits for it.  While the gateway's door is closed nobody gets a lease.  *)
(***************************************************************************)
CONSTANTS
  Turn,              \* turns, the users of sessions
  Mutation,          \* resets, deletions and rollovers of sessions
  IdsOf,             \* the session keys and ids each of them names
  Initiator          \* the turn a mutation was asked for from, if any

VARIABLES
  closed,            \* the gateway admits no subordinate work
  leased,            \* turns that have a lease
  using,             \* turns that work on their session
  changing           \* mutations whose change is being made

vars == <<closed, leased, using, changing>>

Overlap(a, b) == IdsOf[a] \cap IdsOf[b] # {}

Init ==
  /\ closed = FALSE
  /\ leased = {}
  /\ using = {}
  /\ changing = {}

Lease(t) ==
  /\ ~closed
  /\ \A m \in changing : ~Overlap(t, m)
  /\ leased' = leased \cup {t}
  /\ UNCHANGED <<closed, using, changing>>

Use(t) ==
  /\ t \in leased
  /\ using' = using \cup {t}
  /\ UNCHANGED <<closed, leased, changing>>

Depart(t) ==
  /\ \A m \in changing : Initiator[m] # t
  /\ leased' = leased \ {t}
  /\ using' = using \ {t}
  /\ UNCHANGED <<closed, changing>>

Start(m) ==
  /\ \A t \in leased : Overlap(t, m) => t = Initiator[m]
  /\ \A n \in changing : ~Overlap(m, n)
  /\ changing' = changing \cup {m}
  /\ UNCHANGED <<closed, leased, using>>

Finish(m) ==
  /\ changing' = changing \ {m}
  /\ UNCHANGED <<closed, leased, using>>

TurnDoor ==
  /\ closed' = ~closed
  /\ UNCHANGED <<leased, using, changing>>

Next ==
  \/ \E t \in Turn : Lease(t) \/ Use(t) \/ Depart(t)
  \/ \E m \in Mutation : Start(m) \/ Finish(m)
  \/ TurnDoor

Spec == Init /\ [][Next]_vars

=============================================================================
