----------------------------- MODULE MCOutbound -----------------------------
(* Instances of OutboundDelivery for TLC.                                   *)
EXTENDS OutboundDelivery, TLC

\* Single sends and batches of two by adapters without a dispatch hook; single
\* sends by adapters with one, reconciled exactly or not.
MCKinds ==
  {k \in KindType :
    /\ k.hooked => k.units = 1
    /\ k.exact => k.hooked /\ k.required
    /\ k.byMark = k.exact
    /\ k.units = 1 => k.keepGoing = ~ k.required}

\* A single send that is not exact, by an adapter that looks for marks.
MCUnmarked ==
  {k \in KindType : k.units = 1 /\ k.hooked /\ k.byMark /\ ~ k.exact}
=============================================================================
