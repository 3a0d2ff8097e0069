---------------------------- MODULE AdmissionDoor ----------------------------
(***************************************************************************)
(* What the admission of root work (src/process/gateway-work-admission.ts) *)
(* promises, whichever of its fences are closed and whoever holds them:    *)
(* one door, the chains before and behind it, and the restart that waits   *)
(* for those behind it.                                                    *)
(*                                                                         *)
(* A chain enters through the open door only, or follows one that is       *)
(* inside.  Before a shut door a patient chain sleeps and any other is     *)
(* turned away; the restart's door turns everyone away.  Whenever the door *)
(* moves away from shut, nobody is left asleep.                            *)
(***************************************************************************)
CONSTANTS
  Chain,             \* chains that ask to get in
  Patient            \* those that wait before a shut door

VARIABLES
  door,              \* open, shut, or closed by a restart
  place,             \* where each chain is
  drain              \* the restart's wait for those inside

vars == <<door, place, drain>>

Init ==
  /\ door = "open"
  /\ place = [c \in Chain |-> "new"]
  /\ drain = "none"

Inside == {c \in Chain : place[c] = "active"}

\* Everyone who sleeps is woken and will try the door again.
Roused ==
  [c \in Chain |-> IF place[c] = "parked" THEN "woken" ELSE place[c]]

AtDoor(c) == place[c] \in {"new", "woken"}

\* A chain may shut the door behind it.
Enter(c) ==
  /\ AtDoor(c)
  /\ door = "open"
  /\ door' \in {"open", "shut"}
  /\ place' = [place EXCEPT ![c] = "active"]
  /\ UNCHANGED drain

Sleep(c) ==
  /\ AtDoor(c)
  /\ c \in Patient
  /\ door = "shut"
  /\ place' = [place EXCEPT ![c] = "parked"]
  /\ UNCHANGED <<door, drain>>

TurnAway(c) ==
  /\ AtDoor(c)
  /\ door = "closed" \/ (door = "shut" /\ c \notin Patient)
  /\ place' = [place EXCEPT ![c] = "refused"]
  /\ UNCHANGED <<door, drain>>

Follow(c) ==
  /\ place[c] = "new"
  /\ Inside # {}
  /\ place' = [place EXCEPT ![c] = "active"]
  /\ UNCHANGED <<door, drain>>

\* The last one to leave ends the wait of the restart.
Leave(c) ==
  /\ place[c] = "active"
  /\ place' = [place EXCEPT ![c] = "released"]
  /\ drain' = IF Inside = {c} /\ drain = "waiting" THEN "woken" ELSE drain
  /\ UNCHANGED door

Shut ==
  /\ door = "open"
  /\ door' = "shut"
  /\ UNCHANGED <<place, drain>>

\* One of those who keep the door shut lets go; others may still hold it.
LetGo ==
  /\ door = "shut"
  /\ door' \in {"open", "shut"}
  /\ place' = Roused
  /\ UNCHANGED drain

CloseForRestart ==
  /\ door # "closed"
  /\ door' = "closed"
  /\ place' = Roused
  /\ UNCHANGED drain

Wait ==
  /\ door = "closed"
  /\ drain = "none"
  /\ drain' = IF Inside = {} THEN "drained" ELSE "waiting"
  /\ UNCHANGED <<door, place>>

GiveUp ==
  /\ drain = "waiting"
  /\ drain' = "woken"
  /\ UNCHANGED <<door, place>>

Report ==
  /\ drain = "woken"
  /\ drain' = IF Inside = {} THEN "drained" ELSE "undrained"
  /\ UNCHANGED <<door, place>>

\* The next lifecycle: nobody is inside, nobody sleeps, the door is open.
Anew ==
  /\ door' = "open"
  /\ place' = [c \in Chain |-> IF place[c] = "active" THEN "released"
                            ELSE Roused[c]]
  /\ drain' = IF drain \in {"waiting", "woken"} THEN "woken" ELSE "none"

Restart == door = "closed" /\ Anew

\* A restart that forgot to close the door puts out whoever is inside.
Eviction == door # "closed" /\ Anew

Next ==
  \/ \E c \in Chain : Enter(c) \/ Sleep(c) \/ TurnAway(c) \/ Follow(c) \/ Leave(c)
  \/ Shut \/ LetGo \/ CloseForRestart
  \/ Wait \/ GiveUp \/ Report
  \/ Restart

Spec == Init /\ [][Next]_vars

\* The promise without its last part, that a restart closes the door first.
SpecButEviction == Init /\ [][Next \/ Eviction]_vars

=============================================================================
