--------------------------- MODULE MCCommandQueue ---------------------------
(* Small instances of CommandQueue: a session lane, whose limit stays 1, and *)
(* a global lane, whose limit the configuration may change.               *)
EXTENDS CommandQueue

CONSTANTS sess, glob, e1, e2, e3, w1

\* Two lanes: a normal and a foreground entry in sess, a normal one in glob.
MCTwoLaneOf == [e \in Entry |-> IF e = e3 THEN glob ELSE sess]
MCTwoPriorityOf == [e \in Entry |-> IF e = e2 THEN 1 ELSE 0]

\* One lane, with a foreground and two normal entries.
MCOneLaneOf == [e \in Entry |-> glob]
MCOnePriorityOf == [e \in Entry |-> IF e = e3 THEN 1 ELSE 0]

=============================================================================
