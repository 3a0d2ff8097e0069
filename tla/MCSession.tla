------------------------------ MODULE MCSession ------------------------------
(* An instance of SessionAdmission for TLC: the turns a and b and the        *)
(* mutation m share a session key (1) or a session id (2).                   *)
EXTENDS SessionAdmission

CONSTANTS a, b, m, n, nobody

Ids == [x \in Actor |-> IF x = b THEN {2} ELSE {1, 2}]
Dropped == [x \in Mutation |-> {2}]
AskedFrom == [x \in Mutation |-> IF x = n THEN a ELSE nobody]

=============================================================================
