--------------------------------- MODULE MCAuth ---------------------------------
(* Small instances of Auth for TLC. *)
EXTENDS Auth, TLC

CONSTANTS httpd, console, u0, p0, u1, p1

MCConfig == [user |-> u0, pass |-> p0]

\* The Config's pair, another one, a half-empty one, none.
MCPairs == {MCConfig, [user |-> u1, pass |-> p1], [user |-> u0, pass |-> Empty], Nobody}

\* Safety properties only: the tasks are interchangeable.
TaskSymmetry == Permutations(Tasks)
===============================================================================
