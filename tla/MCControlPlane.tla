--------------------------- MODULE MCControlPlane ---------------------------
(* Small instances of ControlPlane for TLC.                                *)
EXTENDS ControlPlane, TLC

CONSTANTS s1, s2, small, big, n1, n2, a1, a2, a3

MCMinVram == [m \in Model |-> IF m = small THEN 1 ELSE 2]
MCMaxSessions == [m \in Model |-> IF m = small THEN 1 ELSE 2]
(* A manifest that says zero: an idle actor is evicted, never reused.      *)
MCZeroMaxSessions == [m \in Model |-> 0]

MCGpu == [n \in Node |-> 2]

MCSymmetry == Permutations(Session) \cup Permutations(Actor)

=============================================================================
