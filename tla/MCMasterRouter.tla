--------------------------- MODULE MCMasterRouter ---------------------------
(* Small instances of MasterRouter for TLC.                                *)
EXTENDS MasterRouter, TLC

CONSTANTS s1, s2, s3, small, big, n1, n2, a1, a2, a3

(* Two models of different size; big admits one session, small two.        *)
MCMinVram == (small :> 1) @@ (big :> 2)
MCMaxSessions == (small :> 2) @@ (big :> 1)

(* A manifest that says zero sessions.                                     *)
MCZeroMinVram == (small :> 0) @@ (big :> 2)
MCZeroMaxSessions == (small :> 0) @@ (big :> 2)

(* An empty GPU, a half used one, and a failed query.                      *)
MCReading == {<<2, 0>>, <<2, 1>>, <<0, 0>>}

MCSymmetry == Permutations(Session) \cup Permutations(Actor) \cup Permutations(Node)

=============================================================================
