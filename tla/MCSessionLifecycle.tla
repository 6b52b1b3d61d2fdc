------------------------- MODULE MCSessionLifecycle -------------------------
(* Streams that all ask for one model, of two slots an actor or of none,   *)
(* which is one.                                                           *)
EXTENDS SessionLifecycle, TLC

CONSTANTS nemo

MCWants == [s \in Session |-> nemo]
MCSlots == {0, 2}
MCSymmetry == Permutations(Session) \cup Permutations(Actor)

=============================================================================
