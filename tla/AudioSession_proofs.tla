------------------------ MODULE AudioSession_proofs ------------------------
(***************************************************************************)
(* What AudioPath_proofs proves of the audio path holds of every session   *)
(* of the transcript actor, whatever its client sends.                     *)
(***************************************************************************)
EXTENDS AudioSession, AudioPath_proofs

(* Every session's adapter is offered the client's audio, whole and in     *)
(* order, whatever the sizes of the client's messages.                     *)
THEOREM SessionAudioIsKept == Spec => []AudioKept
<1>1. AudioKept
  BY CoalescingKeepsAudioHolds DEF AudioKept
<1>2. QED
  BY <1>1, PTL

(* In no session does a chunk fail to decode, but for the last one of a    *)
(* client that ends within a sample.                                       *)
THEOREM SessionAudioDecodes == Spec => []AudioDecodes
<1>1. AudioDecodes
  BY ChunksDecodeHolds DEF AudioDecodes
<1>2. QED
  BY <1>1, PTL

(* In every session the gate closes after min_silence of silence, counted  *)
(* over all its chunks, and opens with the next window of speech.          *)
THEOREM SessionGateIsRight == Spec => []GateRight
<1>1. GateRight
  BY GateIsHysteresisHolds DEF GateRight
<1>2. QED
  BY <1>1, PTL

=============================================================================
