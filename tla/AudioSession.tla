---------------------------- MODULE AudioSession ----------------------------
(***************************************************************************)
(* A session of the transcript actor and what becomes of its audio before  *)
(* the adapter gets it: TranscriptSession takes the chunks and the gate's  *)
(* verdicts as they come, AudioPath says what they are.                    *)
(*                                                                         *)
(* The audio of a session is a matter of its parameters and of what its    *)
(* client sends, not of the state it meets: the properties below are about *)
(* a session that is about to open, for all of them.                       *)
(***************************************************************************)
EXTENDS TranscriptSession, AudioPath

MayOpen == actor = "up" /\ thread = "unstarted"

(* The actor is fed the client's audio, whole and in order.                *)
AudioKept == MayOpen => CoalescingKeepsAudio

(* No chunk but the last of a ragged stream fails to decode.               *)
AudioDecodes == MayOpen => ChunksDecode

(* The gate closes after min_silence of silence and opens with speech.     *)
GateRight == MayOpen => GateIsHysteresis

=============================================================================
