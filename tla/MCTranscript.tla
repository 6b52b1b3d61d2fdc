---------------------------- MODULE MCTranscript ----------------------------
(* One session, and the functions of the audio path over bounded inputs.   *)
EXTENDS AudioSession

(* Up to three messages of up to five bytes, numbered through.             *)
Numbered(sizes) ==
    LET start(i) == FoldLeft(+, 0, SubSeq(sizes, 1, i - 1))
    IN  [i \in 1..Len(sizes) |-> [b \in 1..sizes[i] |-> start(i) + b]]
MCStream == {Numbered(sizes) : sizes \in SeqOf({0, 1, 3, 5}, 3)}

(* Every way a manifest, its runtime section and a config may declare the  *)
(* duration of a chunk, or leave it to the default.                        *)
Declared == [chunk_duration_ms : {0, 37}, chunk_ms : {-10, 10}]
MCDuration == {ResolveChunkMs(m, r, c) : m \in Declared, r \in Declared, c \in {0, 60}}

(* Silences shorter than a window, of one and of more; a rate that Silero  *)
(* does not take, settings that ask for no gate.                           *)
MCSetting == [disabled : {FALSE}, threshold : {50}, rate : {16000}, minSilenceMs : {1, 32, 80}]
    \cup [disabled : BOOLEAN, threshold : {0, 50}, rate : {11025, 16000}, minSilenceMs : {0, 64}]

(* Up to four chunks, which end within windows and between them: eight     *)
(* windows of 512.                                                         *)
MCCutting == SeqOf({256, 700, 1024}, 4)
MCHearing == [1..8 -> BOOLEAN]

=============================================================================
