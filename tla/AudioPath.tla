----------------------------- MODULE AudioPath -----------------------------
(***************************************************************************)
(* What becomes of a client's audio on its way to the adapter, as          *)
(* functions of their inputs: the size of the gateway's chunks, the feed   *)
(* loop that cuts them (src/sayo_host/gateway/server.py), and in the       *)
(* transcript actor the decoding, the warm-up and the VAD gate             *)
(* (actor.py, audio.py, vad/silero.py).                                    *)
(*                                                                         *)
(* A byte is whatever the checker chooses; a probability is only whether   *)
(* it reaches the threshold.  Of a decoded chunk only the number of its    *)
(* samples is left.                                                        *)
(***************************************************************************)
EXTENDS Integers, Sequences, SequencesExt

CONSTANTS
    Rate,       \* sample rates, in samples a second
    Duration,   \* chunk durations in milliseconds, after ResolveChunkMs
    Width,      \* bytes of a sample
    Byte,
    Stream,     \* what clients send: sequences of messages, which are sequences of bytes
    Cutting,    \* decoded chunks: sequences of numbers of samples
    Hearing,    \* hearing[w]: Silero takes window w for speech
    Setting,    \* what decides on a gate: see GateBuilt
    Warmup      \* chunks before the gate is asked

ASSUME AudioAssumption ==
    /\ Rate \subseteq Nat /\ Duration \subseteq Nat \ {0} /\ Width \subseteq {2, 4}
    /\ Stream \subseteq Seq(Seq(Byte)) /\ Cutting \subseteq Seq(Nat)
    /\ Warmup \subseteq Nat
    /\ \A s \in Setting : s.rate \in Nat /\ s.minSilenceMs \in Nat

-----------------------------------------------------------------------------
(* The gateway: how large a chunk is.                                      *)

(* The first positive one of the manifest's two keys, of the same two keys *)
(* of its runtime section, and of the client's config.  A value that is    *)
(* missing, or that int() refuses, is 0 here.                              *)
ResolveChunkMs(manifest, runtime, config) ==
    LET raw == <<manifest.chunk_duration_ms, manifest.chunk_ms,
                 runtime.chunk_duration_ms, runtime.chunk_ms, config, 560>>
    IN  raw[SelectInSeq(raw, LAMBDA v : v > 0)]

(* Mutant: the number of bytes is truncated, and not that of samples.      *)
MutantTargetTruncated(rate, ms, width) ==
    Max({width * Max({1, rate \div 50}), Min({(rate * ms * width) \div 1000, 1048576})})

(* The bytes of a chunk: ms of samples of width bytes, at least twenty     *)
(* milliseconds and a sample, at most 1 MiB.                               *)
TargetBytes(rate, ms, width) ==
    LET minBytes == width * Max({1, rate \div 50})
    IN  Max({minBytes, Min({((rate * ms) \div 1000) * width, 1048576})})

-----------------------------------------------------------------------------
(* The feed loop.                                                          *)

(* Mutant: one chunk per message at most.                                  *)
MutantCutOnce(buf, target) ==
    IF Len(buf) >= target THEN <<SubSeq(buf, 1, target)>> ELSE <<>>

(* The full chunks at the front of the buffer.                             *)
Cut(buf, target) ==
    [i \in 1..(Len(buf) \div target) |-> SubSeq(buf, (i - 1) * target + 1, i * target)]

(* A message joins the buffer, and full chunks leave it.                   *)
Coalesce(state, message, target) ==
    LET buf == state.buf \o message
        cut == Cut(buf, target)
    IN  [buf |-> SubSeq(buf, Len(cut) * target + 1, Len(buf)), fed |-> state.fed \o cut]

(* The chunks of a whole stream: the tail is flushed when it ends.         *)
FeedLoop(messages, target) ==
    LET state[i \in 0..Len(messages)] ==
            IF i = 0 THEN [buf |-> <<>>, fed |-> <<>>]
                     ELSE Coalesce(state[i - 1], messages[i], target)
        last == state[Len(messages)]
    IN  IF last.buf = <<>> THEN last.fed ELSE Append(last.fed, last.buf)

-----------------------------------------------------------------------------
(* The transcript actor: decoding.  frombuffer raises for a chunk that     *)
(* ends within a sample, and the exception ends the stream.                *)
Decodes(chunk, width) == Len(chunk) % width = 0

-----------------------------------------------------------------------------
(* The VAD gate.                                                           *)

(* There is a gate unless SAYO_DISABLE_VAD is set, one of the client's two *)
(* settings is not positive, or it cannot be constructed: Silero does not  *)
(* take the model's rate, or onnxruntime or the model's file is missing,   *)
(* which s.disabled stands for as well.                                    *)
GateBuilt(s) ==
    ~s.disabled /\ s.threshold > 0 /\ s.minSilenceMs > 0 /\ s.rate \in {8000, 16000}

WindowSamples(s) == IF s.rate = 8000 THEN 256 ELSE 512
MinSilenceSamples(s) == (s.rate * s.minSilenceMs) \div 1000

NewGate == [buffered |-> 0, heard |-> 0, silence |-> 0, verdict |-> TRUE]

(* Mutant: the silence before the chunk decides.                           *)
MutantIsSpeech(s, gate, samples, speech) ==
    LET window == WindowSamples(s)
        total == gate.buffered + samples
        heard == gate.heard + total \div window
        crossed == {w \in gate.heard + 1..heard : speech[w]}
    IN  [buffered |-> total % window, heard |-> heard,
         silence |-> IF crossed # {} THEN (heard - Max(crossed)) * window
                     ELSE gate.silence + (heard - gate.heard) * window,
         verdict |-> crossed # {} \/ gate.silence < MinSilenceSamples(s)]

(* is_speech: the windows a chunk completes, one after the other.  heard   *)
(* counts the windows so far, silence the samples of those since the last  *)
(* one that crossed the threshold.                                         *)
IsSpeech(s, gate, samples, speech) ==
    LET window == WindowSamples(s)
        total == gate.buffered + samples
        heard == gate.heard + total \div window
        crossed == {w \in gate.heard + 1..heard : speech[w]}
        silence == IF crossed # {} THEN (heard - Max(crossed)) * window
                   ELSE gate.silence + (heard - gate.heard) * window
    IN  [buffered |-> total % window, heard |-> heard, silence |-> silence,
         verdict |-> crossed # {} \/ silence < MinSilenceSamples(s)]

(* chunks_iter: the first chunks pass, and the gate does not hear them;    *)
(* then a chunk passes if there is no gate or it takes the chunk for       *)
(* speech.                                                                 *)
Passes(s, warmup, chunks, speech) ==
    LET gate[i \in 0..Len(chunks)] ==
            IF i <= warmup THEN NewGate ELSE IsSpeech(s, gate[i - 1], chunks[i], speech)
    IN  [i \in 1..Len(chunks) |-> GateBuilt(s) => gate[i].verdict]

-----------------------------------------------------------------------------
(* However a client cuts its audio into messages, the actor is fed the same*)
(* bytes in the same order, in chunks of exactly the target but the last,  *)
(* which is not empty.                                                     *)
CoalescingKeepsAudio ==
    \A messages \in Stream, rate \in Rate, ms \in Duration, width \in Width :
        LET target == TargetBytes(rate, ms, width)
            chunks == FeedLoop(messages, target)
        IN  /\ FlattenSeq(chunks) = FlattenSeq(messages)
            /\ \A i \in 1..Len(chunks) :
                   Len(chunks[i]) \in IF i < Len(chunks) THEN {target} ELSE 1..target

(* No chunk ends within a sample, which would end the stream with an error *)
(* in the actor, unless the client's whole audio does.                     *)
ChunksDecode ==
    \A messages \in Stream, rate \in Rate, ms \in Duration, width \in Width :
        LET chunks == FeedLoop(messages, TargetBytes(rate, ms, width))
        IN  \A i \in 1..Len(chunks) :
                Decodes(chunks[i], width)
                    \/ (i = Len(chunks) /\ Len(FlattenSeq(messages)) % width # 0)

(* The gate drops a chunk exactly when it completes no window of speech and*)
(* the windows of at least the last min_silence samples heard are silent,  *)
(* wherever the boundaries of chunks fall among the windows.  Without a    *)
(* gate, and during the warm-up, nothing is dropped.                       *)
Heard(s, warmup, chunks, i) ==
    LET samples[j \in 0..Len(chunks)] ==
            IF j <= warmup THEN 0 ELSE samples[j - 1] + chunks[j]
    IN  samples[i] \div WindowSamples(s)
GateIsHysteresis ==
    \A s \in Setting, chunks \in Cutting, speech \in Hearing, warmup \in Warmup :
        LET passes == Passes(s, warmup, chunks, speech)
        IN  \A i \in 1..Len(chunks) :
                LET now == Heard(s, warmup, chunks, i)
                    before == Heard(s, warmup, chunks, i - 1)
                    silent(k) == \A w \in now - k + 1..now : ~speech[w]
                IN  ~passes[i] <=>
                        /\ GateBuilt(s) /\ i > warmup
                        /\ silent(now - before)
                        /\ \E k \in 0..now :
                               silent(k) /\ k * WindowSamples(s) >= MinSilenceSamples(s)

=============================================================================
