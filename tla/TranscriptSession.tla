------------------------- MODULE TranscriptSession -------------------------
(***************************************************************************)
(* One session inside a TranscriptActor                                    *)
(* (src/sayo_image/transcript_actor/actor.py).  The actor's event loop     *)
(* runs feed, next_result and close_session; a thread of the session's own *)
(* runs the adapter.  Two bounded asyncio queues join them: audio_in,      *)
(* which feed never waits for, and results_out, which the thread waits for *)
(* at most five seconds at a time.                                         *)
(*                                                                         *)
(* A put the thread gives up on is not withdrawn: its coroutine stays in   *)
(* the event loop and lands when there is room.  puts holds the puts that  *)
(* have not landed, and any of them may be the next to land.               *)
(*                                                                         *)
(* Chunks and results are numbers; what the adapter makes of a chunk, and  *)
(* whether the VAD gate drops one, is nondeterministic.  The adapter may   *)
(* also never come back from a call.  The actor's process dies after an    *)
(* unload, or by itself.  What the other sessions of the actor do is not   *)
(* seen from here, except for open_session's refusal, which changes no     *)
(* state.                                                                  *)
(***************************************************************************)
EXTENDS Integers, Sequences, SequencesExt

CONSTANTS
    AudioCap,   \* maxsize of audio_in
    ResultsCap, \* maxsize of results_out
    MaxChunk,   \* bound: chunks fed in a session
    MaxResult,  \* bound: results an adapter yields in a session
    End,        \* _SENTINEL in either queue; None as an answer of next_result
    Error       \* an exception in results_out

ASSUME Bounds == AudioCap \in Nat \ {0} /\ ResultsCap \in Nat \ {0}
                 /\ MaxChunk \in Nat /\ MaxResult \in Nat
ASSUME Sentinels == End # Error /\ End \notin 1..MaxChunk
                    /\ {End, Error} \cap (1..MaxResult) = {}

VARIABLES
    actor,      \* the process: "up", "unloaded" and about to be killed, "dead"
    open,       \* the session is in _sessions
    closed,     \* state.closed
    chunkIdx,   \* state.chunk_idx
    audioIn,    \* state.audio_in
    thread,     \* where the adapter thread is
    inputOver,  \* chunks_iter has returned
    produced,   \* number of results the adapter has yielded
    puts,       \* items whose put into results_out has not landed
    gaveUp,     \* history: a put was given up
    resultsOut, \* state.results_out
    reader,     \* the next_result call
    delivered,  \* history: what the next_result calls have returned
    closer      \* the close_session call

vars == <<actor, open, closed, chunkIdx, audioIn, thread, inputOver, produced, puts, gaveUp,
          resultsOut, reader, delivered, closer>>
loopVars == <<actor, open, closed, chunkIdx, reader, delivered, closer>>

(* "unstarted"; "adapting": in the adapter, which may ask for a chunk; "finishing": in  *)
(* the adapter, its input over; "getting": waits for audio_in; "putting",  *)
(* "failing", "ending": waits for the put of a result, of the exception,   *)
(* of the sentinel; "exited".                                              *)
ThreadState == {"unstarted", "adapting", "finishing", "getting", "putting", "failing", "ending",
                "exited"}
InAdapter == thread \in {"adapting", "finishing"}
Result == 1..MaxResult
Item == Result \cup {End, Error}

Init ==
    /\ actor = "up"
    /\ open = FALSE
    /\ closed = FALSE
    /\ chunkIdx = 0
    /\ audioIn = <<>>
    /\ thread = "unstarted"
    /\ inputOver = FALSE
    /\ produced = 0
    /\ puts = {}
    /\ gaveUp = FALSE
    /\ resultsOut = <<>>
    /\ reader = "none"
    /\ delivered = <<>>
    /\ closer = "none"

-----------------------------------------------------------------------------
(* The event loop.                                                         *)

(* Mutant: the queue has no bound.                                         *)
MutantPutUnbounded(q, x, cap) == Append(q, x)

PutNowait(q, x, cap) == IF Len(q) < cap THEN Append(q, x) ELSE q

(* A session id is used once; the thread starts with the session.          *)
OpenSession ==
    /\ actor # "dead"
    /\ thread = "unstarted"
    /\ open' = TRUE
    /\ thread' = "adapting"
    /\ UNCHANGED <<actor, closed, chunkIdx, audioIn, inputOver, produced, puts, gaveUp,
                   resultsOut, reader, delivered, closer>>

(* A chunk for a session that is gone is ignored; one for a full queue is  *)
(* dropped.                                                                *)
Feed ==
    /\ actor # "dead"
    /\ chunkIdx < MaxChunk
    /\ IF open
       THEN /\ chunkIdx' = chunkIdx + 1
            /\ audioIn' = PutNowait(audioIn, chunkIdx + 1, AudioCap)
       ELSE UNCHANGED <<chunkIdx, audioIn>>
    /\ UNCHANGED <<actor, open, closed, thread, inputOver, produced, puts, gaveUp,
                   resultsOut, reader, delivered, closer>>

(* The gateway makes one call at a time, none before the session is open,  *)
(* and none after a None or an exception.  A call for a session that is    *)
(* gone is answered None at once.                                          *)
StreamOver == reader = "failed" \/ (delivered # <<>> /\ Last(delivered) = End)
NextResult ==
    /\ thread # "unstarted" /\ reader # "waiting" /\ ~StreamOver
    /\ CASE actor = "dead" -> reader' = "failed" /\ UNCHANGED delivered
         [] open /\ actor # "dead" -> reader' = "waiting" /\ UNCHANGED delivered
         [] ~open /\ actor # "dead" ->
                reader' = "answered" /\ delivered' = Append(delivered, End)
    /\ UNCHANGED <<actor, open, closed, chunkIdx, audioIn, thread, inputOver, produced,
                   puts, gaveUp, resultsOut, closer>>

(* results_out.get() has an item; the session may have been closed since.  *)
ResultRead ==
    /\ reader = "waiting"
    /\ resultsOut # <<>>
    /\ reader' = "answered"
    /\ delivered' = Append(delivered, Head(resultsOut))
    /\ resultsOut' = Tail(resultsOut)
    /\ UNCHANGED <<actor, open, closed, chunkIdx, audioIn, thread, inputOver, produced,
                   puts, gaveUp, closer>>

StopInput ==
    /\ open' = FALSE
    /\ closed' = TRUE
    /\ audioIn' = PutNowait(audioIn, End, AudioCap)

CloseSession ==
    /\ closer = "none"
    /\ IF open THEN StopInput /\ closer' = "joining"
       ELSE closer' = "done" /\ UNCHANGED <<open, closed, audioIn>>
    /\ UNCHANGED <<actor, chunkIdx, thread, inputOver, produced, puts, gaveUp,
                   resultsOut, reader, delivered>>

(* Mutant: no sentinel for the reader.                                     *)
MutantCloseNoSentinel ==
    /\ closer = "joining"
    /\ closer' = "done"
    /\ UNCHANGED <<actor, open, closed, chunkIdx, audioIn, thread, inputOver, produced,
                   puts, gaveUp, resultsOut, reader, delivered>>

(* The thread has exited, or ten seconds have passed.                      *)
CloseReturns ==
    /\ closer = "joining"
    /\ closer' = "done"
    /\ resultsOut' = PutNowait(resultsOut, End, ResultsCap)
    /\ UNCHANGED <<actor, open, closed, chunkIdx, audioIn, thread, inputOver, produced,
                   puts, gaveUp, reader, delivered>>

(* The whole actor is unloaded, by an eviction or by a signal; its caller  *)
(* goes on to kill it.                                                     *)
Unload ==
    /\ actor = "up"
    /\ actor' = "unloaded"
    /\ IF open THEN StopInput ELSE UNCHANGED <<open, closed, audioIn>>
    /\ UNCHANGED <<chunkIdx, thread, inputOver, produced, puts, gaveUp, resultsOut,
                   reader, delivered, closer>>

(* Its threads go with the process; its callers get an exception.          *)
ActorDies ==
    /\ actor # "dead"
    /\ actor' = "dead"
    /\ open' = FALSE
    /\ thread' = "exited"
    /\ reader' = IF reader = "waiting" THEN "failed" ELSE reader
    /\ closer' = IF closer = "joining" THEN "done" ELSE closer
    /\ UNCHANGED <<closed, chunkIdx, audioIn, inputOver, produced, puts, gaveUp,
                   resultsOut, delivered>>

-----------------------------------------------------------------------------
(* The adapter thread.                                                     *)

(* Mutant: only the sentinel ends the input.                               *)
MutantGetSentinelOnly ==
    /\ thread = "getting"
    /\ audioIn # <<>>
    /\ audioIn' = Tail(audioIn)
    /\ IF Head(audioIn) = End
       THEN thread' = "finishing" /\ inputOver' = TRUE
       ELSE thread' \in {"adapting", "getting"} /\ UNCHANGED inputOver
    /\ UNCHANGED <<produced, puts, gaveUp, resultsOut, loopVars>>

(* chunks_iter: the sentinel, or the closed flag behind any item, ends the *)
(* input; the VAD gate may skip a chunk.                                   *)
GetChunk ==
    /\ thread = "getting"
    /\ audioIn # <<>>
    /\ audioIn' = Tail(audioIn)
    /\ IF Head(audioIn) = End \/ closed
       THEN thread' = "finishing" /\ inputOver' = TRUE
       ELSE thread' \in {"adapting", "getting"} /\ UNCHANGED inputOver
    /\ UNCHANGED <<produced, puts, gaveUp, resultsOut, loopVars>>

AdapterAsks ==
    /\ thread = "adapting"
    /\ thread' = "getting"
    /\ UNCHANGED <<audioIn, inputOver, produced, puts, gaveUp, resultsOut, loopVars>>

(* Mutant: the thread does not wait for the put.                           *)
MutantYieldNoWait ==
    /\ InAdapter
    /\ produced < MaxResult
    /\ produced' = produced + 1
    /\ puts' = puts \cup {produced + 1}
    /\ UNCHANGED <<thread, audioIn, inputOver, gaveUp, resultsOut, loopVars>>

AdapterYields ==
    /\ InAdapter
    /\ produced < MaxResult
    /\ produced' = produced + 1
    /\ puts' = puts \cup {produced + 1}
    /\ thread' = "putting"
    /\ UNCHANGED <<audioIn, inputOver, gaveUp, resultsOut, loopVars>>

AdapterRaises ==
    /\ InAdapter
    /\ puts' = puts \cup {Error}
    /\ thread' = "failing"
    /\ UNCHANGED <<audioIn, inputOver, produced, gaveUp, resultsOut, loopVars>>

AdapterReturns ==
    /\ InAdapter
    /\ puts' = puts \cup {End}
    /\ thread' = "ending"
    /\ UNCHANGED <<audioIn, inputOver, produced, gaveUp, resultsOut, loopVars>>

(* What the thread waits to have put.                                      *)
Awaited == CASE thread = "putting" -> {produced}
             [] thread = "failing" -> {Error}
             [] thread = "ending" -> {End}
             [] OTHER -> {}

(* The finally clause: whatever came before, the sentinel comes last.      *)
AfterError == thread' = "ending"

(* There is room in results_out for a put.                                 *)
PutLands(x) ==
    /\ actor # "dead"
    /\ x \in puts
    /\ Len(resultsOut) < ResultsCap
    /\ resultsOut' = Append(resultsOut, x)
    /\ CASE x \notin Awaited -> UNCHANGED thread /\ puts' = puts \ {x}
         [] x \in Awaited /\ thread = "putting" ->
                /\ thread' = IF inputOver THEN "finishing" ELSE "adapting"
                /\ puts' = puts \ {x}
         [] x \in Awaited /\ thread = "failing" ->
                AfterError /\ puts' = (puts \ {x}) \cup {End}
         [] x \in Awaited /\ thread = "ending" ->
                thread' = "exited" /\ puts' = puts \ {x}
    /\ UNCHANGED <<audioIn, inputOver, produced, gaveUp, loopVars>>

(* Mutant: a put that is given up is passed over.                          *)
MutantPutPassedOver ==
    /\ actor # "dead"
    /\ Awaited \cap puts # {}
    /\ gaveUp' = TRUE
    /\ CASE thread = "putting" -> thread' = "adapting" /\ UNCHANGED puts
         [] thread = "failing" -> AfterError /\ puts' = puts \cup {End}
         [] thread = "ending" -> thread' = "exited" /\ UNCHANGED puts
    /\ UNCHANGED <<audioIn, inputOver, produced, resultsOut, loopVars>>

(* Five seconds without room, or with a busy event loop: the wait raises.  *)
PutGivenUp ==
    /\ actor # "dead"
    /\ Awaited \cap puts # {}
    /\ gaveUp' = TRUE
    /\ CASE thread = "putting" -> thread' = "failing" /\ puts' = puts \cup {Error}
         [] thread = "failing" -> AfterError /\ puts' = puts \cup {End}
         [] thread = "ending" -> thread' = "exited" /\ UNCHANGED puts
    /\ UNCHANGED <<audioIn, inputOver, produced, resultsOut, loopVars>>

AdapterStep == AdapterAsks \/ AdapterYields \/ AdapterRaises \/ AdapterReturns
PutSettles == PutGivenUp \/ \E x \in Item : PutLands(x)

-----------------------------------------------------------------------------

Next ==
    \/ OpenSession \/ Feed \/ NextResult \/ ResultRead
    \/ CloseSession \/ CloseReturns \/ Unload \/ ActorDies
    \/ GetChunk \/ AdapterStep \/ PutSettles

(* The event loop and the thread do what they can; a wait with a time      *)
(* limit ends; an unloaded actor is killed.  Nothing makes the adapter     *)
(* return from a call.                                                     *)
Fairness ==
    /\ WF_vars(GetChunk) /\ WF_vars(PutSettles)
    /\ WF_vars(ResultRead) /\ WF_vars(CloseReturns)
    /\ WF_vars(actor = "unloaded" /\ ActorDies)

Spec == Init /\ [][Next]_vars /\ Fairness

-----------------------------------------------------------------------------
(* Types, and the queues within their bounds.                              *)
TypeOK ==
    /\ actor \in {"up", "unloaded", "dead"}
    /\ open \in BOOLEAN /\ closed \in BOOLEAN /\ inputOver \in BOOLEAN
    /\ gaveUp \in BOOLEAN
    /\ chunkIdx \in 0..MaxChunk /\ produced \in 0..MaxResult
    /\ audioIn \in Seq(1..MaxChunk \cup {End}) /\ Len(audioIn) <= AudioCap
    /\ resultsOut \in Seq(Item) /\ Len(resultsOut) <= ResultsCap
    /\ thread \in ThreadState
    /\ puts \subseteq Item
    /\ reader \in {"none", "waiting", "answered", "failed"}
    /\ delivered \in Seq(Item)
    /\ closer \in {"none", "joining", "done"}

Occurs(x, q) == \E i \in 1..Len(q) : q[i] = x

(* The transcripts a client gets are the adapter's first ones, each once   *)
(* and in order, although puts that were given up land at their own time.  *)
TranscriptsInOrder ==
    \A i \in 1..Len(delivered) : delivered[i] \in Result =>
        /\ \A j \in 1..i - 1 : delivered[j] \in Result => delivered[j] < delivered[i]
        /\ delivered[i] > 1 => \E j \in 1..i - 1 : delivered[j] = delivered[i] - 1

(* A stream that ends by itself has delivered every transcript, unless a   *)
(* put was given up after five seconds.                                    *)
EndIsComplete ==
    open /\ ~gaveUp /\ Occurs(End, delivered) => \A k \in 1..produced : Occurs(k, delivered)

(* A closed session's thread exits, even when audio_in was too full to     *)
(* take the sentinel and nobody reads results_out, provided the adapter    *)
(* returns from its calls.                                                 *)
ThreadEnds == WF_vars(AdapterStep) => (closed ~> thread = "exited")

(* No next_result call outlives its session, even when the adapter hangs:  *)
(* it would keep one of the actor's concurrent calls.                      *)
ReaderReleased == closed /\ reader = "waiting" ~> reader # "waiting"

-----------------------------------------------------------------------------
(* Why the safety properties hold: their inductive strengthening.          *)

(* What is open has a thread; what is closed stays closed.                 *)
OpenInv ==
    /\ open => thread # "unstarted" /\ actor # "dead"
    /\ closer = "joining" => ~open /\ thread # "unstarted"
    /\ thread = "unstarted" => produced = 0 /\ delivered = <<>> /\ resultsOut = <<>>

(* The thread waits for its puts: of the results only the latest can be    *)
(* under way, and after a put given up there are no more.                  *)
PutsInv ==
    /\ puts \subseteq {produced, Error, End}
    /\ InAdapter \/ thread \in {"unstarted", "getting"} => puts = {}
    /\ thread = "putting" => puts = {produced}
    /\ End \in puts => thread \in {"ending", "exited"}
    /\ gaveUp => thread \in {"failing", "ending", "exited"}
    /\ open /\ ~gaveUp /\ produced \in puts \cap Result => thread = "putting"

(* The results that have landed are in delivered and then in resultsOut,   *)
(* all of them and in order.                                               *)
Landed == IF produced \in puts THEN 1..produced - 1 ELSE 1..produced
Increasing(q) ==
    \A i, j \in 1..Len(q) : i < j /\ q[i] \in Result /\ q[j] \in Result => q[i] < q[j]
Flow(p, q, landed) ==
    /\ \A k \in Result : Occurs(k, p) \/ Occurs(k, q) <=> k \in landed
    /\ Increasing(p) /\ Increasing(q)
    /\ \A i \in 1..Len(p), j \in 1..Len(q) :
           p[i] \in Result /\ q[j] \in Result => p[i] < q[j]
FlowInv == Flow(delivered, resultsOut, Landed)

(* The thread's sentinel comes behind every result.                        *)
EndInv ==
    open /\ ~gaveUp =>
        /\ Occurs(End, delivered) \/ Occurs(End, resultsOut) => thread \in {"ending", "exited"}
        /\ Occurs(End, delivered) => \A i \in 1..Len(resultsOut) : resultsOut[i] \notin Result
        /\ \A i, j \in 1..Len(resultsOut) :
               i < j /\ resultsOut[i] = End => resultsOut[j] \notin Result

SessionInv == TypeOK /\ OpenInv /\ PutsInv /\ FlowInv /\ EndInv

=============================================================================
