------------------------- MODULE StreamingRecognize -------------------------
(***************************************************************************)
(* The StreamingRecognize handler of the gateway                           *)
(* (src/sayo_host/gateway/server.py) from open_session to its end, with    *)
(* the client on one side and the session inside the transcript actor      *)
(* (TranscriptSession) on the other.                                       *)
(*                                                                         *)
(* The handler is an async generator.  It keeps one next_result call ahead *)
(* (the prefetch), hands each payload to grpc at a yield, and runs the     *)
(* feed loop as a task of its own.  A client that goes away cancels it:    *)
(* at an await it gets CancelledError there; suspended at the yield, it is *)
(* closed with GeneratorExit, and then awaits the prefetch before the      *)
(* clean-up.  What comes before open_session keeps nothing in the actor    *)
(* and is not modelled here.                                               *)
(***************************************************************************)
EXTENDS Integers, Sequences

CONSTANTS AudioCap, ResultsCap, MaxChunk, MaxResult, End, Error

(* What TranscriptSession assumes of them.                                 *)
ASSUME SessionConstants ==
    /\ AudioCap \in Nat \ {0} /\ ResultsCap \in Nat \ {0}
    /\ MaxChunk \in Nat /\ MaxResult \in Nat
    /\ End # Error /\ End \notin 1..MaxChunk
    /\ {End, Error} \cap (1..MaxResult) = {}

VARIABLES
    actor, open, closed, chunkIdx, audioIn, thread, inputOver, produced, puts, gaveUp,
    resultsOut, reader, delivered, closer,      \* the session in the actor
    client,     \* "sending", "half_closed" or "gone"
    feed,       \* feed_task: "none", "running" or "done"
    pc          \* where the handler is

sessionVars == <<actor, open, closed, chunkIdx, audioIn, thread, inputOver, produced,
                 puts, gaveUp, resultsOut, reader, delivered, closer>>
gatewayVars == <<client, feed, pc>>
vars == <<sessionVars, gatewayVars>>

T == INSTANCE TranscriptSession

(* "opening" awaits open_session; "starting" yields "connected";           *)
(* "awaiting" awaits the prefetch; "yielding" yields a payload; "draining" *)
(* awaits the prefetch on its way out; "feedwait" waits for the feed task; *)
(* "closing" awaits close_session.  Then it has "released" the session to  *)
(* the router, or has "leaked" it.                                         *)
Point == {"opening", "starting", "awaiting", "yielding", "draining", "feedwait",
          "closing", "released", "leaked"}
Ended == pc \in {"released", "leaked"}

Init ==
    /\ T!Init
    /\ client = "sending"
    /\ feed = "none"
    /\ pc = "opening"

Goto(p) == pc' = p

-----------------------------------------------------------------------------
(* The client.                                                             *)

ClientHalfCloses ==
    /\ client = "sending"
    /\ client' = "half_closed"
    /\ UNCHANGED <<sessionVars, feed, pc>>

(* Mutants: the actor's handle is kept only once open_session has answered;*)
(* the await of the prefetch swallows the cancellation.                    *)
MutantCancelForgetsActor ==
    [p \in Point |->
        CASE p = "opening" -> "released"
          [] p \in {"starting", "awaiting"} -> "feedwait"
          [] p = "yielding" -> "draining"
          [] p = "closing" -> "leaked"
          [] OTHER -> p]

MutantCancelSwallowed ==
    [p \in Point |->
        CASE p \in {"opening", "starting"} -> "feedwait"
          [] p = "yielding" -> "draining"
          [] p = "closing" -> "leaked"
          [] OTHER -> p]

(* Where a cancelled handler goes on.  The wait for the feed task takes    *)
(* note of the cancellation and goes on; the await of close_session does   *)
(* not, and release_session is never called.                               *)
AfterCancel ==
    [p \in Point |->
        CASE p \in {"opening", "starting", "awaiting"} -> "feedwait"
          [] p = "yielding" -> "draining"
          [] p = "closing" -> "leaked"
          [] OTHER -> p]

(* An open_session call under way may reach the actor all the same.        *)
ClientCancels ==
    /\ client # "gone"
    /\ client' = "gone"
    /\ Goto(AfterCancel[pc])
    /\ \/ pc = "opening" /\ T!OpenSession
       \/ UNCHANGED sessionVars
    /\ UNCHANGED feed

-----------------------------------------------------------------------------
(* The feed loop: coalesced chunks while the client sends, the tail when   *)
(* its half of the stream ends.  It tells the actor nothing else.          *)

FeedChunk ==
    /\ feed = "running" /\ client = "sending"
    /\ T!Feed
    /\ UNCHANGED gatewayVars

FlushTail ==
    /\ feed = "running" /\ client # "sending"
    /\ T!Feed
    /\ feed' = "done"
    /\ UNCHANGED <<client, pc>>

(* No tail, or the call raises, or the request iterator does.              *)
FeedEnds ==
    /\ feed = "running"
    /\ client # "sending" \/ actor = "dead"
    /\ feed' = "done"
    /\ UNCHANGED <<sessionVars, client, pc>>

-----------------------------------------------------------------------------
(* The handler.                                                            *)

SessionOpened ==
    /\ pc = "opening"
    /\ T!OpenSession
    /\ Goto("starting")
    /\ UNCHANGED <<client, feed>>

(* The actor is at capacity, or gone.                                      *)
OpenRaises ==
    /\ pc = "opening"
    /\ Goto("feedwait")
    /\ UNCHANGED <<sessionVars, client, feed>>

StartTasks ==
    /\ pc = "starting"
    /\ T!NextResult
    /\ feed' = "running"
    /\ Goto("awaiting")
    /\ UNCHANGED client

(* A payload: the next call goes out before it is yielded.                 *)
ReceivePayload ==
    /\ pc = "awaiting" /\ reader = "answered" /\ ~T!StreamOver
    /\ T!NextResult
    /\ Goto("yielding")
    /\ UNCHANGED <<client, feed>>

(* None, or an exception.                                                  *)
ReceiveEnd ==
    /\ pc = "awaiting" /\ reader # "waiting" /\ T!StreamOver
    /\ Goto("feedwait")
    /\ UNCHANGED <<sessionVars, client, feed>>

Written ==
    /\ pc = "yielding"
    /\ Goto("awaiting")
    /\ UNCHANGED <<sessionVars, client, feed>>

DrainEnds ==
    /\ pc = "draining" /\ reader # "waiting"
    /\ Goto("feedwait")
    /\ UNCHANGED <<sessionVars, client, feed>>

(* Mutant: the wait for the feed task has no deadline.                     *)
MutantFeedNoDeadline ==
    /\ pc = "feedwait" /\ feed # "running"
    /\ T!CloseSession
    /\ Goto("closing")
    /\ UNCHANGED <<client, feed>>

(* The feed task is done, or thirty seconds have passed.                   *)
FeedWaitEnds ==
    /\ pc = "feedwait"
    /\ T!CloseSession
    /\ Goto("closing")
    /\ UNCHANGED <<client, feed>>

(* close_session returns or raises; release_session is called.             *)
Release ==
    /\ pc = "closing" /\ closer = "done"
    /\ Goto("released")
    /\ UNCHANGED <<sessionVars, client, feed>>

-----------------------------------------------------------------------------
(* The actor by itself.                                                    *)
ActorStep ==
    /\ \/ T!ResultRead \/ T!CloseReturns
       \/ T!Unload \/ T!ActorDies
       \/ T!GetChunk \/ T!AdapterStep \/ T!PutSettles
    /\ UNCHANGED gatewayVars

HandlerStep ==
    \/ SessionOpened \/ OpenRaises \/ StartTasks
    \/ ReceivePayload \/ ReceiveEnd \/ Written
    \/ DrainEnds \/ FeedWaitEnds \/ Release

Next ==
    \/ ClientHalfCloses \/ ClientCancels
    \/ FeedChunk \/ FlushTail \/ FeedEnds
    \/ HandlerStep
    \/ ActorStep

(* The gateway's event loop runs, clients read what they are sent, and the *)
(* adapter returns from its calls.  A client need not send or end.         *)
Spec ==
    /\ Init /\ [][Next]_vars
    /\ WF_vars(HandlerStep)
    /\ T!Fairness
    /\ WF_vars(T!AdapterStep /\ UNCHANGED gatewayVars)

-----------------------------------------------------------------------------
(* Types of the handler's variables.                                       *)
TypeOK ==
    /\ T!TypeOK
    /\ client \in {"sending", "half_closed", "gone"}
    /\ feed \in {"none", "running", "done"}
    /\ pc \in Point

(* The router is told of a free slot only when the actor has it: the       *)
(* session is closed before it is released, whichever way the handler      *)
(* left, or the next session placed there would be refused at capacity.    *)
ReleasedIsClosed == pc = "released" => ~open

(* The end of the adapter thread ends the stream, wherever the handler is  *)
(* then, and whether the answers of next_result came before or after it    *)
(* was cancelled.                                                          *)
StreamEnds == thread = "exited" ~> Ended

(* A client that goes away ends its stream, unless the handler was at a    *)
(* yield and awaits a next_result while the adapter asks for audio.        *)
CancelEnds == client = "gone" ~> Ended \/ (pc = "draining" /\ thread = "getting")

(* A client that has sent all its audio gets the end of the stream.        *)
HalfCloseEnds == client = "half_closed" ~> Ended

=============================================================================
