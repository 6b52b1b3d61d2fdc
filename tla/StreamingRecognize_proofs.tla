---------------------- MODULE StreamingRecognize_proofs ----------------------
(***************************************************************************)
(* Proofs about StreamingRecognize for every value of its constants.       *)
(*                                                                         *)
(* The gateway moves the session only as TranscriptSession allows, so what *)
(* is proved of one session holds of the one behind a client's stream.  T  *)
(* is the session as StreamingRecognize has it, TP the same module with    *)
(* its theorems.                                                           *)
(***************************************************************************)
EXTENDS StreamingRecognize, TLAPS

TP == INSTANCE TranscriptSession_proofs

-----------------------------------------------------------------------------
(* T and TP define the same session.                                       *)

LEMMA SameInit == T!Init <=> TP!Init
  BY DEF T!Init, TP!Init

LEMMA SameNext == T!Next <=> TP!Next
<1>1. T!OpenSession <=> TP!OpenSession
  BY DEF T!OpenSession, TP!OpenSession
<1>2. T!Feed <=> TP!Feed
  BY DEF T!Feed, TP!Feed, T!PutNowait, TP!PutNowait
<1>3. T!NextResult <=> TP!NextResult
  BY DEF T!NextResult, TP!NextResult, T!StreamOver, TP!StreamOver, T!Last, TP!Last
<1>4. T!ResultRead <=> TP!ResultRead
  BY DEF T!ResultRead, TP!ResultRead
<1>5. T!CloseSession <=> TP!CloseSession
  BY
     DEF T!CloseSession, TP!CloseSession, T!StopInput, TP!StopInput, T!PutNowait,
         TP!PutNowait
<1>6. T!CloseReturns <=> TP!CloseReturns
  BY DEF T!CloseReturns, TP!CloseReturns, T!PutNowait, TP!PutNowait
<1>7. T!Unload <=> TP!Unload
  BY DEF T!Unload, TP!Unload, T!StopInput, TP!StopInput, T!PutNowait, TP!PutNowait
<1>8. T!ActorDies <=> TP!ActorDies
  BY DEF T!ActorDies, TP!ActorDies
<1>9. T!GetChunk <=> TP!GetChunk
  BY DEF T!GetChunk, TP!GetChunk, T!loopVars, TP!loopVars
<1>10. T!AdapterAsks <=> TP!AdapterAsks
  BY DEF T!AdapterAsks, TP!AdapterAsks, T!loopVars, TP!loopVars
<1>11. T!AdapterYields <=> TP!AdapterYields
  BY
     DEF T!AdapterYields, TP!AdapterYields, T!loopVars, TP!loopVars, T!InAdapter,
         TP!InAdapter
<1>12. T!AdapterRaises <=> TP!AdapterRaises
  BY
     DEF T!AdapterRaises, TP!AdapterRaises, T!loopVars, TP!loopVars, T!InAdapter,
         TP!InAdapter
<1>13. T!AdapterReturns <=> TP!AdapterReturns
  BY
     DEF T!AdapterReturns, TP!AdapterReturns, T!loopVars, TP!loopVars, T!InAdapter,
         TP!InAdapter
<1>14. T!PutGivenUp <=> TP!PutGivenUp
  BY
     DEF T!PutGivenUp, TP!PutGivenUp, T!loopVars, TP!loopVars, T!Awaited, TP!Awaited,
         T!AfterError, TP!AfterError
<1>15. ASSUME NEW x PROVE T!PutLands(x) <=> TP!PutLands(x)
  BY
     DEF T!PutLands, TP!PutLands, T!loopVars, TP!loopVars, T!Awaited, TP!Awaited,
         T!AfterError, TP!AfterError
<1>16. T!PutSettles <=> TP!PutSettles
  BY <1>14, <1>15
     DEF T!PutSettles, TP!PutSettles, T!Item, TP!Item, T!Result, TP!Result
<1>17. T!AdapterStep <=> TP!AdapterStep
  BY <1>10, <1>11, <1>12, <1>13 DEF T!AdapterStep, TP!AdapterStep
<1>18. QED
  BY <1>1, <1>2, <1>3, <1>4, <1>5, <1>6, <1>7, <1>8, <1>9, <1>16, <1>17
     DEF T!Next, TP!Next

LEMMA SameProperties ==
    /\ T!TypeOK <=> TP!TypeOK
    /\ T!TranscriptsInOrder <=> TP!TranscriptsInOrder
    /\ T!EndIsComplete <=> TP!EndIsComplete
<1>1. T!TypeOK <=> TP!TypeOK
  BY
     DEF T!TypeOK, TP!TypeOK, T!ThreadState, TP!ThreadState, T!Item, TP!Item,
         T!Result, TP!Result
<1>2. T!TranscriptsInOrder <=> TP!TranscriptsInOrder
  BY DEF T!TranscriptsInOrder, TP!TranscriptsInOrder, T!Result, TP!Result
<1>3. T!EndIsComplete <=> TP!EndIsComplete
  BY DEF T!EndIsComplete, TP!EndIsComplete, T!Occurs, TP!Occurs
<1>4. QED
  BY <1>1, <1>2, <1>3

-----------------------------------------------------------------------------
(* Every step of the gateway is a step of the session or leaves it alone.  *)
LEMMA StepOfSession == [Next]_vars => [T!Next]_(T!vars) /\ [TP!Next]_(TP!vars)
<1> SUFFICES ASSUME [Next]_vars PROVE T!Next \/ UNCHANGED sessionVars
  BY SameNext DEF T!vars, TP!vars, sessionVars
<1>1. CASE ClientHalfCloses
  BY <1>1 DEF ClientHalfCloses
<1>2. CASE ClientCancels
  BY <1>2 DEF ClientCancels, T!Next
<1>3. CASE FeedChunk \/ FlushTail
  BY <1>3 DEF FeedChunk, FlushTail, T!Next
<1>4. CASE FeedEnds
  BY <1>4 DEF FeedEnds
<1>5. CASE HandlerStep
  <2>1. CASE SessionOpened
    BY <2>1 DEF SessionOpened, T!Next
  <2>2. CASE StartTasks \/ ReceivePayload
    BY <2>2 DEF StartTasks, ReceivePayload, T!Next
  <2>3. CASE FeedWaitEnds
    BY <2>3 DEF FeedWaitEnds, T!Next
  <2>4. CASE OpenRaises \/ ReceiveEnd \/ Written \/ DrainEnds \/ Release
    BY <2>4 DEF OpenRaises, ReceiveEnd, Written, DrainEnds, Release
  <2>5. QED
    BY <1>5, <2>1, <2>2, <2>3, <2>4 DEF HandlerStep
<1>6. CASE ActorStep
  BY <1>6 DEF ActorStep, T!Next
<1>7. CASE UNCHANGED vars
  BY <1>7 DEF vars
<1>8. QED
  BY <1>1, <1>2, <1>3, <1>4, <1>5, <1>6, <1>7 DEF Next

(* The gateway, its client and the actor together run a session the way    *)
(* TranscriptSession says: they start in its initial state and take no     *)
(* step it does not have.  The feed loop, the prefetch, the cancellation   *)
(* and the clean-up interleave; none of them bends the session's protocol. *)
THEOREM GatewayRunsASession == Spec => T!Init /\ [][T!Next]_(T!vars)
<1>1. Init => T!Init
  BY DEF Init
<1>2. [Next]_vars => [T!Next]_(T!vars)
  BY StepOfSession
<1>3. QED
  BY <1>1, <1>2, PTL DEF Spec

LEMMA SessionInvHere == Spec => []TP!SessionInv
<1>1. Init => TP!SessionInv
  BY SessionConstants, SameInit, TP!SessionInit DEF Init
<1>2. TP!SessionInv /\ [Next]_vars => TP!SessionInv'
  BY StepOfSession, SessionConstants, TP!SessionStep
<1>3. QED
  BY <1>1, <1>2, PTL DEF Spec

(* The transcripts the actor hands the gateway for a client are the        *)
(* adapter's first ones, each once and in order, whatever the client, the  *)
(* feed loop and the handler do meanwhile.                                 *)
THEOREM ClientGetsResultsInOrder == Spec => []T!TranscriptsInOrder
<1>1. TP!SessionInv => T!TranscriptsInOrder
  BY SessionConstants, SameProperties, TP!FlowIsOrdered
<1>2. QED
  BY <1>1, SessionInvHere, PTL

(* A stream told None while its session is open has had every transcript,  *)
(* unless the actor's thread gave up a put.                                *)
THEOREM ClientIsNotCutOff == Spec => []T!EndIsComplete
<1>1. TP!SessionInv => T!EndIsComplete
  BY SessionConstants, SameProperties, TP!EndIsLast
<1>2. QED
  BY <1>1, SessionInvHere, PTL

-----------------------------------------------------------------------------
(* From the call of close_session on, the session is closed in the actor.  *)
HandlerInv ==
    /\ client \in {"sending", "half_closed", "gone"}
    /\ feed \in {"none", "running", "done"}
    /\ pc \in Point
    /\ pc \in {"closing", "released"} => ~open

LEMMA HandlerInvPreserved == HandlerInv /\ [Next]_vars => HandlerInv'
<1> SUFFICES ASSUME HandlerInv, [Next]_vars PROVE HandlerInv'
  OBVIOUS
<1> USE DEF HandlerInv, Point, Goto
<1>1. CASE ClientHalfCloses
  BY <1>1 DEF ClientHalfCloses, sessionVars
<1>2. CASE ClientCancels
  <2>1. pc' \in Point /\ (pc' \in {"closing", "released"} => pc = "released")
    BY <1>2 DEF ClientCancels, AfterCancel
  <2>2. pc = "released" => open' = open
    BY <1>2 DEF ClientCancels, sessionVars
  <2>3. client' = "gone" /\ feed' = feed
    BY <1>2 DEF ClientCancels
  <2>4. QED
    BY <2>1, <2>2, <2>3
<1>3. CASE FeedChunk \/ FlushTail
  BY <1>3 DEF FeedChunk, FlushTail, T!Feed, gatewayVars
<1>4. CASE FeedEnds
  BY <1>4 DEF FeedEnds, sessionVars
<1>5. CASE HandlerStep
  <2>1. CASE SessionOpened
    BY <2>1 DEF SessionOpened
  <2>2. CASE OpenRaises \/ ReceiveEnd \/ Written \/ DrainEnds
    BY <2>2 DEF OpenRaises, ReceiveEnd, Written, DrainEnds
  <2>3. CASE StartTasks \/ ReceivePayload
    BY <2>3 DEF StartTasks, ReceivePayload
  <2>4. CASE FeedWaitEnds
    <3>1. ~open'
      BY <2>4 DEF FeedWaitEnds, T!CloseSession, T!StopInput
    <3>2. QED
      BY <2>4, <3>1 DEF FeedWaitEnds
  <2>5. CASE Release
    BY <2>5 DEF Release, sessionVars
  <2>6. QED
    BY <1>5, <2>1, <2>2, <2>3, <2>4, <2>5 DEF HandlerStep
<1>6. CASE ActorStep
  <2>1. UNCHANGED <<client, feed, pc>>
    BY <1>6 DEF ActorStep, gatewayVars
  <2>2. ~open => ~open'
    <3>1. CASE T!ResultRead \/ T!CloseReturns \/ T!Unload \/ T!ActorDies
      BY <3>1 DEF T!ResultRead, T!CloseReturns, T!Unload, T!StopInput, T!ActorDies
    <3>2. CASE T!GetChunk \/ T!AdapterStep
      BY <3>2 DEF T!GetChunk, T!AdapterStep, T!AdapterAsks, T!AdapterYields,
                  T!AdapterRaises, T!AdapterReturns, T!loopVars
    <3>3. CASE T!PutSettles
      BY <3>3 DEF T!PutSettles, T!PutGivenUp, T!PutLands, T!loopVars
    <3>4. QED
      BY <1>6, <3>1, <3>2, <3>3 DEF ActorStep
  <2>3. QED
    BY <2>1, <2>2
<1>7. CASE UNCHANGED vars
  BY <1>7 DEF vars, sessionVars, gatewayVars
<1>8. QED
  BY <1>1, <1>2, <1>3, <1>4, <1>5, <1>6, <1>7 DEF Next

LEMMA HandlerInvariant == Spec => []HandlerInv
<1>1. Init => HandlerInv
  BY DEF Init, HandlerInv, Point
<1>2. QED
  BY <1>1, HandlerInvPreserved, PTL DEF Spec

(* The handler's variables, and the session's, keep their types; neither   *)
(* queue of the session outgrows its size.                                 *)
THEOREM HandlerTypes == Spec => []TypeOK
<1>1. TP!SessionInv => T!TypeOK
  BY SameProperties DEF TP!SessionInv
<1>2. TP!SessionInv /\ HandlerInv => TypeOK
  BY <1>1 DEF TypeOK, HandlerInv
<1>3. QED
  BY <1>2, SessionInvHere, HandlerInvariant, PTL

(* Whenever the router is told that a slot of an actor is free, the actor  *)
(* has closed the session that held it.                                    *)
THEOREM ReleaseFollowsClose == Spec => []ReleasedIsClosed
<1>1. HandlerInv => ReleasedIsClosed
  BY DEF HandlerInv, ReleasedIsClosed
<1>2. QED
  BY <1>1, HandlerInvariant, PTL

=============================================================================
