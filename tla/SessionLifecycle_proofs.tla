---------------------- MODULE SessionLifecycle_proofs ----------------------
(***************************************************************************)
(* Proofs about SessionLifecycle for every value of its constants.         *)
(*                                                                         *)
(* LifecycleInv is inductive.  What the properties need of it is the set   *)
(* of claims on an actor, which only a placement enlarges: of an actor in  *)
(* the pool they are sessions the router counts, so neither an eviction    *)
(* nor the actor's own limit can hit one of them.                          *)
(***************************************************************************)
EXTENDS SessionLifecycle, FiniteSetTheorems, SequenceTheorems, TLAPS

-----------------------------------------------------------------------------
(* The calls under way from a stream to its actor are one of four          *)
(* sequences.                                                              *)

(* A second call joins a queue of one.                                     *)
LEMMA AppendToOne ==
    ASSUME NEW C, NEW u \in Seq(C), NEW d \in C, NEW v \in Seq(C)
    PROVE  Len(u) = 1 /\ Len(v) = 2 /\ v[1] = u[1] /\ v[2] = d => Append(u, d) = v
<1> DEFINE w == Append(u, d)
<1>1. w \in Seq(C)
  BY AppendProperties
<1>2. Len(w) = Len(u) + 1
  BY AppendProperties
<1>3. \A i \in 1..Len(u) : w[i] = u[i]
  BY AppendProperties
<1>4. w[Len(u) + 1] = d
  BY AppendProperties
<1> HIDE DEF w
<1> HAVE Len(u) = 1 /\ Len(v) = 2 /\ v[1] = u[1] /\ v[2] = d
<1>5. \A i \in 1..Len(w) : w[i] = v[i]
  BY <1>2, <1>3, <1>4
<1>6. w = v
  BY <1>1, <1>2, <1>5, SeqEqual
<1>7. QED
  BY <1>6 DEF w

(* What one call, and two, are made of and leave behind.                   *)
LEMMA CallSequences ==
    /\ \A c \in {"open", "close"} :
           Append(<<>>, c) = <<c>> /\ Head(<<c>>) = c /\ Tail(<<c>>) = <<>> /\ <<c>> # <<>>
    /\ Append(<<"open">>, "close") = <<"open", "close">>
    /\ Head(<<"open", "close">>) = "open" /\ Tail(<<"open", "close">>) = <<"close">>
    /\ <<"open", "close">> \notin {<<>>, <<"open">>, <<"close">>}
    /\ <<"open">> # <<"close">>
<1>1. Append(<<"open">>, "close") = <<"open", "close">>
  <2> DEFINE C == {"open", "close"}
  <2>1. /\ <<"open">> \in Seq(C) /\ Len(<<"open">>) = 1 /\ <<"open">>[1] = "open"
        /\ "close" \in C
    OBVIOUS
  <2>2. /\ <<"open", "close">> \in Seq(C) /\ Len(<<"open", "close">>) = 2
        /\ <<"open", "close">>[1] = "open" /\ <<"open", "close">>[2] = "close"
    OBVIOUS
  <2> HIDE DEF C
  <2>3. QED
    BY <2>1, <2>2, AppendToOne
<1>2. \A c \in {"open", "close"} :
          Append(<<>>, c) = <<c>> /\ Head(<<c>>) = c /\ Tail(<<c>>) = <<>> /\ <<c>> # <<>>
  OBVIOUS
<1>3. /\ Head(<<"open", "close">>) = "open" /\ Tail(<<"open", "close">>) = <<"close">>
      /\ <<"open", "close">> \notin {<<>>, <<"open">>, <<"close">>}
      /\ <<"open">> # <<"close">>
  OBVIOUS
<1>4. QED
  BY <1>1, <1>2, <1>3

-----------------------------------------------------------------------------
(* Each part of LifecycleInv is preserved, with one step per action.       *)

LEMMA TypePreserved == LifecycleInv /\ [Next]_vars => TypeOK'
<1> SUFFICES ASSUME LifecycleInv, [Next]_vars PROVE TypeOK'
  OBVIOUS
<1> USE WantsAssumption, Nulls
    DEF LifecycleInv, TypeOK, Point, pool, manifests, actors, gateway, Goto
<1>1. ASSUME NEW s \in Session, SetupEnds(s) PROVE TypeOK'
  BY <1>1 DEF SetupEnds
<1>2. ASSUME NEW s \in Session, CallAcquire(s) PROVE TypeOK'
  BY <1>2 DEF CallAcquire
<1>3. ASSUME NEW s \in Session, Introduce(s) PROVE TypeOK'
  <2>1. CASE name[s] \in up
    BY <1>3, <2>1 DEF Introduce
  <2>2. CASE name[s] \notin up
    BY <1>3, <2>2 DEF Introduce
  <2>3. QED
    BY <2>1, <2>2
<1>4. ASSUME NEW s \in Session, CallOpen(s) PROVE TypeOK'
  <2>1. sent[s] = <<>>
    BY <1>4 DEF CallOpen, ActorCallsInv
  <2>2. sent' \in [Session -> {<<>>, <<"open">>, <<"open", "close">>, <<"close">>}]
    BY <1>4, <2>1, CallSequences DEF CallOpen, CallActor
  <2>3. QED
    BY <1>4, <2>2 DEF CallOpen
<1>5. ASSUME NEW s \in Session, OpenAnswered(s) PROVE TypeOK'
  BY <1>5 DEF OpenAnswered
<1>6. ASSUME NEW s \in Session, StreamOver(s) PROVE TypeOK'
  BY <1>6 DEF StreamOver
<1>7. ASSUME NEW s \in Session, CleanUp(s) PROVE TypeOK'
  <2>1. sent[s] \in {<<>>, <<"open">>}
    BY <1>7 DEF CleanUp, ActorCallsInv
  <2>2. CASE handle[s] /\ name[s] \in up
    <3>1. sent' = [sent EXCEPT ![s] = Append(sent[s], "close")]
      BY <1>7, <2>2 DEF CleanUp, CallActor
    <3>2. sent' \in [Session -> {<<>>, <<"open">>, <<"open", "close">>, <<"close">>}]
      BY <2>1, <3>1, CallSequences
    <3>3. pc' = [pc EXCEPT ![s] = "closing"] /\ atRouter' = atRouter
      BY <1>7, <2>2 DEF CleanUp
    <3>4. UNCHANGED <<pool, manifests, actors, name, handle, client, abandoned>>
      BY <1>7 DEF CleanUp
    <3>5. QED
      BY <3>2, <3>3, <3>4
  <2>3. CASE handle[s] /\ name[s] \notin up
    <3>1. pc' = [pc EXCEPT ![s] = "closing"] /\ atRouter' = atRouter
      BY <1>7, <2>3 DEF CleanUp
    <3>2. sent' = [sent EXCEPT ![s] = sent[s]]
      BY <1>7, <2>3 DEF CleanUp, CallActor
    <3>3. UNCHANGED <<pool, manifests, actors, name, handle, client, abandoned>>
      BY <1>7 DEF CleanUp
    <3>4. QED
      BY <3>1, <3>2, <3>3
  <2>4. CASE ~handle[s] /\ name[s] # NoActor
    <3>1. pc' = [pc EXCEPT ![s] = "releasing"] /\ sent' = sent
      BY <1>7, <2>4 DEF CleanUp
    <3>2. atRouter' = [atRouter EXCEPT ![s] = "release"]
      BY <1>7, <2>4 DEF CleanUp
    <3>3. UNCHANGED <<pool, manifests, actors, name, handle, client, abandoned>>
      BY <1>7 DEF CleanUp
    <3>4. QED
      BY <3>1, <3>2, <3>3
  <2>5. CASE ~handle[s] /\ name[s] = NoActor
    BY <1>7, <2>5 DEF CleanUp
  <2>6. QED
    BY <2>2, <2>3, <2>4, <2>5
<1>8. ASSUME NEW s \in Session, CloseAnswered(s) PROVE TypeOK'
  BY <1>8 DEF CloseAnswered
<1>9. ASSUME NEW s \in Session, Cancel(s) PROVE TypeOK'
  BY <1>9 DEF Cancel
<1>10. ASSUME NEW s \in Session, LookUp(s) PROVE TypeOK'
  BY <1>10 DEF LookUp
<1>11. ASSUME NEW s \in Session, FetchReturns(s) PROVE TypeOK'
  BY <1>11 DEF FetchReturns
<1>12. ASSUME NEW s \in Session, NEW a \in Actor, Reuse(s, a) PROVE TypeOK'
  <2>1. name' \in [Session -> Actor \cup {NoActor}] /\ pc' \in [Session -> Point]
    BY <1>12 DEF Reuse, Reserve
  <2>2. /\ atRouter' \in [Session -> {"none", "acquire", "fetching", "placing", "release"}]
        /\ manifest' \in [Session -> Slots \cup {NoManifest}]
    BY <1>12 DEF Reuse, Reserve
  <2>3. /\ serves' \in [Actor -> Model \cup {NoModel}]
        /\ holder' \in [Session -> Actor \cup {NoActor}]
    BY <1>12 DEF Reuse, SP!Join
  <2>4. limit' \in [Actor -> Slots \cup {NoManifest}] /\ up' \subseteq Actor /\ table' = table
    BY <1>12 DEF Reuse
  <2>5. UNCHANGED <<registered, cached, handle, client, sent, abandoned>>
    BY <1>12 DEF Reuse, Reserve
  <2>6. QED
    BY <2>1, <2>2, <2>3, <2>4, <2>5
<1>13. ASSUME NEW s \in Session, NEW a \in Actor, Spawn(s, a) PROVE TypeOK'
  <2>1. name' \in [Session -> Actor \cup {NoActor}] /\ pc' \in [Session -> Point]
    BY <1>13 DEF Spawn, Reserve
  <2>2. /\ atRouter' \in [Session -> {"none", "acquire", "fetching", "placing", "release"}]
        /\ manifest' \in [Session -> Slots \cup {NoManifest}]
    BY <1>13 DEF Spawn, Reserve
  <2>3. /\ serves' \in [Actor -> Model \cup {NoModel}]
        /\ holder' \in [Session -> Actor \cup {NoActor}]
    BY <1>13 DEF Spawn, SP!Provide
  <2>4. limit' \in [Actor -> Slots \cup {NoManifest}] /\ up' \subseteq Actor /\ table' = table
    BY <1>13 DEF Spawn
  <2>5. UNCHANGED <<registered, cached, handle, client, sent, abandoned>>
    BY <1>13 DEF Spawn, Reserve
  <2>6. QED
    BY <2>1, <2>2, <2>3, <2>4, <2>5
<1>14. ASSUME NEW s \in Session, AcquireRaises(s) PROVE TypeOK'
  BY <1>14 DEF AcquireRaises
<1>15. ASSUME NEW s \in Session, Release(s) PROVE TypeOK'
  BY <1>15 DEF Release
<1>16. ASSUME NEW s \in Session, OpenSession(s) PROVE TypeOK'
  <2>1. sent' \in [Session -> {<<>>, <<"open">>, <<"open", "close">>, <<"close">>}]
    BY <1>16, CallSequences DEF OpenSession, Arrives
  <2>2. table' \in [Actor -> SUBSET Session]
    BY <1>16 DEF OpenSession, Arrives
  <2>3. QED
    BY <1>16, <2>1, <2>2 DEF OpenSession, Arrives
<1>17. ASSUME NEW s \in Session, CloseSession(s) PROVE TypeOK'
  <2>1. sent' \in [Session -> {<<>>, <<"open">>, <<"open", "close">>, <<"close">>}]
    BY <1>17, CallSequences DEF CloseSession, Arrives
  <2>2. table' \in [Actor -> SUBSET Session]
    BY <1>17 DEF CloseSession, Arrives
  <2>3. QED
    BY <1>17, <2>1, <2>2 DEF CloseSession, Arrives
<1>18. ASSUME NEW a \in Actor, Evict(a) PROVE TypeOK'
  BY <1>18 DEF Evict, Dies, SP!Retire
<1>19. ASSUME NEW a \in Actor, Forget(a) PROVE TypeOK'
  BY <1>19 DEF Forget, SP!Retire
<1>20. ASSUME NEW a \in Actor, ActorDies(a) PROVE TypeOK'
  BY <1>20 DEF ActorDies, Dies
<1>21. ASSUME NEW m \in Model, RegisterAgain(m) PROVE TypeOK'
  BY <1>21 DEF RegisterAgain
<1>22. CASE ReplaceRouter
  BY <1>22 DEF ReplaceRouter, SP!Restart
<1>23. CASE UNCHANGED vars
  BY <1>23 DEF vars
<1>24. QED
  BY <1>1, <1>2, <1>3, <1>4, <1>5, <1>6, <1>7, <1>8, <1>9, <1>10, <1>11, <1>12, <1>13,
     <1>14, <1>15, <1>16, <1>17, <1>18, <1>19, <1>20, <1>21, <1>22, <1>23
     DEF Next, Handler, RouterAnswers, ActorAnswers

(* What the handler holds follows it from point to point.                  *)
LEMMA HandlerPreserved == LifecycleInv /\ [Next]_vars => HandlerInv'
<1> SUFFICES ASSUME LifecycleInv, [Next]_vars PROVE HandlerInv'
  OBVIOUS
<1> USE Nulls
    DEF LifecycleInv, TypeOK, Point, HandlerInv, RouterCallsInv, Acquires, pool,
        manifests, actors, gateway, Goto
<1>1. ASSUME NEW s \in Session, SetupEnds(s) PROVE HandlerInv'
  BY <1>1 DEF SetupEnds
<1>2. ASSUME NEW s \in Session, CallAcquire(s) PROVE HandlerInv'
  BY <1>2 DEF CallAcquire
<1>3. ASSUME NEW s \in Session, Introduce(s) PROVE HandlerInv'
  BY <1>3 DEF Introduce
<1>4. ASSUME NEW s \in Session, CallOpen(s) PROVE HandlerInv'
  BY <1>4 DEF CallOpen, CallActor
<1>5. ASSUME NEW s \in Session, OpenAnswered(s) PROVE HandlerInv'
  BY <1>5 DEF OpenAnswered
<1>6. ASSUME NEW s \in Session, StreamOver(s) PROVE HandlerInv'
  BY <1>6 DEF StreamOver
<1>7. ASSUME NEW s \in Session, CleanUp(s) PROVE HandlerInv'
  BY <1>7 DEF CleanUp, CallActor
<1>8. ASSUME NEW s \in Session, CloseAnswered(s) PROVE HandlerInv'
  BY <1>8 DEF CloseAnswered
<1>9. ASSUME NEW s \in Session, Cancel(s) PROVE HandlerInv'
  BY <1>9 DEF Cancel
<1>10. ASSUME NEW s \in Session, LookUp(s) PROVE HandlerInv'
  BY <1>10 DEF LookUp
<1>11. ASSUME NEW s \in Session, FetchReturns(s) PROVE HandlerInv'
  BY <1>11 DEF FetchReturns
<1>12. ASSUME NEW s \in Session, NEW a \in Actor, Reuse(s, a) PROVE HandlerInv'
  BY <1>12 DEF Reuse, Reserve, SP!Join
<1>13. ASSUME NEW s \in Session, NEW a \in Actor, Spawn(s, a) PROVE HandlerInv'
  BY <1>13 DEF Spawn, Reserve, SP!Provide
<1>14. ASSUME NEW s \in Session, AcquireRaises(s) PROVE HandlerInv'
  BY <1>14 DEF AcquireRaises
<1>15. ASSUME NEW s \in Session, Release(s) PROVE HandlerInv'
  BY <1>15 DEF Release
<1>16. ASSUME NEW s \in Session, OpenSession(s) PROVE HandlerInv'
  BY <1>16 DEF OpenSession, Arrives
<1>17. ASSUME NEW s \in Session, CloseSession(s) PROVE HandlerInv'
  BY <1>17 DEF CloseSession, Arrives
<1>18. ASSUME NEW a \in Actor, Evict(a) PROVE HandlerInv'
  BY <1>18 DEF Evict, Dies, SP!Retire
<1>19. ASSUME NEW a \in Actor, Forget(a) PROVE HandlerInv'
  BY <1>19 DEF Forget, SP!Retire
<1>20. ASSUME NEW a \in Actor, ActorDies(a) PROVE HandlerInv'
  BY <1>20 DEF ActorDies, Dies
<1>21. ASSUME NEW m \in Model, RegisterAgain(m) PROVE HandlerInv'
  BY <1>21 DEF RegisterAgain
<1>22. CASE ReplaceRouter
  BY <1>22 DEF ReplaceRouter, SP!Restart
<1>23. CASE UNCHANGED vars
  BY <1>23 DEF vars
<1>24. QED
  BY <1>1, <1>2, <1>3, <1>4, <1>5, <1>6, <1>7, <1>8, <1>9, <1>10, <1>11, <1>12, <1>13,
     <1>14, <1>15, <1>16, <1>17, <1>18, <1>19, <1>20, <1>21, <1>22, <1>23
     DEF Next, Handler, RouterAnswers, ActorAnswers

(* One call to the router at a time, made where the handler awaits it or   *)
(* left behind by a handler that was cancelled there.                      *)
LEMMA RouterCallsPreserved == LifecycleInv /\ [Next]_vars => RouterCallsInv'
<1> SUFFICES ASSUME LifecycleInv, [Next]_vars PROVE RouterCallsInv'
  OBVIOUS
<1> USE Nulls, WantsAssumption, SlotsAssumption
    DEF LifecycleInv, TypeOK, Point, HandlerInv, RouterCallsInv, TableInv,
        ActorCallsInv, PlacementInv, Acquires, pool, manifests, actors, gateway, Goto
<1>1. ASSUME NEW s \in Session, SetupEnds(s) PROVE RouterCallsInv'
  BY <1>1 DEF SetupEnds
<1>2. ASSUME NEW s \in Session, CallAcquire(s) PROVE RouterCallsInv'
  BY <1>2 DEF CallAcquire
<1>3. ASSUME NEW s \in Session, Introduce(s) PROVE RouterCallsInv'
  BY <1>3 DEF Introduce
<1>4. ASSUME NEW s \in Session, CallOpen(s) PROVE RouterCallsInv'
  BY <1>4 DEF CallOpen, CallActor
<1>5. ASSUME NEW s \in Session, OpenAnswered(s) PROVE RouterCallsInv'
  BY <1>5 DEF OpenAnswered
<1>6. ASSUME NEW s \in Session, StreamOver(s) PROVE RouterCallsInv'
  BY <1>6 DEF StreamOver
<1>7. ASSUME NEW s \in Session, CleanUp(s) PROVE RouterCallsInv'
  BY <1>7 DEF CleanUp, CallActor
<1>8. ASSUME NEW s \in Session, CloseAnswered(s) PROVE RouterCallsInv'
  BY <1>8 DEF CloseAnswered
<1>9. ASSUME NEW s \in Session, Cancel(s) PROVE RouterCallsInv'
  BY <1>9 DEF Cancel
<1>10. ASSUME NEW s \in Session, LookUp(s) PROVE RouterCallsInv'
  BY <1>10 DEF LookUp
<1>11. ASSUME NEW s \in Session, FetchReturns(s) PROVE RouterCallsInv'
  BY <1>11 DEF FetchReturns
<1>12. ASSUME NEW s \in Session, NEW a \in Actor, Reuse(s, a) PROVE RouterCallsInv'
  BY <1>12 DEF Reuse, Reserve, SP!Join
<1>13. ASSUME NEW s \in Session, NEW a \in Actor, Spawn(s, a) PROVE RouterCallsInv'
  BY <1>13 DEF Spawn, Reserve, SP!Provide
<1>14. ASSUME NEW s \in Session, AcquireRaises(s) PROVE RouterCallsInv'
  BY <1>14 DEF AcquireRaises
<1>15. ASSUME NEW s \in Session, Release(s) PROVE RouterCallsInv'
  BY <1>15 DEF Release
<1>16. ASSUME NEW s \in Session, OpenSession(s) PROVE RouterCallsInv'
  BY <1>16 DEF OpenSession, Arrives
<1>17. ASSUME NEW s \in Session, CloseSession(s) PROVE RouterCallsInv'
  BY <1>17 DEF CloseSession, Arrives
<1>18. ASSUME NEW a \in Actor, Evict(a) PROVE RouterCallsInv'
  BY <1>18 DEF Evict, Dies, SP!Retire
<1>19. ASSUME NEW a \in Actor, Forget(a) PROVE RouterCallsInv'
  BY <1>19 DEF Forget, SP!Retire
<1>20. ASSUME NEW a \in Actor, ActorDies(a) PROVE RouterCallsInv'
  BY <1>20 DEF ActorDies, Dies
<1>21. ASSUME NEW m \in Model, RegisterAgain(m) PROVE RouterCallsInv'
  BY <1>21 DEF RegisterAgain
<1>22. CASE ReplaceRouter
  BY <1>22 DEF ReplaceRouter, SP!Restart
<1>23. CASE UNCHANGED vars
  BY <1>23 DEF vars
<1>24. QED
  BY <1>1, <1>2, <1>3, <1>4, <1>5, <1>6, <1>7, <1>8, <1>9, <1>10, <1>11, <1>12, <1>13,
     <1>14, <1>15, <1>16, <1>17, <1>18, <1>19, <1>20, <1>21, <1>22, <1>23
     DEF Next, Handler, RouterAnswers, ActorAnswers

(* Of the calls to an actor, close_session follows open_session.           *)
LEMMA ActorCallsPreserved == LifecycleInv /\ [Next]_vars => ActorCallsInv'
<1> SUFFICES ASSUME LifecycleInv, [Next]_vars PROVE ActorCallsInv'
  OBVIOUS
<1> USE Nulls
    DEF LifecycleInv, TypeOK, Point, HandlerInv, RouterCallsInv, ActorCallsInv,
        Acquires, pool, manifests, actors, gateway, Goto
<1>1. ASSUME NEW s \in Session, SetupEnds(s) PROVE ActorCallsInv'
  BY <1>1 DEF SetupEnds
<1>2. ASSUME NEW s \in Session, CallAcquire(s) PROVE ActorCallsInv'
  BY <1>2 DEF CallAcquire
<1>3. ASSUME NEW s \in Session, Introduce(s) PROVE ActorCallsInv'
  BY <1>3 DEF Introduce
<1>4. ASSUME NEW s \in Session, CallOpen(s) PROVE ActorCallsInv'
  <2>1. sent[s] = <<>>
    BY <1>4 DEF CallOpen
  <2>2. sent' = [sent EXCEPT ![s] = IF name[s] \in up THEN <<"open">> ELSE <<>>]
    BY <1>4, <2>1, CallSequences DEF CallOpen, CallActor
  <2>3. QED
    BY <1>4, <2>1, <2>2, CallSequences DEF CallOpen
<1>5. ASSUME NEW s \in Session, OpenAnswered(s) PROVE ActorCallsInv'
  BY <1>5 DEF OpenAnswered
<1>6. ASSUME NEW s \in Session, StreamOver(s) PROVE ActorCallsInv'
  BY <1>6 DEF StreamOver
<1>7. ASSUME NEW s \in Session, CleanUp(s) PROVE ActorCallsInv'
  BY <1>7, CallSequences DEF CleanUp, CallActor
<1>8. ASSUME NEW s \in Session, CloseAnswered(s) PROVE ActorCallsInv'
  BY <1>8 DEF CloseAnswered
<1>9. ASSUME NEW s \in Session, Cancel(s) PROVE ActorCallsInv'
  BY <1>9 DEF Cancel
<1>10. ASSUME NEW s \in Session, LookUp(s) PROVE ActorCallsInv'
  BY <1>10 DEF LookUp
<1>11. ASSUME NEW s \in Session, FetchReturns(s) PROVE ActorCallsInv'
  BY <1>11 DEF FetchReturns
<1>12. ASSUME NEW s \in Session, NEW a \in Actor, Reuse(s, a) PROVE ActorCallsInv'
  BY <1>12 DEF Reuse, Reserve, SP!Join
<1>13. ASSUME NEW s \in Session, NEW a \in Actor, Spawn(s, a) PROVE ActorCallsInv'
  BY <1>13 DEF Spawn, Reserve, SP!Provide
<1>14. ASSUME NEW s \in Session, AcquireRaises(s) PROVE ActorCallsInv'
  BY <1>14 DEF AcquireRaises
<1>15. ASSUME NEW s \in Session, Release(s) PROVE ActorCallsInv'
  BY <1>15 DEF Release
<1>16. ASSUME NEW s \in Session, OpenSession(s) PROVE ActorCallsInv'
  <2>1. sent[s] \in {<<"open">>, <<"open", "close">>}
    BY <1>16, CallSequences DEF OpenSession, Arrives
  <2>2. sent' = [sent EXCEPT ![s] = IF sent[s] = <<"open">> THEN <<>> ELSE <<"close">>]
    <3>1. sent' = [sent EXCEPT ![s] = Tail(sent[s])]
      BY <1>16 DEF OpenSession, Arrives
    <3>2. QED
      BY <2>1, <3>1, CallSequences
  <2>3. UNCHANGED <<pc, name, handle, up>>
    BY <1>16 DEF OpenSession, Arrives
  <2>4. \A r \in Session \ {s} : sent'[r] = sent[r]
    BY <2>2
  <2>5. /\ sent[s] # <<>> /\ sent'[s] \in {<<>>, <<"close">>}
        /\ sent'[s] # <<"open">>
        /\ sent[s] = <<"open">> => sent'[s] = <<>>
    BY <2>1, <2>2, CallSequences
  <2>6. pc[s] \in {"opening", "unwinding"} => sent[s] = <<"open">>
    BY <2>1, CallSequences
  <2>7. QED
    BY <2>3, <2>4, <2>5, <2>6, CallSequences
<1>17. ASSUME NEW s \in Session, CloseSession(s) PROVE ActorCallsInv'
  <2>1. sent[s] = <<"close">>
    BY <1>17, CallSequences DEF CloseSession, Arrives
  <2>2. sent' = [sent EXCEPT ![s] = <<>>]
    BY <1>17, <2>1, CallSequences DEF CloseSession, Arrives
  <2>3. QED
    BY <1>17, <2>2, CallSequences DEF CloseSession, Arrives
<1>18. ASSUME NEW a \in Actor, Evict(a) PROVE ActorCallsInv'
  BY <1>18 DEF Evict, Dies, SP!Retire
<1>19. ASSUME NEW a \in Actor, Forget(a) PROVE ActorCallsInv'
  BY <1>19 DEF Forget, SP!Retire
<1>20. ASSUME NEW a \in Actor, ActorDies(a) PROVE ActorCallsInv'
  BY <1>20 DEF ActorDies, Dies
<1>21. ASSUME NEW m \in Model, RegisterAgain(m) PROVE ActorCallsInv'
  BY <1>21 DEF RegisterAgain
<1>22. CASE ReplaceRouter
  BY <1>22 DEF ReplaceRouter, SP!Restart
<1>23. CASE UNCHANGED vars
  BY <1>23 DEF vars
<1>24. QED
  BY <1>1, <1>2, <1>3, <1>4, <1>5, <1>6, <1>7, <1>8, <1>9, <1>10, <1>11, <1>12, <1>13,
     <1>14, <1>15, <1>16, <1>17, <1>18, <1>19, <1>20, <1>21, <1>22, <1>23
     DEF Next, Handler, RouterAnswers, ActorAnswers

(* A stream in a table still has its close_session to send, or on its way, *)
(* or was cut off; open_session is not repeated.                           *)
LEMMA TablePreserved == LifecycleInv /\ [Next]_vars => TableInv'
<1> SUFFICES ASSUME LifecycleInv, [Next]_vars PROVE TableInv'
  OBVIOUS
<1> USE Nulls
    DEF LifecycleInv, TypeOK, Point, HandlerInv, RouterCallsInv, ActorCallsInv,
        TableInv, Acquires, pool, manifests, actors, gateway, Goto
<1>1. ASSUME NEW s \in Session, SetupEnds(s) PROVE TableInv'
  BY <1>1 DEF SetupEnds
<1>2. ASSUME NEW s \in Session, CallAcquire(s) PROVE TableInv'
  BY <1>2 DEF CallAcquire
<1>3. ASSUME NEW s \in Session, Introduce(s) PROVE TableInv'
  BY <1>3 DEF Introduce
<1>4. ASSUME NEW s \in Session, CallOpen(s) PROVE TableInv'
  BY <1>4 DEF CallOpen, CallActor
<1>5. ASSUME NEW s \in Session, OpenAnswered(s) PROVE TableInv'
  BY <1>5 DEF OpenAnswered
<1>6. ASSUME NEW s \in Session, StreamOver(s) PROVE TableInv'
  BY <1>6 DEF StreamOver
<1>7. ASSUME NEW s \in Session, CleanUp(s) PROVE TableInv'
  <2>1. table' = table /\ name' = name /\ handle' = handle /\ up' = up
    BY <1>7 DEF CleanUp
  <2>2. ASSUME NEW b \in Actor, NEW r \in table[b], r # s PROVE sent'[r] = sent[r] /\ pc'[r] = pc[r]
    BY <1>7, <2>2 DEF CleanUp, CallActor
  <2>3. ASSUME NEW b \in Actor, s \in table[b] PROVE pc'[s] = "closing" /\ sent'[s] = <<"close">>
    <3>1. sent[s] = <<>> /\ handle[s] /\ name[s] \in up
      BY <1>7, <2>3, CallSequences DEF CleanUp
    <3>2. QED
      BY <1>7, <3>1, CallSequences DEF CleanUp, CallActor
  <2>4. <<"close">> # <<>>
    BY CallSequences
  <2>5. ASSUME NEW b \in Actor, NEW r \in table[b], r # s
        PROVE  /\ name[r] = b /\ handle[r] /\ b \in up
               /\ pc'[r] \in {"opening", "streaming", "unwinding", "closing", "ended"}
               /\ sent'[r] \in {<<>>, <<"close">>}
               /\ pc'[r] = "closing" => sent'[r] # <<>>
    BY <2>2, <2>5
  <2>6. ASSUME NEW b \in Actor, s \in table[b]
        PROVE  /\ name[s] = b /\ handle[s] /\ b \in up
               /\ pc'[s] \in {"opening", "streaming", "unwinding", "closing", "ended"}
               /\ sent'[s] \in {<<>>, <<"close">>}
               /\ pc'[s] = "closing" => sent'[s] # <<>>
    BY <2>3, <2>4, <2>6
  <2>7. QED
    BY <2>1, <2>5, <2>6 DEF TableInv
<1>8. ASSUME NEW s \in Session, CloseAnswered(s) PROVE TableInv'
  BY <1>8 DEF CloseAnswered
<1>9. ASSUME NEW s \in Session, Cancel(s) PROVE TableInv'
  BY <1>9 DEF Cancel
<1>10. ASSUME NEW s \in Session, LookUp(s) PROVE TableInv'
  BY <1>10 DEF LookUp
<1>11. ASSUME NEW s \in Session, FetchReturns(s) PROVE TableInv'
  BY <1>11 DEF FetchReturns
<1>12. ASSUME NEW s \in Session, NEW a \in Actor, Reuse(s, a) PROVE TableInv'
  BY <1>12 DEF Reuse, Reserve, SP!Join
<1>13. ASSUME NEW s \in Session, NEW a \in Actor, Spawn(s, a) PROVE TableInv'
  BY <1>13 DEF Spawn, Reserve, SP!Provide
<1>14. ASSUME NEW s \in Session, AcquireRaises(s) PROVE TableInv'
  BY <1>14 DEF AcquireRaises
<1>15. ASSUME NEW s \in Session, Release(s) PROVE TableInv'
  BY <1>15 DEF Release
<1>16. ASSUME NEW s \in Session, OpenSession(s) PROVE TableInv'
  <2>1. sent[s] \in {<<"open">>, <<"open", "close">>}
    BY <1>16, CallSequences DEF OpenSession, Arrives
  <2>2. sent' = [sent EXCEPT ![s] = IF sent[s] = <<"open">> THEN <<>> ELSE <<"close">>]
    <3>1. sent' = [sent EXCEPT ![s] = Tail(sent[s])]
      BY <1>16 DEF OpenSession, Arrives
    <3>2. QED
      BY <2>1, <3>1, CallSequences
  <2>3. \A a \in Actor : table'[a] = table[a] \/ (a = name[s] /\ table'[a] = table[a] \cup {s})
    BY <1>16 DEF OpenSession, Arrives
  <2>4. sent[s] # <<>> /\ sent'[s] \in {<<>>, <<"close">>} /\ (pc[s] = "closing" => sent'[s] # <<>>)
    BY <2>1, <2>2, CallSequences
  <2>5. /\ UNCHANGED <<pc, name, handle, up>>
        /\ \A r \in Session \ {s} : sent'[r] = sent[r]
    BY <1>16 DEF OpenSession, Arrives
  <2>6. handle[s] /\ name[s] \in up /\ pc[s] \in {"opening", "unwinding", "closing", "ended"}
    BY <2>4
  <2>7. QED
    BY <2>3, <2>4, <2>5, <2>6
<1>17. ASSUME NEW s \in Session, CloseSession(s) PROVE TableInv'
  BY <1>17 DEF CloseSession, Arrives
<1>18. ASSUME NEW a \in Actor, Evict(a) PROVE TableInv'
  BY <1>18 DEF Evict, Dies, SP!Retire
<1>19. ASSUME NEW a \in Actor, Forget(a) PROVE TableInv'
  BY <1>19 DEF Forget, SP!Retire
<1>20. ASSUME NEW a \in Actor, ActorDies(a) PROVE TableInv'
  BY <1>20 DEF ActorDies, Dies
<1>21. ASSUME NEW m \in Model, RegisterAgain(m) PROVE TableInv'
  BY <1>21 DEF RegisterAgain
<1>22. CASE ReplaceRouter
  BY <1>22 DEF ReplaceRouter, SP!Restart
<1>23. CASE UNCHANGED vars
  BY <1>23 DEF vars
<1>24. QED
  BY <1>1, <1>2, <1>3, <1>4, <1>5, <1>6, <1>7, <1>8, <1>9, <1>10, <1>11, <1>12, <1>13,
     <1>14, <1>15, <1>16, <1>17, <1>18, <1>19, <1>20, <1>21, <1>22, <1>23
     DEF Next, Handler, RouterAnswers, ActorAnswers

(* Only a spawn gives out a name, and only one not given out before.       *)
LEMMA StartedPreserved == LifecycleInv /\ [Next]_vars => StartedInv'
<1> SUFFICES ASSUME LifecycleInv, [Next]_vars PROVE StartedInv'
  OBVIOUS
<1> USE Nulls, WantsAssumption
    DEF LifecycleInv, TypeOK, Point, HandlerInv, RouterCallsInv, StartedInv, Acquires,
        SP!Pool, pool, manifests, actors, gateway, Goto
<1>1. ASSUME NEW s \in Session, SetupEnds(s) PROVE StartedInv'
  BY <1>1 DEF SetupEnds
<1>2. ASSUME NEW s \in Session, CallAcquire(s) PROVE StartedInv'
  BY <1>2 DEF CallAcquire
<1>3. ASSUME NEW s \in Session, Introduce(s) PROVE StartedInv'
  BY <1>3 DEF Introduce
<1>4. ASSUME NEW s \in Session, CallOpen(s) PROVE StartedInv'
  BY <1>4 DEF CallOpen, CallActor
<1>5. ASSUME NEW s \in Session, OpenAnswered(s) PROVE StartedInv'
  BY <1>5 DEF OpenAnswered
<1>6. ASSUME NEW s \in Session, StreamOver(s) PROVE StartedInv'
  BY <1>6 DEF StreamOver
<1>7. ASSUME NEW s \in Session, CleanUp(s) PROVE StartedInv'
  BY <1>7 DEF CleanUp, CallActor
<1>8. ASSUME NEW s \in Session, CloseAnswered(s) PROVE StartedInv'
  BY <1>8 DEF CloseAnswered
<1>9. ASSUME NEW s \in Session, Cancel(s) PROVE StartedInv'
  BY <1>9 DEF Cancel
<1>10. ASSUME NEW s \in Session, LookUp(s) PROVE StartedInv'
  BY <1>10 DEF LookUp
<1>11. ASSUME NEW s \in Session, FetchReturns(s) PROVE StartedInv'
  BY <1>11 DEF FetchReturns
<1>12. ASSUME NEW s \in Session, NEW a \in Actor, Reuse(s, a) PROVE StartedInv'
  <2>1. UNCHANGED <<serves, limit, up>> /\ serves[a] # NoModel
    BY <1>12 DEF Reuse, SP!Join
  <2>2. \A r \in Session : name'[r] = name[r] \/ name'[r] = a
    BY <1>12 DEF Reuse, Reserve
  <2>3. QED
    BY <2>1, <2>2
<1>13. ASSUME NEW s \in Session, NEW a \in Actor, Spawn(s, a) PROVE StartedInv'
  BY <1>13 DEF Spawn, Reserve, SP!Provide
<1>14. ASSUME NEW s \in Session, AcquireRaises(s) PROVE StartedInv'
  BY <1>14 DEF AcquireRaises
<1>15. ASSUME NEW s \in Session, Release(s) PROVE StartedInv'
  BY <1>15 DEF Release
<1>16. ASSUME NEW s \in Session, OpenSession(s) PROVE StartedInv'
  BY <1>16 DEF OpenSession, Arrives
<1>17. ASSUME NEW s \in Session, CloseSession(s) PROVE StartedInv'
  BY <1>17 DEF CloseSession, Arrives
<1>18. ASSUME NEW a \in Actor, Evict(a) PROVE StartedInv'
  BY <1>18 DEF Evict, Dies, SP!Retire
<1>19. ASSUME NEW a \in Actor, Forget(a) PROVE StartedInv'
  BY <1>19 DEF Forget, SP!Retire
<1>20. ASSUME NEW a \in Actor, ActorDies(a) PROVE StartedInv'
  BY <1>20 DEF ActorDies, Dies
<1>21. ASSUME NEW m \in Model, RegisterAgain(m) PROVE StartedInv'
  BY <1>21 DEF RegisterAgain
<1>22. CASE ReplaceRouter
  BY <1>22 DEF ReplaceRouter, SP!Restart
<1>23. CASE UNCHANGED vars
  BY <1>23 DEF vars
<1>24. QED
  BY <1>1, <1>2, <1>3, <1>4, <1>5, <1>6, <1>7, <1>8, <1>9, <1>10, <1>11, <1>12, <1>13,
     <1>14, <1>15, <1>16, <1>17, <1>18, <1>19, <1>20, <1>21, <1>22, <1>23
     DEF Next, Handler, RouterAnswers, ActorAnswers

(* Nothing leaves an actor's claims for a place elsewhere, and an actor    *)
(* outside the pool never comes back: names are not used twice.            *)
LEMMA PlacementPreserved == LifecycleInv /\ [Next]_vars => PlacementInv'
<1> SUFFICES ASSUME LifecycleInv, [Next]_vars PROVE PlacementInv'
  OBVIOUS
<1> USE Nulls, WantsAssumption
    DEF LifecycleInv, TypeOK, Point, HandlerInv, RouterCallsInv, ActorCallsInv,
        TableInv, StartedInv, PlacementInv, Acquires, Claims, SP!Pool, SP!HoldersOf,
        pool, manifests, actors, gateway, Goto
<1>1. ASSUME NEW s \in Session, SetupEnds(s) PROVE PlacementInv'
  BY <1>1 DEF SetupEnds
<1>2. ASSUME NEW s \in Session, CallAcquire(s) PROVE PlacementInv'
  BY <1>2 DEF CallAcquire
<1>3. ASSUME NEW s \in Session, Introduce(s) PROVE PlacementInv'
  BY <1>3 DEF Introduce
<1>4. ASSUME NEW s \in Session, CallOpen(s) PROVE PlacementInv'
  BY <1>4 DEF CallOpen, CallActor
<1>5. ASSUME NEW s \in Session, OpenAnswered(s) PROVE PlacementInv'
  BY <1>5 DEF OpenAnswered
<1>6. ASSUME NEW s \in Session, StreamOver(s) PROVE PlacementInv'
  BY <1>6 DEF StreamOver
<1>7. ASSUME NEW s \in Session, CleanUp(s) PROVE PlacementInv'
  BY <1>7 DEF CleanUp, CallActor
<1>8. ASSUME NEW s \in Session, CloseAnswered(s) PROVE PlacementInv'
  BY <1>8 DEF CloseAnswered
<1>9. ASSUME NEW s \in Session, Cancel(s) PROVE PlacementInv'
  BY <1>9 DEF Cancel
<1>10. ASSUME NEW s \in Session, LookUp(s) PROVE PlacementInv'
  BY <1>10 DEF LookUp
<1>11. ASSUME NEW s \in Session, FetchReturns(s) PROVE PlacementInv'
  BY <1>11 DEF FetchReturns
<1>12. ASSUME NEW s \in Session, NEW a \in Actor, Reuse(s, a) PROVE PlacementInv'
  BY <1>12 DEF Reuse, Reserve, SP!Join
<1>13. ASSUME NEW s \in Session, NEW a \in Actor, Spawn(s, a) PROVE PlacementInv'
  BY <1>13 DEF Spawn, Reserve, SP!Provide
<1>14. ASSUME NEW s \in Session, AcquireRaises(s) PROVE PlacementInv'
  BY <1>14 DEF AcquireRaises
<1>15. ASSUME NEW s \in Session, Release(s) PROVE PlacementInv'
  BY <1>15 DEF Release
<1>16. ASSUME NEW s \in Session, OpenSession(s) PROVE PlacementInv'
  BY <1>16 DEF OpenSession, Arrives
<1>17. ASSUME NEW s \in Session, CloseSession(s) PROVE PlacementInv'
  BY <1>17 DEF CloseSession, Arrives
<1>18. ASSUME NEW a \in Actor, Evict(a) PROVE PlacementInv'
  BY <1>18 DEF Evict, Dies, SP!Retire
<1>19. ASSUME NEW a \in Actor, Forget(a) PROVE PlacementInv'
  BY <1>19 DEF Forget, SP!Retire
<1>20. ASSUME NEW a \in Actor, ActorDies(a) PROVE PlacementInv'
  BY <1>20 DEF ActorDies, Dies
<1>21. ASSUME NEW m \in Model, RegisterAgain(m) PROVE PlacementInv'
  BY <1>21 DEF RegisterAgain
<1>22. CASE ReplaceRouter
  BY <1>22 DEF ReplaceRouter, SP!Restart
<1>23. CASE UNCHANGED vars
  BY <1>23 DEF vars
<1>24. QED
  BY <1>1, <1>2, <1>3, <1>4, <1>5, <1>6, <1>7, <1>8, <1>9, <1>10, <1>11, <1>12, <1>13,
     <1>14, <1>15, <1>16, <1>17, <1>18, <1>19, <1>20, <1>21, <1>22, <1>23
     DEF Next, Handler, RouterAnswers, ActorAnswers

(* A handler ends after its release_session, or with nothing to release.   *)
LEMMA SlotsReturnedPreserved == LifecycleInv /\ [Next]_vars => SlotsReturned'
<1> SUFFICES ASSUME LifecycleInv, [Next]_vars PROVE SlotsReturned'
  OBVIOUS
<1> USE Nulls
    DEF LifecycleInv, TypeOK, Point, HandlerInv, RouterCallsInv, PlacementInv,
        SlotsReturned, Acquires, pool, manifests, actors, gateway, Goto
<1>1. ASSUME NEW s \in Session, SetupEnds(s) PROVE SlotsReturned'
  BY <1>1 DEF SetupEnds
<1>2. ASSUME NEW s \in Session, CallAcquire(s) PROVE SlotsReturned'
  BY <1>2 DEF CallAcquire
<1>3. ASSUME NEW s \in Session, Introduce(s) PROVE SlotsReturned'
  BY <1>3 DEF Introduce
<1>4. ASSUME NEW s \in Session, CallOpen(s) PROVE SlotsReturned'
  BY <1>4 DEF CallOpen, CallActor
<1>5. ASSUME NEW s \in Session, OpenAnswered(s) PROVE SlotsReturned'
  BY <1>5 DEF OpenAnswered
<1>6. ASSUME NEW s \in Session, StreamOver(s) PROVE SlotsReturned'
  BY <1>6 DEF StreamOver
<1>7. ASSUME NEW s \in Session, CleanUp(s) PROVE SlotsReturned'
  BY <1>7 DEF CleanUp, CallActor
<1>8. ASSUME NEW s \in Session, CloseAnswered(s) PROVE SlotsReturned'
  BY <1>8 DEF CloseAnswered
<1>9. ASSUME NEW s \in Session, Cancel(s) PROVE SlotsReturned'
  BY <1>9 DEF Cancel
<1>10. ASSUME NEW s \in Session, LookUp(s) PROVE SlotsReturned'
  BY <1>10 DEF LookUp
<1>11. ASSUME NEW s \in Session, FetchReturns(s) PROVE SlotsReturned'
  BY <1>11 DEF FetchReturns
<1>12. ASSUME NEW s \in Session, NEW a \in Actor, Reuse(s, a) PROVE SlotsReturned'
  BY <1>12 DEF Reuse, Reserve, SP!Join
<1>13. ASSUME NEW s \in Session, NEW a \in Actor, Spawn(s, a) PROVE SlotsReturned'
  BY <1>13 DEF Spawn, Reserve, SP!Provide
<1>14. ASSUME NEW s \in Session, AcquireRaises(s) PROVE SlotsReturned'
  BY <1>14 DEF AcquireRaises
<1>15. ASSUME NEW s \in Session, Release(s) PROVE SlotsReturned'
  BY <1>15 DEF Release
<1>16. ASSUME NEW s \in Session, OpenSession(s) PROVE SlotsReturned'
  BY <1>16 DEF OpenSession, Arrives
<1>17. ASSUME NEW s \in Session, CloseSession(s) PROVE SlotsReturned'
  BY <1>17 DEF CloseSession, Arrives
<1>18. ASSUME NEW a \in Actor, Evict(a) PROVE SlotsReturned'
  BY <1>18 DEF Evict, Dies, SP!Retire
<1>19. ASSUME NEW a \in Actor, Forget(a) PROVE SlotsReturned'
  BY <1>19 DEF Forget, SP!Retire
<1>20. ASSUME NEW a \in Actor, ActorDies(a) PROVE SlotsReturned'
  BY <1>20 DEF ActorDies, Dies
<1>21. ASSUME NEW m \in Model, RegisterAgain(m) PROVE SlotsReturned'
  BY <1>21 DEF RegisterAgain
<1>22. CASE ReplaceRouter
  BY <1>22 DEF ReplaceRouter, SP!Restart
<1>23. CASE UNCHANGED vars
  BY <1>23 DEF vars
<1>24. QED
  BY <1>1, <1>2, <1>3, <1>4, <1>5, <1>6, <1>7, <1>8, <1>9, <1>10, <1>11, <1>12, <1>13,
     <1>14, <1>15, <1>16, <1>17, <1>18, <1>19, <1>20, <1>21, <1>22, <1>23
     DEF Next, Handler, RouterAnswers, ActorAnswers

(* One manifest per model, from the registry's answer to the actor's       *)
(* limit: the cache is filled once, and no fetch overlaps a registration.  *)
LEMMA ManifestPreserved == RegisterAlone /\ LifecycleInv /\ [Next]_vars => ManifestInv'
<1> SUFFICES ASSUME RegisterAlone, LifecycleInv, [Next]_vars PROVE ManifestInv'
  OBVIOUS
<1> USE Nulls, WantsAssumption
    DEF LifecycleInv, TypeOK, Point, RouterCallsInv, StartedInv, ManifestInv,
        Acquires, SP!Pool, SP!HoldersOf, pool, manifests, actors, gateway, Goto
<1>1. ASSUME NEW s \in Session, SetupEnds(s) PROVE ManifestInv'
  BY <1>1 DEF SetupEnds
<1>2. ASSUME NEW s \in Session, CallAcquire(s) PROVE ManifestInv'
  BY <1>2 DEF CallAcquire
<1>3. ASSUME NEW s \in Session, Introduce(s) PROVE ManifestInv'
  BY <1>3 DEF Introduce
<1>4. ASSUME NEW s \in Session, CallOpen(s) PROVE ManifestInv'
  BY <1>4 DEF CallOpen, CallActor
<1>5. ASSUME NEW s \in Session, OpenAnswered(s) PROVE ManifestInv'
  BY <1>5 DEF OpenAnswered
<1>6. ASSUME NEW s \in Session, StreamOver(s) PROVE ManifestInv'
  BY <1>6 DEF StreamOver
<1>7. ASSUME NEW s \in Session, CleanUp(s) PROVE ManifestInv'
  BY <1>7 DEF CleanUp, CallActor
<1>8. ASSUME NEW s \in Session, CloseAnswered(s) PROVE ManifestInv'
  BY <1>8 DEF CloseAnswered
<1>9. ASSUME NEW s \in Session, Cancel(s) PROVE ManifestInv'
  BY <1>9 DEF Cancel
<1>10. ASSUME NEW s \in Session, LookUp(s) PROVE ManifestInv'
  BY <1>10 DEF LookUp
<1>11. ASSUME NEW s \in Session, FetchReturns(s) PROVE ManifestInv'
  BY <1>11 DEF FetchReturns
<1>12. ASSUME NEW s \in Session, NEW a \in Actor, Reuse(s, a) PROVE ManifestInv'
  BY <1>12 DEF Reuse, Reserve, SP!Join
<1>13. ASSUME NEW s \in Session, NEW a \in Actor, Spawn(s, a) PROVE ManifestInv'
  BY <1>13 DEF Spawn, Reserve, SP!Provide
<1>14. ASSUME NEW s \in Session, AcquireRaises(s) PROVE ManifestInv'
  BY <1>14 DEF AcquireRaises
<1>15. ASSUME NEW s \in Session, Release(s) PROVE ManifestInv'
  BY <1>15 DEF Release
<1>16. ASSUME NEW s \in Session, OpenSession(s) PROVE ManifestInv'
  BY <1>16 DEF OpenSession, Arrives
<1>17. ASSUME NEW s \in Session, CloseSession(s) PROVE ManifestInv'
  BY <1>17 DEF CloseSession, Arrives
<1>18. ASSUME NEW a \in Actor, Evict(a) PROVE ManifestInv'
  BY <1>18 DEF Evict, Dies, SP!Retire
<1>19. ASSUME NEW a \in Actor, Forget(a) PROVE ManifestInv'
  BY <1>19 DEF Forget, SP!Retire
<1>20. ASSUME NEW a \in Actor, ActorDies(a) PROVE ManifestInv'
  BY <1>20 DEF ActorDies, Dies
<1>21. ASSUME NEW m \in Model, RegisterAgain(m) PROVE ManifestInv'
  BY <1>21 DEF RegisterAgain
<1>22. CASE ReplaceRouter
  BY <1>22 DEF ReplaceRouter, SP!Restart
<1>23. CASE UNCHANGED vars
  BY <1>23 DEF vars
<1>24. QED
  BY <1>1, <1>2, <1>3, <1>4, <1>5, <1>6, <1>7, <1>8, <1>9, <1>10, <1>11, <1>12, <1>13,
     <1>14, <1>15, <1>16, <1>17, <1>18, <1>19, <1>20, <1>21, <1>22, <1>23
     DEF Next, Handler, RouterAnswers, ActorAnswers

-----------------------------------------------------------------------------
(* How the claims on an actor add up.                                      *)

(* An actor that loses claims or keeps them stays within its limit.        *)
LEMMA FewerClaims ==
    ASSUME TypeOK, StartedInv, ClaimsInv, NEW b \in Actor,
           Claims(b)' \subseteq Claims(b), limit'[b] = limit[b]
    PROVE  Cardinality(Claims(b)') <= 1 \/ Cardinality(Claims(b)') <= limit'[b]
<1>1. IsFiniteSet(Claims(b))
  BY FS_Subset, SessionsFinite DEF Claims
<1>2. IsFiniteSet(Claims(b)') /\ Cardinality(Claims(b)') <= Cardinality(Claims(b))
  BY <1>1, FS_Subset
<1>3. Cardinality(Claims(b)) \in Nat /\ Cardinality(Claims(b)') \in Nat
  BY <1>1, <1>2, FS_CardinalityType
<1>4. CASE limit[b] = NoManifest
  <2>1. Claims(b)' = {}
    BY <1>4, Nulls DEF StartedInv, Claims
  <2>2. QED
    BY <2>1, FS_EmptySet
<1>5. CASE limit[b] # NoManifest
  <2>1. limit[b] \in Int
    BY <1>5, SlotsAssumption DEF TypeOK
  <2>2. QED
    BY <1>2, <1>3, <2>1 DEF ClaimsInv
<1>6. QED
  BY <1>4, <1>5

(* A placement adds one claim to those the router counted.                 *)
LEMMA OneMoreClaim ==
    ASSUME NEW b \in Actor, NEW s \in Session, NEW S \in SUBSET Session,
           Claims(b)' \subseteq S \cup {s}
    PROVE  Cardinality(Claims(b)') <= Cardinality(S) + 1
<1>1. IsFiniteSet(S) /\ Cardinality(S) \in Nat
  BY FS_Subset, SessionsFinite, FS_CardinalityType
<1>2. IsFiniteSet(S \cup {s}) /\ Cardinality(S \cup {s}) <= Cardinality(S) + 1
  BY <1>1, FS_AddElement
<1>3. Cardinality(Claims(b)') <= Cardinality(S \cup {s})
  BY <1>2, FS_Subset
<1>4. QED
  BY <1>1, <1>2, <1>3, FS_CardinalityType, FS_Subset

(* Only a placement adds a claim, and only below the limit the actor was   *)
(* started with.                                                           *)
LEMMA ClaimsPreserved == RegisterAlone /\ LifecycleInv /\ [Next]_vars => ClaimsInv'
<1> SUFFICES ASSUME RegisterAlone, LifecycleInv, ManifestInv, ClaimsInv, [Next]_vars PROVE ClaimsInv'
  BY DEF LifecycleInv
<1>a. ASSUME \A b \in Actor : Claims(b)' \subseteq Claims(b), limit' = limit PROVE ClaimsInv'
  BY <1>a, FewerClaims DEF LifecycleInv, ClaimsInv
<1> USE Nulls
    DEF LifecycleInv, TypeOK, Point, StartedInv, pool, manifests, actors, gateway,
        Goto
<1>1. ASSUME NEW s \in Session, SetupEnds(s) PROVE ClaimsInv'
  BY <1>1, <1>a DEF SetupEnds, Claims
<1>2. ASSUME NEW s \in Session, CallAcquire(s) PROVE ClaimsInv'
  BY <1>2, <1>a DEF CallAcquire, Claims
<1>3. ASSUME NEW s \in Session, Introduce(s) PROVE ClaimsInv'
  BY <1>3, <1>a DEF Introduce, Claims
<1>4. ASSUME NEW s \in Session, CallOpen(s) PROVE ClaimsInv'
  BY <1>4, <1>a DEF CallOpen, CallActor, Claims
<1>5. ASSUME NEW s \in Session, OpenAnswered(s) PROVE ClaimsInv'
  BY <1>5, <1>a DEF OpenAnswered, Claims
<1>6. ASSUME NEW s \in Session, StreamOver(s) PROVE ClaimsInv'
  BY <1>6, <1>a DEF StreamOver, Claims
<1>7. ASSUME NEW s \in Session, CleanUp(s) PROVE ClaimsInv'
  BY <1>7, <1>a DEF CleanUp, CallActor, Claims
<1>8. ASSUME NEW s \in Session, CloseAnswered(s) PROVE ClaimsInv'
  BY <1>8, <1>a DEF CloseAnswered, Claims
<1>9. ASSUME NEW s \in Session, Cancel(s) PROVE ClaimsInv'
  BY <1>9, <1>a DEF Cancel, Claims
<1>10. ASSUME NEW s \in Session, LookUp(s) PROVE ClaimsInv'
  BY <1>10, <1>a DEF LookUp, Claims
<1>11. ASSUME NEW s \in Session, FetchReturns(s) PROVE ClaimsInv'
  BY <1>11, <1>a DEF FetchReturns, Claims
<1>12. ASSUME NEW s \in Session, NEW a \in Actor, Reuse(s, a) PROVE ClaimsInv'
  <2>1. /\ a \in SP!Pool /\ serves[a] = Wants[s] /\ atRouter[s] = "placing"
        /\ limit' = limit
        /\ Cardinality(SP!HoldersOf(a)) < manifest[s]
    BY <1>12, <1>a DEF Reuse, Reserve, SP!Join, Claims
  <2>2. Claims(a)' \subseteq SP!HoldersOf(a) \cup {s}
    BY <1>12, <2>1 DEF Reuse, Reserve, Claims, PlacementInv
  <2>3. \A b \in Actor \ {a} : Claims(b)' \subseteq Claims(b)
    BY <1>12 DEF Reuse, Reserve, Claims
  <2>4. limit[a] = manifest[s]
    BY <2>1 DEF ManifestInv
  <2>5. limit[a] \in Int
    BY <2>1, <2>4, SlotsAssumption DEF TypeOK, RouterCallsInv
  <2>6. Cardinality(Claims(a)') <= Cardinality(SP!HoldersOf(a)) + 1
    BY <2>2, OneMoreClaim DEF SP!HoldersOf
  <2>7. Cardinality(Claims(a)') \in Nat /\ Cardinality(SP!HoldersOf(a)) \in Nat
    BY <2>2, SessionsFinite, FS_Subset, FS_CardinalityType DEF Claims, SP!HoldersOf
  <2>8. Cardinality(Claims(a)') <= limit'[a]
    BY <2>1, <2>4, <2>5, <2>6, <2>7
  <2>9. QED
    BY <2>1, <2>3, <2>8, FewerClaims DEF ClaimsInv
<1>13. ASSUME NEW s \in Session, NEW a \in Actor, Spawn(s, a) PROVE ClaimsInv'
  <2>1. limit[a] = NoManifest
    BY <1>13 DEF Spawn
  <2>2. Claims(a)' \subseteq {} \cup {s}
    BY <1>13, <2>1 DEF Spawn, Reserve, Claims, StartedInv
  <2>3. Cardinality(Claims(a)') <= 1
    BY <2>2, OneMoreClaim, FS_EmptySet
  <2>4. \A b \in Actor \ {a} : Claims(b)' \subseteq Claims(b) /\ limit'[b] = limit[b]
    BY <1>13 DEF Spawn, Reserve, Claims
  <2>5. QED
    BY <2>3, <2>4, FewerClaims DEF ClaimsInv
<1>14. ASSUME NEW s \in Session, AcquireRaises(s) PROVE ClaimsInv'
  BY <1>14, <1>a DEF AcquireRaises, Claims
<1>15. ASSUME NEW s \in Session, Release(s) PROVE ClaimsInv'
  BY <1>15, <1>a DEF Release, Claims
<1>16. ASSUME NEW s \in Session, OpenSession(s) PROVE ClaimsInv'
  BY <1>16, <1>a DEF OpenSession, Arrives, Claims
<1>17. ASSUME NEW s \in Session, CloseSession(s) PROVE ClaimsInv'
  BY <1>17, <1>a DEF CloseSession, Arrives, Claims
<1>18. ASSUME NEW a \in Actor, Evict(a) PROVE ClaimsInv'
  BY <1>18, <1>a DEF Evict, Dies, SP!Retire, Claims
<1>19. ASSUME NEW a \in Actor, Forget(a) PROVE ClaimsInv'
  BY <1>19, <1>a DEF Forget, SP!Retire, Claims
<1>20. ASSUME NEW a \in Actor, ActorDies(a) PROVE ClaimsInv'
  BY <1>20, <1>a DEF ActorDies, Dies, Claims
<1>21. ASSUME NEW m \in Model, RegisterAgain(m) PROVE ClaimsInv'
  BY <1>21, <1>a DEF RegisterAgain, Claims
<1>22. CASE ReplaceRouter
  BY <1>22, <1>a DEF Claims, ReplaceRouter, SP!Restart
<1>23. CASE UNCHANGED vars
  BY <1>23, <1>a DEF Claims, vars
<1>24. QED
  BY <1>1, <1>2, <1>3, <1>4, <1>5, <1>6, <1>7, <1>8, <1>9, <1>10, <1>11, <1>12, <1>13,
     <1>14, <1>15, <1>16, <1>17, <1>18, <1>19, <1>20, <1>21, <1>22, <1>23
     DEF Next, Handler, RouterAnswers, ActorAnswers

-----------------------------------------------------------------------------
(* The invariant and what follows from it.                                 *)

LEMMA InvInit == Init => LifecycleInv
<1> SUFFICES ASSUME Init PROVE LifecycleInv
  OBVIOUS
<1> USE Nulls DEF Init, SP!Init
<1>1. TypeOK
  BY DEF TypeOK, Point
<1>2. HandlerInv /\ RouterCallsInv /\ ActorCallsInv /\ TableInv
  BY DEF HandlerInv, RouterCallsInv, ActorCallsInv, TableInv, Acquires
<1>3. StartedInv /\ PlacementInv /\ SlotsReturned /\ ManifestInv
  BY DEF StartedInv, PlacementInv, SlotsReturned, ManifestInv, Claims, SP!Pool
<1>4. ClaimsInv
  <2>1. \A a \in Actor : Claims(a) = {}
    BY DEF Claims
  <2>2. \A a \in Actor : Cardinality(Claims(a)) = 0
    BY <2>1, FS_EmptySet
  <2>3. QED
    BY <2>2 DEF ClaimsInv
<1>5. QED
  BY <1>1, <1>2, <1>3, <1>4 DEF LifecycleInv

LEMMA InvPreserved == LifecycleInv /\ [Next]_vars => LifecycleInv'
<1> SUFFICES ASSUME LifecycleInv, [Next]_vars PROVE LifecycleInv'
  OBVIOUS
<1>1. RegisterAlone => ManifestInv' /\ ClaimsInv'
  BY ManifestPreserved, ClaimsPreserved
<1>2. QED
  BY <1>1, TypePreserved, HandlerPreserved, RouterCallsPreserved, ActorCallsPreserved,
     TablePreserved, StartedPreserved, PlacementPreserved, SlotsReturnedPreserved
     DEF LifecycleInv

(* The invariant that the properties of the streams follow from holds of   *)
(* every number of streams, actors and models, and of every manifest.      *)
THEOREM LifecycleInvariant == Spec => []LifecycleInv
BY InvInit, InvPreserved, PTL DEF Spec

(* Every variable keeps its type; of an actor at most two calls of one     *)
(* stream are under way, open_session before close_session.                *)
THEOREM LifecycleTypes == Spec => []TypeOK
<1>1. LifecycleInv => TypeOK
  BY DEF LifecycleInv
<1>2. QED
  BY <1>1, LifecycleInvariant, PTL

(* A session in the table of an actor the router knows is placed on it: no *)
(* cancellation, death, eviction or restart lets an actor work for a       *)
(* stream whose slot the router has given away.                            *)
THEOREM OpenSessionsArePlaced == Spec => []OpenIsPlaced
<1>1. LifecycleInv => OpenIsPlaced
  <2> SUFFICES ASSUME LifecycleInv, NEW a \in SP!Pool, NEW s \in table[a]
               PROVE  s \in SP!HoldersOf(a)
    BY DEF OpenIsPlaced
  <2>1. a \in Actor /\ s \in Session
    BY DEF SP!Pool, LifecycleInv, TypeOK
  <2>2. s \in Claims(a)
    BY <2>1 DEF LifecycleInv, TableInv, Claims
  <2>3. QED
    BY <2>2 DEF LifecycleInv, PlacementInv
<1>2. QED
  BY <1>1, LifecycleInvariant, PTL

(* A stream that has ended with no call under way holds no slot, unless it *)
(* was cancelled in an await its clean-up needs.                           *)
THEOREM StreamsReturnSlots == Spec => []SlotsReturned
<1>1. LifecycleInv => SlotsReturned
  BY DEF LifecycleInv
<1>2. QED
  BY <1>1, LifecycleInvariant, PTL

(* No actor answers open_session of a stream the router has sent to it     *)
(* with "actor at capacity", whatever models are registered anew with,     *)
(* provided that none is while the router fetches its manifest.            *)
THEOREM PlacedNeverRefused == ASSUME RegisterAlone PROVE Spec => []NeverRefused
<1>1. LifecycleInv => NeverRefused
  <2> SUFFICES ASSUME LifecycleInv, NEW s \in Session, sent[s] # <<>>,
                      Head(sent[s]) = "open", name[s] \in up
               PROVE  Room(name[s])
    BY DEF NeverRefused
  <2> DEFINE a == name[s]
  <2>1. a \in Actor /\ table[a] \subseteq Session
    BY DEF LifecycleInv, TypeOK
  <2>2. s \notin table[a] /\ s \in Claims(a)
    BY <2>1, CallSequences DEF LifecycleInv, TableInv, Claims
  <2>3. table[a] \subseteq Claims(a) \ {s}
    BY <2>1, <2>2 DEF LifecycleInv, TableInv, Claims
  <2>4. IsFiniteSet(Claims(a)) /\ Cardinality(Claims(a)) \in Nat
    BY FS_Subset, FS_CardinalityType, SessionsFinite DEF Claims
  <2>5. /\ IsFiniteSet(Claims(a) \ {s})
        /\ Cardinality(Claims(a) \ {s}) = Cardinality(Claims(a)) - 1
    BY <2>2, <2>4, FS_RemoveElement
  <2>6. /\ Cardinality(table[a]) \in Nat
        /\ Cardinality(table[a]) <= Cardinality(Claims(a)) - 1
    BY <2>3, <2>5, FS_Subset, FS_CardinalityType
  <2>7. limit[a] \in Int
    BY <2>1, Nulls, SlotsAssumption DEF LifecycleInv, TypeOK, StartedInv
  <2>8. Cardinality(Claims(a)) <= 1 \/ Cardinality(Claims(a)) <= limit[a]
    BY <2>1 DEF LifecycleInv, ClaimsInv
  <2>9. QED
    BY <2>4, <2>6, <2>7, <2>8 DEF Room
<1>2. QED
  BY <1>1, LifecycleInvariant, PTL

(* The router evicts no actor that a stream works with, from its placement *)
(* to the answer of its close_session.                                     *)
THEOREM EvictionSparesTheUsed == Spec => EvictionSparesStreams
<1> DEFINE Spares == \A a \in Actor :
               serves[a] # NoModel /\ serves'[a] = NoModel /\ a \in up \ up' =>
                   \A s \in Session : ~UsesActor(s, a)
<1>1. ASSUME LifecycleInv, [Next]_vars PROVE Spares
  <2> SUFFICES ASSUME NEW a \in Actor, serves[a] # NoModel, serves'[a] = NoModel, a \in up \ up'
               PROVE  \A s \in Session : ~UsesActor(s, a)
    OBVIOUS
  <2>1. SP!HoldersOf(a) = {}
    <3>1. ASSUME NEW s \in Session, Handler(s) \/ Cancel(s) \/ ActorAnswers(s) PROVE FALSE
      BY <3>1
         DEF Handler, SetupEnds, CallAcquire, Introduce, CallOpen, OpenAnswered,
             StreamOver,
                  CleanUp, CloseAnswered, Cancel, ActorAnswers, OpenSession, CloseSession,
                  Arrives, pool, actors
    <3>2. ASSUME NEW s \in Session, RouterAnswers(s) PROVE FALSE
      BY <3>2
         DEF RouterAnswers, LookUp, FetchReturns, Reuse, Spawn, AcquireRaises,
             Release,
                  pool, actors
    <3>3. ASSUME NEW b \in Actor, Evict(b) PROVE SP!HoldersOf(a) = {}
      BY <3>3 DEF Evict, Dies, SP!Retire
    <3>4. ASSUME NEW b \in Actor, Forget(b) \/ ActorDies(b) PROVE FALSE
      BY <3>4 DEF Forget, ActorDies, pool, actors
    <3>5. ASSUME NEW m \in Model, RegisterAgain(m) PROVE FALSE
      BY <3>5 DEF RegisterAgain, pool
    <3>6. CASE ReplaceRouter
      BY <3>6 DEF ReplaceRouter, actors
    <3>7. CASE UNCHANGED vars
      BY <3>7 DEF vars, pool
    <3>8. QED
      BY <1>1, <3>1, <3>2, <3>3, <3>4, <3>5, <3>6, <3>7 DEF Next
  <2>2. \A s \in Session : s \notin Claims(a)
    BY <1>1, <2>1 DEF LifecycleInv, PlacementInv, SP!Pool
  <2>3. QED
    BY <2>2 DEF Claims, UsesActor
<1>2. QED
  BY <1>1, LifecycleInvariant, PTL DEF Spec, EvictionSparesStreams

-----------------------------------------------------------------------------
(* The router of SessionLifecycle is a session pool whose actors serve up  *)
(* to C sessions, if no manifest admits more.                              *)

Bounded(C) == INSTANCE SessionPool WITH Capacity <- [m \in Model |-> C]

LEMMA PoolInit == ASSUME NEW C PROVE Init => Bounded(C)!Init
  BY DEF Init, SP!Init, Bounded!Init

LEMMA PoolStep ==
    ASSUME NEW C \in Int, \A k \in Slots : k <= C, LifecycleInv, [Next]_vars
    PROVE  [Bounded(C)!Next]_(Bounded(C)!poolVars)
<1> DEFINE Stays == UNCHANGED pool
<1> USE DEF pool
<1>1. ASSUME NEW s \in Session, Handler(s) \/ Cancel(s) \/ ActorAnswers(s) PROVE Stays
  BY <1>1
     DEF Handler, SetupEnds, CallAcquire, Introduce, CallOpen, OpenAnswered, StreamOver,
         CleanUp, CloseAnswered, Cancel, ActorAnswers, OpenSession, CloseSession, Arrives
<1>2. ASSUME NEW s \in Session, LookUp(s) \/ FetchReturns(s) \/ AcquireRaises(s) PROVE Stays
  BY <1>2 DEF LookUp, FetchReturns, AcquireRaises
<1>3. ASSUME NEW s \in Session, NEW a \in Actor, Reuse(s, a) PROVE Bounded(C)!Join(s, a)
  <2>1. manifest[s] \in Int /\ manifest[s] <= C
    BY <1>3, Nulls, SlotsAssumption DEF Reuse, Reserve, LifecycleInv, TypeOK, RouterCallsInv
  <2>2. serves[a] \in Model /\ Cardinality(SP!HoldersOf(a)) < manifest[s]
    BY <1>3, WantsAssumption DEF Reuse
  <2>3. SP!HoldersOf(a) = Bounded(C)!HoldersOf(a) /\ SP!Pool = Bounded(C)!Pool
    BY DEF SP!HoldersOf, Bounded!HoldersOf, SP!Pool, Bounded!Pool
  <2>4. Cardinality(SP!HoldersOf(a)) \in Nat
    <3>1. IsFiniteSet(SP!HoldersOf(a))
      BY SessionsFinite, FS_Subset DEF SP!HoldersOf
    <3>2. QED
      BY <3>1, FS_CardinalityType
  <2>5. Cardinality(SP!HoldersOf(a)) < C
    BY <2>1, <2>2, <2>4
  <2>6. Bounded(C)!Cardinality(SP!HoldersOf(a)) = Cardinality(SP!HoldersOf(a))
    BY DEF Bounded!Cardinality, Cardinality
  <2>7. holder[s] = NoActor /\ a \in SP!Pool /\ holder' = [holder EXCEPT ![s] = a] /\ UNCHANGED serves
    BY <1>3 DEF Reuse, SP!Join
  <2>8. [m \in Model |-> C][serves[a]] = C
    BY <2>2
  <2>9. QED
    BY <2>3, <2>5, <2>6, <2>7, <2>8 DEF Bounded!Join
<1>4. ASSUME NEW s \in Session, NEW a \in Actor, Spawn(s, a)
      PROVE  \E m \in Model : Bounded(C)!Provide(s, a, m)
  BY <1>4, WantsAssumption
     DEF Spawn, SP!Provide, Bounded!Provide, SP!Pool, Bounded!Pool, SP!HoldersOf, Bounded!HoldersOf
<1>5. ASSUME NEW s \in Session, Release(s) PROVE Bounded(C)!Leave(s) \/ Stays
  BY <1>5 DEF Release, Bounded!Leave, pool, LifecycleInv, TypeOK
<1>6. ASSUME NEW a \in Actor, Evict(a) \/ Forget(a)
      PROVE  \E A \in SUBSET Bounded(C)!Pool : Bounded(C)!Retire(A)
  <2>1. a \in SP!Pool /\ SP!Retire({a})
    BY <1>6 DEF Evict, Forget
  <2>2. {a} \in SUBSET Bounded(C)!Pool /\ Bounded(C)!Retire({a})
    BY <2>1 DEF SP!Pool, Bounded!Pool, SP!Retire, Bounded!Retire, SP!HoldersOf, Bounded!HoldersOf
  <2>3. QED
    BY <2>2
<1>7. ASSUME NEW a \in Actor, ActorDies(a) PROVE Stays
  BY <1>7 DEF ActorDies
<1>8. ASSUME NEW m \in Model, RegisterAgain(m) PROVE Stays
  BY <1>8 DEF RegisterAgain
<1>9. CASE ReplaceRouter
  <2>1. Bounded(C)!Restart
    BY <1>9 DEF ReplaceRouter, SP!Restart, Bounded!Restart
  <2>2. QED
    BY <2>1 DEF Bounded!Next
<1>10. ASSUME Stays PROVE UNCHANGED Bounded(C)!poolVars
  BY <1>10 DEF pool, Bounded!poolVars
<1>11. CASE UNCHANGED vars
  BY <1>10, <1>11 DEF vars
<1>12. CASE \E s \in Session : RouterAnswers(s)
  <2> HIDE DEF Stays
  <2>1. PICK s \in Session : RouterAnswers(s)
    BY <1>12
  <2>2. \/ Stays \/ Bounded(C)!Leave(s)
        \/ \E a \in Actor : Bounded(C)!Join(s, a) \/ \E m \in Model : Bounded(C)!Provide(s, a, m)
    BY <1>2, <1>3, <1>4, <1>5, <2>1 DEF RouterAnswers
  <2>3. QED
    BY <1>10, <2>2 DEF Bounded!Next
<1>13. CASE \E s \in Session : Handler(s) \/ Cancel(s) \/ ActorAnswers(s)
  BY <1>1, <1>10, <1>13
<1>14. CASE \E a \in Actor : Evict(a) \/ Forget(a) \/ ActorDies(a)
  <2>1. CASE \E a \in Actor : ActorDies(a)
    BY <1>7, <1>10, <2>1
  <2>2. CASE \E a \in Actor : Evict(a) \/ Forget(a)
    BY <1>6, <2>2 DEF Bounded!Next
  <2>3. QED
    BY <1>14, <2>1, <2>2
<1>15. CASE \E m \in Model : RegisterAgain(m)
  BY <1>8, <1>10, <1>15
<1>16. QED
  BY <1>9, <1>11, <1>12, <1>13, <1>14, <1>15 DEF Next

(* What the streams see of the router is a session pool, whatever is       *)
(* registered anew: no actor is ever given more sessions than the largest  *)
(* number of slots a manifest admits, and actors leave only when empty.    *)
(* MasterRouter implements the same module.                                *)
THEOREM LifecycleImplementsPool ==
    ASSUME NEW C \in Int, \A k \in Slots : k <= C
    PROVE  Spec => Bounded(C)!Spec
<1>1. Init => Bounded(C)!Init
  BY PoolInit
<1>2. LifecycleInv /\ [Next]_vars => [Bounded(C)!Next]_(Bounded(C)!poolVars)
  BY PoolStep
<1>3. QED
  BY <1>1, <1>2, LifecycleInvariant, PTL DEF Spec, Bounded!Spec

=============================================================================
