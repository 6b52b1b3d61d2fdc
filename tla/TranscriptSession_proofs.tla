---------------------- MODULE TranscriptSession_proofs ----------------------
(***************************************************************************)
(* Proofs about TranscriptSession for every value of its constants.        *)
(*                                                                         *)
(* SessionInv is inductive; the safety properties follow from it.          *)
(***************************************************************************)
EXTENDS TranscriptSession, SequenceTheorems, TLAPS

-----------------------------------------------------------------------------
(* Queues that gain an item at their end and lose the one at their head.   *)

Gains(q, r, x) ==
    /\ Len(r) = Len(q) + 1
    /\ \A i \in 1..Len(q) : r[i] = q[i]
    /\ r[Len(q) + 1] = x
Loses(q, r) ==
    /\ Len(q) = Len(r) + 1
    /\ \A i \in 1..Len(r) : r[i] = q[i + 1]

LEMMA AppendGains ==
    ASSUME NEW S, NEW q \in Seq(S), NEW x \in S
    PROVE  Append(q, x) \in Seq(S) /\ Gains(q, Append(q, x), x)
<1>1. Append(q, x) \in Seq(S)
  BY AppendProperties
<1>2. Len(Append(q, x)) = Len(q) + 1
  BY AppendProperties
<1>3. \A i \in 1..Len(q) : Append(q, x)[i] = q[i]
  BY AppendProperties
<1>4. Append(q, x)[Len(q) + 1] = x
  BY AppendProperties
<1>5. QED
  BY <1>1, <1>2, <1>3, <1>4 DEF Gains

LEMMA TailLoses ==
    ASSUME NEW S, NEW q \in Seq(S), q # <<>>
    PROVE  Head(q) = q[1] /\ Head(q) \in S /\ Tail(q) \in Seq(S) /\ Loses(q, Tail(q))
<1>1. Head(q) = q[1] /\ Head(q) \in S
  BY HeadTailProperties
<1>2. Tail(q) \in Seq(S)
  BY HeadTailProperties
<1>3. Len(Tail(q)) = Len(q) - 1 /\ Len(q) \in Nat
  BY HeadTailProperties, LenProperties
<1>4. \A i \in 1..Len(Tail(q)) : Tail(q)[i] = q[i + 1]
  BY HeadTailProperties
<1>5. QED
  BY <1>1, <1>2, <1>3, <1>4 DEF Loses

(* PutNowait never takes a queue beyond its size.                          *)
LEMMA PutNowaitBounds ==
    ASSUME NEW S, NEW q \in Seq(S), NEW x \in S, NEW cap \in Nat, Len(q) <= cap
    PROVE  /\ PutNowait(q, x, cap) \in Seq(S)
           /\ Len(PutNowait(q, x, cap)) <= cap
           /\ PutNowait(q, x, cap) = q \/ Gains(q, PutNowait(q, x, cap), x)
<1>1. CASE Len(q) < cap
  <2>1. PutNowait(q, x, cap) = Append(q, x)
    BY <1>1 DEF PutNowait
  <2>2. Append(q, x) \in Seq(S) /\ Gains(q, Append(q, x), x)
    BY AppendGains
  <2>3. Len(q) \in Nat
    BY LenProperties
  <2>4. QED
    BY <1>1, <2>1, <2>2, <2>3 DEF Gains
<1>2. CASE ~(Len(q) < cap)
  BY <1>2 DEF PutNowait
<1>3. QED
  BY <1>1, <1>2

(* What a queue that gains an item holds, and one that loses its head.     *)
LEMMA GainsOccurs ==
    ASSUME NEW S, NEW q \in Seq(S), NEW r \in Seq(S), NEW x, Gains(q, r, x), NEW k
    PROVE  Occurs(k, r) <=> Occurs(k, q) \/ k = x
<1>1. Len(q) \in Nat
  BY LenProperties
<1>2. QED
  BY <1>1 DEF Gains, Occurs

LEMMA LosesOccurs ==
    ASSUME NEW S, NEW q \in Seq(S), NEW r \in Seq(S), Loses(q, r), NEW k
    PROVE  Occurs(k, q) <=> Occurs(k, r) \/ k = q[1]
<1>1. Len(q) \in Nat /\ Len(r) \in Nat
  BY LenProperties
<1>2. ASSUME NEW i \in 1..Len(q), i # 1 PROVE i - 1 \in 1..Len(r) /\ r[i - 1] = q[i]
  BY <1>1, <1>2 DEF Loses
<1>3. ASSUME NEW i \in 1..Len(r) PROVE i + 1 \in 1..Len(q) /\ r[i] = q[i + 1]
  BY <1>1, <1>3 DEF Loses
<1>4. 1 \in 1..Len(q)
  BY <1>1 DEF Loses
<1>5. QED
  BY <1>2, <1>3, <1>4 DEF Occurs

(* A result that lands is behind all others.                               *)
LEMMA FlowGrows ==
    ASSUME NEW p \in Seq(Item), NEW q \in Seq(Item), NEW r \in Seq(Item),
           NEW x \in Item, NEW old, NEW new,
           Flow(p, q, old), Gains(q, r, x),
           x \in Result => \A k \in Result \cap old : k < x,
           \A k \in Result : k \in new <=> k \in old \/ k = x
    PROVE  Flow(p, r, new)
<1>1. Len(p) \in Nat /\ Len(q) \in Nat
  BY LenProperties
<1>2. \A k \in Result : Occurs(k, p) \/ Occurs(k, r) <=> k \in new
  BY GainsOccurs DEF Flow
<1>3. Increasing(r)
  <2> SUFFICES ASSUME NEW i \in 1..Len(r), NEW j \in 1..Len(r), i < j,
                      r[i] \in Result, r[j] \in Result
               PROVE  r[i] < r[j]
    BY DEF Increasing
  <2>1. i \in 1..Len(q) /\ r[i] = q[i]
    BY <1>1 DEF Gains
  <2>2. CASE j = Len(q) + 1
    <3>1. r[j] = x
      BY <2>2 DEF Gains
    <3>2. Occurs(q[i], q)
      BY <2>1 DEF Occurs
    <3>3. QED
      BY <2>1, <3>1, <3>2 DEF Flow
  <2>3. CASE j # Len(q) + 1
    <3>1. j \in 1..Len(q) /\ r[j] = q[j]
      BY <1>1, <2>3 DEF Gains
    <3>2. QED
      BY <2>1, <3>1 DEF Flow, Increasing
  <2>4. QED
    BY <2>2, <2>3
<1>4. \A i \in 1..Len(p), j \in 1..Len(r) :
          p[i] \in Result /\ r[j] \in Result => p[i] < r[j]
  <2> SUFFICES ASSUME NEW i \in 1..Len(p), NEW j \in 1..Len(r),
                      p[i] \in Result, r[j] \in Result
               PROVE  p[i] < r[j]
    OBVIOUS
  <2>1. CASE j = Len(q) + 1
    <3>1. r[j] = x
      BY <2>1 DEF Gains
    <3>2. Occurs(p[i], p)
      BY DEF Occurs
    <3>3. QED
      BY <3>1, <3>2 DEF Flow
  <2>2. CASE j # Len(q) + 1
    <3>1. j \in 1..Len(q) /\ r[j] = q[j]
      BY <1>1, <2>2 DEF Gains
    <3>2. QED
      BY <3>1 DEF Flow
  <2>3. QED
    BY <2>1, <2>2
<1>5. QED
  BY <1>2, <1>3, <1>4 DEF Flow

(* Handing the first result over keeps the flow.                           *)
LEMMA FlowMoves ==
    ASSUME NEW p \in Seq(Item), NEW q \in Seq(Item), NEW s \in Seq(Item), NEW r \in Seq(Item),
           NEW landed, Flow(p, q, landed), Gains(p, s, q[1]), Loses(q, r)
    PROVE  Flow(s, r, landed)
<1>1. Len(p) \in Nat /\ Len(q) \in Nat /\ Len(r) \in Nat
  BY LenProperties
<1>2. \A k \in Result : Occurs(k, s) \/ Occurs(k, r) <=> k \in landed
  BY GainsOccurs, LosesOccurs DEF Flow
<1>a. 1 \in 1..Len(q) /\ \A j \in 1..Len(r) : j + 1 \in 1..Len(q) /\ r[j] = q[j + 1]
  BY <1>1 DEF Loses
<1>b. \A i \in 1..Len(s) : (i \in 1..Len(p) /\ s[i] = p[i]) \/ (i = Len(p) + 1 /\ s[i] = q[1])
  BY <1>1 DEF Gains
<1>3. Increasing(s)
  <2> SUFFICES ASSUME NEW i \in 1..Len(s), NEW j \in 1..Len(s), i < j,
                      s[i] \in Result, s[j] \in Result
               PROVE  s[i] < s[j]
    BY DEF Increasing
  <2>1. i \in 1..Len(p) /\ s[i] = p[i]
    BY <1>1 DEF Gains
  <2>2. CASE j = Len(p) + 1
    BY <1>a, <2>1, <2>2 DEF Flow, Gains
  <2>3. CASE j \in 1..Len(p)
    BY <2>1, <2>3 DEF Flow, Gains, Increasing
  <2>4. QED
    BY <1>b, <2>2, <2>3
<1>4. Increasing(r)
  BY <1>1, <1>a DEF Flow, Increasing
<1>5. \A i \in 1..Len(s), j \in 1..Len(r) :
          s[i] \in Result /\ r[j] \in Result => s[i] < r[j]
  <2> SUFFICES ASSUME NEW i \in 1..Len(s), NEW j \in 1..Len(r),
                      s[i] \in Result, r[j] \in Result
               PROVE  s[i] < r[j]
    OBVIOUS
  <2>1. CASE i \in 1..Len(p) /\ s[i] = p[i]
    BY <1>a, <2>1 DEF Flow
  <2>2. CASE i = Len(p) + 1 /\ s[i] = q[1]
    <3>1. 1 < j + 1
      BY <1>1
    <3>2. QED
      BY <1>a, <2>2, <3>1 DEF Flow, Increasing
  <2>3. QED
    BY <1>b, <2>1, <2>2
<1>6. QED
  BY <1>2, <1>3, <1>4, <1>5 DEF Flow

(* So does an end that is handed over out of turn.                         *)
LEMMA FlowEnds ==
    ASSUME NEW p \in Seq(Item), NEW q \in Seq(Item), NEW s \in Seq(Item),
           NEW landed, Flow(p, q, landed), Gains(p, s, End)
    PROVE  Flow(s, q, landed)
<1>1. Len(p) \in Nat
  BY LenProperties
<1>2. End \notin Result
  BY Sentinels DEF Result
<1>3. \A k \in Result : Occurs(k, s) <=> Occurs(k, p)
  BY <1>2, GainsOccurs
<1>4. \A i \in 1..Len(s) : s[i] \in Result => i \in 1..Len(p) /\ s[i] = p[i]
  BY <1>1, <1>2 DEF Gains
<1>5. QED
  BY <1>3, <1>4 DEF Flow, Increasing

-----------------------------------------------------------------------------
(* The parts of SessionInv are preserved, with one step per action.        *)

LEMMA StopInputBounds ==
    ASSUME TypeOK, StopInput
    PROVE  audioIn' \in Seq(1..MaxChunk \cup {End}) /\ Len(audioIn') <= AudioCap
<1>1. End \in 1..MaxChunk \cup {End} /\ AudioCap \in Nat
  BY Bounds
<1>2. audioIn \in Seq(1..MaxChunk \cup {End}) /\ Len(audioIn) <= AudioCap
  BY DEF TypeOK
<1>3. audioIn' = PutNowait(audioIn, End, AudioCap)
  BY DEF StopInput
<1>4. QED
  BY <1>1, <1>2, <1>3, PutNowaitBounds

(* A put of an end or an exception is not a result.                        *)
LEMMA LandedSame ==
    ASSUME TypeOK, produced' = produced, puts' = puts \cup {Error} \/ puts' = puts \cup {End}
    PROVE  Landed' = Landed
<1>1. CASE produced = 0
  BY <1>1 DEF Landed
<1>2. CASE produced # 0
  <2>1. produced \in 1..MaxResult
    BY <1>2, Bounds DEF TypeOK
  <2>2. produced # Error /\ produced # End
    BY <2>1, Sentinels
  <2>3. QED
    BY <2>2 DEF Landed
<1>3. QED
  BY <1>1, <1>2

(* Types, and the bounds of the queues.                                    *)
LEMMA TypePreserved == SessionInv /\ [Next]_vars => TypeOK'
<1> SUFFICES ASSUME SessionInv, [Next]_vars PROVE TypeOK'
  OBVIOUS
<1> USE Bounds, Sentinels DEF SessionInv, PutsInv, TypeOK, ThreadState
<1>1. CASE OpenSession
  BY <1>1 DEF OpenSession
<1>2. CASE Feed
  <2>1. audioIn' \in Seq(1..MaxChunk \cup {End}) /\ Len(audioIn') <= AudioCap
    <3>1. CASE open
      <4>1. chunkIdx + 1 \in 1..MaxChunk \cup {End}
        BY <1>2 DEF Feed
      <4>2. audioIn' = PutNowait(audioIn, chunkIdx + 1, AudioCap)
        BY <1>2, <3>1 DEF Feed
      <4> HIDE DEF TypeOK
      <4>3. audioIn \in Seq(1..MaxChunk \cup {End}) /\ Len(audioIn) <= AudioCap /\ AudioCap \in Nat
        BY DEF TypeOK
      <4>4. QED
        BY <4>1, <4>2, <4>3, PutNowaitBounds
    <3>2. CASE ~open
      BY <1>2, <3>2 DEF Feed
    <3>3. QED
      BY <3>1, <3>2
  <2>2. chunkIdx' \in 0..MaxChunk
    BY <1>2 DEF Feed
  <2>3. QED
    BY <1>2, <2>1, <2>2 DEF Feed
<1>3. CASE NextResult
  <2>1. delivered' \in Seq(Item)
    <3>1. delivered' = delivered \/ delivered' = Append(delivered, End)
      BY <1>3 DEF NextResult
    <3>2. End \in Item
      BY DEF Item
    <3>3. Append(delivered, End) \in Seq(Item)
      BY <3>2, AppendGains
    <3>4. QED
      BY <3>1, <3>3
  <2>2. reader' \in {"none", "waiting", "answered", "failed"}
    BY <1>3 DEF NextResult
  <2>3. QED
    BY <1>3, <2>1, <2>2 DEF NextResult
<1>4. CASE ResultRead
  <2>1. Head(resultsOut) \in Item /\ Tail(resultsOut) \in Seq(Item)
           /\ Loses(resultsOut, Tail(resultsOut))
    BY <1>4, TailLoses DEF ResultRead
  <2>2. delivered' \in Seq(Item)
    BY <1>4, <2>1, AppendGains DEF ResultRead
  <2>3. resultsOut' \in Seq(Item) /\ Len(resultsOut') <= ResultsCap
    <3>1. Len(resultsOut) \in Nat /\ Len(Tail(resultsOut)) \in Nat
      BY <2>1, LenProperties
    <3>2. QED
      BY <1>4, <2>1, <3>1 DEF ResultRead, Loses
  <2>4. QED
    BY <1>4, <2>2, <2>3 DEF ResultRead
<1>5. CASE CloseSession
  <2>1. audioIn' \in Seq(1..MaxChunk \cup {End}) /\ Len(audioIn') <= AudioCap
    <3>1. CASE StopInput
      BY <3>1, StopInputBounds
    <3>2. CASE audioIn' = audioIn
      BY <3>2
    <3>3. QED
      BY <1>5, <3>1, <3>2 DEF CloseSession
  <2>2. QED
    BY <1>5, <2>1 DEF CloseSession, StopInput
<1>6. CASE CloseReturns
  <2>1. End \in Item /\ ResultsCap \in Nat
    BY DEF Item
  <2>2. resultsOut' \in Seq(Item) /\ Len(resultsOut') <= ResultsCap
    BY <1>6, <2>1, PutNowaitBounds DEF CloseReturns
  <2>3. QED
    BY <1>6, <2>2 DEF CloseReturns
<1>7. CASE Unload
  <2>1. audioIn' \in Seq(1..MaxChunk \cup {End}) /\ Len(audioIn') <= AudioCap
    <3>1. CASE StopInput
      BY <3>1, StopInputBounds
    <3>2. CASE audioIn' = audioIn
      BY <3>2
    <3>3. QED
      BY <1>7, <3>1, <3>2 DEF Unload
  <2>2. QED
    BY <1>7, <2>1 DEF Unload, StopInput
<1>8. CASE ActorDies
  BY <1>8 DEF ActorDies
<1>9. CASE GetChunk
  <2>1. audioIn' \in Seq(1..MaxChunk \cup {End}) /\ Loses(audioIn, audioIn')
    BY <1>9, TailLoses DEF GetChunk
  <2>2. Len(audioIn') <= AudioCap
    <3>1. Len(audioIn) \in Nat /\ Len(audioIn') \in Nat
      BY <2>1, LenProperties
    <3>2. QED
      BY <2>1, <3>1 DEF Loses
  <2>3. QED
    BY <1>9, <2>1, <2>2 DEF GetChunk, loopVars
<1>10. CASE AdapterAsks
  BY <1>10 DEF AdapterAsks, loopVars
<1>11. CASE AdapterYields
  <2>1. produced' \in 0..MaxResult /\ produced + 1 \in Item
    BY <1>11 DEF AdapterYields, Item, Result
  <2>2. QED
    BY <1>11, <2>1 DEF AdapterYields, loopVars
<1>12. CASE AdapterRaises
  BY <1>12 DEF AdapterRaises, loopVars, Item
<1>13. CASE AdapterReturns
  BY <1>13 DEF AdapterReturns, loopVars, Item
<1>14. CASE PutGivenUp
  <2>1. thread' \in ThreadState /\ puts' \subseteq Item
    BY <1>14 DEF PutGivenUp, Awaited, AfterError, Item
  <2>2. QED
    BY <1>14, <2>1 DEF PutGivenUp, loopVars
<1>15. ASSUME NEW x \in Item, PutLands(x) PROVE TypeOK'
  <2>1. resultsOut' \in Seq(Item) /\ Gains(resultsOut, resultsOut', x)
    BY <1>15, AppendGains DEF PutLands
  <2>2. Len(resultsOut') <= ResultsCap
    <3>1. Len(resultsOut) \in Nat
      BY LenProperties
    <3>2. QED
      BY <1>15, <2>1, <3>1 DEF PutLands, Gains
  <2>3. thread' \in ThreadState /\ puts' \subseteq Item
    BY <1>15 DEF PutLands, Awaited, AfterError, Item
  <2>4. QED
    BY <1>15, <2>1, <2>2, <2>3 DEF PutLands, loopVars
<1>16. CASE UNCHANGED vars
  BY <1>16 DEF vars
<1>17. QED
  BY <1>1, <1>2, <1>3, <1>4, <1>5, <1>6, <1>7, <1>8, <1>9, <1>10, <1>11, <1>12, <1>13,
     <1>14, <1>15, <1>16
     DEF Next, AdapterStep, PutSettles

(* A session that is closed, or whose actor died, stays closed.            *)
LEMMA OpenPreserved == SessionInv /\ [Next]_vars => OpenInv'
<1> SUFFICES ASSUME SessionInv, [Next]_vars PROVE OpenInv'
  OBVIOUS
<1>0. OpenInv /\ PutsInv
  BY DEF SessionInv
<1> USE <1>0
<1> USE DEF OpenInv
<1>1. CASE OpenSession
  BY <1>1 DEF OpenSession, InAdapter
<1>2. CASE Feed
  BY <1>2 DEF Feed, InAdapter
<1>3. CASE NextResult
  BY <1>3 DEF NextResult, InAdapter
<1>4. CASE ResultRead
  BY <1>4 DEF ResultRead, InAdapter
<1>5. CASE CloseSession
  BY <1>5 DEF CloseSession, StopInput, InAdapter
<1>6. CASE CloseReturns
  BY <1>6 DEF CloseReturns, InAdapter
<1>7. CASE Unload
  BY <1>7 DEF Unload, StopInput, InAdapter
<1>8. CASE ActorDies
  BY <1>8 DEF ActorDies, InAdapter
<1>9. CASE GetChunk
  BY <1>9 DEF GetChunk, loopVars, InAdapter
<1>10. CASE AdapterAsks
  BY <1>10 DEF AdapterAsks, loopVars, InAdapter
<1>11. CASE AdapterYields
  BY <1>11 DEF AdapterYields, loopVars, InAdapter
<1>12. CASE AdapterRaises
  BY <1>12 DEF AdapterRaises, loopVars, InAdapter
<1>13. CASE AdapterReturns
  BY <1>13 DEF AdapterReturns, loopVars, InAdapter
<1>14. CASE PutGivenUp
  BY <1>14 DEF PutGivenUp, loopVars, Awaited, AfterError
<1>15. ASSUME NEW x \in Item, PutLands(x) PROVE OpenInv'
  <2>1. thread # "unstarted"
    BY <1>15 DEF PutLands, PutsInv, InAdapter
  <2>2. thread' # "unstarted"
    BY <1>15, <2>1 DEF PutLands, Awaited, AfterError
  <2>3. QED
    BY <1>15, <2>1, <2>2 DEF PutLands, loopVars
<1>16. CASE UNCHANGED vars
  BY <1>16 DEF vars, InAdapter
<1>17. QED
  BY <1>1, <1>2, <1>3, <1>4, <1>5, <1>6, <1>7, <1>8, <1>9, <1>10, <1>11, <1>12, <1>13,
     <1>14, <1>15, <1>16
     DEF Next, AdapterStep, PutSettles

(* The puts under way are the ones the thread has made.                    *)
LEMMA PutsPreserved == SessionInv /\ [Next]_vars => PutsInv'
<1> SUFFICES ASSUME SessionInv, [Next]_vars PROVE PutsInv'
  OBVIOUS
<1> USE Bounds, Sentinels DEF SessionInv, PutsInv, TypeOK, InAdapter
<1>1. CASE OpenSession
  BY <1>1 DEF OpenSession
<1>2. CASE Feed
  BY <1>2 DEF Feed
<1>3. CASE NextResult
  BY <1>3 DEF NextResult
<1>4. CASE ResultRead
  BY <1>4 DEF ResultRead
<1>5. CASE CloseSession
  BY <1>5 DEF CloseSession, StopInput
<1>6. CASE CloseReturns
  BY <1>6 DEF CloseReturns
<1>7. CASE Unload
  BY <1>7 DEF Unload, StopInput
<1>8. CASE ActorDies
  BY <1>8 DEF ActorDies
<1>9. CASE GetChunk
  BY <1>9 DEF GetChunk, loopVars
<1>10. CASE AdapterAsks
  BY <1>10 DEF AdapterAsks, loopVars
<1>11. CASE AdapterYields
  <2>1. puts = {} /\ ~gaveUp
    BY <1>11 DEF AdapterYields, InAdapter
  <2>2. puts' = {produced'} /\ thread' = "putting" /\ produced' \in Result /\ ~gaveUp'
    BY <1>11, <2>1 DEF AdapterYields, loopVars, Result
  <2>3. End \notin puts'
    BY <2>2 DEF Result
  <2>4. QED
    BY <2>2, <2>3
<1>12. CASE AdapterRaises
  <2>1. puts = {} /\ ~gaveUp
    BY <1>12 DEF AdapterRaises, InAdapter
  <2>2. puts' = {Error} /\ thread' = "failing" /\ ~gaveUp' /\ produced' = produced
    BY <1>12, <2>1 DEF AdapterRaises, loopVars
  <2>3. puts' \cap Result = {}
    BY <2>2 DEF Result
  <2>4. QED
    BY <2>2, <2>3
<1>13. CASE AdapterReturns
  <2>1. puts = {} /\ ~gaveUp
    BY <1>13 DEF AdapterReturns, InAdapter
  <2>2. puts' = {End} /\ thread' = "ending" /\ ~gaveUp' /\ produced' = produced
    BY <1>13, <2>1 DEF AdapterReturns, loopVars
  <2>3. puts' \cap Result = {}
    BY <2>2 DEF Result
  <2>4. QED
    BY <2>2, <2>3
<1>14. CASE PutGivenUp
  <2>1. thread \in {"putting", "failing", "ending"}
    BY <1>14 DEF PutGivenUp, Awaited
  <2>2. CASE thread = "putting"
    BY <1>14, <2>2 DEF PutGivenUp, loopVars, AfterError
  <2>3. CASE thread = "failing"
    BY <1>14, <2>3 DEF PutGivenUp, loopVars, AfterError
  <2>4. CASE thread = "ending"
    BY <1>14, <2>4 DEF PutGivenUp, loopVars, AfterError
  <2>5. QED
    BY <2>1, <2>2, <2>3, <2>4
<1>15. ASSUME NEW x \in Item, PutLands(x) PROVE PutsInv'
  <2>1. puts # {} /\ x \in puts /\ UNCHANGED <<open, gaveUp, produced>>
    BY <1>15 DEF PutLands, loopVars
  <2>2. thread \in {"putting", "failing", "ending", "exited"}
    BY <2>1 DEF ThreadState
  <2>3. CASE thread = "putting"
    <3>1. x = produced /\ x \in Awaited
      BY <2>1, <2>3 DEF Awaited
    <3>2. puts' = {} /\ InAdapter'
      BY <1>15, <2>3, <3>1 DEF PutLands
    <3>3. ~gaveUp
      BY <2>3
    <3>4. QED
      BY <2>1, <3>2, <3>3
  <2>4. CASE thread = "failing"
    <3>1. CASE x = Error
      <4>1. thread' = "ending" /\ puts' = (puts \ {Error}) \cup {End}
        BY <1>15, <2>4, <3>1 DEF PutLands, Awaited, AfterError
      <4>2. QED
        BY <2>1, <2>4, <4>1 DEF Result
    <3>2. CASE x # Error
      <4>1. thread' = "failing" /\ puts' = puts \ {x}
        BY <1>15, <2>4, <3>2 DEF PutLands, Awaited
      <4>2. QED
        BY <2>1, <2>4, <4>1 DEF Result
    <3>3. QED
      BY <3>1, <3>2
  <2>5. CASE thread = "ending"
    <3>1. CASE x = End
      <4>1. thread' = "exited" /\ puts' = puts \ {End}
        BY <1>15, <2>5, <3>1 DEF PutLands, Awaited, AfterError
      <4>2. QED
        BY <2>1, <2>5, <4>1 DEF Result
    <3>2. CASE x # End
      <4>1. thread' = "ending" /\ puts' = puts \ {x}
        BY <1>15, <2>5, <3>2 DEF PutLands, Awaited
      <4>2. QED
        BY <2>1, <2>5, <4>1 DEF Result
    <3>3. QED
      BY <3>1, <3>2
  <2>6. CASE thread = "exited"
    BY <1>15, <2>1, <2>6 DEF PutLands, Awaited
  <2>7. QED
    BY <2>2, <2>3, <2>4, <2>5, <2>6
<1>16. CASE UNCHANGED vars
  BY <1>16 DEF vars
<1>17. QED
  BY <1>1, <1>2, <1>3, <1>4, <1>5, <1>6, <1>7, <1>8, <1>9, <1>10, <1>11, <1>12, <1>13,
     <1>14, <1>15, <1>16
     DEF Next, AdapterStep, PutSettles

(* Results land in order and are handed over in order.                     *)
LEMMA FlowPreserved == SessionInv /\ [Next]_vars => FlowInv'
<1> SUFFICES ASSUME SessionInv, [Next]_vars PROVE FlowInv'
  OBVIOUS
<1> USE Bounds, Sentinels DEF SessionInv, PutsInv, TypeOK
<1>1. CASE OpenSession
  BY <1>1 DEF OpenSession, FlowInv, Landed
<1>2. CASE Feed
  BY <1>2 DEF Feed, FlowInv, Landed
<1>3. CASE NextResult
  <2>1. CASE delivered' = delivered
    BY <1>3, <2>1 DEF NextResult, FlowInv, Landed
  <2>2. CASE delivered' = Append(delivered, End)
    <3>1. End \in Item
      BY DEF Item
    <3>2. delivered' \in Seq(Item) /\ Gains(delivered, delivered', End)
      BY <2>2, <3>1, AppendGains
    <3>3. Flow(delivered', resultsOut, Landed)
      BY <3>2, FlowEnds DEF FlowInv
    <3>4. QED
      BY <1>3, <3>3 DEF NextResult, FlowInv, Landed
  <2>3. QED
    BY <1>3, <2>1, <2>2 DEF NextResult
<1>4. CASE ResultRead
  <2>1. /\ Head(resultsOut) = resultsOut[1] /\ Head(resultsOut) \in Item
        /\ Tail(resultsOut) \in Seq(Item) /\ Loses(resultsOut, Tail(resultsOut))
    BY <1>4, TailLoses DEF ResultRead
  <2>2. delivered' \in Seq(Item) /\ Gains(delivered, delivered', resultsOut[1])
    BY <1>4, <2>1, AppendGains DEF ResultRead
  <2>3. resultsOut' \in Seq(Item) /\ Loses(resultsOut, resultsOut')
    BY <1>4, <2>1 DEF ResultRead
  <2>4. Flow(delivered', resultsOut', Landed)
    BY <2>2, <2>3, FlowMoves DEF FlowInv
  <2>5. QED
    BY <1>4, <2>4 DEF ResultRead, FlowInv, Landed
<1>5. CASE CloseSession
  BY <1>5 DEF CloseSession, StopInput, FlowInv, Landed
<1>6. CASE CloseReturns
  <2>1. End \in Item /\ ResultsCap \in Nat
    BY DEF Item
  <2>2. /\ resultsOut' \in Seq(Item)
        /\ resultsOut' = resultsOut \/ Gains(resultsOut, resultsOut', End)
    BY <1>6, <2>1, PutNowaitBounds DEF CloseReturns
  <2>3. UNCHANGED <<delivered, Landed>>
    BY <1>6 DEF CloseReturns, Landed
  <2>4. End \notin Result
    BY DEF Result
  <2>5. CASE resultsOut' = resultsOut
    BY <2>3, <2>5 DEF FlowInv
  <2>6. CASE Gains(resultsOut, resultsOut', End)
    <3>1. Flow(delivered, resultsOut', Landed)
      BY <2>1, <2>2, <2>4, <2>6, FlowGrows DEF FlowInv
    <3>2. QED
      BY <2>3, <3>1 DEF FlowInv
  <2>7. QED
    BY <2>2, <2>5, <2>6
<1>7. CASE Unload
  BY <1>7 DEF Unload, StopInput, FlowInv, Landed
<1>8. CASE ActorDies
  BY <1>8 DEF ActorDies, FlowInv, Landed
<1>9. CASE GetChunk
  BY <1>9 DEF GetChunk, loopVars, FlowInv, Landed
<1>10. CASE AdapterAsks
  BY <1>10 DEF AdapterAsks, loopVars, FlowInv, Landed
<1>11. CASE AdapterYields
  <2>1. puts = {}
    BY <1>11 DEF AdapterYields, InAdapter
  <2>2. Landed = 1..produced /\ Landed' = 1..produced
    BY <1>11, <2>1 DEF AdapterYields, Landed
  <2>3. QED
    BY <1>11, <2>2 DEF AdapterYields, FlowInv, loopVars
<1>12. CASE AdapterRaises
  <2>1. Landed' = Landed
    BY <1>12, LandedSame DEF AdapterRaises
  <2>2. QED
    BY <1>12, <2>1 DEF AdapterRaises, FlowInv, loopVars
<1>13. CASE AdapterReturns
  <2>1. Landed' = Landed
    BY <1>13, LandedSame DEF AdapterReturns
  <2>2. QED
    BY <1>13, <2>1 DEF AdapterReturns, FlowInv, loopVars
<1>14. CASE PutGivenUp
  <2>1. Landed' = Landed
    <3>1. produced' = produced
      BY <1>14 DEF PutGivenUp
    <3>2. puts' = puts \/ puts' = puts \cup {Error} \/ puts' = puts \cup {End}
      BY <1>14 DEF PutGivenUp, Awaited
    <3>3. CASE puts' = puts
      BY <3>1, <3>3 DEF Landed
    <3>4. CASE puts' # puts
      BY <3>1, <3>2, <3>4, LandedSame
    <3>5. QED
      BY <3>3, <3>4
  <2>2. QED
    BY <1>14, <2>1 DEF PutGivenUp, FlowInv, loopVars
<1>15. ASSUME NEW x \in Item, PutLands(x) PROVE FlowInv'
  <2>1. resultsOut' \in Seq(Item) /\ Gains(resultsOut, resultsOut', x)
    BY <1>15, AppendGains DEF PutLands
  <2>2. x \in puts /\ x \in {produced, Error, End}
    BY <1>15 DEF PutLands
  <2>3. \A k \in Result : x # k => (x = Error \/ x = End \/ x = produced) /\ k # Error /\ k # End
    BY <2>2 DEF Result
  <2>4. \A k \in Result : k \in Landed => k <= produced
    BY DEF Landed, Result
  <2>5. ASSUME x \in Result PROVE \A k \in Result \cap Landed : k < x
    <3>1. x = produced /\ produced \in puts
      BY <2>2, <2>5 DEF Result
    <3>2. QED
      BY <3>1 DEF Landed, Result
  <2>6. puts \ {x} \subseteq puts' /\ puts' \subseteq (puts \ {x}) \cup {End}
    BY <1>15 DEF PutLands, Awaited
  <2>7. \A k \in Result : k \in Landed' <=> k \in Landed \/ k = x
    <3>1. produced' = produced
      BY <1>15 DEF PutLands
    <3>2. CASE produced = 0
      <4>1. x \notin Result
        <5> HIDE DEF TypeOK, SessionInv, PutsInv
        <5>1. x = 0 \/ x = Error \/ x = End
          BY <2>2, <3>2
        <5>2. QED
          BY <5>1 DEF Result
      <4>2. \A k \in Result : k \notin Landed /\ k \notin Landed'
        BY <3>1, <3>2 DEF Landed, Result
      <4>3. QED
        BY <4>1, <4>2
    <3>3. CASE produced # 0
      <4>1. produced \in Result
        BY <3>3 DEF Result
      <4>2. CASE x = produced
        <5>1. produced \notin puts'
          BY <2>6, <4>1, <4>2 DEF Result
        <5>2. QED
          BY <2>2, <3>1, <4>2, <5>1 DEF Landed, Result
      <4>3. CASE x # produced
        <5>1. x \notin Result
          BY <2>2, <4>3 DEF Result
        <5>2. produced \in puts' <=> produced \in puts
          BY <2>6, <4>1, <4>3 DEF Result
        <5>3. QED
          BY <3>1, <5>1, <5>2 DEF Landed
      <4>4. QED
        BY <4>2, <4>3
    <3>4. QED
      BY <3>2, <3>3
  <2>8. Flow(delivered, resultsOut', Landed')
    BY <2>1, <2>5, <2>7, FlowGrows DEF FlowInv
  <2>9. QED
    BY <1>15, <2>8 DEF PutLands, loopVars, FlowInv
<1>16. CASE UNCHANGED vars
  BY <1>16 DEF vars, FlowInv, Landed
<1>17. QED
  BY <1>1, <1>2, <1>3, <1>4, <1>5, <1>6, <1>7, <1>8, <1>9, <1>10, <1>11, <1>12, <1>13,
     <1>14, <1>15, <1>16
     DEF Next, AdapterStep, PutSettles

(* Nothing follows the thread's sentinel.                                  *)
LEMMA EndPreserved == SessionInv /\ [Next]_vars => EndInv'
<1> SUFFICES ASSUME SessionInv, [Next]_vars PROVE EndInv'
  OBVIOUS
<1> USE Bounds, Sentinels DEF SessionInv, PutsInv, TypeOK
<1>1. CASE OpenSession
  <2>1. delivered' = <<>> /\ resultsOut' = <<>>
    BY <1>1 DEF OpenSession, OpenInv
  <2>2. QED
    BY <2>1 DEF EndInv, Occurs
<1>2. CASE Feed
  BY <1>2 DEF Feed, EndInv
<1>3. CASE NextResult
  <2>1. CASE ~open
    BY <1>3, <2>1 DEF NextResult, EndInv
  <2>2. CASE open
    BY <1>3, <2>2 DEF NextResult, EndInv
  <2>3. QED
    BY <2>1, <2>2
<1>4. CASE ResultRead
  <2>1. /\ Head(resultsOut) = resultsOut[1] /\ Head(resultsOut) \in Item
        /\ Tail(resultsOut) \in Seq(Item) /\ Loses(resultsOut, Tail(resultsOut))
    BY <1>4, TailLoses DEF ResultRead
  <2>2. delivered' \in Seq(Item) /\ Gains(delivered, delivered', resultsOut[1])
    BY <1>4, <2>1, AppendGains DEF ResultRead
  <2>3. resultsOut' \in Seq(Item) /\ Loses(resultsOut, resultsOut')
    BY <1>4, <2>1 DEF ResultRead
  <2>4. Occurs(End, delivered') <=> Occurs(End, delivered) \/ resultsOut[1] = End
    BY <2>2, GainsOccurs
  <2>5. Occurs(End, resultsOut) <=> Occurs(End, resultsOut') \/ resultsOut[1] = End
    BY <2>3, LosesOccurs
  <2>6. \A i \in 1..Len(resultsOut') :
           i + 1 \in 1..Len(resultsOut) /\ resultsOut'[i] = resultsOut[i + 1]
    <3>1. Len(resultsOut) \in Nat /\ Len(resultsOut') \in Nat
      BY <2>3, LenProperties
    <3>2. QED
      BY <2>3, <3>1 DEF Loses
  <2>7. 1 \in 1..Len(resultsOut)
    <3>1. Len(resultsOut) \in Nat /\ Len(resultsOut') \in Nat
      BY <2>3, LenProperties
    <3>2. QED
      BY <2>3, <3>1 DEF Loses
  <2> SUFFICES ASSUME open', ~gaveUp' PROVE EndInv'
    BY DEF EndInv
  <2>8. open /\ ~gaveUp /\ thread' = thread
    BY <1>4 DEF ResultRead
  <2>9. Occurs(End, delivered') \/ Occurs(End, resultsOut') => thread' \in {"ending", "exited"}
    BY <2>4, <2>5, <2>8 DEF EndInv
  <2>10. Occurs(End, delivered') => \A i \in 1..Len(resultsOut') : resultsOut'[i] \notin Result
    <3>1. \A i \in 1..Len(resultsOut') : 1 < i + 1
      OBVIOUS
    <3>2. QED
      BY <2>4, <2>6, <2>7, <2>8, <3>1 DEF EndInv
  <2>11. \A i, j \in 1..Len(resultsOut') :
            i < j /\ resultsOut'[i] = End => resultsOut'[j] \notin Result
    <3>1. \A i, j \in 1..Len(resultsOut') : i < j => i + 1 < j + 1
      OBVIOUS
    <3>2. QED
      BY <2>6, <2>8, <3>1 DEF EndInv
  <2>12. QED
    BY <2>9, <2>10, <2>11 DEF EndInv
<1>5. CASE CloseSession
  BY <1>5 DEF CloseSession, StopInput, EndInv
<1>6. CASE CloseReturns
  BY <1>6 DEF CloseReturns, EndInv, OpenInv
<1>7. CASE Unload
  BY <1>7 DEF Unload, StopInput, EndInv
<1>8. CASE ActorDies
  BY <1>8 DEF ActorDies, EndInv
<1>9. CASE GetChunk
  <2>1. thread \notin {"ending", "exited"}
    BY <1>9 DEF GetChunk, InAdapter
  <2>2. UNCHANGED <<open, gaveUp, delivered, resultsOut>>
    BY <1>9 DEF GetChunk, loopVars
  <2>3. open /\ ~gaveUp => ~Occurs(End, delivered) /\ ~Occurs(End, resultsOut)
    BY <2>1 DEF EndInv
  <2>4. QED
    BY <2>2, <2>3 DEF EndInv, Occurs
<1>10. CASE AdapterAsks
  <2>1. thread \notin {"ending", "exited"}
    BY <1>10 DEF AdapterAsks, InAdapter
  <2>2. UNCHANGED <<open, gaveUp, delivered, resultsOut>>
    BY <1>10 DEF AdapterAsks, loopVars
  <2>3. open /\ ~gaveUp => ~Occurs(End, delivered) /\ ~Occurs(End, resultsOut)
    BY <2>1 DEF EndInv
  <2>4. QED
    BY <2>2, <2>3 DEF EndInv, Occurs
<1>11. CASE AdapterYields
  <2>1. thread \notin {"ending", "exited"}
    BY <1>11 DEF AdapterYields, InAdapter
  <2>2. UNCHANGED <<open, gaveUp, delivered, resultsOut>>
    BY <1>11 DEF AdapterYields, loopVars
  <2>3. open /\ ~gaveUp => ~Occurs(End, delivered) /\ ~Occurs(End, resultsOut)
    BY <2>1 DEF EndInv
  <2>4. QED
    BY <2>2, <2>3 DEF EndInv, Occurs
<1>12. CASE AdapterRaises
  <2>1. thread \notin {"ending", "exited"}
    BY <1>12 DEF AdapterRaises, InAdapter
  <2>2. UNCHANGED <<open, gaveUp, delivered, resultsOut>>
    BY <1>12 DEF AdapterRaises, loopVars
  <2>3. open /\ ~gaveUp => ~Occurs(End, delivered) /\ ~Occurs(End, resultsOut)
    BY <2>1 DEF EndInv
  <2>4. QED
    BY <2>2, <2>3 DEF EndInv, Occurs
<1>13. CASE AdapterReturns
  <2>1. thread \notin {"ending", "exited"}
    BY <1>13 DEF AdapterReturns, InAdapter
  <2>2. UNCHANGED <<open, gaveUp, delivered, resultsOut>>
    BY <1>13 DEF AdapterReturns, loopVars
  <2>3. open /\ ~gaveUp => ~Occurs(End, delivered) /\ ~Occurs(End, resultsOut)
    BY <2>1 DEF EndInv
  <2>4. QED
    BY <2>2, <2>3 DEF EndInv, Occurs
<1>14. CASE PutGivenUp
  BY <1>14 DEF PutGivenUp, EndInv
<1>15. ASSUME NEW x \in Item, PutLands(x) PROVE EndInv'
  <2> SUFFICES ASSUME open', ~gaveUp' PROVE EndInv'
    BY DEF EndInv
  <2>1. resultsOut' \in Seq(Item) /\ Gains(resultsOut, resultsOut', x)
    BY <1>15, AppendGains DEF PutLands
  <2>2. open /\ ~gaveUp /\ delivered' = delivered /\ x \in puts
    BY <1>15 DEF PutLands, loopVars
  <2>3. x = End => thread \in {"ending", "exited"}
    BY <2>2 DEF PutsInv
  <2>4. thread \in {"ending", "exited"} => thread' \in {"ending", "exited"}
    BY <1>15 DEF PutLands, Awaited
  <2>5. x \in Result => thread = "putting"
    BY <2>2 DEF PutsInv, Result
  <2>6. Occurs(End, resultsOut') <=> Occurs(End, resultsOut) \/ x = End
    BY <2>1, GainsOccurs
  <2>7. Len(resultsOut) \in Nat
    BY LenProperties
  <2>8. Occurs(End, delivered') \/ Occurs(End, resultsOut') => thread' \in {"ending", "exited"}
    BY <2>2, <2>3, <2>4, <2>6 DEF EndInv
  <2>9. \A i \in 1..Len(resultsOut') :
            \/ i \in 1..Len(resultsOut) /\ resultsOut'[i] = resultsOut[i]
            \/ i = Len(resultsOut) + 1 /\ resultsOut'[i] = x
    BY <2>1, <2>7 DEF Gains
  <2>10. Occurs(End, delivered') => \A i \in 1..Len(resultsOut') : resultsOut'[i] \notin Result
    <3>1. Occurs(End, delivered') => x \notin Result
      BY <2>2, <2>5 DEF EndInv
    <3>2. QED
      BY <2>2, <2>9, <3>1 DEF EndInv
  <2>11. ASSUME NEW i \in 1..Len(resultsOut'), NEW j \in 1..Len(resultsOut'),
                i < j, resultsOut'[i] = End
         PROVE  resultsOut'[j] \notin Result
    <3>1. i \in 1..Len(resultsOut) /\ resultsOut[i] = End
      BY <2>1, <2>7, <2>11 DEF Gains
    <3>2. x \notin Result
      <4>1. Occurs(End, resultsOut)
        BY <3>1 DEF Occurs
      <4>2. QED
        BY <2>2, <2>5, <4>1 DEF EndInv
    <3>3. QED
      BY <2>2, <2>9, <2>11, <3>1, <3>2 DEF EndInv
  <2>12. QED
    BY <2>8, <2>10, <2>11 DEF EndInv
<1>16. CASE UNCHANGED vars
  BY <1>16 DEF vars, EndInv
<1>17. QED
  BY <1>1, <1>2, <1>3, <1>4, <1>5, <1>6, <1>7, <1>8, <1>9, <1>10, <1>11, <1>12, <1>13,
     <1>14, <1>15, <1>16
     DEF Next, AdapterStep, PutSettles

-----------------------------------------------------------------------------
(* SessionInv is inductive.  Fairness plays no part in it: whoever embeds  *)
(* a session, as StreamingRecognize does, has these too.                   *)

LEMMA SessionInit == Init => SessionInv
<1> SUFFICES ASSUME Init PROVE SessionInv
  OBVIOUS
<1> USE Bounds, Sentinels DEF Init
<1>1. <<>> \in Seq(1..MaxChunk \cup {End}) /\ <<>> \in Seq(Item) /\ Len(<<>>) = 0
  OBVIOUS
<1>2. TypeOK
  <2>1. audioIn \in Seq(1..MaxChunk \cup {End}) /\ Len(audioIn) <= AudioCap
    BY <1>1
  <2>2. resultsOut \in Seq(Item) /\ Len(resultsOut) <= ResultsCap /\ delivered \in Seq(Item)
    BY <1>1
  <2>3. chunkIdx \in 0..MaxChunk /\ produced \in 0..MaxResult /\ puts \subseteq Item
    OBVIOUS
  <2>4. /\ actor \in {"up", "unloaded", "dead"} /\ thread \in ThreadState
        /\ reader \in {"none", "waiting", "answered", "failed"}
        /\ closer \in {"none", "joining", "done"}
        /\ open \in BOOLEAN /\ closed \in BOOLEAN
        /\ inputOver \in BOOLEAN /\ gaveUp \in BOOLEAN
    BY DEF ThreadState
  <2> HIDE DEF Init
  <2>5. QED
    BY <2>1, <2>2, <2>3, <2>4 DEF TypeOK
<1>3. OpenInv /\ PutsInv
  BY DEF OpenInv, PutsInv, InAdapter
<1>4. FlowInv
  BY <1>1 DEF FlowInv, Flow, Increasing, Landed, Occurs
<1>5. EndInv
  BY DEF EndInv
<1>6. QED
  BY <1>2, <1>3, <1>4, <1>5 DEF SessionInv

LEMMA SessionStep == SessionInv /\ [Next]_vars => SessionInv'
<1>1. ASSUME SessionInv, [Next]_vars PROVE SessionInv'
  <2>1. TypeOK' /\ OpenInv' /\ PutsInv'
    BY <1>1, TypePreserved, OpenPreserved, PutsPreserved
  <2>2. FlowInv' /\ EndInv'
    BY <1>1, FlowPreserved, EndPreserved
  <2>3. QED
    BY <2>1, <2>2 DEF SessionInv
<1>2. QED
  BY <1>1

(* In every reachable state of a session: the types and queue bounds, what *)
(* a closed session leaves alone, which puts are under way, that the       *)
(* results that have landed are handed over in order, and that the         *)
(* thread's sentinel ends them.                                            *)
THEOREM SessionInvariant == Spec => []SessionInv
<1>1. QED
  BY SessionInit, SessionStep, PTL DEF Spec

-----------------------------------------------------------------------------
(* Neither queue outgrows its size, and every variable keeps its type.     *)
THEOREM SessionTypes == Spec => []TypeOK
<1>1. SessionInv => TypeOK
  BY DEF SessionInv
<1>2. QED
  BY <1>1, SessionInvariant, PTL

LEMMA FlowIsOrdered == SessionInv => TranscriptsInOrder
<1> SUFFICES ASSUME SessionInv, NEW i \in 1..Len(delivered), delivered[i] \in Result
             PROVE  /\ \A j \in 1..i - 1 :
                          delivered[j] \in Result => delivered[j] < delivered[i]
                    /\ delivered[i] > 1 => \E j \in 1..i - 1 : delivered[j] = delivered[i] - 1
  BY DEF TranscriptsInOrder
<1>1. Len(delivered) \in Nat /\ produced \in Nat /\ MaxResult \in Nat
  BY Bounds, LenProperties DEF SessionInv, TypeOK
<1>2. Flow(delivered, resultsOut, Landed)
  BY DEF SessionInv, FlowInv
<1>3. \A j \in 1..i - 1 : j \in 1..Len(delivered) /\ j < i
  BY <1>1
<1>4. \A j \in 1..i - 1 : delivered[j] \in Result => delivered[j] < delivered[i]
  BY <1>2, <1>3 DEF Flow, Increasing
<1>5. ASSUME delivered[i] > 1 PROVE \E j \in 1..i - 1 : delivered[j] = delivered[i] - 1
  <2>1. delivered[i] - 1 \in Result /\ delivered[i] - 1 < delivered[i]
    BY <1>1, <1>5 DEF Result
  <2>2. delivered[i] \in Landed
    <3>1. Occurs(delivered[i], delivered)
      BY DEF Occurs
    <3>2. QED
      BY <1>2, <3>1 DEF Flow
  <2>3. delivered[i] - 1 \in Landed
    BY <1>1, <2>1, <2>2 DEF Landed, Result
  <2>4. ~Occurs(delivered[i] - 1, resultsOut)
    BY <1>1, <1>2, <2>1 DEF Flow, Occurs, Result
  <2>5. Occurs(delivered[i] - 1, delivered)
    BY <1>2, <2>1, <2>3, <2>4 DEF Flow
  <2>6. PICK j \in 1..Len(delivered) : delivered[j] = delivered[i] - 1
    BY <2>5 DEF Occurs
  <2>7. ~(i < j)
    BY <1>1, <1>2, <2>1, <2>6 DEF Flow, Increasing, Result
  <2>8. i # j
    BY <1>1, <2>1, <2>6 DEF Result
  <2>9. j \in 1..i - 1
    BY <1>1, <2>6, <2>7, <2>8
  <2>10. QED
    BY <2>6, <2>9
<1>6. QED
  BY <1>4, <1>5

(* What next_result hands out begins with the adapter's first transcript   *)
(* and goes on without a gap, a repetition or a change of order, however   *)
(* large the queues are and whichever puts are given up and land late.     *)
THEOREM ResultsAreInOrder == Spec => []TranscriptsInOrder
<1>1. QED
  BY SessionInvariant, FlowIsOrdered, PTL

LEMMA EndIsLast == SessionInv => EndIsComplete
<1> SUFFICES ASSUME SessionInv, open, ~gaveUp, Occurs(End, delivered), NEW k \in 1..produced
             PROVE  Occurs(k, delivered)
  BY DEF EndIsComplete
<1>1. k \in Result /\ produced \in Result
  BY Bounds DEF SessionInv, TypeOK, Result
<1>2. produced \notin puts
  BY <1>1 DEF SessionInv, EndInv, PutsInv
<1>3. k \in Landed
  BY <1>2 DEF Landed
<1>4. ~Occurs(k, resultsOut)
  BY <1>1 DEF SessionInv, EndInv, Occurs
<1>5. QED
  BY <1>1, <1>3, <1>4 DEF SessionInv, FlowInv, Flow

(* A None ends the stream of an open session only after every transcript   *)
(* the adapter has yielded, unless the thread gave up a put.               *)
THEOREM NothingIsCutOff == Spec => []EndIsComplete
<1>1. QED
  BY SessionInvariant, EndIsLast, PTL

=============================================================================
