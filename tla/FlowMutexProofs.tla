-------------------------- MODULE FlowMutexProofs --------------------------
(***************************************************************************)
(* Type correctness of FlowMutex, for any set of packets, streams and      *)
(* messages, what follows from the types alone, and the invariant that     *)
(* ties the WaitGroup of a carrier to its active requests.                 *)
(***************************************************************************)
EXTENDS FlowMutex, TLAPS

USE DEF pktVars, carVars, cntVars, mapVars, timVars, relVars, ctxVars

\* The maps and carriers that newFlowMutex starts with are well typed.
LEMMA TypeInit == Init => TypeOK
<1>1. Init => PacketsType
  BY ConstantsAssumption DEF Init, PacketsType, PacketSteps
<1>2. Init => CarriersType /\ CountersType
  BY DEF Init, CarriersType, CountersType
<1>3. Init => MapsType
  BY DEF Init, MapsType
<1>6. Init => TimersType
  BY DEF Init, TimersType, TimerStates
<1>4. Init => UntrackType
  <2>1. NoScan \in [store: Tracked \cup {None}, streams: SUBSET Streams]
    BY DEF NoScan
  <2> QED
    BY <2>1 DEF Init, UntrackType, UntrackSteps
<1>7. Init => ContextType
  BY Zenon DEF Init, ContextType
<1>5. Init => /\ \A p \in Packets : pc[p] = "new" /\ rel[p] = "off"
              /\ \A t \in Tracked : timer[t] = "none"
  BY DEF Init
<1> QED
  BY <1>1, <1>2, <1>3, <1>4, <1>5, <1>6, <1>7 DEF TypeOK

\* Types are kept by lock getting or creating the carrier.
LEMMA TypeArrive == ASSUME TypeOK, NEW p \in Packets, Arrive(p) PROVE TypeOK'
<1>1. PICK m \in Messages[p] : msg' = [msg EXCEPT ![p] = m]
                /\ pc' = [pc EXCEPT ![p] = IF m.kind = "fin" THEN "wait" ELSE "lock"]
  BY Zenon DEF Arrive
<1>2. m \in MessageType
  BY ConstantsAssumption
<1>3. GetCarrier(p) \in Packets
  BY DEF GetCarrier, TypeOK, CarriersType
<1> QED
  BY <1>1, <1>2, <1>3 DEF Arrive, TypeOK, PacketsType, CarriersType, CountersType, MapsType,
     TimersType, UntrackType, ContextType, PacketSteps

\* Types are kept by a termination calling wg.Wait.
LEMMA TypeEnterWait == ASSUME TypeOK, NEW p \in Packets, EnterWait(p) PROVE TypeOK'
  BY DEF EnterWait, TypeOK, PacketsType, CarriersType, CountersType, MapsType,
     TimersType, UntrackType, ContextType, PacketSteps

\* Types are kept by trackConnection and activeRequests.Add(1).
LEMMA TypeTrackRequest ==
  ASSUME TypeOK, NEW p \in Packets, NEW s \in Streams, TrackRequest(p, s)
  PROVE  TypeOK'
  BY DEF TrackRequest, TypeOK, PacketsType, CarriersType, CountersType, MapsType,
     TimersType, UntrackType, ContextType, PacketSteps, TimerStates, Tracked

\* Types are kept by a response ending its request.
LEMMA TypeSettleResponse ==
  ASSUME TypeOK, NEW p \in Packets, SettleResponse(p) PROVE  TypeOK'
  BY DEF SettleResponse, WgAdd, TypeOK, PacketsType, CarriersType, CountersType, MapsType,
     TimersType, UntrackType, ContextType, PacketSteps, TimerStates

\* Types are kept by wg.Wait returning.
LEMMA TypeResumeWait == ASSUME TypeOK, NEW p \in Packets, ResumeWait(p) PROVE TypeOK'
  BY DEF ResumeWait, TypeOK, PacketsType, CarriersType, CountersType, MapsType,
     TimersType, UntrackType, ContextType, PacketSteps

\* Types are kept by mu.Lock.
LEMMA TypeLock == ASSUME TypeOK, NEW p \in Packets, Lock(p) PROVE TypeOK'
  BY DEF Lock, TypeOK, PacketsType, CarriersType, CountersType, MapsType,
     TimersType, UntrackType, ContextType, PacketSteps

\* Types are kept by a packet without HTTP data.
LEMMA TypeAnalyzePlain ==
  ASSUME TypeOK, NEW p \in Packets, AnalyzePlain(p) PROVE TypeOK'
<1>1. panicked' \subseteq Packets
  BY DEF AnalyzePlain, TypeOK, PacketsType
<1>2. pc' \in [Packets -> PacketSteps] /\ \A q \in Packets : pc'[q] # "new" <=> pc[q] # "new"
  BY Zenon DEF AnalyzePlain, TypeOK, PacketsType, PacketSteps
<1>3. \A t \in Tracked : timer'[t] # "none" => pc'[t[1]] # "new"
  BY <1>2 DEF AnalyzePlain, TypeOK, Tracked
<1> QED
  BY <1>1, <1>2, <1>3 DEF AnalyzePlain, TypeOK, PacketsType, CarriersType, CountersType, MapsType,
     TimersType, UntrackType, ContextType

\* Types are kept by data that is not HTTP.
LEMMA TypeAnalyzeOpaque == ASSUME TypeOK, NEW p \in Packets, AnalyzeOpaque(p) PROVE TypeOK'
  BY DEF AnalyzeOpaque, TypeOK, PacketsType, CarriersType, CountersType, MapsType,
     TimersType, UntrackType, ContextType, PacketSteps

\* Types are kept by trySetHTTP.
LEMMA TypeAnalyzeHTTP == ASSUME TypeOK, NEW p \in Packets, AnalyzeHTTP(p) PROVE TypeOK'
<1>1. msg[p] \in MessageType /\ msg[p].h2 \in BOOLEAN
  BY DEF AnalyzeHTTP, TracedRequests, TypeOK, MessageType
<1>2. isHTTP2' \in [Packets -> BOOLEAN]
  BY <1>1 DEF AnalyzeHTTP, TracedRequests, TypeOK, CarriersType
<1>3. PacketsType' /\ MapsType'
  BY <1>1 DEF AnalyzeHTTP, TracedRequests, TypeOK, PacketsType, MapsType, PacketSteps, MessageType
<1> QED
  BY <1>2, <1>3 DEF AnalyzeHTTP, TracedRequests, TypeOK, PacketsType, CarriersType, CountersType,
     TimersType, UntrackType, ContextType

\* Types are kept by wg.Add(1) for a request.
LEMMA TypeRaiseWait == ASSUME TypeOK, NEW p \in Packets, RaiseWait(p) PROVE TypeOK'
  BY DEF RaiseWait, TypeOK, PacketsType, CarriersType, CountersType, MapsType,
     TimersType, UntrackType, ContextType, WgAdd, PacketSteps

\* Types are kept by a response's lookup.
LEMMA TypeFindTraced ==
  ASSUME TypeOK, NEW p \in Packets, NEW s \in Streams, FindTraced(p, s)
  PROVE  TypeOK'
<1>1. CASE Known(provider[p], s)
  <2>1. TracedFlow(provider[p], s, msg[p].ref) \subseteq Tracked
    BY <1>1 DEF Known, TracedFlow, TypeOK, PacketsType, MapsType
  <2>2. /\ found' = [found EXCEPT ![p] = TracedFlow(provider[p], s, msg[p].ref)]
        /\ onStream' = [onStream EXCEPT ![p] = s]
        /\ pc' = [pc EXCEPT ![p] = "response"]
        /\ UNCHANGED resTodo
    BY <1>1 DEF FindTraced
  <2> QED
    BY <2>1, <2>2 DEF FindTraced, TypeOK, PacketsType, CarriersType, CountersType, MapsType,
     TimersType, UntrackType, ContextType, PacketSteps
<1>2. CASE ~Known(provider[p], s)
  <2>1. /\ resTodo' = [resTodo EXCEPT ![p][s] = None]
        /\ UNCHANGED <<found, onStream, pc>>
    BY <1>2 DEF FindTraced
  <2> QED
    BY <2>1 DEF FindTraced, TypeOK, PacketsType, CarriersType, CountersType, MapsType,
     TimersType, UntrackType, ContextType
<1> QED
  BY <1>1, <1>2

\* Types are kept by the end of the accounting.
LEMMA TypeSettled == ASSUME TypeOK, NEW p \in Packets, Settled(p) PROVE TypeOK'
  BY DEF Settled, TypeOK, PacketsType, CarriersType, CountersType, MapsType,
     TimersType, UntrackType, ContextType, PacketSteps

\* Types are kept by the scan's deactivation of tracked requests.
LEMMA TypeDeactivate ==
  ASSUME TypeOK, Deactivate(flowStore)
  PROVE  /\ TimersType' /\ entries' \in [Tracked -> SUBSET Tracked]
         /\ \A t \in Tracked : timer'[t] # "none" => timer[t] # "none"
  BY DEF Deactivate, StoredIn, TypeOK, TimersType, MapsType, TimerStates

\* Types are kept by untracking under the mutex.
LEMMA TypeClearFlow ==
  ASSUME TypeOK, ClearFlow, requests' \subseteq requests
  PROVE  /\ TimersType' /\ MapsType'
         /\ \A t \in Tracked : timer'[t] # "none" => timer[t] # "none"
  BY TypeDeactivate DEF ClearFlow, TypeOK, TimersType, MapsType

\* Types are kept by UnlockWithTCPFlags.
LEMMA TypeUnlock == ASSUME TypeOK, NEW p \in Packets, Unlock(p) PROVE TypeOK'
<1>1. /\ TimersType' /\ MapsType' /\ mutexMap' \in Packets \cup {None}
      /\ \A t \in Tracked : timer'[t] # "none" => timer[t] # "none"
  <2>1. CASE YieldsUntracking(p) /\ ctxDone
    BY <2>1, TypeClearFlow DEF Unlock, Forget, TypeOK, CarriersType
  <2>2. CASE ~(YieldsUntracking(p) /\ ctxDone)
    BY <2>2 DEF Unlock, TypeOK, CarriersType, TimersType, MapsType
  <2> QED
    BY <2>1, <2>2
<1>2. rel' \in [Packets -> UntrackSteps] /\ \A q \in Packets : rel'[q] = "clear" => rel[q] = "clear"
  BY DEF Unlock, TypeOK, UntrackType, UntrackSteps
<1>3. PacketsType' /\ \A q \in Packets : pc'[q] # "new" <=> pc[q] # "new"
  BY DEF Unlock, TypeOK, PacketsType, PacketSteps
<1>4. CarriersType'
  <2>1. released' \in [Packets -> BOOLEAN]
    BY DEF Unlock, TypeOK, CarriersType
  <2> QED
    BY <1>1, <2>1 DEF Unlock, ReleaseMutex, TypeOK, CarriersType
<1>5. \A t \in Tracked : timer'[t] # "none" => pc'[t[1]] # "new"
  BY <1>1, <1>3 DEF TypeOK, Tracked
<1> QED
  BY <1>1, <1>2, <1>3, <1>4, <1>5 DEF Unlock, TypeOK, PacketsType, CountersType, UntrackType, ContextType

\* Types are kept by the delayed untracking starting.
LEMMA TypeUntrackStart == ASSUME TypeOK, NEW p \in Packets, UntrackStart(p) PROVE TypeOK'
  BY DEF UntrackStart, TypeOK, PacketsType, CarriersType, CountersType, MapsType,
     TimersType, UntrackType, ContextType, UntrackSteps

\* Types are kept by untrackConnection's scan.
LEMMA TypeUntrackScan == ASSUME TypeOK, NEW p \in Packets, UntrackScan(p) PROVE TypeOK'
  BY DEF UntrackScan, TypeOK, PacketsType, CarriersType, CountersType, MapsType,
     TimersType, UntrackType, ContextType, Deactivate, Forget, StoredIn, NoScan, TimerStates, UntrackSteps

\* Types are kept by untrackConnection deleting the streams.
LEMMA TypeUntrackClear == ASSUME TypeOK, NEW p \in Packets, UntrackClear(p) PROVE TypeOK'
  BY DEF UntrackClear, TypeOK, PacketsType, CarriersType, CountersType, MapsType,
     TimersType, UntrackType, ContextType, UntrackSteps

\* Types are kept by the drain loop's test.
LEMMA TypeUntrackLoad == ASSUME TypeOK, NEW p \in Packets, UntrackLoad(p) PROVE TypeOK'
  BY DEF UntrackLoad, TypeOK, PacketsType, CarriersType, CountersType, MapsType,
     TimersType, UntrackType, ContextType, UntrackSteps

\* Types are kept by the drain loop's decrement.
LEMMA TypeUntrackDec == ASSUME TypeOK, NEW p \in Packets, UntrackDec(p) PROVE TypeOK'
  BY DEF UntrackDec, TypeOK, PacketsType, CarriersType, CountersType, MapsType,
     TimersType, UntrackType, ContextType, UntrackSteps

\* Types are kept by the drain loop's wg.Done.
LEMMA TypeUntrackDrop == ASSUME TypeOK, NEW p \in Packets, UntrackDrop(p) PROVE TypeOK'
  BY DEF UntrackDrop, TypeOK, PacketsType, CarriersType, CountersType, MapsType,
     TimersType, UntrackType, ContextType, WgAdd, UntrackSteps

\* Types are kept by MutexMap.Del.
LEMMA TypeUntrackDel == ASSUME TypeOK, NEW p \in Packets, UntrackDel(p) PROVE TypeOK'
  BY DEF UntrackDel, TypeOK, PacketsType, CarriersType, CountersType, MapsType,
     TimersType, UntrackType, ContextType, UntrackSteps

\* Types are kept by an unblocker timer expiring.
LEMMA TypeUnblockerFires == ASSUME TypeOK, NEW t \in Tracked, UnblockerFires(t) PROVE TypeOK'
  BY DEF UnblockerFires, TypeOK, PacketsType, CarriersType, CountersType, MapsType,
     TimersType, UntrackType, ContextType, TimerStates

\* Types are kept by an unblocker's compare-and-swap.
LEMMA TypeUnblockerSwaps == ASSUME TypeOK, NEW t \in Tracked, UnblockerSwaps(t) PROVE TypeOK'
  BY DEF UnblockerSwaps, TypeOK, PacketsType, CarriersType, CountersType, MapsType,
     TimersType, UntrackType, ContextType, TimerStates

\* Types are kept by an unblocker's wg.Done.
LEMMA TypeUnblockerReleases ==
  ASSUME TypeOK, NEW t \in Tracked, UnblockerReleases(t) PROVE TypeOK'
<1>1. down' \in BOOLEAN
  BY DEF UnblockerReleases, TypeOK, ContextType
<1>2. CountersType'
  <2> DEFINE c == CarrierOf(t)
  <2>1. active' = [active EXCEPT ![c] = @ - 1] /\ UNCHANGED overdrawn
    BY Zenon DEF UnblockerReleases
  <2>2. WgAdd(c, -1) \/ UNCHANGED <<wg, woken>>
    BY Zenon DEF UnblockerReleases
  <2> HIDE DEF c
  <2>3. ASSUME NEW f, f \in [Packets -> Int]
        PROVE  [f EXCEPT ![c] = @ - 1] \in [Packets -> Int]
    <3>1. CASE c \in Packets
      BY <2>3, <3>1
    <3>2. CASE c \notin Packets
      <4>1. \A q \in Packets : [f EXCEPT ![c] = @ - 1][q] = f[q]
        BY <2>3, <3>2
      <4> QED
        BY Zenon, <2>3, <4>1
    <3> QED
      BY <3>1, <3>2
  <2>4. active' \in [Packets -> Int] /\ wg' \in [Packets -> Int]
    BY <2>1, <2>2, <2>3 DEF WgAdd, TypeOK, CountersType
  <2>5. woken' \subseteq Packets
    BY <2>2 DEF WgAdd, TypeOK, CountersType
  <2> QED
    BY <2>1, <2>4, <2>5 DEF TypeOK, CountersType
<1> QED
  BY <1>1, <1>2 DEF UnblockerReleases, TypeOK, PacketsType, CarriersType, MapsType,
     TimersType, UntrackType, ContextType, TimerStates

\* Types are kept by the reaper.
LEMMA TypeReap == ASSUME TypeOK, NEW p \in Packets, Reap(p) PROVE TypeOK'
  BY DEF Reap, TypeOK, PacketsType, CarriersType, CountersType, MapsType,
     TimersType, UntrackType, ContextType, ClearFlow, Deactivate, Forget, StoredIn, Drain, DrainSteps, WgAdd, TimerStates

\* Types are kept by cancellation.
LEMMA TypeCancel == ASSUME TypeOK, Cancel PROVE TypeOK'
  BY DEF Cancel, TypeOK, PacketsType, CarriersType, CountersType, MapsType,
     TimersType, UntrackType, ContextType

\* Types are kept by the drain loop run as a whole.
LEMMA TypeDrain ==
  ASSUME TypeOK, NEW c \in Packets, Drain(c), UNCHANGED overdrawn PROVE CountersType'
<1>1. DrainSteps(c) \in Int
  BY DEF DrainSteps, TypeOK, CountersType
<1> QED
  BY <1>1 DEF Drain, WgAdd, TypeOK, CountersType

\* Types are kept by the translator's done.
LEMMA TypeDone == ASSUME TypeOK, Done PROVE TypeOK'
<1>1. /\ TimersType' /\ MapsType' /\ CountersType'
      /\ \A t \in Tracked : timer'[t] # "none" => timer[t] # "none"
  <2>1. CASE mutexMap # None /\ mu[mutexMap] = None
    <3>1. mutexMap \in Packets
      BY <2>1 DEF TypeOK, CarriersType
    <3>2. ClearFlow /\ Drain(mutexMap) /\ requests' = {} /\ UNCHANGED overdrawn
      BY <2>1 DEF Done
    <3> QED
      BY <3>1, <3>2, TypeClearFlow, TypeDrain
  <2>2. CASE ~(mutexMap # None /\ mu[mutexMap] = None)
    BY <2>2 DEF Done, TypeOK, TimersType, MapsType, CountersType
  <2> QED
    BY <2>1, <2>2
<1> QED
  BY Zenon, <1>1 DEF Done, TypeOK, PacketsType, CarriersType, UntrackType, ContextType


\* Every step of the packets, timers, untrackings and reaper keeps the types.
LEMMA TypeNext == ASSUME TypeOK, [Next]_vars PROVE TypeOK'
<1>1. CASE UNCHANGED vars
  BY <1>1 DEF vars, TypeOK, PacketsType, CarriersType, CountersType, MapsType,
     TimersType, UntrackType, ContextType
<1>2. ASSUME NEW p \in Packets, PacketStep(p) PROVE TypeOK'
  BY <1>2, TypeArrive, TypeEnterWait, TypeResumeWait, TypeLock, TypeAnalyzePlain,
     TypeAnalyzeOpaque, TypeAnalyzeHTTP, TypeTrackRequest, TypeFindTraced,
     TypeRaiseWait, TypeSettleResponse, TypeSettled, TypeUnlock DEF PacketStep
<1>3. ASSUME NEW p \in Packets, UntrackStep(p) PROVE TypeOK'
  BY <1>3, TypeUntrackStart, TypeUntrackScan, TypeUntrackClear, TypeUntrackLoad,
     TypeUntrackDec, TypeUntrackDrop, TypeUntrackDel DEF UntrackStep
<1>4. ASSUME NEW t \in Tracked, UnblockerStep(t) PROVE TypeOK'
  BY <1>4, TypeUnblockerFires, TypeUnblockerSwaps, TypeUnblockerReleases DEF UnblockerStep
<1> QED
  BY <1>1, <1>2, <1>3, <1>4, TypeReap, TypeCancel, TypeDone DEF Next

\* Every reachable state is well typed, and every packet that called lock has
\* a carrier, for any set of packets, streams, traces and messages.
THEOREM TypeCorrect == Spec => []TypeOK
  BY TypeInit, TypeNext, PTL DEF Spec

-----------------------------------------------------------------------------
\* What follows from the types alone: the timers of active requests, and the one
\* untracking of a carrier.

\* No request is tracked initially.
LEMMA UnblockerInit == Init => ActiveHasUnblocker
  BY DEF Init, ActiveHasUnblocker

\* No step stops the unblocker of a request that stays active.
LEMMA UnblockerNext ==
  ASSUME TypeOK, ActiveHasUnblocker, [Next]_vars PROVE ActiveHasUnblocker'
<1>1. CASE UNCHANGED vars
  BY Zenon, <1>1 DEF vars, ActiveHasUnblocker
<1>2. ASSUME NEW p \in Packets, NEW s \in Streams, TrackRequest(p, s)
      PROVE  ActiveHasUnblocker'
  BY Zenon, <1>2 DEF TrackRequest, ActiveHasUnblocker, TypeOK, TimersType
<1>3. ASSUME NEW p \in Packets, SettleResponse(p) PROVE ActiveHasUnblocker'
  BY Zenon, <1>3 DEF SettleResponse, ActiveHasUnblocker, TypeOK, TimersType
<1>4. ASSUME Deactivate(flowStore) PROVE ActiveHasUnblocker'
  BY Zenon, <1>4 DEF Deactivate, ActiveHasUnblocker, TypeOK, TimersType
<1>5. ASSUME NEW t \in Tracked, UnblockerStep(t) PROVE ActiveHasUnblocker'
  BY Zenon, <1>5 DEF UnblockerStep, UnblockerFires, UnblockerSwaps, UnblockerReleases,
     ActiveHasUnblocker, TypeOK, TimersType
<1>6. ASSUME NEW p \in Packets, Unlock(p) \/ Reap(p) \/ UntrackScan(p) \/ Done
      PROVE  Deactivate(flowStore) \/ UNCHANGED timVars
  BY Zenon, <1>6 DEF Unlock, Reap, UntrackScan, Done, ClearFlow
<1>7. ASSUME UNCHANGED timVars PROVE ActiveHasUnblocker'
  BY <1>7 DEF ActiveHasUnblocker
<1>8. ASSUME NEW p \in Packets, PacketStep(p) PROVE ActiveHasUnblocker'
  BY Zenon, <1>2, <1>3, <1>4, <1>6, <1>7, <1>8 DEF PacketStep, Arrive, EnterWait, ResumeWait, Lock,
     AnalyzePlain, AnalyzeOpaque, AnalyzeHTTP, FindTraced, RaiseWait, Settled
<1>9. ASSUME NEW p \in Packets, UntrackStep(p) PROVE ActiveHasUnblocker'
  BY Zenon, <1>4, <1>6, <1>7, <1>9 DEF UntrackStep, UntrackStart, UntrackClear, UntrackLoad,
     UntrackDec, UntrackDrop, UntrackDel
<1>10. ASSUME Done PROVE ActiveHasUnblocker'
  BY Zenon, <1>4, <1>7, <1>10 DEF Done, ClearFlow
<1>11. ASSUME Cancel PROVE ActiveHasUnblocker'
  BY <1>7, <1>11 DEF Cancel
<1> QED
  BY <1>1, <1>4, <1>5, <1>6, <1>7, <1>8, <1>9, <1>10, <1>11 DEF Next

\* A tracked request that is still active has a timer that will still run its
\* compare-and-swap: none of response, untracking, reaper and done stops the
\* timer of an active request.
THEOREM UnblockerRemains == Spec => []ActiveHasUnblocker
  BY TypeCorrect, UnblockerInit, UnblockerNext, PTL DEF Spec

\* "just 1 must yield connection untracking": a carrier whose release was won
\* by one termination packet never has a second untracking scheduled.
THEOREM UntrackingScheduledOnce == Spec => OneUntracking
<1> DEFINE Once == \A c \in Packets : released[c] /\ rel[c] # "armed" => rel'[c] # "armed"
<1>1. ASSUME TypeOK, Next PROVE Once
  <2>1. ASSUME NEW p \in Packets, Unlock(p) PROVE Once
    <3>1. rel' = rel \/ (rel' = [rel EXCEPT ![carrier[p]] = "armed"] /\ ~released[carrier[p]])
      BY Zenon, <2>1 DEF Unlock, YieldsUntracking
    <3> QED
      BY <3>1, <1>1 DEF TypeOK, UntrackType
  <2>2. ASSUME NEW p \in Packets, UntrackStep(p) PROVE Once
    BY Zenon, <2>2, <1>1 DEF UntrackStep, UntrackStart, UntrackScan, UntrackClear, UntrackLoad,
       UntrackDec, UntrackDrop, UntrackDel, TypeOK, UntrackType
  <2>3. ASSUME UNCHANGED rel PROVE Once
    BY Zenon, <2>3
  <2>4. ASSUME NEW p \in Packets, PacketStep(p), ~Unlock(p) PROVE UNCHANGED rel
    BY Zenon, <2>4 DEF PacketStep, Arrive, EnterWait, ResumeWait, Lock, AnalyzePlain,
       AnalyzeOpaque, AnalyzeHTTP, TrackRequest, FindTraced, RaiseWait, SettleResponse, Settled
  <2>5. ASSUME NEW p \in Packets, Reap(p) PROVE UNCHANGED rel
    BY Zenon, <2>5 DEF Reap
  <2>6. ASSUME NEW t \in Tracked, UnblockerStep(t) PROVE UNCHANGED rel
    BY Zenon, <2>6 DEF UnblockerStep, UnblockerFires, UnblockerSwaps, UnblockerReleases
  <2>7. Cancel \/ Done => UNCHANGED rel
    BY Zenon DEF Cancel, Done
  <2> HIDE DEF Once
  <2> QED
    BY <1>1, <2>1, <2>2, <2>3, <2>4, <2>5, <2>6, <2>7 DEF Next
<1>2. TypeOK /\ [Next]_vars => [Once]_vars
  BY <1>1
<1> QED
  BY <1>2, TypeCorrect, PTL DEF Spec, OneUntracking

USE DEF pktVars, carVars, cntVars, mapVars, timVars, relVars, ctxVars

\* The mutex of a carrier is held by a packet of that carrier, between its
\* Lock and its Unlock, or by one that panicked in between.
HolderInv ==
  /\ \A c \in Packets : mu[c] # None =>
       carrier[mu[c]] = c /\ pc[mu[c]] \in Holding \cup {"failed"}
  /\ \A p \in Packets : pc[p] \in Holding => mu[carrier[p]] = p

\* WaitCoversActive is not inductive alone: the pending wg.Add of a carrier is
\* that of the one packet holding its mutex.
IInv == TypeOK /\ HolderInv /\ WaitCoversActive

\* The types of the counters, of the untracking and of a packet's step.
LEMMA InvTypes ==
  ASSUME IInv
  PROVE  /\ wg \in [Packets -> Int] /\ active \in [Packets -> Int]
         /\ overdrawn \in [Packets -> BOOLEAN] /\ rel \in [Packets -> UntrackSteps]
BY Zenon DEF IInv, TypeOK, CountersType, UntrackType

\* The holder of a mutex keeps it through the steps between Lock and Unlock,
\* and a panic there leaves it locked.
LEMMA HolderStep ==
  ASSUME IInv, NEW p \in Packets, pc[p] \in Holding,
         pc'[p] \in Holding \cup {"failed"},
         \A q \in Packets \ {p} : pc'[q] = pc[q], UNCHANGED <<carrier, mu>>
  PROVE  HolderInv'
<1>1. \A q \in Packets : pc'[q] \in Holding => pc[q] \in Holding
  BY DEF IInv, TypeOK, PacketsType
<1>2. \A q \in Packets : pc[q] \in Holding \cup {"failed"} => pc'[q] \in Holding \cup {"failed"}
  BY DEF IInv, TypeOK, PacketsType
<1>3. \A c \in Packets : mu[c] # None => mu[c] \in Packets
  BY DEF IInv, TypeOK, CarriersType
<1> QED
  BY <1>1, <1>2, <1>3 DEF IInv, HolderInv

\* A step of the holder of a mutex changes the pending wg.Add of its own
\* carrier only, and there it is pending exactly at "raise".
LEMMA HolderPending ==
  ASSUME IInv, NEW p \in Packets, pc[p] \in Holding,
         \A q \in Packets \ {p} : pc'[q] = pc[q], UNCHANGED <<carrier, mu>>
  PROVE  /\ carrier[p] \in Packets
         /\ \A c \in Packets : c # carrier[p] => PendingAdd(c)' = PendingAdd(c)
         /\ PendingAdd(carrier[p]) = IF pc[p] = "raise" THEN 1 ELSE 0
         /\ PendingAdd(carrier[p])' = IF pc'[p] = "raise" THEN 1 ELSE 0
<1>1. carrier[p] \in Packets /\ mu[carrier[p]] = p /\ p # None
  BY ConstantsAssumption DEF IInv, TypeOK, HolderInv, Holding
<1>2. \A q \in Packets : q # p => pc'[q] = pc[q]
  OBVIOUS
<1>3. \A c \in Packets : mu[c] # None => mu[c] \in Packets /\ (mu[c] = p => c = carrier[p])
  BY DEF IInv, TypeOK, CarriersType, HolderInv
<1>4. ASSUME NEW c \in Packets, c # carrier[p] PROVE PendingAdd(c)' = PendingAdd(c)
  <2>1. CASE mu[c] = None
    BY <2>1 DEF PendingAdd
  <2>2. CASE mu[c] # None
    <3>1. mu[c] \in Packets /\ mu[c] # p
      BY <1>3, <1>4, <2>2
    <3> QED
      BY <1>2, <3>1 DEF PendingAdd
  <2> QED
    BY <2>1, <2>2
<1>5. PendingAdd(carrier[p]) = IF pc[p] = "raise" THEN 1 ELSE 0
  BY <1>1 DEF PendingAdd
<1>6. PendingAdd(carrier[p])' = IF pc'[p] = "raise" THEN 1 ELSE 0
  BY <1>1 DEF PendingAdd
<1> QED
  BY <1>1, <1>4, <1>5, <1>6

\* The two pending counts are numbers.
LEMMA PendingInt ==
  \A c \in Packets : /\ PendingAdd(c) \in Int /\ PendingAdd(c)' \in Int
                     /\ PendingDone(c) \in Int /\ PendingDone(c)' \in Int
  BY DEF PendingAdd, PendingDone

\* A step that touches the counters of one carrier only keeps
\* WaitCoversActive when it keeps it for that carrier.
LEMMA CoverElsewhere ==
  ASSUME IInv, NEW c \in Packets,
         \A d \in Packets : d # c =>
            /\ wg'[d] = wg[d] /\ active'[d] = active[d] /\ overdrawn'[d] = overdrawn[d]
            /\ PendingAdd(d)' = PendingAdd(d) /\ PendingDone(d)' = PendingDone(d),
         ~overdrawn'[c] =>
            /\ wg'[c] + PendingAdd(c)' - PendingDone(c)' >= 0
            /\ wg'[c] + PendingAdd(c)' - PendingDone(c)' >= active'[c]
  PROVE  WaitCoversActive'
<1>1. SUFFICES ASSUME NEW d \in Packets, ~overdrawn'[d]
               PROVE  /\ wg'[d] + PendingAdd(d)' - PendingDone(d)' >= 0
                      /\ wg'[d] + PendingAdd(d)' - PendingDone(d)' >= active'[d]
  BY DEF WaitCoversActive
<1>2. CASE d = c
  BY <1>1, <1>2
<1>3. CASE d # c
  BY <1>1, <1>3 DEF IInv, WaitCoversActive
<1> QED
  BY <1>2, <1>3

\* WaitCoversActive is kept by a step that leaves counters and mutexes alone.
LEMMA CoverKept ==
  ASSUME IInv, UNCHANGED <<pc, carrier, mu, wg, active, overdrawn>>,
         \A c \in Packets : rel'[c] = "drop" <=> rel[c] = "drop"
  PROVE  HolderInv' /\ WaitCoversActive'
<1>1. HolderInv'
  BY Zenon DEF IInv, HolderInv
<1>2. \A c \in Packets : PendingAdd(c)' = PendingAdd(c) /\ PendingDone(c)' = PendingDone(c)
  BY DEF PendingAdd, PendingDone
<1>3. WaitCoversActive'
  BY Zenon, <1>2 DEF IInv, WaitCoversActive
<1> QED
  BY Zenon, <1>1, <1>3

\* WaitCoversActive is kept by lock getting or creating the carrier.
LEMMA CoverArrive ==
  ASSUME IInv, NEW p \in Packets, Arrive(p)
  PROVE  HolderInv' /\ WaitCoversActive'
  BY ConstantsAssumption DEF IInv, Arrive, HolderInv, WaitCoversActive, PendingAdd, PendingDone, Holding,
     TypeOK, PacketsType, CarriersType, CountersType, UntrackType, PacketSteps, UntrackSteps, GetCarrier

\* WaitCoversActive is kept by a termination calling wg.Wait.
LEMMA CoverEnterWait ==
  ASSUME IInv, NEW p \in Packets, EnterWait(p)
  PROVE  HolderInv' /\ WaitCoversActive'
  BY ConstantsAssumption DEF IInv, EnterWait, HolderInv, WaitCoversActive, PendingAdd, PendingDone, Holding,
     TypeOK, PacketsType, CarriersType, CountersType, UntrackType, PacketSteps, UntrackSteps

\* WaitCoversActive is kept by wg.Wait returning.
LEMMA CoverResumeWait ==
  ASSUME IInv, NEW p \in Packets, ResumeWait(p)
  PROVE  HolderInv' /\ WaitCoversActive'
  BY ConstantsAssumption DEF IInv, ResumeWait, HolderInv, WaitCoversActive, PendingAdd, PendingDone, Holding,
     TypeOK, PacketsType, CarriersType, CountersType, UntrackType, PacketSteps, UntrackSteps

\* WaitCoversActive is kept by mu.Lock.
LEMMA CoverLock ==
  ASSUME IInv, NEW p \in Packets, Lock(p)
  PROVE  HolderInv' /\ WaitCoversActive'
  BY ConstantsAssumption DEF IInv, Lock, HolderInv, WaitCoversActive, PendingAdd, PendingDone, Holding,
     TypeOK, PacketsType, CarriersType, CountersType, UntrackType, PacketSteps, UntrackSteps

\* WaitCoversActive is kept when the holder of a mutex leaves the critical
\* section without having changed a counter.
LEMMA CoverCrit ==
  ASSUME IInv, NEW p \in Packets, pc[p] = "crit",
         pc' = [pc EXCEPT ![p] = "failed"] \/ pc' = [pc EXCEPT ![p] = "unlock"],
         UNCHANGED <<carrier, mu, wg, active, overdrawn, rel>>
  PROVE  HolderInv' /\ WaitCoversActive'
<1>1. pc \in [Packets -> PacketSteps]
  BY Zenon DEF IInv, TypeOK, PacketsType
<1>2. /\ pc'[p] \in {"failed", "unlock"} /\ pc[p] \in Holding /\ pc'[p] \in Holding \cup {"failed"}
      /\ \A q \in Packets \ {p} : pc'[q] = pc[q]
  BY <1>1 DEF Holding
<1>3. HolderInv'
  BY Zenon, <1>2, HolderStep
<1>4. \A c \in Packets : mu[c] # None => mu[c] \in Packets
  BY Zenon DEF IInv, TypeOK, CarriersType
<1>5. \A c \in Packets : PendingAdd(c)' = PendingAdd(c) /\ PendingDone(c)' = PendingDone(c)
  BY <1>2, <1>4 DEF PendingAdd, PendingDone
<1> QED
  BY Zenon, <1>3, <1>5 DEF IInv, WaitCoversActive

\* WaitCoversActive is kept by a packet without HTTP data.
LEMMA CoverAnalyzePlain ==
  ASSUME IInv, NEW p \in Packets, AnalyzePlain(p)
  PROVE  HolderInv' /\ WaitCoversActive'
<1>1. pc' = [pc EXCEPT ![p] = "failed"] \/ pc' = [pc EXCEPT ![p] = "unlock"]
  BY Zenon DEF AnalyzePlain
<1>2. pc[p] = "crit" /\ UNCHANGED <<carrier, mu, wg, active, overdrawn, rel>>
  BY Zenon DEF AnalyzePlain
<1> QED
  BY Zenon, <1>1, <1>2, CoverCrit

\* WaitCoversActive is kept by data that is not HTTP.
LEMMA CoverAnalyzeOpaque ==
  ASSUME IInv, NEW p \in Packets, AnalyzeOpaque(p)
  PROVE  HolderInv' /\ WaitCoversActive'
<1>1. /\ pc[p] = "crit" /\ pc' = [pc EXCEPT ![p] = "unlock"]
      /\ UNCHANGED <<carrier, mu, wg, active, overdrawn, rel>>
  BY Zenon DEF AnalyzeOpaque
<1> QED
  BY Zenon, <1>1, CoverCrit

\* WaitCoversActive is kept by trySetHTTP.
LEMMA CoverAnalyzeHTTP ==
  ASSUME IInv, NEW p \in Packets, AnalyzeHTTP(p)
  PROVE  HolderInv' /\ WaitCoversActive'
  BY ConstantsAssumption DEF IInv, AnalyzeHTTP, HolderInv, WaitCoversActive, PendingAdd, PendingDone, Holding,
     TypeOK, PacketsType, CarriersType, CountersType, UntrackType, PacketSteps, UntrackSteps

\* WaitCoversActive is kept by trackConnection and activeRequests.Add(1).
LEMMA CoverTrackRequest ==
  ASSUME IInv, NEW p \in Packets, NEW s \in Streams, TrackRequest(p, s)
  PROVE  HolderInv' /\ WaitCoversActive'
<1>0. PICK c \in Packets : c = carrier[p]
  BY Zenon DEF IInv, TypeOK, TrackRequest
<1>1. /\ pc[p] = "settle"
      /\ pc' = [pc EXCEPT ![p] = IF active[c] + 1 > 0 THEN "raise" ELSE "settle"]
      /\ active' = [active EXCEPT ![c] = @ + 1]
      /\ UNCHANGED <<carrier, mu, wg, overdrawn, rel>>
  BY Zenon, <1>0 DEF TrackRequest
<1>2. /\ pc'[p] = IF active[c] + 1 > 0 THEN "raise" ELSE "settle"
      /\ \A q \in Packets \ {p} : pc'[q] = pc[q]
      /\ pc[p] \in Holding /\ pc'[p] \in Holding \cup {"failed"}
  BY <1>1 DEF IInv, TypeOK, PacketsType, Holding
<1>3. HolderInv'
  BY <1>1, <1>2, HolderStep
<1>4. /\ \A d \in Packets : d # c => PendingAdd(d)' = PendingAdd(d)
      /\ PendingAdd(c) = 0 /\ PendingAdd(c)' = IF active[c] + 1 > 0 THEN 1 ELSE 0
  BY <1>0, <1>1, <1>2, HolderPending
<1>5. \A d \in Packets : PendingDone(d)' = PendingDone(d)
  BY <1>1 DEF PendingDone
<1>6. /\ active[c] \in Int /\ wg[c] \in Int /\ active'[c] = active[c] + 1
      /\ \A d \in Packets : d # c => active'[d] = active[d]
  BY <1>1, InvTypes
<1>7. ~overdrawn[c] => wg[c] - PendingDone(c) >= 0 /\ wg[c] - PendingDone(c) >= active[c]
  BY <1>4, <1>6, PendingInt DEF IInv, WaitCoversActive
<1>8. ~overdrawn'[c] => /\ wg'[c] + PendingAdd(c)' - PendingDone(c)' >= 0
                        /\ wg'[c] + PendingAdd(c)' - PendingDone(c)' >= active'[c]
  BY <1>1, <1>4, <1>5, <1>6, <1>7, PendingInt
<1>9. WaitCoversActive'
  BY <1>1, <1>4, <1>5, <1>6, <1>8, CoverElsewhere
<1> QED
  BY <1>3, <1>9

\* WaitCoversActive is kept by wg.Add(1) for a request.
LEMMA CoverRaiseWait ==
  ASSUME IInv, NEW p \in Packets, RaiseWait(p)
  PROVE  HolderInv' /\ WaitCoversActive'
<1>0. PICK c \in Packets : c = carrier[p]
  BY Zenon DEF IInv, TypeOK, RaiseWait
<1>1. /\ pc[p] = "raise" /\ pc' = [pc EXCEPT ![p] = "settle"]
      /\ wg' = [wg EXCEPT ![c] = @ + 1]
      /\ UNCHANGED <<carrier, mu, active, overdrawn, rel>>
  BY Zenon, <1>0 DEF RaiseWait, WgAdd
<1>2. /\ pc'[p] = "settle" /\ \A q \in Packets \ {p} : pc'[q] = pc[q]
      /\ pc[p] \in Holding /\ pc'[p] \in Holding \cup {"failed"}
  BY <1>1 DEF IInv, TypeOK, PacketsType, Holding
<1>3. HolderInv'
  BY <1>1, <1>2, HolderStep
<1>4. /\ \A d \in Packets : d # c => PendingAdd(d)' = PendingAdd(d)
      /\ PendingAdd(c) = 1 /\ PendingAdd(c)' = 0
  BY <1>0, <1>1, <1>2, HolderPending
<1>5. \A d \in Packets : PendingDone(d)' = PendingDone(d)
  BY <1>1 DEF PendingDone
<1>6. /\ active[c] \in Int /\ wg[c] \in Int /\ wg'[c] = wg[c] + 1
      /\ \A d \in Packets : d # c => wg'[d] = wg[d]
  BY <1>1, InvTypes
<1>7. ~overdrawn'[c] => /\ wg'[c] + PendingAdd(c)' - PendingDone(c)' >= 0
                        /\ wg'[c] + PendingAdd(c)' - PendingDone(c)' >= active'[c]
  BY <1>1, <1>4, <1>5, <1>6, PendingInt DEF IInv, WaitCoversActive
<1>8. WaitCoversActive'
  BY <1>1, <1>4, <1>5, <1>6, <1>7, CoverElsewhere
<1> QED
  BY <1>3, <1>8

\* WaitCoversActive is kept by a response's lookup.
LEMMA CoverFindTraced ==
  ASSUME IInv, NEW p \in Packets, NEW s \in Streams, FindTraced(p, s)
  PROVE  HolderInv' /\ WaitCoversActive'
<1>1. pc' = [pc EXCEPT ![p] = "response"] \/ UNCHANGED pc
  BY DEF FindTraced
<1>2. pc[p] = "settle" /\ UNCHANGED <<carrier, mu, wg, active, overdrawn, rel>>
  BY DEF FindTraced
<1>3. HolderInv'
  <2>1. \A q \in Packets : pc'[q] \in Holding <=> pc[q] \in Holding
    BY <1>1, <1>2 DEF IInv, Holding, TypeOK, PacketsType
  <2>2. \A q \in Packets : pc'[q] = "failed" <=> pc[q] = "failed"
    BY <1>1, <1>2 DEF IInv, TypeOK, PacketsType
  <2>3. \A c \in Packets : mu[c] # None => mu[c] \in Packets
    BY DEF IInv, TypeOK, CarriersType
  <2> QED
    BY <1>2, <2>1, <2>2, <2>3 DEF IInv, HolderInv
<1>4. \A c \in Packets : PendingAdd(c)' = PendingAdd(c) /\ PendingDone(c)' = PendingDone(c)
  BY <1>1, <1>2 DEF IInv, PendingAdd, PendingDone, TypeOK, PacketsType, CarriersType
<1> QED
  BY Zenon, <1>2, <1>3, <1>4 DEF IInv, WaitCoversActive

\* WaitCoversActive is kept by a response ending its request.
LEMMA CoverSettleResponse ==
  ASSUME IInv, NEW p \in Packets, SettleResponse(p)
  PROVE  HolderInv' /\ WaitCoversActive'
<1>0. PICK c \in Packets : c = carrier[p]
  BY DEF IInv, TypeOK, SettleResponse
<1>1. /\ pc[p] = "response"
      /\ pc' = [pc EXCEPT ![p] = "failed"] \/ pc' = [pc EXCEPT ![p] = "settle"]
      /\ active' = [active EXCEPT ![c] = @ - 1]
      /\ UNCHANGED <<carrier, mu, overdrawn, rel>>
  BY Zenon, <1>0 DEF SettleResponse
<1>2. wg' = wg \/ (wg' = [wg EXCEPT ![c] = @ - 1] /\ active[c] >= 1)
  BY Zenon, <1>0 DEF SettleResponse, WgAdd
<1>3. /\ pc'[p] \in {"failed", "settle"} /\ \A q \in Packets \ {p} : pc'[q] = pc[q]
      /\ pc[p] \in Holding /\ pc'[p] \in Holding \cup {"failed"}
  BY <1>1 DEF IInv, TypeOK, PacketsType, Holding
<1>4. HolderInv'
  BY <1>1, <1>3, HolderStep
<1>5. /\ \A d \in Packets : d # c => PendingAdd(d)' = PendingAdd(d)
      /\ PendingAdd(c) = 0 /\ PendingAdd(c)' = 0
  BY <1>0, <1>1, <1>3, HolderPending
<1>6. \A d \in Packets : PendingDone(d)' = PendingDone(d)
  BY <1>1 DEF PendingDone
<1>7. /\ active[c] \in Int /\ wg[c] \in Int /\ active'[c] = active[c] - 1
      /\ wg'[c] = wg[c] \/ (wg'[c] = wg[c] - 1 /\ active[c] >= 1)
      /\ \A d \in Packets : d # c => active'[d] = active[d] /\ wg'[d] = wg[d]
  BY <1>1, <1>2, InvTypes
<1>8. ~overdrawn[c] => wg[c] - PendingDone(c) >= 0 /\ wg[c] - PendingDone(c) >= active[c]
  BY <1>5, <1>7, PendingInt DEF IInv, WaitCoversActive
<1>9. ~overdrawn'[c] => /\ wg'[c] + PendingAdd(c)' - PendingDone(c)' >= 0
                        /\ wg'[c] + PendingAdd(c)' - PendingDone(c)' >= active'[c]
  BY <1>1, <1>5, <1>6, <1>7, <1>8, PendingInt
<1>10. WaitCoversActive'
  BY Zenon, <1>1, <1>5, <1>6, <1>7, <1>9, CoverElsewhere
<1> QED
  BY <1>4, <1>10

\* WaitCoversActive is kept by the end of the accounting.
LEMMA CoverSettled ==
  ASSUME IInv, NEW p \in Packets, Settled(p)
  PROVE  HolderInv' /\ WaitCoversActive'
  BY ConstantsAssumption DEF IInv, Settled, HolderInv, WaitCoversActive, PendingAdd, PendingDone, Holding,
     TypeOK, PacketsType, CarriersType, CountersType, UntrackType, PacketSteps, UntrackSteps

\* WaitCoversActive is kept by UnlockWithTCPFlags.
LEMMA CoverUnlock ==
  ASSUME IInv, NEW p \in Packets, Unlock(p)
  PROVE  HolderInv' /\ WaitCoversActive'
<1> DEFINE c == carrier[p]
<1>1. /\ mu' = [mu EXCEPT ![c] = None]
      /\ UNCHANGED <<carrier, wg, active, overdrawn>>
      /\ pc[p] = "unlock"
  BY DEF Unlock, ReleaseMutex
<1>2. pc' = [pc EXCEPT ![p] = "failed"] \/ pc' = [pc EXCEPT ![p] = "done"]
  BY Zenon DEF Unlock
<1>3. c \in Packets /\ mu[c] = p
  BY <1>1 DEF IInv, TypeOK, HolderInv, Holding
<1>4. rel' = rel \/ rel' = [rel EXCEPT ![c] = "armed"]
  BY Zenon DEF Unlock
<1>5. HolderInv'
  BY <1>1, <1>2, <1>3, ConstantsAssumption DEF IInv, HolderInv, Holding, TypeOK,
     PacketsType, CarriersType, PacketSteps
<1>6. \A d \in Packets : PendingAdd(d)' = PendingAdd(d) /\ PendingDone(d)' <= PendingDone(d)
  BY <1>1, <1>2, <1>3, <1>4, ConstantsAssumption DEF IInv, HolderInv, PendingAdd,
     PendingDone, Holding, TypeOK, PacketsType, CarriersType, UntrackType, PacketSteps
<1>7. \A d \in Packets : PendingAdd(d) \in Int /\ PendingDone(d) \in Int /\ PendingDone(d)' \in Int
  BY DEF PendingAdd, PendingDone
<1> QED
  BY <1>1, <1>5, <1>6, <1>7 DEF IInv, WaitCoversActive, TypeOK, CountersType

-----------------------------------------------------------------------------
\* WaitCoversActive is kept by the delayed untracking starting.
LEMMA CoverUntrackStart ==
  ASSUME IInv, NEW p \in Packets, UntrackStart(p)
  PROVE  HolderInv' /\ WaitCoversActive'
<1>1. UNCHANGED <<pc, carrier, mu, wg, active, overdrawn>>
  BY Zenon DEF UntrackStart
<1>2. \A c \in Packets : rel'[c] = "drop" <=> rel[c] = "drop"
  BY InvTypes DEF UntrackStart
<1> QED
  BY Zenon, <1>1, <1>2, CoverKept

\* WaitCoversActive is kept by untrackConnection's scan.
LEMMA CoverUntrackScan ==
  ASSUME IInv, NEW p \in Packets, UntrackScan(p)
  PROVE  HolderInv' /\ WaitCoversActive'
<1>1. UNCHANGED <<pc, carrier, mu, wg, active, overdrawn>>
  BY Zenon DEF UntrackScan
<1>2. \A c \in Packets : rel'[c] = "drop" <=> rel[c] = "drop"
  BY InvTypes DEF UntrackScan
<1> QED
  BY Zenon, <1>1, <1>2, CoverKept

\* WaitCoversActive is kept by untrackConnection deleting the streams.
LEMMA CoverUntrackClear ==
  ASSUME IInv, NEW p \in Packets, UntrackClear(p)
  PROVE  HolderInv' /\ WaitCoversActive'
<1>1. UNCHANGED <<pc, carrier, mu, wg, active, overdrawn>>
  BY Zenon DEF UntrackClear
<1>2. \A c \in Packets : rel'[c] = "drop" <=> rel[c] = "drop"
  BY Zenon, InvTypes DEF UntrackClear
<1> QED
  BY Zenon, <1>1, <1>2, CoverKept

\* WaitCoversActive is kept by the drain loop's test.
LEMMA CoverUntrackLoad ==
  ASSUME IInv, NEW p \in Packets, UntrackLoad(p)
  PROVE  HolderInv' /\ WaitCoversActive'
<1>1. UNCHANGED <<pc, carrier, mu, wg, active, overdrawn>>
  BY Zenon DEF UntrackLoad
<1>2. \A c \in Packets : rel'[c] = "drop" <=> rel[c] = "drop"
  BY InvTypes DEF UntrackLoad
<1> QED
  BY Zenon, <1>1, <1>2, CoverKept

\* WaitCoversActive is kept by the drain loop's decrement.
LEMMA CoverUntrackDec ==
  ASSUME IInv, NEW p \in Packets, UntrackDec(p)
  PROVE  HolderInv' /\ WaitCoversActive'
<1>1. HolderInv'
  BY Zenon DEF IInv, UntrackDec, HolderInv
<1>2. \A c \in Packets : PendingAdd(c)' = PendingAdd(c) /\ PendingAdd(c) \in Int
  <2>1. UNCHANGED <<pc, carrier, mu>>
    BY Zenon DEF UntrackDec
  <2> QED
    BY <2>1 DEF PendingAdd
<1>3. \A c \in Packets : c # p => /\ PendingDone(c)' = PendingDone(c)
                                  /\ PendingDone(c) \in Int
                                  /\ active'[c] = active[c] /\ overdrawn'[c] = overdrawn[c]
  BY InvTypes DEF UntrackDec, PendingDone
<1>4. PendingDone(p) = 0 /\ PendingDone(p)' = 1
  BY DEF IInv, UntrackDec, PendingDone, TypeOK, UntrackType
<1>5. active'[p] = active[p] - 1 /\ (~overdrawn'[p] => ~overdrawn[p] /\ active[p] >= 1)
  <2>1. overdrawn'[p] = (overdrawn[p] \/ active[p] <= 0)
    BY InvTypes DEF UntrackDec
  <2>2. active'[p] = active[p] - 1 /\ active[p] \in Int
    BY InvTypes DEF UntrackDec
  <2>3. ~(active[p] <= 0) => active[p] >= 1
    BY <2>2
  <2> QED
    BY Zenon, <2>1, <2>2, <2>3
<1>6. UNCHANGED wg
  BY DEF UntrackDec
<1>7. wg[p] \in Int /\ active[p] \in Int
  BY InvTypes
<1>8. ~overdrawn[p] => /\ wg[p] + PendingAdd(p) - PendingDone(p) >= 0
                       /\ wg[p] + PendingAdd(p) - PendingDone(p) >= active[p]
  BY Zenon DEF IInv, WaitCoversActive
<1>9. ~overdrawn'[p] => /\ wg'[p] + PendingAdd(p)' - PendingDone(p)' >= 0
                        /\ wg'[p] + PendingAdd(p)' - PendingDone(p)' >= active'[p]
  BY <1>2, <1>4, <1>5, <1>6, <1>7, <1>8
<1>10. WaitCoversActive'
  BY Zenon, <1>2, <1>3, <1>6, <1>9, CoverElsewhere
<1> QED
  BY <1>1, <1>10

\* WaitCoversActive is kept by the drain loop's wg.Done.
LEMMA CoverUntrackDrop ==
  ASSUME IInv, NEW p \in Packets, UntrackDrop(p)
  PROVE  HolderInv' /\ WaitCoversActive'
<1>1. /\ rel[p] = "drop" /\ wg' = [wg EXCEPT ![p] = @ - 1]
      /\ rel' = [rel EXCEPT ![p] = "load"] \/ rel' = [rel EXCEPT ![p] = "end"]
      /\ UNCHANGED <<pc, carrier, mu, active, overdrawn>>
  BY Zenon DEF UntrackDrop, WgAdd
<1>2. HolderInv'
  BY <1>1 DEF IInv, HolderInv
<1>3. \A d \in Packets : PendingAdd(d)' = PendingAdd(d)
  BY <1>1 DEF PendingAdd
<1>4. /\ PendingDone(p) = 1 /\ PendingDone(p)' = 0
      /\ \A d \in Packets : d # p => PendingDone(d)' = PendingDone(d)
  BY <1>1 DEF PendingDone, IInv, TypeOK, UntrackType
<1>5. /\ wg[p] \in Int /\ active[p] \in Int /\ wg'[p] = wg[p] - 1
      /\ \A d \in Packets : d # p => wg'[d] = wg[d]
  BY <1>1, InvTypes
<1>6. ~overdrawn'[p] => /\ wg'[p] + PendingAdd(p)' - PendingDone(p)' >= 0
                        /\ wg'[p] + PendingAdd(p)' - PendingDone(p)' >= active'[p]
  BY <1>1, <1>3, <1>4, <1>5, PendingInt DEF IInv, WaitCoversActive
<1>7. WaitCoversActive'
  BY <1>1, <1>3, <1>4, <1>5, <1>6, CoverElsewhere
<1> QED
  BY <1>2, <1>7

\* WaitCoversActive is kept by MutexMap.Del.
LEMMA CoverUntrackDel ==
  ASSUME IInv, NEW p \in Packets, UntrackDel(p)
  PROVE  HolderInv' /\ WaitCoversActive'
<1>1. UNCHANGED <<pc, carrier, mu, wg, active, overdrawn>>
  BY Zenon DEF UntrackDel
<1>2. \A c \in Packets : rel'[c] = "drop" <=> rel[c] = "drop"
  BY InvTypes DEF UntrackDel
<1> QED
  BY Zenon, <1>1, <1>2, CoverKept

\* WaitCoversActive is kept by an unblocker timer expiring.
LEMMA CoverUnblockerFires ==
  ASSUME IInv, NEW t \in Tracked, UnblockerFires(t)
  PROVE  HolderInv' /\ WaitCoversActive'
<1>1. UNCHANGED <<pc, carrier, mu, wg, active, overdrawn>>
  BY Zenon DEF UnblockerFires
<1>2. \A c \in Packets : rel'[c] = "drop" <=> rel[c] = "drop"
  BY InvTypes DEF UnblockerFires
<1> QED
  BY Zenon, <1>1, <1>2, CoverKept

\* WaitCoversActive is kept by an unblocker's compare-and-swap.
LEMMA CoverUnblockerSwaps ==
  ASSUME IInv, NEW t \in Tracked, UnblockerSwaps(t)
  PROVE  HolderInv' /\ WaitCoversActive'
<1>1. UNCHANGED <<pc, carrier, mu, wg, active, overdrawn>>
  BY Zenon DEF UnblockerSwaps
<1>2. \A c \in Packets : rel'[c] = "drop" <=> rel[c] = "drop"
  BY InvTypes DEF UnblockerSwaps
<1> QED
  BY Zenon, <1>1, <1>2, CoverKept

\* WaitCoversActive is kept by an unblocker's wg.Done.
LEMMA CoverUnblockerReleases ==
  ASSUME IInv, NEW t \in Tracked, UnblockerReleases(t)
  PROVE  HolderInv' /\ WaitCoversActive'
<1>0. PICK c \in Packets : c = carrier[t[1]]
  BY DEF IInv, TypeOK, UnblockerReleases, Tracked
<1>1. /\ mu[c] = None /\ active' = [active EXCEPT ![c] = @ - 1]
      /\ wg' = wg \/ (wg' = [wg EXCEPT ![c] = @ - 1] /\ active[c] >= 1)
      /\ UNCHANGED <<pc, carrier, mu, overdrawn, rel>>
  BY Zenon, <1>0 DEF UnblockerReleases, CarrierOf, WgAdd
<1>2. HolderInv'
  BY <1>1 DEF IInv, HolderInv
<1>3. /\ \A d \in Packets : PendingAdd(d)' = PendingAdd(d) /\ PendingDone(d)' = PendingDone(d)
      /\ PendingAdd(c) = 0
  BY <1>1 DEF PendingAdd, PendingDone
<1>4. /\ active[c] \in Int /\ wg[c] \in Int /\ active'[c] = active[c] - 1
      /\ wg'[c] = wg[c] \/ (wg'[c] = wg[c] - 1 /\ active[c] >= 1)
      /\ \A d \in Packets : d # c => active'[d] = active[d] /\ wg'[d] = wg[d]
  BY <1>1, InvTypes
<1>5. ~overdrawn[c] => wg[c] - PendingDone(c) >= 0 /\ wg[c] - PendingDone(c) >= active[c]
  BY <1>3, <1>4, PendingInt DEF IInv, WaitCoversActive
<1>6. ~overdrawn'[c] => /\ wg'[c] + PendingAdd(c)' - PendingDone(c)' >= 0
                        /\ wg'[c] + PendingAdd(c)' - PendingDone(c)' >= active'[c]
  BY <1>1, <1>3, <1>4, <1>5, PendingInt
<1>7. WaitCoversActive'
  BY <1>1, <1>3, <1>4, <1>6, CoverElsewhere
<1> QED
  BY <1>2, <1>7

\* WaitCoversActive is kept by the reaper.
LEMMA CoverReap ==
  ASSUME IInv, NEW p \in Packets, Reap(p)
  PROVE  HolderInv' /\ WaitCoversActive'
<1>1. mu[p] = None /\ rel[p] # "drop" /\ UNCHANGED <<pc, carrier, mu, overdrawn, rel>>
  BY Zenon DEF Reap
<1>2. HolderInv'
  BY Zenon, <1>1 DEF IInv, HolderInv
<1>3. /\ \A d \in Packets : PendingAdd(d)' = PendingAdd(d) /\ PendingDone(d)' = PendingDone(d)
      /\ PendingAdd(p) = 0 /\ PendingDone(p) = 0
  BY <1>1 DEF PendingAdd, PendingDone
<1>4. /\ active[p] \in Int /\ wg[p] \in Int /\ DrainSteps(p) \in Int
      /\ active'[p] = active[p] - DrainSteps(p) /\ wg'[p] = wg[p] - DrainSteps(p)
      /\ \A d \in Packets : d # p => active'[d] = active[d] /\ wg'[d] = wg[d]
  <2>1. DrainSteps(p) \in Int /\ active[p] \in Int /\ wg[p] \in Int
    BY InvTypes DEF DrainSteps
  <2>2. active \in [Packets -> Int] /\ wg \in [Packets -> Int]
    BY InvTypes
  <2>3. /\ active' = [active EXCEPT ![p] = @ - DrainSteps(p)]
        /\ IF DrainSteps(p) = 0 THEN wg' = wg
           ELSE wg' = [wg EXCEPT ![p] = @ + (0 - DrainSteps(p))]
    BY Zenon DEF Reap, Drain, WgAdd
  <2> QED
    BY <2>1, <2>2, <2>3
<1>5. ~overdrawn[p] => wg[p] >= 0 /\ wg[p] >= active[p]
  <2>1. ~overdrawn[p] => /\ wg[p] + PendingAdd(p) - PendingDone(p) >= 0
                         /\ wg[p] + PendingAdd(p) - PendingDone(p) >= active[p]
    BY Zenon DEF IInv, WaitCoversActive
  <2> QED
    BY <1>3, <1>4, <2>1
<1>6. ~overdrawn'[p] => /\ wg'[p] + PendingAdd(p)' - PendingDone(p)' >= 0
                        /\ wg'[p] + PendingAdd(p)' - PendingDone(p)' >= active'[p]
  <2> SUFFICES ASSUME ~overdrawn[p] PROVE wg'[p] >= 0 /\ wg'[p] >= active'[p]
    <3>1. overdrawn'[p] = overdrawn[p] /\ PendingAdd(p)' = 0 /\ PendingDone(p)' = 0
      BY <1>1, <1>3
    <3>2. wg'[p] \in Int
      BY <1>4
    <3> QED
      BY <3>1, <3>2
  <2>1. wg[p] \in Int /\ active[p] \in Int /\ wg[p] >= 0 /\ wg[p] >= active[p]
    BY <1>4, <1>5
  <2>2. DrainSteps(p) = IF active[p] <= 0 THEN 0 ELSE active[p]
    BY <2>1 DEF DrainSteps
  <2>3. CASE active[p] <= 0
    BY <1>4, <2>1, <2>2, <2>3
  <2>4. CASE active[p] > 0
    BY <1>4, <2>1, <2>2, <2>4
  <2> QED
    BY <2>1, <2>3, <2>4
<1>7. WaitCoversActive'
  BY <1>1, <1>3, <1>4, <1>6, CoverElsewhere
<1> QED
  BY <1>2, <1>7

\* WaitCoversActive is kept by cancellation.
LEMMA CoverCancel ==
  ASSUME IInv, Cancel
  PROVE  HolderInv' /\ WaitCoversActive'
<1>1. UNCHANGED <<pc, carrier, mu, wg, active, overdrawn>>
  BY Zenon DEF Cancel
<1>2. \A c \in Packets : rel'[c] = "drop" <=> rel[c] = "drop"
  BY InvTypes DEF Cancel
<1> QED
  BY Zenon, <1>1, <1>2, CoverKept

\* WaitCoversActive is kept by the translator's done.
LEMMA CoverDone ==
  ASSUME IInv, Done
  PROVE  HolderInv' /\ WaitCoversActive'
<1>0. UNCHANGED <<pc, carrier, mu, rel>>
  BY Zenon DEF Done
<1>1. HolderInv'
  BY <1>0 DEF IInv, HolderInv
<1>2. \A c \in Packets : /\ PendingAdd(c)' = PendingAdd(c) /\ PendingAdd(c) \in Int
                         /\ PendingDone(c)' = PendingDone(c) /\ PendingDone(c) \in Int
  BY <1>0 DEF PendingAdd, PendingDone
<1>3. CASE mutexMap # None /\ mu[mutexMap] = None
  <2>1. mutexMap \in Packets /\ Drain(mutexMap) /\ UNCHANGED overdrawn
    BY Zenon, <1>3 DEF IInv, TypeOK, CarriersType, Done
  <2>2. PendingAdd(mutexMap) = 0 /\ PendingDone(mutexMap) \in {0, 1}
    BY <1>3 DEF PendingAdd, PendingDone
  <2>3. PICK c \in Packets : c = mutexMap
    BY <2>1
  <2>4. active \in [Packets -> Int] /\ wg \in [Packets -> Int]
    BY InvTypes
  <2>5. DrainSteps(c) \in Int
    BY <2>4 DEF DrainSteps
  <2>6. /\ active'[c] = active[c] - DrainSteps(c) /\ wg'[c] = wg[c] - DrainSteps(c)
        /\ \A d \in Packets : d # c => active'[d] = active[d] /\ wg'[d] = wg[d]
    <3>1. Drain(c)
      BY Zenon, <2>1, <2>3
    <3>2. DrainSteps(c) \in Int
      BY <2>5
    <3> QED
      BY <2>4, <3>1, <3>2 DEF Drain, WgAdd
  <2>7. ~overdrawn[c] => /\ wg[c] + PendingAdd(c) - PendingDone(c) >= 0
                         /\ wg[c] + PendingAdd(c) - PendingDone(c) >= active[c]
    BY Zenon DEF IInv, WaitCoversActive
  <2>8. ~overdrawn'[c] => /\ wg'[c] + PendingAdd(c)' - PendingDone(c)' >= 0
                          /\ wg'[c] + PendingAdd(c)' - PendingDone(c)' >= active'[c]
    <3>1. /\ active[c] \in Int /\ wg[c] \in Int /\ overdrawn'[c] = overdrawn[c]
          /\ PendingAdd(c)' = 0 /\ PendingAdd(c) = 0
          /\ PendingDone(c)' = PendingDone(c) /\ PendingDone(c) \in {0, 1}
      BY <1>2, <2>1, <2>2, <2>3, <2>4
    <3>2. wg[c] >= active[c] => DrainSteps(c) = IF active[c] <= 0 THEN 0 ELSE active[c]
      BY <3>1 DEF DrainSteps
    <3>3. ~overdrawn[c] => wg[c] - PendingDone(c) >= 0 /\ wg[c] - PendingDone(c) >= active[c]
      BY <2>7, <3>1
    <3>4. ~overdrawn[c] => wg'[c] - PendingDone(c) >= 0 /\ wg'[c] - PendingDone(c) >= active'[c]
      BY <2>5, <2>6, <3>1, <3>2, <3>3
    <3> QED
      BY <2>5, <2>6, <3>1, <3>4
  <2>9. WaitCoversActive'
    BY Zenon, <1>2, <2>1, <2>6, <2>8, CoverElsewhere
  <2> QED
    BY <1>1, <2>9
<1>4. CASE ~(mutexMap # None /\ mu[mutexMap] = None)
  <2>1. UNCHANGED <<wg, active, overdrawn>>
    BY Zenon, <1>4 DEF Done
  <2> QED
    BY Zenon, <1>1, <1>2, <2>1 DEF IInv, WaitCoversActive
<1> QED
  BY <1>3, <1>4

\* The inductive invariant holds before the first packet arrives.
LEMMA InvInit == Init => IInv
  BY TypeInit, ConstantsAssumption DEF Init, IInv, HolderInv, WaitCoversActive, PendingAdd,
     PendingDone, Holding

\* Every step of flow_mutex.go keeps the inductive invariant.
LEMMA InvNext == ASSUME IInv, [Next]_vars PROVE IInv'
<1>1. TypeOK'
  BY TypeNext DEF IInv
<1>2. CASE UNCHANGED vars
  BY Zenon, <1>1, <1>2, CoverKept DEF vars, IInv
<1>3. ASSUME NEW p \in Packets, PacketStep(p) PROVE HolderInv' /\ WaitCoversActive'
  BY <1>3, CoverArrive, CoverEnterWait, CoverResumeWait, CoverLock, CoverAnalyzePlain,
     CoverAnalyzeOpaque, CoverAnalyzeHTTP, CoverTrackRequest, CoverFindTraced,
     CoverRaiseWait, CoverSettleResponse, CoverSettled, CoverUnlock DEF PacketStep
<1>4. ASSUME NEW p \in Packets, UntrackStep(p) PROVE HolderInv' /\ WaitCoversActive'
  BY <1>4, CoverUntrackStart, CoverUntrackScan, CoverUntrackClear, CoverUntrackLoad,
     CoverUntrackDec, CoverUntrackDrop, CoverUntrackDel DEF UntrackStep
<1>5. ASSUME NEW t \in Tracked, UnblockerStep(t) PROVE HolderInv' /\ WaitCoversActive'
  BY <1>5, CoverUnblockerFires, CoverUnblockerSwaps, CoverUnblockerReleases
     DEF UnblockerStep
<1> QED
  BY <1>1, <1>2, <1>3, <1>4, <1>5, CoverReap, CoverCancel, CoverDone DEF Next, IInv

\* Until an untracking overdraws the count, the WaitGroup covers every active
\* request, so no response and no unblocker takes it below zero.
THEOREM WaitCovers == Spec => []WaitCoversActive
<1>1. IInv => WaitCoversActive
  BY DEF IInv
<1> QED
  BY <1>1, InvInit, InvNext, PTL DEF Spec

\* Only an unblocker ends the process, and only the drain of an untracking
\* overdraws the count: every other packet step leaves both alone.
LEMMA PacketFrame ==
  ASSUME NEW p \in Packets, PacketStep(p) PROVE UNCHANGED <<down, overdrawn>>
<1>1. Arrive(p) \/ EnterWait(p) \/ ResumeWait(p) \/ Lock(p) => UNCHANGED <<down, overdrawn>>
  BY Zenon DEF Arrive, EnterWait, ResumeWait, Lock
<1>2. AnalyzePlain(p) \/ AnalyzeOpaque(p) \/ AnalyzeHTTP(p) => UNCHANGED <<down, overdrawn>>
  BY Zenon DEF AnalyzePlain, AnalyzeOpaque, AnalyzeHTTP
<1>3. ASSUME NEW s \in Streams, TrackRequest(p, s) \/ FindTraced(p, s)
      PROVE  UNCHANGED <<down, overdrawn>>
  BY Zenon, <1>3 DEF TrackRequest, FindTraced
<1>4. RaiseWait(p) \/ SettleResponse(p) \/ Settled(p) => UNCHANGED <<down, overdrawn>>
  BY Zenon DEF RaiseWait, SettleResponse, Settled
<1>5. Unlock(p) => UNCHANGED <<down, overdrawn>>
  BY Zenon DEF Unlock
<1> QED
  BY <1>1, <1>2, <1>3, <1>4, <1>5 DEF PacketStep

\* The same for the other goroutines.
LEMMA OtherFrame ==
  /\ \A p \in Packets : Reap(p) => UNCHANGED <<down, overdrawn>>
  /\ \A p \in Packets : UntrackStep(p) /\ ~UntrackDec(p) => UNCHANGED <<down, overdrawn>>
  /\ \A p \in Packets : UntrackDec(p) => UNCHANGED down
  /\ \A t \in Tracked : UnblockerStep(t) => UNCHANGED overdrawn
  /\ \A t \in Tracked : UnblockerStep(t) /\ ~UnblockerReleases(t) => UNCHANGED down
  /\ Cancel \/ Done => UNCHANGED <<down, overdrawn>>
<1>1. \A p \in Packets : Reap(p) => UNCHANGED <<down, overdrawn>>
  BY Zenon DEF Reap
<1>2. \A p \in Packets : UntrackStep(p) /\ ~UntrackDec(p) => UNCHANGED <<down, overdrawn>>
  BY Zenon DEF UntrackStep, UntrackStart, UntrackScan, UntrackClear, UntrackLoad, UntrackDrop,
     UntrackDel
<1>3. \A p \in Packets : UntrackDec(p) => UNCHANGED down
  BY DEF UntrackDec
<1>4. \A t \in Tracked : UnblockerStep(t) => UNCHANGED overdrawn
  BY DEF UnblockerStep, UnblockerFires, UnblockerSwaps, UnblockerReleases
<1>5. \A t \in Tracked : UnblockerStep(t) /\ ~UnblockerReleases(t) => UNCHANGED down
  BY DEF UnblockerStep, UnblockerFires, UnblockerSwaps
<1>6. Cancel \/ Done => UNCHANGED <<down, overdrawn>>
  BY Zenon DEF Cancel, Done
<1> QED
  BY <1>1, <1>2, <1>3, <1>4, <1>5, <1>6

\* A Done too many by an unblocker, which would end the process, needs an
\* untracking that overdrew the count before.
THEOREM ProcessOutlivesUnblockers == Spec => []ProcessSurvives
<1>1. Init => ProcessSurvives
  BY DEF Init, ProcessSurvives
<1>2. ASSUME IInv, ProcessSurvives, [Next]_vars PROVE ProcessSurvives'
  <2>1. \A c \in Packets : overdrawn[c] => overdrawn'[c]
    <3>1. ASSUME NEW p \in Packets, UntrackDec(p) PROVE \A c \in Packets : overdrawn[c] => overdrawn'[c]
      BY <1>2, <3>1, InvTypes DEF UntrackDec
    <3>2. (\A p \in Packets : ~UntrackDec(p)) => UNCHANGED overdrawn
      BY <1>2, PacketFrame, OtherFrame DEF Next, vars
    <3> QED
      BY <3>1, <3>2
  <2>2. ASSUME NEW t \in Tracked, UnblockerReleases(t) PROVE ProcessSurvives'
    <3> DEFINE c == CarrierOf(t)
    <3>1. c \in Packets
      BY Zenon, <1>2, <2>2 DEF UnblockerReleases, CarrierOf, IInv, TypeOK, Tracked
    <3>2. mu[c] = None /\ UNCHANGED overdrawn
          /\ (down' => down \/ (active[c] >= 1 /\ wg[c] <= 0))
      BY Zenon, <2>2 DEF UnblockerReleases
    <3>3. PendingAdd(c) = 0 /\ PendingDone(c) \in {0, 1}
      BY <3>2 DEF PendingAdd, PendingDone
    <3>4. active[c] >= 1 /\ wg[c] <= 0 => overdrawn[c]
      BY <1>2, <3>1, <3>3 DEF IInv, WaitCoversActive, TypeOK, CountersType
    <3> QED
      BY <1>2, <3>1, <3>2, <3>4 DEF ProcessSurvives
  <2>3. (\A t \in Tracked : ~UnblockerReleases(t)) => UNCHANGED down
    BY <1>2, PacketFrame, OtherFrame DEF Next, vars
  <2> QED
    BY Zenon, <1>2, <2>1, <2>2, <2>3 DEF ProcessSurvives
<1> QED
  BY <1>1, <1>2, InvInit, InvNext, PTL DEF Spec
=============================================================================
