-------------------------- MODULE TransformerTypes --------------------------
(***************************************************************************)
(* Type correctness of a transformer, what the step of one of its          *)
(* goroutines tells of the variables of the others, which packets are      *)
(* published in which order, and where a translation is between            *)
(* publishTranslation and the writer, for any number of packets, writers   *)
(* and workers and any capacities.                                         *)
(***************************************************************************)
EXTENDS Transformer, TLAPS

\* Steps of a packet before the first write queue has it.
Early == {"new", "ignored", "committed", "queued", "running", "translating", "ran",
          "nil", "leaked"}

\* What the step of one goroutine tells of the variables of the others.
StepInv ==
  /\ \A w \in Writers : cons[w] = "write" <=> item[w] # 0
  /\ \A p \in Packets : stage[p] = "publishing" => next[p] <= NumWriters
  /\ \A p \in Packets : stage[p] \in Early => next[p] = 1
  /\ \A p \in Packets : p > captured <=> stage[p] = "new"
  /\ engine \in {"apply", "send"} => captured \in Packets /\ stage[captured] = "committed"
  /\ engine = "await" => closing <= NumWriters
  /\ closed # {} => engine \in {"close", "await", "terminated", "timedout"}

\* The type invariant in three parts: what the engine has, the packets, the
\* writers.
EngineType ==
  /\ config \in Configs
  /\ ctxDone \in BOOLEAN /\ ichClosed \in BOOLEAN /\ down \in BOOLEAN
  /\ engine \in EngineSteps
  /\ captured \in 0..NumPackets
  /\ wg \in Int
  /\ closed \subseteq Writers
  /\ closing \in 1..NumWriters + 1
PacketsType ==
  /\ stage \in [Packets -> PacketSteps]
  /\ next \in [Packets -> 1..NumWriters + 1]
WritersType ==
  /\ queue \in [Writers -> Seq(Packets)]
  /\ cons \in [Writers -> ConsumerSteps]
  /\ item \in [Writers -> Packets \cup {0}]
  /\ tasks \in [Writers -> SUBSET Packets]
  /\ written \in [Writers -> Seq(Packets)]

\* TypeOK, by parts.
LEMMA TypeParts == TypeOK <=> EngineType /\ PacketsType /\ WritersType
BY Zenon DEF TypeOK, EngineType, PacketsType, WritersType

\* The same in the next state.
LEMMA TypePartsNext == TypeOK' <=> EngineType' /\ PacketsType' /\ WritersType'
BY Zenon DEF TypeOK, EngineType, PacketsType, WritersType

\* Initially no packet is captured.
LEMMA InitInv == Init => TypeOK /\ StepInv
<1> SUFFICES ASSUME Init PROVE TypeOK /\ StepInv
  OBVIOUS
<1> USE SizesAssumption
<1>1. TypeOK
  <2>1. EngineType
    <3>1. captured \in 0..NumPackets /\ closing \in 1..NumWriters + 1 /\ wg \in Int
      BY DEF Init
    <3> QED
      BY <3>1, Zenon DEF Init, EngineType, EngineSteps
  <2>2. PacketsType
    BY DEF Init, PacketsType, PacketSteps
  <2>3. WritersType
    <3>1. <<>> \in Seq(Packets)
      OBVIOUS
    <3> QED
      BY <3>1, Zenon DEF Init, WritersType, ConsumerSteps
  <2> QED
    BY <2>1, <2>2, <2>3, TypeParts
<1>2. StepInv
  BY DEF Init, StepInv, Early, Packets, Writers
<1> QED
  BY <1>1, <1>2

-----------------------------------------------------------------------------
\* Types

\* The WaitGroup stays a number, whoever settles.
LEMMA SettleType ==
  ASSUME EngineType, NEW n \in Int, Settle(n)
  PROVE  wg' \in Int /\ down' \in BOOLEAN
BY DEF EngineType, Settle

\* The engine's steps keep the types.
LEMMA TypeEngine ==
  ASSUME TypeOK, StepInv, EngineStep \/ Timeout \/ Cancel \/ CloseIch
  PROVE  TypeOK'
<1> USE SizesAssumption, TypeParts, TypePartsNext
<1>1. CASE Apply
  <2>1. EngineType'
    BY <1>1 DEF Apply, EngineType, EngineSteps
  <2>2. PacketsType'
    BY <1>1 DEF Apply, PacketsType, PacketSteps
  <2>3. WritersType'
    BY <1>1 DEF Apply, WritersType, sinkVars
  <2> QED
    BY <2>1, <2>2, <2>3
<1>2. CASE Strategy \/ Send
  <2>1. EngineType'
    BY <1>2 DEF Strategy, Send, Rollback, Settle, Goes, EngineType, EngineSteps
  <2>2. PacketsType'
    BY <1>2 DEF Strategy, Send, Rollback, Settle, Goes, PacketsType, PacketSteps
  <2>3. WritersType'
    BY <1>2 DEF Strategy, Send, WritersType, sinkVars
  <2> QED
    BY <2>1, <2>2, <2>3
<1>3. CASE SendClosed \/ Stop \/ WaitDone \/ AllSettled \/ Terminate \/ CloseIch
  <2>1. UNCHANGED <<captured, wg, closed, closing, config, ctxDone, pipeVars, sinkVars>>
    BY <1>3 DEF SendClosed, Stop, WaitDone, AllSettled, Terminate, CloseIch
  <2>2. Ordered \in BOOLEAN
    BY DEF EngineType, Ordered
  <2>3. engine' \in EngineSteps /\ ichClosed' \in BOOLEAN /\ down' \in BOOLEAN
    BY <1>3, <2>2, Zenon DEF SendClosed, Stop, WaitDone, AllSettled, Terminate, CloseIch, EngineType, EngineSteps
  <2> QED
    BY <2>1, <2>3, Zenon DEF EngineType, PacketsType, WritersType, pipeVars, sinkVars
<1>4. CASE CloseQueue \/ AwaitConsumer \/ Timeout
  <2>1. UNCHANGED <<captured, wg, config, ctxDone, ichClosed, down, pipeVars, sinkVars>>
    BY <1>4 DEF CloseQueue, AwaitConsumer, Timeout
  <2>2. engine' \in EngineSteps /\ closing' \in 1..NumWriters + 1 /\ closed' \subseteq Writers
    BY <1>4 DEF CloseQueue, AwaitConsumer, Timeout, EngineType, EngineSteps, StepInv, Writers
  <2> QED
    BY <2>1, <2>2, Zenon DEF EngineType, PacketsType, WritersType, pipeVars, sinkVars
<1>5. CASE Cancel
  <2>1. EngineType' /\ PacketsType'
    BY <1>5 DEF Cancel, EngineType, PacketsType, pipeVars
  <2>2. WritersType'
    BY <1>5, Zenon DEF Cancel, WritersType, ConsumerSteps
  <2> QED
    BY <2>1, <2>2
<1> QED
  BY <1>1, <1>2, <1>3, <1>4, <1>5 DEF EngineStep

\* So do those of a packet.
LEMMA TypePacket ==
  ASSUME TypeOK, StepInv, NEW p \in Packets, PacketStep(p)
  PROVE  TypeOK'
<1> USE SizesAssumption, TypeParts, TypePartsNext
<1>1. CASE \/ StartRun(p) \/ StartPublish(p) \/ PublishClosed(p)
           \/ Run(p) \/ Translated(p) \/ PublishNil(p)
  <2>1. UNCHANGED <<config, ctxDone, engine, captured, next, closed, sinkVars, ichClosed, closing>>
    BY <1>1 DEF StartRun, StartPublish, PublishClosed, Run, Translated, PublishNil, pipeVars
  <2>2. \/ UNCHANGED wg /\ down' = TRUE /\ UNCHANGED stage
        \/ Rollback(p)
        \/ \E s \in PacketSteps : Goes(p, s)
    BY <1>1 DEF StartRun, StartPublish, PublishClosed, Run, Translated, PublishNil, NoTranslation,
                pipeVars, PacketSteps
  <2>3. wg' \in Int /\ down' \in BOOLEAN
    <3>1. CASE Rollback(p)
      BY <3>1, SettleType DEF Rollback
    <3> QED
      BY <2>2, <3>1, Zenon DEF Goes, EngineType
  <2>4. stage' \in [Packets -> PacketSteps]
    <3>1. "rolledback" \in PacketSteps
      BY DEF PacketSteps
    <3> QED
      BY <2>2, <3>1, Zenon DEF Rollback, Goes, PacketsType
  <2> QED
    BY <2>1, <2>3, <2>4 DEF EngineType, PacketsType, WritersType, sinkVars
<1>2. CASE Publish(p)
  <2>1. next[p] \in Writers
    BY <1>2 DEF Publish, StepInv, PacketsType, Writers
  <2>2. Append(queue[next[p]], p) \in Seq(Packets)
    BY <2>1 DEF WritersType
  <2>3. WritersType'
    BY <1>2, <2>1, <2>2 DEF Publish, WritersType
  <2>4. next[p] + 1 \in 1..NumWriters + 1
    BY <2>1 DEF Writers
  <2>5. PacketsType'
    BY <1>2, <2>4 DEF Publish, Goes, PacketsType, PacketSteps
  <2>6. EngineType'
    BY <1>2 DEF Publish, Goes, EngineType
  <2> QED
    BY <2>3, <2>5, <2>6
<1> QED
  BY <1>1, <1>2 DEF PacketStep

\* And those of a writer's consumer and of the writer pool.
LEMMA TypeWriter ==
  ASSUME TypeOK, StepInv, NEW w \in Writers,
         ConsumerStep(w) \/ \E p \in Packets : WriteTask(w, p)
  PROVE  TypeOK'
<1> USE TypeParts, TypePartsNext
<1>1. CASE Block(w) \/ StartDrain(w) \/ Drained(w)
  BY <1>1, Zenon DEF Block, StartDrain, Drained, EngineType, PacketsType, WritersType,
                     ConsumerSteps, pipeVars
<1>2. CASE Take(w)
  <2>1. Head(queue[w]) \in Packets /\ Tail(queue[w]) \in Seq(Packets)
    BY <1>2 DEF Take, WritersType
  <2>2. WritersType'
    <3>1. CASE Ordered
      BY <1>2, <2>1, <3>1, Zenon DEF Take, WritersType, ConsumerSteps
    <3>2. CASE ~Ordered
      <4>1. tasks[w] \cup {Head(queue[w])} \in SUBSET Packets
        BY <2>1 DEF WritersType
      <4> QED
        BY <1>2, <2>1, <3>2, <4>1, Zenon DEF Take, WritersType, ConsumerSteps
    <3> QED
      BY <3>1, <3>2
  <2> QED
    BY <1>2, <2>2 DEF Take, EngineType, PacketsType, pipeVars
<1>3. CASE TakeClosed(w)
  <2>1. wg' \in Int /\ down' \in BOOLEAN
    <3>1. CASE w > 1
      BY <1>3, <3>1, SettleType DEF TakeClosed
    <3>2. CASE ~(w > 1) /\ Ordered
      BY <1>3, <3>2, Zenon DEF TakeClosed, EngineType
    <3>3. CASE ~(w > 1) /\ ~Ordered
      BY <1>3, <3>3, SettleType, SizesAssumption DEF TakeClosed
    <3> QED
      BY <3>1, <3>2, <3>3
  <2> QED
    BY <1>3, <2>1, Zenon DEF TakeClosed, EngineType, PacketsType, WritersType, pipeVars, sinkVars
<1>4. ASSUME NEW p \in Packets, WrittenTo(w, p)
      PROVE  written' \in [Writers -> Seq(Packets)] /\ wg' \in Int /\ down' \in BOOLEAN
  <2>1. Append(written[w], p) \in Seq(Packets)
    BY DEF WritersType
  <2> QED
    BY <1>4, <2>1 DEF WrittenTo, Settle, WritersType, EngineType
<1>5. CASE WriteInOrder(w)
  <2>1. item[w] \in Packets
    BY <1>5 DEF WriteInOrder, StepInv, WritersType
  <2>2. written' \in [Writers -> Seq(Packets)] /\ wg' \in Int /\ down' \in BOOLEAN
    BY <1>4, <1>5, <2>1 DEF WriteInOrder
  <2> QED
    BY <1>5, <2>2, Zenon DEF WriteInOrder, EngineType, PacketsType, WritersType, ConsumerSteps, pipeVars
<1>6. ASSUME NEW p \in Packets, WriteTask(w, p) PROVE TypeOK'
  <2>1. written' \in [Writers -> Seq(Packets)] /\ wg' \in Int /\ down' \in BOOLEAN
    BY <1>4, <1>6 DEF WriteTask
  <2> QED
    BY <1>6, <2>1, Zenon DEF WriteTask, EngineType, PacketsType, WritersType, pipeVars
<1>7. CASE Drain(w)
  <2>1. Tail(queue[w]) \in Seq(Packets)
    BY <1>7 DEF Drain, WritersType
  <2> QED
    BY <1>7, <2>1 DEF Drain, Settle, EngineType, PacketsType, WritersType, pipeVars
<1> QED
  BY <1>1, <1>2, <1>3, <1>5, <1>6, <1>7 DEF ConsumerStep

\* Every variable keeps its type in every step.
LEMMA TypeStep == TypeOK /\ StepInv /\ [Next]_vars => TypeOK'
<1> SUFFICES ASSUME TypeOK, StepInv, [Next]_vars PROVE TypeOK'
  OBVIOUS
<1>1. CASE UNCHANGED vars
  BY <1>1 DEF TypeOK, vars
<1> QED
  BY <1>1, TypeEngine, TypePacket, TypeWriter DEF Next
-----------------------------------------------------------------------------
\* Steps

\* A step of the engine knows the packet it has in hand.
LEMMA StepEngine ==
  ASSUME TypeOK, StepInv, EngineStep \/ Timeout \/ Cancel \/ CloseIch
  PROVE  StepInv'
<1> USE SizesAssumption DEF Packets, Writers
<1>1. CASE Apply
  <2>1. captured + 1 \in Packets /\ stage[captured + 1] = "new" /\ next[captured + 1] = 1
    BY <1>1 DEF Apply, TypeOK, StepInv, Early
  <2>2. \A p \in Packets \ {captured + 1} : stage'[p] = stage[p]
    BY <1>1 DEF Apply, TypeOK
  <2>3. stage'[captured + 1] \in {"ignored", "committed"}
    BY <1>1, <2>1 DEF Apply, TypeOK
  <2>4. captured' = captured + 1 /\ UNCHANGED <<next, cons, item, closing, closed>>
    BY <1>1 DEF Apply, sinkVars
  <2>5. /\ engine' \in {"capture", "apply"}
        /\ engine' = "apply" => stage'[captured + 1] = "committed"
    BY <1>1, <2>1 DEF Apply, TypeOK
  <2>6. closed = {}
    BY <1>1 DEF Apply, StepInv
  <2>7. ASSUME NEW p \in Packets PROVE p > captured + 1 <=> stage'[p] = "new"
    <3>1. captured \in Nat
      BY DEF TypeOK
    <3>2. CASE p = captured + 1
      BY <2>3, <3>1, <3>2
    <3>3. CASE p # captured + 1
      BY <2>2, <3>1, <3>3 DEF StepInv
    <3> QED
      BY <3>2, <3>3
  <2>8. ASSUME NEW p \in Packets
        PROVE  /\ stage'[p] = "publishing" => next[p] <= NumWriters
               /\ stage'[p] \in Early => next[p] = 1
    <3>1. CASE p = captured + 1
      BY <2>1, <2>3, <3>1
    <3>2. CASE p # captured + 1
      BY <2>2, <3>2 DEF StepInv
    <3> QED
      BY <3>1, <3>2
  <2> QED
    BY <2>1, <2>4, <2>5, <2>6, <2>7, <2>8 DEF StepInv
<1>2. CASE Strategy \/ Send
  <2>1. captured \in Packets /\ stage[captured] = "committed" /\ closed = {}
    BY <1>2 DEF Strategy, Send, StepInv
  <2>2. \A p \in Packets \ {captured} : stage'[p] = stage[p]
    BY <1>2 DEF Strategy, Send, Rollback, Goes, TypeOK
  <2>3. stage'[captured] \in {"committed", "queued", "rolledback"}
    BY <1>2, <2>1 DEF Strategy, Send, Rollback, Goes, TypeOK
  <2>4. UNCHANGED <<captured, next, cons, item, closing, closed>>
    BY <1>2 DEF Strategy, Send, sinkVars
  <2>5. /\ engine' \in {"capture", "send"}
        /\ engine' = "send" => stage'[captured] = "committed"
    BY <1>2, <2>1 DEF Strategy, Send
  <2> QED
    BY <2>1, <2>2, <2>3, <2>4, <2>5 DEF StepInv, Early
<1>3. CASE Cancel
  <2>1. ASSUME NEW w \in Writers PROVE cons'[w] = "write" <=> cons[w] = "write"
    BY <1>3 DEF Cancel, TypeOK
  <2> QED
    BY <1>3, <2>1 DEF Cancel, StepInv, pipeVars
<1>4. CASE \/ SendClosed \/ Stop \/ WaitDone \/ AllSettled \/ Terminate \/ CloseIch
           \/ CloseQueue \/ AwaitConsumer \/ Timeout
  <2>1. UNCHANGED <<captured, stage, next, cons, item>>
    BY <1>4 DEF SendClosed, Stop, WaitDone, AllSettled, Terminate, CloseIch, CloseQueue,
                AwaitConsumer, Timeout, pipeVars, sinkVars
  <2>2. engine' = "await" => closing' <= NumWriters
    BY <1>4 DEF SendClosed, Stop, WaitDone, AllSettled, Terminate, CloseIch, CloseQueue,
                AwaitConsumer, Timeout, StepInv
  <2>3. closed' # {} => engine' \in {"close", "await", "terminated", "timedout"}
    BY <1>4 DEF SendClosed, Stop, WaitDone, AllSettled, Terminate, CloseIch, CloseQueue,
                AwaitConsumer, Timeout, StepInv
  <2>4. engine' \in {"apply", "send"} => engine' = engine
    BY <1>4 DEF SendClosed, Stop, WaitDone, AllSettled, Terminate, CloseIch, CloseQueue,
                AwaitConsumer, Timeout
  <2> QED
    BY <2>1, <2>2, <2>3, <2>4 DEF StepInv
<1> QED
  BY <1>1, <1>2, <1>3, <1>4 DEF EngineStep

\* A packet past the engine goes its way.
LEMMA StepPacket ==
  ASSUME TypeOK, StepInv, NEW p \in Packets, PacketStep(p)
  PROVE  StepInv'
<1> USE SizesAssumption
<1>1. UNCHANGED <<engine, captured, closed, closing, cons, item>>
  BY DEF PacketStep, StartRun, Run, Translated, PublishNil, StartPublish, Publish, PublishClosed,
         sinkVars
<1>2. \A q \in Packets \ {p} : stage'[q] = stage[q] /\ next'[q] = next[q]
  BY DEF PacketStep, StartRun, Run, Translated, PublishNil, StartPublish, Publish, PublishClosed,
         pipeVars, Goes, Rollback, TypeOK
<1>3. stage[p] \notin {"new", "committed"} /\ stage'[p] # "new"
  BY Zenon DEF PacketStep, StartRun, Run, Translated, PublishNil, StartPublish, Publish, PublishClosed,
         pipeVars, Goes, Rollback, NoTranslation, TypeOK
<1>4. /\ stage'[p] = "publishing" => next'[p] <= NumWriters
      /\ stage'[p] \in Early => next'[p] = 1
  <2>1. CASE StartRun(p) \/ Run(p) \/ Translated(p) \/ StartPublish(p)
    BY <2>1 DEF StartRun, Run, Translated, StartPublish, Goes, Rollback, NoTranslation, TypeOK,
                StepInv, Early, Packets
  <2>2. CASE PublishNil(p) \/ PublishClosed(p)
    BY <2>2 DEF PublishNil, PublishClosed, pipeVars, Rollback, TypeOK, StepInv, Early
  <2>3. CASE Publish(p)
    BY <2>3 DEF Publish, Goes, TypeOK, StepInv, Early
  <2> QED
    BY <2>1, <2>2, <2>3 DEF PacketStep
<1>5. ASSUME NEW q \in Packets
      PROVE  /\ stage'[q] = "publishing" => next'[q] <= NumWriters
             /\ stage'[q] \in Early => next'[q] = 1
             /\ q > captured <=> stage'[q] = "new"
  BY <1>2, <1>3, <1>4 DEF StepInv
<1>6. engine \in {"apply", "send"} => captured # p
  BY <1>3 DEF StepInv
<1> QED
  BY <1>1, <1>2, <1>5, <1>6 DEF StepInv

\* A consumer has an item in hand while it writes.
LEMMA StepWriter ==
  ASSUME TypeOK, StepInv, NEW w \in Writers,
         ConsumerStep(w) \/ \E p \in Packets : WriteTask(w, p)
  PROVE  StepInv'
<1>1. UNCHANGED <<engine, captured, closed, closing, stage, next>>
  BY DEF ConsumerStep, Block, Take, TakeClosed, WriteInOrder, StartDrain, Drain, Drained,
         WriteTask, pipeVars
<1>2. \A v \in Writers \ {w} : cons'[v] = cons[v] /\ item'[v] = item[v]
  BY DEF ConsumerStep, Block, Take, TakeClosed, WriteInOrder, StartDrain, Drain, Drained,
         WriteTask, sinkVars, TypeOK
<1>3. cons'[w] = "write" <=> item'[w] # 0
  <2>1. CASE Take(w)
    <3>1. Head(queue[w]) \in Packets
      BY <2>1 DEF Take, TypeOK
    <3> QED
      BY <2>1, <3>1, SizesAssumption DEF Take, TypeOK, StepInv, Packets
  <2>2. CASE WriteInOrder(w)
    BY <2>2 DEF WriteInOrder, TypeOK
  <2>3. CASE Block(w) \/ StartDrain(w) \/ Drained(w)
    BY <2>3 DEF Block, StartDrain, Drained, TypeOK, StepInv
  <2>4. CASE TakeClosed(w) \/ Drain(w) \/ \E p \in Packets : WriteTask(w, p)
    BY <2>4 DEF TakeClosed, Drain, WriteTask, sinkVars, StepInv
  <2> QED
    BY <2>1, <2>2, <2>3, <2>4 DEF ConsumerStep
<1> QED
  BY <1>1, <1>2, <1>3 DEF StepInv

\* Every step keeps StepInv.
LEMMA StepStep == TypeOK /\ StepInv /\ [Next]_vars => StepInv'
<1> SUFFICES ASSUME TypeOK, StepInv, [Next]_vars PROVE StepInv'
  OBVIOUS
<1>1. CASE UNCHANGED vars
  BY <1>1, Zenon DEF StepInv, vars
<1> QED
  BY <1>1, StepEngine, StepPacket, StepWriter DEF Next

\* Every reachable state of a transformer is well typed: no worker publishes
\* past the last writer, nothing but captured packets is queued or written.
THEOREM TransformerTypeCorrect == Spec => []TypeOK
BY InitInv, TypeStep, StepStep, PTL DEF Spec

-----------------------------------------------------------------------------
\* Packets in turn

\* Steps of a packet that Run gave a translation for.
HasTranslation == {"translating", "ran", "publishing", "out"}

\* A rejected packet has none.
RejectInv ==
  \A p \in Packets : stage[p] \in HasTranslation \/ next[p] > 1 => p \notin Rejected

\* Until the context is done, an ordered transformer publishes the packets one
\* after the other.
Orderly == Ordered /\ ~ctxDone /\ ~down
Turn(p) ==
  /\ stage[p] \notin {"ignored", "rolledback", "leaked"}
  /\ stage[p] = "committed" => p = captured /\ engine \in {"apply", "send"}
  /\ stage[p] = "out" => next[p] = NumWriters + 1
  /\ stage[p] \in {"publishing", "out"} => \A q \in Packets : q < p => stage[q] = "out"
TurnInv == Orderly => \A p \in Packets : Turn(p)

\* What no step undoes.
LEMMA Lasting ==
  ASSUME [Next]_vars
  PROVE  config' = config /\ (Orderly' => Orderly)
<1>1. config' = config /\ (ctxDone => ctxDone')
  <2>1. CASE UNCHANGED vars
    BY <2>1 DEF vars
  <2>2. CASE EngineStep \/ Timeout \/ Cancel \/ CloseIch
    BY <2>2 DEF EngineStep, Apply, Strategy, Send, SendClosed, Stop, WaitDone, AllSettled,
         CloseQueue, AwaitConsumer, Terminate, Timeout, Cancel, CloseIch
  <2>3. ASSUME NEW p \in Packets, PacketStep(p) PROVE config' = config /\ (ctxDone => ctxDone')
    BY <2>3 DEF PacketStep, StartRun, Run, Translated, PublishNil, StartPublish, Publish, PublishClosed
  <2>4. ASSUME NEW w \in Writers, ConsumerStep(w) \/ \E p \in Packets : WriteTask(w, p)
        PROVE  config' = config /\ (ctxDone => ctxDone')
    BY <2>4 DEF ConsumerStep, Block, Take, TakeClosed, WriteInOrder, StartDrain, Drain, Drained, WriteTask
  <2> QED
    BY <2>1, <2>2, <2>3, <2>4, Zenon DEF Next
<1>2. Next => ~down
  <2>1. EngineStep \/ Timeout \/ Cancel \/ CloseIch => ~down
    BY Zenon DEF EngineStep, Apply, Strategy, Send, SendClosed, Stop, WaitDone, AllSettled,
         CloseQueue, AwaitConsumer, Terminate, Timeout, Cancel, CloseIch
  <2>2. \A p \in Packets : PacketStep(p) => ~down
    BY Zenon DEF PacketStep, StartRun, Run, Translated, PublishNil, StartPublish, Publish, PublishClosed
  <2>3. \A w \in Writers : ConsumerStep(w) \/ (\E p \in Packets : WriteTask(w, p)) => ~down
    BY Zenon DEF ConsumerStep, Block, Take, TakeClosed, WriteInOrder, StartDrain, Drain, Drained, WriteTask
  <2> QED
    BY <2>1, <2>2, <2>3, Zenon DEF Next
<1>3. UNCHANGED vars => down' = down
  BY DEF vars
<1> QED
  BY <1>1, <1>2, <1>3 DEF Orderly, Ordered

\* One packet takes a step, which needs a translation or not.
LEMMA RejectStage ==
  ASSUME TypeOK, RejectInv, config' = config, next' = next,
         NEW p \in Packets, NEW s, stage' = [stage EXCEPT ![p] = s],
         s \in HasTranslation => p \notin Rejected
  PROVE  RejectInv'
<1>1. stage'[p] = s /\ \A q \in Packets \ {p} : stage'[q] = stage[q]
  BY DEF TypeOK
<1>2. Rejected' = Rejected
  BY DEF Rejected
<1> QED
  BY <1>1, <1>2 DEF RejectInv

\* A rejected packet gets no translation.
LEMMA RejectStep ==
  ASSUME TypeOK, StepInv, RejectInv, [Next]_vars PROVE RejectInv'
<1>1. config' = config
  BY Lasting
<1>2. ASSUME UNCHANGED <<stage, next>> PROVE RejectInv'
  BY <1>1, <1>2 DEF RejectInv, Rejected
<1>3. CASE EngineStep \/ Timeout \/ Cancel \/ CloseIch
  <2>1. CASE Apply
    <3>1. PICK p \in Packets : p = captured + 1
      BY <2>1, SizesAssumption DEF Apply, TypeOK, Packets
    <3>2. \E s \in {"ignored", "committed"} : stage' = [stage EXCEPT ![p] = s]
      BY <2>1, <3>1 DEF Apply
    <3>3. next' = next
      BY <2>1 DEF Apply
    <3> QED
      BY <1>1, <3>2, <3>3, RejectStage, Zenon DEF HasTranslation
  <2>2. CASE Strategy
    <3>1. captured \in Packets /\ next' = next
      BY <2>2 DEF Strategy, StepInv
    <3>2. UNCHANGED stage \/ stage' = [stage EXCEPT ![captured] = "rolledback"]
      BY <2>2 DEF Strategy, Rollback
    <3> QED
      BY <1>1, <1>2, <3>1, <3>2, RejectStage DEF HasTranslation
  <2>3. CASE Send
    <3>1. captured \in Packets /\ next' = next /\ stage' = [stage EXCEPT ![captured] = "queued"]
      BY <2>3 DEF Send, StepInv, Goes
    <3> QED
      BY <1>1, <3>1, RejectStage, Zenon DEF HasTranslation
  <2>4. CASE \/ SendClosed \/ Stop \/ WaitDone \/ AllSettled \/ Terminate \/ CloseIch
             \/ CloseQueue \/ AwaitConsumer \/ Timeout \/ Cancel
    BY <1>2, <2>4 DEF SendClosed, Stop, WaitDone, AllSettled, Terminate, CloseIch, CloseQueue,
                AwaitConsumer, Timeout, Cancel, pipeVars
  <2> QED
    BY <1>3, <2>1, <2>2, <2>3, <2>4 DEF EngineStep
<1>4. ASSUME NEW p \in Packets, PacketStep(p) PROVE RejectInv'
  <2>1. CASE StartRun(p) \/ Run(p) \/ Translated(p) \/ StartPublish(p)
    <3>1. next' = next
      BY <2>1 DEF StartRun, Run, Translated, StartPublish
    <3>2. \E s : stage' = [stage EXCEPT ![p] = s] /\ (s \in HasTranslation => p \notin Rejected)
      BY <2>1 DEF StartRun, Run, Translated, StartPublish, Rollback, Goes, NoTranslation,
                  RejectInv, HasTranslation
    <3> QED
      BY <1>1, <3>1, <3>2, RejectStage, Zenon
  <2>2. CASE Publish(p)
    <3>1. p \notin Rejected
      BY <2>2 DEF Publish, RejectInv, HasTranslation
    <3>2. \A q \in Packets \ {p} : stage'[q] = stage[q] /\ next'[q] = next[q]
      BY <2>2 DEF Publish, Goes, TypeOK
    <3> QED
      BY <1>1, <3>1, <3>2 DEF RejectInv, Rejected
  <2>3. CASE PublishNil(p) \/ PublishClosed(p)
    <3>1. next' = next /\ (stage' = stage \/ stage' = [stage EXCEPT ![p] = "rolledback"])
      BY <2>3 DEF PublishNil, PublishClosed, Rollback, pipeVars
    <3> QED
      BY <1>1, <1>2, <3>1, RejectStage DEF HasTranslation
  <2> QED
    BY <1>4, <2>1, <2>2, <2>3 DEF PacketStep
<1>5. ASSUME NEW w \in Writers, ConsumerStep(w) \/ \E p \in Packets : WriteTask(w, p)
      PROVE  RejectInv'
  BY <1>2, <1>5 DEF ConsumerStep, Block, Take, TakeClosed, WriteInOrder, StartDrain, Drain, Drained,
                    WriteTask, pipeVars
<1>6. CASE UNCHANGED vars
  BY <1>2, <1>6 DEF vars
<1> QED
  BY <1>3, <1>4, <1>5, <1>6 DEF Next

\* A packet before its publication takes a step towards it.
LEMMA TurnStage ==
  ASSUME TypeOK, \A q \in Packets : Turn(q), UNCHANGED <<captured, next>>,
         NEW p \in Packets, stage[p] # "out",
         NEW s \in {"queued", "running", "translating", "ran", "nil"},
         stage' = [stage EXCEPT ![p] = s],
         \A q \in Packets \ {p} : stage[q] = "committed" => engine' \in {"apply", "send"}
  PROVE  \A q \in Packets : Turn(q)'
<1>1. stage'[p] = s /\ \A q \in Packets \ {p} : stage'[q] = stage[q]
  BY DEF TypeOK
<1> SUFFICES ASSUME NEW q \in Packets PROVE Turn(q)'
  OBVIOUS
<1>2. CASE q = p
  BY <1>1, <1>2 DEF Turn
<1>3. CASE q # p
  <2>1. stage'[q] = stage[q] /\ Turn(q)
    BY <1>1, <1>3
  <2>2. ASSUME stage[q] \in {"publishing", "out"}, NEW r \in Packets, r < q PROVE stage'[r] = "out"
    <3>1. stage[r] = "out"
      BY <2>1, <2>2 DEF Turn
    <3> QED
      BY <1>1, <3>1
  <2> QED
    BY <1>3, <2>1, <2>2 DEF Turn
<1> QED
  BY <1>2, <1>3

\* The engine captures one packet at a time.
LEMMA TurnEngine ==
  ASSUME TypeOK, StepInv, Orderly, Orderly', \A q \in Packets : Turn(q),
         EngineStep \/ Timeout \/ Cancel \/ CloseIch
  PROVE  \A q \in Packets : Turn(q)'
<1> ~ctxDone /\ ~ctxDone' /\ ~down /\ ~down'
  BY DEF Orderly
<1>1. CASE Apply
  <2>1. PICK p \in Packets : p = captured + 1
    BY <1>1, SizesAssumption DEF Apply, TypeOK, Packets
  <2>2. /\ stage'[p] = "committed" /\ \A q \in Packets \ {p} : stage'[q] = stage[q]
        /\ captured' = p /\ engine = "capture" /\ engine' = "apply" /\ next' = next
    BY <1>1, <2>1 DEF Apply, TypeOK
  <2>3. stage[p] = "new"
    BY <2>1 DEF StepInv, TypeOK
  <2> SUFFICES ASSUME NEW q \in Packets PROVE Turn(q)'
    OBVIOUS
  <2>4. CASE q = p
    BY <2>2, <2>4 DEF Turn
  <2>5. CASE q # p
    <3>1. stage'[q] = stage[q] /\ Turn(q) /\ stage[q] # "committed"
      BY <2>2, <2>5 DEF Turn
    <3>2. ASSUME stage[q] \in {"publishing", "out"}, NEW r \in Packets, r < q PROVE stage'[r] = "out"
      <4>1. stage[r] = "out"
        BY <3>1, <3>2 DEF Turn
      <4> QED
        BY <2>2, <2>3, <4>1
    <3> QED
      BY <2>2, <3>1, <3>2 DEF Turn
  <2> QED
    BY <2>4, <2>5
<1>2. CASE Send
  <2>1. /\ captured \in Packets /\ stage[captured] # "out"
        /\ stage' = [stage EXCEPT ![captured] = "queued"] /\ UNCHANGED <<captured, next>>
    BY <1>2 DEF Send, StepInv, Goes
  <2>2. \A q \in Packets \ {captured} : stage[q] # "committed"
    BY DEF Turn
  <2> QED
    BY <2>1, <2>2, TurnStage, Zenon
<1>3. CASE \/ Strategy \/ SendClosed \/ Stop \/ WaitDone \/ AllSettled \/ Terminate \/ CloseIch
           \/ CloseQueue \/ AwaitConsumer \/ Timeout \/ Cancel
  <2>1. UNCHANGED <<stage, next, captured>> /\ (engine' = "send" \/ engine \notin {"apply", "send"})
    BY <1>3 DEF Strategy, SendClosed, Stop, WaitDone, AllSettled, Terminate, CloseIch, CloseQueue,
                AwaitConsumer, Timeout, Cancel, pipeVars
  <2> QED
    BY Zenon, <2>1 DEF Turn
<1> QED
  BY <1>1, <1>2, <1>3 DEF EngineStep

\* A packet is published when those before it are out.
LEMMA TurnPacket ==
  ASSUME TypeOK, StepInv, Orderly, Orderly', \A q \in Packets : Turn(q),
         NEW p \in Packets, PacketStep(p)
  PROVE  \A q \in Packets : Turn(q)'
<1> Ordered /\ ~ctxDone /\ ~down /\ ~down'
  BY DEF Orderly
<1>1. CASE StartRun(p) \/ Run(p) \/ Translated(p)
  <2>1. UNCHANGED <<captured, next, engine>> /\ stage[p] # "out"
    BY <1>1 DEF StartRun, Run, Translated
  <2>2. \E s \in {"queued", "running", "translating", "ran", "nil"} : stage' = [stage EXCEPT ![p] = s]
    BY <1>1 DEF StartRun, Run, Translated, Goes, NoTranslation
  <2>3. \A q \in Packets \ {p} : stage[q] = "committed" => engine' \in {"apply", "send"}
    BY <2>1 DEF Turn
  <2> QED
    BY <2>1, <2>2, <2>3, TurnStage, Zenon
<1>2. CASE StartPublish(p)
  <2>1. UNCHANGED <<captured, next, engine>> /\ stage[p] = "ran" /\ MyTurn(p)
    BY <1>2 DEF StartPublish
  <2>2. stage'[p] = "publishing" /\ \A q \in Packets \ {p} : stage'[q] = stage[q]
    BY <1>2 DEF StartPublish, Goes, TypeOK
  <2>3. ASSUME NEW q \in Packets, q < p PROVE stage[q] = "out"
    <3>1. stage[q] \in PacketSteps /\ stage[q] \notin Busy \cup {"nil"}
      BY <2>1, <2>3 DEF MyTurn, TypeOK
    <3>2. q # captured /\ stage[q] # "new"
      BY <2>1, <2>3 DEF StepInv, TypeOK, Packets
    <3> QED
      BY <3>1, <3>2 DEF Turn, PacketSteps, Busy
  <2> SUFFICES ASSUME NEW q \in Packets PROVE Turn(q)'
    OBVIOUS
  <2>4. ASSUME NEW r \in Packets, stage[r] = "out" PROVE stage'[r] = "out"
    BY <2>1, <2>2, <2>4
  <2>5. CASE q = p
    BY <2>2, <2>3, <2>4, <2>5 DEF Turn
  <2>6. CASE q # p
    BY <2>1, <2>2, <2>4, <2>6 DEF Turn
  <2> QED
    BY <2>5, <2>6
<1>3. CASE Publish(p)
  <2>1. UNCHANGED <<captured, engine>> /\ stage[p] = "publishing"
    BY <1>3 DEF Publish
  <2>2. /\ stage'[p] \in {"publishing", "out"} /\ (stage'[p] = "out" => next[p] = NumWriters)
        /\ next'[p] = next[p] + 1
        /\ \A q \in Packets \ {p} : stage'[q] = stage[q] /\ next'[q] = next[q]
    BY Zenon, <1>3 DEF Publish, Goes, TypeOK
  <2>3. ASSUME NEW r \in Packets, stage[r] = "out" PROVE stage'[r] = "out"
    BY <2>1, <2>2, <2>3
  <2> SUFFICES ASSUME NEW q \in Packets PROVE Turn(q)'
    OBVIOUS
  <2>4. CASE q = p
    BY <2>1, <2>2, <2>3, <2>4 DEF Turn
  <2>5. CASE q # p
    BY Zenon, <2>1, <2>2, <2>3, <2>5 DEF Turn
  <2> QED
    BY <2>4, <2>5
<1>4. CASE PublishNil(p) \/ PublishClosed(p)
  BY <1>4 DEF PublishNil, PublishClosed
<1> QED
  BY <1>1, <1>2, <1>3, <1>4 DEF PacketStep

\* Every step keeps the order.
LEMMA TurnStep ==
  ASSUME TypeOK, StepInv, TurnInv, [Next]_vars PROVE TurnInv'
<1> SUFFICES ASSUME Orderly' PROVE \A q \in Packets : Turn(q)'
  BY DEF TurnInv
<1>1. Orderly /\ \A q \in Packets : Turn(q)
  BY Lasting DEF TurnInv
<1>2. ASSUME UNCHANGED <<stage, next, captured, engine>> PROVE \A q \in Packets : Turn(q)'
  BY <1>1, <1>2 DEF Turn
<1>3. CASE EngineStep \/ Timeout \/ Cancel \/ CloseIch
  BY <1>1, <1>3, TurnEngine
<1>4. ASSUME NEW p \in Packets, PacketStep(p) PROVE \A q \in Packets : Turn(q)'
  BY Zenon, <1>1, <1>4, TurnPacket
<1>5. ASSUME NEW w \in Writers, ConsumerStep(w) \/ \E p \in Packets : WriteTask(w, p)
      PROVE  \A q \in Packets : Turn(q)'
  BY <1>2, <1>5 DEF ConsumerStep, Block, Take, TakeClosed, WriteInOrder, StartDrain, Drain, Drained,
                    WriteTask, pipeVars
<1>6. CASE UNCHANGED vars
  BY <1>2, <1>6 DEF vars
<1> QED
  BY <1>3, <1>4, <1>5, <1>6 DEF Next

-----------------------------------------------------------------------------
\* Places of a translation

\* The translation of p is in the queue of w or with what writes for w.
InHand(p, w) == p \in Sent(w) \/ item[w] = p \/ p \in tasks[w]

\* It is there once, and only after it was published to w.
PlaceInv(w) ==
  /\ \A i, j \in 1..Len(queue[w]) : i # j => queue[w][i] # queue[w][j]
  /\ \A i \in 1..Len(queue[w]) : queue[w][i] # item[w] /\ queue[w][i] \notin tasks[w]
  /\ item[w] \notin tasks[w]
  /\ \A p \in Packets : next[p] <= w => ~InHand(p, w)
PlacesInv == \A w \in Writers : PlaceInv(w)

\* Initially nothing is published.
LEMMA PlacesInit == Init => PlacesInv
<1> SUFFICES ASSUME Init, NEW w \in Writers PROVE PlaceInv(w)
  BY DEF PlacesInv
<1> QED
  BY SizesAssumption DEF Init, PlaceInv, InHand, Sent, Packets, Writers

\* Sequences, item by item.
LEMMA TailItems ==
  ASSUME NEW s \in Seq(Packets), s # <<>>
  PROVE  /\ Len(s) \in Nat \ {0} /\ Len(Tail(s)) = Len(s) - 1 /\ Head(s) = s[1]
         /\ \A i \in 1..Len(Tail(s)) : i + 1 \in 1..Len(s) /\ Tail(s)[i] = s[i + 1]
         /\ Tail(s) \in Seq(Packets) /\ Head(s) \in Packets
OBVIOUS

\* What an append adds is at the end.
LEMMA AppendItems ==
  ASSUME NEW s \in Seq(Packets), NEW p \in Packets
  PROVE  /\ Len(s) \in Nat /\ Len(Append(s, p)) = Len(s) + 1
         /\ \A i \in 1..Len(s) : Append(s, p)[i] = s[i]
         /\ Append(s, p)[Len(s) + 1] = p
         /\ Append(s, p) \in Seq(Packets)
OBVIOUS

\* What is in a queue, by position.
LEMMA SentItems ==
  ASSUME NEW w, queue[w] \in Seq(Packets)
  PROVE  \A p : p \in Sent(w) <=> \E i \in 1..Len(queue[w]) : queue[w][i] = p
BY DEF Sent

\* The same in the next state.
LEMMA SentItemsNext ==
  ASSUME NEW w, queue'[w] \in Seq(Packets)
  PROVE  \A p : p \in Sent(w)' <=> \E i \in 1..Len(queue'[w]) : queue'[w][i] = p
BY DEF Sent

\* A queue that gets one more packet.
LEMMA SentAppend ==
  ASSUME NEW w, NEW p \in Packets, queue[w] \in Seq(Packets), queue'[w] = Append(queue[w], p)
  PROVE  \A q \in Packets : q \in Sent(w)' <=> q \in Sent(w) \/ q = p
<1> TAKE q \in Packets
<1> DEFINE n == Len(queue[w])
<1>1. /\ n \in Nat /\ Len(queue'[w]) = n + 1 /\ queue'[w][n + 1] = p
      /\ \A i \in 1..n : queue'[w][i] = queue[w][i]
      /\ queue'[w] \in Seq(Packets)
  BY AppendItems
<1>2. q \in Sent(w) <=> \E i \in 1..n : queue[w][i] = q
  BY SentItems
<1>3. q \in Sent(w)' <=> \E i \in 1..n + 1 : queue'[w][i] = q
  <2>1. q \in Sent(w)' <=> \E i \in 1..Len(queue'[w]) : queue'[w][i] = q
    BY <1>1, SentItemsNext, Zenon
  <2> QED
    BY <1>1, <2>1, Zenon
<1> HIDE DEF n
<1>4. n + 1 \in 1..n + 1 /\ \A i \in 1..n : i \in 1..n + 1
  BY <1>1
<1>5. ASSUME q \in Sent(w)' PROVE q \in Sent(w) \/ q = p
  <2>1. PICK i \in 1..n + 1 : queue'[w][i] = q
    BY <1>3, <1>5, Zenon
  <2>2. i \in 1..n \/ i = n + 1
    BY <1>1
  <2> QED
    BY <1>1, <1>2, <2>1, <2>2, Zenon
<1>6. ASSUME q \in Sent(w) PROVE q \in Sent(w)'
  <2>1. PICK i \in 1..n : queue[w][i] = q
    BY <1>2, <1>6
  <2> QED
    BY <1>1, <1>3, <1>4, <2>1, Zenon
<1>7. ASSUME q = p PROVE q \in Sent(w)'
  BY <1>1, <1>3, <1>4, <1>7, Zenon
<1> QED
  BY <1>5, <1>6, <1>7

\* A publication puts one packet in one queue.
LEMMA HandPublish ==
  ASSUME TypeOK, NEW p \in Packets, Publish(p), next[p] \in Writers
  PROVE  \A q \in Packets, v \in Writers :
           InHand(q, v)' <=> InHand(q, v) \/ (q = p /\ v = next[p])
<1>1. PICK w \in Writers : w = next[p]
  OBVIOUS
<1>2. queue'[w] = Append(queue[w], p) /\ \A v \in Writers \ {w} : queue'[v] = queue[v]
  BY <1>1 DEF Publish, TypeOK
<1>3. queue[w] \in Seq(Packets)
  BY Zenon DEF TypeOK
<1>4. \A q \in Packets : q \in Sent(w)' <=> q \in Sent(w) \/ q = p
  BY Zenon, <1>2, <1>3, SentAppend
<1>5. UNCHANGED <<item, tasks>>
  BY DEF Publish
<1> SUFFICES ASSUME NEW q \in Packets, NEW v \in Writers
             PROVE  InHand(q, v)' <=> InHand(q, v) \/ (q = p /\ v = w)
  BY <1>1
<1>6. CASE v = w
  BY Zenon, <1>4, <1>5, <1>6 DEF InHand
<1>7. CASE v # w
  BY <1>2, <1>5, <1>7 DEF InHand, Sent
<1> QED
  BY <1>6, <1>7

\* Writers are numbered from 1, and next is a number.
LEMMA WriterNumbers ==
  ASSUME TypeOK
  PROVE  /\ \A w \in Writers : w \in Nat /\ w <= w
         /\ \A q \in Packets : next[q] \in Nat
BY SizesAssumption DEF TypeOK, Writers

\* A publication puts the packet where it was not.
LEMMA PlacesPublish ==
  ASSUME TypeOK, TypeOK', StepInv, PlacesInv, NEW p \in Packets, Publish(p)
  PROVE  PlacesInv'
<1>1. PICK w \in Writers : w = next[p]
  BY SizesAssumption DEF Publish, StepInv, TypeOK, Writers
<1>2. queue'[w] = Append(queue[w], p) /\ \A v \in Writers \ {w} : queue'[v] = queue[v]
  BY Zenon, <1>1 DEF Publish, TypeOK
<1>3. UNCHANGED <<item, tasks>>
  BY DEF Publish
<1>4. next'[p] = w + 1 /\ \A q \in Packets \ {p} : next'[q] = next[q]
  BY <1>1 DEF Publish, TypeOK
<1>5. \A v \in Writers : queue[v] \in Seq(Packets) /\ queue'[v] \in Seq(Packets)
  BY DEF TypeOK
<1>6. \A q \in Packets : next[q] \in Nat
  BY Zenon, WriterNumbers
<1>7. ASSUME NEW v \in Writers \ {w} PROVE PlaceInv(v)'
  <2>1. PlaceInv(v)
    BY DEF PlacesInv
  <2>2. v \in Nat
    BY Zenon, WriterNumbers
  <2>3. ASSUME NEW q \in Packets PROVE InHand(q, v)' <=> InHand(q, v)
    BY Zenon, <1>2, <1>3 DEF InHand, Sent
  <2>4. ASSUME NEW q \in Packets, next'[q] <= v PROVE next[q] <= v
    BY <1>1, <1>4, <1>6, <2>2, <2>4
  <2> QED
    BY Zenon, <1>2, <1>3, <2>1, <2>3, <2>4 DEF PlaceInv
<1>8. PlaceInv(w)'
  <2>1. PlaceInv(w) /\ ~InHand(p, w)
    BY Zenon, <1>1, WriterNumbers DEF PlacesInv, PlaceInv
  <2>2. queue[w] \in Seq(Packets) /\ queue'[w] \in Seq(Packets)
    BY <1>1, <1>5
  <2> DEFINE n == Len(queue[w])
  <2>3. /\ n \in Nat /\ Len(queue'[w]) = n + 1 /\ queue'[w][n + 1] = p
        /\ \A i \in 1..n : queue'[w][i] = queue[w][i]
    BY <1>2, <2>2, AppendItems
  <2>4. \A i \in 1..n : queue[w][i] # p
    BY <2>1, <2>2, SentItems DEF InHand
  <2> HIDE DEF n
  <2>5. \A i \in 1..n + 1 : i \in 1..n \/ i = n + 1
    BY <2>3
  <2>6. ASSUME NEW i \in 1..n + 1, NEW j \in 1..n + 1, i # j PROVE queue'[w][i] # queue'[w][j]
    <3>1. CASE i \in 1..n /\ j \in 1..n
      BY <2>1, <2>3, <2>6, <3>1 DEF PlaceInv, n
    <3>2. CASE i = n + 1 \/ j = n + 1
      BY <2>3, <2>4, <2>5, <2>6, <3>2
    <3> QED
      BY <2>5, <3>1, <3>2
  <2>7. ASSUME NEW i \in 1..n + 1 PROVE queue'[w][i] # item[w] /\ queue'[w][i] \notin tasks[w]
    BY <2>1, <2>3, <2>5 DEF PlaceInv, InHand, n
  <2>8. ASSUME NEW q \in Packets, next'[q] <= w PROVE ~InHand(q, w)'
    <3>1. q # p /\ next[q] <= w
      BY <1>1, <1>4, <1>6, <2>8
    <3>2. ~InHand(q, w)
      BY Zenon, <2>1, <3>1 DEF PlaceInv
    <3>3. q \notin Sent(w)'
      BY Zenon, <1>2, <2>2, <3>1, <3>2, SentAppend DEF InHand
    <3> QED
      BY <1>3, <3>2, <3>3 DEF InHand
  <2>9. item'[w] \notin tasks'[w]
    BY Zenon, <1>3, <2>1 DEF PlaceInv
  <2> QED
    BY Zenon, <1>3, <2>3, <2>6, <2>7, <2>8, <2>9 DEF PlaceInv
<1> QED
  BY Zenon, <1>7, <1>8 DEF PlacesInv

\* Once its head is taken, a queue has everything else.
LEMMA SentTail ==
  ASSUME TypeOK, TypeOK', PlacesInv, NEW w \in Writers,
         queue[w] # <<>>, queue'[w] = Tail(queue[w])
  PROVE  /\ Head(queue[w]) \in Packets /\ Head(queue[w]) \in Sent(w)
         /\ \A q \in Packets : q \in Sent(w)' <=> q \in Sent(w) /\ q # Head(queue[w])
<1> DEFINE s == queue[w]
<1>1. s \in Seq(Packets) /\ queue'[w] \in Seq(Packets)
  BY DEF TypeOK
<1>2. /\ Len(s) \in Nat \ {0} /\ Len(Tail(s)) = Len(s) - 1 /\ Head(s) = s[1] /\ Head(s) \in Packets
      /\ \A i \in 1..Len(Tail(s)) : i + 1 \in 1..Len(s) /\ Tail(s)[i] = s[i + 1]
  BY <1>1, TailItems
<1>3. \A i, j \in 1..Len(s) : i # j => s[i] # s[j]
  BY Zenon DEF PlacesInv, PlaceInv
<1>4. \A q : q \in Sent(w) <=> \E i \in 1..Len(s) : s[i] = q
  BY <1>1, SentItems
<1>5. \A q : q \in Sent(w)' <=> \E i \in 1..Len(Tail(s)) : Tail(s)[i] = q
  <2>1. queue'[w] = Tail(s)
    OBVIOUS
  <2>2. \A q : q \in Sent(w)' <=> \E i \in 1..Len(queue'[w]) : queue'[w][i] = q
    BY <1>1, SentItemsNext, Zenon
  <2> HIDE DEF s
  <2> QED
    BY <2>1, <2>2, Zenon
<1> HIDE DEF s
<1>6. 1 \in 1..Len(s)
  BY <1>2
<1>7. ASSUME NEW q \in Packets, q \in Sent(w)' PROVE q \in Sent(w) /\ q # Head(s)
  <2>1. PICK i \in 1..Len(Tail(s)) : Tail(s)[i] = q
    BY <1>5, <1>7, Zenon
  <2>2. i + 1 \in 1..Len(s) /\ s[i + 1] = q /\ i + 1 # 1
    BY <1>2, <2>1
  <2> QED
    BY <1>2, <1>3, <1>4, <1>6, <2>2
<1>8. ASSUME NEW q \in Packets, q \in Sent(w), q # Head(s) PROVE q \in Sent(w)'
  <2>1. PICK i \in 1..Len(s) : s[i] = q
    BY <1>4, <1>8
  <2>2. i - 1 \in 1..Len(Tail(s)) /\ (i - 1) + 1 = i
    BY <1>2, <1>8, <2>1
  <2> QED
    BY <1>2, <1>5, <2>1, <2>2
<1>9. Head(s) \in Sent(w)
  BY <1>2, <1>4, <1>6
<1> QED
  BY <1>2, <1>7, <1>8, <1>9 DEF s

\* What a step for a writer takes out of its hands.
Left(w, S) == \A q \in Packets : InHand(q, w)' <=> InHand(q, w) /\ q \notin S

\* Take moves the head from the queue to what writes.
LEMMA HandTake ==
  ASSUME TypeOK, TypeOK', StepInv, PlacesInv, NEW w \in Writers, Take(w)
  PROVE  Left(w, {})
<1> DEFINE h == Head(queue[w])
<1>1. h \in Packets /\ h \in Sent(w) /\ \A q \in Packets : q \in Sent(w)' <=> q \in Sent(w) /\ q # h
  <2>1. queue[w] # <<>> /\ queue'[w] = Tail(queue[w])
    BY DEF Take, TypeOK
  <2> QED
    BY Zenon, <2>1, SentTail
<1>2. CASE Ordered
  <2>1. item[w] = 0 /\ item'[w] = h /\ tasks' = tasks
    BY Zenon, <1>2 DEF Take, StepInv, TypeOK
  <2>2. 0 \notin Packets
    BY SizesAssumption DEF Packets
  <2> QED
    BY Zenon, <1>1, <2>1, <2>2 DEF Left, InHand
<1>3. CASE ~Ordered
  <2>1. item' = item /\ tasks'[w] = tasks[w] \cup {h}
    BY Zenon, <1>3 DEF Take, TypeOK
  <2> QED
    BY Zenon, <1>1, <2>1 DEF Left, InHand
<1> QED
  BY <1>2, <1>3

\* Drain throws the head away.
LEMMA HandDrain ==
  ASSUME TypeOK, TypeOK', PlacesInv, NEW w \in Writers, Drain(w)
  PROVE  InHand(Head(queue[w]), w) /\ Left(w, {Head(queue[w])})
<1> DEFINE h == Head(queue[w])
<1>1. queue[w] # <<>> /\ queue'[w] = Tail(queue[w]) /\ UNCHANGED <<item, tasks>>
  BY DEF Drain, TypeOK
<1>2. h \in Packets /\ h \in Sent(w) /\ \A q \in Packets : q \in Sent(w)' <=> q \in Sent(w) /\ q # h
  BY <1>1, SentTail
<1>3. h # item[w] /\ h \notin tasks[w]
  <2>1. queue[w] \in Seq(Packets)
    BY DEF TypeOK
  <2>2. PICK i \in 1..Len(queue[w]) : queue[w][i] = h
    BY <1>2, <2>1, SentItems
  <2> QED
    BY <2>2 DEF PlacesInv, PlaceInv
<1> QED
  BY Zenon, <1>1, <1>2, <1>3 DEF Left, InHand

\* In ordered mode the consumer writes what it took itself.
LEMMA HandWriteInOrder ==
  ASSUME TypeOK, StepInv, PlacesInv, NEW w \in Writers, WriteInOrder(w)
  PROVE  item[w] \in Packets /\ InHand(item[w], w) /\ Left(w, {item[w]})
<1>1. item[w] \in Packets /\ item'[w] = 0 /\ UNCHANGED <<queue, tasks>>
  BY Zenon DEF WriteInOrder, StepInv, TypeOK
<1>2. item[w] \notin Sent(w) /\ item[w] \notin tasks[w]
  <2>1. queue[w] \in Seq(Packets)
    BY Zenon DEF TypeOK
  <2> QED
    BY <2>1, SentItems DEF PlacesInv, PlaceInv
<1>3. Sent(w)' = Sent(w)
  BY <1>1 DEF Sent
<1>4. 0 \notin Packets
  BY SizesAssumption DEF Packets
<1> QED
  BY <1>1, <1>2, <1>3, <1>4 DEF Left, InHand

\* Otherwise a task of the pool writes it.
LEMMA HandWriteTask ==
  ASSUME TypeOK, PlacesInv, NEW w \in Writers, NEW p \in Packets, WriteTask(w, p)
  PROVE  InHand(p, w) /\ Left(w, {p})
<1>1. p \in tasks[w] /\ tasks'[w] = tasks[w] \ {p} /\ UNCHANGED <<queue, item>>
  BY Zenon DEF WriteTask, TypeOK
<1>2. p \notin Sent(w) /\ p # item[w]
  <2>1. queue[w] \in Seq(Packets)
    BY Zenon DEF TypeOK
  <2> QED
    BY <1>1, <2>1, SentItems DEF PlacesInv, PlaceInv
<1>3. Sent(w)' = Sent(w)
  BY <1>1 DEF Sent
<1> QED
  BY <1>1, <1>2, <1>3 DEF Left, InHand

\* A writer that a step does not touch.
LEMMA PlaceFrame ==
  ASSUME NEW w, PlaceInv(w), queue'[w] = queue[w], item'[w] = item[w], tasks'[w] = tasks[w], next' = next
  PROVE  PlaceInv(w)'
<1>1. \A q \in Packets : InHand(q, w)' <=> InHand(q, w)
  BY Zenon DEF InHand, Sent
<1> QED
  BY Zenon, <1>1 DEF PlaceInv

\* What a step leaves in a writer's hands is still there once.
LEMMA PlacesWriter ==
  ASSUME TypeOK, TypeOK', StepInv, PlacesInv, NEW w \in Writers,
         ConsumerStep(w) \/ \E p \in Packets : WriteTask(w, p)
  PROVE  PlacesInv'
<1>1. next' = next
  BY DEF ConsumerStep, Block, Take, TakeClosed, WriteInOrder, StartDrain, Drain, Drained,
         WriteTask, pipeVars
<1>2. \A v \in Writers \ {w} : queue'[v] = queue[v] /\ item'[v] = item[v] /\ tasks'[v] = tasks[v]
  BY Zenon DEF ConsumerStep, Block, Take, TakeClosed, WriteInOrder, StartDrain, Drain, Drained,
         WriteTask, sinkVars, TypeOK
<1>3. ASSUME NEW v \in Writers \ {w} PROVE PlaceInv(v)'
  <2>1. PlaceInv(v) /\ queue'[v] = queue[v] /\ item'[v] = item[v] /\ tasks'[v] = tasks[v]
    BY Zenon, <1>2 DEF PlacesInv
  <2> QED
    BY Zenon, <1>1, <2>1, PlaceFrame
<1>4. ASSUME NEW S, Left(w, S) PROVE \A q \in Packets : next'[q] <= w => ~InHand(q, w)'
  BY Zenon, <1>1, <1>4 DEF Left, PlacesInv, PlaceInv
<1>5. queue[w] \in Seq(Packets) /\ PlaceInv(w) /\ tasks[w] \subseteq Packets /\ 0 \notin Packets
  BY SizesAssumption DEF TypeOK, PlacesInv, Packets
<1>6. ASSUME queue[w] # <<>>, queue'[w] = Tail(queue[w])
      PROVE  /\ \A i, j \in 1..Len(queue'[w]) : i # j => queue'[w][i] # queue'[w][j]
             /\ \A i \in 1..Len(queue'[w]) : /\ queue'[w][i] # Head(queue[w])
                                            /\ queue'[w][i] # item[w] /\ queue'[w][i] \notin tasks[w]
             /\ Head(queue[w]) # item[w] /\ Head(queue[w]) \notin tasks[w]
  <2> DEFINE s == queue[w]
  <2> DEFINE t == Tail(s)
  <2> DEFINE h == Head(s)
  <2> DEFINE n == Len(s)
  <2> DEFINE m == Len(t)
  <2>1. /\ n \in Nat \ {0} /\ m = n - 1 /\ h = s[1]
        /\ \A i \in 1..m : i + 1 \in 1..n /\ t[i] = s[i + 1]
    BY Zenon, <1>5, <1>6, TailItems
  <2>2. /\ \A i, j \in 1..n : i # j => s[i] # s[j]
        /\ \A i \in 1..n : s[i] # item[w] /\ s[i] \notin tasks[w]
    BY <1>5, Zenon DEF PlaceInv
  <2>3. queue'[w] = t
    BY Zenon, <1>6
  <2> HIDE DEF s, t, h, n, m
  <2>4. 1 \in 1..n
    BY <2>1
  <2>5. ASSUME NEW i \in 1..m, NEW j \in 1..m, i # j
        PROVE  t[i] # t[j]
    <3>1. i + 1 # j + 1
      BY <2>5
    <3> QED
      BY Zenon, <2>1, <2>2, <3>1
  <2>6. ASSUME NEW i \in 1..m
        PROVE  t[i] # h /\ t[i] # item[w] /\ t[i] \notin tasks[w]
    <3>1. i + 1 # 1
      OBVIOUS
    <3> QED
      BY Zenon, <2>1, <2>2, <2>4, <3>1
  <2> QED
    BY <2>1, <2>2, <2>3, <2>4, <2>5, <2>6, Zenon DEF s, t, h, n, m
<1>7. PlaceInv(w)'
  <2>1. CASE Take(w)
    <3>1. queue[w] # <<>> /\ queue'[w] = Tail(queue[w])
      BY <2>1 DEF Take, TypeOK
    <3>2. \A q \in Packets : next'[q] <= w => ~InHand(q, w)'
      BY Zenon, <1>4, <2>1, HandTake
    <3>3. CASE Ordered
      <4>1. item'[w] = Head(queue[w]) /\ tasks' = tasks
        BY <2>1, <3>3 DEF Take, TypeOK
      <4> QED
        BY Zenon, <1>6, <3>1, <3>2, <4>1 DEF PlaceInv
    <3>4. CASE ~Ordered
      <4>1. item' = item /\ tasks'[w] = tasks[w] \cup {Head(queue[w])}
        BY Zenon, <2>1, <3>4 DEF Take, TypeOK
      <4>2. item[w] \notin tasks[w]
        BY Zenon, <1>5 DEF PlaceInv
      <4> QED
        BY Zenon, <1>6, <3>1, <3>2, <4>1, <4>2 DEF PlaceInv
    <3> QED
      BY <3>3, <3>4
  <2>2. CASE Drain(w)
    <3>1. queue[w] # <<>> /\ queue'[w] = Tail(queue[w]) /\ UNCHANGED <<item, tasks>>
      BY <2>2 DEF Drain, TypeOK
    <3>2. \A q \in Packets : next'[q] <= w => ~InHand(q, w)'
      BY <1>4, <2>2, HandDrain, Zenon
    <3>3. item[w] \notin tasks[w]
      BY <1>5 DEF PlaceInv
    <3> QED
      BY Zenon, <1>6, <3>1, <3>2, <3>3 DEF PlaceInv
  <2>3. CASE WriteInOrder(w)
    <3>1. item'[w] = 0 /\ UNCHANGED <<queue, tasks>>
      BY Zenon, <2>3 DEF WriteInOrder, TypeOK
    <3>2. \A q \in Packets : next'[q] <= w => ~InHand(q, w)'
      BY <1>4, <2>3, HandWriteInOrder, Zenon
    <3>3. \A i \in 1..Len(queue[w]) : queue[w][i] # 0
      BY <1>5
    <3> QED
      BY Zenon, <1>5, <3>1, <3>2, <3>3 DEF PlaceInv
  <2>4. ASSUME NEW p \in Packets, WriteTask(w, p) PROVE PlaceInv(w)'
    <3>1. tasks'[w] = tasks[w] \ {p} /\ UNCHANGED <<queue, item>>
      BY <2>4 DEF WriteTask, TypeOK
    <3>2. \A q \in Packets : next'[q] <= w => ~InHand(q, w)'
      BY <1>4, <2>4, HandWriteTask, Zenon
    <3> QED
      BY Zenon, <1>5, <3>1, <3>2 DEF PlaceInv
  <2>5. CASE Block(w) \/ StartDrain(w) \/ Drained(w) \/ TakeClosed(w)
    <3>1. UNCHANGED <<queue, item, tasks>>
      BY Zenon, <2>5 DEF Block, StartDrain, Drained, TakeClosed, sinkVars
    <3> QED
      BY Zenon, <1>1, <1>5, <3>1, PlaceFrame
  <2> QED
    BY <2>1, <2>2, <2>3, <2>4, <2>5 DEF ConsumerStep
<1> QED
  BY Zenon, <1>3, <1>7 DEF PlacesInv

\* Every step keeps the places.
LEMMA PlacesStep ==
  ASSUME TypeOK, TypeOK', StepInv, PlacesInv, [Next]_vars
  PROVE  PlacesInv'
<1>1. ASSUME UNCHANGED <<queue, item, tasks, next>> PROVE PlacesInv'
  BY Zenon, <1>1, PlaceFrame DEF PlacesInv
<1>2. CASE EngineStep \/ Timeout \/ Cancel \/ CloseIch
  BY Zenon, <1>1, <1>2 DEF EngineStep, Apply, Strategy, Send, SendClosed, Stop, WaitDone, AllSettled,
       CloseQueue, AwaitConsumer, Terminate, Timeout, Cancel, CloseIch, pipeVars, sinkVars
<1>3. ASSUME NEW p \in Packets, PacketStep(p) PROVE PlacesInv'
  <2>1. CASE Publish(p)
    BY <2>1, PlacesPublish
  <2> QED
    BY <1>1, <1>3, <2>1 DEF PacketStep, StartRun, Run, Translated, PublishNil, StartPublish,
         PublishClosed, pipeVars, sinkVars
<1>4. CASE UNCHANGED vars
  BY <1>1, <1>4 DEF vars
<1> QED
  BY Zenon, <1>2, <1>3, <1>4, PlacesWriter DEF Next

\* What a writer was given is not on its way to it any more.
OnceInv(w) ==
  \A p \in Packets : p \in Log!Logged(w) => next[p] > w /\ ~InHand(p, w)

\* How many packets an ordered writer was given or has in hand: those in its
\* queue follow, and no other packet was published to it.
At(w) == Len(written[w]) + (IF item[w] = 0 THEN 0 ELSE 1)
Aligned(w) ==
  /\ tasks[w] = {} /\ cons[w] # "drain"
  /\ item[w] \in {0, Len(written[w]) + 1}
  /\ \A i \in 1..Len(queue[w]) : queue[w][i] = At(w) + i
  /\ \A p \in Packets : next[p] > w <=> p <= At(w) + Len(queue[w])
OrderInv(w) == Orderly => Aligned(w)

\* A number of packets.
LEMMA AtNat ==
  ASSUME TypeOK, NEW w \in Writers
  PROVE  At(w) \in Nat /\ Len(written[w]) \in Nat
<1>1. Len(written[w]) \in Nat
  BY DEF TypeOK
<1>2. CASE item[w] = 0
  BY <1>1, <1>2 DEF At
<1>3. CASE item[w] # 0
  BY <1>1, <1>3 DEF At
<1> QED
  BY <1>1, <1>2, <1>3

\* A log that gets one more packet.
LEMMA LoggedAppend ==
  ASSUME NEW w, NEW p \in Packets, written[w] \in Seq(Packets),
         written'[w] = Append(written[w], p)
  PROVE  \A q : q \in Log!Logged(w)' <=> q \in Log!Logged(w) \/ q = p
<1> TAKE q
<1> DEFINE n == Len(written[w])
<1>1. /\ n \in Nat /\ Len(written'[w]) = n + 1 /\ written'[w][n + 1] = p
      /\ \A i \in 1..n : written'[w][i] = written[w][i]
      /\ DOMAIN written[w] = 1..n /\ DOMAIN written'[w] = 1..n + 1
  <2> DEFINE s == written[w]
  <2>1. s \in Seq(Packets) /\ written'[w] = Append(s, p)
    OBVIOUS
  <2> HIDE DEF s
  <2>2. /\ Len(s) \in Nat /\ Len(Append(s, p)) = Len(s) + 1 /\ Append(s, p)[Len(s) + 1] = p
        /\ \A i \in 1..Len(s) : Append(s, p)[i] = s[i]
        /\ Append(s, p) \in Seq(Packets)
    BY Zenon, <2>1, AppendItems
  <2>3. DOMAIN s = 1..Len(s) /\ DOMAIN Append(s, p) = 1..Len(s) + 1
    BY <2>1, <2>2
  <2> QED
    BY Zenon, <2>1, <2>2, <2>3 DEF s
<1>2. q \in Log!Logged(w) <=> \E i \in 1..n : written[w][i] = q
  BY <1>1, Zenon DEF Log!Logged
<1>3. q \in Log!Logged(w)' <=> \E i \in 1..n + 1 : written'[w][i] = q
  BY <1>1, Zenon DEF Log!Logged
<1> HIDE DEF n
<1>4. n + 1 \in 1..n + 1 /\ \A i \in 1..n : i \in 1..n + 1
  BY <1>1
<1>5. ASSUME q \in Log!Logged(w)' PROVE q \in Log!Logged(w) \/ q = p
  <2>1. PICK i \in 1..n + 1 : written'[w][i] = q
    BY <1>3, <1>5, Zenon
  <2>2. i \in 1..n \/ i = n + 1
    BY <1>1
  <2> QED
    BY <1>1, <1>2, <2>1, <2>2, Zenon
<1>6. ASSUME q \in Log!Logged(w) PROVE q \in Log!Logged(w)'
  <2>1. PICK i \in 1..n : written[w][i] = q
    BY <1>2, <1>6, Zenon
  <2> QED
    BY <1>1, <1>3, <1>4, <2>1, Zenon
<1>7. ASSUME q = p PROVE q \in Log!Logged(w)'
  BY <1>1, <1>3, <1>4, <1>7, Zenon
<1> QED
  BY <1>5, <1>6, <1>7

\* Of one writer nothing changes but, perhaps, what is published to others.
LEMMA ElsewhereOnce ==
  ASSUME NEW v \in Writers, OnceInv(v), written'[v] = written[v],
         \A q \in Packets : (next[q] > v => next'[q] > v) /\ (InHand(q, v)' => InHand(q, v))
  PROVE  OnceInv(v)'
<1>1. Log!Logged(v)' = Log!Logged(v)
  BY DEF Log!Logged
<1> QED
  BY Zenon, <1>1 DEF OnceInv

\* The same for its order.
LEMMA ElsewhereOrder ==
  ASSUME NEW v \in Writers, Aligned(v), written'[v] = written[v], item'[v] = item[v],
         tasks'[v] = tasks[v], queue'[v] = queue[v], cons'[v] # "drain",
         \A q \in Packets : next[q] > v <=> next'[q] > v
  PROVE  Aligned(v)'
BY Zenon DEF Aligned, At

\* A writer's step is its own.
LEMMA OtherWriters ==
  ASSUME TypeOK, NEW w \in Writers, ConsumerStep(w) \/ \E p \in Packets : WriteTask(w, p)
  PROVE  /\ next' = next
         /\ \A v \in Writers : v # w => /\ queue'[v] = queue[v] /\ item'[v] = item[v]
                                         /\ tasks'[v] = tasks[v] /\ written'[v] = written[v]
                                         /\ cons'[v] = cons[v]
<1>1. next' = next
  BY Zenon DEF ConsumerStep, Block, Take, TakeClosed, WriteInOrder, StartDrain, Drain, Drained,
         WriteTask, pipeVars
<1> SUFFICES ASSUME NEW v \in Writers, v # w
             PROVE  /\ queue'[v] = queue[v] /\ item'[v] = item[v] /\ tasks'[v] = tasks[v]
                    /\ written'[v] = written[v] /\ cons'[v] = cons[v]
  BY <1>1
<1>2. queue'[v] = queue[v] /\ item'[v] = item[v]
  BY Zenon DEF ConsumerStep, Block, Take, TakeClosed, WriteInOrder, StartDrain, Drain, Drained,
       WriteTask, sinkVars, TypeOK
<1>3. tasks'[v] = tasks[v] /\ cons'[v] = cons[v]
  BY Zenon DEF ConsumerStep, Block, Take, TakeClosed, WriteInOrder, StartDrain, Drain, Drained,
       WriteTask, sinkVars, TypeOK
<1>4. written'[v] = written[v]
  BY Zenon DEF ConsumerStep, Block, Take, TakeClosed, WriteInOrder, StartDrain, Drain, Drained,
       WriteTask, WrittenTo, sinkVars, TypeOK
<1> QED
  BY Zenon, <1>2, <1>3, <1>4

\* What a writer was given it is not given again.
LEMMA OnceWriter ==
  ASSUME TypeOK, TypeOK', StepInv, PlacesInv, NEW w \in Writers,
         ConsumerStep(w) \/ \E p \in Packets : WriteTask(w, p),
         NEW v \in Writers, OnceInv(v)
  PROVE  OnceInv(v)'
<1>1. next' = next
  BY Zenon, OtherWriters
<1>2. CASE v # w
  <2>1. queue'[v] = queue[v] /\ item'[v] = item[v] /\ tasks'[v] = tasks[v] /\ written'[v] = written[v]
    BY <1>2, OtherWriters, Zenon
  <2>2. \A q \in Packets : InHand(q, v)' <=> InHand(q, v)
    BY <2>1, Zenon DEF InHand, Sent
  <2> QED
    BY Zenon, <1>1, <2>1, <2>2, ElsewhereOnce
<1>3. CASE v = w
  <2>1. ASSUME \A q \in Packets : InHand(q, w)' => InHand(q, w), written' = written PROVE OnceInv(w)'
    BY <1>1, <1>3, <2>1, ElsewhereOnce
  <2>2. ASSUME NEW p \in Packets, InHand(p, w), Left(w, {p}), WrittenTo(w, p) PROVE OnceInv(w)'
    <3>1. CASE ctxDone
      BY <2>1, <2>2, <3>1 DEF WrittenTo, Left
    <3>2. CASE ~ctxDone
      <4>1. written'[w] = Append(written[w], p) /\ written[w] \in Seq(Packets)
        BY Zenon, <2>2, <3>2 DEF WrittenTo, TypeOK
      <4>2. \A q : q \in Log!Logged(w)' <=> q \in Log!Logged(w) \/ q = p
        BY <4>1, LoggedAppend
      <4>3. next[p] > w
        <5>1. w \in Nat /\ next[p] \in Nat
          <6>1. next \in [Packets -> 1..NumWriters + 1]
            BY DEF TypeOK
          <6> QED
            BY <6>1, SizesAssumption DEF Writers
        <5>2. next[p] <= w => ~InHand(p, w)
          BY Zenon DEF PlacesInv, PlaceInv
        <5> QED
          BY <2>2, <5>1, <5>2
      <4> QED
        BY <1>1, <1>3, <2>2, <4>2, <4>3, Zenon DEF OnceInv, Left
    <3> QED
      BY <3>1, <3>2
  <2>3. CASE Take(w)
    <3>1. Left(w, {}) /\ written' = written
      BY Zenon, <2>3, HandTake DEF Take
    <3> QED
      BY <1>3, <2>1, <3>1 DEF Left
  <2>4. CASE Drain(w)
    <3>1. Left(w, {Head(queue[w])}) /\ written' = written
      BY Zenon, <2>4, HandDrain DEF Drain
    <3> QED
      BY <1>3, <2>1, <3>1 DEF Left
  <2>5. CASE WriteInOrder(w)
    <3>1. item[w] \in Packets /\ InHand(item[w], w) /\ Left(w, {item[w]}) /\ WrittenTo(w, item[w])
      BY Zenon, <2>5, HandWriteInOrder DEF WriteInOrder
    <3>2. PICK p \in Packets : p = item[w]
      BY <3>1
    <3> QED
      BY <1>3, <2>2, <3>1, <3>2
  <2>6. ASSUME NEW p \in Packets, WriteTask(w, p) PROVE OnceInv(w)'
    BY <2>2, <2>6, HandWriteTask, Zenon DEF WriteTask
  <2>7. CASE Block(w) \/ TakeClosed(w) \/ StartDrain(w) \/ Drained(w)
    <3>1. UNCHANGED <<queue, item, tasks, written>>
      BY Zenon, <2>7 DEF Block, TakeClosed, StartDrain, Drained, sinkVars
    <3>2. \A q \in Packets : InHand(q, w)' <=> InHand(q, w)
      BY Zenon, <3>1 DEF InHand, Sent
    <3> QED
      BY <1>3, <2>1, <3>1, <3>2
  <2> QED
    BY <1>3, <2>3, <2>4, <2>5, <2>6, <2>7, Zenon DEF ConsumerStep
<1> QED
  BY <1>2, <1>3

\* A published packet was not given to the writer before.
LEMMA OncePublish ==
  ASSUME TypeOK, StepInv, NEW p \in Packets, Publish(p), NEW v \in Writers, OnceInv(v)
  PROVE  OnceInv(v)'
<1>1. next \in [Packets -> 1..NumWriters + 1] /\ NumWriters \in Nat
  BY SizesAssumption DEF TypeOK
<1>2. next[p] \in Writers
  BY <1>1 DEF Publish, StepInv, Writers
<1>3. \A q \in Packets : InHand(q, v)' <=> InHand(q, v) \/ (q = p /\ v = next[p])
  BY <1>2, HandPublish
<1>4. \A q \in Packets : next'[q] = IF q = p THEN next[p] + 1 ELSE next[q]
  BY <1>1 DEF Publish
<1>5. Log!Logged(v)' = Log!Logged(v)
  BY DEF Publish, Log!Logged
<1> SUFFICES ASSUME NEW q \in Packets, q \in Log!Logged(v)
             PROVE  next'[q] > v /\ ~InHand(q, v)'
  BY <1>5 DEF OnceInv
<1>6. next[q] > v /\ ~InHand(q, v)
  BY Zenon DEF OnceInv
<1>7. next[q] \in Int /\ v \in Int
  BY <1>1 DEF Writers
<1>8. next'[q] > v
  BY <1>4, <1>6, <1>7
<1>9. ~(q = p /\ v = next[p])
  BY <1>6, <1>7
<1> QED
  BY <1>3, <1>6, <1>8, <1>9, Zenon
=============================================================================
