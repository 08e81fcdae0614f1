------------------------- MODULE TransformerProofs -------------------------
(***************************************************************************)
(* What the flow-ordered writer has logged, what the WaitGroup of a        *)
(* transformer counts, and that nothing is on its way to a writer once     *)
(* WaitDone found it at zero, for any number of packets, writers and       *)
(* workers and any capacities.                                             *)
(***************************************************************************)
EXTENDS TransformerTypes, FiniteSetTheorems, TLAPS

\* The packet published next is the one that the writer waits for.
LEMMA OrderPublish ==
  ASSUME TypeOK, StepInv, Orderly, TurnInv, NEW p \in Packets, Publish(p),
         NEW v \in Writers, Aligned(v)
  PROVE  Aligned(v)'
<1>1. next \in [Packets -> 1..NumWriters + 1] /\ NumWriters \in Nat /\ NumPackets \in Nat
  BY SizesAssumption DEF TypeOK
<1>2. v \in Int /\ next[p] \in Int /\ p \in Int
  BY <1>1 DEF Writers, Packets
<1>3. \A q \in Packets : next'[q] = IF q = p THEN next[p] + 1 ELSE next[q]
  BY <1>1 DEF Publish
<1>4. written' = written /\ item' = item /\ tasks' = tasks /\ cons' = cons
  BY DEF Publish
<1>5. CASE v # next[p]
  <2>1. queue'[v] = queue[v]
    BY <1>5 DEF Publish, TypeOK
  <2>2. \A q \in Packets : next[q] > v <=> next'[q] > v
    BY <1>2, <1>3, <1>5
  <2>3. cons'[v] # "drain"
    BY <1>4 DEF Aligned
  <2> QED
    BY <1>4, <2>1, <2>2, <2>3, ElsewhereOrder
<1>6. CASE v = next[p]
  <2> DEFINE a == At(v)
             s == queue[v]
  <2>1. s \in Seq(Packets) /\ queue'[v] = Append(s, p)
    BY <1>6 DEF Publish, TypeOK
  <2>2. /\ Len(s) \in Nat /\ Len(queue'[v]) = Len(s) + 1 /\ queue'[v][Len(s) + 1] = p
        /\ \A i \in 1..Len(s) : queue'[v][i] = s[i]
    BY <2>1, AppendItems
  <2>3. a \in Nat
    BY AtNat
  <2>4. At(v)' = a
    BY <1>4 DEF At
  <2>5. /\ \A i \in 1..Len(s) : s[i] = a + i
        /\ \A q \in Packets : next[q] > v <=> q <= a + Len(s)
        /\ tasks[v] = {} /\ cons[v] # "drain" /\ item[v] \in {0, Len(written[v]) + 1}
    BY Zenon DEF Aligned
  <2> HIDE DEF a, s
  <2>6. \A q \in Packets : q < p => next[q] > v
    <3>1. stage[p] = "publishing"
      BY DEF Publish
    <3>2. \A q \in Packets : q < p => next[q] = NumWriters + 1
      BY <3>1, Zenon DEF TurnInv, Turn
    <3> QED
      BY <1>1, <3>2 DEF Writers
  <2>7. p > a + Len(s)
    BY <1>2, <1>6, <2>2, <2>3, <2>5
  <2>8. p = a + Len(s) + 1
    <3>1. p \in 1..NumPackets /\ Len(s) \in Nat /\ NumPackets \in Nat
      BY <1>1, <2>2 DEF Packets
    <3>2. PICK q \in Packets : q = a + Len(s) + 1
      BY <2>3, <2>7, <3>1 DEF Packets
    <3>3. ~(q <= a + Len(s))
      BY <2>3, <3>1, <3>2
    <3>4. ~(q < p)
      BY <2>5, <2>6, <3>3, Zenon
    <3> QED
      BY <2>3, <2>7, <3>1, <3>2, <3>4
  <2>9. \A i \in 1..Len(queue'[v]) : queue'[v][i] = a + i
    BY <2>2, <2>3, <2>5, <2>8
  <2>10. \A q \in Packets : next'[q] > v <=> q <= a + Len(queue'[v])
    <3> TAKE q \in Packets
    <3>1. q \in Int /\ Len(s) \in Nat /\ a + Len(queue'[v]) = p
      BY <1>1, <2>2, <2>3, <2>8 DEF Packets
    <3>2. CASE q = p
      <4>1. next'[q] = v + 1
        BY <1>3, <1>6, <3>2
      <4> QED
        BY <1>2, <3>1, <3>2, <4>1
    <3>3. CASE q # p
      <4>1. next'[q] > v <=> q <= a + Len(s)
        BY <1>3, <2>5, <3>3
      <4>2. q <= p <=> q <= a + Len(s)
        BY <2>3, <2>8, <3>1, <3>3
      <4> QED
        BY <3>1, <4>1, <4>2, Zenon
    <3> QED
      BY <3>2, <3>3
  <2> QED
    BY <1>4, <2>4, <2>5, <2>9, <2>10, Zenon DEF Aligned
<1> QED
  BY <1>5, <1>6

\* An ordered writer takes and writes what is at the head of its queue.
LEMMA OrderWriter ==
  ASSUME TypeOK, TypeOK', StepInv, Orderly, NEW w \in Writers,
         ConsumerStep(w) \/ \E p \in Packets : WriteTask(w, p),
         NEW v \in Writers, Aligned(v)
  PROVE  Aligned(v)'
<1>1. next' = next
  BY OtherWriters
<1>2. CASE v # w
  <2>1. /\ queue'[v] = queue[v] /\ item'[v] = item[v] /\ tasks'[v] = tasks[v]
        /\ written'[v] = written[v]
    BY <1>2, OtherWriters, Zenon
  <2>2. cons'[v] = cons[v]
    BY <1>2, OtherWriters, Zenon
  <2>3. cons'[v] # "drain"
    BY <2>2 DEF Aligned
  <2> QED
    BY <1>1, <2>1, <2>3, ElsewhereOrder
<1>3. CASE v = w
  <2> DEFINE n == Len(written[w])
             a == At(w)
             s == queue[w]
  <2>1. n \in Nat /\ a \in Nat /\ s \in Seq(Packets) /\ written[w] \in Seq(Packets)
    BY AtNat DEF TypeOK
  <2>2. /\ tasks[w] = {} /\ cons[w] # "drain" /\ item[w] \in {0, n + 1}
        /\ \A i \in 1..Len(s) : s[i] = a + i
        /\ \A q \in Packets : next[q] > w <=> q <= a + Len(s)
    BY <1>3, Zenon DEF Aligned
  <2>3. cons[w] = "write" <=> item[w] # 0
    BY DEF StepInv
  <2>4. CASE Take(w)
    <3>1. s # <<>> /\ queue'[w] = Tail(s) /\ item'[w] = Head(s) /\ cons'[w] = "write"
          /\ tasks' = tasks /\ written' = written
      BY <2>4 DEF Take, TypeOK, Orderly
    <3>2. item[w] = 0
      BY <2>3, <2>4 DEF Take
    <3>3. a = n
      BY <2>1, <3>2 DEF At
    <3> HIDE DEF s
    <3>4. /\ Len(s) \in Nat \ {0} /\ Len(queue'[w]) = Len(s) - 1 /\ item'[w] = s[1]
          /\ \A i \in 1..Len(queue'[w]) : i + 1 \in 1..Len(s) /\ queue'[w][i] = s[i + 1]
      BY <2>1, <3>1, TailItems
    <3> HIDE DEF n, a
    <3>5. item'[w] = n + 1
      BY <2>1, <2>2, <3>3, <3>4
    <3>6. At(w)' = n + 1
      <4>1. item'[w] # 0 /\ Len(written'[w]) = n
        BY <2>1, <3>1, <3>5 DEF n
      <4> QED
        BY <4>1 DEF At
    <3>7. \A i \in 1..Len(queue'[w]) : queue'[w][i] = n + 1 + i
      BY <2>1, <2>2, <3>3, <3>4
    <3>8. a + Len(s) = n + 1 + Len(queue'[w])
      BY <2>1, <3>3, <3>4
    <3>9. /\ tasks'[w] = {} /\ cons'[w] # "drain" /\ item'[w] \in {0, Len(written'[w]) + 1}
          /\ \A q \in Packets : next'[q] > w <=> q <= n + 1 + Len(queue'[w])
      BY Zenon, <1>1, <2>2, <3>1, <3>5, <3>8 DEF n
    <3> QED
      BY <1>3, <3>6, <3>7, <3>9, Zenon DEF Aligned
  <2>5. CASE WriteInOrder(w)
    <3>1. item[w] = n + 1
      BY <2>2, <2>3, <2>5 DEF WriteInOrder
    <3>2. /\ written'[w] = Append(written[w], item[w]) /\ item'[w] = 0 /\ cons'[w] = "loop"
          /\ tasks' = tasks /\ queue' = queue
      BY <2>5 DEF WriteInOrder, WrittenTo, Orderly, TypeOK
    <3>3. item[w] \in Packets
      BY <2>1, <3>1 DEF TypeOK
    <3>4. Len(written'[w]) = n + 1
      BY <2>1, <3>2, <3>3, AppendItems
    <3> HIDE DEF n, a, s
    <3>5. a = n + 1
      <4>1. item[w] # 0
        BY <2>1, <3>1
      <4> QED
        BY <4>1 DEF At, a, n
    <3>6. At(w)' = a
      BY <2>1, <3>2, <3>4, <3>5 DEF At
    <3>7. /\ tasks'[w] = {} /\ cons'[w] # "drain" /\ item'[w] \in {0, Len(written'[w]) + 1}
          /\ \A i \in 1..Len(queue'[w]) : queue'[w][i] = a + i
          /\ \A q \in Packets : next'[q] > w <=> q <= a + Len(queue'[w])
      BY <1>1, <2>2, <3>2 DEF s
    <3> QED
      BY <1>3, <3>6, <3>7, Zenon DEF Aligned
  <2>6. CASE Block(w) \/ TakeClosed(w)
    <3>1. UNCHANGED <<queue, item, tasks, written>> /\ cons'[w] # "drain"
      BY <2>2, <2>6 DEF Block, TakeClosed, sinkVars, TypeOK
    <3> QED
      BY <1>1, <1>3, <3>1, ElsewhereOrder
  <2>7. ~StartDrain(w) /\ ~Drain(w) /\ ~Drained(w) /\ ~\E p \in Packets : WriteTask(w, p)
    BY <2>2 DEF StartDrain, Drain, Drained, WriteTask, Orderly
  <2> QED
    BY <2>4, <2>5, <2>6, <2>7, Zenon DEF ConsumerStep
<1> QED
  BY <1>2, <1>3

\* Every writer gets a packet once, and in order.
WriterInv == \A w \in Writers : OnceInv(w) /\ OrderInv(w)

\* Initially nothing is written.
LEMMA LogInit == Init => RejectInv /\ TurnInv /\ WriterInv
<1> SUFFICES ASSUME Init PROVE RejectInv /\ TurnInv /\ WriterInv
  OBVIOUS
<1>1. /\ \A p \in Packets : stage[p] = "new" /\ next[p] = 1
      /\ \A w \in Writers : /\ queue[w] = <<>> /\ item[w] = 0 /\ tasks[w] = {}
                            /\ written[w] = <<>> /\ cons[w] # "drain"
  BY DEF Init
<1>2. RejectInv /\ TurnInv
  BY <1>1 DEF RejectInv, HasTranslation, TurnInv, Turn
<1>3. ASSUME NEW w \in Writers PROVE OnceInv(w) /\ OrderInv(w)
  <2>1. Log!Logged(w) = {}
    BY <1>1 DEF Log!Logged
  <2>2. At(w) = 0 /\ Len(queue[w]) = 0 /\ Len(written[w]) = 0
    <3>1. queue[w] = <<>> /\ written[w] = <<>> /\ item[w] = 0
      BY <1>1
    <3>2. Len(queue[w]) = 0 /\ Len(written[w]) = 0
      BY <3>1
    <3> QED
      BY <3>1, <3>2 DEF At
  <2>3. \A p \in Packets : ~(next[p] > w) /\ ~(p <= 0)
    <3> TAKE p \in Packets
    <3>1. w \in Nat \ {0} /\ p \in Nat \ {0} /\ next[p] = 1
      BY <1>1, SizesAssumption DEF Packets, Writers
    <3> QED
      BY <3>1
  <2>4. OnceInv(w)
    BY <2>1 DEF OnceInv
  <2>5. OrderInv(w)
    BY <1>1, <2>2, <2>3 DEF OrderInv, Aligned
  <2> QED
    BY <2>4, <2>5
<1> QED
  BY <1>2, <1>3 DEF WriterInv

\* The writers' part of a step.
LEMMA WriterStep ==
  ASSUME TypeOK, TypeOK', StepInv, PlacesInv, TurnInv, WriterInv, [Next]_vars
  PROVE  WriterInv'
<1> SUFFICES ASSUME NEW v \in Writers PROVE OnceInv(v)' /\ OrderInv(v)'
  BY DEF WriterInv
<1>1. OnceInv(v) /\ OrderInv(v) /\ (Orderly' => Orderly)
  BY Lasting DEF WriterInv
<1>2. ASSUME UNCHANGED <<queue, item, tasks, written, next>> PROVE OnceInv(v)'
  <2>1. \A q \in Packets : InHand(q, v)' <=> InHand(q, v)
    BY <1>2 DEF InHand, Sent
  <2> QED
    BY <1>1, <1>2, <2>1, ElsewhereOnce
<1>3. ASSUME UNCHANGED <<queue, item, tasks, written, next>>, UNCHANGED cons \/ ctxDone'
      PROVE  OrderInv(v)'
  <2> SUFFICES ASSUME Orderly' PROVE Aligned(v)'
    BY DEF OrderInv
  <2>1. Aligned(v) /\ cons' = cons
    BY <1>1, <1>3 DEF OrderInv, Orderly
  <2>2. cons'[v] # "drain"
    BY <2>1 DEF Aligned
  <2> QED
    BY <1>3, <2>1, <2>2, ElsewhereOrder
<1>4. CASE EngineStep \/ Timeout \/ Cancel \/ CloseIch
  <2>1. UNCHANGED <<queue, item, tasks, written, next>> /\ (UNCHANGED cons \/ ctxDone')
    BY <1>4 DEF EngineStep, Apply, Strategy, Send, SendClosed, Stop, WaitDone, AllSettled,
         CloseQueue, AwaitConsumer, Terminate, Timeout, Cancel, CloseIch, pipeVars, sinkVars
  <2> QED
    BY Zenon, <1>2, <1>3, <2>1
<1>5. ASSUME NEW p \in Packets, PacketStep(p) PROVE OnceInv(v)' /\ OrderInv(v)'
  <2>1. CASE Publish(p)
    <3>1. OnceInv(v)'
      BY <1>1, <2>1, OncePublish
    <3>2. ASSUME Orderly' PROVE Aligned(v)'
      <4>1. Orderly /\ Aligned(v)
        BY <1>1, <3>2 DEF OrderInv
      <4> QED
        BY <2>1, <4>1, OrderPublish
    <3> QED
      BY <3>1, <3>2 DEF OrderInv
  <2>2. CASE ~Publish(p)
    <3>1. UNCHANGED <<queue, item, tasks, written, next, cons>>
      BY <1>5, <2>2 DEF PacketStep, StartRun, Run, Translated, PublishNil, StartPublish,
           PublishClosed, pipeVars, sinkVars
    <3> QED
      BY Zenon, <1>2, <1>3, <3>1
  <2> QED
    BY <2>1, <2>2
<1>6. ASSUME NEW w \in Writers, ConsumerStep(w) \/ \E p \in Packets : WriteTask(w, p)
      PROVE  OnceInv(v)' /\ OrderInv(v)'
  <2>1. OnceInv(v)'
    BY <1>1, <1>6, OnceWriter
  <2>2. ASSUME Orderly' PROVE Aligned(v)'
    <3>1. Orderly /\ Aligned(v)
      BY <1>1, <2>2 DEF OrderInv
    <3> QED
      BY <1>6, <3>1, OrderWriter
  <2> QED
    BY <2>1, <2>2 DEF OrderInv
<1>7. CASE UNCHANGED vars
  <2>1. UNCHANGED <<queue, item, tasks, written, next, cons>>
    BY <1>7 DEF vars, pipeVars, sinkVars
  <2> QED
    BY <1>2, <1>3, <2>1
<1> QED
  BY <1>4, <1>5, <1>6, <1>7, Zenon DEF Next

-----------------------------------------------------------------------------
\* Transformer implements PacketLog

\* What a writer is given is a write of the log.
LEMMA LogWrite ==
  ASSUME TypeOK, StepInv, PlacesInv, RejectInv, WriterInv, ~down, ~ctxDone,
         NEW w \in Writers, NEW p \in Packets, p = item[w] \/ p \in tasks[w],
         WrittenTo(w, p), UNCHANGED <<config, captured, ctxDone>>
  PROVE  \E u \in Writers, q \in 1..captured : Log!Write(u, q)
<1>1. /\ next \in [Packets -> 1..NumWriters + 1] /\ NumWriters \in Nat /\ NumPackets \in Nat
      /\ captured \in 0..NumPackets
  BY SizesAssumption DEF TypeOK
<1>2. InHand(p, w)
  BY DEF InHand
<1>3. ~(next[p] <= w)
  BY <1>2, Zenon DEF PlacesInv, PlaceInv
<1>4. next[p] > 1
  BY <1>1, <1>3 DEF Writers
<1>5. p \in 1..captured
  <2>1. stage[p] # "new"
    <3>1. stage[p] \in Early => next[p] = 1
      BY DEF StepInv
    <3> QED
      BY <1>4, <3>1 DEF Early
  <2>2. ~(p > captured)
    BY <2>1 DEF StepInv
  <2> QED
    BY <1>1, <2>2 DEF Packets
<1>6. p \notin Log!Logged(w) /\ p \notin Rejected
  BY <1>2, <1>4, Zenon DEF RejectInv, WriterInv, OnceInv
<1>7. ASSUME Ordered PROVE p = Len(written[w]) + 1
  <2>1. Aligned(w)
    BY <1>7 DEF WriterInv, OrderInv, Orderly
  <2>2. p # 0
    BY <1>1 DEF Packets
  <2> QED
    BY <2>1, <2>2 DEF Aligned
<1>8. written' = [written EXCEPT ![w] = Append(@, p)]
  BY DEF WrittenTo
<1>9. Log!Write(w, p)
  BY <1>6, <1>7, <1>8 DEF Log!Write, Ordered, Rejected
<1> QED
  BY <1>5, <1>9

logVars == <<Ordered, Rejected, captured, ctxDone, written>>

\* Every step captures a packet, cancels, gives a writer a packet, or is none
\* of the log's.
LEMMA LogStep ==
  ASSUME TypeOK, StepInv, PlacesInv, RejectInv, WriterInv, [Next]_vars
  PROVE  [Log!Next]_logVars
<1>1. config' = config /\ Ordered' = Ordered /\ Rejected' = Rejected
  BY Lasting DEF Ordered, Rejected
<1>2. ASSUME UNCHANGED <<captured, ctxDone, written>> PROVE [Log!Next]_logVars
  BY <1>1, <1>2 DEF logVars
<1>3. CASE Apply
  <2>1. Log!Capture
    BY <1>1, <1>3 DEF Apply, Log!Capture, sinkVars
  <2> QED
    BY <2>1 DEF Log!Next
<1>4. CASE Cancel
  <2>1. Log!Cancel
    BY Zenon, <1>1, <1>4 DEF Cancel, Log!Cancel
  <2> QED
    BY <2>1 DEF Log!Next
<1>5. CASE (EngineStep /\ ~Apply) \/ Timeout \/ CloseIch
  BY Zenon, <1>2, <1>5 DEF EngineStep, Strategy, Send, SendClosed, Stop, WaitDone, AllSettled,
       CloseQueue, AwaitConsumer, Terminate, Timeout, CloseIch, pipeVars, sinkVars
<1>6. ASSUME NEW p \in Packets, PacketStep(p) PROVE [Log!Next]_logVars
  BY <1>2, <1>6 DEF PacketStep, StartRun, Run, Translated, PublishNil, StartPublish, Publish,
       PublishClosed, pipeVars, sinkVars
<1>7. ASSUME NEW w \in Writers, NEW p \in Packets, p = item[w] \/ p \in tasks[w], ~down,
             WrittenTo(w, p), UNCHANGED <<captured, ctxDone>>
      PROVE  [Log!Next]_logVars
  <2>1. CASE ctxDone
    BY Zenon, <1>2, <1>7, <2>1 DEF WrittenTo
  <2>2. CASE ~ctxDone
    BY Zenon, <1>1, <1>7, <2>2, LogWrite DEF Log!Next
  <2> QED
    BY <2>1, <2>2
<1>8. ASSUME NEW w \in Writers, WriteInOrder(w) PROVE [Log!Next]_logVars
  <2>1. PICK p \in Packets : p = item[w]
    BY <1>8 DEF WriteInOrder, StepInv, TypeOK
  <2>2. ~down /\ WrittenTo(w, p) /\ UNCHANGED <<captured, ctxDone>>
    BY <1>8, <2>1 DEF WriteInOrder
  <2> QED
    BY Zenon, <1>7, <2>1, <2>2
<1>9. ASSUME NEW w \in Writers, NEW p \in Packets, WriteTask(w, p) PROVE [Log!Next]_logVars
  BY Zenon, <1>7, <1>9 DEF WriteTask
<1>10. ASSUME NEW w \in Writers, ConsumerStep(w), ~WriteInOrder(w) PROVE [Log!Next]_logVars
  BY <1>2, <1>10 DEF ConsumerStep, Block, Take, TakeClosed, StartDrain, Drain, Drained, sinkVars
<1>11. CASE UNCHANGED vars
  BY <1>2, <1>11 DEF vars, sinkVars
<1> QED
  BY <1>3, <1>4, <1>5, <1>6, <1>8, <1>9, <1>10, <1>11, Zenon DEF Next

\* A transformer implements PacketLog: through its pools, queues and consumers
\* a writer is given a captured packet at most once, none that is filtered out,
\* none after the cancellation, and with PCAP_ORDERED all from the first one on.
THEOREM PacketsLogged == Spec => LogsPackets
<1>1. Init => Log!Init
  BY DEF Init, Log!Init
<1>2. [Log!Next]_logVars => [Log!Next]_(Log!vars)
  BY DEF logVars, Log!vars
<1> QED
  BY <1>1, <1>2, InitInv, TypeStep, StepStep, PlacesInit, PlacesStep, LogInit, RejectStep,
     TurnStep, WriterStep, LogStep, PTL DEF Spec, LogsPackets, Log!Spec

-----------------------------------------------------------------------------
\* Commitments

\* The commitment of a packet to a writer is open.
Out(p, w) == (stage[p] \in Open /\ w >= next[p]) \/ InHand(p, w)

\* The commitments of a packet.
Row(p) == {p} \X Writers

\* Outstanding is the set of the open commitments.
LEMMA OutstandingIs ==
  /\ Outstanding \subseteq Packets \X Writers
  /\ \A p \in Packets, w \in Writers : <<p, w>> \in Outstanding <=> Out(p, w)
BY Zenon DEF Outstanding, Out, InHand

\* The same in the next state.
LEMMA OutstandingIsNext ==
  /\ Outstanding' \subseteq Packets \X Writers
  /\ \A p \in Packets, w \in Writers : <<p, w>> \in Outstanding' <=> Out(p, w)'
BY DEF Outstanding, Out, InHand

\* There are finitely many, NumWriters for every packet.
LEMMA RowSize ==
  ASSUME NEW p \in Packets
  PROVE  IsFiniteSet(Row(p)) /\ Cardinality(Row(p)) = NumWriters
<1>1. IsFiniteSet(Writers) /\ Cardinality(Writers) = NumWriters
  BY SizesAssumption, FS_Interval DEF Writers
<1>2. IsFiniteSet({p}) /\ Cardinality({p}) = 1
  BY FS_Singleton
<1> QED
  BY <1>1, <1>2, FS_Product, SizesAssumption DEF Row

\* Commitments can be counted.
LEMMA FiniteCommitments ==
  ASSUME NEW S, S \subseteq Packets \X Writers
  PROVE  IsFiniteSet(S) /\ Cardinality(S) \in Nat
<1>1. IsFiniteSet(Packets) /\ IsFiniteSet(Writers)
  BY SizesAssumption, FS_Interval DEF Packets, Writers
<1>2. IsFiniteSet(Packets \X Writers)
  BY <1>1, FS_Product
<1>3. IsFiniteSet(S)
  BY <1>2, FS_Subset
<1> QED
  BY <1>3, FS_CardinalityType

\* A row has the commitments of its packet only.
LEMMA RowIs ==
  ASSUME NEW p \in Packets
  PROVE  /\ Row(p) \subseteq Packets \X Writers
         /\ \A q \in Packets, v \in Writers : <<q, v>> \in Row(p) <=> q = p
BY DEF Row

\* Sets of commitments are compared pair by pair.
LEMMA SamePairs ==
  ASSUME NEW S, NEW T, S \subseteq Packets \X Writers, T \subseteq Packets \X Writers,
         \A q \in Packets, v \in Writers : <<q, v>> \in S <=> <<q, v>> \in T
  PROVE  S = T
OBVIOUS

\* Nothing is settled or committed.
LEMMA SameOutstanding ==
  ASSUME \A p \in Packets, w \in Writers : Out(p, w)' <=> Out(p, w)
  PROVE  Outstanding' = Outstanding
BY OutstandingIs, OutstandingIsNext

\* One commitment is settled.
LEMMA OneSettled ==
  ASSUME NEW p \in Packets, NEW w \in Writers, Out(p, w),
         \A q \in Packets, v \in Writers : Out(q, v)' <=> Out(q, v) /\ <<q, v>> # <<p, w>>
  PROVE  Outstanding' \subseteq Outstanding /\ Cardinality(Outstanding') = Cardinality(Outstanding) - 1
<1>1. Outstanding' = Outstanding \ {<<p, w>>} /\ <<p, w>> \in Outstanding
  BY OutstandingIs, OutstandingIsNext
<1>2. IsFiniteSet(Outstanding)
  BY OutstandingIs, FiniteCommitments
<1> QED
  BY <1>1, <1>2, FS_RemoveElement, Zenon

\* All commitments of a packet are settled.
LEMMA RowSettled ==
  ASSUME NEW p \in Packets, \A v \in Writers : Out(p, v),
         \A q \in Packets, v \in Writers : Out(q, v)' <=> Out(q, v) /\ q # p
  PROVE  /\ Outstanding' \subseteq Outstanding
         /\ Cardinality(Outstanding') = Cardinality(Outstanding) - NumWriters
<1>1. Outstanding' = Outstanding \ Row(p)
  <2>1. ASSUME NEW q \in Packets, NEW v \in Writers
        PROVE  <<q, v>> \in Outstanding' <=> <<q, v>> \in Outstanding \ Row(p)
    BY OutstandingIs, OutstandingIsNext, RowIs
  <2> QED
    BY <2>1, OutstandingIs, OutstandingIsNext, SamePairs
<1>3. Outstanding \cap Row(p) = Row(p)
  <2>1. ASSUME NEW q \in Packets, NEW v \in Writers
        PROVE  <<q, v>> \in Outstanding \cap Row(p) <=> <<q, v>> \in Row(p)
    BY OutstandingIs, RowIs
  <2> QED
    BY <2>1, OutstandingIs, RowIs, SamePairs
<1>2. IsFiniteSet(Outstanding)
  BY OutstandingIs, FiniteCommitments
<1>4. Cardinality(Outstanding \ Row(p)) = Cardinality(Outstanding) - Cardinality(Outstanding \cap Row(p))
  BY <1>2, FS_Difference, Zenon
<1>5. Cardinality(Row(p)) = NumWriters
  BY RowSize
<1> QED
  BY <1>1, <1>3, <1>4, <1>5

\* A packet is committed to all writers.
LEMMA RowCommitted ==
  ASSUME NEW p \in Packets, \A v \in Writers : ~Out(p, v),
         \A q \in Packets, v \in Writers : Out(q, v)' <=> Out(q, v) \/ q = p
  PROVE  Cardinality(Outstanding') = Cardinality(Outstanding) + NumWriters
<1>1. Outstanding' = Outstanding \cup Row(p)
  <2>1. ASSUME NEW q \in Packets, NEW v \in Writers
        PROVE  <<q, v>> \in Outstanding' <=> <<q, v>> \in Outstanding \cup Row(p)
    BY OutstandingIs, OutstandingIsNext, RowIs
  <2>2. Outstanding \cup Row(p) \subseteq Packets \X Writers
    BY OutstandingIs, RowIs
  <2> QED
    BY <2>1, <2>2, OutstandingIsNext, SamePairs
<1>3. Outstanding \cap Row(p) = {}
  <2>1. ASSUME NEW q \in Packets, NEW v \in Writers
        PROVE  <<q, v>> \in Outstanding \cap Row(p) <=> <<q, v>> \in {}
    BY OutstandingIs, RowIs
  <2> QED
    BY <2>1, OutstandingIs, SamePairs
<1>2. IsFiniteSet(Outstanding) /\ Cardinality(Outstanding) \in Nat
  BY OutstandingIs, FiniteCommitments
<1>4. IsFiniteSet(Row(p)) /\ Cardinality(Row(p)) = NumWriters
  BY RowSize
<1>5. Cardinality(Outstanding \cup Row(p))
        = Cardinality(Outstanding) + Cardinality(Row(p)) - Cardinality(Outstanding \cap Row(p))
  BY <1>2, <1>4, FS_Union, Zenon
<1>6. Cardinality(Outstanding \cap Row(p)) = 0
  BY <1>3, FS_EmptySet
<1> QED
  BY <1>1, <1>2, <1>4, <1>5, <1>6, SizesAssumption

\* The count and the commitments go up and down together.
LEMMA AccountSame ==
  ASSUME ~down, Accounted, QuietWhenDone, Outstanding' = Outstanding, wg' = wg,
         engine = "timedout" => engine' = "timedout",
         engine' \in {"close", "await", "terminated"}
           => engine \in {"close", "await", "terminated"} \/ wg = 0
  PROVE  Accounted' /\ QuietWhenDone'
<1>1. IsFiniteSet(Outstanding)
  BY OutstandingIs, FiniteCommitments
<1>2. engine # "timedout" /\ wg = 0 => Outstanding = {}
  BY <1>1, FS_EmptySet DEF Accounted
<1> QED
  BY <1>2 DEF Accounted, QuietWhenDone

\* As many are settled as the WaitGroup goes down.
LEMMA AccountLess ==
  ASSUME ~down, Accounted, QuietWhenDone, NEW n \in Int, wg' = wg - n,
         Outstanding' \subseteq Outstanding,
         Cardinality(Outstanding') = Cardinality(Outstanding) - n,
         engine' = engine \/ (engine' = "capture" /\ engine # "timedout")
  PROVE  Accounted' /\ QuietWhenDone'
BY DEF Accounted, QuietWhenDone

\* Before its first publication a packet is in no writer's hands.
LEMMA EarlyNotInHand ==
  ASSUME TypeOK, StepInv, PlacesInv, NEW p \in Packets, stage[p] \in Early
  PROVE  next[p] = 1 /\ \A w \in Writers : w >= next[p] /\ ~InHand(p, w)
BY SizesAssumption DEF StepInv, PlacesInv, PlaceInv, Writers

\* A rollback settles every commitment of a packet that none was settled of.
LEMMA AccountRollback ==
  ASSUME TypeOK, StepInv, PlacesInv, ~down, Accounted, QuietWhenDone,
         NEW p \in Packets, stage[p] \in Open \cap Early, Rollback(p),
         UNCHANGED <<next, queue, item, tasks>>,
         engine' = engine \/ (engine' = "capture" /\ engine # "timedout")
  PROVE  Accounted' /\ QuietWhenDone'
<1>1. \A w \in Writers : Out(p, w) /\ ~InHand(p, w)
  BY EarlyNotInHand DEF Out
<1>2. stage'[p] = "rolledback" /\ \A q \in Packets \ {p} : stage'[q] = stage[q]
  BY Zenon DEF Rollback, TypeOK
<1>3. \A q \in Packets, w \in Writers : InHand(q, w)' <=> InHand(q, w)
  BY DEF InHand, Sent
<1>4. "rolledback" \notin Open
  BY DEF Open, Busy
<1>5. ASSUME NEW q \in Packets, NEW w \in Writers PROVE Out(q, w)' <=> Out(q, w) /\ q # p
  BY Zenon, <1>1, <1>2, <1>3, <1>4 DEF Out
<1>6. /\ Outstanding' \subseteq Outstanding
      /\ Cardinality(Outstanding') = Cardinality(Outstanding) - NumWriters
  BY <1>1, <1>5, RowSettled
<1> QED
  BY <1>6, AccountLess, SizesAssumption DEF Rollback, Settle

\* A packet that goes from one open step to another settles nothing.
LEMMA AccountGoes ==
  ASSUME TypeOK, ~down, Accounted, QuietWhenDone,
         NEW p \in Packets, NEW s \in Open, stage[p] \in Open, Goes(p, s),
         UNCHANGED <<next, queue, item, tasks>>,
         engine' = engine \/ (engine' = "capture" /\ engine # "timedout")
  PROVE  Accounted' /\ QuietWhenDone'
<1>1. \A q \in Packets : stage'[q] \in Open <=> stage[q] \in Open
  BY Zenon DEF Goes, TypeOK
<1>2. \A q \in Packets, w \in Writers : InHand(q, w)' <=> InHand(q, w)
  BY Zenon DEF InHand, Sent
<1>3. Outstanding' = Outstanding
  BY <1>1, <1>2, SameOutstanding DEF Out
<1> QED
  BY Zenon, <1>3, AccountSame DEF Goes

\* Steps that touch no packet and no queue.
LEMMA AccountFrame ==
  ASSUME ~down, Accounted, QuietWhenDone, UNCHANGED <<stage, next, queue, item, tasks, wg>>,
         engine = "timedout" => engine' = "timedout",
         engine' \in {"close", "await", "terminated"}
           => engine \in {"close", "await", "terminated"} \/ wg = 0
  PROVE  Accounted' /\ QuietWhenDone'
<1>1. Outstanding' = Outstanding
  BY SameOutstanding DEF Out, InHand, Sent
<1> QED
  BY <1>1, AccountSame

\* The engine commits, rolls back, and waits for the count.
LEMMA AccountEngine ==
  ASSUME TypeOK, StepInv, PlacesInv, Accounted, QuietWhenDone,
         EngineStep \/ Timeout \/ Cancel \/ CloseIch
  PROVE  Accounted' /\ QuietWhenDone'
<1>1. CASE Apply
  <2>1. PICK p \in Packets : p = captured + 1
    BY <1>1, SizesAssumption DEF Apply, TypeOK, Packets
  <2>2. stage[p] = "new" /\ \A q \in Packets \ {p} : stage'[q] = stage[q]
    BY <1>1, <2>1, SizesAssumption DEF Apply, TypeOK, StepInv, Packets
  <2>3. \A w \in Writers : w >= next[p] /\ ~InHand(p, w) /\ ~Out(p, w)
    BY Zenon, <2>2, EarlyNotInHand DEF Early, Out, Open, Busy
  <2>4. UNCHANGED next /\ \A q \in Packets, w \in Writers : InHand(q, w)' <=> InHand(q, w)
    BY <1>1 DEF Apply, InHand, Sent, sinkVars
  <2>5. CASE ctxDone
    <3>1. stage'[p] = "ignored"
      BY Zenon, <1>1, <2>1, <2>5 DEF Apply, TypeOK
    <3>2. ASSUME NEW q \in Packets, NEW w \in Writers PROVE Out(q, w)' <=> Out(q, w)
      BY Zenon, <2>2, <2>3, <2>4, <3>1 DEF Out, Open, Busy
    <3>3. Outstanding' = Outstanding
      BY Zenon, <3>2, SameOutstanding
    <3> QED
      BY Zenon, <1>1, <2>5, <3>3, AccountSame DEF Apply
  <2>6. CASE ~ctxDone
    <3>1. stage'[p] = "committed"
      BY Zenon, <1>1, <2>1, <2>6 DEF Apply, TypeOK
    <3>2. ASSUME NEW q \in Packets, NEW w \in Writers PROVE Out(q, w)' <=> Out(q, w) \/ q = p
      BY Zenon, <2>2, <2>3, <2>4, <3>1 DEF Out, Open
    <3>3. Cardinality(Outstanding') = Cardinality(Outstanding) + NumWriters
      BY <2>3, <3>2, RowCommitted
    <3> QED
      BY Zenon, <1>1, <2>6, <3>3 DEF Apply, Accounted, QuietWhenDone
  <2> QED
    BY Zenon, <2>5, <2>6
<1>2. CASE Strategy
  <2>1. ~down /\ captured \in Packets /\ stage[captured] = "committed" /\ engine = "apply"
    BY <1>2 DEF Strategy, StepInv
  <2>2. UNCHANGED <<next, queue, item, tasks>>
    BY <1>2 DEF Strategy, sinkVars
  <2>3. CASE ctxDone
    <3>1. stage[captured] \in Open \cap Early /\ Rollback(captured) /\ engine' = "capture"
      BY <1>2, <2>1, <2>3 DEF Strategy, Open, Early
    <3> QED
      BY Zenon, <2>1, <2>2, <3>1, AccountRollback
  <2>4. CASE ~ctxDone
    BY Zenon, <1>2, <2>1, <2>2, <2>4, AccountFrame DEF Strategy
  <2> QED
    BY Zenon, <2>3, <2>4
<1>3. CASE Send
  <2>1. /\ ~down /\ captured \in Packets /\ stage[captured] \in Open /\ "queued" \in Open
        /\ engine # "timedout" /\ engine' = "capture" /\ Goes(captured, "queued")
    BY <1>3 DEF Send, StepInv, Open, Busy
  <2>2. UNCHANGED <<next, queue, item, tasks>>
    BY <1>3 DEF Send, sinkVars
  <2> QED
    BY Zenon, <2>1, <2>2, AccountGoes
<1>4. CASE \/ SendClosed \/ Stop \/ WaitDone \/ AllSettled \/ Terminate \/ CloseIch
           \/ CloseQueue \/ AwaitConsumer \/ Timeout \/ Cancel
  <2>1. ~down /\ UNCHANGED <<stage, next, queue, item, tasks, wg>>
    BY <1>4 DEF SendClosed, Stop, WaitDone, AllSettled, Terminate, CloseIch, CloseQueue,
                AwaitConsumer, Timeout, Cancel, pipeVars, sinkVars
  <2>2. /\ engine = "timedout" => engine' = "timedout"
        /\ engine' \in {"close", "await", "terminated"}
             => engine \in {"close", "await", "terminated"} \/ wg = 0
    BY <1>4, Zenon DEF SendClosed, Stop, WaitDone, AllSettled, Terminate, CloseIch, CloseQueue,
                AwaitConsumer, Timeout, Cancel
  <2> QED
    BY Zenon, <2>1, <2>2, AccountFrame
<1> QED
  BY <1>1, <1>2, <1>3, <1>4 DEF EngineStep

\* On its way to the writers a packet settles nothing, or everything.
LEMMA AccountPacket ==
  ASSUME TypeOK, TypeOK', StepInv, PlacesInv, Accounted, QuietWhenDone,
         NEW p \in Packets, PacketStep(p)
  PROVE  Accounted' /\ QuietWhenDone'
<1>1. ~down /\ engine' = engine /\ item' = item /\ tasks' = tasks
  BY DEF PacketStep, StartRun, Run, Translated, PublishNil, StartPublish, Publish, PublishClosed, sinkVars
<1>2. CASE StartRun(p) \/ Run(p) \/ Translated(p) \/ StartPublish(p)
  <2>1. UNCHANGED <<next, queue>> /\ stage[p] \in Open \cap Early
    BY <1>2 DEF StartRun, Run, Translated, StartPublish, sinkVars, Open, Busy, Early
  <2>2. Rollback(p) \/ \E s \in Open : Goes(p, s)
    BY <1>2 DEF StartRun, Run, Translated, StartPublish, NoTranslation, Open, Busy
  <2> /\ UNCHANGED <<next, queue, item, tasks>> /\ ~down
      /\ engine' = engine \/ (engine' = "capture" /\ engine # "timedout")
    BY <1>1, <2>1
  <2>3. CASE Rollback(p)
    BY <2>1, <2>3, AccountRollback
  <2>4. ASSUME NEW s \in Open, Goes(p, s) PROVE Accounted' /\ QuietWhenDone'
    BY <2>1, <2>4, AccountGoes
  <2> QED
    BY Zenon, <2>2, <2>3, <2>4
<1>3. CASE PublishNil(p)
  BY <1>3 DEF PublishNil, Accounted, QuietWhenDone
<1>4. CASE Publish(p)
  <2>1. PICK w \in Writers : w = next[p]
    BY <1>4, SizesAssumption DEF Publish, StepInv, TypeOK, Writers
  <2>2. \A q \in Packets, v \in Writers : InHand(q, v)' <=> InHand(q, v) \/ (q = p /\ v = w)
    BY Zenon, <1>4, <2>1, HandPublish
  <2>3. /\ next'[p] = w + 1 /\ \A q \in Packets \ {p} : next'[q] = next[q] /\ stage'[q] = stage[q]
        /\ stage[p] = "publishing" /\ stage'[p] = IF w = NumWriters THEN "out" ELSE "publishing"
    BY Zenon, <1>4, <2>1 DEF Publish, Goes, TypeOK
  <2>4. ASSUME NEW v \in Writers PROVE Out(p, v)' <=> Out(p, v)
    <3>1. w \in Nat /\ v \in Nat /\ v <= NumWriters /\ NumWriters \in Nat
      BY SizesAssumption DEF Writers
    <3>2. "publishing" \in Open /\ "out" \notin Open
      BY DEF Open, Busy
    <3>3. Out(p, v) <=> v >= w \/ InHand(p, v)
      BY Zenon, <2>1, <2>3, <3>2 DEF Out
    <3>4. Out(p, v)' <=> (v >= w + 1 /\ w # NumWriters) \/ InHand(p, v)'
      BY <2>3, <3>2 DEF Out
    <3> QED
      BY <2>2, <3>1, <3>3, <3>4
  <2>5. ASSUME NEW q \in Packets, NEW v \in Writers PROVE Out(q, v)' <=> Out(q, v)
    <3>1. CASE q = p
      BY Zenon, <2>4, <3>1
    <3>2. CASE q # p
      BY <2>2, <2>3, <3>2 DEF Out
    <3> QED
      BY <3>1, <3>2
  <2>6. Outstanding' = Outstanding
    BY <2>5, SameOutstanding
  <2> QED
    BY Zenon, <1>1, <1>4, <2>6, AccountSame DEF Publish, Goes
<1>5. CASE PublishClosed(p)
  <2>1. next[p] \in Writers /\ next[p] \in closed /\ stage[p] = "publishing"
    BY <1>5 DEF PublishClosed, TypeOK
  <2>2. Outstanding # {}
    <3>1. PICK w \in Writers : w = next[p]
      BY <2>1
    <3>2. w >= next[p]
      BY <3>1, SizesAssumption DEF Writers
    <3>3. Out(p, w)
      BY Zenon, <2>1, <3>2 DEF Out, Open, Busy
    <3> QED
      BY <3>3, OutstandingIs, Zenon
  <2>3. engine = "timedout"
    BY Zenon, <1>1, <2>1, <2>2 DEF StepInv, QuietWhenDone
  <2> QED
    BY Zenon, <1>1, <2>3 DEF Accounted, QuietWhenDone
<1> QED
  BY Zenon, <1>2, <1>3, <1>4, <1>5 DEF PacketStep

\* A writer settles one commitment per translation that leaves its hands.
LEMMA AccountWriter ==
  ASSUME TypeOK, TypeOK', StepInv, PlacesInv, Accounted, QuietWhenDone, NEW w \in Writers,
         ConsumerStep(w) \/ \E p \in Packets : WriteTask(w, p)
  PROVE  Accounted' /\ QuietWhenDone'
<1>1. ~down /\ UNCHANGED <<engine, stage, next>>
  BY DEF ConsumerStep, Block, Take, TakeClosed, WriteInOrder, StartDrain, Drain, Drained,
         WriteTask, pipeVars
<1>2. \A v \in Writers \ {w}, q \in Packets : InHand(q, v)' <=> InHand(q, v)
  <2>1. \A v \in Writers \ {w} : queue'[v] = queue[v] /\ item'[v] = item[v] /\ tasks'[v] = tasks[v]
    BY Zenon DEF ConsumerStep, Block, Take, TakeClosed, WriteInOrder, StartDrain, Drain, Drained,
           WriteTask, sinkVars, TypeOK
  <2> QED
    BY <2>1, Zenon DEF InHand, Sent
<1>3. ASSUME NEW p \in Packets, InHand(p, w), Left(w, {p}), wg' = wg - 1
      PROVE  Accounted' /\ QuietWhenDone'
  <2>1. ~(stage[p] \in Open /\ w >= next[p])
    <3>1. w \in Nat /\ next[p] \in Nat
      BY Zenon, WriterNumbers
    <3> QED
      BY Zenon, <1>3, <3>1 DEF PlacesInv, PlaceInv
  <2>2. ASSUME NEW q \in Packets, NEW v \in Writers
        PROVE  Out(q, v)' <=> Out(q, v) /\ <<q, v>> # <<p, w>>
    BY <1>1, <1>2, <1>3, <2>1, Zenon DEF Out, Left
  <2>3. Out(p, w)
    BY <1>3 DEF Out
  <2>4. Outstanding' \subseteq Outstanding /\ Cardinality(Outstanding') = Cardinality(Outstanding) - 1
    BY <2>2, <2>3, OneSettled
  <2>5. wg' = wg - 1 /\ ~down /\ engine' = engine
    BY Zenon, <1>1, <1>3
  <2> QED
    BY <2>4, <2>5 DEF Accounted, QuietWhenDone
<1>4. CASE Take(w)
  <2>1. ASSUME NEW q \in Packets, NEW v \in Writers PROVE Out(q, v)' <=> Out(q, v)
    <3>1. InHand(q, w)' <=> InHand(q, w)
      BY <1>4, HandTake DEF Left
    <3> QED
      BY <1>1, <1>2, <3>1 DEF Out
  <2>2. Outstanding' = Outstanding
    BY <2>1, SameOutstanding
  <2> QED
    BY Zenon, <1>1, <1>4, <2>2, AccountSame DEF Take
<1>5. CASE Drain(w)
  <2>1. Head(queue[w]) \in Packets
    BY <1>5 DEF Drain, TypeOK
  <2> QED
    BY <1>3, <1>5, <2>1, HandDrain, Zenon DEF Drain, Settle
<1>6. CASE WriteInOrder(w)
  BY <1>3, <1>6, HandWriteInOrder, Zenon DEF WriteInOrder, WrittenTo, Settle
<1>7. ASSUME NEW p \in Packets, WriteTask(w, p) PROVE Accounted' /\ QuietWhenDone'
  BY <1>3, <1>7, HandWriteTask, Zenon DEF WriteTask, WrittenTo, Settle
<1>8. CASE TakeClosed(w)
  <2>1. engine \in {"close", "await", "terminated", "timedout"}
    BY <1>8, Zenon DEF TakeClosed, StepInv
  <2>2. CASE engine = "timedout"
    BY <1>1, <2>2 DEF Accounted, QuietWhenDone
  <2>3. CASE engine # "timedout"
    <3>1. wg = 0
      <4>1. Outstanding = {}
        BY <1>1, <2>1, <2>3 DEF QuietWhenDone
      <4>2. Cardinality({}) = 0
        BY FS_EmptySet
      <4>3. wg = Cardinality(Outstanding)
        BY <1>1, <2>3 DEF Accounted
      <4> QED
        BY <4>1, <4>2, <4>3
    <3>2. down'
      <4>1. wg < 1 /\ wg < NumWriters + 1
        BY <3>1, SizesAssumption
      <4> QED
        BY <1>8, <4>1, Zenon DEF TakeClosed, Settle
    <3> QED
      BY <3>2 DEF Accounted, QuietWhenDone
  <2> QED
    BY <2>2, <2>3
<1>9. CASE Block(w) \/ StartDrain(w) \/ Drained(w)
  BY <1>1, <1>9, AccountFrame, Zenon DEF Block, StartDrain, Drained
<1> QED
  BY Zenon, <1>4, <1>5, <1>6, <1>7, <1>8, <1>9 DEF ConsumerStep

-----------------------------------------------------------------------------
\* The theorems

\* The inductive invariant.
Inv == TypeOK /\ StepInv /\ PlacesInv /\ Accounted /\ QuietWhenDone

\* Nothing is committed at the start.
LEMMA InvInit == Init => Inv
<1> SUFFICES ASSUME Init PROVE Accounted /\ QuietWhenDone
  BY InitInv, PlacesInit DEF Inv
<1>1. ASSUME NEW p \in Packets, NEW w \in Writers PROVE ~Out(p, w)
  <2>1. stage[p] = "new" /\ queue[w] = <<>> /\ item[w] = 0 /\ tasks[w] = {} /\ p # 0
    BY SizesAssumption DEF Init, Packets
  <2>2. p \notin Sent(w)
    BY <2>1 DEF Sent
  <2> QED
    BY <2>1, <2>2 DEF Out, InHand, Open, Busy
<1>2. Outstanding = {}
  BY <1>1, OutstandingIs
<1>3. Cardinality({}) = 0
  BY FS_EmptySet
<1> QED
  BY <1>2, <1>3 DEF Init, Accounted, QuietWhenDone

\* Every step keeps the invariant.
LEMMA InvNext == Inv /\ [Next]_vars => Inv'
<1> SUFFICES ASSUME Inv, [Next]_vars PROVE Inv'
  OBVIOUS
<1>1. TypeOK' /\ StepInv'
  BY TypeStep, StepStep DEF Inv
<1>2. PlacesInv'
  BY <1>1, PlacesStep DEF Inv
<1>3. Accounted' /\ QuietWhenDone'
  <2> TypeOK /\ StepInv /\ PlacesInv /\ Accounted /\ QuietWhenDone /\ TypeOK'
    BY <1>1 DEF Inv
  <2>1. CASE UNCHANGED vars
    <3>1. Outstanding' = Outstanding
      BY <2>1, SameOutstanding DEF vars, pipeVars, sinkVars, Out, InHand, Sent
    <3> QED
      BY Zenon, <2>1, <3>1 DEF vars, Accounted, QuietWhenDone
  <2>2. CASE EngineStep \/ Timeout \/ Cancel \/ CloseIch
    BY <2>2, AccountEngine
  <2>3. ASSUME NEW p \in Packets, PacketStep(p) PROVE Accounted' /\ QuietWhenDone'
    BY Zenon, <2>3, AccountPacket
  <2>4. ASSUME NEW w \in Writers, ConsumerStep(w) \/ \E p \in Packets : WriteTask(w, p)
        PROVE  Accounted' /\ QuietWhenDone'
    BY <2>4, AccountWriter
  <2> QED
    BY Zenon, <2>1, <2>2, <2>3, <2>4 DEF Next
<1> QED
  BY <1>1, <1>2, <1>3 DEF Inv

\* The invariant holds in every reachable state.
LEMMA Invariant == Spec => []Inv
BY InvInit, InvNext, PTL DEF Spec

\* The WaitGroup that Apply raises by the number of writers, and that writers
\* and rollbacks lower, is the number of commitments not settled yet.
THEOREM CommitmentsCounted == Spec => []Accounted
<1>1. Inv => Accounted
  BY DEF Inv
<1> QED
  BY <1>1, Invariant, PTL

\* Past the success path of WaitDone no translation is queued, being written or
\* still to be published.
THEOREM QuietOnceDone == Spec => []QuietWhenDone
<1>1. Inv => QuietWhenDone
  BY DEF Inv
<1> QED
  BY <1>1, Invariant, PTL
=============================================================================
