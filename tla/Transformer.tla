---------------------------- MODULE Transformer ----------------------------
(***************************************************************************)
(* The packet pipeline of one interface: the capture loop of the gopacket  *)
(* engine (gopacket_engine.go, Start), the transformer with its translator *)
(* pool or ordered queue, its write queues, consumers and writer pool      *)
(* (transformer.go), and the outcome of a translation worker               *)
(* (translator_worker.go, Run).                                            *)
(*                                                                         *)
(* Apply commits the transformer to one write per writer: it adds the      *)
(* number of writers to the WaitGroup that WaitDone waits for.  Every      *)
(* commitment must be settled by a write, a drop or a rollback.            *)
(*                                                                         *)
(* Ordered is the strategy of NewOrderedTransformer and                    *)
(* NewConnTrackTransformer (an ordered-concurrently queue and synchronous  *)
(* writes); without it that of NewTransformer (two ants pools).  A packet  *)
(* is its serial number; what a translation says is abstracted, only       *)
(* whether there is one.                                                   *)
(***************************************************************************)
EXTENDS Integers, Sequences, FiniteSets

CONSTANTS NumPackets,   \* packets the interface delivers
          NumWriters,   \* sinks: files and standard output
          Configs,      \* [ordered : preserveOrder || connTracking,
                        \*  rejected : packets Run gives no translation for: the
                        \*  filters reject them, or translating them panics]
          InCap,        \* capacity of ich
          PoolSize,     \* translation workers
          QueueCap      \* capacity of a write queue

ASSUME SizesAssumption ==
  /\ NumPackets \in Nat /\ NumWriters \in Nat \ {0}
  /\ InCap \in Nat \ {0} /\ PoolSize \in Nat \ {0} /\ QueueCap \in Nat \ {0}
  /\ Configs \subseteq [ordered : BOOLEAN, rejected : SUBSET (1..NumPackets)]

Packets == 1..NumPackets
Writers == 1..NumWriters

VARIABLES
  config,    \* how this transformer was made, fixed
  ctxDone,   \* the context is cancelled
  engine,    \* step of Start, then of WaitDone
  captured,  \* serial of the last packet captured
  stage,     \* [Packets -> step of the packet on its way to the writers]
  next,      \* [Packets -> writer its translation is published to next]
  wg,        \* the WaitGroup (and the counter that mirrors it)
  queue,     \* [Writers -> write queue]
  closed,    \* write queues that are closed
  cons,      \* [Writers -> step of consumeTranslations]
  item,      \* [Writers -> translation a synchronous write has in hand]
  tasks,     \* [Writers -> translations handed to the writer pool]
  written,   \* [Writers -> what the writer was given, in order]
  ichClosed, \* ich is closed
  closing,   \* queue that WaitDone closes next
  down       \* a goroutine without recover panicked: the process is gone

Ordered == config.ordered
Rejected == config.rejected

pipeVars == <<stage, next>>
sinkVars == <<queue, cons, item, tasks, written>>
vars == <<config, ctxDone, engine, captured, stage, next, wg, queue, closed, cons,
          item, tasks, written, ichClosed, closing, down>>

EngineSteps == {"capture", "apply", "send", "stopping", "waiting", "close",
                "await", "terminated", "timedout"}
\* "leaked" is the packet whose Run returned nil to the translator pool.
PacketSteps == {"new", "ignored", "committed", "queued", "running", "translating",
                "ran", "nil", "publishing", "out", "rolledback", "leaked"}
\* "loop" is the way back to the select, "select" is being blocked in it.
ConsumerSteps == {"loop", "select", "write", "drain", "done"}

\* The type of every variable.
TypeOK ==
  /\ config \in Configs
  /\ ctxDone \in BOOLEAN /\ ichClosed \in BOOLEAN /\ down \in BOOLEAN
  /\ engine \in EngineSteps
  /\ captured \in 0..NumPackets
  /\ stage \in [Packets -> PacketSteps]
  /\ next \in [Packets -> 1..NumWriters + 1]
  /\ wg \in Int
  /\ queue \in [Writers -> Seq(Packets)]
  /\ closed \subseteq Writers
  /\ cons \in [Writers -> ConsumerSteps]
  /\ item \in [Writers -> Packets \cup {0}]
  /\ tasks \in [Writers -> SUBSET Packets]
  /\ written \in [Writers -> Seq(Packets)]
  /\ closing \in 1..NumWriters + 1

Init ==
  /\ config \in Configs
  /\ ctxDone = FALSE /\ ichClosed = FALSE /\ down = FALSE
  /\ engine = "capture"
  /\ captured = 0
  /\ stage = [p \in Packets |-> "new"]
  /\ next = [p \in Packets |-> 1]
  /\ wg = 0
  /\ queue = [w \in Writers |-> <<>>]
  /\ closed = {}
  /\ cons = [w \in Writers |-> "loop"]
  /\ item = [w \in Writers |-> 0]
  /\ tasks = [w \in Writers |-> {}]
  /\ written = [w \in Writers |-> <<>>]
  /\ closing = 1

-----------------------------------------------------------------------------
\* Commitments

\* wg.Done, n times: a negative counter panics.
Settle(n) == wg' = wg - n /\ down' = (wg < n)

\* rollbackTranslation
Rollback_OneWriter(p) == Settle(1) /\ stage' = [stage EXCEPT ![p] = "rolledback"]
Rollback(p) == Settle(NumWriters) /\ stage' = [stage EXCEPT ![p] = "rolledback"]

Goes(p, step) == stage' = [stage EXCEPT ![p] = step] /\ UNCHANGED <<wg, down>>

InStage(S) == {p \in Packets : stage[p] \in S}

-----------------------------------------------------------------------------
\* The capture loop and Apply

\* Apply commits to write the packet, unless the context is already done.
Apply ==
  /\ ~down /\ engine = "capture" /\ captured < NumPackets
  /\ captured' = captured + 1
  /\ IF ctxDone
     THEN stage' = [stage EXCEPT ![captured + 1] = "ignored"] /\ UNCHANGED <<wg, engine>>
     ELSE /\ stage' = [stage EXCEPT ![captured + 1] = "committed"]
          /\ wg' = wg + NumWriters
          /\ engine' = "apply"
  /\ UNCHANGED <<config, ctxDone, next, closed, sinkVars, ichClosed, closing, down>>

\* The strategy checks the context again and rolls back when it is done.
Strategy ==
  /\ ~down /\ engine = "apply"
  /\ IF ctxDone THEN Rollback(captured) /\ engine' = "capture"
     ELSE engine' = "send" /\ UNCHANGED <<wg, stage, down>>
  /\ UNCHANGED <<config, ctxDone, captured, next, closed, sinkVars, ichClosed, closing>>

\* Workers that the packets of the translator pool keep busy.
Busy == {"queued", "running", "translating", "ran", "publishing"}

\* The packet is handed over: translatorPool.Invoke blocks while every worker
\* is busy, ich while it is full.
Send ==
  /\ ~down /\ engine = "send"
  /\ IF Ordered THEN ~ichClosed /\ Cardinality(InStage({"queued"})) < InCap
     ELSE Cardinality(InStage(Busy)) < PoolSize
  /\ Goes(captured, "queued")
  /\ engine' = "capture"
  /\ UNCHANGED <<config, ctxDone, captured, next, closed, sinkVars, ichClosed, closing>>

\* ich may have been closed since the context was checked: the send panics.
SendClosed ==
  /\ ~down /\ engine = "send" /\ ichClosed
  /\ down' = TRUE
  /\ UNCHANGED <<config, ctxDone, engine, captured, pipeVars, wg, closed, sinkVars,
                 ichClosed, closing>>

\* The loop sees the cancelled context and leaves; it then waits for the
\* deadline that its caller sends.
Stop ==
  /\ ~down /\ engine = "capture" /\ ctxDone
  /\ engine' = "stopping"
  /\ UNCHANGED <<config, ctxDone, captured, pipeVars, wg, closed, sinkVars, ichClosed,
                 closing, down>>

-----------------------------------------------------------------------------
\* Translation

\* A pool worker checks the context before it translates; an ordered worker
\* takes the packets in the order of ich and does not check.
StartRun(p) ==
  /\ ~down /\ stage[p] = "queued"
  /\ Ordered => /\ \A q \in InStage({"queued"}) : p <= q
                /\ Cardinality(InStage({"running", "translating"})) < PoolSize
  /\ IF ctxDone /\ ~Ordered THEN Rollback(p) ELSE Goes(p, "running")
  /\ UNCHANGED <<config, ctxDone, engine, captured, next, closed, sinkVars, ichClosed, closing>>

\* What becomes of a packet without a translation: produceTranslation takes a
\* nil result for success, so that nothing is rolled back.
NoTranslation == IF Ordered THEN "nil" ELSE "leaked"

\* Run gives no translation for a rejected packet, or when the context is done.
Run(p) ==
  /\ ~down /\ stage[p] = "running"
  /\ Goes(p, IF p \in Rejected \/ ctxDone THEN NoTranslation ELSE "translating")
  /\ UNCHANGED <<config, ctxDone, engine, captured, next, closed, sinkVars, ichClosed, closing>>

\* Past that check, the layers are translated whether or not the context is
\* cancelled meanwhile.
Translated(p) ==
  /\ ~down /\ stage[p] = "translating"
  /\ Goes(p, "ran")
  /\ UNCHANGED <<config, ctxDone, engine, captured, next, closed, sinkVars, ichClosed, closing>>

\* ordered-concurrently hands results out in the order of the inputs, to the
\* one goroutine of produceTranslations.
MyTurn_Any(p) == TRUE
MyTurn(p) ==
  Ordered => \A q \in Packets : q < p => stage[q] \notin Busy \cup {"nil"}

\* produceTranslations asserts the type of every result: a nil one panics in
\* a goroutine without recover.
PublishNil(p) ==
  /\ ~down /\ stage[p] = "nil" /\ MyTurn(p)
  /\ down' = TRUE
  /\ UNCHANGED <<config, ctxDone, engine, captured, pipeVars, wg, closed, sinkVars,
                 ichClosed, closing>>

\* publishTranslation gives up when the context is done; its callers roll back.
StartPublish_DropWhenFull(p) ==
  /\ ~down /\ stage[p] = "ran" /\ MyTurn(p)
  /\ IF ctxDone \/ Len(queue[1]) = QueueCap THEN Rollback(p) ELSE Goes(p, "publishing")
  /\ UNCHANGED <<config, ctxDone, engine, captured, next, closed, sinkVars, ichClosed, closing>>
StartPublish(p) ==
  /\ ~down /\ stage[p] = "ran" /\ MyTurn(p)
  /\ IF ctxDone THEN Rollback(p) ELSE Goes(p, "publishing")
  /\ UNCHANGED <<config, ctxDone, engine, captured, next, closed, sinkVars, ichClosed, closing>>

\* The translation is sent to one write queue after the other, blocking on a
\* full one.
Publish(p) ==
  /\ ~down /\ stage[p] = "publishing"
  /\ next[p] \notin closed /\ Len(queue[next[p]]) < QueueCap
  /\ queue' = [queue EXCEPT ![next[p]] = Append(@, p)]
  /\ next' = [next EXCEPT ![p] = @ + 1]
  /\ Goes(p, IF next[p] = NumWriters THEN "out" ELSE "publishing")
  /\ UNCHANGED <<config, ctxDone, engine, captured, closed, cons, item, tasks, written,
                 ichClosed, closing>>

\* A send on a queue that a timed out WaitDone closed panics: the pool's
\* handler rolls every writer back, the ordered goroutine has no recover.
PublishClosed(p) ==
  /\ ~down /\ stage[p] = "publishing" /\ next[p] \in closed
  /\ IF Ordered THEN down' = TRUE /\ UNCHANGED <<wg, stage>> ELSE Rollback(p)
  /\ UNCHANGED <<config, ctxDone, engine, captured, next, closed, sinkVars, ichClosed, closing>>

-----------------------------------------------------------------------------
\* consumeTranslations, one per writer

\* Nothing is ready: the consumer blocks in the select.
Block(w) ==
  /\ ~down /\ cons[w] = "loop" /\ queue[w] = <<>> /\ w \notin closed /\ ~ctxDone
  /\ cons' = [cons EXCEPT ![w] = "select"]
  /\ UNCHANGED <<config, ctxDone, engine, captured, pipeVars, wg, queue, closed, item,
                 tasks, written, ichClosed, closing, down>>

\* A translation is taken: written at once when ordered, else by the writer pool.
Take(w) ==
  /\ ~down /\ cons[w] \in {"loop", "select"} /\ queue[w] # <<>>
  /\ queue' = [queue EXCEPT ![w] = Tail(@)]
  /\ IF Ordered
     THEN /\ item' = [item EXCEPT ![w] = Head(queue[w])]
          /\ cons' = [cons EXCEPT ![w] = "write"]
          /\ UNCHANGED tasks
     ELSE /\ tasks' = [tasks EXCEPT ![w] = @ \cup {Head(queue[w])}]
          /\ cons' = [cons EXCEPT ![w] = "loop"]
          /\ UNCHANGED item
  /\ UNCHANGED <<config, ctxDone, engine, captured, pipeVars, wg, closed, written,
                 ichClosed, closing, down>>

\* The consumer comes back to the select after the queue was closed and takes
\* its zero value, nil, instead of the cancelled context.  The write settles
\* one commitment; to the first writer it also panics: the writer pool's
\* handler then settles one per writer, the ordered consumer has no recover.
TakeClosed(w) ==
  /\ ~down /\ cons[w] = "loop" /\ queue[w] = <<>> /\ w \in closed
  /\ IF w > 1 THEN Settle(1)
     ELSE IF Ordered THEN down' = TRUE /\ UNCHANGED wg
     ELSE Settle(NumWriters + 1)
  /\ UNCHANGED <<config, ctxDone, engine, captured, pipeVars, closed, sinkVars,
                 ichClosed, closing>>

\* writeTranslation drops the translation when the context is done.
WrittenTo(w, p) ==
  /\ written' = IF ctxDone THEN written ELSE [written EXCEPT ![w] = Append(@, p)]
  /\ Settle(1)

\* The synchronous write of an ordered transformer.
WriteInOrder_ClearedFirst(w) ==
  /\ ~down /\ cons[w] = "write"
  /\ WrittenTo(w, 0)
  /\ item' = [item EXCEPT ![w] = 0]
  /\ cons' = [cons EXCEPT ![w] = "loop"]
  /\ UNCHANGED <<config, ctxDone, engine, captured, pipeVars, queue, closed, tasks,
                 ichClosed, closing>>
WriteInOrder(w) ==
  /\ ~down /\ cons[w] = "write"
  /\ WrittenTo(w, item[w])
  /\ item' = [item EXCEPT ![w] = 0]
  /\ cons' = [cons EXCEPT ![w] = "loop"]
  /\ UNCHANGED <<config, ctxDone, engine, captured, pipeVars, queue, closed, tasks,
                 ichClosed, closing>>

\* A task of the writer pool, in whatever order the pool runs them.
WriteTask(w, p) ==
  /\ ~down /\ p \in tasks[w]
  /\ WrittenTo(w, p)
  /\ tasks' = [tasks EXCEPT ![w] = @ \ {p}]
  /\ UNCHANGED <<config, ctxDone, engine, captured, pipeVars, queue, closed, cons, item,
                 ichClosed, closing>>

\* The context is done: what is left in the queue is dropped, one by one,
\* until WaitDone closes it.
StartDrain(w) ==
  /\ ~down /\ cons[w] = "loop" /\ ctxDone
  /\ cons' = [cons EXCEPT ![w] = "drain"]
  /\ UNCHANGED <<config, ctxDone, engine, captured, pipeVars, wg, queue, closed, item,
                 tasks, written, ichClosed, closing, down>>

Drain(w) ==
  /\ ~down /\ cons[w] = "drain" /\ queue[w] # <<>>
  /\ queue' = [queue EXCEPT ![w] = Tail(@)]
  /\ Settle(1)
  /\ UNCHANGED <<config, ctxDone, engine, captured, pipeVars, closed, cons, item, tasks,
                 written, ichClosed, closing>>

Drained(w) ==
  /\ ~down /\ cons[w] = "drain" /\ queue[w] = <<>> /\ w \in closed
  /\ cons' = [cons EXCEPT ![w] = "done"]
  /\ UNCHANGED <<config, ctxDone, engine, captured, pipeVars, wg, queue, closed, item,
                 tasks, written, ichClosed, closing, down>>

-----------------------------------------------------------------------------
\* Cancellation and WaitDone

\* The context is cancelled.  It wakes the consumers that are blocked in their
\* select; one that a translation woke already is about to take it.
Cancel ==
  /\ ~down /\ ~ctxDone
  /\ ctxDone' = TRUE
  /\ cons' = [w \in Writers |->
                IF cons[w] = "select" /\ queue[w] = <<>> THEN "drain" ELSE cons[w]]
  /\ UNCHANGED <<config, engine, captured, pipeVars, wg, queue, closed, item, tasks,
                 written, ichClosed, closing, down>>

\* waitForContextDone
CloseIch ==
  /\ ~down /\ Ordered /\ ctxDone /\ ~ichClosed
  /\ ichClosed' = TRUE
  /\ UNCHANGED <<config, ctxDone, engine, captured, pipeVars, wg, closed, sinkVars,
                 closing, down>>

\* The deadline has arrived: WaitDone is called.
WaitDone ==
  /\ ~down /\ engine = "stopping"
  /\ engine' = "waiting"
  /\ UNCHANGED <<config, ctxDone, captured, pipeVars, wg, closed, sinkVars, ichClosed,
                 closing, down>>

\* The WaitGroup is at zero.  The message about it reads the sizes of the two
\* pools, which an ordered transformer does not have: a nil dereference.
AllSettled_AnyTime ==
  /\ ~down /\ engine = "waiting"
  /\ engine' = "close"
  /\ down' = Ordered
  /\ UNCHANGED <<config, ctxDone, captured, pipeVars, wg, closed, sinkVars, ichClosed, closing>>
AllSettled ==
  /\ ~down /\ engine = "waiting" /\ wg = 0
  /\ engine' = "close"
  /\ down' = Ordered
  /\ UNCHANGED <<config, ctxDone, captured, pipeVars, wg, closed, sinkVars, ichClosed, closing>>

\* The deadline passes first: every queue is closed and WaitDone returns.
Timeout ==
  /\ ~down /\ engine = "waiting"
  /\ engine' = "timedout"
  /\ closed' = Writers
  /\ UNCHANGED <<config, ctxDone, captured, pipeVars, wg, sinkVars, ichClosed, closing, down>>

\* Each queue is closed, and its consumer awaited, before the next one.
CloseQueue ==
  /\ ~down /\ engine = "close" /\ closing <= NumWriters
  /\ closed' = closed \cup {closing}
  /\ engine' = "await"
  /\ UNCHANGED <<config, ctxDone, captured, pipeVars, wg, sinkVars, ichClosed, closing, down>>

AwaitConsumer ==
  /\ ~down /\ engine = "await" /\ cons[closing] = "done"
  /\ closing' = closing + 1
  /\ engine' = "close"
  /\ UNCHANGED <<config, ctxDone, captured, pipeVars, wg, closed, sinkVars, ichClosed, down>>

\* The pools are released and the translator is done.
Terminate ==
  /\ ~down /\ engine = "close" /\ closing > NumWriters
  /\ engine' = "terminated"
  /\ UNCHANGED <<config, ctxDone, captured, pipeVars, wg, closed, sinkVars, ichClosed,
                 closing, down>>

-----------------------------------------------------------------------------
EngineStep == Apply \/ Strategy \/ Send \/ SendClosed \/ Stop \/ WaitDone
              \/ AllSettled \/ CloseQueue \/ AwaitConsumer \/ Terminate

PacketStep(p) == StartRun(p) \/ Run(p) \/ Translated(p) \/ PublishNil(p)
                 \/ StartPublish(p) \/ Publish(p) \/ PublishClosed(p)

ConsumerStep(w) == Block(w) \/ Take(w) \/ TakeClosed(w) \/ WriteInOrder(w)
                   \/ StartDrain(w) \/ Drain(w) \/ Drained(w)

Next ==
  \/ EngineStep \/ Timeout \/ Cancel \/ CloseIch
  \/ \E p \in Packets : PacketStep(p)
  \/ \E w \in Writers : ConsumerStep(w)
  \/ \E w \in Writers, p \in Packets : WriteTask(w, p)

Spec == Init /\ [][Next]_vars

\* Goroutines that can run do run; the network need not deliver, nobody need
\* cancel, and the deadline of WaitDone may be as far away as it likes.
Fairness ==
  /\ WF_vars(EngineStep /\ captured' = captured)
  /\ WF_vars(CloseIch)
  /\ \A p \in Packets : WF_vars(PacketStep(p))
  /\ \A w \in Writers : WF_vars(ConsumerStep(w))
  /\ \A w \in Writers, p \in Packets : WF_vars(WriteTask(w, p))

FairSpec == Spec /\ Fairness

-----------------------------------------------------------------------------
\* Properties

Sent(w) == {queue[w][i] : i \in DOMAIN queue[w]}

\* Steps of a packet whose commitments to the writers from next[p] on are open.
Open == Busy \cup {"committed", "nil", "leaked"}

\* The commitments that nothing has settled yet.
Outstanding ==
  {c \in Packets \X Writers :
     \/ stage[c[1]] \in Open /\ c[2] >= next[c[1]]
     \/ c[1] \in Sent(c[2]) \/ item[c[2]] = c[1] \/ c[1] \in tasks[c[2]]}

\* The WaitGroup counts exactly the commitments not settled yet: no path
\* through Apply, the strategies, the workers, the queues and the consumers
\* settles one twice or forgets one, until WaitDone gives up.
Accounted ==
  ~down /\ engine # "timedout" => wg = Cardinality(Outstanding)

\* When WaitDone leaves through its success path, no translation is on its way
\* to any writer any more: the pools may be released, the translator is done.
QuietWhenDone ==
  ~down /\ engine \in {"close", "await", "terminated"} => Outstanding = {}

\* Seen from the writers, the pools, queues and consumers are one log: a writer
\* gets a captured packet at most once, none that is filtered out, none after
\* the cancellation, and with PCAP_ORDERED all of them from the first one on.
Log == INSTANCE PacketLog WITH
         ordered <- Ordered, rejected <- Rejected, cancelled <- ctxDone, log <- written
LogsPackets == Log!Spec

\* A committed packet that has a translation reaches every writer, unless the
\* context is cancelled: no full queue or busy pool stops the pipeline for good.
CommittedIsWritten ==
  \A p \in Packets :
    (stage[p] = "committed" /\ p \notin Rejected)
      ~> (ctxDone \/ down \/ \A w \in Writers : p \in Log!Logged(w))

\* The promise at rollbackTranslation's use in provideStrategy: when nothing
\* is running any more, every commitment was settled or rolled back.
CommitmentsSettled ==
  /\ engine = "waiting"
  /\ \A p \in Packets : stage[p] \notin Busy
  /\ \A w \in Writers : queue[w] = <<>> /\ item[w] = 0 /\ tasks[w] = {}
  => wg = 0

\* The promise above WaitDone: it returns.
WaitDoneReturns == (engine = "waiting") ~> (engine \in {"terminated", "timedout"})
=============================================================================
