-------------------------- MODULE TranslatorWorker --------------------------
(***************************************************************************)
(* A translation worker and its packet (translator_worker.go, Run and      *)
(* translate), next to the providers that still add to its packet filter.  *)
(*                                                                         *)
(* Run asks the filter, starts one goroutine per layer and merges what they*)
(* send through a channel, until a further goroutine, which waits for all  *)
(* of them, closes it.  A layer's translation is "ok" or "error"; a panic  *)
(* of a translator is recovered and becomes an error.                      *)
(***************************************************************************)
EXTENDS FilterProviders

CONSTANTS Scenarios,  \* pairs of a setting and a packet
          Sockets,    \* connections of filtered processes
          ChanCap,    \* capacity of the channel (4 in the code)
          Panics      \* steps of Run that may panic: "next", "merge", "finalize"

\* A layer has a translator, or none, or is one that is skipped.
Kinds == {"known", "unknown", "skipped"}

\* What is looked at in a packet; both addresses come from one IP header.
Packets ==
  {k \in [l3 : {"ip", "none"}, src : Addrs, dst : Addrs, l4 : {"tcp", "udp", "none"},
          sport : 0..MaxPort, dport : 0..MaxPort, flags : SUBSET STRING, layers : Seq(Kinds)] :
     k.src.fam = k.dst.fam}

ASSUME WorkerAssumption ==
  /\ ChanCap \in Nat \ {0} /\ Panics \subseteq {"next", "merge", "finalize"}
  /\ \A s \in Scenarios : s.setting \in Settings /\ s.packet \in Packets

VARIABLES
  packet,   \* the packet: what the filter looks at, and its layers
  ctxDone,  \* the context is done
  step,     \* step of Run
  layer,    \* [layers -> step of the goroutine]
  made,     \* [layers -> translation it has made]
  chan,     \* layers whose translation is in the channel
  wg,       \* layers whose goroutine has not called Done
  closed,   \* the channel is closed
  merged,   \* [layers -> translation that Run has merged]
  outcome,  \* Run's answer, once it returned
  down      \* a send on the closed channel: no recover is left

workVars == <<step, layer, made, chan, wg, closed, merged, outcome, down>>
vars == <<providerVars, packet, ctxDone, workVars>>

Layers == DOMAIN packet.layers
RunSteps == {"filter", "next", "merge", "finalize", "returned"}
LayerSteps == {"idle", "translate", "send", "deferred", "done"}
Made == {"none", "ok", "error"}

\* The type of every variable.
TypeOK ==
  /\ rounds \in 0..MaxRounds /\ added \subseteq Networks
  /\ \A f \in Families : Len(filter.nets[f]) <= MaxItems
  /\ ctxDone \in BOOLEAN /\ closed \in BOOLEAN /\ down \in BOOLEAN
  /\ step \in RunSteps
  /\ layer \in [Layers -> LayerSteps]
  /\ made \in [Layers -> Made] /\ merged \in [Layers -> Made]
  /\ chan \subseteq Layers /\ wg \subseteq Layers

Init ==
  /\ \E s \in Scenarios : InitProviders({s.setting}) /\ packet = s.packet
  /\ ctxDone = FALSE /\ step = "filter"
  /\ layer = [i \in Layers |-> "idle"]
  /\ made = [i \in Layers |-> "none"] /\ merged = [i \in Layers |-> "none"]
  /\ chan = {} /\ wg = {} /\ closed = FALSE /\ outcome = {} /\ down = FALSE

-----------------------------------------------------------------------------
\* Run

\* An answer is nothing, or what was merged and whether it was finalized.
Nil == <<>>
Returns(answer) == step' = "returned" /\ outcome' = {answer}

\* The filters come first; workers exist once an engine has started.
Filter ==
  /\ ~down /\ step = "filter" /\ Serving
  /\ IF ShouldTranslate(filter, packet) THEN step' = "next" /\ UNCHANGED outcome
     ELSE Returns(Nil)
  /\ UNCHANGED <<providerVars, packet, ctxDone, layer, made, chan, wg, closed, merged, down>>

\* The context is looked at once more; then wg.Add, the goroutine that closes
\* the channel, and one goroutine per layer.
StartLayers_LessOne ==
  /\ ~down /\ step = "next"
  /\ IF ctxDone THEN Returns(Nil) /\ UNCHANGED <<layer, wg>>
     ELSE /\ step' = "merge" /\ UNCHANGED outcome
          /\ layer' = [i \in Layers |-> "translate"]
          /\ wg' = Layers \ {Len(packet.layers)}
  /\ UNCHANGED <<providerVars, packet, ctxDone, made, chan, closed, merged, down>>
StartLayers ==
  /\ ~down /\ step = "next"
  /\ IF ctxDone THEN Returns(Nil) /\ UNCHANGED <<layer, wg>>
     ELSE /\ step' = "merge" /\ UNCHANGED outcome
          /\ layer' = [i \in Layers |-> "translate"]
          /\ wg' = Layers
  /\ UNCHANGED <<providerVars, packet, ctxDone, made, chan, closed, merged, down>>

\* The range over the channel: one translation is merged.
Merge(i) ==
  /\ ~down /\ step = "merge" /\ i \in chan
  /\ chan' = chan \ {i}
  /\ merged' = [merged EXCEPT ![i] = made[i]]
  /\ UNCHANGED <<providerVars, packet, ctxDone, step, layer, made, wg, closed, outcome, down>>

\* The channel is closed and empty.
MergeEnds_WhenEmpty ==
  /\ ~down /\ step = "merge" /\ chan = {}
  /\ step' = "finalize"
  /\ UNCHANGED <<providerVars, packet, ctxDone, layer, made, chan, wg, closed, merged, outcome, down>>
MergeEnds ==
  /\ ~down /\ step = "merge" /\ closed /\ chan = {}
  /\ step' = "finalize"
  /\ UNCHANGED <<providerVars, packet, ctxDone, layer, made, chan, wg, closed, merged, outcome, down>>

\* The translation is finalized unless the context is done.
Finalize ==
  /\ ~down /\ step = "finalize"
  /\ Returns(<<merged, ~ctxDone>>)
  /\ UNCHANGED <<providerVars, packet, ctxDone, layer, made, chan, wg, closed, merged, down>>

\* A panic in Run is recovered and gives nil; the goroutines go on.
RunPanics ==
  /\ ~down /\ step \in Panics
  /\ Returns(Nil)
  /\ UNCHANGED <<providerVars, packet, ctxDone, layer, made, chan, wg, closed, merged, down>>

-----------------------------------------------------------------------------
\* The goroutines of the layers: translate

GoesTo(i, s) == layer' = [layer EXCEPT ![i] = s]

\* A layer with a translator gives a translation, or an error when there is
\* nothing or it panics; other layers an error, unless they are skipped.
Translate_SkipReturns(i) ==
  /\ ~down /\ layer[i] = "translate"
  /\ \/ packet.layers[i] = "skipped" /\ GoesTo(i, "done") /\ UNCHANGED made
     \/ packet.layers[i] = "known" /\ GoesTo(i, "send") /\ made' = [made EXCEPT ![i] = "ok"]
     \/ packet.layers[i] # "skipped" /\ GoesTo(i, "send") /\ made' = [made EXCEPT ![i] = "error"]
  /\ UNCHANGED <<providerVars, packet, ctxDone, step, chan, wg, closed, merged, outcome, down>>
Translate(i) ==
  /\ ~down /\ layer[i] = "translate"
  /\ \/ packet.layers[i] = "skipped" /\ GoesTo(i, "deferred") /\ UNCHANGED made
     \/ packet.layers[i] = "known" /\ GoesTo(i, "send") /\ made' = [made EXCEPT ![i] = "ok"]
     \/ packet.layers[i] # "skipped" /\ GoesTo(i, "send") /\ made' = [made EXCEPT ![i] = "error"]
  /\ UNCHANGED <<providerVars, packet, ctxDone, step, chan, wg, closed, merged, outcome, down>>

\* The send blocks while the channel is full.  On a closed channel it panics,
\* and so does the send of the recovering function.
Send(i) ==
  /\ ~down /\ layer[i] = "send" /\ (closed \/ Cardinality(chan) < ChanCap)
  /\ IF closed THEN down' = TRUE /\ UNCHANGED <<layer, chan>>
     ELSE GoesTo(i, "deferred") /\ chan' = chan \cup {i} /\ UNCHANGED down
  /\ UNCHANGED <<providerVars, packet, ctxDone, step, made, wg, closed, merged, outcome>>

\* wg.Done
LayerDone(i) ==
  /\ ~down /\ layer[i] = "deferred"
  /\ GoesTo(i, "done")
  /\ wg' = wg \ {i}
  /\ UNCHANGED <<providerVars, packet, ctxDone, step, made, chan, closed, merged, outcome, down>>

\* wg.Wait and close
Close ==
  /\ ~down /\ ~closed /\ wg = {}
  /\ step = "merge" \/ \E i \in Layers : layer[i] # "idle"
  /\ closed' = TRUE
  /\ UNCHANGED <<providerVars, packet, ctxDone, step, layer, made, chan, wg, merged, outcome, down>>

-----------------------------------------------------------------------------
Cancel ==
  /\ ~down /\ ~ctxDone
  /\ ctxDone' = TRUE
  /\ UNCHANGED <<providerVars, packet, workVars>>

\* Another engine starts and asks the providers again.
AskProviders == ~down /\ StartGet /\ UNCHANGED <<packet, ctxDone, workVars>>
ProviderAdds == ~down /\ AddNext /\ UNCHANGED <<packet, ctxDone, workVars>>

\* The process filter denies or allows a connection again.
ProcessFilters(c) == ~down /\ SocketUpdate(c) /\ UNCHANGED <<packet, ctxDone, workVars>>

LayerStep(i) == Translate(i) \/ Send(i) \/ LayerDone(i)
RunStep == Filter \/ StartLayers \/ (\E i \in Layers : Merge(i)) \/ MergeEnds \/ Finalize

Next ==
  \/ Filter \/ StartLayers \/ MergeEnds \/ Finalize \/ RunPanics \/ Close \/ Cancel
  \/ \E i \in Layers : Merge(i)
  \/ \E i \in Layers : Translate(i)
  \/ \E i \in Layers : Send(i)
  \/ \E i \in Layers : LayerDone(i)
  \/ AskProviders \/ ProviderAdds
  \/ \E c \in Sockets : ProcessFilters(c)

Spec == Init /\ [][Next]_vars

\* Positions of layers.
Positions == UNION {DOMAIN s.packet.layers : s \in Scenarios}

\* Goroutines that can run do run; nobody need cancel, nothing need panic.
Fairness ==
  /\ WF_vars(AskProviders \/ ProviderAdds) /\ WF_vars(RunStep) /\ WF_vars(Close)
  /\ \A i \in Positions : WF_vars(i \in Layers /\ LayerStep(i))

FairSpec == Spec /\ Fairness

-----------------------------------------------------------------------------
\* Properties

Reversed(k) == [k EXCEPT !.src = k.dst, !.dst = k.src, !.sport = k.dport, !.dport = k.sport]

\* Both directions of a conversation get the same verdict, whatever networks,
\* ports and sockets are filtered: no half of a flow is dropped.
DirectionFree ==
  packet.l3 = "ip" /\ packet.l4 # "none"
    => (ShouldTranslate(filter, packet) <=> ShouldTranslate(filter, Reversed(packet)))

\* Two filters are built from one setting: a packet that the kernel's lets
\* through is dropped by the worker's only for its addresses or its socket,
\* from the first Get on, also while the providers are asked again.
SecondFilterAgrees ==
  rounds > 0 /\ BPFAccepts(setting, packet) /\ ~ShouldTranslate(filter, packet)
    => packet.l3 = "ip" /\ (~AddrsAllowed(filter, packet) \/ ~IsSocketAllowed(filter, packet))

\* The channel is closed only after every goroutine has sent what it had to:
\* the send in the recovering function, which nothing recovers, never panics.
ChannelOutlivesSenders ==
  ~down /\ (closed => \A i \in Layers : layer[i] \in {"deferred", "done"})

\* Seen from the transformer, the goroutines of a packet are one step: Run
\* answers once, with nothing or with every layer of the packet.
Whole == INSTANCE PacketTranslation WITH
           kinds <- packet.layers, cancelled <- ctxDone
AnswersOnce == Whole!Spec

\* Run returns, and its goroutines end, however small the channel is and
\* whether or not the context is cancelled meanwhile.
RunEnds == <>(step = "returned" /\ \A i \in Layers : layer[i] \in {"idle", "done"})
=============================================================================
