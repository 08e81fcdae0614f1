----------------------- MODULE TranslatorWorkerProofs -----------------------
(* The channel of a worker outlives its senders, and a worker implements   *)
(* PacketTranslation; its verdict does not depend on the direction of a    *)
(* packet, agrees with the kernel's filter on protocols, ports and flags,  *)
(* and allows the addresses of the networks that were added; for any       *)
(* packets, settings, address widths and capacities.                       *)
EXTENDS TranslatorWorker, FiniteSetTheorems, SequenceTheorems, WellFoundedInduction, TLAPS

Busy == {"translate", "send", "deferred"}

\* The variables of Run and of its goroutines have their types.
WorkTypes ==
  /\ packet.layers \in [Layers -> Kinds]
  /\ step \in RunSteps
  /\ layer \in [Layers -> LayerSteps]
  /\ made \in [Layers -> Made] /\ merged \in [Layers -> Made]
  /\ chan \subseteq Layers /\ wg \subseteq Layers

\* Where a goroutine is tells what it has made, whether its translation is in
\* the channel or merged, and whether it is still counted.
LayerInv(i) ==
  /\ i \in wg <=> layer[i] \in Busy
  /\ layer[i] \in {"idle", "translate"} => made[i] = "none"
  /\ layer[i] \in {"send", "deferred", "done"} =>
       CASE packet.layers[i] = "skipped" -> layer[i] # "send" /\ made[i] = "none"
         [] packet.layers[i] = "unknown" -> made[i] = "error"
         [] packet.layers[i] = "known"   -> made[i] \in {"ok", "error"}
  /\ i \in chan => layer[i] \in {"deferred", "done"} /\ merged[i] = "none"
  /\ merged[i] \in {"none", made[i]}
  /\ layer[i] \in {"deferred", "done"} => i \in chan \/ merged[i] = made[i]
  /\ merged[i] # "none" => layer[i] \in {"deferred", "done"}
  /\ closed => layer[i] = "done"
  /\ step \in {"filter", "next"} => layer[i] = "idle"
  /\ step \in {"merge", "finalize"} => layer[i] # "idle"

WorkInv ==
  /\ WorkTypes
  /\ ~down
  /\ \A i \in Layers : LayerInv(i)
  /\ \A i, j \in Layers : layer[i] = "idle" => layer[j] = "idle"
  /\ step \in {"filter", "next"} => ~closed
  /\ step = "finalize" => closed /\ chan = {}
  /\ outcome = {} <=> step # "returned"

\* Initially no goroutine has started.
LEMMA InitWork == Init => WorkInv
<1> SUFFICES ASSUME Init PROVE WorkInv
  OBVIOUS
<1>1. PICK s \in Scenarios : packet = s.packet
  BY DEF Init
<1>2. packet.layers \in [Layers -> Kinds]
  <2>1. packet.layers \in Seq(Kinds)
    BY <1>1, WorkerAssumption DEF Packets
  <2> QED
    BY <2>1 DEF Layers
<1>3. ASSUME NEW i \in Layers PROVE LayerInv(i)
  BY Zenon DEF Init, LayerInv, Busy
<1> QED
  BY <1>2, <1>3 DEF Init, WorkInv, WorkTypes, RunSteps, LayerSteps, Made

\* A step that leaves the worker alone.
LEMMA WorkFrame ==
  ASSUME WorkInv, packet' = packet, UNCHANGED workVars
  PROVE  WorkInv'
BY Zenon DEF WorkInv, WorkTypes, LayerInv, Layers, workVars

\* The steps of Run before the goroutines exist, and after they are done with.
LEMMA WorkRun ==
  ASSUME WorkInv, Filter \/ MergeEnds \/ Finalize \/ RunPanics
  PROVE  WorkInv'
<1> USE DEF WorkInv, WorkTypes, LayerInv, Layers, RunSteps, Returns, Nil
<1>1. CASE Filter
  BY <1>1, Zenon DEF Filter
<1>2. CASE MergeEnds
  BY <1>2, Zenon DEF MergeEnds
<1>3. CASE Finalize
  BY <1>3, Zenon DEF Finalize
<1>4. CASE RunPanics
  BY <1>4, Zenon DEF RunPanics
<1> QED
  BY <1>1, <1>2, <1>3, <1>4, Zenon

\* The goroutines start, all counted.
LEMMA WorkStart ==
  ASSUME WorkInv, StartLayers
  PROVE  WorkInv'
<1> USE DEF WorkInv, WorkTypes, Layers, RunSteps, Returns, Nil, StartLayers, LayerSteps
<1>1. CASE ctxDone
  <2>1. ASSUME NEW i \in Layers PROVE LayerInv(i)'
    BY <1>1, <2>1, Zenon DEF LayerInv
  <2> QED
    BY <1>1, <2>1, Zenon
<1>2. CASE ~ctxDone
  <2>1. ASSUME NEW i \in Layers PROVE LayerInv(i)'
    BY <1>2, <2>1, Zenon DEF LayerInv, Busy
  <2> QED
    BY <1>2, <2>1
<1> QED
  BY <1>1, <1>2

\* A translation leaves the channel for the buffer.
LEMMA WorkMerge ==
  ASSUME WorkInv, NEW i \in Layers, Merge(i)
  PROVE  WorkInv'
<1> USE DEF WorkInv, WorkTypes, Layers
<1>1. ASSUME NEW j \in Layers PROVE LayerInv(j)'
  BY Zenon DEF LayerInv, Merge
<1> QED
  BY <1>1 DEF Merge

\* A goroutine's own steps.
LEMMA WorkLayer ==
  ASSUME WorkInv, NEW i \in Layers, LayerStep(i)
  PROVE  WorkInv'
<1> USE DEF WorkInv, WorkTypes, Layers, LayerSteps, GoesTo
<1>1. CASE Translate(i)
  <2>1. ASSUME NEW j \in Layers PROVE LayerInv(j)'
    <3>1. CASE j = i
      BY <1>1, <3>1, Zenon DEF LayerInv, Translate, Busy, Kinds
    <3>2. CASE j # i
      <4>1. layer'[j] = layer[j] /\ made'[j] = made[j]
        BY <1>1, <3>2 DEF Translate
      <4>2. UNCHANGED <<packet, step, chan, wg, closed, merged>>
        BY <1>1 DEF Translate
      <4>3. LayerInv(j)
        BY Zenon
      <4> HIDE DEF WorkInv
      <4> QED
        BY <4>1, <4>2, <4>3, Zenon DEF LayerInv
    <3> QED
      BY <3>1, <3>2
  <2> QED
    BY <1>1, <2>1 DEF Translate, Made
<1>2. CASE Send(i)
  <2>1. ~closed
    BY <1>2, Zenon DEF LayerInv, Send
  <2>2. ASSUME NEW j \in Layers PROVE LayerInv(j)'
    <3>1. CASE j = i
      BY <1>2, <2>1, <3>1, Zenon DEF LayerInv, Send, Busy, Kinds
    <3>2. CASE j # i
      BY <1>2, <2>1, <3>2, Zenon DEF LayerInv, Send, Busy
    <3> QED
      BY <3>1, <3>2
  <2> QED
    BY <1>2, <2>1, <2>2 DEF Send
<1>3. CASE LayerDone(i)
  <2>1. ASSUME NEW j \in Layers PROVE LayerInv(j)'
    BY <1>3, <2>1, Zenon DEF LayerInv, LayerDone, Busy
  <2> QED
    BY <1>3, <2>1 DEF LayerDone
<1> QED
  BY <1>1, <1>2, <1>3 DEF LayerStep

\* The channel is closed when no goroutine is counted any more.
LEMMA WorkClose ==
  ASSUME WorkInv, Close
  PROVE  WorkInv'
<1> USE DEF WorkInv, WorkTypes, Layers
<1>1. ASSUME NEW j \in Layers PROVE layer[j] = "done"
  <2>1. layer[j] # "idle"
    BY Zenon DEF LayerInv, Close
  <2> QED
    BY <2>1, Zenon DEF LayerInv, Close, Busy, LayerSteps
<1>2. ASSUME NEW j \in Layers PROVE LayerInv(j)'
  BY <1>1, Zenon DEF LayerInv, Close
<1>3. step \notin {"filter", "next"}
  BY Zenon DEF LayerInv, Close
<1>4. closed' = TRUE /\ UNCHANGED <<packet, step, layer, made, merged, chan, wg, outcome, down>>
  BY DEF Close
<1> QED
  BY <1>2, <1>3, <1>4

\* Every step keeps the invariant.
LEMMA WorkStep == WorkInv /\ [Next]_vars => WorkInv'
<1> SUFFICES ASSUME WorkInv, [Next]_vars PROVE WorkInv'
  OBVIOUS
<1>1. CASE UNCHANGED vars \/ Cancel \/ AskProviders \/ ProviderAdds
  <2>1. packet' = packet /\ UNCHANGED workVars
    BY <1>1 DEF vars, Cancel, AskProviders, ProviderAdds
  <2> QED
    BY <2>1, WorkFrame
<1>2. CASE \E c \in Sockets : ProcessFilters(c)
  BY <1>2, WorkFrame DEF ProcessFilters
<1>3. CASE Filter \/ MergeEnds \/ Finalize \/ RunPanics
  BY <1>3, WorkRun
<1>4. CASE StartLayers
  BY <1>4, WorkStart
<1>5. CASE Close
  BY <1>5, WorkClose
<1>6. CASE \E i \in Layers : Merge(i)
  BY <1>6, WorkMerge
<1>7. CASE \E i \in Layers : Translate(i) \/ Send(i) \/ LayerDone(i)
  BY <1>7, WorkLayer DEF LayerStep
<1> QED
  BY <1>1, <1>2, <1>3, <1>4, <1>5, <1>6, <1>7 DEF Next

\* A goroutine of translate never meets a closed channel: the close waits for
\* the group, and a goroutine leaves it after its send.
THEOREM SendersOutlived == Spec => []ChannelOutlivesSenders
<1>1. WorkInv => ChannelOutlivesSenders
  BY Zenon DEF WorkInv, LayerInv, ChannelOutlivesSenders
<1> QED
  BY <1>1, InitWork, WorkStep, PTL DEF Spec

-----------------------------------------------------------------------------
\* The refinement: every step is a step of PacketTranslation or stutters

wholeVars == <<packet.layers, ctxDone, outcome>>

\* When the range over the channel has ended, what was merged is whole.
LEMMA MergedIsWhole ==
  ASSUME WorkInv, step = "finalize"
  PROVE  merged \in [Layers -> Made] /\ Whole!Whole(merged)
<1>1. ASSUME NEW i \in Layers
      PROVE  CASE packet.layers[i] = "skipped" -> merged[i] = "none"
               [] packet.layers[i] = "unknown" -> merged[i] = "error"
               [] packet.layers[i] = "known"   -> merged[i] \in {"ok", "error"}
  <2>1. layer[i] = "done" /\ merged[i] = made[i]
    BY Zenon DEF WorkInv, LayerInv
  <2>2. packet.layers[i] \in Kinds
    BY DEF WorkInv, WorkTypes, Layers
  <2> QED
    BY <2>1, <2>2, Zenon DEF WorkInv, LayerInv, Kinds
<1> QED
  BY <1>1, Zenon DEF WorkInv, WorkTypes, Layers, Whole!Whole

\* Run's answer is PacketTranslation's; the steps between are not seen.
LEMMA WholeStep == WorkInv /\ [Next]_vars => [Whole!Next]_wholeVars
<1> SUFFICES ASSUME WorkInv, [Next]_vars PROVE [Whole!Next]_wholeVars
  OBVIOUS
<1> USE DEF wholeVars
<1>1. CASE UNCHANGED vars
  BY <1>1 DEF vars, workVars
<1>2. CASE AskProviders \/ ProviderAdds \/ \E c \in Sockets : ProcessFilters(c)
  BY <1>2 DEF AskProviders, ProviderAdds, ProcessFilters, workVars
<1>3. CASE Cancel
  BY <1>3 DEF Cancel, workVars, Whole!Next, Whole!Cancel
<1>4. CASE Filter \/ StartLayers \/ RunPanics
  <2>1. outcome = {}
    BY <1>4, WorkerAssumption DEF Filter, StartLayers, RunPanics, WorkInv
  <2> QED
    BY <1>4, <2>1 DEF Filter, StartLayers, RunPanics, Returns, Nil, Whole!Next, Whole!Nothing
<1>5. CASE Finalize
  BY <1>5, MergedIsWhole
     DEF Finalize, Returns, WorkInv, Layers, Made, Whole!Next, Whole!Answer
<1>6. CASE MergeEnds \/ Close
  BY <1>6 DEF MergeEnds, Close
<1>7. CASE \E i \in Layers : Merge(i) \/ Translate(i) \/ Send(i) \/ LayerDone(i)
  BY <1>7 DEF Merge, Translate, Send, LayerDone
<1> QED
  BY <1>1, <1>2, <1>3, <1>4, <1>5, <1>6, <1>7 DEF Next

\* A worker implements PacketTranslation: however its goroutines interleave,
\* Run answers once, with nothing or with all layers of the packet.
THEOREM WorkerAnswersOnce == Spec => AnswersOnce
<1>1. Init => Whole!Init
  BY DEF Init, Whole!Init
<1>2. [Whole!Next]_wholeVars => [Whole!Next]_(Whole!vars)
  BY DEF wholeVars, Whole!vars
<1> QED
  BY <1>1, <1>2, InitWork, WorkStep, WholeStep, PTL DEF Spec, AnswersOnce, Whole!Spec
-----------------------------------------------------------------------------
\* The verdict on a packet

\* An end of a connection hashes to a number.
LEMMA HashInteger ==
  ASSUME NEW a \in Addrs
  PROVE  HashOf(a) \in Int
<1>1. a.n \in Int /\ a.fam \in Int /\ MaxPort \in Int
  <2>1. a.fam \in Families
    BY DEF Addrs
  <2>2. a.n \in 0..Size[0] - 1
    BY DEF Addrs
  <2>3. a.fam \in Int /\ MaxPort \in Int
    <3>1. (a.fam = 4 \/ a.fam = 6) /\ MaxPort \in Nat
      BY Zenon, <2>1, FilterAssumption
    <3> QED
      BY <3>1
  <2>4. \A hi : 0..hi \subseteq Int
    OBVIOUS
  <2> QED
    BY Zenon, <2>2, <2>3, <2>4
<1> DEFINE m == (a.n + 1) * 8
<1>2. m \in Int
  BY <1>1
<1> HIDE DEF m
<1>3. m * (MaxPort + 1) \in Int
  BY <1>1, <1>2
<1> QED
  BY <1>1, <1>3 DEF HashOf, m

\* The hash of a socket is the same from both of its ends.
LEMMA HashSymmetric ==
  ASSUME NEW a \in Addrs, NEW b \in Addrs, NEW p \in Int, NEW q \in Int
  PROVE  SocketHash(a, p, b, q) = SocketHash(b, q, a, p)
<1>1. HashOf(a) \in Int /\ HashOf(b) \in Int
  BY HashInteger
<1> QED
  BY <1>1 DEF SocketHash

\* The other half of a conversation is a packet with its ends swapped.
LEMMA ReversedFields ==
  ASSUME NEW k \in Packets
  PROVE  /\ Reversed(k).l3 = k.l3 /\ Reversed(k).l4 = k.l4 /\ Reversed(k).flags = k.flags
         /\ Reversed(k).src = k.dst /\ Reversed(k).dst = k.src
         /\ Reversed(k).sport = k.dport /\ Reversed(k).dport = k.sport
BY DEF Reversed, Packets

\* A filter of any content treats both directions alike: the networks are
\* asked for both ends, the ports for either, and the socket's hash is a sum.
LEMMA VerdictSymmetric ==
  ASSUME NEW f, NEW k \in Packets
  PROVE  ShouldTranslate(f, k) <=> ShouldTranslate(f, Reversed(k))
<1> DEFINE r == Reversed(k)
<1>1. /\ r.l3 = k.l3 /\ r.l4 = k.l4 /\ r.flags = k.flags
      /\ r.src = k.dst /\ r.dst = k.src /\ r.sport = k.dport /\ r.dport = k.sport
  BY ReversedFields
<1>2. /\ k.src \in Addrs /\ k.dst \in Addrs /\ k.src.fam = k.dst.fam
      /\ k.sport \in 0..MaxPort /\ k.dport \in 0..MaxPort
  BY DEF Packets
<1> HIDE DEF r
<1>3. IsL3Allowed(f, k) <=> IsL3Allowed(f, r)
  BY Zenon, <1>1, <1>2 DEF IsL3Allowed, AddrsAllowed
<1>4. IsL4Allowed(f, k) <=> IsL4Allowed(f, r)
  <2>1. {k.sport, k.dport} = {r.sport, r.dport}
    BY <1>1
  <2>2. AllowsAnyL4Addr(f, k.sport, k.dport) <=> AllowsAnyL4Addr(f, r.sport, r.dport)
    BY Zenon, <2>1 DEF AllowsAnyL4Addr
  <2> QED
    BY Zenon, <1>1, <2>2 DEF IsL4Allowed
<1>5. IsSocketAllowed(f, k) <=> IsSocketAllowed(f, r)
  <2>1. k.sport \in Int /\ k.dport \in Int
    BY <1>2, FilterAssumption
  <2>2. SocketHash(k.src, k.sport, k.dst, k.dport) = SocketHash(r.src, r.sport, r.dst, r.dport)
    <3>1. SocketHash(k.src, k.sport, k.dst, k.dport) = SocketHash(k.dst, k.dport, k.src, k.sport)
      BY Zenon, <1>2, <2>1, HashSymmetric
    <3> QED
      BY Zenon, <1>1, <3>1
  <2> QED
    BY <1>1, <2>2 DEF IsSocketAllowed, AllowsSocket
<1> QED
  BY Zenon, <1>3, <1>4, <1>5 DEF ShouldTranslate, r

\* The packet of a worker stays the same.
LEMMA PacketInit == Init => packet \in Packets
BY WorkerAssumption, Zenon DEF Init

LEMMA PacketNext == packet \in Packets /\ [Next]_vars => (packet \in Packets)'
<1> SUFFICES ASSUME [Next]_vars PROVE packet' = packet
  OBVIOUS
<1> QED
  BY Zenon DEF Next, vars, Filter, StartLayers, MergeEnds, Finalize, RunPanics, Close, Cancel, Merge,
       Translate, Send, LayerDone, AskProviders, ProviderAdds, ProcessFilters

\* Both directions of a conversation get the same verdict, for any settings,
\* packets and sockets and in every state of the packet filter.
THEOREM VerdictIsDirectionFree == Spec => []DirectionFree
<1>1. packet \in Packets => DirectionFree
  BY Zenon, VerdictSymmetric DEF DirectionFree
<1> QED
  BY <1>1, PacketInit, PacketNext, PTL DEF Spec

-----------------------------------------------------------------------------
\* What the providers have added

\* Every Get adds the same to the sets of the packet filter, so that after the
\* first one they are what the setting gives; nothing denies a port.
SetsInv ==
  /\ DOMAIN filter = DOMAIN NewPcapFilters
  /\ rounds \in Nat /\ filter.noPorts = {}
  /\ rounds = 0 => /\ filter.l3 = {} /\ filter.l4 = {} /\ filter.ports = {} /\ filter.flags = {}
  /\ rounds > 0 => /\ filter.l3 = L3Filters(setting) /\ filter.l4 = L4Filters(setting)
                   /\ filter.ports = PortFilters(setting) /\ filter.flags = FlagFilters(setting)

setVars == <<setting, rounds, filter.l3, filter.l4, filter.ports, filter.flags, filter.noPorts, DOMAIN filter>>

LEMMA SetsFrame == SetsInv /\ UNCHANGED setVars => SetsInv'
BY Zenon DEF SetsInv, setVars, L3Filters, L4Filters, PortFilters, FlagFilters, NewPcapFilters

LEMMA SetsInit == Init => SetsInv
<1> SUFFICES ASSUME Init PROVE SetsInv
  OBVIOUS
<1>1. filter = NewPcapFilters /\ rounds = 0
  BY Zenon DEF Init, InitProviders
<1>2. /\ filter.noPorts = {} /\ filter.l3 = {} /\ filter.l4 = {} /\ filter.ports = {} /\ filter.flags = {}
  BY <1>1 DEF NewPcapFilters
<1> QED
  BY <1>1, <1>2 DEF SetsInv

\* A Get of the providers.
LEMMA SetsGet ==
  ASSUME SetsInv, StartGet
  PROVE  SetsInv'
<1> DEFINE D == DOMAIN NewPcapFilters
<1>1. filter' = WithSets(filter, setting) /\ setting' = setting /\ rounds' = rounds + 1 /\ rounds \in Nat
  BY Zenon DEF StartGet, SetsInv
<1>2. DOMAIN filter = D /\ {"l3", "l4", "ports", "flags", "noPorts"} \subseteq D
  BY DEF SetsInv, NewPcapFilters
<1> HIDE DEF D
<1>3. /\ DOMAIN filter' = D /\ filter'.noPorts = filter.noPorts
      /\ filter'.l3 = filter.l3 \cup L3Filters(setting) /\ filter'.l4 = filter.l4 \cup L4Filters(setting)
      /\ filter'.ports = filter.ports \cup PortFilters(setting)
      /\ filter'.flags = filter.flags \cup FlagFilters(setting)
  BY <1>1, <1>2 DEF WithSets
<1>4. /\ filter.l3 \in {{}, L3Filters(setting)} /\ filter.l4 \in {{}, L4Filters(setting)}
      /\ filter.ports \in {{}, PortFilters(setting)} /\ filter.flags \in {{}, FlagFilters(setting)}
      /\ filter.noPorts = {}
  BY DEF SetsInv
<1>5. /\ filter'.l3 = L3Filters(setting) /\ filter'.l4 = L4Filters(setting)
      /\ filter'.ports = PortFilters(setting) /\ filter'.flags = FlagFilters(setting)
  BY <1>3, <1>4
<1>6. rounds' \in Nat /\ rounds' # 0
  BY <1>1
<1> QED
  BY Zenon, <1>1, <1>3, <1>4, <1>5, <1>6 DEF SetsInv, D, L3Filters, L4Filters, PortFilters, FlagFilters

\* The other steps leave the sets alone.
LEMMA SetsNext == SetsInv /\ [Next]_vars => SetsInv'
<1> SUFFICES ASSUME SetsInv, [Next]_vars PROVE SetsInv'
  OBVIOUS
<1>1. {"l3", "l4", "ports", "flags", "noPorts"} \subseteq DOMAIN filter
  BY DEF SetsInv, NewPcapFilters
<1>2. CASE AskProviders
  BY Zenon, <1>2, SetsGet DEF AskProviders
<1>3. CASE ProviderAdds
  <2>1. UNCHANGED <<setting, rounds>> /\ \E v : filter' = [filter EXCEPT !.nets = v]
    BY Zenon, <1>3 DEF ProviderAdds, AddNext
  <2>2. UNCHANGED setVars
    BY <1>1, <2>1 DEF setVars
  <2> QED
    BY Zenon, <2>2, SetsFrame
<1>4. CASE \E c \in Sockets : ProcessFilters(c)
  <2>1. UNCHANGED <<setting, rounds>> /\ \E v : filter' = [filter EXCEPT !.noSockets = v]
    BY <1>4 DEF ProcessFilters, SocketUpdate, DenySocket, AllowSocket
  <2>2. UNCHANGED setVars
    BY <1>1, <2>1 DEF setVars
  <2> QED
    BY Zenon, <2>2, SetsFrame
<1>5. CASE UNCHANGED providerVars
  BY Zenon, <1>5, SetsFrame DEF providerVars, setVars
<1> QED
  BY Zenon, <1>2, <1>3, <1>4, <1>5 DEF Next, vars, Filter, StartLayers, MergeEnds, Finalize, RunPanics,
       Close, Cancel, Merge, Translate, Send, LayerDone

\* Ports that libpcap accepts are added as they are.
LEMMA PortsParsed ==
  ASSUME Compiles(setting)
  PROVE  PortFilters(setting) = setting.ports
<1>1. ASSUME NEW t \in setting.ports PROVE PortOf(t) = t
  BY FilterAssumption DEF Compiles, PortOf
<1> QED
  BY Zenon, <1>1 DEF PortFilters

\* The clauses of the kernel's filter and the sets of the packet filter come
\* from one setting: they agree on protocols, ports and flags.
LEMMA SetsAgree ==
  ASSUME SetsInv, rounds > 0, BPFAccepts(setting, packet)
  PROVE  /\ packet.l3 = "ip" /\ filter.l3 # {} => IPProto(packet.src.fam) \in filter.l3
         /\ IsL4Allowed(filter, packet)
<1>1. /\ filter.l3 = L3Filters(setting) /\ filter.l4 = L4Filters(setting)
      /\ filter.ports = PortFilters(setting) /\ filter.flags = FlagFilters(setting)
      /\ filter.noPorts = {}
  BY Zenon DEF SetsInv
<1>2. /\ Compiles(setting) /\ L3Clause(setting, packet) /\ L4Clause(setting, packet)
      /\ PortsClause(setting, packet) /\ FlagsClause(setting, packet)
  BY Zenon DEF BPFAccepts
<1>3. ASSUME packet.l3 = "ip", filter.l3 # {} PROVE IPProto(packet.src.fam) \in filter.l3
  BY <1>1, <1>2, <1>3 DEF L3Filters, L3Clause, IPProto, Unknown
<1>4. ASSUME packet.l4 # "none", filter.l4 # {} PROVE packet.l4 \in filter.l4
  BY Zenon, <1>1, <1>2, <1>4 DEF L4Filters, L4Clause
<1>5. ASSUME packet.l4 = "tcp", filter.flags # {} PROVE packet.flags \cap filter.flags # {}
  <2>1. setting.flags \cap Unknown = {} /\ packet.flags \cap setting.flags # {}
    BY Zenon, <1>1, <1>2, <1>5 DEF Compiles, FlagsClause
  <2> QED
    BY <1>1, <2>1 DEF FlagFilters
<1>6. AllowsAnyL4Addr(filter, packet.sport, packet.dport)
  BY <1>1, <1>2, PortsParsed DEF AllowsAnyL4Addr, PortsClause
<1> QED
  BY Zenon, <1>3, <1>4, <1>5, <1>6 DEF IsL4Allowed

\* A packet that the kernel's filter lets through is dropped by a worker only
\* for its addresses or its socket, for any setting and packet, also while an
\* engine that starts asks the providers again.
THEOREM FiltersAgree == Spec => []SecondFilterAgrees
<1>1. SetsInv => SecondFilterAgrees
  BY Zenon, SetsAgree DEF SecondFilterAgrees, ShouldTranslate, IsL3Allowed, IsSocketAllowed
<1> QED
  BY <1>1, SetsInit, SetsNext, PTL DEF Spec

-----------------------------------------------------------------------------
\* Induction

\* A bounded set of numbers has a least one.  The proofs by induction below
\* look at the least counterexample.
LEMMA Least ==
  ASSUME NEW N \in Nat, NEW T, T \subseteq 0..N, T # {}
  PROVE  \E n \in T : n \in 0..N /\ \A m \in 0..N : m < n => m \notin T
<1> DEFINE S == {0..n : n \in T}
<1>1. IsWellFoundedOn(StrictSubsetOrdering(0..N), FiniteSubsetsOf(0..N))
  BY FS_StrictSubsetOrderingWellFounded
<1>2. S # {}
  BY Zenon
<1>3. S \subseteq FiniteSubsetsOf(0..N)
  <2> SUFFICES ASSUME NEW n \in T PROVE 0..n \in FiniteSubsetsOf(0..N)
    OBVIOUS
  <2>1. IsFiniteSet(0..n)
    BY FS_Interval
  <2>2. 0..n \subseteq 0..N
    OBVIOUS
  <2> QED
    BY Zenon, <2>1, <2>2 DEF FiniteSubsetsOf
<1> HIDE DEF S
<1>4. PICK x \in S : \A y \in S : <<y, x>> \notin StrictSubsetOrdering(0..N)
  BY <1>1, <1>2, <1>3, WFMin
<1>5. PICK n \in T : x = 0..n
  BY <1>4 DEF S
<1>6. SUFFICES ASSUME NEW m \in T, m < n PROVE FALSE
  OBVIOUS
<1> DEFINE a == 0..m
           b == 0..n
           c == 0..N
<1>7. a \in S
  BY DEF S
<1>8. a \subseteq b /\ a # b /\ a \in SUBSET c /\ b \in SUBSET c
  BY <1>6
<1> HIDE DEF a, b, c
<1>9. <<a, b>> \in StrictSubsetOrdering(c)
  BY <1>8 DEF StrictSubsetOrdering
<1> QED
  BY Zenon, <1>4, <1>5, <1>7, <1>9 DEF b, c

-----------------------------------------------------------------------------
\* Prefixes

DoublesTo(f, len) == f[len] = IF len = Width THEN 1 ELSE 2 * f[len + 1]
IsSize(f) == f = [len \in 0..Width |-> IF len = Width THEN 1 ELSE 2 * f[len + 1]]

\* The sizes of prefixes are what their definition says.
LEMMA SizeDef == Size \in [0..Width -> Nat \ {0}] /\ \A len \in 0..Width : DoublesTo(Size, len)
<1>0. Width \in Nat
  BY FilterAssumption
<1> DEFINE F == [0..Width -> Nat \ {0}]
           Upto(n) == \E f \in F : \A len \in 0..Width : Width - len <= n => DoublesTo(f, len)
<1>1. Upto(0)
  <2> DEFINE f == [len \in 0..Width |-> 1]
  <2>1. f \in F /\ \A len \in 0..Width : Width - len <= 0 => DoublesTo(f, len)
    BY <1>0 DEF DoublesTo
  <2> QED
    BY Zenon, <2>1
<1>2. ASSUME NEW n \in Nat, Upto(n) PROVE Upto(n + 1)
  <2>1. PICK f \in F : \A len \in 0..Width : Width - len <= n => DoublesTo(f, len)
    BY Zenon, <1>2
  <2> DEFINE g == [len \in 0..Width |-> IF len = Width THEN 1 ELSE 2 * f[len + 1]]
  <2>2. g \in F
    BY <1>0
  <2>3. ASSUME NEW len \in 0..Width, Width - len <= n + 1 PROVE DoublesTo(g, len)
    BY <1>0, <2>1, <2>3 DEF DoublesTo
  <2> QED
    BY Zenon, <2>2, <2>3
<1>3. Upto(Width)
  <2> DEFINE T == {n \in 0..Width : ~Upto(n)}
  <2> HIDE DEF Upto
  <2>1. SUFFICES ASSUME T # {} PROVE FALSE
    BY <1>0
  <2>2. PICK n \in T : n \in 0..Width /\ \A m \in 0..Width : m < n => m \notin T
    BY Zenon, <1>0, <2>1, Least
  <2>3. n # 0
    BY Zenon, <1>1, <2>2
  <2>4. n - 1 \in 0..Width /\ n - 1 < n /\ n - 1 \in Nat /\ (n - 1) + 1 = n
    BY <1>0, <2>2, <2>3
  <2>5. Upto(n - 1)
    BY Zenon, <2>2, <2>4
  <2>6. Upto((n - 1) + 1)
    BY Zenon, <1>2, <2>4, <2>5
  <2>7. Upto(n)
    BY Zenon, <2>4, <2>6
  <2> QED
    BY Zenon, <2>2, <2>7
<1>4. PICK f \in F : \A len \in 0..Width : DoublesTo(f, len)
  BY <1>0, <1>3
<1>5. IsSize(f)
  BY <1>4 DEF IsSize, DoublesTo
<1>6. Size = CHOOSE g : IsSize(g)
  BY Zenon DEF Size, IsSize
<1>7. IsSize(Size)
  BY Zenon, <1>5, <1>6
<1>8. \A len \in 0..Width : DoublesTo(Size, len)
  BY Zenon, <1>7 DEF IsSize, DoublesTo
<1>9. \A len \in 0..Width : Size[len] \in Nat \ {0}
  <2> DEFINE T == {k \in 0..Width : Size[Width - k] \notin Nat \ {0}}
  <2>1. T = {}
    <3>1. SUFFICES ASSUME T # {} PROVE FALSE
      OBVIOUS
    <3>2. PICK k \in T : k \in 0..Width /\ \A m \in 0..Width : m < k => m \notin T
      BY Zenon, <1>0, <3>1, Least
    <3>3. k # 0
      BY <1>0, <1>8, <3>2 DEF DoublesTo
    <3>4. k - 1 \in 0..Width /\ k - 1 < k /\ Width - (k - 1) = (Width - k) + 1
      BY <1>0, <3>2, <3>3
    <3>6. Size[Width - (k - 1)] \in Nat \ {0}
      BY Zenon, <3>2, <3>4
    <3>5. Size[Width - k] = 2 * Size[Width - (k - 1)]
      BY <1>0, <1>8, <3>2, <3>3, <3>4 DEF DoublesTo
    <3> QED
      BY <3>2, <3>5, <3>6
  <2> SUFFICES ASSUME NEW len \in 0..Width PROVE Size[len] \in Nat \ {0}
    OBVIOUS
  <2>2. Width - len \in 0..Width /\ Width - (Width - len) = len
    BY <1>0
  <2>3. Width - len \notin T
    BY Zenon, <2>1
  <2> QED
    BY <2>2, <2>3
<1> QED
  BY <1>7, <1>8, <1>9 DEF IsSize

\* Addresses of one prefix are of one shorter prefix, too.
LEMMA Coarser ==
  ASSUME NEW x \in Nat, NEW y \in Nat, NEW len \in 0..Width, Masked(x, len) = Masked(y, len),
         NEW l \in 0..len
  PROVE  Masked(x, l) = Masked(y, l)
<1>0. Width \in Nat
  BY FilterAssumption
<1> DEFINE T == {k \in 0..len : Masked(x, len - k) # Masked(y, len - k)}
<1>1. T = {}
  <2>1. SUFFICES ASSUME T # {} PROVE FALSE
    OBVIOUS
  <2>2. len \in Nat /\ T \subseteq 0..len
    BY <1>0
  <2>3. PICK k \in T : k \in 0..len /\ \A m \in 0..len : m < k => m \notin T
    BY Zenon, <2>1, <2>2, Least
  <2>4. k # 0
    BY <2>3
  <2>5. k - 1 \in 0..len /\ k - 1 < k /\ len - (k - 1) = (len - k) + 1 /\ len - k \in 0..Width
        /\ len - (k - 1) \in 0..Width /\ len - k # Width
    BY <1>0, <2>3, <2>4
  <2>6. Masked(x, len - (k - 1)) = Masked(y, len - (k - 1))
    BY Zenon, <2>3, <2>5
  <2> DEFINE b == Size[len - (k - 1)]
  <2>7. Size[len - k] = 2 * b /\ b \in Nat \ {0}
    BY <2>5, SizeDef DEF DoublesTo
  <2>8. x \div b = y \div b
    BY Zenon, <2>6 DEF Masked
  <2>9. x \div (2 * b) # y \div (2 * b)
    BY Zenon, <2>3, <2>7 DEF Masked
  <2> HIDE DEF b
  <2>10. \A z \in Nat : z \div (2 * b) = (z \div b) \div 2
    BY <2>7
  <2> QED
    BY <2>8, <2>9, <2>10
<1>2. len - l \in 0..len /\ len - (len - l) = l
  BY <1>0
<1> QED
  BY Zenon, <1>1, <1>2

\* The addresses of a prefix are consecutive.
LEMMA Convex ==
  ASSUME NEW x \in Nat, NEW y \in Nat, NEW z \in Nat, NEW len \in 0..Width,
         Masked(x, len) = Masked(y, len), Masked(x, len) # Masked(z, len)
  PROVE  (x < z <=> y < z) /\ (z < x <=> z < y)
<1> DEFINE b == Size[len]
<1>1. b \in Nat \ {0}
  BY Zenon, SizeDef
<1>2. x \div b = y \div b /\ x \div b # z \div b
  BY Zenon DEF Masked
<1> HIDE DEF b
<1>3. \A u, v \in Nat : u < v => u \div b <= v \div b
  BY <1>1
<1>4. x \div b \in Int /\ y \div b \in Int /\ z \div b \in Int
  BY <1>1
<1> QED
  BY <1>2, <1>3, <1>4

\* Fields of networks and addresses.
LEMMA NetFields ==
  /\ \A p \in Networks : p.fam \in Families /\ p.n \in Nat /\ p.len \in 0..Width /\ p.len \in Nat /\ p.len <= Width
  /\ \A a \in Addrs : /\ a.fam \in Families /\ a.n \in Nat /\ Host(a) \in Networks
                      /\ Host(a).fam = a.fam /\ Host(a).n = a.n /\ Host(a).len = Width
<1>1. Width \in Nat /\ Size[0] \in Nat
  BY FilterAssumption, SizeDef
<1>2. Width \in 0..Width
  BY <1>1
<1> QED
  BY <1>1, <1>2 DEF Networks, Addrs, Host

\* Overlapping is symmetric, and what starts with the same address overlaps.
LEMMA OverlapsSym ==
  ASSUME NEW p \in Networks, NEW q \in Networks
  PROVE  /\ Overlaps(p, q) <=> Overlaps(q, p)
         /\ p.fam = q.fam /\ p.n = q.n => Overlaps(p, q)
BY NetFields DEF Overlaps

\* A network contains an address when it overlaps it.
LEMMA OverlapsHost ==
  ASSUME NEW p \in Networks, NEW a \in Addrs
  PROVE  Overlaps(p, Host(a)) <=> ContainsAddr(p, a)
<1>1. p.len \in Nat /\ Width \in Nat /\ p.len <= Width
  BY NetFields, FilterAssumption
<1>2. (IF p.len < Width THEN p.len ELSE Width) = p.len
  BY <1>1
<1> QED
  BY Zenon, <1>2, NetFields DEF Overlaps, ContainsAddr

\* An address of a network lies to the same side of a disjoint network as the
\* network itself, and not in it.
LEMMA Aside ==
  ASSUME NEW p \in Networks, NEW q \in Networks, NEW a \in Addrs,
         p.fam = q.fam, ContainsAddr(p, a), ~Overlaps(p, q)
  PROVE  /\ ~Overlaps(q, Host(a))
         /\ a.n < q.n <=> p.n < q.n
         /\ q.n < a.n <=> q.n < p.n
<1> DEFINE l == IF p.len < q.len THEN p.len ELSE q.len
<1>1. /\ p.n \in Nat /\ q.n \in Nat /\ a.n \in Nat /\ p.len \in 0..Width /\ q.len \in 0..Width
      /\ l \in 0..p.len /\ l \in 0..q.len /\ l \in 0..Width
  BY NetFields
<1>2. Masked(p.n, l) # Masked(q.n, l)
  BY Zenon DEF Overlaps
<1>3. Masked(p.n, p.len) = Masked(a.n, p.len)
  BY Zenon DEF ContainsAddr
<1> HIDE DEF l
<1>4. Masked(p.n, l) = Masked(a.n, l)
  BY Zenon, <1>1, <1>3, Coarser
<1>5. ~Overlaps(q, Host(a))
  <2>1. SUFFICES ASSUME ContainsAddr(q, a) PROVE FALSE
    BY Zenon, OverlapsHost
  <2>2. Masked(q.n, q.len) = Masked(a.n, q.len)
    BY Zenon, <2>1 DEF ContainsAddr
  <2>3. Masked(q.n, l) = Masked(a.n, l)
    BY Zenon, <1>1, <2>2, Coarser
  <2> QED
    BY Zenon, <1>2, <1>4, <2>3
<1>6. (p.n < q.n <=> a.n < q.n) /\ (q.n < p.n <=> q.n < a.n)
  BY Zenon, <1>1, <1>2, <1>4, Convex
<1> QED
  BY Zenon, <1>5, <1>6

-----------------------------------------------------------------------------
\* The search

Pairs(items) == (0..Len(items)) \X (0..Len(items))
Branch(items, p, f, r) ==
  LET mid == (r[1] + r[2]) \div 2
  IN IF r[1] >= r[2] THEN r[1]
     ELSE IF IpLessThan(p, items[mid + 1]) THEN f[<<r[1], mid>>]
     ELSE f[<<mid + 1, r[2]>>]
IsSearch(f, items, p) == f = [r \in Pairs(items) |-> Branch(items, p, f, r)]
Search(items, p) == CHOOSE f : IsSearch(f, items, p)

\* The middle of a range.
LEMMA Middle ==
  ASSUME NEW L \in Nat, NEW lo \in 0..L, NEW hi \in 0..L, lo < hi
  PROVE  LET mid == (lo + hi) \div 2
         IN  mid \in lo..hi - 1 /\ mid \in 0..L /\ mid + 1 \in 0..L /\ mid + 1 \in 1..L
OBVIOUS

\* The search of a node is a function of the ranges.
LEMMA SearchDef ==
  ASSUME NEW items, Len(items) \in Nat, NEW p
  PROVE  IsSearch(Search(items, p), items, p)
<1> DEFINE L == Len(items)
           F == [Pairs(items) -> 0..L]
           Upto(n) == \E f \in F : \A r \in Pairs(items) : r[2] - r[1] <= n => f[r] = Branch(items, p, f, r)
<1>0. \A r \in Pairs(items) : r[1] \in 0..L /\ r[2] \in 0..L
  BY DEF Pairs
<1>1. Upto(0)
  <2> DEFINE f == [r \in Pairs(items) |-> r[1]]
  <2>1. f \in F
    BY <1>0
  <2>2. ASSUME NEW r \in Pairs(items), r[2] - r[1] <= 0 PROVE f[r] = Branch(items, p, f, r)
    <3>1. r[1] >= r[2] /\ f[r] = r[1]
      BY <1>0, <2>2
    <3> QED
      BY Zenon, <3>1 DEF Branch
  <2> QED
    BY Zenon, <2>1, <2>2
<1>2. ASSUME NEW n \in Nat, Upto(n) PROVE Upto(n + 1)
  <2>1. PICK f \in F : \A r \in Pairs(items) : r[2] - r[1] <= n => f[r] = Branch(items, p, f, r)
    BY Zenon, <1>2
  <2> DEFINE g == [r \in Pairs(items) |-> Branch(items, p, f, r)]
  <2>2. ASSUME NEW r \in Pairs(items), r[1] < r[2]
        PROVE  LET mid == (r[1] + r[2]) \div 2
               IN  /\ <<r[1], mid>> \in Pairs(items) /\ <<mid + 1, r[2]>> \in Pairs(items)
                   /\ mid - r[1] < r[2] - r[1] /\ r[2] - (mid + 1) < r[2] - r[1]
                   /\ <<r[1], mid>>[1] = r[1] /\ <<r[1], mid>>[2] = mid
                   /\ <<mid + 1, r[2]>>[1] = mid + 1 /\ <<mid + 1, r[2]>>[2] = r[2]
                   /\ mid \in Int
    BY <1>0, <2>2, Middle DEF Pairs
  <2>3. g \in F
    <3> SUFFICES ASSUME NEW r \in Pairs(items) PROVE Branch(items, p, f, r) \in 0..L
      BY Zenon
    <3>1. CASE r[1] >= r[2]
      BY Zenon, <1>0, <3>1 DEF Branch
    <3>2. CASE r[1] < r[2]
      BY Zenon, <1>0, <2>2, <3>2 DEF Branch
    <3> QED
      BY <1>0, <3>1, <3>2
  <2>4. ASSUME NEW r \in Pairs(items), r[2] - r[1] <= n + 1 PROVE g[r] = Branch(items, p, g, r)
    <3>1. CASE r[1] >= r[2]
      BY Zenon, <3>1 DEF Branch
    <3>2. CASE r[1] < r[2]
      <4> DEFINE mid == (r[1] + r[2]) \div 2
                 a == <<r[1], mid>>
                 b == <<mid + 1, r[2]>>
      <4>1. a \in Pairs(items) /\ b \in Pairs(items) /\ a[2] - a[1] <= n /\ b[2] - b[1] <= n
        <5>1. /\ a \in Pairs(items) /\ b \in Pairs(items) /\ mid \in Int
              /\ mid - r[1] < r[2] - r[1] /\ r[2] - (mid + 1) < r[2] - r[1]
              /\ a[1] = r[1] /\ a[2] = mid /\ b[1] = mid + 1 /\ b[2] = r[2]
          BY Zenon, <2>2, <3>2
        <5>2. r[1] \in Int /\ r[2] \in Int
          BY <1>0
        <5> HIDE DEF a, b, mid
        <5> QED
          BY <2>4, <5>1, <5>2
      <4>2. f[a] = g[a] /\ f[b] = g[b]
        BY Zenon, <2>1, <4>1
      <4>3. g[r] = Branch(items, p, f, r)
        BY Zenon
      <4> HIDE DEF g
      <4> QED
        BY Zenon, <4>2, <4>3 DEF Branch
    <3> QED
      BY <1>0, <3>1, <3>2
  <2> QED
    BY Zenon, <2>3, <2>4
<1>3. Upto(L)
  <2> DEFINE T == {n \in 0..L : ~Upto(n)}
  <2> HIDE DEF Upto
  <2>1. SUFFICES ASSUME T # {} PROVE FALSE
    OBVIOUS
  <2>2. PICK n \in T : n \in 0..L /\ \A m \in 0..L : m < n => m \notin T
    BY Zenon, <2>1, Least
  <2>3. n # 0
    BY Zenon, <1>1, <2>2
  <2>4. n - 1 \in 0..L /\ n - 1 < n /\ n - 1 \in Nat /\ (n - 1) + 1 = n
    BY <2>2, <2>3
  <2>5. Upto(n - 1)
    BY Zenon, <2>2, <2>4
  <2>6. Upto((n - 1) + 1)
    BY Zenon, <1>2, <2>4, <2>5
  <2>7. Upto(n)
    BY Zenon, <2>4, <2>6
  <2> QED
    BY Zenon, <2>2, <2>7
<1>4. \A r \in Pairs(items) : r[2] - r[1] <= L
  BY <1>0
<1>5. PICK f \in F : \A r \in Pairs(items) : f[r] = Branch(items, p, f, r)
  BY Zenon, <1>3, <1>4
<1>6. IsSearch(f, items, p)
  <2> DEFINE g == [r \in Pairs(items) |-> Branch(items, p, f, r)]
  <2>1. f = g
    BY Zenon, <1>5
  <2> QED
    BY Zenon, <2>1 DEF IsSearch
<1> QED
  BY Zenon, <1>6 DEF Search

\* The position is where the order of the items changes, as seen from p.
LEMMA PositionResult ==
  ASSUME NEW items, Len(items) \in Nat, NEW p
  PROVE  LET i == Position(items, p)
         IN  /\ i \in 0..Len(items)
             /\ i > 0 => ~IpLessThan(p, items[i])
             /\ i < Len(items) => IpLessThan(p, items[i + 1])
<1> DEFINE L == Len(items)
           f == Search(items, p)
           Good(r) == /\ f[r] \in r[1]..r[2]
                      /\ f[r] > r[1] => ~IpLessThan(p, items[f[r]])
                      /\ f[r] < r[2] => IpLessThan(p, items[f[r] + 1])
           T == {n \in 0..L : \E r \in Pairs(items) : r[2] - r[1] = n /\ ~Good(r)}
<1>0. /\ \A r \in Pairs(items) : r[1] \in 0..L /\ r[2] \in 0..L
      /\ \A r \in Pairs(items) : f[r] = Branch(items, p, f, r)
  <2>1. IsSearch(f, items, p)
    BY Zenon, SearchDef
  <2> HIDE DEF f
  <2>2. \A r \in Pairs(items) : f[r] = Branch(items, p, f, r)
    BY Zenon, <2>1 DEF IsSearch
  <2> QED
    BY <2>2 DEF Pairs
<1> HIDE DEF f
<1>1. T = {}
  <2>1. SUFFICES ASSUME T # {} PROVE FALSE
    OBVIOUS
  <2>2. PICK n \in T : n \in 0..L /\ \A m \in 0..L : m < n => m \notin T
    BY Zenon, <2>1, Least
  <2>3. PICK r \in Pairs(items) : r[2] - r[1] = n /\ ~Good(r)
    BY Zenon, <2>2
  <2> DEFINE mid == (r[1] + r[2]) \div 2
             a == <<r[1], mid>>
             b == <<mid + 1, r[2]>>
  <2>4. CASE n = 0
    <3>1. r[1] >= r[2] /\ r[1] = r[2] /\ r[1] \in 0..L
      BY <1>0, <2>2, <2>3, <2>4
    <3>2. f[r] = r[1]
      BY Zenon, <1>0, <3>1 DEF Branch
    <3> QED
      BY <2>3, <3>1, <3>2
  <2>5. CASE n # 0
    <3>1. r[1] < r[2] /\ ~(r[1] >= r[2]) /\ r[1] \in 0..L /\ r[2] \in 0..L
      BY <1>0, <2>2, <2>3, <2>5
    <3>2. /\ a \in Pairs(items) /\ b \in Pairs(items) /\ mid \in r[1]..r[2] - 1
          /\ a[1] = r[1] /\ a[2] = mid /\ b[1] = mid + 1 /\ b[2] = r[2]
      BY <3>1, Middle DEF Pairs
    <3>3. /\ a[2] - a[1] \in 0..L /\ a[2] - a[1] < n
          /\ b[2] - b[1] \in 0..L /\ b[2] - b[1] < n
      <4>1. r[2] - r[1] = n
        BY Zenon, <2>3
      <4> HIDE DEF a, b, mid, T, Good
      <4> QED
        BY <3>1, <3>2, <4>1
    <3>4. Good(a) /\ Good(b)
      <4>1. a[2] - a[1] \notin T /\ b[2] - b[1] \notin T
        BY Zenon, <2>2, <3>3
      <4> HIDE DEF Good, a, b
      <4> QED
        BY Zenon, <3>2, <3>3, <4>1
    <3>5. CASE IpLessThan(p, items[mid + 1])
      <4>1. f[r] = f[a]
        BY Zenon, <1>0, <3>1, <3>5 DEF Branch
      <4> HIDE DEF mid, a, b
      <4>2. /\ f[r] \in r[1]..mid
            /\ f[r] > r[1] => ~IpLessThan(p, items[f[r]])
            /\ f[r] < mid => IpLessThan(p, items[f[r] + 1])
        BY Zenon, <3>2, <3>4, <4>1
      <4>3. f[r] \in r[1]..r[2] /\ (f[r] < mid \/ f[r] = mid)
        <5> HIDE DEF Good
        <5> QED
          BY <3>1, <3>2, <4>2
      <4> QED
        BY Zenon, <2>3, <3>5, <4>2, <4>3
    <3>6. CASE ~IpLessThan(p, items[mid + 1])
      <4>1. f[r] = f[b]
        BY Zenon, <1>0, <3>1, <3>6 DEF Branch
      <4> HIDE DEF mid, a, b
      <4> QED
        BY <2>3, <3>1, <3>2, <3>4, <3>6, <4>1
    <3> QED
      BY Zenon, <3>5, <3>6
  <2> QED
    BY Zenon, <2>4, <2>5
<1> DEFINE w == <<0, L>>
<1>2. w \in Pairs(items) /\ w[2] - w[1] \in 0..L /\ w[1] = 0 /\ w[2] = L
  BY DEF Pairs
<1>3. Good(w)
  BY Zenon, <1>1, <1>2
<1>4. Position(items, p) = f[w]
  BY Zenon DEF Position, f, Search, IsSearch, Branch, Pairs
<1> HIDE DEF w
<1> QED
  BY <1>2, <1>3, <1>4

-----------------------------------------------------------------------------
\* The tree of networks

Indices(items) == 1..Len(items)
Sorted(items) == \A i, j \in Indices(items) : i < j => items[i].n < items[j].n

\* The tree of a family, and the networks that were added to it: it has no
\* others, and, as long as these are disjoint, all of them, in order.
TreeInv(items, ps, fam) ==
  /\ items \in Seq(Networks) /\ ps \subseteq Networks /\ \A p \in ps : p.fam = fam
  /\ \A i \in Indices(items) : items[i] \in ps
  /\ Disjoint(ps) => Sorted(items) /\ \A p \in ps : \E i \in Indices(items) : items[i] = p

\* What is found contains the address.
LEMMA FoundContains ==
  ASSUME NEW items \in Seq(Networks), NEW a \in Addrs,
         \A i \in Indices(items) : items[i].fam = a.fam, Found(items, Host(a))
  PROVE  \E i \in Indices(items) : ContainsAddr(items[i], a)
<1> DEFINE i == Position(items, Host(a))
           q == Host(a)
<1>1. Len(items) \in Nat
  OBVIOUS
<1>2. i \in 0..Len(items) /\ (i > 0 => ~IpLessThan(q, items[i]))
  BY Zenon, <1>1, PositionResult
<1>3. i > 0 /\ ~IpLessThan(items[i], q)
  BY Zenon DEF Found
<1> HIDE DEF i, q
<1>4. i \in Indices(items) /\ items[i] \in Networks /\ items[i].fam = a.fam /\ ~IpLessThan(q, items[i])
  BY <1>1, <1>2, <1>3 DEF Indices
<1>5. q \in Networks /\ q.fam = a.fam /\ q.n \in Nat /\ items[i].n \in Nat
  BY Zenon, <1>4, NetFields DEF q
<1>6. CASE Overlaps(items[i], q)
  BY Zenon, <1>4, <1>6, OverlapsHost DEF q
<1>7. CASE ~Overlaps(items[i], q)
  <2>1. ~Overlaps(q, items[i])
    BY Zenon, <1>4, <1>5, <1>7, OverlapsSym
  <2>2. ~(q.n < items[i].n) /\ ~(items[i].n < q.n)
    BY Zenon, <1>3, <1>4, <1>7, <2>1 DEF IpLessThan
  <2>3. q.n = items[i].n
    BY <1>5, <2>2
  <2> QED
    BY Zenon, <1>4, <1>5, <1>7, <2>3, OverlapsSym
<1> QED
  BY Zenon, <1>6, <1>7

\* The search finds the one item that overlaps, when the others are on the
\* right sides.
LEMMA FoundAt ==
  ASSUME NEW items \in Seq(Networks), NEW q \in Networks, NEW k \in Indices(items), Overlaps(items[k], q),
         \A j \in Indices(items) : j # k => ~Overlaps(items[j], q) /\ (q.n < items[j].n <=> k < j)
  PROVE  Position(items, q) = k /\ Found(items, q)
<1> DEFINE i == Position(items, q)
<1>0. Len(items) \in Nat /\ \A j \in Indices(items) : items[j] \in Networks
  BY DEF Indices
<1>1. /\ i \in 0..Len(items) /\ (i > 0 => ~IpLessThan(q, items[i]))
      /\ (i < Len(items) => IpLessThan(q, items[i + 1]))
  BY Zenon, <1>0, PositionResult
<1>2. \A j \in Indices(items) : Overlaps(q, items[j]) <=> Overlaps(items[j], q)
  BY Zenon, <1>0, OverlapsSym
<1>3. \A j \in Indices(items) : j # k => (IpLessThan(q, items[j]) <=> k < j)
  BY Zenon, <1>2 DEF IpLessThan
<1>4. ~IpLessThan(q, items[k]) /\ ~IpLessThan(items[k], q)
  BY Zenon, <1>2 DEF IpLessThan
<1>5. i = k
  <2> HIDE DEF i
  <2>1. k \in Nat /\ k >= 1 /\ k <= Len(items)
    BY <1>0 DEF Indices
  <2>2. ~(i < k)
    <3>1. SUFFICES ASSUME i < k PROVE FALSE
      OBVIOUS
    <3>2. i + 1 \in Indices(items) /\ i < Len(items) /\ ~(k < i + 1)
      BY <1>0, <1>1, <2>1, <3>1 DEF Indices
    <3> QED
      BY Zenon, <1>1, <1>3, <1>4, <3>2
  <2>3. ~(k < i)
    <3>1. SUFFICES ASSUME k < i PROVE FALSE
      OBVIOUS
    <3>2. i \in Indices(items) /\ i > 0 /\ i # k
      BY <1>0, <1>1, <2>1, <3>1 DEF Indices
    <3> QED
      BY Zenon, <1>1, <1>3, <3>1, <3>2
  <2> QED
    BY <1>0, <1>1, <2>1, <2>2, <2>3
<1>6. i > 0
  BY <1>0, <1>5 DEF Indices
<1> QED
  BY Zenon, <1>4, <1>5, <1>6 DEF Found

\* An address of an item is found when the items are disjoint and in order.
LEMMA ContainedFound ==
  ASSUME NEW items, NEW ps, NEW a \in Addrs, TreeInv(items, ps, a.fam), Disjoint(ps),
         NEW p \in ps, ContainsAddr(p, a)
  PROVE  Found(items, Host(a))
<1> DEFINE q == Host(a)
<1>1. /\ items \in Seq(Networks) /\ Len(items) \in Nat /\ q \in Networks /\ Sorted(items) /\ q.n = a.n
      /\ \A j \in Indices(items) : items[j] \in ps /\ items[j] \in Networks /\ items[j].fam = a.fam
                                   /\ items[j].n \in Nat
  <2>1. items \in Seq(Networks) /\ ps \subseteq Networks /\ Sorted(items)
        /\ \A j \in Indices(items) : items[j] \in ps
    BY Zenon DEF TreeInv
  <2>2. Len(items) \in Nat
    BY <2>1
  <2>3. \A j \in Indices(items) : items[j] \in Networks /\ items[j].fam = a.fam
    BY Zenon, <2>1 DEF TreeInv
  <2> QED
    BY Zenon, <2>1, <2>2, <2>3, NetFields
<1>2. PICK k \in Indices(items) : items[k] = p
  BY Zenon DEF TreeInv
<1>3. Overlaps(items[k], q)
  BY Zenon, <1>1, <1>2, OverlapsHost
<1>4. ASSUME NEW j \in Indices(items), j # k
      PROVE  ~Overlaps(items[j], q) /\ (q.n < items[j].n <=> k < j)
  <2>1. k < j \/ j < k
    BY <1>1, <1>4 DEF Indices
  <2>2. items[k].n < items[j].n <=> k < j
    <3>1. CASE k < j
      BY Zenon, <1>1, <3>1 DEF Sorted
    <3>2. CASE j < k
      <4>1. items[j].n < items[k].n
        BY Zenon, <1>1, <3>2 DEF Sorted
      <4>2. k \in Int /\ j \in Int
        BY <1>1 DEF Indices
      <4>3. items[k].n \in Int /\ items[j].n \in Int
        BY <1>1
      <4> QED
        BY <3>2, <4>1, <4>2, <4>3
    <3> QED
      BY Zenon, <2>1, <3>1, <3>2
  <2>3. items[k] # items[j]
    <3>1. items[k].n < items[j].n \/ items[j].n < items[k].n
      BY Zenon, <1>1, <2>1 DEF Sorted
    <3>2. items[k].n \in Int
      BY <1>1
    <3> QED
      BY <3>1, <3>2
  <2>4. ~Overlaps(items[k], items[j])
    BY Zenon, <1>1, <2>3 DEF Disjoint
  <2>5. ~Overlaps(items[j], q) /\ (a.n < items[j].n <=> items[k].n < items[j].n)
    BY Zenon, <1>1, <1>2, <2>4, Aside
  <2> QED
    BY Zenon, <1>1, <2>2, <2>5
<1> QED
  BY Zenon, <1>1, <1>3, <1>4, FoundAt

\* Items in order are ordered as their positions, and no two are the same.
LEMMA SortedItems ==
  ASSUME NEW items, \A j \in Indices(items) : items[j].n \in Nat, Len(items) \in Nat, Sorted(items),
         NEW j \in Indices(items), NEW k \in Indices(items), j # k
  PROVE  items[k] # items[j] /\ (items[k].n < items[j].n <=> k < j)
<1>1. j \in Int /\ k \in Int /\ items[j].n \in Int /\ items[k].n \in Int
  BY DEF Indices
<1>2. /\ k < j => items[k].n < items[j].n
      /\ j < k => items[j].n < items[k].n
  BY Zenon DEF Sorted
<1> QED
  BY <1>1, <1>2

\* An item at a position of a longer sequence.
IsInsertion(new, items, p, i) ==
  /\ new \in Seq(Networks) /\ Len(new) = Len(items) + 1
  /\ \A j \in 1..i : new[j] = items[j]
  /\ new[i + 1] = p
  /\ \A j \in i + 2..Len(items) + 1 : new[j] = items[j - 1]
LEMMA Inserted ==
  ASSUME NEW items \in Seq(Networks), NEW p \in Networks, NEW i \in 0..Len(items)
  PROVE  IsInsertion(SubSeq(items, 1, i) \o <<p>> \o SubSeq(items, i + 1, Len(items)), items, p, i)
<1> DEFINE S == Networks
           L == Len(items)
           a == SubSeq(items, 1, i)
           c == SubSeq(items, i + 1, L)
           b == a \o <<p>>
<1>1. L \in Nat /\ \A j \in 1..L : items[j] \in S
  OBVIOUS
<1>2. a \in Seq(S) /\ Len(a) = i /\ \A j \in 1..i : a[j] = items[j]
  BY <1>1, SubSeqProperties
<1>3. c \in Seq(S) /\ Len(c) = L - i /\ \A j \in 1..L - i : c[j] = items[i + j]
  BY <1>1, SubSeqProperties
<1>4. <<p>> \in Seq(S) /\ Len(<<p>>) = 1 /\ <<p>>[1] = p
  OBVIOUS
<1> HIDE DEF a, c
<1>5. /\ b \in Seq(S) /\ Len(b) = i + 1 /\ b[i + 1] = p
      /\ \A j \in 1..i : b[j] = items[j]
  BY <1>1, <1>2, <1>4, ConcatProperties
<1> HIDE DEF b
<1>6. /\ b \o c \in Seq(S) /\ Len(b \o c) = L + 1 /\ (b \o c)[i + 1] = p
      /\ \A j \in 1..i : (b \o c)[j] = items[j]
      /\ \A j \in i + 2..L + 1 : (b \o c)[j] = items[j - 1]
  <2> DEFINE d == b \o c
  <2>1. /\ d \in Seq(S) /\ Len(d) = Len(b) + Len(c)
        /\ \A j \in 1..Len(b) + Len(c) : d[j] = IF j <= Len(b) THEN b[j] ELSE c[j - Len(b)]
    BY Zenon, <1>3, <1>5, ConcatProperties
  <2> HIDE DEF d
  <2>2. Len(d) = L + 1 /\ \A j \in 1..L + 1 : d[j] = IF j <= i + 1 THEN b[j] ELSE c[j - (i + 1)]
    BY <1>1, <1>3, <1>5, <2>1
  <2>3. \A j \in 1..i + 1 : d[j] = b[j]
    BY <1>1, <2>2
  <2>4. ASSUME NEW j \in i + 2..L + 1 PROVE d[j] = items[j - 1]
    <3>1. j - (i + 1) \in 1..L - i /\ i + (j - (i + 1)) = j - 1
      BY <1>1
    <3>2. d[j] = c[j - (i + 1)]
      BY <1>1, <2>2
    <3> QED
      BY Zenon, <1>3, <3>1, <3>2
  <2>5. i + 1 \in 1..i + 1 /\ \A j \in 1..i : j \in 1..i + 1
    BY <1>1
  <2> QED
    BY Zenon, <1>5, <2>1, <2>2, <2>3, <2>4, <2>5 DEF d
<1> QED
  BY Zenon, <1>6 DEF a, b, c, IsInsertion

\* A network that overlaps no item is not found, and its place is in order.
LEMMA NotFound ==
  ASSUME NEW items \in Seq(Networks), NEW q \in Networks,
         \A j \in Indices(items) : ~Overlaps(items[j], q) /\ items[j].fam = q.fam
  PROVE  LET i == Position(items, q)
         IN  /\ ~Found(items, q) /\ i \in 0..Len(items)
             /\ i > 0 => items[i].n < q.n
             /\ i < Len(items) => q.n < items[i + 1].n
<1> DEFINE i == Position(items, q)
<1>0. Len(items) \in Nat /\ \A j \in Indices(items) : items[j] \in Networks
  BY DEF Indices
<1>1. /\ i \in 0..Len(items) /\ (i > 0 => ~IpLessThan(q, items[i]))
      /\ (i < Len(items) => IpLessThan(q, items[i + 1]))
  BY Zenon, <1>0, PositionResult
<1>2. Found(items, q) <=> i > 0 /\ ~IpLessThan(items[i], q)
  BY Zenon DEF Found
<1> HIDE DEF i
<1>3. ASSUME i > 0 PROVE items[i].n < q.n /\ IpLessThan(items[i], q)
  <2>1. i \in Indices(items)
    BY <1>0, <1>1, <1>3 DEF Indices
  <2>2. ~Overlaps(items[i], q) /\ ~Overlaps(q, items[i]) /\ items[i].n # q.n
    BY Zenon, <1>0, <2>1, OverlapsSym
  <2>3. ~(q.n < items[i].n)
    BY Zenon, <1>1, <1>3, <2>2 DEF IpLessThan
  <2>4. items[i].n \in Nat /\ q.n \in Nat
    BY Zenon, <1>0, <2>1, NetFields
  <2>5. items[i].n < q.n
    BY <2>2, <2>3, <2>4
  <2> QED
    BY Zenon, <2>2, <2>5 DEF IpLessThan
<1>4. i < Len(items) => q.n < items[i + 1].n
  BY Zenon, <1>1 DEF IpLessThan
<1> QED
  BY Zenon, <1>1, <1>2, <1>3, <1>4 DEF i

\* What a family of networks knows of its items.
LEMMA TreeItems ==
  ASSUME NEW items, NEW ps, NEW fam, TreeInv(items, ps, fam)
  PROVE  /\ items \in Seq(Networks) /\ Len(items) \in Nat
         /\ \A j \in Indices(items) : /\ items[j] \in ps /\ items[j] \in Networks
                                      /\ items[j].fam = fam /\ items[j].n \in Nat
<1>1. items \in Seq(Networks) /\ ps \subseteq Networks /\ \A j \in Indices(items) : items[j] \in ps
  BY Zenon DEF TreeInv
<1>2. Len(items) \in Nat
  BY <1>1
<1> QED
  BY Zenon, <1>1, <1>2, NetFields DEF TreeInv

\* A network that was added is replaced by itself.
LEMMA AddedAgain ==
  ASSUME NEW items, NEW ps, NEW p \in ps, TreeInv(items, ps, p.fam), Disjoint(ps)
  PROVE  AddNetwork(items, p) = items
<1>1. /\ items \in Seq(Networks) /\ Len(items) \in Nat /\ Sorted(items) /\ p \in Networks
      /\ \A j \in Indices(items) : items[j] \in ps /\ items[j] \in Networks /\ items[j].n \in Nat
  <2>1. /\ items \in Seq(Networks) /\ Len(items) \in Nat
        /\ \A j \in Indices(items) : items[j] \in ps /\ items[j] \in Networks /\ items[j].n \in Nat
    BY Zenon, TreeItems
  <2>2. Sorted(items) /\ p \in Networks
    BY Zenon DEF TreeInv
  <2> QED
    BY Zenon, <2>1, <2>2
<1>2. PICK k \in Indices(items) : items[k] = p
  BY Zenon DEF TreeInv
<1>3. Overlaps(items[k], p)
  BY Zenon, <1>1, <1>2, OverlapsSym
<1>4. ASSUME NEW j \in Indices(items), j # k PROVE ~Overlaps(items[j], p) /\ (p.n < items[j].n <=> k < j)
  <2>1. items[k] # items[j] /\ (items[k].n < items[j].n <=> k < j)
    BY Zenon, <1>1, <1>4, SortedItems
  <2> QED
    BY Zenon, <1>1, <1>2, <2>1 DEF Disjoint
<1>5. Position(items, p) = k /\ Found(items, p)
  BY Zenon, <1>1, <1>3, <1>4, FoundAt
<1>6. AddNetwork(items, p) = [items EXCEPT ![k] = p]
  BY Zenon, <1>5 DEF AddNetwork
<1>7. [items EXCEPT ![k] = p] = items
  BY <1>1, <1>2 DEF Indices
<1> QED
  BY Zenon, <1>6, <1>7

\* A new network that overlaps none takes its place.
LEMMA AddedNew ==
  ASSUME NEW items, NEW ps, NEW p \in Networks, TreeInv(items, ps, p.fam), Sorted(items),
         \A j \in Indices(items) : ~Overlaps(items[j], p)
  PROVE  LET new == AddNetwork(items, p)
         IN  /\ Sorted(new)
             /\ \E k \in Indices(new) : new[k] = p
             /\ \A j \in Indices(items) : \E k \in Indices(new) : new[k] = items[j]
<1> DEFINE i == Position(items, p)
           L == Len(items)
           new == AddNetwork(items, p)
<1>0. /\ items \in Seq(Networks) /\ L \in Nat
      /\ \A j \in Indices(items) : items[j] \in Networks /\ items[j].fam = p.fam /\ items[j].n \in Nat
  BY TreeItems
<1>1. /\ ~Found(items, p) /\ i \in 0..L
      /\ i > 0 => items[i].n < p.n
      /\ i < L => p.n < items[i + 1].n
  <2>1. \A j \in Indices(items) : ~Overlaps(items[j], p) /\ items[j].fam = p.fam
    BY Zenon, <1>0
  <2> QED
    BY Zenon, <1>0, <2>1, NotFound
<1>2. /\ Len(new) = L + 1
      /\ \A j \in 1..i : new[j] = items[j]
      /\ new[i + 1] = p
      /\ \A j \in i + 2..L + 1 : new[j] = items[j - 1]
  <2>1. new = SubSeq(items, 1, i) \o <<p>> \o SubSeq(items, i + 1, Len(items))
    BY Zenon, <1>1 DEF AddNetwork
  <2> HIDE DEF i, new
  <2>2. items \in Seq(Networks) /\ i \in 0..Len(items)
    BY Zenon, <1>0, <1>1
  <2>3. IsInsertion(SubSeq(items, 1, i) \o <<p>> \o SubSeq(items, i + 1, Len(items)), items, p, i)
    BY Zenon, <2>2, Inserted
  <2> QED
    BY Zenon, <2>1, <2>3 DEF IsInsertion
<1> HIDE DEF i, new
<1>3. p.n \in Nat
  BY Zenon, NetFields
<1>4. \A j, k \in 1..L : j < k => items[j].n < items[k].n
  BY Zenon DEF Sorted, Indices
<1>5. \A j \in 1..L : items[j].n \in Nat
  BY Zenon, <1>0 DEF Indices
<1>6. ASSUME NEW j \in 1..i PROVE items[j].n < p.n
  <2>1. j = i \/ j < i
    BY <1>1
  <2>2. i > 0 /\ i \in 1..L /\ j \in 1..L
    BY <1>0, <1>1
  <2>3. items[i].n < p.n /\ (j < i => items[j].n < items[i].n)
    BY Zenon, <1>1, <1>4, <2>2
  <2>4. items[i].n \in Nat /\ items[j].n \in Nat
    BY Zenon, <1>5, <2>2
  <2> QED
    BY <1>3, <2>1, <2>3, <2>4
<1>7. ASSUME NEW j \in i + 1..L PROVE p.n < items[j].n
  <2>1. j = i + 1 \/ i + 1 < j
    BY <1>0, <1>1
  <2>2. i < L /\ i + 1 \in 1..L /\ j \in 1..L
    BY <1>0, <1>1
  <2>3. p.n < items[i + 1].n /\ (i + 1 < j => items[i + 1].n < items[j].n)
    BY Zenon, <1>1, <1>4, <2>2
  <2>4. items[i + 1].n \in Nat /\ items[j].n \in Nat
    BY Zenon, <1>5, <2>2
  <2> QED
    BY <1>3, <2>1, <2>3, <2>4
<1>8. Sorted(new)
  <2> SUFFICES ASSUME NEW j \in 1..L + 1, NEW k \in 1..L + 1, j < k PROVE new[j].n < new[k].n
    BY Zenon, <1>2 DEF Sorted, Indices
  <2>1. CASE k <= i
    <3>1. j \in 1..i /\ k \in 1..i /\ j \in 1..L /\ k \in 1..L
      BY <1>0, <1>1, <2>1
    <3> QED
      BY Zenon, <1>2, <1>4, <3>1
  <2>2. CASE k = i + 1
    <3>1. j \in 1..i
      BY <1>0, <1>1, <2>2
    <3> QED
      BY Zenon, <1>2, <1>6, <2>2, <3>1
  <2>3. CASE k > i + 1
    <3>1. k \in i + 2..L + 1 /\ k - 1 \in i + 1..L /\ k - 1 \in 1..L
      BY <1>0, <1>1, <2>3
    <3>2. new[k] = items[k - 1] /\ p.n < items[k - 1].n
      BY Zenon, <1>2, <1>7, <3>1
    <3>3. CASE j = i + 1
      BY Zenon, <1>2, <3>2, <3>3
    <3>4. CASE j <= i
      <4>1. j \in 1..i /\ j \in 1..L /\ j < k - 1
        BY <1>0, <1>1, <2>3, <3>4
      <4> QED
        BY Zenon, <1>2, <1>4, <3>1, <3>2, <4>1
    <3>5. CASE j > i + 1
      <4>1. j \in i + 2..L + 1 /\ j - 1 \in 1..L /\ j - 1 < k - 1
        BY <1>0, <1>1, <3>5
      <4> QED
        BY Zenon, <1>2, <1>4, <3>1, <3>2, <4>1
    <3> QED
      BY <1>0, <1>1, <3>3, <3>4, <3>5
  <2> QED
    BY <1>0, <1>1, <2>1, <2>2, <2>3
<1>9. i + 1 \in Indices(new)
  BY <1>0, <1>1, <1>2 DEF Indices
<1>10. ASSUME NEW j \in Indices(items) PROVE \E k \in Indices(new) : new[k] = items[j]
  <2>0. j \in 1..L /\ Indices(new) = 1..L + 1
    BY Zenon, <1>2 DEF Indices
  <2>1. CASE j <= i
    <3>1. j \in 1..i /\ j \in 1..L + 1
      BY <1>0, <1>1, <2>0, <2>1
    <3> QED
      BY Zenon, <1>2, <2>0, <3>1
  <2>2. CASE j > i
    <3>1. j + 1 \in i + 2..L + 1 /\ j + 1 \in 1..L + 1 /\ (j + 1) - 1 = j
      BY <1>0, <1>1, <2>0, <2>2
    <3>2. new[j + 1] = items[j]
      BY Zenon, <1>2, <3>1
    <3> QED
      BY Zenon, <2>0, <3>1, <3>2
  <2> QED
    BY <1>0, <1>1, <2>0, <2>1, <2>2
<1> QED
  BY Zenon, <1>2, <1>8, <1>9, <1>10 DEF new

\* What is in a tree to which a network is added.
LEMMA AddedItems ==
  ASSUME NEW items, NEW ps, NEW p \in Networks, TreeInv(items, ps, p.fam)
  PROVE  LET new == AddNetwork(items, p)
         IN  new \in Seq(Networks) /\ \A k \in Indices(new) : new[k] \in ps \cup {p}
<1> DEFINE i == Position(items, p)
           L == Len(items)
           new == AddNetwork(items, p)
<1>0. items \in Seq(Networks) /\ L \in Nat /\ \A j \in 1..L : items[j] \in ps
  BY Zenon, TreeItems DEF Indices
<1>1. i \in 0..L
  BY Zenon, <1>0, PositionResult
<1>2. CASE Found(items, p)
  <2>1. new = [items EXCEPT ![i] = p] /\ i > 0
    BY Zenon, <1>2 DEF AddNetwork, Found
  <2> HIDE DEF i, new
  <2>2. i \in 1..L
    BY <1>0, <1>1, <2>1
  <2>3. /\ new \in Seq(Networks) /\ Len(new) = L
        /\ \A j \in 1..L : new[j] = IF j = i THEN p ELSE items[j]
    <3> DEFINE exc == [items EXCEPT ![i] = p]
    <3>1. /\ exc \in Seq(Networks) /\ Len(exc) = L
          /\ \A j \in 1..L : exc[j] = IF j = i THEN p ELSE items[j]
      BY <1>0, <2>2, ExceptSeq
    <3> QED
      BY Zenon, <2>1, <3>1
  <2> QED
    BY Zenon, <1>0, <2>3 DEF new, Indices
<1>3. CASE ~Found(items, p)
  <2>1. new = SubSeq(items, 1, i) \o <<p>> \o SubSeq(items, i + 1, Len(items))
    BY Zenon, <1>3 DEF AddNetwork
  <2> HIDE DEF i, new
  <2>2. /\ new \in Seq(Networks) /\ Len(new) = L + 1
        /\ \A j \in 1..i : new[j] = items[j]
        /\ new[i + 1] = p
        /\ \A j \in i + 2..L + 1 : new[j] = items[j - 1]
    <3>1. items \in Seq(Networks) /\ i \in 0..Len(items)
      BY Zenon, <1>0, <1>1
    <3>2. IsInsertion(SubSeq(items, 1, i) \o <<p>> \o SubSeq(items, i + 1, Len(items)), items, p, i)
      BY Zenon, <3>1, Inserted
    <3> QED
      BY Zenon, <2>1, <3>2 DEF IsInsertion
  <2>3. ASSUME NEW k \in 1..L + 1 PROVE new[k] \in ps \cup {p}
    <3>1. \/ k \in 1..i /\ k \in 1..L
          \/ k = i + 1
          \/ k \in i + 2..L + 1 /\ k - 1 \in 1..L
      BY <1>0, <1>1
    <3> QED
      BY Zenon, <1>0, <2>2, <3>1
  <2> QED
    BY Zenon, <2>2, <2>3 DEF new, Indices
<1> QED
  BY Zenon, <1>2, <1>3

\* Adding a network keeps the tree of a family.
LEMMA TreeAdd ==
  ASSUME NEW items, NEW ps, NEW p \in Networks, TreeInv(items, ps, p.fam)
  PROVE  TreeInv(AddNetwork(items, p), ps \cup {p}, p.fam)
<1> DEFINE new == AddNetwork(items, p)
           qs == ps \cup {p}
<1>1. new \in Seq(Networks) /\ \A k \in Indices(new) : new[k] \in qs
  BY Zenon, AddedItems
<1>2. qs \subseteq Networks /\ \A q \in qs : q.fam = p.fam
  BY Zenon DEF TreeInv
<1>3. ASSUME Disjoint(qs) PROVE Sorted(new) /\ \A q \in qs : \E k \in Indices(new) : new[k] = q
  <2>1. Disjoint(ps)
    BY Zenon, <1>3 DEF Disjoint
  <2>2. Sorted(items) /\ \A q \in ps : \E k \in Indices(items) : items[k] = q
    BY Zenon, <2>1 DEF TreeInv
  <2>3. CASE p \in ps
    <3>1. new = items
      BY Zenon, <2>1, <2>3, AddedAgain
    <3> QED
      BY Zenon, <2>2, <2>3, <3>1
  <2>4. CASE p \notin ps
    <3>1. \A j \in Indices(items) : ~Overlaps(items[j], p)
      BY Zenon, <1>3, <2>4 DEF TreeInv, Disjoint
    <3>2. /\ Sorted(new)
          /\ \E k \in Indices(new) : new[k] = p
          /\ \A j \in Indices(items) : \E k \in Indices(new) : new[k] = items[j]
      BY Zenon, <2>2, <3>1, AddedNew
    <3> HIDE DEF new
    <3> QED
      BY Zenon, <2>2, <3>2
  <2> QED
    BY Zenon, <2>3, <2>4
<1> HIDE DEF new, qs
<1>4. TreeInv(new, qs, p.fam)
  BY Zenon, <1>1, <1>2, <1>3 DEF TreeInv
<1> QED
  BY Zenon, <1>4 DEF new, qs

-----------------------------------------------------------------------------
\* What a Get adds

Joins(f, ss, i) == f[i] = IF i = 0 THEN <<>> ELSE f[i - 1] \o ss[i]
IsChain(f, ss) == f = [i \in 0..Len(ss) |-> IF i = 0 THEN <<>> ELSE f[i - 1] \o ss[i]]

\* Sequences of networks, one after the other.
LEMMA ChainedNetworks ==
  ASSUME NEW ss \in Seq(Seq(Networks))
  PROVE  Chained(ss) \in Seq(Networks)
<1> DEFINE L == Len(ss)
           C == Seq(Networks)
           F == [0..L -> C]
           Upto(n) == \E f \in F : \A i \in 0..L : i <= n => Joins(f, ss, i)
<1>0. L \in Nat /\ \A i \in 1..L : ss[i] \in C
  OBVIOUS
<1>1. <<>> \in C /\ \A s, t \in C : s \o t \in C
  BY Zenon, EmptySeq, ConcatProperties
<1> HIDE DEF C, L
<1>2. \A i \in 0..L : i # 0 => i \in 1..L /\ i - 1 \in 0..L /\ i - 1 < i
  BY <1>0
<1>3. Upto(0)
  <2> DEFINE f == [i \in 0..L |-> <<>>]
  <2>1. f \in F /\ \A i \in 0..L : f[i] = <<>>
    BY Zenon, <1>1
  <2>2. \A i \in 0..L : i <= 0 => i = 0
    BY <1>0
  <2> HIDE DEF f
  <2>3. \A i \in 0..L : i <= 0 => Joins(f, ss, i)
    BY Zenon, <2>1, <2>2 DEF Joins
  <2> QED
    BY Zenon, <2>1, <2>3
<1>4. ASSUME NEW n \in Nat, Upto(n) PROVE Upto(n + 1)
  <2>1. PICK f \in F : \A i \in 0..L : i <= n => Joins(f, ss, i)
    BY Zenon, <1>4
  <2> DEFINE g == [i \in 0..L |-> IF i = 0 THEN <<>> ELSE f[i - 1] \o ss[i]]
  <2>2. \A i \in 0..L : f[i] \in C
    BY Zenon
  <2>3. \A i \in 0..L : (IF i = 0 THEN <<>> ELSE f[i - 1] \o ss[i]) \in C
    BY Zenon, <1>0, <1>1, <1>2, <2>2
  <2>4. g \in F
    BY Zenon, <2>3
  <2>5. ASSUME NEW i \in 0..L, i <= n + 1 PROVE Joins(g, ss, i)
    <3>1. g[i] = IF i = 0 THEN <<>> ELSE f[i - 1] \o ss[i]
      BY Zenon
    <3>2. ASSUME i # 0 PROVE g[i - 1] = f[i - 1]
      <4>1. i - 1 \in 0..L /\ i - 1 <= n
        BY <1>0, <2>5, <3>2
      <4>2. Joins(f, ss, i - 1)
        BY Zenon, <2>1, <4>1
      <4> QED
        BY Zenon, <4>1, <4>2 DEF Joins
    <3> HIDE DEF g
    <3> QED
      BY Zenon, <3>1, <3>2 DEF Joins
  <2> HIDE DEF g
  <2> QED
    BY Zenon, <2>4, <2>5
<1>5. Upto(L)
  <2> DEFINE T == {n \in 0..L : ~Upto(n)}
  <2> HIDE DEF Upto
  <2>1. SUFFICES ASSUME T # {} PROVE FALSE
    BY <1>0
  <2>2. PICK n \in T : n \in 0..L /\ \A m \in 0..L : m < n => m \notin T
    BY Zenon, <1>0, <2>1, Least
  <2>3. n # 0
    BY Zenon, <1>3, <2>2
  <2>4. n - 1 \in 0..L /\ n - 1 < n /\ n - 1 \in Nat /\ (n - 1) + 1 = n
    BY <1>0, <2>2, <2>3
  <2>5. Upto(n - 1)
    BY Zenon, <2>2, <2>4
  <2>6. Upto((n - 1) + 1)
    BY Zenon, <1>4, <2>4, <2>5
  <2> QED
    BY Zenon, <2>2, <2>4, <2>6
<1>6. PICK f \in F : \A i \in 0..L : Joins(f, ss, i)
  <2>1. \A i \in 0..L : i <= L
    BY <1>0
  <2> QED
    BY Zenon, <1>5, <2>1
<1>7. IsChain(f, ss)
  <2>1. f = [i \in 0..L |-> f[i]]
    BY Zenon, <1>6
  <2> QED
    BY Zenon, <1>6, <2>1 DEF IsChain, Joins, L
<1> DEFINE h == CHOOSE g : IsChain(g, ss)
<1>8. Chained(ss) = h[L]
  BY Zenon DEF Chained, IsChain, L
<1>9. IsChain(h, ss)
  BY Zenon, <1>7
<1> HIDE DEF h
<1>10. \A i \in 0..L : Joins(h, ss, i)
  BY Zenon, <1>9 DEF IsChain, Joins, L
<1> DEFINE T == {i \in 0..L : h[i] \notin C}
<1>11. T = {}
  <2>1. SUFFICES ASSUME T # {} PROVE FALSE
    OBVIOUS
  <2>2. PICK i \in T : i \in 0..L /\ \A m \in 0..L : m < i => m \notin T
    BY Zenon, <1>0, <2>1, Least
  <2>3. h[i] \notin C /\ h[i] = IF i = 0 THEN <<>> ELSE h[i - 1] \o ss[i]
    BY Zenon, <1>10, <2>2 DEF Joins
  <2>4. i # 0
    BY Zenon, <1>1, <2>3
  <2>5. i \in 1..L /\ i - 1 \in 0..L /\ i - 1 < i
    BY Zenon, <1>2, <2>2, <2>4
  <2>6. h[i - 1] \in C /\ ss[i] \in C
    BY Zenon, <1>0, <2>2, <2>5
  <2> QED
    BY Zenon, <1>1, <2>3, <2>4, <2>6
<1>12. L \in 0..L
  BY <1>0
<1> QED
  BY Zenon, <1>8, <1>11, <1>12 DEF C

\* There are finitely many addresses.
LEMMA AddrsFinite == IsFiniteSet(Addrs)
<1> DEFINE N == 0..Size[0] - 1
           f == [a \in Addrs |-> <<a.fam, a.n>>]
<1>1. IsFiniteSet(Families)
  <2>1. IsFiniteSet({4} \cup {6})
    BY Zenon, FS_Singleton, FS_Union
  <2>2. Families \in SUBSET ({4} \cup {6})
    BY FilterAssumption
  <2> QED
    BY Zenon, <2>1, <2>2, FS_Subset
<1>2. IsFiniteSet(N)
  <2>1. Size[0] - 1 \in Int /\ 0 \in Int
    BY SizeDef, FilterAssumption
  <2> QED
    BY Zenon, <2>1, FS_Interval
<1> HIDE DEF N
<1>3. IsFiniteSet(Families \X N)
  BY Zenon, <1>1, <1>2, FS_Product
<1>4. f \in [Addrs -> Families \X N]
  BY DEF Addrs, N
<1>5. ASSUME NEW a \in Addrs, NEW b \in Addrs, f[a] = f[b] PROVE a = b
  <2>1. a.fam = b.fam /\ a.n = b.n
    BY <1>5
  <2> QED
    BY <2>1 DEF Addrs
<1> HIDE DEF f
<1>6. f \in Injection(Addrs, Families \X N)
  BY <1>4, <1>5 DEF Injection, IsInjective
<1> QED
  BY Zenon, <1>3, <1>6, FS_Injection

\* The addresses of a set, in whatever order, are a sequence.
LEMMA OrderedAddrs ==
  ASSUME NEW A \in SUBSET Addrs, NEW s \in Orderings(A)
  PROVE  s \in Seq(Addrs)
<1>1. Cardinality(A) \in Nat
  BY Zenon, AddrsFinite, FS_Subset, FS_CardinalityType
<1>2. s \in [1..Cardinality(A) -> A]
  BY Zenon DEF Orderings, Bijection, Injection
<1> QED
  BY <1>1, <1>2

\* Addresses are added as networks of their own.
LEMMA HostsAreNetworks ==
  ASSUME NEW s \in Seq(Addrs)
  PROVE  AsHosts(s) \in Seq(Networks)
<1>1. ASSUME NEW a \in Addrs PROVE Host(a) \in Networks
  BY FilterAssumption DEF Addrs, Networks, Host
<1>2. Len(s) \in Nat /\ DOMAIN s = 1..Len(s) /\ \A i \in 1..Len(s) : s[i] \in Addrs
  OBVIOUS
<1>3. \A i \in 1..Len(s) : Host(s[i]) \in Networks
  BY Zenon, <1>1, <1>2
<1>4. [i \in 1..Len(s) |-> Host(s[i])] \in Seq(Networks)
  BY <1>2, <1>3
<1> QED
  BY Zenon, <1>2, <1>4 DEF AsHosts

\* The providers add networks, whatever the setting and the order.
LEMMA AdditionsType ==
  ASSUME NEW s \in Settings, NEW orders \in Orders(s)
  PROVE  Additions(s, orders) \in Seq(Networks)
<1>1. s.nets \in Seq(NetTokens) /\ s.ips \in SUBSET Addrs /\ s.hosts \in Seq(Addrs)
  BY DEF Settings
<1> DEFINE L == Len(s.nets)
<1>2. L \in Nat /\ DOMAIN s.nets = 1..L /\ \A j \in 1..L : s.nets[j] \in NetTokens
  BY <1>1
<1> HIDE DEF L
<1>3. Ranges(s) \in Seq(Networks)
  <2> DEFINE e(j) == IF s.nets[j].all THEN <<>> ELSE <<Net(s.nets[j])>>
  <2>1. ASSUME NEW t \in NetTokens PROVE <<Net(t)>> \in Seq(Networks) /\ <<>> \in Seq(Networks)
    <3>1. Net(t) \in Networks
      BY DEF Net, NetTokens, Networks
    <3> QED
      BY <3>1
  <2>2. \A j \in 1..L : e(j) \in Seq(Networks)
    BY Zenon, <1>2, <2>1
  <2> HIDE DEF e
  <2>3. [j \in 1..L |-> e(j)] \in Seq(Seq(Networks))
    BY <1>2, <2>2
  <2>4. Chained([j \in 1..L |-> e(j)]) \in Seq(Networks)
    BY Zenon, <2>3, ChainedNetworks
  <2> QED
    BY Zenon, <1>2, <2>4 DEF Ranges, e
<1>4. AsHosts(s.hosts) \in Seq(Networks)
  BY Zenon, <1>1, HostsAreNetworks
<1>5. Chained([j \in DOMAIN orders |-> AsHosts(orders[j])]) \in Seq(Networks)
  <2>1. DOMAIN orders = 1..L /\ \A j \in 1..L : orders[j] \in Orderings(Left(s, j))
    BY Zenon, <1>2 DEF Orders
  <2>2. \A j \in 1..L : Left(s, j) \in SUBSET Addrs
    <3>1. Range(s.hosts) \subseteq Addrs
      BY <1>1 DEF Range
    <3>2. IPs(s) \subseteq Addrs
      BY <1>1, <3>1 DEF IPs
    <3> QED
      BY Zenon, <3>2 DEF Left
  <2>3. \A j \in 1..L : AsHosts(orders[j]) \in Seq(Networks)
    BY Zenon, <2>1, <2>2, OrderedAddrs, HostsAreNetworks
  <2>4. [j \in 1..L |-> AsHosts(orders[j])] \in Seq(Seq(Networks))
    BY <1>2, <2>3
  <2> QED
    BY Zenon, <2>1, <2>4, ChainedNetworks
<1> QED
  BY Zenon, <1>3, <1>4, <1>5, ConcatProperties DEF Additions

-----------------------------------------------------------------------------
\* The trees of the packet filter

Added(fam) == {p \in added : p.fam = fam}

\* The tree of every family holds what was added; only networks are added.
TreesInv ==
  /\ setting \in Settings /\ todo \in Seq(Networks) /\ added \subseteq Networks
  /\ DOMAIN filter.nets = Families
  /\ \A fam \in Families : TreeInv(filter.nets[fam], Added(fam), fam)

treeVars == <<setting, todo, added, filter.nets>>

LEMMA TreesFrame == TreesInv /\ UNCHANGED treeVars => TreesInv'
BY Zenon DEF TreesInv, treeVars, Added

LEMMA TreesInit == Init => TreesInv
<1> SUFFICES ASSUME Init PROVE TreesInv
  OBVIOUS
<1>1. setting \in Settings /\ filter = NewPcapFilters /\ todo = <<>> /\ added = {}
  BY Zenon, WorkerAssumption DEF Init, InitProviders
<1>2. filter.nets = [f \in Families |-> <<>>]
  BY <1>1 DEF NewPcapFilters
<1>3. <<>> \in Seq(Networks) /\ Indices(<<>>) = {}
  BY DEF Indices
<1>4. \A fam : TreeInv(<<>>, {}, fam)
  BY Zenon, <1>3 DEF TreeInv, Sorted
<1>5. \A fam : Added(fam) = {}
  BY Zenon, <1>1 DEF Added
<1>6. \A fam \in Families : TreeInv(filter.nets[fam], Added(fam), fam)
  BY Zenon, <1>2, <1>4, <1>5
<1> QED
  BY Zenon, <1>1, <1>2, <1>3, <1>6 DEF TreesInv

\* A Get has networks to add.
LEMMA TreesGet ==
  ASSUME SetsInv, TreesInv, StartGet
  PROVE  TreesInv'
<1>1. filter' = WithSets(filter, setting) /\ setting' = setting /\ added' = added
  BY Zenon DEF StartGet
<1>2. "nets" \in DOMAIN filter
  BY DEF SetsInv, NewPcapFilters
<1>3. filter'.nets = filter.nets
  BY <1>1, <1>2 DEF WithSets
<1>4. todo' \in Seq(Networks)
  BY Zenon, AdditionsType DEF StartGet, TreesInv
<1> QED
  BY Zenon, <1>1, <1>3, <1>4 DEF TreesInv, Added

\* A network is added to the tree of its family.
LEMMA TreesAdd ==
  ASSUME SetsInv, TreesInv, AddNext
  PROVE  TreesInv'
<1> DEFINE p == Head(todo)
<1>1. /\ filter' = [filter EXCEPT !.nets[p.fam] = AddNetwork(@, p)]
      /\ added' = added \cup {p} /\ todo' = Tail(todo) /\ setting' = setting
  BY Zenon DEF AddNext
<1>2. "nets" \in DOMAIN filter
  BY DEF SetsInv, NewPcapFilters
<1>3. p \in Networks /\ todo' \in Seq(Networks)
  <2>1. todo \in Seq(Networks) /\ todo # <<>>
    BY Zenon DEF TreesInv, AddNext
  <2> QED
    BY <1>1, <2>1
<1> HIDE DEF p
<1>4. p.fam \in Families
  BY Zenon, <1>3, NetFields
<1> DEFINE nets == filter.nets
           new == AddNetwork(nets[p.fam], p)
<1>5. filter'.nets = [nets EXCEPT ![p.fam] = new]
  BY <1>1, <1>2
<1> HIDE DEF new, nets
<1>6. DOMAIN nets = Families
  BY Zenon DEF TreesInv, nets
<1>7. DOMAIN filter'.nets = Families /\ filter'.nets[p.fam] = new
      /\ \A fam \in Families : fam # p.fam => filter'.nets[fam] = nets[fam]
  BY Zenon, <1>4, <1>5, <1>6
<1>8. ASSUME NEW fam \in Families PROVE TreeInv(filter'.nets[fam], Added(fam)', fam)
  <2>0. TreeInv(nets[fam], Added(fam), fam)
    BY Zenon DEF TreesInv, nets
  <2>1. CASE fam = p.fam
    <3>1. TreeInv(new, Added(fam) \cup {p}, fam)
      BY Zenon, <1>3, <2>0, <2>1, TreeAdd DEF new
    <3>2. Added(fam)' = Added(fam) \cup {p}
      BY Zenon, <1>1, <2>1 DEF Added
    <3> QED
      BY Zenon, <1>7, <2>1, <3>1, <3>2
  <2>2. CASE fam # p.fam
    <3>1. Added(fam)' = Added(fam)
      BY Zenon, <1>1, <2>2 DEF Added
    <3> QED
      BY Zenon, <1>7, <2>0, <2>2, <3>1
  <2> QED
    BY Zenon, <2>1, <2>2
<1>9. setting' \in Settings /\ added' \subseteq Networks
  BY Zenon, <1>1, <1>3 DEF TreesInv
<1> QED
  BY Zenon, <1>3, <1>7, <1>8, <1>9 DEF TreesInv

\* The other steps leave the trees alone.
LEMMA TreesNext == SetsInv /\ TreesInv /\ [Next]_vars => TreesInv'
<1> SUFFICES ASSUME SetsInv, TreesInv, [Next]_vars PROVE TreesInv'
  OBVIOUS
<1>1. CASE AskProviders
  BY Zenon, <1>1, TreesGet DEF AskProviders
<1>2. CASE ProviderAdds
  BY Zenon, <1>2, TreesAdd DEF ProviderAdds
<1>3. CASE \E c \in Sockets : ProcessFilters(c)
  <2>1. UNCHANGED <<setting, todo, added>> /\ \E v : filter' = [filter EXCEPT !.noSockets = v]
    BY <1>3 DEF ProcessFilters, SocketUpdate, DenySocket, AllowSocket
  <2>2. "nets" \in DOMAIN filter
    BY DEF SetsInv, NewPcapFilters
  <2>3. UNCHANGED treeVars
    BY <2>1, <2>2 DEF treeVars
  <2> QED
    BY Zenon, <2>3, TreesFrame
<1>4. CASE UNCHANGED providerVars
  BY Zenon, <1>4, TreesFrame DEF providerVars, treeVars
<1> QED
  BY Zenon, <1>1, <1>2, <1>3, <1>4 DEF Next, vars, Filter, StartLayers, MergeEnds, Finalize, RunPanics,
       Close, Cancel, Merge, Translate, Send, LayerDone

\* The packet filter answers for an address as the set of the networks that
\* addNetwork was given would, for any width, setting and order of additions
\* and any number of networks, although overlapping prefixes are equal in the
\* tree's order: an allowed address is in one of them, and, when they are
\* disjoint, every address of every one is allowed.
THEOREM TreeAnswersAsSet == Spec => []AllowedIsAdded
<1>1. ASSUME TreesInv, NEW a \in Addrs, AllowsIP(filter, a)
      PROVE  \E p \in added : ContainsAddr(p, a)
  <2> DEFINE items == filter.nets[a.fam]
  <2>1. TreeInv(items, Added(a.fam), a.fam)
    <3>1. a.fam \in Families
      BY DEF Addrs
    <3> QED
      BY Zenon, <1>1, <3>1 DEF TreesInv
  <2>2. Found(items, Host(a))
    BY Zenon, <1>1 DEF AllowsIP
  <2> HIDE DEF items
  <2>3. /\ items \in Seq(Networks)
        /\ \A i \in Indices(items) : items[i] \in Added(a.fam) /\ items[i].fam = a.fam
    BY Zenon, <2>1 DEF TreeInv, Added
  <2>4. PICK i \in Indices(items) : ContainsAddr(items[i], a)
    BY Zenon, <2>2, <2>3, FoundContains
  <2> QED
    BY Zenon, <2>3, <2>4 DEF Added
<1>2. ASSUME TreesInv, NEW a \in Addrs, Disjoint({p \in added : p.fam = a.fam}),
             NEW p \in added, ContainsAddr(p, a)
      PROVE  AllowsIP(filter, a)
  <2>1. TreeInv(filter.nets[a.fam], Added(a.fam), a.fam)
    <3>1. a.fam \in Families
      BY DEF Addrs
    <3> QED
      BY Zenon, <1>2, <3>1 DEF TreesInv
  <2>2. p \in Added(a.fam) /\ Disjoint(Added(a.fam))
    BY Zenon, <1>2 DEF Added, ContainsAddr
  <2> QED
    BY Zenon, <1>2, <2>1, <2>2, ContainedFound DEF AllowsIP
<1>3. TreesInv => AllowedIsAdded
  BY Zenon, <1>1, <1>2 DEF AllowedIsAdded
<1> QED
  BY <1>3, SetsInit, SetsNext, TreesInit, TreesNext, PTL DEF Spec
=============================================================================
