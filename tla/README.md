# A verification of pcap-sidecar

TLA+ models of the concurrent parts of pcap-sidecar, TLC runs that check them on
small instances, and TLAPS proofs about them for every instance.

## The system and its parts

pcap-sidecar captures the traffic of a container and exports it to a bucket.

| part | source | module |
|---|---|---|
| flow mutex: order and trace tracking of the packets of a TCP flow | `pcap-cli/internal/transformer/flow_mutex.go`, its caller in `json_translator.go` | `FlowMutex` |
| translation worker: filters a packet and translates its layers | `translator_worker.go` | `TranslatorWorker`; promise: `PacketTranslation` |
| transformer: translation pipeline of an engine | `transformer.go`, `pcap-cli/pkg/pcap/gopacket_engine.go` | `Transformer`; promise: `PacketLog` |
| packet filter of the workers | `packet_filter.go` | `PacketFilter` |
| filter providers: settings to packet filter and BPF | `tcpdumpw/pkg/filter/*.go`, `tcpdumpw/main.go` | `FilterProviders` |
| process filter: leaves the sidecar's own connections out | `tcpdumpw/pkg/filter/process_filter_provider.go` | `ProcessFilter` |
| tcpdumpw: schedules and supervises the engines and their writers | `tcpdumpw/main.go`, `pcap-cli/pkg/pcap/{gopacket_engine,tcpdump_engine,pcap_writer}.go` | `Tcpdumpw` |
| pcapfsn: exports and flushes captures | `pcap-fsnotify/main.go`, `pcap-fsnotify/internal/gcs/*.go` | `PcapFsn` |
| what the two processes share: directory, exit file, lock file | both | `CaptureDir` |
| both processes together, as `pcap.conf` starts them | `pcap.conf` | `Sidecar` |
| task construction, layer translators, command line, logging, generated code, scripts | | not modelled |

A worker asks the packet filter, then translates; the transformer calls the flow
mutex once per packet; tcpdumpw runs engines, each with a transformer; tcpdumpw and
pcapfsn meet only in the file system. `PROJECT.json` has every component, the source
lines of every definition, the hazards, and the mutants that show each checked
property can fail.

## How the modules correspond to the code

**FlowMutex** models one flow ID. A carrier (`flowLockCarrier`) is named by the
packet that created it. `active` and `wg` are `activeRequests` and the WaitGroup,
`mu` the mutex, `flowStore`, `streamsOf` and `entries` the nested maps of traced
flows, `live` and `timer` a traced flow's `isActive` and unblocker, `rel` the
untracking that a termination packet scheduled, step by step, since it runs
without the mutex. A packet goes through `Arrive`, `EnterWait`/`ResumeWait`
(terminations), `Lock`, one of `AnalyzePlain`, `AnalyzeOpaque`, `AnalyzeHTTP`,
then `TrackRequest`, `RaiseWait`, `FindTraced`, `SettleResponse`, and `Unlock`.
Messages are abstract: which streams carry a request or a response, under which
trace. Requests without a trace only set `isHTTP2`, as in the code. Timers may
fire at any time after they are armed, so that nothing depends on the deadlines.
`Cancel` and `Done` are the cancelled context and the translator's `done`. A
panic that a recover catches leaves the packet in "failed"; one that no recover
catches sets `down`, and nothing happens afterwards: `~down` guards every action.

**Transformer** models one engine with its pipeline: the capture loop and `Apply`,
the two strategies (worker pools, or ordered-concurrently when `Ordered`),
publication to the write queues, one consumer per writer, the writer pool, and
`WaitDone`. `wg` counts commitments, one per packet and writer. The ordering
library is external: results come out in the order of the inputs, and at most
`PoolSize` run at once. `config` says how the transformer was made and which packets
the worker rejects. `PacketLog` is what the writers may rely on: a log each, which
grows by captured packets only; Transformer implements it.

**TranslatorWorker** opens the worker's `Run` up: the verdict of the filters, the
second look at the context, one goroutine per layer, the channel they send to, the
goroutine that closes it, merge and finalize. A translator that panics gives an
error; a panic of `Run` itself gives nil. `PacketTranslation` is the same as one
step, which is how Transformer uses it; TranslatorWorker implements it.

**PacketFilter** has the filter as a record and its queries as operators: the order
`ipLessThan` of the tree of networks, its binary search, insertion and replacement,
the port, flag and protocol sets, the socket hash (a sum, so that the direction does
not matter), and `shouldTranslate`. **FilterProviders** adds to it what the settings
say, one addition per step, once for main and again for every engine that starts,
and has the clauses of the BPF expression as predicates on packets. **ProcessFilter**
has the ticker, the pids, the script, the views, and one goroutine per difference
(`FilterSocket`, then `TrackSocket`); processes connect, disconnect and restart.

**CaptureDir, PcapFsn, Tcpdumpw, Sidecar.** A capture file is a pair of engine and
number; its content is absent, open, complete or deleted. PcapFsn has the event
loop, the signal handler with its lock and 3 s timer, `main` with its final flush,
and one export per worker (`CreateTarget`, `CopySource`, retries, `RemoveSource`,
`CloseTarget`) for the fuse, client library and nil exporters. Tcpdumpw has the
lock, the executions of the job (one, or one after the other by the scheduler:
`mode.cron`), the engines' start, which may fail or find `isActive` set, rotation and
stop with a deadline per engine, the writers' `Close`, the exit file, the unlock and
the health check listener, whose `Accept` is woken by `Dial`. An engine may outlive
the execution that started it. Other connections to the listener are left out: they
only wake it more often. A rotation after `Close`, which only adds an empty
capture, is left out too. `Sidecar` composes both: `Dependency` lets tcpdumpw run
only while pcapfsn is up.

## Runs

| run | instance | checks |
|---|---|---|
| flow_mutex | 3 packets, each any of 6 messages; 2 streams, 2 traces; symmetric packets | TypeOK, WaitCoversActive, ProcessSurvives, ActiveHasUnblocker, OneUntracking |
| flow_mutex_live | request, response, one more request; fair | PacketsLeave |
| transformer | pools and ordered, 3 packets (1 rejected), 2 writers, 2 workers, queues of 1; fair | TypeOK, Accounted, QuietWhenDone, LogsPackets (implements PacketLog), CommittedIsWritten |
| filters | 67 address settings, 81 others, 7 packets, addresses of 2 bits; up to 3 rounds of the providers, a filtered connection; up to 4 layers, a channel of 1; fair | TypeOK, AllowedIsAdded, DirectionFree, SecondFilterAgrees, ChannelOutlivesSenders, AnswersOnce (implements PacketTranslation), RunEnds |
| process_filter | 2 processes that may share a connection, 2 pids, 2 overlapping updates; fair | TypeOK, DeniedIsTracked, EstablishedIsDenied, ClosedIsAllowedAgain |
| sidecar | 1 json engine, 2 captures, every exporter, 1 faulty capture, 2 attempts, a crash | TypeOK, FlushReadsFinished, AtMostOneMissing, FuseDeletesStored |
| sidecar_live | 1 tcpdump engine, 2 captures, a crash; fuse with a late listener, or nil with two scheduled executions; fair | StartedMeansActive, FsnExits, TwExits |

Five runs end in a violation; each shows a disagreement between the code and what
its comments or the repository's README say (quoted in `PROJECT.json`):

* flow_mutex_termination: a response that takes `isActive` after the unblocker fired
  cannot stop it, and neither calls `Done`: the termination packet waits for ever.
* flow_mutex_lookup: the untracking runs without the mutex, and a packet holding it
  gets a nil traced flow, panics, and leaves the mutex locked.
* transformer_leak: a packet without translation is never rolled back.
* transformer_wait_done: in ordered mode `WaitDone` reads pools that are nil.
* sidecar_flush: the client library exporter deletes a capture before `Close`
  stores it, and a cancelled context loses it.

**Bounds.** Three packets give a request, its response and a termination in every
order, two carriers of one flow included. Queues, pools, channels and `ich` hold one
or two elements, so that each is full in some state. Addresses of two bits have
networks of three lengths, nested and disjoint; a tree of up to three items
(`MaxItems`) is one node, for which the model's search is the library's. Three rounds
are main's, an engine's, and one of a further engine while workers read. Two pids are
a restart, two slots two overlapping updates. Two captures per engine are the open one
and a completed one; two executions of the job are one that ends and one that may meet
its engines. One faulty capture and two attempts reach every error path and a retry
that succeeds or fails. One engine is the bound of the sidecar runs (json in the
safety runs, tcpdump in the live one; the proofs have any number): with two the state space is beyond a few
minutes, and so are the combinations of mode and exporter that `Setups` leaves out.
`mode.late` is a bound on the schedule: the listener's `net.Listen` may happen at any
time after the lock, so that the signal handler's `Dial` may come before it; otherwise
it happens with the lock. Deadlock checking is off: the system ends.

**Fairness.** Goroutines that can run do run: weak fairness on the steps of each
packet, layer, consumer, update and process. Mutexes are starvation free in Go, hence
strong fairness on `Lock` and on the unblocker that takes the mutex. Armed timers and
tickers fire. The script of the process filter may fail, but not for ever for the same
process (strong fairness on `ReadSockets`). The context's cancellation, signals, new
packets, panics and faults are never fair. The sidecar runs need only weak fairness of
each process as a whole.

**Limits of the properties.** FsnExits and TwExits are of sidecar_live only, with a
crash of tcpdumpw but without I/O faults; FsnExits assumes that the directory could be
watched. StartedMeansActive excepts engines whose start failed after `isActive` was set
(`stuck`), which the code never starts again. DeniedIsTracked and the two liveness
properties of the process filter except connections whose updates overlapped (`raced`),
for which the two steps of an update may be interleaved to any result, and
ClosedIsAllowedAgain ends with a restart. RunEnds is checked with panics of `Run` before
the goroutines start and after the channel is closed: one in between leaves goroutines
blocked on the full channel. AllowedIsAdded is exact for disjoint networks and sound
for all.

## Proofs

Eight modules prove, for any values of the constants that satisfy the assumptions named
beside them, twenty-one properties that the runs check:

| module | theorems |
|---|---|
| `FlowMutexProofs` | TypeCorrect, UnblockerRemains, UntrackingScheduledOnce, WaitCovers, ProcessOutlivesUnblockers |
| `TransformerTypes` | TransformerTypeCorrect, and that a translation is in one place |
| `TransformerProofs` (extends the types) | CommitmentsCounted, QuietOnceDone, PacketsLogged |
| `ProcessFilterProofs` | ProcessTypeCorrect, DeniedMeansTracked |
| `TranslatorWorkerProofs` | SendersOutlived, WorkerAnswersOnce, VerdictIsDirectionFree, FiltersAgree, TreeAnswersAsSet |
| `SidecarTypes` | SidecarTypeCorrect, StartedIsActive |
| `SidecarSeries` (extends the types) | FlushIsSafe, and the order of captures and events |
| `SidecarProofs` (extends the series) | FuseKeepsCaptures, OneMissingAtMost |

**Flow mutex.** The inductive invariant is
`IInv == TypeOK /\ HolderInv /\ WaitCoversActive`.
WaitCoversActive alone is not inductive: `wg.Add(1)` follows `activeRequests.Add(1)`,
and only because the packet in between holds the mutex (HolderInv) is there one
pending Add per carrier. One lemma per action shows that the types are kept
(`Type...`), one that IInv is (`Cover...`). A step changes the counters of one carrier
(CoverElsewhere), and a step of the holder the pending Add of its own (HolderPending).
ProcessOutlivesUnblockers follows from IInv,
UnblockerRemains from the types, UntrackingScheduledOnce from the actions.
WaitCoversActive and ProcessSurvives are stated until an untracking, which runs
without the mutex, takes a count below zero (`overdrawn`): the code has no
protection against that.

**Transformer.** The inductive invariant is
`Inv == TypeOK /\ StepInv /\ PlacesInv /\ Accounted /\ QuietWhenDone`. StepInv ties the
steps of the engine, the packets and the consumers to the variables of the others.
PlacesInv says that a translation is in one place per writer at most, queue, consumer or
task, and only after it was published there; without it a settled commitment might still
be open elsewhere and the count would not follow. Each action then moves an open
commitment (Outstanding is the same set: SameOutstanding), settles one (OneSettled),
settles or opens a row of NumWriters (RowSettled, RowCommitted), or ends the claim
(`down`, the timeout). Accounted and QuietWhenDone need each other: a consumer that finds
its queue closed calls Done once more, which panics only because the count is zero.

That Transformer implements PacketLog rests on four more invariants. RejectInv: a packet
that is filtered out has no translation. TurnInv: until the context is done an ordered
transformer leaves no packet behind, and publishes one only after all before it are out.
OnceInv: what a writer was given is past that writer and not in its hands any more.
OrderInv: what an ordered writer was given, what it has in hand and its queue are
consecutive serials, and no other packet was published to it. The packet that is
published next is then the one that follows in the queue (OrderPublish), and what a
writer is given is a write of the log (LogWrite).

**Process filter.** DeniedIsTracked speaks of connections without a goroutine in flight,
so that it is not inductive. `AllSettled` adds, for every connection that has not raced,
that it has one key and one goroutine at most, and what the filter and the tracked keys
say of it between the two steps of that goroutine. A new round keeps this because its
updates follow from the view (SettledSpawn); other goroutines do not touch the
connection (SettledOther).

**Translation worker.** `WorkInv` ties the step of each layer's goroutine to the
WaitGroup, the channel, what it made and what was merged, and the step of `Run` to the
closed channel. From it follow that the channel is closed after the last send, and that
what `Run` returns has an entry for every layer that is not skipped (MergedIsWhole),
hence that every step of the worker is one of PacketTranslation or a stutter.

**Packet filter.** VerdictIsDirectionFree follows from the operators: the sum of the
hashes is symmetric (HashSymmetric), and so are the lookups of both addresses and both
ports (VerdictSymmetric, for any filter at all). It needs of a packet that both addresses
are of one family (`Packets`, in WorkerAssumption), since the code takes them from one
header. FiltersAgree rests on `SetsInv`: every Get adds the same protocols, ports and flags,
so that from the first one on the sets are what the setting gives, and nothing denies a
port. A port that libpcap accepts is in range and added as it is (PortsParsed); that is
where the providers' lenient parsing would otherwise make the filters differ.

TreeAnswersAsSet rests on `TreesInv`: only networks are added, the tree of a family holds
nothing else, and, as long as the networks added are disjoint, it holds all of them in the
order of their addresses (`TreeInv`). It is argued from the bottom up: the addresses of a
prefix are an interval (Convex), so that a network that does not overlap another lies on
one side of it (Aside); the binary search ends between an item that is not greater and one
that is (PositionResult), hence finds an item that contains the address, if it finds one
(FoundContains), and the one that does when the items are disjoint (ContainedFound);
adding keeps the tree (TreeAdd), and adding again changes nothing (AddedAgain).
When networks overlap only the first half of AllowedIsAdded remains: a network may then be
replaced by a smaller one inside it, as in the code. The search, the size of a prefix and
the chaining of sequences are recursive functions; what they compute is proved with the
least counterexample in a bounded set of numbers (Least). For more than three items the
tree of the code has several nodes and compares with other items on the way; the model's
sequence is then the items of the tree in order, and the lemmas use of the search no more
than where it ends.

**Sidecar.** The proofs are for any number of series of captures (engines), captures,
executions of the job, attempts and faults; the runs have one engine. They are layered:

* SidecarTypes: the types with `LoopInv` and `CountInv`, which keep the event loop's
  exports and tcpdumpw's deadlines well typed. `RunInv` and `ActiveInv` say which
  executions have engines at work: an engine's compare-and-swap of `isActive` is what
  keeps a later execution from a second start.
* FlushIsSafe: `TerminationInv` adds `OpenInv`, only the current capture of a series is
  being written and none outside the time that tcpdumpw has the lock, and `CtxInv`, which
  ties lock, exit file, timer, signal and contexts together: a cancellation that is not
  the timer's means that tcpdumpw has stopped, or has not begun and will not get the lock
  while pcapfsn runs.
* FuseKeepsCaptures: `SeriesInv` says that captures are created, reported, taken and
  deleted in order, so that the event loop never moves a capture that is deleted or still
  being written; `JobInv` separates the flush from the regular exports; `FuseInv` says
  that two exports never write one target.
* OneMissingAtMost: `LostInv` classifies every capture (`Safe`): absent, faulty, stored,
  untouched until the flush, or on its way in the flush. Only what the event loop had in
  hand when the context was cancelled may leave these classes, and the loop takes nothing
  after that. `FreshInv` says that the flush finds no object of a capture nobody moved,
  which its exclusive creation of the target needs.

**Only model-checked.** Liveness (PacketsLeave, CommittedIsWritten, RunEnds,
EstablishedIsDenied, ClosedIsAllowedAgain, FsnExits, TwExits), which is out of this
prover's reach. TypeOK of TranslatorWorker, which bounds the tree of
networks by the items of one node; that is a bound of the instances, no promise of the
code.
## What the models show beside the properties

Behaviours of the code that the modules have, and that no document of the repository
contradicts plainly enough for a run of its own:

* a network in the tree is replaced by an address inside it, or by an overlapping
  network, and the rest of it is then not allowed any more (`packet_filter.go:173`);
* addresses that are given without any network are never added to the packet filter,
  since they are added in the loop over the networks (`ip_filter_provider.go:100`);
* the worker wants both addresses of a packet allowed, the BPF expression one of them;
* the hash of a connection is a sum: the pairs of endpoints (A, p), (B, q) and
  (A, q), (B, p) cannot be told apart;
* a process that restarts gets new keys, and a connection of its old pid stays denied;
* the second request on a stream of a pooled connection is counted but not stored
  (`flow_mutex.go:263`);
* an engine whose handle cannot be created keeps `isActive` and never starts again.

## Not modelled

Formatting of layers, HTTP parsing, logging and flags are data without control of their
own. Tasks are constructed before anything is concurrent. The memory flush ticker of
pcapfsn only writes to the proc file system. gcsfuse, gcsdir, supervisord's restarts of
tcpdumpw and pcapfsn, and the start scripts are outside the processes. The contents of
a partly written object are one value, so that an append by a retried copy is not told
from a rewrite. The tree of networks is not locked in the code: the data race between a
lookup and an addition is not modelled, each is one step. `DenyPort` and `AllowPort`
have no caller. The global WaitGroup of tcpdumpw, to which a next execution adds while
main may wait, is modelled by what it counts. pcapfsn never unlocks the lock file that it
has acquired: the model frees it when pcapfsn exits, although Go's garbage collector might
close the file, which is not used any more, before that.

## Plan

1. An abstract exporter (each completed capture is stored once, then deleted) that
   the fuse exporter implements, and an abstract mutex that `FlowMutex` implements.
2. A two engine instance of the sidecar with fewer captures, for the deadlines.
