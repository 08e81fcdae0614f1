----------------------------- MODULE FlowMutex -----------------------------
(***************************************************************************)
(* The per-flow lock of the JSON translator: flow_mutex.go and its callers *)
(* in json_translator.go (finalize, trySetHTTP, done).                     *)
(*                                                                         *)
(* Every TCP packet of a flow is finalized by a goroutine of its own.  It  *)
(* takes the flow's lock carrier, a termination (FIN or RST) waits for the *)
(* carrier's WaitGroup first, and the unlock accounts for the HTTP         *)
(* requests and responses the packet carries.  Three kinds of goroutine    *)
(* run besides the packets: the unblocker timer of a tracked request, the  *)
(* delayed untracking a termination schedules, and the reaper.             *)
(*                                                                         *)
(* The module models ONE flow: every map of the code is keyed by the flow, *)
(* except traceToHttpRequestMap, which is keyed by the trace.  A carrier   *)
(* is named by the packet that created it, a tracked request (TracedFlow)  *)
(* by its packet and stream, and a stream map (STSM) by the tracked        *)
(* request that created it.  What runs while holding the carrier's mutex   *)
(* is split into steps wherever code that does not hold it may interfere.  *)
(* Time is abstracted: a timer may expire at any moment after it is armed. *)
(***************************************************************************)
EXTENDS Integers, FiniteSets

CONSTANTS Packets,    \* the TCP packets of the flow
          Streams,    \* HTTP stream identifiers
          H1Stream,   \* http11StreamID, the stream of every HTTP/1.1 message
          Traces,     \* trace identifiers
          Refs,       \* TCP sequence (or acknowledgement) numbers
          Messages,   \* [Packets -> what the packet may carry]
          NoHeader,   \* a response without a trace header
          None        \* Go's nil, and "no owner"

Tracked == Packets \X Streams

\* kind  "fin" (FIN or RST), "plain" (no application data), "opaque" (data
\*       that is not HTTP) or "http"
\* frames  the streams of the HTTP frames; req, res: the trace a request or
\*       response header on the stream carries (None: there is none)
MessageType ==
  [kind: {"fin", "plain", "opaque", "http"}, h2: BOOLEAN, ref: Refs,
   frames: SUBSET Streams, req: [Streams -> Traces \cup {None}],
   res: [Streams -> Traces \cup {NoHeader, None}]]

ASSUME ConstantsAssumption ==
  /\ Messages \in [Packets -> SUBSET MessageType]
  /\ Refs \subseteq Nat
  /\ H1Stream \in Streams
  /\ None \notin Packets \cup Traces \cup Tracked \cup {NoHeader}
  /\ NoHeader \notin Traces
  /\ None \notin MessageType

VARIABLES
  msg,         \* [Packets -> what the packet carries, None before it arrives]
  pc,          \* [Packets -> step of the packet's goroutine]
  carrier,     \* [Packets -> the carrier the packet got from MutexMap]
  provider,    \* [Packets -> the stream map captured under the lock]
  reqTodo,     \* [Packets -> request streams not yet accounted for]
  resTodo,     \* [Packets -> trace of each response not yet accounted for]
  found,       \* [Packets -> the tracked request the response looked up]
  onStream,    \* [Packets -> the stream of that response]
  panicked,    \* packets whose analysis panicked
  woken,       \* packets released from wg.Wait
  mutexMap,    \* the flow's entry of MutexMap
  mu,          \* [carriers -> the packet holding the mutex]
  wg,          \* [carriers -> WaitGroup counter]
  active,      \* [carriers -> activeRequests]
  released,    \* [carriers -> released]
  isHTTP2,     \* [carriers -> isHTTP2]
  unlocked,    \* [carriers -> lastUnlockedAt is set]
  overdrawn,   \* [carriers -> an untracking took activeRequests below 0]
  flowStore,   \* the flow's entry of flowToStreamToSequenceMap
  streamsOf,   \* [stream maps -> streams present]
  entries,     \* [stream maps -> tracked requests stored under a sequence]
  requests,    \* traces present in traceToHttpRequestMap
  timer,       \* [Tracked -> state of the unblocker]
  live,        \* [Tracked -> isActive]
  rel,         \* [carriers -> step of the delayed untracking]
  scan,        \* [carriers -> stream map and streams the untracking read]
  ctxDone,     \* the context is cancelled
  doneCalled,  \* done(ctx) has run
  down         \* a goroutine without recover panicked: the process is gone

pktVars == <<msg, pc, carrier, provider, reqTodo, resTodo, found, onStream, panicked>>
carVars == <<mutexMap, mu, released, isHTTP2, unlocked>>
cntVars == <<wg, woken, active, overdrawn>>
mapVars == <<flowStore, streamsOf, entries, requests>>
timVars == <<timer, live>>
relVars == <<rel, scan>>
ctxVars == <<ctxDone, doneCalled, down>>
vars == <<pktVars, carVars, cntVars, mapVars, timVars, relVars, ctxVars>>

PacketSteps == {"new", "wait", "blocked", "lock", "crit", "settle", "raise",
                "response", "unlock", "done", "failed"}
TimerStates == {"none", "armed", "fired", "waiting", "off"}
UntrackSteps == {"off", "armed", "scan", "clear", "load", "dec", "drop",
                 "del", "end"}
NoScan == [store |-> None, streams |-> {}]

PacketsType ==
  /\ msg \in [Packets -> MessageType \cup {None}]
  /\ pc \in [Packets -> PacketSteps]
  /\ carrier \in [Packets -> Packets \cup {None}]
  /\ provider \in [Packets -> Tracked \cup {None}]
  /\ reqTodo \in [Packets -> SUBSET Streams]
  /\ resTodo \in [Packets -> [Streams -> Traces \cup {None}]]
  /\ found \in [Packets -> SUBSET Tracked]
  /\ onStream \in [Packets -> Streams]
  /\ panicked \subseteq Packets

CarriersType ==
  /\ mutexMap \in Packets \cup {None}
  /\ mu \in [Packets -> Packets \cup {None}]
  /\ released \in [Packets -> BOOLEAN]
  /\ isHTTP2 \in [Packets -> BOOLEAN]
  /\ unlocked \in [Packets -> BOOLEAN]

CountersType ==
  /\ wg \in [Packets -> Int]
  /\ active \in [Packets -> Int]
  /\ woken \subseteq Packets
  /\ overdrawn \in [Packets -> BOOLEAN]

MapsType ==
  /\ flowStore \in Tracked \cup {None}
  /\ streamsOf \in [Tracked -> SUBSET Streams]
  /\ entries \in [Tracked -> SUBSET Tracked]
  /\ requests \subseteq Traces

TimersType ==
  /\ timer \in [Tracked -> TimerStates]
  /\ live \in [Tracked -> BOOLEAN]

UntrackType ==
  /\ rel \in [Packets -> UntrackSteps]
  /\ scan \in [Packets -> [store: Tracked \cup {None}, streams: SUBSET Streams]]

ContextType == ctxDone \in BOOLEAN /\ doneCalled \in BOOLEAN /\ down \in BOOLEAN

\* The type of every variable.  A packet that arrived has a carrier, the one lock
\* got from MutexMap.GetOrCompute; an untracking that is about to clear a stream
\* map has one; only packets that arrived have unblockers.
TypeOK ==
  /\ PacketsType /\ CarriersType /\ CountersType /\ MapsType
  /\ TimersType /\ UntrackType /\ ContextType
  /\ \A p \in Packets :
       /\ pc[p] # "new" => carrier[p] \in Packets /\ msg[p] \in MessageType
       /\ rel[p] = "clear" => scan[p].store \in Tracked
  /\ \A t \in Tracked : timer[t] # "none" => pc[t[1]] # "new"

Init ==
  /\ msg = [p \in Packets |-> None]
  /\ pc = [p \in Packets |-> "new"]
  /\ carrier = [p \in Packets |-> None]
  /\ provider = [p \in Packets |-> None]
  /\ reqTodo = [p \in Packets |-> {}]
  /\ resTodo = [p \in Packets |-> [s \in Streams |-> None]]
  /\ found = [p \in Packets |-> {}]
  /\ onStream = [p \in Packets |-> H1Stream]
  /\ panicked = {}
  /\ woken = {}
  /\ mutexMap = None
  /\ mu = [c \in Packets |-> None]
  /\ wg = [c \in Packets |-> 0]
  /\ active = [c \in Packets |-> 0]
  /\ released = [c \in Packets |-> FALSE]
  /\ isHTTP2 = [c \in Packets |-> FALSE]
  /\ unlocked = [c \in Packets |-> FALSE]
  /\ overdrawn = [c \in Packets |-> FALSE]
  /\ flowStore = None
  /\ streamsOf = [g \in Tracked |-> {}]
  /\ entries = [g \in Tracked |-> {}]
  /\ requests = {}
  /\ timer = [t \in Tracked |-> "none"]
  /\ live = [t \in Tracked |-> FALSE]
  /\ rel = [c \in Packets |-> "off"]
  /\ scan = [c \in Packets |-> NoScan]
  /\ ctxDone = FALSE
  /\ doneCalled = FALSE
  /\ down = FALSE

-----------------------------------------------------------------------------
\* Helpers

\* WaitGroup.Add(d) on the counter of carrier c: reaching zero releases every
\* packet asleep in Wait; a negative counter stays negative (and panics).
WgAdd(c, d) ==
  /\ wg' = [wg EXCEPT ![c] = @ + d]
  /\ woken' = IF wg[c] + d = 0
              THEN woken \cup {p \in Packets : pc[p] = "blocked" /\ carrier[p] = c}
              ELSE woken

RefOf(t) == msg[t[1]].ref
TraceOf(t) == msg[t[1]].req[t[2]]
CarrierOf(t) == carrier[t[1]]

\* getTracedFlow: the captured stream map knows the stream ...
Known(g, s) == g # None /\ s \in streamsOf[g]

\* ... and the tracked request with the largest sequence below ref, or with
\* the largest one at all, as a singleton; {} stands for nil, the answer when
\* the sequence map is empty.
TracedFlow(g, s, ref) ==
  LET here  == {t \in entries[g] : t[2] = s}
      below == {t \in here : ref > RefOf(t)}
      last(S) == {t \in S : \A u \in S : RefOf(u) <= RefOf(t)}
  IN  IF below = {} THEN last(here) ELSE last(below)

\* The lookup reports success and returns nil: its caller dereferences nil.
NilTraced(p, s) ==
  /\ Known(provider[p], s)
  /\ TracedFlow(provider[p], s, msg[p].ref) = {}

-----------------------------------------------------------------------------
\* Packets: flowMutex.lock

\* The flow's carrier, created by the packet when MutexMap has none.
GetCarrier_NotCreated(p) == mutexMap
GetCarrier(p) == IF mutexMap = None THEN p ELSE mutexMap

\* finalize calls lock, which gets or creates the flow's carrier.  A worker
\* does not finalize once the context is done.
Arrive(p) ==
  /\ ~down /\ pc[p] = "new" /\ ~ctxDone
  /\ \E m \in Messages[p] :
       /\ msg' = [msg EXCEPT ![p] = m]
       /\ pc' = [pc EXCEPT ![p] = IF m.kind = "fin" THEN "wait" ELSE "lock"]
  /\ mutexMap' = GetCarrier(p)
  /\ carrier' = [carrier EXCEPT ![p] = GetCarrier(p)]
  /\ UNCHANGED <<provider, reqTodo, resTodo, found, onStream, panicked, mu, released,
                 isHTTP2, unlocked, cntVars, mapVars, timVars, relVars, ctxVars>>

\* A termination packet waits for the carrier's WaitGroup, unless the context
\* is already done.
EnterWait(p) ==
  /\ ~down /\ pc[p] = "wait"
  /\ pc' = [pc EXCEPT ![p] = IF ctxDone \/ wg[carrier[p]] = 0 THEN "lock" ELSE "blocked"]
  /\ UNCHANGED <<msg, carrier, provider, reqTodo, resTodo, found, onStream, panicked,
                 carVars, cntVars, mapVars, timVars, relVars, ctxVars>>

\* Wait returns; it panics when the WaitGroup was reused in the meantime.
ResumeWait(p) ==
  /\ ~down /\ pc[p] = "blocked" /\ p \in woken
  /\ pc' = [pc EXCEPT ![p] = IF wg[carrier[p]] = 0 THEN "lock" ELSE "failed"]
  /\ UNCHANGED <<msg, carrier, provider, reqTodo, resTodo, found, onStream, panicked,
                 carVars, cntVars, mapVars, timVars, relVars, ctxVars>>

\* mu.Lock; the flow's stream map is captured once, under the mutex.
Lock(p) ==
  /\ ~down /\ pc[p] = "lock" /\ mu[carrier[p]] = None
  /\ mu' = [mu EXCEPT ![carrier[p]] = p]
  /\ provider' = [provider EXCEPT ![p] = flowStore]
  /\ pc' = [pc EXCEPT ![p] = "crit"]
  /\ UNCHANGED <<msg, carrier, reqTodo, resTodo, found, onStream, panicked, mutexMap,
                 released, isHTTP2, unlocked, cntVars, mapVars, timVars,
                 relVars, ctxVars>>

-----------------------------------------------------------------------------
\* Packets: finalize and trySetHTTP, under the mutex

\* A packet without HTTP data looks the HTTP/1.1 stream up.  A panic there
\* reaches the worker's recover and leaves the mutex locked.
AnalyzePlain(p) ==
  /\ ~down /\ pc[p] = "crit" /\ msg[p].kind \in {"fin", "plain"}
  /\ IF ~isHTTP2[carrier[p]] /\ NilTraced(p, H1Stream)
     THEN pc' = [pc EXCEPT ![p] = "failed"] /\ panicked' = panicked \cup {p}
     ELSE pc' = [pc EXCEPT ![p] = "unlock"] /\ UNCHANGED panicked
  /\ UNCHANGED <<msg, carrier, provider, reqTodo, resTodo, found, onStream, carVars,
                 cntVars, mapVars, timVars, relVars, ctxVars>>

\* Application data that is not HTTP is not analyzed.
AnalyzeOpaque(p) ==
  /\ ~down /\ pc[p] = "crit" /\ msg[p].kind = "opaque"
  /\ pc' = [pc EXCEPT ![p] = "unlock"]
  /\ UNCHANGED <<msg, carrier, provider, reqTodo, resTodo, found, onStream, panicked,
                 carVars, cntVars, mapVars, timVars, relVars, ctxVars>>

\* The trace a response is accounted under: its header's, or else that of
\* the tracked request, or none.
ResponseTrace(p, s) ==
  IF msg[p].res[s] # NoHeader THEN {msg[p].res[s]}
  ELSE IF Known(provider[p], s)
       THEN {TraceOf(t) : t \in TracedFlow(provider[p], s, msg[p].ref)} ELSE {None}

\* The requests among the frames seen whose headers carry a trace.
TracedRequests(p, seen) == {s \in seen : msg[p].req[s] # None}

\* The frames are analyzed one after the other; the first nil lookup panics,
\* and the deferred unlock accounts for the streams seen until then.  A frame
\* with neither trace may be a request without one: it only sets isHTTP2.
AnalyzeHTTP(p) ==
  /\ ~down /\ pc[p] = "crit" /\ msg[p].kind = "http"
  /\ LET m   == msg[p]
         bad == {s \in m.frames : NilTraced(p, s)}
     IN \E seen \in SUBSET (m.frames \ bad), ts \in [Streams -> Traces \cup {None}] :
          LET traced == TracedRequests(p, seen)
              both   == {s \in seen : m.req[s] # None \/ m.res[s] # None}
          IN /\ bad = {} => seen = m.frames
             /\ panicked' = IF bad = {} THEN panicked ELSE panicked \cup {p}
             /\ reqTodo' = [reqTodo EXCEPT ![p] = traced]
             /\ \A s \in Streams : ts[s] \in IF s \in seen THEN ResponseTrace(p, s)
                                             ELSE {None}
             /\ resTodo' = [resTodo EXCEPT ![p] = ts]
             /\ requests' = IF m.h2 THEN requests
                            ELSE requests \cup {m.req[s] : s \in traced}
             /\ \/ both = {} /\ UNCHANGED isHTTP2
                \/ seen # {} /\ isHTTP2' = [isHTTP2 EXCEPT ![carrier[p]] = m.h2]
             /\ pc' = [pc EXCEPT ![p] = "settle"]
  /\ UNCHANGED <<msg, carrier, provider, found, onStream, mutexMap, mu, released,
                 unlocked, cntVars, flowStore, streamsOf, entries, timVars,
                 relVars, ctxVars>>

-----------------------------------------------------------------------------
\* Packets: UnlockWithTraceAndSpan, under the mutex

\* trackConnection for the request on stream s, and activeRequests.Add(1).
\* A request is stored only when its stream has no sequence map yet.
TrackRequest(p, s) ==
  /\ ~down /\ pc[p] = "settle" /\ s \in reqTodo[p]
  /\ LET t == <<p, s>>
         g == IF flowStore = None THEN t ELSE flowStore
         c == carrier[p]
     IN /\ flowStore' = g
        /\ streamsOf' = [streamsOf EXCEPT ![g] = @ \cup {s}]
        /\ entries' = IF s \in streamsOf[g] THEN entries
                      ELSE [entries EXCEPT ![g] = @ \cup {t}]
        /\ active' = [active EXCEPT ![c] = @ + 1]
        /\ live' = [live EXCEPT ![t] = active[c] + 1 > 0]
        /\ timer' = [timer EXCEPT ![t] = IF active[c] + 1 > 0 THEN "armed" ELSE "off"]
        /\ pc' = [pc EXCEPT ![p] = IF active[c] + 1 > 0 THEN "raise" ELSE "settle"]
  /\ reqTodo' = [reqTodo EXCEPT ![p] = @ \ {s}]
  /\ UNCHANGED <<msg, carrier, provider, resTodo, found, onStream, panicked, carVars,
                 wg, woken, overdrawn, requests, relVars, ctxVars>>

\* wg.Add(1) for the request just tracked.
RaiseWait_Skipped(p) ==
  /\ ~down /\ pc[p] = "raise"
  /\ pc' = [pc EXCEPT ![p] = "settle"]
  /\ UNCHANGED <<msg, carrier, provider, reqTodo, resTodo, found, onStream, panicked,
                 carVars, cntVars, mapVars, timVars, relVars, ctxVars>>
RaiseWait(p) ==
  /\ ~down /\ pc[p] = "raise"
  /\ WgAdd(carrier[p], 1)
  /\ pc' = [pc EXCEPT ![p] = "settle"]
  /\ UNCHANGED <<msg, carrier, provider, reqTodo, resTodo, found, onStream, panicked,
                 carVars, active, overdrawn, mapVars, timVars, relVars, ctxVars>>

\* The response on stream s looks its tracked request up.
FindTraced(p, s) ==
  /\ ~down /\ pc[p] = "settle" /\ reqTodo[p] = {} /\ resTodo[p][s] # None
  /\ IF Known(provider[p], s)
     THEN /\ found' = [found EXCEPT ![p] = TracedFlow(provider[p], s, msg[p].ref)]
          /\ onStream' = [onStream EXCEPT ![p] = s]
          /\ pc' = [pc EXCEPT ![p] = "response"]
          /\ UNCHANGED resTodo
     ELSE /\ resTodo' = [resTodo EXCEPT ![p][s] = None]
          /\ UNCHANGED <<found, onStream, pc>>
  /\ UNCHANGED <<msg, carrier, provider, reqTodo, panicked, carVars, cntVars,
                 mapVars, timVars, relVars, ctxVars>>

\* The response ends a request: activeRequests.Add(-1), and Done only when it
\* is the tracked one, still active, and its unblocker could be stopped.  A
\* nil tracked request panics, and so does a Done too many: the mutex stays
\* locked.
SettleResponse(p) ==
  /\ ~down /\ pc[p] = "response"
  /\ LET c == carrier[p]
         s == onStream[p]
         ends == {t \in found[p] : active[c] >= 1 /\ TraceOf(t) = resTodo[p][s] /\ live[t]}
         stopped == {t \in ends : timer[t] = "armed"}
         broken == \/ active[c] >= 1 /\ found[p] = {}
                   \/ stopped # {} /\ wg[c] <= 0
     IN /\ active' = [active EXCEPT ![c] = @ - 1]
        /\ live' = [t \in Tracked |-> live[t] /\ t \notin ends]
        /\ timer' = [t \in Tracked |-> IF t \in stopped THEN "off" ELSE timer[t]]
        /\ IF stopped = {} THEN UNCHANGED <<wg, woken>> ELSE WgAdd(c, -1)
        /\ panicked' = IF broken THEN panicked \cup {p} ELSE panicked
        /\ pc' = [pc EXCEPT ![p] = IF broken THEN "failed" ELSE "settle"]
        /\ resTodo' = [resTodo EXCEPT ![p][s] = None]
  /\ UNCHANGED <<msg, carrier, provider, reqTodo, found, onStream, carVars,
                 overdrawn, mapVars, relVars, ctxVars>>

\* Every stream is accounted for.
Settled(p) ==
  /\ ~down /\ pc[p] = "settle" /\ reqTodo[p] = {}
  /\ \A s \in Streams : resTodo[p][s] = None
  /\ pc' = [pc EXCEPT ![p] = "unlock"]
  /\ UNCHANGED <<msg, carrier, provider, reqTodo, resTodo, found, onStream, panicked,
                 carVars, cntVars, mapVars, timVars, relVars, ctxVars>>

-----------------------------------------------------------------------------
\* Untracking

StoredIn(g) == IF g = None THEN {} ELSE entries[g]

\* The traces of the stream map g are orphaned.
Forget(g) == requests' = requests \ {TraceOf(t) : t \in StoredIn(g)}

\* The scan of untrackConnection deactivates and deletes the tracked requests
\* of the stream map g.  A timer that already fired is not stopped.
Deactivate_StopOnly(g) ==
  /\ live' = live
  /\ timer' = [t \in Tracked |-> IF t \in StoredIn(g) THEN "off" ELSE timer[t]]
  /\ entries' = IF g = None THEN entries ELSE [entries EXCEPT ![g] = {}]
Deactivate(g) ==
  LET gone == StoredIn(g)
  IN  /\ live' = [t \in Tracked |-> live[t] /\ t \notin gone]
      /\ timer' = [t \in Tracked |->
                     IF t \in gone /\ live[t] /\ timer[t] = "armed" THEN "off" ELSE timer[t]]
      /\ entries' = IF g = None THEN entries ELSE [entries EXCEPT ![g] = {}]

\* The drain loop run without interference: it stops at the Done that takes
\* the WaitGroup below zero.
DrainSteps(c) ==
  IF active[c] <= 0 THEN 0
  ELSE IF wg[c] >= active[c] THEN active[c]
  ELSE IF wg[c] >= 0 THEN wg[c] + 1 ELSE 1

Drain(c) ==
  LET n == DrainSteps(c)
  IN  /\ active' = [active EXCEPT ![c] = @ - n]
      /\ IF n = 0 THEN UNCHANGED <<wg, woken>> ELSE WgAdd(c, 0 - n)

\* untrackConnection by a goroutine that holds the carrier's mutex: the part on
\* the flow's stream map.
ClearFlow ==
  /\ Deactivate(flowStore)
  /\ streamsOf' = IF flowStore = None THEN streamsOf
                  ELSE [streamsOf EXCEPT ![flowStore] = {}]
  /\ flowStore' = None

\* A termination packet yields the untracking when no request is active and no
\* other packet did.
YieldsUntracking_NoSwap(p) == msg[p].kind = "fin" /\ active[carrier[p]] = 0
YieldsUntracking(p) ==
  msg[p].kind = "fin" /\ active[carrier[p]] = 0 /\ ~released[carrier[p]]

ReleaseMutex_Forgotten(c) == unlocked' = [unlocked EXCEPT ![c] = TRUE] /\ mu' = mu
ReleaseMutex(c) ==
  /\ unlocked' = [unlocked EXCEPT ![c] = TRUE]
  /\ mu' = [mu EXCEPT ![c] = None]

\* UnlockWithTCPFlags.  The termination packet that finds no active request
\* and wins the CAS on released schedules the untracking, or untracks at once
\* when the context is done (nothing is active then, so nothing is drained).
\* The mutex is released in every case.
Unlock(p) ==
  /\ ~down /\ pc[p] = "unlock"
  /\ LET c == carrier[p]
         releases == YieldsUntracking(p)
     IN /\ released' = [released EXCEPT ![c] = @ \/ releases]
        /\ rel' = IF releases /\ ~ctxDone THEN [rel EXCEPT ![c] = "armed"] ELSE rel
        /\ IF releases /\ ctxDone
           THEN ClearFlow /\ Forget(flowStore) /\ mutexMap' = None
           ELSE UNCHANGED <<mapVars, timVars, mutexMap>>
        /\ ReleaseMutex(c)
  /\ pc' = [pc EXCEPT ![p] = IF p \in panicked THEN "failed" ELSE "done"]
  /\ UNCHANGED <<msg, carrier, provider, reqTodo, resTodo, found, onStream,
                 panicked, isHTTP2, cntVars, scan, ctxVars>>

\* The delayed untracking of carrier c runs without the mutex.
UntrackStart(c) ==
  /\ ~down /\ rel[c] = "armed"
  /\ rel' = [rel EXCEPT ![c] = "scan"]
  /\ UNCHANGED <<pktVars, carVars, cntVars, mapVars, timVars, scan, ctxVars>>

UntrackScan(c) ==
  /\ ~down /\ rel[c] = "scan"
  /\ Deactivate(flowStore) /\ Forget(flowStore)
  /\ scan' = [scan EXCEPT ![c] = IF flowStore = None THEN NoScan
                ELSE [store |-> flowStore, streams |-> streamsOf[flowStore]]]
  /\ rel' = [rel EXCEPT ![c] = IF flowStore = None THEN "load" ELSE "clear"]
  /\ UNCHANGED <<pktVars, carVars, cntVars, flowStore, streamsOf, ctxVars>>

UntrackClear(c) ==
  /\ ~down /\ rel[c] = "clear"
  /\ streamsOf' = [streamsOf EXCEPT ![scan[c].store] = @ \ scan[c].streams]
  /\ flowStore' = None
  /\ rel' = [rel EXCEPT ![c] = "load"]
  /\ UNCHANGED <<pktVars, carVars, cntVars, entries, requests, timVars, scan,
                 ctxVars>>

UntrackLoad(c) ==
  /\ ~down /\ rel[c] = "load"
  /\ rel' = [rel EXCEPT ![c] = IF active[c] > 0 THEN "dec" ELSE "del"]
  /\ UNCHANGED <<pktVars, carVars, cntVars, mapVars, timVars, scan, ctxVars>>

UntrackDec(c) ==
  /\ ~down /\ rel[c] = "dec"
  /\ active' = [active EXCEPT ![c] = @ - 1]
  /\ overdrawn' = [overdrawn EXCEPT ![c] = @ \/ active[c] <= 0]
  /\ rel' = [rel EXCEPT ![c] = "drop"]
  /\ UNCHANGED <<pktVars, carVars, wg, woken, mapVars, timVars, scan, ctxVars>>

\* A Done too many panics; the recover of untrackConnection then skips the
\* removal of the carrier from MutexMap.
UntrackDrop(c) ==
  /\ ~down /\ rel[c] = "drop"
  /\ WgAdd(c, -1)
  /\ rel' = [rel EXCEPT ![c] = IF wg[c] >= 1 THEN "load" ELSE "end"]
  /\ UNCHANGED <<pktVars, carVars, active, overdrawn, mapVars, timVars, scan,
                 ctxVars>>

\* MutexMap.Del removes whatever carrier the flow has by now.
UntrackDel(c) ==
  /\ ~down /\ rel[c] = "del"
  /\ mutexMap' = None
  /\ rel' = [rel EXCEPT ![c] = "end"]
  /\ UNCHANGED <<pktVars, mu, released, isHTTP2, unlocked, cntVars, mapVars,
                 timVars, scan, ctxVars>>

-----------------------------------------------------------------------------
\* The unblocker of a tracked request

UnblockerFires(t) ==
  /\ ~down /\ timer[t] = "armed"
  /\ timer' = [timer EXCEPT ![t] = "fired"]
  /\ UNCHANGED <<pktVars, carVars, cntVars, mapVars, live, relVars, ctxVars>>

UnblockerSwaps(t) ==
  /\ ~down /\ timer[t] = "fired"
  /\ timer' = [timer EXCEPT ![t] = IF live[t] THEN "waiting" ELSE "off"]
  /\ live' = [live EXCEPT ![t] = FALSE]
  /\ UNCHANGED <<pktVars, carVars, cntVars, mapVars, relVars, ctxVars>>

\* Under the mutex.  This goroutine has no recover: a Done too many ends the
\* process.
UnblockerReleases_Unchecked(t) ==
  /\ ~down /\ timer[t] = "waiting" /\ mu[CarrierOf(t)] = None
  /\ active' = [active EXCEPT ![CarrierOf(t)] = @ - 1]
  /\ WgAdd(CarrierOf(t), -1)
  /\ down' = (wg[CarrierOf(t)] <= 0)
  /\ timer' = [timer EXCEPT ![t] = "off"]
  /\ UNCHANGED <<pktVars, carVars, overdrawn, mapVars, live, relVars, ctxDone,
                 doneCalled>>
UnblockerReleases(t) ==
  /\ ~down /\ timer[t] = "waiting" /\ mu[CarrierOf(t)] = None
  /\ LET c == CarrierOf(t)
         ends == active[c] >= 1
     IN /\ active' = [active EXCEPT ![c] = @ - 1]
        /\ IF ends THEN WgAdd(c, -1) ELSE UNCHANGED <<wg, woken>>
        /\ down' = (down \/ (ends /\ wg[c] <= 0))
  /\ timer' = [timer EXCEPT ![t] = "off"]
  /\ UNCHANGED <<pktVars, carVars, overdrawn, mapVars, live, relVars, ctxDone,
                 doneCalled>>

-----------------------------------------------------------------------------
\* The reaper, cancellation, and the translator's done

\* The reaper drops a carrier that was unlocked once and has been idle for
\* carrierDeadline (600 s); by then the timers armed under it (10 s) have run.
Reap(c) ==
  /\ ~down /\ mutexMap = c /\ unlocked[c] /\ mu[c] = None /\ ~ctxDone
  /\ rel[c] \in {"off", "end"}
  /\ \A t \in Tracked : CarrierOf(t) = c => timer[t] \in {"none", "off"}
  /\ ClearFlow /\ Forget(flowStore) /\ Drain(c)
  /\ mutexMap' = None
  /\ UNCHANGED <<pktVars, mu, released, isHTTP2, unlocked, overdrawn, relVars,
                 ctxVars>>

Cancel ==
  /\ ~down /\ ~ctxDone
  /\ ctxDone' = TRUE
  /\ UNCHANGED <<pktVars, carVars, cntVars, mapVars, timVars, relVars,
                 doneCalled, down>>

\* done untracks the flow if its mutex is free, and clears the maps.
Done ==
  /\ ~down /\ ctxDone /\ ~doneCalled
  /\ IF mutexMap # None /\ mu[mutexMap] = None
     THEN ClearFlow /\ Drain(mutexMap)
     ELSE /\ flowStore' = None
          /\ UNCHANGED <<live, timer, entries, streamsOf, active, wg, woken>>
  /\ requests' = {}
  /\ mutexMap' = None
  /\ doneCalled' = TRUE
  /\ UNCHANGED <<pktVars, mu, released, isHTTP2, unlocked, overdrawn, relVars,
                 ctxDone, down>>

-----------------------------------------------------------------------------
PacketStep(p) ==
  \/ Arrive(p) \/ EnterWait(p) \/ ResumeWait(p) \/ Lock(p)
  \/ AnalyzePlain(p) \/ AnalyzeOpaque(p) \/ AnalyzeHTTP(p)
  \/ \E s \in Streams : TrackRequest(p, s) \/ FindTraced(p, s)
  \/ RaiseWait(p) \/ SettleResponse(p) \/ Settled(p) \/ Unlock(p)

UntrackStep(c) ==
  \/ UntrackStart(c) \/ UntrackScan(c) \/ UntrackClear(c) \/ UntrackLoad(c)
  \/ UntrackDec(c) \/ UntrackDrop(c) \/ UntrackDel(c)

UnblockerStep(t) == UnblockerFires(t) \/ UnblockerSwaps(t) \/ UnblockerReleases(t)

Next ==
  \/ \E p \in Packets : PacketStep(p) \/ UntrackStep(p) \/ Reap(p)
  \/ \E t \in Tracked : UnblockerStep(t)
  \/ Cancel \/ Done

Spec == Init /\ [][Next]_vars

-----------------------------------------------------------------------------
\* Properties

Holding == {"crit", "settle", "raise", "response", "unlock"}

\* wg.Add(1) not yet done for a request already counted.
PendingAdd(c) ==
  IF mu[c] # None /\ pc[mu[c]] = "raise" /\ carrier[mu[c]] = c THEN 1 ELSE 0

\* wg.Done not yet done for a request an untracking no longer counts.
PendingDone(c) == IF rel[c] = "drop" THEN 1 ELSE 0

\* Until an untracking that runs without the mutex takes the count below zero,
\* the WaitGroup covers every active request, so that a Done by a response or
\* by an unblocker (lines 318 and 625 test the count only) never panics.
WaitCoversActive ==
  \A c \in Packets : ~overdrawn[c] =>
    /\ wg[c] + PendingAdd(c) - PendingDone(c) >= 0
    /\ wg[c] + PendingAdd(c) - PendingDone(c) >= active[c]

\* An unblocker's goroutine has no recover: a Done too many there would end the
\* process.  It can happen only after an untracking overdrew the count.
ProcessSurvives == down => \E c \in Packets : overdrawn[c]

\* A tracked request that is still active has an unblocker that will still run
\* its compare-and-swap: nothing stops the timer without deactivating the
\* request first, so that no request blocks a termination for ever on its own.
ActiveHasUnblocker ==
  \A t \in Tracked : live[t] => timer[t] \in {"armed", "fired"}

\* "both will release the lock, but just 1 must yield connection untracking":
\* once a termination packet released the carrier, no other one schedules an
\* untracking, whatever the order in which they got the lock.
OneUntracking ==
  [][\A c \in Packets : released[c] /\ rel[c] # "armed" => rel'[c] # "armed"]_vars

\* The panic of a lookup leaves no mutex locked.  The comment on the trace
\* lookup says that "since this is guarded by a lock, it is thread-safe".
HolderAlive ==
  \A c \in Packets : mu[c] # None => pc[mu[c]] \in Holding

-----------------------------------------------------------------------------
\* Fairness: goroutines run, a sync.Mutex is not kept from a waiter for ever
\* (starvation mode), timers expire, and the reaper ticks.  Packets need not
\* arrive and the context need not be cancelled.
Proceed(p) ==
  \/ EnterWait(p) \/ ResumeWait(p)
  \/ AnalyzePlain(p) \/ AnalyzeOpaque(p) \/ AnalyzeHTTP(p)
  \/ \E s \in Streams : TrackRequest(p, s) \/ FindTraced(p, s)
  \/ RaiseWait(p) \/ SettleResponse(p) \/ Settled(p) \/ Unlock(p)

Fairness ==
  /\ \A p \in Packets :
       /\ WF_vars(Proceed(p)) /\ SF_vars(Lock(p))
       /\ WF_vars(UntrackStep(p)) /\ WF_vars(Reap(p))
  /\ \A t \in Tracked :
       /\ WF_vars(UnblockerFires(t) \/ UnblockerSwaps(t))
       /\ SF_vars(UnblockerReleases(t))

FairSpec == Spec /\ Fairness

\* Every packet that asked for the lock leaves it (a flow without terminations
\* cannot stall: the lock order of requests, responses and unblockers has no
\* cycle).
PacketsLeave ==
  \A p \in Packets : pc[p] = "lock" ~> pc[p] \in {"done", "failed"}

\* "the `unblocker`s will eventually allow termination packets to make
\* progress": a termination asleep in Wait wakes up.
TerminationProceeds ==
  \A p \in Packets : pc[p] = "blocked" ~> pc[p] # "blocked"
=============================================================================
