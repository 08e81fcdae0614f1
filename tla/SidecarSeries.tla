--------------------------- MODULE SidecarSeries ----------------------------
(***************************************************************************)
(* The captures of a series, for any series of captures, executions of the *)
(* job, attempts and faults: which one is being written by the time that   *)
(* the flush of pcapfsn may read it, in which order pcapfsn learns of      *)
(* them, and what the event loop and the workers of the flush have in      *)
(* hand.                                                                   *)
(***************************************************************************)
EXTENDS SidecarTypes, TLAPS

-----------------------------------------------------------------------------
\* Captures being written

\* A capture is its series and its number.
LEMMA FilePair ==
  /\ \A f \in Files : f[1] \in Keys /\ f[2] \in 1..MaxFiles /\ f = <<f[1], f[2]>>
  /\ \A k \in Keys, n \in 1..MaxFiles : <<k, n>> \in Files
BY DEF Files

\* What a new capture changes.
LEMMA NewEffect ==
  ASSUME TypeOK, NEW k \in Keys, NewCapture(k)
  PROVE  /\ current[k] \in Nat /\ current[k] + 1 \in 1..MaxFiles /\ current'[k] = current[k] + 1
         /\ \A j \in Keys : j # k => current'[j] = current[j]
         /\ \A j \in Keys, n \in 1..MaxFiles :
              src'[<<j, n>>] = IF j = k /\ n = current[k] + 1 THEN "open"
                               ELSE IF j = k /\ n = current[k] THEN "complete" ELSE src[<<j, n>>]
<1>1. current[k] \in 0..MaxFiles /\ current[k] + 1 \in 1..MaxFiles /\ current \in [Keys -> 0..MaxFiles]
  BY DirAssumption DEF TypeOK, TwTypeOK, NewCapture
<1>2. src \in [Files -> {"absent", "open", "complete", "deleted"}]
  BY DEF TypeOK, DirTypeOK
<1>3. current'[k] = current[k] + 1 /\ \A j \in Keys : j # k => current'[j] = current[j]
  BY <1>1 DEF NewCapture
<1>4. ASSUME NEW j \in Keys, NEW n \in 1..MaxFiles
      PROVE  src'[<<j, n>>] = IF j = k /\ n = current[k] + 1 THEN "open"
                              ELSE IF j = k /\ n = current[k] THEN "complete" ELSE src[<<j, n>>]
  <2>1. <<j, n>> \in Files /\ <<k, current[k] + 1>> \in Files
    BY <1>1, FilePair
  <2>2. CASE current[k] = 0
    BY <1>2, <2>1, <2>2 DEF NewCapture
  <2>3. CASE current[k] # 0
    <3>1. src' = [Finish(k) EXCEPT ![<<k, current[k] + 1>>] = "open"]
      BY <2>3 DEF NewCapture
    <3>2. Finish(k) \in [Files -> {"absent", "open", "complete", "deleted"}]
      BY <1>2, Zenon DEF Finish
    <3>3. Finish(k)[<<j, n>>] = IF j = k /\ n = current[k] THEN "complete" ELSE src[<<j, n>>]
      BY <1>2, <2>1 DEF Finish
    <3> QED
      BY <2>1, <3>1, <3>2, <3>3
  <2> QED
    BY <2>2, <2>3
<1> QED
  BY <1>1, <1>3, <1>4

\* What a finished capture changes.
LEMMA FinishEffect ==
  ASSUME TypeOK, NEW k \in Keys
  PROVE  /\ Finish(k) \in [Files -> {"absent", "open", "complete", "deleted"}]
         /\ \A j \in Keys, n \in 1..MaxFiles :
              Finish(k)[<<j, n>>] = IF j = k /\ n = current[k] THEN "complete" ELSE src[<<j, n>>]
<1>1. src \in [Files -> {"absent", "open", "complete", "deleted"}]
  BY DEF TypeOK, DirTypeOK
<1>2. \A j \in Keys, n \in 1..MaxFiles : <<j, n>> \in Files
  BY Zenon, FilePair
<1> QED
  BY <1>1, <1>2, Zenon DEF Finish

\* What closing a writer changes.
LEMMA CloseEffect ==
  ASSUME TypeOK, NEW k \in Keys, CloseWriter(k)
  PROVE  /\ current[k] \in Nat /\ current'[k] \in {current[k], current[k] + 1} /\ current'[k] <= MaxFiles
         /\ \A j \in Keys : j # k => current'[j] = current[j]
         /\ \A j \in Keys, n \in 1..MaxFiles :
              src'[<<j, n>>] = IF j = k /\ n \in {current[k], current'[k]} THEN "complete"
                               ELSE src[<<j, n>>]
<1>1. current[k] \in 0..MaxFiles /\ current \in [Keys -> 0..MaxFiles] /\ MaxFiles \in Nat
  BY DirAssumption DEF TypeOK, TwTypeOK
<1>2. CASE current[k] < MaxFiles
  <2>1. src' = [Finish(k) EXCEPT ![<<k, current[k] + 1>>] = "complete"] /\ current' = [current EXCEPT ![k] = @ + 1]
    BY <1>2 DEF CloseWriter
  <2>2. current'[k] = current[k] + 1 /\ \A j \in Keys : j # k => current'[j] = current[j]
    BY <1>1, <2>1
  <2>3. ASSUME NEW j \in Keys, NEW n \in 1..MaxFiles
        PROVE  src'[<<j, n>>] = IF j = k /\ n \in {current[k], current[k] + 1} THEN "complete" ELSE src[<<j, n>>]
    <3>1. <<j, n>> \in Files
      BY FilePair
    <3> QED
      BY <2>1, <3>1, FinishEffect
  <2> QED
    BY <1>1, <1>2, <2>2, <2>3
<1>3. CASE ~(current[k] < MaxFiles)
  <2>1. src' = Finish(k) /\ current' = current
    BY <1>3 DEF CloseWriter
  <2> QED
    BY <1>1, <2>1, FinishEffect
<1> QED
  BY <1>2, <1>3

\* Only the current capture of a series is being written, and none before
\* tcpdumpw has the lock or after its engines and writers have stopped.
OpenInv ==
  /\ \A k \in Keys, n \in 1..MaxFiles : src[<<k, n>>] = "open" => n = current[k]
  /\ tw \in Stopped \cup {"start"} => \A k \in Keys, n \in 1..MaxFiles : src[<<k, n>>] # "open"

LEMMA OpenInit == Init => OpenInv
<1> SUFFICES ASSUME Init PROVE OpenInv
  OBVIOUS
<1>1. \A k \in Keys, n \in 1..MaxFiles : src[<<k, n>>] = "absent"
  BY FilePair, Zenon DEF Init, DirInit
<1> QED
  BY <1>1 DEF OpenInv

\* A new capture is the only one open in its series.
LEMMA OpenNew ==
  ASSUME TypeOK, OpenInv, NEW k \in Keys, NewCapture(k), tw' \notin Stopped \cup {"start"}
  PROVE  OpenInv'
<1>1. ASSUME NEW j \in Keys, NEW n \in 1..MaxFiles, src'[<<j, n>>] = "open"
      PROVE  n = current'[j]
  <2>1. CASE j = k
    <3>1. src'[<<k, n>>] = IF n = current[k] + 1 THEN "open"
                           ELSE IF n = current[k] THEN "complete" ELSE src[<<k, n>>]
      BY Zenon, NewEffect
    <3>2. src[<<k, n>>] = "open" => n = current[k]
      BY Zenon DEF OpenInv
    <3>3. current'[k] = current[k] + 1
      BY Zenon, NewEffect
    <3> QED
      BY <1>1, <2>1, <3>1, <3>2, <3>3
  <2>2. CASE j # k
    <3>1. src'[<<j, n>>] = src[<<j, n>>] /\ current'[j] = current[j]
      BY <2>2, NewEffect
    <3> QED
      BY Zenon, <1>1, <3>1 DEF OpenInv
  <2> QED
    BY <2>1, <2>2
<1> QED
  BY Zenon, <1>1 DEF OpenInv

\* Closing a writer opens no capture.
LEMMA OpenClose ==
  ASSUME TypeOK, OpenInv, NEW k \in Keys, CloseWriter(k), tw' \notin Stopped \cup {"start"}
  PROVE  OpenInv'
<1>1. ASSUME NEW j \in Keys, NEW n \in 1..MaxFiles, src'[<<j, n>>] = "open"
      PROVE  n = current'[j]
  <2>1. /\ src'[<<j, n>>] = IF j = k /\ n \in {current[k], current'[k]} THEN "complete" ELSE src[<<j, n>>]
        /\ j # k => current'[j] = current[j]
    BY CloseEffect
  <2>2. src[<<j, n>>] = "open" => n = current[j]
    BY Zenon DEF OpenInv
  <2> QED
    BY <1>1, <2>1, <2>2
<1> QED
  BY Zenon, <1>1 DEF OpenInv

\* A capture opens only while tcpdumpw is at work.
LEMMA WorkingNow ==
  ASSUME TypeOK, CountInv, RunInv, OpenInv, NEW k \in Keys,
         \/ \E r \in Runs : EngineStarts(k, r) \/ EngineStopping(k, r) \/ EngineDeadline(k, r) \/ EngineStopped(k, r)
         \/ Rotate(k) \/ CloseWriter(k)
  PROVE  tw \notin Stopped \cup {"start"}
<1>1. ASSUME NEW r \in Runs, engine[<<k, r>>] \notin {"off", "stopped"}
      PROVE  tw \notin Stopped \cup {"start"}
  <2>1. tw \notin Stopped
    BY <1>1 DEF RunInv
  <2>2. tw # "start"
    <3>1. tw = "start" => r > run
      BY DEF CountInv, Runs
    <3> QED
      BY <1>1, <3>1 DEF RunInv
  <2> QED
    BY <2>1, <2>2
<1>2. ASSUME Unfinished(k)
      PROVE  tw \notin Stopped \cup {"start"}
  <2>1. current[k] \in 1..MaxFiles
    BY <1>2, DirAssumption DEF Unfinished, TypeOK, TwTypeOK
  <2> QED
    BY Zenon, <1>2, <2>1 DEF OpenInv, Unfinished
<1> QED
  BY <1>1, <1>2, Zenon DEF EngineStarts, EngineStopping, EngineDeadline, EngineStopped, Rotate, CloseWriter

\* A step of pcapfsn changes captures only by deleting one.
LEMMA FsnSrc ==
  ASSUME FsnNext
  PROVE  /\ UNCHANGED twFrame
         /\ \/ src' = src
            \/ \E w \in Workers : job[w] = "remove" /\ src' = [src EXCEPT ![Source(w)] = "deleted"]
<1>1. UNCHANGED twFrame
  BY DEF FsnNext
<1>2. ASSUME NEW w \in Workers, RemoveSource(w)
      PROVE  src' = src \/ (job[w] = "remove" /\ src' = [src EXCEPT ![Source(w)] = "deleted"])
  BY <1>2, Zenon DEF RemoveSource
<1>3. CASE ~\E w \in Workers : RemoveSource(w)
  BY <1>1, <1>3, Zenon DEF FsnNext, LoopCheck, CaptureCreated, Exported, ExitDetected, LoopEnds, MainCancelled,
    RegularExportsDone, FlushSrcDir, FlushExpires, Flushed, FsnSignal, LockAcquired, LockGivenUp,
    TimerFires, CreateTarget, CopySource, CopyFails, CopyExpired, CloseTarget, shared
<1> QED
  BY <1>1, <1>2, <1>3, Zenon

\* Every step keeps what is known of open captures.
LEMMA OpenNext ==
  ASSUME TypeOK, CountInv, RunInv, OpenInv, [Next]_vars
  PROVE  OpenInv'
<1>1. CASE \E k \in Keys, r \in Runs :
             EngineStarts(k, r) \/ EngineStopping(k, r) \/ EngineDeadline(k, r) \/ EngineStopped(k, r)
  <2>1. PICK k \in Keys, r \in Runs :
          EngineStarts(k, r) \/ EngineStopping(k, r) \/ EngineDeadline(k, r) \/ EngineStopped(k, r)
    BY Zenon, <1>1
  <2>2. tw' \notin Stopped \cup {"start"}
    BY Zenon, <2>1, WorkingNow DEF EngineStarts, EngineStopping, EngineDeadline, EngineStopped
  <2>3. CASE NewCapture(k)
    BY Zenon, <2>2, <2>3, OpenNew
  <2>4. CASE UNCHANGED <<src, current>>
    BY <2>2, <2>4 DEF OpenInv
  <2>5. CASE src' = Finish(k) /\ current' = current
    BY <2>2, <2>5, FinishEffect DEF OpenInv
  <2> QED
    BY <2>1, <2>3, <2>4, <2>5 DEF EngineStarts, EngineStopping, EngineDeadline, EngineStopped, shared
<1>2. ASSUME NEW k \in Keys, Rotate(k) \/ CloseWriter(k)
      PROVE  OpenInv'
  <2>1. tw' \notin Stopped \cup {"start"}
    BY <1>2, WorkingNow DEF Rotate, CloseWriter
  <2>2. CASE Rotate(k)
    BY Zenon, <2>1, <2>2, OpenNew DEF Rotate
  <2>3. CASE CloseWriter(k)
    BY Zenon, <2>1, <2>3, OpenClose
  <2> QED
    BY <1>2, <2>2, <2>3
<1>3. CASE Crash
  <2>1. \A k \in Keys, n \in 1..MaxFiles : src'[<<k, n>>] # "open"
    BY <1>3, FilePair DEF Crash, TypeOK, DirTypeOK
  <2> QED
    BY <2>1 DEF OpenInv
<1>4. CASE SignalExit
  <2>1. UNCHANGED <<src, current>> /\ tw = "rotate"
    BY <1>4 DEF SignalExit
  <2>2. ASSUME NEW k \in Keys, NEW n \in 1..MaxFiles
        PROVE  src[<<k, n>>] # "open"
    BY <1>4 DEF SignalExit, Unfinished, OpenInv
  <2> QED
    BY <2>1, <2>2 DEF OpenInv
<1>5. CASE TryLock \/ SendDeadline \/ JobLeft \/ Schedule \/ SchedulerStops \/ EnginesStopped
           \/ Unlock \/ TwExit \/ TwSignal \/ DurationOver \/ Listen \/ Dial \/ Accept
  <2>1. UNCHANGED <<src, current>>
    BY <1>5, Zenon DEF TryLock, SendDeadline, JobLeft, Schedule, SchedulerStops, EnginesStopped, Unlock,
                TwExit, TwSignal, DurationOver, Listen, Dial, Accept, shared
  <2>2. tw' \in Stopped \cup {"start"} => tw \in Stopped \cup {"start"}
    BY Zenon, <1>5 DEF TryLock, SendDeadline, JobLeft, Schedule, SchedulerStops, EnginesStopped, Unlock,
                TwExit, TwSignal, DurationOver, Listen, Dial, Accept, Stopped
  <2> QED
    BY <2>1, <2>2 DEF OpenInv
<1>6. CASE FsnNext
  <2>1. UNCHANGED <<tw, current>>
    BY <1>6, FsnSrc DEF twFrame, twVars
  <2>2. \A k \in Keys, n \in 1..MaxFiles : src'[<<k, n>>] \in {src[<<k, n>>], "deleted"}
    BY <1>6, FsnSrc, FilePair DEF TypeOK, DirTypeOK
  <2> QED
    BY <2>1, <2>2 DEF OpenInv
<1>7. CASE UNCHANGED vars
  BY <1>7 DEF vars, shared, twVars, OpenInv
<1> QED
  BY Zenon, <1>1, <1>2, <1>3, <1>4, <1>5, <1>6, <1>7 DEF Next, TwNext

-----------------------------------------------------------------------------
\* Termination of pcapfsn

\* The lock, the contexts and the exit file: pcapfsn cancels once, and knows
\* then that tcpdumpw has stopped, or that it will not start, unless the timer
\* was first.
CtxInv ==
  /\ lock = "tcpdumpw" <=> tw \in {"capture", "wait", "rotate", "unlock"}
  /\ lock = "pcapfsn" => main # "exited"
  /\ ctxDone => ~active
  /\ sig = "none" => timer = "off"
  /\ timer = "fired" => ctxDone
  /\ main # "wait" => ctxDone
  /\ \A i \in 1..Len(events) : events[i] = Exit => tw \in Stopped
  /\ Graceful => tw \in Stopped \/ (tw = "start" /\ (lock = "pcapfsn" \/ main = "exited"))

LEMMA CtxInit == Init => CtxInv
<1> SUFFICES ASSUME Init PROVE CtxInv
  OBVIOUS
<1>1. events = <<>> /\ lock = "free" /\ tw = "start" /\ main = "wait" /\ ctxDone = FALSE /\ timer = "off"
  BY DEF Init, DirInit, FsnInit, TwInit
<1>2. \A i \in 1..Len(events) : FALSE
  BY <1>1
<1> QED
  BY <1>1, <1>2 DEF CtxInv, Graceful, Stopped

\* Events other than the exit file do not matter here.
LEMMA EventAdded ==
  ASSUME TypeOK, NEW f \in Files, events' = Append(events, f)
  PROVE  \A i \in 1..Len(events') : events'[i] = Exit => \E j \in 1..Len(events) : events[j] = Exit
<1>1. events \in Seq(Files \cup {Exit}) /\ f # Exit
  BY Markers DEF TypeOK, DirTypeOK
<1>2. Len(events') = Len(events) + 1 /\ Len(events) \in Nat
  BY <1>1
<1>3. ASSUME NEW i \in 1..Len(events'), events'[i] = Exit
      PROVE  \E j \in 1..Len(events) : events[j] = Exit
  <2>1. CASE i = Len(events) + 1
    BY <1>1, <1>3, <2>1
  <2>2. CASE i # Len(events) + 1
    <3>1. i \in 1..Len(events) /\ events'[i] = events[i]
      BY <1>1, <1>2, <2>2
    <3> QED
      BY <1>3, <3>1
  <2> QED
    BY <2>1, <2>2
<1> QED
  BY <1>3

LEMMA EventTaken ==
  ASSUME TypeOK, events # <<>>, events' = Tail(events)
  PROVE  /\ Len(events) \in Nat \ {0} /\ events[1] = Head(events) /\ Len(events) \in Nat
         /\ Len(events') \in Nat
         /\ \A i \in 1..Len(events') : i + 1 \in 1..Len(events) /\ events'[i] = events[i + 1]
BY DEF TypeOK, DirTypeOK

\* Steps of pcapfsn.
LEMMA CtxFsn ==
  ASSUME TypeOK, CtxInv, FsnNext
  PROVE  CtxInv'
<1>0. tw' = tw
  BY DEF FsnNext, twFrame, twVars
<1>1. CASE LoopCheck \/ Exported \/ LoopEnds \/ FlushSrcDir \/ FlushExpires \/ \E w \in Workers : ExportStep(w)
  <2>1. UNCHANGED <<lock, main, ctxDone, active, timer, sig, events>> \/ (main' = "flush" /\ main = "walk" /\ UNCHANGED <<lock, ctxDone, active, timer, sig, events>>)
    BY <1>1, Zenon DEF LoopCheck, Exported, LoopEnds, FlushSrcDir, FlushExpires, ExportStep, CreateTarget, CopySource,
      CopyFails, CopyExpired, RemoveSource, CloseTarget, shared, sigVars
  <2> QED
    BY <1>0, <2>1 DEF CtxInv, Graceful
<1>2. CASE CaptureCreated
  <2>1. UNCHANGED <<lock, main, ctxDone, active, timer, sig>> /\ events # <<>> /\ events' = Tail(events)
    BY <1>2 DEF CaptureCreated, sigVars
  <2>2. \A i \in 1..Len(events') : events'[i] = Exit => tw \in Stopped
    BY <2>1, EventTaken DEF CtxInv
  <2> QED
    BY <1>0, <2>1, <2>2 DEF CtxInv, Graceful
<1>3. CASE ExitDetected
  <2>1. UNCHANGED <<lock, main, timer, sig>> /\ events # <<>> /\ events' = Tail(events) /\ Head(events) = Exit
    BY <1>3 DEF ExitDetected, sigVars
  <2>2. tw \in Stopped
    BY <2>1, EventTaken DEF CtxInv
  <2>3. (active' = FALSE /\ ctxDone' = TRUE) \/ UNCHANGED <<active, ctxDone>>
    BY <1>3 DEF ExitDetected
  <2> QED
    BY <1>0, <2>1, <2>2, <2>3 DEF CtxInv, Graceful
<1>4. CASE MainCancelled \/ RegularExportsDone
  BY <1>0, <1>4 DEF MainCancelled, RegularExportsDone, CtxInv, Graceful, shared, sigVars
<1>5. CASE Flushed
  <2>1. main' = "exited" /\ main = "flush" /\ UNCHANGED <<events, active, ctxDone, sig, timer>>
    BY <1>5 DEF Flushed, sigVars
  <2>2. lock' = IF lock = "pcapfsn" THEN "free" ELSE lock
    BY <1>5 DEF Flushed
  <2> QED
    BY <1>0, <2>1, <2>2 DEF CtxInv, Graceful, Stopped
<1>6. CASE FsnSignal \/ LockGivenUp
  <2>1. UNCHANGED <<lock, main, ctxDone, active, events>> /\ sig' # "none"
    BY <1>6 DEF FsnSignal, LockGivenUp, shared
  <2>2. timer' = timer \/ (sig = "none" /\ timer' = "armed")
    BY <1>6 DEF FsnSignal, LockGivenUp
  <2> QED
    BY <1>0, <2>1, <2>2 DEF CtxInv, Graceful
<1>7. CASE LockAcquired
  <2>1. main # "exited" /\ lock = "free" /\ lock' = "pcapfsn" /\ sig' = "end" /\ UNCHANGED <<events, main>>
    BY <1>7 DEF LockAcquired
  <2>2. tw \in Stopped \cup {"start"}
    BY <2>1 DEF CtxInv, Stopped, TypeOK, TwTypeOK
  <2>3. active' = FALSE /\ (ctxDone' <=> ctxDone \/ active) /\ timer' = IF active THEN "stopped" ELSE timer
    BY <1>7 DEF LockAcquired
  <2>4. Graceful' => tw' \in Stopped \/ (tw' = "start" /\ lock' = "pcapfsn")
    BY <1>0, <2>1, <2>2
  <2>5. CASE active
    BY <1>0, <2>1, <2>2, <2>3, <2>4, <2>5 DEF CtxInv, Stopped
  <2>6. CASE ~active
    BY <1>0, <2>1, <2>2, <2>3, <2>4, <2>6 DEF CtxInv, Stopped
  <2> QED
    BY <2>5, <2>6
<1>8. CASE TimerFires
  <2>1. UNCHANGED <<lock, sig, events, main>> /\ timer = "armed"
    BY <1>8 DEF TimerFires, shared
  <2>2. active' = FALSE /\ (ctxDone' <=> ctxDone \/ active) /\ timer' = IF active THEN "fired" ELSE "late"
    BY <1>8 DEF TimerFires
  <2> QED
    BY <1>0, <2>1, <2>2 DEF CtxInv, Graceful
<1> QED
  BY Zenon, <1>1, <1>2, <1>3, <1>4, <1>5, <1>6, <1>7, <1>8 DEF FsnNext, ExportStep

\* Steps of tcpdumpw.
LEMMA CtxTw ==
  ASSUME TypeOK, CountInv, RunInv, OpenInv, CtxInv, TwNext
  PROVE  CtxInv'
<1>0. UNCHANGED <<main, ctxDone, active, timer, sig>>
  BY Zenon DEF TwNext, fsnFrame, fsnVars, sigVars
<1>1. CASE TryLock /\ Dependency
  <2>1. events' = events /\ tw = "start"
    BY <1>1 DEF TryLock
  <2>2. CASE lock = "free"
    BY <1>0, <1>1, <2>1, <2>2 DEF TryLock, CtxInv, Graceful, Dependency, Stopped
  <2>3. CASE lock # "free"
    BY <1>0, <1>1, <2>1, <2>3 DEF TryLock, CtxInv, Graceful, Stopped
  <2> QED
    BY <2>2, <2>3
<1>2. CASE Unlock \/ Crash
  <2>1. /\ tw' \in Stopped \ {"unlock"} /\ events' = events
        /\ lock' = IF lock = "tcpdumpw" THEN "free" ELSE lock
    BY <1>2 DEF Unlock, Crash, Stopped, CtxInv
  <2> QED
    BY <1>0, <2>1 DEF CtxInv, Graceful, Stopped
<1>3. CASE SignalExit
  BY <1>0, <1>3 DEF SignalExit, CtxInv, Graceful, Stopped
<1>4. CASE JobLeft \/ SchedulerStops \/ EnginesStopped \/ TwExit
  <2>1. /\ tw' = tw \/ tw' \in Stopped \/ tw \notin Stopped \cup {"start"}
        /\ tw' = tw \/ (tw = "listener" /\ tw' = "exited") \/ {tw, tw'} \subseteq {"capture", "wait", "rotate"}
        /\ UNCHANGED <<lock, events>>
    BY <1>4 DEF JobLeft, SchedulerStops, EnginesStopped, TwExit, Stopped, shared
  <2> QED
    BY Zenon, <1>0, <2>1 DEF CtxInv, Graceful, Stopped
<1>5. CASE SendDeadline \/ Schedule \/ TwSignal \/ DurationOver \/ Listen \/ Dial \/ Accept
  <2>1. UNCHANGED <<tw, lock, events>>
    BY <1>5, Zenon DEF SendDeadline, Schedule, TwSignal, DurationOver, Listen, Dial, Accept, shared
  <2> QED
    BY <1>0, <2>1 DEF CtxInv, Graceful
<1>6. ASSUME NEW k \in Keys,
             \/ Rotate(k) \/ CloseWriter(k)
             \/ \E r \in Runs :
                  EngineStarts(k, r) \/ EngineStopping(k, r) \/ EngineDeadline(k, r) \/ EngineStopped(k, r)
      PROVE  CtxInv'
  <2>1. UNCHANGED <<tw, lock>>
    BY <1>6, Zenon DEF Rotate, CloseWriter, EngineStarts, EngineStopping, EngineDeadline, EngineStopped, shared
  <2>2. events' = events \/ (current[k] < MaxFiles /\ events' = Append(events, <<k, current[k] + 1>>))
    BY <1>6, Zenon DEF Rotate, CloseWriter, EngineStarts, EngineStopping, EngineDeadline, EngineStopped, shared, NewCapture
  <2>3. current[k] < MaxFiles => <<k, current[k] + 1>> \in Files
    BY DirAssumption, FilePair DEF TypeOK, TwTypeOK
  <2>4. \A i \in 1..Len(events') : events'[i] = Exit => tw \in Stopped
    BY Zenon, <2>2, <2>3, EventAdded DEF CtxInv
  <2> QED
    BY <1>0, <2>1, <2>4 DEF CtxInv, Graceful
<1> QED
  BY <1>1, <1>2, <1>3, <1>4, <1>5, <1>6, Zenon DEF TwNext

\* What is known of tcpdumpw, of captures being written and of termination.
TerminationInv == TypeOK /\ LoopInv /\ CountInv /\ RunInv /\ OpenInv /\ CtxInv

LEMMA TerminationInvariant == Spec => []TerminationInv
<1>1. Init => TerminationInv
  BY TypeInit, EnginesInit, OpenInit, CtxInit DEF TerminationInv
<1>2. TerminationInv /\ ActiveInv /\ [Next]_vars => TerminationInv' /\ ActiveInv'
  <2> SUFFICES ASSUME TerminationInv, ActiveInv, [Next]_vars
               PROVE  TerminationInv' /\ ActiveInv'
    OBVIOUS
  <2>1. TypeOK' /\ LoopInv' /\ CountInv' /\ RunInv' /\ ActiveInv' /\ OpenInv'
    BY TypeNext, EnginesNext, OpenNext DEF TerminationInv
  <2>2. CtxInv'
    <3>1. CASE UNCHANGED vars
      BY <3>1 DEF vars, shared, fsnVars, twVars, sigVars, TerminationInv, CtxInv, Graceful
    <3> QED
      BY <3>1, CtxFsn, CtxTw DEF TerminationInv, Next
  <2> QED
    BY <2>1, <2>2 DEF TerminationInv
<1>3. Init => ActiveInv
  BY EnginesInit
<1> QED
  BY <1>1, <1>2, <1>3, PTL DEF Spec

\* Between a graceful cancel and the exit of pcapfsn no capture is being
\* written: a flush never reads one half-way, however many series there are.
THEOREM FlushIsSafe == Spec => []FlushReadsFinished
<1>1. TerminationInv => FlushReadsFinished
  BY FilePair DEF TerminationInv, CtxInv, OpenInv, FlushReadsFinished
<1> QED
  BY <1>1, TerminationInvariant, PTL

-----------------------------------------------------------------------------
\* Series of captures and their events

\* The captures of a series exist up to the current one; only those before it
\* may have been deleted.
CaptureInv ==
  \A f \in Files :
    /\ f[2] > current[f[1]] => src[f] = "absent"
    /\ f[2] < current[f[1]] => src[f] \in {"complete", "deleted"}
    /\ f[2] = current[f[1]] => src[f] \in {"open", "complete"}

\* Events are reported in the order of the captures, and what the loop has
\* taken is behind what is still to come.
Ahead(f) ==
  /\ f[2] <= current[f[1]]
  /\ \A i \in 1..Len(events) : events[i] \in Files /\ events[i][1] = f[1] => f[2] < events[i][2]
OrderedEvents ==
  /\ \A i \in 1..Len(events) : events[i] \in Files => events[i][2] <= current[events[i][1]]
  /\ \A i, j \in 1..Len(events) :
       i < j /\ events[i] \in Files /\ events[j] \in Files /\ events[i][1] = events[j][1]
         => events[i][2] < events[j][2]

\* The loop moves the capture before the one it was told of, and has deleted
\* none but those before.
InHand(f) == loop = "export" /\ Source(Loop) = f
LastInv ==
  /\ \A k \in Keys : last[k] # NoFile => last[k][1] = k /\ Ahead(last[k])
  /\ loop = "export" => last[task[1]][2] < task[2] /\ Ahead(task)
DeletedInv ==
  \A f \in Files :
    src[f] = "deleted" => /\ last[f[1]] # NoFile
                          /\ f[2] < last[f[1]][2] \/ InHand(f)

SeriesInv == CaptureInv /\ OrderedEvents /\ LastInv /\ DeletedInv

\* What a step of tcpdumpw does to captures, by series: it finishes the
\* current one, it may add one, and it may tell of it.
LEMMA TwCaptures ==
  ASSUME TypeOK, CaptureInv, TwNext
  PROVE  /\ \A f \in Files :
              \/ src'[f] = src[f]
              \/ src[f] = "open" /\ src'[f] = "complete"
              \/ src[f] = "absent" /\ src'[f] \in {"open", "complete"}
         /\ CaptureInv'
<1>1. /\ \A f \in Files : f[1] \in Keys /\ f[2] \in 1..MaxFiles /\ f = <<f[1], f[2]>>
      /\ current \in [Keys -> 0..MaxFiles] /\ MaxFiles \in Nat
  BY FilePair, DirAssumption DEF TypeOK, TwTypeOK
<1>2. ASSUME NEW k \in Keys, NewCapture(k)
      PROVE  \A f \in Files : /\ \/ src'[f] = src[f]
                                 \/ src[f] = "open" /\ src'[f] = "complete"
                                 \/ src[f] = "absent" /\ src'[f] \in {"open", "complete"}
                              /\ f[2] > current'[f[1]] => src'[f] = "absent"
                              /\ f[2] < current'[f[1]] => src'[f] \in {"complete", "deleted"}
                              /\ f[2] = current'[f[1]] => src'[f] \in {"open", "complete"}
  BY <1>1, <1>2, NewEffect DEF CaptureInv
<1>3. ASSUME NEW k \in Keys, CloseWriter(k)
      PROVE  \A f \in Files : /\ \/ src'[f] = src[f]
                                 \/ src[f] = "open" /\ src'[f] = "complete"
                                 \/ src[f] = "absent" /\ src'[f] \in {"open", "complete"}
                              /\ f[2] > current'[f[1]] => src'[f] = "absent"
                              /\ f[2] < current'[f[1]] => src'[f] \in {"complete", "deleted"}
                              /\ f[2] = current'[f[1]] => src'[f] \in {"open", "complete"}
  BY <1>1, <1>3, CloseEffect DEF CaptureInv
<1>4. ASSUME NEW k \in Keys, src' = Finish(k), current' = current
      PROVE  \A f \in Files : /\ \/ src'[f] = src[f]
                                 \/ src[f] = "open" /\ src'[f] = "complete"
                                 \/ src[f] = "absent" /\ src'[f] \in {"open", "complete"}
                              /\ f[2] > current'[f[1]] => src'[f] = "absent"
                              /\ f[2] < current'[f[1]] => src'[f] \in {"complete", "deleted"}
                              /\ f[2] = current'[f[1]] => src'[f] \in {"open", "complete"}
  BY <1>1, <1>4, FinishEffect DEF CaptureInv
<1>5. ASSUME Crash
      PROVE  \A f \in Files : /\ \/ src'[f] = src[f]
                                 \/ src[f] = "open" /\ src'[f] = "complete"
                              /\ f[2] > current'[f[1]] => src'[f] = "absent"
                              /\ f[2] < current'[f[1]] => src'[f] \in {"complete", "deleted"}
                              /\ f[2] = current'[f[1]] => src'[f] \in {"open", "complete"}
  BY <1>1, <1>5 DEF Crash, CaptureInv, TypeOK, DirTypeOK
<1>6. \/ UNCHANGED <<src, current>>
      \/ Crash
      \/ \E k \in Keys : NewCapture(k) \/ CloseWriter(k) \/ (src' = Finish(k) /\ current' = current)
  BY Zenon DEF TwNext, TryLock, SendDeadline, JobLeft, Schedule, SchedulerStops, EnginesStopped,
     SignalExit, Unlock, TwExit, TwSignal, DurationOver, Listen, Dial, Accept, EngineStarts, Rotate,
     EngineStopping, EngineDeadline, EngineStopped, shared
<1>7. CASE UNCHANGED <<src, current>>
  BY <1>7 DEF CaptureInv
<1>8. CASE Crash
  BY Zenon, <1>5, <1>8 DEF CaptureInv
<1>9. CASE \E k \in Keys : NewCapture(k) \/ CloseWriter(k) \/ (src' = Finish(k) /\ current' = current)
  BY Zenon, <1>2, <1>3, <1>4, <1>9 DEF CaptureInv
<1> QED
  BY <1>6, <1>7, <1>8, <1>9

\* What it does to the numbers of captures and to events.
LEMMA TwEvents ==
  ASSUME TypeOK, TwNext
  PROVE  /\ \A k \in Keys : current[k] \in Int /\ current'[k] \in Int /\ current[k] <= current'[k]
         /\ \/ events' = events \/ events' = Append(events, Exit)
            \/ \E f \in Files : f[2] = current[f[1]] + 1 /\ f[2] = current'[f[1]] /\ events' = Append(events, f)
<1>1. current \in [Keys -> 0..MaxFiles] /\ MaxFiles \in Nat
  BY DirAssumption DEF TypeOK, TwTypeOK
<1>2. ASSUME NEW k \in Keys, current[k] < MaxFiles, current' = [current EXCEPT ![k] = @ + 1],
             events' = Append(events, <<k, current[k] + 1>>)
      PROVE  /\ \A j \in Keys : current'[j] \in Int /\ current[j] <= current'[j]
             /\ \E f \in Files : f[2] = current[f[1]] + 1 /\ f[2] = current'[f[1]] /\ events' = Append(events, f)
  <2>1. <<k, current[k] + 1>> \in Files
    BY <1>1, <1>2, FilePair
  <2>2. current'[k] = current[k] + 1 /\ \A j \in Keys : j # k => current'[j] = current[j]
    BY <1>1, <1>2
  <2>3. \A j \in Keys : current'[j] \in Int /\ current[j] <= current'[j]
    BY <1>1, <2>2
  <2> QED
    BY <1>2, <2>1, <2>2, <2>3
<1>3. \/ current' = current /\ (events' = events \/ events' = Append(events, Exit))
      \/ \E k \in Keys : /\ current[k] < MaxFiles /\ current' = [current EXCEPT ![k] = @ + 1]
                         /\ events' = Append(events, <<k, current[k] + 1>>)
  BY Zenon DEF TwNext, TryLock, SendDeadline, JobLeft, Schedule, SchedulerStops, EnginesStopped,
     SignalExit, Unlock, TwExit, TwSignal, DurationOver, Listen, Dial, Accept, EngineStarts, Rotate,
     EngineStopping, EngineDeadline, EngineStopped, CloseWriter, NewCapture, Crash, shared
<1>4. CASE current' = current /\ (events' = events \/ events' = Append(events, Exit))
  BY <1>1, <1>4
<1>5. CASE \E k \in Keys : /\ current[k] < MaxFiles /\ current' = [current EXCEPT ![k] = @ + 1]
                           /\ events' = Append(events, <<k, current[k] + 1>>)
  <2>1. /\ \A j \in Keys : current'[j] \in Int /\ current[j] <= current'[j]
        /\ \E f \in Files : f[2] = current[f[1]] + 1 /\ f[2] = current'[f[1]] /\ events' = Append(events, f)
    BY Zenon, <1>2, <1>5
  <2> QED
    BY <1>1, <2>1
<1> QED
  BY <1>3, <1>4, <1>5

\* An event is added at the end.
LEMMA EventLast ==
  ASSUME TypeOK, NEW e \in Files \cup {Exit}, events' = Append(events, e)
  PROVE  \A i \in 1..Len(events') :
           (i \in 1..Len(events) /\ events'[i] = events[i]) \/ (i = Len(events) + 1 /\ events'[i] = e)
BY DEF TypeOK, DirTypeOK

\* Steps of tcpdumpw keep captures and their events in order.
LEMMA SeriesTw ==
  ASSUME TypeOK, LoopInv, SeriesInv, TwNext
  PROVE  SeriesInv'
<1>0. UNCHANGED <<loop, task, last>>
  BY Zenon DEF TwNext, fsnFrame, fsnVars, loopVars
<1>1. \A f \in Files : f[1] \in Keys /\ f[2] \in Int /\ current[f[1]] \in Int /\ current'[f[1]] \in Int
                       /\ current[f[1]] <= current'[f[1]]
  BY FilePair, TwEvents
<1>2. ASSUME events' = events \/ events' = Append(events, Exit)
      PROVE  OrderedEvents' /\ \A f \in Files : Ahead(f) => Ahead(f)'
  <2>1. \A i \in 1..Len(events') : events'[i] \in Files => i \in 1..Len(events) /\ events'[i] = events[i]
    BY <1>2, EventLast, Markers
  <2>2. \A f \in Files : Ahead(f) => Ahead(f)'
    BY <1>1, <2>1 DEF Ahead
  <2>3. OrderedEvents'
    <3>1. \A i \in 1..Len(events') : events'[i] \in Files => events'[i][2] <= current'[events'[i][1]]
      BY <1>1, <2>1 DEF SeriesInv, OrderedEvents
    <3>2. \A i, j \in 1..Len(events') :
            i < j /\ events'[i] \in Files /\ events'[j] \in Files /\ events'[i][1] = events'[j][1]
              => events'[i][2] < events'[j][2]
      BY <2>1 DEF SeriesInv, OrderedEvents
    <3> QED
      BY <3>1, <3>2 DEF OrderedEvents
  <2> QED
    BY <2>2, <2>3
<1>3. ASSUME NEW g \in Files, g[2] = current[g[1]] + 1, g[2] = current'[g[1]], events' = Append(events, g)
      PROVE  OrderedEvents' /\ \A f \in Files : Ahead(f) => Ahead(f)'
  <2>1. g[2] = current[g[1]] + 1 /\ g[2] = current'[g[1]] /\ events' = Append(events, g)
    BY <1>3
  <2>2. \A i \in 1..Len(events') :
          (i \in 1..Len(events) /\ events'[i] = events[i]) \/ (i = Len(events) + 1 /\ events'[i] = g)
    BY <2>1, EventLast
  <2>3. \A f \in Files : Ahead(f) => Ahead(f)'
    BY <1>1, <2>1, <2>2 DEF Ahead
  <2>4. OrderedEvents'
    <3>1. Len(events) \in Nat
      BY DEF TypeOK, DirTypeOK
    <3>2. \A i \in 1..Len(events) : events[i] \in Files => events[i][2] <= current[events[i][1]]
      BY DEF SeriesInv, OrderedEvents
    <3>3. \A i \in 1..Len(events') : events'[i] \in Files => events'[i][2] <= current'[events'[i][1]]
      BY <1>1, <2>1, <2>2, <3>2
    <3>4. ASSUME NEW i \in 1..Len(events'), NEW j \in 1..Len(events'), i < j,
                 events'[i] \in Files, events'[j] \in Files, events'[i][1] = events'[j][1]
          PROVE  events'[i][2] < events'[j][2]
      <4>1. CASE j \in 1..Len(events) /\ events'[j] = events[j]
        BY <2>2, <3>1, <3>4, <4>1 DEF SeriesInv, OrderedEvents
      <4>2. CASE j = Len(events) + 1 /\ events'[j] = g
        <5>1. i \in 1..Len(events) /\ events'[i] = events[i]
          BY <2>2, <3>1, <3>4, <4>2
        <5>2. events[i][2] <= current[g[1]]
          BY <3>2, <3>4, <4>2, <5>1
        <5> QED
          BY <1>1, <2>1, <3>4, <4>2, <5>1, <5>2
      <4> QED
        BY <2>2, <4>1, <4>2
    <3> QED
      BY <3>3, <3>4 DEF OrderedEvents
  <2> QED
    BY <2>3, <2>4
<1>4. OrderedEvents' /\ \A f \in Files : Ahead(f) => Ahead(f)'
  BY Zenon, <1>2, <1>3, TwEvents
<1>5. LastInv'
  <2>1. \A k \in Keys : last[k] # NoFile => last[k] \in Files
    BY DEF TypeOK, FsnTypeOK
  <2>2. loop = "export" => task \in Files
    BY DEF LoopInv
  <2> QED
    BY <1>0, <1>4, <2>1, <2>2 DEF SeriesInv, LastInv
<1>6. CaptureInv' /\ \A f \in Files : src'[f] = "deleted" => src[f] = "deleted"
  BY TwCaptures DEF SeriesInv
<1>7. \A f \in Files : InHand(f)' <=> InHand(f)
  BY <1>0 DEF InHand, Source
<1>8. DeletedInv'
  BY Zenon, <1>0, <1>6, <1>7 DEF SeriesInv, DeletedInv
<1> QED
  BY Zenon, <1>4, <1>5, <1>6, <1>8 DEF SeriesInv

-----------------------------------------------------------------------------
\* Exports

\* Exports of the flush start only after the regular ones, for captures that
\* exist, and never delete one.
JobInv ==
  /\ \A w \in Workers : job[w] = "remove" => w = Loop
  /\ \A w \in Workers : job[w] \in {"idle", "create", "done"} => buf[w] = "empty"
  /\ main \in {"wait", "await", "walk"} => \A f \in Files : job[f] = "idle"
  /\ main = "exited" => loop # "export"
  /\ \A f \in Files : job[f] # "idle" => src[f] # "absent"

\* Steps of pcapfsn that no export and no capture is concerned with.
Quiet == LoopCheck \/ LoopEnds \/ MainCancelled \/ RegularExportsDone \/ FsnSignal \/ LockAcquired
         \/ LockGivenUp \/ TimerFires \/ ExitDetected \/ FlushExpires \/ Flushed

LEMMA QuietFrame ==
  ASSUME Quiet
  PROVE  /\ UNCHANGED <<src, task, last, job, buf, faulty, gcs, exporter>>
         /\ loop' = loop \/ (loop # "export" /\ loop' # "export")
         /\ events' = events \/ (events # <<>> /\ events' = Tail(events))
         /\ \/ main' = main \/ (main' = "exited" /\ loop' # "export")
            \/ main \in {"wait", "await"} /\ main' \in {"await", "walk"}
<1>1. ASSUME \/ LoopCheck \/ LoopEnds \/ MainCancelled \/ RegularExportsDone
             \/ FsnSignal \/ LockGivenUp \/ FlushExpires \/ TimerFires
      PROVE  UNCHANGED <<src, events, task, last, job, buf, faulty, gcs, exporter>>
  BY Zenon, <1>1 DEF LoopCheck, LoopEnds, MainCancelled, RegularExportsDone, FsnSignal, LockGivenUp,
     FlushExpires, TimerFires, shared, jobVars, loopVars
<1>2. ASSUME LockAcquired \/ ExitDetected \/ Flushed
      PROVE  /\ UNCHANGED <<src, task, last, job, buf, faulty, gcs, exporter>>
             /\ events' = events \/ (events # <<>> /\ events' = Tail(events))
  BY Zenon, <1>2 DEF LockAcquired, ExitDetected, Flushed, shared, jobVars, loopVars
<1>3. ASSUME LoopCheck \/ LoopEnds \/ ExitDetected
      PROVE  loop \in {"check", "select"} /\ loop' \in {"select", "check", "end"} /\ main' = main
  BY <1>3 DEF LoopCheck, LoopEnds, ExitDetected
<1>4. ASSUME \/ MainCancelled \/ RegularExportsDone \/ FsnSignal \/ LockAcquired \/ LockGivenUp
             \/ TimerFires \/ FlushExpires \/ Flushed
      PROVE  /\ loop' = loop
             /\ \/ main' = main \/ (main' = "exited" /\ loop' # "export")
                \/ main \in {"wait", "await"} /\ main' \in {"await", "walk"}
  BY Zenon, <1>4 DEF MainCancelled, RegularExportsDone, FsnSignal, LockAcquired, LockGivenUp,
     TimerFires, FlushExpires, Flushed, loopVars
<1> QED
  BY <1>1, <1>2, <1>3, <1>4 DEF Quiet

\* Steps of an export leave the loop and its captures alone, except that the
\* loop's own may delete the one it moves.
LEMMA ExportFrame ==
  ASSUME TypeOK, JobInv, NEW w \in Workers, ExportStep(w)
  PROVE  /\ UNCHANGED <<loop, task, last, events, main, exporter, ctxDone, flushCtx, timer, loopCtx>>
         /\ main # "exited" /\ job[w] # "idle" /\ job'[w] # "idle"
         /\ \A v \in Workers : v # w => job'[v] = job[v] /\ buf'[v] = buf[v]
         /\ \/ src' = src
            \/ w = Loop /\ job[w] = "remove" /\ src' = [src EXCEPT ![Source(Loop)] = "deleted"]
         /\ job'[w] = "remove" => w = Loop
         /\ job'[w] # "create"
         /\ job'[w] = "done" => buf'[w] = "empty"
<1>1. /\ UNCHANGED <<loop, task, last, events, main, exporter, ctxDone, flushCtx, timer, loopCtx>>
      /\ main # "exited" /\ job[w] # "idle"
  BY DEF ExportStep, CreateTarget, CopySource, CopyFails, CopyExpired, RemoveSource,
     CloseTarget, shared, loopVars, sigVars
<1>2. /\ job \in [Workers -> {"idle", "create", "copy", "remove", "close", "done"}]
      /\ buf \in [Workers -> Contents]
  BY DEF TypeOK, FsnTypeOK
<1>3. \/ job' = job \/ \E step \in {"copy", "remove", "close", "done"} : job' = [job EXCEPT ![w] = step]
  BY Zenon DEF ExportStep, CreateTarget, CopySource, CopyFails, CopyExpired, RemoveSource,
     CloseTarget, Step
<1>4. buf' = buf \/ \E b : buf' = [buf EXCEPT ![w] = b]
  BY Zenon DEF ExportStep, CreateTarget, CopySource, CopyFails, CopyExpired, RemoveSource,
     CloseTarget
<1>5. \A v \in Workers : v # w => job'[v] = job[v] /\ buf'[v] = buf[v]
  BY <1>2, <1>3, <1>4
<1>6. \/ src' = src
      \/ w = Loop /\ job[w] = "remove" /\ src' = [src EXCEPT ![Source(Loop)] = "deleted"]
  BY Zenon DEF ExportStep, CreateTarget, CopySource, CopyFails, CopyExpired, RemoveSource,
     CloseTarget, shared, JobInv
<1>7. /\ job'[w] \notin {"idle", "create"} /\ (job'[w] = "remove" => w = Loop)
      /\ job'[w] = "done" => buf'[w] = "empty"
  <2>1. CASE CreateTarget(w)
    BY <1>2, <2>1 DEF CreateTarget, Step, JobInv
  <2>2. CASE CopySource(w)
    BY <1>2, <2>2 DEF CopySource, Step
  <2>3. CASE CopyFails(w)
    BY <1>2, <2>3 DEF CopyFails, Step
  <2>4. CASE CopyExpired(w) \/ RemoveSource(w)
    BY <1>2, <2>4 DEF CopyExpired, RemoveSource, Step
  <2>5. CASE CloseTarget(w)
    BY <1>2, <2>5 DEF CloseTarget, Step
  <2> QED
    BY Zenon, <2>1, <2>2, <2>3, <2>4, <2>5 DEF ExportStep
<1> QED
  BY Zenon, <1>1, <1>5, <1>6, <1>7

\* Initially there are no captures and no exports.
LEMMA ExportInit == Init => SeriesInv /\ JobInv
<1> SUFFICES ASSUME Init PROVE SeriesInv /\ JobInv
  OBVIOUS
<1>1. /\ \A f \in Files : src[f] = "absent" /\ f[1] \in Keys /\ f[2] \in 1..MaxFiles
      /\ events = <<>> /\ loop = "check" /\ main = "wait"
  BY FilePair DEF Init, DirInit, FsnInit
<1>2. \A k \in Keys : current[k] = 0 /\ last[k] = NoFile
  BY DEF Init, FsnInit, TwInit
<1>3. \A w \in Workers : job[w] = "idle" /\ buf[w] = "empty"
  BY DEF Init, FsnInit
<1>4. SeriesInv
  BY <1>1, <1>2 DEF SeriesInv, CaptureInv, OrderedEvents, LastInv, DeletedInv
<1>5. JobInv
  BY <1>1, <1>3 DEF JobInv, Workers
<1> QED
  BY <1>4, <1>5

\* The loop takes events in their order.
LEMMA EventsBehind ==
  ASSUME TypeOK, OrderedEvents, current' = current,
         events' = events \/ (events # <<>> /\ events' = Tail(events))
  PROVE  OrderedEvents' /\ \A f \in Files : Ahead(f) => Ahead(f)'
<1>1. CASE events' = events
  BY <1>1 DEF OrderedEvents, Ahead
<1>2. CASE events # <<>> /\ events' = Tail(events)
  <2>1. /\ Len(events) \in Nat /\ Len(events') \in Nat
        /\ \A i \in 1..Len(events') : i + 1 \in 1..Len(events) /\ events'[i] = events[i + 1]
    BY Zenon, <1>2, EventTaken
  <2>2. \A f \in Files : Ahead(f) => Ahead(f)'
    BY Zenon, <2>1 DEF Ahead
  <2>3. \A i \in 1..Len(events') : events'[i] \in Files => events'[i][2] <= current'[events'[i][1]]
    BY Zenon, <2>1 DEF OrderedEvents
  <2>4. ASSUME NEW i \in 1..Len(events'), NEW j \in 1..Len(events'), i < j,
               events'[i] \in Files, events'[j] \in Files, events'[i][1] = events'[j][1]
        PROVE  events'[i][2] < events'[j][2]
    <3>1. i + 1 < j + 1
      BY <2>1, <2>4
    <3> QED
      BY Zenon, <2>1, <2>4, <3>1 DEF OrderedEvents
  <2> QED
    BY <2>2, <2>3, <2>4 DEF OrderedEvents
<1> QED
  BY <1>1, <1>2

\* The capture the loop is told of is behind the events that follow.
LEMMA HeadBehind ==
  ASSUME TypeOK, OrderedEvents, current' = current, events # <<>>, events' = Tail(events),
         NEW f \in Files, f = Head(events)
  PROVE  Ahead(f)'
<1>1. /\ Len(events) \in Nat \ {0} /\ Len(events') \in Nat /\ events[1] = f
      /\ \A i \in 1..Len(events') : i + 1 \in 1..Len(events) /\ events'[i] = events[i + 1]
  BY Zenon, EventTaken
<1>2. f[2] <= current'[f[1]]
  BY <1>1 DEF OrderedEvents
<1>3. ASSUME NEW i \in 1..Len(events'), events'[i] \in Files, events'[i][1] = f[1]
      PROVE  f[2] < events'[i][2]
  <2>1. 1 \in 1..Len(events) /\ i + 1 \in 1..Len(events) /\ 1 < i + 1
    BY <1>1
  <2> QED
    BY <1>1, <1>3, <2>1 DEF OrderedEvents
<1> QED
  BY <1>2, <1>3 DEF Ahead

\* Steps of pcapfsn keep captures and their events in order.
LEMMA SeriesFsn ==
  ASSUME TypeOK, LoopInv, JobInv, SeriesInv, FsnNext
  PROVE  SeriesInv'
<1>0. current' = current
  BY DEF FsnNext, twFrame, twVars
<1>1. /\ \A f \in Files : f[1] \in Keys /\ f[2] \in Int /\ current[f[1]] \in Int
      /\ \A k \in Keys : last[k] # NoFile => last[k] \in Files
      /\ last \in [Keys -> Files \cup {NoFile}]
      /\ loop = "export" => task \in Files /\ last[task[1]] \in Files
  BY FilePair DEF TypeOK, FsnTypeOK, TwTypeOK, LoopInv
<1>2. ASSUME Quiet \/ FlushSrcDir
      PROVE  SeriesInv'
  <2>1. /\ UNCHANGED <<src, task, last>>
        /\ loop' = loop \/ (loop # "export" /\ loop' # "export")
        /\ events' = events \/ (events # <<>> /\ events' = Tail(events))
    BY <1>2, QuietFrame DEF FlushSrcDir, shared, loopVars
  <2>2. OrderedEvents' /\ \A f \in Files : Ahead(f) => Ahead(f)'
    BY Zenon, <1>0, <2>1, EventsBehind DEF SeriesInv
  <2>3. \A f \in Files : InHand(f)' <=> InHand(f)
    BY <2>1 DEF InHand, Source
  <2>4. CaptureInv' /\ DeletedInv'
    BY <1>0, <2>1, <2>3 DEF SeriesInv, CaptureInv, DeletedInv
  <2>5. LastInv'
    BY <1>1, <2>1, <2>2 DEF SeriesInv, LastInv
  <2> QED
    BY <2>2, <2>4, <2>5 DEF SeriesInv
<1>3. ASSUME NEW w \in Workers, ExportStep(w)
      PROVE  SeriesInv'
  <2>1. UNCHANGED <<loop, task, last, events>> /\ job[w] # "idle"
    BY Zenon, <1>3, ExportFrame
  <2>2. OrderedEvents' /\ LastInv'
    BY Zenon, <1>0, <2>1 DEF SeriesInv, OrderedEvents, LastInv, Ahead
  <2>3. \A f \in Files : InHand(f)' <=> InHand(f)
    BY <2>1 DEF InHand, Source
  <2>4. CASE src' = src
    BY <1>0, <2>1, <2>2, <2>3, <2>4 DEF SeriesInv, CaptureInv, DeletedInv
  <2>5. CASE w = Loop /\ src' = [src EXCEPT ![Source(Loop)] = "deleted"]
    <3>1. loop = "export"
      BY <2>1, <2>5 DEF LoopInv
    <3>2. PICK g \in Files : g = Source(Loop)
      BY <1>1, <3>1 DEF Source
    <3>3. g[1] = task[1] /\ g[2] < current[g[1]] /\ InHand(g) /\ last[g[1]] # NoFile
      BY <1>1, <3>1, <3>2, Markers DEF SeriesInv, LastInv, Ahead, Source, InHand
    <3>4. src'[g] = "deleted" /\ \A f \in Files : f # g => src'[f] = src[f]
      BY Zenon, <2>5, <3>2 DEF TypeOK, DirTypeOK
    <3>5. CaptureInv' 
      BY <1>0, <1>1, <3>3, <3>4 DEF SeriesInv, CaptureInv
    <3>6. DeletedInv'
      BY <2>1, <2>3, <3>3, <3>4 DEF SeriesInv, DeletedInv
    <3> QED
      BY Zenon, <2>2, <3>5, <3>6 DEF SeriesInv
  <2> QED
    BY <1>3, <2>4, <2>5, ExportFrame
<1>4. ASSUME CaptureCreated
      PROVE  SeriesInv'
  <2>1. loop = "select" /\ events # <<>> /\ events' = Tail(events) /\ src' = src
    BY <1>4 DEF CaptureCreated
  <2>2. PICK f \in Files : f = Head(events)
    BY <1>4 DEF CaptureCreated
  <2>3. OrderedEvents' /\ Ahead(f)' /\ \A g \in Files : Ahead(g) => Ahead(g)'
    BY Zenon, <1>0, <2>1, <2>2, EventsBehind, HeadBehind DEF SeriesInv
  <2>4. CaptureInv'
    BY <1>0, <2>1 DEF SeriesInv, CaptureInv
  <2>5. \A g \in Files : src[g] = "deleted" => last[g[1]] # NoFile /\ g[2] < last[g[1]][2]
    BY <2>1 DEF SeriesInv, DeletedInv, InHand
  <2>6. CASE last[f[1]] = NoFile
    <3>1. last' = [last EXCEPT ![f[1]] = f] /\ loop' = "check"
      BY <1>4, <2>2, <2>6 DEF CaptureCreated
    <3>2. last'[f[1]] = f /\ \A k \in Keys : k # f[1] => last'[k] = last[k]
      BY <1>1, <3>1
    <3>3. LastInv'
      BY Zenon, <1>1, <2>3, <3>1, <3>2 DEF SeriesInv, LastInv
    <3>4. DeletedInv'
      BY Zenon, <1>1, <2>1, <2>5, <2>6, <3>2 DEF DeletedInv
    <3> QED
      BY <2>3, <2>4, <3>3, <3>4 DEF SeriesInv
  <2>7. CASE last[f[1]] # NoFile
    <3>1. last' = last /\ loop' = "export" /\ task' = f
      BY <1>4, <2>2, <2>7 DEF CaptureCreated
    <3>2. last[f[1]][2] < f[2]
      <4>1. 1 \in 1..Len(events) /\ events[1] = f
        BY <2>1, <2>2, EventTaken
      <4>2. last[f[1]][1] = f[1] /\ Ahead(last[f[1]])
        BY <1>1, <2>7 DEF SeriesInv, LastInv
      <4> QED
        BY <4>1, <4>2 DEF Ahead
    <3>3. LastInv'
      BY Zenon, <1>1, <2>3, <3>1, <3>2 DEF SeriesInv, LastInv
    <3>4. DeletedInv'
      BY <2>1, <2>5, <3>1 DEF DeletedInv
    <3> QED
      BY <2>3, <2>4, <3>3, <3>4 DEF SeriesInv
  <2> QED
    BY <2>6, <2>7
<1>5. ASSUME Exported
      PROVE  SeriesInv'
  <2>1. /\ loop = "export" /\ loop' = "check" /\ UNCHANGED <<src, events>>
        /\ last' = [last EXCEPT ![task[1]] = task]
    BY <1>5 DEF Exported, shared
  <2>2. PICK g \in Files : g = last[task[1]]
    BY <1>1, <2>1
  <2>3. task \in Files /\ task[1] \in Keys /\ g[1] = task[1] /\ g[2] < task[2] /\ Ahead(task)
    BY <1>1, <2>1, <2>2, Markers DEF SeriesInv, LastInv
  <2>4. last'[task[1]] = task /\ \A k \in Keys : k # task[1] => last'[k] = last[k]
    BY Zenon, <1>1, <2>1, <2>3
  <2>5. OrderedEvents' /\ CaptureInv' /\ \A f \in Files : Ahead(f) => Ahead(f)'
    BY <1>0, <2>1 DEF SeriesInv, OrderedEvents, CaptureInv, Ahead
  <2>6. LastInv'
    BY Zenon, <1>1, <2>1, <2>3, <2>4, <2>5 DEF SeriesInv, LastInv
  <2>7. DeletedInv'
    <3> SUFFICES ASSUME NEW f \in Files, src[f] = "deleted"
                 PROVE  last'[f[1]] # NoFile /\ f[2] < last'[f[1]][2]
      BY <2>1 DEF DeletedInv
    <3>1. last[f[1]] # NoFile /\ (f[2] < last[f[1]][2] \/ f = g)
      BY Zenon, <2>2 DEF SeriesInv, DeletedInv, InHand, Source
    <3>2. CASE f[1] = task[1]
      <4>1. f[2] < task[2]
        BY <1>1, <2>2, <2>3, <3>1, <3>2
      <4> QED
        BY Zenon, <2>3, <2>4, <3>2, <4>1, Markers
    <3>3. CASE f[1] # task[1]
      BY Zenon, <1>1, <2>3, <2>4, <3>1, <3>3
    <3> QED
      BY <3>2, <3>3
  <2> QED
    BY <2>5, <2>6, <2>7 DEF SeriesInv
<1> QED
  BY Zenon, <1>2, <1>3, <1>4, <1>5 DEF FsnNext, Quiet, ExportStep

\* What the event loop moves is a finished capture of the series it was told
\* of, or has been deleted by this export.
LEMMA LoopSource ==
  ASSUME TypeOK, LoopInv, SeriesInv, loop = "export"
  PROVE  Source(Loop) \in Files /\ src[Source(Loop)] \in {"complete", "deleted"}
<1>1. PICK g \in Files : g = Source(Loop) /\ g = last[task[1]]
  BY DEF LoopInv, Source
<1>2. /\ task \in Files /\ task[1] \in Keys /\ task[2] \in Int /\ g[2] \in Int /\ current[task[1]] \in Int
  BY FilePair DEF LoopInv, TypeOK, TwTypeOK
<1>3. g[1] = task[1] /\ g[2] < task[2] /\ task[2] <= current[task[1]]
  BY <1>1, <1>2, Markers DEF SeriesInv, LastInv, Ahead
<1> QED
  BY <1>1, <1>2, <1>3 DEF SeriesInv, CaptureInv

\* Every step keeps what is known of exports.
LEMMA JobNext ==
  ASSUME TypeOK, LoopInv, SeriesInv, JobInv, [Next]_vars
  PROVE  JobInv'
<1>0. /\ job \in [Workers -> {"idle", "create", "copy", "remove", "close", "done"}]
      /\ Loop \in Workers /\ Loop \notin Files /\ Files \subseteq Workers
  BY Markers DEF TypeOK, FsnTypeOK, Workers
<1>1. CASE TwNext \/ UNCHANGED vars
  <2>1. UNCHANGED <<job, buf, main, loop>>
    BY Zenon, <1>1 DEF TwNext, fsnFrame, fsnVars, loopVars, jobVars, vars
  <2>2. \A f \in Files : src[f] # "absent" => src'[f] # "absent"
    BY Zenon, <1>1, TwCaptures DEF SeriesInv, vars, shared
  <2> QED
    BY <2>1, <2>2 DEF JobInv
<1>2. CASE Quiet
  BY <1>2, QuietFrame DEF JobInv
<1>3. CASE FlushSrcDir
  <2>1. /\ main' = "flush" /\ UNCHANGED <<loop, src, buf>>
        /\ job' = [w \in Workers |-> IF w # Loop /\ Present(w) THEN "create" ELSE job[w]]
        /\ main = "walk"
    BY <1>3 DEF FlushSrcDir, loopVars, shared
  <2>2. \A w \in Workers : job'[w] = job[w] \/ (job'[w] = "create" /\ Present(w) /\ w # Loop)
    BY <2>1
  <2>3. \A w \in Workers : w # Loop => job[w] = "idle"
    BY Zenon, <2>1 DEF JobInv, Workers
  <2> QED
    BY <1>0, <2>1, <2>2, <2>3 DEF JobInv, Present
<1>4. ASSUME NEW w \in Workers, ExportStep(w)
      PROVE  JobInv'
  <2>1. /\ main # "exited" /\ main' = main /\ job[w] # "idle" /\ job'[w] \notin {"idle", "create"}
        /\ \A v \in Workers : v # w => job'[v] = job[v] /\ buf'[v] = buf[v]
        /\ job'[w] = "remove" => w = Loop
        /\ job'[w] = "done" => buf'[w] = "empty"
    BY <1>4, ExportFrame
  <2>2. \A f \in Files : src[f] # "absent" => src'[f] # "absent"
    <3>1. src \in [Files -> {"absent", "open", "complete", "deleted"}]
      BY Zenon DEF TypeOK, DirTypeOK
    <3>2. src' = src \/ src' = [src EXCEPT ![Source(Loop)] = "deleted"]
      BY Zenon, <1>4, ExportFrame
    <3> QED
      BY <3>1, <3>2
  <2> QED
    BY Zenon, <1>0, <2>1, <2>2 DEF JobInv
<1>5. CASE CaptureCreated \/ Exported
  <2>1. /\ main # "exited" /\ UNCHANGED <<main, buf, src>>
        /\ \/ UNCHANGED job
           \/ job[Loop] \in {"idle", "done"} /\ \E step \in {"create", "idle"} : job' = [job EXCEPT ![Loop] = step]
    BY <1>5 DEF CaptureCreated, Exported, shared, Step, LoopInv
  <2>2. \A f \in Files : job'[f] = job[f]
    BY <1>0, <2>1
  <2>3. \A w \in Workers : job'[w] = job[w] \/ (w = Loop /\ job'[w] \in {"create", "idle"} /\ job[w] \in {"idle", "done"})
    BY <1>0, <2>1
  <2> QED
    BY Zenon, <2>1, <2>2, <2>3 DEF JobInv
<1> QED
  BY Zenon, <1>1, <1>2, <1>3, <1>4, <1>5 DEF Next, FsnNext, Quiet, ExportStep

=============================================================================
