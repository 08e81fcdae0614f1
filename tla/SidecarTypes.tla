---------------------------- MODULE SidecarTypes ----------------------------
(***************************************************************************)
(* Type correctness of tcpdumpw and pcapfsn side by side, and the          *)
(* executions of an engine, for any series of captures, executions of the  *)
(* job, attempts and faults.                                               *)
(***************************************************************************)
EXTENDS Sidecar, TLAPS

\* While the event loop exports, it has a capture in hand and one to move.
LoopInv ==
  /\ loop = "export" <=> job[Loop] # "idle"
  /\ loop = "export" => task \in Files /\ last[task[1]] \in Files

\* What the steps of tcpdumpw need besides the types.
CountInv == received <= sent /\ (tw = "start" => run = 0)

\* Markers are no captures.
LEMMA Markers == Loop \notin Files /\ NoFile \notin Files /\ Exit \notin Files
BY DEF Loop, NoFile, Exit, Files

\* What an export reads is a capture.
LEMMA SourceFile ==
  ASSUME LoopInv, NEW w \in Workers, job[w] # "idle"
  PROVE  Source(w) \in Files
<1>1. CASE w = Loop
  BY <1>1 DEF LoopInv, Source
<1>2. CASE w # Loop
  BY <1>2 DEF Source, Workers
<1> QED
  BY <1>1, <1>2

\* The initial values have their types.
LEMMA TypeInit == Init => TypeOK /\ LoopInv /\ CountInv
<1> SUFFICES ASSUME Init PROVE TypeOK /\ LoopInv /\ CountInv
  OBVIOUS
<1>1. DirTypeOK
  <2>1. src \in [Files -> {"absent", "open", "complete", "deleted"}]
    BY DEF Init, DirInit
  <2>2. events \in Seq(Files \cup {Exit})
    BY DEF Init, DirInit
  <2> QED
    BY <2>1, Zenon, <2>2 DEF Init, DirInit, DirTypeOK
<1>2. FsnTypeOK
  <2>1. /\ last \in [Keys -> Files \cup {NoFile}]
        /\ job \in [Workers -> {"idle", "create", "copy", "remove", "close", "done"}]
    BY DEF Init, FsnInit
  <2>2. attempt \in [Workers -> 0..MaxAttempts - 1]
    BY FsnAssumption DEF Init, FsnInit
  <2>3. buf \in [Workers -> Contents] /\ gcs \in [Objects -> Contents]
    BY DEF Init, FsnInit, Contents
  <2>4. faulty \subseteq Files
    BY Zenon DEF Init, FsnInit
  <2> QED
    BY Zenon, <2>1, <2>2, <2>3, <2>4 DEF Init, FsnInit, FsnTypeOK
<1>3. TwTypeOK /\ CountInv
  <2>1. NumTasks \in Nat
    BY DirAssumption DEF NumTasks
  <2>2. engine \in [Keys \X Runs -> {"off", "launched", "active", "stopping", "deadline", "stopped"}]
    BY DEF Init, TwInit
  <2>3. isActive \in [Keys -> BOOLEAN] /\ stuck \subseteq Keys
    BY Zenon DEF Init, TwInit
  <2>4. current \in [Keys -> 0..MaxFiles]
    BY DirAssumption DEF Init, TwInit
  <2>5. run \in 0..MaxRuns
    BY EnginesAssumption DEF Init, TwInit
  <2>6. sent \in 0..NumTasks /\ received \in 0..NumTasks /\ CountInv
    BY <2>1 DEF Init, TwInit, CountInv
  <2> QED
    BY Zenon, <2>2, <2>3, <2>4, <2>5, <2>6 DEF Init, TwInit, TwTypeOK
<1>4. LoopInv
  BY DEF Init, FsnInit, LoopInv, Workers
<1> QED
  BY <1>1, <1>2, <1>3, <1>4 DEF TypeOK

-----------------------------------------------------------------------------
\* Steps of an export

\* One step of an export.
LEMMA TypeExport ==
  ASSUME TypeOK, LoopInv, NEW w \in Workers, ExportStep(w)
  PROVE  FsnTypeOK' /\ DirTypeOK' /\ LoopInv'
<1>1. job[w] # "idle" /\ Source(w) \in Files
  BY Zenon, SourceFile DEF ExportStep, CreateTarget, CopySource, CopyFails, CopyExpired, RemoveSource, CloseTarget
<1>2. faulty' \subseteq Files
  BY <1>1 DEF ExportStep, CreateTarget, CopySource, CopyFails, CopyExpired, RemoveSource, CloseTarget, Faults, TypeOK, FsnTypeOK
<1>3. /\ job' \in [Workers -> {"idle", "create", "copy", "remove", "close", "done"}]
      /\ \A v \in Workers : job'[v] = "idle" <=> job[v] = "idle"
  <2>1. job \in [Workers -> {"idle", "create", "copy", "remove", "close", "done"}]
    BY DEF TypeOK, FsnTypeOK
  <2>2. job' = job \/ \E s \in {"create", "copy", "remove", "close", "done"} : job' = [job EXCEPT ![w] = s]
    BY DEF ExportStep, CreateTarget, CopySource, CopyFails, CopyExpired, RemoveSource, CloseTarget, Step
  <2> QED
    BY <1>1, <2>1, <2>2
<1>4. attempt' \in [Workers -> 0..MaxAttempts - 1]
  BY FsnAssumption DEF ExportStep, CreateTarget, CopySource, CopyFails, CopyExpired, RemoveSource, CloseTarget, TypeOK, FsnTypeOK
<1>5. buf' \in [Workers -> Contents]
  BY DEF ExportStep, CreateTarget, CopySource, CopyFails, CopyExpired, RemoveSource, CloseTarget, TypeOK, FsnTypeOK, Contents
<1>6. gcs' \in [Objects -> Contents]
  BY DEF ExportStep, CreateTarget, CopySource, CopyFails, CopyExpired, RemoveSource, CloseTarget, TypeOK, FsnTypeOK, Contents
<1>7. DirTypeOK'
  BY DEF ExportStep, CreateTarget, CopySource, CopyFails, CopyExpired, RemoveSource, CloseTarget, TypeOK, DirTypeOK, shared
<1>8. UNCHANGED <<exporter, active, ctxDone, main, flushCtx, loopVars, sigVars>>
  BY DEF ExportStep, CreateTarget, CopySource, CopyFails, CopyExpired, RemoveSource, CloseTarget
<1> QED
  BY <1>2, <1>3, <1>4, <1>5, <1>6, <1>7, <1>8 DEF TypeOK, FsnTypeOK, LoopInv, loopVars, sigVars, Workers

-----------------------------------------------------------------------------
\* The other steps of pcapfsn

\* A step of one process leaves the state of the other alone.
LEMMA TwFrame ==
  ASSUME TwTypeOK, CountInv, UNCHANGED twFrame
  PROVE  TwTypeOK' /\ CountInv'
BY DEF TwTypeOK, CountInv, twFrame, twVars, runVars, NumTasks

LEMMA FsnFrame ==
  ASSUME FsnTypeOK, LoopInv, UNCHANGED fsnFrame
  PROVE  FsnTypeOK' /\ LoopInv'
BY DEF FsnTypeOK, LoopInv, fsnFrame, fsnVars, loopVars, sigVars, jobVars

\* The event loop.
LEMMA TypeLoop ==
  ASSUME TypeOK, LoopInv, LoopCheck \/ CaptureCreated \/ Exported \/ ExitDetected \/ LoopEnds
  PROVE  FsnTypeOK' /\ DirTypeOK' /\ LoopInv'
<1> USE DEF TypeOK, FsnTypeOK, DirTypeOK, LoopInv, loopVars, sigVars, jobVars, shared
<1>1. CASE LoopCheck
  BY <1>1 DEF LoopCheck
<1>2. CASE CaptureCreated
  <2> DEFINE f == Head(events)
  <2>1. f \in Files /\ f[1] \in Keys /\ events' \in Seq(Files \cup {Exit})
    BY <1>2 DEF CaptureCreated, Files
  <2>2. CASE last[f[1]] = NoFile
    <3>1. last' \in [Keys -> Files \cup {NoFile}]
      BY Zenon, <1>2, <2>1, <2>2 DEF CaptureCreated
    <3>2. loop' = "check" /\ loop # "export" /\ UNCHANGED <<task, loopCtx, job>>
      BY Zenon, <1>2, <2>2 DEF CaptureCreated
    <3> HIDE DEF f
    <3> QED
      BY <1>2, <2>1, <3>1, <3>2 DEF CaptureCreated
  <2>3. CASE last[f[1]] # NoFile
    <3>1. task' = f /\ loop' = "export" /\ last' = last /\ loopCtx' \in {"first", "second"}
      BY <1>2, <2>3 DEF CaptureCreated
    <3>2. /\ job' \in [Workers -> {"idle", "create", "copy", "remove", "close", "done"}]
          /\ job'[Loop] = "create"
      BY <1>2, <2>3 DEF CaptureCreated, Step, Workers
    <3>3. last[f[1]] \in Files
      BY <2>1, <2>3
    <3> HIDE DEF f
    <3> QED
      BY <1>2, <2>1, <3>1, <3>2, <3>3 DEF CaptureCreated
  <2> QED
    BY <2>2, <2>3
<1>3. CASE Exported
  <2>1. last' \in [Keys -> Files \cup {NoFile}]
    BY Zenon, <1>3 DEF Exported
  <2>2. /\ job' \in [Workers -> {"idle", "create", "copy", "remove", "close", "done"}]
        /\ job'[Loop] = "idle"
    BY <1>3 DEF Exported, Step, Workers
  <2> QED
    BY <1>3, <2>1, <2>2 DEF Exported
<1>4. CASE ExitDetected
  <2>1. active' \in BOOLEAN /\ ctxDone' \in BOOLEAN /\ exitFile' \in BOOLEAN
    BY <1>4, Zenon DEF ExitDetected
  <2>2. events' \in Seq(Files \cup {Exit})
    BY <1>4 DEF ExitDetected
  <2>3. loop # "export" /\ loop' \in {"check", "end"}
    BY <1>4 DEF ExitDetected
  <2> QED
    BY <1>4, <2>1, <2>2, <2>3 DEF ExitDetected
<1>5. CASE LoopEnds
  BY <1>5 DEF LoopEnds
<1> QED
  BY <1>1, <1>2, <1>3, <1>4, <1>5

\* Signals, the timer and the main goroutine.
LEMMA TypeMain ==
  ASSUME TypeOK, LoopInv,
         MainCancelled \/ RegularExportsDone \/ FlushSrcDir \/ FlushExpires \/ Flushed
           \/ FsnSignal \/ LockAcquired \/ LockGivenUp \/ TimerFires
  PROVE  FsnTypeOK' /\ DirTypeOK' /\ LoopInv'
<1> USE DEF TypeOK, FsnTypeOK, DirTypeOK, LoopInv, loopVars, sigVars, jobVars, shared
<1>1. CASE FlushSrcDir
  <2>1. /\ job' \in [Workers -> {"idle", "create", "copy", "remove", "close", "done"}]
        /\ job'[Loop] = job[Loop]
    BY Zenon, <1>1 DEF FlushSrcDir, Workers
  <2> QED
    BY <1>1, <2>1 DEF FlushSrcDir
<1>2. CASE MainCancelled \/ RegularExportsDone \/ FlushExpires \/ Flushed
  BY <1>2 DEF MainCancelled, RegularExportsDone, FlushExpires, Flushed
<1>3. CASE FsnSignal \/ LockAcquired \/ LockGivenUp \/ TimerFires
  <2>1. active' \in BOOLEAN /\ ctxDone' \in BOOLEAN
    BY <1>3, Zenon DEF FsnSignal, LockAcquired, LockGivenUp, TimerFires
  <2>2. /\ timer' \in {"off", "armed", "fired", "late", "stopped"}
        /\ sig' \in {"none", "lock", "end"}
        /\ lock' \in {"free", "tcpdumpw", "pcapfsn"}
    BY Zenon, <1>3 DEF FsnSignal, LockAcquired, LockGivenUp, TimerFires
  <2>3. UNCHANGED <<src, events, exitFile, exporter, main, flushCtx, loopVars, jobVars>>
    BY <1>3 DEF FsnSignal, LockAcquired, LockGivenUp, TimerFires
  <2> QED
    BY <2>1, <2>2, <2>3
<1> QED
  BY Zenon, <1>1, <1>2, <1>3

-----------------------------------------------------------------------------
\* The steps of tcpdumpw

\* The capture of a series after the current one.
LEMMA TypeNew ==
  ASSUME DirTypeOK, TwTypeOK, NEW k \in Keys, NewCapture(k)
  PROVE  /\ src' \in [Files -> {"absent", "open", "complete", "deleted"}]
         /\ events' \in Seq(Files \cup {Exit})
         /\ current' \in [Keys -> 0..MaxFiles]
<1>1. current[k] \in 0..MaxFiles /\ current[k] + 1 \in 1..MaxFiles
  BY DirAssumption DEF TwTypeOK, NewCapture
<1>2. <<k, current[k] + 1>> \in Files
  BY <1>1 DEF Files
<1>3. src' \in [Files -> {"absent", "open", "complete", "deleted"}]
  BY Zenon DEF DirTypeOK, NewCapture, Finish
<1>4. events' \in Seq(Files \cup {Exit})
  BY <1>2 DEF DirTypeOK, NewCapture
<1>5. current' \in [Keys -> 0..MaxFiles]
  BY <1>1, DirAssumption DEF TwTypeOK, NewCapture
<1> QED
  BY <1>3, <1>4, <1>5

\* An execution starts.
LEMMA TypeStart ==
  ASSUME TwTypeOK, StartJob, run < MaxRuns
  PROVE  /\ jobDone' \in BOOLEAN /\ run' \in 0..MaxRuns /\ running' \in BOOLEAN
         /\ engine' \in [Keys \X Runs -> {"off", "launched", "active", "stopping", "deadline", "stopped"}]
         /\ isActive' \in [Keys -> BOOLEAN] /\ stuck' \subseteq Keys
         /\ sent' \in 0..NumTasks /\ received' \in 0..NumTasks /\ received' <= sent'
<1>1. jobDone' \in BOOLEAN /\ running' \in BOOLEAN /\ isActive' \in [Keys -> BOOLEAN] /\ stuck' \subseteq Keys
  BY Zenon DEF StartJob, TwTypeOK
<1>2. run' \in 0..MaxRuns
  BY EnginesAssumption DEF StartJob, TwTypeOK
<1>3. engine' \in [Keys \X Runs -> {"off", "launched", "active", "stopping", "deadline", "stopped"}]
  BY DEF StartJob, TwTypeOK
<1>4. sent' \in 0..NumTasks /\ received' \in 0..NumTasks /\ received' <= sent'
  BY DirAssumption DEF StartJob, NumTasks
<1> QED
  BY <1>1, <1>2, <1>3, <1>4

\* An engine.
LEMMA TypeEngine ==
  ASSUME TypeOK, CountInv, NEW k \in Keys, NEW r \in Runs,
         EngineStarts(k, r) \/ EngineStopping(k, r) \/ EngineDeadline(k, r) \/ EngineStopped(k, r),
         UNCHANGED mode
  PROVE  TwTypeOK' /\ DirTypeOK' /\ CountInv'
<1> USE DEF TypeOK
<1>1. engine' \in [Keys \X Runs -> {"off", "launched", "active", "stopping", "deadline", "stopped"}]
  BY DEF EngineStarts, EngineStopping, EngineDeadline, EngineStopped, TwTypeOK
<1>2. isActive' \in [Keys -> BOOLEAN]
  BY Zenon DEF EngineStarts, EngineStopping, EngineDeadline, EngineStopped, TwTypeOK
<1>3. stuck' \subseteq Keys
  BY Zenon DEF EngineStarts, EngineStopping, EngineDeadline, EngineStopped, TwTypeOK
<1>4. /\ src' \in [Files -> {"absent", "open", "complete", "deleted"}]
      /\ events' \in Seq(Files \cup {Exit})
      /\ current' \in [Keys -> 0..MaxFiles]
  <2>1. CASE NewCapture(k)
    BY <2>1, TypeNew
  <2>2. CASE UNCHANGED <<src, events, current>>
    BY <2>2, Zenon DEF DirTypeOK, TwTypeOK
  <2>3. CASE src' = Finish(k) /\ UNCHANGED <<events, current>>
    BY Zenon, <2>3 DEF Finish, DirTypeOK, TwTypeOK
  <2> QED
    BY <2>1, <2>2, <2>3 DEF EngineStarts, EngineStopping, EngineDeadline, EngineStopped, shared
<1>5. sent' \in 0..NumTasks /\ received' \in 0..NumTasks /\ received' <= sent'
  <2>1. NumTasks \in Nat /\ NumTasks' = NumTasks
    BY DirAssumption DEF NumTasks
  <2>2. sent' = sent /\ (received' = received \/ (received' = received + 1 /\ (r < run \/ received < sent) /\ ~(r < run)))
    BY DEF EngineStarts, EngineStopping, EngineDeadline, EngineStopped
  <2> QED
    BY <2>1, <2>2 DEF TwTypeOK, CountInv
<1>6. UNCHANGED <<exitFile, lock, tw, cancelled, run, running, jobDone, dial, listener, mode>>
  BY DEF EngineStarts, EngineStopping, EngineDeadline, EngineStopped, shared
<1> QED
  BY <1>1, <1>2, <1>3, <1>4, <1>5, <1>6 DEF TwTypeOK, DirTypeOK, CountInv

\* The job, the scheduler and the termination.
LEMMA TypeTw ==
  ASSUME TypeOK, CountInv, UNCHANGED mode,
         \/ TryLock \/ SendDeadline \/ JobLeft \/ Schedule \/ SchedulerStops \/ EnginesStopped
         \/ SignalExit \/ Unlock \/ TwExit \/ TwSignal \/ DurationOver \/ Crash
         \/ Listen \/ Dial \/ Accept \/ (\E k \in Keys : Rotate(k) \/ CloseWriter(k))
  PROVE  TwTypeOK' /\ DirTypeOK' /\ CountInv'
<1>0. NumTasks \in Nat /\ NumTasks' = NumTasks
  BY DirAssumption DEF NumTasks
<1> USE DEF TypeOK, CountInv
<1>1. CASE TryLock
  <2>1. CASE lock = "free" /\ ~Cron
    <3>1. run < MaxRuns /\ StartJob
      BY <1>1, <2>1, EnginesAssumption DEF TryLock
    <3>2. /\ tw' = "capture" /\ lock' = "tcpdumpw" /\ listener' \in {"listen", "accept"}
          /\ UNCHANGED <<src, events, exitFile, cancelled, current, dial>>
      BY <1>1, <2>1 DEF TryLock
    <3> QED
      BY <1>0, <3>1, <3>2, TypeStart DEF TwTypeOK, DirTypeOK
  <2>2. CASE lock # "free" \/ Cron
    <3>1. /\ tw' \in {"capture", "failed"} /\ lock' \in {"tcpdumpw", lock}
          /\ listener' \in {"listen", "accept", listener}
          /\ UNCHANGED <<src, events, exitFile, cancelled, current, dial, runVars>>
      BY <1>1, <2>2 DEF TryLock
    <3> QED
      BY <3>1, <1>0 DEF TwTypeOK, DirTypeOK, runVars
  <2> QED
    BY <2>1, <2>2
<1>2. CASE Schedule
  <2>1. run < MaxRuns /\ StartJob /\ tw = "capture" /\ UNCHANGED <<shared, tw, cancelled, current, dial, listener>>
    BY <1>2 DEF Schedule
  <2> QED
    BY Zenon, <1>0, <2>1, TypeStart DEF TwTypeOK, DirTypeOK, shared
<1>3. CASE JobLeft \/ SchedulerStops \/ EnginesStopped \/ TwExit
  <2>1. tw # "start" /\ tw' \in {"capture", "wait", "rotate", "exited"}
    BY Zenon, <1>3 DEF JobLeft, SchedulerStops, EnginesStopped, TwExit, runVars
  <2>2. UNCHANGED <<shared, cancelled, run, jobDone, engine, isActive, stuck, sent, received, current, dial, listener>>
    BY <1>3 DEF JobLeft, SchedulerStops, EnginesStopped, TwExit, runVars
  <2>3. running' \in BOOLEAN
    BY <1>3, Zenon DEF JobLeft, SchedulerStops, EnginesStopped, TwExit, runVars, TwTypeOK
  <2> QED
    BY <1>0, <2>1, <2>2, <2>3 DEF TwTypeOK, DirTypeOK, shared
<1>4. CASE SendDeadline
  <2>1. sent' \in 0..NumTasks /\ received <= sent'
    BY <1>0, <1>4 DEF SendDeadline, TwTypeOK
  <2> QED
    BY <1>0, <1>4, <2>1 DEF SendDeadline, TwTypeOK, DirTypeOK, shared
<1>5. CASE TwSignal \/ DurationOver
  <2>1. cancelled' \in BOOLEAN /\ jobDone' \in BOOLEAN
    BY <1>5, Zenon DEF TwSignal, DurationOver, TwTypeOK
  <2>2. UNCHANGED <<shared, tw, run, running, engine, isActive, stuck, current, sent, received, dial, listener>>
    BY <1>5 DEF TwSignal, DurationOver
  <2> QED
    BY <1>0, <2>1, <2>2 DEF TwTypeOK, DirTypeOK, shared
<1>6. CASE Listen \/ Dial \/ Accept
  <2>1. listener' \in {"off", "listen", "accept", "closed"} /\ dial' \in {"none", "pending", "over"}
    BY <1>6 DEF Listen, Dial, Accept, AcceptUntilDone, TwTypeOK
  <2>2. UNCHANGED <<shared, tw, cancelled, runVars, current>>
    BY <1>6 DEF Listen, Dial, Accept
  <2> QED
    BY <1>0, <2>1, <2>2 DEF TwTypeOK, DirTypeOK, shared, runVars
<1>7. CASE SignalExit \/ Unlock
  <2>1. events' \in Seq(Files \cup {Exit})
    BY <1>7 DEF SignalExit, Unlock, DirTypeOK
  <2>2. tw' \in {"unlock", "listener"} /\ lock' \in {"free", lock}
    BY <1>7 DEF SignalExit, Unlock
  <2>3. UNCHANGED <<src, cancelled, runVars, current, dial, listener>>
    BY <1>7 DEF SignalExit, Unlock
  <2>4. exitFile' \in BOOLEAN
    BY <1>7, Zenon DEF SignalExit, Unlock, DirTypeOK
  <2> QED
    BY <1>0, <2>1, <2>2, <2>3, <2>4 DEF TwTypeOK, DirTypeOK, runVars
<1>8. CASE Crash
  <2>1. engine' \in [Keys \X Runs -> {"off", "launched", "active", "stopping", "deadline", "stopped"}]
    BY Zenon, <1>8 DEF Crash
  <2>2. src' \in [Files -> {"absent", "open", "complete", "deleted"}]
    BY Zenon, <1>8 DEF Crash, DirTypeOK
  <2>3. tw' = "crashed" /\ lock' \in {"free", lock} /\ listener' = "closed" /\ dial' = "over"
    BY Zenon, <1>8 DEF Crash
  <2>4. UNCHANGED <<events, exitFile, cancelled, run, running, jobDone, isActive, stuck, current, sent, received>>
    BY <1>8 DEF Crash
  <2> QED
    BY Zenon, <1>0, <2>1, <2>2, <2>3, <2>4 DEF TwTypeOK, DirTypeOK
<1>9. ASSUME NEW k \in Keys, Rotate(k) \/ CloseWriter(k)
      PROVE  TwTypeOK' /\ DirTypeOK' /\ CountInv'
  <2>1. /\ src' \in [Files -> {"absent", "open", "complete", "deleted"}]
        /\ events' \in Seq(Files \cup {Exit})
        /\ current' \in [Keys -> 0..MaxFiles]
    <3>1. CASE NewCapture(k)
      BY <3>1, TypeNew
    <3>2. CASE CloseWriter(k)
      <4>1. current[k] < MaxFiles => current[k] + 1 \in 0..MaxFiles /\ <<k, current[k] + 1>> \in Files
        BY DirAssumption DEF TwTypeOK, Files
      <4>2. src' \in [Files -> {"absent", "open", "complete", "deleted"}]
        BY Zenon, <3>2 DEF CloseWriter, Finish, DirTypeOK
      <4>3. events' \in Seq(Files \cup {Exit})
        <5>1. events \in Seq(Files \cup {Exit})
          BY DEF DirTypeOK
        <5>2. events' = events \/ (current[k] < MaxFiles /\ events' = Append(events, <<k, current[k] + 1>>))
          BY <3>2 DEF CloseWriter
        <5>3. CASE current[k] < MaxFiles /\ events' = Append(events, <<k, current[k] + 1>>)
          <6>1. <<k, current[k] + 1>> \in Files \cup {Exit}
            BY Zenon, <4>1, <5>3
          <6> QED
            BY <5>1, <5>3, <6>1
        <5> QED
          BY <5>1, <5>2, <5>3
      <4>4. current' \in [Keys -> 0..MaxFiles]
        BY Zenon, <3>2, <4>1 DEF CloseWriter, TwTypeOK
      <4> QED
        BY <4>2, <4>3, <4>4
    <3> QED
      BY <1>9, <3>1, <3>2 DEF Rotate
  <2>2. UNCHANGED <<exitFile, lock, tw, cancelled, runVars, dial, listener>>
    BY <1>9 DEF Rotate, CloseWriter
  <2> QED
    BY <1>0, <2>1, <2>2 DEF TwTypeOK, DirTypeOK, runVars
<1> QED
  BY <1>1, <1>2, <1>3, <1>4, <1>5, <1>6, <1>7, <1>8, <1>9

-----------------------------------------------------------------------------
\* The theorem

\* Every step keeps the types.
LEMMA TypeNext ==
  ASSUME TypeOK, LoopInv, CountInv, [Next]_vars
  PROVE  TypeOK' /\ LoopInv' /\ CountInv'
<1>1. CASE FsnNext
  <2>1. UNCHANGED twFrame
    BY <1>1 DEF FsnNext
  <2>2. \/ LoopCheck \/ CaptureCreated \/ Exported \/ ExitDetected \/ LoopEnds
        \/ MainCancelled \/ RegularExportsDone \/ FlushSrcDir \/ FlushExpires \/ Flushed
        \/ FsnSignal \/ LockAcquired \/ LockGivenUp \/ TimerFires
        \/ \E w \in Workers : ExportStep(w)
    BY <1>1 DEF FsnNext, ExportStep
  <2> QED
    BY <2>1, <2>2, TypeLoop, TypeMain, TypeExport, TwFrame DEF TypeOK
<1>2. CASE TwNext
  <2>1. UNCHANGED fsnFrame
    BY <1>2 DEF TwNext
  <2>2. UNCHANGED mode
    BY <2>1 DEF fsnFrame
  <2>3. FsnTypeOK' /\ LoopInv'
    BY <2>1, FsnFrame DEF TypeOK
  <2>4. \/ TryLock \/ SendDeadline \/ JobLeft \/ Schedule \/ SchedulerStops \/ EnginesStopped
        \/ SignalExit \/ Unlock \/ TwExit \/ TwSignal \/ DurationOver \/ Crash
        \/ Listen \/ Dial \/ Accept \/ (\E k \in Keys : Rotate(k) \/ CloseWriter(k))
        \/ \E k \in Keys, r \in Runs :
             EngineStarts(k, r) \/ EngineStopping(k, r) \/ EngineDeadline(k, r) \/ EngineStopped(k, r)
    BY <1>2 DEF TwNext
  <2> QED
    BY <2>2, <2>3, <2>4, TypeTw, TypeEngine DEF TypeOK
<1>3. CASE UNCHANGED vars
  <2>1. UNCHANGED fsnFrame /\ UNCHANGED twFrame /\ UNCHANGED shared
    BY <1>3 DEF vars, fsnFrame, twFrame
  <2>2. DirTypeOK'
    BY <2>1 DEF TypeOK, DirTypeOK, shared
  <2> QED
    BY <2>1, <2>2, FsnFrame, TwFrame DEF TypeOK
<1> QED
  BY <1>1, <1>2, <1>3 DEF Next

\* Every variable of tcpdumpw and pcapfsn keeps its type: no export takes more
\* than retries_max attempts, and no execution of the job sends or receives
\* more deadlines than it has engines.
THEOREM SidecarTypeCorrect == Spec => []TypeOK
<1>1. Init => TypeOK /\ LoopInv /\ CountInv
  BY TypeInit
<1>2. TypeOK /\ LoopInv /\ CountInv /\ [Next]_vars => (TypeOK /\ LoopInv /\ CountInv)'
  BY Zenon, TypeNext
<1> QED
  BY <1>1, <1>2, PTL DEF Spec

-----------------------------------------------------------------------------
\* Engines

Stopped == {"unlock", "listener", "exited", "failed", "crashed"}

\* An execution that has not started has no engines, and waitDone, where main
\* goes on once they have stopped, leaves none.
RunInv ==
  /\ \A k \in Keys, r \in Runs : tw # "crashed" /\ r > run => engine[<<k, r>>] = "off"
  /\ tw \in Stopped \cup {"rotate"} =>
       \A k \in Keys, r \in Runs : engine[<<k, r>>] \in {"off", "stopped"}

\* isActive and the executions of an engine that are at work.
ActiveInv ==
  tw # "crashed" =>
    \A k \in Keys \ stuck :
      /\ isActive[k] => \E r \in Runs : engine[<<k, r>>] \in AtWork(k)
      /\ \A r \in Runs : engine[<<k, r>>] \in AtWork(k) => isActive[k]
      /\ \A r, s \in Runs : engine[<<k, r>>] \in AtWork(k) /\ engine[<<k, s>>] \in AtWork(k) => r = s

engineVars == <<tw, run, engine, isActive, stuck>>

LEMMA RunFrame ==
  ASSUME RunInv, ActiveInv, UNCHANGED engineVars
  PROVE  RunInv' /\ ActiveInv'
BY DEF RunInv, ActiveInv, engineVars, AtWork

LEMMA EnginesInit == Init => RunInv /\ ActiveInv
<1> SUFFICES ASSUME Init PROVE RunInv /\ ActiveInv
  OBVIOUS
<1>1. /\ tw = "start" /\ \A k \in Keys : ~isActive[k]
      /\ \A k \in Keys, r \in Runs : engine[<<k, r>>] = "off"
  BY Zenon DEF Init, TwInit
<1> QED
  BY <1>1 DEF RunInv, ActiveInv, AtWork, Stopped

\* An execution starts: nothing is at work in it yet.
LEMMA EnginesStart ==
  ASSUME TypeOK, RunInv, ActiveInv, StartJob, tw \notin Stopped \cup {"rotate"}, tw' = "capture"
  PROVE  RunInv' /\ ActiveInv'
<1>1. /\ run \in Nat /\ run' = run + 1 /\ UNCHANGED <<isActive, stuck>>
      /\ \A k \in Keys, r \in Runs :
           engine'[<<k, r>>] = IF r = run + 1 THEN "launched" ELSE engine[<<k, r>>]
  BY DEF StartJob, TypeOK, TwTypeOK
<1>2. RunInv'
  BY <1>1 DEF RunInv, Runs, Stopped
<1>3. ASSUME NEW k \in Keys, NEW r \in Runs
      PROVE  engine'[<<k, r>>] \in AtWork(k) <=> engine[<<k, r>>] \in AtWork(k)
  <2>1. CASE r = run + 1
    BY <1>1, <2>1 DEF RunInv, AtWork, Runs, Stopped
  <2>2. CASE r # run + 1
    BY <1>1, <2>2
  <2> QED
    BY Zenon, <2>1, <2>2
<1>4. tw # "crashed"
  BY DEF Stopped
<1>5. \A k \in Keys : AtWork(k)' = AtWork(k)
  BY Zenon DEF AtWork
<1> QED
  BY <1>1, <1>2, <1>3, <1>4, <1>5 DEF ActiveInv

\* A step of the engine of k in execution r.
LEMMA EnginesStep ==
  ASSUME TypeOK, RunInv, ActiveInv, NEW k \in Keys, NEW r \in Runs,
         EngineStarts(k, r) \/ EngineStopping(k, r) \/ EngineDeadline(k, r) \/ EngineStopped(k, r)
  PROVE  RunInv' /\ ActiveInv'
<1>1. /\ UNCHANGED <<tw, run>> /\ engine[<<k, r>>] \in {"launched", "active", "stopping", "deadline"}
      /\ stuck \subseteq stuck' /\ stuck' \subseteq stuck \cup {k}
  BY Zenon DEF EngineStarts, EngineStopping, EngineDeadline, EngineStopped
<1>2. \A j \in Keys, s \in Runs : <<j, s>> # <<k, r>> => engine'[<<j, s>>] = engine[<<j, s>>]
  BY Zenon DEF EngineStarts, EngineStopping, EngineDeadline, EngineStopped, TypeOK, TwTypeOK
<1>3. \A j \in Keys : j # k => isActive'[j] = isActive[j]
  BY Zenon DEF EngineStarts, EngineStopping, EngineDeadline, EngineStopped, TypeOK, TwTypeOK
<1>4. tw \notin Stopped \cup {"rotate"}
  BY Zenon, <1>1 DEF RunInv
<1>5. RunInv'
  <2>1. r <= run
    BY <1>1, <1>4 DEF RunInv, Stopped, Runs, TypeOK, TwTypeOK
  <2>2. ASSUME NEW j \in Keys, NEW s \in Runs, tw' # "crashed", s > run'
        PROVE  engine'[<<j, s>>] = "off"
    <3>1. run' = run /\ run \in Nat /\ r \in Nat /\ s \in Nat
      BY <1>1 DEF Runs, TypeOK, TwTypeOK
    <3>2. s # r /\ s > run
      BY <2>1, <2>2, <3>1
    <3>3. <<j, s>> # <<k, r>>
      BY <3>2
    <3> QED
      BY Zenon, <1>1, <1>2, <2>2, <3>2, <3>3 DEF RunInv
  <2> QED
    BY Zenon, <1>1, <1>4, <2>2 DEF RunInv
<1>6. ASSUME NEW j \in Keys \ stuck', j # k
      PROVE  /\ isActive'[j] => \E s \in Runs : engine'[<<j, s>>] \in AtWork(j)
             /\ \A s \in Runs : engine'[<<j, s>>] \in AtWork(j) => isActive'[j]
             /\ \A s, t \in Runs : engine'[<<j, s>>] \in AtWork(j) /\ engine'[<<j, t>>] \in AtWork(j) => s = t
  <2>1. \A s \in Runs : engine'[<<j, s>>] = engine[<<j, s>>]
    BY <1>2, <1>6
  <2>2. isActive'[j] = isActive[j] /\ j \in Keys \ stuck
    BY <1>1, <1>3, <1>6
  <2>3. tw # "crashed"
    BY <1>4 DEF Stopped
  <2> QED
    BY Zenon, <2>1, <2>2, <2>3 DEF ActiveInv
<1>7. ASSUME k \notin stuck'
      PROVE  /\ isActive'[k] => \E s \in Runs : engine'[<<k, s>>] \in AtWork(k)
             /\ \A s \in Runs : engine'[<<k, s>>] \in AtWork(k) => isActive'[k]
             /\ \A s, t \in Runs : engine'[<<k, s>>] \in AtWork(k) /\ engine'[<<k, t>>] \in AtWork(k) => s = t
  <2>1. /\ k \in Keys \ stuck /\ tw # "crashed"
        /\ \A s \in Runs : s # r => engine'[<<k, s>>] = engine[<<k, s>>]
    BY Zenon, <1>1, <1>2, <1>4, <1>7 DEF Stopped
  <2>2. /\ isActive[k] => \E s \in Runs : engine[<<k, s>>] \in AtWork(k)
        /\ \A s \in Runs : engine[<<k, s>>] \in AtWork(k) => isActive[k]
        /\ \A s, t \in Runs : engine[<<k, s>>] \in AtWork(k) /\ engine[<<k, t>>] \in AtWork(k) => s = t
    BY Zenon, <2>1 DEF ActiveInv
  <2>3. CASE EngineStarts(k, r)
    <3>1. engine[<<k, r>>] \notin AtWork(k)
      BY Zenon, <2>3 DEF EngineStarts, AtWork
    <3>2. CASE engine'[<<k, r>>] = "stopped"
      <4>1. isActive'[k] = isActive[k]
        BY Zenon, <1>7, <2>1, <2>3, <3>2 DEF EngineStarts, TypeOK, TwTypeOK
      <4>2. engine'[<<k, r>>] \notin AtWork(k)
        BY Zenon, <3>2 DEF AtWork
      <4> QED
        BY Zenon, <2>1, <2>2, <3>1, <4>1, <4>2
    <3>3. CASE engine'[<<k, r>>] = "active"
      <4>1. ~isActive[k] /\ isActive'[k]
        BY Zenon, <2>3, <3>3 DEF EngineStarts, TypeOK, TwTypeOK
      <4>2. engine'[<<k, r>>] \in AtWork(k)
        BY Zenon, <3>3 DEF AtWork
      <4> QED
        BY Zenon, <2>1, <2>2, <4>1, <4>2
    <3> QED
      BY Zenon, <2>3, <3>2, <3>3 DEF EngineStarts, TypeOK, TwTypeOK
  <2>4. CASE EngineStopping(k, r)
    <3>1. engine[<<k, r>>] \in AtWork(k)
      BY <2>4 DEF EngineStopping, AtWork
    <3>2. engine'[<<k, r>>] = "stopping" /\ (isActive'[k] <=> k \notin Rotated)
      BY Zenon, <2>4 DEF EngineStopping, TypeOK, TwTypeOK
    <3>3. engine'[<<k, r>>] \in AtWork(k) <=> isActive'[k]
      BY Zenon, <3>2 DEF AtWork
    <3> QED
      BY Zenon, <2>1, <2>2, <3>1, <3>3
  <2>5. CASE EngineDeadline(k, r)
    <3>1. engine[<<k, r>>] \in AtWork(k) <=> engine'[<<k, r>>] \in AtWork(k)
      BY <2>5 DEF EngineDeadline, AtWork, TypeOK, TwTypeOK
    <3>2. isActive' = isActive
      BY Zenon, <2>5 DEF EngineDeadline
    <3> QED
      BY Zenon, <2>1, <2>2, <3>1, <3>2
  <2>6. CASE EngineStopped(k, r)
    <3>1. engine'[<<k, r>>] \notin AtWork(k) /\ (engine[<<k, r>>] \in AtWork(k) <=> k \notin Rotated)
      BY Zenon, <2>6 DEF EngineStopped, AtWork, TypeOK, TwTypeOK
    <3>2. isActive'[k] <=> (isActive[k] /\ k \in Rotated)
      BY <2>6 DEF EngineStopped, TypeOK, TwTypeOK
    <3> QED
      BY Zenon, <2>1, <2>2, <3>1, <3>2
  <2> QED
    BY Zenon, <2>3, <2>4, <2>5, <2>6
<1>8. \A j \in Keys : AtWork(j)' = AtWork(j)
  BY Zenon DEF AtWork
<1> QED
  BY Zenon, <1>5, <1>6, <1>7, <1>8 DEF ActiveInv

\* Every step keeps what is known of engines.
LEMMA EnginesNext ==
  ASSUME TypeOK, CountInv, RunInv, ActiveInv, [Next]_vars
  PROVE  RunInv' /\ ActiveInv'
<1>1. CASE UNCHANGED engineVars
  BY <1>1, RunFrame
<1>2. CASE TryLock
  <2>1. CASE lock = "free" /\ ~Cron
    BY Zenon, <1>2, <2>1, EnginesStart DEF TryLock, Stopped
  <2>2. CASE lock # "free" \/ Cron
    <3>1. UNCHANGED <<run, engine, isActive, stuck>> /\ tw' \in {"capture", "failed"}
      BY <1>2, <2>2 DEF TryLock, runVars
    <3>2. run = 0 /\ tw = "start"
      BY <1>2 DEF TryLock, CountInv
    <3>3. \A r \in Runs : r > run
      BY <3>2 DEF Runs
    <3>4. \A k \in Keys, r \in Runs : engine[<<k, r>>] = "off" /\ engine'[<<k, r>>] = "off"
      BY Zenon, <3>1, <3>2, <3>3 DEF RunInv
    <3>5. RunInv'
      BY Zenon, <3>4 DEF RunInv
    <3>6. tw # "crashed"
      BY <3>2
    <3> QED
      BY Zenon, <3>1, <3>5, <3>6 DEF ActiveInv, AtWork
  <2> QED
    BY <2>1, <2>2
<1>3. CASE Schedule
  BY Zenon, <1>3, EnginesStart DEF Schedule, Stopped
<1>4. CASE JobLeft \/ SchedulerStops \/ EnginesStopped \/ SignalExit \/ Unlock \/ TwExit
  <2>1. UNCHANGED <<run, engine, isActive, stuck>>
    BY Zenon, <1>4 DEF JobLeft, SchedulerStops, EnginesStopped, SignalExit, Unlock, TwExit, runVars
  <2>2. /\ tw # "crashed" /\ tw' # "crashed"
        /\ tw' \in Stopped \cup {"rotate"} =>
             tw \in Stopped \cup {"rotate"} \/ \A e \in Keys \X Runs : engine[e] \in {"off", "stopped"}
    BY Zenon, <1>4 DEF JobLeft, SchedulerStops, EnginesStopped, SignalExit, Unlock, TwExit, Stopped
  <2> QED
    BY Zenon, <2>1, <2>2 DEF RunInv, ActiveInv, AtWork
<1>5. CASE Crash
  BY Zenon, <1>5 DEF Crash, RunInv, ActiveInv
<1>6. CASE \E k \in Keys, r \in Runs :
             EngineStarts(k, r) \/ EngineStopping(k, r) \/ EngineDeadline(k, r) \/ EngineStopped(k, r)
  BY <1>6, EnginesStep
<1>7. CASE SendDeadline \/ TwSignal \/ DurationOver \/ Listen \/ Dial \/ Accept
           \/ \E k \in Keys : Rotate(k) \/ CloseWriter(k)
  <2>1. UNCHANGED engineVars
    BY <1>7, Zenon DEF SendDeadline, TwSignal, DurationOver, Listen, Dial, Accept, Rotate, CloseWriter,
                engineVars, runVars
  <2> QED
    BY <2>1, RunFrame
<1>8. CASE UNCHANGED twFrame
  BY <1>8, <1>1 DEF twFrame, twVars, runVars, engineVars
<1> QED
  BY <1>2, <1>3, <1>4, <1>5, <1>6, <1>7, <1>8 DEF Next, FsnNext, TwNext, vars, twFrame

\* "already started" is the truth, for any number of engines and executions:
\* unless a start that failed has left isActive set, it is set exactly while one
\* execution of the engine is at work.
THEOREM StartedIsActive == Spec => []StartedMeansActive
<1>1. ActiveInv => StartedMeansActive
  BY Zenon DEF ActiveInv, StartedMeansActive
<1>2. Init => TypeOK /\ LoopInv /\ CountInv /\ RunInv /\ ActiveInv
  BY TypeInit, EnginesInit
<1>3. TypeOK /\ LoopInv /\ CountInv /\ RunInv /\ ActiveInv /\ [Next]_vars
        => (TypeOK /\ LoopInv /\ CountInv /\ RunInv /\ ActiveInv)'
  BY TypeNext, EnginesNext
<1> QED
  BY <1>1, <1>2, <1>3, PTL DEF Spec

=============================================================================
