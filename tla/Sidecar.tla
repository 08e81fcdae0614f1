------------------------------ MODULE Sidecar ------------------------------
(***************************************************************************)
(* tcpdumpw and pcapfsn side by side, as pcap.conf starts them: they meet  *)
(* in the capture directory, in TCPDUMPW_EXITED and at the lock file.      *)
(* Either may be signalled first.                                          *)
(***************************************************************************)
EXTENDS PcapFsn, Tcpdumpw

CONSTANT Setups  \* pairs of a mode of tcpdumpw and an exporter of pcapfsn

ASSUME SetupsAssumption == Setups \subseteq Modes \X Exporters

vars == <<shared, fsnVars, twVars, mode>>
fsnFrame == <<fsnVars, mode>>
twFrame == <<twVars, mode>>

\* The type of every variable of both processes and of what they share.
TypeOK == DirTypeOK /\ FsnTypeOK /\ TwTypeOK

Init == DirInit /\ FsnInit /\ TwInit /\ <<mode, exporter>> \in Setups

\* pcap.conf: tcpdumpw depends_on pcapfsn.
Dependency == tw = "start" => main # "exited"

\* A step of pcapfsn, whose goroutines end with main.
FsnNext ==
  \/ LoopCheck /\ UNCHANGED twFrame
  \/ CaptureCreated /\ UNCHANGED twFrame
  \/ Exported /\ UNCHANGED twFrame
  \/ ExitDetected /\ UNCHANGED twFrame
  \/ LoopEnds /\ UNCHANGED twFrame
  \/ MainCancelled /\ UNCHANGED twFrame
  \/ RegularExportsDone /\ UNCHANGED twFrame
  \/ FlushSrcDir /\ UNCHANGED twFrame
  \/ FlushExpires /\ UNCHANGED twFrame
  \/ Flushed /\ UNCHANGED twFrame
  \/ FsnSignal /\ UNCHANGED twFrame
  \/ LockAcquired /\ UNCHANGED twFrame
  \/ LockGivenUp /\ UNCHANGED twFrame
  \/ TimerFires /\ UNCHANGED twFrame
  \/ \E w \in Workers : CreateTarget(w) /\ UNCHANGED twFrame
  \/ \E w \in Workers : CopySource(w) /\ UNCHANGED twFrame
  \/ \E w \in Workers : CopyFails(w) /\ UNCHANGED twFrame
  \/ \E w \in Workers : CopyExpired(w) /\ UNCHANGED twFrame
  \/ \E w \in Workers : RemoveSource(w) /\ UNCHANGED twFrame
  \/ \E w \in Workers : CloseTarget(w) /\ UNCHANGED twFrame

\* A step of tcpdumpw, which starts only while pcapfsn is up.
TwNext ==
  \/ Dependency /\ TryLock /\ UNCHANGED fsnFrame
  \/ SendDeadline /\ UNCHANGED fsnFrame
  \/ JobLeft /\ UNCHANGED fsnFrame
  \/ Schedule /\ UNCHANGED fsnFrame
  \/ SchedulerStops /\ UNCHANGED fsnFrame
  \/ EnginesStopped /\ UNCHANGED fsnFrame
  \/ SignalExit /\ UNCHANGED fsnFrame
  \/ Unlock /\ UNCHANGED fsnFrame
  \/ TwExit /\ UNCHANGED fsnFrame
  \/ TwSignal /\ UNCHANGED fsnFrame
  \/ DurationOver /\ UNCHANGED fsnFrame
  \/ Crash /\ UNCHANGED fsnFrame
  \/ Listen /\ UNCHANGED fsnFrame
  \/ Dial /\ UNCHANGED fsnFrame
  \/ Accept /\ UNCHANGED fsnFrame
  \/ \E k \in Keys, r \in Runs : EngineStarts(k, r) /\ UNCHANGED fsnFrame
  \/ \E k \in Keys : Rotate(k) /\ UNCHANGED fsnFrame
  \/ \E k \in Keys, r \in Runs : EngineStopping(k, r) /\ UNCHANGED fsnFrame
  \/ \E k \in Keys, r \in Runs : EngineDeadline(k, r) /\ UNCHANGED fsnFrame
  \/ \E k \in Keys, r \in Runs : EngineStopped(k, r) /\ UNCHANGED fsnFrame
  \/ \E k \in Keys : CloseWriter(k) /\ UNCHANGED fsnFrame

Next == FsnNext \/ TwNext

Spec == Init /\ [][Next]_vars

\* While a goroutine of a process can run, one does; exports come to an end,
\* the 3 s pass, and engines stop by their deadline.  Captures need not rotate,
\* nobody need send a signal, nothing need fail.
FsnRuns == LoopStep \/ MainStep \/ TimerFires \/ \E w \in Workers : ExportStep(w)
TwRuns == TwStep \/ ListenerStep \/ \E k \in Keys, r \in Runs : EngineStep(k, r)

Fairness ==
  /\ WF_vars(FsnRuns /\ UNCHANGED twFrame)
  /\ WF_vars(Dependency /\ TwRuns /\ UNCHANGED fsnFrame)

FairSpec == Spec /\ Fairness

-----------------------------------------------------------------------------
\* Properties

\* Steps in which an engine has isActive.
AtWork(k) == IF k \in Rotated THEN {"active"} ELSE {"active", "stopping", "deadline"}

\* What is in the bucket of a capture, compressed or not, is all of it.
Stored(f) == \E z \in BOOLEAN : gcs[<<f, z>>] = "full"

\* pcapfsn got here because tcpdumpw had stopped, not because 3 s had passed.
Graceful == ctxDone /\ timer # "fired"

\* "`tcpdumpq` will unlock the PCAP lock file when all PCAP engines have
\* stopped": between a graceful cancel and the exit of pcapfsn no capture is
\* being written, so that a flush never reads one half-way.
FlushReadsFinished ==
  Graceful /\ main # "exited" => \A f \in Files : src[f] # "open"

\* After a graceful termination without I/O errors, at most one capture is
\* missing in the bucket: the one the event loop had in hand when the context
\* was cancelled.
AtMostOneMissing ==
  main = "exited" /\ Graceful /\ exporter # "nil" /\ flushCtx # "expired" =>
    LET missing == {f \in Files \ faulty : src[f] # "absent" /\ ~Stored(f)}
    IN  \A f, g \in missing : f = g

\* The Fuse exporter deletes a capture only after a copy without errors, and
\* closes the copy before it takes the next one.
FuseDeletesStored ==
  exporter = "fuse" =>
    \A f \in Files \ faulty :
      src[f] = "deleted" => Stored(f) \/ (loop = "export" /\ Source(Loop) = f)

\* A signal makes pcapfsn exit, whether or not tcpdumpw stops, provided that
\* it could watch the directory.
FsnExits == (sig = "lock" /\ active) ~> (main = "exited")

\* "already started" is the truth: isActive is set exactly while one execution
\* of the engine is at work, however the executions of the job overlap, unless
\* a start that failed has left it set for good.
StartedMeansActive ==
  tw # "crashed" =>
    \A k \in Keys \ stuck :
      LET working == {r \in Runs : engine[<<k, r>>] \in AtWork(k)}
      IN  /\ isActive[k] <=> working # {}
          /\ \A r, s \in working : r = s

\* A signal makes tcpdumpw exit: every engine gets a deadline, and the TCP
\* listener's Accept is woken up.
TwExits == cancelled ~> (tw \in Gone)

\* "Graceful handling of `SIGTERM` to ensure all completed pcap files are
\* flushed to GCS before container exits"
FlushedAtExit ==
  main = "exited" /\ Graceful => \A f \in Files : src[f] # "absent" => Stored(f)
=============================================================================
