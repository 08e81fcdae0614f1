------------------------------ MODULE PcapFsn ------------------------------
(***************************************************************************)
(* pcapfsn: the process that watches the directory where packet captures   *)
(* are written and exports them to a bucket (pcap-fsnotify/main.go), with  *)
(* its exporters (pcap-fsnotify/internal/gcs).                             *)
(* Its peer is in Tcpdumpw, and Sidecar puts both together.                *)
(***************************************************************************)
EXTENDS CaptureDir

CONSTANTS MaxFaulty,    \* captures whose export meets I/O errors
          MaxAttempts,  \* retries_max
          Gzip          \* compress regular exports

ASSUME FsnAssumption ==
  /\ MaxAttempts \in Nat \ {0} /\ MaxFaulty \in Nat
  /\ Gzip \in BOOLEAN

Exporters == {"fuse", "library", "nil"}

\* The event loop exports one capture at a time; at the end every capture in
\* the directory has a goroutine of its own.
Loop == <<"loop">>
Workers == Files \cup {Loop}
NoFile == <<>>

\* Names in the bucket: a capture and whether it is compressed.
Objects == Files \X BOOLEAN

VARIABLES
  exporter,  \* the exporter in use
  active,    \* isActive
  ctxDone,   \* the first context is cancelled
  main,      \* step of the main goroutine
  flushCtx,  \* the context of the flush: "none", "live" or "expired"
  loop,      \* step of the event loop
  task,      \* capture whose creation the event loop handles
  loopCtx,   \* the context exportPcapFile was called with
  last,      \* lastPcap
  sig,       \* step of the signal goroutine
  timer,     \* the 3 s limit on waiting for tcpdumpw
  job,       \* [Workers -> step of an export]
  attempt,   \* [Workers -> attempts of the export so far]
  buf,       \* [Workers -> what the export wrote to its target so far]
  faulty,    \* captures whose export met an I/O error
  gcs        \* [Objects -> content in the bucket]

jobVars == <<job, attempt, buf, faulty, gcs>>
loopVars == <<loop, task, loopCtx, last>>
sigVars == <<sig, timer>>
fsnVars == <<exporter, active, ctxDone, main, flushCtx, loopVars, sigVars, jobVars>>

\* "empty" to "mixed" are what a failed or a repeated copy leaves behind;
\* "early" is a copy of a capture that was still being written.
Contents == {"none", "empty", "part", "mixed", "early", "full"}

\* The type of every variable; attempt stays within retries_max.
FsnTypeOK ==
  /\ exporter \in Exporters
  /\ active \in BOOLEAN /\ ctxDone \in BOOLEAN
  /\ main \in {"wait", "await", "walk", "flush", "exited"}
  /\ flushCtx \in {"none", "live", "expired"}
  /\ loop \in {"check", "select", "export", "end"}
  /\ task \in Files \cup {NoFile}
  /\ loopCtx \in {"first", "second"}
  /\ last \in [Keys -> Files \cup {NoFile}]
  /\ sig \in {"none", "lock", "end"}
  /\ timer \in {"off", "armed", "fired", "late", "stopped"}
  /\ job \in [Workers -> {"idle", "create", "copy", "remove", "close", "done"}]
  /\ attempt \in [Workers -> 0..MaxAttempts - 1]
  /\ buf \in [Workers -> Contents]
  /\ faulty \subseteq Files
  /\ gcs \in [Objects -> Contents]

FsnInit ==
  /\ exporter \in Exporters
  /\ active \in BOOLEAN   \* FALSE: the directory cannot be watched
  /\ ctxDone = FALSE
  /\ main = "wait" /\ flushCtx = "none"
  /\ loop = "check" /\ task = NoFile /\ loopCtx = "first"
  /\ last = [k \in Keys |-> NoFile]
  /\ sig = "none" /\ timer = "off"
  /\ job = [w \in Workers |-> "idle"]
  /\ attempt = [w \in Workers |-> 0]
  /\ buf = [w \in Workers |-> "empty"]
  /\ faulty = {}
  /\ gcs = [o \in Objects |-> "none"]

-----------------------------------------------------------------------------
\* Export

\* exportPcapFile exports the previous capture of the series; a flush, the
\* capture itself, without compression or deletion.
Source(w) == IF w = Loop THEN last[task[1]] ELSE w
Target(w) == <<Source(w), w = Loop /\ Gzip>>

Expired(w) ==
  IF w = Loop /\ loopCtx = "first" THEN ctxDone ELSE flushCtx = "expired"

Step(w, step) == job' = [job EXCEPT ![w] = step]

\* An operation on a file or on the bucket fails.
Faults(w) ==
  /\ Source(w) \in faulty \/ Cardinality(faulty) < MaxFaulty
  /\ faulty' = faulty \cup {Source(w)}

\* The nil exporter only reports the loss.  The Fuse exporter creates the
\* target, which must not exist yet; the library starts an upload.
CreateTarget(w) ==
  /\ main # "exited" /\ job[w] = "create"
  /\ \/ exporter = "nil" /\ Step(w, "done") /\ UNCHANGED <<gcs, faulty>>
     \/ exporter = "library" /\ Step(w, "copy") /\ UNCHANGED <<gcs, faulty>>
     \/ /\ exporter = "fuse" /\ gcs[Target(w)] = "none"
        /\ gcs' = [gcs EXCEPT ![Target(w)] = "empty"]
        /\ Step(w, "copy") /\ UNCHANGED faulty
     \/ /\ exporter = "fuse" /\ gcs[Target(w)] # "none"
        /\ Step(w, "done") /\ UNCHANGED <<gcs, faulty>>
     \/ /\ exporter = "fuse" /\ Faults(w)
        /\ Step(w, "done") /\ UNCHANGED gcs
  /\ UNCHANGED <<shared, exporter, active, ctxDone, main, flushCtx, loopVars,
                 sigVars, attempt, buf>>

\* One copy of the source to the handle of the target, and its deletion next
\* when it succeeds.
CopySource(w) ==
  /\ main # "exited" /\ job[w] = "copy" /\ ~Expired(w) /\ Present(Source(w))
  /\ buf' = [buf EXCEPT ![w] = IF @ # "empty" THEN "mixed"
                               ELSE IF src[Source(w)] = "open" THEN "early" ELSE "full"]
  /\ Step(w, IF w = Loop THEN "remove" ELSE "close")
  /\ UNCHANGED <<shared, exporter, active, ctxDone, main, flushCtx, loopVars,
                 sigVars, attempt, faulty, gcs>>

\* The source is gone, or the copy stops half-way.  The Fuse exporter retries
\* on the same handle; the library goes on to close the upload.
CopyFails_OneMore(w) ==
  /\ main # "exited" /\ job[w] = "copy" /\ ~Expired(w) /\ Present(Source(w))
  /\ Faults(w)
  /\ buf' = [buf EXCEPT ![w] = IF @ = "empty" THEN "part" ELSE "mixed"]
  /\ IF exporter = "fuse" /\ attempt[w] < MaxAttempts
     THEN attempt' = [attempt EXCEPT ![w] = @ + 1] /\ UNCHANGED job
     ELSE Step(w, "close") /\ UNCHANGED attempt
  /\ UNCHANGED <<shared, exporter, active, ctxDone, main, flushCtx, loopVars,
                 sigVars, gcs>>
CopyFails(w) ==
  /\ main # "exited" /\ job[w] = "copy" /\ ~Expired(w)
  /\ IF Present(Source(w))
     THEN /\ Faults(w)
          /\ buf' = [buf EXCEPT ![w] = IF @ = "empty" THEN "part" ELSE "mixed"]
     ELSE UNCHANGED <<faulty, buf>>
  /\ IF exporter = "fuse" /\ attempt[w] + 1 < MaxAttempts
     THEN attempt' = [attempt EXCEPT ![w] = @ + 1] /\ UNCHANGED job
     ELSE Step(w, "close") /\ UNCHANGED attempt
  /\ UNCHANGED <<shared, exporter, active, ctxDone, main, flushCtx, loopVars,
                 sigVars, gcs>>

\* Once the context is done there is no attempt any more.
CopyExpired_Removes(w) ==
  /\ main # "exited" /\ job[w] = "copy" /\ Expired(w)
  /\ Step(w, IF w = Loop THEN "remove" ELSE "close")
  /\ UNCHANGED <<shared, exporter, active, ctxDone, main, flushCtx, loopVars,
                 sigVars, attempt, buf, faulty, gcs>>
CopyExpired(w) ==
  /\ main # "exited" /\ job[w] = "copy" /\ Expired(w)
  /\ Step(w, "close")
  /\ UNCHANGED <<shared, exporter, active, ctxDone, main, flushCtx, loopVars,
                 sigVars, attempt, buf, faulty, gcs>>

\* The source is deleted after the copy, before the target is closed; a deletion
\* that fails is only reported.
RemoveSource(w) ==
  /\ main # "exited" /\ job[w] = "remove"
  /\ \/ src' = [src EXCEPT ![Source(w)] = "deleted"] /\ UNCHANGED faulty
     \/ Faults(w) /\ UNCHANGED src
  /\ Step(w, "close")
  /\ UNCHANGED <<events, exitFile, lock, exporter, active, ctxDone, main, flushCtx,
                 loopVars, sigVars, attempt, buf, gcs>>

\* Closing the target is what stores it; an upload whose context is done is
\* dropped.
CloseTarget(w) ==
  /\ main # "exited" /\ job[w] = "close"
  /\ \/ /\ exporter = "library" => ~Expired(w)
        /\ gcs' = [gcs EXCEPT ![Target(w)] = buf[w]]
        /\ UNCHANGED faulty
     \/ exporter = "library" /\ Expired(w) /\ UNCHANGED <<gcs, faulty>>
     \/ Faults(w) /\ UNCHANGED gcs
  /\ Step(w, "done")
  /\ attempt' = [attempt EXCEPT ![w] = 0]
  /\ buf' = [buf EXCEPT ![w] = "empty"]
  /\ UNCHANGED <<shared, exporter, active, ctxDone, main, flushCtx, loopVars, sigVars>>

ExportStep(w) == CreateTarget(w) \/ CopySource(w) \/ CopyFails(w)
                 \/ CopyExpired(w) \/ RemoveSource(w) \/ CloseTarget(w)

-----------------------------------------------------------------------------
\* The event loop

LoopCheck ==
  /\ main # "exited" /\ loop = "check"
  /\ loop' = IF active THEN "select" ELSE "end"
  /\ UNCHANGED <<shared, exporter, active, ctxDone, main, flushCtx, task, loopCtx,
                 last, sigVars, jobVars>>

\* A new capture: the first one of its series is remembered; a later one
\* starts the export of the one before.
CaptureCreated ==
  /\ main # "exited" /\ loop = "select" /\ events # <<>> /\ Head(events) \in Files
  /\ events' = Tail(events)
  /\ LET f == Head(events)
     IN IF last[f[1]] = NoFile
        THEN /\ last' = [last EXCEPT ![f[1]] = f]
             /\ loop' = "check"
             /\ UNCHANGED <<task, loopCtx, job>>
        ELSE /\ task' = f
             /\ loopCtx' = IF flushCtx = "none" THEN "first" ELSE "second"
             /\ loop' = "export"
             /\ Step(Loop, "create")
             /\ UNCHANGED last
  /\ UNCHANGED <<src, exitFile, lock, exporter, active, ctxDone, main, flushCtx,
                 sigVars, attempt, buf, faulty, gcs>>

\* Whatever came of the export, the new capture is the next one to be moved.
Exported ==
  /\ main # "exited" /\ loop = "export" /\ job[Loop] = "done"
  /\ last' = [last EXCEPT ![task[1]] = task]
  /\ task' = NoFile
  /\ loop' = "check"
  /\ Step(Loop, "idle")
  /\ UNCHANGED <<shared, exporter, active, ctxDone, main, flushCtx, loopCtx,
                 sigVars, attempt, buf, faulty, gcs>>

\* tcpdumpw says that it has stopped: unless somebody was faster, cancel.
ExitDetected ==
  /\ main # "exited" /\ loop = "select" /\ events # <<>> /\ Head(events) = Exit
  /\ events' = Tail(events)
  /\ IF active
     THEN active' = FALSE /\ ctxDone' = TRUE /\ exitFile' = FALSE /\ loop' = "end"
     ELSE loop' = "check" /\ UNCHANGED <<active, ctxDone, exitFile>>
  /\ UNCHANGED <<src, lock, exporter, main, flushCtx, task, loopCtx, last, sigVars,
                 jobVars>>

\* The watcher is closed.
LoopEnds ==
  /\ main # "exited" /\ loop = "select" /\ events = <<>> /\ main # "wait"
  /\ loop' = "end"
  /\ UNCHANGED <<shared, exporter, active, ctxDone, main, flushCtx, task, loopCtx,
                 last, sigVars, jobVars>>

LoopStep == LoopCheck \/ CaptureCreated \/ Exported \/ ExitDetected \/ LoopEnds

-----------------------------------------------------------------------------
\* Signals

\* SIGTERM: the timer is armed and the lock file is waited for.
FsnSignal ==
  /\ sig = "none" /\ main # "exited"
  /\ sig' = "lock" /\ timer' = "armed"
  /\ UNCHANGED <<shared, exporter, active, ctxDone, main, flushCtx, loopVars, jobVars>>

\* The lock is acquired: tcpdumpw has stopped.  An attempt that is under way
\* when the context ends may still succeed; somebody else has cancelled then.
LockAcquired_NotLocked ==
  /\ main # "exited" /\ sig = "lock"
  /\ sig' = "end"
  /\ active' = FALSE /\ ctxDone' = (ctxDone \/ active)
  /\ timer' = IF active THEN "stopped" ELSE timer
  /\ UNCHANGED <<shared, exporter, main, flushCtx, loopVars, jobVars>>
LockAcquired ==
  /\ main # "exited" /\ sig = "lock" /\ lock = "free"
  /\ lock' = "pcapfsn" /\ sig' = "end"
  /\ active' = FALSE /\ ctxDone' = (ctxDone \/ active)
  /\ timer' = IF active THEN "stopped" ELSE timer
  /\ UNCHANGED <<src, events, exitFile, exporter, main, flushCtx, loopVars, jobVars>>

\* Waiting for the lock ends with the context or after the 3 s.
LockGivenUp ==
  /\ main # "exited"
  /\ sig = "lock" /\ (ctxDone \/ timer \in {"fired", "late"})
  /\ sig' = "end"
  /\ UNCHANGED <<shared, exporter, active, ctxDone, main, flushCtx, loopVars, timer,
                 jobVars>>

\* After 3 s: cancel, whatever tcpdumpw does.
TimerFires_NoCancel ==
  /\ timer = "armed" /\ main # "exited"
  /\ timer' = IF active THEN "fired" ELSE "late"
  /\ active' = FALSE
  /\ UNCHANGED <<shared, exporter, ctxDone, main, flushCtx, loopVars, sig, jobVars>>
TimerFires ==
  /\ timer = "armed" /\ main # "exited"
  /\ timer' = IF active THEN "fired" ELSE "late"
  /\ active' = FALSE /\ ctxDone' = (ctxDone \/ active)
  /\ UNCHANGED <<shared, exporter, main, flushCtx, loopVars, sig, jobVars>>

-----------------------------------------------------------------------------
\* The main goroutine

MainCancelled ==
  /\ main = "wait" /\ ctxDone
  /\ main' = "await"
  /\ UNCHANGED <<shared, exporter, active, ctxDone, flushCtx, loopVars, sigVars, jobVars>>

\* wg.Wait, then the variable ctx gets the context of the flush.
RegularExportsDone ==
  /\ main = "await" /\ loop # "export"
  /\ main' = "walk" /\ flushCtx' = "live"
  /\ UNCHANGED <<shared, exporter, active, ctxDone, loopVars, sigVars, jobVars>>

\* flushSrcDir: an export for every capture in the directory.
FlushSrcDir_Skipped ==
  /\ main = "walk"
  /\ main' = "flush"
  /\ UNCHANGED <<shared, exporter, active, ctxDone, flushCtx, loopVars, sigVars, jobVars>>
FlushSrcDir ==
  /\ main = "walk"
  /\ main' = "flush"
  /\ job' = [w \in Workers |-> IF w # Loop /\ Present(w) THEN "create" ELSE job[w]]
  /\ UNCHANGED <<shared, exporter, active, ctxDone, flushCtx, loopVars, sigVars,
                 attempt, buf, faulty, gcs>>

\* The flush takes more than its 5 s.
FlushExpires ==
  /\ main = "flush" /\ flushCtx = "live" /\ MaxFaulty > 0
  /\ flushCtx' = "expired"
  /\ UNCHANGED <<shared, exporter, active, ctxDone, main, loopVars, sigVars, jobVars>>

Flushed ==
  /\ main = "flush" /\ loop # "export" /\ \A f \in Files : job[f] \in {"idle", "done"}
  /\ main' = "exited"
  /\ lock' = IF lock = "pcapfsn" THEN "free" ELSE lock
  /\ UNCHANGED <<src, events, exitFile, exporter, active, ctxDone, flushCtx, loopVars,
                 sigVars, jobVars>>

MainStep == MainCancelled \/ RegularExportsDone \/ FlushSrcDir \/ Flushed
=============================================================================
