----------------------------- MODULE Tcpdumpw ------------------------------
(***************************************************************************)
(* tcpdumpw: the process that runs the capture engines (tcpdumpw/main.go). *)
(* This module has its start, the executions of its job, once or by cron,  *)
(* and its termination: the lock file, the engines' stop deadlines, the    *)
(* rotation of the last captures, the file TCPDUMPW_EXITED and the TCP     *)
(* listener for health checks.                                             *)
(*                                                                         *)
(* There is one engine per series of captures, with a goroutine in every   *)
(* execution; an execution is left after 2 s, stopped or not, so that the  *)
(* next one may find an engine of the last one still at work.  What an     *)
(* engine does with packets is in Transformer; here it writes captures.    *)
(***************************************************************************)
EXTENDS CaptureDir

CONSTANTS Rotated,      \* engines with a PcapWriter (JSON); tcpdump has none
          MayCrash,     \* an engine may panic while it stops, net.Listen may fail
          MaxRuns       \* bound: executions of the job

ASSUME EnginesAssumption ==
  Rotated \subseteq Keys /\ MayCrash \in BOOLEAN /\ MaxRuns \in Nat \ {0}

\* Executions of the job are scheduled; bound on the schedule: net.Listen may
\* come any time after the lock, not only right after it.
Modes == [cron : BOOLEAN, late : BOOLEAN]

VARIABLES
  mode,      \* how this tcpdumpw runs, fixed
  tw,        \* step of the main goroutine
  cancelled, \* the context of the process is done
  run,       \* executions of the job so far
  running,   \* the last one has not been left
  jobDone,   \* its context is done: cancelled, or its duration is over
  engine,    \* [Keys \X Runs -> step of an engine in an execution]
  isActive,  \* [Keys -> an execution of the engine is at work]
  stuck,     \* history: engines whose start failed and left isActive set
  current,   \* [Keys -> capture being written]
  sent,      \* deadlines sent to the last execution's stopDeadline
  received,  \* deadlines received from it
  dial,      \* the signal handler's connection to the TCP listener
  listener   \* step of startTCPListener

runVars == <<run, running, jobDone, engine, isActive, stuck, sent, received>>
twVars == <<tw, cancelled, runVars, current, dial, listener>>

Cron == mode.cron
Runs == 1..MaxRuns
NumTasks == Cardinality(Keys)

\* The type of every variable; stopDeadline carries one deadline per task.
TwTypeOK ==
  /\ mode \in Modes
  /\ tw \in {"start", "capture", "wait", "rotate", "unlock",
             "listener", "exited", "failed", "crashed"}
  /\ cancelled \in BOOLEAN /\ jobDone \in BOOLEAN
  /\ run \in 0..MaxRuns /\ running \in BOOLEAN
  /\ engine \in [Keys \X Runs -> {"off", "launched", "active", "stopping", "deadline", "stopped"}]
  /\ isActive \in [Keys -> BOOLEAN] /\ stuck \subseteq Keys
  /\ current \in [Keys -> 0..MaxFiles]
  /\ sent \in 0..NumTasks /\ received \in 0..NumTasks
  /\ dial \in {"none", "pending", "over"}
  /\ listener \in {"off", "listen", "accept", "closed"}

TwInit ==
  /\ mode \in Modes
  /\ tw = "start" /\ cancelled = FALSE /\ jobDone = FALSE
  /\ run = 0 /\ running = FALSE
  /\ engine = [e \in Keys \X Runs |-> "off"]
  /\ isActive = [k \in Keys |-> FALSE] /\ stuck = {}
  /\ current = [k \in Keys |-> 0]
  /\ sent = 0 /\ received = 0
  /\ dial = "none" /\ listener = "off"

Gone == {"exited", "failed", "crashed"}

-----------------------------------------------------------------------------
\* Captures

Unfinished(k) == current[k] > 0 /\ src[<<k, current[k]>>] = "open"

\* The current capture is finished; a new one, if any, follows it and the
\* watcher of the directory reports it.
Finish(k) == [src EXCEPT ![<<k, current[k]>>] = "complete"]
NewCapture(k) ==
  /\ current[k] < MaxFiles
  /\ src' = [(IF current[k] = 0 THEN src ELSE Finish(k)) EXCEPT ![<<k, current[k] + 1>>] = "open"]
  /\ current' = [current EXCEPT ![k] = @ + 1]
  /\ events' = Append(events, <<k, current[k] + 1>>)

-----------------------------------------------------------------------------
\* main and start

\* An execution of the job: a goroutine per task.
StartJob ==
  /\ run' = run + 1 /\ running' = TRUE /\ jobDone' = cancelled
  /\ engine' = [e \in Keys \X Runs |-> IF e[2] = run + 1 THEN "launched" ELSE engine[e]]
  /\ sent' = 0 /\ received' = 0
  /\ UNCHANGED <<isActive, stuck>>

\* Only one tcpdumpw, and none while pcapfsn is flushing.  Without cron, main
\* executes the job itself.
TryLock ==
  /\ tw = "start"
  /\ IF lock = "free"
     THEN /\ lock' = "tcpdumpw" /\ tw' = "capture"
          /\ listener' = IF mode.late THEN "listen" ELSE "accept"
          /\ IF Cron THEN UNCHANGED runVars ELSE StartJob
     ELSE tw' = "failed" /\ UNCHANGED <<lock, listener, runVars>>
  /\ UNCHANGED <<src, events, exitFile, cancelled, current, dial>>

\* The scheduler never has two executions of the job, and keeps those of a
\* cancelled context until main stops it.
Schedule ==
  /\ Cron /\ tw = "capture" /\ ~running /\ run < MaxRuns
  /\ StartJob
  /\ UNCHANGED <<shared, tw, cancelled, current, dial, listener>>

\* The context of an execution is done.
Over(r) == r < run \/ jobDone

\* An engine refuses to start while isActive is set.  It opens its first
\* capture (a writer that is open already goes on), or fails to start, which
\* resets isActive only when gopacket's handle cannot be activated.  tcpdump
\* is not started in a context that is done.
EngineStarts(k, r) ==
  /\ engine[<<k, r>>] = "launched"
  /\ \/ /\ isActive[k]
        /\ engine' = [engine EXCEPT ![<<k, r>>] = "stopped"]
        /\ UNCHANGED <<isActive, stuck, src, events, current>>
     \/ /\ ~isActive[k] /\ (k \in Rotated \/ ~Over(r))
        /\ IF k \in Rotated /\ Unfinished(k) THEN UNCHANGED <<src, events, current>>
           ELSE NewCapture(k)
        /\ engine' = [engine EXCEPT ![<<k, r>>] = "active"]
        /\ isActive' = [isActive EXCEPT ![k] = TRUE]
        /\ UNCHANGED stuck
     \/ /\ ~isActive[k]
        /\ engine' = [engine EXCEPT ![<<k, r>>] = "stopped"]
        /\ \/ k \in Rotated /\ UNCHANGED <<isActive, stuck>>
           \/ isActive' = [isActive EXCEPT ![k] = TRUE] /\ stuck' = stuck \cup {k}
        /\ UNCHANGED <<src, events, current>>
  /\ UNCHANGED <<exitFile, lock, tw, cancelled, run, running, jobDone, sent, received, dial,
                 listener>>

\* A capture that is being written is rotated every interval, and a PcapWriter's
\* also when the context is done, even after its engine has stopped (a rotation
\* that is delayed beyond Close would only add an empty capture: it is left out).
Rotate(k) ==
  /\ tw \notin Gone /\ Unfinished(k)
  /\ NewCapture(k)
  /\ UNCHANGED <<exitFile, lock, tw, cancelled, runVars, dial, listener>>

\* SIGTERM or SIGINT cancels the context of the process.
TwSignal ==
  /\ tw \notin Gone \cup {"start"} /\ ~cancelled
  /\ cancelled' = TRUE /\ jobDone' = TRUE
  /\ UNCHANGED <<shared, tw, run, running, engine, isActive, stuck, current, sent, received,
                 dial, listener>>

\* The duration of the capture is over.
DurationOver ==
  /\ tw = "capture" /\ running /\ ~jobDone
  /\ jobDone' = TRUE
  /\ UNCHANGED <<shared, tw, cancelled, run, running, engine, isActive, stuck, current, sent,
                 received, dial, listener>>

\* The engine sees its context done, receives its deadline, and stops: its
\* work is done or the deadline passed.  A gopacket engine resets isActive
\* first, tcpdump last, once its process is gone; tcpdump closes its capture,
\* a PcapWriter is closed by waitDone.
EngineStopping(k, r) ==
  /\ engine[<<k, r>>] = "active" /\ Over(r)
  /\ engine' = [engine EXCEPT ![<<k, r>>] = "stopping"]
  /\ isActive' = [isActive EXCEPT ![k] = k \notin Rotated]
  /\ UNCHANGED <<shared, tw, cancelled, run, running, jobDone, stuck, current, sent, received,
                 dial, listener>>

\* The channel of an execution that was left holds a deadline per engine.
EngineDeadline(k, r) ==
  /\ engine[<<k, r>>] = "stopping" /\ (r < run \/ received < sent)
  /\ engine' = [engine EXCEPT ![<<k, r>>] = "deadline"]
  /\ received' = IF r < run THEN received ELSE received + 1
  /\ UNCHANGED <<shared, tw, cancelled, run, running, jobDone, isActive, stuck, current, sent,
                 dial, listener>>

EngineStopped_StaysActive(k, r) ==
  /\ engine[<<k, r>>] = "deadline"
  /\ engine' = [engine EXCEPT ![<<k, r>>] = "stopped"]
  /\ src' = IF k \in Rotated THEN src ELSE Finish(k)
  /\ UNCHANGED <<events, exitFile, lock, tw, cancelled, run, running, jobDone, isActive, stuck,
                 current, sent, received, dial, listener>>
EngineStopped(k, r) ==
  /\ engine[<<k, r>>] = "deadline"
  /\ engine' = [engine EXCEPT ![<<k, r>>] = "stopped"]
  /\ IF k \in Rotated THEN UNCHANGED <<src, isActive>>
     ELSE src' = Finish(k) /\ isActive' = [isActive EXCEPT ![k] = FALSE]
  /\ UNCHANGED <<events, exitFile, lock, tw, cancelled, run, running, jobDone, stuck, current,
                 sent, received, dial, listener>>

\* Once the context is done the goroutine of waitJobDone sends one deadline
\* per task...
SendDeadline ==
  /\ tw = "capture" /\ running /\ jobDone /\ sent < NumTasks
  /\ sent' = sent + 1
  /\ UNCHANGED <<shared, tw, cancelled, run, running, jobDone, engine, isActive, stuck, current,
                 received, dial, listener>>

\* ...and the job is left when every engine has stopped or after 2 s, which
\* the buffered sends do not take.
JobLeft ==
  /\ tw = "capture" /\ running /\ jobDone /\ sent = NumTasks
  /\ running' = FALSE
  /\ tw' = IF Cron THEN tw ELSE "wait"
  /\ UNCHANGED <<shared, cancelled, run, jobDone, engine, isActive, stuck, current, sent, received,
                 dial, listener>>

\* A signal wakes main, which stops the scheduler: that waits for the execution.
SchedulerStops ==
  /\ Cron /\ tw = "capture" /\ cancelled /\ ~running
  /\ tw' = "wait"
  /\ UNCHANGED <<shared, cancelled, runVars, current, dial, listener>>

-----------------------------------------------------------------------------
\* waitDone

\* wg.Wait: the engines have stopped, however long it took.
EnginesStopped ==
  /\ tw = "wait" /\ \A e \in Keys \X Runs : engine[e] \in {"off", "stopped"}
  /\ tw' = "rotate"
  /\ UNCHANGED <<shared, cancelled, runVars, current, dial, listener>>

\* Every writer is rotated and closed, which leaves one more, empty, capture
\* (within MaxFiles).
CloseWriter(k) ==
  /\ tw = "rotate" /\ Unfinished(k)
  /\ IF current[k] < MaxFiles
     THEN /\ src' = [Finish(k) EXCEPT ![<<k, current[k] + 1>>] = "complete"]
          /\ current' = [current EXCEPT ![k] = @ + 1]
          /\ events' = Append(events, <<k, current[k] + 1>>)
     ELSE src' = Finish(k) /\ UNCHANGED <<current, events>>
  /\ UNCHANGED <<exitFile, lock, tw, cancelled, runVars, dial, listener>>

\* TCPDUMPW_EXITED is created unless it is there already.
SignalExit ==
  /\ tw = "rotate" /\ \A k \in Keys : ~Unfinished(k)
  /\ exitFile' = TRUE
  /\ events' = IF exitFile THEN events ELSE Append(events, Exit)
  /\ tw' = "unlock"
  /\ UNCHANGED <<src, lock, cancelled, runVars, current, dial, listener>>

Unlock ==
  /\ tw = "unlock"
  /\ lock' = "free"
  /\ tw' = "listener"
  /\ UNCHANGED <<src, events, exitFile, cancelled, runVars, current, dial, listener>>

\* main returns when the TCP listener has stopped.
TwExit ==
  /\ tw = "listener" /\ listener = "closed"
  /\ tw' = "exited"
  /\ UNCHANGED <<shared, cancelled, runVars, current, dial, listener>>

\* A panic in an engine's goroutine (see Transformer), or a port that the TCP
\* listener cannot have, ends the process: the captures stay as they are and the
\* system releases the lock.
Crash ==
  /\ MayCrash /\ tw \notin Gone
  /\ listener = "listen" \/ \E e \in Keys \X Runs : engine[e] = "deadline"
  /\ tw' = "crashed"
  /\ engine' = [e \in Keys \X Runs |-> "stopped"]
  /\ src' = [f \in DOMAIN src |-> IF src[f] = "open" THEN "complete" ELSE src[f]]
  /\ lock' = IF lock = "tcpdumpw" THEN "free" ELSE lock
  /\ listener' = "closed" /\ dial' = "over"
  /\ UNCHANGED <<events, exitFile, cancelled, run, running, jobDone, isActive, stuck, current, sent,
                 received>>

-----------------------------------------------------------------------------
\* The TCP listener for health checks

\* The way back to Accept, or out of the loop when the context is done.  The
\* check is one step with the Accept before it: health checks are left out, so
\* that only the signal handler connects, and it cancelled the context before.
AcceptUntilDone ==
  IF cancelled THEN listener' = "closed" /\ dial' = "over"
  ELSE listener' = "accept" /\ dial' = IF dial = "pending" THEN "over" ELSE dial

Listen ==
  /\ tw \notin Gone /\ listener = "listen"
  /\ AcceptUntilDone
  /\ UNCHANGED <<shared, tw, cancelled, runVars, current>>

\* The signal handler connects once, after it cancelled the context; nobody
\* is there to accept before the listener listens or once it is closed (it
\* makes no difference then: the connection counts as over).
Dial_BeforeCancel ==
  /\ tw = "capture" /\ ~cancelled /\ dial = "none" /\ listener = "accept"
  /\ dial' = "pending"
  /\ UNCHANGED <<shared, tw, cancelled, runVars, current, listener>>
Dial ==
  /\ tw \notin Gone /\ cancelled /\ dial = "none"
  /\ dial' = IF listener = "accept" THEN "pending" ELSE "over"
  /\ UNCHANGED <<shared, tw, cancelled, runVars, current, listener>>

Accept ==
  /\ tw \notin Gone /\ listener = "accept" /\ dial = "pending"
  /\ AcceptUntilDone
  /\ UNCHANGED <<shared, tw, cancelled, runVars, current>>

EngineStep(k, r) == EngineStarts(k, r) \/ EngineStopping(k, r) \/ EngineDeadline(k, r)
                    \/ EngineStopped(k, r)

TwStep == TryLock \/ SendDeadline \/ JobLeft \/ SchedulerStops \/ EnginesStopped
          \/ (\E k \in Keys : CloseWriter(k)) \/ SignalExit \/ Unlock \/ TwExit

ListenerStep == Listen \/ Dial \/ Accept
=============================================================================
