--------------------------- MODULE SidecarProofs ----------------------------
(***************************************************************************)
(* That pcapfsn deletes a capture only when it is stored, and what may be  *)
(* missing from the bucket once it has flushed, for any series of          *)
(* captures, executions of the job, attempts and faults.                   *)
(***************************************************************************)
EXTENDS SidecarSeries, TLAPS

-----------------------------------------------------------------------------
\* What the Fuse exporter deletes

Writing == {"copy", "remove", "close"}

\* A target is created by one export only, which writes it when it closes it.
FuseInv ==
  exporter = "fuse" =>
    /\ \A w \in Workers : job[w] \in Writing => gcs[Target(w)] = "empty"
    /\ \A v, w \in Workers :
         job[v] \in Writing /\ job[w] \in Writing /\ v # w => Target(v) # Target(w)

\* What the event loop has written of the capture it moves.
LoopExport ==
  loop = "export" /\ Source(Loop) \notin faulty =>
    /\ job[Loop] = "copy" => buf[Loop] = "empty"
    /\ job[Loop] = "remove" => buf[Loop] = "full"
    /\ exporter = "fuse" /\ src[Source(Loop)] = "deleted" =>
         \/ job[Loop] = "close" /\ buf[Loop] = "full"
         \/ job[Loop] = "done" /\ Stored(Source(Loop))

FuseStored == FuseInv /\ LoopExport /\ FuseDeletesStored

\* Sources and targets depend on what the loop has in hand only.
LEMMA TargetFrame ==
  ASSUME NEW w \in Workers
  PROVE  /\ UNCHANGED <<task, last>> => Source(w)' = Source(w) /\ Target(w)' = Target(w)
         /\ w # Loop => /\ Source(w) = w /\ Source(w)' = w
                        /\ Target(w) = <<w, FALSE>> /\ Target(w)' = <<w, FALSE>>
BY Zenon DEF Source, Target

\* A target is an object of the bucket.
LEMMA TargetObject ==
  ASSUME TypeOK, LoopInv, NEW w \in Workers, job[w] # "idle"
  PROVE  Source(w) \in Files /\ Target(w) \in Objects /\ Target(w)[1] = Source(w)
<1>1. Source(w) \in Files
  BY SourceFile
<1>2. (w = Loop /\ Gzip) \in BOOLEAN
  BY Zenon
<1> QED
  BY Zenon, <1>1, <1>2 DEF Target, Objects

\* What an export does to the bucket: the Fuse exporter creates its target, and
\* every exporter writes it when it closes it.
LEMMA GcsEffect ==
  ASSUME TypeOK, NEW w \in Workers, ExportStep(w)
  PROVE  /\ \/ gcs' = gcs /\ (exporter = "fuse" => job[w] \in Writing \/ job'[w] \notin Writing)
            \/ /\ exporter = "fuse" /\ job[w] = "create" /\ gcs[Target(w)] = "none"
               /\ gcs' = [gcs EXCEPT ![Target(w)] = "empty"]
            \/ job[w] = "close" /\ job' = [job EXCEPT ![w] = "done"] /\ gcs' = [gcs EXCEPT ![Target(w)] = buf[w]]
         /\ faulty \subseteq faulty'
<1>1. faulty \subseteq faulty'
  <2>1. faulty' = faulty \/ faulty' = faulty \cup {Source(w)}
    BY Zenon DEF ExportStep, CreateTarget, CopySource, CopyFails, CopyExpired, RemoveSource,
       CloseTarget, Faults
  <2> QED
    BY <2>1
<1>2. CASE job[w] \in Writing
  BY Zenon, <1>1, <1>2 DEF ExportStep, CreateTarget, CopySource, CopyFails, CopyExpired, RemoveSource,
     CloseTarget, Step, Writing
<1>3. CASE job[w] \notin Writing
  <2>1. CreateTarget(w)
    BY <1>3 DEF ExportStep, CopySource, CopyFails, CopyExpired, RemoveSource, CloseTarget, Writing
  <2>2. CASE exporter = "fuse" /\ gcs[Target(w)] = "none" /\ gcs' = [gcs EXCEPT ![Target(w)] = "empty"]
    BY <1>1, <2>1, <2>2 DEF CreateTarget
  <2>3. CASE gcs' = gcs /\ (exporter = "fuse" => job' = [job EXCEPT ![w] = "done"])
    <3>1. exporter = "fuse" => job'[w] \notin Writing
      BY <2>3 DEF Writing, TypeOK, FsnTypeOK
    <3> QED
      BY Zenon, <1>1, <2>3, <3>1
  <2> QED
    BY Zenon, <2>1, <2>2, <2>3 DEF CreateTarget, Step
<1> QED
  BY <1>2, <1>3

\* Steps that touch neither the bucket nor what the loop has in hand.
LEMMA FuseStill ==
  ASSUME FuseStored, UNCHANGED <<gcs, faulty, buf, task, last, exporter>>,
         loop' = "export" <=> loop = "export", job'[Loop] = job[Loop],
         \A w \in Workers : job'[w] \in Writing => job[w] \in Writing,
         TypeOK, LoopInv, \A f \in Files : src'[f] = "deleted" => src[f] = "deleted"
  PROVE  FuseStored'
<1>1. \A w \in Workers : Source(w)' = Source(w) /\ Target(w)' = Target(w)
  BY Zenon, TargetFrame
<1>2. Loop \in Workers /\ \A f \in Files : Stored(f)' <=> Stored(f)
  BY Zenon DEF Workers, Stored
<1>3. FuseInv'
  BY Zenon, <1>1 DEF FuseStored, FuseInv
<1>4. loop = "export" => Source(Loop) \in Files
  BY DEF LoopInv, Source
<1>5. LoopExport'
  BY Zenon, <1>1, <1>2, <1>4 DEF FuseStored, LoopExport
<1>6. FuseDeletesStored'
  BY Zenon, <1>1, <1>2 DEF FuseStored, FuseDeletesStored
<1> QED
  BY Zenon, <1>3, <1>5, <1>6 DEF FuseStored

\* What is stored in full stays, and targets stay apart.
LEMMA FuseTargets ==
  ASSUME TypeOK, LoopInv, JobInv, FuseInv, exporter = "fuse", NEW w \in Workers, ExportStep(w)
  PROVE  FuseInv' /\ \A f \in Files : Stored(f) => Stored(f)'
<1>1. /\ UNCHANGED <<task, last, exporter>> /\ job[w] # "idle"
      /\ \A v \in Workers : v # w => job'[v] = job[v]
      /\ \A v \in Workers : Target(v)' = Target(v)
  BY Zenon, ExportFrame, TargetFrame
<1>2. /\ Target(w) \in Objects /\ gcs \in [Objects -> Contents]
      /\ \A v \in Workers : job[v] \in Writing => Target(v) \in Objects
      /\ \A f \in Files, z \in BOOLEAN : <<f, z>> \in Objects
  <2>1. \A v \in Workers : job[v] \in Writing => job[v] # "idle"
    BY DEF Writing
  <2> QED
    BY Zenon, <1>1, <2>1, TargetObject DEF TypeOK, FsnTypeOK, Objects
<1>3. CASE gcs' = gcs /\ (job[w] \in Writing \/ job'[w] \notin Writing)
  BY Zenon, <1>1, <1>3 DEF FuseInv, Stored
<1>4. CASE /\ job[w] = "create" /\ gcs[Target(w)] = "none"
           /\ gcs' = [gcs EXCEPT ![Target(w)] = "empty"]
  <2>1. \A v \in Workers : v # w /\ job[v] \in Writing => Target(v) # Target(w)
    BY <1>4 DEF FuseInv
  <2>2. gcs'[Target(w)] = "empty" /\ \A o \in Objects : o # Target(w) => gcs'[o] = gcs[o]
    BY <1>2, <1>4
  <2>3. FuseInv'
    BY <1>1, <1>2, <2>1, <2>2 DEF FuseInv
  <2>4. \A f \in Files : Stored(f) => Stored(f)'
    BY Zenon, <1>2, <1>4, <2>2 DEF Stored
  <2> QED
    BY <2>3, <2>4
<1>5. CASE /\ job[w] = "close" /\ job' = [job EXCEPT ![w] = "done"]
           /\ gcs' = [gcs EXCEPT ![Target(w)] = buf[w]]
  <2>1. job[w] \in Writing /\ job'[w] \notin Writing /\ gcs[Target(w)] = "empty"
    BY <1>5 DEF Writing, TypeOK, FsnTypeOK, FuseInv
  <2>2. \A o \in Objects : o # Target(w) => gcs'[o] = gcs[o]
    BY Zenon, <1>2, <1>5
  <2>3. FuseInv'
    BY <1>1, <1>2, <2>1, <2>2 DEF FuseInv
  <2>4. \A f \in Files : Stored(f) => Stored(f)'
    BY Zenon, <1>2, <2>1, <2>2 DEF Stored
  <2> QED
    BY <2>3, <2>4
<1> QED
  BY <1>3, <1>4, <1>5, GcsEffect

\* An export keeps LoopExport.
LEMMA LoopExportStep ==
  ASSUME TypeOK, LoopInv, SeriesInv, JobInv, FuseStored, NEW w \in Workers, ExportStep(w)
  PROVE  LoopExport'
<1>1. /\ UNCHANGED <<loop, task, last, exporter>> /\ job[w] # "idle"
      /\ \A v \in Workers : v # w => job'[v] = job[v] /\ buf'[v] = buf[v]
  BY ExportFrame
<1> SUFFICES ASSUME loop = "export", Source(Loop)' \notin faulty'
             PROVE  /\ job'[Loop] = "copy" => buf'[Loop] = "empty"
                    /\ job'[Loop] = "remove" => buf'[Loop] = "full"
                    /\ exporter' = "fuse" /\ src'[Source(Loop)'] = "deleted" =>
                         \/ job'[Loop] = "close" /\ buf'[Loop] = "full"
                         \/ job'[Loop] = "done" /\ Stored(Source(Loop))'
  BY Zenon, <1>1 DEF LoopExport
<1>2. PICK g \in Files : g = Source(Loop) /\ Source(Loop)' = g
  BY Zenon, <1>1, LoopSource, TargetFrame DEF Workers
<1>3. g \notin faulty /\ g \notin faulty'
  BY <1>2, GcsEffect
<1>4. /\ job[Loop] = "copy" => buf[Loop] = "empty"
      /\ job[Loop] = "remove" => buf[Loop] = "full"
      /\ exporter = "fuse" /\ src[g] = "deleted" =>
           \/ job[Loop] = "close" /\ buf[Loop] = "full"
           \/ job[Loop] = "done" /\ Stored(g)
  BY Zenon, <1>2, <1>3 DEF FuseStored, LoopExport
<1>5. exporter = "fuse" /\ Stored(g) => Stored(g)'
  BY FuseTargets DEF FuseStored
<1>6. CASE w # Loop
  <2>1. src' = src /\ job'[Loop] = job[Loop] /\ buf'[Loop] = buf[Loop] /\ Loop \in Workers
    BY Zenon, <1>1, <1>6, ExportFrame DEF Workers
  <2> QED
    BY Zenon, <1>1, <1>2, <1>4, <1>5, <2>1
<1>7. CASE w = Loop
  <2>0. /\ job \in [Workers -> {"idle", "create", "copy", "remove", "close", "done"}]
        /\ buf \in [Workers -> Contents] /\ src \in [Files -> {"absent", "open", "complete", "deleted"}]
        /\ Loop \in Workers /\ src[g] \in {"complete", "deleted"}
    BY Zenon, <1>2, LoopSource DEF TypeOK, FsnTypeOK, DirTypeOK, Workers
  <2>1. CASE CreateTarget(Loop)
    <3>1. job[Loop] = "create" /\ UNCHANGED <<src, buf>> /\ buf[Loop] = "empty" /\ job'[Loop] \in {"copy", "done"}
      BY Zenon, <2>0, <2>1 DEF CreateTarget, Step, shared, JobInv
    <3> QED
      BY Zenon, <1>1, <1>2, <1>4, <3>1
  <2>2. CASE CopySource(Loop)
    <3>1. job[Loop] = "copy" /\ src[g] = "complete" /\ UNCHANGED src /\ job'[Loop] = "remove"
      BY Zenon, <1>2, <2>0, <2>2 DEF CopySource, Present, Step, shared
    <3>2. buf'[Loop] = "full"
      BY Zenon, <1>2, <1>4, <2>0, <2>2, <3>1 DEF CopySource
    <3> QED
      BY Zenon, <1>2, <3>1, <3>2
  <2>3. CASE CopyFails(Loop)
    <3>1. job[Loop] = "copy" /\ UNCHANGED src /\ job'[Loop] \in {"copy", "close"}
      BY Zenon, <2>0, <2>3 DEF CopyFails, Step, shared
    <3>2. ~Present(g)
      BY Zenon, <1>2, <1>3, <2>3 DEF CopyFails, Faults
    <3>3. src[g] = "deleted" /\ buf' = buf
      BY Zenon, <1>2, <2>0, <2>3, <3>2 DEF CopyFails, Present
    <3> QED
      BY Zenon, <1>1, <1>2, <1>4, <3>1, <3>3
  <2>4. CASE CopyExpired(Loop)
    <3>1. job[Loop] = "copy" /\ UNCHANGED src /\ job'[Loop] = "close"
      BY Zenon, <2>0, <2>4 DEF CopyExpired, Step, shared
    <3> QED
      BY Zenon, <1>1, <1>2, <1>4, <3>1
  <2>5. CASE RemoveSource(Loop)
    <3>1. job[Loop] = "remove" /\ UNCHANGED buf /\ job'[Loop] = "close"
      BY <2>0, <2>5 DEF RemoveSource, Step
    <3> QED
      BY <1>4, <3>1
  <2>6. CASE CloseTarget(Loop)
    <3>1. job[Loop] = "close" /\ UNCHANGED src /\ job'[Loop] = "done"
      BY Zenon, <2>0, <2>6 DEF CloseTarget, Step, shared
    <3>2. exporter = "fuse" => gcs' = [gcs EXCEPT ![Target(Loop)] = buf[Loop]]
      BY <1>2, <1>3, <2>6 DEF CloseTarget, Faults
    <3>3. exporter = "fuse" /\ src[g] = "deleted" => Stored(g)'
      <4>1. Target(Loop) = <<g, Gzip>> /\ Gzip \in BOOLEAN /\ <<g, Gzip>> \in Objects
        BY Zenon, <1>2, FsnAssumption DEF Target, Objects
      <4>2. gcs \in [Objects -> Contents]
        BY Zenon DEF TypeOK, FsnTypeOK
      <4>3. exporter = "fuse" => gcs'[<<g, Gzip>>] = buf[Loop]
        BY Zenon, <3>2, <4>1, <4>2
      <4>4. exporter = "fuse" /\ src[g] = "deleted" => gcs'[<<g, Gzip>>] = "full"
        BY Zenon, <1>4, <3>1, <4>3
      <4> QED
        BY Zenon, <4>1, <4>4 DEF Stored
    <3> QED
      BY Zenon, <1>1, <1>2, <3>1, <3>3
  <2> QED
    BY Zenon, <1>7, <2>1, <2>2, <2>3, <2>4, <2>5, <2>6 DEF ExportStep
<1> QED
  BY Zenon, <1>6, <1>7

\* Initially nothing is written or deleted.
LEMMA FuseInit == Init => FuseStored
<1> SUFFICES ASSUME Init PROVE FuseStored
  OBVIOUS
<1>1. loop = "check" /\ (\A w \in Workers : job[w] = "idle") /\ \A f \in Files : src[f] = "absent"
  BY DEF Init, DirInit, FsnInit
<1> QED
  BY <1>1 DEF FuseStored, FuseInv, LoopExport, FuseDeletesStored, Writing

\* Every step keeps what the Fuse exporter has stored.
LEMMA FuseNext ==
  ASSUME TypeOK, LoopInv, SeriesInv, JobInv, FuseStored, [Next]_vars
  PROVE  FuseStored'
<1>0. /\ job \in [Workers -> {"idle", "create", "copy", "remove", "close", "done"}]
      /\ Loop \in Workers /\ src \in [Files -> {"absent", "open", "complete", "deleted"}]
  BY DEF TypeOK, FsnTypeOK, DirTypeOK, Workers
<1>1. CASE TwNext \/ UNCHANGED vars
  <2>1. UNCHANGED <<gcs, faulty, buf, task, last, exporter, job, loop>>
    BY Zenon, <1>1 DEF TwNext, fsnFrame, fsnVars, loopVars, jobVars, vars
  <2>2. \A f \in Files : src'[f] = "deleted" => src[f] = "deleted"
    BY <1>1, TwCaptures DEF SeriesInv, vars, shared
  <2> QED
    BY Zenon, <2>1, <2>2, FuseStill
<1>2. CASE Quiet
  <2>1. UNCHANGED <<gcs, faulty, buf, task, last, exporter, job, src>> /\ (loop' = "export" <=> loop = "export")
    BY <1>2, QuietFrame
  <2> QED
    BY Zenon, <2>1, FuseStill
<1>3. CASE FlushSrcDir
  <2>1. /\ UNCHANGED <<gcs, faulty, buf, task, last, exporter, src, loop>>
        /\ job' = [w \in Workers |-> IF w # Loop /\ Present(w) THEN "create" ELSE job[w]]
    BY Zenon, <1>3 DEF FlushSrcDir, loopVars, shared
  <2>2. job'[Loop] = job[Loop] /\ \A w \in Workers : job'[w] \in Writing => job[w] \in Writing
    BY <1>0, <2>1 DEF Writing
  <2> QED
    BY Zenon, <2>1, <2>2, FuseStill
<1>4. ASSUME NEW w \in Workers, ExportStep(w)
      PROVE  FuseStored'
  <2>1. UNCHANGED <<loop, task, last, exporter>>
    BY Zenon, <1>4, ExportFrame
  <2>2. FuseInv'
    BY Zenon, <1>4, <2>1, FuseTargets DEF FuseStored, FuseInv
  <2>3. FuseDeletesStored'
    <3>0. Source(Loop)' = Source(Loop)
      BY Zenon, <1>0, <2>1, TargetFrame
    <3> SUFFICES ASSUME exporter = "fuse", NEW f \in Files, f \notin faulty', src'[f] = "deleted",
                        ~InHand(f)
                 PROVE  Stored(f)'
      BY Zenon, <2>1, <3>0 DEF FuseDeletesStored, InHand
    <3>1. f \notin faulty
      BY <1>4, GcsEffect
    <3>2. src[f] = "deleted"
      <4>1. CASE src' = src
        BY <4>1
      <4>2. CASE w = Loop /\ job[w] = "remove" /\ src' = [src EXCEPT ![Source(Loop)] = "deleted"]
        <5>1. f # Source(Loop)
          BY <4>2 DEF InHand, LoopInv
        <5> QED
          BY <1>0, <4>2, <5>1
      <4> QED
        BY Zenon, <1>4, <4>1, <4>2, ExportFrame
    <3>3. Stored(f)
      BY <3>1, <3>2 DEF FuseStored, FuseDeletesStored, InHand
    <3> QED
      BY Zenon, <1>4, <3>3, FuseTargets DEF FuseStored
  <2> QED
    BY <1>4, <2>2, <2>3, LoopExportStep DEF FuseStored
<1>5. CASE CaptureCreated
  <2>1. /\ loop = "select" /\ UNCHANGED <<src, gcs, faulty, exporter, buf>>
        /\ job' = job \/ job' = [job EXCEPT ![Loop] = "create"]
        /\ loop' = "export" => job'[Loop] = "create" /\ last' = last /\ task' = Head(events)
        /\ Head(events) \in Files
    BY Zenon, <1>0, <1>5 DEF CaptureCreated, Step
  <2>2. job[Loop] = "idle" /\ \A w \in Workers : job'[w] \in Writing => job[w] \in Writing /\ w # Loop
    BY <1>0, <2>1 DEF LoopInv, Writing
  <2>3. FuseInv'
    <3>1. \A w \in Workers : w # Loop => Target(w)' = Target(w)
      BY Zenon, TargetFrame
    <3>2. FuseInv /\ exporter' = exporter /\ gcs' = gcs
      BY Zenon, <2>1 DEF FuseStored
    <3>3. \A w \in Workers : job'[w] \in Writing => job[w] \in Writing /\ Target(w)' = Target(w)
      BY Zenon, <2>2, <3>1
    <3> QED
      BY Zenon, <3>2, <3>3 DEF FuseInv
  <2>4. exporter = "fuse" => \A f \in Files \ faulty : src[f] = "deleted" => Stored(f)
    BY <2>1 DEF FuseStored, FuseDeletesStored
  <2>5. FuseDeletesStored'
    BY <2>1, <2>4 DEF FuseDeletesStored, Stored
  <2>6. LoopExport'
    <3> SUFFICES ASSUME loop' = "export" PROVE src'[Source(Loop)'] # "deleted"
      BY Zenon, <2>1 DEF LoopExport
    <3>1. PICK g \in Files : g = Source(Loop)' /\ last[Head(events)[1]] = g /\ Head(events)[1] \in Keys
      <4>1. last[Head(events)[1]] # NoFile
        BY Zenon, <1>5, <2>1 DEF CaptureCreated
      <4>2. Head(events)[1] \in Keys /\ last[Head(events)[1]] \in Files
        BY <2>1, <4>1, FilePair DEF TypeOK, FsnTypeOK
      <4> QED
        BY Zenon, <2>1, <4>2 DEF Source
    <3>2. g[1] = Head(events)[1] /\ g[2] \in Int
      BY <3>1, FilePair, Markers DEF SeriesInv, LastInv
    <3>3. src[g] = "deleted" => g[2] < g[2]
      BY <2>1, <3>1, <3>2 DEF SeriesInv, DeletedInv, InHand
    <3> QED
      BY <2>1, <3>1, <3>2, <3>3
  <2> QED
    BY Zenon, <2>3, <2>5, <2>6 DEF FuseStored
<1>6. CASE Exported
  <2>1. /\ loop = "export" /\ job[Loop] = "done" /\ loop' = "check" /\ job' = [job EXCEPT ![Loop] = "idle"]
        /\ UNCHANGED <<src, gcs, faulty, exporter, buf>>
    BY Zenon, <1>6 DEF Exported, Step, shared
  <2>2. \A w \in Workers : job'[w] \in Writing => job[w] \in Writing /\ w # Loop
    BY <1>0, <2>1 DEF Writing
  <2>3. FuseInv'
    <3>1. \A w \in Workers : w # Loop => Target(w)' = Target(w)
      BY Zenon, TargetFrame
    <3>2. FuseInv /\ exporter' = exporter /\ gcs' = gcs
      BY Zenon, <2>1 DEF FuseStored
    <3>3. \A w \in Workers : job'[w] \in Writing => job[w] \in Writing /\ Target(w)' = Target(w)
      BY Zenon, <2>2, <3>1
    <3> QED
      BY Zenon, <3>2, <3>3 DEF FuseInv
  <2>4. exporter = "fuse" => \A f \in Files \ faulty : src[f] = "deleted" => Stored(f)
    BY Zenon, <2>1 DEF FuseStored, FuseDeletesStored, LoopExport
  <2>5. FuseDeletesStored' /\ LoopExport'
    BY <2>1, <2>4 DEF FuseDeletesStored, LoopExport, Stored
  <2> QED
    BY <2>3, <2>5 DEF FuseStored
<1> QED
  BY Zenon, <1>1, <1>2, <1>3, <1>4, <1>5, <1>6 DEF Next, FsnNext, Quiet, ExportStep

\* Both together.
ExportInv == SeriesInv /\ JobInv /\ FuseStored

LEMMA ExportNext ==
  ASSUME TypeOK, LoopInv, ExportInv, [Next]_vars
  PROVE  ExportInv'
<1>1. SeriesInv'
  <2>1. CASE UNCHANGED vars
    BY Zenon, <2>1 DEF vars, shared, fsnVars, loopVars, twVars, ExportInv, SeriesInv, CaptureInv, OrderedEvents,
       LastInv, DeletedInv, Ahead, InHand, Source
  <2> QED
    BY Zenon, <2>1, SeriesTw, SeriesFsn DEF Next, ExportInv
<1> QED
  BY <1>1, JobNext, FuseNext DEF ExportInv

LEMMA ExportInvariant == Spec => []ExportInv
<1>1. Init => ExportInv
  BY ExportInit, FuseInit DEF ExportInv
<1>2. TerminationInv /\ ExportInv /\ [Next]_vars => ExportInv'
  BY ExportNext DEF TerminationInv
<1> QED
  BY <1>1, <1>2, TerminationInvariant, PTL DEF Spec

\* copyPcap removes the source before it closes the target, and the event loop
\* takes the next capture after that: with the Fuse exporter, what is no longer
\* in the directory is in the bucket, unless an I/O error hit it.
THEOREM FuseKeepsCaptures == Spec => []FuseDeletesStored
<1>1. ExportInv => FuseDeletesStored
  BY DEF ExportInv, FuseStored
<1> QED
  BY <1>1, ExportInvariant, PTL

-----------------------------------------------------------------------------
\* Captures missing at the exit

\* The executions the promise is about: no timeout, no flush that takes too
\* long, and an exporter that exports.
Counted == timer # "fired" /\ flushCtx # "expired" /\ exporter # "nil"

Fresh(f) == \A z \in BOOLEAN : gcs[<<f, z>>] = "none"
Kept(f) == Stored(f) /\ (job[f] = "done" \/ (job[f] = "idle" /\ src[f] = "deleted"))
Untouched(f) == main \in {"wait", "await", "walk"} /\ Present(f) /\ Fresh(f)
Flushing(f) ==
  /\ main = "flush" /\ src[f] = "complete"
  /\ \/ job[f] = "create" /\ Fresh(f)
     \/ job[f] = "copy" /\ buf[f] = "empty"
     \/ job[f] = "close" /\ buf[f] = "full"

\* A capture that is or will be in the bucket when pcapfsn exits.
Safe(f) == src[f] = "absent" \/ f \in faulty \/ Kept(f) \/ Untouched(f) \/ Flushing(f)
Lost(f) == ~Safe(f) /\ ~InHand(f)

\* Before the context is cancelled the loop moves a capture without a loss.
InTime ==
  ~ctxDone /\ loop = "export" /\ Source(Loop) \notin faulty =>
    /\ src[Source(Loop)] = IF job[Loop] \in {"close", "done"} THEN "deleted" ELSE "complete"
    /\ job[Loop] = "create" => Fresh(Source(Loop))
    /\ job[Loop] = "copy" => buf[Loop] = "empty"
    /\ job[Loop] \in {"remove", "close"} => buf[Loop] = "full"
    /\ job[Loop] = "done" => Stored(Source(Loop))

LostInv ==
  Counted =>
    /\ InTime
    /\ ~ctxDone \/ loop \in {"select", "export"} => \A f \in Files : ~Lost(f)
    /\ \A f, g \in Files : Lost(f) /\ Lost(g) => f = g

\* Nothing is stored of a capture that does not exist, and no flush has begun
\* before the regular exports are over.
FreshInv ==
  /\ \A f \in Files : src[f] = "absent" => Fresh(f)
  /\ main \in {"wait", "await"} => flushCtx = "none"

\* Once pcapfsn is cancelled because tcpdumpw has stopped, no capture changes.
LEMMA TwStill ==
  ASSUME TerminationInv, Graceful, TwNext
  PROVE  \A f \in Files : src'[f] = src[f]
<1>1. tw \in Stopped \cup {"start"} /\ OpenInv
  BY Zenon DEF TerminationInv, CtxInv
<1>2. ASSUME NEW k \in Keys
      PROVE  /\ ~Rotate(k) /\ ~CloseWriter(k)
             /\ \A r \in Runs : ~EngineStarts(k, r) /\ ~EngineStopping(k, r) /\ ~EngineDeadline(k, r)
                                /\ ~EngineStopped(k, r)
  BY Zenon, <1>1, WorkingNow DEF TerminationInv
<1>3. CASE Crash
  <2>1. \A f \in Files : src[f] # "open"
    BY <1>1, FilePair DEF OpenInv
  <2> QED
    BY <1>3, <2>1 DEF Crash, TerminationInv, TypeOK, DirTypeOK
<1>4. CASE ~Crash
  BY Zenon, <1>2, <1>4 DEF TwNext, TryLock, SendDeadline, JobLeft, Schedule, SchedulerStops, EnginesStopped,
     SignalExit, Unlock, TwExit, TwSignal, DurationOver, Listen, Dial, Accept, shared
<1> QED
  BY <1>3, <1>4

\* An export changes what is in the bucket of its source only.
LEMMA GcsElsewhere ==
  ASSUME TypeOK, LoopInv, JobInv, NEW w \in Workers, ExportStep(w), NEW f \in Files, Source(w) # f
  PROVE  src'[f] = src[f] /\ \A z \in BOOLEAN : gcs'[<<f, z>>] = gcs[<<f, z>>]
<1>1. Target(w) \in Objects /\ Target(w)[1] = Source(w)
  BY Zenon, ExportFrame, TargetObject
<1>2. \A z \in BOOLEAN : <<f, z>> \in Objects /\ <<f, z>> # Target(w)
  BY <1>1 DEF Objects
<1>3. gcs \in [Objects -> Contents] /\ src \in [Files -> {"absent", "open", "complete", "deleted"}]
  BY Zenon DEF TypeOK, FsnTypeOK, DirTypeOK
<1>4. gcs' = gcs \/ \E x : gcs' = [gcs EXCEPT ![Target(w)] = x]
  BY Zenon, GcsEffect
<1>5. src' = src \/ src' = [src EXCEPT ![Source(w)] = "deleted"]
  BY Zenon, ExportFrame
<1>6. src'[f] = src[f]
  BY <1>3, <1>5
<1>7. \A z \in BOOLEAN : gcs'[<<f, z>>] = gcs[<<f, z>>]
  BY <1>2, <1>3, <1>4
<1> QED
  BY <1>6, <1>7

\* Timeouts, and the end of the context, are for good.
LEMMA CountedBefore ==
  ASSUME TypeOK, CtxInv, FreshInv, [Next]_vars
  PROVE  (Counted' => Counted) /\ (ctxDone => ctxDone')
<1>1. ASSUME UNCHANGED <<timer, flushCtx, exporter, ctxDone>>
      PROVE  (Counted' => Counted) /\ (ctxDone => ctxDone')
  BY <1>1 DEF Counted
<1>2. CASE TwNext \/ UNCHANGED vars
  <2>1. UNCHANGED <<timer, flushCtx, exporter, ctxDone>>
    BY Zenon, <1>2 DEF TwNext, fsnFrame, fsnVars, sigVars, vars
  <2> QED
    BY Zenon, <1>1, <2>1
<1>3. CASE FsnSignal \/ LockAcquired \/ TimerFires
  <2>1. /\ UNCHANGED <<flushCtx, exporter>> /\ (ctxDone => ctxDone')
        /\ timer = "fired" => timer' = "fired"
    BY Zenon, <1>3 DEF FsnSignal, LockAcquired, TimerFires, CtxInv
  <2> QED
    BY <2>1 DEF Counted
<1>4. CASE ExitDetected \/ RegularExportsDone \/ FlushExpires
  <2>1. UNCHANGED <<exporter, timer>> /\ (ctxDone => ctxDone')
    BY <1>4 DEF ExitDetected, RegularExportsDone, FlushExpires, sigVars
  <2>2. flushCtx = "expired" => flushCtx' = "expired"
    BY <1>4 DEF ExitDetected, RegularExportsDone, FlushExpires, FreshInv
  <2> QED
    BY <2>1, <2>2 DEF Counted
<1>5. CASE LoopCheck \/ LoopEnds \/ CaptureCreated \/ Exported \/ MainCancelled \/ LockGivenUp
           \/ FlushSrcDir \/ Flushed \/ \E w \in Workers : ExportStep(w)
  <2>1. UNCHANGED <<timer, flushCtx, exporter, ctxDone>>
    BY Zenon, <1>5 DEF LoopCheck, LoopEnds, CaptureCreated, Exported, MainCancelled, LockGivenUp, FlushSrcDir,
       Flushed, ExportStep, CreateTarget, CopySource, CopyFails, CopyExpired, RemoveSource, CloseTarget, sigVars
  <2> QED
    BY Zenon, <1>1, <2>1
<1> QED
  BY <1>2, <1>3, <1>4, <1>5 DEF Next, FsnNext, ExportStep

\* Steps that do not concern a capture.
LEMMA SafeFrame ==
  ASSUME NEW f \in Files, Safe(f), src'[f] = src[f], job'[f] = job[f], buf'[f] = buf[f],
         \A z \in BOOLEAN : gcs'[<<f, z>>] = gcs[<<f, z>>], f \in faulty => f \in faulty',
         main' = main \/ (main # "flush" /\ main' \in {"wait", "await", "walk"})
  PROVE  Safe(f)'
<1>1. (Fresh(f) => Fresh(f)') /\ (Stored(f) => Stored(f)') /\ (Present(f) => Present(f)')
  BY Zenon DEF Fresh, Stored, Present
<1>2. (Kept(f) => Kept(f)') /\ (Flushing(f) => Flushing(f)') 
  BY Zenon, <1>1 DEF Kept, Flushing
<1>3. Untouched(f) => Untouched(f)'
  BY Zenon, <1>1 DEF Untouched
<1> QED
  BY Zenon, <1>2, <1>3 DEF Safe

\* The export of a capture by the flush stores it, or meets an error.
LEMMA SafeFlush ==
  ASSUME TypeOK, JobInv, Counted, NEW f \in Files, Safe(f), ExportStep(f)
  PROVE  Safe(f)'
<1>0. /\ f \in Workers /\ f # Loop /\ Source(f) = f /\ Target(f) = <<f, FALSE>> /\ <<f, FALSE>> \in Objects
      /\ ~Expired(f) /\ exporter # "nil"
  BY Zenon, Markers, TargetFrame DEF Workers, Objects, Expired, Counted
<1>1. /\ job \in [Workers -> {"idle", "create", "copy", "remove", "close", "done"}]
      /\ buf \in [Workers -> Contents] /\ gcs \in [Objects -> Contents]
  BY DEF TypeOK, FsnTypeOK
<1>2. /\ main' = main /\ job[f] # "idle" /\ src' = src
  BY <1>0, ExportFrame
<1>3. SUFFICES ASSUME f \notin faulty' PROVE Safe(f)'
  BY DEF Safe
<1>4. f \notin faulty
  BY <1>0, <1>3, GcsEffect
<1>5. Flushing(f)
  <2>1. job[f] # "done"
    BY DEF ExportStep, CreateTarget, CopySource, CopyFails, CopyExpired, RemoveSource, CloseTarget
  <2>2. ~Kept(f)
    BY <1>2, <2>1 DEF Kept
  <2>3. src[f] # "absent" /\ ~Untouched(f)
    BY Zenon, <1>2 DEF JobInv, Untouched
  <2> QED
    BY Zenon, <1>4, <2>2, <2>3 DEF Safe
<1>6. CASE job[f] = "create"
  <2>1. CreateTarget(f) /\ gcs[<<f, FALSE>>] = "none"
    BY Zenon, <1>5, <1>6 DEF ExportStep, CopySource, CopyFails, CopyExpired, RemoveSource, CloseTarget, Flushing, Fresh
  <2>2. job'[f] = "copy" /\ buf' = buf
    BY Zenon, <1>0, <1>1, <1>3, <2>1 DEF CreateTarget, Step, Faults
  <2>3. buf[f] = "empty"
    BY <1>0, <1>6 DEF JobInv
  <2> QED
    BY <1>2, <1>5, <2>2, <2>3 DEF Safe, Flushing
<1>7. CASE job[f] = "copy"
  <2>1. CopySource(f) \/ CopyFails(f)
    BY <1>0, <1>7 DEF ExportStep, CreateTarget, CopyExpired, RemoveSource, CloseTarget
  <2>2. src[f] = "complete" /\ buf[f] = "empty"
    BY Zenon, <1>5, <1>7 DEF Flushing
  <2>3. ~CopyFails(f)
    BY <1>0, <1>3, <2>2 DEF CopyFails, Present, Faults
  <2>4. CopySource(f)
    BY <2>1, <2>3
  <2>5. job'[f] = "close" /\ buf'[f] = "full"
    BY Zenon, <1>0, <1>1, <2>2, <2>4 DEF CopySource, Step
  <2> QED
    BY Zenon, <1>2, <1>5, <2>5 DEF Safe, Flushing
<1>8. CASE job[f] = "close"
  <2>1. CloseTarget(f) /\ buf[f] = "full"
    BY <1>5, <1>8 DEF ExportStep, CreateTarget, CopySource, CopyFails, CopyExpired, RemoveSource, Flushing
  <2>2. gcs' = [gcs EXCEPT ![<<f, FALSE>>] = buf[f]] /\ job' = [job EXCEPT ![f] = "done"]
    BY Zenon, <1>0, <1>3, <2>1 DEF CloseTarget, Step, Faults
  <2>3. gcs'[<<f, FALSE>>] = "full" /\ job'[f] = "done"
    BY <1>0, <1>1, <2>1, <2>2
  <2>4. Stored(f)'
    BY Zenon, <2>3 DEF Stored
  <2> QED
    BY Zenon, <2>3, <2>4 DEF Safe, Kept
<1> QED
  BY <1>5, <1>6, <1>7, <1>8 DEF Flushing

\* What is safe stays safe, unless the loop has it in hand.
LEMMA SafeNext ==
  ASSUME TerminationInv, JobInv, SeriesInv, FreshInv, Counted, [Next]_vars,
         NEW f \in Files, Safe(f), ~InHand(f)
  PROVE  Safe(f)'
<1>0. /\ TypeOK /\ LoopInv /\ CtxInv /\ f \in Workers /\ Loop \in Workers /\ Loop \notin Files
      /\ job \in [Workers -> {"idle", "create", "copy", "remove", "close", "done"}]
  BY Markers DEF TerminationInv, TypeOK, FsnTypeOK, Workers
<1>1. CASE TwNext
  <2>1. UNCHANGED <<job, buf, main, gcs, faulty, ctxDone>>
    BY Zenon, <1>1 DEF TwNext, fsnFrame, fsnVars, loopVars, jobVars
  <2>2. CASE ctxDone
    <3>1. src'[f] = src[f]
      BY Zenon, <1>1, <2>2, TwStill DEF Counted, Graceful
    <3> QED
      BY Zenon, <2>1, <3>1, SafeFrame
  <2>3. CASE ~ctxDone
    <3>1. main = "wait" /\ job[f] = "idle"
      BY <1>0, <2>3 DEF CtxInv, JobInv
    <3>2. CASE src'[f] = src[f]
      BY Zenon, <2>1, <3>2, SafeFrame
    <3>3. CASE src[f] = "open" /\ src'[f] = "complete"
      BY Zenon, <2>1, <3>1, <3>3 DEF Safe, Kept, Untouched, Flushing, Present, Fresh
    <3>4. CASE src[f] = "absent" /\ src'[f] \in {"open", "complete"}
      <4>1. Untouched(f)'
        BY <2>1, <3>1, <3>4 DEF FreshInv, Untouched, Present, Fresh
      <4> QED
        BY <4>1 DEF Safe
    <3> QED
      BY Zenon, <1>0, <1>1, <3>2, <3>3, <3>4, TwCaptures DEF SeriesInv
  <2> QED
    BY <2>2, <2>3
<1>2. CASE Flushed
  <2>1. /\ main = "flush" /\ main' = "exited" /\ UNCHANGED <<src, job, buf, gcs, faulty>>
        /\ job[f] \in {"idle", "done"}
    BY <1>2 DEF Flushed, jobVars
  <2> QED
    BY <2>1 DEF Safe, Kept, Untouched, Flushing, Stored
<1>3. CASE Quiet /\ ~Flushed
  <2>1. UNCHANGED <<src, job, buf, gcs, faulty>>
    BY Zenon, <1>3, QuietFrame
  <2>2. main' = main \/ (main # "flush" /\ main' \in {"wait", "await", "walk"})
    BY Zenon, <1>3 DEF Quiet, LoopCheck, LoopEnds, MainCancelled, RegularExportsDone, FsnSignal, LockAcquired,
       LockGivenUp, TimerFires, ExitDetected, FlushExpires
  <2> QED
    BY Zenon, <2>1, <2>2, SafeFrame
<1>4. CASE FlushSrcDir
  <2>1. /\ main = "walk" /\ main' = "flush" /\ UNCHANGED <<src, gcs, faulty, buf>>
        /\ job' = [w \in Workers |-> IF w # Loop /\ Present(w) THEN "create" ELSE job[w]]
    BY Zenon, <1>4 DEF FlushSrcDir, shared
  <2>2. src[f] # "open" /\ job[f] = "idle"
    <3>1. Graceful
      BY <1>0, <2>1 DEF CtxInv, Counted, Graceful
    <3>2. tw \in Stopped \cup {"start"} /\ OpenInv
      BY <1>0, <3>1 DEF CtxInv, TerminationInv
    <3> QED
      BY <2>1, <3>2, FilePair DEF OpenInv, JobInv
  <2>3. job'[f] = IF Present(f) THEN "create" ELSE "idle"
    BY Zenon, <1>0, <2>1, <2>2
  <2>4. CASE Present(f)
    <3>1. src[f] = "complete" /\ job'[f] = "create"
      BY <2>2, <2>3, <2>4 DEF Present
    <3> QED
      BY <2>1, <2>2, <3>1 DEF Safe, Kept, Untouched, Flushing, Fresh
  <2>5. CASE ~Present(f)
    BY Zenon, <2>1, <2>2, <2>3, <2>5 DEF Safe, Kept, Untouched, Flushing, Present, Stored
  <2> QED
    BY <2>4, <2>5
<1>5. CASE CaptureCreated \/ Exported
  <2>1. /\ UNCHANGED <<main, buf, src, gcs, faulty>>
        /\ job' = job \/ \E x : job' = [job EXCEPT ![Loop] = x]
    BY Zenon, <1>5 DEF CaptureCreated, Exported, shared, Step
  <2>2. job'[f] = job[f]
    BY <1>0, <2>1
  <2> QED
    BY Zenon, <2>1, <2>2, SafeFrame
<1>6. ASSUME NEW w \in Workers, ExportStep(w)
      PROVE  Safe(f)'
  <2>1. CASE w = f
    BY Zenon, <1>0, <1>6, <2>1, SafeFlush
  <2>2. CASE w # f
    <3>1. /\ main' = main /\ job'[f] = job[f] /\ buf'[f] = buf[f] /\ job[w] # "idle"
      BY Zenon, <1>0, <1>6, <2>2, ExportFrame
    <3>2. Source(w) # f
      BY <1>0, <2>2, <3>1 DEF Source, LoopInv, InHand
    <3>3. faulty \subseteq faulty'
      BY Zenon, <1>0, <1>6, GcsEffect
    <3>4. src'[f] = src[f] /\ \A z \in BOOLEAN : gcs'[<<f, z>>] = gcs[<<f, z>>]
      BY Zenon, <1>0, <1>6, <3>2, GcsElsewhere
    <3>5. f \in faulty => f \in faulty'
      BY <3>3
    <3> QED
      BY Zenon, <3>1, <3>4, <3>5, SafeFrame
  <2> QED
    BY <2>1, <2>2
<1>7. CASE UNCHANGED vars
  <2>1. UNCHANGED <<src, job, buf, gcs, faulty, main>>
    BY <1>7 DEF vars, shared, fsnVars, jobVars
  <2> QED
    BY Zenon, <2>1, SafeFrame
<1> QED
  BY Zenon, <1>1, <1>2, <1>3, <1>4, <1>5, <1>6, <1>7 DEF Next, FsnNext, Quiet, ExportStep

\* Before the context is cancelled an export of the loop stores its source.
LEMMA InTimeExport ==
  ASSUME TerminationInv, JobInv, Counted, InTime, ExportStep(Loop)
  PROVE  InTime'
<1>0. /\ TypeOK /\ LoopInv /\ Loop \in Workers
      /\ job \in [Workers -> {"idle", "create", "copy", "remove", "close", "done"}]
      /\ buf \in [Workers -> Contents] /\ gcs \in [Objects -> Contents]
      /\ src \in [Files -> {"absent", "open", "complete", "deleted"}]
  BY DEF TerminationInv, TypeOK, FsnTypeOK, DirTypeOK, Workers
<1>1. UNCHANGED <<loop, task, last, ctxDone>> /\ loop = "export"
  <2>1. UNCHANGED <<loop, task, last, ctxDone>> /\ job[Loop] # "idle"
    BY Zenon, <1>0, ExportFrame
  <2> QED
    BY <1>0, <2>1 DEF LoopInv
<1>2. PICK g \in Files : g = Source(Loop)
  BY <1>0, <1>1 DEF LoopInv, Source
<1>3. Source(Loop)' = g
  BY Zenon, <1>0, <1>1, <1>2, TargetFrame
<1>4. SUFFICES ASSUME ~ctxDone, g \notin faulty'
               PROVE  /\ src'[g] = IF job'[Loop] \in {"close", "done"} THEN "deleted" ELSE "complete"
                      /\ job'[Loop] = "create" => Fresh(g)'
                      /\ job'[Loop] = "copy" => buf'[Loop] = "empty"
                      /\ job'[Loop] \in {"remove", "close"} => buf'[Loop] = "full"
                      /\ job'[Loop] = "done" => Stored(g)'
  <2>1. Fresh(Source(Loop))' <=> Fresh(g)'
    BY Zenon, <1>3 DEF Fresh
  <2>2. Stored(Source(Loop))' <=> Stored(g)'
    BY Zenon, <1>3 DEF Stored
  <2> QED
    BY Zenon, <1>1, <1>3, <2>1, <2>2 DEF InTime
<1>5. /\ src[g] = IF job[Loop] \in {"close", "done"} THEN "deleted" ELSE "complete"
      /\ job[Loop] = "create" => Fresh(g)
      /\ job[Loop] = "copy" => buf[Loop] = "empty"
      /\ job[Loop] \in {"remove", "close"} => buf[Loop] = "full"
  <2>1. g \notin faulty
    BY <1>0, <1>4, GcsEffect
  <2> QED
    BY Zenon, <1>1, <1>2, <1>4, <2>1 DEF InTime
<1>6. ~Expired(Loop) /\ exporter # "nil"
  BY Zenon, <1>4 DEF Expired, Counted
<1>7. Target(Loop) = <<g, Gzip>> /\ Gzip \in BOOLEAN /\ <<g, Gzip>> \in Objects
  BY Zenon, <1>2, FsnAssumption DEF Target, Objects
<1>8. CASE CreateTarget(Loop)
  <2>1. job[Loop] = "create" /\ gcs[Target(Loop)] = "none" /\ buf[Loop] = "empty"
    BY Zenon, <1>0, <1>5, <1>7, <1>8 DEF CreateTarget, Fresh, JobInv
  <2>2. job' = [job EXCEPT ![Loop] = "copy"] /\ UNCHANGED <<buf, src>>
    BY Zenon, <1>2, <1>4, <1>6, <1>8, <2>1 DEF CreateTarget, Step, Faults, shared
  <2> QED
    BY <1>0, <1>5, <2>1, <2>2
<1>9. CASE CopySource(Loop)
  <2>1. job[Loop] = "copy" /\ job' = [job EXCEPT ![Loop] = "remove"] /\ src' = src
    BY <1>9 DEF CopySource, Step, shared
  <2>2. buf[Loop] = "empty" /\ src[g] = "complete"
    BY <1>5, <2>1
  <2>3. buf'[Loop] = "full"
    BY Zenon, <1>0, <1>2, <1>9, <2>2 DEF CopySource
  <2> QED
    BY <1>0, <2>1, <2>2, <2>3
<1>10. CASE CopyFails(Loop)
  <2>1. job[Loop] = "copy" /\ (Present(g) => g \in faulty')
    BY <1>2, <1>10 DEF CopyFails, Faults
  <2> QED
    BY <1>4, <1>5, <2>1 DEF Present
<1>11. CASE CopyExpired(Loop)
  BY <1>6, <1>11 DEF CopyExpired
<1>12. CASE RemoveSource(Loop)
  <2>1. /\ job[Loop] = "remove" /\ job' = [job EXCEPT ![Loop] = "close"] /\ buf' = buf
        /\ src' = [src EXCEPT ![g] = "deleted"]
    BY <1>2, <1>4, <1>12 DEF RemoveSource, Step, Faults
  <2> QED
    BY <1>0, <1>5, <2>1
<1>13. CASE CloseTarget(Loop)
  <2>1. /\ job[Loop] = "close" /\ job' = [job EXCEPT ![Loop] = "done"] /\ src' = src
        /\ gcs' = [gcs EXCEPT ![<<g, Gzip>>] = buf[Loop]]
    BY <1>2, <1>4, <1>6, <1>7, <1>13 DEF CloseTarget, Step, Faults, shared
  <2>2. gcs'[<<g, Gzip>>] = "full"
    BY <1>0, <1>5, <1>7, <2>1
  <2>3. Stored(g)'
    BY Zenon, <1>7, <2>2 DEF Stored
  <2> QED
    BY <1>0, <1>5, <2>1, <2>3
<1> QED
  BY Zenon, <1>8, <1>9, <1>10, <1>11, <1>12, <1>13 DEF ExportStep

\* Every step keeps what is known of the loop before the cancel.
LEMMA InTimeNext ==
  ASSUME TerminationInv, JobInv, SeriesInv, Counted, LostInv, [Next]_vars, ~ctxDone'
  PROVE  InTime'
<1>0. /\ TypeOK /\ LoopInv /\ CtxInv /\ Loop \in Workers /\ Loop \notin Files /\ InTime
      /\ job \in [Workers -> {"idle", "create", "copy", "remove", "close", "done"}]
  BY Markers DEF TerminationInv, TypeOK, FsnTypeOK, Workers, LostInv
<1>1. ~ctxDone /\ main = "wait"
  <2>1. ~ctxDone
    <3>1. CASE FsnNext
      BY Zenon, <3>1 DEF FsnNext, LoopCheck, CaptureCreated, Exported, ExitDetected, LoopEnds, MainCancelled,
        RegularExportsDone, FlushSrcDir, FlushExpires, Flushed, FsnSignal, LockAcquired, LockGivenUp,
        TimerFires, CreateTarget, CopySource, CopyFails, CopyExpired, RemoveSource, CloseTarget
    <3>2. CASE TwNext \/ UNCHANGED vars
      BY Zenon, <3>2 DEF TwNext, fsnFrame, fsnVars, vars
    <3> QED
      BY <3>1, <3>2 DEF Next
  <2> QED
    BY <1>0, <2>1 DEF CtxInv
<1>2. \A f \in Files : job[f] = "idle"
  BY <1>1 DEF JobInv
<1>3. ASSUME UNCHANGED <<task, last, job, buf, gcs>>, loop' = "export" => loop = "export",
             \A f \in Files : src[f] \in {"complete", "deleted"} => src'[f] = src[f],
             faulty' = faulty
      PROVE  InTime'
  <2>1. Source(Loop)' = Source(Loop)
    BY Zenon, <1>0, <1>3, TargetFrame
  <2>2. loop = "export" => Source(Loop) \in Files /\ src[Source(Loop)] \in {"complete", "deleted"}
    BY Zenon, <1>0, LoopSource
  <2>3. loop' = "export" => src'[Source(Loop)'] = src[Source(Loop)]
    BY <1>3, <2>1, <2>2
  <2>4. /\ Fresh(Source(Loop)) => Fresh(Source(Loop))'
        /\ Stored(Source(Loop)) => Stored(Source(Loop))'
    BY Zenon, <1>3, <2>1 DEF Fresh, Stored
  <2> QED
    BY Zenon, <1>0, <1>1, <1>3, <2>1, <2>3, <2>4 DEF InTime
<1>4. CASE TwNext \/ UNCHANGED vars
  <2>1. UNCHANGED <<task, last, job, buf, gcs, loop, faulty>>
    BY Zenon, <1>4 DEF TwNext, fsnFrame, fsnVars, loopVars, jobVars, vars
  <2>2. \A f \in Files : src[f] \in {"complete", "deleted"} => src'[f] = src[f]
    BY <1>0, <1>4, TwCaptures DEF SeriesInv, vars, shared
  <2> QED
    BY Zenon, <1>3, <2>1, <2>2
<1>5. CASE Quiet
  <2>1. UNCHANGED <<task, last, job, buf, gcs, src, faulty>> /\ (loop' = "export" => loop = "export")
    BY Zenon, <1>5, QuietFrame
  <2> QED
    BY Zenon, <1>3, <2>1
<1>6. CASE FlushSrcDir
  BY <1>1, <1>6 DEF FlushSrcDir
<1>7. ASSUME NEW w \in Workers, ExportStep(w)
      PROVE  InTime'
  <2>1. w = Loop
    BY <1>0, <1>2, <1>7, ExportFrame DEF Workers
  <2> QED
    BY <1>0, <1>7, <2>1, InTimeExport
<1>8. CASE Exported
  BY <1>8 DEF Exported, InTime
<1>9. CASE CaptureCreated
  <2>0. SUFFICES ASSUME loop' = "export" PROVE InTime'
    BY Zenon DEF InTime
  <2>1. /\ loop = "select" /\ UNCHANGED <<src, gcs, faulty>> /\ Head(events) \in Files /\ events # <<>>
        /\ job'[Loop] = "create" /\ last' = last /\ task' = Head(events) /\ last[Head(events)[1]] # NoFile
    BY <1>0, <1>9, <2>0 DEF CaptureCreated, Step
  <2>2. PICK f \in Files, g \in Files : f = Head(events) /\ last[f[1]] = g /\ f[1] \in Keys
    BY Zenon, <1>0, <2>1, FilePair DEF TypeOK, FsnTypeOK
  <2>a. current \in [Keys -> Int] /\ NoFile \notin Files
    BY <1>0, Markers DEF TypeOK, TwTypeOK
  <2>b. g[1] = f[1] /\ Ahead(g)
    BY Zenon, <1>0, <2>2, <2>a DEF SeriesInv, LastInv
  <2>3. g[1] = f[1] /\ g[2] \in Int /\ f[2] \in Int /\ current[f[1]] \in Int /\ Ahead(g)
    BY <2>2, <2>a, <2>b, FilePair
  <2>4. src[g] # "deleted"
    BY <2>1, <2>2, <2>3 DEF SeriesInv, DeletedInv, InHand
  <2>5. g[2] < current[g[1]]
    <3>1. 1 \in 1..Len(events) /\ events[1] = f
      BY <1>0, <1>9, <2>1, <2>2, EventTaken DEF CaptureCreated
    <3>2. g[2] < f[2] /\ f[2] <= current[f[1]]
      BY Zenon, <2>2, <2>3, <3>1 DEF Ahead, SeriesInv, OrderedEvents
    <3> QED
      BY <2>3, <3>2
  <2>6. src[g] = "complete"
    BY <2>4, <2>5 DEF SeriesInv, CaptureInv
  <2>7. g \in faulty \/ Fresh(g)
    <3>1. Safe(g)
      BY <1>1, <2>1 DEF LostInv, Lost, InHand
    <3> QED
      BY Zenon, <1>1, <1>2, <2>6, <3>1 DEF Safe, Kept, Untouched, Flushing
  <2>8. Source(Loop)' = g
    BY <2>1, <2>2 DEF Source
  <2>9. g \in faulty \/ Fresh(Source(Loop))'
    BY Zenon, <2>1, <2>7, <2>8 DEF Fresh
  <2> QED
    BY <2>1, <2>6, <2>8, <2>9 DEF InTime
<1> QED
  BY Zenon, <1>4, <1>5, <1>6, <1>7, <1>8, <1>9 DEF Next, FsnNext, Quiet, ExportStep

\* A capture leaves the loop's hand only when its export is over.
LEMMA HandStep ==
  ASSUME TypeOK, LoopInv, [Next]_vars, NEW f \in Files, InHand(f), ~Exported
  PROVE  InHand(f)'
<1>1. Loop \in Workers /\ loop = "export" /\ Source(Loop) = f
  BY DEF Workers, InHand
<1>2. UNCHANGED <<loop, task, last>>
  <2>1. CASE TwNext \/ UNCHANGED vars
    BY Zenon, <2>1 DEF TwNext, fsnFrame, fsnVars, loopVars, vars
  <2>2. CASE Quiet
    <3>1. ~LoopCheck /\ ~LoopEnds /\ ~ExitDetected
      BY <1>1 DEF LoopCheck, LoopEnds, ExitDetected
    <3> QED
      BY Zenon, <2>2, <3>1 DEF Quiet, MainCancelled, RegularExportsDone, FsnSignal, LockAcquired, LockGivenUp,
         TimerFires, FlushExpires, Flushed, loopVars
  <2>3. CASE FlushSrcDir \/ \E w \in Workers : ExportStep(w)
    BY Zenon, <2>3 DEF FlushSrcDir, ExportStep, CreateTarget, CopySource, CopyFails, CopyExpired,
       RemoveSource, CloseTarget, loopVars
  <2>4. CASE CaptureCreated
    BY Zenon, <1>1, <2>4 DEF CaptureCreated
  <2> QED
    BY Zenon, <2>1, <2>2, <2>3, <2>4 DEF Next, FsnNext, Quiet, ExportStep
<1> QED
  BY Zenon, <1>1, <1>2, TargetFrame DEF InHand

\* After the cancel the loop takes no event once it has looked at isActive.
LEMMA LoopStays ==
  ASSUME TypeOK, CtxInv, [Next]_vars, ctxDone, loop \notin {"select", "export"}
  PROVE  loop' \notin {"select", "export"}
<1>1. ~active
  BY DEF CtxInv
<1>2. CASE LoopCheck
  BY <1>1, <1>2 DEF LoopCheck
<1>3. CASE ~LoopCheck
  <2>1. ~CaptureCreated /\ ~Exported /\ ~ExitDetected /\ ~LoopEnds
    BY Zenon DEF CaptureCreated, Exported, ExitDetected, LoopEnds
  <2>2. loop' = loop
    BY Zenon, <1>3, <2>1 DEF Next, FsnNext, TwNext, fsnFrame, fsnVars, vars, MainCancelled, RegularExportsDone,
       FsnSignal, LockAcquired, LockGivenUp, TimerFires, FlushExpires, Flushed, FlushSrcDir, CreateTarget,
       CopySource, CopyFails, CopyExpired, RemoveSource, CloseTarget, loopVars
  <2> QED
    BY <2>2
<1> QED
  BY <1>2, <1>3

\* Every step keeps what is stored of captures that do not exist: nothing.
LEMMA FreshNext ==
  ASSUME TerminationInv, JobInv, SeriesInv, FreshInv, [Next]_vars
  PROVE  FreshInv'
<1>0. TypeOK /\ LoopInv
  BY DEF TerminationInv
<1>1. main' \in {"wait", "await"} => main \in {"wait", "await"} /\ flushCtx' = flushCtx
  <2>1. CASE MainCancelled \/ RegularExportsDone \/ FlushSrcDir \/ Flushed \/ FlushExpires
    BY <2>1 DEF MainCancelled, RegularExportsDone, FlushSrcDir, Flushed, FlushExpires
  <2>2. CASE ~(MainCancelled \/ RegularExportsDone \/ FlushSrcDir \/ Flushed \/ FlushExpires)
    <3>1. UNCHANGED <<main, flushCtx>>
      BY Zenon, <2>2 DEF Next, FsnNext, TwNext, fsnFrame, fsnVars, vars, LoopCheck, CaptureCreated, Exported,
         ExitDetected, LoopEnds, FsnSignal, LockAcquired, LockGivenUp, TimerFires, CreateTarget,
         CopySource, CopyFails, CopyExpired, RemoveSource, CloseTarget
    <3> QED
      BY Zenon, <3>1
  <2> QED
    BY <2>1, <2>2
<1>2. ASSUME NEW f \in Files, src'[f] = "absent"
      PROVE  Fresh(f)'
  <2>1. CASE gcs' = gcs
    <3>1. src[f] = "absent"
      <4>1. CASE TwNext \/ UNCHANGED vars
        BY <1>0, <1>2, <4>1, TwCaptures DEF SeriesInv, vars, shared
      <4>2. CASE FsnNext
        <5>1. src \in [Files -> {"absent", "open", "complete", "deleted"}]
          BY <1>0 DEF TypeOK, DirTypeOK
        <5>2. src' = src \/ \E w \in Workers : src' = [src EXCEPT ![Source(w)] = "deleted"]
          BY Zenon, <4>2, FsnSrc
        <5> QED
          BY <1>2, <5>1, <5>2
      <4> QED
        BY <4>1, <4>2 DEF Next
    <3> QED
      BY Zenon, <2>1, <3>1 DEF FreshInv, Fresh
  <2>2. ASSUME NEW w \in Workers, ExportStep(w)
        PROVE  Fresh(f)'
    <3>1. CASE Source(w) = f
      <4>1. job[w] # "idle"
        BY Zenon, <1>0, <2>2, ExportFrame
      <4>2. src[f] # "absent"
        <5>1. CASE w = Loop
          BY Zenon, <1>0, <3>1, <4>1, <5>1, LoopSource DEF LoopInv
        <5>2. CASE w # Loop
          BY <3>1, <4>1, <5>2 DEF JobInv, Source
        <5> QED
          BY Zenon, <5>1, <5>2
      <4>3. src' = src \/ src' = [src EXCEPT ![Source(Loop)] = "deleted"]
        BY Zenon, <1>0, <2>2, ExportFrame
      <4> QED
        BY <1>0, <1>2, <4>2, <4>3 DEF TypeOK, DirTypeOK
    <3>2. CASE Source(w) # f
      <4>1. src'[f] = src[f] /\ \A z \in BOOLEAN : gcs'[<<f, z>>] = gcs[<<f, z>>]
        BY Zenon, <1>0, <2>2, <3>2, GcsElsewhere
      <4> QED
        BY Zenon, <1>2, <4>1 DEF FreshInv, Fresh
    <3> QED
      BY <3>1, <3>2
  <2>3. CASE ~\E w \in Workers : ExportStep(w)
    <3>1. gcs' = gcs
      BY Zenon, <2>3 DEF Next, FsnNext, TwNext, fsnFrame, fsnVars, jobVars, vars, LoopCheck, CaptureCreated,
         Exported, ExitDetected, LoopEnds, MainCancelled, RegularExportsDone, FlushSrcDir, FlushExpires, Flushed,
         FsnSignal, LockAcquired, LockGivenUp, TimerFires, ExportStep
    <3> QED
      BY Zenon, <2>1, <3>1
  <2> QED
    BY <2>2, <2>3
<1> QED
  BY <1>1, <1>2 DEF FreshInv

\* Every step keeps the account of lost captures.
LEMMA LostNext ==
  ASSUME TerminationInv, JobInv, SeriesInv, FreshInv, LostInv, [Next]_vars
  PROVE  LostInv'
<1>0. TypeOK /\ LoopInv /\ CtxInv
  BY DEF TerminationInv
<1>1. SUFFICES ASSUME Counted'
               PROVE  /\ InTime'
                      /\ ~ctxDone' \/ loop' \in {"select", "export"} => \A f \in Files : ~Lost(f)'
                      /\ \A f, g \in Files : Lost(f)' /\ Lost(g)' => f = g
  BY Zenon DEF LostInv
<1>2. Counted /\ (ctxDone => ctxDone')
  BY Zenon, <1>0, <1>1, CountedBefore
<1>3. InTime'
  <2>1. CASE ctxDone'
    BY Zenon, <2>1 DEF InTime
  <2>2. CASE ~ctxDone'
    BY Zenon, <1>2, <2>2, InTimeNext
  <2> QED
    BY <2>1, <2>2
<1>4. /\ InTime
      /\ ~ctxDone \/ loop \in {"select", "export"} => \A f \in Files : ~Lost(f)
      /\ \A f, g \in Files : Lost(f) /\ Lost(g) => f = g
  BY Zenon, <1>2 DEF LostInv
<1>5. ASSUME NEW f \in Files, Lost(f)'
      PROVE  Lost(f) \/ (Exported /\ InHand(f))
  BY Zenon, <1>0, <1>2, <1>5, SafeNext, HandStep DEF Lost
<1>6. CASE Exported
  <2>1. /\ loop = "export" /\ loop' = "check" /\ job[Loop] = "done" /\ UNCHANGED <<src, gcs, faulty, main, ctxDone>>
        /\ job' = [job EXCEPT ![Loop] = "idle"]
    BY Zenon, <1>6 DEF Exported, Step, shared
  <2>2. \A f \in Files : Lost(f)' => InHand(f)
    BY Zenon, <1>4, <1>5, <2>1
  <2>3. \A f, g \in Files : Lost(f)' /\ Lost(g)' => f = g
    BY Zenon, <2>2 DEF InHand
  <2>4. ASSUME ~ctxDone', NEW f \in Files, Lost(f)'
        PROVE  FALSE
    <3>1. InHand(f) /\ ~ctxDone /\ f \notin faulty
      BY Zenon, <2>1, <2>2, <2>4 DEF Lost, Safe
    <3>2. src[f] = "deleted" /\ Stored(f)
      BY Zenon, <1>4, <2>1, <3>1 DEF InTime, InHand
    <3>3. job'[f] = "idle"
      <4>1. job[f] = "idle"
        BY <1>0, <3>1 DEF CtxInv, JobInv
      <4>2. job \in [Workers -> {"idle", "create", "copy", "remove", "close", "done"}] /\ f # Loop /\ f \in Workers
        BY <1>0, Markers DEF TypeOK, FsnTypeOK, Workers
      <4> QED
        BY <2>1, <4>1, <4>2
    <3>4. Kept(f)'
      BY Zenon, <2>1, <3>2, <3>3 DEF Kept, Stored
    <3> QED
      BY Zenon, <2>4, <3>4 DEF Lost, Safe
  <2> QED
    BY <1>3, <2>1, <2>3, <2>4
<1>7. CASE ~Exported
  <2>1. \A f \in Files : Lost(f)' => Lost(f)
    BY Zenon, <1>5, <1>7
  <2>2. ~ctxDone' \/ loop' \in {"select", "export"} => ~ctxDone \/ loop \in {"select", "export"}
    BY Zenon, <1>0, <1>2, LoopStays
  <2> QED
    BY Zenon, <1>3, <1>4, <2>1, <2>2
<1> QED
  BY <1>6, <1>7

LEMMA LostInit == Init => FreshInv /\ LostInv
<1> SUFFICES ASSUME Init PROVE FreshInv /\ LostInv
  OBVIOUS
<1>1. /\ loop = "check" /\ main = "wait" /\ flushCtx = "none" /\ \A f \in Files : src[f] = "absent"
      /\ gcs = [o \in Objects |-> "none"]
  BY DEF Init, DirInit, FsnInit
<1>2. FreshInv
  BY <1>1 DEF FreshInv, Fresh, Objects
<1>3. \A f \in Files : ~Lost(f)
  BY <1>1 DEF Lost, Safe
<1> QED
  BY <1>1, <1>2, <1>3 DEF LostInv, InTime

\* A graceful termination without I/O errors leaves out one capture at most:
\* the cancel may drop the upload of the capture the event loop is moving, and
\* every other one was moved before, or is flushed by flushSrcDir.
THEOREM OneMissingAtMost == Spec => []AtMostOneMissing
<1>1. Init => FreshInv /\ LostInv
  BY LostInit
<1>2. TerminationInv /\ ExportInv /\ FreshInv /\ LostInv /\ [Next]_vars => FreshInv' /\ LostInv'
  BY FreshNext, LostNext DEF ExportInv
<1>3. TerminationInv /\ ExportInv /\ LostInv => AtMostOneMissing
  <2> SUFFICES ASSUME ExportInv, LostInv, main = "exited", Counted, NEW f \in Files, NEW g \in Files,
                      f \notin faulty, src[f] # "absent", ~Stored(f),
                      g \notin faulty, src[g] # "absent", ~Stored(g)
               PROVE  f = g
    BY DEF AtMostOneMissing, Graceful, Counted
  <2>1. ~InHand(f) /\ ~InHand(g)
    BY Zenon DEF ExportInv, JobInv, InHand
  <2>2. ~Safe(f) /\ ~Safe(g)
    BY DEF Safe, Kept, Untouched, Flushing
  <2> QED
    BY Zenon, <2>1, <2>2 DEF LostInv, Lost
<1> QED
  BY <1>1, <1>2, <1>3, TerminationInvariant, ExportInvariant, PTL DEF Spec

=============================================================================
