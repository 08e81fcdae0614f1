--------------------------- MODULE ProcessFilter ---------------------------
(***************************************************************************)
(* The process filter of tcpdumpw (process_filter_provider.go): packets of *)
(* TCP connections that belong to the sidecar's own processes are not      *)
(* translated.  Every tick the provider asks supervisord for the pids of   *)
(* the processes, lists their established connections with a script, and   *)
(* compares them with the connections it already tracks; one goroutine per *)
(* difference then updates the packet filter and the tracked keys.         *)
(*                                                                         *)
(* Nothing waits for these goroutines: those of a round may still run when *)
(* the next rounds take their views.  A connection is an unordered pair of *)
(* endpoints, which is all that the packet filter's hash tells apart       *)
(* (addition is commutative): two processes may own the two ends of one.   *)
(***************************************************************************)
EXTENDS Integers, FiniteSets

CONSTANTS Procs,      \* names of the filtered processes (no_procs)
          Conns,      \* TCP connections
          Malformed,  \* connections whose addresses do not parse
          MaxPid,     \* bound: a process that was started so often ends the restarts
          Slots       \* bound: calls of updateFilter that may overlap

ASSUME ProcessAssumption ==
  /\ Malformed \subseteq Conns /\ MaxPid \in Nat \ {0}
  /\ IsFiniteSet(Procs) /\ IsFiniteSet(Conns) /\ IsFiniteSet(Slots)

Pids == 1..MaxPid

\* newSocketKey: the key of a process, name and pid, and a connection.
Keys == Procs \X Pids \X Conns
ConnOf(k) == k[3]

\* Goroutines of applyFilter: first the packet filter, then the tracked keys.
Tasks == [slot : Slots, key : Keys, allow : BOOLEAN, step : {"filter", "track"}]

VARIABLES
  pid,      \* [Procs -> pid]
  estab,    \* [Procs -> connections in state ESTABLISHED]
  stopped,  \* the context is done: no more ticks
  listed,   \* processes of the current round with the pids supervisord gave
  read,     \* of the process read last: its name, its pid, its connections
  denied,   \* noSockets of the packet filter
  tracked,  \* sockets of the provider: keys
  tasks,    \* goroutines in flight
  raced     \* history: connections updated twice at once, or under two keys

osVars == <<pid, estab>>
loopVars == <<stopped, listed, read>>
vars == <<osVars, loopVars, denied, tracked, tasks, raced>>

\* The type of every variable.
TypeOK ==
  /\ pid \in [Procs -> Pids]
  /\ estab \in [Procs -> SUBSET Conns]
  /\ stopped \in BOOLEAN
  /\ listed \subseteq Procs \X Pids
  /\ read \subseteq (Procs \X Pids \X SUBSET Conns)
  /\ denied \subseteq Conns
  /\ tracked \subseteq Keys
  /\ tasks \subseteq Tasks
  /\ raced \subseteq Conns

\* newProcessFilterProvider; the processes are up.
Init ==
  /\ pid = [p \in Procs |-> 1]
  /\ estab = [p \in Procs |-> {}]
  /\ stopped = FALSE
  /\ listed = {} /\ read = {}
  /\ denied = {} /\ tracked = {} /\ tasks = {}
  /\ raced = {}

-----------------------------------------------------------------------------
\* The processes and their connections

Connect(p, c) ==
  /\ c \notin estab[p]
  /\ estab' = [estab EXCEPT ![p] = @ \cup {c}]
  /\ UNCHANGED <<pid, loopVars, denied, tracked, tasks, raced>>

Disconnect(p, c) ==
  /\ c \in estab[p]
  /\ estab' = [estab EXCEPT ![p] = @ \ {c}]
  /\ UNCHANGED <<pid, loopVars, denied, tracked, tasks, raced>>

\* supervisord starts the process again; its connections are gone.
Restart(p) ==
  /\ \A q \in Procs : pid[q] < MaxPid
  /\ pid' = [pid EXCEPT ![p] = @ + 1]
  /\ estab' = [estab EXCEPT ![p] = {}]
  /\ UNCHANGED <<loopVars, denied, tracked, tasks, raced>>

-----------------------------------------------------------------------------
\* The ticker's goroutine: init, setFilter

\* getProcessPID: the pids are those of now, the rounds below use them later.
Tick ==
  /\ ~stopped /\ listed = {} /\ read = {}
  /\ listed' = {<<p, pid[p]>> : p \in Procs}
  /\ UNCHANGED <<osVars, stopped, read, denied, tracked, tasks, raced>>

\* getTCPsockets: the script matches the name or the pid, hence what the
\* process has now, whatever pid was listed.
ReadSockets(l) ==
  /\ l \in listed /\ read = {}
  /\ read' = {<<l[1], l[2], estab[l[1]]>>}
  /\ listed' = listed \ {l}
  /\ UNCHANGED <<osVars, stopped, denied, tracked, tasks, raced>>

\* supervisord or the script fails: the process is left out of the round.
ReadFails(l) ==
  /\ l \in listed /\ read = {}
  /\ listed' = listed \ {l}
  /\ UNCHANGED <<osVars, stopped, read, denied, tracked, tasks, raced>>

\* processView
View(p, i) == {k \in tracked : k[1] = p /\ k[2] = i}

\* filterSockets: connections that are not tracked yet are to be denied,
\* tracked ones that are not established any more allowed.
Addrs(p, i, socks) == {<<p, i, c>> : c \in socks}
Update(s, k, allow) == [slot |-> s, key |-> k, allow |-> allow, step |-> "filter"]
Updates_NoAllow(s, p, i, socks) ==
  {Update(s, k, FALSE) : k \in Addrs(p, i, socks) \ View(p, i)}
Updates(s, p, i, socks) ==
  {Update(s, k, FALSE) : k \in Addrs(p, i, socks) \ View(p, i)}
    \cup {Update(s, k, TRUE) : k \in View(p, i) \ Addrs(p, i, socks)}

\* Connections of the new updates that another update has in hand, or that
\* are tracked under another key.
Races(new) ==
  {ConnOf(t.key) : t \in {u \in new :
     \/ \E v \in tasks : ConnOf(v.key) = ConnOf(u.key)
     \/ \E k \in tracked : ConnOf(k) = ConnOf(u.key) /\ k # u.key}}

Free == {s \in Slots : \A t \in tasks : t.slot # s}

\* The view is taken and updateFilter starts its goroutines.
Spawn(r) ==
  /\ r \in read /\ Free # {}
  /\ LET new == Updates(CHOOSE s \in Free : TRUE, r[1], r[2], r[3])
     IN tasks' = tasks \cup new /\ raced' = raced \cup Races(new)
  /\ read' = {}
  /\ UNCHANGED <<osVars, stopped, listed, denied, tracked>>

\* The context is cancelled; a round under way loses its scripts.
Stop ==
  /\ ~stopped
  /\ stopped' = TRUE /\ listed' = {}
  /\ UNCHANGED <<osVars, read, denied, tracked, tasks, raced>>

-----------------------------------------------------------------------------
\* The goroutines: applyFilter

Without(t) == tasks \ {t}

\* AllowSocket or DenySocket; addresses that do not parse end the update.
FilterSocket_NoAllow(t) ==
  /\ t \in tasks /\ t.step = "filter"
  /\ tasks' = Without(t) \cup {[t EXCEPT !.step = "track"]}
  /\ denied' = IF t.allow THEN denied ELSE denied \cup {ConnOf(t.key)}
  /\ UNCHANGED <<osVars, loopVars, tracked, raced>>
FilterSocket_DeniesKey(t) ==
  /\ t \in tasks /\ t.step = "filter"
  /\ tasks' = Without(t) \cup {[t EXCEPT !.step = "track"]}
  /\ denied' = denied \cup {t.key}
  /\ UNCHANGED <<osVars, loopVars, tracked, raced>>
FilterSocket(t) ==
  /\ t \in tasks /\ t.step = "filter"
  /\ IF ConnOf(t.key) \in Malformed
     THEN tasks' = Without(t) /\ UNCHANGED denied
     ELSE /\ tasks' = Without(t) \cup {[t EXCEPT !.step = "track"]}
          /\ denied' = IF t.allow THEN denied \ {ConnOf(t.key)}
                       ELSE denied \cup {ConnOf(t.key)}
  /\ UNCHANGED <<osVars, loopVars, tracked, raced>>

\* sockets.Remove or sockets.Add
TrackSocket_Keeps(t) ==
  /\ t \in tasks /\ t.step = "track"
  /\ tasks' = Without(t)
  /\ tracked' = tracked \cup {t.key}
  /\ UNCHANGED <<osVars, loopVars, denied, raced>>
TrackSocket(t) ==
  /\ t \in tasks /\ t.step = "track"
  /\ tasks' = Without(t)
  /\ tracked' = IF t.allow THEN tracked \ {t.key} ELSE tracked \cup {t.key}
  /\ UNCHANGED <<osVars, loopVars, denied, raced>>

-----------------------------------------------------------------------------
Next ==
  \/ \E p \in Procs, c \in Conns : Connect(p, c)
  \/ \E p \in Procs, c \in Conns : Disconnect(p, c)
  \/ \E p \in Procs : Restart(p)
  \/ Tick
  \/ Stop
  \/ \E l \in Procs \X Pids : ReadSockets(l)
  \/ \E l \in Procs \X Pids : ReadFails(l)
  \/ \E r \in read : Spawn(r)
  \/ \E t \in tasks : FilterSocket(t)
  \/ \E t \in tasks : TrackSocket(t)

Spec == Init /\ [][Next]_vars

\* The ticker ticks, its goroutine and those of the updates run, and the
\* script does not fail every time for the same process.
Fairness ==
  /\ WF_vars(Tick)
  /\ \A p \in Procs : SF_vars(\E i \in Pids : ReadSockets(<<p, i>>))
  /\ WF_vars(\E r \in read : Spawn(r))
  /\ \A s \in Slots, k \in Keys :
       WF_vars(\E t \in {u \in tasks : u.slot = s /\ u.key = k} : FilterSocket(t) \/ TrackSocket(t))

FairSpec == Spec /\ Fairness

-----------------------------------------------------------------------------
\* Properties

InFlight(c) == {t \in tasks : ConnOf(t.key) = c}
TrackedAs(c) == {k \in tracked : ConnOf(k) = c}
Established(c) == \E p \in Procs : c \in estab[p]

\* The comment of applyFilter, "it is safe to update allowed/denied sockets
\* concurrenly", as far as it goes: while the updates of a connection do not
\* overlap and it has one key, the packet filter denies exactly the connections
\* that the provider tracks, whatever other connections are updated meanwhile.
DeniedIsTracked ==
  \A c \in Conns \ raced :
    InFlight(c) = {} => (c \in denied <=> TrackedAs(c) # {})

\* "reject packet translations for new ESTABLISHED connections": a connection
\* that a process keeps established ends up denied for good, however late the rounds and
\* their goroutines are, unless its updates raced.
EstablishedIsDenied ==
  \A p \in Procs, c \in Conns \ Malformed :
    <>[](c \in estab[p] /\ ~stopped) => <>(c \in raced) \/ <>[](c \in denied)

\* "allow packet translations for no longer ESTABLISHED connections", as far
\* as the pid of the owner stays the same and the updates do not race.
ClosedIsAllowedAgain ==
  \A c \in Conns :
    <>[](~Established(c) /\ ~stopped)
      => <>(c \in raced \/ \E p \in Procs : pid[p] > 1) \/ <>[](c \notin denied)
=============================================================================
