------------------------ MODULE ProcessFilterProofs ------------------------
(* The type invariant of ProcessFilter, and that the packet filter denies  *)
(* what the provider tracks, for any processes, connections and overlaps.  *)
EXTENDS ProcessFilter, TLAPS

\* A connection that has not raced is in the hands of one goroutine at most,
\* which knows from its own step what the filter and the keys say of it.
Settled(c) ==
  /\ \A k, l \in TrackedAs(c) : k = l
  /\ \A t, u \in InFlight(c) : t = u
  /\ InFlight(c) = {} => (c \in denied <=> TrackedAs(c) # {})
  /\ \A t \in InFlight(c) :
       /\ t.allow => t.key \in tracked /\ (c \in denied <=> t.step = "filter")
       /\ ~t.allow => TrackedAs(c) = {} /\ (c \in denied <=> t.step = "track")

AllSettled == \A c \in Conns \ raced : Settled(c)

\* The goroutines of a new round are goroutines.
LEMMA UpdatesType ==
  ASSUME TypeOK, NEW s \in Slots, NEW p \in Procs, NEW i \in Pids, NEW socks \in SUBSET Conns
  PROVE  Updates(s, p, i, socks) \subseteq Tasks
<1>1. View(p, i) \subseteq Keys
  BY DEF View, TypeOK
<1>2. Addrs(p, i, socks) \subseteq Keys
  BY DEF Keys, Addrs
<1>3. ASSUME NEW k \in Keys, NEW allow \in BOOLEAN PROVE Update(s, k, allow) \in Tasks
  BY DEF Update, Tasks
<1> QED
  BY <1>1, <1>2, <1>3, Zenon DEF Updates

\* Every variable keeps its type in every step of the provider.
LEMMA TypeStep == TypeOK /\ [Next]_vars => TypeOK'
<1> SUFFICES ASSUME TypeOK, [Next]_vars PROVE TypeOK'
  OBVIOUS
<1> USE ProcessAssumption
<1>1. ASSUME NEW p \in Procs, NEW c \in Conns, Connect(p, c) \/ Disconnect(p, c) PROVE TypeOK'
  BY <1>1 DEF TypeOK, Connect, Disconnect, loopVars
<1>2. ASSUME NEW p \in Procs, Restart(p) PROVE TypeOK'
  BY <1>2 DEF TypeOK, Restart, loopVars, Pids
<1>3. CASE Tick
  BY <1>3 DEF TypeOK, Tick, osVars
<1>4. CASE Stop
  BY <1>4 DEF TypeOK, Stop, osVars
<1>5. ASSUME NEW l \in Procs \X Pids, ReadSockets(l) \/ ReadFails(l) PROVE TypeOK'
  BY <1>5 DEF TypeOK, ReadSockets, ReadFails, osVars
<1>6. ASSUME NEW r \in read, Spawn(r) PROVE TypeOK'
  <2> DEFINE s == CHOOSE s \in Free : TRUE
             new == Updates(s, r[1], r[2], r[3])
  <2>1. s \in Slots
    BY <1>6 DEF Spawn, Free
  <2>2. r[1] \in Procs /\ r[2] \in Pids /\ r[3] \in SUBSET Conns
    BY DEF TypeOK
  <2>3. new \subseteq Tasks
    BY <2>1, <2>2, UpdatesType
  <2>4. Races(new) \subseteq Conns
    BY <2>3 DEF Races, Tasks, Keys, ConnOf
  <2> HIDE DEF new
  <2>5. tasks' = tasks \cup new /\ raced' = raced \cup Races(new) /\ read' = {}
    BY <1>6 DEF Spawn, new
  <2> QED
    BY <1>6, <2>3, <2>4, <2>5 DEF Spawn, TypeOK, osVars
<1>7. ASSUME NEW t \in tasks, FilterSocket(t) PROVE TypeOK'
  <2>1. t \in Tasks /\ ConnOf(t.key) \in Conns
    BY DEF TypeOK, Tasks, Keys, ConnOf
  <2>2. [t EXCEPT !.step = "track"] \in Tasks
    BY <2>1 DEF Tasks
  <2> QED
    BY <1>7, <2>1, <2>2 DEF FilterSocket, Without, TypeOK, osVars, loopVars
<1>8. ASSUME NEW t \in tasks, TrackSocket(t) PROVE TypeOK'
  <2>1. t.key \in Keys
    BY DEF TypeOK, Tasks
  <2> QED
    BY <1>8, <2>1 DEF TrackSocket, Without, TypeOK, osVars, loopVars
<1>9. CASE UNCHANGED vars
  BY <1>9 DEF TypeOK, vars, osVars, loopVars
<1> QED
  BY <1>1, <1>2, <1>3, <1>4, <1>5, <1>6, <1>7, <1>8, <1>9 DEF Next

\* The processes and the ticker leave the filter, the keys and the goroutines
\* as they are.
LEMMA SettledFrame ==
  ASSUME AllSettled, UNCHANGED <<denied, tracked, tasks, raced>>
  PROVE  AllSettled'
BY DEF AllSettled, Settled, InFlight, TrackedAs

\* A new round: a connection that does not race has at most one new goroutine,
\* which finds it as the provider tracks it.
LEMMA SettledSpawn ==
  ASSUME TypeOK, AllSettled, NEW r \in read, Spawn(r)
  PROVE  AllSettled'
<1> DEFINE s == CHOOSE s \in Free : TRUE
           p == r[1]
           i == r[2]
           new == Updates(s, p, i, r[3])
           Good(t) == /\ t.key \in Keys /\ t.key[1] = p /\ t.key[2] = i
                      /\ t.allow \in BOOLEAN /\ (t.allow <=> t.key \in tracked)
                      /\ t = Update(s, t.key, t.allow)
<1>1. p \in Procs /\ i \in Pids /\ r[3] \in SUBSET Conns
  BY DEF TypeOK
<1>2. \A t \in new : Good(t)
  <2>1. View(p, i) \subseteq Keys
    BY DEF View, TypeOK
  <2>2. ASSUME NEW k \in Addrs(p, i, r[3]) \ View(p, i)
        PROVE  k \in Keys /\ k[1] = p /\ k[2] = i /\ k \notin tracked
    BY <1>1, <2>2 DEF View, Keys, Addrs
  <2>3. ASSUME NEW k \in View(p, i) PROVE k \in Keys /\ k[1] = p /\ k[2] = i /\ k \in tracked
    BY <2>1, <2>3 DEF View
  <2>4. ASSUME NEW k \in Addrs(p, i, r[3]) \ View(p, i) PROVE Good(Update(s, k, FALSE))
    BY <2>2, <2>4 DEF Update
  <2>5. ASSUME NEW k \in View(p, i) PROVE Good(Update(s, k, TRUE))
    BY <2>3, <2>5 DEF Update
  <2> HIDE DEF Good
  <2> QED
    BY <2>4, <2>5, Zenon DEF Updates
<1> HIDE DEF new
<1>3. /\ tasks' = tasks \cup new /\ raced' = raced \cup Races(new)
      /\ denied' = denied /\ tracked' = tracked
  BY DEF Spawn, new
<1> SUFFICES ASSUME NEW c \in Conns \ raced' PROVE Settled(c)'
  BY DEF AllSettled
<1>4. c \notin raced /\ c \notin Races(new) /\ Settled(c)
  BY <1>3 DEF AllSettled
<1>5. TrackedAs(c)' = TrackedAs(c) /\ (c \in denied') = (c \in denied)
  BY <1>3 DEF TrackedAs
<1>6. CASE \A t \in new : ConnOf(t.key) # c
  <2>1. InFlight(c)' = InFlight(c)
    BY <1>3, <1>6 DEF InFlight
  <2> QED
    BY <1>4, <1>5, <2>1, <1>3 DEF Settled
<1>7. ASSUME NEW t \in new, ConnOf(t.key) = c PROVE Settled(c)'
  <2>1. InFlight(c) = {} /\ \A k \in TrackedAs(c) : k = t.key
    BY <1>4, <1>7 DEF Races, InFlight, TrackedAs
  <2>2. ASSUME NEW u \in new, ConnOf(u.key) = c PROVE u = t
    <3>1. u.key = t.key
      BY <1>2, <1>7, <2>2 DEF Keys, ConnOf
    <3> QED
      BY <1>2, <2>2, <3>1
  <2>3. InFlight(c)' = {t}
    BY <1>3, <1>7, <2>1, <2>2 DEF InFlight
  <2>4. t.step = "filter" /\ (t.allow <=> t.key \in tracked)
    BY <1>2 DEF Update
  <2>5. c \in denied <=> TrackedAs(c) # {}
    BY <1>4, <2>1 DEF Settled
  <2>6. t.key \in tracked <=> TrackedAs(c) # {}
    BY <1>7, <2>1 DEF TrackedAs
  <2> QED
    BY <1>3, <1>5, <2>1, <2>3, <2>4, <2>5, <2>6, Zenon DEF Settled
<1> QED
  BY <1>6, <1>7

\* A step of a goroutine touches its own connection only.
LEMMA SettledOther ==
  ASSUME TypeOK, AllSettled, NEW t \in tasks, raced' = raced,
         NEW c \in Conns \ raced, c # ConnOf(t.key),
         NEW moved, moved # {} => moved = {[t EXCEPT !.step = "track"]},
         tasks' = Without(t) \cup moved,
         c \in denied' <=> c \in denied,
         \A k : k # t.key => (k \in tracked' <=> k \in tracked)
  PROVE  Settled(c)'
<1>1. InFlight(c)' = InFlight(c)
  <2>1. \A u \in moved : u.key = t.key
    BY DEF TypeOK, Tasks
  <2> QED
    BY <2>1 DEF InFlight, Without
<1>2. TrackedAs(c)' = TrackedAs(c)
  BY DEF TrackedAs
<1>3. Settled(c)
  BY DEF AllSettled
<1>4. \A u \in InFlight(c) : u.key \in tracked' <=> u.key \in tracked
  BY DEF InFlight
<1> QED
  BY <1>1, <1>2, <1>3, <1>4 DEF Settled

\* The first step of applyFilter moves the goroutine to its second one, or
\* ends it when the addresses do not parse.
LEMMA SettledFilter ==
  ASSUME TypeOK, AllSettled, NEW t \in tasks, FilterSocket(t)
  PROVE  AllSettled'
<1> DEFINE d == ConnOf(t.key)
           u == [t EXCEPT !.step = "track"]
           moved == IF d \in Malformed THEN {} ELSE {u}
<1>1. /\ tasks' = Without(t) \cup moved /\ raced' = raced /\ tracked' = tracked
      /\ \A c : c # d => (c \in denied' <=> c \in denied)
      /\ t.step = "filter"
  BY DEF FilterSocket
<1>2. t \in Tasks /\ u.key = t.key /\ u.allow = t.allow /\ u.step = "track"
  BY DEF TypeOK, Tasks
<1> SUFFICES ASSUME NEW c \in Conns \ raced PROVE Settled(c)'
  BY <1>1 DEF AllSettled
<1>3. CASE c # d
  BY <1>1, <1>3, SettledOther
<1>4. CASE c = d
  <2>1. Settled(c) /\ t \in InFlight(c) /\ TrackedAs(c)' = TrackedAs(c)
    BY <1>1, <1>4 DEF AllSettled, InFlight, TrackedAs
  <2>2. InFlight(c)' = moved
    BY <1>1, <1>2, <1>4, <2>1 DEF InFlight, Without, Settled
  <2>3. /\ t.allow => t.key \in tracked /\ c \in denied /\ TrackedAs(c) # {}
        /\ ~t.allow => TrackedAs(c) = {} /\ c \notin denied
    BY <1>1, <1>4, <2>1 DEF Settled, TrackedAs
  <2>4. CASE d \in Malformed
    <3>1. denied' = denied /\ InFlight(c)' = {}
      BY <2>2, <2>4 DEF FilterSocket
    <3> QED
      BY <1>1, <2>1, <2>3, <3>1 DEF Settled
  <2>5. CASE d \notin Malformed
    <3>1. InFlight(c)' = {u} /\ (c \in denied' <=> ~t.allow)
      BY <1>4, <2>2, <2>5 DEF FilterSocket
    <3> QED
      BY <1>1, <1>2, <2>1, <2>3, <3>1 DEF Settled
  <2> QED
    BY <2>4, <2>5
<1> QED
  BY <1>3, <1>4

\* The second step of applyFilter ends the goroutine.
LEMMA SettledTrack ==
  ASSUME TypeOK, AllSettled, NEW t \in tasks, TrackSocket(t)
  PROVE  AllSettled'
<1> DEFINE d == ConnOf(t.key)
<1>1. /\ tasks' = Without(t) \cup {} /\ raced' = raced /\ denied' = denied
      /\ tracked' = IF t.allow THEN tracked \ {t.key} ELSE tracked \cup {t.key}
      /\ t.step = "track"
  BY DEF TrackSocket
<1> SUFFICES ASSUME NEW c \in Conns \ raced PROVE Settled(c)'
  BY <1>1 DEF AllSettled
<1>2. CASE c # d
  <2>1. \A k : k # t.key => (k \in tracked' <=> k \in tracked)
    BY <1>1
  <2> QED
    BY <1>1, <1>2, <2>1, SettledOther
<1>3. CASE c = d
  <2>1. Settled(c) /\ t \in InFlight(c)
    BY <1>3 DEF AllSettled, InFlight
  <2>2. InFlight(c)' = {}
    BY <1>1, <2>1 DEF InFlight, Without, Settled
  <2>3. CASE t.allow
    <3>1. c \notin denied /\ TrackedAs(c)' = {}
      BY <1>1, <1>3, <2>1, <2>3 DEF Settled, TrackedAs
    <3> QED
      BY <1>1, <2>2, <3>1 DEF Settled
  <2>4. CASE ~t.allow
    <3>1. c \in denied /\ TrackedAs(c)' = {t.key}
      BY <1>1, <1>3, <2>1, <2>4 DEF Settled, TrackedAs
    <3> QED
      BY <1>1, <2>2, <3>1 DEF Settled
  <2> QED
    BY <2>3, <2>4
<1> QED
  BY <1>2, <1>3

\* Every step keeps the connections settled.
LEMMA SettledStep == TypeOK /\ AllSettled /\ [Next]_vars => AllSettled'
<1> SUFFICES ASSUME TypeOK, AllSettled, [Next]_vars PROVE AllSettled'
  OBVIOUS
<1>1. ASSUME NEW p \in Procs, NEW c \in Conns, Connect(p, c) \/ Disconnect(p, c)
      PROVE  AllSettled'
  BY <1>1, SettledFrame DEF Connect, Disconnect
<1>2. ASSUME NEW p \in Procs, Restart(p) PROVE AllSettled'
  BY <1>2, SettledFrame DEF Restart
<1>3. CASE Tick \/ Stop
  BY <1>3, SettledFrame DEF Tick, Stop
<1>4. ASSUME NEW l \in Procs \X Pids, ReadSockets(l) \/ ReadFails(l) PROVE AllSettled'
  BY <1>4, SettledFrame DEF ReadSockets, ReadFails
<1>5. CASE UNCHANGED vars
  BY <1>5, SettledFrame DEF vars
<1> QED
  BY <1>1, <1>2, <1>3, <1>4, <1>5, SettledSpawn, SettledFilter, SettledTrack DEF Next

\* The provider keeps its types: what is denied is a connection, what is
\* tracked a key.
THEOREM ProcessTypeCorrect == Spec => []TypeOK
<1>1. Init => TypeOK
  <2>1. 1 \in Pids
    BY ProcessAssumption DEF Pids
  <2> QED
    BY <2>1, Zenon DEF Init, TypeOK
<1> QED
  BY <1>1, TypeStep, PTL DEF Spec

\* As long as the updates of a connection do not overlap and it has one key,
\* the packet filter denies it exactly when the provider tracks it.
THEOREM DeniedMeansTracked == Spec => []DeniedIsTracked
<1>1. Init => AllSettled
  BY DEF Init, AllSettled, Settled, InFlight, TrackedAs
<1>2. AllSettled => DeniedIsTracked
  BY DEF AllSettled, Settled, DeniedIsTracked
<1> QED
  BY <1>1, <1>2, ProcessTypeCorrect, SettledStep, PTL DEF Spec
=============================================================================
