---------------------------- MODULE PowerProofs ----------------------------
(* The safety of PowerHal for every configuration, duration and fault set. *)
EXTENDS PowerHal, TLAPS

-----------------------------------------------------------------------------
(* What one application of the boost establishes. *)

\* A configuration that was loaded is one that passed the checks.
LEMMA LoadValid ==
    ASSUME NEW f \in ConfigFiles
    PROVE  LoadBoostConfigLocked(f) \in Config /\ Valid(LoadBoostConfigLocked(f))
BY ConstantsAssumption DEF LoadBoostConfigLocked

\* The value wanted for a node is a number, before and after a step.
WantedIsInt == config \in Config => \A n \in Nodes : Wanted(n) \in Int

LEMMA WantedTyped == WantedIsInt
<1> SUFFICES ASSUME config \in Config, NEW n \in Nodes PROVE Wanted(n) \in Int
  BY DEF WantedIsInt
<1>1. config.active \in Int /\ config.base \in Int /\ config.foreground \in Int
  BY DEF Config
<1> QED BY <1>1 DEF Wanted, Nodes, GpuNodes, StuneNodes

LEMMA WantedTypedNext == WantedIsInt'
BY WantedTyped, PTL

\* A request keeps every deadline within the longest boost.
LEMMA RequestTyped ==
    ASSUME TypeOK, NEW source \in Sources, NEW ticks \in Int
    PROVE  Requested(source, ticks) \in [Sources -> 0..MaxTicks]
<1>1. config.ticks[source] \in 0..MaxTicks
  BY ConstantsAssumption DEF TypeOK, Valid
<1>2. ticks >= 0 => BoostTicks(source, ticks) \in 0..MaxTicks
  BY <1>1, ConstantsAssumption DEF BoostTicks
<1>3. boost_deadlines \in [Sources -> 0..MaxTicks] /\ 0 \in 0..MaxTicks
  BY ConstantsAssumption DEF TypeOK
<1> QED BY <1>2, <1>3 DEF Requested

\* The kernel's requests are those of the descriptors in fds, one each.
Matching(requests, fds) ==
    requests = [c \in Clusters |-> IF c \in fds THEN 1 ELSE 0]

\* Closing what is held leaves nothing in the kernel.
LEMMA CloseAll ==
    ASSUME NEW requests, NEW fds, Matching(requests, fds)
    PROVE  Matching(Close(requests, fds), {})
BY DEF Matching, Close

\* The loop over the clusters has a descriptor for every request it made.
LoopSound(loop) ==
    /\ loop \in [fds : SUBSET Clusters, qos : [Clusters -> Int], left : BOOLEAN]
    /\ Matching(loop.qos, loop.fds)

\* A round leaves no request without its descriptor, whether the cluster is
\* held already, gives way, refuses the open or refuses the write.
LEMMA AcquireKeeps ==
    ASSUME NEW loop, LoopSound(loop), NEW c \in Clusters, NEW opens \in BOOLEAN
    PROVE  LoopSound(AcquireFloor(loop, c, opens))
<1> DEFINE request == [loop.qos EXCEPT ![c] = @ + 1]
           end == AcquireFloor(loop, c, opens)
<1>0. /\ loop \in [fds : SUBSET Clusters, qos : [Clusters -> Int], left : BOOLEAN]
      /\ loop.fds \in SUBSET Clusters /\ loop.qos \in [Clusters -> Int]
      /\ loop.left \in BOOLEAN /\ request \in [Clusters -> Int]
  BY DEF LoopSound
<1>1. CASE loop.left \/ c \in loop.fds
  BY <1>1 DEF AcquireFloor
<1>2. CASE ~loop.left /\ c \notin loop.fds /\ c \notin broken
  <2>1. end = [loop EXCEPT !.fds = @ \cup {c}, !.qos = request]
    BY <1>2 DEF AcquireFloor
  <2>2. Matching(request, loop.fds \cup {c})
    BY <1>2 DEF Matching, LoopSound
  <2> HIDE DEF request, end
  <2>3. end.fds = loop.fds \cup {c} /\ end.qos = request
    BY <1>0, <2>1
  <2>4. end \in [fds : SUBSET Clusters, qos : [Clusters -> Int], left : BOOLEAN]
    BY <1>0, <2>1
  <2> QED BY <2>2, <2>3, <2>4 DEF LoopSound, end
<1>3. CASE ~loop.left /\ c \notin loop.fds /\ c \in broken
  <2>1. end = [loop EXCEPT !.left = TRUE, !.qos = IF opens THEN Close(request, {c}) ELSE @]
    BY <1>3 DEF AcquireFloor
  <2>2. Close(request, {c}) = loop.qos
    BY <1>0, <1>3 DEF Close
  <2>3. end = [loop EXCEPT !.left = TRUE]
    BY <1>0, <2>1, <2>2
  <2> QED BY <1>0, <2>3 DEF LoopSound
<1> QED BY <1>0, <1>1, <1>2, <1>3

\* ApplyCpuFloorLocked leaves both floors or none, whichever open or write
\* fails, and its flag tells which.
LEMMA FloorApplied ==
    ASSUME cpu_floor_fds \in SUBSET Clusters, Matching(qos, cpu_floor_fds),
           NEW active \in BOOLEAN, ApplyCpuFloorLocked(active)
    PROVE  /\ cpu_floor_fds' \in {{}, Clusters} /\ cpu_floor_ready' \in BOOLEAN
           /\ Matching(qos', cpu_floor_fds')
           /\ cpu_floor_fds' # {} => active /\ cpu_floor_ready'
           /\ active /\ cpu_floor_fds' = {} => ~cpu_floor_ready'
<1>0. Clusters # {}
  BY DEF Clusters
<1>1. CASE ~active
  BY <1>1, CloseAll DEF ApplyCpuFloorLocked
<1>2. CASE active
  <2> DEFINE start == [fds |-> cpu_floor_fds, qos |-> qos, left |-> FALSE]
             first(opens) == AcquireFloor(start, "cluster0", opens)
             second(opens) == AcquireFloor(first(opens), "cluster1", opens)
  <2>1. PICK opens \in BOOLEAN :
             /\ cpu_floor_ready' = (second(opens).fds = Clusters)
             /\ cpu_floor_fds' = RollBack(second(opens)).fds
             /\ qos' = RollBack(second(opens)).qos
    BY <1>2 DEF ApplyCpuFloorLocked
  <2>2. "cluster0" \in Clusters /\ "cluster1" \in Clusters
    BY DEF Clusters
  <2>3. LoopSound(start)
    BY DEF LoopSound, Matching
  <2>4. LoopSound(second(opens))
    <3> HIDE DEF start
    <3>1. LoopSound(first(opens))
      BY <2>2, <2>3, AcquireKeeps
    <3> HIDE DEF first
    <3> QED BY <2>2, <3>1, AcquireKeeps
  <2> DEFINE end == second(opens)
  <2> HIDE DEF second
  <2>5. CASE end.fds = Clusters
    BY <1>0, <1>2, <2>1, <2>4, <2>5 DEF RollBack, LoopSound
  <2>6. CASE end.fds # Clusters
    <3>1. cpu_floor_fds' = {} /\ qos' = Close(end.qos, end.fds)
      BY <2>1, <2>4, <2>6 DEF RollBack, LoopSound
    <3>2. Matching(qos', {})
      BY <2>4, <3>1, CloseAll DEF LoopSound
    <3> QED BY <1>2, <2>1, <2>6, <3>1, <3>2
  <2> QED BY <2>5, <2>6
<1> QED BY <1>1, <1>2

LEMMA MatchingTyped ==
    ASSUME NEW requests, NEW fds, Matching(requests, fds)
    PROVE  /\ requests \in [Clusters -> Nat]
           /\ \A c \in Clusters : requests[c] = IF c \in fds THEN 1 ELSE 0
BY DEF Matching

\* ApplyBoostLocked keeps the types; the floor is complete and belongs to a
\* boost that the modes allow.
LEMMA ApplyKeeps ==
    ASSUME TypeOK, Matching(qos, cpu_floor_fds),
           NEW d \in [Sources -> 0..MaxTicks], NEW scope \in SUBSET Nodes,
           ApplyBoostLocked(d, scope), config' \in Config
    PROVE  /\ boost_deadlines' \in [Sources -> 0..MaxTicks]
           /\ cpu_floor_fds' \in {{}, Clusters} /\ cpu_floor_ready' \in BOOLEAN
           /\ Matching(qos', cpu_floor_fds')
           /\ cpu_floor_fds' # {} => Boosting' /\ cpu_floor_ready'
           /\ Boosting' /\ cpu_floor_fds' = {} => ~cpu_floor_ready'
           /\ applied' \in [Nodes \ {"profile"} -> Int] /\ node' \in [Nodes -> Int]
           /\ ~BoostAllowed' \/ phase' = "stopping" => ~Boosting' /\ cpu_floor_fds' = {}
<1>1. 0 \in 0..MaxTicks
  BY ConstantsAssumption
<1>2. boost_deadlines' \in [Sources -> 0..MaxTicks]
  BY <1>1 DEF ApplyBoostLocked
<1>3. ~BoostAllowed' \/ phase' = "stopping" => ~Boosting'
  <2> SUFFICES ASSUME ~BoostAllowed' \/ phase' = "stopping" PROVE ~Boosting'
    OBVIOUS
  <2>1. boost_deadlines' = [s \in Sources |-> 0]
    BY DEF ApplyBoostLocked
  <2> QED BY <2>1 DEF Boosting
<1>4. /\ cpu_floor_fds' \in {{}, Clusters} /\ cpu_floor_ready' \in BOOLEAN
      /\ Matching(qos', cpu_floor_fds')
      /\ cpu_floor_fds' # {} => Boosting' /\ cpu_floor_ready'
      /\ Boosting' /\ cpu_floor_fds' = {} => ~cpu_floor_ready'
  <2>1. ApplyCpuFloorLocked(Boosting')
    BY DEF ApplyBoostLocked
  <2>2. Boosting' \in BOOLEAN
    BY DEF Boosting
  <2>3. cpu_floor_fds \in SUBSET Clusters
    BY DEF TypeOK
  <2> QED BY <2>1, <2>2, <2>3, FloorApplied
<1>5. \A n \in Nodes : Wanted(n)' \in Int
  BY WantedTypedNext DEF WantedIsInt
<1>6. applied' \in [Nodes \ {"profile"} -> Int] /\ node' \in [Nodes -> Int]
  BY <1>5 DEF ApplyBoostLocked, WriteNodes, TypeOK
<1> QED BY <1>2, <1>3, <1>4, <1>6

\* The cache of written values stays true.
CacheOfNodes == \A n \in Nodes \ {"profile"} : applied[n] # None => node[n] = applied[n]

LEMMA ApplyKeepsCache ==
    ASSUME CacheOfNodes, NEW d, NEW scope, ApplyBoostLocked(d, scope)
    PROVE  CacheOfNodes'
BY DEF ApplyBoostLocked, WriteNodes, CacheOfNodes

\* The worker sleeps no longer than any reason it has to wake up.
SleepsShort ==
    boost_deadlines \in [Sources -> 0..MaxTicks] =>
        /\ SleepTicks \in 0..Never
        /\ \A s \in Sources : boost_deadlines[s] > 0 => SleepTicks <= boost_deadlines[s]
        /\ (\E n \in StuneNodes : applied[n] # Wanted(n)) \/ ~cpu_floor_ready =>
             SleepTicks <= RetryTicks

LEMMA SleepBound == SleepsShort
<1> SUFFICES ASSUME boost_deadlines \in [Sources -> 0..MaxTicks]
             PROVE  /\ SleepTicks \in 0..Never
                    /\ \A s \in Sources : boost_deadlines[s] > 0 => SleepTicks <= boost_deadlines[s]
                    /\ (\E n \in StuneNodes : applied[n] # Wanted(n)) \/ ~cpu_floor_ready =>
                         SleepTicks <= RetryTicks
  BY DEF SleepsShort
<1> DEFINE pending == {boost_deadlines[s] : s \in {r \in Sources : boost_deadlines[r] > 0}}
           failed == (\E n \in StuneNodes : applied[n] # Wanted(n)) \/ ~cpu_floor_ready
           S == {Never} \cup pending \cup (IF failed THEN {RetryTicks} ELSE {})
<1>1. S \in SUBSET (0..Never) /\ Never \in S
  <2>1. Never \in 0..Never /\ RetryTicks \in 0..Never
    BY ConstantsAssumption DEF Never
  <2>2. \A s \in Sources : boost_deadlines[s] \in 0..Never
    BY ConstantsAssumption DEF Never
  <2> QED BY <2>1, <2>2
<1>2. \E t \in S : \A u \in S : t <= u
  <2> DEFINE D(s) == IF boost_deadlines[s] > 0 THEN boost_deadlines[s] ELSE Never
             R == IF failed THEN RetryTicks ELSE Never
  <2>1. D(0) \in Nat /\ D(1) \in Nat /\ D(2) \in Nat /\ R \in Nat /\ Never \in Nat
    BY ConstantsAssumption DEF Sources, Never
  <2>2. \A u \in S : u \in {Never, D(0), D(1), D(2), R}
    BY DEF Sources
  <2>3. {Never, D(0), D(1), D(2), R} \subseteq S
    BY DEF Sources
  <2> HIDE DEF S, D, R
  <2>4. \E t \in {Never, D(0), D(1), D(2), R} :
          t <= Never /\ t <= D(0) /\ t <= D(1) /\ t <= D(2) /\ t <= R
    BY <2>1
  <2> QED BY <2>2, <2>3, <2>4
<1>3. SleepTicks = Least(S)
  BY DEF SleepTicks
<1>4. Least(S) \in S /\ \A u \in S : Least(S) <= u
  <2> HIDE DEF S
  <2> QED BY <1>2 DEF Least
<1>5. \A s \in Sources : boost_deadlines[s] > 0 => boost_deadlines[s] \in S
  OBVIOUS
<1>6. failed => RetryTicks \in S
  OBVIOUS
<1> HIDE DEF S
<1> QED BY <1>1, <1>3, <1>4, <1>5, <1>6

LEMMA SleepBoundNext == SleepsShort'
BY SleepBound, PTL

-----------------------------------------------------------------------------
(* The inductive invariant. *)

\* The worker waits only in a live process, whose floor has a boost behind it
\* or a worker that is about to look; nodes are refused only after a break,
\* and every request in the kernel has its descriptor.
Control ==
    /\ worker = "waiting" => phase = "up"
    /\ phase = "down" => applied = [n \in Nodes \ {"profile"} |-> None] /\ ~profile_applied
    /\ breaks = 0 => broken = {}
    /\ cpu_floor_fds # {} => cpu_floor_ready
    /\ Matching(qos, cpu_floor_fds)

Inv == TypeOK /\ FloorAllOrNothing /\ NoBoostWhenForbidden /\ NeverOversleeps /\ CacheIsTrue
       /\ Control

LEMMA FreshTyped ==
    /\ FreshMode \in [Modes -> BOOLEAN]
    /\ [n \in Nodes \ {"profile"} |-> None] \in [Nodes \ {"profile"} -> Int]
    /\ [n \in Nodes |-> 0] \in [Nodes -> Int]
<1>1. FreshMode \in [Modes -> BOOLEAN]
  BY Zenon DEF FreshMode
<1>2. None \in Int
  BY DEF None
<1> QED BY <1>1, <1>2

LEMMA InvInit == Init => Inv
<1> SUFFICES ASSUME Init PROVE Inv
  OBVIOUS
<1>1. TypeOK
  <2>1. 0 \in 0..MaxTicks /\ Never \in 0..Never /\ 0 \in 0..MaxBreaks
    BY ConstantsAssumption DEF Never
  <2>2. Defaults \in Config /\ Valid(Defaults)
    BY ConstantsAssumption
  <2> QED BY <2>1, <2>2, FreshTyped DEF Init, TypeOK
<1>2. FloorAllOrNothing /\ NoBoostWhenForbidden /\ NeverOversleeps
  BY DEF Init, FloorAllOrNothing, NoBoostWhenForbidden, NeverOversleeps, Boosting
<1>3. CacheIsTrue /\ Control
  BY DEF Init, CacheIsTrue, Control, Matching
<1> QED BY <1>1, <1>2, <1>3 DEF Inv

\* A step that applies the boost in a live process, and wakes the worker or is
\* the worker that goes back to sleep.
LEMMA ApplyStep ==
    ASSUME Inv, NEW d \in [Sources -> 0..MaxTicks], NEW scope \in SUBSET Nodes,
           ApplyBoostLocked(d, scope),
           config' \in Config, Valid(config)', mode' \in [Modes -> BOOLEAN],
           phase' \in {"up", "stopping"}, UNCHANGED faultVars,
           worker' \in {"ready", "none", "exited", "waiting"},
           worker' = "waiting" => phase' = "up" /\ timer' = SleepTicks',
           timer' \in 0..Never,
           profile_applied' \in BOOLEAN,
           profile_applied' => node'["profile"] = Wanted("profile")'
    PROVE  Inv'
<1>1. /\ boost_deadlines' \in [Sources -> 0..MaxTicks]
      /\ cpu_floor_fds' \in {{}, Clusters} /\ cpu_floor_ready' \in BOOLEAN
      /\ Matching(qos', cpu_floor_fds')
      /\ cpu_floor_fds' # {} => Boosting' /\ cpu_floor_ready'
      /\ Boosting' /\ cpu_floor_fds' = {} => ~cpu_floor_ready'
      /\ applied' \in [Nodes \ {"profile"} -> Int] /\ node' \in [Nodes -> Int]
      /\ ~BoostAllowed' \/ phase' = "stopping" => ~Boosting' /\ cpu_floor_fds' = {}
  BY ApplyKeeps DEF Inv, Control
<1>m. /\ qos' \in [Clusters -> Nat]
      /\ \A c \in Clusters : qos'[c] = IF c \in cpu_floor_fds' THEN 1 ELSE 0
  BY <1>1, MatchingTyped
<1>2. TypeOK'
  BY <1>1, <1>m DEF Inv, TypeOK, faultVars
<1>3. FloorAllOrNothing'
  BY <1>1, <1>m DEF FloorAllOrNothing
<1>4. NoBoostWhenForbidden'
  BY <1>1 DEF NoBoostWhenForbidden
<1>5. NeverOversleeps'
  BY <1>1, SleepBoundNext DEF NeverOversleeps, SleepsShort
<1>6. CacheIsTrue'
  <2>1. CacheOfNodes'
    BY ApplyKeepsCache DEF Inv, CacheIsTrue, CacheOfNodes
  <2> QED BY <2>1 DEF CacheIsTrue, CacheOfNodes
<1>7. Control'
  BY <1>1 DEF Inv, Control, faultVars, Matching
<1> QED BY <1>2, <1>3, <1>4, <1>5, <1>6, <1>7 DEF Inv

\* The profile node follows low_power_ while it is not written again.
LEMMA ProfileKept ==
    ASSUME Inv, NEW d, NEW scope \in SUBSET (Nodes \ {"profile"}), ApplyBoostLocked(d, scope),
           mode'["LOW_POWER"] = mode["LOW_POWER"], phase # "down", profile_applied
    PROVE  node'["profile"] = Wanted("profile")'
<1>1. node'["profile"] = node["profile"]
  BY DEF ApplyBoostLocked, WriteNodes, Nodes, StuneNodes
<1> QED BY <1>1 DEF Inv, CacheIsTrue, Wanted

LEMMA ProfileWritten ==
    ASSUME NEW d, NEW scope, "profile" \in scope, "profile" \notin broken,
           ApplyBoostLocked(d, scope)
    PROVE  node'["profile"] = Wanted("profile")'
BY DEF ApplyBoostLocked, WriteNodes, Nodes

LEMMA CallStep ==
    ASSUME Inv, setMode \/ setBoost
    PROVE  Inv'
<1>0. /\ boost_deadlines \in [Sources -> 0..MaxTicks] /\ timer \in 0..Never
      /\ config \in Config /\ Valid(config) /\ mode \in [Modes -> BOOLEAN]
      /\ profile_applied \in BOOLEAN
      /\ worker \in {"none", "ready", "waiting", "exited"}
  BY DEF Inv, TypeOK
<1>1. /\ phase = "up" /\ phase' = "up" /\ UNCHANGED faultVars
      /\ config' \in Config /\ Valid(config)'
  BY <1>0 DEF setMode, setBoost, Valid
<1>2. ASSUME NotifyAll
      PROVE  worker' \in {"ready", "none", "exited"} /\ timer' \in 0..Never
  BY <1>0, <1>2 DEF NotifyAll
<1>3. ASSUME NEW source \in Sources, NEW ticks \in Int, RequestBoostLocked(source, ticks),
             UNCHANGED <<mode, profile_applied>>
      PROVE  Inv'
  <2>1. ApplyBoostLocked(Requested(source, ticks), {}) /\ NotifyAll
    BY <1>3 DEF RequestBoostLocked
  <2>2. Requested(source, ticks) \in [Sources -> 0..MaxTicks]
    BY RequestTyped DEF Inv
  <2>3. profile_applied' => node'["profile"] = Wanted("profile")'
    BY <1>1, <1>3, <2>1, ProfileKept
  <2> QED BY <1>0, <1>1, <1>2, <1>3, <2>1, <2>2, <2>3, ApplyStep
<1>4. CASE setBoost
  BY <1>3, <1>4, ConstantsAssumption DEF setBoost, Sources
<1>5. ASSUME NEW enabled \in BOOLEAN, SetLaunch(enabled)
      PROVE  Inv'
  <2>1. config.ticks[2] \in Int /\ 2 \in Sources
    BY <1>0 DEF Config, Sources
  <2> QED BY <1>3, <1>5, <2>1 DEF SetLaunch
<1>6. CASE SetOther
  <2>1. ApplyBoostLocked(boost_deadlines, {}) /\ NotifyAll /\ UNCHANGED <<mode, profile_applied>>
    BY <1>6 DEF SetOther
  <2>2. profile_applied' => node'["profile"] = Wanted("profile")'
    BY <1>1, <2>1, ProfileKept
  <2> QED BY <1>0, <1>1, <1>2, <2>1, <2>2, ApplyStep
<1>7. ASSUME NEW type \in Modes, NEW enabled \in BOOLEAN, SetSwitch(type, enabled)
      PROVE  Inv'
  <2> DEFINE skip == type = "LOW_POWER" /\ mode[type] = enabled /\ profile_applied
             scope == IF skip THEN {} ELSE ScopeOf(type)
  <2>1. /\ mode' = [mode EXCEPT ![type] = enabled]
        /\ profile_applied' = IF "profile" \in ScopeOf(type) /\ ~skip THEN "profile" \notin broken
                              ELSE profile_applied
        /\ ApplyBoostLocked(boost_deadlines, scope)
        /\ NotifyAll
    BY <1>7 DEF SetSwitch
  <2>2. ScopeOf(type) \in SUBSET Nodes /\ ("profile" \in ScopeOf(type) <=> type = "LOW_POWER")
    BY DEF ScopeOf, Nodes, GpuNodes
  <2>3. mode' \in [Modes -> BOOLEAN] /\ scope \in SUBSET Nodes
    BY <1>0, <2>1, <2>2
  <2>4. profile_applied' => node'["profile"] = Wanted("profile")'
    <3>1. CASE type = "LOW_POWER" /\ ~skip
      BY <2>1, <2>2, <3>1, ProfileWritten
    <3>2. CASE ~(type = "LOW_POWER" /\ ~skip)
      <4>1. mode'["LOW_POWER"] = mode["LOW_POWER"]
        BY <1>0, <2>1, <3>2 DEF Modes
      <4>2. scope \in SUBSET (Nodes \ {"profile"})
        BY <2>2, <3>2
      <4> QED BY <1>1, <2>1, <2>2, <3>2, <4>1, <4>2, ProfileKept
    <3> QED BY <3>1, <3>2
  <2>5. profile_applied' \in BOOLEAN
    BY <1>0, <2>1
  <2> QED BY <1>0, <1>1, <1>2, <2>1, <2>3, <2>4, <2>5, ApplyStep
<1> QED BY <1>4, <1>5, <1>6, <1>7 DEF setMode

LEMMA WorkerStep ==
    ASSUME Inv, BoostWorker \/ TimerWakes \/ SpuriousWake
    PROVE  Inv'
<1>0. /\ boost_deadlines \in [Sources -> 0..MaxTicks] /\ timer \in 0..Never
      /\ config \in Config /\ Valid(config) /\ mode \in [Modes -> BOOLEAN]
      /\ profile_applied \in BOOLEAN
  BY DEF Inv, TypeOK
<1>1. CASE BoostWorker /\ phase = "up"
  <2>1. /\ ApplyBoostLocked(boost_deadlines, {})
        /\ worker' = "waiting" /\ timer' = SleepTicks'
        /\ UNCHANGED <<phase, mode, config, profile_applied, faultVars>>
    BY <1>1 DEF BoostWorker
  <2>2. profile_applied' => node'["profile"] = Wanted("profile")'
    BY <1>1, <2>1, ProfileKept
  <2>3. timer' \in 0..Never
    <3>1. boost_deadlines' \in [Sources -> 0..MaxTicks]
      BY <1>0, <2>1, ApplyKeeps DEF Inv, Control
    <3> QED BY <2>1, <3>1, SleepBoundNext DEF SleepsShort
  <2>4. config' \in Config /\ Valid(config)'
    BY <1>0, <2>1 DEF Valid
  <2> QED BY <1>0, <1>1, <2>1, <2>2, <2>3, <2>4, ApplyStep
<1>2. CASE ~(BoostWorker /\ phase = "up")
  <2>1. /\ worker' \in {"ready", "exited"}
        /\ UNCHANGED <<phase, mode, config, boost_deadlines, floorVars, applied, profile_applied, timer, node, faultVars>>
    BY <1>2 DEF BoostWorker, TimerWakes, SpuriousWake
  <2>2. TypeOK'
    BY <2>1 DEF Inv, TypeOK, Valid, floorVars, faultVars
  <2>3. FloorAllOrNothing' /\ NoBoostWhenForbidden' /\ NeverOversleeps'
    BY <2>1 DEF Inv, FloorAllOrNothing, NoBoostWhenForbidden, NeverOversleeps, BoostAllowed,
                Boosting, floorVars
  <2>4. CacheIsTrue' /\ Control'
    BY <2>1 DEF Inv, CacheIsTrue, Control, Wanted, Matching, floorVars, faultVars
  <2> QED BY <2>2, <2>3, <2>4 DEF Inv
<1> QED BY <1>1, <1>2

\* One tick brings the timer and every deadline one nearer, and a boost whose
\* last deadline passes was one the timer waited for.
LEMMA TickStep ==
    ASSUME Inv, Tick
    PROVE  Inv'
<1>0. boost_deadlines \in [Sources -> 0..MaxTicks] /\ timer \in 0..Never /\ Never \in Nat
  BY ConstantsAssumption DEF Inv, TypeOK, Never
<1>1. /\ boost_deadlines' = [s \in Sources |-> Elapse(boost_deadlines[s])]
      /\ timer' = IF timer = Never THEN Never ELSE Elapse(timer)
      /\ UNCHANGED <<phase, mode, config, floorVars, applied,
                     profile_applied, worker, node, faultVars>>
      /\ phase = "up"
  BY DEF Tick
<1>2. \A s \in Sources : /\ boost_deadlines'[s] \in 0..MaxTicks
                         /\ boost_deadlines'[s] > 0 => /\ boost_deadlines[s] > 0
                                                       /\ boost_deadlines'[s] = boost_deadlines[s] - 1
                         /\ boost_deadlines'[s] = 0 => boost_deadlines[s] <= 1
  BY <1>0, <1>1, ConstantsAssumption DEF Elapse
<1>3. /\ timer' \in 0..Never
      /\ timer # Never /\ timer > 0 => timer' = timer - 1
      /\ timer # Never => timer' <= timer
  BY <1>0, <1>1 DEF Elapse
<1>4. Boosting' => Boosting
  BY <1>2 DEF Boosting
<1>5. TypeOK'
  <2>1. boost_deadlines' \in [Sources -> 0..MaxTicks]
    BY <1>1, <1>2
  <2> QED BY <1>1, <1>3, <2>1 DEF Inv, TypeOK, Valid, floorVars, faultVars
<1>6. FloorAllOrNothing' /\ NoBoostWhenForbidden'
  BY <1>1, <1>4 DEF Inv, FloorAllOrNothing, NoBoostWhenForbidden, BoostAllowed, floorVars
<1>7. NeverOversleeps'
  <2> SUFFICES ASSUME worker = "waiting" PROVE NeverOversleeps'
    BY <1>1 DEF NeverOversleeps
  <2>0. /\ \A s \in Sources : boost_deadlines[s] > 0 => timer <= boost_deadlines[s]
        /\ \/ \E n \in StuneNodes : applied[n] # Wanted(n)
           \/ ~cpu_floor_ready
           \/ cpu_floor_fds # {} /\ ~Boosting
           => timer <= RetryTicks
    BY DEF Inv, NeverOversleeps
  <2>r. RetryTicks \in Nat /\ RetryTicks < Never /\ MaxTicks < Never /\ RetryTicks > 0
    BY ConstantsAssumption DEF Never
  <2>1. \A s \in Sources : boost_deadlines'[s] > 0 => timer' <= boost_deadlines'[s]
    <3> SUFFICES ASSUME NEW s \in Sources, boost_deadlines'[s] > 0
                 PROVE  timer' <= boost_deadlines'[s]
      OBVIOUS
    <3>1. /\ boost_deadlines[s] \in 0..MaxTicks /\ boost_deadlines'[s] \in 0..MaxTicks
          /\ boost_deadlines[s] > 0 /\ boost_deadlines'[s] = boost_deadlines[s] - 1
      BY <1>0, <1>2
    <3>2. timer <= boost_deadlines[s] /\ timer # Never
      BY <1>0, <2>0, <2>r, <3>1, ConstantsAssumption
    <3>3. CASE timer = 0
      BY <1>3, <3>1, <3>2, <3>3, <1>0
    <3>4. CASE timer > 0
      BY <1>0, <1>3, <3>1, <3>2, <3>4
    <3> QED BY <1>0, <3>3, <3>4
  <2>2. CASE Boosting /\ ~Boosting'
    <3>1. PICK s \in Sources : boost_deadlines[s] > 0
      BY <2>2 DEF Boosting
    <3>2. boost_deadlines'[s] = 0
      BY <1>2, <2>2 DEF Boosting
    <3>3. timer' <= RetryTicks
      BY <1>0, <1>2, <1>3, <2>0, <2>r, <3>1, <3>2
    <3> QED BY <2>1, <3>3 DEF NeverOversleeps
  <2>3. CASE Boosting' <=> Boosting
    <3>1. \A n \in StuneNodes : Wanted(n)' = Wanted(n)
      BY <1>1, <2>3 DEF Wanted, StuneNodes
    <3>2. timer <= RetryTicks => timer' <= RetryTicks
      BY <1>0, <1>3, <2>r
    <3> QED BY <1>1, <2>0, <2>1, <2>3, <3>1, <3>2 DEF NeverOversleeps, floorVars
  <2> QED BY <1>4, <2>2, <2>3
<1>8. CacheIsTrue' /\ Control'
  BY <1>1 DEF Inv, CacheIsTrue, Control, Wanted, Matching, floorVars, faultVars
<1> QED BY <1>5, <1>6, <1>7, <1>8 DEF Inv

LEMMA LifeStep ==
    ASSUME Inv, Power \/ StopBoost \/ WorkerJoined \/ Killed
    PROVE  Inv'
<1>0. [s \in Sources |-> 0] \in [Sources -> 0..MaxTicks] /\ Never \in 0..Never
  BY ConstantsAssumption DEF Never
<1>1. CASE Power
  <2>1. PICK f \in ConfigFiles : config' = LoadBoostConfigLocked(f)
    BY <1>1 DEF Power
  <2>2. config' \in Config /\ Valid(config)'
    BY <2>1, LoadValid DEF Valid
  <2>3. /\ mode' = FreshMode /\ phase' = "up" /\ worker' = "ready" /\ timer' = Never
        /\ ApplyBoostLocked([s \in Sources |-> 0], GpuNodes \cup {"profile"})
        /\ profile_applied' = ("profile" \notin broken) /\ UNCHANGED faultVars
    BY <1>1 DEF Power
  <2>4. GpuNodes \cup {"profile"} \in SUBSET Nodes
    BY DEF Nodes
  <2>5. profile_applied' => node'["profile"] = Wanted("profile")'
    BY <2>3, ProfileWritten
  <2>6. mode' \in [Modes -> BOOLEAN] /\ profile_applied' \in BOOLEAN
    BY <2>3, FreshTyped
  <2> QED BY <1>0, <2>2, <2>3, <2>4, <2>5, <2>6, ApplyStep
<1>2. CASE StopBoost
  <2>1. /\ phase = "up" /\ phase' = "stopping"
        /\ UNCHANGED <<mode, config, profile_applied, faultVars>>
        /\ ApplyBoostLocked([s \in Sources |-> 0], {})
        /\ NotifyAll
    BY <1>2 DEF StopBoost
  <2>2. worker' \in {"ready", "none", "exited"} /\ timer' \in 0..Never
    BY <2>1 DEF NotifyAll, Inv, TypeOK
  <2>3. profile_applied' => node'["profile"] = Wanted("profile")'
    BY <2>1, ProfileKept
  <2>4. /\ config' \in Config /\ Valid(config)' /\ mode' \in [Modes -> BOOLEAN]
        /\ profile_applied' \in BOOLEAN
    BY <2>1 DEF Inv, TypeOK, Valid
  <2> QED BY <1>0, <2>1, <2>2, <2>3, <2>4, ApplyStep
<1>3. CASE ProcessEnds
  <2>1. TypeOK'
    <3>1. node' \in [Nodes -> Int]
      <4>1. /\ node \in [Nodes -> Int] /\ 0 \in Int
            /\ node' = [node EXCEPT !["top_app"] = IF "top_app" \in broken THEN @ ELSE 0]
        BY <1>3 DEF ProcessEnds, Inv, TypeOK
      <4> QED BY <4>1
    <3>2. Defaults \in Config /\ Valid(Defaults)
      BY ConstantsAssumption
    <3>3. config' \in Config /\ Valid(config)'
      BY <1>3, <3>2 DEF ProcessEnds, Valid
    <3> QED BY <1>0, <1>3, <3>1, <3>3, FreshTyped DEF ProcessEnds, Inv, TypeOK, faultVars
  <2>2. FloorAllOrNothing' /\ NoBoostWhenForbidden' /\ NeverOversleeps'
    BY <1>3 DEF ProcessEnds, FloorAllOrNothing, NoBoostWhenForbidden, NeverOversleeps, Boosting
  <2>3. CacheIsTrue' /\ Control'
    BY <1>3 DEF ProcessEnds, CacheIsTrue, Control, Matching, Inv, faultVars
  <2> QED BY <2>1, <2>2, <2>3 DEF Inv
<1> QED BY <1>1, <1>2, <1>3 DEF WorkerJoined, Killed

LEMMA FaultStep ==
    ASSUME Inv, Break \/ Heal \/ UNCHANGED vars
    PROVE  Inv'
<1>1. UNCHANGED <<phase, mode, config, boost_deadlines, floorVars, applied,
                  profile_applied, workerVars, node>>
  BY DEF Break, Heal, vars
<1>2. broken' \subseteq Nodes \cup Clusters /\ breaks' \in 0..MaxBreaks
  BY ConstantsAssumption DEF Break, Heal, vars, faultVars, Inv, TypeOK
<1>3. TypeOK'
  BY <1>1, <1>2 DEF Inv, TypeOK, Valid, workerVars, floorVars
<1>4. FloorAllOrNothing' /\ NoBoostWhenForbidden'
  BY <1>1 DEF Inv, FloorAllOrNothing, NoBoostWhenForbidden, BoostAllowed, Boosting, floorVars
<1>5. NeverOversleeps'
  BY <1>1 DEF Inv, NeverOversleeps, Boosting, Wanted, workerVars, floorVars
<1>6. CacheIsTrue'
  BY <1>1 DEF Inv, CacheIsTrue, Wanted
<1>7. Control'
  <2>1. breaks' = 0 => broken' = {}
    BY ConstantsAssumption DEF Break, Heal, vars, faultVars, Inv, TypeOK, Control
  <2> QED BY <1>1, <2>1 DEF Inv, Control, Matching, workerVars, floorVars
<1> QED BY <1>3, <1>4, <1>5, <1>6, <1>7 DEF Inv

THEOREM Inductive == Spec => []Inv
<1>1. Inv /\ [Next]_vars => Inv'
  BY CallStep, WorkerStep, TickStep, LifeStep, FaultStep DEF Next
<1> QED BY InvInit, <1>1, PTL DEF Spec

-----------------------------------------------------------------------------
(* The theorems. *)

\* Whatever the configuration file and the callers say, boosts stay in range
\* and no deadline is further away than 2000 ms.
THEOREM TypeCorrect == Spec => []TypeOK
<1>1. Inv => TypeOK
  BY DEF Inv
<1> QED BY <1>1, Inductive, PTL

\* Whichever open() or write() of the loop over the clusters fails, and in
\* whichever round: ApplyCpuFloorLocked leaves both floors or none, the kernel
\* holds no request without a descriptor, none outlives the process, and a
\* boost without its floor is marked for the worker's retry.
THEOREM FloorAtomic == Spec => []FloorAllOrNothing
<1>1. Inv => FloorAllOrNothing
  BY DEF Inv
<1> QED BY <1>1, Inductive, PTL

\* Screen off, low power and sustained performance end every boost at once.
THEOREM ModesEndBoosts == Spec => []NoBoostWhenForbidden
<1>1. Inv => NoBoostWhenForbidden
  BY DEF Inv
<1> QED BY <1>1, Inductive, PTL

\* There is no lost wake-up: BoostWorker never sleeps past a deadline or past
\* the retry of a write that failed.
THEOREM NoLostWakeup == Spec => []NeverOversleeps
<1>1. Inv => NeverOversleeps
  BY DEF Inv
<1> QED BY <1>1, Inductive, PTL

\* The cached value that lets a write be skipped is the value of the node.
THEOREM CacheSound == Spec => []CacheIsTrue
<1>1. Inv => CacheIsTrue
  BY DEF Inv
<1> QED BY <1>1, Inductive, PTL

-----------------------------------------------------------------------------
(* GPU limits and power profile while no write fails. *)

ModeNodes == GpuNodes \cup {"profile"}

\* A node that accepts writes holds what is wanted after it was in scope.
LEMMA ScopeApplied ==
    ASSUME CacheOfNodes, NEW d, NEW scope, ApplyBoostLocked(d, scope),
           NEW n \in ModeNodes, n \notin broken, n \in scope
    PROVE  node'[n] = Wanted(n)'
<1>1. CASE n = "profile"
  BY <1>1 DEF ApplyBoostLocked, WriteNodes, Nodes
<1>2. CASE n \in GpuNodes
  <2>1. Wanted(n)' # None
    BY <1>2 DEF Wanted, GpuNodes, None
  <2>2. n \in Nodes \ {"profile"}
    BY <1>2 DEF Nodes, GpuNodes
  <2>3. applied[n] = Wanted(n)' => node[n] = Wanted(n)'
    BY <2>1, <2>2 DEF CacheOfNodes
  <2> QED BY <2>2, <2>3 DEF ApplyBoostLocked, WriteNodes
<1> QED BY <1>1, <1>2 DEF ModeNodes

\* A node that is neither in scope nor wanted otherwise keeps its value.
LEMMA ScopeKept ==
    ASSUME NEW d, NEW scope, ApplyBoostLocked(d, scope), NEW n \in ModeNodes, n \notin scope,
           node[n] = Wanted(n), Wanted(n)' = Wanted(n)
    PROVE  node'[n] = Wanted(n)'
<1>1. n \in Nodes /\ n \notin scope \cup StuneNodes
  BY DEF ModeNodes, Nodes, GpuNodes, StuneNodes
<1> QED BY <1>1 DEF ApplyBoostLocked, WriteNodes

LEMMA FollowStep ==
    ASSUME Inv, NodesFollowModes, [Next]_vars
    PROVE  NodesFollowModes'
<1> SUFFICES ASSUME phase' = "up", breaks' = 0, NEW n \in ModeNodes
             PROVE  node'[n] = Wanted(n)'
  BY DEF NodesFollowModes, ModeNodes
<1>c. CacheOfNodes
  BY DEF Inv, CacheIsTrue, CacheOfNodes
<1>s. ASSUME UNCHANGED mode PROVE Wanted(n)' = Wanted(n)
  BY <1>s DEF Wanted, ModeNodes, GpuNodes
<1>f. ASSUME phase = "up", breaks = 0 PROVE node[n] = Wanted(n) /\ broken = {}
  BY <1>f DEF NodesFollowModes, ModeNodes, Inv, Control
<1>1. CASE \E type \in Modes, enabled \in BOOLEAN : SetSwitch(type, enabled) /\ setMode
  <2>1. PICK type \in Modes, enabled \in BOOLEAN : SetSwitch(type, enabled) /\ setMode
    BY <1>1
  <2>2. phase = "up" /\ breaks = 0
    BY <2>1 DEF setMode, faultVars
  <2> DEFINE skip == type = "LOW_POWER" /\ mode[type] = enabled /\ profile_applied
             scope == IF skip THEN {} ELSE ScopeOf(type)
  <2>3. mode' = [mode EXCEPT ![type] = enabled] /\ ApplyBoostLocked(boost_deadlines, scope)
    BY <2>1 DEF SetSwitch
  <2>4. CASE n \in scope
    BY <1>c, <1>f, <2>2, <2>3, <2>4, ScopeApplied
  <2>5. CASE n \notin scope
    <3>1. Wanted(n)' = Wanted(n)
      <4>1. CASE skip
        <5>1. mode' = mode
          BY <2>3, <4>1 DEF Inv, TypeOK
        <5> QED BY <1>s, <5>1
      <4>2. CASE ~skip
        BY <2>3, <2>5, <4>2 DEF ScopeOf, Wanted, ModeNodes, GpuNodes, Modes, Inv, TypeOK
      <4> QED BY <4>1, <4>2
    <3> QED BY <1>f, <2>2, <2>3, <2>5, <3>1, ScopeKept
  <2> QED BY <2>4, <2>5
<1>2. CASE (\E enabled \in BOOLEAN : SetLaunch(enabled) /\ setMode) \/ (SetOther /\ setMode)
           \/ setBoost \/ (BoostWorker /\ phase = "up")
  <2>1. PICK d : ApplyBoostLocked(d, {}) /\ UNCHANGED <<phase, mode, breaks>>
    BY <1>2 DEF SetLaunch, SetOther, setMode, setBoost, BoostWorker, RequestBoostLocked, faultVars
  <2> QED BY <1>f, <1>s, <2>1, ScopeKept
<1>3. CASE Power
  <2>1. ApplyBoostLocked([s \in Sources |-> 0], ModeNodes) /\ UNCHANGED faultVars
    BY <1>3 DEF Power, ModeNodes
  <2>2. broken = {}
    BY <2>1 DEF Inv, Control, faultVars
  <2> QED BY <1>c, <2>1, <2>2, ScopeApplied
<1>4. CASE \/ BoostWorker /\ phase # "up"
           \/ TimerWakes \/ SpuriousWake \/ Tick \/ Break \/ Heal \/ UNCHANGED vars
  <2>1. UNCHANGED <<phase, mode, node>> /\ breaks = 0
    BY <1>4, ConstantsAssumption DEF BoostWorker, TimerWakes, SpuriousWake, Tick, Break, Heal,
                                     vars, faultVars, Inv, TypeOK
  <2> QED BY <1>f, <1>s, <2>1
<1>5. CASE StopBoost \/ WorkerJoined \/ Killed
  BY <1>5 DEF StopBoost, WorkerJoined, Killed, ProcessEnds
<1> QED BY <1>1, <1>2, <1>3, <1>4, <1>5 DEF Next, setMode

\* As long as no node has refused a write, the GPU limits and the power profile
\* are those of the current modes after every call.
THEOREM ModesApplied == Spec => []NodesFollowModes
<1>1. Init => NodesFollowModes
  BY DEF Init, NodesFollowModes
<1>2. Inv /\ NodesFollowModes /\ [Next]_vars => NodesFollowModes'
  BY FollowStep
<1> QED BY <1>1, <1>2, Inductive, PTL DEF Spec
=============================================================================
