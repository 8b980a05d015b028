------------------------------ MODULE PowerHal ------------------------------
(***************************************************************************)
(* The power HAL, power/Power.cpp: binder calls switch modes and ask for   *)
(* short boosts, a worker thread ends the boosts and retries failed        *)
(* writes, and both apply the result to the kernel under one mutex.        *)
(*                                                                         *)
(* Every call, and every round of the worker from its wake-up to its next  *)
(* wait, is one critical section of lock_, hence one action.  Time is a    *)
(* count of ticks: a deadline is the number of ticks that remain, and 0    *)
(* stands for a deadline that has passed or was never set (the code resets *)
(* a passed one to time_point{} before it looks at it).  Writes to a node  *)
(* fail while the environment has the node in broken.                      *)
(***************************************************************************)
EXTENDS Integers, FiniteSets

CONSTANTS
    MaxTicks,       \* 2000 ms: the longest boost
    MinTicks,       \* 40 ms: the shortest default duration
    RetryTicks,     \* 100 ms
    BoostLimit,     \* 50: the largest schedtune value
    Requests,       \* duration_ms arguments of setBoost
    ConfigFiles,    \* contents m86-schedtune.conf may have; NoFile is none
    NoFile,
    Defaults,       \* the member initialisers of Power.h
    FaultSets,      \* sets of nodes that may fail together
    MaxBreaks       \* bound on the number of times nodes break

Sources    == 0..2      \* INTERACTION, DISPLAY_UPDATE_IMMINENT, LAUNCH
Clusters   == {"cluster0", "cluster1"}
GpuNodes   == {"gpu_min", "gpu_max"}
StuneNodes == {"top_app", "foreground"}
Nodes      == GpuNodes \cup StuneNodes \cup {"profile"}
Modes      == {"LOW_POWER", "SUSTAINED_PERFORMANCE", "EXPENSIVE_RENDERING", "INTERACTIVE",
               "DISPLAY_INACTIVE"}

Config == [foreground : Int, base : Int, active : Int, ticks : [Sources -> Int]]

\* The checks of LoadBoostConfigLocked.
Valid(f) ==
    /\ f.foreground \in 0..BoostLimit /\ f.base \in 0..BoostLimit
    /\ f.active >= f.base /\ f.active <= BoostLimit
    /\ \A s \in Sources : f.ticks[s] \in MinTicks..MaxTicks

ASSUME ConstantsAssumption ==
    /\ MaxTicks \in Nat /\ MinTicks \in Nat /\ RetryTicks \in Nat /\ BoostLimit \in Nat
    /\ RetryTicks > 0 /\ RetryTicks <= MaxTicks /\ MinTicks > 0
    /\ Requests \subseteq Int
    /\ ConfigFiles \subseteq Config \cup {NoFile}
    /\ ConfigFiles # {} /\ NoFile \notin Config
    /\ Defaults \in Config /\ Valid(Defaults)
    /\ FaultSets \subseteq SUBSET (Nodes \cup Clusters)
    /\ MaxBreaks \in Nat

Never == MaxTicks + 1   \* time_point::max(): wait without a timeout
None  == -1             \* applied_boost_ == -1, applied_gpu_floor_ == nullptr

VARIABLES
    phase,            \* "down": no process, "up", "stopping": ~Power() is in join()
    mode,             \* interactive_, display_inactive_, low_power_, ...
    config,           \* foreground_boost_, base_boost_, active_boost_, default durations
    boost_deadlines,
    cpu_floor_fds,    \* the clusters whose PM QoS request is held
    cpu_floor_ready,
    qos,              \* kernel: open PM QoS requests of each cluster (external)
    applied,          \* applied_boost_, applied_foreground_, applied_gpu_floor_/ceiling_
    profile_applied,
    worker,           \* "none", "ready": awake or about to be, "waiting", "exited"
    timer,            \* the ticks until wait_until returns, or Never
    node,             \* kernel: the value each node holds (external)
    broken,           \* kernel: the nodes that refuse a write (external)
    breaks

floorVars  == <<cpu_floor_fds, cpu_floor_ready, qos>>
workerVars == <<worker, timer>>
faultVars  == <<broken, breaks>>
vars == <<phase, mode, config, boost_deadlines, floorVars, applied,
          profile_applied, workerVars, node, faultVars>>

-----------------------------------------------------------------------------
(* What the modes ask for. *)

Boosting == \E s \in Sources : boost_deadlines[s] > 0

BoostAllowed ==
    /\ mode["INTERACTIVE"] /\ ~mode["DISPLAY_INACTIVE"]
    /\ ~mode["LOW_POWER"] /\ ~mode["SUSTAINED_PERFORMANCE"]

Wanted(n) ==
    CASE n = "top_app"    -> IF Boosting THEN config.active ELSE config.base
      [] n = "foreground" -> config.foreground
      [] n = "profile"    -> IF mode["LOW_POWER"] THEN 2 ELSE 0
      [] n = "gpu_max"    -> IF mode["LOW_POWER"] \/ mode["SUSTAINED_PERFORMANCE"]
                             THEN 544 ELSE 0
      [] n = "gpu_min"    -> IF /\ mode["INTERACTIVE"] /\ ~mode["DISPLAY_INACTIVE"]
                                /\ mode["EXPENSIVE_RENDERING"]
                             THEN 420 ELSE 0

\* Mutant: a value counts as applied even if the write failed.
WriteAssumed(scope) ==
    /\ node' = [n \in Nodes |-> IF n \in scope \ broken THEN Wanted(n)' ELSE node[n]]
    /\ applied' = [n \in Nodes \ {"profile"} |-> IF n \in scope THEN Wanted(n)' ELSE applied[n]]

\* WriteNode for the nodes of scope whose wanted value is not the one last
\* written; the profile is written whenever it is in scope.
WriteNodes(scope) ==
    /\ node' = [n \in Nodes |->
          IF n \in scope \ broken /\ (n = "profile" \/ applied[n] # Wanted(n)')
          THEN Wanted(n)' ELSE node[n]]
    /\ applied' = [n \in Nodes \ {"profile"} |->
          IF n \in scope \ broken THEN Wanted(n)' ELSE applied[n]]

\* close() of every descriptor in fds: the kernel drops their requests.
Close(requests, fds) ==
    [c \in Clusters |-> IF c \in fds THEN requests[c] - 1 ELSE requests[c]]

\* One round of the loop over the clusters: a held one is passed over, and the
\* first failure ends the loop.  A broken cluster refuses the open, or it opens
\* and refuses the write; then the new descriptor is closed again.
AcquireFloor(loop, c, opens) ==
    LET request == [loop.qos EXCEPT ![c] = @ + 1]
    IN  IF loop.left \/ c \in loop.fds THEN loop
        ELSE IF c \notin broken THEN [loop EXCEPT !.fds = @ \cup {c}, !.qos = request]
        ELSE [loop EXCEPT !.left = TRUE, !.qos = IF opens THEN Close(request, {c}) ELSE @]

\* Mutant: what was acquired before the failure is kept for the next attempt.
RollBackNothing(loop) == loop

\* After the loop: unless both are held, none is.
RollBack(loop) ==
    IF loop.fds = Clusters THEN loop
    ELSE [loop EXCEPT !.fds = {}, !.qos = Close(loop.qos, loop.fds)]

ApplyCpuFloorLocked(active) ==
    LET start == [fds |-> cpu_floor_fds, qos |-> qos, left |-> FALSE]
    IN  \/ /\ ~active
           /\ cpu_floor_fds' = {} /\ qos' = Close(qos, cpu_floor_fds)
           /\ cpu_floor_ready' = TRUE
        \/ /\ active
           /\ \E opens \in BOOLEAN :
                LET end == AcquireFloor(AcquireFloor(start, "cluster0", opens), "cluster1", opens)
                IN  /\ cpu_floor_ready' = (end.fds = Clusters)
                    /\ cpu_floor_fds' = RollBack(end).fds /\ qos' = RollBack(end).qos

\* ApplyBoostLocked on the deadlines d, after the modes have been assigned;
\* the caller's own writes, to scope, come first.
ApplyBoostLocked(d, scope) ==
    /\ boost_deadlines' = IF BoostAllowed' /\ phase' # "stopping" THEN d
                          ELSE [s \in Sources |-> 0]
    /\ ApplyCpuFloorLocked(Boosting')
    /\ WriteNodes(scope \cup StuneNodes)

\* Mutant: nobody is woken.
NotifyNobody == UNCHANGED workerVars

\* boost_cv_.notify_all()
NotifyAll == worker' = (IF worker = "waiting" THEN "ready" ELSE worker) /\ UNCHANGED timer

-----------------------------------------------------------------------------
(* Binder calls. *)

\* Mutant: the request is not capped.
BoostTicksUncapped(source, ticks) == IF ticks = 0 THEN config.ticks[source] ELSE ticks

BoostTicks(source, ticks) ==
    IF ticks = 0 THEN config.ticks[source] ELSE IF ticks < MaxTicks THEN ticks ELSE MaxTicks

\* The deadlines after RequestBoostLocked: a request never shortens a boost,
\* unless it is negative and cancels it.
Requested(source, ticks) ==
    LET until == BoostTicks(source, ticks)
        d == boost_deadlines[source]
    IN  [boost_deadlines EXCEPT ![source] =
           IF ticks < 0 THEN 0
           ELSE IF BoostAllowed /\ until > d THEN until
           ELSE d]

RequestBoostLocked(source, ticks) ==
    /\ ApplyBoostLocked(Requested(source, ticks), {})
    /\ NotifyAll

setBoost ==
    /\ phase = "up"
    /\ UNCHANGED <<phase, mode, config, profile_applied, faultVars>>
    /\ \E source \in {0, 1}, ticks \in Requests : RequestBoostLocked(source, ticks)

\* Mutant: the display state does not touch the GPU floor.
ScopeWithoutDisplay(type) ==
    CASE type = "LOW_POWER"             -> GpuNodes \cup {"profile"}
      [] type = "SUSTAINED_PERFORMANCE" -> {"gpu_max"}
      [] type = "EXPENSIVE_RENDERING"   -> {"gpu_min"}
      [] OTHER                          -> {}

\* What the cases of setMode write before they apply the boost.
ScopeOf(type) ==
    CASE type = "LOW_POWER"             -> GpuNodes \cup {"profile"}
      [] type = "SUSTAINED_PERFORMANCE" -> {"gpu_max"}
      [] OTHER                          -> {"gpu_min"}

\* Mutant: setMode returns without applying the boost again.
SetSwitchOnly(type, enabled) ==
    /\ mode' = [mode EXCEPT ![type] = enabled]
    /\ profile_applied' = IF type = "LOW_POWER" THEN "profile" \notin broken ELSE profile_applied
    /\ WriteNodes(ScopeOf(type))
    /\ NotifyAll
    /\ UNCHANGED <<boost_deadlines, floorVars>>

\* The modes that are switches; the power profile is written when it changes
\* or when its last write failed.
SetSwitch(type, enabled) ==
    LET skip == type = "LOW_POWER" /\ mode[type] = enabled /\ profile_applied
        writes == "profile" \in ScopeOf(type) /\ ~skip
    IN  /\ mode' = [mode EXCEPT ![type] = enabled]
        /\ profile_applied' = IF writes THEN "profile" \notin broken ELSE profile_applied
        /\ ApplyBoostLocked(boost_deadlines, IF skip THEN {} ELSE ScopeOf(type))
        /\ NotifyAll

\* Mode::LAUNCH is a boost; RequestBoostLocked and setMode both apply it, and
\* the second time finds nothing to change.
SetLaunch(enabled) ==
    /\ UNCHANGED <<mode, profile_applied>>
    /\ RequestBoostLocked(2, IF enabled THEN config.ticks[2] ELSE -1)

\* A mode the HAL does not know still applies the boost.
SetOther ==
    /\ UNCHANGED <<mode, profile_applied>>
    /\ ApplyBoostLocked(boost_deadlines, {})
    /\ NotifyAll

setMode ==
    /\ phase = "up"
    /\ UNCHANGED <<phase, config, faultVars>>
    /\ \/ \E type \in Modes, enabled \in BOOLEAN : SetSwitch(type, enabled)
       \/ \E enabled \in BOOLEAN : SetLaunch(enabled)
       \/ SetOther

-----------------------------------------------------------------------------
(* The worker and the passage of time. *)

Least(S) == CHOOSE t \in S : \A u \in S : t <= u

\* Mutant: a failed write is not retried.
SleepTicksNoRetry ==
    Least({Never} \cup {boost_deadlines[s] : s \in {r \in Sources : boost_deadlines[r] > 0}})

\* How long the worker may sleep in the state it leaves behind.
SleepTicks ==
    LET pending == {boost_deadlines[s] : s \in {r \in Sources : boost_deadlines[r] > 0}}
        failed == \/ \E n \in StuneNodes : applied[n] # Wanted(n)
                  \/ ~cpu_floor_ready
    IN  Least({Never} \cup pending \cup (IF failed THEN {RetryTicks} ELSE {}))

BoostWorker ==
    /\ worker = "ready"
    /\ UNCHANGED <<phase, mode, config, profile_applied, faultVars>>
    /\ \/ /\ phase = "up"
          /\ ApplyBoostLocked(boost_deadlines, {})
          /\ worker' = "waiting"
          /\ timer' = SleepTicks'
       \/ /\ phase = "stopping"
          /\ worker' = "exited"
          /\ UNCHANGED <<boost_deadlines, floorVars, applied, node, timer>>

\* wait_until times out; a condition variable may also wake for no reason.
TimerWakes ==
    /\ worker = "waiting" /\ timer = 0
    /\ worker' = "ready"
    /\ UNCHANGED <<phase, mode, config, boost_deadlines, floorVars, applied,
                   profile_applied, timer, node, faultVars>>

SpuriousWake ==
    /\ worker = "waiting" /\ timer # 0
    /\ worker' = "ready"
    /\ UNCHANGED <<phase, mode, config, boost_deadlines, floorVars, applied,
                   profile_applied, timer, node, faultVars>>

Elapse(t) == IF t > 0 THEN t - 1 ELSE 0

Tick ==
    /\ phase = "up"
    /\ Boosting \/ timer \in 1..MaxTicks
    /\ boost_deadlines' = [s \in Sources |-> Elapse(boost_deadlines[s])]
    /\ timer' = IF timer = Never THEN Never ELSE Elapse(timer)
    /\ UNCHANGED <<phase, mode, config, floorVars, applied,
                   profile_applied, worker, node, faultVars>>

-----------------------------------------------------------------------------
(* The life of the process. *)

FreshMode == [m \in Modes |-> m = "INTERACTIVE"]

LoadBoostConfigLocked(f) == IF f # NoFile /\ Valid(f) THEN f ELSE Defaults

Power ==
    /\ phase = "down"
    /\ phase' = "up"
    /\ \E f \in ConfigFiles : config' = LoadBoostConfigLocked(f)
    /\ mode' = FreshMode
    /\ ApplyBoostLocked([s \in Sources |-> 0], GpuNodes \cup {"profile"})
    /\ profile_applied' = ("profile" \notin broken)
    /\ worker' = "ready" /\ timer' = Never
    /\ UNCHANGED faultVars

\* ~Power(), first part: no call is inside any more.
StopBoost ==
    /\ phase = "up"
    /\ phase' = "stopping"
    /\ UNCHANGED <<mode, config, profile_applied, faultVars>>
    /\ ApplyBoostLocked([s \in Sources |-> 0], {})
    /\ NotifyAll

\* The process is gone: the kernel drops its PM QoS requests, and init runs
\* the service's onrestart command, which the node may refuse.
ProcessEnds ==
    /\ phase' = "down"
    /\ worker' = "none" /\ timer' = Never
    /\ mode' = FreshMode /\ config' = Defaults
    /\ boost_deadlines' = [s \in Sources |-> 0]
    /\ cpu_floor_fds' = {} /\ cpu_floor_ready' = TRUE /\ qos' = [c \in Clusters |-> 0]
    /\ applied' = [n \in Nodes \ {"profile"} |-> None] /\ profile_applied' = FALSE
    /\ node' = [node EXCEPT !["top_app"] = IF "top_app" \in broken THEN @ ELSE 0]
    /\ UNCHANGED faultVars

\* ~Power(), second part: boost_worker_.join() returns.
WorkerJoined == phase = "stopping" /\ worker = "exited" /\ ProcessEnds

Killed == phase # "down" /\ ProcessEnds

Break ==
    /\ breaks < MaxBreaks
    /\ broken' \in FaultSets
    /\ breaks' = breaks + 1
    /\ UNCHANGED <<phase, mode, config, boost_deadlines, floorVars, applied,
                   profile_applied, workerVars, node>>

Heal ==
    /\ broken # {}
    /\ broken' = {}
    /\ UNCHANGED <<phase, mode, config, boost_deadlines, floorVars, applied,
                   profile_applied, workerVars, node, breaks>>

-----------------------------------------------------------------------------
Init ==
    /\ phase = "down"
    /\ mode = FreshMode /\ config = Defaults
    /\ boost_deadlines = [s \in Sources |-> 0]
    /\ cpu_floor_fds = {} /\ cpu_floor_ready = TRUE /\ qos = [c \in Clusters |-> 0]
    /\ applied = [n \in Nodes \ {"profile"} |-> None] /\ profile_applied = FALSE
    /\ worker = "none" /\ timer = Never
    /\ node = [n \in Nodes |-> 0]
    /\ broken = {} /\ breaks = 0

Next ==
    \/ setMode \/ setBoost
    \/ BoostWorker \/ TimerWakes \/ SpuriousWake \/ Tick
    \/ Power \/ StopBoost \/ WorkerJoined \/ Killed
    \/ Break \/ Heal

Spec == Init /\ [][Next]_vars

\* The worker's thread is scheduled, time passes, init restarts the service,
\* and nodes do not refuse writes for ever.
Fairness ==
    /\ WF_vars(BoostWorker) /\ WF_vars(TimerWakes) /\ WF_vars(Tick)
    /\ WF_vars(Power) /\ WF_vars(WorkerJoined) /\ WF_vars(Heal)

FairSpec == Spec /\ Fairness

-----------------------------------------------------------------------------
(* Properties. *)

\* Every variable has its type; the boosts of the configuration are ordered
\* and in range, and no boost lasts longer than 2000 ms, whatever the
\* configuration file and the callers say (lines 115-118 and 203).
TypeOK ==
    /\ phase \in {"down", "up", "stopping"}
    /\ mode \in [Modes -> BOOLEAN]
    /\ config \in Config /\ Valid(config)
    /\ boost_deadlines \in [Sources -> 0..MaxTicks]
    /\ cpu_floor_fds \subseteq Clusters /\ cpu_floor_ready \in BOOLEAN
    /\ qos \in [Clusters -> Nat]
    /\ applied \in [Nodes \ {"profile"} -> Int] /\ profile_applied \in BOOLEAN
    /\ worker \in {"none", "ready", "waiting", "exited"}
    /\ timer \in 0..Never
    /\ node \in [Nodes -> Int]
    /\ broken \subseteq Nodes \cup Clusters /\ breaks \in 0..MaxBreaks

\* The kernel holds a floor for both clusters or for none, one request each,
\* and exactly the ones whose descriptors the HAL will close: none leaks when
\* an open or a write fails half way (lines 137-165), and none outlives the
\* process.  A boost without its floor is one that the worker will retry.
FloorAllOrNothing ==
    /\ cpu_floor_fds \in {{}, Clusters}
    /\ \A c \in Clusters : qos[c] = IF c \in cpu_floor_fds THEN 1 ELSE 0
    /\ phase # "up" => cpu_floor_fds = {}
    /\ Boosting /\ cpu_floor_fds = {} => ~cpu_floor_ready

\* Neither floor nor boost outlives the mode switch that forbids it: screen
\* off, low power or sustained performance (lines 175-183 and 271).
NoBoostWhenForbidden ==
    phase = "up" /\ ~BoostAllowed => ~Boosting /\ cpu_floor_fds = {}

\* The sleeping worker oversleeps no deadline, and when a boost has ended or a
\* write has failed it wakes within the retry time (lines 215-224): every
\* call that changes what it depends on has woken it.
NeverOversleeps ==
    worker = "waiting" =>
        /\ \A s \in Sources : boost_deadlines[s] > 0 => timer <= boost_deadlines[s]
        /\ \/ \E n \in StuneNodes : applied[n] # Wanted(n)
           \/ ~cpu_floor_ready
           \/ cpu_floor_fds # {} /\ ~Boosting
           => timer <= RetryTicks

\* What the HAL believes a node holds is what it holds, across failed writes
\* and restarts: the test that skips a write can never skip a needed one.
CacheIsTrue ==
    /\ \A n \in Nodes \ {"profile"} : applied[n] # None => node[n] = applied[n]
    /\ phase # "down" /\ profile_applied => node["profile"] = Wanted("profile")

\* While no write has failed, GPU limits and power profile follow the modes.
NodesFollowModes ==
    phase = "up" /\ breaks = 0 => \A n \in GpuNodes \cup {"profile"} : node[n] = Wanted(n)

\* When every boost is over, the baseline and the user's CPU minima come back
\* unless a new boost is asked for, although writes failed and the service was
\* restarted meanwhile.
BaselineRestored ==
    ~Boosting ~> \/ phase = "up" /\ node["top_app"] = config.base /\ cpu_floor_fds = {}
                 \/ Boosting

\* ~Power() returns: the worker always learns that it has to stop.
DestructorReturns == phase = "stopping" ~> phase = "down"
=============================================================================
