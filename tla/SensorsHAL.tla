----------------------------- MODULE SensorsHAL -----------------------------
(***************************************************************************)
(* The poll path of the sensors HAL (sensors/hal/Sensors.cpp) and its      *)
(* conversion of time stamps (sensors/hal/TimestampNormalizer.h).  The     *)
(* light and proximity sensors of the vendor's library stamp their events  *)
(* with CLOCK_REALTIME, which somebody may set at any time; poll() samples *)
(* CLOCK_BOOTTIME and CLOCK_REALTIME around the library's poll, moves the  *)
(* stamps to CLOCK_BOOTTIME and drops those it cannot place.               *)
(*                                                                         *)
(* One unit of time is the half of the longest bracket of a clock sample.  *)
(* The order of the events in a batch, their values, dynamic sensors and   *)
(* the calls that are forwarded as they are (activate, batch, flush,       *)
(* injection, direct channels, operation mode) are left out.               *)
(***************************************************************************)
EXTENDS Integers, FiniteSets

CONSTANTS
    Sensors,            \* <<handle, type>> of the library's sensors
    Offsets,            \* values of REALTIME - BOOTTIME the wall clock is set to
    FirstOffset,        \* and its value at the start
    Ticks,              \* by which time passes
    Skew,               \* error of a clock sample: half of the 1 ms bracket
    Tolerance,          \* 5 ms
    MaxAge,             \* 10 s
    Future,             \* 1 ms
    MaxCounts,          \* what clients pass as maxCount
    kPollMaxBufferSize,
    FirstBoot, MaxBoot, \* BOOTTIME at the start, and its bound
    MaxSteps,           \* bound on the steps of the wall clock
    MaxFaults,          \* bound on failing samples and library calls
    MaxQueue            \* bound on the events the library holds

ASSUME ClockAssumption ==
    /\ {Skew, Tolerance, MaxAge, Future, FirstBoot, MaxBoot} \union Ticks \subseteq Nat
    /\ Offsets \union {FirstOffset} \subseteq Int
    /\ 2 * Skew <= Tolerance /\ Skew < FirstBoot

VARIABLES
    boot, offset,  \* the clocks
    steps, faults, \* how often the wall clock was set, and what failed
    mSensorDevice, \* "closed" or "open"
    queue,         \* events in the library
    pc,            \* where poll() is; from "before" to "after" it has mPollLock
    bufferSize,
    before, after, \* the clock samples
    data,          \* what the library returned
    out,           \* what poll() answers
    lost           \* what the last pass of the loop dropped

clocks == <<boot, offset, steps>>
locals == <<bufferSize, before, after, data>>
vars == <<clocks, faults, mSensorDevice, queue, pc, locals, out, lost>>

\* An event knows when it was really captured (born) and under which setting
\* of the wall clock (at); the code sees sensor and timestamp alone.
Event == [sensor : Sensors, timestamp : Int, born : Nat, at : Nat]
Clocks == [real : Int, offset : Int, valid : BOOLEAN, at : Nat]
NoClocks == [real |-> 0, offset |-> 0, valid |-> FALSE, at |-> 0]
Locked == {"before", "device", "after"}
NoAnswer == [result |-> "none", events |-> {}]

TypeOK ==
    /\ boot \in FirstBoot..MaxBoot /\ offset \in Offsets \union {FirstOffset}
    /\ steps \in 0..MaxSteps /\ faults \in 0..MaxFaults
    /\ mSensorDevice \in {"closed", "open"}
    /\ queue \subseteq Event /\ data \subseteq Event /\ lost \subseteq Event
    /\ pc \in Locked \union {"idle", "answer"}
    /\ bufferSize \in 0..kPollMaxBufferSize
    /\ before \in Clocks /\ after \in Clocks
    /\ out.result \in {"none", "OK", "BAD_VALUE", "INVALID_OPERATION"} /\ out.events \subseteq Event
    /\ mSensorDevice = "closed" => queue = {} /\ pc = "idle"
-----------------------------------------------------------------------------
(* Clocks, sensors and the library, which stamps the events.               *)

Tick ==
    /\ \E t \in Ticks : boot + t <= MaxBoot /\ boot' = boot + t
    /\ UNCHANGED <<offset, steps, faults, mSensorDevice, queue, pc, locals, out, lost>>

SetClock ==
    /\ steps < MaxSteps
    /\ \E o \in Offsets \ {offset} : boot + o >= 0 /\ offset' = o
    /\ steps' = steps + 1
    /\ UNCHANGED <<boot, faults, mSensorDevice, queue, pc, locals, out, lost>>

isLegacyInputSensor(handle, type) ==
    \/ type = 5 /\ handle = 4
    \/ type = 8 /\ handle \in {3, 27}

Legacy(e) == isLegacyInputSensor(e.sensor[1], e.sensor[2])

Capture(s) ==
    /\ mSensorDevice = "open" /\ Cardinality(queue) < MaxQueue
    /\ queue' = queue \union
         {[sensor |-> s, born |-> boot, at |-> steps,
           timestamp |-> IF isLegacyInputSensor(s[1], s[2]) THEN boot + offset ELSE boot]}
    /\ UNCHANGED <<clocks, faults, mSensorDevice, pc, locals, out, lost>>

Fault == faults < MaxFaults /\ faults' = faults + 1
-----------------------------------------------------------------------------
(* sampleClocks(): REALTIME is read exactly, BOOTTIME is the middle of two *)
(* reads around it; three brackets that are too long make no sample.       *)

Sample(c) ==
    \/ /\ \E e \in -Skew..Skew :
             c = [real |-> boot + offset, offset |-> offset + e, valid |-> TRUE, at |-> steps]
       /\ UNCHANGED faults
    \/ c = [real |-> 0, offset |-> 0, valid |-> FALSE, at |-> steps] /\ Fault

\* Mutants: no look at the change; one that allows it in one direction only.
SteadyUnchecked(b, a) == TRUE
SteadyOneSided(b, a) == a.offset - b.offset \in -Tolerance..0

\* A step of the wall clock between the samples is seen in their offsets.
Steady(b, a) == a.offset - b.offset \in -Tolerance..Tolerance

\* normalizeTimestamp(): the stamps it accepts, and what it makes of them.
Accepted(timestamp, b, a) ==
    /\ b.valid /\ a.valid /\ timestamp > 0
    /\ Steady(b, a)
    /\ timestamp \in (a.real - MaxAge)..(a.real + Future)
    /\ timestamp - a.offset > 0

Normalized(timestamp, a) == timestamp - a.offset
-----------------------------------------------------------------------------
(* The service.                                                            *)

\* HIDL_FETCH_ISensors; when the module cannot be loaded or opened the
\* object is deleted again and nothing changes.
FetchSensors ==
    /\ mSensorDevice = "closed"
    /\ mSensorDevice' = "open"
    /\ UNCHANGED <<clocks, faults, queue, pc, locals, out, lost>>

Answer(result, events) ==
    pc' = "answer" /\ out' = [result |-> result, events |-> events]

Poll(maxCount) ==
    /\ mSensorDevice = "open" /\ pc = "idle"
    /\ IF maxCount <= 0
       THEN Answer("BAD_VALUE", {}) /\ UNCHANGED bufferSize
       ELSE /\ bufferSize' = IF maxCount <= kPollMaxBufferSize THEN maxCount ELSE kPollMaxBufferSize
            /\ pc' = "before" /\ UNCHANGED out
    /\ UNCHANGED <<clocks, faults, mSensorDevice, queue, before, after, data, lost>>

\* A second poll() cannot have mPollLock: exit(-1).  The library goes with
\* the process, and so does everything poll() had on its stack.
PollReentered ==
    /\ pc \in Locked
    /\ mSensorDevice' = "closed" /\ queue' = {} /\ pc' = "idle"
    /\ bufferSize' = 0 /\ before' = NoClocks /\ after' = NoClocks
    /\ data' = {} /\ lost' = {} /\ out' = NoAnswer
    /\ UNCHANGED <<clocks, faults>>

SampleBefore ==
    /\ pc = "before" /\ pc' = "device"
    /\ Sample(before') /\ lost' = {} /\ after' = NoClocks
    /\ UNCHANGED <<clocks, mSensorDevice, queue, bufferSize, data, out>>

\* The library blocks until it has events.
DevicePoll ==
    /\ pc = "device" /\ pc' = "after"
    /\ \E batch \in SUBSET queue \ {{}} :
         /\ Cardinality(batch) <= bufferSize
         /\ data' = batch /\ queue' = queue \ batch
    /\ UNCHANGED <<clocks, faults, mSensorDevice, bufferSize, before, after, out, lost>>

\* It may also come back with nothing, an error or more than was asked for.
DevicePollOdd(result) ==
    /\ pc = "device" /\ Fault
    /\ IF result = "nothing"
       THEN pc' = "after" /\ UNCHANGED out
       ELSE Answer(result, {})
    /\ UNCHANGED <<clocks, mSensorDevice, queue, locals, lost>>

\* Mutant: the clocks are sampled once, before the loop.
RepeatUnsampled == "device"

\* do { ... } while (err == 0) samples the clocks again.
Repeat == "before"

\* The second sample and the pass over the batch, which uses nothing shared.
SampleAndFilter ==
    LET kept == {e \in data : Legacy(e) => Accepted(e.timestamp, before, after')}
        moved(e) == IF Legacy(e) THEN [e EXCEPT !.timestamp = Normalized(@, after')] ELSE e
    IN  /\ pc = "after"
        /\ Sample(after')
        /\ IF kept = {} THEN pc' = Repeat /\ UNCHANGED out
                        ELSE Answer("OK", {moved(e) : e \in kept})
        /\ lost' = data \ kept /\ data' = {}
        /\ UNCHANGED <<clocks, mSensorDevice, queue, bufferSize, before>>

\* _hidl_cb; the samples are out of scope.
PollReturns ==
    /\ pc = "answer" /\ pc' = "idle"
    /\ out' = NoAnswer /\ lost' = {}
    /\ bufferSize' = 0 /\ before' = NoClocks /\ after' = NoClocks
    /\ UNCHANGED <<clocks, faults, mSensorDevice, queue, data>>
-----------------------------------------------------------------------------
Init ==
    /\ boot = FirstBoot /\ steps = 0 /\ faults = 0
    /\ offset = FirstOffset
    /\ mSensorDevice = "closed" /\ queue = {} /\ pc = "idle"
    /\ bufferSize = 0 /\ before = NoClocks /\ after = NoClocks /\ data = {}
    /\ out = NoAnswer /\ lost = {}

PollStep == SampleBefore \/ DevicePoll \/ SampleAndFilter \/ PollReturns

Next ==
    \/ Tick \/ SetClock \/ FetchSensors \/ PollReentered
    \/ \E s \in Sensors : Capture(s)
    \/ \E maxCount \in MaxCounts : Poll(maxCount)
    \/ \E result \in {"nothing", "BAD_VALUE", "INVALID_OPERATION"} : DevicePollOdd(result)
    \/ PollStep

Spec == Init /\ [][Next]_vars

\* The thread of a poll is scheduled, a library that has events returns them
\* and time passes.
FairSpec == Spec /\ WF_vars(PollStep) /\ WF_vars(Tick)
-----------------------------------------------------------------------------
Error(e) == IF e.timestamp >= e.born THEN e.timestamp - e.born ELSE e.born - e.timestamp

(* What poll() hands out: an MCU event with the stamp it came with; a      *)
(* light or proximity event with the time of its capture, exact to a clock *)
(* sample's error when the wall clock was not set since, and to the        *)
(* tolerance and that error when it was set once since the first sample of *)
(* the poll.                                                               *)
DeliveredTimesRight ==
    \A e \in out.events :
        /\ ~Legacy(e) => Error(e) = 0
        /\ Legacy(e) /\ e.at = after.at => Error(e) <= Skew
        /\ Legacy(e) /\ e.at >= before.at /\ after.at <= before.at + 1
              => Error(e) <= Tolerance + Skew

(* An event is dropped for a reason: the wall clock was set between its    *)
(* capture, or the first sample, and the second sample; a sample failed;   *)
(* the event is too old; or the wall clock stood at its origin.            *)
DropsJustified ==
    \A e \in lost :
        /\ Legacy(e)
        /\ \/ after.at > e.at \/ after.at > before.at
           \/ ~before.valid \/ ~after.valid
           \/ after.real - e.timestamp > MaxAge
           \/ e.timestamp <= 0

(* The loop in poll() ends: as long as the library keeps finding events,   *)
(* poll() does not stay inside, whatever steps the clock made and whatever *)
(* failed before.                                                          *)
PollComesBack == []<>(queue # {}) => []<>(pc \notin Locked)

(* README.md of the HAL: the filter loses ambiguous samples "rather than   *)
(* reporting a fabricated capture time".                                   *)
CaptureTimeKept ==
    \A e \in out.events : Error(e) <= Tolerance + Skew
=============================================================================
