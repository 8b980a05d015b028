----------------------------- MODULE GpsVendor -----------------------------
(***************************************************************************)
(* The sensor client of the legacy gpsd, gps/vendor/GpsVendor.cpp: the     *)
(* SensorManager that connects to the framework's sensor service, and the  *)
(* SensorEventQueue into which a binder thread puts samples and from which *)
(* gpsd reads them after poll() has found the queue's eventfd readable.    *)
(*                                                                         *)
(* SensorManager's calls hold its mutex from start to end and are one      *)
(* action each.  The queue's critical sections are split where they touch  *)
(* the eventfd, because poll() looks at it without the mutex.  A sample is *)
(* its number in the order in which the service sent it to this queue.     *)
(***************************************************************************)
EXTENDS Integers, Sequences, FiniteSets

CONSTANTS
    Capacity,       \* 1024
    ReadCounts,     \* count arguments of read(); 0 is refused at once
    SensorList,     \* what the service answers to getSensorList
    PeriodsUs,      \* ns / 1000 of the arguments of setEventRate
    MaxInt,         \* INT32_MAX
    DefaultPeriod,  \* 200000 us, of enableSensor
    MaxSamples      \* bound on the samples sent to one queue

ASSUME ConstantsAssumption ==
    /\ Capacity \in Nat /\ Capacity > 1
    /\ ReadCounts \subseteq Nat \ {0}
    /\ SensorList \in Seq(Nat)
    /\ PeriodsUs \subseteq Int
    /\ MaxInt \in Nat /\ DefaultPeriod \in 0..MaxInt
    /\ MaxSamples \in Nat

Off == -1           \* the service has no subscription of this queue

VARIABLES
    service,        \* external: the sensor service is up
    mManager,       \* "null", or the connection is "live" or "dead"
    mSensors,       \* the sensors gpsd gets pointers to
    handed,         \* gpsd holds mSensors.data()
    gpsd_ref,       \* gpsd's strong reference to the queue
    fd_open,        \* the queue exists: its destructor has not closed mFd
    mRemote,        \* "null", or the event queue of the service is "live" or "dead"
    period,         \* external: the period the service samples at, or Off
    mLock,          \* who holds the queue's mutex: "free", "enqueue" or "read"
    mEvents,
    counter,        \* kernel: the eventfd's counter
    callback,       \* the binder thread in onEvent: "idle", "promoted", "signal", "return"
    incoming,       \* the sample it carries
    sent,           \* samples the service has sent to this queue
    reader,         \* gpsd's thread: "poll", "read", "drain"
    received        \* the last sample gpsd has got

managerVars == <<service, mManager, mSensors, handed>>
objectVars  == <<gpsd_ref, fd_open, mRemote, period>>
queueVars   == <<mLock, mEvents, counter>>
threadVars  == <<callback, incoming, sent, reader, received>>
vars == <<managerVars, objectVars, queueVars, threadVars>>

-----------------------------------------------------------------------------
(* The sensor service (external). *)

ServiceStarts ==
    /\ ~service
    /\ service' = TRUE
    /\ UNCHANGED <<mManager, mSensors, handed, objectVars, queueVars, threadVars>>

\* A proxy of a service that has died stays dead when the service returns.
ServiceDies ==
    /\ service
    /\ service' = FALSE
    /\ mManager' = (IF mManager = "live" THEN "dead" ELSE mManager)
    /\ mRemote' = (IF mRemote = "live" THEN "dead" ELSE mRemote)
    /\ period' = Off
    /\ UNCHANGED <<mSensors, handed, gpsd_ref, fd_open, queueVars, threadVars>>

-----------------------------------------------------------------------------
(* SensorManager. *)

\* Mutant: an established connection is not remembered.
ConnectAgain ==
    /\ service
    /\ mSensors' = mSensors \o SensorList
    /\ mManager' = "live"

\* connect() succeeds: it is connected already, or getService() has waited for
\* the service and the service has answered.
ConnectOk ==
    \/ mManager # "null" /\ UNCHANGED <<mManager, mSensors>>
    \/ /\ mManager = "null" /\ service
       /\ mSensors' = mSensors \o SensorList
       /\ mManager' = "live"

\* connect() fails: there is no service, no answer or an error.
ConnectFails == mManager = "null" /\ UNCHANGED <<mManager, mSensors>>

getSensorList ==
    /\ \/ ConnectOk /\ handed' = TRUE
       \/ ConnectFails /\ UNCHANGED handed
    /\ UNCHANGED <<service, objectVars, queueVars, threadVars>>

\* The answer points into mSensors, or is null.
getDefaultSensor ==
    /\ ConnectOk \/ ConnectFails
    /\ UNCHANGED <<service, handed, objectVars, queueVars, threadVars>>

\* SensorEventQueue::initialize: an eventfd, and a queue of the service that
\* knows the callback.
initialize ==
    /\ gpsd_ref' = TRUE /\ fd_open' = TRUE
    /\ mRemote' = "live" /\ period' = Off
    /\ mEvents' = <<>> /\ counter' = 0
    /\ incoming' = 0 /\ sent' = 0 /\ received' = 0
    /\ UNCHANGED <<mLock, callback, reader>>

\* gpsd has one queue at a time; a queue that cannot be initialized is dropped.
createEventQueue ==
    /\ ~fd_open
    /\ \/ ConnectOk /\ mManager' = "live" /\ initialize
       \/ (ConnectOk \/ ConnectFails) /\ UNCHANGED <<objectVars, queueVars, threadVars>>
    /\ UNCHANGED <<service, handed>>

-----------------------------------------------------------------------------
(* SensorEventQueue: subscriptions. *)

\* enableSensor on the remote queue; a dead one answers DEAD_OBJECT.
Subscribe(us) ==
    /\ gpsd_ref /\ handed /\ mRemote # "null"
    /\ period' = IF mRemote = "live" THEN us ELSE period
    /\ UNCHANGED <<managerVars, gpsd_ref, fd_open, mRemote, queueVars, threadVars>>

enableSensor == Subscribe(DefaultPeriod)
disableSensor == Subscribe(Off)

\* The check of setEventRate: the period must fit an int32_t.
PeriodFits(us) == us >= 0 /\ us <= MaxInt

setEventRate == \E us \in PeriodsUs : PeriodFits(us) /\ Subscribe(us)

-----------------------------------------------------------------------------
(* The binder thread: onEvent and enqueue. *)

\* The strong references of the queue are gone: ~SensorEventQueue.
Destroy ==
    /\ fd_open' = FALSE /\ mRemote' = "null" /\ period' = Off
    /\ mEvents' = <<>> /\ counter' = 0
    /\ UNCHANGED mLock

\* onEvent: the weak reference is promoted only while the queue exists.  The
\* service may still send what it sampled before it was told to stop.
onEvent ==
    /\ mRemote = "live" /\ callback = "idle" /\ gpsd_ref
    /\ sent < MaxSamples
    /\ sent' = sent + 1 /\ incoming' = sent + 1
    /\ callback' = "promoted"
    /\ UNCHANGED <<managerVars, objectVars, queueVars, reader, received>>

\* Mutant: the newest sample gives way.
DropNewest(q) == IF Len(q) = Capacity THEN SubSeq(q, 1, Capacity - 1) ELSE q

\* Room for one more: the oldest sample gives way.
MakeRoom(q) == IF Len(q) = Capacity THEN Tail(q) ELSE q

\* The new sample is in the queue; only the first one of an empty queue is
\* signalled, before the mutex is released.
enqueue ==
    /\ callback = "promoted" /\ mLock = "free"
    /\ LET q == MakeRoom(mEvents)
       IN  /\ mEvents' = Append(q, incoming)
           /\ mLock' = IF q = <<>> THEN "enqueue" ELSE "free"
           /\ callback' = IF q = <<>> THEN "signal" ELSE "return"
    /\ UNCHANGED <<managerVars, objectVars, counter, incoming, sent, reader, received>>

\* The write to the eventfd.
Signal ==
    /\ callback = "signal"
    /\ counter' = counter + 1
    /\ mLock' = "free"
    /\ callback' = "return"
    /\ UNCHANGED <<managerVars, objectVars, mEvents, incoming, sent, reader, received>>

\* The promoted reference goes out of scope; it may be the last one.
onEventReturns ==
    /\ callback = "return"
    /\ callback' = "idle"
    /\ IF gpsd_ref THEN UNCHANGED <<fd_open, mRemote, period, queueVars>> ELSE Destroy
    /\ UNCHANGED <<managerVars, gpsd_ref, incoming, sent, reader, received>>

-----------------------------------------------------------------------------
(* gpsd's thread (external but for read): poll(), read(), and the end. *)

PollReadable ==
    /\ gpsd_ref /\ reader = "poll" /\ counter > 0
    /\ reader' = "read"
    /\ UNCHANGED <<managerVars, objectVars, queueVars, callback, incoming, sent, received>>

\* gpsd reads although its poll() has not found anything.
PollTimesOut ==
    /\ gpsd_ref /\ reader = "poll" /\ counter = 0
    /\ reader' = "read"
    /\ UNCHANGED <<managerVars, objectVars, queueVars, callback, incoming, sent, received>>

\* Mutant: the eventfd is cleared by every read.
MustDrainAlways(rest) == TRUE

\* The eventfd is cleared by the read that leaves the queue empty.
MustDrain(rest) == rest = <<>>

read ==
    /\ reader = "read" /\ mLock = "free"
    /\ \E count \in ReadCounts :
         LET n == IF count < Len(mEvents) THEN count ELSE Len(mEvents)
             rest == SubSeq(mEvents, n + 1, Len(mEvents))
         IN  /\ received' = IF n = 0 THEN received ELSE mEvents[n]
             /\ mEvents' = rest
             /\ mLock' = IF MustDrain(rest) THEN "read" ELSE "free"
             /\ reader' = IF MustDrain(rest) THEN "drain" ELSE "poll"
    /\ UNCHANGED <<managerVars, objectVars, counter, callback, incoming, sent>>

\* The read of the eventfd, which does not block.
Drain ==
    /\ reader = "drain"
    /\ counter' = 0
    /\ mLock' = "free"
    /\ reader' = "poll"
    /\ UNCHANGED <<managerVars, objectVars, mEvents, callback, incoming, sent, received>>

\* Mutant: the queue goes although the callback still uses it.
ReleaseAtOnce == Destroy

\* The queue goes with the last strong reference.
Release == IF callback = "idle" THEN Destroy ELSE UNCHANGED <<fd_open, mRemote, period, queueVars>>

DropQueue ==
    /\ gpsd_ref /\ reader = "poll"
    /\ gpsd_ref' = FALSE
    /\ Release
    /\ UNCHANGED <<managerVars, threadVars>>

-----------------------------------------------------------------------------
Init ==
    /\ service = FALSE /\ mManager = "null" /\ mSensors = <<>> /\ handed = FALSE
    /\ gpsd_ref = FALSE /\ fd_open = FALSE /\ mRemote = "null" /\ period = Off
    /\ mLock = "free" /\ mEvents = <<>> /\ counter = 0
    /\ callback = "idle" /\ incoming = 0 /\ sent = 0
    /\ reader = "poll" /\ received = 0

Next ==
    \/ ServiceStarts \/ ServiceDies
    \/ getSensorList \/ getDefaultSensor \/ createEventQueue
    \/ enableSensor \/ disableSensor \/ setEventRate
    \/ onEvent \/ enqueue \/ Signal \/ onEventReturns
    \/ PollReadable \/ PollTimesOut \/ read \/ Drain \/ DropQueue

Spec == Init /\ [][Next]_vars

\* Threads that can run do, and gpsd polls again and reads what poll() found.
Fairness ==
    /\ WF_vars(enqueue) /\ WF_vars(Signal) /\ WF_vars(onEventReturns)
    /\ WF_vars(PollReadable) /\ WF_vars(read) /\ WF_vars(Drain)

FairSpec == Spec /\ Fairness

-----------------------------------------------------------------------------
(* Properties. *)

\* Every variable has its type; the queue never outgrows its capacity (line
\* 129), and the period sent to the service fits an int32_t (line 162).
TypeOK ==
    /\ service \in BOOLEAN /\ handed \in BOOLEAN
    /\ mManager \in {"null", "live", "dead"} /\ mRemote \in {"null", "live", "dead"}
    /\ mSensors \in Seq(Nat)
    /\ gpsd_ref \in BOOLEAN /\ fd_open \in BOOLEAN
    /\ period \in {Off} \cup 0..MaxInt
    /\ mLock \in {"free", "enqueue", "read"}
    /\ mEvents \in Seq(Nat) /\ Len(mEvents) <= Capacity
    /\ counter \in Nat
    /\ callback \in {"idle", "promoted", "signal", "return"}
    /\ incoming \in Nat /\ sent \in 0..MaxSamples
    /\ reader \in {"poll", "read", "drain"} /\ received \in Nat

\* Whenever the mutex is free the eventfd is readable exactly if a sample is
\* waiting: a poll() neither sleeps beside a sample nor spins on an empty
\* queue, also when samples were displaced meanwhile (lines 130-137, 147-150).
ReadableIffWaiting == mLock = "free" => (counter > 0 <=> mEvents # <<>>)

\* The samples put into the queue so far.
Enqueued == IF callback = "promoted" THEN sent - 1 ELSE sent

\* The queue holds the most recent samples gpsd has not read, in order: all of
\* them, or as many as fit.  Hence gpsd gets none twice or after a newer one,
\* and loses one only to the bound ("Retain recent samples", lines 128-129).
RecentInOrder ==
    fd_open =>
        LET unread == Enqueued - received
        IN  /\ Len(mEvents) = IF unread < Capacity THEN unread ELSE Capacity
            /\ \A i \in 1..Len(mEvents) : mEvents[i] = Enqueued - Len(mEvents) + i

\* The queue, and with it the eventfd, outlives every use: the callback that
\* runs while gpsd drops its reference (lines 102-105).
QueueOutlivesUse == callback # "idle" \/ reader # "poll" => fd_open

\* The array handed to gpsd is never moved or changed, however often a
\* connection was tried before or is used again (lines 186-212).
ListStable == [][handed => mSensors' = mSensors]_vars

\* A waiting sample does not wait for ever: gpsd gets it, or newer ones or the
\* end of the queue displace it.
SamplesLeave == \A n \in 1..MaxSamples :
    (\E i \in DOMAIN mEvents : mEvents[i] = n) ~> (\A i \in DOMAIN mEvents : mEvents[i] # n)
=============================================================================
