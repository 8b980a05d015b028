-------------------------- MODULE GpsVendorProofs --------------------------
(***************************************************************************)
(* Proofs about GpsVendor, for every capacity and every number of samples. *)
(***************************************************************************)
EXTENDS GpsVendor, SequenceTheorems, TLAPS

-----------------------------------------------------------------------------
(* Sequences of samples. *)

\* A full queue gives up its oldest sample, any other one nothing (line 129).
LEMMA MakeRoomProperties ==
    ASSUME NEW q \in Seq(Nat), Len(q) <= Capacity
    PROVE  LET r == MakeRoom(q)
               d == Len(q) - Len(r)
           IN  /\ r \in Seq(Nat)
               /\ Len(r) < Capacity
               /\ d = IF Len(q) = Capacity THEN 1 ELSE 0
               /\ \A i \in 1..Len(r) : r[i] = q[i + d]
  <1>1. Capacity \in Nat /\ Capacity > 1
    BY ConstantsAssumption
  <1>2. CASE Len(q) = Capacity
    <2>1. q # <<>>
      BY <1>1, <1>2
    <2>2. /\ Tail(q) \in Seq(Nat) /\ Len(Tail(q)) = Len(q) - 1
          /\ \A i \in 1..Len(Tail(q)) : Tail(q)[i] = q[i + 1]
      BY <2>1
    <2>3. MakeRoom(q) = Tail(q)
      BY <1>2 DEF MakeRoom
    <2>. QED  BY <1>1, <1>2, <2>2, <2>3
  <1>3. CASE Len(q) # Capacity
    <2>1. MakeRoom(q) = q /\ Len(q) \in Nat
      BY <1>3 DEF MakeRoom
    <2>2. \A i \in 1..Len(q) : i + 0 = i
      OBVIOUS
    <2>. QED  BY <1>1, <1>3, <2>1, <2>2
  <1>. QED  BY <1>2, <1>3

\* read() leaves the samples after the n-th.
LEMMA RestProperties ==
    ASSUME NEW q \in Seq(Nat), NEW n \in 0..Len(q)
    PROVE  LET rest == SubSeq(q, n + 1, Len(q))
           IN  /\ rest \in Seq(Nat)
               /\ Len(rest) = Len(q) - n
               /\ \A i \in 1..Len(rest) : rest[i] = q[n + i]
  <1>. DEFINE rest == SubSeq(q, n + 1, Len(q))
  <1>1. Len(q) \in Nat /\ n \in Nat /\ n <= Len(q) /\ n + 1 \in Int
    OBVIOUS
  <1>2. \A i \in (n + 1)..Len(q) : q[i] \in Nat
    BY <1>1
  <1>3. /\ rest \in Seq(Nat)
        /\ Len(rest) = IF n + 1 <= Len(q) THEN Len(q) - (n + 1) + 1 ELSE 0
        /\ \A i \in 1..Len(q) - (n + 1) + 1 : rest[i] = q[(n + 1) + i - 1]
    BY <1>1, <1>2, SubSeqProperties
  <1>4. Len(rest) = Len(q) - n
    BY <1>1, <1>3
  <1>5. ASSUME NEW i \in 1..Len(rest) PROVE rest[i] = q[n + i]
    <2>1. i \in 1..Len(q) - (n + 1) + 1 /\ (n + 1) + i - 1 = n + i
      BY <1>1, <1>4
    <2>. QED  BY <1>3, <2>1
  <1>. QED  BY <1>3, <1>4, <1>5

-----------------------------------------------------------------------------
(* The inductive invariant. *)

\* The mutex is held exactly by the thread that touches the eventfd next.
LockInv ==
    /\ mLock = "enqueue" <=> callback = "signal"
    /\ mLock = "read" <=> reader = "drain"

\* The queue exists exactly while somebody refers to it, and is empty memory
\* when it does not.
LifeInv ==
    /\ fd_open <=> gpsd_ref \/ callback # "idle"
    /\ ~gpsd_ref => reader = "poll"
    /\ ~fd_open => mEvents = <<>> /\ counter = 0 /\ mRemote = "null"

\* In a critical section the eventfd is about to catch up with the queue.
SignalInv ==
    /\ mLock = "free" => (counter > 0 <=> mEvents # <<>>)
    /\ mLock = "enqueue" => mEvents # <<>>
    /\ mLock = "read" => mEvents = <<>>

\* What the callback carries is the newest sample.
NumberInv ==
    /\ received <= Enqueued
    /\ callback = "promoted" => incoming = sent /\ sent > 0
    /\ RecentInOrder

ListInv == handed => mManager # "null"

Inv == TypeOK /\ LockInv /\ LifeInv /\ SignalInv /\ NumberInv /\ ListInv

LEMMA InitInv == Init => Inv
  <1>. SUFFICES ASSUME Init PROVE Inv
    OBVIOUS
  <1>1. TypeOK
    <2>1. <<>> \in Seq(Nat) /\ Len(<<>>) = 0
      BY EmptySeq
    <2>2. service \in BOOLEAN /\ handed \in BOOLEAN /\ gpsd_ref \in BOOLEAN /\ fd_open \in BOOLEAN
      BY DEF Init
    <2>3. period \in {Off} \cup 0..MaxInt
      BY DEF Init
    <2>4. Capacity \in Nat /\ MaxSamples \in Nat
      BY ConstantsAssumption
    <2>. QED  BY <2>1, <2>2, <2>3, <2>4 DEF Init, TypeOK
  <1>2. LockInv /\ LifeInv /\ SignalInv /\ ListInv
    BY DEF Init, LockInv, LifeInv, SignalInv, ListInv
  <1>3. NumberInv
    BY DEF Init, NumberInv, RecentInOrder, Enqueued
  <1>. QED  BY <1>1, <1>2, <1>3 DEF Inv

USE DEF Off

-----------------------------------------------------------------------------
(* The actions that leave the queue's content alone. *)

\* What depends on the queue and its two threads only.
LEMMA QueueKept ==
    ASSUME Inv, UNCHANGED <<gpsd_ref, fd_open, queueVars, threadVars>>,
           mRemote = "null" => mRemote' = "null"
    PROVE  LockInv' /\ LifeInv' /\ SignalInv' /\ NumberInv'
  BY DEF Inv, LockInv, LifeInv, SignalInv, NumberInv, RecentInOrder, Enqueued, queueVars,
     threadVars

\* connect(), whatever its outcome.
LEMMA ConnectTypes ==
    ASSUME Inv, ConnectOk \/ ConnectFails
    PROVE  /\ mManager' \in {"null", "live", "dead"} /\ mSensors' \in Seq(Nat)
           /\ mManager # "null" => mManager' # "null"
           /\ ConnectOk => mManager' # "null"
  <1>1. mSensors \o SensorList \in Seq(Nat)
    BY ConstantsAssumption DEF Inv, TypeOK
  <1>. QED  BY <1>1 DEF Inv, TypeOK, ConnectOk, ConnectFails

LEMMA ManagerStep ==
    ASSUME Inv,
           ServiceStarts \/ ServiceDies \/ getSensorList \/ getDefaultSensor
    PROVE  Inv'
  <1>1. /\ LockInv' /\ LifeInv' /\ SignalInv' /\ NumberInv'
    BY QueueKept DEF ServiceStarts, ServiceDies, getSensorList, getDefaultSensor, objectVars
  <1>2. TypeOK'
    <2>. USE DEF Inv, TypeOK, objectVars, queueVars, threadVars
    <2>1. CASE ServiceStarts
      BY <2>1 DEF ServiceStarts
    <2>2. CASE ServiceDies
      BY <2>2 DEF ServiceDies
    <2>3. CASE getSensorList
      <3>1. handed' \in BOOLEAN /\ (ConnectOk \/ ConnectFails)
        BY <2>3 DEF getSensorList
      <3>. QED  BY <2>3, <3>1, ConnectTypes DEF getSensorList
    <2>4. CASE getDefaultSensor
      BY <2>4, ConnectTypes DEF getDefaultSensor
    <2>. QED  BY <2>1, <2>2, <2>3, <2>4
  <1>3. ListInv'
    BY ConnectTypes DEF Inv, ListInv, ServiceStarts, ServiceDies, getSensorList,
       getDefaultSensor
  <1>. QED  BY <1>1, <1>2, <1>3 DEF Inv

LEMMA CreateStep ==
    ASSUME Inv, createEventQueue
    PROVE  Inv'
  <1>0. ListInv'
    BY ConnectTypes DEF Inv, ListInv, createEventQueue
  <1>1. CASE ConnectOk /\ mManager' = "live" /\ initialize
    <2>1. TypeOK'
      <3>1. <<>> \in Seq(Nat) /\ Len(<<>>) = 0
        BY EmptySeq
      <3>. QED  BY <1>1, <3>1, ConnectTypes, ConstantsAssumption
                DEF Inv, TypeOK, createEventQueue, initialize
    <2>2. callback = "idle" /\ mLock = "free" /\ reader = "poll"
      BY DEF Inv, LifeInv, LockInv, TypeOK, createEventQueue
    <2>3. LockInv' /\ LifeInv' /\ SignalInv'
      BY <1>1, <2>2 DEF initialize, LockInv, LifeInv, SignalInv
    <2>4. NumberInv'
      <3>1. Len(<<>>) = 0 /\ Capacity \in Nat /\ Capacity > 1
        BY ConstantsAssumption
      <3>. QED  BY <1>1, <2>2, <3>1 DEF initialize, NumberInv, RecentInOrder, Enqueued
    <2>. QED  BY <1>0, <2>1, <2>3, <2>4 DEF Inv
  <1>2. CASE (ConnectOk \/ ConnectFails) /\ UNCHANGED <<objectVars, queueVars, threadVars>>
    <2>1. LockInv' /\ LifeInv' /\ SignalInv' /\ NumberInv'
      BY <1>2, QueueKept DEF objectVars
    <2>2. TypeOK'
      BY <1>2, ConnectTypes DEF Inv, TypeOK, createEventQueue, objectVars, queueVars, threadVars
    <2>. QED  BY <1>0, <2>1, <2>2 DEF Inv
  <1>. QED  BY <1>1, <1>2 DEF createEventQueue

LEMMA SubscribeStep ==
    ASSUME Inv, enableSensor \/ disableSensor \/ setEventRate
    PROVE  Inv'
  <1>1. PICK us \in {Off} \cup 0..MaxInt : Subscribe(us)
    BY ConstantsAssumption DEF enableSensor, disableSensor, setEventRate, PeriodFits
  <1>. QED  BY <1>1, ConstantsAssumption
            DEF Subscribe, Inv, TypeOK, LockInv, LifeInv, SignalInv, NumberInv, RecentInOrder,
                Enqueued, ListInv, managerVars, queueVars, threadVars

\* The destructor leaves nothing behind.
LEMMA DestroyStep ==
    ASSUME Inv, Destroy, UNCHANGED <<managerVars, incoming, sent, received, reader>>,
           gpsd_ref' = FALSE, callback' = "idle", reader = "poll",
           callback \notin {"promoted", "signal"}
    PROVE  Inv'
  <1>1. mLock = "free" /\ mLock' = "free"
    BY DEF Inv, LockInv, TypeOK, Destroy
  <1>2. TypeOK'
    <2>1. <<>> \in Seq(Nat) /\ Len(<<>>) = 0 /\ Capacity \in Nat
      BY EmptySeq, ConstantsAssumption
    <2>2. /\ service' \in BOOLEAN /\ handed' \in BOOLEAN
          /\ gpsd_ref' \in BOOLEAN /\ fd_open' \in BOOLEAN
      BY DEF Inv, TypeOK, Destroy, managerVars
    <2>. QED  BY <1>1, <2>1, <2>2 DEF Inv, TypeOK, Destroy, managerVars
  <1>3. LockInv' /\ LifeInv' /\ SignalInv' /\ ListInv'
    BY <1>1 DEF Inv, LockInv, LifeInv, SignalInv, ListInv, Destroy, managerVars
  <1>4. NumberInv'
    BY DEF Inv, NumberInv, RecentInOrder, Enqueued, Destroy
  <1>. QED  BY <1>2, <1>3, <1>4 DEF Inv

LEMMA CallbackStep ==
    ASSUME Inv, onEvent \/ Signal \/ onEventReturns
    PROVE  Inv'
  <1>. USE DEF Inv, TypeOK, LockInv, LifeInv, SignalInv, NumberInv, RecentInOrder, Enqueued,
               ListInv, managerVars, objectVars, queueVars, threadVars
  <1>0. MaxSamples \in Nat /\ Capacity \in Nat
    BY ConstantsAssumption
  <1>1. CASE onEvent
    BY <1>0, <1>1 DEF onEvent
  <1>2. CASE Signal
    BY <1>0, <1>2 DEF Signal
  <1>3. CASE onEventReturns /\ gpsd_ref
    BY <1>0, <1>3 DEF onEventReturns
  <1>4. CASE onEventReturns /\ ~gpsd_ref
    BY <1>4, DestroyStep DEF onEventReturns
  <1>. QED  BY <1>1, <1>2, <1>3, <1>4

LEMMA ReaderStep ==
    ASSUME Inv, PollReadable \/ PollTimesOut \/ Drain \/ DropQueue
    PROVE  Inv'
  <1>. USE DEF Inv, TypeOK, LockInv, LifeInv, SignalInv, NumberInv, RecentInOrder, Enqueued,
               ListInv, managerVars, objectVars, queueVars, threadVars
  <1>0. MaxSamples \in Nat /\ Capacity \in Nat
    BY ConstantsAssumption
  <1>1. CASE PollReadable
    BY <1>0, <1>1 DEF PollReadable
  <1>2. CASE PollTimesOut
    BY <1>0, <1>2 DEF PollTimesOut
  <1>3. CASE Drain
    BY <1>0, <1>3 DEF Drain
  <1>4. CASE DropQueue /\ callback # "idle"
    BY <1>0, <1>4 DEF DropQueue, Release
  <1>5. CASE DropQueue /\ callback = "idle"
    BY <1>5, DestroyStep DEF DropQueue, Release
  <1>. QED  BY <1>1, <1>2, <1>3, <1>4, <1>5

-----------------------------------------------------------------------------
(* enqueue and read. *)

LEMMA EnqueueStep ==
    ASSUME Inv, enqueue
    PROVE  Inv'
  <1>. DEFINE q == MakeRoom(mEvents)
              d == Len(mEvents) - Len(q)
  <1>0. MaxSamples \in Nat /\ Capacity \in Nat /\ Capacity > 1
    BY ConstantsAssumption
  <1>1. /\ q \in Seq(Nat) /\ Len(q) < Capacity
        /\ d = IF Len(mEvents) = Capacity THEN 1 ELSE 0
        /\ \A i \in 1..Len(q) : q[i] = mEvents[i + d]
    BY MakeRoomProperties DEF Inv, TypeOK
  <1>2. /\ mEvents' = Append(q, incoming) /\ incoming \in Nat
        /\ incoming = sent /\ sent > 0 /\ sent \in Nat /\ received \in Nat
        /\ callback = "promoted" /\ mLock = "free" /\ fd_open
        /\ mLock' = (IF q = <<>> THEN "enqueue" ELSE "free")
        /\ callback' = (IF q = <<>> THEN "signal" ELSE "return")
        /\ UNCHANGED <<managerVars, objectVars, counter, incoming, sent, reader, received>>
    BY DEF enqueue, Inv, TypeOK, NumberInv, LifeInv
  <1>3. /\ mEvents' \in Seq(Nat) /\ Len(mEvents') = Len(q) + 1
        /\ \A i \in 1..Len(q) : mEvents'[i] = q[i]
        /\ mEvents'[Len(q) + 1] = incoming
    BY <1>1, <1>2
  <1>. HIDE DEF q
  <1>4. TypeOK'
    BY <1>0, <1>1, <1>2, <1>3 DEF Inv, TypeOK, managerVars, objectVars
  <1>5. LockInv'
    BY <1>2 DEF Inv, LockInv, TypeOK
  <1>6. LifeInv' /\ ListInv'
    BY <1>2, <1>3 DEF Inv, LifeInv, ListInv, objectVars, managerVars
  <1>7. SignalInv'
    <2>1. q # <<>> => mEvents # <<>>
      BY <1>1 DEF Inv, TypeOK
    <2>2. mEvents' # <<>>
      BY <1>1, <1>3
    <2>3. q # <<>> => counter > 0
      BY <1>2, <2>1 DEF Inv, SignalInv
    <2>. QED  BY <1>2, <2>2, <2>3 DEF SignalInv
  <1>8. NumberInv'
    <2>1. Enqueued = sent - 1 /\ Enqueued' = sent
      BY <1>2 DEF Enqueued
    <2>2. /\ received <= sent - 1
          /\ Len(mEvents) = IF sent - 1 - received < Capacity THEN sent - 1 - received
                            ELSE Capacity
          /\ \A i \in 1..Len(mEvents) : mEvents[i] = sent - 1 - Len(mEvents) + i
      BY <1>2, <2>1 DEF Inv, NumberInv, RecentInOrder
    <2>3. Len(mEvents') = IF sent - received < Capacity THEN sent - received ELSE Capacity
      BY <1>0, <1>1, <1>2, <1>3, <2>2 DEF Inv, TypeOK
    <2>4. ASSUME NEW i \in 1..Len(mEvents')
          PROVE  mEvents'[i] = sent - Len(mEvents') + i
      <3>1. Len(q) \in Nat /\ Len(mEvents) \in Nat /\ d \in {0, 1}
        BY <1>1 DEF Inv, TypeOK
      <3>2. CASE i = Len(q) + 1
        BY <1>2, <1>3, <3>1, <3>2
      <3>3. CASE i # Len(q) + 1
        <4>1. i \in 1..Len(q) /\ i + d \in 1..Len(mEvents)
          BY <1>3, <3>1, <3>3
        <4>2. mEvents'[i] = mEvents[i + d]
          BY <1>1, <1>3, <4>1
        <4>3. mEvents[i + d] = sent - 1 - Len(mEvents) + (i + d)
          BY <2>2, <4>1
        <4>. QED  BY <1>2, <1>3, <3>1, <4>2, <4>3
      <3>. QED  BY <3>2, <3>3
    <2>5. RecentInOrder'
      BY <1>2, <2>1, <2>3, <2>4 DEF RecentInOrder
    <2>. QED  BY <1>2, <2>1, <2>2, <2>5 DEF NumberInv
  <1>. QED  BY <1>4, <1>5, <1>6, <1>7, <1>8 DEF Inv

LEMMA ReadStep ==
    ASSUME Inv, read
    PROVE  Inv'
  <1>0. MaxSamples \in Nat /\ Capacity \in Nat /\ Capacity > 1
    BY ConstantsAssumption
  <1>1. PICK count \in ReadCounts :
          LET n == IF count < Len(mEvents) THEN count ELSE Len(mEvents)
              rest == SubSeq(mEvents, n + 1, Len(mEvents))
          IN  /\ received' = IF n = 0 THEN received ELSE mEvents[n]
              /\ mEvents' = rest
              /\ mLock' = IF MustDrain(rest) THEN "read" ELSE "free"
              /\ reader' = IF MustDrain(rest) THEN "drain" ELSE "poll"
    BY DEF read
  <1>. DEFINE n == IF count < Len(mEvents) THEN count ELSE Len(mEvents)
  <1>2. /\ mEvents \in Seq(Nat) /\ Len(mEvents) \in Nat /\ Len(mEvents) <= Capacity
        /\ n \in 0..Len(mEvents)
    BY ConstantsAssumption DEF Inv, TypeOK
  <1>3. /\ mEvents' \in Seq(Nat) /\ Len(mEvents') = Len(mEvents) - n
        /\ \A i \in 1..Len(mEvents') : mEvents'[i] = mEvents[n + i]
        /\ received' = IF n = 0 THEN received ELSE mEvents[n]
        /\ mLock' = IF mEvents' = <<>> THEN "read" ELSE "free"
        /\ reader' = IF mEvents' = <<>> THEN "drain" ELSE "poll"
    BY <1>1, <1>2, RestProperties DEF MustDrain
  <1>4. /\ mLock = "free" /\ reader = "read"
        /\ fd_open /\ gpsd_ref /\ callback # "signal"
        /\ UNCHANGED <<managerVars, objectVars, counter, callback, incoming, sent>>
    BY DEF read, Inv, LifeInv, LockInv
  <1>. HIDE DEF n
  <1>5. received' \in Nat
    BY <1>2, <1>3 DEF Inv, TypeOK
  <1>6. TypeOK'
    BY <1>0, <1>2, <1>3, <1>4, <1>5 DEF Inv, TypeOK, managerVars, objectVars
  <1>7. LockInv' /\ LifeInv' /\ ListInv'
    BY <1>3, <1>4 DEF Inv, LockInv, LifeInv, ListInv, TypeOK, managerVars, objectVars
  <1>8. SignalInv'
    <2>1. mEvents' # <<>> => mEvents # <<>>
      BY <1>2, <1>3
    <2>. QED  BY <1>3, <1>4, <2>1 DEF Inv, SignalInv
  <1>9. NumberInv'
    <2>1. Enqueued' = Enqueued /\ Enqueued \in Int /\ received \in Nat
      BY <1>0, <1>4 DEF Enqueued, Inv, TypeOK
    <2>2. /\ received <= Enqueued
          /\ Len(mEvents) = IF Enqueued - received < Capacity THEN Enqueued - received
                            ELSE Capacity
          /\ \A i \in 1..Len(mEvents) : mEvents[i] = Enqueued - Len(mEvents) + i
      BY <1>4 DEF Inv, NumberInv, RecentInOrder
    <2>3. n # 0 => received' = Enqueued - Len(mEvents')
      <3>1. n # 0 => mEvents[n] = Enqueued - Len(mEvents) + n
        BY <1>2, <2>2
      <3>. QED  BY <1>2, <1>3, <2>1, <3>1
    <2>4. received' <= Enqueued
      <3>1. CASE n = 0
        BY <1>3, <2>2, <3>1
      <3>2. CASE n # 0
        BY <1>2, <1>3, <2>1, <2>3, <3>2
      <3>. QED  BY <3>1, <3>2
    <2>5. Len(mEvents') = IF Enqueued - received' < Capacity THEN Enqueued - received'
                          ELSE Capacity
      <3>1. CASE n = 0
        BY <1>2, <1>3, <2>2, <3>1
      <3>2. CASE n # 0
        BY <1>0, <1>2, <1>3, <2>1, <2>3, <3>2
      <3>. QED  BY <3>1, <3>2
    <2>6. ASSUME NEW i \in 1..Len(mEvents')
          PROVE  mEvents'[i] = Enqueued - Len(mEvents') + i
      <3>1. n + i \in 1..Len(mEvents) /\ mEvents'[i] = mEvents[n + i]
        BY <1>2, <1>3
      <3>2. mEvents[n + i] = Enqueued - Len(mEvents) + (n + i)
        BY <2>2, <3>1
      <3>. QED  BY <1>2, <1>3, <2>1, <3>1, <3>2
    <2>7. RecentInOrder'
      BY <2>1, <2>5, <2>6 DEF RecentInOrder
    <2>. QED  BY <1>4, <2>1, <2>4, <2>7 DEF Inv, NumberInv
  <1>. QED  BY <1>6, <1>7, <1>8, <1>9 DEF Inv

LEMMA NextInv == ASSUME Inv, [Next]_vars PROVE Inv'
  <1>1. CASE UNCHANGED vars
    BY <1>1 DEF vars, managerVars, objectVars, queueVars, threadVars, Inv, TypeOK, LockInv,
       LifeInv, SignalInv, NumberInv, RecentInOrder, Enqueued, ListInv
  <1>. QED  BY <1>1, ManagerStep, CreateStep, SubscribeStep, CallbackStep, ReaderStep,
               EnqueueStep, ReadStep DEF Next

-----------------------------------------------------------------------------
(* Theorems. *)

\* The inductive invariant holds in every behaviour of the sensor client.
THEOREM Inductive == Spec => []Inv
  BY InitInv, NextInv, PTL DEF Spec

\* Types, the bound of the queue and the range of the sampling period.
THEOREM TypeCorrect == Spec => []TypeOK
  <1>1. Inv => TypeOK
    BY DEF Inv
  <1>. QED  BY <1>1, Inductive, PTL

\* The eventfd never hides a waiting sample from poll() and never reports one
\* that is not there, for every capacity.
THEOREM NoLostSample == Spec => []ReadableIffWaiting
  <1>1. Inv => ReadableIffWaiting
    BY DEF Inv, SignalInv, ReadableIffWaiting
  <1>. QED  BY <1>1, Inductive, PTL

\* enqueue() and read() together keep exactly the most recent unread samples.
THEOREM RecentSamples == Spec => []RecentInOrder
  <1>1. Inv => RecentInOrder
    BY DEF Inv, NumberInv
  <1>. QED  BY <1>1, Inductive, PTL

\* Neither thread uses a queue whose destructor has run.
THEOREM NoUseAfterClose == Spec => []QueueOutlivesUse
  <1>1. Inv => QueueOutlivesUse
    BY DEF Inv, LifeInv, QueueOutlivesUse
  <1>. QED  BY <1>1, Inductive, PTL

\* gpsd's pointer into the list of sensors stays valid.
THEOREM PointersStayValid == Spec => ListStable
  <1>1. Inv /\ [Next]_vars => [handed => mSensors' = mSensors]_vars
    BY DEF Inv, ListInv, Next, vars, managerVars, ServiceStarts, ServiceDies, getSensorList,
       getDefaultSensor, createEventQueue, ConnectOk, ConnectFails, enableSensor, disableSensor,
       setEventRate, Subscribe, onEvent, enqueue, Signal, onEventReturns, PollReadable,
       PollTimesOut, read, Drain, DropQueue
  <1>. QED  BY <1>1, Inductive, PTL DEF Spec, ListStable
=============================================================================
