---------------------------- MODULE SensorsProofs ----------------------------
(* What poll() delivers and drops, for every tolerance, age and history of *)
(* the wall clock.                                                         *)
EXTENDS SensorsHAL, TLAPS

(***************************************************************************)
(* The invariant ties every event that is still raw to the clock: one that *)
(* was captured under the present setting bears the present offset, one    *)
(* captured under the setting of the first sample bears that sample's      *)
(* offset up to its error.                                                 *)
(***************************************************************************)
ClocksOK ==
    /\ boot \in Nat /\ boot >= FirstBoot /\ offset \in Int /\ steps \in Nat

BeforeOK ==
    /\ before \in Clocks /\ before.at <= steps
    /\ before.valid /\ before.at = steps =>
          before.offset <= offset + Skew /\ offset <= before.offset + Skew

RawOK(e) ==
    /\ e \in Event /\ e.born >= FirstBoot /\ e.born <= boot /\ e.at <= steps
    /\ ~Legacy(e) => e.timestamp = e.born
    /\ Legacy(e) /\ e.at = steps => e.timestamp = e.born + offset
    /\ Legacy(e) /\ before.valid /\ e.at = before.at =>
          /\ e.timestamp <= e.born + before.offset + Skew
          /\ e.born + before.offset <= e.timestamp + Skew

Pending == \A e \in queue \union data : RawOK(e)

\* Outside the answer there is nothing to deliver, and what was dropped is
\* forgotten when the loop starts again.
Quiet ==
    /\ pc # "answer" => out.events = {}
    /\ pc \notin {"before", "answer"} => lost = {}

Inv == ClocksOK /\ BeforeOK /\ Pending /\ Quiet /\ DeliveredTimesRight /\ DropsJustified
-----------------------------------------------------------------------------
\* A clock sample is the clock up to its error.
LEMMA SampleIsClose ==
    ASSUME NEW c, ClocksOK, Sample(c)
    PROVE  /\ c \in Clocks /\ c.at = steps
           /\ c.valid => /\ c.real = boot + offset
                         /\ c.offset <= offset + Skew /\ offset <= c.offset + Skew
<1>1. Skew \in Nat
  BY ClockAssumption
<1>2. CASE \E e \in -Skew..Skew :
             c = [real |-> boot + offset, offset |-> offset + e, valid |-> TRUE, at |-> steps]
  BY <1>1, <1>2 DEF ClocksOK, Clocks
<1>3. CASE c = [real |-> 0, offset |-> 0, valid |-> FALSE, at |-> steps]
  BY <1>3 DEF ClocksOK, Clocks
<1> QED BY <1>2, <1>3 DEF Sample

\* Moving a stamp leaves everything else of the event alone.
LEMMA MovedEvent ==
    ASSUME NEW e \in Event, NEW t \in Int
    PROVE  LET m == [e EXCEPT !.timestamp = t]
           IN  /\ m.timestamp = t /\ m.born = e.born /\ m.at = e.at
               /\ Legacy(m) <=> Legacy(e)
BY DEF Event, Legacy

\* An accepted stamp is converted to the time of the capture.
LEMMA ConversionRight ==
    ASSUME ClocksOK, BeforeOK, NEW a, Sample(a), NEW e, RawOK(e), Legacy(e),
           Accepted(e.timestamp, before, a)
    PROVE  LET m == [e EXCEPT !.timestamp = Normalized(e.timestamp, a)]
           IN  /\ Legacy(m) /\ m.at = e.at
               /\ e.at = a.at => Error(m) <= Skew
               /\ e.at >= before.at /\ a.at <= before.at + 1 => Error(m) <= Tolerance + Skew
<1> DEFINE t == Normalized(e.timestamp, a)
<1>1. /\ a \in Clocks /\ a.at = steps /\ a.valid
      /\ a.offset <= offset + Skew /\ offset <= a.offset + Skew
  BY SampleIsClose DEF Accepted
<1>2. e \in Event /\ e.timestamp \in Int /\ e.born \in Nat /\ e.at \in Nat
  BY DEF RawOK, Event
<1>3. a.offset \in Int /\ before.offset \in Int /\ before.at \in Nat /\ steps \in Nat
  BY <1>1 DEF Clocks, BeforeOK, ClocksOK
<1>4. t = e.timestamp - a.offset /\ t \in Int
  BY <1>2, <1>3 DEF Normalized
<1>5. Skew \in Nat /\ Tolerance \in Nat
  BY ClockAssumption
<1>6. /\ a.offset - before.offset >= -Tolerance /\ a.offset - before.offset <= Tolerance
      /\ before.valid
  BY <1>3, <1>5 DEF Accepted, Steady
<1>7. e.at = steps => t <= e.born + Skew /\ e.born <= t + Skew
  <2>1. e.at = steps => e.timestamp = e.born + offset
    BY DEF RawOK
  <2> QED BY <2>1, <1>1, <1>2, <1>3, <1>4, <1>5 DEF ClocksOK
<1>8. e.at = before.at => t <= e.born + Tolerance + Skew /\ e.born <= t + Tolerance + Skew
  <2>1. e.at = before.at => /\ e.timestamp <= e.born + before.offset + Skew
                            /\ e.born + before.offset <= e.timestamp + Skew
    BY <1>6 DEF RawOK
  <2> QED BY <2>1, <1>2, <1>3, <1>4, <1>5, <1>6
<1>9. e.at >= before.at /\ a.at <= before.at + 1 => e.at = before.at \/ e.at = steps
  <2>1. e.at <= steps
    BY DEF RawOK
  <2> QED BY <2>1, <1>1, <1>2, <1>3
<1> DEFINE m == [e EXCEPT !.timestamp = t]
<1>10. m.timestamp = t /\ m.born = e.born /\ m.at = e.at /\ Legacy(m)
  BY <1>2, <1>4, MovedEvent
<1>11. ASSUME NEW b \in Nat, t <= e.born + b, e.born <= t + b PROVE Error(m) <= b
  BY <1>2, <1>4, <1>10, <1>11 DEF Error
<1>12. e.at = a.at => Error(m) <= Skew
  BY <1>1, <1>5, <1>7, <1>11
<1>13. e.at >= before.at /\ a.at <= before.at + 1 => Error(m) <= Tolerance + Skew
  <2>1. Tolerance + Skew \in Nat /\ Skew <= Tolerance + Skew
    BY <1>5
  <2>2. e.at = before.at => Error(m) <= Tolerance + Skew
    BY <2>1, <1>2, <1>4, <1>5, <1>8, <1>11
  <2>3. e.at = steps => Error(m) <= Tolerance + Skew
    BY <2>1, <1>2, <1>4, <1>5, <1>7, <1>11
  <2> QED BY <2>2, <2>3, <1>9
<1> HIDE DEF m, t
<1> QED BY <1>10, <1>12, <1>13 DEF m, t

\* A stamp that is not accepted was ambiguous.
LEMMA RefusalJustified ==
    ASSUME ClocksOK, BeforeOK, NEW a, Sample(a), NEW e, RawOK(e), Legacy(e),
           ~Accepted(e.timestamp, before, a)
    PROVE  \/ a.at > e.at \/ a.at > before.at
           \/ ~before.valid \/ ~a.valid
           \/ a.real - e.timestamp > MaxAge
           \/ e.timestamp <= 0
<1> SUFFICES ASSUME ~(a.at > e.at), ~(a.at > before.at), before.valid, a.valid,
                    ~(a.real - e.timestamp > MaxAge), ~(e.timestamp <= 0)
             PROVE  FALSE
  OBVIOUS
<1>1. /\ a \in Clocks /\ a.at = steps /\ a.real = boot + offset
      /\ a.offset <= offset + Skew /\ offset <= a.offset + Skew
  BY SampleIsClose
<1>2. /\ e.timestamp \in Int /\ e.born \in Nat /\ e.at \in Nat /\ e.at <= steps
      /\ e.born <= boot /\ e.born >= FirstBoot
  BY DEF RawOK, Event
<1>3. /\ a.offset \in Int /\ before.offset \in Int /\ before.at \in Nat /\ before.at <= steps
      /\ steps \in Nat /\ offset \in Int /\ boot \in Nat
  BY <1>1 DEF Clocks, BeforeOK, ClocksOK
<1>4. {Skew, Tolerance, MaxAge, Future, FirstBoot} \subseteq Nat
      /\ 2 * Skew <= Tolerance /\ Skew < FirstBoot
  BY ClockAssumption
<1>5. e.at = steps /\ before.at = steps
  BY <1>1, <1>2, <1>3
<1>6. e.timestamp = e.born + offset
  BY <1>5 DEF RawOK
<1>7. before.offset <= offset + Skew /\ offset <= before.offset + Skew
  BY <1>5 DEF BeforeOK
<1>8. Steady(before, a)
  BY <1>1, <1>3, <1>4, <1>7 DEF Steady
<1>9. e.timestamp \in (a.real - MaxAge)..(a.real + Future)
  BY <1>1, <1>2, <1>3, <1>4, <1>6
<1>10. e.timestamp - a.offset > 0
  BY <1>1, <1>2, <1>3, <1>4, <1>6
<1> QED BY <1>2, <1>8, <1>9, <1>10 DEF Accepted
-----------------------------------------------------------------------------
\* Steps that touch neither clocks nor samples nor raw events.
LEMMA RawStable ==
    ASSUME Pending, queue' \union data' \subseteq queue \union data,
           UNCHANGED <<boot, offset, steps, before>>
    PROVE  Pending'
<1> SUFFICES ASSUME NEW e \in queue' \union data' PROVE RawOK(e)'
  BY DEF Pending
<1>1. RawOK(e)
  BY DEF Pending
<1> QED BY <1>1 DEF RawOK

LEMMA InitInv == Init => Inv
<1> SUFFICES ASSUME Init PROVE Inv
  OBVIOUS
<1>1. ClocksOK
  BY ClockAssumption DEF Init, ClocksOK
<1>2. BeforeOK
  BY DEF Init, BeforeOK, NoClocks, Clocks
<1> QED BY <1>1, <1>2 DEF Init, Inv, Pending, Quiet, DeliveredTimesRight, DropsJustified, NoAnswer

\* Time passes.
LEMMA TickInv == ASSUME Inv, Tick PROVE Inv'
<1>0. UNCHANGED <<offset, steps, queue, data, before, after, pc, out, lost>>
  BY DEF Tick, locals
<1>1. boot \in Nat /\ boot' \in Nat /\ boot <= boot'
  <2>1. PICK t \in Ticks : boot' = boot + t
    BY DEF Tick
  <2>2. t \in Nat /\ boot \in Nat
    BY ClockAssumption DEF Inv, ClocksOK
  <2> QED BY <2>1, <2>2
<1>2. ClocksOK'
  BY <1>0, <1>1, ClockAssumption DEF Inv, ClocksOK
<1>3. Pending'
  <2> SUFFICES ASSUME NEW e \in queue \union data PROVE RawOK(e)'
    BY <1>0 DEF Pending
  <2>1. RawOK(e) /\ e.born \in Nat
    BY DEF Inv, Pending, RawOK, Event
  <2> QED BY <1>0, <1>1, <2>1 DEF RawOK
<1> QED BY <1>0, <1>2, <1>3 DEF Inv, BeforeOK, Quiet, DeliveredTimesRight, DropsJustified

\* The wall clock is set: no raw event was captured under the new setting.
LEMMA SetClockInv == ASSUME Inv, SetClock PROVE Inv'
<1>0. UNCHANGED <<boot, queue, data, before, after, pc, out, lost>>
  BY DEF SetClock, locals
<1>1. ClocksOK'
  BY <1>0, ClockAssumption DEF Inv, ClocksOK, SetClock
<1>2. steps \in Nat /\ steps' = steps + 1 /\ before.at \in Nat
  BY DEF Inv, ClocksOK, BeforeOK, Clocks, SetClock
<1>3. BeforeOK'
  BY <1>0, <1>2 DEF Inv, BeforeOK
<1>4. Pending'
  <2> SUFFICES ASSUME NEW e \in queue \union data PROVE RawOK(e)'
    BY <1>0 DEF Pending
  <2>1. RawOK(e) /\ e.at \in Nat
    BY DEF Inv, Pending, RawOK, Event
  <2> QED BY <1>0, <1>2, <2>1 DEF RawOK
<1> QED BY <1>0, <1>1, <1>3, <1>4 DEF Inv, Quiet, DeliveredTimesRight, DropsJustified

\* A new event bears the present offset.
LEMMA CaptureInv == ASSUME Inv, NEW s \in Sensors, Capture(s) PROVE Inv'
<1> DEFINE new == [sensor |-> s, born |-> boot, at |-> steps,
                   timestamp |-> IF isLegacyInputSensor(s[1], s[2]) THEN boot + offset ELSE boot]
<1>1. RawOK(new)
  <2>1. new \in Event
    BY DEF Inv, ClocksOK, Event
  <2>2. /\ ~Legacy(new) => new.timestamp = new.born
        /\ Legacy(new) => new.timestamp = new.born + offset
    BY DEF Legacy
  <2>3. new.born = boot /\ new.at = steps
    OBVIOUS
  <2>4. /\ boot \in Nat /\ boot >= FirstBoot /\ steps \in Nat /\ offset \in Int
           /\ before.offset \in Int /\ Skew \in Nat
        /\ before.valid /\ before.at = steps =>
               before.offset <= offset + Skew /\ offset <= before.offset + Skew
    BY ClockAssumption DEF Inv, BeforeOK, ClocksOK, Clocks
  <2> HIDE DEF new
  <2>5. Legacy(new) /\ before.valid /\ new.at = before.at =>
            /\ new.timestamp <= new.born + before.offset + Skew
            /\ new.born + before.offset <= new.timestamp + Skew
    BY <2>2, <2>3, <2>4
  <2> QED BY <2>1, <2>2, <2>3, <2>4, <2>5 DEF RawOK
<1>2. queue' = queue \union {new} /\ UNCHANGED <<clocks, data, before, after, pc, out, lost>>
  BY DEF Capture, locals
<1> HIDE DEF new
<1>3. Pending'
  <2> SUFFICES ASSUME NEW e \in queue' \union data' PROVE RawOK(e)'
    BY DEF Pending
  <2>1. RawOK(e)
    BY <1>1, <1>2 DEF Inv, Pending
  <2> QED BY <1>2, <2>1 DEF RawOK, clocks
<1> QED BY <1>2, <1>3 DEF Inv, clocks, ClocksOK, BeforeOK, Quiet, DeliveredTimesRight, DropsJustified

\* The process of the HAL ends and starts; poll() begins and returns.
LEMMA ServiceInv ==
    ASSUME Inv, FetchSensors \/ PollReentered \/ PollReturns
                \/ \E maxCount \in MaxCounts : Poll(maxCount)
    PROVE  Inv'
<1>1. CASE FetchSensors
  <2>1. UNCHANGED <<clocks, queue, data, before, after, pc, out, lost>>
    BY <1>1 DEF FetchSensors, locals
  <2>2. Pending'
    BY <2>1, RawStable DEF Inv, clocks
  <2> QED BY <2>1, <2>2 DEF Inv, clocks, ClocksOK, BeforeOK, Quiet, DeliveredTimesRight, DropsJustified
<1>2. CASE PollReentered
  <2>1. UNCHANGED clocks /\ queue' = {} /\ data' = {} /\ before' = NoClocks /\ pc' = "idle"
        /\ out' = NoAnswer /\ lost' = {}
    BY <1>2 DEF PollReentered
  <2> QED BY <2>1 DEF Inv, clocks, ClocksOK, BeforeOK, NoClocks, Clocks, Pending, Quiet, NoAnswer,
                      DeliveredTimesRight, DropsJustified
<1>3. CASE PollReturns
  <2>1. UNCHANGED <<clocks, queue, data>> /\ before' = NoClocks /\ pc' = "idle"
        /\ out' = NoAnswer /\ lost' = {}
    BY <1>3 DEF PollReturns
  <2>2. Pending'
    <3> SUFFICES ASSUME NEW e \in queue \union data PROVE RawOK(e)'
      BY <2>1 DEF Pending
    <3>1. RawOK(e)
      BY DEF Inv, Pending
    <3> QED BY <2>1, <3>1 DEF RawOK, clocks, NoClocks
  <2> QED BY <2>1, <2>2 DEF Inv, clocks, ClocksOK, BeforeOK, NoClocks, Clocks, Quiet, NoAnswer,
                            DeliveredTimesRight, DropsJustified
<1>4. ASSUME NEW maxCount \in MaxCounts, Poll(maxCount) PROVE Inv'
  <2>1. UNCHANGED <<clocks, queue, data, before, after, lost>> /\ pc = "idle"
        /\ (UNCHANGED out \/ out' = [result |-> "BAD_VALUE", events |-> {}])
        /\ pc' \in {"before", "answer"}
    BY <1>4 DEF Poll, Answer
  <2>2. Pending'
    BY <2>1, RawStable DEF Inv, clocks
  <2>3. out'.events = {} /\ lost' = {}
    BY <2>1 DEF Inv, Quiet
  <2> QED BY <2>1, <2>2, <2>3 DEF Inv, clocks, ClocksOK, BeforeOK, Quiet, DeliveredTimesRight, DropsJustified
<1> QED BY <1>1, <1>2, <1>3, <1>4

\* The first sample of a pass.
LEMMA SampleBeforeInv == ASSUME Inv, SampleBefore PROVE Inv'
<1>1. /\ UNCHANGED <<clocks, queue, data, out>> /\ Sample(before') /\ lost' = {}
      /\ pc = "before" /\ pc' = "device"
  BY DEF SampleBefore
<1>2. /\ before' \in Clocks /\ before'.at = steps
      /\ before'.valid => before'.offset <= offset + Skew /\ offset <= before'.offset + Skew
  BY <1>1, SampleIsClose DEF Inv
<1>3. BeforeOK'
  BY <1>1, <1>2 DEF BeforeOK, clocks, Inv, ClocksOK
<1>4. Pending'
  <2> SUFFICES ASSUME NEW e \in queue \union data PROVE RawOK(e)'
    BY <1>1 DEF Pending
  <2>1. RawOK(e) /\ e.timestamp \in Int /\ e.born \in Int
    BY DEF Inv, Pending, RawOK, Event
  <2>2. before'.offset \in Int /\ offset \in Int /\ Skew \in Nat
    BY <1>2, ClockAssumption DEF Clocks, Inv, ClocksOK
  <2>3. Legacy(e) /\ before'.valid /\ e.at = before'.at =>
          /\ e.timestamp <= e.born + before'.offset + Skew
          /\ e.born + before'.offset <= e.timestamp + Skew
    BY <1>2, <2>1, <2>2 DEF RawOK
  <2> QED BY <1>1, <2>1, <2>3 DEF RawOK, clocks
<1> QED BY <1>1, <1>3, <1>4 DEF Inv, clocks, ClocksOK, Quiet, DeliveredTimesRight, DropsJustified

\* The vendor's library returns, in order or not.
LEMMA DeviceInv ==
    ASSUME Inv, DevicePoll \/ \E result \in {"nothing", "BAD_VALUE", "INVALID_OPERATION"} : DevicePollOdd(result)
    PROVE  Inv'
<1>1. /\ UNCHANGED <<clocks, before, after, lost>> /\ pc = "device" /\ pc' \in {"after", "answer"}
      /\ queue' \union data' \subseteq queue \union data
      /\ out'.events = {}
  BY DEF Inv, Quiet, DevicePoll, DevicePollOdd, Answer, locals
<1>2. Pending'
  BY <1>1, RawStable DEF Inv, clocks
<1>3. lost' = {}
  BY <1>1 DEF Inv, Quiet
<1> QED BY <1>1, <1>2, <1>3 DEF Inv, clocks, ClocksOK, BeforeOK, Quiet, DeliveredTimesRight, DropsJustified

\* The second sample and the filter.
LEMMA FilterInv == ASSUME Inv, SampleAndFilter PROVE Inv'
<1> DEFINE kept == {e \in data : Legacy(e) => Accepted(e.timestamp, before, after')}
           moved(e) == IF Legacy(e) THEN [e EXCEPT !.timestamp = Normalized(e.timestamp, after')] ELSE e
<1>1. /\ UNCHANGED <<clocks, queue, before>> /\ Sample(after') /\ data' = {}
      /\ lost' = data \ kept
      /\ \/ pc' = "before" /\ UNCHANGED out
         \/ pc' = "answer" /\ out'.events = {moved(e) : e \in kept}
      /\ pc = "after"
  BY DEF SampleAndFilter, Answer, Repeat
<1>2. Pending'
  BY <1>1, RawStable DEF Inv, clocks
<1>3. ASSUME NEW e \in data PROVE RawOK(e)
  BY DEF Inv, Pending
<1>4. DropsJustified'
  <2> SUFFICES ASSUME NEW e \in lost'
               PROVE  /\ Legacy(e)
                      /\ \/ after'.at > e.at \/ after'.at > before'.at
                         \/ ~before'.valid \/ ~after'.valid
                         \/ after'.real - e.timestamp > MaxAge
                         \/ e.timestamp <= 0
    BY DEF DropsJustified
  <2>1. e \in data /\ Legacy(e) /\ ~Accepted(e.timestamp, before, after')
    BY <1>1
  <2>2. RawOK(e)
    BY <2>1, <1>3
  <2> QED BY <1>1, <2>1, <2>2, RefusalJustified DEF Inv
<1>5. DeliveredTimesRight'
  <2>1. CASE UNCHANGED out /\ pc' = "before"
    BY <1>1, <2>1 DEF Inv, Quiet, DeliveredTimesRight
  <2>2. CASE out'.events = {moved(e) : e \in kept}
    <3> SUFFICES ASSUME NEW e \in kept
                 PROVE  LET m == moved(e)
                        IN  /\ ~Legacy(m) => Error(m) = 0
                            /\ Legacy(m) /\ m.at = after'.at => Error(m) <= Skew
                            /\ Legacy(m) /\ m.at >= before'.at /\ after'.at <= before'.at + 1
                                  => Error(m) <= Tolerance + Skew
      BY <2>2 DEF DeliveredTimesRight
    <3>1. RawOK(e)
      BY <1>3
    <3>2. CASE Legacy(e)
      <4>1. Accepted(e.timestamp, before, after')
        BY <3>2
      <4> QED BY <1>1, <3>1, <3>2, <4>1, ConversionRight DEF Inv
    <3>3. CASE ~Legacy(e)
      <4>1. e.timestamp = e.born /\ e.born \in Nat
        BY <3>1, <3>3 DEF RawOK, Event
      <4> QED BY <3>3, <4>1 DEF Error
    <3> QED BY <3>2, <3>3
  <2> QED BY <1>1, <2>1, <2>2
<1>6. Quiet'
  <2>1. pc' = "before" => out'.events = {}
    BY <1>1 DEF Inv, Quiet
  <2> QED BY <1>1, <2>1 DEF Quiet
<1> QED BY <1>1, <1>2, <1>4, <1>5, <1>6 DEF Inv, clocks, ClocksOK, BeforeOK

LEMMA NextInv == Inv /\ [Next]_vars => Inv'
<1> SUFFICES ASSUME Inv, [Next]_vars PROVE Inv'
  OBVIOUS
<1>1. CASE UNCHANGED vars
  <2>1. UNCHANGED <<boot, offset, steps, queue, data, before, after, pc, out, lost>>
    BY <1>1 DEF vars, clocks, locals
  <2>2. Pending'
    BY <2>1, RawStable DEF Inv
  <2> QED BY <2>1, <2>2 DEF Inv, ClocksOK, BeforeOK, Quiet, DeliveredTimesRight, DropsJustified
<1>2. CASE Next
  BY <1>2, TickInv, SetClockInv, CaptureInv, ServiceInv, SampleBeforeInv, DeviceInv, FilterInv
     DEF Next, PollStep
<1> QED BY <1>1, <1>2

LEMMA Invariance == Spec => []Inv
BY InitInv, NextInv, PTL DEF Spec

(* The times poll() delivers are right up to the error of a clock sample,  *)
(* or to the tolerance when the wall clock was set once during the poll.   *)
THEOREM DeliveredTimes == Spec => []DeliveredTimesRight
<1>1. Inv => DeliveredTimesRight
  BY DEF Inv
<1> QED BY <1>1, Invariance, PTL

(* poll() drops a light or proximity event only for a reason, and no other *)
(* event at all.                                                           *)
THEOREM DropsForAReason == Spec => []DropsJustified
<1>1. Inv => DropsJustified
  BY DEF Inv
<1> QED BY <1>1, Invariance, PTL
=============================================================================
