----------------------- MODULE FingerprintCompatProofs -----------------------
(* The promises of the adapter, for every size of the trusted environment's *)
(* answers.                                                                 *)
EXTENDS FingerprintCompat, TLAPS

(***************************************************************************)
(* Where the call and the worker can be.  The worker is only told to stop  *)
(* by a cancel that is going to succeed and that waits for it: CANCELED    *)
(* from the vendor falls between the two locked sections of cancel().      *)
(***************************************************************************)
Protocol ==
    /\ device = NULL => op = "open"
    /\ pc \in {"joining", "synthesize"} => op = "cancel"
    /\ pc = "failed" => op = "set_notify"
    /\ pc = "vendor" => op \in {"cancel", "set_notify"}
    /\ cancel_in_progress <=> op = "cancel" /\ pc \in {"vendor", "joining"}
    /\ stop /\ worker # "none" => op = "cancel" /\ pc = "joining" /\ status = 0
    /\ worker = "telling_canceled" =>
          stop /\ cancel_notified /\ notify = framework_notify /\ canceled = 0

(* cancel_notified says whether CANCELED went out, or is just going out.   *)
Counting ==
    /\ op # "cancel" => canceled = 0
    /\ op = "cancel" /\ pc = "vendor" => canceled = 0 /\ cancel_notified = FALSE
    /\ op = "cancel" /\ pc = "joining" =>
          /\ ~cancel_notified => canceled = 0
          /\ cancel_notified /\ worker # "telling_canceled" =>
                worker = "none" /\ status = 0 /\ canceled = (IF framework_notify # NULL THEN 1 ELSE 0)
    /\ op = "cancel" /\ pc = "synthesize" =>
          status = 0 /\ framework_notify # NULL /\ canceled = 0 /\ worker = "none"

CancelInv == Protocol /\ Counting /\ CanceledExactlyOnce

LEMMA InitCancel == Init => CancelInv
BY DEF Init, CancelInv, Protocol, Counting, CanceledExactlyOnce

\* A call of the service that does not cancel finds no worker told to stop.
LEMMA OtherCalls ==
    ASSUME CancelInv,
           fingerprint_compat_open \/ fingerprint_compat_set_notify \/ flyme_set_notify
           \/ SetNotifyFailed \/ Start \/ fingerprint_compat_enumerate
    PROVE  CancelInv'
<1> USE DEF CancelInv, Protocol, Counting, CanceledExactlyOnce, adapter, vendor, ghosts
<1>1. CASE fingerprint_compat_open
  BY <1>1 DEF fingerprint_compat_open
<1>2. CASE fingerprint_compat_set_notify
  BY <1>2 DEF fingerprint_compat_set_notify, Begin
<1>3. CASE flyme_set_notify
  BY <1>3 DEF flyme_set_notify
<1>4. CASE SetNotifyFailed
  BY <1>4 DEF SetNotifyFailed
<1>5. CASE Start
  BY <1>5 DEF Start, Begin
<1>6. CASE fingerprint_compat_enumerate
  BY <1>6 DEF fingerprint_compat_enumerate, Begin
<1> QED BY <1>1, <1>2, <1>3, <1>4, <1>5, <1>6

LEMMA WorkerSteps ==
    ASSUME CancelInv,
           \/ WorkerTold \/ WorkerStops
           \/ \E next \in {"telling", "telling_last", "telling_canceled"} : WorkerTells(next)
    PROVE  CancelInv'
<1> USE DEF CancelInv, Protocol, Counting, CanceledExactlyOnce, adapter, vendor, ghosts
<1>1. CASE WorkerTold
  BY <1>1 DEF WorkerTold
<1>2. CASE WorkerStops
  BY <1>2 DEF WorkerStops
<1>3. ASSUME NEW next \in {"telling", "telling_last", "telling_canceled"}, WorkerTells(next)
      PROVE  CancelInv'
  BY <1>3 DEF WorkerTells, Notify
<1> QED BY <1>1, <1>2, <1>3

LEMMA CancelSteps ==
    ASSUME CancelInv,
           fingerprint_compat_cancel \/ flyme_cancel \/ CancelJoined \/ Synthesize
    PROVE  CancelInv'
<1> USE DEF CancelInv, Protocol, Counting, CanceledExactlyOnce, adapter, vendor, ghosts
<1>1. CASE fingerprint_compat_cancel
  BY <1>1 DEF fingerprint_compat_cancel, Begin, ClearedNotified
<1>2. CASE flyme_cancel
  BY <1>2 DEF flyme_cancel
<1>3. CASE CancelJoined
  BY <1>3 DEF CancelJoined
<1>4. CASE Synthesize
  BY <1>4 DEF Synthesize
<1> QED BY <1>1, <1>2, <1>3, <1>4

LEMMA NextCancel == CancelInv /\ [Next]_vars => CancelInv'
<1> SUFFICES ASSUME CancelInv, [Next]_vars PROVE CancelInv'
  OBVIOUS
<1>1. CASE UNCHANGED vars
  BY <1>1 DEF vars, adapter, vendor, ghosts, CancelInv, Protocol, Counting, CanceledExactlyOnce
<1>2. CASE Next
  BY <1>2, OtherCalls, WorkerSteps, CancelSteps DEF Next
<1> QED BY <1>1, <1>2

(* Every cancel that succeeds tells the registered framework CANCELED      *)
(* exactly once, and nothing else does: fingerprint_compat_cancel and      *)
(* fingerprint_compat_notify together.                                     *)
THEOREM OneCanceledPerCancel == Spec => []CanceledExactlyOnce
<1>1. CancelInv => CanceledExactlyOnce
  BY DEF CancelInv
<1> QED BY <1>1, InitCancel, NextCancel, PTL DEF Spec
-----------------------------------------------------------------------------
\* The moved slots come from a complete table, read before it is written.
LEMMA RemapStandard ==
    ASSUME NEW missing \in SUBSET (1..14),
           Complete([i \in 1..14 |-> IF i \in missing THEN NULL ELSE FlymeSlots[i]])
    PROVE  LET t == [i \in 1..14 |-> IF i \in missing THEN NULL ELSE FlymeSlots[i]]
           IN  \A i \in {1} \union 5..10 : Remap(t)[i] = AospSlots[i]
<1> DEFINE t == [i \in 1..14 |-> IF i \in missing THEN NULL ELSE FlymeSlots[i]]
<1>1. t[9] = FlymeSlots[9] /\ t[12] = FlymeSlots[12] /\ t[13] = FlymeSlots[13] /\ t[14] = FlymeSlots[14]
  BY DEF Complete
<1>2. /\ FlymeSlots[9] = AospSlots[5] /\ FlymeSlots[12] = AospSlots[8]
      /\ FlymeSlots[13] = AospSlots[9] /\ FlymeSlots[14] = AospSlots[10]
      /\ AospSlots[1] = "compat_set_notify" /\ AospSlots[6] = "compat_cancel"
      /\ AospSlots[7] = "compat_enumerate"
  BY DEF FlymeSlots, AospSlots
<1>3. /\ Remap(t)[1] = "compat_set_notify" /\ Remap(t)[5] = t[9] /\ Remap(t)[6] = "compat_cancel"
      /\ Remap(t)[7] = "compat_enumerate" /\ Remap(t)[8] = t[12] /\ Remap(t)[9] = t[13]
      /\ Remap(t)[10] = t[14]
  BY DEF Remap
<1>4. \A i \in {1} \union 5..10 : i \in {1, 5, 6, 7, 8, 9, 10}
  OBVIOUS
<1> HIDE DEF t
<1>5. \A i \in {1, 5, 6, 7, 8, 9, 10} : Remap(t)[i] = AospSlots[i]
  BY <1>1, <1>2, <1>3
<1> QED BY <1>4, <1>5 DEF t

(* Whoever gets a device gets every moved callback in its standard slot    *)
(* and the library behind it loaded: the remapping in                      *)
(* fingerprint_compat_open.                                                *)
THEOREM CallbacksInPlace == Spec => []StandardSlots
<1>1. Init => StandardSlots
  BY DEF Init, StandardSlots
<1>2. StandardSlots /\ [Next]_vars => StandardSlots'
  <2> SUFFICES ASSUME StandardSlots, [Next]_vars PROVE StandardSlots'
    OBVIOUS
  <2>1. CASE fingerprint_compat_open
    <3>1. PICK symbols \in BOOLEAN, missing \in SUBSET (1..14) :
            LET t == [i \in 1..14 |-> IF i \in missing THEN NULL ELSE FlymeSlots[i]]
            IN  \/ OpenFails(t, symbols)
                \/ /\ Complete(t) /\ symbols
                   /\ device' = Remap(t) /\ flyme_hal_handle' = TRUE /\ status' = 0
      BY <2>1 DEF fingerprint_compat_open
    <3> DEFINE t == [i \in 1..14 |-> IF i \in missing THEN NULL ELSE FlymeSlots[i]]
    <3>2. CASE OpenFails(t, symbols)
      BY <3>2 DEF OpenFails, StandardSlots
    <3>3. CASE Complete(t) /\ device' = Remap(t) /\ flyme_hal_handle' = TRUE
      <4>1. \A i \in {1} \union 5..10 : Remap(t)[i] = AospSlots[i]
        BY <3>3, RemapStandard
      <4> QED BY <4>1, <3>3 DEF StandardSlots
    <3> QED BY <3>1, <3>2, <3>3
  <2>2. CASE UNCHANGED <<device, flyme_hal_handle>>
    BY <2>2 DEF StandardSlots
  <2>3. Next => fingerprint_compat_open \/ UNCHANGED <<device, flyme_hal_handle>>
    BY DEF Next, fingerprint_compat_set_notify, flyme_set_notify, SetNotifyFailed, Start,
           WorkerTold, WorkerStops, WorkerTells, fingerprint_compat_cancel, flyme_cancel,
           CancelJoined, Synthesize, fingerprint_compat_enumerate
  <2> QED BY <2>1, <2>2, <2>3 DEF vars
<1> QED BY <1>1, <1>2, PTL DEF Spec
-----------------------------------------------------------------------------
\* The messages of a valid answer: only the last says that none remain.
LEMMA MessagesComplete ==
    ASSUME NEW a \in Answers, Valid(a)
    PROVE  Reports(Messages(a), a)
<1>1. a.count \in Nat
  BY CapacityAssumption DEF Answers
<1>2. CASE a.count = 0
  <2>1. Messages(a) = <<[fid |-> 0, remaining |-> 0]>>
    BY <1>2 DEF Messages
  <2>2. Len(Messages(a)) = 1 /\ DOMAIN Messages(a) = {1}
    BY <2>1
  <2>3. Messages(a)[1].remaining = 0 /\ Messages(a)[1].fid = 0
    BY <2>1
  <2>4. 1..a.count = {}
    BY <1>2
  <2> QED BY <2>2, <2>3, <2>4 DEF Reports
<1>3. CASE a.count # 0
  <2>1. Messages(a) = [i \in 1..a.count |-> [fid |-> a.ids[i], remaining |-> Remaining(a.count, i - 1)]]
    BY <1>3 DEF Messages
  <2>2. DOMAIN Messages(a) = 1..a.count /\ Len(Messages(a)) = a.count
    BY <1>1, <2>1
  <2>3. \A i \in 1..a.count : /\ Messages(a)[i].fid = a.ids[i]
                               /\ Messages(a)[i].remaining = a.count - i
    BY <1>1, <2>1 DEF Remaining
  <2>4. {i \in 1..a.count : Messages(a)[i].remaining = 0} = {a.count}
    BY <1>1, <1>3, <2>3
  <2>5. {Messages(a)[i].fid : i \in 1..a.count} = {a.ids[i] : i \in 1..a.count}
    BY <2>3
  <2> QED BY <2>2, <2>4, <2>5 DEF Reports
<1> QED BY <1>2, <1>3

(* An enumeration that succeeds reports exactly the templates of the       *)
(* trusted environment and ends with the message that says so; one that    *)
(* fails reports none: fingerprint_compat_enumerate.                       *)
THEOREM EnumerationReports == Spec => []EnumerationComplete
<1>1. Init => EnumerationComplete
  BY DEF Init, EnumerationComplete
<1>2. EnumerationComplete /\ Protocol /\ [Next]_vars => EnumerationComplete'
  <2> SUFFICES ASSUME EnumerationComplete, Protocol, [Next]_vars PROVE EnumerationComplete'
    OBVIOUS
  <2>1. CASE fingerprint_compat_enumerate
    <3>1. PICK a \in Answers :
            IF Valid(a) /\ framework_notify # NULL
            THEN Begin("enumerate", a, Messages(a)) /\ status' = 0
            ELSE Begin("enumerate", a, <<>>) /\ status' = -1
      BY <2>1 DEF fingerprint_compat_enumerate
    <3>2. CASE Valid(a) /\ framework_notify # NULL
      <4>1. told' = Messages(a) /\ asked' = a /\ status' = 0
        BY <3>1, <3>2 DEF Begin
      <4>2. Reports(told', asked')
        BY <3>2, <4>1, MessagesComplete
      <4> QED BY <4>1, <4>2 DEF EnumerationComplete
    <3>3. CASE ~(Valid(a) /\ framework_notify # NULL)
      <4>1. told' = <<>> /\ status' = -1
        BY <3>1, <3>3 DEF Begin
      <4> QED BY <4>1 DEF EnumerationComplete
    <3> QED BY <3>2, <3>3
  <2>2. CASE op' # "enumerate"
    BY <2>2 DEF EnumerationComplete
  <2>3. CASE UNCHANGED <<op, told, asked, status>>
    BY <2>3 DEF EnumerationComplete
  <2>4. Next => fingerprint_compat_enumerate \/ op' # "enumerate"
                \/ UNCHANGED <<op, told, asked, status>>
    BY DEF Next, Protocol, Begin, fingerprint_compat_open, fingerprint_compat_set_notify,
           flyme_set_notify, SetNotifyFailed, Start, WorkerTold, WorkerStops, WorkerTells,
           fingerprint_compat_cancel, flyme_cancel, CancelJoined, Synthesize, ghosts
  <2> QED BY <2>1, <2>2, <2>3, <2>4 DEF vars, ghosts
<1>3. CancelInv => Protocol
  BY DEF CancelInv
<1> QED BY <1>1, <1>2, <1>3, InitCancel, NextCancel, PTL DEF Spec
=============================================================================
