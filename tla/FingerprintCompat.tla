-------------------------- MODULE FingerprintCompat --------------------------
(***************************************************************************)
(* The adapter around the vendor's fingerprint HAL                         *)
(* (fingerprint/FingerprintCompat.c): open() moves the vendor's callbacks  *)
(* to the standard slots, cancel() adds the CANCELED message the vendor    *)
(* leaves out, enumerate() reports what the trusted environment holds.     *)
(*                                                                         *)
(* The fingerprint service serves one call at a time; the vendor's worker  *)
(* is the second thread and enters through fingerprint_compat_notify.      *)
(***************************************************************************)
EXTENDS Integers, Sequences, FiniteSets

CONSTANTS
    FLYME_MAX_TEMPLATES,
    Ids,       \* template ids the trusted environment may give, 0 among them
    NULL

ASSUME CapacityAssumption == FLYME_MAX_TEMPLATES \in Nat

VARIABLES
    flyme_hal_handle,   \* the library is loaded
    device,             \* the callback table the service holds, or NULL
    framework_notify,   \* "framework" or NULL
    cancel_in_progress, cancel_notified,
    op, pc, status,     \* the current or last call of the service
    worker,             \* the vendor's thread
    stop,               \* flyme_cancel asked it to end
    notify,             \* the worker's local in fingerprint_compat_notify
    canceled,           \* CANCELED messages since the call began
    told, asked         \* messages of an enumeration; what the vendor said

adapter == <<framework_notify, cancel_in_progress, cancel_notified>>
vendor == <<worker, stop, notify>>
ghosts == <<canceled, told, asked>>
vars == <<flyme_hal_handle, device, adapter, op, pc, status, vendor, ghosts>>

\* The vendor's callback table, and the one the service expects.
FlymeSlots == <<"set_notify", "pre_enroll", "enroll", "post_enroll",
                "screen_off", "screen_on", "lockout", "lockout_reset",
                "get_authenticator_id", "cancel", "enumerate", "remove",
                "set_active_group", "authenticate">>
AospSlots == <<"compat_set_notify", "pre_enroll", "enroll", "post_enroll",
               "get_authenticator_id", "compat_cancel", "compat_enumerate",
               "remove", "set_active_group", "authenticate">>

Answers == [status : {0, -1}, count : 0..(FLYME_MAX_TEMPLATES + 1),
            ids : [1..FLYME_MAX_TEMPLATES -> Ids]]
NoAnswer == [status |-> 0, count |-> 0, ids |-> <<>>]

TypeOK ==
    /\ flyme_hal_handle \in BOOLEAN
    /\ device # NULL => DOMAIN device = 1..14
    /\ framework_notify \in {"framework", NULL} /\ notify \in {"framework", NULL}
    /\ cancel_in_progress \in BOOLEAN /\ cancel_notified \in BOOLEAN
    /\ op \in {"open", "set_notify", "cancel", "enumerate", "start"}
    /\ pc \in {"idle", "vendor", "failed", "joining", "synthesize"} /\ status \in {0, -1}
    /\ worker \in {"none", "scanning", "telling", "telling_last", "telling_canceled"}
    /\ stop \in BOOLEAN /\ canceled \in Nat

Begin(call, answer, messages) ==
    /\ pc = "idle" /\ device # NULL /\ op' = call
    /\ canceled' = 0 /\ asked' = answer /\ told' = messages
-----------------------------------------------------------------------------
(* open()                                                                  *)

\* Mutant: the slots are written one after the other from the table itself,
\* the last first.
RemapInPlace(t) ==
    LET moved == [t EXCEPT ![10] = t[14], ![9] = t[13], ![8] = t[12]]
    IN  [moved EXCEPT ![1] = "compat_set_notify", ![5] = moved[9],
                      ![6] = "compat_cancel", ![7] = "compat_enumerate"]

\* Every source is read before the overlapping slots are written.
Remap(t) ==
    [t EXCEPT ![1] = "compat_set_notify", ![5] = t[9], ![6] = "compat_cancel",
              ![7] = "compat_enumerate", ![8] = t[12], ![9] = t[13], ![10] = t[14]]

Complete(t) == \A i \in {1} \union 9..14 : t[i] # NULL

\* The library, its module, its device or one of its symbols may be missing;
\* the device is then closed and the library unloaded again.
OpenFails(t, symbols) ==
    /\ ~Complete(t) \/ ~symbols
    /\ status' = -1 /\ UNCHANGED <<flyme_hal_handle, device>>

fingerprint_compat_open ==
    /\ pc = "idle" /\ device = NULL
    /\ op' = "open"
    /\ \E symbols \in BOOLEAN, missing \in SUBSET (1..14) :
         /\ Cardinality(missing) <= 1
         /\ LET t == [i \in 1..14 |-> IF i \in missing THEN NULL ELSE FlymeSlots[i]]
            IN  \/ OpenFails(t, symbols)
                \/ /\ Complete(t) /\ symbols
                   /\ device' = Remap(t) /\ flyme_hal_handle' = TRUE /\ status' = 0
    /\ UNCHANGED <<adapter, pc, vendor, ghosts>>
-----------------------------------------------------------------------------
(* set_notify(), and the calls that go straight to the vendor.             *)

fingerprint_compat_set_notify ==
    /\ Begin("set_notify", NoAnswer, <<>>) /\ pc' = "vendor"
    /\ framework_notify' = "framework"
    /\ UNCHANGED <<flyme_hal_handle, device, cancel_in_progress, cancel_notified, status, vendor>>

flyme_set_notify ==
    /\ op = "set_notify" /\ pc = "vendor"
    /\ \/ status' = 0 /\ pc' = "idle"
       \/ status' = -1 /\ pc' = "failed"
    /\ UNCHANGED <<flyme_hal_handle, device, adapter, op, vendor, ghosts>>

SetNotifyFailed ==
    /\ pc = "failed" /\ pc' = "idle"
    /\ framework_notify' = NULL
    /\ UNCHANGED <<flyme_hal_handle, device, cancel_in_progress, cancel_notified, op, status, vendor, ghosts>>

\* enroll() or authenticate() starts the vendor's worker.
Start ==
    /\ Begin("start", NoAnswer, <<>>) /\ worker = "none"
    /\ worker' = "scanning" /\ stop' = FALSE /\ status' = 0
    /\ UNCHANGED <<flyme_hal_handle, device, adapter, pc, notify>>
-----------------------------------------------------------------------------
(* The worker: messages while it scans, a last one, and one at most when   *)
(* it was asked to stop, which is CANCELED.                                *)

\* The locked section of fingerprint_compat_notify.
Notify(isCanceled) ==
    /\ cancel_notified' = (cancel_notified \/ (cancel_in_progress /\ isCanceled))
    /\ notify' = framework_notify

WorkerTells(next) ==
    /\ worker = "scanning" /\ worker' = next
    /\ next = "telling_canceled" => stop
    /\ Notify(next = "telling_canceled")
    /\ UNCHANGED <<flyme_hal_handle, device, framework_notify, cancel_in_progress, op, pc, status, stop, ghosts>>

WorkerTold ==
    /\ worker \in {"telling", "telling_last", "telling_canceled"}
    /\ worker' = IF worker = "telling" THEN "scanning" ELSE "none"
    /\ canceled' = IF worker = "telling_canceled" /\ notify # NULL THEN canceled + 1 ELSE canceled
    /\ notify' = NULL
    /\ UNCHANGED <<flyme_hal_handle, device, adapter, op, pc, status, stop, told, asked>>

WorkerStops ==
    /\ worker = "scanning" /\ stop
    /\ worker' = "none"
    /\ UNCHANGED <<flyme_hal_handle, device, adapter, op, pc, status, stop, notify, ghosts>>
-----------------------------------------------------------------------------
(* cancel()                                                                *)

\* Mutant: only the first cancel starts without a CANCELED seen.
ForgetsNothing == cancel_notified

ClearedNotified == FALSE

fingerprint_compat_cancel ==
    /\ Begin("cancel", NoAnswer, <<>>) /\ pc' = "vendor"
    /\ cancel_in_progress' = TRUE /\ cancel_notified' = ClearedNotified
    /\ UNCHANGED <<flyme_hal_handle, device, framework_notify, status, vendor>>

\* The vendor tells its worker to stop, or fails before it does.
flyme_cancel ==
    /\ op = "cancel" /\ pc = "vendor"
    /\ \/ status' = 0 /\ stop' = TRUE
       \/ status' = -1 /\ UNCHANGED stop
    /\ pc' = "joining"
    /\ UNCHANGED <<flyme_hal_handle, device, adapter, op, worker, notify, ghosts>>

\* flyme_cancel returns, with the worker joined; the second locked section.
CancelJoined ==
    /\ pc = "joining" /\ (status = 0 => worker = "none")
    /\ cancel_in_progress' = FALSE
    /\ pc' = IF status = 0 /\ ~cancel_notified /\ framework_notify # NULL
             THEN "synthesize" ELSE "idle"
    /\ UNCHANGED <<flyme_hal_handle, device, framework_notify, cancel_notified, op, status, vendor, ghosts>>

Synthesize ==
    /\ pc = "synthesize" /\ pc' = "idle"
    /\ canceled' = canceled + 1
    /\ UNCHANGED <<flyme_hal_handle, device, adapter, op, status, vendor, told, asked>>
-----------------------------------------------------------------------------
(* enumerate(); nothing but the vendor's private lock is shared.           *)

Valid(a) ==
    /\ a.status = 0 /\ a.count <= FLYME_MAX_TEMPLATES
    /\ \A i \in 1..a.count : a.ids[i] # 0 /\ \A j \in 1..(i - 1) : a.ids[i] # a.ids[j]

\* Mutant: remaining_templates counts the current one.
RemainingIncluded(count, index) == count - index

Remaining(count, index) == count - index - 1

Messages(a) ==
    IF a.count = 0 THEN <<[fid |-> 0, remaining |-> 0]>>
    ELSE [i \in 1..a.count |-> [fid |-> a.ids[i], remaining |-> Remaining(a.count, i - 1)]]

fingerprint_compat_enumerate ==
    /\ \E a \in Answers :
         IF Valid(a) /\ framework_notify # NULL
         THEN Begin("enumerate", a, Messages(a)) /\ status' = 0
         ELSE Begin("enumerate", a, <<>>) /\ status' = -1
    /\ UNCHANGED <<flyme_hal_handle, device, adapter, pc, vendor>>
-----------------------------------------------------------------------------
Init ==
    /\ flyme_hal_handle = FALSE /\ device = NULL
    /\ framework_notify = NULL /\ cancel_in_progress = FALSE /\ cancel_notified = FALSE
    /\ op = "open" /\ pc = "idle" /\ status = -1
    /\ worker = "none" /\ stop = FALSE /\ notify = NULL
    /\ canceled = 0 /\ told = <<>> /\ asked = NoAnswer

Next ==
    \/ fingerprint_compat_open
    \/ fingerprint_compat_set_notify \/ flyme_set_notify \/ SetNotifyFailed
    \/ Start \/ WorkerTold \/ WorkerStops
    \/ \E next \in {"telling", "telling_last", "telling_canceled"} : WorkerTells(next)
    \/ fingerprint_compat_cancel \/ flyme_cancel \/ CancelJoined \/ Synthesize
    \/ fingerprint_compat_enumerate

Spec == Init /\ [][Next]_vars
-----------------------------------------------------------------------------
(* A cancel that succeeds leaves no worker and has told the registered     *)
(* framework CANCELED exactly once, whether the vendor's worker sent it,   *)
(* ended without it or was not running; CANCELED is told at no other time. *)
CanceledExactlyOnce ==
    /\ op # "cancel" => canceled = 0
    /\ op = "cancel" /\ pc = "idle" =>
          IF status = 0 /\ framework_notify # NULL
          THEN canceled = 1 /\ worker = "none"
          ELSE canceled = 0

\* Exactly the last message says that none remain, and the ids are the vendor's.
Reports(messages, a) ==
    /\ {i \in DOMAIN messages : messages[i].remaining = 0} = {Len(messages)}
    /\ {messages[i].fid : i \in DOMAIN messages} \ {0} = {a.ids[i] : i \in 1..a.count} \ {0}

(* A framework that collects the ids of an enumeration until a message     *)
(* says that none remain has exactly the templates of the trusted          *)
(* environment and gets no message after that; an enumeration that fails   *)
(* tells nothing.                                                          *)
EnumerationComplete ==
    op = "enumerate" => IF status = 0 THEN Reports(told, asked) ELSE told = <<>>

(* A device is handed out only with the library behind it loaded and every *)
(* callback the adapter moves in its standard slot.                        *)
StandardSlots ==
    device # NULL =>
        /\ flyme_hal_handle
        /\ \A i \in {1} \union 5..10 : device[i] = AospSlots[i]
=============================================================================
