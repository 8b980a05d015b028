------------------------------ MODULE UsbSerial ------------------------------
(***************************************************************************)
(* The helper that installs the factory serial (usb/m86_usb_serial.cpp)    *)
(* and, beside it, init switching compositions (init.m86.usb.rc): both     *)
(* disable and enable the one gadget.  A gadget shows its host the serial  *)
(* that was in iSerial when it was enabled.                                *)
(***************************************************************************)
EXTENDS Integers, FiniteSets

CONSTANTS
    kRetryCount,
    kMinSerialLength, kMaxSerialLength,
    Slots,          \* what one of the three paths may hold: [length, clean, name]
    MaxSwitches     \* bound on the compositions init sets

ASSUME SerialAssumption == kMinSerialLength \in Nat /\ kMaxSerialLength \in Nat

VARIABLES
    helper,         \* where main() is; "done", "failed" and "killed" end it
    attempt, serial, was_enabled,
    enable, iSerial,    \* the gadget's nodes
    bound,          \* the serial the host sees, "none" while disabled
    ready,          \* vendor.m86.identity.ready
    switching,      \* init is between enable 0 and enable 1
    switches,
    overtaken,      \* the helper took an enabled gadget for a disabled one: enable could
                    \* not be read, or init set it between the look and the write
    stuck           \* the helper's last write of enable failed

usbVars == <<helper, attempt, serial, was_enabled, enable, iSerial, bound, ready,
             switching, switches, overtaken, stuck>>
gadget == <<enable, iSerial, bound>>
initVars == <<switching, switches>>
Ended == {"done", "failed", "killed"}

ParsePrivateSerial(slot) ==
    slot.length \in kMinSerialLength..kMaxSerialLength /\ slot.clean

SetEnable(value) ==
    /\ enable' = value
    /\ bound' = IF ~value THEN "none" ELSE IF enable THEN bound ELSE iSerial
    /\ UNCHANGED iSerial

\* found is what the paths that can be opened and read to the end hold.
ReadPrivateSerial(found) == {slot \in found : ParsePrivateSerial(slot)}

\* One of kRetryCount attempts.
TryToRead(found) ==
    /\ helper = "read"
    /\ \/ \E slot \in ReadPrivateSerial(found) :
            serial' = slot.name /\ helper' = "wait" /\ attempt' = 0
       \/ /\ ReadPrivateSerial(found) = {}
          /\ attempt' = attempt + 1 /\ UNCHANGED serial
          /\ helper' = IF attempt' = kRetryCount THEN "failed" ELSE "read"
    /\ UNCHANGED <<was_enabled, gadget, ready, initVars, overtaken, stuck>>

WaitForUsbGadget(present) ==
    /\ helper = "wait"
    /\ IF present THEN helper' = "look" /\ UNCHANGED attempt
       ELSE /\ attempt' = attempt + 1
            /\ helper' = IF attempt' = kRetryCount THEN "failed" ELSE "wait"
    /\ UNCHANGED <<serial, was_enabled, gadget, ready, initVars, overtaken, stuck>>

\* Mutant: the serial is written without a rebind.
EnabledIgnored(readable) == FALSE

\* A node that cannot be read counts as disabled.
EnabledSeen(readable) == readable /\ enable

Look(readable) ==
    /\ helper = "look"
    /\ was_enabled' = EnabledSeen(readable)
    /\ helper' = IF was_enabled' THEN "disable" ELSE "publish"
    /\ overtaken' = (enable /\ ~readable)
    /\ UNCHANGED <<attempt, serial, gadget, ready, initVars, stuck>>

Disable(ok) ==
    /\ helper = "disable"
    /\ IF ok THEN SetEnable(FALSE) /\ helper' = "publish" ELSE helper' = "failed" /\ UNCHANGED gadget
    /\ UNCHANGED <<attempt, serial, was_enabled, ready, initVars, overtaken, stuck>>

AfterFailedPublish == IF was_enabled THEN "restore" ELSE "failed"

Publish(ok) ==
    /\ helper = "publish"
    /\ \/ ok /\ iSerial' = serial /\ helper' = (IF was_enabled THEN "enable" ELSE "announce")
       \/ ~ok /\ UNCHANGED iSerial /\ helper' = AfterFailedPublish
    /\ UNCHANGED <<attempt, serial, was_enabled, enable, bound, ready, initVars, overtaken, stuck>>

Enable(ok) ==
    /\ helper \in {"enable", "restore"}
    /\ IF ok THEN SetEnable(TRUE) ELSE UNCHANGED gadget
    /\ stuck' = ~ok
    /\ helper' = IF ok /\ helper = "enable" THEN "announce" ELSE "failed"
    /\ UNCHANGED <<attempt, serial, was_enabled, ready, initVars, overtaken>>

Announce(ok) ==
    /\ helper = "announce"
    /\ ready' = ok /\ helper' = IF ok THEN "done" ELSE "failed"
    /\ UNCHANGED <<attempt, serial, was_enabled, gadget, initVars, overtaken, stuck>>

\* The service is oneshot: nobody starts it again.
Killed ==
    /\ helper \notin Ended /\ helper' = "killed"
    /\ UNCHANGED <<attempt, serial, was_enabled, gadget, ready, initVars, overtaken, stuck>>

SwitchBegins ==
    /\ ~switching /\ switches < MaxSwitches
    /\ switching' = TRUE /\ switches' = switches + 1
    /\ SetEnable(FALSE)
    /\ UNCHANGED <<helper, attempt, serial, was_enabled, ready, overtaken, stuck>>

SwitchEnds ==
    /\ switching /\ switching' = FALSE
    /\ SetEnable(TRUE)
    /\ overtaken' = (overtaken \/ helper = "publish")
    /\ stuck' = FALSE
    /\ UNCHANGED <<helper, attempt, serial, was_enabled, ready, switches>>

UsbInit ==
    /\ helper = "read" /\ attempt = 0 /\ serial = "" /\ was_enabled = FALSE
    /\ enable = FALSE /\ iSerial = "boot" /\ bound = "none" /\ ready = FALSE
    /\ switching = FALSE /\ switches = 0 /\ overtaken = FALSE /\ stuck = FALSE

UsbNext ==
    \/ \E found \in SUBSET Slots : Cardinality(found) <= 3 /\ TryToRead(found)
    \/ \E ok \in BOOLEAN : WaitForUsbGadget(ok) \/ Look(ok) \/ Disable(ok) \/ Publish(ok)
                           \/ Enable(ok) \/ Announce(ok)
    \/ Killed \/ SwitchBegins \/ SwitchEnds

UsbSpec == UsbInit /\ [][UsbNext]_usbVars
------------------------------------------------------------------------------
(* Once the identity is announced the gadget carries a serial of the       *)
(* allowed form, and the host sees it, unless init enabled the gadget      *)
(* between the helper's look at it and the helper's write, or the helper   *)
(* could not look.                                                         *)
IdentityPublished ==
    ready => /\ \E slot \in Slots : /\ slot.name = iSerial /\ slot.clean
                                    /\ slot.length >= kMinSerialLength
                                    /\ slot.length <= kMaxSerialLength
             /\ bound \in {"none", iSerial} \/ overtaken

(* A composition that init has set stays connected: when neither of the    *)
(* two is in the middle of its work the gadget is enabled, unless the      *)
(* helper was killed or could not write enable.                            *)
GadgetBack ==
    (~switching /\ switches > 0 /\ helper \in {"done", "failed"}) => enable \/ stuck

(* What the helper promises whatever init does beside it: both of the      *)
(* above.                                                                  *)
SerialInstalled == IdentityPublished /\ GadgetBack
==============================================================================
