----------------------------- MODULE MCSmallHals -----------------------------
(* Lights, LegacyPower, UsbSerial and IncrementalInstaller share nothing;  *)
(* one run checks each of them in the behaviours of its unit.              *)
EXTENDS Lights, LegacyPower, UsbSerial, IncrementalInstaller

VARIABLE unit

MCInit ==
    /\ LightsInit /\ LegacyInit /\ UsbInit /\ InstallInit
    /\ unit \in {"lights", "power", "usb", "install"}
    /\ unit # "power" => hotplug = [n \in Nodes |-> FALSE]
    /\ unit # "install" => hashes /\ first = [k \in 1..Rows |-> "base"]

LightsStep == unit = "lights" /\ LightsNext /\ UNCHANGED <<legacyVars, usbVars, installVars, unit>>
LegacyStep == unit = "power" /\ LegacyNext /\ UNCHANGED <<lightsVars, usbVars, installVars, unit>>
UsbStep == unit = "usb" /\ UsbNext /\ UNCHANGED <<lightsVars, legacyVars, installVars, unit>>
InstallStep == unit = "install" /\ InstallNext /\ UNCHANGED <<lightsVars, legacyVars, usbVars, unit>>

MCSpec == MCInit /\ [][LightsStep \/ LegacyStep \/ UsbStep \/ InstallStep]_<<lightsVars, legacyVars,
              usbVars, installVars, unit>>

\* Dark, the dimmest blue, white, white that blinks, and a blink without an end.
Light(level, timed, off) == [color |-> level, timed |-> timed, on |-> 1, off |-> off]
MCLightStates == {Black, Light(<<0, 0, 1>>, FALSE, 0), Light(<<255, 255, 255>>, FALSE, 1),
                  Light(<<255, 255, 255>>, TRUE, 1), Light(<<0, 0, 1>>, TRUE, 0)}

\* One short of the shortest, the shortest, the longest, one more, and a
\* character that is not allowed.
MCSlots == {[length |-> n, clean |-> c, name |-> "serial"] : n \in {2, 4}, c \in BOOLEAN}
           \union {[length |-> n, clean |-> TRUE, name |-> "bad"] : n \in {1, 5}}
==============================================================================
