------------------------- MODULE SmallComponentProofs -------------------------
(* The small components, which share nothing with each other: Lights,      *)
(* LegacyPower, UsbSerial, IncrementalInstaller, MbackKeys and             *)
(* MbackMigration, each for every value of its constants.                  *)
EXTENDS Lights, LegacyPower, UsbSerial, IncrementalInstaller, MbackKeys, MbackMigration,
        FiniteSetTheorems, TLAPS

-----------------------------------------------------------------------------
(* Lights: the indicator follows the three states unless its write failed. *)
IndicatorInv ==
    /\ shown \in [Shared -> LightState]
    /\ ~stale => indicator = update_indicator(shown)

\* Every light has a brightness below the modes, and a lit one is not dark.
LEMMA BrightnessBound ==
    ASSUME NEW s \in LightState
    PROVE  rgb_to_brightness(s) \in 0..255 /\ (is_lit(s) => rgb_to_brightness(s) > 0)
<1>1. s.color[1] \in 0..255 /\ s.color[2] \in 0..255 /\ s.color[3] \in 0..255
  BY DEF LightState
<1>2. ASSUME NEW x \in Int, 0 <= x, x <= 65280
      PROVE  x \div 256 \in Int /\ 0 <= x \div 256 /\ x \div 256 <= 255
  BY <1>2
<1>3. Weighted(s) \in Int /\ 0 <= Weighted(s) /\ Weighted(s) <= 255
  <2> DEFINE r == s.color[1]
             g == s.color[2]
             b == s.color[3]
             x == 77 * r + 150 * g + 29 * b
  <2>1. x \in Int /\ 0 <= x /\ x <= 65280
    <3>1. r \in 0..255 /\ g \in 0..255 /\ b \in 0..255
      BY <1>1
    <3> HIDE DEF r, g, b
    <3> QED BY <3>1
  <2> HIDE DEF x
  <2>2. x \div 256 \in Int /\ 0 <= x \div 256 /\ x \div 256 <= 255
    BY <1>2, <2>1
  <2> QED BY <2>2 DEF Weighted, x
<1> QED BY <1>3 DEF rgb_to_brightness

\* The mode and the brightness can be told apart in the value that is written.
LEMMA EncodedMode ==
    ASSUME NEW s \in LightState, NEW battery \in BOOLEAN
    PROVE  /\ ~is_lit(s) => encode_indicator(s, battery) = 0
           /\ is_lit(s) =>
                /\ encode_indicator(s, battery) % 256 > 0
                /\ 256 * (encode_indicator(s, battery) \div 256) =
                     IF s.timed /\ s.on > 0 /\ s.off > 0 THEN M86_LED_MODE_TIMED_BLINK
                     ELSE IF battery THEN M86_LED_MODE_BREATH ELSE M86_LED_MODE_CURRENT
<1> DEFINE b == rgb_to_brightness(s)
<1>1. b \in 0..255 /\ (is_lit(s) => b > 0)
  BY BrightnessBound
<1> HIDE DEF b
<1>2. \A m \in {256, 512, 1024} : (m + b) % 256 = b /\ 256 * ((m + b) \div 256) = m
  BY <1>1
<1>3. is_lit(s) => \E m \in {256, 512, 1024} :
        /\ encode_indicator(s, battery) = m + b
        /\ m = IF s.timed /\ s.on > 0 /\ s.off > 0 THEN M86_LED_MODE_TIMED_BLINK
               ELSE IF battery THEN M86_LED_MODE_BREATH ELSE M86_LED_MODE_CURRENT
  BY DEF encode_indicator, b, M86_LED_MODE_TIMED_BLINK, M86_LED_MODE_BREATH, M86_LED_MODE_CURRENT
<1>4. ~is_lit(s) => encode_indicator(s, battery) = 0
  BY DEF encode_indicator
<1> QED BY <1>1, <1>2, <1>3, <1>4

LEMMA IndicatorStep == IndicatorInv /\ [LightsNext]_lightsVars => IndicatorInv'
<1> SUFFICES ASSUME IndicatorInv, [LightsNext]_lightsVars PROVE IndicatorInv'
  OBVIOUS
<1>1. ASSUME NEW s \in LightStates, NEW name \in Shared, set_light(name, s) PROVE IndicatorInv'
  <2>1. shown' \in [Shared -> LightState]
    BY <1>1, LightsAssumption DEF IndicatorInv, set_light
  <2>2. ~stale' => indicator' = update_indicator(shown')
    <3>1. PICK w \in write_int(indicator, update_indicator(shown')) :
            indicator' = w.holds /\ stale' = ~w.ok
      BY <1>1 DEF set_light
    <3>2. w.holds = update_indicator(shown') \/ w.ok = FALSE
      BY <3>1 DEF write_int
    <3> QED BY <3>1, <3>2
  <2> QED BY <2>1, <2>2 DEF IndicatorInv, update_indicator, Winner
<1>2. ASSUME UNCHANGED <<shown, indicator, stale>> PROVE IndicatorInv'
  BY <1>2 DEF IndicatorInv, update_indicator, Winner
<1>3. ASSUME NEW s \in LightStates, set_light_backlight(s) PROVE IndicatorInv'
  BY <1>2, <1>3 DEF set_light_backlight
<1> QED BY <1>1, <1>2, <1>3 DEF LightsNext, lightsVars

LEMMA IndicatorShows == IndicatorInv => IndicatorTellsMostUrgent
<1> SUFFICES ASSUME IndicatorInv, ~stale PROVE IndicatorTellsMostUrgent
  BY DEF IndicatorTellsMostUrgent
<1> DEFINE w == Winner(shown)
           lit == {name \in Shared : is_lit(shown[name])}
<1>1. w \in Shared /\ shown[w] \in LightState
  BY DEF IndicatorInv, Winner, Shared
<1>2. indicator = encode_indicator(shown[w], w = "battery")
  BY DEF IndicatorInv, update_indicator
<1>3. w = IF "notifications" \in lit THEN "notifications"
          ELSE IF "attention" \in lit THEN "attention" ELSE "battery"
  BY DEF Winner, Shared
<1>4. lit = {} <=> ~is_lit(shown[w])
  BY <1>3 DEF Shared
<1>5. w = "battery" => lit \subseteq {"battery"}
  BY <1>3 DEF Shared
<1>6. /\ ~is_lit(shown[w]) => indicator = 0
      /\ is_lit(shown[w]) =>
           /\ indicator % 256 > 0
           /\ 256 * (indicator \div 256) =
                IF shown[w].timed /\ shown[w].on > 0 /\ shown[w].off > 0
                THEN M86_LED_MODE_TIMED_BLINK
                ELSE IF w = "battery" THEN M86_LED_MODE_BREATH ELSE M86_LED_MODE_CURRENT
  <2> DEFINE s == shown[w]
             battery == w = "battery"
  <2>1. s \in LightState /\ battery \in BOOLEAN /\ indicator = encode_indicator(s, battery)
    BY <1>1, <1>2
  <2> HIDE DEF s, battery, w
  <2>2. /\ ~is_lit(s) => indicator = 0
        /\ is_lit(s) =>
             /\ indicator % 256 > 0
             /\ 256 * (indicator \div 256) =
                  IF s.timed /\ s.on > 0 /\ s.off > 0 THEN M86_LED_MODE_TIMED_BLINK
                  ELSE IF battery THEN M86_LED_MODE_BREATH ELSE M86_LED_MODE_CURRENT
    BY <2>1, EncodedMode
  <2> QED BY <2>2 DEF s, battery
<1> HIDE DEF w, lit
<1>7. CASE lit = {}
  BY <1>4, <1>6, <1>7 DEF IndicatorTellsMostUrgent, lit, M86_LED_MODE_TIMED_BLINK,
     M86_LED_MODE_BREATH
<1>8. CASE lit # {}
  <2>1. /\ indicator # 0 /\ indicator % 256 > 0
        /\ 256 * (indicator \div 256) \in {M86_LED_MODE_CURRENT, M86_LED_MODE_BREATH,
                                           M86_LED_MODE_TIMED_BLINK}
    BY <1>4, <1>6, <1>8
  <2>2. 256 * (indicator \div 256) = M86_LED_MODE_BREATH => lit = {"battery"}
    BY <1>4, <1>5, <1>6, <1>8
       DEF M86_LED_MODE_TIMED_BLINK, M86_LED_MODE_BREATH, M86_LED_MODE_CURRENT
  <2>3. 256 * (indicator \div 256) = M86_LED_MODE_TIMED_BLINK => shown[w].timed
    BY <1>4, <1>6, <1>8
       DEF M86_LED_MODE_TIMED_BLINK, M86_LED_MODE_BREATH, M86_LED_MODE_CURRENT
  <2> QED BY <1>3, <1>8, <2>1, <2>2, <2>3 DEF IndicatorTellsMostUrgent, lit
<1> QED BY <1>7, <1>8

\* Whatever the order of the calls of the three devices and of failed writes:
\* the indicator shows the most urgent light with the mode that belongs to it
\* (update_indicator_locked, encode_indicator).
THEOREM IndicatorCorrect == LightsSpec => []IndicatorTellsMostUrgent
<1>1. LightsInit => IndicatorInv
  <2>1. Black \in LightState
    BY DEF Black, LightState
  <2> QED BY <2>1 DEF LightsInit, IndicatorInv
<1> QED BY <1>1, IndicatorStep, IndicatorShows, PTL DEF LightsSpec
-----------------------------------------------------------------------------
(* LegacyPower: in low power every hint that was under way has two pulses  *)
(* to its account, written already or still to come.                       *)
Pulsing(n) == {t \in Callers : pulses[t] >= n}

PulsesCounted ==
    low_power => late + Cardinality(Pulsing(1)) + Cardinality(Pulsing(2)) <= 2 * owed

HotplugFollows == \A n \in Nodes \ refused : hotplug[n] = low_power

LegacyInv ==
    /\ low_power \in BOOLEAN /\ pulses \in [Callers -> 0..2] /\ late \in Nat /\ owed \in Nat
    /\ PulsesCounted /\ HotplugFollows

\* Only the hint t changes its count.
LEMMA PulsingCounts ==
    ASSUME LegacyInv
    PROVE  /\ IsFiniteSet(Pulsing(1)) /\ IsFiniteSet(Pulsing(2))
           /\ Cardinality(Pulsing(1)) \in Nat /\ Cardinality(Pulsing(2)) \in Nat
           /\ Cardinality(Pulsing(2)) <= Cardinality(Pulsing(1))
<1>1. Pulsing(1) \subseteq Callers /\ Pulsing(2) \subseteq Pulsing(1)
  BY DEF Pulsing, LegacyInv
<1>2. IsFiniteSet(Pulsing(1))
  BY <1>1, CallersAssumption, FS_Subset
<1>3. IsFiniteSet(Pulsing(2)) /\ Cardinality(Pulsing(2)) <= Cardinality(Pulsing(1))
  BY <1>1, <1>2, FS_Subset
<1> QED BY <1>2, <1>3, FS_CardinalityType

LEMMA HotplugWritten ==
    ASSUME NEW value \in BOOLEAN, WriteNodes(value), low_power' = value
    PROVE  HotplugFollows'
BY DEF WriteNodes, HotplugFollows

LEMMA LegacyStep == LegacyInv /\ [LegacyNext]_legacyVars => LegacyInv'
<1> SUFFICES ASSUME LegacyInv, [LegacyNext]_legacyVars PROVE LegacyInv'
  OBVIOUS
<1> USE DEF LegacyInv
<1>1. CASE m86_power_init
  <2>1. HotplugFollows'
    BY <1>1, HotplugWritten DEF m86_power_init
  <2> QED BY <1>1, <2>1 DEF m86_power_init, PulsesCounted
<1>2. ASSUME NEW saving \in BOOLEAN, m86_set_low_power(saving) PROVE LegacyInv'
  <2>1. HotplugFollows'
    BY <1>2, HotplugWritten DEF m86_set_low_power
  <2>2. Pulsing(1) = {t \in Callers : pulses[t] > 0}
    BY DEF Pulsing
  <2>3. owed' = Cardinality(Pulsing(1)) /\ late' = 0 /\ UNCHANGED pulses
    BY <1>2, <2>2 DEF m86_set_low_power
  <2>4. PulsesCounted'
    BY <2>3, PulsingCounts DEF PulsesCounted, Pulsing
  <2> QED BY <1>2, <2>1, <2>3, <2>4, PulsingCounts DEF m86_set_low_power
<1>3. ASSUME NEW t \in Callers, Interaction(t) PROVE LegacyInv'
  <2>1. UNCHANGED <<low_power, hotplug, refused, owed, late>>
        /\ pulses' = [pulses EXCEPT ![t] = PulsesWanted] /\ pulses[t] = 0
    BY <1>3 DEF Interaction
  <2>2. low_power => pulses' = pulses
    BY <2>1 DEF PulsesWanted
  <2>3. PulsesCounted'
    BY <2>1, <2>2 DEF PulsesCounted, Pulsing
  <2> QED BY <2>1, <2>3 DEF PulsesWanted, HotplugFollows
<1>4. ASSUME NEW t \in Callers, Pulse(t) PROVE LegacyInv'
  <2>1. /\ UNCHANGED <<low_power, hotplug, refused, owed>> /\ pulses[t] \in {1, 2}
        /\ pulses' = [pulses EXCEPT ![t] = @ - 1]
        /\ late' = IF low_power THEN late + 1 ELSE late
    BY <1>4 DEF Pulse
  <2>2. CASE pulses[t] = 1
    <3>1. Pulsing(1)' = Pulsing(1) \ {t} /\ Pulsing(2)' = Pulsing(2) /\ t \in Pulsing(1)
      BY <2>1, <2>2 DEF Pulsing
    <3>2. Cardinality(Pulsing(1)') = Cardinality(Pulsing(1)) - 1
      BY <3>1, PulsingCounts, FS_RemoveElement
    <3> QED BY <2>1, <3>1, <3>2, PulsingCounts DEF PulsesCounted, HotplugFollows
  <2>3. CASE pulses[t] = 2
    <3>1. Pulsing(2)' = Pulsing(2) \ {t} /\ Pulsing(1)' = Pulsing(1) /\ t \in Pulsing(2)
      BY <2>1, <2>3 DEF Pulsing
    <3>2. Cardinality(Pulsing(2)') = Cardinality(Pulsing(2)) - 1
      BY <3>1, PulsingCounts, FS_RemoveElement
    <3> QED BY <2>1, <3>1, <3>2, PulsingCounts DEF PulsesCounted, HotplugFollows
  <2> QED BY <2>1, <2>2, <2>3
<1>5. CASE UNCHANGED legacyVars
  BY <1>5 DEF legacyVars, PulsesCounted, Pulsing, HotplugFollows
<1> QED BY <1>1, <1>2, <1>3, <1>4, <1>5 DEF LegacyNext

\* However many threads send hints: after low power was set they pulse at most
\* twice for every hint that was under way, and a hotplug node differs from
\* the mode only if its last write failed (m86_set_low_power, m86_power_hint).
THEOREM LowPowerHolds == LegacySpec => []LowPowerSaves
<1>1. LegacyInit => LegacyInv
  <2> SUFFICES ASSUME LegacyInit PROVE LegacyInv
    OBVIOUS
  <2>1. HotplugFollows /\ PulsesCounted
    BY DEF LegacyInit, HotplugFollows, PulsesCounted
  <2>2. low_power \in BOOLEAN
    BY DEF LegacyInit
  <2>3. pulses \in [Callers -> 0..2] /\ late \in Nat /\ owed \in Nat
    BY DEF LegacyInit
  <2> QED BY <2>1, <2>2, <2>3 DEF LegacyInv
<1>2. LegacyInv => LowPowerSaves
  BY PulsingCounts DEF LegacyInv, PulsesCounted, HotplugFollows, LowPowerSaves
<1> QED BY <1>1, <1>2, LegacyStep, PTL DEF LegacySpec
-----------------------------------------------------------------------------
(* UsbSerial: what each label of main() may count on, whatever init does   *)
(* beside it.                                                              *)
Allowed(name) ==
    \E slot \in Slots : /\ slot.name = name /\ slot.clean
                        /\ slot.length >= kMinSerialLength /\ slot.length <= kMaxSerialLength

UsbTypeOK ==
    /\ helper \in {"read", "wait", "look", "disable", "publish", "enable", "restore", "announce"}
                  \union Ended
    /\ was_enabled \in BOOLEAN /\ enable \in BOOLEAN /\ ready \in BOOLEAN
    /\ switching \in BOOLEAN /\ overtaken \in BOOLEAN /\ stuck \in BOOLEAN /\ switches \in Nat

SerialHeld ==
    /\ helper \notin {"read"} \union Ended => Allowed(serial)
    /\ helper \in {"enable", "announce"} => iSerial = serial
    /\ ready => helper = "done" /\ Allowed(iSerial)

BindingForeseen ==
    /\ ~enable => bound = "none"
    /\ helper = "publish" => bound = "none" \/ overtaken
    /\ helper \in {"enable", "announce", "done"} => bound \in {"none", iSerial} \/ overtaken

\* A gadget that init enabled is off only in the hands of a helper that
\* remembers to enable it again.
DisabledByHelper ==
    /\ ~switching /\ switches > 0 /\ ~enable =>
         \/ stuck \/ helper = "killed"
         \/ helper = "publish" /\ was_enabled
         \/ helper \in {"enable", "restore"}
    /\ helper = "disable" => was_enabled

UsbInv == UsbTypeOK /\ SerialHeld /\ BindingForeseen /\ DisabledByHelper

\* What the nodes of the gadget do when somebody writes enable.
LEMMA Binding ==
    ASSUME UsbInv, NEW value \in BOOLEAN, SetEnable(value)
    PROVE  /\ enable' = value /\ iSerial' = iSerial /\ (~value => bound' = "none")
           /\ value => bound' = bound \/ bound' = iSerial
BY DEF SetEnable

LEMMA HelperStep ==
    ASSUME UsbInv, NEW ok \in BOOLEAN,
           Look(ok) \/ Disable(ok) \/ Publish(ok) \/ Enable(ok) \/ Announce(ok)
    PROVE  UsbInv'
<1> USE DEF UsbInv, UsbTypeOK, SerialHeld, BindingForeseen, DisabledByHelper, Ended, gadget,
            initVars
<1>0. Allowed(serial) /\ UNCHANGED serial
  BY DEF Look, Disable, Publish, Enable, Announce
<1>1. \A name : Allowed(name)' <=> Allowed(name)
  BY DEF Allowed
<1>2. CASE Look(ok)
  BY <1>0, <1>1, <1>2 DEF Look, EnabledSeen
<1>3. CASE Disable(ok)
  BY <1>0, <1>1, <1>3, Binding DEF Disable
<1>4. CASE Publish(ok)
  BY <1>0, <1>1, <1>4 DEF Publish, AfterFailedPublish
<1>5. CASE Enable(ok)
  <2>1. CASE ok
    <3>1. SetEnable(TRUE) /\ stuck' = FALSE
          /\ helper' = (IF helper = "enable" THEN "announce" ELSE "failed")
          /\ UNCHANGED <<serial, was_enabled, ready, initVars, overtaken>>
          /\ helper \in {"enable", "restore"}
      BY <1>5, <2>1 DEF Enable
    <3> QED BY <1>0, <1>1, <3>1, Binding
  <2>2. CASE ~ok
    <3>1. UNCHANGED gadget /\ stuck' = TRUE /\ helper' = "failed"
          /\ UNCHANGED <<serial, was_enabled, ready, initVars, overtaken>>
          /\ helper \in {"enable", "restore"}
      BY <1>5, <2>2 DEF Enable
    <3> QED BY <1>0, <1>1, <3>1
  <2> QED BY <2>1, <2>2
<1>6. CASE Announce(ok)
  BY <1>0, <1>1, <1>6 DEF Announce
<1> QED BY <1>2, <1>3, <1>4, <1>5, <1>6

LEMMA UsbStep == UsbInv /\ [UsbNext]_usbVars => UsbInv'
<1> SUFFICES ASSUME UsbInv, [UsbNext]_usbVars PROVE UsbInv'
  OBVIOUS
<1> USE DEF UsbInv, UsbTypeOK, SerialHeld, BindingForeseen, DisabledByHelper, Ended, gadget,
            initVars
<1>1. \A name : Allowed(name)' <=> Allowed(name)
  BY DEF Allowed
<1>2. ASSUME NEW found \in SUBSET Slots, TryToRead(found) PROVE UsbInv'
  <2>1. CASE helper' = "wait"
    <3>1. PICK slot \in ReadPrivateSerial(found) : serial' = slot.name
      BY <1>2, <2>1 DEF TryToRead
    <3>2. Allowed(serial')
      BY <3>1, SerialAssumption DEF ReadPrivateSerial, ParsePrivateSerial, Allowed
    <3> QED BY <1>1, <1>2, <2>1, <3>2 DEF TryToRead
  <2>2. CASE helper' # "wait"
    BY <1>1, <1>2, <2>2 DEF TryToRead
  <2> QED BY <2>1, <2>2
<1>3. ASSUME NEW ok \in BOOLEAN, WaitForUsbGadget(ok) PROVE UsbInv'
  BY <1>1, <1>3 DEF WaitForUsbGadget
<1>4. CASE Killed
  BY <1>1, <1>4 DEF Killed
<1>5. CASE SwitchBegins
  <2>1. /\ SetEnable(FALSE) /\ switching' = TRUE /\ switches' = switches + 1
        /\ UNCHANGED <<helper, serial, was_enabled, ready, overtaken, stuck>>
    BY <1>5 DEF SwitchBegins
  <2>2. enable' = FALSE /\ iSerial' = iSerial /\ bound' = "none"
    BY <2>1 DEF SetEnable
  <2>3. UsbTypeOK'
    <3>1. switches' \in Nat
      BY <2>1
    <3> QED BY <2>1, <2>2, <3>1, Zenon
  <2>4. SerialHeld' /\ BindingForeseen'
    BY <1>1, <2>1, <2>2
  <2>5. DisabledByHelper'
    BY <2>1
  <2> QED BY <2>3, <2>4, <2>5
<1>6. CASE SwitchEnds
  <2>1. /\ SetEnable(TRUE) /\ switching' = FALSE /\ stuck' = FALSE
        /\ UNCHANGED <<helper, serial, was_enabled, ready, switches>>
        /\ overtaken' \in BOOLEAN /\ (overtaken \/ helper = "publish" => overtaken')
    BY <1>6 DEF SwitchEnds
  <2> QED BY <1>1, <2>1, Binding
<1>7. CASE UNCHANGED usbVars
  BY <1>1, <1>7 DEF usbVars
<1> QED BY <1>2, <1>3, <1>4, <1>5, <1>6, <1>7, HelperStep DEF UsbNext

\* Wherever init switches the composition beside the helper and whichever
\* write fails: an announced identity is an allowed serial, which the host sees
\* unless init overtook the helper, and the gadget is left disabled only by a
\* failed write or a death (main of m86_usb_serial.cpp).
THEOREM SerialSafe == UsbSpec => []SerialInstalled
<1>1. UsbInit => UsbInv
  <2> SUFFICES ASSUME UsbInit PROVE UsbInv
    OBVIOUS
  <2>1. UsbTypeOK
    <3>1. switches \in Nat
      BY DEF UsbInit
    <3> QED BY <3>1, Zenon DEF UsbInit, UsbTypeOK
  <2>2. SerialHeld
    BY DEF UsbInit, SerialHeld
  <2>3. BindingForeseen
    BY DEF UsbInit, BindingForeseen
  <2>4. DisabledByHelper
    <3>1. switches = 0 /\ helper = "read"
      BY DEF UsbInit
    <3> QED BY <3>1 DEF DisabledByHelper
  <2> QED BY <2>1, <2>2, <2>3, <2>4 DEF UsbInv
<1>2. UsbInv => SerialInstalled
  BY DEF UsbInv, UsbTypeOK, SerialHeld, BindingForeseen, DisabledByHelper, Allowed,
         SerialInstalled, IdentityPublished, GadgetBack
<1> QED BY <1>1, <1>2, UsbStep, PTL DEF UsbSpec
-----------------------------------------------------------------------------
(* IncrementalInstaller: once a run is past its checks the system was      *)
(* sound from the beginning, and the moves go on in order.                 *)
Sound(k) == first[k] = "base" \/ (k \in PayloadRows /\ first[k] = "new")

InstallTypeOK ==
    /\ first \in [1..Rows -> {"base", "new", "foreign"}]
    /\ target \in [1..Rows -> {"base", "new", "foreign"}]
    /\ hashes \in BOOLEAN /\ payload \in {"new", "foreign"} /\ row \in Nat \ {0}
    /\ step \in {"ended", "stage", "move"}

MovesForeseen ==
    hashes =>
        /\ step # "ended" => payload = "new" /\ \A k \in 1..Rows : Sound(k)
        /\ step = "move" => \A k \in PayloadRows : k < row => target[k] = "new"

InstallInv == InstallTypeOK /\ MovesForeseen /\ InstallRepeatable

\* The rows that a run with sha256sum accepts are sound ones, and no others.
LEMMA AcceptedIsSound ==
    ASSUME InstallInv, hashes
    PROVE  (\A k \in 1..Rows : Accepted(k)) <=> (\A k \in 1..Rows : Sound(k))
<1>0. \A k \in 1..Rows : k \in PayloadRows \/ k \in VerifyRows
  BY ManifestAssumption DEF PayloadRows, VerifyRows
<1>1. /\ target # first => \A k \in 1..Rows : Sound(k)
      /\ \A k \in 1..Rows : target[k] \in {first[k], "new"} /\ (k \in VerifyRows => target[k] = first[k])
  BY DEF InstallInv, InstallRepeatable, Sound
<1>2. ASSUME \A k \in 1..Rows : Accepted(k), NEW k \in 1..Rows PROVE Sound(k)
  BY <1>1, <1>2 DEF Accepted, Sound
<1>3. ASSUME \A k \in 1..Rows : Sound(k), NEW k \in 1..Rows PROVE Accepted(k)
  BY <1>0, <1>1, <1>3 DEF Accepted, Sound, PayloadRows, VerifyRows
<1> QED BY <1>2, <1>3

\* Steps that move nothing and do not end a run well.
LEMMA NothingMoved ==
    ASSUME InstallInv, InstallTypeOK', MovesForeseen', UNCHANGED <<target, first, hashes>>,
           exit' = "ok" => exit = "ok",
           hashes /\ exit' = "refused" => payload' = "foreign" \/ \E k \in 1..Rows : ~Sound(k)
    PROVE  InstallInv'
<1>1. InstallRepeatable'
  BY DEF InstallInv, InstallRepeatable, Sound
<1> QED BY <1>1 DEF InstallInv

LEMMA InstallStep == InstallInv /\ [InstallNext]_installVars => InstallInv'
<1> SUFFICES ASSUME InstallInv, [InstallNext]_installVars PROVE InstallInv'
  OBVIOUS
<1>0. Replaced \in Nat /\ Rows \in Nat /\ Replaced <= Rows /\ InstallTypeOK /\ MovesForeseen
  BY ManifestAssumption DEF InstallInv
<1>00. \A k \in PayloadRows : k \in 1..Rows /\ k \notin VerifyRows
  BY <1>0 DEF PayloadRows, VerifyRows
<1>1. ASSUME NEW damaged \in BOOLEAN, Validate(damaged) PROVE InstallInv'
  <2>1. UNCHANGED <<target, first, hashes>> /\ row' = 1
        /\ payload' = (IF damaged THEN "foreign" ELSE "new")
    BY <1>1 DEF Validate
  <2>2. \/ /\ step' = "ended" /\ exit' = "refused"
           /\ hashes /\ (damaged \/ \E k \in 1..Rows : ~Accepted(k))
        \/ /\ step' = "stage" /\ exit' = "none"
           /\ hashes => ~damaged /\ \A k \in 1..Rows : Accepted(k)
    BY <1>1 DEF Validate, Exit
  <2>3. InstallTypeOK'
    BY <1>0, <2>1, <2>2 DEF InstallTypeOK
  <2>4. hashes => ((\A k \in 1..Rows : Accepted(k)) <=> \A k \in 1..Rows : Sound(k))
    BY AcceptedIsSound
  <2>5. MovesForeseen'
    BY <2>1, <2>2, <2>4 DEF MovesForeseen, Sound
  <2> QED BY <2>1, <2>2, <2>3, <2>4, <2>5, NothingMoved
<1>2. CASE EarlyExit \/ Interrupted
  <2>1. UNCHANGED <<target, first, hashes, payload, row>> /\ step' = "ended"
        /\ exit' \in {"failed", "interrupted"}
    BY <1>2 DEF EarlyExit, Interrupted, Exit
  <2>2. InstallTypeOK' /\ MovesForeseen'
    BY <1>0, <2>1 DEF InstallTypeOK, MovesForeseen
  <2> QED BY <2>1, <2>2, NothingMoved
<1>3. ASSUME NEW ok \in BOOLEAN, Stage(ok) PROVE InstallInv'
  <2>1. /\ UNCHANGED <<target, first, hashes, payload>> /\ step = "stage"
        /\ \/ row' = row + 1 /\ UNCHANGED <<step, exit>>
           \/ step' = "ended" /\ exit' = "failed" /\ UNCHANGED row
    BY <1>3 DEF Stage, Exit
  <2>2. InstallTypeOK' /\ MovesForeseen'
    BY <1>0, <2>1 DEF InstallTypeOK, MovesForeseen, Sound
  <2> QED BY <2>1, <2>2, NothingMoved DEF InstallInv, InstallRepeatable, Sound
<1>4. CASE AllStaged
  <2>1. /\ UNCHANGED <<target, first, hashes, payload, exit>> /\ step = "stage"
        /\ step' = "move" /\ row' = 1
    BY <1>4 DEF AllStaged
  <2>2. InstallTypeOK' /\ MovesForeseen'
    BY <1>0, <2>1 DEF InstallTypeOK, MovesForeseen, Sound, PayloadRows
  <2> QED BY <2>1, <2>2, NothingMoved DEF InstallInv, InstallRepeatable, Sound
<1>5. ASSUME NEW result \in {"ok", "mv_failed", "check_failed"}, Move(result) PROVE InstallInv'
  <2>1. /\ UNCHANGED <<first, hashes, payload>> /\ step = "move" /\ row <= Replaced
        /\ target' = (IF result = "mv_failed" THEN target ELSE [target EXCEPT ![row] = payload])
        /\ \/ result = "ok" /\ row' = row + 1 /\ UNCHANGED <<step, exit>>
           \/ step' = "ended" /\ exit' = "failed" /\ UNCHANGED row
    BY <1>5 DEF Move, Exit
  <2>2. row \in PayloadRows /\ row \in 1..Rows
    <3>1. row \in Nat /\ row > 0
      BY <1>0 DEF InstallTypeOK
    <3> QED BY <1>0, <2>1, <3>1 DEF PayloadRows
  <2>3. InstallTypeOK'
    <3>1. target' \in [1..Rows -> {"base", "new", "foreign"}]
      BY <1>0, <2>1, <2>2 DEF InstallTypeOK
    <3>2. row' \in Nat \ {0}
      <4>1. row \in Nat \ {0}
        BY <1>0 DEF InstallTypeOK
      <4> QED BY <2>1, <4>1
    <3> QED BY <1>0, <2>1, <3>1, <3>2 DEF InstallTypeOK
  <2>4. hashes => payload = "new" /\ \A k \in 1..Rows : Sound(k)
    BY <1>0, <2>1 DEF MovesForeseen
  <2>5. \A k \in 1..Rows : target'[k] = target[k] \/ (k = row /\ target'[k] = payload)
    BY <1>0, <2>1, <2>2 DEF InstallTypeOK
  <2>6. MovesForeseen'
    <3>1. CASE step' = "ended"
      BY <3>1 DEF MovesForeseen
    <3>2. CASE step' # "ended"
      <4>1. row' = row + 1 /\ step' = "move" /\ target'[row] = payload
        BY <1>0, <2>1, <2>2, <3>2 DEF InstallTypeOK
      <4>2. \A k \in PayloadRows : k < row + 1 => k < row \/ k = row
        <5>1. row \in Nat
          BY <1>0 DEF InstallTypeOK
        <5> QED BY <5>1 DEF PayloadRows
      <4> QED BY <1>0, <1>00, <2>1, <2>4, <2>5, <4>1, <4>2 DEF MovesForeseen, Sound
    <3> QED BY <3>1, <3>2
  <2>7. InstallRepeatable'
    BY <1>00, <2>1, <2>2, <2>4, <2>5 DEF InstallInv, InstallRepeatable, Sound
  <2> QED BY <2>3, <2>6, <2>7 DEF InstallInv
<1>6. CASE Sync
  <2>1. /\ UNCHANGED <<target, first, hashes, payload, row>> /\ step = "move" /\ row > Replaced
        /\ step' = "ended" /\ exit' = "ok"
    BY <1>6 DEF Sync, Exit
  <2>2. InstallTypeOK' /\ MovesForeseen'
    BY <1>0, <2>1 DEF InstallTypeOK, MovesForeseen
  <2>3. \A k \in PayloadRows : k < row
    BY <1>0, <2>1 DEF InstallTypeOK, PayloadRows
  <2>4. hashes => \A k \in PayloadRows : target[k] = "new"
    BY <1>0, <2>1, <2>3 DEF MovesForeseen
  <2>5. InstallRepeatable'
    BY <2>1, <2>4 DEF InstallInv, InstallRepeatable
  <2> QED BY <2>2, <2>5 DEF InstallInv
<1>7. CASE UNCHANGED installVars
  BY <1>7 DEF installVars, InstallInv, InstallTypeOK, MovesForeseen, InstallRepeatable, Sound
<1> QED BY <1>1, <1>2, <1>3, <1>4, <1>5, <1>6, <1>7 DEF InstallNext

\* For a manifest of any length and any number of failed or interrupted runs:
\* a system with a foreign file is not touched, a run that ends well has put
\* every file in place, and a run that was cut short can be repeated
\* (the installer of make-system-lib-incremental-v5.sh).
THEOREM InstallerRepeats == InstallSpec => []InstallRepeatable
<1>1. InstallInit => InstallInv
  <2> SUFFICES ASSUME InstallInit PROVE InstallInv
    OBVIOUS
  <2>1. InstallTypeOK
    BY DEF InstallInit, InstallTypeOK
  <2>2. MovesForeseen /\ InstallRepeatable
    BY DEF InstallInit, MovesForeseen, InstallRepeatable
  <2> QED BY <2>1, <2>2 DEF InstallInv
<1>2. InstallInv => InstallRepeatable
  BY DEF InstallInv
<1> QED BY <1>1, <1>2, InstallStep, PTL DEF InstallSpec
-----------------------------------------------------------------------------
(* MbackKeys: the two events of a press wait in the queue, or the first    *)
(* one was handled and the key counts as held, or both were.               *)
Event == [kind : {"tap", "swipe", "up", "down"}, time : Nat, canceled : BOOLEAN]
Gesture == [e : Event, judged : BOOLEAN]

KeysTypeOK ==
    /\ now \in Nat /\ pressed \in BOOLEAN /\ mPhysicalHomeDown \in BOOLEAN
    /\ gpio \in Seq(Event) /\ fpc \in Seq(Event)
    /\ posted \in Seq(Gesture) /\ executed \in Seq(Gesture)
    /\ latest \in Nat /\ mLastPhysicalHomeUpTime \in Int
    /\ presses \subseteq [down : Nat, up : Int]

\* Nothing is known before it happens.
NothingFromTheFuture ==
    /\ latest <= now /\ -1 <= mLastPhysicalHomeUpTime /\ mLastPhysicalHomeUpTime <= latest
    /\ \A i \in DOMAIN gpio : gpio[i].time <= now
    /\ \A i \in DOMAIN fpc : fpc[i].time <= now
    /\ \A i \in DOMAIN posted : posted[i].e.time <= now
    /\ \A i \in DOMAIN executed : executed[i].e.time <= now
    /\ \A p \in presses : -1 <= p.up

\* The events that wait are in the order of time, and alternate.
QueueOrdered ==
    /\ \A i \in DOMAIN gpio : latest <= gpio[i].time
    /\ \A i, j \in DOMAIN gpio : i <= j => gpio[i].time <= gpio[j].time
    /\ gpio = <<>> => mPhysicalHomeDown = pressed
    /\ gpio # <<>> => /\ gpio[1].kind = (IF mPhysicalHomeDown THEN "up" ELSE "down")
                      /\ gpio[Len(gpio)].kind = (IF pressed THEN "down" ELSE "up")
    /\ \A i \in 1..(Len(gpio) - 1) : gpio[i + 1].kind = (IF gpio[i].kind = "up" THEN "down" ELSE "up")

\* The release of press p is the event at position i, or is still to come.
ReleaseAt(p, i) == IF i > Len(gpio) THEN p.up = -1 ELSE p.up = gpio[i].time

PressAccounted(p) ==
    \/ \E i \in DOMAIN gpio : gpio[i].kind = "down" /\ gpio[i].time = p.down /\ ReleaseAt(p, i + 1)
    \/ mPhysicalHomeDown /\ ReleaseAt(p, 1)
    \/ p.up # -1 /\ p.up <= mLastPhysicalHomeUpTime

\* A tap that was let through belongs to no press, and never will.
Clear(g) ==
    g.judged /\ g.e.kind = "tap" =>
        \A p \in presses : \/ g.e.time <= p.down
                           \/ p.up # -1 /\ p.up + PHYSICAL_HOME_TAP_COOLDOWN_MS < g.e.time

GesturesClear ==
    /\ \A i \in DOMAIN posted : Clear(posted[i])
    /\ \A i \in DOMAIN executed : Clear(executed[i])

KeysInv ==
    /\ KeysTypeOK /\ NothingFromTheFuture /\ QueueOrdered
    /\ \A p \in presses : PressAccounted(p)
    /\ GesturesClear

LEMMA AppendTo ==
    ASSUME NEW S, NEW q \in Seq(S), NEW x \in S
    PROVE  /\ Append(q, x) \in Seq(S) /\ Len(Append(q, x)) = Len(q) + 1
           /\ Append(q, x)[Len(q) + 1] = x /\ \A i \in DOMAIN q : Append(q, x)[i] = q[i]
           /\ Len(q) \in Nat /\ DOMAIN q = 1..Len(q) /\ DOMAIN Append(q, x) = 1..(Len(q) + 1)
OBVIOUS

LEMMA TailOf ==
    ASSUME NEW S, NEW q \in Seq(S), q # <<>>
    PROVE  /\ Tail(q) \in Seq(S) /\ Len(Tail(q)) = Len(q) - 1 /\ Len(q) \in Nat /\ Len(q) > 0
           /\ DOMAIN q = 1..Len(q) /\ DOMAIN Tail(q) = 1..(Len(q) - 1)
           /\ \A i \in 1..(Len(q) - 1) : Tail(q)[i] = q[i + 1]
           /\ Head(q) = q[1] /\ Head(q) \in S
OBVIOUS

\* What waits in the queues are events with a time.
LEMMA WaitingTyped ==
    ASSUME KeysInv
    PROVE  /\ \A i \in DOMAIN gpio : gpio[i] \in Event /\ gpio[i].time \in Nat
           /\ \A i \in DOMAIN fpc : fpc[i] \in Event /\ fpc[i].time \in Nat
           /\ \A i \in DOMAIN posted : posted[i] \in Gesture /\ posted[i].e.time \in Nat
           /\ \A i \in DOMAIN executed : executed[i] \in Gesture /\ executed[i].e.time \in Nat
<1>1. \A S : \A q \in Seq(S) : \A i \in DOMAIN q : q[i] \in S
  OBVIOUS
<1>2. /\ gpio \in Seq(Event) /\ fpc \in Seq(Event)
      /\ posted \in Seq(Gesture) /\ executed \in Seq(Gesture)
  BY DEF KeysInv, KeysTypeOK
<1>3. /\ \A i \in DOMAIN gpio : gpio[i] \in Event
      /\ \A i \in DOMAIN fpc : fpc[i] \in Event
      /\ \A i \in DOMAIN posted : posted[i] \in Gesture
      /\ \A i \in DOMAIN executed : executed[i] \in Gesture
  BY <1>1, <1>2
<1>4. \A x \in Event : x.time \in Nat
  BY DEF Event
<1>5. \A g \in Gesture : g.e.time \in Nat
  BY <1>4 DEF Gesture
<1> QED BY <1>3, <1>4, <1>5

\* Nothing that concerns the mechanical key changes.
keyState == <<pressed, gpio, mPhysicalHomeDown, mLastPhysicalHomeUpTime, presses, latest>>

LEMMA KeyFrame ==
    ASSUME KeysInv, UNCHANGED keyState
    PROVE  /\ QueueOrdered' /\ \A p \in presses' : PressAccounted(p)'
           /\ \A g : Clear(g)' <=> Clear(g)
BY DEF KeysInv, keyState, QueueOrdered, PressAccounted, ReleaseAt, Clear

LEMMA PassKeeps == ASSUME KeysInv, Pass PROVE KeysInv'
<1>1. now' = now + 1 /\ UNCHANGED <<keyState, fpc, posted, executed>>
  BY DEF Pass, keyState
<1>2. KeysTypeOK'
  BY <1>1 DEF KeysInv, KeysTypeOK, keyState
<1>3. NothingFromTheFuture'
  <2>1. \A t \in Nat : t <= now => t <= now'
    BY <1>1 DEF KeysInv, KeysTypeOK
  <2>2. /\ \A i \in DOMAIN gpio : gpio[i].time \in Nat
        /\ \A i \in DOMAIN fpc : fpc[i].time \in Nat
        /\ \A i \in DOMAIN posted : posted[i].e.time \in Nat
        /\ \A i \in DOMAIN executed : executed[i].e.time \in Nat
    BY WaitingTyped
  <2> QED BY <1>1, <2>1, <2>2 DEF KeysInv, KeysTypeOK, NothingFromTheFuture, keyState
<1>4. GesturesClear'
  BY <1>1, KeyFrame DEF KeysInv, GesturesClear
<1> QED BY <1>1, <1>2, <1>3, <1>4, KeyFrame DEF KeysInv

LEMMA TouchKeeps ==
    ASSUME KeysInv, NEW kind \in {"tap", "swipe"}, NEW canceled \in BOOLEAN, Touch(kind, canceled)
    PROVE  KeysInv'
<1> DEFINE x == KeyEvent(kind, canceled)
<1>1. fpc' = Append(fpc, x) /\ UNCHANGED <<keyState, now, posted, executed>>
  BY DEF Touch, keyState
<1>2. x \in Event /\ x.time = now
  BY DEF KeyEvent, Event, KeysInv, KeysTypeOK
<1>3. fpc \in Seq(Event) /\ now \in Nat
  BY DEF KeysInv, KeysTypeOK
<1> HIDE DEF x
<1>4. KeysTypeOK'
  <2>1. fpc' \in Seq(Event)
    BY <1>1, <1>2, <1>3, AppendTo
  <2> QED BY <1>1, <2>1 DEF KeysInv, KeysTypeOK, keyState
<1>5. NothingFromTheFuture'
  <2>1. \A i \in DOMAIN fpc' : fpc'[i].time <= now
    BY <1>1, <1>2, <1>3, AppendTo DEF KeysInv, NothingFromTheFuture
  <2> QED BY <1>1, <2>1 DEF KeysInv, NothingFromTheFuture, keyState
<1>6. GesturesClear'
  BY <1>1, KeyFrame DEF KeysInv, GesturesClear
<1> QED BY <1>1, <1>4, <1>5, <1>6, KeyFrame DEF KeysInv
LEMMA SwitchKeeps == ASSUME KeysInv, Switch PROVE KeysInv'
<1>1. UNCHANGED <<keyState, now, fpc, posted, executed>>
  BY DEF Switch, keyState
<1>2. KeysTypeOK' /\ NothingFromTheFuture'
  BY <1>1 DEF KeysInv, KeysTypeOK, NothingFromTheFuture, keyState
<1>3. GesturesClear'
  BY <1>1, KeyFrame DEF KeysInv, GesturesClear
<1> QED BY <1>1, <1>2, <1>3, KeyFrame DEF KeysInv

LEMMA PerformKeeps == ASSUME KeysInv, performGesture PROVE KeysInv'
<1>1. /\ posted # <<>> /\ posted' = Tail(posted) /\ UNCHANGED <<keyState, now, fpc>>
      /\ executed' = <<Head(posted)>> \/ executed' = <<>>
  BY DEF performGesture, keyState, environment
<1>2. posted \in Seq(Gesture)
  BY DEF KeysInv, KeysTypeOK
<1>3. posted' \in Seq(Gesture) /\ \A i \in DOMAIN posted' : \E j \in DOMAIN posted : posted'[i] = posted[j]
  BY <1>1, <1>2, TailOf
<1>4. executed' \in Seq(Gesture)
      /\ \A i \in DOMAIN executed' : \E j \in DOMAIN posted : executed'[i] = posted[j]
  <2>1. Head(posted) = posted[1] /\ 1 \in DOMAIN posted /\ Head(posted) \in Gesture
    BY <1>1, <1>2, TailOf
  <2>2. CASE executed' = <<Head(posted)>>
    BY <2>1, <2>2
  <2>3. CASE executed' = <<>>
    BY <2>3
  <2> QED BY <1>1, <2>2, <2>3
<1>5. KeysTypeOK' /\ NothingFromTheFuture'
  <2>1. KeysTypeOK'
    BY <1>1, <1>3, <1>4 DEF KeysInv, KeysTypeOK, keyState
  <2>2. /\ \A i \in DOMAIN posted' : posted'[i].e.time <= now
        /\ \A i \in DOMAIN executed' : executed'[i].e.time <= now
    BY <1>3, <1>4 DEF KeysInv, NothingFromTheFuture
  <2> QED BY <1>1, <2>1, <2>2 DEF KeysInv, NothingFromTheFuture, keyState
<1>6. GesturesClear'
  BY <1>1, <1>3, <1>4, KeyFrame DEF KeysInv, GesturesClear
<1> QED BY <1>1, <1>5, <1>6, KeyFrame DEF KeysInv

\* The heart of the matter: a tap that reaches the handler in the order of
\* time is either suppressed or belongs to no press.
LEMMA TapJudged ==
    ASSUME KeysInv, NEW e \in Event, InOrder(e), ~shouldSuppressUinputTap(e.time),
           NEW p \in presses
    PROVE  e.time <= p.down \/ (p.up # -1 /\ p.up + PHYSICAL_HOME_TAP_COOLDOWN_MS < e.time)
<1>0. /\ e.time \in Nat /\ p.down \in Nat /\ p.up \in Int /\ -1 <= p.up /\ latest \in Nat
      /\ mLastPhysicalHomeUpTime \in Int /\ mLastPhysicalHomeUpTime <= latest
      /\ PHYSICAL_HOME_TAP_COOLDOWN_MS \in Nat
  BY CooldownAssumption DEF KeysInv, KeysTypeOK, NothingFromTheFuture, Event
<1>1. latest <= e.time /\ \A i \in DOMAIN gpio : gpio[i].time >= e.time
  BY DEF InOrder
<1>2. PressAccounted(p) /\ ~mPhysicalHomeDown
  BY DEF KeysInv, shouldSuppressUinputTap
<1>3. CASE \E i \in DOMAIN gpio : gpio[i].time = p.down
  BY <1>0, <1>1, <1>3
<1>4. CASE p.up # -1 /\ p.up <= mLastPhysicalHomeUpTime
  BY <1>0, <1>1, <1>4 DEF shouldSuppressUinputTap
<1> QED BY <1>2, <1>3, <1>4 DEF PressAccounted

LEMMA HandleGestureKeeps == ASSUME KeysInv, HandleGesture PROVE KeysInv'
<1> DEFINE e == Head(fpc)
<1>0. PICK looks \in 0..2 :
        \/ UNCHANGED posted
        \/ /\ posted' = Append(posted, [e |-> e, judged |-> looks = 2 /\ InOrder(e)])
           /\ looks = 2 /\ e.kind = "tap" => ~shouldSuppressUinputTap(e.time)
  BY DEF HandleGesture
<1> DEFINE g == [e |-> e, judged |-> looks = 2 /\ InOrder(e)]
<1>1. /\ fpc # <<>> /\ fpc' = Tail(fpc) /\ UNCHANGED <<keyState, now, executed>>
      /\ \/ UNCHANGED posted
         \/ /\ posted' = Append(posted, g)
            /\ looks = 2 /\ e.kind = "tap" => ~shouldSuppressUinputTap(e.time)
  BY <1>0 DEF HandleGesture, keyState
<1>2. fpc \in Seq(Event) /\ posted \in Seq(Gesture) /\ now \in Nat
  BY DEF KeysInv, KeysTypeOK
<1>3. fpc' \in Seq(Event) /\ \A i \in DOMAIN fpc' : \E j \in DOMAIN fpc : fpc'[i] = fpc[j]
  BY <1>1, <1>2, TailOf
<1>4. e \in Event /\ e.time <= now
  <2>1. e = fpc[1] /\ 1 \in DOMAIN fpc /\ e \in Event
    BY <1>1, <1>2, TailOf
  <2> HIDE DEF e
  <2> QED BY <2>1 DEF KeysInv, NothingFromTheFuture
<1> HIDE DEF e
<1>5. g \in Gesture /\ g.e = e /\ (g.judged <=> looks = 2 /\ InOrder(e))
  <2>1. InOrder(e) \in BOOLEAN
    BY DEF InOrder
  <2> QED BY <1>4, <2>1 DEF Gesture
<1> HIDE DEF g
<1>6. posted' = Append(posted, g) => Clear(g)
  BY <1>1, <1>4, <1>5, TapJudged DEF Clear
<1>7. posted' \in Seq(Gesture)
      /\ \A i \in DOMAIN posted' : \/ i \in DOMAIN posted /\ posted'[i] = posted[i]
                                   \/ posted' = Append(posted, g) /\ posted'[i] = g
  <2>1. CASE UNCHANGED posted
    BY <1>2, <2>1
  <2>2. CASE posted' = Append(posted, g)
    <3>1. /\ Append(posted, g) \in Seq(Gesture) /\ Append(posted, g)[Len(posted) + 1] = g
          /\ \A i \in DOMAIN posted : Append(posted, g)[i] = posted[i]
          /\ Len(posted) \in Nat /\ DOMAIN posted = 1..Len(posted)
          /\ DOMAIN Append(posted, g) = 1..(Len(posted) + 1)
      BY <1>2, <1>5, AppendTo
    <3>2. \A i \in 1..(Len(posted) + 1) : i \in 1..Len(posted) \/ i = Len(posted) + 1
      BY <3>1
    <3> QED BY <2>2, <3>1, <3>2
  <2> QED BY <1>1, <2>1, <2>2
<1>8. KeysTypeOK'
  BY <1>1, <1>3, <1>7 DEF KeysInv, KeysTypeOK, keyState
<1>9. NothingFromTheFuture'
  <2>1. /\ \A i \in DOMAIN fpc' : fpc'[i].time <= now
        /\ \A i \in DOMAIN posted' : posted'[i].e.time <= now
    BY <1>3, <1>4, <1>5, <1>7 DEF KeysInv, NothingFromTheFuture
  <2> QED BY <1>1, <2>1 DEF KeysInv, NothingFromTheFuture, keyState
<1>10. GesturesClear'
  BY <1>1, <1>6, <1>7, KeyFrame DEF KeysInv, GesturesClear
<1> QED BY <1>1, <1>8, <1>9, <1>10, KeyFrame DEF KeysInv
\* The handler takes the first event of the mechanical key.
LEMMA HandleHomeKeeps == ASSUME KeysInv, HandleHome PROVE KeysInv'
<1> DEFINE e == gpio[1]
           n == Len(gpio)
<1>1. gpio \in Seq(Event) /\ gpio # <<>>
  BY DEF KeysInv, KeysTypeOK, HandleHome
<1>2. /\ Tail(gpio) \in Seq(Event) /\ Len(Tail(gpio)) = n - 1 /\ n \in Nat /\ n > 0
      /\ DOMAIN gpio = 1..n /\ DOMAIN Tail(gpio) = 1..(n - 1)
      /\ \A i \in 1..(n - 1) : Tail(gpio)[i] = gpio[i + 1]
      /\ Head(gpio) = e /\ e \in Event
  BY <1>1, TailOf
<1>3. /\ gpio' = Tail(gpio) /\ mPhysicalHomeDown' = (e.kind = "down") /\ latest' = e.time
      /\ mLastPhysicalHomeUpTime' = (IF e.kind = "up" THEN e.time ELSE mLastPhysicalHomeUpTime)
      /\ UNCHANGED <<now, pressed, fpc, posted, presses, executed>>
  BY <1>2 DEF HandleHome
<1>4. /\ e.time \in Nat /\ e.time <= now /\ latest <= e.time /\ now \in Nat /\ latest \in Nat
      /\ mLastPhysicalHomeUpTime \in Int /\ mLastPhysicalHomeUpTime <= latest
      /\ -1 <= mLastPhysicalHomeUpTime
      /\ \A i \in 1..n : gpio[i].time \in Nat /\ e.time <= gpio[i].time /\ gpio[i].time <= now
  <2>1. 1 \in DOMAIN gpio
    BY <1>2
  <2>2. \A i \in DOMAIN gpio : gpio[i].time \in Nat /\ e.time <= gpio[i].time /\ gpio[i].time <= now
    BY <1>2, <2>1, WaitingTyped DEF KeysInv, QueueOrdered, NothingFromTheFuture
  <2> QED BY <1>2, <2>1, <2>2 DEF KeysInv, KeysTypeOK, QueueOrdered, NothingFromTheFuture
<1>5. e.kind = (IF mPhysicalHomeDown THEN "up" ELSE "down")
  BY <1>1 DEF KeysInv, QueueOrdered
<1> HIDE DEF e, n
<1>6. KeysTypeOK'
  <2>1. gpio' \in Seq(Event) /\ latest' \in Nat /\ mLastPhysicalHomeUpTime' \in Int
    BY <1>2, <1>3, <1>4
  <2>2. mPhysicalHomeDown' \in BOOLEAN
    BY <1>3
  <2> QED BY <1>3, <2>1, <2>2 DEF KeysInv, KeysTypeOK
<1>7. NothingFromTheFuture'
  <2>1. \A i \in DOMAIN gpio' : gpio'[i].time <= now
    BY <1>2, <1>3, <1>4
  <2>2. latest' <= now /\ -1 <= mLastPhysicalHomeUpTime' /\ mLastPhysicalHomeUpTime' <= latest'
    BY <1>3, <1>4
  <2> QED BY <1>3, <2>1, <2>2 DEF KeysInv, NothingFromTheFuture
<1>8. QueueOrdered'
  <2>1. \A i \in DOMAIN gpio' : latest' <= gpio'[i].time
    BY <1>2, <1>3, <1>4
  <2>2. \A i, j \in DOMAIN gpio' : i <= j => gpio'[i].time <= gpio'[j].time
    <3>1. \A i, j \in 1..n : i <= j => gpio[i].time <= gpio[j].time
      BY <1>2 DEF KeysInv, QueueOrdered
    <3> QED BY <1>2, <1>3, <3>1
  <2>3. gpio' = <<>> => n = 1
    <3>1. gpio' = <<>> => Len(gpio') = 0
      OBVIOUS
    <3> QED BY <1>2, <1>3, <3>1
  <2>4. gpio[n].kind = (IF pressed THEN "down" ELSE "up")
    BY <1>1 DEF KeysInv, QueueOrdered, n
  <2>5. gpio' = <<>> => mPhysicalHomeDown' = pressed'
    BY <1>3, <2>3, <2>4 DEF KeysInv, KeysTypeOK, e
  <2>6. \A i \in 1..(n - 1) : gpio[i + 1].kind = (IF gpio[i].kind = "up" THEN "down" ELSE "up")
    BY DEF KeysInv, QueueOrdered, n
  <2>7. gpio' # <<>> => /\ gpio'[1].kind = (IF mPhysicalHomeDown' THEN "up" ELSE "down")
                        /\ gpio'[Len(gpio')].kind = (IF pressed' THEN "down" ELSE "up")
    <3> SUFFICES ASSUME gpio' # <<>>
                 PROVE  /\ gpio'[1].kind = (IF mPhysicalHomeDown' THEN "up" ELSE "down")
                        /\ gpio'[Len(gpio')].kind = (IF pressed' THEN "down" ELSE "up")
      OBVIOUS
    <3>1. n > 1
      BY <1>2, <1>3
    <3>2. gpio'[1] = gpio[2] /\ gpio'[Len(gpio')] = gpio[n]
      BY <1>2, <1>3, <3>1
    <3>3. gpio[2].kind = (IF gpio[1].kind = "up" THEN "down" ELSE "up")
      BY <1>2, <2>6, <3>1
    <3> QED BY <1>3, <1>5, <2>4, <3>2, <3>3 DEF e
  <2>8. \A i \in 1..(Len(gpio') - 1) :
          gpio'[i + 1].kind = (IF gpio'[i].kind = "up" THEN "down" ELSE "up")
    <3> SUFFICES ASSUME NEW i \in 1..(Len(gpio') - 1)
                 PROVE  gpio'[i + 1].kind = (IF gpio'[i].kind = "up" THEN "down" ELSE "up")
      OBVIOUS
    <3>1. i \in 1..(n - 2)
      BY <1>2, <1>3
    <3>2. gpio'[i] = gpio[i + 1] /\ gpio'[i + 1] = gpio[i + 2]
      BY <1>2, <1>3, <3>1
    <3>3. i + 1 \in 1..(n - 1) /\ (i + 1) + 1 = i + 2
      BY <1>2, <3>1
    <3>4. gpio[(i + 1) + 1].kind = (IF gpio[i + 1].kind = "up" THEN "down" ELSE "up")
      BY <2>6, <3>3
    <3> QED BY <3>2, <3>3, <3>4
  <2> QED BY <2>1, <2>2, <2>5, <2>7, <2>8 DEF QueueOrdered
<1>9. ASSUME NEW p \in presses PROVE PressAccounted(p)'
  <2>0. p.up \in Int
    BY DEF KeysInv, KeysTypeOK
  <2>1. ASSUME NEW i \in 1..n PROVE ReleaseAt(p, i + 1) => ReleaseAt(p, i)'
    BY <1>2, <1>3, <2>1 DEF ReleaseAt, n
  <2>2. CASE \E i \in DOMAIN gpio : /\ gpio[i].kind = "down" /\ gpio[i].time = p.down
                                    /\ ReleaseAt(p, i + 1)
    <3>1. PICK i \in 1..n : gpio[i].kind = "down" /\ gpio[i].time = p.down /\ ReleaseAt(p, i + 1)
      BY <1>2, <2>2
    <3>2. ReleaseAt(p, i)'
      BY <2>1, <3>1
    <3>3. CASE i = 1
      BY <1>3, <3>1, <3>2, <3>3 DEF PressAccounted, e
    <3>4. CASE i # 1
      <4>1. i - 1 \in DOMAIN gpio' /\ gpio'[i - 1] = gpio[i] /\ (i - 1) + 1 = i
        BY <1>2, <1>3, <3>4
      <4> QED BY <3>1, <3>2, <4>1 DEF PressAccounted
    <3> QED BY <3>3, <3>4
  <2>3. CASE mPhysicalHomeDown /\ ReleaseAt(p, 1)
    <3>1. e.kind = "up" /\ p.up = e.time
      BY <1>2, <1>5, <2>3 DEF ReleaseAt, e, n
    <3> QED BY <1>3, <1>4, <3>1 DEF PressAccounted
  <2>4. CASE p.up # -1 /\ p.up <= mLastPhysicalHomeUpTime
    <3>1. p.up <= mLastPhysicalHomeUpTime'
      BY <1>3, <1>4, <2>0, <2>4
    <3> QED BY <2>4, <3>1 DEF PressAccounted
  <2> QED BY <2>2, <2>3, <2>4 DEF KeysInv, PressAccounted
<1>10. GesturesClear'
  BY <1>3 DEF KeysInv, GesturesClear, Clear
<1> QED BY <1>3, <1>6, <1>7, <1>8, <1>9, <1>10 DEF KeysInv
\* The mechanical key goes down or up: one event more waits.
LEMMA PressKeeps == ASSUME KeysInv, PressOrRelease PROVE KeysInv'
<1> DEFINE x == KeyEvent(IF pressed THEN "up" ELSE "down", FALSE)
           n == Len(gpio)
<1>1. /\ gpio' = Append(gpio, x) /\ pressed' = ~pressed
      /\ UNCHANGED <<now, fpc, mPhysicalHomeDown, mLastPhysicalHomeUpTime, posted, latest, executed>>
  BY DEF PressOrRelease
<1>2. /\ gpio \in Seq(Event) /\ now \in Nat /\ pressed \in BOOLEAN
      /\ presses \subseteq [down : Nat, up : Int]
  BY DEF KeysInv, KeysTypeOK
<1>3. /\ x \in Event /\ x.time = now /\ x.kind = (IF pressed THEN "up" ELSE "down")
  BY <1>2 DEF KeyEvent, Event
<1> HIDE DEF x
<1>4. /\ gpio' \in Seq(Event) /\ Len(gpio') = n + 1 /\ gpio'[n + 1] = x
      /\ \A i \in 1..n : gpio'[i] = gpio[i]
      /\ n \in Nat /\ DOMAIN gpio = 1..n /\ DOMAIN gpio' = 1..(n + 1)
  BY <1>1, <1>2, <1>3, AppendTo
<1>5. \A i \in 1..n : gpio[i].time \in Nat /\ gpio[i].time <= now
  BY <1>4, WaitingTyped DEF KeysInv, NothingFromTheFuture
<1>6. gpio = <<>> <=> n = 0
  BY <1>2
<1> HIDE DEF n
<1>7. ASSUME NEW p \in presses'
      PROVE  \/ p \in presses /\ (pressed => p.up # -1)
             \/ pressed /\ p.up = now /\ \E q \in presses : q.up = -1 /\ p.down = q.down
             \/ ~pressed /\ p.down = now /\ p.up = -1
  <2>1. CASE pressed
    <3>1. presses' = {q \in presses : q.up # -1} \union
                     {[q EXCEPT !.up = now] : q \in {r \in presses : r.up = -1}}
      BY <2>1 DEF PressOrRelease
    <3> QED BY <1>2, <1>7, <2>1, <3>1
  <2>2. CASE ~pressed
    <3>1. presses' = presses \union {[down |-> now, up |-> -1]}
      BY <2>2 DEF PressOrRelease
    <3> QED BY <1>7, <2>2, <3>1
  <2> QED BY <2>1, <2>2
<1>8. presses' \subseteq [down : Nat, up : Int]
  <2>1. CASE pressed
    <3>1. presses' = {q \in presses : q.up # -1} \union
                     {[q EXCEPT !.up = now] : q \in {r \in presses : r.up = -1}}
      BY <2>1 DEF PressOrRelease
    <3> QED BY <1>2, <3>1
  <2>2. CASE ~pressed
    <3>1. presses' = presses \union {[down |-> now, up |-> -1]}
      BY <2>2 DEF PressOrRelease
    <3> QED BY <1>2, <3>1
  <2> QED BY <2>1, <2>2
<1>9. KeysTypeOK'
  <2>1. pressed' \in BOOLEAN
    BY <1>1
  <2> QED BY <1>1, <1>4, <1>8, <2>1 DEF KeysInv, KeysTypeOK
<1>10. NothingFromTheFuture'
  <2>1. \A i \in DOMAIN gpio' : gpio'[i].time <= now
    <3>1. \A i \in 1..(n + 1) : i \in 1..n \/ i = n + 1
      BY <1>4
    <3> QED BY <1>2, <1>3, <1>4, <1>5, <3>1
  <2>2. \A p \in presses' : -1 <= p.up
    BY <1>2, <1>7 DEF KeysInv, NothingFromTheFuture
  <2> QED BY <1>1, <2>1, <2>2 DEF KeysInv, NothingFromTheFuture
<1>11. QueueOrdered'
  <2>0. \A i \in 1..(n + 1) : i \in 1..n \/ i = n + 1
    BY <1>4
  <2>1. \A i \in DOMAIN gpio' : latest' <= gpio'[i].time
    BY <1>1, <1>3, <1>4, <2>0 DEF KeysInv, QueueOrdered, NothingFromTheFuture
  <2>2. \A i, j \in DOMAIN gpio' : i <= j => gpio'[i].time <= gpio'[j].time
    <3>1. \A i, j \in 1..n : i <= j => gpio[i].time <= gpio[j].time
      BY <1>4 DEF KeysInv, QueueOrdered
    <3>2. \A i \in 1..(n + 1) : gpio'[i].time <= now
      BY <1>2, <1>3, <1>4, <1>5, <2>0
    <3> SUFFICES ASSUME NEW i \in 1..(n + 1), NEW j \in 1..(n + 1), i <= j
                 PROVE  gpio'[i].time <= gpio'[j].time
      BY <1>4
    <3>3. CASE j = n + 1
      BY <1>3, <1>4, <3>2, <3>3
    <3>4. CASE j # n + 1
      <4>1. i \in 1..n /\ j \in 1..n
        BY <1>4, <3>4
      <4> QED BY <1>4, <3>1, <4>1
    <3> QED BY <3>3, <3>4
  <2>3. gpio' # <<>>
    <3>1. gpio' = <<>> => Len(gpio') = 0
      OBVIOUS
    <3> QED BY <1>4, <3>1
  <2>4. gpio'[1].kind = (IF mPhysicalHomeDown' THEN "up" ELSE "down")
    <3>1. CASE n = 0
      <4>1. gpio = <<>> /\ mPhysicalHomeDown = pressed
        BY <1>6, <3>1 DEF KeysInv, QueueOrdered
      <4>2. gpio'[1] = x
        BY <1>4, <3>1
      <4> QED BY <1>1, <1>3, <4>1, <4>2
    <3>2. CASE n # 0
      <4>1. gpio # <<>> /\ 1 \in 1..n
        BY <1>4, <1>6, <3>2
      <4> QED BY <1>1, <1>4, <4>1 DEF KeysInv, QueueOrdered
    <3> QED BY <3>1, <3>2
  <2>5. gpio'[Len(gpio')].kind = (IF pressed' THEN "down" ELSE "up")
    BY <1>1, <1>2, <1>3, <1>4
  <2>6. \A i \in 1..(Len(gpio') - 1) :
          gpio'[i + 1].kind = (IF gpio'[i].kind = "up" THEN "down" ELSE "up")
    <3> SUFFICES ASSUME NEW i \in 1..n
                 PROVE  gpio'[i + 1].kind = (IF gpio'[i].kind = "up" THEN "down" ELSE "up")
      BY <1>4
    <3>1. CASE i = n
      <4>1. gpio # <<>> /\ gpio[n].kind = (IF pressed THEN "down" ELSE "up")
        BY <1>4, <1>6, <3>1 DEF KeysInv, QueueOrdered, n
      <4> QED BY <1>3, <1>4, <3>1, <4>1
    <3>2. CASE i # n
      <4>1. i \in 1..(n - 1) /\ i + 1 \in 1..n
        BY <1>4, <3>2
      <4>2. gpio[i + 1].kind = (IF gpio[i].kind = "up" THEN "down" ELSE "up")
        BY <4>1 DEF KeysInv, QueueOrdered, n
      <4> QED BY <1>4, <4>1, <4>2
    <3> QED BY <3>1, <3>2
  <2> QED BY <2>1, <2>2, <2>3, <2>4, <2>5, <2>6 DEF QueueOrdered
<1>12. ASSUME NEW p \in presses' PROVE PressAccounted(p)'
  <2>0. p.up \in Int
    BY <1>8, <1>12
  <2>1. CASE ~pressed /\ p.down = now /\ p.up = -1
    <3>0. PICK last \in Nat : last = n + 1
      BY <1>4
    <3>1. last \in DOMAIN gpio' /\ gpio'[last].kind = "down" /\ gpio'[last].time = p.down
      BY <1>3, <1>4, <2>1, <3>0
    <3>2. ReleaseAt(p, last + 1)'
      BY <1>4, <2>1, <3>0 DEF ReleaseAt
    <3> QED BY <3>1, <3>2 DEF PressAccounted
  <2>2. CASE p \in presses /\ (pressed => p.up # -1)
    <3>1. ASSUME NEW i \in 1..(n + 1), ReleaseAt(p, i),
                 i = n + 1 => pressed
          PROVE  ReleaseAt(p, i)'
      BY <1>4, <2>2, <3>1 DEF ReleaseAt, n
    <3>2. CASE \E i \in DOMAIN gpio : /\ gpio[i].kind = "down" /\ gpio[i].time = p.down
                                      /\ ReleaseAt(p, i + 1)
      <4>1. PICK i \in 1..n : gpio[i].kind = "down" /\ gpio[i].time = p.down /\ ReleaseAt(p, i + 1)
        BY <1>4, <3>2
      <4>2. i + 1 = n + 1 => pressed
        <5>1. n # 0 => gpio[n].kind = (IF pressed THEN "down" ELSE "up")
          BY <1>6 DEF KeysInv, QueueOrdered, n
        <5> QED BY <1>4, <4>1, <5>1
      <4>3. ReleaseAt(p, i + 1)'
        <5>1. i + 1 \in 1..(n + 1)
          BY <1>4
        <5> QED BY <3>1, <4>1, <4>2, <5>1
      <4> QED BY <1>4, <4>1, <4>3 DEF PressAccounted
    <3>3. CASE mPhysicalHomeDown /\ ReleaseAt(p, 1)
      <4>1. 1 = n + 1 => pressed
        <5>1. 1 = n + 1 => gpio = <<>>
          BY <1>4, <1>6
        <5>2. gpio = <<>> => mPhysicalHomeDown = pressed
          BY DEF KeysInv, QueueOrdered
        <5> QED BY <3>3, <5>1, <5>2
      <4>2. 1 \in 1..(n + 1)
        BY <1>4
      <4> QED BY <1>1, <3>1, <3>3, <4>1, <4>2 DEF PressAccounted
    <3>4. CASE p.up # -1 /\ p.up <= mLastPhysicalHomeUpTime
      BY <1>1, <3>4 DEF PressAccounted
    <3> QED BY <2>2, <3>2, <3>3, <3>4 DEF KeysInv, PressAccounted
  <2>3. CASE pressed /\ p.up = now /\ \E q \in presses : q.up = -1 /\ p.down = q.down
    <3>1. PICK q \in presses : q.up = -1 /\ p.down = q.down
      BY <2>3
    <3>2. ASSUME NEW i \in 1..(n + 1), ReleaseAt(q, i) PROVE ReleaseAt(p, i)'
      <4>1. i = n + 1
        BY <1>4, <1>5, <3>1, <3>2 DEF ReleaseAt, n
      <4> QED BY <1>3, <1>4, <2>3, <4>1 DEF ReleaseAt
    <3>3. CASE \E i \in DOMAIN gpio : /\ gpio[i].kind = "down" /\ gpio[i].time = q.down
                                      /\ ReleaseAt(q, i + 1)
      <4>1. PICK i \in 1..n : gpio[i].kind = "down" /\ gpio[i].time = q.down /\ ReleaseAt(q, i + 1)
        BY <1>4, <3>3
      <4>2. ReleaseAt(p, i + 1)'
        <5>1. i + 1 \in 1..(n + 1)
          BY <1>4
        <5> QED BY <3>2, <4>1, <5>1
      <4> QED BY <1>4, <3>1, <4>1, <4>2 DEF PressAccounted
    <3>4. CASE mPhysicalHomeDown /\ ReleaseAt(q, 1)
      <4>1. 1 \in 1..(n + 1)
        BY <1>4
      <4> QED BY <1>1, <3>2, <3>4, <4>1 DEF PressAccounted
    <3> QED BY <3>1, <3>3, <3>4 DEF KeysInv, PressAccounted
  <2> QED BY <1>7, <1>12, <2>1, <2>2, <2>3
<1>13. GesturesClear'
  <2>1. ASSUME NEW g \in Gesture, g.e.time \in Nat, g.e.time <= now, Clear(g) PROVE Clear(g)'
    <3> SUFFICES ASSUME g.judged, g.e.kind = "tap", NEW p \in presses'
                 PROVE  \/ g.e.time <= p.down
                        \/ p.up # -1 /\ p.up + PHYSICAL_HOME_TAP_COOLDOWN_MS < g.e.time
      BY DEF Clear
    <3> QED BY <1>7, <2>1 DEF Clear
  <2> QED BY <1>1, <2>1, WaitingTyped DEF KeysInv, GesturesClear, NothingFromTheFuture
<1> QED BY <1>9, <1>10, <1>11, <1>12, <1>13 DEF KeysInv

LEMMA KeysStep == KeysInv /\ [KeysNext]_keyVars => KeysInv'
<1> SUFFICES ASSUME KeysInv, [KeysNext]_keyVars PROVE KeysInv'
  OBVIOUS
<1>1. CASE UNCHANGED keyVars
  <2>1. UNCHANGED <<keyState, now, fpc, posted, executed>>
    BY <1>1 DEF keyVars, keyState
  <2>2. KeysTypeOK' /\ NothingFromTheFuture'
    BY <2>1 DEF KeysInv, KeysTypeOK, NothingFromTheFuture, keyState
  <2>3. GesturesClear'
    BY <2>1, KeyFrame DEF KeysInv, GesturesClear
  <2> QED BY <2>1, <2>2, <2>3, KeyFrame DEF KeysInv
<1> QED BY <1>1, PassKeeps, PressKeeps, SwitchKeeps, HandleHomeKeeps, HandleGestureKeeps,
           PerformKeeps, TouchKeeps DEF KeysNext

\* For queues of any length: a tap of the uinput device that reaches the handler
\* in the order of time, and before that device is gone, is never carried out if
\* the mechanical key was held under it or had just been released
\* (MbackKeyPolicy.shouldSuppressUinputTap).
THEOREM PressesAreNotTaps == KeysSpec => []PressIsNotATap
<1>1. KeysInit => KeysInv
  <2> SUFFICES ASSUME KeysInit PROVE KeysInv
    OBVIOUS
  <2>1. KeysTypeOK
    <3>1. pressed \in BOOLEAN /\ mPhysicalHomeDown \in BOOLEAN
      BY DEF KeysInit
    <3>2. /\ now \in Nat /\ latest \in Nat /\ mLastPhysicalHomeUpTime \in Int
          /\ gpio = <<>> /\ fpc = <<>> /\ posted = <<>> /\ executed = <<>> /\ presses = {}
      BY DEF KeysInit
    <3> QED BY <3>1, <3>2 DEF KeysTypeOK
  <2>2. /\ gpio = <<>> /\ fpc = <<>> /\ posted = <<>> /\ executed = <<>> /\ presses = {}
        /\ now = 0 /\ latest = 0 /\ mLastPhysicalHomeUpTime = -1 /\ mPhysicalHomeDown = pressed
    BY DEF KeysInit
  <2>3. NothingFromTheFuture /\ GesturesClear
    BY <2>2 DEF NothingFromTheFuture, GesturesClear
  <2>4. QueueOrdered
    BY <2>2 DEF QueueOrdered
  <2> QED BY <2>1, <2>2, <2>3, <2>4 DEF KeysInv
<1>2. KeysInv => PressIsNotATap
  <2> SUFFICES ASSUME KeysInv, NEW i \in DOMAIN executed, executed[i].judged,
                      executed[i].e.kind = "tap", NEW p \in presses
               PROVE  ~(p.down < executed[i].e.time /\
                        (p.up = -1 \/ executed[i].e.time <= p.up + PHYSICAL_HOME_TAP_COOLDOWN_MS))
    BY DEF PressIsNotATap
  <2>1. \/ executed[i].e.time <= p.down
        \/ p.up # -1 /\ p.up + PHYSICAL_HOME_TAP_COOLDOWN_MS < executed[i].e.time
    BY DEF KeysInv, GesturesClear, Clear
  <2>2. executed[i].e.time \in Nat /\ p.down \in Nat /\ p.up \in Int
    BY WaitingTyped DEF KeysInv, KeysTypeOK
  <2> QED BY <2>1, <2>2, CooldownAssumption
<1> QED BY <1>1, <1>2, KeysStep, PTL DEF KeysSpec
-------------------------------------------------------------------------------
(* MbackMigration, for every number of threads, keys, values and failing   *)
(* writes.                                                                 *)

(***************************************************************************)
(* A key never holds a third value.  As long as no write was refused, a    *)
(* migrator leaves no hole behind it, and so does the version.  A migrator *)
(* about to write a key is one the user has not picked, or one that was    *)
(* picked under it.                                                        *)
(***************************************************************************)
TwoSources == \A k \in Keys : secure[k] \in {NULL, Migrated(k), chosen[k]}

NoHoles ==
    failures = 0 =>
        /\ \A m \in Migrators : \A k \in Keys : k < at[m] => secure[k] # NULL
        /\ version = MIGRATION_VERSION => \A k \in Keys : secure[k] # NULL

WritesForeseen ==
    \A m \in putting : at[m] \in Keys /\ (at[m] \notin hit => chosen[at[m]] = NULL)

ChoiceStays == \A k \in Keys \ hit : chosen[k] # NULL => secure[k] = chosen[k]

MigrationInv == MigrationTypeOK /\ TwoSources /\ NoHoles /\ WritesForeseen /\ ChoiceStays

\* Whatever was stored under the former key, an action results.
LEMMA MigratedIsAction ==
    ASSUME MigrationTypeOK, NEW k \in Keys
    PROVE  Migrated(k) \in Int
<1>1. legacy[k] \in Int \union {NULL} /\ Fallback[k] \in Int
  BY SettingsAssumption DEF MigrationTypeOK
<1> QED BY <1>1, SettingsAssumption DEF Migrated, translateLegacyAction

LEMMA MigrationStarts == MigrationInit => MigrationInv
<1> SUFFICES ASSUME MigrationInit PROVE MigrationInv
  OBVIOUS
<1>1. Last \in Nat /\ 0 # MIGRATION_VERSION
  BY SettingsAssumption DEF MIGRATION_VERSION
<1>2. MigrationTypeOK
  <2>1. 0 \in 0..(Last + 1) /\ 0 \in Nat
    BY <1>1
  <2>2. at \in [Migrators -> 0..(Last + 1)]
    BY <2>1 DEF MigrationInit
  <2>3. /\ secure \in [Keys -> Int \union {NULL}] /\ chosen \in [Keys -> Int \union {NULL}]
        /\ legacy \in [Keys -> Legacy \union {NULL}]
    BY DEF MigrationInit
  <2>4. open \in BOOLEAN /\ putting \subseteq Migrators /\ hit \subseteq Keys
    BY DEF MigrationInit
  <2> QED BY <2>1, <2>2, <2>3, <2>4 DEF MigrationInit, MigrationTypeOK
<1>3. NoHoles
  BY <1>1 DEF MigrationInit, NoHoles, Keys
<1> QED BY <1>2, <1>3 DEF MigrationInit, MigrationInv, TwoSources, WritesForeseen, ChoiceStays

\* Migrated(k) depends on the former values alone, which nobody writes.
LEMMA MigratedStable ==
    ASSUME UNCHANGED legacy, NEW k
    PROVE  Migrated(k)' = Migrated(k)
BY DEF Migrated

LEMMA BeginKeeps == ASSUME MigrationInv, NEW m \in Migrators, Begin(m) PROVE MigrationInv'
<1>1. UNCHANGED <<legacy, secure, version, putting, chosen, hit, failures>>
  BY DEF Begin
<1>2. at' = at \/ (at[m] = 0 /\ at' = [at EXCEPT ![m] = 1])
  BY DEF Begin
<1>3. Last \in Nat
  BY SettingsAssumption
<1>4. MigrationTypeOK'
  <2>1. open' \in BOOLEAN
    BY DEF MigrationInv, MigrationTypeOK, Begin
  <2>2. at' \in [Migrators -> 0..(Last + 1)]
    BY <1>2, <1>3 DEF MigrationInv, MigrationTypeOK
  <2> QED BY <1>1, <2>1, <2>2 DEF MigrationInv, MigrationTypeOK
<1>5. NoHoles'
  BY <1>1, <1>2, <1>3 DEF MigrationInv, MigrationTypeOK, NoHoles, Keys
<1>6. WritesForeseen'
  BY <1>1, <1>2, <1>3 DEF MigrationInv, MigrationTypeOK, WritesForeseen, Keys
<1>7. TwoSources' /\ ChoiceStays'
  BY <1>1, MigratedStable DEF MigrationInv, TwoSources, ChoiceStays
<1> QED BY <1>4, <1>5, <1>6, <1>7 DEF MigrationInv

LEMMA CheckKeeps == ASSUME MigrationInv, NEW m \in Migrators, Check(m) PROVE MigrationInv'
<1>1. UNCHANGED <<legacy, secure, version, open, chosen, hit, failures>> /\ at[m] \in Keys
  BY DEF Check
<1>2. \/ secure[at[m]] = NULL /\ putting' = putting \union {m} /\ UNCHANGED at
      \/ /\ secure[at[m]] # NULL /\ m \notin putting
         /\ at' = [at EXCEPT ![m] = @ + 1] /\ UNCHANGED putting
  BY DEF Check, KeyMissing
<1>3. Last \in Nat
  BY SettingsAssumption
<1>4. MigrationTypeOK'
  BY <1>1, <1>2, <1>3 DEF MigrationInv, MigrationTypeOK, Keys
<1>5. NoHoles'
  BY <1>1, <1>2, <1>3 DEF MigrationInv, MigrationTypeOK, NoHoles, Keys
<1>6. WritesForeseen'
  BY <1>1, <1>2, <1>3 DEF MigrationInv, MigrationTypeOK, WritesForeseen, ChoiceStays
<1>7. TwoSources' /\ ChoiceStays'
  BY <1>1, MigratedStable DEF MigrationInv, TwoSources, ChoiceStays
<1> QED BY <1>4, <1>5, <1>6, <1>7 DEF MigrationInv

LEMMA MigrateKeeps == ASSUME MigrationInv, NEW m \in Migrators, migrateAction(m) PROVE MigrationInv'
<1> DEFINE k == at[m]
<1>1. /\ UNCHANGED <<legacy, version, open, chosen, hit>> /\ m \in putting
      /\ putting' = putting \ {m} /\ at' = [at EXCEPT ![m] = @ + 1]
  BY DEF migrateAction
<1>2. k \in Keys /\ (k \notin hit => chosen[k] = NULL)
  BY <1>1 DEF MigrationInv, WritesForeseen
<1>3. Migrated(k) \in Int /\ NULL \notin Int
  BY <1>2, MigratedIsAction, SettingsAssumption DEF MigrationInv
<1>4. \/ secure' = [secure EXCEPT ![k] = Migrated(k)] /\ UNCHANGED failures
      \/ failures' = failures + 1 /\ UNCHANGED secure
  BY DEF migrateAction, Put
<1>5. Last \in Nat
  BY SettingsAssumption
<1> HIDE DEF k
<1>6. MigrationTypeOK'
  <2>1. at' \in [Migrators -> 0..(Last + 1)]
    BY <1>1, <1>2, <1>5 DEF MigrationInv, MigrationTypeOK, Keys, k
  <2> QED BY <1>1, <1>2, <1>3, <1>4, <2>1 DEF MigrationInv, MigrationTypeOK
<1>7. NoHoles'
  <2>1. CASE failures' # 0
    BY <2>1 DEF NoHoles
  <2>2. CASE failures' = 0
    <3>1. failures = 0 /\ secure' = [secure EXCEPT ![k] = Migrated(k)]
      BY <1>4, <2>2 DEF MigrationInv, MigrationTypeOK
    <3>2. \A j \in Keys : secure[j] # NULL => secure'[j] # NULL
      BY <1>3, <3>1 DEF MigrationInv, MigrationTypeOK
    <3>3. secure'[k] # NULL
      BY <1>2, <1>3, <3>1 DEF MigrationInv, MigrationTypeOK
    <3>4. \A n \in Migrators : \A j \in Keys : j < at'[n] => j < at[n] \/ j = k
      BY <1>1, <1>2, <1>5 DEF MigrationInv, MigrationTypeOK, Keys, k
    <3> QED BY <1>1, <3>1, <3>2, <3>3, <3>4 DEF MigrationInv, NoHoles
  <2> QED BY <2>1, <2>2
<1>8. WritesForeseen'
  BY <1>1 DEF MigrationInv, MigrationTypeOK, WritesForeseen
<1>9. TwoSources' /\ ChoiceStays'
  BY <1>1, <1>2, <1>4, MigratedStable DEF MigrationInv, MigrationTypeOK, TwoSources, ChoiceStays
<1> QED BY <1>6, <1>7, <1>8, <1>9 DEF MigrationInv

LEMMA FinishKeeps == ASSUME MigrationInv, NEW m \in Migrators, Finish(m) PROVE MigrationInv'
<1>1. /\ UNCHANGED <<legacy, secure, putting, chosen, hit>> /\ at[m] = Last + 1
      /\ at' = [at EXCEPT ![m] = 0]
      /\ \/ version' = MIGRATION_VERSION /\ UNCHANGED failures
         \/ failures' = failures + 1 /\ UNCHANGED version
  BY DEF Finish
<1>2. Last \in Nat
  BY SettingsAssumption
<1>3. MigrationTypeOK'
  BY <1>1, <1>2, SettingsAssumption DEF MigrationInv, MigrationTypeOK, Finish
<1>4. NoHoles'
  <2>1. \A k \in Keys : k < at[m]
    BY <1>1, <1>2 DEF Keys
  <2>2. \A n \in Migrators : \A k \in Keys : k < at'[n] => k < at[n]
    BY <1>1, <1>2 DEF MigrationInv, MigrationTypeOK, Keys
  <2>3. failures' = 0 => failures = 0
    BY <1>1 DEF MigrationInv, MigrationTypeOK
  <2> QED BY <1>1, <2>1, <2>2, <2>3 DEF MigrationInv, NoHoles
<1>5. WritesForeseen'
  BY <1>1, <1>2 DEF MigrationInv, MigrationTypeOK, WritesForeseen, Keys
<1>6. TwoSources' /\ ChoiceStays'
  BY <1>1, MigratedStable DEF MigrationInv, TwoSources, ChoiceStays
<1> QED BY <1>3, <1>4, <1>5, <1>6 DEF MigrationInv

LEMMA ChooseKeeps ==
    ASSUME MigrationInv, NEW k \in Pickable, NEW value \in Choices, Choose(k, value) PROVE MigrationInv'
<1>1. /\ UNCHANGED <<legacy, version, at, putting, open, failures>>
      /\ secure' = [secure EXCEPT ![k] = value] /\ chosen' = [chosen EXCEPT ![k] = value]
      /\ hit' = IF \E m \in putting : at[m] = k THEN hit \union {k} ELSE hit
  BY DEF Choose
<1>2. k \in Keys /\ value \in Int /\ value # NULL
  BY SettingsAssumption
<1>3. MigrationTypeOK'
  BY <1>1, <1>2 DEF MigrationInv, MigrationTypeOK
<1>4. \A j \in Keys : secure[j] # NULL => secure'[j] # NULL
  BY <1>1, <1>2 DEF MigrationInv, MigrationTypeOK
<1>5. NoHoles'
  BY <1>1, <1>4 DEF MigrationInv, NoHoles
<1>6. WritesForeseen'
  BY <1>1, <1>2 DEF MigrationInv, MigrationTypeOK, WritesForeseen
<1>7. TwoSources' /\ ChoiceStays'
  BY <1>1, <1>2, MigratedStable DEF MigrationInv, MigrationTypeOK, TwoSources, ChoiceStays
<1> QED BY <1>3, <1>5, <1>6, <1>7 DEF MigrationInv

LEMMA DieKeeps == ASSUME MigrationInv, NEW threads \in SUBSET Migrators, Die(threads) PROVE MigrationInv'
<1>1. /\ UNCHANGED <<legacy, secure, version, chosen, hit, failures>>
      /\ at' = [m \in Migrators |-> IF m \in threads THEN 0 ELSE at[m]]
      /\ putting' = putting \ threads
  BY DEF Die
<1>2. Last \in Nat
  BY SettingsAssumption
<1>3. MigrationTypeOK'
  BY <1>1, <1>2 DEF MigrationInv, MigrationTypeOK, Die
<1>4. NoHoles'
  BY <1>1, <1>2 DEF MigrationInv, MigrationTypeOK, NoHoles, Keys
<1>5. WritesForeseen'
  BY <1>1 DEF MigrationInv, MigrationTypeOK, WritesForeseen
<1>6. TwoSources' /\ ChoiceStays'
  BY <1>1, MigratedStable DEF MigrationInv, TwoSources, ChoiceStays
<1> QED BY <1>3, <1>4, <1>5, <1>6 DEF MigrationInv

LEMMA MigrationStep == MigrationInv /\ [MigrationNext]_migrationVars => MigrationInv'
<1> SUFFICES ASSUME MigrationInv, [MigrationNext]_migrationVars PROVE MigrationInv'
  OBVIOUS
<1>1. CASE UNCHANGED migrationVars
  BY <1>1, MigratedStable DEF migrationVars, MigrationInv, MigrationTypeOK, TwoSources, NoHoles,
     WritesForeseen, ChoiceStays
<1>2. ASSUME NEW m \in Migrators, Begin(m) \/ Check(m) \/ migrateAction(m) \/ Finish(m)
      PROVE  MigrationInv'
  BY <1>2, BeginKeeps, CheckKeeps, MigrateKeeps, FinishKeeps
<1>3. ASSUME NEW k \in Pickable, NEW value \in Choices, Choose(k, value) PROVE MigrationInv'
  BY <1>3, ChooseKeeps
<1>4. CASE Die({Screen}) \/ Die(Migrators \ {Screen})
  <2>1. {Screen} \in SUBSET Migrators /\ Migrators \ {Screen} \in SUBSET Migrators
    BY SettingsAssumption
  <2> QED BY <1>4, <2>1, DieKeeps
<1> QED BY <1>1, <1>2, <1>3, <1>4 DEF MigrationNext

(* However many threads migrate at once and wherever they die: a user      *)
(* counted as migrated has every setting, each with its translated former  *)
(* value or the user's own choice, and a choice is lost only to a migrator *)
(* that had looked before it was made (MbackContract.migrateIfNeeded).     *)
THEOREM MigrationKeepsSettings == MigrationSpec => []MigrationFaithful
<1>1. MigrationInv => MigrationFaithful
  BY DEF MigrationInv, TwoSources, NoHoles, ChoiceStays, MigrationFaithful
<1> QED BY <1>1, MigrationStarts, MigrationStep, PTL DEF MigrationSpec
=============================================================================
