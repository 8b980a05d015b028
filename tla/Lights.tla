-------------------------------- MODULE Lights --------------------------------
(***************************************************************************)
(* The lights HAL (lights/lights.c).  The devices of attention, battery    *)
(* and notifications share one indicator, whose node takes a mode in the   *)
(* bits 8..11 and a brightness below; every set_light() runs under g_lock  *)
(* and ends with one write, which may fail.                                *)
(***************************************************************************)
EXTENDS Integers

\* A color is <<red, green, blue>>; timed says that flashMode is not NONE, on
\* and off are flashOnMS and flashOffMS.
LightState == [color : [1..3 -> 0..255], timed : BOOLEAN, on : Int, off : Int]

CONSTANT LightStates    \* what the clients ask for

ASSUME LightsAssumption == LightStates \subseteq LightState

VARIABLES
    shown,      \* g_attention, g_battery, g_notification
    indicator, backlight,   \* the nodes
    stale       \* the last write to the indicator failed, or there was none yet

lightsVars == <<shown, indicator, backlight, stale>>

M86_LED_MODE_CURRENT == 256
M86_LED_MODE_BREATH == 512
M86_LED_MODE_TIMED_BLINK == 1024

Shared == {"attention", "battery", "notifications"}
Black == [color |-> <<0, 0, 0>>, timed |-> FALSE, on |-> 0, off |-> 0]

is_lit(s) == s.color # <<0, 0, 0>>

Weighted(s) == (77 * s.color[1] + 150 * s.color[2] + 29 * s.color[3]) \div 256

rgb_to_brightness(s) == IF Weighted(s) = 0 /\ is_lit(s) THEN 1 ELSE Weighted(s)

\* mode | brightness: a brightness has no bit of a mode.
encode_indicator(s, battery) ==
    LET mode == IF s.timed /\ s.on > 0 /\ s.off > 0 THEN M86_LED_MODE_TIMED_BLINK
                ELSE IF battery THEN M86_LED_MODE_BREATH ELSE M86_LED_MODE_CURRENT
    IN  IF is_lit(s) THEN mode + rgb_to_brightness(s) ELSE 0

\* Mutant: the charging light hides a notification.
BatteryFirst(all) == IF is_lit(all["battery"]) THEN "battery"
                     ELSE IF is_lit(all["notifications"]) THEN "notifications" ELSE "attention"

Winner(all) == IF is_lit(all["notifications"]) THEN "notifications"
               ELSE IF is_lit(all["attention"]) THEN "attention" ELSE "battery"

update_indicator(all) == encode_indicator(all[Winner(all)], Winner(all) = "battery")

\* What a node holds after a write, and whether the write came through.
write_int(node, value) == {[holds |-> value, ok |-> TRUE], [holds |-> node, ok |-> FALSE]}

set_light_backlight(s) ==
    /\ \E w \in write_int(backlight, rgb_to_brightness(s)) : backlight' = w.holds
    /\ UNCHANGED <<shown, indicator, stale>>

\* open_lights gives each name its own set_light.
set_light(name, s) ==
    /\ shown' = [shown EXCEPT ![name] = s]
    /\ \E w \in write_int(indicator, update_indicator(shown')) :
         indicator' = w.holds /\ stale' = ~w.ok
    /\ UNCHANGED backlight

LightsInit ==
    /\ shown = [name \in Shared |-> Black]
    /\ indicator = 0 /\ backlight = 0 /\ stale = TRUE

LightsNext ==
    \E s \in LightStates : set_light_backlight(s) \/ \E name \in Shared : set_light(name, s)

LightsSpec == LightsInit /\ [][LightsNext]_lightsVars
-------------------------------------------------------------------------------
(* Whatever the order of the calls and of failed writes: once a write came *)
(* through, the indicator is on exactly when one of its three users is     *)
(* lit, breathes only for the battery alone, blinks only for the user it   *)
(* belongs to, and has a brightness the driver takes for one.              *)
IndicatorTellsMostUrgent ==
    ~stale =>
        LET lit == {name \in Shared : is_lit(shown[name])}
            mode == 256 * (indicator \div 256)
            of == IF "notifications" \in lit THEN "notifications"
                  ELSE IF "attention" \in lit THEN "attention" ELSE "battery"
        IN  /\ lit = {} <=> indicator = 0
            /\ lit # {} => indicator % 256 > 0
            /\ mode = M86_LED_MODE_BREATH => lit = {"battery"}
            /\ mode = M86_LED_MODE_TIMED_BLINK => shown[of].timed
            /\ mode \in {0, M86_LED_MODE_CURRENT, M86_LED_MODE_BREATH, M86_LED_MODE_TIMED_BLINK}
===============================================================================
