------------------------------ MODULE MbackKeys ------------------------------
(***************************************************************************)
(* KeyHandler.handleKeyEvent and MbackKeyPolicy: key-ups of the            *)
(* fingerprint area become actions, except a tap that belongs to a press   *)
(* of the mechanical key under it.  The two input devices queue their      *)
(* events independently; the handler runs on the input thread and posts    *)
(* what is to be done to the main looper.                                  *)
(***************************************************************************)
EXTENDS Integers, Sequences, FiniteSets

CONSTANTS
    PHYSICAL_HOME_TAP_COOLDOWN_MS,
    MaxTime,    \* bound on the clock
    MaxPresses, \* bound on the presses of the mechanical key
    MaxQueue    \* bound on the events of a device, and on the posts, that wait

ASSUME CooldownAssumption == PHYSICAL_HOME_TAP_COOLDOWN_MS \in Nat

VARIABLES
    now,
    pressed,    \* the mechanical key is held
    gpio, fpc,  \* events of the two devices that wait: [kind, time, canceled]
    mPhysicalHomeDown, mLastPhysicalHomeUpTime,
    enabled,    \* mBack navigation (force_show_navbar is 0)
    interactive,
    posted,     \* gestures in the main looper
    presses,    \* the spans of time the mechanical key was held
    latest,     \* time of the last event of the mechanical key that was handled
    executed    \* the last gesture carried out; judged: in order, by a known device

keyVars == <<now, pressed, gpio, fpc, mPhysicalHomeDown, mLastPhysicalHomeUpTime, enabled,
             interactive, posted, presses, latest, executed>>
environment == <<now, pressed, gpio, fpc, enabled, interactive>>

KeyEvent(kind, canceled) == [kind |-> kind, time |-> now, canceled |-> canceled]

Pass ==
    /\ now < MaxTime /\ now' = now + 1
    /\ UNCHANGED <<pressed, gpio, fpc, mPhysicalHomeDown, mLastPhysicalHomeUpTime, enabled,
                   interactive, posted, presses, latest, executed>>

PressOrRelease ==
    /\ Len(gpio) < MaxQueue /\ (~pressed => Cardinality(presses) < MaxPresses)
    /\ pressed' = ~pressed
    /\ gpio' = Append(gpio, KeyEvent(IF pressed THEN "up" ELSE "down", FALSE))
    /\ presses' = IF pressed THEN {p \in presses : p.up # -1} \union
                                  {[p EXCEPT !.up = now] : p \in {q \in presses : q.up = -1}}
                  ELSE presses \union {[down |-> now, up |-> -1]}
    /\ UNCHANGED <<now, fpc, mPhysicalHomeDown, mLastPhysicalHomeUpTime, enabled, interactive,
                   posted, latest, executed>>

\* The key-up of a tap (uinput-fpc) or of another gesture (fpc1020); key-downs
\* are consumed and do nothing.
Touch(kind, canceled) ==
    /\ Len(fpc) < MaxQueue
    /\ fpc' = Append(fpc, KeyEvent(kind, canceled))
    /\ UNCHANGED <<now, pressed, gpio, mPhysicalHomeDown, mLastPhysicalHomeUpTime, enabled,
                   interactive, posted, presses, latest, executed>>

Switch ==
    /\ \/ enabled' = ~enabled /\ UNCHANGED interactive
       \/ interactive' = ~interactive /\ UNCHANGED enabled
    /\ UNCHANGED <<now, pressed, gpio, fpc, mPhysicalHomeDown, mLastPhysicalHomeUpTime,
                   posted, presses, latest, executed>>

HandleHome ==
    /\ gpio # <<>>
    /\ LET e == Head(gpio)
       IN  /\ mPhysicalHomeDown' = (e.kind = "down")
           /\ mLastPhysicalHomeUpTime' = IF e.kind = "up" THEN e.time ELSE mLastPhysicalHomeUpTime
           /\ latest' = e.time
    /\ gpio' = Tail(gpio)
    /\ UNCHANGED <<now, pressed, fpc, enabled, interactive, posted, presses, executed>>

\* Mutant: the last instant of the cooldown does not count.
SuppressedBefore(tap) ==
    \/ mPhysicalHomeDown
    \/ /\ mLastPhysicalHomeUpTime >= 0 /\ tap >= mLastPhysicalHomeUpTime
       /\ tap - mLastPhysicalHomeUpTime < PHYSICAL_HOME_TAP_COOLDOWN_MS

shouldSuppressUinputTap(tap) ==
    \/ mPhysicalHomeDown
    \/ /\ mLastPhysicalHomeUpTime >= 0 /\ tap >= mLastPhysicalHomeUpTime
       /\ tap - mLastPhysicalHomeUpTime <= PHYSICAL_HOME_TAP_COOLDOWN_MS

\* The mechanical key's events up to this one were handled, and no later ones.
InOrder(e) == latest <= e.time /\ \A i \in DOMAIN gpio : gpio[i].time >= e.time

\* event.getDevice() is asked twice, by identifyGesture and at line 86, and says
\* null once the device is gone: the event is then none of the handler's, or the
\* gesture is posted without being judged as a tap.
HandleGesture ==
    /\ fpc # <<>> /\ Len(posted) < MaxQueue
    /\ \E looks \in 0..2 :
         LET e == Head(fpc)
             drop == \/ looks = 0 \/ e.canceled
                     \/ /\ looks = 2 /\ e.kind = "tap"
                        /\ shouldSuppressUinputTap(e.time) \/ ~interactive
             gesture == [e |-> e, judged |-> looks = 2 /\ InOrder(e)]
         IN  posted' = IF drop THEN posted ELSE Append(posted, gesture)
    /\ fpc' = Tail(fpc)
    /\ UNCHANGED <<now, pressed, gpio, mPhysicalHomeDown, mLastPhysicalHomeUpTime, enabled,
                   interactive, presses, latest, executed>>

performGesture ==
    /\ posted # <<>> /\ posted' = Tail(posted)
    /\ executed' = IF enabled THEN <<Head(posted)>> ELSE <<>>
    /\ UNCHANGED <<environment, mPhysicalHomeDown, mLastPhysicalHomeUpTime, presses, latest>>

KeysInit ==
    /\ now = 0 /\ pressed = FALSE /\ gpio = <<>> /\ fpc = <<>>
    /\ mPhysicalHomeDown = FALSE /\ mLastPhysicalHomeUpTime = -1
    /\ enabled = TRUE /\ interactive = TRUE /\ posted = <<>>
    /\ presses = {} /\ latest = 0 /\ executed = <<>>

KeysNext ==
    \/ Pass \/ PressOrRelease \/ Switch \/ HandleHome \/ HandleGesture \/ performGesture
    \/ \E kind \in {"tap", "swipe"}, canceled \in BOOLEAN : Touch(kind, canceled)

KeysSpec == KeysInit /\ [][KeysNext]_keyVars
------------------------------------------------------------------------------
(* No tap of the uinput device is carried out that was made while the      *)
(* mechanical key was held or within the cooldown after its release, if it *)
(* reached the handler in the order of time with the events of that key,   *)
(* and while its device was still there (lines 86-98).  Raw gestures of    *)
(* fpc1020 are never suppressed and are not claimed to be.                 *)
PressIsNotATap ==
    \A i \in DOMAIN executed :
        LET tap == executed[i].e
        IN  executed[i].judged /\ tap.kind = "tap" =>
                ~\E p \in presses : /\ p.down < tap.time
                                    /\ p.up = -1 \/ tap.time <= p.up + PHYSICAL_HOME_TAP_COOLDOWN_MS
==============================================================================
