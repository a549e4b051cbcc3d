------------------------------ MODULE LedStrip ------------------------------
(***************************************************************************)
(* What the strip shows (stairway_leds.c over ws2812.c).  Every LED has a  *)
(* state, which the animations set, and fades towards the brightness of    *)
(* that state; the emergency zones at both ends are lit on top.  A refresh *)
(* sends the strip only if something changed, and first follows a new      *)
(* led_count.  The settings may change at any moment in between.           *)
(***************************************************************************)
EXTENDS Integers

CONSTANTS
    StripMax,     \* LED_COUNT_MAX
    ByteMax,      \* the largest uint8_t
    Candidates    \* bound: settings that are asked for

Zone == {"down", "up"}
Strip == 0 .. StripMax - 1
Byte == 0 .. ByteMax

ASSUME StripAssumption == StripMax \in Nat \ {0} /\ ByteMax \in Nat \ {0}
ASSUME CandidatesAssumption ==
    \A s \in Candidates :
        /\ s.led_count \in Nat /\ s.emergency_cnt \in [Zone -> Nat]
        /\ {s.led_on_value, s.led_off_value, s.led_on_step, s.led_off_step} \subseteq Byte
        /\ {s.light_sensor_day_value, s.light_sensor_night_value} \subseteq Nat

VARIABLES
    settings,          \* the active settings
    led_count,         \* ws2812_handler.led_count
    led_state,         \* buf[].state
    led_value,         \* buf[].led_value
    emergency_state,
    shown              \* history: the brightness the LEDs were sent last

stripVars == <<led_count, led_state, led_value, shown>>
ledVars == <<settings, stripVars, emergency_state>>

-----------------------------------------------------------------------------
\* Mutant of Accepted: steps of zero are accepted.
AcceptedAnySteps(s) ==
    /\ s.led_count \in 1 .. StripMax
    /\ \A z \in Zone : s.emergency_cnt[z] =< s.led_count
    /\ s.light_sensor_day_value >= s.light_sensor_night_value

\* settings_validate
Accepted(s) ==
    /\ s.led_count \in 1 .. StripMax
    /\ \A z \in Zone : s.emergency_cnt[z] =< s.led_count
    /\ s.led_on_step # 0 /\ s.led_off_step # 0
    /\ s.light_sensor_day_value >= s.light_sensor_night_value

\* stairway_leds_init; the strip has just been powered.
LedInit ==
    /\ settings \in {s \in Candidates : Accepted(s)}
    /\ led_count = settings.led_count
    /\ led_state = [i \in Strip |-> FALSE]
    /\ led_value = [i \in Strip |-> 0]
    /\ emergency_state = [z \in Zone |-> FALSE]
    /\ shown = [i \in Strip |-> 0]

\* settings_apply
SetSettings(s) ==
    /\ Accepted(s)
    /\ settings' = s
    /\ UNCHANGED <<stripVars, emergency_state>>

\* stairway_leds_set_state with the newest event
SetState(i, on) ==
    /\ i < led_count
    /\ led_state' = [led_state EXCEPT ![i] = on]
    /\ UNCHANGED <<settings, led_count, led_value, emergency_state, shown>>

\* stairway_emergency_leds
SetEmergency(z, on) ==
    /\ emergency_state' = [emergency_state EXCEPT ![z] = on]
    /\ UNCHANGED <<settings, stripVars>>

-----------------------------------------------------------------------------
(* stairway_leds_refresh                                                   *)

Emergency(i) ==
    \/ emergency_state["down"] /\ i < settings.emergency_cnt["down"]
    \/ emergency_state["up"] /\ i + settings.emergency_cnt["up"] >= settings.led_count

Brighter(v) ==
    IF v + settings.led_on_step > settings.led_on_value
    THEN settings.led_on_value ELSE v + settings.led_on_step

\* Mutant of Darker: the value is not held at the goal.
DarkerBeyond(v) == v - settings.led_off_step

Darker(v) ==
    IF v - settings.led_off_step < settings.led_off_value
    THEN settings.led_off_value ELSE v - settings.led_off_step

FadesIn(i, on, v) == (on /\ v # settings.led_on_value) \/ Emergency(i)

FadesOut(on, v) == ~on /\ v # settings.led_off_value

Faded(i, on, v) ==
    IF FadesIn(i, on, v) THEN Brighter(v)
    ELSE IF FadesOut(on, v) THEN Darker(v)
    ELSE v

\* Mutant of Cleared: the old strip is not switched off.
ClearedNot == shown

\* ws2812_clear of the old strip, before it gets its new length
Cleared == [i \in Strip |-> IF i < led_count THEN 0 ELSE shown[i]]

Refresh ==
    LET count == settings.led_count
        resized == count # led_count
        on == [i \in Strip |-> ~resized /\ led_state[i]]
        v == [i \in Strip |-> IF resized THEN 0 ELSE led_value[i]]
        updated == \E i \in 0 .. count - 1 : FadesIn(i, on[i], v[i]) \/ FadesOut(on[i], v[i])
    IN  /\ led_count' = count
        /\ led_state' = on
        /\ led_value' = [i \in Strip |-> IF i < count THEN Faded(i, on[i], v[i]) ELSE v[i]]
        /\ shown' = [i \in Strip |->
                        IF updated /\ i < count THEN led_value'[i]
                        ELSE IF resized THEN Cleared[i]
                        ELSE shown[i]]
        /\ UNCHANGED <<settings, emergency_state>>

-----------------------------------------------------------------------------
LedTypeOK ==
    /\ settings \in Candidates
    /\ led_count \in 1 .. StripMax
    /\ led_state \in [Strip -> BOOLEAN]
    /\ led_value \in [Strip -> Byte]
    /\ emergency_state \in [Zone -> BOOLEAN]
    /\ shown \in [Strip -> Byte]

\* The LEDs show the values of the buffer although a refresh that changes
\* nothing is not sent, and those past the end of a strip that was shortened
\* are dark (stairway_leds.c 74-124, ws2812.c 56-86).
StripShowsBuffer ==
    \A i \in Strip : shown[i] = IF i < led_count THEN led_value[i] ELSE 0

Target(i) ==
    IF led_state[i] \/ Emergency(i) THEN settings.led_on_value ELSE settings.led_off_value
=============================================================================
