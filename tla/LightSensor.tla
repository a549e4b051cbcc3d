---------------------------- MODULE LightSensor -----------------------------
(***************************************************************************)
(* The light sensor (light_sensor.c): samples of an ADC go through an      *)
(* integer low-pass filter, whose division leaves a dead zone around the   *)
(* input, and through a trigger with hysteresis between two thresholds of  *)
(* the settings.                                                           *)
(***************************************************************************)
EXTENDS Integers

CONSTANTS
    AdcMax,        \* the largest value of the ADC
    FilterN,       \* FILTER_N
    FullScale      \* millivolts at AdcMax + 1

ASSUME AdcAssumption == AdcMax \in Nat /\ FullScale \in Nat
ASSUME FilterAssumption == FilterN \in Nat \ {0}

VARIABLES
    adc,             \* what the ADC would read
    filtered_adc,    \* NoSample, INT32_MAX in the code, before the first one
    trigger

sensorVars == <<adc, filtered_adc, trigger>>

NoSample == -1

LightInit ==
    /\ adc \in 0 .. AdcMax
    /\ filtered_adc = NoSample
    /\ trigger = FALSE

\* C rounds a quotient towards zero.
Quotient(a, b) == IF a >= 0 THEN a \div b ELSE -((-a) \div b)

Voltage(f) == (FullScale * f) \div (AdcMax + 1)

\* Mutant of Filter: the difference is unsigned, and too large to follow.
FilterUp(f) == IF adc < f THEN f ELSE f + Quotient(adc - f, FilterN)

Filter(f) == f + Quotient(adc - f, FilterN)

\* light_sensor_get_data; sampled: SAMPLE_PERIOD_MS have gone by.
GetData(sampled, day, night) ==
    /\ filtered_adc' = CASE filtered_adc = NoSample -> adc
                         [] filtered_adc # NoSample /\ sampled -> Filter(filtered_adc)
                         [] OTHER -> filtered_adc
    /\ trigger' = CASE Voltage(filtered_adc') > day -> TRUE
                    [] Voltage(filtered_adc') < night -> FALSE
                    [] OTHER -> trigger
    /\ UNCHANGED adc

\* The light changes.
Light(a) == adc' = a /\ UNCHANGED <<filtered_adc, trigger>>

-----------------------------------------------------------------------------
LightTypeOK ==
    /\ adc \in 0 .. AdcMax
    /\ filtered_adc \in 0 .. AdcMax \union {NoSample}
    /\ trigger \in BOOLEAN

\* Light beyond a threshold by more than the dead zone of the filter.
BrightFor(day) == adc >= FilterN /\ Voltage(adc - FilterN + 1) > day
DarkFor(night) == adc + FilterN =< AdcMax + 1 /\ Voltage(adc + FilterN - 1) < night
=============================================================================
