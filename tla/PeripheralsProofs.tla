------------------------- MODULE PeripheralsProofs --------------------------
(***************************************************************************)
(* What the strip shows, proved for strips of any length and settings of   *)
(* any values: the invariant is the property together with the types and   *)
(* the fact that the active settings have been accepted, which bounds      *)
(* their led_count.  The light sensor is proved on its own: its filter     *)
(* never leaves the range of the ADC, on the way up nor on the way down.   *)
(***************************************************************************)
EXTENDS Peripherals, TLAPS

Inv == LedTypeOK /\ Accepted(settings) /\ StripShowsBuffer

LEMMA CandidateFacts ==
  ASSUME NEW s \in Candidates
  PROVE  /\ s.led_count \in Nat /\ s.emergency_cnt \in [Zone -> Nat]
         /\ s.led_on_value \in Byte /\ s.led_off_value \in Byte
         /\ s.led_on_step \in Byte /\ s.led_off_step \in Byte
  BY CandidatesAssumption

LEMMA InitInv ==
  ASSUME LedInit
  PROVE  Inv
<1>1. led_count \in 1 .. StripMax
  BY DEF LedInit, Accepted
<1>2. 0 \in Byte
  BY StripAssumption DEF Byte
<1> QED BY <1>1, <1>2 DEF LedInit, Inv, LedTypeOK, StripShowsBuffer

\* A fading step stays within a byte.
LEMMA FadedByte ==
  ASSUME settings \in Candidates, NEW i, NEW on, NEW v \in Byte
  PROVE  Faded(i, on, v) \in Byte
<1>1. Brighter(v) \in Byte
  BY CandidateFacts, StripAssumption DEF Brighter, Byte
<1>2. Darker(v) \in Byte
  BY CandidateFacts, StripAssumption DEF Darker, Byte
<1> QED BY <1>1, <1>2 DEF Faded

\* A refresh, for the lengths, states and values it goes on with.
LEMMA RefreshInv ==
  ASSUME Inv, Refresh
  PROVE  Inv'
<1> DEFINE count == settings.led_count
           resized == count # led_count
           on == [i \in Strip |-> ~resized /\ led_state[i]]
           v == [i \in Strip |-> IF resized THEN 0 ELSE led_value[i]]
           updated == \E i \in 0 .. count - 1 :
                          FadesIn(i, on[i], v[i]) \/ FadesOut(on[i], v[i])
<1>1. count \in 1 .. StripMax /\ led_count \in 1 .. StripMax
  BY DEF Inv, Accepted, LedTypeOK
<1>2. v \in [Strip -> Byte]
  BY StripAssumption DEF Inv, LedTypeOK, Byte
<1>3. /\ led_count' = count /\ led_state' = on
      /\ led_value' = [i \in Strip |-> IF i < count THEN Faded(i, on[i], v[i]) ELSE v[i]]
      /\ shown' = [i \in Strip |->
                      IF updated /\ i < count THEN led_value'[i]
                      ELSE IF resized THEN Cleared[i]
                      ELSE shown[i]]
      /\ settings' = settings /\ emergency_state' = emergency_state
  BY DEF Refresh
<1> HIDE DEF count, resized, on, v, updated
<1>4. led_value' \in [Strip -> Byte]
  BY <1>2, <1>3, FadedByte DEF Inv, LedTypeOK
<1>5. on \in [Strip -> BOOLEAN]
  BY DEF on, Inv, LedTypeOK
<1>6. Cleared \in [Strip -> Byte]
  BY StripAssumption DEF Cleared, Inv, LedTypeOK, Byte
<1>7. shown' \in [Strip -> Byte]
  BY <1>3, <1>4, <1>6 DEF Inv, LedTypeOK
<1>8. ASSUME NEW i \in Strip
      PROVE  shown'[i] = IF i < led_count' THEN led_value'[i] ELSE 0
  <2>1. CASE updated /\ i < count
    BY <1>3, <2>1
  <2>2. CASE ~updated /\ i < count
    <3>1. led_value'[i] = v[i]
      <4>1. i \in 0 .. count - 1
        BY <1>1, <2>2 DEF Strip
      <4> QED BY <1>3, <2>2, <4>1 DEF updated, Faded
    <3>2. CASE resized
      <4>1. Cleared[i] = 0
        BY <1>1 DEF Cleared, Inv, StripShowsBuffer, Strip
      <4> QED BY <1>3, <2>2, <3>1, <3>2, <4>1 DEF v
    <3>3. CASE ~resized
      BY <1>3, <2>2, <3>1, <3>3 DEF v, resized, Inv, StripShowsBuffer
    <3> QED BY <3>2, <3>3
  <2>3. CASE ~(i < count)
    <3>1. Cleared[i] = 0
      BY <1>1 DEF Cleared, Inv, StripShowsBuffer, Strip
    <3>2. ~resized => shown[i] = 0
      BY <2>3 DEF resized, Inv, StripShowsBuffer
    <3> QED BY <1>3, <2>3, <3>1, <3>2
  <2> QED BY <2>1, <2>2, <2>3
<1>9. Accepted(settings)'
  BY <1>3 DEF Inv, Accepted
<1> QED
  BY <1>1, <1>3, <1>4, <1>5, <1>7, <1>8, <1>9 DEF Inv, LedTypeOK, StripShowsBuffer

\* Nothing else that happens touches what the strip shows.
LEMMA NextInv ==
  ASSUME Inv, [PeripheralsNext]_peripheralVars
  PROVE  Inv'
<1>1. CASE \E sampled \in BOOLEAN : ReadLight(sampled)
  BY <1>1 DEF ReadLight, ledVars, stripVars, Inv, LedTypeOK, Accepted, StripShowsBuffer
<1>2. CASE RefreshLeds
  BY <1>2, RefreshInv DEF RefreshLeds
<1>3. CASE \E s \in Candidates : SetSettings(s)
  BY <1>3 DEF SetSettings, stripVars, Inv, LedTypeOK, Accepted, StripShowsBuffer
<1>4. CASE \E i \in Strip, on \in BOOLEAN : SetState(i, on)
  BY <1>4 DEF SetState, Inv, LedTypeOK, Accepted, StripShowsBuffer
<1>5. CASE \E z \in Zone, on \in BOOLEAN : SetEmergency(z, on)
  BY <1>5 DEF SetEmergency, stripVars, Inv, LedTypeOK, Accepted, StripShowsBuffer
<1>6. CASE UNCHANGED ledVars
  BY <1>6 DEF ledVars, stripVars, Inv, LedTypeOK, Accepted, StripShowsBuffer
<1> QED
  BY <1>1, <1>2, <1>3, <1>4, <1>5, <1>6 DEF PeripheralsNext, Disturbance, peripheralVars

THEOREM InvHolds == PeripheralsSpec => []Inv
<1>1. PeripheralsInit => Inv
  BY InitInv DEF PeripheralsInit
<1> QED BY <1>1, NextInv, PTL DEF PeripheralsSpec

\* The strip shows what is in the buffer, and nothing past its end, whatever the
\* settings, the lengths and the order of changes (stairway_leds.c, ws2812.c).
THEOREM BufferShown == PeripheralsSpec => []StripShowsBuffer
BY InvHolds, PTL DEF Inv

-----------------------------------------------------------------------------
\* A quotient of natural numbers does not exceed the dividend.
LEMMA QuotientBounds ==
  ASSUME NEW a \in Nat, NEW b \in Nat \ {0}
  PROVE  a \div b \in 0 .. a
<1> DEFINE q == a \div b
<1>1. q \in Int /\ b * q =< a /\ a < b * q + b
  BY SMT
<1>2. q >= 0
  <2>1. SUFFICES ASSUME q =< 0 - 1 PROVE FALSE
    BY <1>1
  <2>2. b * q =< 0 - b
    BY <1>1, <2>1
  <2> QED BY <1>1, <2>2
<1>3. q =< a
  <2>1. b * q >= q
    BY <1>1, <1>2
  <2> QED BY <1>1, <2>1
<1> QED BY <1>1, <1>2, <1>3

\* One step of the filter goes towards the sample and not past it.
LEMMA FilterStays ==
  ASSUME adc \in 0 .. AdcMax, NEW f \in 0 .. AdcMax
  PROVE  Filter(f) \in 0 .. AdcMax
<1>1. AdcMax \in Nat /\ FilterN \in Nat \ {0}
  BY AdcAssumption, FilterAssumption
<1>2. CASE adc >= f
  <2>1. adc - f \in Nat /\ adc - f >= 0
    BY <1>1, <1>2
  <2>2. (adc - f) \div FilterN \in 0 .. adc - f
    BY <1>1, <2>1, QuotientBounds
  <2>3. Quotient(adc - f, FilterN) \in 0 .. adc - f
    BY <2>1, <2>2 DEF Quotient
  <2> QED BY <1>1, <2>3 DEF Filter
<1>3. CASE ~(adc >= f)
  <2>1. f - adc \in Nat /\ ~(adc - f >= 0) /\ -(adc - f) = f - adc
    BY <1>1, <1>3
  <2>2. (f - adc) \div FilterN \in 0 .. f - adc
    BY <1>1, <2>1, QuotientBounds
  <2>3. Quotient(adc - f, FilterN) = -((f - adc) \div FilterN)
    BY <2>1 DEF Quotient
  <2> DEFINE q == (f - adc) \div FilterN
  <2> HIDE DEF q
  <2>4. q \in 0 .. f - adc /\ Filter(f) = f + (-q)
    BY <2>2, <2>3 DEF Filter, q
  <2> QED BY <1>1, <2>4
<1> QED BY <1>2, <1>3

\* The light sensor keeps its types under everything that happens.
LEMMA LightInv ==
  ASSUME LightTypeOK, [PeripheralsNext]_peripheralVars
  PROVE  LightTypeOK'
<1>1. ASSUME NEW sampled \in BOOLEAN, ReadLight(sampled) PROVE LightTypeOK'
  <2>1. GetData(sampled, settings.light_sensor_day_value, settings.light_sensor_night_value)
    BY <1>1 DEF ReadLight
  <2>2. filtered_adc' \in 0 .. AdcMax \union {NoSample}
    <3>1. CASE filtered_adc = NoSample
      BY <2>1, <3>1 DEF GetData, LightTypeOK
    <3>2. CASE filtered_adc # NoSample
      <4>1. Filter(filtered_adc) \in 0 .. AdcMax
        BY <3>2, FilterStays DEF LightTypeOK
      <4> QED BY <2>1, <3>2, <4>1 DEF GetData, LightTypeOK
    <3> QED BY <3>1, <3>2
  <2>3. trigger' \in BOOLEAN /\ adc' = adc
    BY <2>1 DEF GetData, LightTypeOK
  <2> QED BY <2>2, <2>3 DEF LightTypeOK
<1>2. ASSUME NEW a \in 0 .. AdcMax, Light(a) PROVE LightTypeOK'
  BY <1>2 DEF Light, LightTypeOK
<1>3. CASE UNCHANGED sensorVars
  BY <1>3 DEF sensorVars, LightTypeOK
<1> QED
  BY <1>1, <1>2, <1>3 DEF PeripheralsNext, RefreshLeds, Disturbance, peripheralVars

\* The types of strip and light sensor: no brightness leaves its byte and the
\* filtered light stays within the range of the ADC, for any settings, filter
\* and samples (stairway_leds.c 95-115, light_sensor.c 27-53).
THEOREM PeripheralsTypes == PeripheralsSpec => []PeripheralsTypeOK
<1>1. PeripheralsInit => LightTypeOK
  BY DEF PeripheralsInit, LightInit, LightTypeOK
<1>2. PeripheralsSpec => []LightTypeOK
  BY <1>1, LightInv, PTL DEF PeripheralsSpec
<1>3. Inv /\ LightTypeOK => PeripheralsTypeOK
  BY DEF Inv, PeripheralsTypeOK
<1> QED BY <1>2, <1>3, InvHolds, PTL
=============================================================================
