---------------------------- MODULE Peripherals -----------------------------
(***************************************************************************)
(* The strip and the light sensor under settings that change while they    *)
(* are in use.  The main loop reads the sensor in every iteration and      *)
(* refreshes the strip in those LEDS_REFRESH_PERIOD apart; in between the  *)
(* animations, the emergency lights and the requests for new settings are  *)
(* arbitrary here (Stairway, EmergencyLights and SettingsStore have them). *)
(***************************************************************************)
EXTENDS LedStrip, LightSensor

peripheralVars == <<ledVars, sensorVars>>

PeripheralsInit == LedInit /\ LightInit

ReadLight(sampled) ==
    /\ GetData(sampled, settings.light_sensor_day_value, settings.light_sensor_night_value)
    /\ UNCHANGED ledVars

RefreshLeds == Refresh /\ UNCHANGED sensorVars

\* The main loop, the settings and the light; everything but the peripherals.
Disturbance ==
    \/ /\ \/ \E s \in Candidates : SetSettings(s)
          \/ \E i \in Strip, on \in BOOLEAN : SetState(i, on)
          \/ \E z \in Zone, on \in BOOLEAN : SetEmergency(z, on)
       /\ UNCHANGED sensorVars
    \/ \E a \in 0 .. AdcMax : Light(a) /\ UNCHANGED ledVars

PeripheralsNext ==
    \/ \E sampled \in BOOLEAN : ReadLight(sampled)
    \/ RefreshLeds
    \/ Disturbance

PeripheralsSpec == PeripheralsInit /\ [][PeripheralsNext]_peripheralVars

\* The main loop never stops, and takes the time of a sampling period.
PeripheralsFairSpec ==
    /\ PeripheralsSpec
    /\ WF_peripheralVars(ReadLight(TRUE))
    /\ WF_peripheralVars(RefreshLeds)

-----------------------------------------------------------------------------
PeripheralsTypeOK == LedTypeOK /\ LightTypeOK

\* When nothing changes any more every LED comes to the brightness of its state,
\* or of the emergency zone it is in, whichever settings it started under and
\* whatever steps settings_validate accepts (stairway_leds.c 95-115).
FadesEnd ==
    <>[][~Disturbance]_peripheralVars
        => <>[](\A i \in 0 .. led_count - 1 : led_value[i] = Target(i))

\* Day and night are told apart in spite of the filter's dead zone, as long as
\* the light is beyond the threshold by more than that zone, also when the
\* thresholds have moved (light_sensor.c 34-49).
LightIsFollowed ==
    <>[][~Disturbance]_peripheralVars
        => <>[](/\ BrightFor(settings.light_sensor_day_value) => trigger
                /\ DarkFor(settings.light_sensor_night_value) => ~trigger)
=============================================================================
