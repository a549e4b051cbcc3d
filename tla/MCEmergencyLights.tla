------------------------- MODULE MCEmergencyLights --------------------------
(* Instances of EmergencyLights for TLC.  The state of the LED strip and   *)
(* test mode have no influence on the emergency lights: the view leaves    *)
(* them out, and keeps ages as the view of MCStairway does.                *)
EXTENDS EmergencyLights, MCStairway

\* Faults of the SECOND sensors.
SecondFaultReadings == CleanReadings \union {R("near", "error"), R("far", "error")}
\* Faults of the FIRST sensors.
FirstFaultReadings == CleanReadings \union {R("error", "far")}

\* The clock reading the next comparison with ts will use, at the least.
CompareTs == IF pc \in {"sense", "refresh"} THEN now ELSE ts
AgeAtStart(t, limit) == Smaller(CompareTs - t, limit + 1)

EmergencyView ==
    << pc,
       IF pc \in {"sense", "refresh"} THEN <<>> ELSE <<sens, err, now - ts>>,
       block_by_light, det,
       [d \in Detector |-> IF det[d] = "IDLE" THEN 0 ELSE Age(det_ts[d], Debounce)],
       people_count, prev_people_count,
       IF people_count > 0 THEN <<last_det, Age(people_ts, OffTimeout)>> ELSE <<>>,
       run, cnt, led_count,
       AgeAtStart(tick_ts, LedInterval),
       [d \in Detector |-> IF emergency_sensor_on_ts[d] = 0 THEN -1
                           ELSE AgeAtStart(emergency_sensor_on_ts[d], ConfirmMs)],
       [d \in Detector |-> AgeAtStart(detector_block_ts[d], BlockMs)],
       emergency_on >>
=============================================================================
